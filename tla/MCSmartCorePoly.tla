-------------------------- MODULE MCSmartCorePoly --------------------------
(***************************************************************************)
(* Instances of SmartCorePoly for TLC.                                     *)
(***************************************************************************)
EXTENDS SmartCorePoly

\* Two routes to one output, a route from a jack the module does not have,
\* and an output no route ends at.
OneOutTwoRoutes == <<[input |-> "in2", output |-> "out1"],
                     [input |-> "in1", output |-> "out1"],
                     [input |-> "in9", output |-> "out1"]>>
=============================================================================
