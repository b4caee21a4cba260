------------------------------ MODULE WeakRef ------------------------------
(***************************************************************************)
(* What weak pointers promise: a pointer refers to the object last assigned *)
(* to it for as long as that object lives, and to none afterwards, also     *)
(* when another object is later made at the same address.                   *)
(***************************************************************************)
EXTENDS FiniteSets

CONSTANTS Ptrs,   \* the weak pointers
          Objs,   \* the addresses at which objects are made
          Nil     \* nullptr

VARIABLES alive,    \* the addresses with an object
          refers    \* the object each pointer refers to, or Nil

wvars == <<alive, refers>>

Init ==
    /\ alive = {}
    /\ refers = [p \in Ptrs |-> Nil]

New(o) ==
    /\ o \notin alive
    /\ alive' = alive \union {o}
    /\ UNCHANGED refers

Delete(o) ==
    /\ o \in alive
    /\ alive' = alive \ {o}
    /\ refers' = [p \in Ptrs |-> IF refers[p] = o THEN Nil ELSE refers[p]]

Assign(p, o) ==
    /\ o \in alive \union {Nil}
    /\ refers' = [refers EXCEPT ![p] = o]
    /\ UNCHANGED alive

Next ==
    \/ \E o \in Objs : New(o) \/ Delete(o)
    \/ \E p \in Ptrs, o \in Objs \union {Nil} : Assign(p, o)

Spec == Init /\ [][Next]_wvars
=============================================================================
