------------------------------- MODULE SizeT -------------------------------
(***************************************************************************)
(* Unsigned indices that only grow, and wrap at IndexRange (2^32 for the    *)
(* size_t of the target), as the ring buffers of dsp/ringbuffer.hpp use     *)
(* them.                                                                    *)
(***************************************************************************)
EXTENDS Integers

CONSTANT IndexRange     \* 2^w, for a size_t of w bits

Indices == 0 .. IndexRange - 1

\* x + n and x - y, modulo IndexRange.
Plus(x, n)  == IF x + n < IndexRange THEN x + n ELSE x + n - IndexRange
Minus(x, y) == IF y <= x THEN x - y ELSE x - y + IndexRange
=============================================================================
