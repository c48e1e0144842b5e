--------------------------- MODULE MCMemoryBuffer ---------------------------
(* A small instance of the memory buffers: one requester with enough messages
   to overflow its buffer, and another one beside it. *)
EXTENDS MemoryBuffer, TLC

CONSTANTS r1, r2, a, b, c, e

MCSender == (a :> r1) @@ (b :> r1) @@ (c :> r1) @@ (e :> r2)
=============================================================================
