--------------------------- MODULE MCGroupContext ---------------------------
(* One group of two members, each one with a passive line, each with a request. *)
EXTENDS GroupContext

CONSTANTS u1, u2, p1, r1, r2

MCSpeakerOf == [h \in Heard |-> IF h \in {p1, r1} THEN u1 ELSE u2]
MCLow == {r1, Reply(r1)}
MCWeight == [l \in Lines |-> IF l \in {p1, r2} THEN 2 ELSE 1]
=============================================================================
