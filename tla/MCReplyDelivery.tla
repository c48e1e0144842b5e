-------------------------- MODULE MCReplyDelivery ---------------------------
(* Small instances of the reply path: a group message that is delivered twice,
   on two sockets, and a private command of the Owner behind one of them. *)
EXTENDS ReplyDelivery

CONSTANTS c1, c2, c3, m1, m2, s1, s2, g1

MCMessageOf == [c \in Calls |-> IF c = c3 THEN m2 ELSE m1]
MCSocketOf == [c \in Calls |-> IF c = c2 THEN s2 ELSE s1]
MCConversationOf == [m \in Requests |-> IF m = m1 THEN g1 ELSE OwnerDirect]
=============================================================================
