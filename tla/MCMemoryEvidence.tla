------------------------- MODULE MCMemoryEvidence ---------------------------
(***************************************************************************)
(* A habit, the city and the address of one Owner, a note of one group, and*)
(* a command of that Owner in each of two groups.                          *)
(*                                                                         *)
(* All of it at once is too much for one run, which explores two parts: the*)
(* pool, beside one command and without records of any other origin, over  *)
(* several batches; and all commands and direct writes within one batch,   *)
(* with one reference each.                                                *)
(***************************************************************************)
EXTENDS MemoryEvidence, TLC

CONSTANTS habit, note, address, city, owner, g1, g2, c1, c2

VARIABLE part

MCScopeOf == [k \in Keys |-> IF k = note THEN g1 ELSE owner]
MCReach == [c \in Commands |-> {owner, IF c = c1 THEN g1 ELSE g2}]

PartInit == Init /\ part \in {"pool", "commands"} /\ (part = "pool" => records = Empty)

\* A command that holds the habit and may delete it.
PoolStep ==
  /\ c2 \in fresh' /\ \A c \in DOMAIN shown' : shown'[c] # Empty
  /\ \A k \in DOMAIN records' :
       /\ k = habit /\ admitted'[k] # <<>>
       /\ k \in DOMAIN records => records'[k] = records[k]

CommandStep ==
  /\ UNCHANGED poolVars
  /\ \A k \in DOMAIN records' : records'[k].id > issued => records'[k].count = 1

PartNext == UNCHANGED part /\ Next /\ IF part = "pool" THEN PoolStep ELSE CommandStep

PartSpec == PartInit /\ [][PartNext]_<<vars, part>>

Symmetry == Permutations(Refs)
=============================================================================
