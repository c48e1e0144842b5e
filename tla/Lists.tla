-------------------------------- MODULE Lists ---------------------------------
(***************************************************************************)
(* What the code does to its arrays with filter, sort and reduce.  Loops   *)
(* are recursive functions and a sort is stated by ranks, so that ListProofs*)
(* can say what these operators return for every sequence.                 *)
(***************************************************************************)
EXTENDS Integers, Sequences, FiniteSets

\* The items of a sequence at these places, in their order.
Those(seq, places) ==
  LET first[n \in 0 .. Len(seq)] ==
        IF n = 0 THEN <<>>
        ELSE IF n \in places THEN Append(first[n - 1], seq[n]) ELSE first[n - 1]
  IN  first[Len(seq)]

\* The items in the order of how many others are earlier.
ByRank(seq, earlier) ==
  [k \in DOMAIN seq |-> seq[CHOOSE i \in DOMAIN seq : Cardinality(earlier[i]) = k - 1]]

\* The sum of a sequence of numbers.
Total(ns) ==
  LET sum[n \in 0 .. Len(ns)] == IF n = 0 THEN 0 ELSE sum[n - 1] + ns[n]
  IN  sum[Len(ns)]
===============================================================================
