------------------------------ MODULE ListProofs ------------------------------
(***************************************************************************)
(* What the operators of Lists return, for every sequence, and the         *)
(* induction and recursion over numbers those proofs need.                 *)
(***************************************************************************)
EXTENDS Lists, SequenceTheorems, FiniteSetTheorems, NaturalsInduction,
        WellFoundedInduction, TLAPS

-----------------------------------------------------------------------------
(* Induction and recursion over numbers.                                    *)

\* Every nonempty set of numbers has a least one.
LEMMA LeastElement ==
  ASSUME NEW S \in SUBSET Nat, S # {}
  PROVE  \E m \in S : \A j \in S : m <= j
<1> DEFINE Below == {ss \in Nat \X Nat : ss[1] < ss[2]}
<1>1. IsWellFoundedOn(Below, S)
  BY NatLessThanWellFounded, IsWellFoundedOnSubset DEF OpToRel
<1>2. PICK m \in S : \A j \in S : ~(<<j, m>> \in Below)
  <2> HIDE DEF Below
  <2> QED BY <1>1, WFMin
<1>3. ASSUME NEW j \in S PROVE m <= j
  <2>1. j \in Nat /\ m \in Nat
    OBVIOUS
  <2>2. <<j, m>> \in Below <=> j < m
    BY <2>1
  <2> QED BY <1>2, <2>1, <2>2
<1> QED BY <1>3

\* Induction up to N, for a set of numbers.
LEMMA StepByStep ==
  ASSUME NEW N \in Nat, NEW Good, 0 \in Good, \A n \in 1 .. N : n - 1 \in Good => n \in Good
  PROVE  \A n \in 0 .. N : n \in Good
<1> DEFINE Bad == {n \in 0 .. N : n \notin Good}
<1>1. SUFFICES ASSUME Bad # {} PROVE FALSE
  OBVIOUS
<1>2. PICK m \in Bad : \A j \in Bad : m <= j
  <2>1. Bad \in SUBSET Nat
    OBVIOUS
  <2> HIDE DEF Bad
  <2> QED BY <1>1, <2>1, LeastElement
<1>3. m \in 1 .. N /\ m - 1 \in 0 .. N /\ ~(m <= m - 1)
  BY <1>2
<1>4. m - 1 \in Good
  BY <1>2, <1>3
<1> QED BY <1>2, <1>3, <1>4

FollowsSteps(f, base, step, N) == f[0] = base /\ \A n \in 1 .. N : f[n] = step[n][f[n - 1]]

\* A function of 0, 1, ..., N is given by its first value and one step for each of the others.
LEMMA Recursion ==
  ASSUME NEW T, NEW base \in T, NEW N \in Nat, NEW step \in [1 .. N -> [T -> T]]
  PROVE  \E f \in [0 .. N -> T] : FollowsSteps(f, base, step, N)
<1> DEFINE Upto(m) == \E f \in [0 .. m -> T] : f[0] = base /\ \A n \in 1 .. m : f[n] = step[n][f[n - 1]]
           Good == {m \in 0 .. N : Upto(m)}
<1>1. Upto(0)
  <2> DEFINE f == [n \in 0 .. 0 |-> base]
  <2>1. f \in [0 .. 0 -> T] /\ f[0] = base /\ \A n \in 1 .. 0 : f[n] = step[n][f[n - 1]]
    OBVIOUS
  <2> HIDE DEF f
  <2> QED BY <2>1
<1>2. ASSUME NEW m \in 1 .. N, Upto(m - 1) PROVE Upto(m)
  <2>1. PICK f \in [0 .. (m - 1) -> T] :
          f[0] = base /\ \A n \in 1 .. (m - 1) : f[n] = step[n][f[n - 1]]
    BY <1>2
  <2> DEFINE g == [n \in 0 .. m |-> IF n = m THEN step[m][f[m - 1]] ELSE f[n]]
  <2>2. m - 1 \in 0 .. (m - 1) /\ f[m - 1] \in T
    OBVIOUS
  <2>3. g \in [0 .. m -> T]
    <3>1. step[m][f[m - 1]] \in T
      BY <2>2
    <3>2. ASSUME NEW n \in 0 .. m, n # m PROVE f[n] \in T
      BY <3>2
    <3> QED BY <3>1, <3>2
  <2>4. g[0] = base
    BY <2>1
  <2>5. ASSUME NEW n \in 1 .. m PROVE g[n] = step[n][g[n - 1]]
    <3>1. g[n - 1] = f[n - 1]
      OBVIOUS
    <3>2. CASE n = m
      BY <3>1, <3>2
    <3>3. CASE n # m
      <4>1. n \in 1 .. (m - 1)
        BY <3>3
      <4>2. g[n] = f[n]
        BY <3>3
      <4> QED BY <2>1, <3>1, <4>1, <4>2
    <3> QED BY <3>2, <3>3
  <2> HIDE DEF g
  <2> QED BY <2>3, <2>4, <2>5
<1>3. 0 \in Good /\ \A n \in 1 .. N : n - 1 \in Good => n \in Good
  <2> HIDE DEF Upto
  <2> QED BY <1>1, <1>2
<1>4. \A m \in 0 .. N : m \in Good
  <2> HIDE DEF Good
  <2> QED BY <1>3, StepByStep
<1>5. N \in 0 .. N
  OBVIOUS
<1> QED BY <1>4, <1>5 DEF FollowsSteps

-----------------------------------------------------------------------------
(* Sequences.                                                               *)

\* Every element of a sequence over S is in S.
LEMMA SeqElement ==
  ASSUME NEW S, NEW s \in Seq(S), NEW k \in DOMAIN s
  PROVE  s[k] \in S
  OBVIOUS

\* A sequence over S is one over any larger set.
LEMMA SeqWiden ==
  ASSUME NEW S, NEW T, S \subseteq T, NEW s \in Seq(S)
  PROVE  s \in Seq(T)
  OBVIOUS

-----------------------------------------------------------------------------
(* Some of the items of a sequence.                                         *)

\* The items of `kept` are those of the sequence at the places, item k the one at at[k].
ArePicked(kept, at, seq, places) ==
  /\ at \in [DOMAIN kept -> DOMAIN seq]
  /\ \A k \in DOMAIN kept : at[k] \in places /\ kept[k] = seq[at[k]]
  /\ \A k, l \in DOMAIN kept : k < l => at[k] < at[l]
  /\ \A i \in places \cap DOMAIN seq : \E k \in DOMAIN kept : at[k] = i

\* Those keeps the items at the given places, each once and in their order.
LEMMA ThoseProperties ==
  ASSUME NEW S, NEW seq \in Seq(S), NEW places
  PROVE  /\ Those(seq, places) \in Seq(S)
         /\ \E at : ArePicked(Those(seq, places), at, seq, places)
<1> DEFINE N == Len(seq)
           Item(f, n) == IF n \in places THEN Append(f[n - 1], seq[n]) ELSE f[n - 1]
           IsFirst(f) == f = [n \in 0 .. N |-> IF n = 0 THEN <<>> ELSE Item(f, n)]
           first == CHOOSE f : IsFirst(f)
<1>0. N \in Nat /\ DOMAIN seq = 1 .. N
  OBVIOUS
<1>1. \E f : IsFirst(f)
  <2> DEFINE step == [n \in 1 .. N |-> [s \in Seq(S) |->
                        IF n \in places THEN Append(s, seq[n]) ELSE s]]
  <2>1. ASSUME NEW n \in 1 .. N, NEW s \in Seq(S) PROVE Append(s, seq[n]) \in Seq(S)
    BY <1>0
  <2>2. step \in [1 .. N -> [Seq(S) -> Seq(S)]]
    BY <2>1
  <2>3. <<>> \in Seq(S)
    OBVIOUS
  <2> DEFINE T == Seq(S)
  <2>4. PICK f \in [0 .. N -> T] : f[0] = <<>> /\ \A n \in 1 .. N : f[n] = step[n][f[n - 1]]
    <3> DEFINE base == <<>>
    <3>1. step \in [1 .. N -> [T -> T]] /\ base \in T
      BY <2>2, <2>3
    <3> HIDE DEF step, N, T, base
    <3>2. \E f \in [0 .. N -> T] : FollowsSteps(f, base, step, N)
      BY <1>0, <3>1, Recursion
    <3> USE DEF base
    <3> QED BY <3>2 DEF FollowsSteps
  <2>5. ASSUME NEW n \in 1 .. N PROVE f[n] = Item(f, n)
    <3>1. f[n - 1] \in Seq(S)
      BY <1>0
    <3> QED BY <2>4, <3>1
  <2>6. ASSUME NEW n \in 0 .. N PROVE f[n] = IF n = 0 THEN <<>> ELSE Item(f, n)
    <3> HIDE DEF Item, N
    <3> QED BY <1>0, <2>4, <2>5
  <2>7. f = [n \in 0 .. N |-> f[n]]
    OBVIOUS
  <2>8. IsFirst(f)
    <3> HIDE DEF Item, N
    <3> QED BY <2>6, <2>7
  <2> QED BY <2>8
<1>2. IsFirst(first)
  <2> HIDE DEF IsFirst
  <2> QED BY <1>1
<1>3. Those(seq, places) = first[N]
  BY DEF Those
<1>4. first[0] = <<>> /\ \A n \in 1 .. N : first[n] = Item(first, n)
  <2> HIDE DEF first
  <2>1. first = [n \in 0 .. N |-> IF n = 0 THEN <<>> ELSE Item(first, n)]
    BY <1>2
  <2> HIDE DEF Item, N
  <2>2. 0 \in 0 .. N /\ \A n \in 1 .. N : n \in 0 .. N /\ n # 0
    BY <1>0
  <2> QED BY <2>1, <2>2
<1> HIDE DEF first, IsFirst
<1> DEFINE Fits(n, at) ==
             /\ at \in [DOMAIN first[n] -> 1 .. n]
             /\ \A k \in DOMAIN first[n] : at[k] \in places /\ first[n][k] = seq[at[k]]
             /\ \A k, l \in DOMAIN first[n] : k < l => at[k] < at[l]
             /\ \A i \in places \cap (1 .. n) : \E k \in DOMAIN first[n] : at[k] = i
           Good == {n \in 0 .. N : first[n] \in Seq(S) /\ \E at : Fits(n, at)}
<1>5. 0 \in Good
  <2>1. DOMAIN <<>> = {}
    OBVIOUS
  <2>2. Fits(0, <<>>)
    BY <1>4, <2>1
  <2>3. first[0] \in Seq(S) /\ 0 \in 0 .. N
    <3> HIDE DEF N
    <3> QED BY <1>0, <1>4
  <2> HIDE DEF Fits, N
  <2> QED BY <2>2, <2>3
<1>6. ASSUME NEW n \in 1 .. N, n - 1 \in Good PROVE n \in Good
  <2>1. first[n - 1] \in Seq(S) /\ n \in 0 .. N
    BY <1>0, <1>6
  <2>2. PICK at : Fits(n - 1, at)
    BY <1>6
  <2>3. CASE n \notin places
    <3>1. first[n] = first[n - 1]
      BY <1>4, <2>3
    <3>2. places \cap (1 .. n) = places \cap (1 .. (n - 1))
      BY <1>0, <2>3
    <3>3. \A i \in 1 .. (n - 1) : i \in 1 .. n
      BY <1>0
    <3>4. Fits(n, at)
      <4> HIDE DEF N
      <4> QED BY <2>2, <3>1, <3>2, <3>3
    <3> QED BY <2>1, <3>1, <3>4
  <2>4. CASE n \in places
    <3> DEFINE old == first[n - 1]
               more == [k \in 1 .. (Len(old) + 1) |-> IF k = Len(old) + 1 THEN n ELSE at[k]]
    <3>1. first[n] = Append(old, seq[n]) /\ seq[n] \in S
      <4>1. first[n] = Item(first, n)
        BY <1>4
      <4>2. seq[n] \in S
        BY <1>0
      <4> QED BY <2>4, <4>1, <4>2
    <3>2. /\ Append(old, seq[n]) \in Seq(S) /\ DOMAIN Append(old, seq[n]) = 1 .. (Len(old) + 1)
          /\ DOMAIN old = 1 .. Len(old) /\ Len(old) \in Nat
          /\ \A k \in 1 .. Len(old) : Append(old, seq[n])[k] = old[k]
          /\ Append(old, seq[n])[Len(old) + 1] = seq[n]
      <4> HIDE DEF old
      <4>1. old \in Seq(S)
        BY <2>1 DEF old
      <4> QED BY <3>1, <4>1, AppendProperties
    <3>3. at \in [1 .. Len(old) -> 1 .. (n - 1)]
      BY <2>2, <3>2
    <3>4. more \in [1 .. (Len(old) + 1) -> 1 .. n]
      <4> HIDE DEF old
      <4>1. \A k \in 1 .. Len(old) : at[k] \in 1 .. n
        BY <1>0, <3>3
      <4> QED BY <3>2, <4>1, <1>0
    <3>5. \A k \in 1 .. (Len(old) + 1) : more[k] \in places /\ first[n][k] = seq[more[k]]
      <4>1. \A k \in 1 .. Len(old) : at[k] \in places /\ old[k] = seq[at[k]]
        BY <2>2, <3>2
      <4> HIDE DEF old
      <4>2. \A k \in 1 .. (Len(old) + 1) : k = Len(old) + 1 \/ k \in 1 .. Len(old)
        BY <3>2
      <4>3. \A k \in 1 .. Len(old) : more[k] = at[k]
        BY <3>2
      <4>4. more[Len(old) + 1] = n
        BY <3>2
      <4> HIDE DEF more
      <4> QED BY <2>4, <3>1, <3>2, <4>1, <4>2, <4>3, <4>4
    <3>6. ASSUME NEW k \in 1 .. (Len(old) + 1), NEW l \in 1 .. (Len(old) + 1), k < l
          PROVE  more[k] < more[l]
      <4>1. \A i, j \in 1 .. Len(old) : i < j => at[i] < at[j]
        BY <2>2, <3>2
      <4> HIDE DEF old
      <4>2. k \in 1 .. Len(old) /\ more[k] = at[k] /\ at[k] \in 1 .. (n - 1)
        BY <3>2, <3>3, <3>6, SMTT(20)
      <4>3. CASE l = Len(old) + 1
        BY <1>0, <4>2, <4>3
      <4>4. CASE l # Len(old) + 1
        BY <3>2, <3>6, <4>1, <4>2, <4>4
      <4> QED BY <4>3, <4>4
    <3>7. ASSUME NEW i \in places \cap (1 .. n) PROVE \E k \in 1 .. (Len(old) + 1) : more[k] = i
      <4>1. \A j \in places \cap (1 .. (n - 1)) : \E k \in 1 .. Len(old) : at[k] = j
        BY <2>2, <3>2
      <4> HIDE DEF old
      <4>2. CASE i = n
        BY <3>2, <4>2
      <4>3. CASE i # n
        <5>1. i \in places \cap (1 .. (n - 1))
          BY <1>0, <4>3
        <5>2. PICK k \in 1 .. Len(old) : at[k] = i
          BY <4>1, <5>1
        <5> QED BY <3>2, <5>2
      <4> QED BY <4>2, <4>3
    <3>8. Fits(n, more)
      <4> HIDE DEF more
      <4>1. DOMAIN first[n] = 1 .. (Len(old) + 1)
        BY <3>1, <3>2
      <4> HIDE DEF old
      <4> QED BY <3>4, <3>5, <3>6, <3>7, <4>1
    <3>9. first[n] \in Seq(S) /\ n \in 0 .. N
      <4> HIDE DEF old, N
      <4> QED BY <2>1, <3>1, <3>2
    <3> HIDE DEF Fits, more, N
    <3> QED BY <3>8, <3>9
  <2> QED BY <2>3, <2>4
<1>7. N \in Good
  <2> HIDE DEF Good, N
  <2> QED BY <1>0, <1>5, <1>6, StepByStep
<1>8. PICK at : Fits(N, at)
  BY <1>7
<1>9. ArePicked(first[N], at, seq, places)
  <2> HIDE DEF N
  <2> QED BY <1>0, <1>8 DEF ArePicked
<1>10. first[N] \in Seq(S)
  BY <1>7
<1> HIDE DEF N
<1> QED BY <1>3, <1>9, <1>10

-----------------------------------------------------------------------------
(* Items in the order of their ranks.                                       *)

\* In a strict total order of 1, 2, ..., n the numbers below one are its rank: every rank
\* from 0 to n - 1 is taken.
LEMMA Ranks ==
  ASSUME NEW n \in Nat, NEW below \in [1 .. n -> SUBSET (1 .. n)],
         \A i \in 1 .. n : i \notin below[i],
         \A i, j \in 1 .. n : j \in below[i] => below[j] \subseteq below[i],
         \A i, j \in 1 .. n : i # j => i \in below[j] \/ j \in below[i]
  PROVE  /\ \A i, j \in 1 .. n : j \in below[i] => Cardinality(below[j]) < Cardinality(below[i])
         /\ \A i \in 1 .. n : Cardinality(below[i]) \in 0 .. (n - 1)
         /\ \A k \in 1 .. n : \E i \in 1 .. n : Cardinality(below[i]) = k - 1
<1> DEFINE D == 1 .. n
           R == 0 .. (n - 1)
           rank == [i \in D |-> Cardinality(below[i])]
<1>1. IsFiniteSet(D) /\ Cardinality(D) = n /\ IsFiniteSet(R) /\ Cardinality(R) = n
  <2>1. 0 \in Int /\ 1 \in Int /\ n \in Int /\ n - 1 \in Int
    OBVIOUS
  <2>2. IsFiniteSet(D) /\ Cardinality(D) = IF 1 > n THEN 0 ELSE n - 1 + 1
    BY <2>1, FS_Interval
  <2>3. IsFiniteSet(R) /\ Cardinality(R) = IF 0 > n - 1 THEN 0 ELSE (n - 1) - 0 + 1
    BY <2>1, FS_Interval
  <2> HIDE DEF D, R
  <2> QED BY <2>2, <2>3
<1>2. ASSUME NEW i \in D PROVE IsFiniteSet(below[i]) /\ Cardinality(below[i]) \in R
  <2> HIDE DEF D, R
  <2>1. below[i] \in SUBSET (D \ {i})
    BY DEF D
  <2>2. IsFiniteSet(D \ {i}) /\ Cardinality(D \ {i}) = n - 1
    BY <1>1, FS_RemoveElement
  <2>3. IsFiniteSet(below[i]) /\ Cardinality(below[i]) <= n - 1
    BY <2>1, <2>2, FS_Subset
  <2>4. Cardinality(below[i]) \in Nat
    BY <2>3, FS_CardinalityType
  <2> QED BY <2>3, <2>4 DEF R
<1>3. ASSUME NEW i \in D, NEW j \in D, j \in below[i]
      PROVE  Cardinality(below[j]) < Cardinality(below[i])
  <2>1. below[j] \in SUBSET below[i] /\ below[i] # below[j]
    BY <1>3
  <2>2. IsFiniteSet(below[i]) /\ Cardinality(below[i]) \in Nat /\ Cardinality(below[j]) \in Nat
    BY <1>2
  <2>3. Cardinality(below[j]) <= Cardinality(below[i]) /\ Cardinality(below[i]) # Cardinality(below[j])
    <3> HIDE DEF D
    <3> QED BY <2>1, <2>2, FS_Subset
  <2> QED BY <2>2, <2>3
<1>4. rank \in Injection(D, R)
  <2>1. rank \in [D -> R]
    BY <1>2
  <2>2. ASSUME NEW i \in D, NEW j \in D, rank[i] = rank[j] PROVE i = j
    <3>1. Cardinality(below[i]) = Cardinality(below[j]) /\ Cardinality(below[i]) \in Nat
      <4> HIDE DEF D
      <4> QED BY <1>2, <2>2
    <3>2. i \notin below[j] /\ j \notin below[i]
      BY <1>3, <3>1
    <3> QED BY <3>2
  <2> HIDE DEF D, R, rank
  <2> QED BY <2>1, <2>2 DEF Injection, IsInjective
<1>5. rank \in Surjection(D, R)
  <2> HIDE DEF D, R, rank
  <2> QED BY <1>1, <1>4, FS_Injection
<1>6. ASSUME NEW k \in 1 .. n PROVE \E i \in D : Cardinality(below[i]) = k - 1
  <2>1. k - 1 \in R
    OBVIOUS
  <2> HIDE DEF D, R
  <2> QED BY <1>5, <2>1 DEF Surjection
<1> QED BY <1>2, <1>3, <1>6

\* Item k of `sorted` is the one at place[k], and earlier ones come before it.
AreArranged(sorted, place, seq, earlier) ==
  /\ place \in [DOMAIN seq -> DOMAIN seq]
  /\ \A k \in DOMAIN seq : sorted[k] = seq[place[k]]
  /\ \A k, l \in DOMAIN seq : k # l => place[k] # place[l]
  /\ \A k, l \in DOMAIN seq : k < l => place[k] \in earlier[place[l]]
  /\ \A i \in DOMAIN seq : \E k \in DOMAIN seq : place[k] = i

\* A strict total order of its places arranges a sequence anew.
LEMMA ByRankProperties ==
  ASSUME NEW S, NEW seq \in Seq(S), NEW earlier \in [DOMAIN seq -> SUBSET DOMAIN seq],
         \A i \in DOMAIN seq : i \notin earlier[i],
         \A i, j \in DOMAIN seq : j \in earlier[i] => earlier[j] \subseteq earlier[i],
         \A i, j \in DOMAIN seq : i # j => i \in earlier[j] \/ j \in earlier[i]
  PROVE  /\ ByRank(seq, earlier) \in Seq(S) /\ DOMAIN ByRank(seq, earlier) = DOMAIN seq
         /\ \E place : AreArranged(ByRank(seq, earlier), place, seq, earlier)
<1> DEFINE n == Len(seq)
           place == [k \in 1 .. n |-> CHOOSE i \in 1 .. n : Cardinality(earlier[i]) = k - 1]
           sorted == ByRank(seq, earlier)
<1>1. n \in Nat /\ DOMAIN seq = 1 .. n /\ \A i \in 1 .. n : seq[i] \in S
  OBVIOUS
<1>2. /\ \A i, j \in 1 .. n : j \in earlier[i] => Cardinality(earlier[j]) < Cardinality(earlier[i])
      /\ \A i \in 1 .. n : Cardinality(earlier[i]) \in 0 .. (n - 1)
      /\ \A k \in 1 .. n : \E i \in 1 .. n : Cardinality(earlier[i]) = k - 1
  <2> HIDE DEF n
  <2>1. earlier \in [1 .. n -> SUBSET (1 .. n)]
    BY <1>1
  <2>2. /\ \A i \in 1 .. n : i \notin earlier[i]
        /\ \A i, j \in 1 .. n : j \in earlier[i] => earlier[j] \subseteq earlier[i]
        /\ \A i, j \in 1 .. n : i # j => i \in earlier[j] \/ j \in earlier[i]
    BY <1>1
  <2> QED BY <1>1, <2>1, <2>2, Ranks
<1>3. ASSUME NEW k \in 1 .. n PROVE place[k] \in 1 .. n /\ Cardinality(earlier[place[k]]) = k - 1
  <2> HIDE DEF n
  <2> QED BY <1>2
<1>4. DOMAIN sorted = 1 .. n /\ \A k \in 1 .. n : sorted[k] = seq[place[k]]
  BY <1>1 DEF ByRank
<1>5. sorted = [k \in 1 .. n |-> sorted[k]]
  BY <1>1 DEF ByRank
<1>6. place \in [1 .. n -> 1 .. n]
  <2>1. place = [k \in 1 .. n |-> place[k]]
    OBVIOUS
  <2> HIDE DEF place, n
  <2> QED BY <1>3, <2>1
<1> HIDE DEF place, sorted
<1>7. sorted \in Seq(S)
  <2> HIDE DEF n
  <2>1. sorted \in [1 .. n -> S]
    BY <1>1, <1>3, <1>4, <1>5
  <2> QED BY <1>1, <2>1
<1> HIDE DEF n
<1> DEFINE rank == [i \in 1 .. n |-> Cardinality(earlier[i])]
<1>8. /\ \A i \in 1 .. n : rank[i] \in 0 .. (n - 1)
      /\ \A i, j \in 1 .. n : j \in earlier[i] => rank[j] < rank[i]
      /\ \A k \in 1 .. n : rank[place[k]] = k - 1
  <2>1. \A i \in 1 .. n : rank[i] = Cardinality(earlier[i])
    OBVIOUS
  <2>2. n \in Nat
    BY <1>1
  <2> HIDE DEF rank
  <2>3. ASSUME NEW i \in 1 .. n PROVE rank[i] \in 0 .. (n - 1)
    <3>1. Cardinality(earlier[i]) \in 0 .. (n - 1)
      BY <1>2
    <3> QED BY <2>1, <3>1, Zenon
  <2>4. ASSUME NEW i \in 1 .. n, NEW j \in 1 .. n, j \in earlier[i] PROVE rank[j] < rank[i]
    <3>1. Cardinality(earlier[j]) < Cardinality(earlier[i])
      BY <1>2, <2>4
    <3> QED BY <2>1, <3>1
  <2>5. \A k \in 1 .. n : rank[place[k]] = k - 1
    BY <1>3, <2>1
  <2> QED BY <2>3, <2>4, <2>5
<1> HIDE DEF rank
<1>9. \A i, j \in 1 .. n : i # j => i \in earlier[j] \/ j \in earlier[i]
  BY <1>1
<1>10. ASSUME NEW k \in 1 .. n, NEW l \in 1 .. n, k # l PROVE place[k] # place[l]
  BY <1>1, <1>3, <1>8, <1>10
<1>11. ASSUME NEW k \in 1 .. n, NEW l \in 1 .. n, k < l PROVE place[k] \in earlier[place[l]]
  <2>1. place[k] \in 1 .. n /\ place[l] \in 1 .. n /\ place[k] # place[l]
    BY <1>1, <1>3, <1>10, <1>11
  <2>2. rank[place[k]] = k - 1 /\ rank[place[l]] = l - 1 /\ k \in Int /\ l \in Int
    BY <1>8
  <2>3. ~(rank[place[l]] < rank[place[k]])
    BY <1>11, <2>2
  <2>4. ~(place[l] \in earlier[place[k]])
    BY <1>8, <2>1, <2>3
  <2> QED BY <1>9, <2>1, <2>4
<1>12. ASSUME NEW i \in 1 .. n PROVE \E k \in 1 .. n : place[k] = i
  <2> DEFINE k == rank[i] + 1
  <2>1. k \in 1 .. n /\ rank[i] = k - 1 /\ rank[i] \in Int
    BY <1>1, <1>8
  <2> HIDE DEF k
  <2>2. rank[place[k]] = rank[i] /\ place[k] \in 1 .. n
    BY <1>3, <1>8, <2>1
  <2>3. ~(i \in earlier[place[k]]) /\ ~(place[k] \in earlier[i])
    BY <1>8, <2>1, <2>2
  <2> QED BY <1>9, <2>1, <2>2, <2>3
<1>13. DOMAIN seq = 1 .. n
  BY <1>1
<1>14. AreArranged(sorted, place, seq, earlier)
  BY <1>4, <1>6, <1>10, <1>11, <1>12, <1>13 DEF AreArranged
<1>15. sorted \in Seq(S) /\ DOMAIN sorted = DOMAIN seq
  BY <1>4, <1>7, <1>13
<1> QED BY <1>14, <1>15 DEF sorted

-----------------------------------------------------------------------------
(* Sums.                                                                   *)

\* A total is reached in partial sums.
LEMMA PartialSums ==
  ASSUME NEW ns \in Seq(Nat)
  PROVE  \E sum \in [0 .. Len(ns) -> Nat] :
           /\ sum[0] = 0 /\ \A n \in 1 .. Len(ns) : sum[n] = sum[n - 1] + ns[n]
           /\ Total(ns) = sum[Len(ns)]
<1> DEFINE N == Len(ns)
           IsSum(f) == f = [n \in 0 .. N |-> IF n = 0 THEN 0 ELSE f[n - 1] + ns[n]]
           sum == CHOOSE f : IsSum(f)
<1>0. N \in Nat /\ \A n \in 1 .. N : ns[n] \in Nat
  OBVIOUS
<1>1. \E f \in [0 .. N -> Nat] : IsSum(f)
  <2> DEFINE step == [n \in 1 .. N |-> [s \in Nat |-> s + ns[n]]]
  <2>1. step \in [1 .. N -> [Nat -> Nat]]
    BY <1>0
  <2>2. PICK f \in [0 .. N -> Nat] : f[0] = 0 /\ \A n \in 1 .. N : f[n] = step[n][f[n - 1]]
    <3> DEFINE T == Nat
               base == 0
    <3>1. step \in [1 .. N -> [T -> T]] /\ base \in T
      BY <2>1
    <3> HIDE DEF step, N, T, base
    <3>2. \E f \in [0 .. N -> T] : FollowsSteps(f, base, step, N)
      <4>1. N \in Nat
        BY <1>0
      <4> HIDE DEF IsSum
      <4> QED BY <3>1, <4>1, Recursion
    <3> USE DEF base, T
    <3> QED BY <3>2 DEF FollowsSteps
  <2>3. ASSUME NEW n \in 1 .. N PROVE f[n] = f[n - 1] + ns[n]
    <3>1. f[n - 1] \in Nat
      BY <1>0, SMTT(20)
    <3> QED BY <2>2, <3>1
  <2>4. f = [n \in 0 .. N |-> f[n]]
    OBVIOUS
  <2>5. \A n \in 0 .. N : f[n] = IF n = 0 THEN 0 ELSE f[n - 1] + ns[n]
    <3> HIDE DEF N
    <3> QED BY <1>0, <2>2, <2>3
  <2>6. IsSum(f)
    <3> HIDE DEF N
    <3> QED BY <2>4, <2>5
  <2> QED BY <2>6
<1>2. IsSum(sum)
  <2> HIDE DEF IsSum
  <2> QED BY <1>1
<1>3. Total(ns) = sum[N]
  BY DEF Total
<1> HIDE DEF sum
<1>4. sum[0] = 0 /\ \A n \in 1 .. N : sum[n] = sum[n - 1] + ns[n]
  <2>1. sum = [n \in 0 .. N |-> IF n = 0 THEN 0 ELSE sum[n - 1] + ns[n]]
    BY <1>2
  <2> HIDE DEF IsSum, N
  <2>2. 0 \in 0 .. N /\ \A n \in 1 .. N : n \in 0 .. N /\ n # 0
    BY <1>0
  <2> QED BY <2>1, <2>2
<1>5. sum \in [0 .. N -> Nat]
  <2> DEFINE Good == {n \in 0 .. N : sum[n] \in Nat}
  <2>1. 0 \in Good /\ \A n \in 1 .. N : n - 1 \in Good => n \in Good
    <3> HIDE DEF IsSum, N
    <3>1. 0 \in 0 .. N /\ sum[0] = 0
      BY <1>0, <1>4
    <3>2. ASSUME NEW n \in 1 .. N, sum[n - 1] \in Nat PROVE sum[n] \in Nat /\ n \in 0 .. N
      <4>1. sum[n] = sum[n - 1] + ns[n] /\ ns[n] \in Nat
        BY <1>0, <1>4
      <4> QED BY <1>0, <3>2, <4>1
    <3> QED BY <3>1, <3>2
  <2>2. \A n \in 0 .. N : n \in Good
    <3> HIDE DEF IsSum, N, Good
    <3> QED BY <1>0, <2>1, StepByStep
  <2>3. sum = [n \in 0 .. N |-> sum[n]]
    <3>1. sum = [n \in 0 .. N |-> IF n = 0 THEN 0 ELSE sum[n - 1] + ns[n]]
      BY <1>2
    <3>2. DOMAIN sum = 0 .. N
      BY <3>1
    <3> HIDE DEF IsSum, N
    <3> QED BY <3>1, <3>2
  <2> QED BY <2>2, <2>3
<1> QED BY <1>3, <1>4, <1>5

LEMMA FirstNumbers ==
  ASSUME NEW m \in Nat PROVE IsFiniteSet(1 .. m) /\ Cardinality(1 .. m) = m
<1>1. 1 \in Int /\ m \in Int
  OBVIOUS
<1>2. IsFiniteSet(1 .. m) /\ Cardinality(1 .. m) = IF 1 > m THEN 0 ELSE m - 1 + 1
  BY <1>1, FS_Interval
<1> QED BY <1>2

LEMMA TotalIsNumber == ASSUME NEW ns \in Seq(Nat) PROVE Total(ns) \in Nat
<1>1. Len(ns) \in 0 .. Len(ns)
  OBVIOUS
<1> QED BY <1>1, PartialSums

\* The cells of a row of columns, each as high as its number.
Cells(ns, n) == {p \in (1 .. n) \X Nat : p[2] \in 1 .. ns[p[1]]}

\* There are as many as their total.
LEMMA CellsCounted ==
  ASSUME NEW ns \in Seq(Nat)
  PROVE  /\ IsFiniteSet(Cells(ns, Len(ns)))
         /\ Cardinality(Cells(ns, Len(ns))) = Total(ns)
<1> DEFINE N == Len(ns)
<1>0. N \in Nat /\ \A n \in 1 .. N : ns[n] \in Nat
  OBVIOUS
<1>1. PICK sum \in [0 .. N -> Nat] :
        /\ sum[0] = 0 /\ \A n \in 1 .. N : sum[n] = sum[n - 1] + ns[n]
        /\ Total(ns) = sum[N]
  BY PartialSums
<1> HIDE DEF N
<1> DEFINE Good == {n \in 0 .. N : IsFiniteSet(Cells(ns, n)) /\ Cardinality(Cells(ns, n)) = sum[n]}
<1>2. 0 \in Good
  <2>1. Cells(ns, 0) = {}
    BY DEF Cells
  <2>2. IsFiniteSet({}) /\ Cardinality({}) = 0
    BY FS_EmptySet
  <2>3. IsFiniteSet(Cells(ns, 0)) /\ Cardinality(Cells(ns, 0)) = sum[0]
    BY <1>1, <2>1, <2>2
  <2> QED BY <1>0, <2>3
<1>3. ASSUME NEW n \in 1 .. N, n - 1 \in Good PROVE n \in Good
  <2> DEFINE column == {n} \X (1 .. ns[n])
             below == Cells(ns, n - 1)
  <2>1. ns[n] \in Nat /\ n \in Nat /\ n - 1 \in 0 .. N /\ n \in 0 .. N /\ sum[n - 1] \in Nat
    BY <1>0, <1>1
  <2>2. Cells(ns, n) = below \cup column /\ below \cap column = {}
    BY <2>1 DEF Cells
  <2>3. IsFiniteSet(column) /\ Cardinality(column) = ns[n]
    <3>1. IsFiniteSet(1 .. ns[n]) /\ Cardinality(1 .. ns[n]) = ns[n]
      BY <2>1, FirstNumbers
    <3>2. IsFiniteSet({n}) /\ Cardinality({n}) = 1
      BY FS_Singleton
    <3>3. IsFiniteSet(column) /\ Cardinality(column) = 1 * ns[n]
      BY <3>1, <3>2, FS_Product, ZenonT(30)
    <3> QED BY <2>1, <3>3
  <2>4. IsFiniteSet(below) /\ Cardinality(below) = sum[n - 1]
    BY <1>3
  <2>5. /\ IsFiniteSet(below \cup column)
        /\ Cardinality(below \cup column) = sum[n - 1] + ns[n] - Cardinality(below \cap column)
    <3> HIDE DEF column, below
    <3> QED BY <2>3, <2>4, FS_Union
  <2>6. Cardinality(below \cap column) = 0
    <3> HIDE DEF column, below
    <3> QED BY <2>2, FS_EmptySet
  <2>7. IsFiniteSet(Cells(ns, n)) /\ Cardinality(Cells(ns, n)) = sum[n]
    <3> HIDE DEF column, below
    <3> QED BY <1>1, <2>1, <2>2, <2>5, <2>6
  <2> QED BY <2>1, <2>7
<1>4. N \in Good
  <2> HIDE DEF Good
  <2>1. \A n \in 0 .. N : n \in Good
    BY <1>0, <1>2, <1>3, StepByStep
  <2> QED BY <1>0, <2>1
<1> QED BY <1>1, <1>4 DEF N

\* Numbers that are some of others, each at most once, and zeros make no greater total.
LEMMA TotalOfSome ==
  ASSUME NEW ns \in Seq(Nat), NEW ms \in Seq(Nat), NEW at,
         \A k \in DOMAIN ms : ms[k] > 0 => at[k] \in DOMAIN ns /\ ns[at[k]] = ms[k],
         \A k, l \in DOMAIN ms : ms[k] > 0 /\ ms[l] > 0 /\ k # l => at[k] # at[l]
  PROVE  Total(ms) <= Total(ns)
<1> DEFINE S == Cells(ms, Len(ms))
           T == Cells(ns, Len(ns))
           f == [p \in S |-> <<at[p[1]], p[2]>>]
<1>1. DOMAIN ms = 1 .. Len(ms) /\ DOMAIN ns = 1 .. Len(ns)
  OBVIOUS
<1>2. ASSUME NEW p \in S
      PROVE  /\ p[1] \in DOMAIN ms /\ p[2] \in Nat /\ p[2] \in 1 .. ms[p[1]] /\ ms[p[1]] > 0
             /\ p = <<p[1], p[2]>>
  <2>1. p[1] \in DOMAIN ms /\ p[2] \in Nat /\ p[2] \in 1 .. ms[p[1]] /\ p = <<p[1], p[2]>>
    BY <1>1 DEF Cells
  <2>2. ms[p[1]] \in Nat
    BY <2>1
  <2> QED BY <2>1, <2>2
<1>3. ASSUME NEW p \in S PROVE f[p] \in T
  <2>1. at[p[1]] \in DOMAIN ns /\ p[2] \in Nat /\ p[2] \in 1 .. ns[at[p[1]]]
    BY <1>2
  <2>2. <<at[p[1]], p[2]>> \in T
    BY <1>1, <2>1 DEF Cells
  <2> QED BY <2>2
<1>4. ASSUME NEW p \in S, NEW q \in S, f[p] = f[q] PROVE p = q
  <2>1. at[p[1]] = at[q[1]] /\ p[2] = q[2]
    BY <1>4
  <2> HIDE DEF S, f
  <2>2. p[1] = q[1]
    BY <1>2, <2>1
  <2> QED BY <1>2, <2>1, <2>2, ZenonT(30)
<1>5. f \in Injection(S, T)
  <2>1. f \in [S -> T]
    BY <1>3
  <2> HIDE DEF f, S, T
  <2> QED BY <1>4, <2>1 DEF Injection, IsInjective
<1>6. IsFiniteSet(T) /\ Cardinality(T) = Total(ns) /\ Cardinality(S) = Total(ms)
  BY CellsCounted
<1> HIDE DEF f, S, T
<1> QED BY <1>5, <1>6, FS_Injection
=============================================================================
