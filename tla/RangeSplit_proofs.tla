--------------------------- MODULE RangeSplit_proofs ---------------------------
(***************************************************************************)
(* Proofs about the range arithmetic, for every file size, number of peers *)
(* and minimum range.                                                      *)
(***************************************************************************)
EXTENDS RangeSplit, SequenceTheorems, WellFoundedInduction, TLAPS

\* Induction, in the form the provers use: a property that fails somewhere fails
\* somewhere for the first time.
LEMMA LeastElement ==
  ASSUME NEW T \in SUBSET Nat, T # {}
  PROVE  \E m \in T : \A k \in T : m =< k
  <1>1. PICK m \in T : \A k \in T : ~ (<< k, m >> \in OpToRel(<, Nat))
    BY NatLessThanWellFounded, WFMin, Zenon
  <1>2. \A k \in T : ~ (k < m)
    BY <1>1, Zenon DEF OpToRel
  <1> QED
    BY <1>2

\* A function on 1 .. n is a sequence of length n.
LEMMA FunctionIsSeq ==
  ASSUME NEW S, NEW n \in Nat, NEW s \in [1 .. n -> S]
  PROVE  s \in Seq(S) /\ Len(s) = n
  <1>1. s \in Seq(S)
    BY SeqDef
  <1> QED
    BY <1>1, LenProperties

\* Integer division by a positive number, in the form the provers use.
LEMMA DivFacts ==
  ASSUME NEW a \in Nat, NEW b \in Nat \ {0}
  PROVE  /\ a \div b \in Nat
         /\ b * (a \div b) =< a
         /\ a < b * (a \div b) + b
  OBVIOUS

\* A file of at least one byte is cut for at least one peer, for at most the
\* peers there are, and no range is empty: `chunk' is at least one byte.
LEMMA ChunkFacts ==
  ASSUME NEW size \in Nat \ {0}, NEW peers \in Nat \ {0}, NEW minChunk \in Nat \ {0}
  PROVE  LET n == ActualPeers(size, peers, minChunk)
             chunk == size \div n
         IN /\ n \in 1 .. peers
            /\ chunk \in Nat \ {0}
            /\ n * chunk =< size
            /\ size < n * chunk + n
            /\ chunk >= Least(size, minChunk)
  <1> DEFINE m == size \div minChunk
             n == ActualPeers(size, peers, minChunk)
             chunk == size \div n
  <1>1. m \in Nat /\ minChunk * m =< size
    BY DivFacts
  <1>2. n \in 1 .. peers /\ (n = 1 \/ n =< m)
    BY <1>1 DEF ActualPeers, Least, Greatest
  <1> HIDE DEF n, m
  <1>3. chunk \in Nat /\ n * chunk =< size /\ size < n * chunk + n
    <2>1. n \in Nat \ {0}
      BY <1>2
    <2> QED
      BY <2>1, DivFacts
  <1> HIDE DEF chunk
  <1>4. n =< size
    <2>1. m =< size
      BY <1>1, SMT
    <2> QED
      BY <1>1, <1>2, <2>1
  <1>5. chunk # 0
    BY <1>2, <1>3, <1>4
  <1>6. chunk >= Least(size, minChunk)
    <2>1. CASE n = 1
      BY <2>1, <1>3 DEF Least
    <2>2. CASE n =< m
      <3>1. minChunk * n =< minChunk * m
        BY <2>2, <1>1, <1>2, SMT
      <3>2. SUFFICES ASSUME chunk < minChunk PROVE FALSE
        BY <1>3 DEF Least
      <3>3. n * (chunk + 1) =< n * minChunk
        BY <3>2, <1>2, <1>3, SMT
      <3>4. n * (chunk + 1) = n * chunk + n
        BY <1>2, <1>3, SMT
      <3>5. n * minChunk = minChunk * n
        BY <1>2, SMT
      <3> QED
        BY <3>1, <3>3, <3>4, <3>5, <1>1, <1>2, <1>3
    <2> QED
      BY <1>2, <2>1, <2>2
  <1> QED
    BY <1>2, <1>3, <1>5, <1>6 DEF n, chunk

(***************************************************************************)
(* The ranges handed to the peers are a partition of the file: they cover  *)
(* it in order, none is empty, there is at most one per peer, none is      *)
(* shorter than the file or the minimum range.  This is what _split_ranges *)
(* promises in its docstring, and what lets the downloader's later check   *)
(* accept a download in which every peer answered.                         *)
(***************************************************************************)
THEOREM SplitPartitions ==
  ASSUME NEW size \in Nat \ {0}, NEW peers \in Nat \ {0}, NEW minChunk \in Nat \ {0}
  PROVE  LET ranges == SplitRanges(size, peers, minChunk)
         IN /\ ranges \in Seq([start : Nat, end : Nat])
            /\ Len(ranges) \in 1 .. peers
            /\ Covers(ranges, size)
            /\ \A i \in 1 .. Len(ranges) :
                 ranges[i].end - ranges[i].start + 1 >= Least(size, minChunk)
  <1> DEFINE n == ActualPeers(size, peers, minChunk)
             chunk == size \div n
             ranges == SplitRanges(size, peers, minChunk)
             first(i) == (i - 1) * chunk
             last(i) == IF i < n THEN i * chunk - 1 ELSE size - 1
  <1>1. /\ n \in 1 .. peers
        /\ chunk \in Nat \ {0}
        /\ n * chunk =< size
        /\ size < n * chunk + n
        /\ chunk >= Least(size, minChunk)
    BY ChunkFacts
  <1>2. ranges = [i \in 1 .. n |-> [start |-> first(i), end |-> last(i)]]
    BY DEF SplitRanges
  <1> HIDE DEF n, chunk, ranges
  <1>3. \A i \in 1 .. n : /\ first(i) \in Nat
                         /\ first(i) + chunk = i * chunk
                         /\ i * chunk =< n * chunk
    BY <1>1, SMT
  <1>4. ASSUME NEW i \in 1 .. n
        PROVE  /\ last(i) \in Nat
               /\ last(i) - first(i) + 1 >= chunk
    <2>1. first(i) \in Nat /\ i * chunk \in Nat /\ first(i) + chunk = i * chunk
          /\ i * chunk =< n * chunk
      BY <1>1, <1>3, SMT
    <2>2. CASE i < n
      BY <2>1, <2>2, <1>1
    <2>3. CASE i = n
      BY <2>1, <2>3, <1>1
    <2> QED
      BY <2>2, <2>3, <1>1
  <1>5. /\ ranges \in Seq([start : Nat, end : Nat])
        /\ Len(ranges) = n
    <2>1. \A i \in 1 .. n : first(i) \in Nat /\ last(i) \in Nat
      BY <1>3, <1>4
    <2> HIDE DEF first, last
    <2>2. \A i \in 1 .. n : [start |-> first(i), end |-> last(i)] \in [start : Nat, end : Nat]
      BY <2>1
    <2>3. ranges \in [1 .. n -> [start : Nat, end : Nat]]
      BY <1>2, <2>2
    <2>4. n \in Nat
      BY <1>1
    <2> QED
      BY <2>3, <2>4, FunctionIsSeq
  <1>6. Covers(ranges, size)
    <2>0. first(1) = 0
      BY <1>1, SMT
    <2>1. ranges # << >> /\ ranges[1].start = 0
      <3> HIDE DEF first, last
      <3>1. ranges[1].start = 0
        BY <2>0, <1>1, <1>2
      <3>2. ranges # << >>
        BY <1>1, <1>5, EmptySeq
      <3> QED
        BY <3>1, <3>2
    <2>2. \A i \in 1 .. n - 1 : first(i + 1) = last(i) + 1
      BY <1>1, <1>3, SMT
    <2>3. \A i \in 1 .. n - 1 : ranges[i + 1].start = ranges[i].end + 1
      BY <2>2, <1>1, <1>2
    <2>4. ranges[n].end + 1 = size
      BY <1>1, <1>2
    <2> QED
      BY <2>1, <2>3, <2>4, <1>5 DEF Covers
  <1>7. \A i \in 1 .. n : ranges[i].end - ranges[i].start + 1 >= Least(size, minChunk)
    <2>1. Least(size, minChunk) \in Nat
      BY DEF Least
    <2> QED
      BY <2>1, <1>1, <1>2, <1>3, <1>4
  <1> QED
    BY <1>1, <1>5, <1>6, <1>7 DEF ranges
===============================================================================
