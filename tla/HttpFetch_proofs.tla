---------------------------- MODULE HttpFetch_proofs ----------------------------
(***************************************************************************)
(* Transfers from the HTTP file server, for any file, number of peers, block *)
(* size and number of copies: type correctness, that the bounds of the three *)
(* programs fit together, that the ranges are a partition of the file, that *)
(* a download goes on exactly if nothing of it was lost, and that what it   *)
(* goes on with is the whole file.                                          *)
(***************************************************************************)
EXTENDS HttpFetch, RangeSplit_proofs, FiniteSetTheorems

-------------------------------------------------------------------------------
(***************************************************************************)
(* Every range lies in the file and is not empty.                           *)
(***************************************************************************)

LEMMA RangesInFile ==
  ASSUME NEW size \in Nat, NEW peers \in Nat \ {0}, NEW minChunk \in Nat \ {0}
  PROVE  LET ranges == SplitRanges(size, peers, minChunk)
         IN /\ DOMAIN ranges = 1 .. Len(ranges)
            /\ \A i \in 1 .. Len(ranges) :
                 /\ ranges[i].start \in Nat /\ ranges[i].end \in Nat
                 /\ ranges[i].start =< ranges[i].end /\ ranges[i].end < size
<1> DEFINE ranges == SplitRanges(size, peers, minChunk)
<1>1. CASE size = 0
  <2>1. ranges = << >>
    BY <1>1 DEF SplitRanges
  <2> QED  BY <2>1
<1>2. CASE size # 0
  <2> DEFINE n == ActualPeers(size, peers, minChunk)
             chunk == size \div n
  <2>1. /\ n \in Nat \ {0} /\ chunk \in Nat \ {0} /\ n * chunk =< size
    BY <1>2, ChunkFacts
  <2>2. /\ ranges \in Seq([start : Nat, end : Nat])
        /\ \A i \in 1 .. Len(ranges) :
             ranges[i].end - ranges[i].start + 1 >= Least(size, minChunk)
    BY <1>2, SplitPartitions
  <2>3. ranges = [i \in 1 .. n |->
                    [start |-> (i - 1) * chunk,
                     end   |-> IF i < n THEN i * chunk - 1 ELSE size - 1]]
    BY <1>2 DEF SplitRanges
  <2>4. DOMAIN ranges = 1 .. Len(ranges) /\ Len(ranges) = n
    <3> HIDE DEF n, chunk
    <3> QED  BY <2>1, <2>2, <2>3
  <2>5. ASSUME NEW i \in 1 .. Len(ranges)
        PROVE  /\ ranges[i].start \in Nat /\ ranges[i].end \in Nat
               /\ ranges[i].start =< ranges[i].end /\ ranges[i].end < size
    <3>1. ranges[i].start \in Nat /\ ranges[i].end \in Nat
      <4> DEFINE S == [start : Nat, end : Nat]
      <4>1. ranges \in Seq(S) /\ i \in 1 .. Len(ranges)
        BY <2>2
      <4> HIDE DEF ranges, S
      <4>2. ranges[i] \in S
        BY <4>1
      <4> QED  BY <4>2 DEF S
    <3>2. ranges[i].start =< ranges[i].end
      <4>1. ranges[i].end - ranges[i].start + 1 >= Least(size, minChunk)
        BY <2>2
      <4> HIDE DEF ranges
      <4>2. Least(size, minChunk) \in Nat \ {0}
        BY <1>2 DEF Least
      <4> HIDE DEF Least
      <4> QED  BY <3>1, <4>1, <4>2
    <3>3. ranges[i].end = IF i < n THEN i * chunk - 1 ELSE size - 1
      <4> HIDE DEF n, chunk
      <4>1. i \in 1 .. n
        BY <2>4
      <4>2. ranges[i] = [start |-> (i - 1) * chunk,
                         end   |-> IF i < n THEN i * chunk - 1 ELSE size - 1]
        <5> HIDE DEF ranges
        <5> QED  BY <2>3, <4>1
      <4> HIDE DEF ranges
      <4> QED  BY <4>2
    <3>4. ranges[i].end < size
      <4> HIDE DEF n, chunk
      <4>1. CASE i < n
        <5>1. i * chunk =< n * chunk
          BY <2>1, <4>1
        <5>2. i * chunk \in Nat
          BY <2>1
        <5>3. n * chunk \in Nat
          BY <2>1
        <5>4. ranges[i].end = i * chunk - 1
          BY <3>3, <4>1
        <5> HIDE DEF ranges
        <5> QED  BY <2>1, <5>1, <5>2, <5>3, <5>4
      <4>2. CASE ~(i < n)
        BY <3>3, <4>2
      <4> QED  BY <4>1, <4>2
    <3> QED  BY <3>1, <3>2, <3>4
  <2> QED  BY <2>4, <2>5
<1> QED  BY <1>1, <1>2

-------------------------------------------------------------------------------
(***************************************************************************)
(* A request asks for bytes of the file it has not got yet, and a calm file  *)
(* is all there.                                                            *)
(***************************************************************************)

RequestOK(r) ==
  /\ r \in Requests
  /\ r.end < args.size
  /\ r.st # "error" => r.start =< r.end
  /\ r.st \in {"sent", "found", "sized"} => r.got = 0
  /\ r.st = "streaming" => r.got < r.end - r.start + 1
  /\ r.st = "ok" => r.got = r.end - r.start + 1

RequestInv == \A i \in DOMAIN req : RequestOK(req[i])
CalmInv == calm => have = length
ServedInv == UntouchedIsServed
FetchInv == TypeOK /\ RequestInv /\ CalmInv /\ ServedInv

LEMMA ArgumentsType ==
  ASSUME args \in Arguments
  PROVE  args.size \in Nat /\ args.peers \in Nat \ {0} /\ args.minChunk \in Nat \ {0}
BY HttpAssumption

LEMMA FetchInit == Init => FetchInv
<1> SUFFICES ASSUME Init PROVE FetchInv
  OBVIOUS
<1>1. args.size \in Nat /\ args.peers \in Nat \ {0} /\ args.minChunk \in Nat \ {0}
  BY ArgumentsType DEF Init
<1>2. \A i \in 1 .. Len(Ranges) :
        /\ Ranges[i].start \in Nat /\ Ranges[i].end \in Nat
        /\ Ranges[i].start =< Ranges[i].end /\ Ranges[i].end < args.size
  BY <1>1, RangesInFile DEF Ranges
<1>3. \A i \in 1 .. Len(Ranges) : RequestOK(req[i]) /\ req[i].st = "sent"
  BY <1>2 DEF Init, RequestOK, Requests, InFlight
<1>4. req \in [1 .. Len(Ranges) -> Requests]
  BY <1>3 DEF Init, RequestOK
<1>5. TypeOK
  BY <1>1, <1>4, HttpAssumption DEF Init, TypeOK, Absent
<1> QED  BY <1>3, <1>4, <1>5 DEF Init, FetchInv, RequestInv, CalmInv, ServedInv, UntouchedIsServed

LEMMA BlockFacts ==
  ASSUME NEW r \in Requests, have \in Nat \cup {Absent}, r.got < r.end - r.start + 1
  PROVE  /\ Block(r) \in Nat
         /\ r.got + Block(r) =< r.end - r.start + 1
         /\ r.end < have => Block(r) > 0
BY HttpAssumption DEF Block, Least, Greatest, Requests, Absent

\* One step of a transfer.
LEMMA TransferKeeps ==
  ASSUME FetchInv, NEW i \in DOMAIN req, Transfer(i)
  PROVE  /\ RequestOK(req[i])'
         /\ calm /\ length >= args.size => req'[i].st # "error"
         /\ UnchangedByTransfer
         /\ \A j \in DOMAIN req \ {i} : req'[j] = req[j]
         /\ DOMAIN req' = DOMAIN req
<1> DEFINE r == req[i]
<1>1. /\ r \in Requests /\ RequestOK(r) /\ have \in Nat \cup {Absent} /\ args.size \in Nat
      /\ length \in Nat
  BY ArgumentsType DEF FetchInv, TypeOK, RequestInv
<1>2. calm /\ length >= args.size => have = length /\ r.st # "error" /\ r.end < have
  BY <1>1 DEF FetchInv, CalmInv, ServedInv, UntouchedIsServed, RequestOK, Requests
<1>3. PICK q : SetReq(i, q) /\ UnchangedByTransfer
             /\ RequestOK(q) /\ (calm /\ length >= args.size => q.st # "error")
  <2> HIDE DEF r
  <2>0. RequestOK(Failed(r)) /\ Failed(r).st = "error"
    BY <1>1 DEF RequestOK, Failed, Requests
  <2>1. CASE Find(i)
    <3> DEFINE q == IF NotFound THEN Failed(r) ELSE [r EXCEPT !.st = "found"]
    <3>1. r.st = "sent" /\ SetReq(i, q) /\ UnchangedByTransfer
      BY <2>1 DEF Find, r
    <3>2. RequestOK(q)
      BY <1>1, <2>0, <3>1 DEF RequestOK, Requests, InFlight
    <3>3. calm /\ length >= args.size => q.st # "error"
      BY <1>1, <1>2 DEF NotFound, Absent, Requests
    <3> QED  BY <3>1, <3>2, <3>3
  <2>2. CASE Size(i)
    <3> DEFINE end == Least(r.end, have - 1)
               q == IF NotFound \/ r.start > end THEN Failed(r)
                    ELSE [r EXCEPT !.st = "sized", !.end = end]
    <3>1. r.st = "found" /\ SetReq(i, q) /\ UnchangedByTransfer
      BY <2>2 DEF Size, r
    <3>2. RequestOK(q)
      <4>1. CASE NotFound \/ r.start > end
        BY <2>0, <4>1
      <4>2. CASE ~(NotFound \/ r.start > end)
        <5>1. end \in Nat /\ r.start =< end /\ end =< r.end
          BY <1>1, <4>2 DEF NotFound, Absent, Least, Requests
        <5>2. q = [r EXCEPT !.st = "sized", !.end = end]
          BY <4>2
        <5> HIDE DEF end, q
        <5>3. /\ q.st = "sized" /\ q.end = end /\ q.start = r.start /\ q.got = r.got
              /\ q \in Requests
          BY <1>1, <5>1, <5>2 DEF Requests, InFlight
        <5>4. r.got = 0 /\ r.end < args.size /\ r.end \in Nat
          BY <1>1, <3>1 DEF RequestOK, Requests
        <5>5. q.end < args.size
          BY <1>1, <5>1, <5>3, <5>4
        <5> QED  BY <5>1, <5>3, <5>4, <5>5 DEF RequestOK
      <4> QED  BY <4>1, <4>2
    <3>3. calm /\ length >= args.size => q.st # "error"
      BY <1>1, <1>2, <3>1 DEF NotFound, Absent, Requests, RequestOK, Least
    <3> QED  BY <3>1, <3>2, <3>3
  <2>3. CASE Get(i)
    <3> DEFINE q == IF NotFound \/ OutOfBounds(r.start, r.end, have) THEN Failed(r)
                    ELSE [r EXCEPT !.st = "streaming"]
    <3>1. r.st = "sized" /\ SetReq(i, q) /\ UnchangedByTransfer
      BY <2>3 DEF Get, r
    <3>2. RequestOK(q)
      BY <1>1, <2>0, <3>1 DEF RequestOK, Requests, InFlight
    <3>3. calm /\ length >= args.size => q.st # "error"
      BY <1>1, <1>2, <3>1 DEF NotFound, OutOfBounds, Absent, Requests, RequestOK
    <3> QED  BY <3>1, <3>2, <3>3
  <2>4. CASE Stream(i)
    <3> DEFINE got == r.got + Block(r)
               q == IF Block(r) = 0 THEN Failed(r)
                    ELSE [r EXCEPT !.got = got,
                            !.st = IF got = r.end - r.start + 1 THEN "ok" ELSE @]
    <3>1. r.st = "streaming" /\ SetReq(i, q) /\ UnchangedByTransfer
      BY <2>4 DEF Stream, r
    <3>2. /\ Block(r) \in Nat /\ got =< r.end - r.start + 1 /\ got \in Nat
          /\ r.end < have => Block(r) > 0
      BY <1>1, <3>1, BlockFacts DEF RequestOK, Requests
    <3>3. RequestOK(q)
      <4> HIDE DEF got
      <4>1. CASE Block(r) = 0
        BY <2>0, <4>1
      <4>2. CASE Block(r) # 0
        <5>1. q = [r EXCEPT !.got = got,
                     !.st = IF got = r.end - r.start + 1 THEN "ok" ELSE "streaming"]
          BY <3>1, <4>2
        <5> HIDE DEF q
        <5>2. /\ q.start = r.start /\ q.end = r.end /\ q.got = got
              /\ q.st = IF got = r.end - r.start + 1 THEN "ok" ELSE "streaming"
              /\ q \in Requests
          BY <1>1, <3>2, <5>1 DEF Requests, InFlight
        <5>3. r.end < args.size /\ r.start =< r.end /\ r.end \in Nat /\ r.start \in Nat
          BY <1>1, <3>1 DEF RequestOK, Requests
        <5> QED  BY <3>2, <5>2, <5>3 DEF RequestOK
      <4> QED  BY <4>1, <4>2
    <3>4. calm /\ length >= args.size => q.st # "error"
      BY <1>1, <1>2, <3>1, <3>2 DEF Requests
    <3> QED  BY <3>1, <3>3, <3>4
  <2> QED  BY <2>1, <2>2, <2>3, <2>4 DEF Transfer
<1>4. req'[i] = q /\ args' = args
  BY <1>3 DEF SetReq, UnchangedByTransfer, FetchInv, TypeOK
<1>5. RequestOK(req[i])'
  BY <1>3, <1>4 DEF RequestOK
<1> QED  BY <1>3, <1>4, <1>5 DEF SetReq, FetchInv, TypeOK

LEMMA FetchStep == FetchInv /\ [Next]_vars => FetchInv'
<1> SUFFICES ASSUME FetchInv, [Next]_vars PROVE FetchInv'
  OBVIOUS
<1>1. ASSUME NEW i \in DOMAIN req, Transfer(i)
      PROVE  FetchInv'
  <2>1. RequestInv'
    BY <1>1, TransferKeeps DEF FetchInv, RequestInv, RequestOK, UnchangedByTransfer
  <2>2. CalmInv'
    BY <1>1, TransferKeeps DEF FetchInv, CalmInv, UnchangedByTransfer
  <2>3. ServedInv'
    BY <1>1, TransferKeeps DEF FetchInv, ServedInv, UntouchedIsServed, UnchangedByTransfer
  <2>4. TypeOK'
    <3>1. UnchangedByTransfer
      BY <1>1, TransferKeeps
    <3>2. req' \in [1 .. Len(Ranges) -> Requests]
      <4>1. req' = [req EXCEPT ![i] = req'[i]]
        BY <1>1 DEF Transfer, Find, Size, Get, Stream, SetReq, FetchInv, TypeOK
      <4>2. req'[i] \in Requests
        BY <1>1, TransferKeeps DEF RequestOK
      <4> QED  BY <4>1, <4>2 DEF FetchInv, TypeOK
    <3> QED  BY <3>1, <3>2 DEF FetchInv, TypeOK, UnchangedByTransfer, Ranges
  <2> QED  BY <2>1, <2>2, <2>3, <2>4 DEF FetchInv
<1>2. ASSUME NEW i \in DOMAIN req, Break(i)
      PROVE  FetchInv'
  <2>1. req' = [req EXCEPT ![i] = Failed(req[i])] /\ ~calm' /\ UNCHANGED << args, length, have, copies >>
    BY <1>2 DEF Break, SetReq
  <2>2. RequestOK(Failed(req[i]))
    BY DEF FetchInv, RequestInv, RequestOK, Failed, Requests
  <2>3. RequestInv'
    BY <2>1, <2>2 DEF FetchInv, RequestInv, RequestOK, TypeOK
  <2>4. TypeOK'
    BY <2>1, <2>2, <1>2 DEF FetchInv, TypeOK, Ranges, RequestOK, Break
  <2> QED  BY <2>1, <2>3, <2>4 DEF FetchInv, CalmInv, ServedInv, UntouchedIsServed
<1>3. CASE CopyAgain
  <2>1. copies + 1 \in 0 .. MaxCopies
    BY <1>3, HttpAssumption DEF CopyAgain, FetchInv, TypeOK
  <2>2. TypeOK'
    BY <1>3, <2>1 DEF CopyAgain, FetchInv, TypeOK, Ranges
  <2>3. RequestInv'
    BY <1>3 DEF CopyAgain, FetchInv, RequestInv, RequestOK
  <2> QED  BY <1>3, <2>2, <2>3 DEF CopyAgain, FetchInv, CalmInv, ServedInv, UntouchedIsServed
<1>4. CASE CopyMore
  BY <1>4 DEF CopyMore, FetchInv, TypeOK, Ranges, RequestInv, RequestOK, CalmInv,
       ServedInv, UntouchedIsServed
<1>5. CASE UNCHANGED vars
  BY <1>5 DEF vars, FetchInv, TypeOK, Ranges, RequestInv, RequestOK, CalmInv,
       ServedInv, UntouchedIsServed
<1> QED  BY <1>1, <1>2, <1>3, <1>4, <1>5 DEF Next

\* Every variable keeps its type: no range that is asked for, and no range that is
\* cut to the size of the file, has a bound below the file's first byte
\* (agent/p2p_server.py:145-152).
THEOREM TypeCorrect == Spec => []TypeOK
BY FetchInit, FetchStep, PTL DEF Spec, FetchInv

\* For every file size, number of peers, minimum range and block size: of a file
\* that is there and left alone, on connections that hold, no transfer fails
\* (agent/downloader.py:41-62, agent/p2p_server.py:145-152, fileserver/main.py:71-72).
THEOREM UntouchedServed == Spec => []UntouchedIsServed
BY FetchInit, FetchStep, PTL DEF Spec, FetchInv, ServedInv

-------------------------------------------------------------------------------
(***************************************************************************)
(* The ranges are a partition of the file.                                 *)
(***************************************************************************)

\* What the ranges of a non-empty file are: they follow each other from its first
\* offset to its last.
InOrder(ranges, size, peers, minChunk) ==
  /\ Len(ranges) \in Nat \ {0} /\ Len(ranges) =< peers
  /\ Len(ranges) > 1 => minChunk =< size
  /\ ranges[1].start = 0 /\ ranges[Len(ranges)].end = size - 1
  /\ \A i \in 1 .. Len(ranges) - 1 : ranges[i + 1].start = ranges[i].end + 1
  /\ \A i, j \in 1 .. Len(ranges) : i < j => ranges[i].end < ranges[j].start

LEMMA RangesInOrder ==
  ASSUME NEW size \in Nat \ {0}, NEW peers \in Nat \ {0}, NEW minChunk \in Nat \ {0}
  PROVE  InOrder(SplitRanges(size, peers, minChunk), size, peers, minChunk)
<1> DEFINE ranges == SplitRanges(size, peers, minChunk)
           n == ActualPeers(size, peers, minChunk)
           chunk == size \div n
<1>1. n \in Nat \ {0} /\ n =< peers /\ chunk \in Nat \ {0}
  <2>1. n \in 1 .. peers /\ chunk \in Nat \ {0}
    BY ChunkFacts
  <2> HIDE DEF n, chunk
  <2> QED  BY <2>1
<1>2. ranges = [i \in 1 .. n |-> [start |-> (i - 1) * chunk,
                                  end   |-> IF i < n THEN i * chunk - 1 ELSE size - 1]]
  BY DEF SplitRanges
<1>3. /\ DOMAIN ranges = 1 .. Len(ranges) /\ Len(ranges) \in Nat
      /\ \A i \in 1 .. Len(ranges) : ranges[i].end \in Nat
  <2>1. ranges \in Seq([start : Nat, end : Nat])
    BY SplitPartitions
  <2> HIDE DEF ranges
  <2>2. DOMAIN ranges = 1 .. Len(ranges) /\ Len(ranges) \in Nat
    BY <2>1
  <2> QED  BY <2>2, RangesInFile DEF ranges
<1>4. Covers(ranges, size)
  BY SplitPartitions
<1>5. n > 1 => minChunk =< size
  <2> DEFINE m == size \div minChunk
  <2>1. m \in Nat /\ minChunk * m =< size
    BY DivFacts
  <2>2. n > 1 => m > 1
    BY <2>1 DEF ActualPeers, Least, Greatest
  <2> HIDE DEF m, n
  <2>3. ASSUME m > 1
        PROVE  minChunk =< minChunk * m
    BY <2>1, <2>3, SMT
  <2>4. minChunk * m \in Nat
    BY <2>1
  <2> QED  BY <2>1, <2>2, <2>3, <2>4
<1> HIDE DEF n, chunk, ranges
<1>6. Len(ranges) = n
  BY <1>1, <1>2, <1>3
<1>7. ASSUME NEW i \in 1 .. n, NEW j \in 1 .. n, i < j
      PROVE  ranges[i].end < ranges[j].start
  <2>1. ranges[i].end = i * chunk - 1
    BY <1>1, <1>2, <1>7
  <2>2. ranges[j].start = (j - 1) * chunk
    BY <1>2
  <2>3. i * chunk \in Nat /\ (j - 1) * chunk \in Nat
    BY <1>1
  <2>4. (j - 1) * chunk = i * chunk + (j - 1 - i) * chunk /\ (j - 1 - i) * chunk \in Nat
    BY <1>1, <1>7
  <2> QED  BY <2>1, <2>2, <2>3, <2>4
<1>8. /\ ranges[1].start = 0 /\ ranges[n].end + 1 = size
      /\ \A i \in 1 .. n - 1 : ranges[i + 1].start = ranges[i].end + 1
  BY <1>4, <1>6 DEF Covers
<1>9. ranges[n].end = size - 1
  <2>1. ranges[n].end \in Nat
    BY <1>1, <1>3, <1>6
  <2> QED  BY <1>8, <2>1
<1>10. InOrder(ranges, size, peers, minChunk)
  BY <1>1, <1>5, <1>6, <1>7, <1>8, <1>9 DEF InOrder
<1> QED  BY <1>10 DEF ranges

\* Of ranges that follow each other from the first offset to the last, one has any
\* given offset: the first that does not end before it.
LEMMA RangesReachAll ==
  ASSUME NEW size \in Nat, NEW ranges, Len(ranges) \in Nat \ {0},
         \A i \in 1 .. Len(ranges) : ranges[i].end \in Nat,
         ranges[1].start = 0, ranges[Len(ranges)].end = size - 1,
         \A i \in 1 .. Len(ranges) - 1 : ranges[i + 1].start = ranges[i].end + 1,
         NEW x \in 0 .. size - 1
  PROVE  \E i \in 1 .. Len(ranges) : ranges[i].start =< x /\ x =< ranges[i].end
<1> DEFINE T == {k \in Nat : k \in 1 .. Len(ranges) /\ x =< ranges[k].end}
<1>1. Len(ranges) \in T
  OBVIOUS
<1>2. PICK m \in T : \A k \in T : m =< k
  BY <1>1, LeastElement
<1>3. CASE m = 1
  BY <1>2, <1>3
<1>4. CASE m # 1
  <2>1. m - 1 \in 1 .. Len(ranges) - 1 /\ m - 1 \in 1 .. Len(ranges) /\ (m - 1) + 1 = m
        /\ m - 1 \in Nat /\ m - 1 \notin T
    <3>1. m \in Nat /\ m \in 1 .. Len(ranges)
      BY <1>2
    <3> HIDE DEF T
    <3> QED  BY <1>2, <1>4, <3>1
  <2>2. ranges[m - 1].end < x
    BY <2>1
  <2>3. ranges[m].start = ranges[m - 1].end + 1
    BY <2>1
  <2>4. ranges[m].start =< x
    BY <2>1, <2>2, <2>3
  <2> QED  BY <1>2, <2>4
<1> QED  BY <1>3, <1>4

LEMMA Partition == TypeOK => SplitIsPartition
<1> SUFFICES ASSUME TypeOK PROVE SplitIsPartition
  OBVIOUS
<1>0. args.size \in Nat /\ args.peers \in Nat \ {0} /\ args.minChunk \in Nat \ {0}
  BY HttpAssumption DEF TypeOK
<1> DEFINE size == args.size
           peers == args.peers
           minChunk == args.minChunk
<1>1. CASE size = 0
  <2>1. Ranges = << >>
    BY <1>1 DEF Ranges, SplitRanges
  <2> QED  BY <1>0, <1>1, <2>1 DEF SplitIsPartition
<1>2. CASE size # 0
  <2>1. /\ \A i \in 1 .. Len(Ranges) :
             /\ Ranges[i].start \in Nat /\ Ranges[i].end \in Nat
             /\ Ranges[i].start =< Ranges[i].end /\ Ranges[i].end < size
    BY <1>0, RangesInFile DEF Ranges
  <2>2. /\ Len(Ranges) \in Nat \ {0} /\ Len(Ranges) =< peers
        /\ Len(Ranges) > 1 => minChunk =< size
        /\ Ranges[1].start = 0 /\ Ranges[Len(Ranges)].end = size - 1
        /\ \A i \in 1 .. Len(Ranges) - 1 : Ranges[i + 1].start = Ranges[i].end + 1
        /\ \A i, j \in 1 .. Len(Ranges) : i < j => Ranges[i].end < Ranges[j].start
    <3>1. InOrder(Ranges, size, peers, minChunk)
      BY <1>0, <1>2, RangesInOrder DEF Ranges
    <3> QED  BY <3>1 DEF InOrder
  <2>3. \A x \in 0 .. size - 1 :
          \E i \in 1 .. Len(Ranges) : Ranges[i].start =< x /\ x =< Ranges[i].end
    BY <1>0, <2>1, <2>2, RangesReachAll
  <2>4. \A i \in 1 .. Len(Ranges) : Ranges[i].end - Ranges[i].start + 1 >= Least(size, minChunk)
    BY <1>0, <1>2, SplitPartitions DEF Ranges
  <2> HIDE DEF size, peers, minChunk
  <2>5. size \in Nat /\ minChunk \in Nat
    BY <1>0 DEF size, minChunk
  <2>6. ASSUME NEW i \in 1 .. Len(Ranges)
        PROVE  /\ Ranges[i].start \in Offsets(Ranges[i])
               /\ Offsets(Ranges[i]) \subseteq 0 .. size - 1
               /\ Cardinality(Offsets(Ranges[i])) = Ranges[i].end - Ranges[i].start + 1
    <3>1. /\ Ranges[i].start \in Nat /\ Ranges[i].end \in Nat
          /\ Ranges[i].start =< Ranges[i].end /\ Ranges[i].end < size
      BY <2>1
    <3>2. Cardinality(Ranges[i].start .. Ranges[i].end) = Ranges[i].end - Ranges[i].start + 1
      <4> DEFINE a == Ranges[i].start
                 b == Ranges[i].end
      <4>1. a \in Int /\ b \in Int /\ ~(a > b)
        BY <3>1
      <4> HIDE DEF a, b
      <4>2. Cardinality(a .. b) = IF a > b THEN 0 ELSE b - a + 1
        BY <4>1, FS_Interval, Zenon
      <4> QED  BY <4>1, <4>2 DEF a, b
    <3> QED  BY <2>5, <3>1, <3>2 DEF Offsets
  <2>7. ASSUME NEW i \in 1 .. Len(Ranges), NEW j \in 1 .. Len(Ranges), i # j
        PROVE  Offsets(Ranges[i]) \cap Offsets(Ranges[j]) = {}
    <3>1. i < j \/ j < i
      BY <2>2, <2>7
    <3>2. Ranges[i].end < Ranges[j].start \/ Ranges[j].end < Ranges[i].start
      BY <2>2, <3>1
    <3>3. /\ Ranges[i].start \in Nat /\ Ranges[i].end \in Nat
          /\ Ranges[j].start \in Nat /\ Ranges[j].end \in Nat
      BY <2>1
    <3> QED  BY <3>2, <3>3 DEF Offsets
  <2>8. UNION {Offsets(Ranges[i]) : i \in 1 .. Len(Ranges)} = 0 .. size - 1
    <3>1. ASSUME NEW x \in 0 .. size - 1
          PROVE  \E i \in 1 .. Len(Ranges) : x \in Offsets(Ranges[i])
      <4>1. PICK i \in 1 .. Len(Ranges) : Ranges[i].start =< x /\ x =< Ranges[i].end
        BY <2>3
      <4>2. x \in Int /\ Ranges[i].start \in Nat /\ Ranges[i].end \in Nat
        BY <2>1, <2>5
      <4> QED  BY <4>1, <4>2 DEF Offsets
    <3> QED  BY <2>6, <3>1
  <2>9. ASSUME Len(Ranges) > 1, NEW i \in 1 .. Len(Ranges)
        PROVE  Cardinality(Offsets(Ranges[i])) >= minChunk
    BY <2>2, <2>4, <2>5, <2>6, <2>9 DEF Least
  <2> QED  BY <2>2, <2>6, <2>7, <2>8, <2>9 DEF SplitIsPartition, size, peers, minChunk
<1> QED  BY <1>1, <1>2

\* For every size, number of peers and minimum range: the ranges of a download are a
\* partition of the file into at most one range per peer, and none is shorter than
\* the minimum when there are several (agent/downloader.py:41-62).
THEOREM RangesPartition == Spec => []SplitIsPartition
BY TypeCorrect, Partition, PTL

-------------------------------------------------------------------------------
(***************************************************************************)
(* What is accepted.  A transfer keeps the start of its range and may give   *)
(* up some of its end, never past what the file has.                        *)
(***************************************************************************)

OriginOf(i) ==
  /\ req[i].start = Ranges[i].start
  /\ req[i].end =< Ranges[i].end
  /\ req[i].st \in {"sized", "streaming", "ok"} => req[i].end < length

OriginInv == have =< length /\ \A i \in DOMAIN req : OriginOf(i)

LEMMA OriginInit == Init => OriginInv
<1> SUFFICES ASSUME Init PROVE OriginInv
  OBVIOUS
<1>1. args.size \in Nat /\ args.peers \in Nat \ {0} /\ args.minChunk \in Nat \ {0}
  BY ArgumentsType DEF Init
<1>2. \A i \in 1 .. Len(Ranges) : Ranges[i].end \in Nat
  BY <1>1, RangesInFile DEF Ranges
<1>3. \A i \in DOMAIN req : OriginOf(i)
  BY <1>2 DEF Init, OriginOf
<1>4. have =< length
  BY <1>1 DEF Init, Absent
<1> QED  BY <1>3, <1>4 DEF OriginInv

LEMMA OriginStep == FetchInv /\ OriginInv /\ [Next]_vars => OriginInv'
<1> SUFFICES ASSUME FetchInv, OriginInv, [Next]_vars PROVE OriginInv'
  OBVIOUS
<1>0. /\ req \in [1 .. Len(Ranges) -> Requests] /\ length \in Nat /\ have \in Nat \cup {Absent}
      /\ \A i \in DOMAIN req : OriginOf(i) /\ req[i].start \in Nat /\ req[i].end \in Nat
  BY DEF FetchInv, TypeOK, OriginInv, Requests
<1>1. ASSUME NEW i \in DOMAIN req, NEW r, r \in Requests, SetReq(i, r),
             UNCHANGED << args, length, have >>, r.start = req[i].start, r.end =< Ranges[i].end,
             r.st \in {"sized", "streaming", "ok"} => r.end < length
      PROVE  OriginInv'
  <2>1. req'[i] = r /\ DOMAIN req' = DOMAIN req /\ \A j \in DOMAIN req \ {i} : req'[j] = req[j]
    BY <1>0, <1>1 DEF SetReq
  <2>2. Ranges' = Ranges
    BY <1>1 DEF Ranges
  <2>3. ASSUME NEW j \in DOMAIN req
        PROVE  OriginOf(j)'
    BY <1>0, <1>1, <2>1, <2>2 DEF OriginOf
  <2> QED  BY <1>1, <2>1, <2>3 DEF OriginInv
<1>2. ASSUME NEW i \in DOMAIN req, SetReq(i, Failed(req[i])), UNCHANGED << args, length, have >>
      PROVE  OriginInv'
  <2>1. /\ Failed(req[i]) \in Requests /\ Failed(req[i]).st = "error"
        /\ Failed(req[i]).start = req[i].start /\ Failed(req[i]).end = req[i].end
    BY <1>0 DEF Failed, Requests
  <2> QED  BY <1>0, <1>1, <1>2, <2>1 DEF OriginOf
<1>3. ASSUME NEW i \in DOMAIN req, Transfer(i)
      PROVE  OriginInv'
  <2>1. UNCHANGED << args, length, have >>
    BY <1>3, TransferKeeps DEF UnchangedByTransfer
  <2>2. CASE SetReq(i, Failed(req[i]))
    BY <1>2, <2>1, <2>2
  <2>3. CASE Find(i)
    <3>1. CASE ~NotFound
      <4> DEFINE r == [req[i] EXCEPT !.st = "found"]
      <4>1. /\ r \in Requests /\ r.st = "found"
            /\ r.start = req[i].start /\ r.end = req[i].end
        BY <1>0 DEF Requests, InFlight
      <4>2. SetReq(i, r)
        BY <2>3, <3>1 DEF Find
      <4> HIDE DEF r
      <4> QED  BY <1>0, <1>1, <2>1, <4>1, <4>2 DEF OriginOf
    <3> QED  BY <2>2, <2>3, <3>1 DEF Find
  <2>4. CASE Size(i)
    <3> DEFINE end == Least(req[i].end, have - 1)
               r == [req[i] EXCEPT !.st = "sized", !.end = end]
    <3>1. CASE ~(NotFound \/ req[i].start > end)
      <4>1. end \in Nat /\ end =< req[i].end /\ end < have
        BY <1>0, <3>1 DEF NotFound, Absent, Least
      <4>2. SetReq(i, r)
        BY <2>4, <3>1 DEF Size
      <4> HIDE DEF end
      <4>3. /\ r \in Requests /\ r.st = "sized" /\ r.start = req[i].start /\ r.end = end
        BY <1>0, <4>1 DEF Requests, InFlight
      <4> HIDE DEF r
      <4>4. /\ have =< length /\ have \in Nat
        BY <3>1, <1>0 DEF OriginInv, NotFound
      <4>5. end < length
        BY <1>0, <4>1, <4>4
      <4>6. Ranges[i].end \in Nat /\ req[i].end =< Ranges[i].end
        <5>1. args.size \in Nat /\ args.peers \in Nat \ {0} /\ args.minChunk \in Nat \ {0}
          BY ArgumentsType DEF FetchInv, TypeOK
        <5> QED  BY <1>0, <5>1, RangesInFile DEF OriginOf, Ranges
      <4>7. end =< Ranges[i].end
        BY <1>0, <4>1, <4>6
      <4> QED  BY <1>1, <2>1, <4>2, <4>3, <4>5, <4>7
    <3> QED  BY <2>2, <2>4, <3>1 DEF Size
  <2>5. CASE Get(i)
    <3> DEFINE r == [req[i] EXCEPT !.st = "streaming"]
    <3>1. CASE ~(NotFound \/ OutOfBounds(req[i].start, req[i].end, have))
      <4>1. /\ r \in Requests /\ r.start = req[i].start /\ r.end = req[i].end
        BY <1>0 DEF Requests, InFlight
      <4>2. SetReq(i, r) /\ req[i].st = "sized"
        BY <2>5, <3>1 DEF Get
      <4> HIDE DEF r
      <4> QED  BY <1>0, <1>1, <2>1, <4>1, <4>2 DEF OriginOf
    <3> QED  BY <2>2, <2>5, <3>1 DEF Get
  <2>6. CASE Stream(i)
    <3> DEFINE got == req[i].got + Block(req[i])
               r == [req[i] EXCEPT !.got = got,
                       !.st = IF got = req[i].end - req[i].start + 1 THEN "ok" ELSE @]
    <3>1. CASE Block(req[i]) # 0
      <4>1. r.start = req[i].start /\ r.end = req[i].end
        BY <1>0 DEF Requests
      <4>2. SetReq(i, r) /\ req[i].st = "streaming"
        BY <2>6, <3>1 DEF Stream
      <4>3. req'[i] = r
        BY <1>0, <4>2 DEF SetReq
      <4>4. req'[i] \in Requests
        BY <1>3, TransferKeeps DEF RequestOK
      <4> HIDE DEF r
      <4> QED  BY <1>0, <1>1, <2>1, <4>1, <4>2, <4>3, <4>4 DEF OriginOf
    <3> QED  BY <2>2, <2>6, <3>1 DEF Stream
  <2> QED  BY <1>3, <2>3, <2>4, <2>5, <2>6 DEF Transfer
<1>4. ASSUME NEW i \in DOMAIN req, Break(i)
      PROVE  OriginInv'
  BY <1>2, <1>4 DEF Break
<1>5. ASSUME UNCHANGED << args, length, req >>, have' =< length
      PROVE  OriginInv'
  BY <1>5 DEF OriginInv, OriginOf, Ranges
<1>6. CASE CopyAgain
  BY <1>0, <1>5, <1>6 DEF CopyAgain
<1>7. CASE CopyMore
  BY <1>0, <1>5, <1>7 DEF CopyMore
<1>8. CASE UNCHANGED vars
  BY <1>5, <1>8 DEF vars, OriginInv
<1> QED  BY <1>3, <1>4, <1>6, <1>7, <1>8 DEF Next

\* What the checks at the end of a download rest on.
LEMMA RangesOf ==
  ASSUME FetchInv, args.size # 0
  PROVE  /\ args.size \in Nat /\ Len(Ranges) \in Nat \ {0} /\ DOMAIN req = 1 .. Len(Ranges)
         /\ \A i \in 1 .. Len(Ranges) :
              /\ Ranges[i].start \in Nat /\ Ranges[i].end \in Nat
              /\ Ranges[i].start =< Ranges[i].end
         /\ Ranges[1].start = 0 /\ Ranges[Len(Ranges)].end = args.size - 1
         /\ \A i \in 1 .. Len(Ranges) - 1 : Ranges[i + 1].start = Ranges[i].end + 1
         /\ \A i, j \in 1 .. Len(Ranges) : i < j => Ranges[i].end < Ranges[j].start
<1>1. args.size \in Nat \ {0} /\ args.peers \in Nat \ {0} /\ args.minChunk \in Nat \ {0}
  BY ArgumentsType DEF FetchInv, TypeOK
<1>2. \A i \in 1 .. Len(Ranges) : /\ Ranges[i].start \in Nat /\ Ranges[i].end \in Nat
                                  /\ Ranges[i].start =< Ranges[i].end
  BY <1>1, RangesInFile DEF Ranges
<1>3. InOrder(Ranges, args.size, args.peers, args.minChunk)
  BY <1>1, RangesInOrder DEF Ranges
<1>4. DOMAIN req = 1 .. Len(Ranges)
  BY DEF FetchInv, TypeOK
<1> QED  BY <1>1, <1>2, <1>3, <1>4 DEF InOrder

LEMMA CameBackFinite ==
  ASSUME FetchInv
  PROVE  Len(Ranges) \in Nat /\ DOMAIN req = 1 .. Len(Ranges) /\ Cardinality(CameBack) \in Nat
<1>1. DOMAIN req = 1 .. Len(Ranges)
  BY DEF FetchInv, TypeOK
<1>2. Len(Ranges) \in Nat
  <2>1. CASE args.size = 0
    <3>1. Ranges = << >>
      BY <2>1 DEF Ranges, SplitRanges
    <3> QED  BY <3>1
  <2>2. CASE args.size # 0
    BY <2>2, RangesOf
  <2> QED  BY <2>1, <2>2
<1>3. IsFiniteSet(1 .. Len(Ranges))
  BY <1>2, FS_Interval, 1 \in Int, Len(Ranges) \in Int
<1>4. CameBack \subseteq 1 .. Len(Ranges)
  BY <1>1 DEF CameBack
<1>5. IsFiniteSet(CameBack)
  BY <1>3, <1>4, FS_Subset
<1> QED  BY <1>1, <1>2, <1>5, FS_CardinalityType

\* An accepted download, as requests in an order.
LEMMA AcceptedOrder ==
  ASSUME FetchInv, Accepted
  PROVE  \E n \in Nat \ {0} : \E order \in [1 .. n -> CameBack] :
           /\ req[order[1]].start = 0
           /\ req[order[n]].end + 1 = args.size
           /\ \A k \in 1 .. n - 1 : req[order[k + 1]].start = req[order[k]].end + 1
<1> DEFINE n == Cardinality(CameBack)
<1>1. PICK order \in Orders : Covers([k \in DOMAIN order |-> req[order[k]]], args.size)
  BY DEF Accepted
<1> DEFINE parts == [k \in DOMAIN order |-> req[order[k]]]
<1>2. n \in Nat /\ order \in [1 .. n -> CameBack]
  BY <1>1, CameBackFinite DEF Orders
<1> HIDE DEF n
<1>3. DOMAIN parts = 1 .. n /\ \A k \in 1 .. n : parts[k] = req[order[k]]
  BY <1>2
<1>4. parts \in [1 .. n -> Requests]
  BY <1>2 DEF CameBack, FetchInv, TypeOK
<1>5. parts \in Seq(Requests) /\ Len(parts) = n
  BY <1>2, <1>4, FunctionIsSeq
<1>6. Covers(parts, args.size)
  BY <1>1
<1> HIDE DEF parts
<1>7. n # 0
  BY <1>5, <1>6, EmptySeq DEF Covers
<1>8. /\ parts[1].start = 0 /\ parts[n].end + 1 = args.size
      /\ \A k \in 1 .. n - 1 : parts[k + 1].start = parts[k].end + 1
  BY <1>5, <1>6 DEF Covers
<1>9. 1 \in 1 .. n /\ n \in 1 .. n /\ \A k \in 1 .. n - 1 : k \in 1 .. n /\ k + 1 \in 1 .. n
  BY <1>2, <1>7
<1>10. /\ req[order[1]].start = 0
       /\ req[order[n]].end + 1 = args.size
       /\ \A k \in 1 .. n - 1 : req[order[k + 1]].start = req[order[k]].end + 1
  BY <1>3, <1>8, <1>9
<1> QED  BY <1>2, <1>7, <1>10

\* What is accepted is every range, up to its end: were there a first place at which
\* another range stands, its start would leave a gap that no range before closes.
LEMMA AcceptedIsAll ==
  ASSUME FetchInv, OriginInv, Accepted
  PROVE  /\ args.size > 0
         /\ \A i \in DOMAIN req : req[i].st = "ok" /\ req[i].end = Ranges[i].end
<1> DEFINE N == Len(Ranges)
<1>0. PICK n \in Nat \ {0} : \E order \in [1 .. n -> CameBack] :
        /\ req[order[1]].start = 0
        /\ req[order[n]].end + 1 = args.size
        /\ \A k \in 1 .. n - 1 : req[order[k + 1]].start = req[order[k]].end + 1
  BY AcceptedOrder
<1>1. PICK order \in [1 .. n -> CameBack] :
        /\ req[order[1]].start = 0
        /\ req[order[n]].end + 1 = args.size
        /\ \A k \in 1 .. n - 1 : req[order[k + 1]].start = req[order[k]].end + 1
  BY <1>0
<1>2. ASSUME NEW k \in 1 .. n
      PROVE  /\ order[k] \in DOMAIN req /\ req[order[k]].st = "ok"
             /\ req[order[k]].start \in Nat /\ req[order[k]].end \in Nat
             /\ req[order[k]].start =< req[order[k]].end
             /\ req[order[k]].start = Ranges[order[k]].start
             /\ req[order[k]].end =< Ranges[order[k]].end
  <2>1. order[k] \in DOMAIN req /\ req[order[k]].st = "ok"
    BY DEF CameBack
  <2>2. RequestOK(req[order[k]]) /\ OriginOf(order[k])
    BY <2>1 DEF FetchInv, RequestInv, OriginInv
  <2> QED  BY <2>1, <2>2 DEF RequestOK, OriginOf, Requests
<1>3. args.size \in Nat /\ args.size > 0
  <2>1. n \in 1 .. n
    OBVIOUS
  <2>2. req[order[n]].end \in Nat
    BY <1>2, <2>1
  <2>3. args.size \in Nat
    BY ArgumentsType DEF FetchInv, TypeOK
  <2> QED  BY <1>1, <2>2, <2>3
<1>4. /\ N \in Nat \ {0} /\ DOMAIN req = 1 .. N
      /\ \A i \in 1 .. N : /\ Ranges[i].start \in Nat /\ Ranges[i].end \in Nat
                           /\ Ranges[i].start =< Ranges[i].end
      /\ Ranges[1].start = 0 /\ Ranges[N].end = args.size - 1
      /\ \A i \in 1 .. N - 1 : Ranges[i + 1].start = Ranges[i].end + 1
      /\ \A i, j \in 1 .. N : i < j => Ranges[i].end < Ranges[j].start
  <2>1. args.size # 0
    BY <1>3
  <2> QED  BY <2>1, RangesOf, Zenon
<1> HIDE DEF N
<1>5. \A k \in 1 .. n : order[k] = k
  <2> DEFINE T == {k \in Nat : k \in 1 .. n /\ order[k] # k}
  <2>1. SUFFICES ASSUME T # {} PROVE FALSE
    BY <2>1
  <2>2. PICK m \in T : \A k \in T : m =< k
    BY <2>1, LeastElement
  <2>3. m \in Nat /\ m \in 1 .. n /\ order[m] # m /\ order[m] \in 1 .. N
    BY <1>2, <1>4, <2>2
  <2>4. CASE m = 1
    <3>1. 1 \in 1 .. N /\ 1 < order[m]
      BY <1>4, <2>3, <2>4
    <3>2. Ranges[1].end < Ranges[order[m]].start
      BY <1>4, <2>3, <3>1
    <3>3. Ranges[order[m]].start = 0
      BY <1>1, <1>2, <2>3, <2>4
    <3> QED  BY <1>4, <3>1, <3>2, <3>3
  <2>5. CASE m # 1
    <3> DEFINE p == m - 1
    <3>1. p \in 1 .. n /\ p \in 1 .. n - 1 /\ p + 1 = m /\ p \in Nat /\ p < m
      BY <2>3, <2>5
    <3> HIDE DEF p
    <3>2. order[p] = p /\ p \in 1 .. N
      <4>1. p \notin T
        BY <2>2, <2>3, <3>1
      <4>2. order[p] = p
        BY <3>1, <4>1
      <4> QED  BY <1>2, <1>4, <3>1, <4>2
    <3>3. Ranges[order[m]].start = req[p].end + 1
      <4>1. req[order[p + 1]].start = req[order[p]].end + 1
        BY <1>1, <3>1
      <4> QED  BY <1>2, <2>3, <3>1, <3>2, <4>1
    <3>4. /\ req[p].end \in Nat /\ req[p].end =< Ranges[p].end
          /\ Ranges[p].start =< req[p].end
      BY <1>2, <3>1, <3>2
    <3>5. Ranges[p].start < Ranges[order[m]].start /\ Ranges[order[m]].start =< Ranges[p].end + 1
      BY <1>4, <3>2, <3>3, <3>4
    <3>6. CASE order[m] = p
      BY <1>4, <3>2, <3>5, <3>6
    <3>7. CASE order[m] < p
      <4>1. Ranges[order[m]].end < Ranges[p].start
        BY <1>4, <2>3, <3>2, <3>7
      <4>2. Ranges[order[m]].start =< Ranges[order[m]].end
        BY <1>4, <2>3
      <4> QED  BY <1>4, <2>3, <3>2, <3>5, <4>1, <4>2
    <3>8. CASE order[m] > m
      <4>1. m \in 1 .. N /\ p \in 1 .. N - 1
        BY <1>4, <2>3, <3>1, <3>2, <3>8
      <4>2. Ranges[m].start = Ranges[p].end + 1
        BY <1>4, <3>1, <4>1
      <4>3. Ranges[m].end < Ranges[order[m]].start
        BY <1>4, <2>3, <3>8, <4>1
      <4>4. /\ Ranges[m].start \in Nat /\ Ranges[m].end \in Nat
            /\ Ranges[m].start =< Ranges[m].end
            /\ Ranges[order[m]].start \in Nat /\ Ranges[p].end \in Nat
        BY <1>4, <2>3, <3>2, <4>1
      <4> QED  BY <3>5, <4>2, <4>3, <4>4
    <3>9. order[m] < p \/ order[m] = p \/ order[m] > m
      BY <1>4, <2>3, <3>1, <3>2
    <3> QED  BY <3>6, <3>7, <3>8, <3>9
  <2> QED  BY <2>4, <2>5
<1>6. n \in 1 .. N /\ \A k \in 1 .. n : k \in 1 .. N
  BY <1>2, <1>4, <1>5
<1>7. ASSUME NEW k \in 1 .. n
      PROVE  /\ req[k].st = "ok" /\ req[k].end \in Nat /\ req[k].start = Ranges[k].start
             /\ req[k].end =< Ranges[k].end
  BY <1>2, <1>5
<1>8. n = N /\ req[n].end = Ranges[n].end
  <2>1. n \in 1 .. n /\ N \in 1 .. N
    BY <1>4
  <2>2. req[n].end = args.size - 1 /\ req[n].end =< Ranges[n].end
    <3>1. req[n].end + 1 = args.size
      BY <1>1, <1>5, <2>1
    <3> QED  BY <1>7, <2>1, <3>1
  <2>3. ASSUME n < N
        PROVE  FALSE
    <3>1. Ranges[n].end < Ranges[N].start
      BY <1>4, <1>6, <2>1, <2>3
    <3>2. Ranges[N].start =< Ranges[N].end /\ Ranges[N].end = args.size - 1
      BY <1>4, <2>1
    <3>3. Ranges[n].end \in Nat /\ Ranges[N].start \in Nat /\ Ranges[N].end \in Nat
      BY <1>4, <1>6, <2>1
    <3> QED  BY <1>3, <2>2, <3>1, <3>2, <3>3
  <2>4. n = N
    BY <1>4, <1>6, <2>3
  <2> QED  BY <1>4, <2>2, <2>4
<1>9. ASSUME NEW k \in 1 .. n
      PROVE  req[k].end = Ranges[k].end
  <2>1. CASE k = n
    BY <1>8, <2>1
  <2>2. CASE k # n
    <3>1. k \in 1 .. n - 1 /\ k + 1 \in 1 .. n /\ k \in 1 .. N - 1
      BY <1>8, <2>2
    <3>2. req[k + 1].start = req[k].end + 1
      BY <1>1, <1>5, <3>1
    <3>3. req[k + 1].start = Ranges[k + 1].start /\ req[k].end \in Nat
      BY <1>7, <3>1
    <3>4. Ranges[k + 1].start = Ranges[k].end + 1
      BY <1>4, <3>1
    <3>5. Ranges[k].end \in Nat
      BY <1>4, <1>6
    <3> QED  BY <3>2, <3>3, <3>4, <3>5
  <2> QED  BY <2>1, <2>2
<1> QED  BY <1>3, <1>4, <1>7, <1>8, <1>9

\* And every range, up to its end, is accepted.
LEMMA AllIsAccepted ==
  ASSUME FetchInv, OriginInv, args.size > 0,
         \A i \in DOMAIN req : req[i].st = "ok" /\ req[i].end = Ranges[i].end
  PROVE  Accepted
<1> DEFINE N == Len(Ranges)
           order == [k \in 1 .. N |-> k]
           parts == [k \in DOMAIN order |-> req[order[k]]]
<1>1. /\ args.size \in Nat /\ N \in Nat \ {0} /\ DOMAIN req = 1 .. N
      /\ \A i \in 1 .. N : /\ Ranges[i].start \in Nat /\ Ranges[i].end \in Nat
                           /\ Ranges[i].start =< Ranges[i].end
      /\ Ranges[1].start = 0 /\ Ranges[N].end = args.size - 1
      /\ \A i \in 1 .. N - 1 : Ranges[i + 1].start = Ranges[i].end + 1
      /\ \A i, j \in 1 .. N : i < j => Ranges[i].end < Ranges[j].start
  <2>1. args.size # 0
    BY ArgumentsType DEF FetchInv, TypeOK
  <2> QED  BY <2>1, RangesOf
<1>2. CameBack = 1 .. N
  BY <1>1 DEF CameBack
<1>3. \A i \in 1 .. N : req[i].start = Ranges[i].start /\ req[i].end = Ranges[i].end
  BY <1>1 DEF OriginInv, OriginOf
<1> HIDE DEF N
<1>4. Cardinality(1 .. N) = N
  <2>1. 1 \in Int /\ N \in Int /\ ~(1 > N)
    BY <1>1
  <2>2. Cardinality(1 .. N) = IF 1 > N THEN 0 ELSE N - 1 + 1
    BY <2>1, FS_Interval, Zenon
  <2> QED  BY <1>1, <2>1, <2>2
<1>5. order \in Orders
  <2>1. ASSUME NEW k \in 1 .. N - 1
        PROVE  req[k].start < req[k + 1].start
    <3>1. k \in 1 .. N /\ k + 1 \in 1 .. N /\ k < k + 1
      BY <1>1
    <3>2. Ranges[k].end < Ranges[k + 1].start /\ Ranges[k].start =< Ranges[k].end
      BY <1>1, <3>1
    <3> QED  BY <1>1, <1>3, <3>1, <3>2
  <2>2. \A k \in 1 .. N - 1 : k \in 1 .. N /\ k + 1 \in 1 .. N
    BY <1>1
  <2>3. \A k \in 1 .. N - 1 : req[order[k]].start < req[order[k + 1]].start
    BY <2>1, <2>2
  <2>4. order \in [1 .. N -> CameBack]
    BY <1>2
  <2> HIDE DEF order
  <2> QED  BY <1>2, <1>4, <2>3, <2>4 DEF Orders
<1>6. parts \in [1 .. N -> Requests] /\ \A k \in 1 .. N : parts[k] = req[k]
  BY <1>1 DEF FetchInv, TypeOK, N
<1> HIDE DEF parts
<1>7. parts \in Seq(Requests) /\ Len(parts) = N
  BY <1>1, <1>6, FunctionIsSeq
<1>8. Covers(parts, args.size)
  <2>1. parts # << >>
    BY <1>1, <1>7, EmptySeq
  <2>2. 1 \in 1 .. N /\ N \in 1 .. N /\ \A k \in 1 .. N - 1 : k \in 1 .. N /\ k + 1 \in 1 .. N
    BY <1>1
  <2>3. parts[1].start = 0 /\ parts[N].end = args.size - 1
    BY <1>1, <1>3, <1>6, <2>2
  <2>4. ASSUME NEW k \in 1 .. N - 1
        PROVE  parts[k + 1].start = parts[k].end + 1
    <3>1. k \in 1 .. N /\ k + 1 \in 1 .. N
      BY <2>2
    <3>2. parts[k].end = req[k].end /\ parts[k + 1].start = req[k + 1].start
      BY <1>6, <3>1
    <3>3. req[k].end = Ranges[k].end /\ req[k + 1].start = Ranges[k + 1].start
      BY <1>1, <1>3, <3>1
    <3>4. Ranges[k + 1].start = Ranges[k].end + 1
      BY <1>1, <1>3, <3>1
    <3> QED  BY <3>2, <3>3, <3>4
  <2>5. parts[N].end + 1 = args.size
    BY <1>1, <2>3
  <2> QED  BY <1>7, <2>1, <2>3, <2>4, <2>5 DEF Covers
<1> QED  BY <1>5, <1>8 DEF Accepted, parts

LEMMA LossesNoticed == FetchInv /\ OriginInv => EveryLossIsNoticed
BY AcceptedIsAll, AllIsAccepted DEF EveryLossIsNoticed

LEMMA AcceptedWhole == FetchInv /\ OriginInv => AcceptedIsWhole
<1> SUFFICES ASSUME FetchInv, OriginInv, Accepted
             PROVE  /\ UNION {r.start .. r.start + r.got - 1 : r \in {req[i] : i \in DOMAIN req}}
                         = 0 .. args.size - 1
                    /\ length >= args.size
  BY DEF AcceptedIsWhole
<1>1. args.size > 0 /\ \A i \in DOMAIN req : req[i].st = "ok" /\ req[i].end = Ranges[i].end
  BY AcceptedIsAll
<1>2. /\ args.size \in Nat /\ Len(Ranges) \in Nat \ {0} /\ DOMAIN req = 1 .. Len(Ranges)
      /\ Ranges[Len(Ranges)].end = args.size - 1
  <2>1. args.size # 0
    BY <1>1, ArgumentsType DEF FetchInv, TypeOK
  <2> QED  BY <2>1, RangesOf
<1>3. ASSUME NEW i \in 1 .. Len(Ranges)
      PROVE  req[i].start .. req[i].start + req[i].got - 1 = Offsets(Ranges[i])
  <2>1. RequestOK(req[i]) /\ OriginOf(i)
    BY <1>2 DEF FetchInv, RequestInv, OriginInv
  <2>2. /\ req[i].start = Ranges[i].start /\ req[i].end = Ranges[i].end
        /\ req[i].got = req[i].end - req[i].start + 1
        /\ req[i].start \in Nat /\ req[i].end \in Nat
    BY <1>1, <1>2, <2>1 DEF RequestOK, OriginOf, Requests
  <2>3. req[i].start + req[i].got - 1 = req[i].end
    BY <2>2
  <2> QED  BY <2>2, <2>3 DEF Offsets
<1>4. UNION {Offsets(Ranges[i]) : i \in 1 .. Len(Ranges)} = 0 .. args.size - 1
  BY Partition DEF FetchInv, SplitIsPartition
<1>5. UNION {r.start .. r.start + r.got - 1 : r \in {req[i] : i \in DOMAIN req}}
        = UNION {Offsets(Ranges[i]) : i \in 1 .. Len(Ranges)}
  BY <1>2, <1>3
<1>6. length >= args.size
  <2> DEFINE last == Len(Ranges)
  <2>1. last \in 1 .. last /\ last \in DOMAIN req
    BY <1>2
  <2>2. req[last].end < length /\ req[last].end = args.size - 1
    BY <1>1, <1>2, <2>1 DEF OriginInv, OriginOf
  <2>3. length \in Nat
    BY DEF FetchInv, TypeOK
  <2> QED  BY <1>2, <2>2, <2>3
<1> QED  BY <1>4, <1>5, <1>6

\* For every size, number of peers, minimum range and block size, and whatever is
\* refused, lost or copied anew under a transfer: the download goes on to write
\* exactly if every range came back up to its end (agent/downloader.py:323-342).
THEOREM LossIsNoticed == Spec => []EveryLossIsNoticed
BY FetchInit, FetchStep, OriginInit, OriginStep, LossesNoticed, PTL DEF Spec

\* And what it goes on to write has every byte of the file
\* (agent/http_storage_adapter.py:74-90, fileserver/main.py:94-103).
THEOREM AcceptedAreWhole == Spec => []AcceptedIsWhole
BY FetchInit, FetchStep, OriginInit, OriginStep, AcceptedWhole, PTL DEF Spec
===============================================================================
