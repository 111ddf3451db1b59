------------------------------ MODULE RangeSplit ------------------------------
(***************************************************************************)
(* The arithmetic of a multi-peer download (agent/downloader.py): how the  *)
(* byte offsets 0 .. size - 1 of a file are cut into one range per peer,   *)
(* and the check that the ranges which came back are the whole file.       *)
(*                                                                         *)
(* Offsets are 0-based and a range [start |-> i, end |-> j] includes both  *)
(* of its ends, as in the source; sequences are 1-based, as in TLA+.       *)
(***************************************************************************)
EXTENDS Integers, Sequences

Least(a, b) == IF a =< b THEN a ELSE b
Greatest(a, b) == IF a >= b THEN a ELSE b

\* How many of `peers' peers are given a range: never so many that a range
\* would fall under minChunk bytes, and always at least one.
ActualPeers(size, peers, minChunk) ==
  Least(peers, Greatest(1, size \div minChunk))

SplitRangesLosingRest(size, peers, minChunk) ==
  IF size = 0 THEN << >>
  ELSE LET n == ActualPeers(size, peers, minChunk)
           chunk == size \div n
       IN [i \in 1 .. n |-> [start |-> (i - 1) * chunk, end |-> i * chunk - 1]]

\* The ranges of a file of `size' bytes for at least one peer.  The last range
\* takes what the integer division leaves over.
SplitRanges(size, peers, minChunk) ==
  IF size = 0 THEN << >>
  ELSE LET n == ActualPeers(size, peers, minChunk)
           chunk == size \div n
       IN [i \in 1 .. n |->
             [start |-> (i - 1) * chunk,
              end   |-> IF i < n THEN i * chunk - 1 ELSE size - 1]]

CoversWithoutEnd(parts, size) ==
  /\ parts # << >>
  /\ parts[1].start = 0
  /\ \A i \in 1 .. Len(parts) - 1 : parts[i + 1].start = parts[i].end + 1

\* What the downloader requires of the ranges it got back, in the order of
\* their starts, before it writes anything: there is one, the first begins the
\* file, each begins where its predecessor ended, and the last ends the file.
Covers(parts, size) ==
  /\ parts # << >>
  /\ parts[1].start = 0
  /\ \A i \in 1 .. Len(parts) - 1 : parts[i + 1].start = parts[i].end + 1
  /\ parts[Len(parts)].end + 1 = size
===============================================================================
