------------------------------- MODULE HttpFetch -------------------------------
(***************************************************************************)
(* A download whose sources keep their files on the HTTP file server        *)
(* (fileserver/main.py) and read them through agent/http_storage_adapter.py: *)
(* each /transfer (agent/p2p_server.py) is two HEADs and a GET with a Range, *)
(* and the file may be copied anew between and under them                   *)
(* (scripts/prepare_file.sh).                                               *)
(*                                                                          *)
(* A file is stored under its hash and copied in place, from the front: what *)
(* is there is always a beginning of it, and bytes are told apart by their   *)
(* offsets only.                                                            *)
(***************************************************************************)
EXTENDS RangeSplit, FiniteSets

CONSTANTS
  Arguments,   \* [size, peers, minChunk] of the downloads
  MaxPeers,    \* bound: how many peers a download has
  BlockSize,   \* CHUNK_SIZE
  MaxCopies,   \* bound: how often the file is copied again
  Lossy        \* TRUE: connections may break

ASSUME HttpAssumption ==
  /\ Arguments \subseteq [size : Nat, peers : 1 .. MaxPeers, minChunk : Nat \ {0}]
  /\ MaxPeers \in Nat \ {0}
  /\ BlockSize \in Nat \ {0}
  /\ MaxCopies \in Nat
  /\ Lossy \in BOOLEAN

VARIABLES
  args,      \* the arguments of the download
  length,    \* how long the file is
  have,      \* how much of it the file server has, Absent for no file
  copies,    \* how often it was copied again
  req,       \* req[i]: the request for the i-th range
  calm       \* the file is there, and no copy or failure since (for the properties only)

vars == << args, length, have, copies, req, calm >>

Absent == -1
InFlight == {"sent", "found", "sized", "streaming"}
Requests == [st : InFlight \cup {"ok", "error"}, start : Nat, end : Nat, got : Nat]

Ranges == SplitRanges(args.size, args.peers, args.minChunk)

-------------------------------------------------------------------------------
(***************************************************************************)
(* The file server.                                                        *)
(***************************************************************************)

\* head_file and get_file: 404.
NotFound == have = Absent

OutOfBoundsEarly(start, end, n) == start >= n \/ end >= n - 1 \/ start > end

\* get_file: 416 for a range that the n bytes of the file do not have.
OutOfBounds(start, end, n) == start >= n \/ end >= n \/ start > end

\* _stream_range: how many bytes the next read of an open file gives, of a range
\* of which `got' have been read.
Block(r) ==
  Least(Least(BlockSize, r.end - r.start + 1 - r.got), Greatest(0, have - (r.start + r.got)))

-------------------------------------------------------------------------------
(***************************************************************************)
(* One transfer at an agent with this backend.                             *)
(***************************************************************************)

SetReq(i, r) == req' = [req EXCEPT ![i] = r]
UnchangedByTransfer == UNCHANGED << args, length, have, copies, calm >>

Failed(r) == [r EXCEPT !.st = "error"]

\* exists: a HEAD.
Find(i) ==
  /\ req[i].st = "sent"
  /\ SetReq(i, IF NotFound THEN Failed(req[i]) ELSE [req[i] EXCEPT !.st = "found"])
  /\ UnchangedByTransfer

SizeUnchecked(i) ==
  /\ req[i].st = "found"
  /\ SetReq(i, IF NotFound THEN Failed(req[i])
               ELSE [req[i] EXCEPT !.st = "sized", !.end = Least(req[i].end, have - 1)])
  /\ UnchangedByTransfer

\* get_size, another HEAD; the range is cut to what there is now, and refused when
\* nothing is left of it.
Size(i) ==
  /\ req[i].st = "found"
  /\ LET end == Least(req[i].end, have - 1)
     IN SetReq(i, IF NotFound \/ req[i].start > end THEN Failed(req[i])
                  ELSE [req[i] EXCEPT !.st = "sized", !.end = end])
  /\ UnchangedByTransfer

\* read_range: a GET, which is answered with the very range or not at all.
Get(i) ==
  /\ req[i].st = "sized"
  /\ SetReq(i, IF NotFound \/ OutOfBounds(req[i].start, req[i].end, have) THEN Failed(req[i])
               ELSE [req[i] EXCEPT !.st = "streaming"])
  /\ UnchangedByTransfer

StreamUnlessEmpty(i) ==
  /\ req[i].st = "streaming"
  /\ Block(req[i]) > 0
  /\ LET got == req[i].got + Block(req[i])
     IN SetReq(i, [req[i] EXCEPT !.got = got,
                     !.st = IF got = req[i].end - req[i].start + 1 THEN "ok" ELSE @])
  /\ UnchangedByTransfer

StreamShort(i) ==
  /\ req[i].st = "streaming"
  /\ LET got == req[i].got + Block(req[i])
     IN SetReq(i, [req[i] EXCEPT !.got = got,
                     !.st = IF got = req[i].end - req[i].start + 1 \/ Block(req[i]) = 0
                            THEN "ok" ELSE @])
  /\ UnchangedByTransfer

\* _stream_range: one read.  A file that ends early leaves the body shorter than
\* its Content-Length, which breaks the connection and with it the transfer.
Stream(i) ==
  /\ req[i].st = "streaming"
  /\ LET got == req[i].got + Block(req[i])
     IN SetReq(i, IF Block(req[i]) = 0 THEN Failed(req[i])
                  ELSE [req[i] EXCEPT !.got = got,
                          !.st = IF got = req[i].end - req[i].start + 1 THEN "ok" ELSE @])
  /\ UnchangedByTransfer

\* A connection breaks: exists says no, the others raise.
Break(i) ==
  /\ Lossy
  /\ req[i].st \in InFlight
  /\ SetReq(i, Failed(req[i]))
  /\ calm' = FALSE
  /\ UNCHANGED << args, length, have, copies >>

Transfer(i) ==
  /\ i \in DOMAIN req
  /\ Find(i) \/ Size(i) \/ Get(i) \/ Stream(i)

-------------------------------------------------------------------------------
(***************************************************************************)
(* prepare_file.sh, for a file that is there or not: cp empties it, and     *)
(* fills it again.                                                          *)
(***************************************************************************)

CopyAgain ==
  /\ copies < MaxCopies
  /\ copies' = copies + 1
  /\ have' = 0
  /\ calm' = FALSE
  /\ UNCHANGED << args, length, req >>

CopyMore ==
  /\ have \in 0 .. length - 1
  /\ have' \in have + 1 .. length
  /\ UNCHANGED << args, length, copies, req, calm >>

-------------------------------------------------------------------------------
\* The file is as long as the download was told, or it was told wrong.
Init ==
  /\ args \in Arguments
  /\ length \in {n \in {args.size - 1, args.size, args.size + 1} : n >= 0}
  /\ have \in {Absent, 0, length}
  /\ copies = 0
  /\ req = [i \in 1 .. Len(Ranges) |->
              [st |-> "sent", start |-> Ranges[i].start, end |-> Ranges[i].end, got |-> 0]]
  /\ calm = (have = length)

Next ==
  \/ \E i \in DOMAIN req : Transfer(i) \/ Break(i)
  \/ CopyAgain
  \/ CopyMore

\* A server goes on with a transfer; nobody has to go on copying.
Fairness == \A i \in 1 .. MaxPeers : WF_vars(Transfer(i))

Spec == Init /\ [][Next]_vars
FairSpec == Spec /\ Fairness

-------------------------------------------------------------------------------
(***************************************************************************)
(* Properties.                                                             *)
(***************************************************************************)

TypeOK ==
  /\ args \in Arguments
  /\ length \in Nat
  /\ have \in Nat \cup {Absent}
  /\ copies \in 0 .. MaxCopies
  /\ req \in [1 .. Len(Ranges) -> Requests]
  /\ calm \in BOOLEAN

Ended == \A i \in DOMAIN req : req[i].st \notin InFlight

CameBack == {i \in DOMAIN req : req[i].st = "ok"}

\* The ways to put in the order of their starts what came back.
Orders ==
  LET n == Cardinality(CameBack)
  IN {order \in [1 .. n -> CameBack] :
        \A k \in 1 .. n - 1 : req[order[k]].start < req[order[k + 1]].start}

\* The downloader goes on to write what came back.
Accepted == \E order \in Orders : Covers([k \in DOMAIN order |-> req[order[k]]], args.size)

\* A range as the set of byte offsets it names.
Offsets(range) == range.start .. range.end

\* The reference definition of a split (agent/downloader.py:41-62): the ranges are
\* non-empty, pairwise disjoint, together exactly the offsets of the file, and no
\* more than the peers; and a file is split at all only where every part keeps the
\* minimum size.
SplitIsPartition ==
  /\ \A i \in 1 .. Len(Ranges) : Offsets(Ranges[i]) # {}
  /\ \A i, j \in 1 .. Len(Ranges) : i # j => Offsets(Ranges[i]) \cap Offsets(Ranges[j]) = {}
  /\ UNION {Offsets(Ranges[i]) : i \in 1 .. Len(Ranges)} = 0 .. args.size - 1
  /\ Len(Ranges) =< args.peers
  /\ Len(Ranges) > 1 =>
       \A i \in 1 .. Len(Ranges) : Cardinality(Offsets(Ranges[i])) >= args.minChunk

\* The downloader's contiguity check accepts what came back exactly when every
\* range came back up to its end: a lost or shortened first, middle or last range
\* is always noticed, and a complete set of answers is never refused
\* (agent/downloader.py:323-342, agent/p2p_server.py:146-152).
EveryLossIsNoticed ==
  Ended =>
    (Accepted <=>
       args.size > 0 /\ \A i \in DOMAIN req : req[i].st = "ok" /\ req[i].end = Ranges[i].end)

\* What is accepted is whole, byte for byte, although the check looks at the ends
\* of the ranges and not at what came: a copy under a transfer, at any point of it,
\* shortens no answer (agent/http_storage_adapter.py:74-90, fileserver/main.py:94-103).
AcceptedIsWhole ==
  Ended /\ Accepted =>
    /\ UNION {r.start .. r.start + r.got - 1 : r \in {req[i] : i \in DOMAIN req}}
         = 0 .. args.size - 1
    /\ length >= args.size

\* The bounds that the requester, the agent and the file server compute, each of its
\* own, fit together: of a file that is there and left alone every range is served,
\* to the last byte (agent/p2p_server.py:145-152, fileserver/main.py:71-72).
UntouchedIsServed ==
  calm /\ length >= args.size => \A i \in DOMAIN req : req[i].st # "error"

\* Every request ends, also when the file gets shorter under it and is never
\* filled again (fileserver/main.py:98-101).
FetchesEnd == <>Ended
===============================================================================
