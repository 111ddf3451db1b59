----------------------------- MODULE Swarm_proofs -----------------------------
(***************************************************************************)
(* Proofs about Swarm, for any agents, tasks, files, sizes and faults.     *)
(***************************************************************************)
EXTENDS SwarmInv, RangeSplit_proofs, FiniteSetTheorems

-------------------------------------------------------------------------------
(***************************************************************************)
(* Files.                                                                  *)
(***************************************************************************)

LEMMA ReadAtFacts ==
  ASSUME NEW content \in Seq(Byte), NEW offset \in Nat, NEW n \in Int
  PROVE  LET m == Least(offset + n, Len(content))
         IN /\ ReadAt(content, offset, n) \in Seq(Byte)
            /\ Len(ReadAt(content, offset, n)) = IF offset < m THEN m - offset ELSE 0
  <1> DEFINE m == Least(offset + n, Len(content))
  <1>1. m \in Int /\ m =< Len(content)
    BY DEF Least
  <1>2. \A i \in offset + 1 .. m : content[i] \in Byte
    BY <1>1
  <1>3. ReadAt(content, offset, n) = SubSeq(content, offset + 1, m)
    BY DEF ReadAt
  <1> HIDE DEF m
  <1>4. /\ SubSeq(content, offset + 1, m) \in Seq(Byte)
        /\ Len(SubSeq(content, offset + 1, m)) =
             IF offset + 1 <= m THEN m - (offset + 1) + 1 ELSE 0
    <2>1. offset + 1 \in Int
      OBVIOUS
    <2> QED
      BY <1>1, <1>2, <2>1, SubSeqProperties
  <1>5. Len(ReadAt(content, offset, n)) = IF offset < m THEN m - offset ELSE 0
    BY <1>1, <1>3, <1>4
  <1> QED
    BY <1>3, <1>4, <1>5 DEF m

LEMMA NextReadFacts ==
  ASSUME NEW content \in Seq(Byte), NEW start \in Nat, NEW end \in Int, NEW got \in Nat
  PROVE  /\ NextRead(content, start, end, got) \in Seq(Byte)
         /\ got =< end - start + 1 =>
              got + Len(NextRead(content, start, end, got)) =< end - start + 1
  <1> DEFINE n == Least(ReadSize, end - start + 1 - got)
  <1>1. n \in Int /\ n =< end - start + 1 - got
    BY SwarmAssumption DEF Least
  <1>2. start + got \in Nat
    OBVIOUS
  <1> HIDE DEF n
  <1>3. /\ ReadAt(content, start + got, n) \in Seq(Byte)
        /\ Len(ReadAt(content, start + got, n)) \in Nat
        /\ Len(ReadAt(content, start + got, n)) =< IF n >= 0 THEN n ELSE 0
    <2> DEFINE m == Least(start + got + n, Len(content))
    <2>1. m \in Int /\ m =< start + got + n
      BY <1>1, <1>2 DEF Least
    <2>2. /\ ReadAt(content, start + got, n) \in Seq(Byte)
          /\ Len(ReadAt(content, start + got, n)) =
               IF start + got < m THEN m - (start + got) ELSE 0
      BY <1>1, <1>2, ReadAtFacts
    <2> HIDE DEF m
    <2> QED
      BY <1>1, <1>2, <2>1, <2>2
  <1> QED
    BY <1>1, <1>3 DEF NextRead, n

\* Writing keeps a file a sequence of bytes; writing at its end makes it longer by
\* what is written.
LEMMA WriteAtFacts ==
  ASSUME NEW content \in Seq(Byte), NEW offset \in Nat, NEW bytes \in Seq(Byte)
  PROVE  /\ WriteAt(content, offset, bytes) \in Seq(Byte)
         /\ offset = Len(content) => WriteAt(content, offset, bytes) = content \o bytes
  <1> DEFINE n == Greatest(Len(content), offset + Len(bytes))
             b(i) == IF i > offset /\ i =< offset + Len(bytes) THEN bytes[i - offset]
                     ELSE IF i =< Len(content) THEN content[i] ELSE Zero
             w == [i \in 1 .. n |-> b(i)]
  <1>1. CASE bytes = << >>
    BY <1>1, ConcatEmptySeq DEF WriteAt
  <1>2. CASE bytes # << >>
    <2>1. n \in Nat /\ WriteAt(content, offset, bytes) = w
      BY <1>2 DEF Greatest, WriteAt
    <2>2. \A i \in 1 .. n : b(i) \in Byte
      BY SwarmAssumption
    <2>3. w \in [1 .. n -> Byte]
      BY <2>2
    <2>4. w \in Seq(Byte) /\ Len(w) = n
      <3>1. n \in Nat
        BY <2>1
      <3> HIDE DEF n, w
      <3> QED
        BY <2>3, <3>1, FunctionIsSeq
    <2>5. ASSUME offset = Len(content) PROVE w = content \o bytes
      <3>1. n = Len(content) + Len(bytes)
        BY <2>5 DEF Greatest
      <3>2. content \o bytes \in Seq(Byte) /\ Len(content \o bytes) = n
        BY <3>1, ConcatProperties
      <3>3. \A i \in 1 .. n : w[i] = (content \o bytes)[i]
        BY <3>1, <2>5, ConcatProperties
      <3> QED
        BY <3>2, <3>3, <2>4, SeqEqual
    <2> QED
      BY <2>1, <2>4, <2>5
  <1> QED
    BY <1>1, <1>2

-------------------------------------------------------------------------------
(***************************************************************************)
(* Types and handles.                                                      *)
(***************************************************************************)

TypeInv == TypeOK /\ HandlesOK

LEMMA NoJobType == NoJob \in Jobs /\ Errored \in Jobs
  <1>1. << >> \in Seq(Byte)
    OBVIOUS
  <1> QED
    BY <1>1 DEF NoJob, Errored, Blank, Jobs, InFlight

\* The end of a task is an end of its handles, too.
LEMMA EndTypes ==
  ASSUME TypeInv, NEW t \in Tasks, NEW outcome \in Terminal, End(t, outcome)
  PROVE  /\ pc' \in [Tasks -> PCs] /\ size' \in [Tasks -> Nat]
         /\ cand' \in [Tasks -> Seq(Agents)]
         /\ hs' \in [Tasks -> [Agents -> {"none", "asked", "accepted", "refused"}]]
         /\ job' \in [Tasks -> [Agents -> Jobs]]
         /\ parts' \in [Tasks -> Seq(Parts)]
         /\ fd' \in [Tasks -> Nat] /\ nxt' \in [Tasks -> Nat] /\ pos' \in [Tasks -> Nat]
         /\ pend' \in [Tasks -> Seq(Byte)] /\ buf' \in [Tasks -> Seq(Byte)]
         /\ pc'[t] = outcome
         /\ \A a \in Agents : job'[t][a] = NoJob
         /\ \A u \in Tasks : u # t =>
              pc'[u] = pc[u] /\ fd'[u] = fd[u] /\ job'[u] = job[u] /\ nxt'[u] = nxt[u]
  BY NoJobType DEF End, Forget, Goto, TypeInv, TypeOK, PCs, Terminal

\* Ending a task and leaving the disk alone, or only taking the name away.
LEMMA EndKeepsTypes ==
  ASSUME TypeInv, NEW t \in Tasks, NEW outcome \in Terminal, End(t, outcome),
         inode' = inode, \A a \in Agents : path'[a] \in {0, path[a]}, path' \in [Agents -> Nat]
  PROVE  TypeInv'
  <1>1. TypeOK'
    BY EndTypes DEF TypeInv, TypeOK
  <1>2. HandlesOK'
    <2>1. ASSUME NEW a \in Agents PROVE path'[a] =< Len(inode'[a])
      <3>1. path[a] \in Nat /\ Len(inode[a]) \in Nat /\ path[a] =< Len(inode[a])
        BY LenProperties DEF TypeInv, TypeOK, HandlesOK
      <3> QED
        BY <3>1
    <2>2. ASSUME NEW u \in Tasks, pc'[u] \in {"write", "verify"}
          PROVE  fd'[u] \in 1 .. Len(inode'[Home[u]])
      <3>1. u # t
        BY <2>2, EndTypes DEF Terminal
      <3>2. pc'[u] = pc[u] /\ fd'[u] = fd[u]
        BY <3>1, EndTypes
      <3> QED
        BY <2>2, <3>2 DEF TypeInv, HandlesOK
    <2>3. ASSUME NEW u \in Tasks, NEW a \in Agents, job'[u][a].st = "reading"
          PROVE  job'[u][a].fd \in 1 .. Len(inode'[a])
      <3>1. CASE u = t
        BY <2>3, <3>1, EndTypes DEF NoJob, Blank
      <3>2. CASE u # t
        <4>1. job'[u] = job[u]
          BY <3>2, EndTypes
        <4> QED
          BY <2>3, <4>1 DEF TypeInv, HandlesOK
      <3> QED
        BY <3>1, <3>2
    <2>4. ASSUME NEW u \in Tasks, pc'[u] = "write" PROVE nxt'[u] >= 1
      BY <2>4, EndTypes DEF TypeInv, HandlesOK, Terminal
    <2> QED
      BY <2>1, <2>2, <2>3, <2>4 DEF HandlesOK
  <1> QED
    BY <1>1, <1>2 DEF TypeInv

\* A server changes nothing but one transfer.
LEMMA SetJobKeepsTypes ==
  ASSUME TypeInv, NEW t \in Tasks, NEW a \in Agents, NEW j \in Jobs,
         SetJob(t, a, j), UnchangedByServer,
         j.st = "reading" => j.fd \in 1 .. Len(inode[a])
  PROVE  TypeInv'
  <1>1. TypeOK'
    BY DEF TypeInv, TypeOK, SetJob, UnchangedByServer, disk, file
  <1>2. HandlesOK'
    <2>1. ASSUME NEW u \in Tasks, NEW b \in Agents, job'[u][b].st = "reading"
          PROVE  job'[u][b].fd \in 1 .. Len(inode'[b])
      BY <2>1 DEF TypeInv, TypeOK, HandlesOK, SetJob, UnchangedByServer, disk
    <2> QED
      BY <2>1 DEF TypeInv, HandlesOK, UnchangedByServer, disk, file
  <1> QED
    BY <1>1, <1>2 DEF TypeInv

LEMMA ServeTypes ==
  ASSUME TypeInv, NEW t \in Tasks, NEW a \in Agents, Serve(t, a) \/ FetchFails(t, a)
  PROVE  TypeInv'
  <1>0. job[t][a] \in Jobs /\ Errored \in Jobs /\ Errored.st = "error"
    BY NoJobType DEF TypeInv, TypeOK, Errored, Blank
  <1>1. CASE ServeFind(t, a)
    <2>1. [job[t][a] EXCEPT !.st = "found"] \in Jobs
      BY <1>0 DEF Jobs, InFlight
    <2> QED
      BY <1>0, <1>1, <2>1, SetJobKeepsTypes DEF ServeFind, Jobs
  <1>2. CASE ServeSize(t, a)
    <2> DEFINE end == ClampedEnd(job[t][a].end, Len(Stored(a)))
    <2>1. CASE Present(a) /\ job[t][a].start =< end
      <3>1. Stored(a) \in Seq(Byte)
        BY <2>1, ElementOfSeq, LenProperties DEF TypeInv, TypeOK, HandlesOK, Present, Stored
      <3>2. end \in Int
        BY <1>0, <3>1 DEF ClampedEnd, Least, Jobs
      <3>3. [job[t][a] EXCEPT !.st = "sized", !.end = end] \in Jobs
        BY <1>0, <3>2 DEF Jobs, InFlight
      <3> QED
        BY <1>0, <1>2, <2>1, <3>3, SetJobKeepsTypes DEF ServeSize, Jobs
    <2>2. CASE ~(Present(a) /\ job[t][a].start =< end)
      BY <1>0, <1>2, <2>2, SetJobKeepsTypes DEF ServeSize
    <2> QED
      BY <2>1, <2>2
  <1>3. CASE ServeOpen(t, a)
    <2>1. CASE Present(a)
      <3>1. path[a] \in 1 .. Len(inode[a])
        BY <2>1, LenProperties DEF TypeInv, TypeOK, HandlesOK, Present
      <3>2. [job[t][a] EXCEPT !.st = "reading", !.fd = path[a]] \in Jobs
        BY <1>0, <3>1, path[a] \in Nat DEF Jobs, InFlight, TypeInv, TypeOK
      <3> QED
        BY <1>0, <1>3, <2>1, <3>1, <3>2, SetJobKeepsTypes DEF ServeOpen, Jobs
    <2>2. CASE ~Present(a)
      BY <1>0, <1>3, <2>2, SetJobKeepsTypes DEF ServeOpen
    <2> QED
      BY <2>1, <2>2
  <1>4. CASE ServeRead(t, a)
    <2> DEFINE j == job[t][a]
               chunk == NextRead(inode[a][j.fd], j.start, j.end, Len(j.data))
               data == j.data \o chunk
    <2>1. j.start \in Nat /\ j.end \in Int /\ j.data \in Seq(Byte) /\ Len(j.data) \in Nat
      BY <1>0, LenProperties DEF Jobs
    <2>2. j.fd \in 1 .. Len(inode[a])
      BY <1>4 DEF ServeRead, TypeInv, HandlesOK
    <2>3. inode[a][j.fd] \in Seq(Byte)
      BY <2>2, ElementOfSeq DEF TypeInv, TypeOK
    <2>4. chunk \in Seq(Byte)
      BY <2>1, <2>3, NextReadFacts
    <2> HIDE DEF chunk
    <2>5. data \in Seq(Byte)
      BY <2>1, <2>4, ConcatProperties
    <2> HIDE DEF data
    <2>6. /\ [j EXCEPT !.st = "ok", !.data = data, !.fd = 0] \in Jobs
          /\ [j EXCEPT !.data = data] \in Jobs
          /\ [j EXCEPT !.data = data].fd = j.fd
      BY <1>0, <2>5 DEF Jobs, InFlight
    <2>7. CASE chunk = << >> \/ Len(data) = j.end - j.start + 1
      BY <1>0, <1>4, <2>6, <2>7, SetJobKeepsTypes DEF ServeRead, Jobs, chunk, data
    <2>8. CASE ~(chunk = << >> \/ Len(data) = j.end - j.start + 1)
      BY <1>0, <1>4, <2>2, <2>6, <2>8, SetJobKeepsTypes DEF ServeRead, chunk, data
    <2> QED
      BY <2>7, <2>8
  <1>5. CASE FetchFails(t, a)
    BY <1>0, <1>5, SetJobKeepsTypes DEF FetchFails
  <1> QED
    BY <1>1, <1>2, <1>3, <1>4, <1>5 DEF Serve

LEMMA HandshakeTypes ==
  ASSUME TypeInv, NEW t \in Tasks, NEW a \in Agents, Handshake(t, a)
  PROVE  TypeInv'
  <1>0. \E v \in {"accepted", "refused"} : hs' = [hs EXCEPT ![t][a] = v]
    BY DEF Handshake, AnswerHandshake, LoseHandshake
  <1>1. TypeOK'
    <2>1. hs' \in [Tasks -> [Agents -> {"none", "asked", "accepted", "refused"}]]
      BY <1>0 DEF TypeInv, TypeOK
    <2> QED
      BY <2>1 DEF TypeInv, TypeOK, Handshake, AnswerHandshake, LoseHandshake, disk, file
  <1>2. HandlesOK'
    BY DEF TypeInv, HandlesOK, Handshake, AnswerHandshake, LoseHandshake, disk, file
  <1> QED
    BY <1>1, <1>2 DEF TypeInv

LEMMA StartTypes ==
  ASSUME TypeInv, NEW t \in Tasks, Start(t)
  PROVE  TypeInv'
  <1>1. CASE StartDownload(t)
    <2>1. PICK n \in Sizes, list \in TrackerLists(Home[t]) :
            /\ size' = [size EXCEPT ![t] = n]
            /\ cand' = [cand EXCEPT ![t] = FirstCandidates(list)]
            /\ hs' = [hs EXCEPT ![t] = [a \in Agents |->
                        IF \E i \in DOMAIN cand'[t] : cand'[t][i] = a THEN "asked" ELSE "none"]]
            /\ Goto(t, IF list = << >> THEN "failed" ELSE "handshake")
      BY <1>1 DEF StartDownload
    <2>2. list \in Seq(Agents)
      BY <2>1, SeqDef DEF TrackerLists
    <2>3. FirstCandidates(list) \in Seq(Agents)
      <3>1. Least(MaxPeers, Len(list)) \in 0 .. Len(list)
        BY <2>2, SwarmAssumption, LenProperties DEF Least
      <3>2. \A i \in 1 .. Least(MaxPeers, Len(list)) : list[i] \in Agents
        BY <2>2, <3>1, LenProperties
      <3> QED
        BY <3>1, <3>2, SubSeqProperties DEF FirstCandidates
    <2>0. [a \in Agents |-> IF \E i \in DOMAIN cand'[t] : cand'[t][i] = a
                            THEN "asked" ELSE "none"]
            \in [Agents -> {"none", "asked", "accepted", "refused"}]
      OBVIOUS
    <2>4. TypeOK'
      <3>1. size' \in [Tasks -> Nat] /\ cand' \in [Tasks -> Seq(Agents)]
        BY <2>1, <2>3, SwarmAssumption DEF TypeInv, TypeOK
      <3>2. hs' \in [Tasks -> [Agents -> {"none", "asked", "accepted", "refused"}]]
        BY <2>0, <2>1 DEF TypeInv, TypeOK
      <3>3. pc' \in [Tasks -> PCs]
        BY <2>1 DEF TypeInv, TypeOK, Goto, PCs, Terminal
      <3> QED
        BY <1>1, <3>1, <3>2, <3>3 DEF TypeInv, TypeOK, StartDownload, disk, file
    <2>5. HandlesOK'
      BY <1>1, <2>1 DEF TypeInv, TypeOK, HandlesOK, StartDownload, Goto, disk, file
    <2> QED
      BY <2>4, <2>5 DEF TypeInv
  <1>2. CASE StartSeed(t)
    <2>1. [start |-> 0, end |-> Len(File) - 1, data |-> File] \in Parts
      BY SwarmAssumption, LenProperties DEF Parts
    <2>2. TypeOK'
      BY <1>2, <2>1 DEF TypeInv, TypeOK, StartSeed, Goto, PCs, disk, net
    <2>3. HandlesOK'
      BY <1>2 DEF TypeInv, TypeOK, HandlesOK, StartSeed, Goto, disk, net
    <2> QED
      BY <2>2, <2>3 DEF TypeInv
  <1> QED
    BY <1>1, <1>2 DEF Start

LEMMA SendRequestsTypes ==
  ASSUME TypeInv, NEW t \in Tasks, SendRequests(t)
  PROVE  TypeInv'
  <1> DEFINE trusted == TrustedPeers(t)
             ranges == SplitRanges(size[t], Cardinality(trusted), MinChunk)
             jobs == [a \in Agents |->
                        IF a \in trusted /\ Place(t, a) \in DOMAIN ranges
                        THEN Request(ranges[Place(t, a)]) ELSE NoJob]
  <1>1. CASE trusted = {}
    BY <1>1, EndKeepsTypes DEF SendRequests, disk, TypeInv, TypeOK, Terminal
  <1>2. CASE trusted # {}
    <2>1. IsFiniteSet(trusted)
      BY SwarmAssumption, FS_Subset DEF TrustedPeers
    <2>2. Cardinality(trusted) \in Nat \ {0} /\ size[t] \in Nat
      BY <1>2, <2>1, FS_CardinalityType, FS_EmptySet DEF TypeInv, TypeOK
    <2>3. ranges \in Seq([start : Nat, end : Nat])
      <3>1. CASE size[t] = 0
        BY <3>1 DEF SplitRanges
      <3>2. CASE size[t] # 0
        BY <3>2, <2>2, SwarmAssumption, SplitPartitions
      <3> QED
        BY <3>1, <3>2
    <2> HIDE DEF ranges
    <2>4. \A i \in DOMAIN ranges : Request(ranges[i]) \in Jobs /\ Request(ranges[i]).st = "sent"
      <3>1. \A i \in DOMAIN ranges : ranges[i] \in [start : Nat, end : Nat]
        BY <2>3, LenProperties
      <3>2. << >> \in Seq(Byte)
        OBVIOUS
      <3> QED
        BY <3>1, <3>2 DEF Request, Jobs, InFlight
    <2>5. jobs \in [Agents -> Jobs] /\ \A a \in Agents : jobs[a].st # "reading"
      BY <2>4, NoJobType DEF NoJob, Blank
    <2>6. /\ job' = [job EXCEPT ![t] = jobs]
          /\ Goto(t, "fetch")
          /\ UNCHANGED << size, cand, hs, file, disk >>
      BY <1>2 DEF SendRequests, ranges
    <2> HIDE DEF jobs
    <2>7. TypeOK'
      BY <2>5, <2>6 DEF TypeInv, TypeOK, Goto, PCs, disk, file
    <2>8. HandlesOK'
      BY <2>5, <2>6 DEF TypeInv, TypeOK, HandlesOK, Goto, disk, file
    <2> QED
      BY <2>7, <2>8 DEF TypeInv
  <1> QED
    BY <1>1, <1>2

\* The chunks that are put together are those of the transfers that succeeded.
LEMMA ChunkTypes ==
  ASSUME TypeInv, NEW t \in Tasks, NEW peers \in SUBSET Agents,
         NEW q \in ByStart(peers, job[t]), Cardinality(peers) \in Nat
  PROVE  [i \in DOMAIN q |-> Chunk(job[t][q[i]])] \in Seq(Parts)
  <1> DEFINE n == Cardinality(peers)
             chunks == [i \in DOMAIN q |-> Chunk(job[t][q[i]])]
  <1>1. q \in [1 .. n -> peers]
    BY DEF ByStart
  <1>2. ASSUME NEW i \in 1 .. n PROVE Chunk(job[t][q[i]]) \in Parts
    <2>1. q[i] \in Agents
      BY <1>1
    <2>2. job[t][q[i]] \in Jobs
      BY <2>1 DEF TypeInv, TypeOK
    <2> QED
      BY <2>2 DEF Jobs, Chunk, Parts
  <1>3. chunks \in [1 .. n -> Parts]
    BY <1>1, <1>2
  <1> QED
    BY <1>3, FunctionIsSeq

LEMMA GatherTypes ==
  ASSUME TypeInv, NEW t \in Tasks, Gather(t)
  PROVE  TypeInv'
  <1> DEFINE peers == {a \in Agents : job[t][a].st = "ok"}
  <1>1. PICK q \in ByStart(peers, job[t]) :
          LET chunks == [i \in DOMAIN q |-> Chunk(job[t][q[i]])]
          IN IF Covers(chunks, size[t])
             THEN /\ parts' = [parts EXCEPT ![t] = chunks]
                  /\ Goto(t, "open")
                  /\ cand' = [cand EXCEPT ![t] = << >>]
                  /\ hs' = [hs EXCEPT ![t] = [a \in Agents |-> "none"]]
                  /\ job' = [job EXCEPT ![t] = [a \in Agents |-> NoJob]]
                  /\ UNCHANGED << size, fd, nxt, pos, pend, buf >>
             ELSE End(t, "failed")
    BY DEF Gather
  <1> DEFINE chunks == [i \in DOMAIN q |-> Chunk(job[t][q[i]])]
  <1>2. UNCHANGED disk
    BY DEF Gather
  <1>3. CASE Covers(chunks, size[t])
    <2>1. Cardinality(peers) \in Nat
      BY SwarmAssumption, FS_Subset, FS_CardinalityType
    <2>2. chunks \in Seq(Parts)
      BY <1>1, <2>1, ChunkTypes
    <2> HIDE DEF chunks
    <2>3. /\ parts' = [parts EXCEPT ![t] = chunks]
          /\ Goto(t, "open")
          /\ cand' = [cand EXCEPT ![t] = << >>]
          /\ hs' = [hs EXCEPT ![t] = [a \in Agents |-> "none"]]
          /\ job' = [job EXCEPT ![t] = [a \in Agents |-> NoJob]]
          /\ UNCHANGED << size, fd, nxt, pos, pend, buf >>
      BY <1>1, <1>3 DEF chunks
    <2>4. TypeOK'
      BY <1>2, <2>2, <2>3, NoJobType DEF TypeInv, TypeOK, Goto, PCs, disk
    <2>5. HandlesOK'
      BY <1>2, <2>3 DEF TypeInv, TypeOK, HandlesOK, Goto, disk, NoJob, Blank
    <2> QED
      BY <2>4, <2>5 DEF TypeInv
  <1>4. CASE ~Covers(chunks, size[t])
    BY <1>1, <1>2, <1>4, EndKeepsTypes DEF disk, TypeInv, TypeOK, Terminal
  <1> QED
    BY <1>3, <1>4

\* A directory in which one file's content changes, and no file disappears.
LEMMA InodeUpdate ==
  ASSUME TypeInv, NEW a \in Agents, NEW i \in 1 .. Len(inode[a]), NEW c \in Seq(Byte),
         inode' = [inode EXCEPT ![a][i] = c]
  PROVE  /\ inode' \in [Agents -> Seq(Seq(Byte))]
         /\ \A b \in Agents : Len(inode'[b]) = Len(inode[b])
         /\ inode'[a][i] = c
         /\ \A b \in Agents : b # a => inode'[b] = inode[b]
  <1>1. inode'[a] = [inode[a] EXCEPT ![i] = c] /\ inode[a] \in Seq(Seq(Byte))
    BY DEF TypeInv, TypeOK
  <1>2. inode'[a] \in Seq(Seq(Byte)) /\ Len(inode'[a]) = Len(inode[a]) /\ inode'[a][i] = c
    BY <1>1, ExceptSeq
  <1>3. \A b \in Agents : b # a => inode'[b] = inode[b]
    BY DEF TypeInv, TypeOK
  <1>4. inode' \in [Agents -> Seq(Seq(Byte))]
    BY <1>2, <1>3 DEF TypeInv, TypeOK
  <1> QED
    BY <1>2, <1>3, <1>4

\* What flushing does to the disk.
LEMMA FlushFacts ==
  ASSUME TypeInv, NEW t \in Tasks, fd[t] \in 1 .. Len(inode[Home[t]]),
         NEW bytes \in Seq(Byte), Flush(t, bytes)
  PROVE  LET old == inode[Home[t]][fd[t]]
         IN /\ inode' \in [Agents -> Seq(Seq(Byte))]
            /\ \A b \in Agents : Len(inode'[b]) = Len(inode[b])
            /\ \A b \in Agents : b # Home[t] => inode'[b] = inode[b]
            /\ old \in Seq(Byte)
            /\ inode'[Home[t]][fd[t]] \in Seq(Byte)
            /\ pos[t] = Len(old) => inode'[Home[t]][fd[t]] = old \o bytes
  <1> DEFINE a == Home[t]
             old == inode[a][fd[t]]
             new == WriteAt(old, pos[t], bytes)
  <1>1. a \in Agents /\ pos[t] \in Nat
    BY SwarmAssumption DEF TypeInv, TypeOK
  <1>2. old \in Seq(Byte)
    BY <1>1, ElementOfSeq DEF TypeInv, TypeOK
  <1>3. new \in Seq(Byte) /\ (pos[t] = Len(old) => new = old \o bytes)
    BY <1>1, <1>2, WriteAtFacts
  <1>4. inode' = [inode EXCEPT ![a][fd[t]] = new]
    BY DEF Flush
  <1> HIDE DEF new
  <1>5. /\ inode' \in [Agents -> Seq(Seq(Byte))]
        /\ \A b \in Agents : Len(inode'[b]) = Len(inode[b])
        /\ inode'[a][fd[t]] = new
        /\ \A b \in Agents : b # a => inode'[b] = inode[b]
    <2>1. fd[t] \in 1 .. Len(inode[a]) /\ new \in Seq(Byte)
      BY <1>3
    <2> QED
      BY <1>1, <1>4, <2>1, InodeUpdate
  <1> QED
    BY <1>2, <1>3, <1>5

\* A step that changes no transfer and does not shrink a directory.
LEMMA HandlesKept ==
  ASSUME TypeInv, NEW t \in Tasks, TypeOK',
         \A a \in Agents : Len(inode'[a]) >= Len(inode[a]) /\ path'[a] =< Len(inode'[a]),
         \A u \in Tasks \ {t} : pc'[u] = pc[u] /\ fd'[u] = fd[u] /\ nxt'[u] = nxt[u],
         \A a \in Agents : job'[t][a] = NoJob \/ job'[t][a] = job[t][a],
         \A u \in Tasks \ {t} : job'[u] = job[u],
         pc'[t] \in {"write", "verify"} => fd'[t] \in 1 .. Len(inode'[Home[t]]),
         pc'[t] = "write" => nxt'[t] >= 1
  PROVE  HandlesOK'
  <1>0. \A a \in Agents : Len(inode[a]) \in Nat /\ Len(inode'[a]) \in Nat
    BY LenProperties DEF TypeInv, TypeOK
  <1>1. ASSUME NEW u \in Tasks, pc'[u] \in {"write", "verify"}
        PROVE  fd'[u] \in 1 .. Len(inode'[Home[u]])
    <2>1. CASE u = t
      BY <1>1, <2>1
    <2>2. CASE u # t
      <3>1. Home[u] \in Agents
        BY SwarmAssumption
      <3>2. fd[u] \in 1 .. Len(inode[Home[u]]) /\ fd'[u] = fd[u]
        BY <1>1, <2>2 DEF TypeInv, HandlesOK
      <3> QED
        BY <1>0, <3>1, <3>2
    <2> QED
      BY <2>1, <2>2
  <1>2. ASSUME NEW u \in Tasks, NEW a \in Agents, job'[u][a].st = "reading"
        PROVE  job'[u][a].fd \in 1 .. Len(inode'[a])
    <2>1. job'[u][a] = job[u][a]
      BY <1>2 DEF NoJob, Blank
    <2>2. job[u][a].fd \in 1 .. Len(inode[a])
      BY <1>2, <2>1 DEF TypeInv, HandlesOK
    <2> QED
      BY <1>0, <2>1, <2>2
  <1>3. \A u \in Tasks : pc'[u] = "write" => nxt'[u] >= 1
    BY DEF TypeInv, HandlesOK
  <1> QED
    BY <1>1, <1>2, <1>3 DEF HandlesOK

LEMMA OpenForWriteTypes ==
  ASSUME TypeInv, NEW t \in Tasks, OpenForWrite(t)
  PROVE  TypeInv'
  <1> DEFINE a == Home[t]
  <1>1. a \in Agents /\ inode[a] \in Seq(Seq(Byte)) /\ Len(inode[a]) \in Nat
    BY SwarmAssumption, LenProperties DEF TypeInv, TypeOK
  <1>2. /\ inode' \in [Agents -> Seq(Seq(Byte))]
        /\ \A b \in Agents : Len(inode'[b]) >= Len(inode[b])
        /\ path' \in [Agents -> Nat]
        /\ \A b \in Agents : path'[b] =< Len(inode'[b])
        /\ fd' \in [Tasks -> Nat]
        /\ fd'[t] \in 1 .. Len(inode'[a])
    <2>1. CASE Present(a)
      <3>1. /\ inode' = [inode EXCEPT ![a][path[a]] = << >>]
            /\ fd' = [fd EXCEPT ![t] = path[a]]
            /\ path' = path
        BY <2>1 DEF OpenForWrite, Opened
      <3>2. path[a] \in 1 .. Len(inode[a])
        BY <1>1, <2>1 DEF Present, TypeInv, TypeOK, HandlesOK
      <3>3. << >> \in Seq(Byte)
        OBVIOUS
      <3>4. /\ inode' \in [Agents -> Seq(Seq(Byte))]
            /\ \A b \in Agents : Len(inode'[b]) = Len(inode[b])
        BY <1>1, <3>1, <3>2, <3>3, InodeUpdate
      <3>5. \A b \in Agents : Len(inode[b]) \in Nat
        BY LenProperties DEF TypeInv, TypeOK
      <3>6. path' \in [Agents -> Nat] /\ \A b \in Agents : path'[b] =< Len(inode'[b])
        BY <3>1, <3>4 DEF TypeInv, TypeOK, HandlesOK
      <3>7. path[a] \in Nat /\ fd \in [Tasks -> Nat]
        BY <1>1 DEF TypeInv, TypeOK
      <3>8. fd' \in [Tasks -> Nat] /\ fd'[t] = path[a]
        BY <3>1, <3>7
      <3> QED
        BY <1>1, <3>2, <3>4, <3>5, <3>6, <3>8
    <2>2. CASE ~Present(a)
      <3>1. /\ inode' = [inode EXCEPT ![a] = Append(inode[a], << >>)]
            /\ path' = [path EXCEPT ![a] = Len(inode[a]) + 1]
            /\ fd' = [fd EXCEPT ![t] = Len(inode[a]) + 1]
        BY <2>2 DEF OpenForWrite
      <3>2. << >> \in Seq(Byte)
        OBVIOUS
      <3>3. /\ Append(inode[a], << >>) \in Seq(Seq(Byte))
            /\ Len(Append(inode[a], << >>)) = Len(inode[a]) + 1
        BY <1>1, <3>2
      <3>4. \A b \in Agents : Len(inode[b]) \in Nat
        BY LenProperties DEF TypeInv, TypeOK
      <3>5. /\ inode \in [Agents -> Seq(Seq(Byte))] /\ path \in [Agents -> Nat]
            /\ fd \in [Tasks -> Nat]
            /\ \A b \in Agents : path[b] \in Nat /\ path[b] =< Len(inode[b])
        BY DEF TypeInv, TypeOK, HandlesOK
      <3>6. /\ inode' \in [Agents -> Seq(Seq(Byte))]
            /\ inode'[a] = Append(inode[a], << >>)
            /\ \A b \in Agents \ {a} : inode'[b] = inode[b]
        BY <1>1, <3>1, <3>3, <3>5
      <3>7. /\ path' \in [Agents -> Nat] /\ path'[a] = Len(inode[a]) + 1
            /\ \A b \in Agents \ {a} : path'[b] = path[b]
        BY <1>1, <3>1, <3>5
      <3>8. fd' \in [Tasks -> Nat] /\ fd'[t] = Len(inode[a]) + 1
        BY <1>1, <3>1, <3>5
      <3>9. Len(inode'[a]) = Len(inode[a]) + 1
        BY <3>3, <3>6
      <3>10. Len(inode'[a]) >= Len(inode[a]) /\ path'[a] =< Len(inode'[a])
        BY <1>1, <3>7, <3>9
      <3>11. ASSUME NEW b \in Agents \ {a}
             PROVE  Len(inode'[b]) >= Len(inode[b]) /\ path'[b] =< Len(inode'[b])
        BY <3>4, <3>5, <3>6, <3>7
      <3> QED
        BY <1>1, <3>6, <3>7, <3>8, <3>9, <3>10, <3>11
    <2> QED
      BY <2>1, <2>2
  <1>3. TypeOK'
    BY <1>2 DEF TypeInv, TypeOK, OpenForWrite, Goto, PCs, net
  <1>4. HandlesOK'
    <2>1. /\ \A u \in Tasks \ {t} : pc'[u] = pc[u] /\ fd'[u] = fd[u] /\ nxt'[u] = nxt[u]
          /\ job' = job
          /\ nxt'[t] = 1
      BY DEF OpenForWrite, Goto, net, TypeInv, TypeOK
    <2>2. /\ \A b \in Agents : Len(inode'[b]) >= Len(inode[b]) /\ path'[b] =< Len(inode'[b])
          /\ \A b \in Agents : job'[t][b] = NoJob \/ job'[t][b] = job[t][b]
          /\ \A u \in Tasks \ {t} : job'[u] = job[u]
          /\ nxt'[t] >= 1
      BY <1>2, <2>1
    <2> QED
      BY <1>2, <1>3, <2>1, <2>2, HandlesKept
  <1> QED
    BY <1>3, <1>4 DEF TypeInv

\* The types of a task's file variables after it forgets them.
LEMMA ForgetTypes ==
  ASSUME TypeInv, NEW t \in Tasks, Forget(t)
  PROVE  /\ parts' \in [Tasks -> Seq(Parts)] /\ fd' \in [Tasks -> Nat]
         /\ nxt' \in [Tasks -> Nat] /\ pos' \in [Tasks -> Nat]
         /\ pend' \in [Tasks -> Seq(Byte)] /\ buf' \in [Tasks -> Seq(Byte)]
         /\ \A u \in Tasks \ {t} : fd'[u] = fd[u] /\ nxt'[u] = nxt[u]
  BY DEF Forget, TypeInv, TypeOK

LEMMA WriteChunkTypes ==
  ASSUME TypeInv, NEW t \in Tasks, WriteChunk(t)
  PROVE  TypeInv'
  <1> DEFINE bytes == pend[t] \o parts[t][nxt[t]].data
  <1>1. /\ pc[t] = "write" /\ nxt[t] \in 1 .. Len(parts[t])
        /\ fd[t] \in 1 .. Len(inode[Home[t]])
    BY DEF WriteChunk, TypeInv, TypeOK, HandlesOK
  <1>2. bytes \in Seq(Byte) /\ Len(bytes) \in Nat
    <2>1. parts[t][nxt[t]] \in Parts
      BY <1>1, ElementOfSeq DEF TypeInv, TypeOK
    <2>2. parts[t][nxt[t]].data \in Seq(Byte)
      BY <2>1 DEF Parts
    <2> QED
      BY <2>2, ConcatProperties, LenProperties DEF TypeInv, TypeOK
  <1>3. PICK k \in 0 .. Len(bytes) :
          /\ Flush(t, SubSeq(bytes, 1, k))
          /\ pos' = [pos EXCEPT ![t] = @ + k]
          /\ pend' = [pend EXCEPT ![t] = SubSeq(bytes, k + 1, Len(bytes))]
    BY DEF WriteChunk
  <1> HIDE DEF bytes
  <1>4. SubSeq(bytes, 1, k) \in Seq(Byte) /\ SubSeq(bytes, k + 1, Len(bytes)) \in Seq(Byte)
    BY <1>2, LenProperties, SubSeqProperties
  <1>5. /\ inode' \in [Agents -> Seq(Seq(Byte))]
        /\ \A b \in Agents : Len(inode'[b]) = Len(inode[b])
    BY <1>1, <1>3, <1>4, FlushFacts
  <1>6. TypeOK'
    <2>1. pos' \in [Tasks -> Nat]
      <3>1. k \in Nat
        BY <1>2, LenProperties
      <3>2. pos \in [Tasks -> Nat]
        BY DEF TypeInv, TypeOK
      <3> QED
        BY <1>3, <3>1, <3>2
    <2>2. nxt' \in [Tasks -> Nat]
      <3>1. nxt' = [nxt EXCEPT ![t] = @ + 1]
        BY DEF WriteChunk
      <3>2. nxt \in [Tasks -> Nat]
        BY DEF TypeInv, TypeOK
      <3> QED
        BY <3>1, <3>2
    <2>3. pend' \in [Tasks -> Seq(Byte)]
      BY <1>3, <1>4 DEF TypeInv, TypeOK
    <2> QED
      BY <1>5, <2>1, <2>2, <2>3 DEF TypeInv, TypeOK, WriteChunk, net
  <1>7. HandlesOK'
    <2>1. /\ \A b \in Agents : Len(inode[b]) \in Nat
          /\ path' = path /\ pc' = pc /\ fd' = fd /\ job' = job
          /\ nxt' = [nxt EXCEPT ![t] = @ + 1] /\ nxt \in [Tasks -> Nat]
      BY LenProperties DEF WriteChunk, net, TypeInv, TypeOK
    <2>2. \A u \in Tasks : Home[u] \in Agents
      BY SwarmAssumption
    <2>3. \A u \in Tasks : pc'[u] = "write" => nxt'[u] >= 1
      BY <2>1 DEF TypeInv, HandlesOK
    <2>4. \A a \in Agents : path'[a] =< Len(inode'[a])
      BY <1>5, <2>1 DEF TypeInv, HandlesOK
    <2>5. \A u \in Tasks : pc'[u] \in {"write", "verify"} => fd'[u] \in 1 .. Len(inode'[Home[u]])
      BY <1>5, <2>1, <2>2 DEF TypeInv, HandlesOK
    <2>6. \A u \in Tasks, a \in Agents :
            job'[u][a].st = "reading" => job'[u][a].fd \in 1 .. Len(inode'[a])
      BY <1>5, <2>1 DEF TypeInv, HandlesOK
    <2> QED
      BY <2>3, <2>4, <2>5, <2>6 DEF HandlesOK
  <1> QED
    BY <1>6, <1>7 DEF TypeInv

\* Closing the file, whatever of the pending bytes gets to the disk.
LEMMA CloseTypes ==
  ASSUME TypeInv, NEW t \in Tasks, NEW l \in PCs \ {"write", "verify"},
         pc[t] = "write", NEW bytes \in Seq(Byte), Flush(t, bytes), Forget(t), Goto(t, l),
         path' = path, TypeOK',
         \A u \in Tasks \ {t} : job'[u] = job[u],
         \A a \in Agents : job'[t][a] = NoJob \/ job'[t][a] = job[t][a]
  PROVE  HandlesOK'
  <1>1. fd[t] \in 1 .. Len(inode[Home[t]])
    BY DEF TypeInv, HandlesOK
  <1>2. \A b \in Agents : Len(inode'[b]) = Len(inode[b])
    BY <1>1, FlushFacts
  <1>3. \A a \in Agents : Len(inode[a]) \in Nat
    BY LenProperties DEF TypeInv, TypeOK
  <1>4. pc'[t] = l /\ \A u \in Tasks \ {t} : pc'[u] = pc[u]
    BY DEF Goto, TypeInv, TypeOK
  <1>5. \A a \in Agents : Len(inode'[a]) >= Len(inode[a]) /\ path'[a] =< Len(inode'[a])
    <2>1. \A a \in Agents : path'[a] =< Len(inode[a])
      BY DEF TypeInv, HandlesOK
    <2> QED
      BY <1>2, <1>3, <2>1
  <1> QED
    <2>1. pc'[t] \notin {"write", "verify"}
      BY <1>4
    <2>2. \A u \in Tasks \ {t} : pc'[u] = pc[u] /\ fd'[u] = fd[u] /\ nxt'[u] = nxt[u]
      BY <1>4, ForgetTypes
    <2> QED
      BY <1>5, <2>1, <2>2, HandlesKept

LEMMA CloseFileTypes ==
  ASSUME TypeInv, NEW t \in Tasks, CloseFile(t)
  PROVE  TypeInv'
  <1>1. pend[t] \in Seq(Byte) /\ fd[t] \in 1 .. Len(inode[Home[t]])
    BY DEF CloseFile, TypeInv, TypeOK, HandlesOK
  <1>2. PICK l \in {"done", "verifyOpen"} : Goto(t, l)
    BY DEF CloseFile
  <1>3. inode' \in [Agents -> Seq(Seq(Byte))]
    BY <1>1, FlushFacts DEF CloseFile
  <1>4. TypeOK'
    BY <1>2, <1>3, ForgetTypes DEF TypeInv, TypeOK, CloseFile, Goto, PCs, Terminal, net
  <1>5. HandlesOK'
    <2>1. /\ pc[t] = "write" /\ Flush(t, pend[t]) /\ Forget(t) /\ path' = path /\ job' = job
          /\ l \in PCs \ {"write", "verify"}
      BY DEF CloseFile, net, PCs, Terminal
    <2> QED
      BY <1>1, <1>2, <1>4, <2>1, CloseTypes
  <1> QED
    BY <1>4, <1>5 DEF TypeInv

LEMMA VerifyOpenTypes ==
  ASSUME TypeInv, NEW t \in Tasks, VerifyOpen(t)
  PROVE  TypeInv'
  <1>1. CASE ~Present(Home[t])
    BY <1>1, EndKeepsTypes DEF VerifyOpen, disk, TypeInv, TypeOK, Terminal
  <1>2. CASE Present(Home[t])
    <2> DEFINE a == Home[t]
    <2>1. a \in Agents /\ path[a] \in 1 .. Len(inode[a])
      BY <1>2, SwarmAssumption, LenProperties DEF Present, TypeInv, TypeOK, HandlesOK
    <2>2. /\ fd' = [fd EXCEPT ![t] = path[a]] /\ Goto(t, "verify")
          /\ UNCHANGED << size, net, parts, nxt, pos, pend, buf, disk >>
      BY <1>2 DEF VerifyOpen
    <2>3. TypeOK'
      BY <2>1, <2>2 DEF TypeInv, TypeOK, Goto, PCs, net, disk
    <2>4. HandlesOK'
      <3>1. /\ \A u \in Tasks \ {t} : pc'[u] = pc[u] /\ fd'[u] = fd[u] /\ nxt'[u] = nxt[u]
            /\ job' = job /\ inode' = inode /\ path' = path
            /\ pc'[t] = "verify" /\ fd'[t] = path[a]
        BY <2>2 DEF Goto, net, disk, TypeInv, TypeOK
      <3>2. \A b \in Agents : Len(inode'[b]) >= Len(inode[b]) /\ path'[b] =< Len(inode'[b])
        BY <3>1, LenProperties DEF TypeInv, TypeOK, HandlesOK
      <3> QED
        BY <2>1, <2>3, <3>1, <3>2, HandlesKept
    <2> QED
      BY <2>3, <2>4 DEF TypeInv
  <1> QED
    BY <1>1, <1>2

\* Where a task forgets its files and the disk stays as it is.
LEMMA ForgetKeepsTypes ==
  ASSUME TypeInv, NEW t \in Tasks, Forget(t), NEW l \in PCs \ {"write", "verify"},
         Goto(t, l), UNCHANGED << disk, size, net >>
  PROVE  TypeInv'
  <1>1. TypeOK'
    BY ForgetTypes DEF TypeInv, TypeOK, Goto, disk, net
  <1>2. HandlesOK'
    <2>1. /\ \A u \in Tasks \ {t} : pc'[u] = pc[u] /\ fd'[u] = fd[u] /\ nxt'[u] = nxt[u]
          /\ pc'[t] = l /\ job' = job /\ inode' = inode /\ path' = path
      BY ForgetTypes DEF Goto, net, disk, TypeInv, TypeOK
    <2>2. \A b \in Agents : Len(inode'[b]) >= Len(inode[b]) /\ path'[b] =< Len(inode'[b])
      BY <2>1, LenProperties DEF TypeInv, TypeOK, HandlesOK
    <2> QED
      BY <1>1, <2>1, <2>2, HandlesKept
  <1> QED
    BY <1>1, <1>2 DEF TypeInv

\* The bytes read back.
LEMMA ReadBackType ==
  ASSUME TypeInv, NEW t \in Tasks, pc[t] = "verify"
  PROVE  LET chunk == NextRead(inode[Home[t]][fd[t]], 0, size[t] - 1, Len(buf[t]))
         IN chunk \in Seq(Byte) /\ buf[t] \o chunk \in Seq(Byte)
  <1>1. inode[Home[t]][fd[t]] \in Seq(Byte)
    BY SwarmAssumption, ElementOfSeq DEF TypeInv, TypeOK, HandlesOK
  <1>2. buf[t] \in Seq(Byte) /\ Len(buf[t]) \in Nat /\ size[t] - 1 \in Int /\ 0 \in Nat
    BY LenProperties DEF TypeInv, TypeOK
  <1>3. NextRead(inode[Home[t]][fd[t]], 0, size[t] - 1, Len(buf[t])) \in Seq(Byte)
    BY <1>1, <1>2, NextReadFacts
  <1> QED
    BY <1>2, <1>3, ConcatProperties

LEMMA VerifyReadTypes ==
  ASSUME TypeInv, NEW t \in Tasks, VerifyRead(t)
  PROVE  TypeInv'
  <1> DEFINE chunk == NextRead(inode[Home[t]][fd[t]], 0, size[t] - 1, Len(buf[t]))
             read == buf[t] \o chunk
  <1>0. chunk \in Seq(Byte) /\ read \in Seq(Byte)
    BY ReadBackType DEF VerifyRead
  <1>1. \/ /\ buf' = [buf EXCEPT ![t] = read]
           /\ UNCHANGED << disk, pc, size, net, parts, fd, nxt, pos, pend >>
        \/ End(t, "done") /\ UNCHANGED disk
        \/ Forget(t) /\ Goto(t, "discard") /\ UNCHANGED << disk, size, net >>
    BY DEF VerifyRead
  <1> HIDE DEF chunk, read
  <1>2. CASE /\ buf' = [buf EXCEPT ![t] = read]
             /\ UNCHANGED << disk, pc, size, net, parts, fd, nxt, pos, pend >>
    <2>1. TypeOK'
      BY <1>0, <1>2 DEF TypeInv, TypeOK, disk, net
    <2>2. HandlesOK'
      BY <1>2 DEF TypeInv, HandlesOK, disk, net
    <2> QED
      BY <2>1, <2>2 DEF TypeInv
  <1>3. CASE End(t, "done") /\ UNCHANGED disk
    BY <1>3, EndKeepsTypes DEF disk, TypeInv, TypeOK, Terminal
  <1>4. CASE Forget(t) /\ Goto(t, "discard") /\ UNCHANGED << disk, size, net >>
    BY <1>4, ForgetKeepsTypes DEF PCs
  <1> QED
    BY <1>1, <1>2, <1>3, <1>4

LEMMA DiscardTypes ==
  ASSUME TypeInv, NEW t \in Tasks, Discard(t)
  PROVE  TypeInv'
  BY EndKeepsTypes DEF Discard, Unlink, TypeInv, TypeOK, Terminal

\* A prefix of a sequence of bytes is one.
LEMMA PrefixType ==
  ASSUME NEW bytes \in Seq(Byte), NEW k \in 0 .. Len(bytes)
  PROVE  SubSeq(bytes, 1, k) \in Seq(Byte)
  BY LenProperties, SubSeqProperties

LEMMA FaultTypes ==
  ASSUME TypeInv, NEW t \in Tasks, Fault(t)
  PROVE  TypeInv'
  <1>1. CASE StorageRaises(t) \/ Crash(t)
    BY <1>1, EndKeepsTypes DEF StorageRaises, Crash, disk, TypeInv, TypeOK, Terminal
  <1>2. CASE WriteFails(t)
    <2> DEFINE bytes == pend[t] \o parts[t][nxt[t]].data
    <2>1. bytes \in Seq(Byte)
      <3>1. nxt[t] \in 1 .. Len(parts[t])
        BY <1>2 DEF WriteFails, TypeInv, TypeOK, HandlesOK
      <3>2. parts[t][nxt[t]] \in Parts
        BY <3>1, ElementOfSeq DEF TypeInv, TypeOK
      <3>3. parts[t][nxt[t]].data \in Seq(Byte)
        BY <3>2 DEF Parts
      <3> QED
        BY <3>3, ConcatProperties DEF TypeInv, TypeOK
    <2>2. PICK k \in 0 .. Len(bytes) : Flush(t, SubSeq(bytes, 1, k))
      BY <1>2 DEF WriteFails
    <2> HIDE DEF bytes
    <2>3. SubSeq(bytes, 1, k) \in Seq(Byte) /\ fd[t] \in 1 .. Len(inode[Home[t]])
      BY <1>2, <2>1, PrefixType DEF WriteFails, TypeInv, HandlesOK
    <2>4. inode' \in [Agents -> Seq(Seq(Byte))]
      BY <2>2, <2>3, FlushFacts
    <2>5. TypeOK'
      BY <1>2, <2>4, ForgetTypes DEF TypeInv, TypeOK, WriteFails, Goto, PCs, net
    <2>6. /\ pc[t] = "write" /\ Forget(t) /\ Goto(t, "discard") /\ path' = path /\ job' = job
          /\ "discard" \in PCs \ {"write", "verify"}
      BY <1>2 DEF WriteFails, net, PCs
    <2>7. HandlesOK'
      BY <2>2, <2>3, <2>5, <2>6, CloseTypes
    <2> QED
      BY <2>5, <2>7 DEF TypeInv
  <1>3. CASE CloseFails(t)
    <2>1. pend[t] \in Seq(Byte) /\ Len(pend[t]) \in Nat
      BY LenProperties DEF TypeInv, TypeOK
    <2>2. PICK k \in 0 .. Len(pend[t]) : Flush(t, SubSeq(pend[t], 1, k))
      BY <1>3, <2>1 DEF CloseFails
    <2>3. SubSeq(pend[t], 1, k) \in Seq(Byte) /\ fd[t] \in 1 .. Len(inode[Home[t]])
      BY <1>3, <2>1, PrefixType DEF CloseFails, TypeInv, HandlesOK
    <2>4. inode' \in [Agents -> Seq(Seq(Byte))]
      BY <2>2, <2>3, FlushFacts
    <2>5. End(t, "failed") /\ "failed" \in Terminal /\ path' = path
      BY <1>3 DEF CloseFails, Terminal
    <2>6. TypeOK'
      BY <2>4, <2>5, EndTypes DEF TypeInv, TypeOK
    <2>7. /\ pc[t] = "write" /\ Forget(t) /\ Goto(t, "failed")
          /\ "failed" \in PCs \ {"write", "verify"}
      BY <1>3, <2>5 DEF CloseFails, End, PCs, Terminal
    <2>8. /\ \A a \in Agents : job'[t][a] = NoJob
          /\ \A u \in Tasks \ {t} : job'[u] = job[u]
      BY <2>5, EndTypes
    <2>9. HandlesOK'
      BY <2>2, <2>3, <2>5, <2>6, <2>7, <2>8, CloseTypes
    <2> QED
      BY <2>6, <2>9 DEF TypeInv
  <1> QED
    BY <1>1, <1>2, <1>3 DEF Fault

LEMMA InitTypes ==
  Init => TypeInv
  <1> SUFFICES ASSUME Init PROVE TypeInv
    OBVIOUS
  <1>1. \A a \in Agents : inode[a] \in Seq(Seq(Byte)) /\ Len(inode[a]) \in Nat
    <2>1. \A a \in Agents : inode[a] \in Copies[a]
      BY DEF Init
    <2>2. \A a \in Agents : inode[a] \in Seq(Seq(Byte))
      BY <2>1, SwarmAssumption
    <2> QED
      BY <2>2, LenProperties
  <1>2. inode \in [Agents -> Seq(Seq(Byte))]
    BY <1>1 DEF Init
  <1>3. << >> \in Seq(Byte) /\ << >> \in Seq(Agents) /\ << >> \in Seq(Parts)
    OBVIOUS
  <1>4. TypeOK
    BY <1>1, <1>2, <1>3, NoJobType DEF Init, TypeOK, PCs
  <1>5. HandlesOK
    BY <1>1 DEF Init, HandlesOK, NoJob, Blank
  <1> QED
    BY <1>4, <1>5 DEF TypeInv

LEMMA NextTypes ==
  TypeInv /\ [Next]_vars => TypeInv'
  <1> SUFFICES ASSUME TypeInv, [Next]_vars PROVE TypeInv'
    OBVIOUS
  <1>1. ASSUME NEW t \in Tasks, Work(t) PROVE TypeInv'
    BY <1>1, SendRequestsTypes, GatherTypes, OpenForWriteTypes, WriteChunkTypes,
       CloseFileTypes, VerifyOpenTypes, VerifyReadTypes, DiscardTypes DEF Work
  <1>2. CASE UNCHANGED vars
    <2>1. TypeOK'
      BY <1>2 DEF TypeInv, TypeOK, vars, disk, net, file
    <2>2. HandlesOK'
      BY <1>2 DEF TypeInv, HandlesOK, vars, disk, net, file
    <2> QED
      BY <2>1, <2>2 DEF TypeInv
  <1> QED
    BY <1>1, <1>2, StartTypes, FaultTypes, HandshakeTypes, ServeTypes DEF Next

(***************************************************************************)
(* Type correctness: whatever the tracker, the peers, the disk and the     *)
(* scheduler do, a range starts at an offset of the file, a transfer in    *)
(* one of its stages, and a handle is one of a file that exists.           *)
(***************************************************************************)
THEOREM TypeCorrect == Spec => []TypeOK
  <1>1. TypeInv => TypeOK
    BY DEF TypeInv
  <1> QED
    BY <1>1, InitTypes, NextTypes, PTL DEF Spec
===============================================================================
