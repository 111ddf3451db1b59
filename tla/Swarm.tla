--------------------------------- MODULE Swarm ---------------------------------
(***************************************************************************)
(* The transfer of one file through the swarm: agents that seed it          *)
(* (agent/p2p_server.py) out of a LocalStorage directory                    *)
(* (agent/storage.py), and one-shot command line tasks that download it     *)
(* (agent/downloader.py, agent/cli.py) or seed it (agent/cli.py).           *)
(*                                                                          *)
(* Every `await' of the code that gives another coroutine, thread or        *)
(* process a turn ends a step here.  A task runs at one agent, Home[t], and *)
(* shares that agent's directory with the agent's server and with the other *)
(* tasks of the same home.                                                  *)
(*                                                                          *)
(* Data.  A file content is a sequence of bytes of the small set Byte.      *)
(* SHA-256 is taken to be collision free: a checksum is the bytes it is of, *)
(* and `the hash is file_hash' is `the bytes are File'.  Checksums of one   *)
(* chunk are computed by the server over the bytes it sends and can only    *)
(* fail when the response is damaged, which is among what FetchFails does.  *)
(***************************************************************************)
EXTENDS Integers, Sequences, FiniteSets, RangeSplit

CONSTANTS
  Agents,      \* agents, each with one storage directory
  Tasks,       \* command line invocations (agent/cli.py)
  SeedTasks,   \* those that are `seed'; the others are `download'
  Home,        \* the agent in whose directory a task works
  Admits,      \* << a, b >>: b is a trust anchor of a's server, or a is started
               \* with P2P_TRUST_ALL
  Down,        \* agents the tracker still lists but whose server is gone
  Byte, Zero,  \* bytes, and the one that fills holes in a file
  File,        \* the content whose hash is file_hash
  Sizes,       \* values of the file_size argument
  Copies,      \* what each directory may hold at the start: << >> for no file,
               \* or << content >>
  MaxPeers,    \* downloader.max_peers
  MinChunk,    \* min_chunk of _split_ranges
  ReadSize,    \* LocalStorage.CHUNK_SIZE
  BufSize,     \* what a file opened for writing may hold back until it is closed
  Lossy,       \* TRUE: any request may fail or time out
  Faulty,      \* tasks whose disk operations may raise, each of them at any time
  MayCrash     \* TRUE: a task may be killed at any point

ASSUME SwarmAssumption ==
  /\ IsFiniteSet(Agents)
  /\ SeedTasks \subseteq Tasks
  /\ Home \in [Tasks -> Agents]
  /\ Admits \subseteq Agents \X Agents
  /\ Down \subseteq Agents
  /\ Zero \in Byte
  /\ File \in Seq(Byte)
  /\ Sizes \subseteq Nat
  /\ Copies \in [Agents -> SUBSET Seq(Seq(Byte))]
  /\ \A a \in Agents : \A disk \in Copies[a] : Len(disk) =< 1
  /\ MaxPeers \in Nat \ {0} /\ MinChunk \in Nat \ {0} /\ ReadSize \in Nat \ {0}
  /\ BufSize \in Nat
  /\ Faulty \subseteq Tasks
  /\ {Lossy, MayCrash} \subseteq BOOLEAN

VARIABLES
  inode,   \* inode[a]: the contents of all files ever created in a's directory
  path,    \* path[a]: which of them the name file_hash refers to, 0 for none
  pc,      \* pc[t]: where task t is
  size,    \* size[t]: its file_size argument
  cand,    \* cand[t]: the peers it was given by the tracker
  hs,      \* hs[t][a]: its handshake with a
  job,     \* job[t][a]: its transfer from a, as both sides see it
  parts,   \* parts[t]: the chunks it writes, in order
  fd,      \* fd[t]: the file it has open in its own directory, 0 for none
  nxt,     \* nxt[t]: the next chunk to write
  pos,     \* pos[t]: the offset its next flushed byte goes to
  pend,    \* pend[t]: bytes written but not flushed
  buf      \* buf[t]: bytes read back for the final hash

disk == << inode, path >>
net == << cand, hs, job >>
file == << parts, fd, nxt, pos, pend, buf >>
vars == << disk, pc, size, net, file >>

Terminal == {"done", "failed", "crashed"}
PCs == {"idle", "handshake", "fetch", "open", "write",
        "verifyOpen", "verify", "discard"} \cup Terminal

InFlight == {"sent", "found", "sized", "reading"}
Blank(st) == [st |-> st, start |-> 0, end |-> 0, fd |-> 0, data |-> << >>]
NoJob == Blank("none")
Errored == Blank("error")

Jobs == [st : InFlight \cup {"none", "ok", "error"},
         start : Nat, end : Int, fd : Nat, data : Seq(Byte)]
Parts == [start : Nat, end : Int, data : Seq(Byte)]

-------------------------------------------------------------------------------
(***************************************************************************)
(* Files.                                                                  *)
(***************************************************************************)

Present(a) == path[a] # 0
Stored(a) == inode[a][path[a]]

\* At most n bytes of a content from a 0-based offset: none at or after its end.
ReadAt(content, offset, n) ==
  SubSeq(content, offset + 1, Least(offset + n, Len(content)))

\* The bytes put at an offset; a hole left before them reads as zeros.
WriteAt(content, offset, bytes) ==
  IF bytes = << >> THEN content
  ELSE [i \in 1 .. Greatest(Len(content), offset + Len(bytes)) |->
          IF i > offset /\ i =< offset + Len(bytes) THEN bytes[i - offset]
          ELSE IF i =< Len(content) THEN content[i] ELSE Zero]

NextReadUnbounded(content, start, end, got) == ReadAt(content, start + got, ReadSize)

\* The next read of a range of which `got' bytes have been read.
NextRead(content, start, end, got) ==
  ReadAt(content, start + got, Least(ReadSize, end - start + 1 - got))

\* What opening a file for writing leaves of it ("wb"); of "r+b" it would be all.
OpenedForUpdate(content) == content
Opened(content) == << >>

\* t's open file takes the next bytes.
Flush(t, bytes) ==
  inode' = [inode EXCEPT ![Home[t]][fd[t]] = WriteAt(@, pos[t], bytes)]

Unlink(a) == path' = [path EXCEPT ![a] = 0]

-------------------------------------------------------------------------------
(***************************************************************************)
(* Moves between the phases of a task.                                     *)
(***************************************************************************)

Goto(t, l) == pc' = [pc EXCEPT ![t] = l]

\* The task's process returns, raises or is killed: what it held in memory is
\* gone.  Bytes that were not flushed are lost.
Forget(t) ==
  /\ parts' = [parts EXCEPT ![t] = << >>]
  /\ fd' = [fd EXCEPT ![t] = 0]
  /\ nxt' = [nxt EXCEPT ![t] = 0]
  /\ pos' = [pos EXCEPT ![t] = 0]
  /\ pend' = [pend EXCEPT ![t] = << >>]
  /\ buf' = [buf EXCEPT ![t] = << >>]

End(t, outcome) ==
  /\ Goto(t, outcome)
  /\ Forget(t)
  /\ cand' = [cand EXCEPT ![t] = << >>]
  /\ hs' = [hs EXCEPT ![t] = [a \in Agents |-> "none"]]
  /\ job' = [job EXCEPT ![t] = [a \in Agents |-> NoJob]]
  /\ UNCHANGED size
-------------------------------------------------------------------------------
(***************************************************************************)
(* Download: peers, handshakes, ranges.                                    *)
(***************************************************************************)

\* Answers of the tracker to an agent: distinct other agents, in any order.
TrackerLists(self) ==
  UNION {{l \in [1 .. n -> Agents \ {self}] :
            \A i, j \in 1 .. n : i # j => l[i] # l[j]} :
           n \in 0 .. Cardinality(Agents \ {self})}

FirstCandidates(list) == SubSeq(list, 1, Least(MaxPeers, Len(list)))

\* cmd_download.  No peers, and a tracker that cannot be asked, end it at once;
\* otherwise all the candidates are asked for a handshake together.
StartDownload(t) ==
  /\ pc[t] = "idle"
  /\ t \notin SeedTasks
  /\ \E n \in Sizes, list \in TrackerLists(Home[t]) :
       /\ size' = [size EXCEPT ![t] = n]
       /\ cand' = [cand EXCEPT ![t] = FirstCandidates(list)]
       /\ hs' = [hs EXCEPT ![t] = [a \in Agents |->
                   IF \E i \in DOMAIN cand'[t] : cand'[t][i] = a THEN "asked" ELSE "none"]]
       /\ Goto(t, IF list = << >> THEN "failed" ELSE "handshake")
  /\ UNCHANGED << disk, job, file >>

\* Both endpoints of the server ask the same of the requester as long as the
\* handshake carries an empty chain: to be one of the server's trust anchors.
Admitted(server, client) == << server, client >> \in Admits

\* The server answers, and the client acts on the answer (it also notes the peer
\* as an anchor of its own trust engine, which nothing in the process reads).
AnswerHandshake(t, a) ==
  /\ hs[t][a] = "asked"
  /\ a \notin Down
  /\ hs' = [hs EXCEPT ![t][a] = IF Admitted(a, Home[t]) THEN "accepted" ELSE "refused"]
  /\ UNCHANGED << disk, pc, size, cand, job, file >>

LoseHandshakeNoTimeout(t, a) ==
  /\ hs[t][a] = "asked"
  /\ Lossy
  /\ hs' = [hs EXCEPT ![t][a] = "refused"]
  /\ UNCHANGED << disk, pc, size, cand, job, file >>

\* The connection fails, the answer is late or it cannot be decoded.
LoseHandshake(t, a) ==
  /\ hs[t][a] = "asked"
  /\ Lossy \/ a \in Down
  /\ hs' = [hs EXCEPT ![t][a] = "refused"]
  /\ UNCHANGED << disk, pc, size, cand, job, file >>

\* The peers whose handshake succeeded, and the place of each among them in the
\* order of the candidates.
TrustedPeers(t) == {a \in Agents : hs[t][a] = "accepted"}

Place(t, a) ==
  Cardinality({i \in DOMAIN cand[t] : /\ hs[t][cand[t][i]] = "accepted"
                                      /\ \E k \in DOMAIN cand[t] : k >= i /\ cand[t][k] = a})

RequestOffByOne(range) ==
  [st |-> "sent", start |-> range.start - 1, end |-> range.end, fd |-> 0, data |-> << >>]
Request(range) ==
  [st |-> "sent", start |-> range.start, end |-> range.end, fd |-> 0, data |-> << >>]

\* All handshakes have ended: each trusted peer that gets a range is sent one
\* request.  An empty file has no ranges, hence no requests.
SendRequests(t) ==
  /\ pc[t] = "handshake"
  /\ \A a \in Agents : hs[t][a] # "asked"
  /\ LET trusted == TrustedPeers(t)
         ranges == SplitRanges(size[t], Cardinality(trusted), MinChunk)
     IN IF trusted = {}
        THEN End(t, "failed")
        ELSE /\ job' = [job EXCEPT ![t] = [a \in Agents |->
                          IF a \in trusted /\ Place(t, a) \in DOMAIN ranges
                          THEN Request(ranges[Place(t, a)]) ELSE NoJob]]
             /\ Goto(t, "fetch")
             /\ UNCHANGED << size, cand, hs, file >>
  /\ UNCHANGED disk

-------------------------------------------------------------------------------
(***************************************************************************)
(* The server's side of one transfer, at agent a for task t.               *)
(***************************************************************************)

SetJob(t, a, j) == job' = [job EXCEPT ![t][a] = j]
UnchangedByServer == UNCHANGED << disk, pc, size, cand, hs, file >>

\* _handle_transfer: is the requester trusted, is there such a file?
ServeFind(t, a) ==
  /\ job[t][a].st = "sent"
  /\ SetJob(t, a, IF Admitted(a, Home[t]) /\ Present(a)
                  THEN [job[t][a] EXCEPT !.st = "found"] ELSE Errored)
  /\ UnchangedByServer

\* The last byte that is served, of a file of n bytes.
ClampedEnd(end, n) == Least(end, n - 1)

\* _handle_transfer: the range is cut to the size the file has now, and refused
\* when nothing is left of it.  The client goes by the range it was served.
ServeSize(t, a) ==
  /\ job[t][a].st = "found"
  /\ LET end == ClampedEnd(job[t][a].end, Len(Stored(a)))
     IN SetJob(t, a, IF Present(a) /\ job[t][a].start =< end
                     THEN [job[t][a] EXCEPT !.st = "sized", !.end = end] ELSE Errored)
  /\ UnchangedByServer

\* read_range: the file may be another one by now, or gone.
ServeOpen(t, a) ==
  /\ job[t][a].st = "sized"
  /\ SetJob(t, a, IF Present(a)
                  THEN [job[t][a] EXCEPT !.st = "reading", !.fd = path[a]] ELSE Errored)
  /\ UnchangedByServer

ServeReadSpinning(t, a) ==
  /\ job[t][a].st = "reading"
  /\ LET j == job[t][a]
         data == j.data \o NextRead(inode[a][j.fd], j.start, j.end, Len(j.data))
         complete == Len(data) = j.end - j.start + 1
     IN SetJob(t, a, IF complete THEN [j EXCEPT !.st = "ok", !.data = data, !.fd = 0]
                                 ELSE [j EXCEPT !.data = data])
  /\ UnchangedByServer

\* read_range: one read.  At the end of the range or of the file the response is
\* complete; a file that ends early makes it short, not wrong.
ServeRead(t, a) ==
  /\ job[t][a].st = "reading"
  /\ LET j == job[t][a]
         chunk == NextRead(inode[a][j.fd], j.start, j.end, Len(j.data))
         data == j.data \o chunk
         complete == chunk = << >> \/ Len(data) = j.end - j.start + 1
     IN SetJob(t, a, IF complete THEN [j EXCEPT !.st = "ok", !.data = data, !.fd = 0]
                                 ELSE [j EXCEPT !.data = data])
  /\ UnchangedByServer

\* The transfer breaks: no connection, a timeout, a damaged or cut response.
FetchFails(t, a) ==
  /\ Lossy
  /\ job[t][a].st \in InFlight
  /\ SetJob(t, a, Errored)
  /\ UnchangedByServer

Serve(t, a) == ServeFind(t, a) \/ ServeSize(t, a) \/ ServeOpen(t, a) \/ ServeRead(t, a)

-------------------------------------------------------------------------------
(***************************************************************************)
(* Download: the chunks are put together, written, and read back.          *)
(***************************************************************************)

\* The orders of a set of peers in which the ranges they served begin later and
\* later.
ByStart(peers, j) ==
  {q \in [1 .. Cardinality(peers) -> peers] :
     \A i, k \in DOMAIN q : i < k => q[i] # q[k] /\ j[q[i]].start =< j[q[k]].start}

Chunk(j) == [start |-> j.start, end |-> j.end, data |-> j.data]

\* All fetches have ended.  The download goes on only if the ranges it was
\* served cover the file; how many bytes came with each range is not looked at.
Gather(t) ==
  /\ pc[t] = "fetch"
  /\ \A a \in Agents : job[t][a].st \notin InFlight
  /\ \E q \in ByStart({a \in Agents : job[t][a].st = "ok"}, job[t]) :
       LET chunks == [i \in DOMAIN q |-> Chunk(job[t][q[i]])]
       IN IF Covers(chunks, size[t])
          THEN /\ parts' = [parts EXCEPT ![t] = chunks]
               /\ Goto(t, "open")
               /\ cand' = [cand EXCEPT ![t] = << >>]
               /\ hs' = [hs EXCEPT ![t] = [a \in Agents |-> "none"]]
               /\ job' = [job EXCEPT ![t] = [a \in Agents |-> NoJob]]
               /\ UNCHANGED << size, fd, nxt, pos, pend, buf >>
          ELSE End(t, "failed")
  /\ UNCHANGED disk

\* cmd_seed: the whole content as one chunk.
StartSeed(t) ==
  /\ pc[t] = "idle"
  /\ t \in SeedTasks
  /\ parts' = [parts EXCEPT ![t] = << [start |-> 0, end |-> Len(File) - 1, data |-> File] >>]
  /\ Goto(t, "open")
  /\ UNCHANGED << disk, size, net, fd, nxt, pos, pend, buf >>

\* write_stream opens the final name itself: an existing file is emptied.
OpenForWrite(t) ==
  /\ pc[t] = "open"
  /\ LET a == Home[t]
     IN IF Present(a)
        THEN /\ inode' = [inode EXCEPT ![a][path[a]] = Opened(@)]
             /\ fd' = [fd EXCEPT ![t] = path[a]]
             /\ UNCHANGED path
        ELSE /\ inode' = [inode EXCEPT ![a] = Append(@, << >>)]
             /\ path' = [path EXCEPT ![a] = Len(inode[a]) + 1]
             /\ fd' = [fd EXCEPT ![t] = Len(inode[a]) + 1]
  /\ nxt' = [nxt EXCEPT ![t] = 1]
  /\ Goto(t, "write")
  /\ UNCHANGED << size, net, parts, pos, pend, buf >>

\* write_stream: the next chunk is written; up to BufSize of the last bytes stay
\* in the file object.
WriteChunk(t) ==
  /\ pc[t] = "write"
  /\ nxt[t] =< Len(parts[t])
  /\ LET bytes == pend[t] \o parts[t][nxt[t]].data
     IN \E k \in 0 .. Len(bytes) :
          /\ Len(bytes) - k =< BufSize
          /\ Flush(t, SubSeq(bytes, 1, k))
          /\ pos' = [pos EXCEPT ![t] = @ + k]
          /\ pend' = [pend EXCEPT ![t] = SubSeq(bytes, k + 1, Len(bytes))]
  /\ nxt' = [nxt EXCEPT ![t] = @ + 1]
  /\ UNCHANGED << path, pc, size, net, parts, fd, buf >>

CloseFileUnverified(t) ==
  /\ pc[t] = "write"
  /\ nxt[t] > Len(parts[t])
  /\ Flush(t, pend[t])
  /\ End(t, "done")
  /\ UNCHANGED path

\* write_stream: the file is closed, which flushes it.  A seed is done with that.
CloseFile(t) ==
  /\ pc[t] = "write"
  /\ nxt[t] > Len(parts[t])
  /\ Flush(t, pend[t])
  /\ Forget(t)
  /\ Goto(t, IF t \in SeedTasks THEN "done" ELSE "verifyOpen")
  /\ UNCHANGED << path, size, net >>

\* download step 6: whatever the name refers to now is read back.
VerifyOpen(t) ==
  /\ pc[t] = "verifyOpen"
  /\ IF Present(Home[t])
     THEN /\ fd' = [fd EXCEPT ![t] = path[Home[t]]]
          /\ Goto(t, "verify")
          /\ UNCHANGED << size, net, parts, nxt, pos, pend, buf >>
     ELSE End(t, "failed")
  /\ UNCHANGED disk

\* One read of the first size bytes; after the last one the hash decides.
VerifyRead(t) ==
  /\ pc[t] = "verify"
  /\ LET chunk == NextRead(inode[Home[t]][fd[t]], 0, size[t] - 1, Len(buf[t]))
         read == buf[t] \o chunk
     IN IF chunk # << >> /\ Len(read) < size[t]
        THEN /\ buf' = [buf EXCEPT ![t] = read]
             /\ UNCHANGED << pc, size, net, parts, fd, nxt, pos, pend >>
        ELSE IF read = File
        THEN End(t, "done")
        ELSE /\ Forget(t)
             /\ Goto(t, "discard")
             /\ UNCHANGED << size, net >>
  /\ UNCHANGED disk

DiscardKeepsFile(t) ==
  /\ pc[t] = "discard"
  /\ End(t, "failed")
  /\ UNCHANGED disk

\* The name is removed, whichever file it refers to, and the task raises: after a
\* hash mismatch, or after a write that failed.
Discard(t) ==
  /\ pc[t] = "discard"
  /\ Unlink(Home[t])
  /\ End(t, "failed")
  /\ UNCHANGED inode

-------------------------------------------------------------------------------
(***************************************************************************)
(* Disk faults and crashes.                                                *)
(***************************************************************************)

\* An operation outside any except clause raises out of the task: opening the
\* file, reading it back, removing it.
StorageRaises(t) ==
  /\ t \in Faulty
  /\ pc[t] \in {"open", "verifyOpen", "verify", "discard"}
  /\ End(t, "failed")
  /\ UNCHANGED disk

\* A write raises after some of the bytes got to the disk.  The except clause
\* closes the file and then removes it.
WriteFails(t) ==
  /\ t \in Faulty
  /\ pc[t] = "write"
  /\ nxt[t] =< Len(parts[t])
  /\ LET bytes == pend[t] \o parts[t][nxt[t]].data
     IN \E k \in 0 .. Len(bytes) : Flush(t, SubSeq(bytes, 1, k))
  /\ Forget(t)
  /\ Goto(t, "discard")
  /\ UNCHANGED << path, size, net >>

\* The flush of a close raises.  Neither the close in the except clause nor the
\* one after it is guarded, so nothing removes the file.
CloseFails(t) ==
  /\ t \in Faulty
  /\ pc[t] = "write"
  /\ pend[t] # << >>
  /\ \E k \in 0 .. Len(pend[t]) - 1 : Flush(t, SubSeq(pend[t], 1, k))
  /\ End(t, "failed")
  /\ UNCHANGED path

\* The process is killed, or cancelled by the user.
Crash(t) ==
  /\ MayCrash
  /\ pc[t] \notin Terminal \cup {"idle"}
  /\ End(t, "crashed")
  /\ UNCHANGED disk

-------------------------------------------------------------------------------
Init ==
  /\ inode \in {d \in [Agents -> UNION {Copies[a] : a \in Agents}] :
                  \A a \in Agents : d[a] \in Copies[a]}
  /\ path = [a \in Agents |-> Len(inode[a])]
  /\ pc = [t \in Tasks |-> "idle"]
  /\ size = [t \in Tasks |-> 0]
  /\ cand = [t \in Tasks |-> << >>]
  /\ hs = [t \in Tasks |-> [a \in Agents |-> "none"]]
  /\ job = [t \in Tasks |-> [a \in Agents |-> NoJob]]
  /\ parts = [t \in Tasks |-> << >>]
  /\ fd = [t \in Tasks |-> 0]
  /\ nxt = [t \in Tasks |-> 0]
  /\ pos = [t \in Tasks |-> 0]
  /\ pend = [t \in Tasks |-> << >>]
  /\ buf = [t \in Tasks |-> << >>]

Start(t) == StartDownload(t) \/ StartSeed(t)

\* What a started task does next.
Work(t) ==
  \/ SendRequests(t)
  \/ Gather(t)
  \/ OpenForWrite(t)
  \/ WriteChunk(t)
  \/ CloseFile(t)
  \/ VerifyOpen(t)
  \/ VerifyRead(t)
  \/ Discard(t)

Handshake(t, a) == AnswerHandshake(t, a) \/ LoseHandshake(t, a)

Fault(t) == StorageRaises(t) \/ WriteFails(t) \/ CloseFails(t) \/ Crash(t)

Next ==
  \/ \E t \in Tasks : Start(t) \/ Work(t) \/ Fault(t)
  \/ \E t \in Tasks, a \in Agents : Handshake(t, a) \/ Serve(t, a) \/ FetchFails(t, a)

\* A started task does not stall: local steps end, and each request is answered
\* or given up (httpx timeouts of 5 s for a handshake and 30 s for a transfer).
\* Nobody has to start a task, and no fault has to happen.
Fairness ==
  \A t \in Tasks :
    /\ WF_vars(Work(t))
    /\ \A a \in Agents : WF_vars(Handshake(t, a)) /\ WF_vars(Serve(t, a))

Spec == Init /\ [][Next]_vars
FairSpec == Spec /\ Fairness

-------------------------------------------------------------------------------
(***************************************************************************)
(* Properties.                                                             *)
(***************************************************************************)

TypeOK ==
  /\ inode \in [Agents -> Seq(Seq(Byte))]
  /\ path \in [Agents -> Nat]
  /\ pc \in [Tasks -> PCs]
  /\ size \in [Tasks -> Nat]
  /\ cand \in [Tasks -> Seq(Agents)]
  /\ hs \in [Tasks -> [Agents -> {"none", "asked", "accepted", "refused"}]]
  /\ job \in [Tasks -> [Agents -> Jobs]]
  /\ parts \in [Tasks -> Seq(Parts)]
  /\ fd \in [Tasks -> Nat]
  /\ nxt \in [Tasks -> Nat]
  /\ pos \in [Tasks -> Nat]
  /\ pend \in [Tasks -> Seq(Byte)]
  /\ buf \in [Tasks -> Seq(Byte)]

\* A task that reports success leaves the very file it was asked for in its
\* directory - all of it and nothing after it, although the final check reads no
\* further than file_size - and it is still there at any later time.  (One task
\* per directory: agent/downloader.py:344-363, agent/storage.py:145-164.)
VerifiedMeansStored ==
  \A t \in Tasks : pc[t] = "done" => Present(Home[t]) /\ Stored(Home[t]) = File

\* However many tasks share a directory: once they have all ended, what they
\* leave is what was there before, the file, or nothing; no mixture of what two of
\* them wrote and no bytes that failed the check survive, because whoever wrote
\* last also checks last.  (Without crashes and disk faults:
\* agent/downloader.py:351-363.)
QuiescentClean ==
  (\A t \in Tasks : pc[t] \in Terminal) =>
    \A a \in Agents : Present(a) => \/ Stored(a) = File
                                   \/ << Stored(a) >> \in Copies[a]

\* Tasks that share a directory and all report success leave the file in it, in
\* whichever way their writes and reads interleaved.
JointSuccessMeansStored ==
  \A a \in Agents :
    LET sharers == {t \in Tasks : Home[t] = a}
    IN (sharers # {} /\ \A t \in sharers : pc[t] = "done") => Present(a) /\ Stored(a) = File

\* Every task that is started ends: no request is waited for forever, dead peers
\* included, and no loop over chunks or reads goes on without progress.
EveryTaskEnds ==
  \A t \in Tasks : (pc[t] # "idle") ~> (pc[t] \in Terminal)

\* A download that was told the right size and whose requests all went to holders
\* of the file succeeds: the ranges it is served fit together whatever the number
\* and the order of the peers, and the hash agrees.  (Without losses and faults.)
ServedByHolders(t) ==
  /\ pc[t] = "fetch"
  /\ size[t] = Len(File)
  /\ \A a \in Agents : job[t][a].st # "none" =>
       job[t][a].st = "sent" /\ Present(a) /\ Stored(a) = File

HoldersSuffice == \A t \in Tasks : ServedByHolders(t) ~> (pc[t] = "done")

-------------------------------------------------------------------------------
(***************************************************************************)
(* The swarm implements Delivery where each directory has at most one task. *)
(***************************************************************************)

PhaseOf(t) ==
  CASE pc[t] \in {"idle", "handshake", "fetch", "open"} -> "fetching"
    [] pc[t] \in {"write", "verifyOpen", "verify", "discard"} -> "storing"
    [] OTHER -> pc[t]

CopyOf(a) == IF ~Present(a) THEN "none" ELSE IF Stored(a) = File THEN "file" ELSE "other"

D == INSTANCE Delivery WITH
       phase <- [t \in Tasks |-> PhaseOf(t)],
       copy <- [t \in Tasks |-> CopyOf(Home[t])],
       Mortal <- IF MayCrash THEN Tasks ELSE {}

ImplementsDelivery == D!Spec
===============================================================================
