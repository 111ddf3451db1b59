-------------------------- MODULE SwarmSuccess_proofs --------------------------
(***************************************************************************)
(* What a task that reports success has stored, for any agents, tasks,     *)
(* files, sizes, contents and faults - where no two tasks share a          *)
(* directory.  IInv (module SwarmInv) is shown to be inductive, one lemma  *)
(* per action.                                                             *)
(***************************************************************************)
EXTENDS Swarm_proofs

LEMMA IInvTypes == IInv => TypeInv
  BY DEF IInv, TypeInv

\* A task whose own variables and directory do not change keeps its invariant.
LEMMA OtherTasks ==
  ASSUME NEW u \in Tasks, TaskInv(u),
         pc'[u] = pc[u], size'[u] = size[u], parts'[u] = parts[u], fd'[u] = fd[u],
         nxt'[u] = nxt[u], pos'[u] = pos[u], pend'[u] = pend[u], buf'[u] = buf[u],
         inode'[Home[u]] = inode[Home[u]], path'[Home[u]] = path[Home[u]]
  PROVE  TaskInv(u)'
  BY DEF TaskInv, PartsFit, WrittenSoFar, ReadSoFar, Mine

\* A step of one task, which can change its own directory only.
LEMMA OneTaskMoves ==
  ASSUME OneTaskPerHome, IInv, TypeInv', JobsFit', NEW t \in Tasks, TaskInv(t)',
         \A u \in Tasks \ {t} :
           /\ pc'[u] = pc[u] /\ size'[u] = size[u] /\ parts'[u] = parts[u]
           /\ fd'[u] = fd[u] /\ nxt'[u] = nxt[u] /\ pos'[u] = pos[u]
           /\ pend'[u] = pend[u] /\ buf'[u] = buf[u],
         \A a \in Agents \ {Home[t]} : inode'[a] = inode[a] /\ path'[a] = path[a]
  PROVE  IInv'
  <1>1. ASSUME NEW u \in Tasks, u # t PROVE TaskInv(u)'
    <2>1. Home[u] \in Agents \ {Home[t]}
      BY <1>1, SwarmAssumption DEF OneTaskPerHome
    <2>2. TaskInv(u)
      BY DEF IInv
    <2> QED
      BY <1>1, <2>1, <2>2, OtherTasks
  <1>2. \A u \in Tasks : TaskInv(u)'
    BY <1>1
  <1> QED
    BY <1>2 DEF IInv, TypeInv

LEMMA NoJobFits == JobFits(NoJob) /\ JobFits(Errored)
  BY DEF JobFits, NoJob, Errored, Blank

\* A step that changes transfers only, each to one that fits.
LEMMA OnlyJobsMove ==
  ASSUME IInv, TypeInv', UNCHANGED << disk, pc, size, file >>,
         NEW t \in Tasks, \A a \in Agents : JobFits(job'[t][a]),
         \A u \in Tasks \ {t} : job'[u] = job[u]
  PROVE  IInv'
  <1>1. JobsFit'
    BY DEF IInv, JobsFit, JobFits, Span
  <1>2. ASSUME NEW u \in Tasks PROVE TaskInv(u)'
    <2>1. TaskInv(u)
      BY DEF IInv
    <2> QED
      BY <2>1, OtherTasks DEF disk, file
  <1> QED
    BY <1>1, <1>2 DEF IInv, TypeInv

LEMMA EndFits ==
  ASSUME TypeInv, JobsFit, NEW t \in Tasks, NEW outcome \in Terminal, End(t, outcome)
  PROVE  JobsFit'
  <1>1. ASSUME NEW u \in Tasks, NEW a \in Agents PROVE JobFits(job'[u][a])
    <2>1. CASE u = t
      BY <2>1, EndTypes, NoJobFits
    <2>2. CASE u # t
      BY <2>2, EndTypes DEF JobsFit
    <2> QED
      BY <2>1, <2>2
  <1> QED
    BY <1>1 DEF JobsFit, JobFits, Span

\* The end of a task, which claims success only if it has the file.
LEMMA EndingKeepsIInv ==
  ASSUME OneTaskPerHome, IInv, TypeInv', NEW t \in Tasks,
         NEW outcome \in Terminal, End(t, outcome),
         outcome = "done" => path'[Home[t]] # 0 /\ Mine(t)' = File,
         \A a \in Agents \ {Home[t]} : inode'[a] = inode[a] /\ path'[a] = path[a]
  PROVE  IInv'
  <1>1. TypeInv
    BY IInvTypes
  <1>2. JobsFit'
    BY <1>1, EndFits DEF IInv
  <1>3. TaskInv(t)'
    <2>1. pc'[t] = outcome /\ buf'[t] = << >>
      BY <1>1 DEF End, Forget, Goto, TypeInv, TypeOK
    <2> QED
      BY <2>1 DEF TaskInv, Terminal
  <1>4. \A u \in Tasks \ {t} :
           /\ pc'[u] = pc[u] /\ size'[u] = size[u] /\ parts'[u] = parts[u]
           /\ fd'[u] = fd[u] /\ nxt'[u] = nxt[u] /\ pos'[u] = pos[u]
           /\ pend'[u] = pend[u] /\ buf'[u] = buf[u]
    BY <1>1 DEF End, Forget, Goto, TypeInv, TypeOK
  <1> QED
    BY <1>2, <1>3, <1>4, OneTaskMoves

LEMMA EndKeepsIInv ==
  ASSUME OneTaskPerHome, IInv, TypeInv', NEW t \in Tasks,
         NEW outcome \in {"failed", "crashed"}, End(t, outcome),
         \A a \in Agents \ {Home[t]} : inode'[a] = inode[a] /\ path'[a] = path[a]
  PROVE  IInv'
  BY EndingKeepsIInv DEF Terminal

\* A task gives up its handle and its buffers.
LEMMA ForgetKeepsIInv ==
  ASSUME OneTaskPerHome, IInv, TypeInv', NEW t \in Tasks,
         NEW l \in {"done", "verifyOpen", "discard"},
         Forget(t), Goto(t, l), UNCHANGED << size, net >>,
         l = "done" => path'[Home[t]] # 0 /\ Mine(t)' = File,
         l = "verifyOpen" =>
           t \notin SeedTasks /\ path'[Home[t]] # 0 /\ Len(Mine(t)') =< size[t],
         \A a \in Agents \ {Home[t]} : inode'[a] = inode[a] /\ path'[a] = path[a]
  PROVE  IInv'
  <1>1. TypeInv
    BY IInvTypes
  <1>2. JobsFit'
    BY DEF net, IInv, JobsFit
  <1>3. TaskInv(t)'
    <2>1. pc'[t] = l /\ buf'[t] = << >> /\ size'[t] = size[t]
      BY <1>1 DEF Forget, Goto, TypeInv, TypeOK
    <2>2. l = "verifyOpen" => ReadSoFar(t)'
      BY <2>1 DEF ReadSoFar
    <2> QED
      BY <2>1, <2>2 DEF TaskInv
  <1>4. \A u \in Tasks \ {t} :
           /\ pc'[u] = pc[u] /\ size'[u] = size[u] /\ parts'[u] = parts[u]
           /\ fd'[u] = fd[u] /\ nxt'[u] = nxt[u] /\ pos'[u] = pos[u]
           /\ pend'[u] = pend[u] /\ buf'[u] = buf[u]
    BY <1>1 DEF Forget, Goto, TypeInv, TypeOK
  <1> QED
    BY <1>2, <1>3, <1>4, OneTaskMoves

\* A server changes one transfer only, to one that fits.
LEMMA ServeFits ==
  ASSUME TypeInv, JobsFit, NEW t \in Tasks, NEW a \in Agents, Serve(t, a) \/ FetchFails(t, a)
  PROVE  /\ UnchangedByServer
         /\ \A b \in Agents : JobFits(job'[t][b])
         /\ \A u \in Tasks \ {t} : job'[u] = job[u]
  <1>0. TypeInv /\ job[t][a] \in Jobs /\ JobFits(job[t][a])
    BY DEF TypeInv, TypeOK, JobsFit
  <1>1. \E j : SetJob(t, a, j) /\ UnchangedByServer /\ JobFits(j)
    <2>1. CASE ServeFind(t, a)
      <3>1. JobFits([job[t][a] EXCEPT !.st = "found"])
        BY <1>0, <2>1 DEF ServeFind, JobFits, Span, Jobs
      <3> QED
        BY <2>1, <3>1, NoJobFits DEF ServeFind
    <2>2. CASE ServeSize(t, a)
      <3> DEFINE end == ClampedEnd(job[t][a].end, Len(Stored(a)))
      <3>1. CASE Present(a) /\ job[t][a].start =< end
        <4>1. Stored(a) \in Seq(Byte)
          BY <1>0, <3>1, ElementOfSeq, LenProperties
          DEF TypeInv, TypeOK, HandlesOK, Present, Stored
        <4>2. end \in Int /\ job[t][a].start \in Nat
          BY <1>0, <4>1 DEF ClampedEnd, Least, Jobs
        <4>3. job[t][a].data = << >>
          BY <1>0, <2>2 DEF ServeSize, JobFits
        <4>4. JobFits([job[t][a] EXCEPT !.st = "sized", !.end = end])
          BY <1>0, <3>1, <4>2, <4>3 DEF JobFits, Span, Jobs
        <4> QED
          BY <2>2, <3>1, <4>4 DEF ServeSize
      <3>2. CASE ~(Present(a) /\ job[t][a].start =< end)
        BY <2>2, <3>2, NoJobFits DEF ServeSize
      <3> QED
        BY <3>1, <3>2
    <2>3. CASE ServeOpen(t, a)
      <3>1. JobFits([job[t][a] EXCEPT !.st = "reading", !.fd = path[a]])
        BY <1>0, <2>3 DEF ServeOpen, JobFits, Span, Jobs
      <3> QED
        BY <2>3, <3>1, NoJobFits DEF ServeOpen
    <2>4. CASE ServeRead(t, a)
      <3> DEFINE j == job[t][a]
                 chunk == NextRead(inode[a][j.fd], j.start, j.end, Len(j.data))
                 data == j.data \o chunk
      <3>1. j.start \in Nat /\ j.end \in Int /\ j.data \in Seq(Byte) /\ Len(j.data) \in Nat
        BY <1>0, LenProperties DEF Jobs
      <3>2. inode[a][j.fd] \in Seq(Byte)
        BY <1>0, <2>4, ElementOfSeq DEF ServeRead, TypeInv, TypeOK, HandlesOK
      <3>3. j.st = "reading" /\ j.start =< j.end /\ Len(j.data) =< j.end - j.start + 1
        BY <1>0, <2>4 DEF ServeRead, JobFits, Span
      <3>4. chunk \in Seq(Byte) /\ Len(j.data) + Len(chunk) =< j.end - j.start + 1
        BY <3>1, <3>2, <3>3, NextReadFacts
      <3> HIDE DEF chunk
      <3>5. Len(data) =< j.end - j.start + 1
        BY <3>1, <3>4, ConcatProperties
      <3> HIDE DEF data
      <3>6. /\ JobFits([j EXCEPT !.st = "ok", !.data = data, !.fd = 0])
            /\ JobFits([j EXCEPT !.data = data])
        BY <1>0, <3>3, <3>5 DEF JobFits, Span, Jobs
      <3>7. CASE chunk = << >> \/ Len(data) = j.end - j.start + 1
        BY <2>4, <3>6, <3>7 DEF ServeRead, chunk, data
      <3>8. CASE ~(chunk = << >> \/ Len(data) = j.end - j.start + 1)
        BY <2>4, <3>6, <3>8 DEF ServeRead, chunk, data
      <3> QED
        BY <3>7, <3>8
    <2>5. CASE FetchFails(t, a)
      BY <2>5, NoJobFits DEF FetchFails
    <2> QED
      BY <2>1, <2>2, <2>3, <2>4, <2>5 DEF Serve
  <1>2. PICK j : SetJob(t, a, j) /\ UnchangedByServer /\ JobFits(j)
    BY <1>1
  <1>3. \A b \in Agents : JobFits(job'[t][b])
    BY <1>0, <1>2 DEF SetJob, JobsFit, TypeInv, TypeOK
  <1>4. \A u \in Tasks \ {t} : job'[u] = job[u]
    BY <1>0, <1>2 DEF SetJob, TypeInv, TypeOK
  <1> QED
    BY <1>2, <1>3, <1>4

LEMMA ServeKeepsIInv ==
  ASSUME IInv, NEW t \in Tasks, NEW a \in Agents, Serve(t, a) \/ FetchFails(t, a)
  PROVE  IInv'
  <1>1. TypeInv /\ JobsFit /\ TypeInv'
    BY IInvTypes, ServeTypes DEF IInv
  <1> QED
    BY <1>1, ServeFits, OnlyJobsMove DEF UnchangedByServer

LEMMA HandshakeKeepsIInv ==
  ASSUME IInv, NEW t \in Tasks, NEW a \in Agents, Handshake(t, a)
  PROVE  IInv'
  <1>1. TypeInv'
    BY IInvTypes, HandshakeTypes
  <1>2. job' = job /\ UNCHANGED << disk, pc, size, file >>
    BY DEF Handshake, AnswerHandshake, LoseHandshake
  <1> QED
    BY <1>1, <1>2, OnlyJobsMove DEF IInv, JobsFit

\* The files and the transfers of a task stay as they are; the task moves on.
LEMMA StartKeepsIInv ==
  ASSUME OneTaskPerHome, IInv, NEW t \in Tasks, Start(t)
  PROVE  IInv'
  <1>1. TypeInv /\ TypeInv' /\ TaskInv(t)
    BY IInvTypes, StartTypes DEF IInv
  <1>2. job' = job /\ inode' = inode /\ path' = path
    BY DEF Start, StartDownload, StartSeed, disk, net
  <1>3. JobsFit'
    BY <1>2 DEF IInv, JobsFit
  <1>4. \A u \in Tasks \ {t} :
           /\ pc'[u] = pc[u] /\ size'[u] = size[u] /\ parts'[u] = parts[u]
           /\ fd'[u] = fd[u] /\ nxt'[u] = nxt[u] /\ pos'[u] = pos[u]
           /\ pend'[u] = pend[u] /\ buf'[u] = buf[u]
    BY <1>1 DEF Start, StartDownload, StartSeed, Goto, file, net, disk, TypeInv, TypeOK
  <1>5. TaskInv(t)'
    <2>1. CASE StartDownload(t)
      <3>1. pc'[t] \in {"failed", "handshake"} /\ t \notin SeedTasks /\ UNCHANGED file
        BY <1>1, <2>1 DEF StartDownload, Goto, TypeInv, TypeOK
      <3>2. pc[t] = "idle"
        BY <2>1 DEF StartDownload
      <3> QED
        BY <1>1, <3>1, <3>2 DEF TaskInv, file
    <2>2. CASE StartSeed(t)
      <3>1. /\ pc[t] = "idle" /\ pc'[t] = "open" /\ t \in SeedTasks
            /\ parts'[t] = << [start |-> 0, end |-> Len(File) - 1, data |-> File] >>
            /\ UNCHANGED << fd, nxt, pos, pend, buf >>
        BY <1>1, <2>2 DEF StartSeed, Goto, TypeInv, TypeOK
      <3>2. PartsFit(t)'
        BY <3>1 DEF PartsFit
      <3> QED
        BY <1>1, <3>1, <3>2 DEF TaskInv
    <2> QED
      BY <2>1, <2>2 DEF Start
  <1> QED
    BY <1>1, <1>2, <1>3, <1>4, <1>5, OneTaskMoves

\* Requests carry no bytes yet.
LEMMA SendFits ==
  ASSUME TypeInv, JobsFit, NEW t \in Tasks, SendRequests(t)
  PROVE  \/ End(t, "failed")
         \/ Goto(t, "fetch") /\ JobsFit' /\ UNCHANGED << size, file >>
  <1> DEFINE ranges == SplitRanges(size[t], Cardinality(TrustedPeers(t)), MinChunk)
  <1>1. SUFFICES ASSUME TrustedPeers(t) # {}
                 PROVE  Goto(t, "fetch") /\ JobsFit' /\ UNCHANGED << size, file >>
    BY DEF SendRequests
  <1>2. /\ job' = [job EXCEPT ![t] = [a \in Agents |->
                      IF a \in TrustedPeers(t) /\ Place(t, a) \in DOMAIN ranges
                      THEN Request(ranges[Place(t, a)]) ELSE NoJob]]
        /\ Goto(t, "fetch")
        /\ UNCHANGED << size, file >>
    BY <1>1 DEF SendRequests
  <1> HIDE DEF ranges
  <1>3. \A i : JobFits(Request(ranges[i]))
    BY DEF JobFits, Request
  <1>4. ASSUME NEW u \in Tasks, NEW a \in Agents PROVE JobFits(job'[u][a])
    BY <1>2, <1>3, NoJobFits DEF TypeInv, TypeOK, JobsFit
  <1>5. JobsFit'
    BY <1>4 DEF JobsFit, JobFits, Span
  <1> QED
    BY <1>2, <1>5

LEMMA SendRequestsKeepsIInv ==
  ASSUME OneTaskPerHome, IInv, NEW t \in Tasks, SendRequests(t)
  PROVE  IInv'
  <1>1. /\ TypeInv /\ TypeInv' /\ TaskInv(t) /\ JobsFit /\ pc[t] = "handshake"
        /\ UNCHANGED disk
    BY IInvTypes, SendRequestsTypes DEF IInv, SendRequests
  <1>2. CASE End(t, "failed")
    BY <1>1, <1>2, EndKeepsIInv DEF disk
  <1>3. CASE Goto(t, "fetch") /\ JobsFit' /\ UNCHANGED << size, file >>
    <2>1. pc'[t] = "fetch" /\ \A u \in Tasks \ {t} : pc'[u] = pc[u]
      BY <1>1, <1>3 DEF Goto, TypeInv, TypeOK
    <2>2. TaskInv(t)'
      BY <1>1, <1>3, <2>1 DEF TaskInv, file
    <2> QED
      BY <1>1, <1>3, <2>1, <2>2, OneTaskMoves DEF file, disk
  <1> QED
    BY <1>1, <1>2, <1>3, SendFits

\* The chunks that are put together fit; or the task gives up.
LEMMA GatherFits ==
  ASSUME TypeInv, JobsFit, NEW t \in Tasks, t \notin SeedTasks, Gather(t)
  PROVE  \/ End(t, "failed")
         \/ /\ Goto(t, "open") /\ PartsFit(t)' /\ JobsFit'
            /\ \A u \in Tasks \ {t} : parts'[u] = parts[u]
            /\ UNCHANGED << size, fd, nxt, pos, pend, buf >>
  <1> DEFINE peers == {a \in Agents : job[t][a].st = "ok"}
  <1>1. PICK q \in ByStart(peers, job[t]) :
          LET chunks == [i \in DOMAIN q |-> Chunk(job[t][q[i]])]
          IN IF Covers(chunks, size[t])
             THEN /\ parts' = [parts EXCEPT ![t] = chunks]
                  /\ Goto(t, "open")
                  /\ cand' = [cand EXCEPT ![t] = << >>]
                  /\ hs' = [hs EXCEPT ![t] = [a \in Agents |-> "none"]]
                  /\ job' = [job EXCEPT ![t] = [a \in Agents |-> NoJob]]
                  /\ UNCHANGED << size, fd, nxt, pos, pend, buf >>
             ELSE End(t, "failed")
    BY DEF Gather
  <1> DEFINE chunks == [i \in DOMAIN q |-> Chunk(job[t][q[i]])]
  <1>2. SUFFICES ASSUME Covers(chunks, size[t])
                 PROVE  /\ Goto(t, "open") /\ PartsFit(t)' /\ JobsFit'
                        /\ \A u \in Tasks \ {t} : parts'[u] = parts[u]
                        /\ UNCHANGED << size, fd, nxt, pos, pend, buf >>
    BY <1>1
  <1>3. Cardinality(peers) \in Nat
    BY SwarmAssumption, FS_Subset, FS_CardinalityType
  <1>4. chunks \in Seq(Parts) /\ DOMAIN chunks = DOMAIN q
    BY <1>1, <1>3, ChunkTypes
  <1>5. ASSUME NEW i \in 1 .. Len(chunks)
        PROVE  Len(chunks[i].data) =< Span(chunks[i])
    <2>1. i \in DOMAIN q /\ chunks[i] = Chunk(job[t][q[i]])
      BY <1>4, LenProperties
    <2>2. q[i] \in peers
      BY <1>1, <2>1 DEF ByStart
    <2>3. JobFits(job[t][q[i]]) /\ job[t][q[i]].st = "ok"
      BY <2>2 DEF JobsFit
    <2> QED
      BY <2>1, <2>3 DEF JobFits, Span, Chunk
  <1> HIDE DEF chunks
  <1>6. /\ parts' = [parts EXCEPT ![t] = chunks]
        /\ Goto(t, "open")
        /\ job' = [job EXCEPT ![t] = [a \in Agents |-> NoJob]]
        /\ UNCHANGED << size, fd, nxt, pos, pend, buf >>
    BY <1>1, <1>2 DEF chunks
  <1>7. parts'[t] = chunks /\ \A u \in Tasks \ {t} : parts'[u] = parts[u]
    BY <1>6 DEF TypeInv, TypeOK
  <1>8. PartsFit(t)'
    BY <1>2, <1>5, <1>6, <1>7 DEF PartsFit
  <1>9. ASSUME NEW u \in Tasks, NEW a \in Agents PROVE JobFits(job'[u][a])
    BY <1>6, NoJobFits DEF TypeInv, TypeOK, JobsFit
  <1>10. JobsFit'
    BY <1>9 DEF JobsFit, JobFits, Span
  <1> QED
    BY <1>6, <1>7, <1>8, <1>10

LEMMA GatherKeepsIInv ==
  ASSUME OneTaskPerHome, IInv, NEW t \in Tasks, Gather(t)
  PROVE  IInv'
  <1>1. /\ TypeInv /\ TypeInv' /\ TaskInv(t) /\ JobsFit /\ pc[t] = "fetch"
        /\ UNCHANGED disk
    BY IInvTypes, GatherTypes DEF IInv, Gather
  <1>2. CASE End(t, "failed")
    BY <1>1, <1>2, EndKeepsIInv DEF disk
  <1>3. CASE /\ Goto(t, "open") /\ PartsFit(t)' /\ JobsFit'
             /\ \A u \in Tasks \ {t} : parts'[u] = parts[u]
             /\ UNCHANGED << size, fd, nxt, pos, pend, buf >>
    <2>1. pc'[t] = "open" /\ \A u \in Tasks \ {t} : pc'[u] = pc[u]
      BY <1>1, <1>3 DEF Goto, TypeInv, TypeOK
    <2>2. TaskInv(t)'
      BY <1>1, <1>3, <2>1 DEF TaskInv
    <2> QED
      BY <1>1, <1>3, <2>1, <2>2, OneTaskMoves DEF disk
  <1> QED
    BY <1>1, <1>2, <1>3, GatherFits DEF TaskInv

\* The name and the task's handle refer to an empty file.
LEMMA OpenFacts ==
  ASSUME TypeInv, NEW t \in Tasks, OpenForWrite(t)
  PROVE  /\ path'[Home[t]] # 0 /\ fd'[t] = path'[Home[t]] /\ Mine(t)' = << >>
         /\ \A b \in Agents \ {Home[t]} : inode'[b] = inode[b] /\ path'[b] = path[b]
         /\ pc'[t] = "write" /\ nxt'[t] = 1 /\ job' = job
         /\ UNCHANGED << size, parts, pos, pend, buf >>
         /\ \A u \in Tasks \ {t} : pc'[u] = pc[u] /\ fd'[u] = fd[u] /\ nxt'[u] = nxt[u]
  <1> DEFINE a == Home[t]
  <1>1. TypeInv /\ pc[t] = "open"
    BY DEF OpenForWrite
  <1>2. a \in Agents /\ inode[a] \in Seq(Seq(Byte)) /\ Len(inode[a]) \in Nat
    BY <1>1, SwarmAssumption, LenProperties DEF TypeInv, TypeOK
  <1>3. /\ path'[a] # 0 /\ fd'[t] = path'[a] /\ Mine(t)' = << >>
        /\ \A b \in Agents \ {a} : inode'[b] = inode[b] /\ path'[b] = path[b]
    <2>1. CASE Present(a)
      <3>1. /\ inode' = [inode EXCEPT ![a][path[a]] = << >>]
            /\ fd' = [fd EXCEPT ![t] = path[a]]
            /\ path' = path
        BY <2>1 DEF OpenForWrite, Opened
      <3>2. path[a] \in 1 .. Len(inode[a]) /\ path[a] # 0
        <4>1. path[a] \in Nat /\ path[a] =< Len(inode[a])
          BY <1>1, <1>2 DEF TypeInv, TypeOK, HandlesOK
        <4>2. path[a] # 0
          BY <2>1 DEF Present
        <4> QED
          BY <1>2, <4>1, <4>2
      <3>3. << >> \in Seq(Byte)
        OBVIOUS
      <3>4. /\ inode'[a][path[a]] = << >>
            /\ \A b \in Agents : b # a => inode'[b] = inode[b]
        <4>1. inode' = [inode EXCEPT ![a][path[a]] = << >>] /\ TypeInv /\ a \in Agents
          BY <1>1, <1>2, <3>1
        <4> HIDE DEF a
        <4> QED
          BY <3>2, <3>3, <4>1, InodeUpdate
      <3> QED
        BY <1>1, <3>1, <3>2, <3>4 DEF Mine, TypeInv, TypeOK
    <2>2. CASE ~Present(a)
      <3>1. /\ inode' = [inode EXCEPT ![a] = Append(inode[a], << >>)]
            /\ path' = [path EXCEPT ![a] = Len(inode[a]) + 1]
            /\ fd' = [fd EXCEPT ![t] = Len(inode[a]) + 1]
        BY <2>2 DEF OpenForWrite
      <3>2. << >> \in Seq(Byte)
        OBVIOUS
      <3>3. Append(inode[a], << >>)[Len(inode[a]) + 1] = << >>
        BY <1>2, <3>2
      <3>4. inode'[a] = Append(inode[a], << >>) /\ path'[a] = Len(inode[a]) + 1
        BY <1>1, <1>2, <3>1 DEF TypeInv, TypeOK
      <3> QED
        BY <1>1, <1>2, <3>1, <3>3, <3>4 DEF Mine, TypeInv, TypeOK
    <2> QED
      BY <2>1, <2>2
  <1>4. /\ pc'[t] = "write" /\ nxt'[t] = 1 /\ job' = job
        /\ UNCHANGED << size, parts, pos, pend, buf >>
        /\ \A u \in Tasks \ {t} : pc'[u] = pc[u] /\ fd'[u] = fd[u] /\ nxt'[u] = nxt[u]
    BY <1>1 DEF OpenForWrite, Goto, net, TypeInv, TypeOK
  <1> QED
    BY <1>3, <1>4

LEMMA OpenForWriteKeepsIInv ==
  ASSUME OneTaskPerHome, IInv, NEW t \in Tasks, OpenForWrite(t)
  PROVE  IInv'
  <1> DEFINE a == Home[t]
  <1>1. TypeInv /\ TypeInv' /\ TaskInv(t) /\ pc[t] = "open"
    BY IInvTypes, OpenForWriteTypes DEF IInv, OpenForWrite
  <1>2. /\ path'[a] # 0 /\ fd'[t] = path'[a] /\ Mine(t)' = << >>
        /\ \A b \in Agents \ {a} : inode'[b] = inode[b] /\ path'[b] = path[b]
    BY <1>1, OpenFacts
  <1>3. /\ pc'[t] = "write" /\ nxt'[t] = 1 /\ job' = job
        /\ UNCHANGED << size, parts, pos, pend, buf >>
        /\ \A u \in Tasks \ {t} : pc'[u] = pc[u] /\ fd'[u] = fd[u] /\ nxt'[u] = nxt[u]
    BY <1>1, OpenFacts
  <1>4. PartsFit(t) /\ PartsFit(t)' /\ pos[t] = 0 /\ pend[t] = << >> /\ buf[t] = << >>
    BY <1>1, <1>3 DEF TaskInv, PartsFit
  <1>5. WrittenSoFar(t)'
    <2>1. Len(parts[t]) \in Nat
      BY <1>1, LenProperties DEF TypeInv, TypeOK
    <2>2. CASE t \in SeedTasks
      BY <1>2, <1>3, <1>4, <2>1, <2>2 DEF WrittenSoFar
    <2>3. CASE t \notin SeedTasks
      <3>1. parts[t] # << >> /\ parts[t][1].start = 0
        BY <1>4, <2>3 DEF PartsFit, Covers
      <3>2. Len(parts[t]) >= 1
        BY <1>1, <2>1, <3>1, EmptySeq DEF TypeInv, TypeOK
      <3> QED
        BY <1>2, <1>3, <1>4, <2>1, <2>3, <3>1, <3>2 DEF WrittenSoFar
    <2> QED
      BY <2>2, <2>3
  <1>6. TaskInv(t)'
    BY <1>3, <1>4, <1>5 DEF TaskInv
  <1>7. JobsFit'
    BY <1>3 DEF IInv, JobsFit
  <1> QED
    BY <1>1, <1>2, <1>3, <1>6, <1>7, OneTaskMoves

LEMMA BytesAssociative ==
  ASSUME NEW x \in Seq(Byte), NEW y \in Seq(Byte), NEW z \in Seq(Byte)
  PROVE  (x \o y) \o z = x \o (y \o z)
  BY ConcatAssociative

\* A sequence cut in two and joined again.
LEMMA CutAndJoin ==
  ASSUME NEW s \in Seq(Byte), NEW k \in 0 .. Len(s)
  PROVE  /\ SubSeq(s, 1, k) \in Seq(Byte) /\ Len(SubSeq(s, 1, k)) = k
         /\ SubSeq(s, k + 1, Len(s)) \in Seq(Byte)
         /\ Len(SubSeq(s, k + 1, Len(s))) = Len(s) - k
         /\ SubSeq(s, 1, k) \o SubSeq(s, k + 1, Len(s)) = s
  <1> DEFINE l == SubSeq(s, 1, k)
             r == SubSeq(s, k + 1, Len(s))
  <1>0. Len(s) \in Nat /\ \A i \in 1 .. Len(s) : s[i] \in Byte
    BY LenProperties
  <1>1. l \in Seq(Byte) /\ Len(l) = k /\ \A i \in 1 .. k : l[i] = s[i]
    BY <1>0, SubSeqProperties
  <1>2. r \in Seq(Byte) /\ Len(r) = Len(s) - k /\ \A i \in 1 .. Len(s) - k : r[i] = s[k + i]
    BY <1>0, SubSeqProperties
  <1> HIDE DEF l, r
  <1>3. /\ l \o r \in Seq(Byte) /\ Len(l \o r) = Len(s)
        /\ \A i \in 1 .. Len(s) : (l \o r)[i] = IF i <= k THEN l[i] ELSE r[i - k]
    <2>1. Len(l) + Len(r) = Len(s)
      BY <1>0, <1>1, <1>2
    <2>2. /\ l \o r \in Seq(Byte) /\ Len(l \o r) = Len(l) + Len(r)
          /\ \A i \in 1 .. Len(l) + Len(r) :
               (l \o r)[i] = IF i <= Len(l) THEN l[i] ELSE r[i - Len(l)]
      BY <1>1, <1>2, ConcatProperties, Zenon
    <2> QED
      BY <1>1, <2>1, <2>2, Zenon
  <1>4. \A i \in 1 .. Len(s) : (l \o r)[i] = s[i]
    BY <1>0, <1>1, <1>2, <1>3
  <1>5. l \o r = s
    BY <1>3, <1>4, SeqEqual
  <1> QED
    BY <1>1, <1>2, <1>5 DEF l, r

\* The o bytes on the disk, the p that are held back and the d of the next chunk.
LEMMA RestFits ==
  ASSUME NEW o \in Nat, NEW p \in Nat, NEW d \in Nat, NEW k \in Nat,
         NEW start \in Nat, NEW end \in Int, NEW rest, rest = p + d - k,
         o + p =< start, d =< end - start + 1
  PROVE  (o + k) + rest =< end + 1
  OBVIOUS

LEMMA WriteChunkKeepsIInv ==
  ASSUME OneTaskPerHome, IInv, NEW t \in Tasks, WriteChunk(t)
  PROVE  IInv'
  <1> DEFINE data == parts[t][nxt[t]].data
             bytes == pend[t] \o data
             old == Mine(t)
  <1>1. TypeInv /\ TypeInv' /\ TaskInv(t) /\ pc[t] = "write"
    BY IInvTypes, WriteChunkTypes DEF IInv, WriteChunk
  <1>2. WrittenSoFar(t) /\ PartsFit(t) /\ buf[t] = << >>
    BY <1>1 DEF TaskInv
  <1>3. /\ nxt[t] \in 1 .. Len(parts[t]) /\ Len(parts[t]) \in Nat
        /\ fd[t] \in 1 .. Len(inode[Home[t]])
    BY <1>1, LenProperties DEF WriteChunk, TypeInv, TypeOK, HandlesOK
  <1>4. /\ data \in Seq(Byte) /\ Len(data) \in Nat
        /\ pend[t] \in Seq(Byte) /\ Len(pend[t]) \in Nat
        /\ bytes \in Seq(Byte) /\ Len(bytes) = Len(pend[t]) + Len(data)
    <2>1. parts[t][nxt[t]] \in Parts
      BY <1>1, <1>3, ElementOfSeq DEF TypeInv, TypeOK
    <2>2. data \in Seq(Byte) /\ pend[t] \in Seq(Byte)
      BY <1>1, <2>1 DEF Parts, TypeInv, TypeOK
    <2> QED
      BY <2>2, ConcatProperties, LenProperties
  <1>5. PICK k \in 0 .. Len(bytes) :
          /\ Flush(t, SubSeq(bytes, 1, k))
          /\ pos' = [pos EXCEPT ![t] = @ + k]
          /\ pend' = [pend EXCEPT ![t] = SubSeq(bytes, k + 1, Len(bytes))]
    BY DEF WriteChunk
  <1>6. /\ path' = path /\ pc' = pc /\ job' = job
        /\ UNCHANGED << size, parts, fd, buf >>
        /\ nxt' = [nxt EXCEPT ![t] = @ + 1]
    BY DEF WriteChunk, net
  <1>7. fd[t] = path[Home[t]] /\ pos[t] = Len(old)
    BY <1>2 DEF WrittenSoFar
  <1> DEFINE l == SubSeq(bytes, 1, k)
             r == SubSeq(bytes, k + 1, Len(bytes))
  <1> HIDE DEF bytes, data
  <1>8. l \in Seq(Byte) /\ Len(l) = k /\ r \in Seq(Byte) /\ Len(r) = Len(bytes) - k
        /\ l \o r = bytes
    BY <1>4, CutAndJoin
  <1> HIDE DEF l, r
  <1>9. Flush(t, l) /\ pos'[t] = pos[t] + k /\ pend'[t] = r /\ nxt'[t] = nxt[t] + 1
    BY <1>1, <1>5, <1>6 DEF TypeInv, TypeOK, l, r
  <1>10. /\ old \in Seq(Byte) /\ Len(old) \in Nat
         /\ Mine(t)' = old \o l
         /\ \A b \in Agents : b # Home[t] => inode'[b] = inode[b]
    <2>1. old = inode[Home[t]][fd[t]] /\ Mine(t)' = inode'[Home[t]][fd[t]]
      BY <1>6, <1>7 DEF Mine
    <2>2. /\ old \in Seq(Byte)
          /\ \A b \in Agents : b # Home[t] => inode'[b] = inode[b]
          /\ inode'[Home[t]][fd[t]] = old \o l
      BY <1>1, <1>3, <1>7, <1>8, <1>9, <2>1, FlushFacts
    <2> QED
      BY <2>1, <2>2, LenProperties
  <1> HIDE DEF old
  <1>11. Len(old \o l) = Len(old) + k /\ (old \o l) \o r = (old \o pend[t]) \o data
    <2>1. (old \o l) \o r = old \o (l \o r)
      BY <1>8, <1>10, BytesAssociative, Zenon
    <2>2. old \o (pend[t] \o data) = (old \o pend[t]) \o data
      BY <1>4, <1>10, BytesAssociative, Zenon
    <2> QED
      BY <1>8, <1>10, <2>1, <2>2, ConcatProperties DEF bytes
  <1>12. WrittenSoFar(t)'
    <2>1. nxt'[t] \in 1 .. Len(parts'[t]) + 1
      BY <1>3, <1>6, <1>9
    <2>2. pos'[t] = Len(Mine(t)')
      BY <1>7, <1>9, <1>10, <1>11
    <2>3. CASE t \in SeedTasks
      <3>1. nxt[t] = 1 /\ nxt'[t] = 2 /\ data = File
        <4>1. Len(parts[t]) = 1 /\ parts[t][1].data = File
          BY <1>2, <2>3 DEF PartsFit
        <4>2. nxt[t] = 1
          BY <1>3, <4>1
        <4> QED
          BY <1>9, <4>1, <4>2 DEF data
      <3>2. old \o pend[t] = << >>
        BY <1>2, <2>3, <3>1 DEF WrittenSoFar, old
      <3>3. (old \o pend[t]) \o data = File
        BY <3>1, <3>2, SwarmAssumption, ConcatEmptySeq
      <3>4. Mine(t)' \o pend'[t] = File
        BY <1>9, <1>10, <1>11, <3>3
      <3> QED
        BY <1>2, <1>6, <2>1, <2>2, <2>3, <3>1, <3>4 DEF WrittenSoFar
    <2>4. CASE t \notin SeedTasks
      <3> DEFINE c == parts[t][nxt[t]]
      <3>1. c \in Parts /\ c.start \in Nat /\ c.end \in Int
        <4>1. c \in Parts
          BY <1>1, <1>3, ElementOfSeq DEF TypeInv, TypeOK
        <4> QED
          BY <4>1 DEF Parts
      <3> HIDE DEF c
      <3>2. Len(old) + Len(pend[t]) =< c.start
        BY <1>2, <1>3, <2>4 DEF WrittenSoFar, old, c
      <3>3. Len(data) =< c.end - c.start + 1
        BY <1>2, <1>3, <2>4 DEF PartsFit, Span, data, c
      <3>4. (Len(old) + k) + Len(r) =< c.end + 1
        <4>1. k \in Nat /\ Len(r) = Len(pend[t]) + Len(data) - k
          BY <1>4, <1>5, <1>8
        <4>2. /\ Len(old) \in Nat /\ Len(pend[t]) \in Nat /\ Len(data) \in Nat
              /\ c.start \in Nat /\ c.end \in Int
          BY <1>4, <1>10, <3>1
        <4> QED
          BY <3>2, <3>3, <4>1, <4>2, RestFits, Zenon
      <3>6. Len(Mine(t)') + Len(pend'[t]) =< c.end + 1
        BY <1>9, <1>10, <1>11, <3>4, Zenon
      <3>5. c.end + 1 = IF nxt[t] + 1 =< Len(parts[t]) THEN parts[t][nxt[t] + 1].start
                        ELSE size[t]
        <4>1. Covers(parts[t], size[t]) /\ nxt[t] \in Nat
          BY <1>2, <1>3, <2>4 DEF PartsFit
        <4>2. CASE nxt[t] + 1 =< Len(parts[t])
          BY <1>3, <4>1, <4>2 DEF Covers, c
        <4>3. CASE ~(nxt[t] + 1 =< Len(parts[t]))
          <5>1. nxt[t] = Len(parts[t])
            BY <1>3, <4>1, <4>3
          <5> QED
            BY <4>1, <4>3, <5>1 DEF Covers, c
        <4> QED
          BY <4>2, <4>3
      <3> QED
        BY <1>2, <1>6, <1>9, <2>1, <2>2, <2>4, <3>5, <3>6 DEF WrittenSoFar
    <2> QED
      BY <2>3, <2>4
  <1>13. TaskInv(t)'
    <2>1. PartsFit(t)'
      BY <1>2, <1>6 DEF PartsFit
    <2> QED
      BY <1>1, <1>2, <1>6, <1>12, <2>1 DEF TaskInv
  <1>14. JobsFit'
    BY <1>6 DEF IInv, JobsFit
  <1>15. \A u \in Tasks \ {t} : nxt'[u] = nxt[u] /\ pos'[u] = pos[u] /\ pend'[u] = pend[u]
    BY <1>1, <1>5, <1>6 DEF TypeInv, TypeOK
  <1> QED
    BY <1>1, <1>6, <1>10, <1>13, <1>14, <1>15, OneTaskMoves

LEMMA CloseFileKeepsIInv ==
  ASSUME OneTaskPerHome, IInv, NEW t \in Tasks, CloseFile(t)
  PROVE  IInv'
  <1> DEFINE old == Mine(t)
  <1>1. TypeInv /\ TypeInv' /\ TaskInv(t) /\ pc[t] = "write"
    BY IInvTypes, CloseFileTypes DEF IInv, CloseFile
  <1>2. /\ Flush(t, pend[t]) /\ Forget(t) /\ nxt[t] > Len(parts[t])
        /\ Goto(t, IF t \in SeedTasks THEN "done" ELSE "verifyOpen")
        /\ path' = path /\ UNCHANGED << size, net >>
    BY DEF CloseFile
  <1>3. WrittenSoFar(t) /\ PartsFit(t)
    BY <1>1 DEF TaskInv
  <1>4. /\ path[Home[t]] # 0 /\ fd[t] = path[Home[t]] /\ pos[t] = Len(old)
        /\ nxt[t] \in 1 .. Len(parts[t]) + 1
    BY <1>3 DEF WrittenSoFar
  <1>5. Len(parts[t]) \in Nat /\ pend[t] \in Seq(Byte) /\ Len(pend[t]) \in Nat
        /\ fd[t] \in 1 .. Len(inode[Home[t]])
    BY <1>1, LenProperties DEF TypeInv, TypeOK, HandlesOK
  <1>6. nxt[t] = Len(parts[t]) + 1
    BY <1>2, <1>4, <1>5
  <1>7. /\ old \in Seq(Byte) /\ Mine(t)' = old \o pend[t]
        /\ \A b \in Agents : b # Home[t] => inode'[b] = inode[b]
    <2>1. old = inode[Home[t]][fd[t]] /\ Mine(t)' = inode'[Home[t]][fd[t]]
      BY <1>2, <1>4 DEF Mine
    <2>2. TypeInv /\ Flush(t, pend[t]) /\ pend[t] \in Seq(Byte) /\ pos[t] = Len(old)
          /\ fd[t] \in 1 .. Len(inode[Home[t]])
      BY <1>1, <1>2, <1>4, <1>5
    <2> HIDE DEF old
    <2> QED
      BY <2>1, <2>2, FlushFacts
  <1> HIDE DEF old
  <1>8. CASE t \in SeedTasks
    <2>1. Len(parts[t]) = 1
      BY <1>3, <1>8 DEF PartsFit
    <2>2. nxt[t] # 1
      BY <1>6, <2>1
    <2>3. Mine(t)' = File
      BY <1>3, <1>7, <1>8, <2>2 DEF WrittenSoFar, old
    <2>4. Goto(t, "done")
      BY <1>2, <1>8
    <2> QED
      BY <1>1, <1>2, <1>4, <1>7, <2>3, <2>4, ForgetKeepsIInv
  <1>9. CASE t \notin SeedTasks
    <2>1. ~(nxt[t] =< Len(parts[t]))
      BY <1>5, <1>6
    <2>2. Len(old) + Len(pend[t]) =< size[t]
      BY <1>3, <1>9, <2>1 DEF WrittenSoFar, old
    <2>3. Len(Mine(t)') = Len(old) + Len(pend[t])
      <3>1. Len(old \o pend[t]) = Len(old) + Len(pend[t])
        BY <1>5, <1>7, ConcatProperties
      <3> QED
        BY <1>7, <3>1
    <2>4. Len(Mine(t)') =< size[t]
      BY <2>2, <2>3
    <2>5. Goto(t, "verifyOpen")
      BY <1>2, <1>9
    <2> QED
      BY <1>1, <1>2, <1>4, <1>7, <1>9, <2>4, <2>5, ForgetKeepsIInv
  <1> QED
    BY <1>8, <1>9

LEMMA VerifyOpenKeepsIInv ==
  ASSUME OneTaskPerHome, IInv, NEW t \in Tasks, VerifyOpen(t)
  PROVE  IInv'
  <1>1. TypeInv /\ TypeInv' /\ TaskInv(t) /\ pc[t] = "verifyOpen" /\ UNCHANGED disk
    BY IInvTypes, VerifyOpenTypes DEF IInv, VerifyOpen
  <1>2. ReadSoFar(t) /\ buf[t] = << >>
    BY <1>1 DEF TaskInv
  <1>3. /\ Present(Home[t])
        /\ fd' = [fd EXCEPT ![t] = path[Home[t]]] /\ Goto(t, "verify")
        /\ UNCHANGED << size, net, parts, nxt, pos, pend, buf >>
    BY <1>2 DEF VerifyOpen, ReadSoFar, Present
  <1>4. /\ pc'[t] = "verify" /\ fd'[t] = path[Home[t]]
        /\ \A u \in Tasks \ {t} : pc'[u] = pc[u] /\ fd'[u] = fd[u]
    BY <1>1, <1>3 DEF Goto, TypeInv, TypeOK
  <1>5. Mine(t)' = Mine(t) /\ Mine(t) \in Seq(Byte)
    <2>1. path[Home[t]] \in 1 .. Len(inode[Home[t]])
      <3>1. Home[t] \in Agents
        BY SwarmAssumption
      <3>2. path[Home[t]] \in Nat /\ path[Home[t]] # 0 /\ path[Home[t]] =< Len(inode[Home[t]])
        BY <1>1, <1>2, <3>1 DEF ReadSoFar, TypeInv, TypeOK, HandlesOK
      <3>3. Len(inode[Home[t]]) \in Nat
        BY <1>1, <3>1, LenProperties DEF TypeInv, TypeOK
      <3> QED
        BY <3>2, <3>3
    <2>2. inode[Home[t]] \in Seq(Seq(Byte))
      BY <1>1, SwarmAssumption DEF TypeInv, TypeOK
    <2>3. Mine(t) \in Seq(Byte)
      BY <2>1, <2>2, ElementOfSeq DEF Mine
    <2> QED
      BY <1>1, <2>3 DEF Mine, disk
  <1>6. ReadSoFar(t)'
    <2>1. SubSeq(Mine(t), 1, 0) = << >> /\ Len(Mine(t)) \in Nat /\ Len(<< >>) = 0
      BY <1>5, LenProperties
    <2>2. buf'[t] = << >> /\ size'[t] = size[t] /\ path'[Home[t]] = path[Home[t]]
      BY <1>1, <1>2, <1>3 DEF disk
    <2>3. Len(buf'[t]) =< Len(Mine(t)') /\ buf'[t] = SubSeq(Mine(t)', 1, Len(buf'[t]))
      BY <1>5, <2>1, <2>2
    <2> QED
      BY <1>2, <1>4, <1>5, <2>2, <2>3 DEF ReadSoFar
  <1>7. TaskInv(t)'
    BY <1>3, <1>4, <1>6 DEF TaskInv
  <1>8. JobsFit'
    BY <1>3 DEF net, IInv, JobsFit
  <1> QED
    BY <1>1, <1>3, <1>4, <1>7, <1>8, OneTaskMoves DEF disk

\* Reading on in a content that is no longer than what is read: the bytes that
\* follow those read so far, and none only at its end.
LEMMA ReadOn ==
  ASSUME NEW c \in Seq(Byte), NEW got \in 0 .. Len(c), NEW n \in Nat, Len(c) =< n
  PROVE  \E m \in got .. Len(c) :
           /\ NextRead(c, 0, n - 1, got) = SubSeq(c, got + 1, m)
           /\ NextRead(c, 0, n - 1, got) = << >> => m = Len(c)
  <1> DEFINE k == Least(ReadSize, n - 1 - 0 + 1 - got)
             m == Least(0 + got + k, Len(c))
  <1>0. Len(c) \in Nat /\ ReadSize \in Nat \ {0}
    BY SwarmAssumption, LenProperties
  <1>1. k \in Nat /\ (k = 0 => got = Len(c))
    BY <1>0 DEF Least
  <1>2. NextRead(c, 0, n - 1, got) = SubSeq(c, 0 + got + 1, m)
    BY DEF NextRead, ReadAt
  <1> HIDE DEF k
  <1>3. m \in got .. Len(c) /\ (m = got => got = Len(c))
    BY <1>0, <1>1 DEF Least
  <1> HIDE DEF m
  <1>4. NextRead(c, 0, n - 1, got) = SubSeq(c, got + 1, m)
    BY <1>2
  <1>5. ASSUME SubSeq(c, got + 1, m) = << >> PROVE m = Len(c)
    <2>1. \A i \in got + 1 .. m : c[i] \in Byte
      BY <1>0, <1>3, ElementOfSeq
    <2>2. Len(SubSeq(c, got + 1, m)) = IF got + 1 <= m THEN m - (got + 1) + 1 ELSE 0
      BY <1>3, <2>1, SubSeqProperties
    <2>3. Len(SubSeq(c, got + 1, m)) = 0
      BY <1>5, EmptySeq, Zenon
    <2> QED
      BY <1>0, <1>3, <2>2, <2>3
  <1> QED
    BY <1>3, <1>4, <1>5

LEMMA VerifyReadKeepsIInv ==
  ASSUME OneTaskPerHome, IInv, NEW t \in Tasks, VerifyRead(t)
  PROVE  IInv'
  <1> DEFINE c == Mine(t)
             chunk == NextRead(c, 0, size[t] - 1, Len(buf[t]))
             read == buf[t] \o chunk
  <1>1. TypeInv /\ TypeInv' /\ TaskInv(t) /\ pc[t] = "verify" /\ UNCHANGED disk
    BY IInvTypes, VerifyReadTypes DEF IInv, VerifyRead
  <1>2. ReadSoFar(t)
    BY <1>1 DEF TaskInv
  <1>3. /\ path[Home[t]] # 0 /\ fd[t] = path[Home[t]] /\ Len(c) =< size[t]
        /\ Len(buf[t]) =< Len(c) /\ buf[t] = SubSeq(c, 1, Len(buf[t])) /\ t \notin SeedTasks
    BY <1>1, <1>2 DEF ReadSoFar
  <1>4. c \in Seq(Byte) /\ Len(c) \in Nat
    <2>1. inode[Home[t]][fd[t]] \in Seq(Byte)
      BY <1>1, SwarmAssumption, ElementOfSeq DEF TypeInv, TypeOK, HandlesOK
    <2> QED
      BY <1>3, <2>1, LenProperties DEF Mine
  <1>5. Mine(t)' = c /\ path' = path /\ inode' = inode
    BY <1>1 DEF Mine, disk
  <1>6. IF chunk # << >> /\ Len(read) < size[t]
        THEN /\ buf' = [buf EXCEPT ![t] = read]
             /\ UNCHANGED << pc, size, net, parts, fd, nxt, pos, pend >>
        ELSE IF read = File
        THEN End(t, "done")
        ELSE /\ Forget(t)
             /\ Goto(t, "discard")
             /\ UNCHANGED << size, net >>
    BY <1>3 DEF VerifyRead, Mine
  <1> HIDE DEF c
  <1>7. Len(buf[t]) \in 0 .. Len(c) /\ size[t] \in Nat
    BY <1>1, <1>3, <1>4, LenProperties DEF TypeInv, TypeOK
  <1>8. PICK m \in Len(buf[t]) .. Len(c) :
          /\ chunk = SubSeq(c, Len(buf[t]) + 1, m)
          /\ chunk = << >> => m = Len(c)
    BY <1>3, <1>4, <1>7, ReadOn
  <1>9. read = SubSeq(c, 1, m)
    <2>1. 1 \in 1 .. Len(c) + 1 /\ Len(buf[t]) \in 1 - 1 .. Len(c)
      BY <1>4, <1>7
    <2>2. SubSeq(c, 1, Len(buf[t])) \o SubSeq(c, Len(buf[t]) + 1, m) = SubSeq(c, 1, m)
      BY <1>4, <2>1, ConcatAdjacentSubSeq
    <2> QED
      BY <1>3, <1>8, <2>2
  <1>10. Len(read) = m /\ m \in Nat
    <2>1. m \in 0 .. Len(c)
      BY <1>7
    <2>2. \A i \in 1 .. m : c[i] \in Byte
      BY <1>4, <2>1, ElementOfSeq
    <2>3. Len(SubSeq(c, 1, m)) = IF 1 <= m THEN m - 1 + 1 ELSE 0
      BY <1>4, <2>1, <2>2, SubSeqProperties
    <2>4. (IF 1 <= m THEN m - 1 + 1 ELSE 0) = m /\ m \in Nat
      BY <1>4, <2>1
    <2> QED
      BY <1>9, <2>3, <2>4, Zenon
  <1> HIDE DEF chunk, read
  <1>11. CASE chunk # << >> /\ Len(read) < size[t]
    <2>1. /\ buf'[t] = read /\ pc'[t] = "verify"
          /\ fd' = fd /\ size' = size /\ net' = net
          /\ \A u \in Tasks \ {t} : buf'[u] = buf[u] /\ pc'[u] = pc[u]
      BY <1>1, <1>6, <1>11 DEF TypeInv, TypeOK
    <2>2. Len(buf'[t]) =< Len(Mine(t)') /\ buf'[t] = SubSeq(Mine(t)', 1, Len(buf'[t]))
      BY <1>4, <1>5, <1>9, <1>10, <2>1
    <2>3. ReadSoFar(t)'
      BY <1>3, <1>5, <2>1, <2>2 DEF ReadSoFar
    <2>4. TaskInv(t)'
      BY <2>1, <2>3 DEF TaskInv
    <2>5. JobsFit'
      BY <2>1 DEF net, IInv, JobsFit
    <2> QED
      BY <1>1, <1>5, <1>6, <1>11, <2>1, <2>4, <2>5, OneTaskMoves
  <1>12. CASE ~(chunk # << >> /\ Len(read) < size[t]) /\ read = File
    <2>1. m = Len(c)
      BY <1>3, <1>4, <1>7, <1>8, <1>10, <1>12
    <2>2. c = File
      BY <1>4, <1>9, <1>12, <2>1, SubSeqFull
    <2>3. End(t, "done") /\ "done" \in Terminal
      BY <1>6, <1>12 DEF Terminal
    <2> QED
      BY <1>1, <1>3, <1>5, <2>2, <2>3, EndingKeepsIInv
  <1>13. CASE ~(chunk # << >> /\ Len(read) < size[t]) /\ read # File
    BY <1>1, <1>5, <1>6, <1>13, ForgetKeepsIInv
  <1> QED
    BY <1>11, <1>12, <1>13

LEMMA DiscardKeepsIInv ==
  ASSUME OneTaskPerHome, IInv, NEW t \in Tasks, Discard(t)
  PROVE  IInv'
  <1>1. TypeInv /\ TypeInv'
    BY IInvTypes, DiscardTypes
  <1>2. End(t, "failed") /\ inode' = inode /\ \A a \in Agents \ {Home[t]} : path'[a] = path[a]
    BY <1>1 DEF Discard, Unlink, TypeInv, TypeOK
  <1> QED
    BY <1>1, <1>2, EndKeepsIInv

LEMMA FaultKeepsIInv ==
  ASSUME OneTaskPerHome, IInv, NEW t \in Tasks, Fault(t)
  PROVE  IInv'
  <1>1. TypeInv /\ TypeInv'
    BY IInvTypes, FaultTypes
  <1>2. CASE StorageRaises(t) \/ Crash(t)
    BY <1>1, <1>2, EndKeepsIInv DEF StorageRaises, Crash, disk
  <1>3. ASSUME NEW bytes \in Seq(Byte), pc[t] = "write", Flush(t, bytes)
        PROVE  \A b \in Agents \ {Home[t]} : inode'[b] = inode[b]
    <2>1. fd[t] \in 1 .. Len(inode[Home[t]])
      BY <1>1, <1>3 DEF TypeInv, HandlesOK
    <2> QED
      BY <1>1, <1>3, <2>1, FlushFacts
  <1>4. CASE WriteFails(t)
    <2> DEFINE bytes == pend[t] \o parts[t][nxt[t]].data
    <2>1. bytes \in Seq(Byte)
      <3>1. parts[t][nxt[t]] \in Parts
        BY <1>1, <1>4, ElementOfSeq DEF WriteFails, TypeInv, TypeOK, HandlesOK
      <3>2. parts[t][nxt[t]].data \in Seq(Byte)
        BY <3>1 DEF Parts
      <3> QED
        BY <1>1, <3>2, ConcatProperties DEF TypeInv, TypeOK
    <2>2. PICK k \in 0 .. Len(bytes) : Flush(t, SubSeq(bytes, 1, k))
      BY <1>4 DEF WriteFails
    <2> HIDE DEF bytes
    <2>3. SubSeq(bytes, 1, k) \in Seq(Byte)
      BY <2>1, PrefixType
    <2>4. /\ pc[t] = "write" /\ Forget(t) /\ Goto(t, "discard") /\ path' = path
          /\ UNCHANGED << size, net >>
      BY <1>4 DEF WriteFails
    <2>5. \A b \in Agents \ {Home[t]} : inode'[b] = inode[b] /\ path'[b] = path[b]
      BY <1>3, <2>2, <2>3, <2>4
    <2> QED
      BY <1>1, <2>4, <2>5, ForgetKeepsIInv
  <1>5. CASE CloseFails(t)
    <2>1. pend[t] \in Seq(Byte) /\ Len(pend[t]) \in Nat
      BY <1>1, LenProperties DEF TypeInv, TypeOK
    <2>2. PICK k \in 0 .. Len(pend[t]) : Flush(t, SubSeq(pend[t], 1, k))
      BY <1>5, <2>1 DEF CloseFails
    <2>3. SubSeq(pend[t], 1, k) \in Seq(Byte)
      BY <2>1, PrefixType
    <2>4. pc[t] = "write" /\ End(t, "failed") /\ path' = path
      BY <1>5 DEF CloseFails
    <2>5. \A b \in Agents \ {Home[t]} : inode'[b] = inode[b] /\ path'[b] = path[b]
      BY <1>3, <2>2, <2>3, <2>4
    <2> QED
      BY <1>1, <2>4, <2>5, EndKeepsIInv
  <1> QED
    BY <1>2, <1>4, <1>5 DEF Fault

LEMMA InitIInv ==
  Init => IInv
  <1> SUFFICES ASSUME Init PROVE IInv
    OBVIOUS
  <1>1. JobsFit
    BY NoJobFits DEF Init, JobsFit
  <1>2. ASSUME NEW t \in Tasks PROVE TaskInv(t)
    BY DEF Init, TaskInv
  <1> QED
    BY <1>1, <1>2, InitTypes DEF IInv, TypeInv

LEMMA NextIInv ==
  ASSUME OneTaskPerHome, IInv, [Next]_vars
  PROVE  IInv'
  <1>1. ASSUME NEW t \in Tasks, Work(t) PROVE IInv'
    BY <1>1, SendRequestsKeepsIInv, GatherKeepsIInv, OpenForWriteKeepsIInv,
       WriteChunkKeepsIInv, CloseFileKeepsIInv, VerifyOpenKeepsIInv, VerifyReadKeepsIInv,
       DiscardKeepsIInv DEF Work
  <1>2. ASSUME NEW t \in Tasks, Start(t) \/ Fault(t) PROVE IInv'
    BY <1>2, StartKeepsIInv, FaultKeepsIInv
  <1>3. ASSUME NEW t \in Tasks, NEW a \in Agents,
               Handshake(t, a) \/ Serve(t, a) \/ FetchFails(t, a)
        PROVE  IInv'
    BY <1>3, HandshakeKeepsIInv, ServeKeepsIInv
  <1>4. CASE UNCHANGED vars
    <2>1. TypeInv'
      BY <1>4, IInvTypes, NextTypes
    <2>2. JobsFit'
      BY <1>4 DEF vars, net, IInv, JobsFit
    <2>3. ASSUME NEW t \in Tasks PROVE TaskInv(t)'
      BY <1>4, OtherTasks DEF vars, disk, net, file, IInv
    <2> QED
      BY <2>1, <2>2, <2>3 DEF IInv, TypeInv
  <1> QED
    BY <1>1, <1>2, <1>3, <1>4 DEF Next

(***************************************************************************)
(* Success is true: whichever peers answered with whichever bytes, however *)
(* short, late or wrong, and whatever broke on the way, a task that        *)
(* reports success has the whole file in its directory, and keeps it.      *)
(***************************************************************************)
THEOREM SuccessMeansStored ==
  ASSUME OneTaskPerHome
  PROVE  Spec => []VerifiedMeansStored
  <1>1. IInv => VerifiedMeansStored
    BY DEF IInv, TaskInv, VerifiedMeansStored, Present, Stored, Mine
  <1>2. IInv /\ [Next]_vars => IInv'
    BY NextIInv
  <1> QED
    BY <1>1, <1>2, InitIInv, PTL DEF Spec

\* The invariant itself.
THEOREM SuccessInvariant ==
  ASSUME OneTaskPerHome
  PROVE  Spec => []IInv
  <1>1. IInv /\ [Next]_vars => IInv'
    BY NextIInv
  <1> QED
    BY <1>1, InitIInv, PTL DEF Spec

-------------------------------------------------------------------------------
(***************************************************************************)
(* Swarm implements Delivery: each step of a task is a step of its phase   *)
(* and copy, and every other step leaves both alone.                       *)
(***************************************************************************)

LEMMA PhaseFacts ==
  ASSUME NEW t
  PROVE  /\ pc[t] \in Early => PhaseOf(t) = "fetching"
         /\ pc[t] \in {"write", "verifyOpen", "verify", "discard"} => PhaseOf(t) = "storing"
         /\ pc[t] \in Terminal => PhaseOf(t) = pc[t]
         /\ pc'[t] \in Early => PhaseOf(t)' = "fetching"
         /\ pc'[t] \in {"write", "verifyOpen", "verify", "discard"} => PhaseOf(t)' = "storing"
         /\ pc'[t] \in Terminal => PhaseOf(t)' = pc'[t]
  BY DEF PhaseOf, Early, Terminal

LEMMA CopyKinds ==
  ASSUME NEW a
  PROVE  CopyOf(a) \in D!Kinds /\ CopyOf(a)' \in D!Kinds
  BY DEF CopyOf, D!Kinds

\* What changes for one task only moves that task.
OnlyMoves(t) ==
  \A u \in Tasks \ {t} :
    /\ pc'[u] = pc[u]
    /\ inode'[Home[u]] = inode[Home[u]] /\ path'[Home[u]] = path[Home[u]]

LEMMA MoveOf ==
  ASSUME NEW t \in Tasks, OnlyMoves(t),
         NEW to, to = PhaseOf(t)', NEW kind, kind = CopyOf(Home[t])'
  PROVE  D!Move(t, PhaseOf(t), to, kind)
  <1>1. ASSUME NEW u \in Tasks, u # t
        PROVE  PhaseOf(u)' = PhaseOf(u) /\ CopyOf(Home[u])' = CopyOf(Home[u])
    BY <1>1 DEF OnlyMoves, PhaseOf, CopyOf, Present, Stored
  <1> QED
    BY <1>1 DEF D!Move

LEMMA StaysPut ==
  ASSUME UNCHANGED << disk, pc >>
  PROVE  UNCHANGED << [t \in Tasks |-> PhaseOf(t)], [t \in Tasks |-> CopyOf(Home[t])] >>
  BY DEF disk, PhaseOf, CopyOf, Present, Stored

\* Each step of a task is one of OnlyMoves.
LEMMA StepsAreOwn ==
  ASSUME OneTaskPerHome, TypeInv, NEW t \in Tasks, Start(t) \/ Work(t) \/ Fault(t)
  PROVE  OnlyMoves(t)
  <1>1. pc \in [Tasks -> PCs] /\ inode \in [Agents -> Seq(Seq(Byte))]
        /\ path \in [Agents -> Nat] /\ Home \in [Tasks -> Agents]
    BY SwarmAssumption DEF TypeInv, TypeOK
  <1> DEFINE OwnPc == \A u \in Tasks \ {t} : pc'[u] = pc[u]
             OwnDisk == \A b \in Agents \ {Home[t]} : inode'[b] = inode[b] /\ path'[b] = path[b]
  <1>2. CASE Start(t)
    <2>1. UNCHANGED disk
      BY <1>2 DEF Start, StartDownload, StartSeed
    <2>2. OwnPc
      BY <1>1, <1>2 DEF Start, StartDownload, StartSeed, Goto
    <2> QED
      BY <2>1, <2>2 DEF OnlyMoves, disk
  <1>3. CASE SendRequests(t) \/ Gather(t) \/ VerifyOpen(t) \/ VerifyRead(t)
             \/ StorageRaises(t) \/ Crash(t)
    <2>1. UNCHANGED disk
      BY <1>3 DEF SendRequests, Gather, VerifyOpen, VerifyRead, StorageRaises, Crash
    <2>2. OwnPc
      BY <1>1, <1>3
      DEF SendRequests, Gather, VerifyOpen, VerifyRead, StorageRaises, Crash, Goto, End
    <2> QED
      BY <2>1, <2>2 DEF OnlyMoves, disk
  <1>4. CASE OpenForWrite(t) \/ WriteChunk(t) \/ CloseFile(t) \/ Discard(t)
             \/ WriteFails(t) \/ CloseFails(t)
    <2>1. OwnPc
      BY <1>1, <1>4
      DEF OpenForWrite, WriteChunk, CloseFile, Discard, WriteFails, CloseFails, Goto, End
    <2>2. OwnDisk
      BY <1>1, <1>4
      DEF OpenForWrite, WriteChunk, CloseFile, Discard, WriteFails, CloseFails, Flush, Unlink
    <2> QED
      BY <1>1, <2>1, <2>2 DEF OneTaskPerHome, OnlyMoves
  <1> QED
    BY <1>2, <1>3, <1>4 DEF Work, Fault

\* What Delivery sees.
Seen == << [t \in Tasks |-> PhaseOf(t)], [t \in Tasks |-> CopyOf(Home[t])] >>

\* The steps of one task that Delivery permits.
LEMMA Permitted ==
  ASSUME NEW t \in Tasks, OnlyMoves(t),
         \/ UNCHANGED disk /\ PhaseOf(t)' = PhaseOf(t)
         \/ UNCHANGED disk /\ PhaseOf(t) = "fetching" /\ PhaseOf(t)' = "failed"
         \/ PhaseOf(t) \in {"fetching", "storing"} /\ PhaseOf(t)' = "storing"
         \/ PhaseOf(t) = "storing" /\ PhaseOf(t)' = "done" /\ CopyOf(Home[t])' = "file"
         \/ /\ PhaseOf(t) = "storing" /\ PhaseOf(t)' = "failed"
            /\ t \in Faulty \/ CopyOf(Home[t])' = "none"
         \/ /\ MayCrash /\ UNCHANGED disk
            /\ PhaseOf(t) \in {"fetching", "storing"} /\ PhaseOf(t)' = "crashed"
  PROVE  [D!Next]_Seen
  <1>0. PICK to, kind : to = PhaseOf(t)' /\ kind = CopyOf(Home[t])'
    OBVIOUS
  <1>1. D!Move(t, PhaseOf(t), to, kind) /\ kind \in D!Kinds
    BY <1>0, MoveOf, CopyKinds
  <1>2. UNCHANGED disk => kind = CopyOf(Home[t])
    BY <1>0 DEF disk, CopyOf, Present, Stored
  <1>3. CASE UNCHANGED disk /\ PhaseOf(t)' = PhaseOf(t)
    <2>1. ASSUME NEW u \in Tasks
          PROVE  PhaseOf(u)' = PhaseOf(u) /\ CopyOf(Home[u])' = CopyOf(Home[u])
      BY <1>3 DEF OnlyMoves, disk, PhaseOf, CopyOf, Present, Stored
    <2> QED
      BY <2>1 DEF Seen
  <1>4. CASE UNCHANGED disk /\ PhaseOf(t) = "fetching" /\ PhaseOf(t)' = "failed"
    <2>1. D!GiveUp(t)
      BY <1>0, <1>1, <1>2, <1>4 DEF D!GiveUp
    <2> QED
      BY <2>1 DEF D!Next
  <1>5. CASE PhaseOf(t) \in {"fetching", "storing"} /\ PhaseOf(t)' = "storing"
    <2>1. D!Store(t)
      BY <1>0, <1>1, <1>5 DEF D!Store
    <2> QED
      BY <2>1 DEF D!Next
  <1>6. CASE PhaseOf(t) = "storing" /\ PhaseOf(t)' = "done" /\ CopyOf(Home[t])' = "file"
    <2>1. D!Deliver(t)
      BY <1>0, <1>1, <1>6 DEF D!Deliver
    <2> QED
      BY <2>1 DEF D!Next
  <1>7. CASE /\ PhaseOf(t) = "storing" /\ PhaseOf(t)' = "failed"
             /\ t \in Faulty \/ CopyOf(Home[t])' = "none"
    <2>1. D!Reject(t) \/ D!Spoil(t)
      BY <1>0, <1>1, <1>7 DEF D!Reject, D!Spoil
    <2> QED
      BY <2>1 DEF D!Next
  <1>8. CASE /\ MayCrash /\ UNCHANGED disk
             /\ PhaseOf(t) \in {"fetching", "storing"} /\ PhaseOf(t)' = "crashed"
    <2>1. D!Die(t)
      BY <1>0, <1>1, <1>2, <1>8 DEF D!Die
    <2> QED
      BY <2>1 DEF D!Next
  <1> QED
    BY <1>3, <1>4, <1>5, <1>6, <1>7, <1>8

LEMMA StartRefines ==
  ASSUME OneTaskPerHome, TypeInv, NEW t \in Tasks, Start(t) \/ SendRequests(t) \/ Gather(t)
  PROVE  [D!Next]_Seen
  <1>1. pc \in [Tasks -> PCs]
    BY DEF TypeInv, TypeOK
  <1>2. OnlyMoves(t)
    BY StepsAreOwn DEF Work
  <1>3. /\ UNCHANGED disk /\ pc[t] \in Early /\ pc'[t] \in Early \cup {"failed"}
    BY <1>1 DEF Start, StartDownload, StartSeed, SendRequests, Gather, Goto, End, Early
  <1> QED
    BY <1>2, <1>3, PhaseFacts, Permitted DEF Terminal

LEMMA WorkRefines ==
  ASSUME OneTaskPerHome, IInv, IInv', NEW t \in Tasks, Work(t)
  PROVE  [D!Next]_Seen
  <1>1. TypeInv /\ pc \in [Tasks -> PCs] /\ Home[t] \in Agents /\ path \in [Agents -> Nat]
    BY IInvTypes, SwarmAssumption DEF TypeInv, TypeOK
  <1>2. OnlyMoves(t) /\ TaskInv(t) /\ TaskInv(t)'
    BY <1>1, StepsAreOwn DEF IInv
  <1>3. pc'[t] = "done" => CopyOf(Home[t])' = "file"
    BY <1>2 DEF TaskInv, CopyOf, Present, Stored, Mine
  <1>4. CASE OpenForWrite(t)
    <2>1. pc[t] = "open" /\ pc'[t] = "write"
      BY <1>1, <1>4 DEF OpenForWrite, Goto
    <2> QED
      BY <1>2, <2>1, PhaseFacts, Permitted DEF Early
  <1>5. CASE WriteChunk(t)
    <2>1. pc[t] = "write" /\ pc'[t] = "write"
      BY <1>1, <1>5 DEF WriteChunk
    <2> QED
      BY <1>2, <2>1, PhaseFacts, Permitted
  <1>6. CASE CloseFile(t)
    <2>1. pc[t] = "write" /\ pc'[t] \in {"done", "verifyOpen"}
      BY <1>1, <1>6 DEF CloseFile, Goto
    <2> QED
      BY <1>2, <1>3, <2>1, PhaseFacts, Permitted DEF Terminal
  <1>7. CASE VerifyOpen(t)
    <2>1. pc[t] = "verifyOpen" /\ Present(Home[t])
      BY <1>2, <1>7 DEF VerifyOpen, TaskInv, ReadSoFar, Present
    <2>2. pc'[t] = "verify"
      BY <1>1, <1>7, <2>1 DEF VerifyOpen, Goto
    <2> QED
      BY <1>2, <2>1, <2>2, PhaseFacts, Permitted
  <1>8. CASE VerifyRead(t)
    <2>1. pc[t] = "verify" /\ pc'[t] \in {"verify", "done", "discard"}
      BY <1>1, <1>8 DEF VerifyRead, Goto, End
    <2> QED
      BY <1>2, <1>3, <2>1, PhaseFacts, Permitted DEF Terminal
  <1>9. CASE Discard(t)
    <2>1. pc[t] = "discard" /\ pc'[t] = "failed" /\ path'[Home[t]] = 0
      BY <1>1, <1>9 DEF Discard, Unlink, End, Goto
    <2>2. CopyOf(Home[t])' = "none"
      BY <2>1 DEF CopyOf, Present, Stored
    <2> QED
      BY <1>2, <2>1, <2>2, PhaseFacts, Permitted DEF Terminal
  <1> QED
    BY <1>1, <1>4, <1>5, <1>6, <1>7, <1>8, <1>9, StartRefines DEF Work

LEMMA FaultRefines ==
  ASSUME OneTaskPerHome, TypeInv, NEW t \in Tasks, Fault(t)
  PROVE  [D!Next]_Seen
  <1>1. pc \in [Tasks -> PCs] /\ OnlyMoves(t)
    BY StepsAreOwn DEF TypeInv, TypeOK
  <1>2. CASE StorageRaises(t)
    <2>1. /\ UNCHANGED disk /\ t \in Faulty /\ pc'[t] = "failed"
          /\ pc[t] \in {"open", "verifyOpen", "verify", "discard"}
      BY <1>1, <1>2 DEF StorageRaises, End, Goto
    <2> QED
      BY <1>1, <2>1, PhaseFacts, Permitted DEF Early, Terminal
  <1>3. CASE WriteFails(t)
    <2>1. pc[t] = "write" /\ pc'[t] = "discard"
      BY <1>1, <1>3 DEF WriteFails, Goto
    <2> QED
      BY <1>1, <2>1, PhaseFacts, Permitted
  <1>4. CASE CloseFails(t)
    <2>1. t \in Faulty /\ pc[t] = "write" /\ pc'[t] = "failed"
      BY <1>1, <1>4 DEF CloseFails, End, Goto
    <2> QED
      BY <1>1, <2>1, PhaseFacts, Permitted DEF Terminal
  <1>5. CASE Crash(t)
    <2>1. /\ MayCrash /\ UNCHANGED disk /\ pc'[t] = "crashed"
          /\ pc[t] \in Early \cup {"write", "verifyOpen", "verify", "discard"}
      BY <1>1, <1>5 DEF Crash, End, Goto, PCs, Early, Terminal
    <2> QED
      BY <1>1, <2>1, PhaseFacts, Permitted DEF Terminal
  <1> QED
    BY <1>2, <1>3, <1>4, <1>5 DEF Fault

LEMMA StepRefines ==
  ASSUME OneTaskPerHome, IInv, IInv', [Next]_vars
  PROVE  [D!Next]_Seen
  <1>1. TypeInv
    BY IInvTypes
  <1>2. ASSUME NEW t \in Tasks, Start(t) \/ Work(t) \/ Fault(t) PROVE [D!Next]_Seen
    BY <1>1, <1>2, StartRefines, WorkRefines, FaultRefines
  <1>3. ASSUME NEW t \in Tasks, NEW a \in Agents,
               Handshake(t, a) \/ Serve(t, a) \/ FetchFails(t, a)
        PROVE  [D!Next]_Seen
    <2>1. UNCHANGED << disk, pc >>
      BY <1>3 DEF Handshake, AnswerHandshake, LoseHandshake, Serve, ServeFind, ServeSize,
           ServeOpen, ServeRead, FetchFails, UnchangedByServer
    <2> QED
      BY <2>1, StaysPut DEF Seen
  <1>4. CASE UNCHANGED vars
    BY <1>4, StaysPut DEF vars, Seen
  <1> QED
    BY <1>2, <1>3, <1>4 DEF Next

LEMMA InitRefines == Init => D!Init
  <1>1. ASSUME Init, NEW t \in Tasks PROVE PhaseOf(t) = "fetching"
    BY <1>1 DEF Init, PhaseOf
  <1> QED
    BY <1>1, CopyKinds DEF D!Init

(***************************************************************************)
(* Where no two tasks share a directory, the swarm keeps the promises of   *)
(* Delivery: whatever the peers, the ranges, the buffers and the faults,   *)
(* all that is ever seen of a task is that its copy is untouched until it  *)
(* stores, is the file when it reports success, and is gone when it reports *)
(* that the check failed.                                                  *)
(***************************************************************************)
THEOREM Refinement ==
  ASSUME OneTaskPerHome
  PROVE  Spec => ImplementsDelivery
  <1>1. IInv /\ IInv' /\ [Next]_vars =>
          [D!Next]_<< [t \in Tasks |-> PhaseOf(t)], [t \in Tasks |-> CopyOf(Home[t])] >>
    BY StepRefines DEF Seen
  <1>2. IInv /\ [Next]_vars => IInv'
    BY NextIInv
  <1> QED
    BY <1>1, <1>2, InitIInv, InitRefines, PTL DEF Spec, ImplementsDelivery, D!Spec
===============================================================================
