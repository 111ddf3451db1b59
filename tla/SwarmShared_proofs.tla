--------------------------- MODULE SwarmShared_proofs ---------------------------
(***************************************************************************)
(* What tasks that share directories leave in them, for any agents, tasks, *)
(* files, sizes, contents and losses on the network - where no task is     *)
(* killed and no disk operation raises.  SharedInv (module SwarmInv) is     *)
(* shown to be inductive, one lemma per action.                            *)
(***************************************************************************)
EXTENDS SwarmSuccess_proofs

LEMMA SharedTypes == SharedInv => TypeInv
  BY DEF SharedInv, TypeInv

-------------------------------------------------------------------------------
(***************************************************************************)
(* What a write makes wrong, and what it puts right.                       *)
(***************************************************************************)

LEMMA WrongOffsets ==
  ASSUME NEW c \in Seq(Byte), NEW o
  PROVE  o \in Wrong(c) <=>
           /\ o \in Nat \ {0} /\ (o =< Len(c) \/ o =< Len(File))
           /\ o =< Len(c) /\ o =< Len(File) => c[o] # File[o]
  <1>1. DOMAIN c = 1 .. Len(c) /\ DOMAIN File = 1 .. Len(File)
        /\ Len(c) \in Nat /\ Len(File) \in Nat
    BY SwarmAssumption, LenProperties
  <1> QED
    BY <1>1 DEF Wrong

LEMMA NothingWrong ==
  ASSUME NEW c \in Seq(Byte), Wrong(c) = {}
  PROVE  c = File
  <1>0. Len(c) \in Nat /\ Len(File) \in Nat /\ File \in Seq(Byte)
    BY SwarmAssumption, LenProperties
  <1>1. \A o \in Nat \ {0} :
          o =< Len(c) \/ o =< Len(File) => o =< Len(c) /\ o =< Len(File) /\ c[o] = File[o]
    BY WrongOffsets
  <1>2. Len(c) = Len(File)
    <2>1. Len(c) # 0 => Len(c) =< Len(File)
      BY <1>0, <1>1
    <2>2. Len(File) # 0 => Len(File) =< Len(c)
      BY <1>0, <1>1
    <2> QED
      BY <1>0, <2>1, <2>2
  <1>3. \A o \in 1 .. Len(c) : c[o] = File[o]
    BY <1>0, <1>1
  <1> QED
    BY <1>0, <1>2, <1>3, SeqEqual

\* A content after a write, byte by byte.
LEMMA Written ==
  ASSUME NEW c \in Seq(Byte), NEW p \in Nat, NEW b \in Seq(Byte), b # << >>
  PROVE  LET w == WriteAt(c, p, b)
         IN /\ w \in Seq(Byte)
            /\ Len(w) = Greatest(Len(c), p + Len(b))
            /\ \A o \in 1 .. Len(w) :
                 w[o] = IF o > p /\ o =< p + Len(b) THEN b[o - p]
                        ELSE IF o =< Len(c) THEN c[o] ELSE Zero
  <1> DEFINE n == Greatest(Len(c), p + Len(b))
             w == WriteAt(c, p, b)
  <1>1. Len(c) \in Nat /\ Len(b) \in Nat
    BY LenProperties
  <1>2. n \in Nat
    BY <1>1 DEF Greatest
  <1>3. w \in Seq(Byte)
    BY WriteAtFacts
  <1>4. w = [o \in 1 .. n |-> IF o > p /\ o =< p + Len(b) THEN b[o - p]
                              ELSE IF o =< Len(c) THEN c[o] ELSE Zero]
    BY DEF WriteAt
  <1>5. DOMAIN w = 1 .. n
    BY <1>4
  <1>6. Len(w) = n
    BY <1>2, <1>3, <1>5, LenProperties
  <1> QED
    BY <1>3, <1>4, <1>6

\* An offset that is wrong only after a write is one of those written, or lies
\* behind the file and before the end of what was written.
LEMMA NewlyWrong ==
  ASSUME NEW c \in Seq(Byte), NEW p \in Nat, NEW b \in Seq(Byte),
         NEW o \in Wrong(WriteAt(c, p, b)) \ Wrong(c)
  PROVE  o \in 1 .. p + Len(b) /\ (o =< Len(File) => o > p)
  <1>1. b # << >>
    BY DEF WriteAt
  <1> DEFINE w == WriteAt(c, p, b)
  <1>2. /\ w \in Seq(Byte)
        /\ Len(w) = Greatest(Len(c), p + Len(b))
        /\ \A i \in 1 .. Len(w) :
             w[i] = IF i > p /\ i =< p + Len(b) THEN b[i - p]
                    ELSE IF i =< Len(c) THEN c[i] ELSE Zero
    BY <1>1, Written
  <1>3. o \in Wrong(w) /\ o \notin Wrong(c)
    OBVIOUS
  <1> HIDE DEF w
  <1>4. Len(c) \in Nat /\ Len(b) \in Nat /\ Len(File) \in Nat
    BY SwarmAssumption, LenProperties
  <1>5. /\ o \in Nat \ {0} /\ (o =< Len(w) \/ o =< Len(File))
        /\ o =< Len(w) /\ o =< Len(File) => w[o] # File[o]
    BY <1>2, <1>3, WrongOffsets
  <1>6. o =< Len(c) \/ o =< Len(File) => o =< Len(c) /\ o =< Len(File) /\ c[o] = File[o]
    BY <1>3, <1>5, WrongOffsets
  <1>7. CASE o =< Len(File)
    BY <1>2, <1>4, <1>5, <1>6, <1>7 DEF Greatest
  <1>8. CASE ~(o =< Len(File))
    BY <1>2, <1>4, <1>5, <1>6, <1>8 DEF Greatest
  <1> QED
    BY <1>7, <1>8

\* Where the very bytes of the file are written, nothing is wrong afterwards.
LEMMA PutRight ==
  ASSUME NEW c \in Seq(Byte), NEW p \in Nat, NEW b \in Seq(Byte), p + Len(b) =< Len(File),
         \A i \in 1 .. Len(b) : b[i] = File[p + i],
         NEW o \in p + 1 .. p + Len(b)
  PROVE  o \notin Wrong(WriteAt(c, p, b))
  <1>0. Len(c) \in Nat /\ Len(b) \in Nat /\ Len(File) \in Nat
    BY SwarmAssumption, LenProperties
  <1>1. b # << >>
    BY <1>0, EmptySeq
  <1> DEFINE w == WriteAt(c, p, b)
  <1>2. /\ w \in Seq(Byte)
        /\ Len(w) = Greatest(Len(c), p + Len(b))
        /\ \A i \in 1 .. Len(w) :
             w[i] = IF i > p /\ i =< p + Len(b) THEN b[i - p]
                    ELSE IF i =< Len(c) THEN c[i] ELSE Zero
    BY <1>1, Written
  <1> HIDE DEF w
  <1>3. o \in 1 .. Len(w) /\ o =< Len(File)
    BY <1>0, <1>2 DEF Greatest
  <1>4. w[o] = b[o - p] /\ o - p \in 1 .. Len(b) /\ p + (o - p) = o
    BY <1>0, <1>2, <1>3
  <1>5. w[o] = File[o]
    BY <1>4
  <1> QED
    BY <1>2, <1>3, <1>5, WrongOffsets DEF w

-------------------------------------------------------------------------------
(***************************************************************************)
(* Steps that leave most of it alone.                                      *)
(***************************************************************************)

\* A task keeps its part of the invariant as long as its own variables stay.
LEMMA OtherSharers ==
  ASSUME NEW u \in Tasks, SharerInv(u),
         pc'[u] = pc[u], size'[u] = size[u], parts'[u] = parts[u],
         nxt'[u] = nxt[u], pos'[u] = pos[u], pend'[u] = pend[u], buf'[u] = buf[u]
  PROVE  SharerInv(u)'
  BY DEF SharerInv, PartsFit, WritesInOrder

LEMMA OthersAnswer ==
  ASSUME NEW u \in Tasks, NEW o,
         pc'[u] = pc[u], size'[u] = size[u], fd'[u] = fd[u], pos'[u] = pos[u],
         buf'[u] = buf[u], path'[Home[u]] = path[Home[u]]
  PROVE  Answers(u, o) <=> Answers(u, o)'
  BY DEF Answers, Sees, Wrong

\* A directory that nobody works in.
LEMMA OtherDirectories ==
  ASSUME NEW a \in Agents, WrongIsAnswered(a), GoneHasCause(a),
         inode'[a] = inode[a], path'[a] = path[a],
         \A u \in Sharers(a) :
           /\ pc'[u] = pc[u] /\ size'[u] = size[u] /\ fd'[u] = fd[u]
           /\ pos'[u] = pos[u] /\ buf'[u] = buf[u]
  PROVE  WrongIsAnswered(a)' /\ GoneHasCause(a)'
  <1>1. Sharers(a)' = Sharers(a) /\ Sharers(a) \subseteq Tasks
    BY DEF Sharers
  <1>2. Present(a)' = Present(a) /\ Stored(a)' = Stored(a) /\ Untouched(a)' = Untouched(a)
    BY <1>1 DEF Present, Stored, Untouched
  <1>3. \A u \in Sharers(a) : \A o : Answers(u, o) <=> Answers(u, o)'
    <2>1. \A u \in Sharers(a) : u \in Tasks /\ Home[u] = a
      BY DEF Sharers
    <2> QED
      BY <2>1, OthersAnswer
  <1>4. WrongIsAnswered(a)'
    BY <1>1, <1>2, <1>3 DEF WrongIsAnswered, Wrong
  <1>5. GoneHasCause(a)'
    BY <1>1, <1>2 DEF GoneHasCause
  <1> QED
    BY <1>4, <1>5

\* Nothing changes but what is on the network.
LEMMA OnlyNetMoves ==
  ASSUME SharedInv, TypeInv', JobsFit', UNCHANGED << disk, pc, size, file >>
  PROVE  SharedInv'
  <1>1. ASSUME NEW t \in Tasks PROVE SharerInv(t)'
    BY OtherSharers DEF SharedInv, file
  <1>2. ASSUME NEW a \in Agents PROVE WrongIsAnswered(a)' /\ GoneHasCause(a)'
    BY OtherDirectories DEF SharedInv, disk, file
  <1> QED
    BY <1>1, <1>2 DEF SharedInv, TypeInv

\* A step of one task changes its own variables and directory.
OwnStep(t) ==
  /\ \A u \in Tasks \ {t} :
       /\ pc'[u] = pc[u] /\ size'[u] = size[u] /\ parts'[u] = parts[u]
       /\ fd'[u] = fd[u] /\ nxt'[u] = nxt[u] /\ pos'[u] = pos[u]
       /\ pend'[u] = pend[u] /\ buf'[u] = buf[u]
  /\ \A a \in Agents \ {Home[t]} : inode'[a] = inode[a] /\ path'[a] = path[a]

LEMMA SharerMoves ==
  ASSUME SharedInv, TypeInv', JobsFit', NEW t \in Tasks, SharerInv(t)', OwnStep(t),
         WrongIsAnswered(Home[t])', GoneHasCause(Home[t])'
  PROVE  SharedInv'
  <1>1. ASSUME NEW u \in Tasks PROVE SharerInv(u)'
    BY OtherSharers DEF SharedInv, OwnStep
  <1>2. ASSUME NEW a \in Agents, a # Home[t] PROVE WrongIsAnswered(a)' /\ GoneHasCause(a)'
    <2>1. \A u \in Sharers(a) : u \in Tasks \ {t}
      BY <1>2 DEF Sharers
    <2> QED
      BY <1>2, <2>1, OtherDirectories DEF SharedInv, OwnStep
  <1> QED
    BY <1>1, <1>2 DEF SharedInv, TypeInv

\* A step that leaves the file where it is and as it is: it is enough that the task
\* answers on for what it answered for.
LEMMA SharerWorksOn ==
  ASSUME SharedInv, TypeInv', JobsFit', NEW t \in Tasks, SharerInv(t)', OwnStep(t),
         UNCHANGED disk,
         pc[t] \in Early \cup {"failed"} => pc'[t] \in Early \cup {"failed"},
         pc[t] = "failed" => pc'[t] = "failed",
         \A o \in Wrong(Stored(Home[t])) :
           Present(Home[t]) /\ Answers(t, o) => Answers(t, o)'
  PROVE  SharedInv'
  <1> DEFINE a == Home[t]
  <1>1. a \in Agents /\ Sharers(a)' = Sharers(a) /\ Sharers(a) \subseteq Tasks /\ t \in Sharers(a)
        /\ \A u \in Sharers(a) : Home[u] = a
    BY SwarmAssumption DEF Sharers
  <1>2. Present(a)' = Present(a) /\ Stored(a)' = Stored(a) /\ Wrong(Stored(a))' = Wrong(Stored(a))
    BY DEF disk, Present, Stored, Wrong
  <1>3. \A u \in Sharers(a) \ {t} : pc'[u] = pc[u]
    BY <1>1 DEF OwnStep
  <1>4. WrongIsAnswered(a) /\ GoneHasCause(a)
    BY <1>1 DEF SharedInv
  <1>5. Untouched(a) => Untouched(a)'
    BY <1>1, <1>2, <1>3 DEF Untouched
  <1>6. ASSUME Present(a), NEW o \in Wrong(Stored(a)), NEW u \in Sharers(a), Answers(u, o)
        PROVE  Answers(u, o)'
    <2>1. CASE u = t
      BY <1>6, <2>1
    <2>2. CASE u # t
      <3>1. u \in Tasks \ {t} /\ path'[Home[u]] = path[Home[u]]
        BY <1>1, <2>2 DEF disk
      <3> QED
        BY <1>6, <3>1, OthersAnswer DEF OwnStep
    <2> QED
      BY <2>1, <2>2
  <1>7. WrongIsAnswered(a)'
    BY <1>1, <1>2, <1>4, <1>5, <1>6 DEF WrongIsAnswered
  <1>8. GoneHasCause(a)'
    BY <1>1, <1>2, <1>3, <1>4 DEF GoneHasCause, Early
  <1> QED
    BY <1>7, <1>8, SharerMoves

-------------------------------------------------------------------------------
(***************************************************************************)
(* Starting, asking, fetching.                                             *)
(***************************************************************************)

LEMMA SharedStep ==
  ASSUME SharedInv, NEW t \in Tasks
  PROVE  TypeInv /\ JobsFit /\ SharerInv(t) /\ Home[t] \in Agents
  BY SharedTypes, SwarmAssumption DEF SharedInv

\* The end of a task that answers for nothing.
LEMMA SharerEnds ==
  ASSUME SharedInv, TypeInv', NEW t \in Tasks, NEW outcome \in {"done", "failed"},
         End(t, outcome), UNCHANGED disk,
         pc[t] \notin Terminal, pc[t] \in Early => outcome = "failed",
         \A o \in Wrong(Stored(Home[t])) : Present(Home[t]) => ~Answers(t, o)
  PROVE  SharedInv'
  <1>1. TypeInv /\ JobsFit /\ outcome \in Terminal
    BY SharedStep DEF Terminal
  <1>2. JobsFit'
    BY <1>1, EndFits
  <1>3. /\ pc'[t] = outcome /\ buf'[t] = << >>
        /\ OwnStep(t)
    BY <1>1 DEF End, Forget, Goto, TypeInv, TypeOK, OwnStep, disk
  <1>4. SharerInv(t)'
    BY <1>1, <1>3 DEF SharerInv, Early, Terminal
  <1> QED
    BY <1>2, <1>3, <1>4, SharerWorksOn DEF Early, Terminal

\* Tasks that have not come to write answer for nothing.
LEMMA EarlyAnswersNot ==
  ASSUME NEW t \in Tasks, pc[t] \in Early \cup {"failed"}, NEW o
  PROVE  ~Answers(t, o)
  BY DEF Answers, Early

LEMMA ServeKeepsShared ==
  ASSUME SharedInv, NEW t \in Tasks, NEW a \in Agents, Serve(t, a) \/ FetchFails(t, a)
  PROVE  SharedInv'
  <1>1. TypeInv /\ JobsFit /\ TypeInv'
    BY SharedStep, ServeTypes
  <1>2. /\ UnchangedByServer
        /\ \A b \in Agents : JobFits(job'[t][b])
        /\ \A u \in Tasks \ {t} : job'[u] = job[u]
    BY <1>1, ServeFits
  <1>3. JobsFit'
    BY <1>1, <1>2 DEF JobsFit, JobFits, Span
  <1> QED
    BY <1>1, <1>2, <1>3, OnlyNetMoves DEF UnchangedByServer

LEMMA HandshakeKeepsShared ==
  ASSUME SharedInv, NEW t \in Tasks, NEW a \in Agents, Handshake(t, a)
  PROVE  SharedInv'
  <1>1. TypeInv'
    BY SharedStep, HandshakeTypes
  <1>2. job' = job /\ UNCHANGED << disk, pc, size, file >>
    BY DEF Handshake, AnswerHandshake, LoseHandshake
  <1>3. JobsFit'
    BY <1>2 DEF SharedInv, JobsFit
  <1> QED
    BY <1>1, <1>2, <1>3, OnlyNetMoves

LEMMA StartKeepsShared ==
  ASSUME SharedInv, NEW t \in Tasks, Start(t)
  PROVE  SharedInv'
  <1>1. TypeInv /\ TypeInv' /\ SharerInv(t) /\ pc[t] = "idle"
    BY SharedStep, StartTypes DEF Start, StartDownload, StartSeed
  <1>2. job' = job /\ UNCHANGED disk
    BY DEF Start, StartDownload, StartSeed, net
  <1>3. JobsFit'
    BY <1>2 DEF SharedInv, JobsFit
  <1>4. OwnStep(t)
    BY <1>1 DEF Start, StartDownload, StartSeed, Goto, file, net, disk, TypeInv, TypeOK, OwnStep
  <1>5. pc'[t] \in Early \cup {"failed"} /\ SharerInv(t)'
    <2>1. CASE StartDownload(t)
      <3>1. pc'[t] \in {"failed", "handshake"} /\ t \notin SeedTasks /\ UNCHANGED file
        BY <1>1, <2>1 DEF StartDownload, Goto, TypeInv, TypeOK
      <3> QED
        BY <1>1, <3>1 DEF SharerInv, Early, file
    <2>2. CASE StartSeed(t)
      <3>1. /\ pc'[t] = "open" /\ t \in SeedTasks
            /\ parts'[t] = << [start |-> 0, end |-> Len(File) - 1, data |-> File] >>
            /\ UNCHANGED << fd, nxt, pos, pend, buf >>
        BY <1>1, <2>2 DEF StartSeed, Goto, TypeInv, TypeOK
      <3>2. PartsFit(t)'
        BY <3>1 DEF PartsFit
      <3> QED
        BY <1>1, <3>1, <3>2 DEF SharerInv, Early
    <2> QED
      BY <2>1, <2>2 DEF Start
  <1>6. pc[t] \in Early \cup {"failed"} /\ pc[t] # "failed"
    BY <1>1 DEF Early
  <1> QED
    BY <1>1, <1>2, <1>3, <1>4, <1>5, <1>6, EarlyAnswersNot, SharerWorksOn

LEMMA SendRequestsKeepsShared ==
  ASSUME SharedInv, NEW t \in Tasks, SendRequests(t)
  PROVE  SharedInv'
  <1>1. /\ TypeInv /\ TypeInv' /\ SharerInv(t) /\ JobsFit /\ pc[t] = "handshake"
        /\ UNCHANGED disk
    BY SharedStep, SendRequestsTypes DEF SendRequests
  <1>2. pc[t] \in Early /\ pc[t] \notin Terminal
    BY <1>1 DEF Early, Terminal
  <1>3. CASE End(t, "failed")
    BY <1>1, <1>2, <1>3, EarlyAnswersNot, SharerEnds
  <1>4. CASE Goto(t, "fetch") /\ JobsFit' /\ UNCHANGED << size, file >>
    <2>1. pc'[t] = "fetch" /\ OwnStep(t)
      BY <1>1, <1>4 DEF Goto, TypeInv, TypeOK, OwnStep, file, disk
    <2>2. SharerInv(t)'
      BY <1>1, <1>4, <2>1 DEF SharerInv, Early, file
    <2> QED
      BY <1>1, <1>2, <1>4, <2>1, <2>2, EarlyAnswersNot, SharerWorksOn DEF Early
  <1> QED
    BY <1>1, <1>3, <1>4, SendFits

LEMMA GatherKeepsShared ==
  ASSUME SharedInv, NEW t \in Tasks, Gather(t)
  PROVE  SharedInv'
  <1>1. /\ TypeInv /\ TypeInv' /\ SharerInv(t) /\ JobsFit /\ pc[t] = "fetch"
        /\ UNCHANGED disk
    BY SharedStep, GatherTypes DEF Gather
  <1>2. pc[t] \in Early /\ pc[t] \notin Terminal /\ t \notin SeedTasks
    BY <1>1 DEF Early, Terminal, SharerInv
  <1>3. CASE End(t, "failed")
    BY <1>1, <1>2, <1>3, EarlyAnswersNot, SharerEnds
  <1>4. CASE /\ Goto(t, "open") /\ PartsFit(t)' /\ JobsFit'
             /\ \A u \in Tasks \ {t} : parts'[u] = parts[u]
             /\ UNCHANGED << size, fd, nxt, pos, pend, buf >>
    <2>1. pc'[t] = "open" /\ OwnStep(t)
      BY <1>1, <1>4 DEF Goto, TypeInv, TypeOK, OwnStep, disk
    <2>2. SharerInv(t)'
      BY <1>1, <1>4, <2>1 DEF SharerInv, Early
    <2> QED
      BY <1>1, <1>2, <1>4, <2>1, <2>2, EarlyAnswersNot, SharerWorksOn DEF Early
  <1> QED
    BY <1>1, <1>2, <1>3, <1>4, GatherFits

-------------------------------------------------------------------------------
(***************************************************************************)
(* Writing.                                                                *)
(***************************************************************************)

\* Whoever opens the file to write it answers for all of it.
LEMMA OpenForWriteKeepsShared ==
  ASSUME SharedInv, NEW t \in Tasks, OpenForWrite(t)
  PROVE  SharedInv'
  <1> DEFINE a == Home[t]
  <1>1. TypeInv /\ TypeInv' /\ SharerInv(t) /\ pc[t] = "open" /\ a \in Agents
    BY SharedStep, OpenForWriteTypes DEF OpenForWrite
  <1>2. /\ path'[a] # 0 /\ fd'[t] = path'[a] /\ Mine(t)' = << >>
        /\ \A b \in Agents \ {a} : inode'[b] = inode[b] /\ path'[b] = path[b]
        /\ pc'[t] = "write" /\ nxt'[t] = 1 /\ job' = job
        /\ UNCHANGED << size, parts, pos, pend, buf >>
        /\ \A u \in Tasks \ {t} : pc'[u] = pc[u] /\ fd'[u] = fd[u] /\ nxt'[u] = nxt[u]
    BY <1>1, OpenFacts
  <1>3. PartsFit(t) /\ PartsFit(t)' /\ pos[t] = 0 /\ pend[t] = << >> /\ buf[t] = << >>
    BY <1>1, <1>2 DEF SharerInv, PartsFit, Early
  <1>4. WritesInOrder(t)'
    <2>1. Len(parts[t]) \in Nat
      BY <1>1, LenProperties DEF TypeInv, TypeOK
    <2>2. CASE t \in SeedTasks
      BY <1>2, <1>3, <2>1, <2>2 DEF WritesInOrder
    <2>3. CASE t \notin SeedTasks
      <3>1. parts[t] # << >> /\ parts[t][1].start = 0
        BY <1>3, <2>3 DEF PartsFit, Covers
      <3>2. Len(parts[t]) >= 1
        BY <1>1, <2>1, <3>1, EmptySeq DEF TypeInv, TypeOK
      <3> QED
        BY <1>2, <1>3, <2>1, <2>3, <3>1, <3>2 DEF WritesInOrder
    <2> QED
      BY <2>2, <2>3
  <1>5. SharerInv(t)'
    BY <1>2, <1>3, <1>4 DEF SharerInv, Early
  <1>6. JobsFit'
    BY <1>2 DEF SharedInv, JobsFit
  <1>7. OwnStep(t)
    BY <1>2 DEF OwnStep
  <1>8. WrongIsAnswered(a)'
    <2>1. ASSUME NEW o \in Wrong(<< >>)' PROVE Answers(t, o)'
      <3>1. o \in 1 .. Len(File) /\ Len(File) \in Nat
        BY SwarmAssumption, LenProperties DEF Wrong
      <3> QED
        BY <1>2, <1>3, <3>1 DEF Answers, Sees
    <2>2. Stored(a)' = << >> /\ t \in Sharers(a)'
      BY <1>2 DEF Stored, Mine, Sharers
    <2> QED
      BY <2>1, <2>2 DEF WrongIsAnswered
  <1>9. GoneHasCause(a)'
    BY <1>2 DEF GoneHasCause, Present
  <1> QED
    BY <1>1, <1>5, <1>6, <1>7, <1>8, <1>9, SharerMoves

\* The places of the chunks lie within the file.
LEMMA PartsEnd ==
  ASSUME TypeInv, NEW t \in Tasks, t \notin SeedTasks, PartsFit(t),
         NEW i \in 1 .. Len(parts[t])
  PROVE  parts[t][i].end + 1 =< size[t]
  <1> DEFINE n == Len(parts[t])
             End1(k) == parts[t][k].end + 1
             T == {k \in Nat : k < n /\ ~ (End1(n - k) =< size[t])}
  <1>1. n \in Nat /\ size[t] \in Nat /\ i \in 1 .. n
    BY LenProperties DEF TypeInv, TypeOK
  <1>2. ASSUME NEW k \in 1 .. n
        PROVE  /\ End1(k) \in Int /\ parts[t][k].start \in Nat
               /\ parts[t][k].start =< End1(k)
    <2>1. parts[t][k] \in Parts
      BY ElementOfSeq DEF TypeInv, TypeOK
    <2>2. /\ parts[t][k].start \in Nat /\ parts[t][k].end \in Int
          /\ Len(parts[t][k].data) \in Nat
      BY <2>1, LenProperties DEF Parts
    <2>3. Len(parts[t][k].data) =< parts[t][k].end - parts[t][k].start + 1
      BY DEF PartsFit, Span
    <2> QED
      BY <2>2, <2>3
  <1>3. End1(n) = size[t] /\ \A k \in 1 .. n - 1 : parts[t][k + 1].start = End1(k)
    BY DEF PartsFit, Covers
  <1> HIDE DEF End1, n
  <1>4. T = {}
    <2>1. SUFFICES ASSUME T # {} PROVE FALSE
      OBVIOUS
    <2>2. PICK m \in T : \A k \in T : m =< k
      <3>1. T \in SUBSET Nat
        OBVIOUS
      <3> HIDE DEF T
      <3> QED
        BY <2>1, <3>1, LeastElement
    <2>3. m \in Nat /\ m < n /\ ~ (End1(n - m) =< size[t]) /\ m # 0
      BY <1>1, <1>3, <2>2
    <2>4. m - 1 \in Nat /\ m - 1 \notin T
      BY <2>2, <2>3
    <2>5. End1(n - (m - 1)) =< size[t]
      BY <1>1, <2>3, <2>4
    <2>6. n - m \in 1 .. n - 1 /\ n - (m - 1) = (n - m) + 1 /\ (n - m) + 1 \in 1 .. n
          /\ n - m \in 1 .. n
      BY <1>1, <2>3
    <2>7. parts[t][(n - m) + 1].start = End1(n - m)
      BY <1>3, <2>6
    <2>8. End1(n - m) =< End1((n - m) + 1) /\ End1((n - m) + 1) =< size[t]
      BY <1>2, <2>5, <2>6, <2>7
    <2>9. End1(n - m) \in Int /\ End1((n - m) + 1) \in Int
      BY <1>2, <2>6
    <2> QED
      BY <1>1, <2>3, <2>8, <2>9
  <1>5. n - i \in Nat /\ n - i < n /\ n - (n - i) = i
    BY <1>1
  <1>6. End1(i) =< size[t]
    BY <1>4, <1>5
  <1> QED
    BY <1>6 DEF End1

\* What flushing leaves under the name, whichever file the name refers to.
LEMMA FlushStored ==
  ASSUME TypeInv, NEW t \in Tasks, fd[t] \in 1 .. Len(inode[Home[t]]),
         NEW bytes \in Seq(Byte), Flush(t, bytes), path' = path, Present(Home[t])
  PROVE  LET a == Home[t]
         IN /\ Present(a)' /\ Stored(a) \in Seq(Byte)
            /\ Stored(a)' = IF fd[t] = path[a] THEN WriteAt(Stored(a), pos[t], bytes)
                            ELSE Stored(a)
            /\ \A b \in Agents \ {a} : inode'[b] = inode[b] /\ path'[b] = path[b]
  <1> DEFINE a == Home[t]
  <1>1. a \in Agents /\ inode[a] \in Seq(Seq(Byte)) /\ Len(inode[a]) \in Nat
        /\ inode \in [Agents -> Seq(Seq(Byte))]
    BY SwarmAssumption, LenProperties DEF TypeInv, TypeOK
  <1>2. path[a] \in 1 .. Len(inode[a])
    BY <1>1 DEF TypeInv, TypeOK, HandlesOK, Present
  <1>3. Stored(a) \in Seq(Byte)
    BY <1>1, <1>2, ElementOfSeq DEF Stored
  <1>4. inode'[a] = [inode[a] EXCEPT ![fd[t]] = WriteAt(inode[a][fd[t]], pos[t], bytes)]
    BY <1>1 DEF Flush
  <1>5. DOMAIN inode[a] = 1 .. Len(inode[a])
    BY <1>1, LenProperties
  <1>6. inode'[a][path[a]] = IF fd[t] = path[a] THEN WriteAt(inode[a][path[a]], pos[t], bytes)
                             ELSE inode[a][path[a]]
    BY <1>2, <1>4, <1>5
  <1>7. \A b \in Agents \ {a} : inode'[b] = inode[b]
    BY FlushFacts
  <1> QED
    BY <1>3, <1>6, <1>7 DEF Stored, Present

\* Bytes get to the disk: a download that wrote them will read them back; those of a
\* seed are the file's own, and it answers for those that follow.
LEMMA FlushIsAnswered ==
  ASSUME SharedInv, NEW t \in Tasks, pc[t] = "write", NEW bytes \in Seq(Byte),
         Flush(t, bytes), path' = path, OwnStep(t), size'[t] = size[t],
         t \notin SeedTasks => /\ pos[t] + Len(bytes) =< size[t]
                               /\ pc'[t] \in {"write", "verifyOpen"},
         t \in SeedTasks =>
           /\ pos[t] + Len(bytes) =< Len(File)
           /\ \A i \in 1 .. Len(bytes) : bytes[i] = File[pos[t] + i]
           /\ pos[t] + Len(bytes) < Len(File) =>
                pc'[t] = "write" /\ fd'[t] = fd[t] /\ pos'[t] = pos[t] + Len(bytes)
  PROVE  WrongIsAnswered(Home[t])' /\ GoneHasCause(Home[t])'
  <1> DEFINE a == Home[t]
             new == WriteAt(Stored(a), pos[t], bytes)
  <1>1. /\ TypeInv /\ a \in Agents /\ pos[t] \in Nat /\ Len(bytes) \in Nat
        /\ Len(File) \in Nat /\ size[t] \in Nat /\ fd[t] \in 1 .. Len(inode[a])
        /\ WrongIsAnswered(a) /\ GoneHasCause(a)
    BY SharedStep, SwarmAssumption, LenProperties DEF TypeInv, TypeOK, SharedInv, HandlesOK
  <1>2. /\ Sharers(a)' = Sharers(a) /\ Sharers(a) \subseteq Tasks /\ t \in Sharers(a)
        /\ \A u \in Sharers(a) : Home[u] = a
        /\ \A u \in Sharers(a) \ {t} : pc'[u] = pc[u]
    BY DEF Sharers, OwnStep
  <1>3. GoneHasCause(a)'
    BY <1>1, <1>2 DEF GoneHasCause, Present, Early
  <1>4. SUFFICES ASSUME Present(a), NEW o \in Wrong(Stored(a)')
                 PROVE  \E u \in Sharers(a) : Answers(u, o)'
    BY <1>2, <1>3 DEF WrongIsAnswered, Present, Wrong
  <1>5. /\ Stored(a) \in Seq(Byte)
        /\ Stored(a)' = IF fd[t] = path[a] THEN new ELSE Stored(a)
    BY <1>1, <1>4, FlushStored
  <1>6. CASE o \notin Wrong(Stored(a))
    <2>1. fd[t] = path[a] /\ o \in Wrong(new) \ Wrong(Stored(a))
      BY <1>4, <1>5, <1>6
    <2>2. o \in 1 .. pos[t] + Len(bytes) /\ (o =< Len(File) => o > pos[t])
      BY <1>1, <1>5, <2>1, NewlyWrong
    <2>3. CASE t \notin SeedTasks
      <3>1. Sees(t, o)'
        BY <1>1, <2>2, <2>3 DEF Sees
      <3> QED
        BY <1>2, <2>3, <3>1 DEF Answers
    <2>4. CASE t \in SeedTasks
      <3>1. o \in pos[t] + 1 .. pos[t] + Len(bytes)
        BY <1>1, <2>2, <2>4
      <3> QED
        BY <1>1, <1>5, <2>1, <2>4, <3>1, PutRight
    <2> QED
      BY <2>3, <2>4
  <1>7. CASE o \in Wrong(Stored(a))
    <2>1. ~Untouched(a)
      BY <1>2 DEF Untouched, Early
    <2>2. PICK u \in Sharers(a) : Answers(u, o)
      BY <1>1, <1>4, <1>7, <2>1 DEF WrongIsAnswered
    <2>3. CASE u # t
      <3>1. u \in Tasks \ {t} /\ path'[Home[u]] = path[Home[u]]
        BY <1>2, <2>3
      <3> QED
        BY <2>2, <3>1, OthersAnswer DEF OwnStep
    <2>4. CASE u = t /\ t \notin SeedTasks
      <3>1. Sees(t, o)
        BY <2>2, <2>4 DEF Answers
      <3> QED
        BY <1>2, <2>4, <3>1 DEF Answers, Sees
    <2>5. CASE u = t /\ t \in SeedTasks
      <3>1. fd[t] = path[a] /\ o \in pos[t] + 1 .. Len(File)
        BY <2>2, <2>5 DEF Answers
      <3>2. o \notin pos[t] + 1 .. pos[t] + Len(bytes)
        BY <1>1, <1>4, <1>5, <2>5, <3>1, PutRight
      <3>3. pos[t] + Len(bytes) < Len(File) /\ o \in pos[t] + Len(bytes) + 1 .. Len(File)
        BY <1>1, <3>1, <3>2
      <3>4. pc'[t] = "write" /\ fd'[t] = path'[Home[t]] /\ o \in pos'[t] + 1 .. Len(File)
        BY <2>5, <3>1, <3>3
      <3> QED
        BY <1>2, <2>5, <3>4 DEF Answers
    <2> QED
      BY <2>3, <2>4, <2>5
  <1> QED
    BY <1>6, <1>7

\* What is held back and the next chunk, as they are cut in two by a flush.
LEMMA CutBytes ==
  ASSUME NEW s \in Seq(Byte), NEW k \in 0 .. Len(s)
  PROVE  /\ \A i \in 1 .. k : SubSeq(s, 1, k)[i] = s[i]
         /\ \A i \in 1 .. Len(s) - k : SubSeq(s, k + 1, Len(s))[i] = s[k + i]
  <1>1. Len(s) \in Nat /\ \A i \in 1 .. Len(s) : s[i] \in Byte
    BY LenProperties
  <1> QED
    BY <1>1, SubSeqProperties

LEMMA WriteChunkKeepsShared ==
  ASSUME SharedInv, NEW t \in Tasks, WriteChunk(t)
  PROVE  SharedInv'
  <1> DEFINE c == parts[t][nxt[t]]
             bytes == pend[t] \o c.data
  <1>1. TypeInv /\ TypeInv' /\ SharerInv(t) /\ pc[t] = "write"
    BY SharedStep, WriteChunkTypes DEF WriteChunk
  <1>2. WritesInOrder(t) /\ PartsFit(t) /\ buf[t] = << >>
    BY <1>1 DEF SharerInv
  <1>3. /\ nxt[t] \in 1 .. Len(parts[t]) /\ Len(parts[t]) \in Nat
        /\ pos[t] \in Nat /\ size[t] \in Nat /\ File \in Seq(Byte) /\ Len(File) \in Nat
    BY <1>1, SwarmAssumption, LenProperties DEF WriteChunk, TypeInv, TypeOK, HandlesOK
  <1>4. /\ c.data \in Seq(Byte) /\ Len(c.data) \in Nat
        /\ pend[t] \in Seq(Byte) /\ Len(pend[t]) \in Nat
        /\ bytes \in Seq(Byte) /\ Len(bytes) = Len(pend[t]) + Len(c.data)
        /\ c.start \in Nat /\ c.end \in Int
    <2>1. c \in Parts
      BY <1>1, <1>3, ElementOfSeq DEF TypeInv, TypeOK
    <2>2. c.data \in Seq(Byte) /\ pend[t] \in Seq(Byte) /\ c.start \in Nat /\ c.end \in Int
      BY <1>1, <2>1 DEF Parts, TypeInv, TypeOK
    <2> HIDE DEF c
    <2> QED
      BY <2>2, ConcatProperties, LenProperties
  <1>5. PICK k \in 0 .. Len(bytes) :
          /\ Flush(t, SubSeq(bytes, 1, k))
          /\ pos' = [pos EXCEPT ![t] = @ + k]
          /\ pend' = [pend EXCEPT ![t] = SubSeq(bytes, k + 1, Len(bytes))]
    BY DEF WriteChunk
  <1>6. /\ path' = path /\ pc' = pc /\ job' = job
        /\ UNCHANGED << size, parts, fd, buf >>
        /\ nxt' = [nxt EXCEPT ![t] = @ + 1]
    BY DEF WriteChunk, net
  <1> DEFINE l == SubSeq(bytes, 1, k)
             r == SubSeq(bytes, k + 1, Len(bytes))
  <1> HIDE DEF bytes, c
  <1>7. /\ l \in Seq(Byte) /\ Len(l) = k /\ r \in Seq(Byte) /\ Len(r) = Len(bytes) - k
        /\ \A i \in 1 .. k : l[i] = bytes[i]
    BY <1>4, CutAndJoin, CutBytes
  <1>8. /\ Flush(t, l) /\ pos'[t] = pos[t] + k /\ pend'[t] = r /\ nxt'[t] = nxt[t] + 1
    BY <1>1, <1>5, <1>6 DEF TypeInv, TypeOK
  <1> HIDE DEF l, r
  <1>9. OwnStep(t)
    <2>1. \A b \in Agents \ {Home[t]} : inode'[b] = inode[b] /\ path'[b] = path[b]
      BY <1>1, <1>6, <1>8 DEF Flush, TypeInv, TypeOK
    <2>2. \A u \in Tasks \ {t} : pos'[u] = pos[u] /\ pend'[u] = pend[u] /\ nxt'[u] = nxt[u]
      BY <1>1, <1>5, <1>6 DEF TypeInv, TypeOK
    <2> QED
      BY <1>6, <2>1, <2>2 DEF OwnStep
  <1>10. t \in SeedTasks => /\ pos[t] = 0 /\ bytes = File /\ nxt'[t] = 2 /\ Len(parts[t]) = 1
    <2>1. SUFFICES ASSUME t \in SeedTasks
                   PROVE  pos[t] = 0 /\ bytes = File /\ nxt'[t] = 2 /\ Len(parts[t]) = 1
      OBVIOUS
    <2>2. Len(parts[t]) = 1 /\ parts[t][1].data = File
      BY <1>2, <2>1 DEF PartsFit
    <2>3. nxt[t] = 1
      BY <1>3, <2>2
    <2>4. pos[t] = 0 /\ pend[t] = << >> /\ c.data = File
      BY <1>2, <2>1, <2>2, <2>3 DEF WritesInOrder, c
    <2>5. bytes = File
      BY <1>3, <2>4, ConcatEmptySeq DEF bytes
    <2> QED
      BY <1>8, <2>2, <2>3, <2>4, <2>5
  <1>11. t \notin SeedTasks => /\ (pos[t] + k) + Len(r) =< c.end + 1
                               /\ c.end + 1 =< size[t]
    <2>1. SUFFICES ASSUME t \notin SeedTasks
                   PROVE  (pos[t] + k) + Len(r) =< c.end + 1 /\ c.end + 1 =< size[t]
      OBVIOUS
    <2>2. pos[t] + Len(pend[t]) =< c.start
      BY <1>2, <1>3, <2>1 DEF WritesInOrder, c
    <2>3. Len(c.data) =< c.end - c.start + 1
      BY <1>2, <1>3, <2>1 DEF PartsFit, Span, c
    <2>4. c.end + 1 =< size[t]
      BY <1>1, <1>2, <1>3, <2>1, PartsEnd DEF c
    <2>5. k \in Nat /\ Len(r) = Len(pend[t]) + Len(c.data) - k
      BY <1>4, <1>5, <1>7
    <2>6. (pos[t] + k) + Len(r) =< c.end + 1
      BY <1>3, <1>4, <2>2, <2>3, <2>5, RestFits
    <2> QED
      BY <2>4, <2>6
  <1>12. WritesInOrder(t)'
    <2>1. nxt'[t] \in 1 .. Len(parts'[t]) + 1
      BY <1>3, <1>6, <1>8
    <2>2. CASE t \in SeedTasks
      <3>1. pos[t] = 0 /\ bytes = File /\ nxt'[t] = 2
        BY <1>10, <2>2
      <3>2. pos'[t] = k /\ k =< Len(File)
        BY <1>5, <1>8, <3>1
      <3>3. r = SubSeq(File, k + 1, Len(File))
        BY <3>1 DEF r
      <3> QED
        BY <1>8, <2>1, <2>2, <3>1, <3>2, <3>3 DEF WritesInOrder
    <2>3. CASE t \notin SeedTasks
      <3>1. c.end + 1 = IF nxt[t] + 1 =< Len(parts[t]) THEN parts[t][nxt[t] + 1].start
                        ELSE size[t]
        <4>1. Covers(parts[t], size[t]) /\ nxt[t] \in Nat
          BY <1>2, <1>3, <2>3 DEF PartsFit
        <4>2. CASE nxt[t] + 1 =< Len(parts[t])
          BY <1>3, <4>1, <4>2 DEF Covers, c
        <4>3. CASE ~(nxt[t] + 1 =< Len(parts[t]))
          <5>1. nxt[t] = Len(parts[t])
            BY <1>3, <4>1, <4>3
          <5> QED
            BY <4>1, <4>3, <5>1 DEF Covers, c
        <4> QED
          BY <4>2, <4>3
      <3>2. pos'[t] + Len(pend'[t]) =< c.end + 1
        BY <1>8, <1>11, <2>3
      <3> QED
        BY <1>6, <1>8, <2>1, <2>3, <3>1, <3>2 DEF WritesInOrder
    <2> QED
      BY <2>2, <2>3
  <1>13. SharerInv(t)'
    <2>1. PartsFit(t)'
      BY <1>2, <1>6 DEF PartsFit
    <2> QED
      BY <1>1, <1>2, <1>6, <1>12, <2>1 DEF SharerInv, Early
  <1>14. JobsFit'
    BY <1>6 DEF SharedInv, JobsFit
  <1>15. WrongIsAnswered(Home[t])' /\ GoneHasCause(Home[t])'
    <2>1. k \in Nat /\ Len(r) \in Nat
      BY <1>4, <1>5, <1>7, LenProperties
    <2>2. t \notin SeedTasks => pos[t] + Len(l) =< size[t] /\ pc'[t] \in {"write", "verifyOpen"}
      <3>1. ASSUME t \notin SeedTasks PROVE pos[t] + k =< size[t]
        <4>1. (pos[t] + k) + Len(r) =< c.end + 1 /\ c.end + 1 =< size[t]
          BY <1>11, <3>1
        <4> QED
          BY <1>3, <1>4, <2>1, <4>1
      <3>2. pc'[t] = "write" /\ pos[t] + Len(l) = pos[t] + k
        BY <1>1, <1>6, <1>7
      <3> QED
        BY <3>1, <3>2
    <2>3. t \in SeedTasks => /\ pos[t] + Len(l) =< Len(File)
                             /\ \A i \in 1 .. Len(l) : l[i] = File[pos[t] + i]
      BY <1>3, <1>5, <1>7, <1>10
    <2>4. pc'[t] = "write" /\ fd'[t] = fd[t] /\ pos'[t] = pos[t] + Len(l) /\ size'[t] = size[t]
      BY <1>1, <1>6, <1>7, <1>8
    <2> QED
      BY <1>1, <1>6, <1>7, <1>8, <1>9, <2>2, <2>3, <2>4, FlushIsAnswered
  <1> QED
    BY <1>1, <1>9, <1>13, <1>14, <1>15, SharerMoves

LEMMA CloseFileKeepsShared ==
  ASSUME SharedInv, NEW t \in Tasks, CloseFile(t)
  PROVE  SharedInv'
  <1>1. TypeInv /\ TypeInv' /\ SharerInv(t) /\ pc[t] = "write"
    BY SharedStep, CloseFileTypes DEF CloseFile
  <1>2. /\ Flush(t, pend[t]) /\ Forget(t) /\ nxt[t] > Len(parts[t])
        /\ Goto(t, IF t \in SeedTasks THEN "done" ELSE "verifyOpen")
        /\ path' = path /\ UNCHANGED << size, net >>
    BY DEF CloseFile
  <1>3. WritesInOrder(t) /\ PartsFit(t)
    BY <1>1 DEF SharerInv
  <1>4. /\ Len(parts[t]) \in Nat /\ nxt[t] \in 1 .. Len(parts[t]) + 1
        /\ pend[t] \in Seq(Byte) /\ Len(pend[t]) \in Nat
        /\ pos[t] \in Nat /\ size[t] \in Nat /\ File \in Seq(Byte) /\ Len(File) \in Nat
    BY <1>1, <1>3, SwarmAssumption, LenProperties DEF TypeInv, TypeOK, WritesInOrder
  <1>5. nxt[t] = Len(parts[t]) + 1
    BY <1>2, <1>4
  <1>6. /\ pc'[t] = IF t \in SeedTasks THEN "done" ELSE "verifyOpen"
        /\ buf'[t] = << >> /\ size'[t] = size[t] /\ job' = job
    BY <1>1, <1>2 DEF Forget, Goto, net, TypeInv, TypeOK
  <1>7. OwnStep(t)
    BY <1>1, <1>2 DEF OwnStep, Flush, Forget, Goto, TypeInv, TypeOK
  <1>8. SharerInv(t)'
    BY <1>6 DEF SharerInv, Early
  <1>9. JobsFit'
    BY <1>6 DEF SharedInv, JobsFit
  <1>10. t \in SeedTasks => pos[t] =< Len(File) /\ pend[t] = SubSeq(File, pos[t] + 1, Len(File))
    <2>1. SUFFICES ASSUME t \in SeedTasks
                   PROVE  pos[t] =< Len(File) /\ pend[t] = SubSeq(File, pos[t] + 1, Len(File))
      OBVIOUS
    <2>2. nxt[t] # 1
      BY <1>3, <1>5, <2>1 DEF PartsFit
    <2> QED
      BY <1>3, <2>1, <2>2 DEF WritesInOrder
  <1>11. t \in SeedTasks => /\ pos[t] + Len(pend[t]) = Len(File)
                            /\ \A i \in 1 .. Len(pend[t]) : pend[t][i] = File[pos[t] + i]
    <2>1. SUFFICES ASSUME t \in SeedTasks
                   PROVE  /\ pos[t] + Len(pend[t]) = Len(File)
                          /\ \A i \in 1 .. Len(pend[t]) : pend[t][i] = File[pos[t] + i]
      OBVIOUS
    <2>2. Len(pend[t]) = Len(File) - pos[t]
          /\ \A i \in 1 .. Len(File) - pos[t] : pend[t][i] = File[pos[t] + i]
      <3>1. pos[t] \in 0 .. Len(File) /\ pend[t] = SubSeq(File, pos[t] + 1, Len(File))
        BY <1>4, <1>10, <2>1
      <3>2. Len(SubSeq(File, pos[t] + 1, Len(File))) = Len(File) - pos[t]
        BY <1>4, <3>1, CutAndJoin
      <3>3. \A i \in 1 .. Len(File) - pos[t] :
              SubSeq(File, pos[t] + 1, Len(File))[i] = File[pos[t] + i]
        BY <1>4, <3>1, CutBytes
      <3> QED
        BY <3>1, <3>2, <3>3, Zenon
    <2> QED
      BY <1>4, <2>2
  <1>12. t \notin SeedTasks => pos[t] + Len(pend[t]) =< size[t]
    BY <1>2, <1>3, <1>4 DEF WritesInOrder
  <1>13. WrongIsAnswered(Home[t])' /\ GoneHasCause(Home[t])'
    <2>1. t \in SeedTasks =>
            /\ pos[t] + Len(pend[t]) =< Len(File) /\ ~(pos[t] + Len(pend[t]) < Len(File))
            /\ \A i \in 1 .. Len(pend[t]) : pend[t][i] = File[pos[t] + i]
      BY <1>4, <1>11
    <2>2. t \notin SeedTasks =>
            pos[t] + Len(pend[t]) =< size[t] /\ pc'[t] \in {"write", "verifyOpen"}
      BY <1>6, <1>12
    <2> QED
      BY <1>1, <1>2, <1>4, <1>6, <1>7, <2>1, <2>2, FlushIsAnswered
  <1> QED
    BY <1>1, <1>7, <1>8, <1>9, <1>13, SharerMoves

-------------------------------------------------------------------------------
(***************************************************************************)
(* Reading back, and removing what was wrong.                              *)
(***************************************************************************)

LEMMA StoredType ==
  ASSUME TypeInv, NEW a \in Agents, Present(a)
  PROVE  Stored(a) \in Seq(Byte)
  <1>1. inode[a] \in Seq(Seq(Byte)) /\ Len(inode[a]) \in Nat
    BY LenProperties DEF TypeInv, TypeOK
  <1>2. path[a] \in 1 .. Len(inode[a])
    BY <1>1 DEF TypeInv, TypeOK, HandlesOK, Present
  <1> QED
    BY <1>1, <1>2, ElementOfSeq DEF Stored

LEMMA VerifyOpenKeepsShared ==
  ASSUME SharedInv, NEW t \in Tasks, VerifyOpen(t)
  PROVE  SharedInv'
  <1> DEFINE a == Home[t]
  <1>1. /\ TypeInv /\ TypeInv' /\ SharerInv(t) /\ pc[t] = "verifyOpen" /\ UNCHANGED disk
        /\ a \in Agents
    BY SharedStep, VerifyOpenTypes DEF VerifyOpen
  <1>2. t \notin SeedTasks /\ buf[t] = << >> /\ pc[t] \notin Terminal \cup Early \cup {"failed"}
    BY <1>1 DEF SharerInv, Early, Terminal
  <1>3. CASE ~Present(a)
    BY <1>1, <1>2, <1>3, SharerEnds DEF VerifyOpen
  <1>4. CASE Present(a)
    <2>1. /\ fd' = [fd EXCEPT ![t] = path[a]] /\ Goto(t, "verify")
          /\ UNCHANGED << size, net, parts, nxt, pos, pend, buf >>
      BY <1>4 DEF VerifyOpen
    <2>2. pc'[t] = "verify" /\ fd'[t] = path'[a] /\ OwnStep(t)
      BY <1>1, <2>1 DEF Goto, OwnStep, disk, TypeInv, TypeOK
    <2>3. SharerInv(t)'
      BY <1>2, <2>1, <2>2 DEF SharerInv, Early
    <2>4. JobsFit'
      BY <2>1 DEF net, SharedInv, JobsFit
    <2>5. ASSUME NEW o \in Wrong(Stored(a)), Answers(t, o) PROVE Answers(t, o)'
      <3>1. o > 0
        BY <1>1, <1>4, StoredType, WrongOffsets
      <3>2. Sees(t, o)'
        BY <1>1, <2>1, <2>5 DEF Answers, Sees
      <3>3. Len(buf'[t]) = 0
        BY <1>2, <2>1
      <3> QED
        BY <2>2, <3>1, <3>2, <3>3 DEF Answers
    <2> QED
      BY <1>1, <1>2, <2>2, <2>3, <2>4, <2>5, SharerWorksOn
  <1> QED
    BY <1>3, <1>4

\* One read of the first n bytes of a content after `got' of them: the bytes that
\* follow, and none only when all are read or there are no more.
LEMMA ReadMore ==
  ASSUME NEW c \in Seq(Byte), NEW n \in Nat, NEW got \in 0 .. n
  PROVE  LET chunk == NextRead(c, 0, n - 1, got)
         IN /\ chunk \in Seq(Byte) /\ Len(chunk) =< n - got
            /\ \A i \in 1 .. Len(chunk) : got + i =< Len(c) /\ chunk[i] = c[got + i]
            /\ chunk = << >> => n = got \/ Len(c) =< got
  <1> DEFINE k == Least(ReadSize, n - 1 - 0 + 1 - got)
             m == Least(0 + got + k, Len(c))
             chunk == NextRead(c, 0, n - 1, got)
  <1>0. Len(c) \in Nat /\ ReadSize \in Nat \ {0} /\ got \in Nat
    BY SwarmAssumption, LenProperties
  <1>1. k \in Nat /\ k =< n - got /\ (k = 0 => n = got)
    BY <1>0 DEF Least
  <1>2. chunk = SubSeq(c, 0 + got + 1, m)
    BY DEF NextRead, ReadAt
  <1> HIDE DEF k
  <1>3. /\ m \in Nat /\ m =< Len(c) /\ m =< got + k
        /\ (m =< got => k = 0 \/ Len(c) =< got)
    BY <1>0, <1>1 DEF Least
  <1> HIDE DEF m, chunk
  <1>4. chunk = SubSeq(c, got + 1, m)
    <2>1. 0 + got + 1 = got + 1
      BY <1>0
    <2> QED
      BY <1>2, <2>1, Zenon
  <1>5. \A i \in got + 1 .. m : c[i] \in Byte
    <2>1. \A i \in 1 .. Len(c) : c[i] \in Byte
      BY ElementOfSeq
    <2> QED
      BY <1>0, <1>3, <2>1
  <1>6. /\ chunk \in Seq(Byte)
        /\ Len(chunk) = IF got + 1 <= m THEN m - (got + 1) + 1 ELSE 0
        /\ \A i \in 1 .. m - (got + 1) + 1 : chunk[i] = c[got + 1 + i - 1]
    <2>1. got + 1 \in Int /\ m \in Int
      BY <1>0, <1>3
    <2> QED
      BY <1>4, <1>5, <2>1, SubSeqProperties
  <1>7. Len(chunk) =< n - got /\ Len(chunk) = IF got < m THEN m - got ELSE 0
    BY <1>0, <1>1, <1>3, <1>6
  <1>8. ASSUME NEW i \in 1 .. Len(chunk)
        PROVE  got + i =< Len(c) /\ chunk[i] = c[got + i]
    <2>1. got + i =< Len(c) /\ i \in 1 .. m - (got + 1) + 1 /\ got + 1 + i - 1 = got + i
      BY <1>0, <1>3, <1>7
    <2> QED
      BY <1>6, <2>1
  <1>9. chunk = << >> => n = got \/ Len(c) =< got
    <2>1. SUFFICES ASSUME chunk = << >> PROVE n = got \/ Len(c) =< got
      OBVIOUS
    <2>2. Len(chunk) = 0
      BY <2>1
    <2>3. m =< got
      BY <1>0, <1>3, <1>7, <2>2
    <2> QED
      BY <1>1, <1>3, <2>3
  <1> QED
    BY <1>6, <1>7, <1>8, <1>9 DEF chunk

LEMMA VerifyReadKeepsShared ==
  ASSUME SharedInv, NEW t \in Tasks, VerifyRead(t)
  PROVE  SharedInv'
  <1> DEFINE a == Home[t]
             c == inode[a][fd[t]]
             got == Len(buf[t])
             chunk == NextRead(c, 0, size[t] - 1, got)
             read == buf[t] \o chunk
  <1>1. /\ TypeInv /\ TypeInv' /\ SharerInv(t) /\ pc[t] = "verify" /\ UNCHANGED disk
        /\ a \in Agents
    BY SharedStep, VerifyReadTypes DEF VerifyRead
  <1>2. t \notin SeedTasks /\ pc[t] \notin Terminal \cup Early \cup {"failed"}
    BY <1>1 DEF SharerInv, Early, Terminal
  <1>3. /\ c \in Seq(Byte) /\ Len(c) \in Nat /\ size[t] \in Nat
        /\ buf[t] \in Seq(Byte) /\ got \in Nat /\ File \in Seq(Byte) /\ Len(File) \in Nat
    <2>1. c \in Seq(Byte)
      BY <1>1, ElementOfSeq DEF TypeInv, TypeOK, HandlesOK
    <2> QED
      BY <1>1, <2>1, SwarmAssumption, LenProperties DEF TypeInv, TypeOK
  <1>4. IF chunk # << >> /\ Len(read) < size[t]
        THEN /\ buf' = [buf EXCEPT ![t] = read]
             /\ UNCHANGED << pc, size, net, parts, fd, nxt, pos, pend >>
        ELSE IF read = File
        THEN End(t, "done")
        ELSE /\ Forget(t)
             /\ Goto(t, "discard")
             /\ UNCHANGED << size, net >>
    BY DEF VerifyRead
  <1>5. fd[t] = path[a] => c = Stored(a)
    BY DEF Stored
  <1> HIDE DEF c
  <1>6. got \in 0 .. size[t]
    <2>1. buf[t] = << >> => got = 0
      OBVIOUS
    <2> QED
      BY <1>1, <1>3, <2>1 DEF SharerInv
  <1>7. /\ chunk \in Seq(Byte) /\ Len(chunk) =< size[t] - got /\ Len(chunk) \in Nat
        /\ \A i \in 1 .. Len(chunk) : got + i =< Len(c) /\ chunk[i] = c[got + i]
        /\ chunk = << >> => size[t] = got \/ Len(c) =< got
    BY <1>3, <1>6, ReadMore, LenProperties
  <1> HIDE DEF chunk
  <1>8. /\ read \in Seq(Byte) /\ Len(read) = got + Len(chunk)
        /\ \A i \in 1 .. got : read[i] = buf[t][i]
        /\ \A i \in got + 1 .. Len(read) : i =< Len(c) /\ read[i] = c[i]
    <2>1. /\ read \in Seq(Byte) /\ Len(read) = got + Len(chunk)
          /\ \A i \in 1 .. got + Len(chunk) :
               read[i] = IF i <= got THEN buf[t][i] ELSE chunk[i - got]
      BY <1>3, <1>7, ConcatProperties
    <2> HIDE DEF read
    <2>2. ASSUME NEW i \in 1 .. got PROVE read[i] = buf[t][i]
      <3>1. i <= got /\ i \in 1 .. got + Len(chunk)
        BY <1>3, <1>7
      <3> QED
        BY <2>1, <3>1
    <2>3. ASSUME NEW i \in got + 1 .. Len(read) PROVE i =< Len(c) /\ read[i] = c[i]
      <3>1. i - got \in 1 .. Len(chunk) /\ got + (i - got) = i /\ ~(i <= got)
            /\ i \in 1 .. got + Len(chunk)
        BY <1>3, <1>7, <2>1
      <3> QED
        BY <1>7, <2>1, <3>1
    <2> QED
      BY <2>1, <2>2, <2>3
  <1> HIDE DEF read
  \* What t has read wrong, and what it reads wrong now, is wrong in what is read.
  <1>9. ASSUME NEW o \in Wrong(c), o > got, o =< Len(read) PROVE o \in Wrong(read)
    <2>1. o \in Nat \ {0} /\ (o =< Len(c) /\ o =< Len(File) => c[o] # File[o])
      BY <1>3, <1>9, WrongOffsets
    <2>2. o \in got + 1 .. Len(read) /\ o =< Len(c) /\ read[o] = c[o]
      BY <1>3, <1>7, <1>8, <1>9, <2>1
    <2> QED
      BY <1>8, <1>9, <2>1, <2>2, WrongOffsets
  <1>10. ASSUME NEW i \in DOMAIN buf[t], i \in Wrong(buf[t])
         PROVE  i \in Wrong(read) /\ i =< Len(read)
    <2>1. i \in 1 .. got /\ (i =< Len(File) => buf[t][i] # File[i])
      <3>1. i \in 1 .. got
        BY <1>3, <1>10, LenProperties
      <3> QED
        BY <1>3, <1>10, <3>1, WrongOffsets
    <2>2. i \in Nat \ {0} /\ i =< Len(read) /\ read[i] = buf[t][i]
      BY <1>3, <1>7, <1>8, <2>1
    <2> QED
      BY <1>8, <2>1, <2>2, WrongOffsets
  <1>11. \A i \in Wrong(read) : i =< Len(read) => i \in DOMAIN read
    BY <1>8, LenProperties, WrongOffsets
  <1>12. ASSUME NEW o, Answers(t, o)
         PROVE  /\ fd[t] = path[a] /\ c = Stored(a)
                /\ \/ o > got /\ Sees(t, o)
                   \/ \E i \in DOMAIN buf[t] : i \in Wrong(buf[t])
    BY <1>1, <1>5, <1>12 DEF Answers
  <1>13. CASE chunk # << >> /\ Len(read) < size[t]
    <2>1. /\ buf' = [buf EXCEPT ![t] = read]
          /\ UNCHANGED << pc, size, net, parts, fd, nxt, pos, pend >>
      BY <1>4, <1>13
    <2>2. buf'[t] = read /\ OwnStep(t)
      BY <1>1, <2>1 DEF OwnStep, disk, TypeInv, TypeOK
    <2>3. SharerInv(t)'
      BY <1>1, <1>2, <1>13, <2>1, <2>2 DEF SharerInv, Early
    <2>4. JobsFit'
      BY <2>1 DEF net, SharedInv, JobsFit
    <2>5. ASSUME NEW o \in Wrong(Stored(a)), Present(a), Answers(t, o) PROVE Answers(t, o)'
      <3>1. /\ fd'[t] = path'[a] /\ pc'[t] = "verify" /\ o \in Wrong(c)
            /\ Sees(t, o) => Sees(t, o)'
        BY <1>1, <1>12, <2>1, <2>5 DEF disk, Sees
      <3>2. CASE o > Len(read) /\ Sees(t, o)
        BY <2>2, <3>1, <3>2 DEF Answers
      <3>3. CASE \E i \in DOMAIN read : i \in Wrong(read)
        BY <2>2, <3>1, <3>3 DEF Answers, Wrong
      <3>4. o \in Nat
        BY <1>3, <3>1, WrongOffsets
      <3> QED
        BY <1>3, <1>7, <1>8, <1>9, <1>10, <1>11, <1>12, <2>5, <3>1, <3>2, <3>3, <3>4
    <2> QED
      BY <1>1, <1>2, <2>1, <2>2, <2>3, <2>4, <2>5, SharerWorksOn
  <1>14. CASE ~(chunk # << >> /\ Len(read) < size[t]) /\ read = File
    <2>1. End(t, "done")
      BY <1>4, <1>14
    <2>2. ASSUME NEW o \in Wrong(Stored(a)), Present(a), Answers(t, o) PROVE FALSE
      <3>1. \A i \in Wrong(read) : ~(i =< Len(read))
        BY <1>3, <1>14, WrongOffsets
      <3>2. o > got /\ Sees(t, o) /\ o \in Wrong(c)
        BY <1>10, <1>12, <2>2, <3>1
      <3>3. o \in Nat /\ (o =< Len(c) \/ o =< Len(File)) /\ ~(o =< Len(read))
        BY <1>3, <1>9, <3>1, <3>2, WrongOffsets
      <3>4. o > Len(File) /\ o =< Len(c) /\ Len(File) = got + Len(chunk) /\ size[t] # Len(File)
        BY <1>3, <1>8, <1>14, <3>2, <3>3 DEF Sees
      <3>5. CASE chunk = << >>
        <4>1. Len(chunk) = 0
          BY <3>5
        <4>2. size[t] # got
          BY <1>3, <3>4, <4>1
        <4>3. Len(c) =< got
          BY <1>7, <3>5, <4>2
        <4> QED
          BY <1>3, <3>2, <3>3, <3>4, <4>3
      <3>6. CASE chunk # << >>
        <4>1. Len(read) >= size[t]
          BY <1>3, <1>7, <1>8, <1>14, <3>6
        <4> QED
          BY <1>3, <1>7, <1>8, <3>4, <4>1
      <3> QED
        BY <3>5, <3>6
    <2> QED
      BY <1>1, <1>2, <2>1, <2>2, SharerEnds
  <1>15. CASE ~(chunk # << >> /\ Len(read) < size[t]) /\ read # File
    <2>1. Forget(t) /\ Goto(t, "discard") /\ UNCHANGED << size, net >>
      BY <1>4, <1>15
    <2>2. pc'[t] = "discard" /\ buf'[t] = << >> /\ OwnStep(t)
      BY <1>1, <2>1 DEF Forget, Goto, OwnStep, disk, TypeInv, TypeOK
    <2>3. SharerInv(t)'
      BY <2>2 DEF SharerInv, Early
    <2>4. JobsFit'
      BY <2>1 DEF net, SharedInv, JobsFit
    <2>5. \A o : Answers(t, o)'
      BY <2>2 DEF Answers
    <2> QED
      BY <1>1, <1>2, <2>2, <2>3, <2>4, <2>5, SharerWorksOn
  <1> QED
    BY <1>13, <1>14, <1>15

LEMMA DiscardKeepsShared ==
  ASSUME SharedInv, NEW t \in Tasks, Discard(t)
  PROVE  SharedInv'
  <1> DEFINE a == Home[t]
  <1>1. TypeInv /\ JobsFit /\ TypeInv' /\ a \in Agents /\ "failed" \in Terminal
    BY SharedStep, DiscardTypes DEF Terminal
  <1>2. JobsFit'
    BY <1>1, EndFits DEF Discard
  <1>3. /\ pc'[t] = "failed" /\ buf'[t] = << >> /\ path'[a] = 0
        /\ OwnStep(t)
    BY <1>1 DEF Discard, Unlink, End, Forget, Goto, TypeInv, TypeOK, OwnStep
  <1>4. SharerInv(t)'
    BY <1>3 DEF SharerInv, Early
  <1>5. WrongIsAnswered(a)'
    BY <1>3 DEF WrongIsAnswered, Present
  <1>6. GoneHasCause(a)'
    BY <1>3 DEF GoneHasCause, Sharers
  <1> QED
    BY <1>1, <1>2, <1>3, <1>4, <1>5, <1>6, SharerMoves

-------------------------------------------------------------------------------
(***************************************************************************)
(* The invariant, and what follows from it.                                *)
(***************************************************************************)

LEMMA InitShared ==
  Init => SharedInv
  <1> SUFFICES ASSUME Init PROVE SharedInv
    OBVIOUS
  <1>1. JobsFit
    BY NoJobFits DEF Init, JobsFit
  <1>2. ASSUME NEW t \in Tasks PROVE SharerInv(t) /\ pc[t] = "idle"
    BY DEF Init, SharerInv, Early
  <1>3. ASSUME NEW a \in Agents PROVE WrongIsAnswered(a) /\ GoneHasCause(a)
    <2>1. Sharers(a) \subseteq Tasks /\ \A t \in Sharers(a) : pc[t] \in Early
      BY <1>2 DEF Sharers, Early
    <2>2. /\ inode[a] \in Copies[a] /\ path[a] = Len(inode[a])
          /\ inode[a] \in Seq(Seq(Byte)) /\ Len(inode[a]) \in Nat /\ Len(inode[a]) =< 1
      <3>1. inode[a] \in Copies[a] /\ path[a] = Len(inode[a])
        BY DEF Init
      <3>2. inode[a] \in Seq(Seq(Byte)) /\ Len(inode[a]) =< 1
        BY <3>1, SwarmAssumption
      <3> QED
        BY <3>1, <3>2, LenProperties
    <2>3. ASSUME Present(a) PROVE << Stored(a) >> = inode[a]
      <3>1. path[a] = 1 /\ Len(inode[a]) = 1
        <4>1. path[a] # 0
          BY <2>3 DEF Present
        <4>2. path[a] \in Nat /\ path[a] =< 1
          BY <2>2, Zenon
        <4>3. path[a] = 1
          BY <4>1, <4>2
        <4> QED
          BY <2>2, <4>3, Zenon
      <3>2. Stored(a) = inode[a][1]
        BY <3>1 DEF Stored
      <3> QED
        BY <2>2, <3>1, <3>2
    <2>4. WrongIsAnswered(a)
      BY <2>1, <2>2, <2>3 DEF WrongIsAnswered, Untouched
    <2> QED
      BY <2>1, <2>4 DEF GoneHasCause
  <1> QED
    BY <1>1, <1>2, <1>3, InitTypes DEF SharedInv, TypeInv

LEMMA NextShared ==
  ASSUME NoFaults, SharedInv, [Next]_vars
  PROVE  SharedInv'
  <1>1. ASSUME NEW t \in Tasks, Work(t) PROVE SharedInv'
    BY <1>1, SendRequestsKeepsShared, GatherKeepsShared, OpenForWriteKeepsShared,
       WriteChunkKeepsShared, CloseFileKeepsShared, VerifyOpenKeepsShared,
       VerifyReadKeepsShared, DiscardKeepsShared DEF Work
  <1>2. ASSUME NEW t \in Tasks PROVE ~Fault(t)
    BY DEF NoFaults, Fault, StorageRaises, WriteFails, CloseFails, Crash
  <1>3. ASSUME NEW t \in Tasks, NEW a \in Agents,
               Handshake(t, a) \/ Serve(t, a) \/ FetchFails(t, a)
        PROVE  SharedInv'
    BY <1>3, HandshakeKeepsShared, ServeKeepsShared
  <1>4. CASE UNCHANGED vars
    <2>1. TypeInv'
      BY <1>4, SharedTypes, NextTypes
    <2>2. JobsFit' /\ UNCHANGED << disk, pc, size, file >>
      BY <1>4 DEF vars, net, SharedInv, JobsFit
    <2> QED
      BY <2>1, <2>2, OnlyNetMoves
  <1> QED
    BY <1>1, <1>2, <1>3, <1>4, StartKeepsShared DEF Next

\* Once nobody answers for a directory any more, nothing in it is wrong.
LEMMA NobodyAnswers ==
  ASSUME SharedInv, NEW a \in Agents, Present(a), ~Untouched(a),
         \A t \in Sharers(a) : pc[t] \in Terminal
  PROVE  Stored(a) = File
  <1>1. Sharers(a) \subseteq Tasks
    BY DEF Sharers
  <1>2. \A t \in Sharers(a) : \A o : ~Answers(t, o)
    BY <1>1 DEF Answers, Terminal
  <1>3. Wrong(Stored(a)) = {}
    BY <1>2 DEF SharedInv, WrongIsAnswered
  <1>4. Stored(a) \in Seq(Byte)
    BY SharedTypes, StoredType
  <1> QED
    BY <1>3, <1>4, NothingWrong

(***************************************************************************)
(* No two writers of a directory can leave a mixture of what they wrote, or *)
(* a copy that failed its check: once all its tasks have ended, it holds   *)
(* what it held before, the file, or nothing - for any number of tasks in  *)
(* a directory, in whichever order their steps come.                       *)
(***************************************************************************)
THEOREM SharedLeavesClean ==
  ASSUME NoFaults
  PROVE  Spec => []QuiescentClean
  <1>1. SharedInv => QuiescentClean
    <2> SUFFICES ASSUME SharedInv, \A t \in Tasks : pc[t] \in Terminal,
                        NEW a \in Agents, Present(a), ~Untouched(a)
                 PROVE  Stored(a) = File
      BY DEF QuiescentClean, Untouched
    <2>1. \A t \in Sharers(a) : pc[t] \in Terminal
      BY DEF Sharers
    <2> QED
      BY <2>1, NobodyAnswers
  <1>2. SharedInv /\ [Next]_vars => SharedInv'
    BY NextShared
  <1> QED
    BY <1>1, <1>2, InitShared, PTL DEF Spec

(***************************************************************************)
(* Tasks that share a directory and all report success leave the file in   *)
(* it: none of them can be told so by a copy that another then spoils.     *)
(***************************************************************************)
THEOREM JointSuccess ==
  ASSUME NoFaults
  PROVE  Spec => []JointSuccessMeansStored
  <1>1. SharedInv => JointSuccessMeansStored
    <2> SUFFICES ASSUME SharedInv, NEW a \in Agents, Sharers(a) # {},
                        \A t \in Sharers(a) : pc[t] = "done"
                 PROVE  Present(a) /\ Stored(a) = File
      BY DEF JointSuccessMeansStored, Sharers
    <2>1. Present(a)
      BY DEF SharedInv, GoneHasCause, Early
    <2>2. ~Untouched(a)
      BY DEF Untouched, Early
    <2> QED
      BY <2>1, <2>2, NobodyAnswers DEF Terminal
  <1>2. SharedInv /\ [Next]_vars => SharedInv'
    BY NextShared
  <1> QED
    BY <1>1, <1>2, InitShared, PTL DEF Spec

\* What both rest on.
THEOREM SharedInvariant ==
  ASSUME NoFaults
  PROVE  Spec => []SharedInv
  <1>1. SharedInv /\ [Next]_vars => SharedInv'
    BY NextShared
  <1> QED
    BY <1>1, InitShared, PTL DEF Spec
===============================================================================
