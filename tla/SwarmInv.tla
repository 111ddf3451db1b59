------------------------------- MODULE SwarmInv -------------------------------
(***************************************************************************)
(* Two inductive invariants of Swarm: IInv, behind VerifiedMeansStored, for *)
(* directories with at most one task each; and SharedInv, behind            *)
(* QuiescentClean and JointSuccessMeansStored, for directories that any     *)
(* number of tasks share.                                                   *)
(***************************************************************************)
EXTENDS Swarm

\* No two tasks share a directory.
OneTaskPerHome == \A t, u \in Tasks : Home[t] = Home[u] => t = u

\* No task is killed, and no disk operation of one raises.
NoFaults == Faulty = {} /\ MayCrash = FALSE

Mine(t) == inode[Home[t]][path[Home[t]]]

Span(c) == c.end - c.start + 1

\* A name and an open handle refer to a file that exists.
HandlesOK ==
  /\ \A a \in Agents : path[a] =< Len(inode[a])
  /\ \A t \in Tasks : pc[t] \in {"write", "verify"} => fd[t] \in 1 .. Len(inode[Home[t]])
  /\ \A t \in Tasks, a \in Agents :
       job[t][a].st = "reading" => job[t][a].fd \in 1 .. Len(inode[a])
  /\ \A t \in Tasks : pc[t] = "write" => nxt[t] >= 1

\* A transfer never carries more bytes than its range has.
JobFits(j) ==
  /\ j.st \in {"none", "sent", "found", "error"} => j.data = << >>
  /\ j.st \in {"sized", "reading", "ok"} => j.start =< j.end /\ Len(j.data) =< Span(j)
  /\ j.st = "sized" => j.data = << >>

JobsFit == \A t \in Tasks, a \in Agents : JobFits(job[t][a])

\* Nor do the chunks that are to be written: they lie one behind the other in the
\* file, each with at most the bytes of its place.
PartsFit(t) ==
  IF t \in SeedTasks
  THEN Len(parts[t]) = 1 /\ parts[t][1].data = File
  ELSE /\ Covers(parts[t], size[t])
       /\ \A i \in 1 .. Len(parts[t]) : Len(parts[t][i].data) =< Span(parts[t][i])

\* What has been written so far.
WrittenSoFar(t) ==
  /\ path[Home[t]] # 0
  /\ fd[t] = path[Home[t]]
  /\ pos[t] = Len(Mine(t))
  /\ nxt[t] \in 1 .. Len(parts[t]) + 1
  /\ IF t \in SeedTasks
     THEN Mine(t) \o pend[t] = IF nxt[t] = 1 THEN << >> ELSE File
     ELSE Len(Mine(t)) + Len(pend[t]) =<
            IF nxt[t] =< Len(parts[t]) THEN parts[t][nxt[t]].start ELSE size[t]

\* What is read back is a beginning of what is stored, which is no longer than the
\* part of it that is read.
ReadSoFar(t) ==
  /\ path[Home[t]] # 0
  /\ t \notin SeedTasks
  /\ Len(Mine(t)) =< size[t]
  /\ pc[t] = "verify" =>
       /\ fd[t] = path[Home[t]]
       /\ Len(buf[t]) =< Len(Mine(t))
       /\ buf[t] = SubSeq(Mine(t), 1, Len(buf[t]))

TaskInv(t) ==
  /\ pc[t] \in {"idle", "handshake", "fetch", "open"} =>
       fd[t] = 0 /\ pend[t] = << >> /\ pos[t] = 0 /\ nxt[t] = 0
  /\ pc[t] \notin {"verify"} => buf[t] = << >>
  /\ pc[t] \in {"handshake", "fetch"} => t \notin SeedTasks
  /\ pc[t] \in {"open", "write"} => PartsFit(t)
  /\ pc[t] = "write" => WrittenSoFar(t)
  /\ pc[t] \in {"verifyOpen", "verify"} => ReadSoFar(t)
  /\ pc[t] = "done" => path[Home[t]] # 0 /\ Mine(t) = File

IInv ==
  /\ TypeOK
  /\ HandlesOK
  /\ JobsFit
  /\ \A t \in Tasks : TaskInv(t)

-------------------------------------------------------------------------------
Early == {"idle", "handshake", "fetch", "open"}

Sharers(a) == {t \in Tasks : Home[t] = a}

\* What a task has flushed, what it holds back and what it has still to write lie
\* one behind the other, wherever other tasks have brought the file meanwhile.
WritesInOrder(t) ==
  /\ nxt[t] \in 1 .. Len(parts[t]) + 1
  /\ IF t \in SeedTasks
     THEN IF nxt[t] = 1 THEN pos[t] = 0 /\ pend[t] = << >>
          ELSE pos[t] =< Len(File) /\ pend[t] = SubSeq(File, pos[t] + 1, Len(File))
     ELSE pos[t] + Len(pend[t]) =<
            IF nxt[t] =< Len(parts[t]) THEN parts[t][nxt[t]].start ELSE size[t]

SharerInv(t) ==
  /\ pc[t] \in Early => pend[t] = << >> /\ pos[t] = 0
  /\ pc[t] \in {"handshake", "fetch", "verifyOpen", "verify"} => t \notin SeedTasks
  /\ pc[t] \in {"open", "write"} => PartsFit(t)
  /\ pc[t] = "write" => WritesInOrder(t)
  /\ IF pc[t] = "verify" THEN buf[t] = << >> \/ Len(buf[t]) < size[t] ELSE buf[t] = << >>

\* The 1-based offsets at which a content is not the file.
Wrong(c) ==
  {o \in DOMAIN c \cup DOMAIN File : o \in DOMAIN c /\ o \in DOMAIN File => c[o] # File[o]}

\* Does a verification that reads on to its end see what is wrong at an offset?  One
\* of the right size does not look behind the file.
Sees(t, o) == size[t] = Len(File) => o =< Len(File)

\* A task that has still to do with an offset of its directory's file: a seed that
\* will write it, a download that will read it back or has read something wrong
\* already, and one that is about to remove the file.
Answers(t, o) ==
  \/ /\ t \in SeedTasks
     /\ pc[t] = "write"
     /\ fd[t] = path[Home[t]]
     /\ o \in pos[t] + 1 .. Len(File)
  \/ /\ t \notin SeedTasks
     /\ pc[t] \in {"write", "verifyOpen"}
     /\ Sees(t, o)
  \/ /\ pc[t] = "verify"
     /\ fd[t] = path[Home[t]]
     /\ \/ o > Len(buf[t]) /\ Sees(t, o)
        \/ \E i \in DOMAIN buf[t] : i \in Wrong(buf[t])
  \/ pc[t] = "discard"

\* Nobody has come to write yet.
Untouched(a) ==
  << Stored(a) >> \in Copies[a] /\ \A t \in Sharers(a) : pc[t] \in Early \cup {"failed"}

\* Somebody answers for whatever is wrong in a directory ...
WrongIsAnswered(a) ==
  Present(a) =>
    Untouched(a) \/ \A o \in Wrong(Stored(a)) : \E t \in Sharers(a) : Answers(t, o)

\* ... and has failed where there is no file any more.
GoneHasCause(a) ==
  ~Present(a) =>
    (\E t \in Sharers(a) : pc[t] = "failed") \/ \A t \in Sharers(a) : pc[t] \in Early

SharedInv ==
  /\ TypeOK
  /\ HandlesOK
  /\ JobsFit
  /\ \A t \in Tasks : SharerInv(t)
  /\ \A a \in Agents : WrongIsAnswered(a) /\ GoneHasCause(a)
===============================================================================
