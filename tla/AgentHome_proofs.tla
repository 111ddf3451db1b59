---------------------------- MODULE AgentHome_proofs ----------------------------
(***************************************************************************)
(* The processes that share an agent's home.  Of their Drive folder and     *)
(* manifest (module DriveStore), for any number of them: type correctness,  *)
(* what becomes of wrong bytes, when a manifest can be trusted, and that    *)
(* the backend implements Delivery.  Of the key file (module KeyFile): when *)
(* the identity is settled.  And that processes that go through both behave *)
(* as either part says.                                                     *)
(***************************************************************************)
EXTENDS AgentHome, FiniteSetTheorems, TLAPS

-------------------------------------------------------------------------------
(***************************************************************************)
(* Type correctness.                                                       *)
(***************************************************************************)

LEMMA LengthType ==
  ASSUME NEW map \in Maps
  PROVE  Length(map) \in Nat
BY FS_Subset, FS_CardinalityType, DriveAssumption DEF Length

LEMMA EmptyType == Empty \in Maps /\ Nobody \notin Writers
BY DriveAssumption DEF Empty, Maps, Writers

\* A process in the middle of an operation is a writer; only daemons serve.
RolesOK ==
  \A t \in Procs : IF t \in Daemons THEN pc[t] \in {"off", "serving"} \cup Over
                                    ELSE pc[t] # "serving"

TypeInv == TypeOK /\ RolesOK

LEMMA InitTypeInv == Init => TypeInv
<1> SUFFICES ASSUME Init PROVE TypeInv
  OBVIOUS
<1>1. manifest \in Files
  BY EmptyType, LengthType DEF Init, Whole, Files
<1> QED  BY <1>1, EmptyType DEF Init, TypeInv, TypeOK, RolesOK, PCs

LEMMA GotoType ==
  ASSUME TypeInv, NEW t \in Procs, NEW l \in PCs, NEW map \in Maps, Goto(t, l, map)
  PROVE  pc' \in [Procs -> PCs] /\ memory' \in [Procs -> Maps] /\ ended' \in [Procs -> PCs]
BY EmptyType DEF TypeInv, TypeOK, Goto

LEMMA BrokenType ==
  ASSUME NEW t \in Procs, NEW n \in Nat
  PROVE  Broken(n, t) \in Files
BY EmptyType DEF Broken, Files

LEMMA WholeType ==
  ASSUME NEW t \in Procs, NEW map \in Maps
  PROVE  Whole(map, t) \in Files
BY LengthType DEF Whole, Files

LEMMA WrittenType ==
  ASSUME TypeInv, NEW t \in Procs
  PROVE  Written(t) \in Files
<1>1. memory[t] \in Maps /\ manifest.length \in Nat
  BY DEF TypeInv, TypeOK, Files
<1> QED  BY <1>1, WholeType, BrokenType DEF Written

LEMMA CutShortType ==
  ASSUME TypeInv, NEW t \in Procs
  PROVE  CutShort(t) \subseteq Files
<1>1. manifest \in Files /\ manifest.length \in Nat /\ Length(memory[t]) \in Nat
  BY LengthType DEF TypeInv, TypeOK, Files
<1>2. ASSUME NEW n \in {manifest.length} \cup manifest.length .. Length(memory[t])
      PROVE  Broken(n, t) \in Files
  BY <1>1, BrokenType
<1> QED  BY <1>1, <1>2 DEF CutShort

LEMMA NextTypeInv == TypeInv /\ [Next]_vars => TypeInv'
<1> SUFFICES ASSUME TypeInv, [Next]_vars PROVE TypeInv'
  OBVIOUS
<1>0. CASE UNCHANGED vars
  BY <1>0 DEF vars, TypeInv, TypeOK, RolesOK
<1>1. ASSUME NEW t \in Procs, Load(t)
      PROVE  TypeInv'
  <2>1. manifest.map \in Maps
    BY DEF TypeInv, TypeOK, Files
  <2>2. PICK l \in {"raised", "serving", "folder", "fetching"} :
          /\ Goto(t, l, manifest.map)
          /\ IF t \in Daemons THEN l \in {"raised", "serving"} ELSE l # "serving"
    BY <1>1, Zenon DEF Load, Purpose
  <2>3. pc' \in [Procs -> PCs] /\ memory' \in [Procs -> Maps] /\ ended' \in [Procs -> PCs]
    BY <2>1, <2>2, GotoType DEF PCs, Over
  <2>4. RolesOK'
    BY <2>2 DEF Goto, TypeInv, TypeOK, RolesOK, Over
  <2> QED  BY <1>1, <2>3, <2>4 DEF Load, TypeInv, TypeOK
<1>2. ASSUME NEW t \in Procs, Work(t)
      PROVE  TypeInv'
  <2>m. memory[t] \in Maps
    BY DEF TypeInv, TypeOK
  <2>1. CASE Fetch(t)
    BY <2>1, <2>m, GotoType, EmptyType
       DEF Fetch, Go, Goto, TypeInv, TypeOK, RolesOK, PCs, Over
  <2>2. CASE FindFolder(t)
    BY <2>2, <2>m, GotoType, EmptyType
       DEF FindFolder, Go, Goto, TypeInv, TypeOK, RolesOK, PCs, Over
  <2>3. CASE MakeFolder(t)
    <3>1. pc' \in [Procs -> PCs] /\ memory' \in [Procs -> Maps] /\ ended' \in [Procs -> PCs]
      BY <2>3, <2>m, GotoType DEF MakeFolder, Go, PCs
    <3>2. RolesOK' /\ folders' \subseteq Writers
      BY <2>3 DEF MakeFolder, Go, Goto, TypeInv, TypeOK, RolesOK, Over, Writers
    <3> QED  BY <2>3, <3>1, <3>2 DEF MakeFolder, TypeInv, TypeOK
  <2>4. CASE Upload(t)
    <3>1. pc' \in [Procs -> PCs] /\ memory' \in [Procs -> Maps] /\ ended' \in [Procs -> PCs]
      BY <2>4, <2>m, GotoType DEF Upload, Go, PCs
    <3>2. RolesOK' /\ object' \in [Writers -> {"none", "file", "other"}]
      BY <2>4 DEF Upload, Uploads, Go, Goto, TypeInv, TypeOK, RolesOK, Over
    <3> QED  BY <2>4, <3>1, <3>2 DEF Upload, TypeInv, TypeOK
  <2>5. CASE Record(t)
    BY <2>5, <2>m, GotoType, EmptyType, BrokenType
       DEF Record, Rewrite, HashOf, Goto, TypeInv, TypeOK, RolesOK, PCs, Over, Saving, Maps, Writers
  <2>6. CASE Save(t)
    BY <2>6, <2>m, GotoType, EmptyType, WrittenType
       DEF Save, Go, Goto, TypeInv, TypeOK, RolesOK, PCs, Over, Saving
  <2>7. CASE Verify(t)
    BY <2>7, <2>m, GotoType, EmptyType
       DEF Verify, Go, Goto, TypeInv, TypeOK, RolesOK, PCs, Over
  <2>8. CASE Delete(t)
    BY <2>8, <2>m, GotoType, EmptyType
       DEF Delete, Go, Goto, TypeInv, TypeOK, RolesOK, PCs, Over
  <2>9. CASE Forget(t)
    BY <2>9, <2>m, GotoType, EmptyType, BrokenType
       DEF Forget, Rewrite, HashOf, Goto, TypeInv, TypeOK, RolesOK, PCs, Over, Saving, Maps, Writers
  <2>10. CASE Raises(t)
    <3>1. object' \in [Writers -> {"none", "file", "other"}] /\ folders' \subseteq Writers
      BY <2>10, DriveAssumption DEF Raises, Effect, Uploads, TypeInv, TypeOK
    <3> QED  BY <2>10, <3>1, <2>m, GotoType, EmptyType
                DEF Raises, Go, Goto, TypeInv, TypeOK, RolesOK, PCs, Over
  <2>11. CASE SaveRaises(t)
    BY <2>11, <2>m, GotoType, EmptyType, CutShortType
       DEF SaveRaises, Go, Goto, TypeInv, TypeOK, RolesOK, PCs, Over, Saving
  <2>12. CASE Stop(t)
    BY <2>12, <2>m, GotoType, EmptyType
       DEF Stop, Go, Goto, TypeInv, TypeOK, RolesOK, PCs, Over
  <2>13. CASE Crash(t)
    <3>1. manifest' \in Files
      BY <2>13, CutShortType DEF Crash, TypeInv, TypeOK
    <3> QED  BY <2>13, <3>1, <2>m, GotoType, EmptyType
                DEF Crash, Go, Goto, TypeInv, TypeOK, RolesOK, PCs, Over
  <2> QED  BY <1>2, <2>1, <2>2, <2>3, <2>4, <2>5, <2>6, <2>7, <2>8, <2>9, <2>10, <2>11, <2>12,
              <2>13 DEF Work, Store
<1> QED  BY <1>0, <1>1, <1>2 DEF Next

\* Every variable keeps its type, whoever overlaps, fails or is killed: manifests
\* map hashes to the ids of uploads and to nothing else
\* (agent/drive_adapter.py:54, 205).
THEOREM TypeCorrect == Spec => []TypeOK
<1>1. TypeInv => TypeOK
  BY DEF TypeInv
<1> QED  BY InitTypeInv, NextTypeInv, <1>1, PTL DEF Spec

-------------------------------------------------------------------------------
(***************************************************************************)
(* What a writer's upload is, at each point of its program.  A writer knows *)
(* its own upload by the hash of its file, so nothing that others do to the *)
(* manifest can make it look at, or delete, another one.                    *)
(***************************************************************************)

Fits(t) ==
  /\ pc[t] \in {"off", "fetching", "folder", "mkdir", "upload"} => object[t] = "none"
  /\ pc[t] \in {"record", "save", "verify"} => object[t] \in {"file", "other"}
  /\ pc[t] = "delete" => object[t] = "other"
  /\ pc[t] \in {"forget", "resave", "failed"} => object[t] = "none"
  /\ pc[t] = "done" => object[t] = "file"
  /\ pc[t] \in {"save", "verify", "delete", "forget"} => memory[t][HashOf(t)] = t
  /\ IsSeed(t) => object[t] # "other"
  /\ pc[t] = "resave" => ~IsSeed(t)
  /\ pc[t] \in {"fetching", "verify", "delete", "forget"} => ~IsSeed(t)

ContentInv == TypeInv /\ \A t \in Writers : Fits(t)

LEMMA InitContentInv == Init => ContentInv
<1> SUFFICES ASSUME Init, NEW t \in Writers PROVE Fits(t)
  BY InitTypeInv DEF ContentInv
<1>1. pc[t] = "off" /\ object[t] = "none"
  BY DEF Init, Writers
<1> QED  BY <1>1 DEF Fits

LEMMA WriterActs ==
  ASSUME TypeInv, NEW t \in Procs, pc[t] \notin {"off", "serving"} \cup Over
  PROVE  t \in Writers
BY DEF TypeInv, RolesOK, Writers

\* A step of t changes what belongs to t only.
LEMMA OwnStep ==
  ASSUME ContentInv, NEW t \in Procs, Load(t) \/ Work(t)
  PROVE  /\ cmd' = cmd
         /\ pc[t] \notin Over
         /\ \A u \in Procs \ {t} : pc'[u] = pc[u] /\ memory'[u] = memory[u] /\ ended'[u] = ended[u]
         /\ \A u \in Writers \ {t} : object'[u] = object[u]
<1>0. TypeOK /\ TypeInv
  BY DEF ContentInv, TypeInv
<1>1. CASE Load(t)
  BY <1>1, <1>0 DEF Load, Goto, TypeOK, Over
<1>2. CASE Fetch(t)
  BY <1>2, <1>0 DEF Fetch, Go, Goto, TypeOK, Over
<1>3. CASE FindFolder(t)
  BY <1>3, <1>0 DEF FindFolder, Go, Goto, TypeOK, Over
<1>4. CASE MakeFolder(t)
  BY <1>4, <1>0 DEF MakeFolder, Go, Goto, TypeOK, Over
<1>5. CASE Upload(t)
  BY <1>5, <1>0 DEF Upload, Go, Goto, TypeOK, Over
<1>6. CASE Record(t)
  BY <1>6, <1>0 DEF Record, Rewrite, Goto, TypeOK, Over
<1>7. CASE Save(t)
  BY <1>7, <1>0 DEF Save, Saving, Go, Goto, TypeOK, Over
<1>8. CASE Verify(t)
  BY <1>8, <1>0 DEF Verify, Go, Goto, TypeOK, Over
<1>9. CASE Delete(t)
  <2>1. pc[t] = "delete" => memory[t][HashOf(t)] = t
    BY <1>0, WriterActs DEF Over, ContentInv, Fits
  <2> QED  BY <1>9, <2>1, <1>0 DEF Delete, Go, Goto, TypeOK, Over
<1>10. CASE Forget(t)
  BY <1>10, <1>0 DEF Forget, Rewrite, Goto, TypeOK, Over
<1>11. CASE Raises(t)
  <2>1. pc[t] = "delete" => memory[t][HashOf(t)] = t
    BY <1>0, WriterActs DEF Over, ContentInv, Fits
  <2> QED  BY <1>11, <2>1, <1>0 DEF Raises, Effect, Go, Goto, TypeOK, Over
<1>12. CASE SaveRaises(t)
  BY <1>12, <1>0 DEF SaveRaises, Saving, Go, Goto, TypeOK, Over
<1>13. CASE Stop(t)
  BY <1>13, <1>0 DEF Stop, Go, Goto, TypeOK, Over
<1>14. CASE Crash(t)
  BY <1>14, <1>0 DEF Crash, Go, Goto, TypeOK, Over
<1> QED  BY <1>1, <1>2, <1>3, <1>4, <1>5, <1>6, <1>7, <1>8, <1>9, <1>10, <1>11, <1>12, <1>13,
            <1>14 DEF Work, Store

\* The step keeps what is said of t's own upload.
LEMMA OwnFits ==
  ASSUME ContentInv, NEW t \in Writers, Load(t) \/ Work(t)
  PROVE  Fits(t)'
<1>0. /\ TypeOK /\ Fits(t) /\ t \in Procs /\ t \notin Daemons /\ pc[t] # "serving"
      /\ cmd' = cmd
  BY OwnStep DEF ContentInv, TypeInv, RolesOK, Writers
<1>1. CASE Load(t)
  BY <1>1, <1>0 DEF Load, Purpose, Goto, TypeOK, Fits, IsSeed, HashOf, Over
<1>2. CASE Fetch(t)
  BY <1>2, <1>0 DEF Fetch, Go, Goto, TypeOK, Fits, IsSeed, HashOf, Over
<1>3. CASE FindFolder(t)
  BY <1>3, <1>0 DEF FindFolder, Go, Goto, TypeOK, Fits, IsSeed, HashOf, Over
<1>4. CASE MakeFolder(t)
  BY <1>4, <1>0 DEF MakeFolder, Go, Goto, TypeOK, Fits, IsSeed, HashOf, Over
<1>5. CASE Upload(t)
  BY <1>5, <1>0 DEF Upload, Uploads, Go, Goto, TypeOK, Fits, IsSeed, HashOf, Over
<1>6. CASE Record(t)
  <2>1. HashOf(t) \in Hashes /\ memory[t] \in Maps
    BY <1>0 DEF TypeOK, Commands, HashOf
  <2>2. memory'[t][HashOf(t)] = t /\ pc'[t] = "save"
    BY <1>6, <1>0, <2>1 DEF Record, Rewrite, Goto, TypeOK, Maps, Over
  <2> QED  BY <1>6, <1>0, <2>2 DEF Record, Fits, IsSeed, HashOf
<1>7. CASE Save(t)
  BY <1>7, <1>0 DEF Save, Saving, Go, Goto, TypeOK, Fits, IsSeed, HashOf, Over
<1>8. CASE Verify(t)
  BY <1>8, <1>0 DEF Verify, Go, Goto, TypeOK, Fits, IsSeed, HashOf, Over
<1>9. CASE Delete(t)
  BY <1>9, <1>0 DEF Delete, Go, Goto, TypeOK, Fits, IsSeed, HashOf, Over
<1>10. CASE Forget(t)
  BY <1>10, <1>0 DEF Forget, Rewrite, Goto, TypeOK, Fits, IsSeed, HashOf, Over
<1>11. CASE Raises(t)
  BY <1>11, <1>0 DEF Raises, Effect, Uploads, Go, Goto, TypeOK, Fits, IsSeed, HashOf, Over
<1>12. CASE SaveRaises(t)
  BY <1>12, <1>0 DEF SaveRaises, Saving, Go, Goto, TypeOK, Fits, IsSeed, HashOf, Over
<1>13. CASE Stop(t)
  BY <1>13, <1>0 DEF Stop, Go, Goto, TypeOK, Fits, IsSeed, HashOf, Over
<1>14. CASE Crash(t)
  BY <1>14, <1>0 DEF Crash, Go, Goto, TypeOK, Fits, IsSeed, HashOf, Over
<1> QED  BY <1>1, <1>2, <1>3, <1>4, <1>5, <1>6, <1>7, <1>8, <1>9, <1>10, <1>11, <1>12, <1>13,
            <1>14 DEF Work, Store

LEMMA NextContentInv == ContentInv /\ [Next]_vars => ContentInv'
<1> SUFFICES ASSUME ContentInv, [Next]_vars PROVE ContentInv'
  OBVIOUS
<1>1. TypeInv'
  BY NextTypeInv DEF ContentInv
<1>2. CASE UNCHANGED vars
  BY <1>1, <1>2 DEF vars, ContentInv, Fits, IsSeed, HashOf
<1>3. ASSUME NEW t \in Procs, Load(t) \/ Work(t), NEW u \in Writers
      PROVE  Fits(u)'
  <2>1. CASE u = t
    BY <1>3, <2>1, OwnFits
  <2>2. CASE u # t
    <3>1. /\ pc'[u] = pc[u] /\ memory'[u] = memory[u] /\ object'[u] = object[u] /\ cmd' = cmd
          /\ Fits(u)
      BY <1>3, <2>2, OwnStep DEF Writers, ContentInv
    <3> QED  BY <3>1 DEF Fits, IsSeed, HashOf
  <2> QED  BY <2>1, <2>2
<1> QED  BY <1>1, <1>2, <1>3 DEF Next, ContentInv

\* Wrong bytes stay on Drive only through a kill or a fault: whatever the other
\* processes do to the manifest and to their own uploads, a download that ends by
\* its own decision has deleted what failed its check (agent/downloader.py:360-363).
THEOREM WrongBytesGo == Spec => []WrongBytesHaveCause
<1>1. ContentInv => WrongBytesHaveCause
  <2> SUFFICES ASSUME ContentInv, NEW t \in Writers, object[t] = "other"
               PROVE  pc[t] \in {"record", "save", "verify", "delete", "raised", "crashed"}
    BY DEF WrongBytesHaveCause
  <2>1. Fits(t) /\ pc[t] \in PCs /\ pc[t] # "serving"
    BY DEF ContentInv, TypeInv, TypeOK, RolesOK, Writers
  <2> QED  BY <2>1 DEF Fits, PCs, Saving, Over
<1> QED  BY InitContentInv, NextContentInv, <1>1, PTL DEF Spec

-------------------------------------------------------------------------------
(***************************************************************************)
(* The backend implements Delivery.                                        *)
(***************************************************************************)

phaseBar == [t \in Writers |-> PhaseAt(pc[t])]

LEMMA WriterMove ==
  ASSUME TypeInv, NEW t \in Writers, NEW l, pc' = [pc EXCEPT ![t] = l],
         NEW kind, object' = [object EXCEPT ![t] = kind]
  PROVE  D!Move(t, PhaseAt(pc[t]), PhaseAt(l), kind)
<1>1. /\ pc \in [Procs -> PCs] /\ t \in Procs
      /\ \A u \in Writers : u \in Procs
  BY DEF TypeInv, TypeOK, Writers
<1>2. \A u \in Writers : pc'[u] = IF u = t THEN l ELSE pc[u]
  BY <1>1
<1>3. \A u \in Writers : PhaseAt(pc'[u]) = IF u = t THEN PhaseAt(l) ELSE PhaseAt(pc[u])
  BY <1>2
<1>4. phaseBar' = [phaseBar EXCEPT ![t] = PhaseAt(l)]
  BY <1>3 DEF phaseBar
<1> QED  BY <1>4 DEF D!Move, phaseBar

LEMMA WriterStutter ==
  ASSUME TypeInv, NEW t \in Procs, NEW l, pc' = [pc EXCEPT ![t] = l], object' = object,
         t \in Writers => PhaseAt(l) = PhaseAt(pc[t])
  PROVE  UNCHANGED << phaseBar, object >>
<1>1. pc \in [Procs -> PCs] /\ \A u \in Writers : u \in Procs
  BY DEF TypeInv, TypeOK, Writers
<1>2. \A u \in Writers : pc'[u] = IF u = t THEN l ELSE pc[u]
  BY <1>1
<1>3. \A u \in Writers : PhaseAt(pc'[u]) = PhaseAt(pc[u])
  BY <1>2
<1> QED  BY <1>3 DEF phaseBar

LEMMA WorkMaps ==
  ASSUME ContentInv, NEW t \in Writers, Load(t) \/ Work(t)
  PROVE  D!Next \/ UNCHANGED << phaseBar, object >>
<1>0. /\ TypeInv /\ TypeOK /\ Fits(t) /\ t \in Procs /\ t \notin Daemons
      /\ pc[t] # "serving"
  BY DEF ContentInv, TypeInv, RolesOK, Writers
<1>o. object = [object EXCEPT ![t] = object[t]] /\ object[t] \in D!Kinds
  BY <1>0 DEF TypeOK, D!Kinds
<1>a. ASSUME NEW l, pc' = [pc EXCEPT ![t] = l], object' = object,
             PhaseAt(pc[t]) = "fetching", PhaseAt(l) \in {"fetching", "storing", "failed"}
      PROVE  D!Next \/ UNCHANGED << phaseBar, object >>
  <2>1. D!Move(t, "fetching", PhaseAt(l), object[t])
    BY <1>a, <1>0, <1>o, WriterMove
  <2>2. PhaseAt(l) = "storing" => D!Store(t)
    BY <2>1, <1>o DEF D!Store
  <2>3. PhaseAt(l) = "failed" => D!GiveUp(t)
    BY <2>1 DEF D!GiveUp
  <2>4. PhaseAt(l) = "fetching" => UNCHANGED << phaseBar, object >>
    BY <1>a, <1>0, WriterStutter
  <2> QED  BY <1>a, <2>2, <2>3, <2>4 DEF D!Next
<1>b. ASSUME NEW l, pc' = [pc EXCEPT ![t] = l], NEW kind \in D!Kinds,
             object' = [object EXCEPT ![t] = kind],
             PhaseAt(pc[t]) = "storing",
             \/ PhaseAt(l) = "storing"
             \/ PhaseAt(l) = "done" /\ kind = "file"
             \/ PhaseAt(l) = "failed" /\ (kind = "none" \/ t \in Faulty)
      PROVE  D!Next
  <2>1. D!Move(t, "storing", PhaseAt(l), kind)
    BY <1>b, <1>0, WriterMove
  <2>2. PhaseAt(l) = "storing" => D!Store(t)
    BY <2>1, <1>b DEF D!Store
  <2>3. PhaseAt(l) = "done" /\ kind = "file" => D!Deliver(t)
    BY <2>1 DEF D!Deliver
  <2>4. PhaseAt(l) = "failed" /\ kind = "none" => D!Reject(t)
    BY <2>1 DEF D!Reject
  <2>5. PhaseAt(l) = "failed" /\ t \in Faulty => D!Spoil(t)
    BY <2>1, <1>b DEF D!Spoil
  <2> QED  BY <1>b, <2>2, <2>3, <2>4, <2>5 DEF D!Next
<1>1. CASE Load(t)
  <2>1. PICK l \in {"raised", "folder", "fetching"} : pc' = [pc EXCEPT ![t] = l]
    BY <1>1, <1>0, Zenon DEF Load, Purpose, Goto
  <2>2. PhaseAt(pc[t]) = "fetching" /\ PhaseAt(l) \in {"fetching", "failed"}
    BY <1>1, <2>1 DEF Load, PhaseAt
  <2> QED  BY <1>1, <1>a, <2>1, <2>2 DEF Load
<1>2. CASE Fetch(t)
  <2>1. PICK l \in {"folder", "failed"} : pc' = [pc EXCEPT ![t] = l]
    BY <1>2, Zenon DEF Fetch, Go, Goto
  <2>2. PhaseAt(pc[t]) = "fetching" /\ PhaseAt(l) \in {"fetching", "failed"}
    BY <1>2, <2>1 DEF Fetch, PhaseAt
  <2> QED  BY <1>2, <1>a, <2>1, <2>2 DEF Fetch
<1>3. CASE FindFolder(t)
  <2>1. PICK l \in {"mkdir", "upload"} : pc' = [pc EXCEPT ![t] = l]
    BY <1>3, Zenon DEF FindFolder, Go, Goto
  <2>2. PhaseAt(pc[t]) = "fetching" /\ PhaseAt(l) \in {"fetching", "storing"}
    BY <1>3, <2>1 DEF FindFolder, PhaseAt
  <2> QED  BY <1>3, <1>a, <2>1, <2>2 DEF FindFolder
<1>4. CASE MakeFolder(t)
  <2>1. PhaseAt(pc[t]) = "fetching" /\ PhaseAt("upload") = "storing"
    BY <1>4 DEF MakeFolder, PhaseAt
  <2> QED  BY <1>4, <1>a, <2>1 DEF MakeFolder, Go, Goto
<1>5. CASE Upload(t)
  <2>1. PICK kind \in D!Kinds : object' = [object EXCEPT ![t] = kind]
    BY <1>5 DEF Upload, Uploads, D!Kinds
  <2>2. PhaseAt(pc[t]) = "storing" /\ PhaseAt("record") = "storing"
    BY <1>5 DEF Upload, PhaseAt
  <2> QED  BY <1>5, <1>b, <2>1, <2>2 DEF Upload, Go, Goto
<1>6. CASE Record(t)
  <2>1. PhaseAt(pc[t]) = "storing" /\ PhaseAt("save") = "storing"
    BY <1>6 DEF Record, PhaseAt
  <2> QED  BY <1>6, <1>b, <1>o, <2>1 DEF Record, Rewrite, Goto
<1>7. CASE Save(t)
  <2>1. PICK l \in {"failed", "done", "verify"} :
          /\ pc' = [pc EXCEPT ![t] = l]
          /\ l = "failed" => pc[t] = "resave"
          /\ l = "done" => pc[t] = "save" /\ IsSeed(t)
    BY <1>7, Zenon DEF Save, Saving, Go, Goto
  <2>2. PhaseAt(pc[t]) = "storing"
    BY <1>7 DEF Save, Saving, PhaseAt
  <2>3. \/ PhaseAt(l) = "storing"
        \/ PhaseAt(l) = "done" /\ object[t] = "file"
        \/ PhaseAt(l) = "failed" /\ object[t] = "none"
    BY <2>1, <1>0 DEF PhaseAt, Fits
  <2> QED  BY <1>7, <1>b, <1>o, <2>1, <2>2, <2>3 DEF Save
<1>8. CASE Verify(t)
  <2>1. object[memory[t][HashOf(t)]] = object[t] /\ object[t] \in {"file", "other"}
    BY <1>8, <1>0 DEF Verify, Fits
  <2>2. PICK l \in {"done", "delete"} : pc' = [pc EXCEPT ![t] = l] /\ (l = "done" => object[t] = "file")
    BY <1>8, <2>1 DEF Verify, Go, Goto
  <2>3. PhaseAt(pc[t]) = "storing" /\ PhaseAt(l) = IF l = "done" THEN "done" ELSE "storing"
    BY <1>8, <2>2 DEF Verify, PhaseAt
  <2> QED  BY <1>8, <1>b, <1>o, <2>2, <2>3 DEF Verify
<1>9. CASE Delete(t)
  <2>1. object' = [object EXCEPT ![t] = "none"]
    BY <1>9, <1>0 DEF Delete, Fits
  <2>2. PhaseAt(pc[t]) = "storing" /\ PhaseAt("forget") = "storing"
    BY <1>9 DEF Delete, PhaseAt
  <2> QED  BY <1>9, <1>b, <2>1, <2>2 DEF Delete, Go, Goto, D!Kinds
<1>10. CASE Forget(t)
  <2>1. PhaseAt(pc[t]) = "storing" /\ PhaseAt("resave") = "storing"
    BY <1>10 DEF Forget, PhaseAt
  <2> QED  BY <1>10, <1>b, <1>o, <2>1 DEF Forget, Rewrite, Goto
<1>11. CASE Raises(t)
  <2>1. t \in Faulty /\ pc' = [pc EXCEPT ![t] = "raised"]
    BY <1>11 DEF Raises, Go, Goto
  <2>2. PhaseAt("raised") = "failed"
    BY DEF PhaseAt
  <2>3. CASE pc[t] \in {"folder", "mkdir"}
    <3>1. object' = object /\ PhaseAt(pc[t]) = "fetching"
      BY <1>11, <2>3 DEF Raises, Effect, PhaseAt
    <3> QED  BY <1>a, <2>1, <2>2, <3>1
  <2>4. CASE pc[t] \notin {"folder", "mkdir"}
    <3>1. PICK kind \in D!Kinds : object' = [object EXCEPT ![t] = kind]
      BY <1>11, <2>4, <1>o, <1>0 DEF Raises, Effect, Uploads, Fits, D!Kinds
    <3>2. PhaseAt(pc[t]) = "storing"
      BY <1>11, <2>4 DEF Raises, PhaseAt
    <3> QED  BY <1>b, <2>1, <2>2, <3>1, <3>2
  <2> QED  BY <2>3, <2>4
<1>12. CASE SaveRaises(t)
  <2>1. PhaseAt(pc[t]) = "storing" /\ PhaseAt("raised") = "failed"
    BY <1>12 DEF SaveRaises, Saving, PhaseAt
  <2> QED  BY <1>12, <1>b, <1>o, <2>1 DEF SaveRaises, Go, Goto
<1>13. CASE Stop(t)
  BY <1>13, <1>0 DEF Stop
<1>14. CASE Crash(t)
  <2>1. PhaseAt(pc[t]) \in {"fetching", "storing"} /\ PhaseAt("crashed") = "crashed"
    BY <1>14, <1>0 DEF Crash, Over, TypeOK, PCs, Saving, PhaseAt
  <2>2. D!Move(t, PhaseAt(pc[t]), "crashed", object[t])
    <3>1. pc' = [pc EXCEPT ![t] = "crashed"] /\ object' = [object EXCEPT ![t] = object[t]]
      BY <1>14, <1>o DEF Crash, Go, Goto
    <3> QED  BY <1>0, <2>1, <3>1, WriterMove
  <2>3. D!Die(t)
    BY <1>14, <2>1, <2>2 DEF Crash, D!Die
  <2> QED  BY <2>3 DEF D!Next
<1> QED  BY <1>1, <1>2, <1>3, <1>4, <1>5, <1>6, <1>7, <1>8, <1>9, <1>10, <1>11, <1>12, <1>13,
            <1>14 DEF Work, Store

LEMMA StepMaps == ContentInv /\ [Next]_vars => [D!Next]_<< phaseBar, object >>
<1> SUFFICES ASSUME ContentInv, [Next]_vars
             PROVE  D!Next \/ UNCHANGED << phaseBar, object >>
  OBVIOUS
<1>1. CASE UNCHANGED vars
  BY <1>1 DEF vars, phaseBar
<1>2. ASSUME NEW t \in Procs, Load(t) \/ Work(t)
      PROVE  D!Next \/ UNCHANGED << phaseBar, object >>
  <2>1. CASE t \in Writers
    BY <1>2, <2>1, WorkMaps
  <2>2. CASE t \notin Writers
    <3>1. /\ \A u \in Writers : pc'[u] = pc[u]
          /\ \A u \in Writers : object'[u] = object[u]
      BY <1>2, <2>2, OwnStep DEF Writers
    <3>2. TypeOK /\ TypeOK'
      BY NextContentInv DEF ContentInv, TypeInv
    <3>3. object' = object
      BY <3>1, <3>2 DEF TypeOK
    <3> QED  BY <3>1, <3>3 DEF phaseBar
  <2> QED  BY <2>1, <2>2
<1> QED  BY <1>1, <1>2 DEF Next

\* For the Drive file of one process the backend keeps the promise that the local
\* backend keeps for one directory, for any number of processes in any order: it is
\* there and right when its writer reports success, gone when its writer gave it
\* up, and nobody else touches it (agent/drive_adapter.py:183-313).
THEOREM Implements == Spec => ImplementsDelivery
<1>1. Init => D!Init
  BY DEF Init, D!Init, D!Kinds, PhaseAt, Writers
<1>2. ContentInv /\ [Next]_vars => [D!Next]_<< [t \in Writers |-> PhaseAt(pc[t])], object >>
  BY StepMaps DEF phaseBar
<1> QED  BY InitContentInv, NextContentInv, <1>1, <1>2, PTL DEF Spec, ImplementsDelivery, D!Spec

-------------------------------------------------------------------------------
(***************************************************************************)
(* Who overlapped whom, and what a step may do to the manifest.            *)
(***************************************************************************)

HistoryOK ==
  \A t, u \in Writers : u \in before[t] => pc[u] \in Over /\ t \notin before[u]

\* The kinds of steps, for the manifest and for t's own map of it.
Starts(t) ==
  /\ pc[t] = "off" /\ pc'[t] \notin Saving
  /\ manifest' = manifest
  /\ before' = [u \in Writers |->
                 IF u = t THEN {w \in Writers : pc[w] \in Over} ELSE before[u]]
  /\ IF pc'[t] \in Over THEN memory'[t] = Empty ELSE manifest.ok /\ memory'[t] = manifest.map
  /\ pc'[t] \notin {"record", "verify", "delete", "forget", "done", "failed"}

Quiet(t) ==
  /\ pc[t] \notin Saving /\ pc'[t] \notin Saving
  /\ manifest' = manifest
  /\ memory'[t] = IF pc'[t] \in Over THEN Empty ELSE memory[t]

Rewrites(t) ==
  /\ manifest' = Broken(0, t)
  /\ \/ /\ pc[t] = "record" /\ pc'[t] = "save"
        /\ memory'[t] = [memory[t] EXCEPT ![HashOf(t)] = t]
     \/ /\ pc[t] = "forget" /\ pc'[t] = "resave"
        /\ memory'[t] = [memory[t] EXCEPT ![HashOf(t)] = Nobody]

Saves(t) ==
  /\ pc[t] \in Saving /\ pc'[t] \notin Saving
  /\ manifest' = Written(t)
  /\ memory'[t] = IF pc'[t] \in Over THEN Empty ELSE memory[t]

Cuts(t) ==
  /\ pc[t] \in Saving /\ pc'[t] \in {"raised", "crashed"}
  /\ manifest' \in CutShort(t)
  /\ memory'[t] = Empty

LEMMA StepKinds ==
  ASSUME ContentInv, NEW t \in Procs, Load(t) \/ Work(t)
  PROVE  /\ pc'[t] # "off"
         /\ \/ Starts(t)
            \/ /\ pc[t] # "off"
               /\ before' = before
               /\ Quiet(t) \/ Rewrites(t) \/ Saves(t) \/ Cuts(t)
<1>0. TypeOK /\ TypeInv
  BY DEF ContentInv, TypeInv
<1>1. CASE Load(t)
  <2>1. PICK l : /\ Goto(t, l, manifest.map)
                 /\ l \in {"raised", "serving", "folder", "fetching"}
                 /\ manifest.ok \/ l = "raised"
    BY <1>1, Zenon DEF Load, Purpose
  <2>2. pc'[t] = l /\ memory'[t] = IF l \in Over THEN Empty ELSE manifest.map
    BY <2>1, <1>0 DEF Goto, TypeOK
  <2> QED  BY <1>1, <2>1, <2>2 DEF Load, Starts, Over, Saving
<1>2. CASE Fetch(t)
  BY <1>2, <1>0 DEF Fetch, Go, Goto, Quiet, TypeOK, Over, Saving
<1>3. CASE FindFolder(t)
  BY <1>3, <1>0 DEF FindFolder, Go, Goto, Quiet, TypeOK, Over, Saving
<1>4. CASE MakeFolder(t)
  BY <1>4, <1>0 DEF MakeFolder, Go, Goto, Quiet, TypeOK, Over, Saving
<1>5. CASE Upload(t)
  BY <1>5, <1>0 DEF Upload, Go, Goto, Quiet, TypeOK, Over, Saving
<1>6. CASE Record(t)
  BY <1>6, <1>0 DEF Record, Rewrite, Goto, Rewrites, TypeOK, Over, Saving
<1>7. CASE Save(t)
  BY <1>7, <1>0 DEF Save, Go, Goto, Saves, TypeOK, Over, Saving
<1>8. CASE Verify(t)
  BY <1>8, <1>0 DEF Verify, Go, Goto, Quiet, TypeOK, Over, Saving
<1>9. CASE Delete(t)
  BY <1>9, <1>0 DEF Delete, Go, Goto, Quiet, TypeOK, Over, Saving
<1>10. CASE Forget(t)
  BY <1>10, <1>0 DEF Forget, Rewrite, Goto, Rewrites, TypeOK, Over, Saving
<1>11. CASE Raises(t)
  BY <1>11, <1>0 DEF Raises, Go, Goto, Quiet, TypeOK, Over, Saving
<1>12. CASE SaveRaises(t)
  BY <1>12, <1>0 DEF SaveRaises, Go, Goto, Cuts, TypeOK, Over, Saving
<1>13. CASE Stop(t)
  BY <1>13, <1>0 DEF Stop, Go, Goto, Quiet, TypeOK, Over, Saving
<1>14. CASE Crash(t)
  BY <1>14, <1>0 DEF Crash, Go, Goto, Cuts, Quiet, TypeOK, Over, Saving
<1> QED  BY <1>1, <1>2, <1>3, <1>4, <1>5, <1>6, <1>7, <1>8, <1>9, <1>10, <1>11, <1>12, <1>13,
            <1>14 DEF Work, Store

LEMMA HistoryStep ==
  ASSUME ContentInv, HistoryOK, NEW t \in Procs, Load(t) \/ Work(t)
  PROVE  /\ HistoryOK'
         /\ \A u, w \in Writers : Overlap(u, w) => Overlap(u, w)'
<1>1. /\ pc[t] \notin Over /\ pc'[t] # "off"
      /\ \A u \in Writers \ {t} : pc'[u] = pc[u]
  BY OwnStep, StepKinds DEF Writers
<1>2. CASE Starts(t)
  <2>1. \A u \in Writers : before'[u] = IF u = t THEN {w \in Writers : pc[w] \in Over} ELSE before[u]
    BY <1>2 DEF Starts
  <2>2. pc[t] = "off" /\ \A u \in Writers : t \in Writers => t \notin before[u]
    BY <1>1, <1>2 DEF Starts, HistoryOK
  <2>3. HistoryOK'
    <3>1. ASSUME NEW v \in Writers, NEW u \in Writers, u \in before'[v]
          PROVE  u # t /\ pc[u] \in Over /\ v \notin before[u]
      <4>1. CASE v = t
        BY <1>1, <2>1, <2>2, <3>1, <4>1
      <4>2. CASE v # t
        <5>1. u \in before[v]
          BY <2>1, <3>1, <4>2
        <5> QED  BY <2>2, <5>1 DEF HistoryOK, Over
      <4> QED  BY <4>1, <4>2
    <3>2. ASSUME NEW v \in Writers, NEW u \in Writers, u \in before'[v]
          PROVE  pc'[u] \in Over /\ v \notin before'[u]
      BY <1>1, <2>1, <3>1, <3>2
    <3> QED  BY <3>2 DEF HistoryOK
  <2>4. \A u, w \in Writers : Overlap(u, w) => Overlap(u, w)'
    BY <1>1, <2>1, <2>2 DEF Overlap
  <2> QED  BY <2>3, <2>4
<1>3. CASE before' = before /\ pc[t] # "off"
  BY <1>1, <1>3 DEF HistoryOK, Overlap
<1> QED  BY <1>2, <1>3, StepKinds

\* Two writers that are both on their way overlap.
LEMMA BothActive ==
  ASSUME HistoryOK, NEW t \in Writers, NEW u \in Writers, t # u,
         pc[t] \notin Over \cup {"off"}, pc[u] \notin Over \cup {"off"}
  PROVE  Overlap(t, u)
BY DEF HistoryOK, Overlap

-------------------------------------------------------------------------------
(***************************************************************************)
(* Folders and broken manifests.                                           *)
(***************************************************************************)

FoldersInv ==
  /\ FoldersHaveCause
  /\ \A t \in Writers : pc[t] = "mkdir" => \A u \in folders : u # t => Overlap(t, u)

SavingInv ==
  \A t \in Writers : pc[t] \in Saving =>
    \/ ~manifest.ok /\ manifest.by = t /\ manifest.length = 0
    \/ \E u \in Writers : Overlap(t, u)

BrokenInv == BrokenHasCause /\ (~manifest.ok => manifest.by \in Writers)

CauseInv == ContentInv /\ HistoryOK /\ FoldersInv /\ SavingInv /\ BrokenInv

LEMMA InitCauseInv == Init => CauseInv
<1> SUFFICES ASSUME Init PROVE CauseInv
  OBVIOUS
<1>1. HistoryOK /\ FoldersInv
  BY DEF Init, HistoryOK, FoldersInv, FoldersHaveCause, Writers
<1>2. manifest.ok
  BY DEF Init, Whole
<1>3. SavingInv
  BY DEF Init, SavingInv, Saving, Writers
<1> QED  BY <1>1, <1>2, <1>3, InitContentInv DEF CauseInv, BrokenInv, BrokenHasCause

LEMMA FoldersStep ==
  ASSUME CauseInv, NEW t \in Procs, Load(t) \/ Work(t)
  PROVE  FoldersInv'
<1>0. /\ ContentInv /\ TypeInv /\ TypeOK /\ HistoryOK /\ HistoryOK' /\ FoldersInv
      /\ \A u, w \in Writers : Overlap(u, w) => Overlap(u, w)'
      /\ \A u \in Procs \ {t} : pc'[u] = pc[u]
      /\ folders \subseteq Writers
  BY OwnStep, HistoryStep DEF CauseInv, ContentInv, TypeInv, TypeOK
<1>1. /\ folders' = folders \/ (pc[t] = "mkdir" /\ folders' = folders \cup {t})
      /\ pc'[t] = "mkdir" => folders' = {}
  <2>1. CASE Load(t)
    BY <2>1, <1>0 DEF Load, Purpose, Goto, TypeOK
  <2>2. CASE Fetch(t)
    BY <2>2, <1>0 DEF Fetch, Go, Goto, TypeOK
  <2>3. CASE FindFolder(t)
    BY <2>3, <1>0 DEF FindFolder, Go, Goto, TypeOK
  <2>4. CASE MakeFolder(t)
    BY <2>4, <1>0 DEF MakeFolder, Go, Goto, TypeOK
  <2>5. CASE Upload(t)
    BY <2>5, <1>0 DEF Upload, Go, Goto, TypeOK
  <2>6. CASE Record(t)
    BY <2>6, <1>0 DEF Record, Rewrite, Saving, Goto, TypeOK
  <2>7. CASE Save(t)
    BY <2>7, <1>0 DEF Save, Go, Goto, TypeOK
  <2>8. CASE Verify(t)
    BY <2>8, <1>0 DEF Verify, Go, Goto, TypeOK
  <2>9. CASE Delete(t)
    BY <2>9, <1>0 DEF Delete, Go, Goto, TypeOK
  <2>10. CASE Forget(t)
    BY <2>10, <1>0 DEF Forget, Rewrite, Saving, Goto, TypeOK
  <2>11. CASE Raises(t)
    BY <2>11, <1>0 DEF Raises, Effect, Go, Goto, TypeOK
  <2>12. CASE SaveRaises(t)
    BY <2>12, <1>0 DEF SaveRaises, Go, Goto, TypeOK
  <2>13. CASE Stop(t)
    BY <2>13, <1>0 DEF Stop, Go, Goto, TypeOK
  <2>14. CASE Crash(t)
    BY <2>14, <1>0 DEF Crash, Go, Goto, TypeOK
  <2> QED  BY <2>1, <2>2, <2>3, <2>4, <2>5, <2>6, <2>7, <2>8, <2>9, <2>10, <2>11, <2>12, <2>13,
              <2>14 DEF Work, Store
<1>2. CASE folders' = folders
  BY <1>0, <1>1, <1>2 DEF FoldersInv, FoldersHaveCause, Writers
<1>3. CASE pc[t] = "mkdir" /\ folders' = folders \cup {t}
  <2>1. t \in Writers /\ pc[t] \notin Over \cup {"off"}
    BY <1>0, <1>3, WriterActs DEF Over
  <2>2. \A u \in folders : u # t => Overlap(t, u)' /\ Overlap(u, t)'
    BY <1>0, <1>3, <2>1 DEF FoldersInv, Overlap
  <2>3. \A u \in Writers : u # t /\ pc[u] = "mkdir" => Overlap(u, t)'
    BY <1>0, <2>1, BothActive DEF Over
  <2> QED  BY <1>0, <1>1, <1>3, <2>1, <2>2, <2>3 DEF FoldersInv, FoldersHaveCause, Writers
<1> QED  BY <1>1, <1>2, <1>3

LEMMA ManifestStep ==
  ASSUME CauseInv, NEW t \in Procs, Load(t) \/ Work(t)
  PROVE  SavingInv' /\ BrokenInv'
<1>0. /\ ContentInv /\ TypeInv /\ TypeOK /\ HistoryOK /\ SavingInv /\ BrokenInv
      /\ pc[t] \notin Over
      /\ \A u, w \in Writers : Overlap(u, w) => Overlap(u, w)'
      /\ \A u \in Procs \ {t} : pc'[u] = pc[u]
  BY OwnStep, HistoryStep DEF CauseInv, ContentInv, TypeInv
<1>1. CASE manifest' = manifest /\ pc[t] \notin Saving /\ pc'[t] \notin Saving
  BY <1>0, <1>1 DEF SavingInv, BrokenInv, BrokenHasCause, Writers, Over
<1>2. ASSUME pc[t] \in Saving \cup {"record", "forget"}
      PROVE  /\ t \in Writers
             /\ \A u \in Writers : u # t /\ pc[u] \in Saving => Overlap(u, t)'
  <2>1. t \in Writers /\ pc[t] \notin Over \cup {"off"}
    BY <1>0, <1>2, WriterActs DEF Saving, Over
  <2> QED  BY <1>0, <2>1, BothActive DEF Saving, Over
<1>3. CASE Rewrites(t)
  <2>1. ~manifest'.ok /\ manifest'.by = t /\ manifest'.length = 0 /\ pc'[t] \in Saving
    BY <1>3 DEF Rewrites, Broken, Saving
  <2>2. t \in Writers /\ \A u \in Writers : u # t /\ pc[u] \in Saving => Overlap(u, t)'
    BY <1>2, <1>3 DEF Rewrites
  <2> QED  BY <1>0, <2>1, <2>2 DEF SavingInv, BrokenInv, BrokenHasCause, Writers
<1>4. CASE Saves(t)
  <2>1. t \in Writers /\ \A u \in Writers : u # t /\ pc[u] \in Saving => Overlap(u, t)'
    BY <1>2, <1>4 DEF Saves
  <2>2. SavingInv'
    BY <1>0, <1>4, <2>1 DEF Saves, SavingInv, Writers
  <2>3. ASSUME ~manifest'.ok
        PROVE  manifest'.by = t /\ \E u \in Writers : Overlap(t, u)'
    <3>1. manifest' = Broken(manifest.length, t) /\ ~(Length(memory[t]) >= manifest.length)
      BY <1>4, <2>3 DEF Saves, Written, Whole
    <3>2. manifest.length # 0
      BY <3>1, <1>0, LengthType DEF TypeOK
    <3> QED  BY <1>0, <1>4, <2>1, <3>1, <3>2 DEF SavingInv, Saves, Broken
  <2> QED  BY <2>1, <2>2, <2>3 DEF BrokenInv, BrokenHasCause
<1>5. CASE Cuts(t)
  <2>1. t \in Writers /\ \A u \in Writers : u # t /\ pc[u] \in Saving => Overlap(u, t)'
    BY <1>2, <1>5 DEF Cuts
  <2>2. SavingInv'
    BY <1>0, <1>5, <2>1 DEF Cuts, SavingInv, Saving, Writers
  <2>3. manifest' = manifest \/ (~manifest'.ok /\ manifest'.by = t)
    <3>1. manifest' = manifest \/ \E n : manifest' = Broken(n, t)
      BY <1>5, Zenon DEF Cuts, CutShort
    <3> QED  BY <3>1 DEF Broken
  <2>4. pc'[t] \in {"raised", "crashed"}
    BY <1>5 DEF Cuts
  <2> QED  BY <1>0, <2>1, <2>2, <2>3, <2>4 DEF BrokenInv, BrokenHasCause, Writers
<1> QED  BY <1>0, <1>1, <1>3, <1>4, <1>5, StepKinds DEF Starts, Quiet, Saving

LEMMA NextCauseInv == CauseInv /\ [Next]_vars => CauseInv'
<1> SUFFICES ASSUME CauseInv, [Next]_vars PROVE CauseInv'
  OBVIOUS
<1>1. ContentInv'
  BY NextContentInv DEF CauseInv
<1>2. CASE UNCHANGED vars
  BY <1>1, <1>2 DEF vars, CauseInv, HistoryOK, FoldersInv, FoldersHaveCause, SavingInv, BrokenInv,
                    BrokenHasCause, Overlap
<1>3. ASSUME NEW t \in Procs, Load(t) \/ Work(t)
      PROVE  CauseInv'
  BY <1>1, <1>3, HistoryStep, FoldersStep, ManifestStep DEF CauseInv
<1> QED  BY <1>2, <1>3 DEF Next

\* Two folders of the name need two processes that overlapped, however many there
\* were and whatever failed (agent/drive_adapter.py:94-117).
THEOREM FoldersAreCaused == Spec => []FoldersHaveCause
<1>1. CauseInv => FoldersHaveCause
  BY DEF CauseInv, FoldersInv
<1> QED  BY InitCauseInv, NextCauseInv, <1>1, PTL DEF Spec

\* A manifest that nobody can load comes from a kill, from a fault, or from a writer
\* that overlapped another: never from processes that ran one after the other
\* (agent/drive_adapter.py:60-65).
THEOREM BreaksAreCaused == Spec => []BrokenHasCause
<1>1. CauseInv => BrokenHasCause
  BY DEF CauseInv, BrokenInv
<1> QED  BY InitCauseInv, NextCauseInv, <1>1, PTL DEF Spec

-------------------------------------------------------------------------------
(***************************************************************************)
(* What the manifest has of an undisturbed process.                        *)
(***************************************************************************)

Alone(t) == \A u \in Writers \ {t} : ~Overlap(t, u)

\* Nobody has heard of t's upload before t records it.
Unheard(t) ==
  pc[t] \in {"off", "fetching", "folder", "mkdir", "upload", "record"} =>
    \A h \in Hashes : manifest.map[h] # t /\ \A u \in Procs : memory[u][h] # t

\* A map has t's upload exactly if it is there, but for t's being stopped in between.
Agrees(map, t) ==
  IF pc[t] \in {"raised", "crashed"}
  THEN /\ map[HashOf(t)] # t /\ object[t] # "none" => ended[t] \in {"upload", "record"}
       /\ map[HashOf(t)] = t /\ object[t] = "none" => ended[t] \in {"delete", "forget"}
  ELSE map[HashOf(t)] = t <=> object[t] = "file"

Ours(t) ==
  /\ Unheard(t)
  /\ pc[t] = "resave" => memory[t][HashOf(t)] = Nobody
  /\ pc[t] \in {"verify", "delete", "forget"} /\ Alone(t) /\ manifest.ok =>
       manifest.map[HashOf(t)] = t
  /\ Undisturbed(t) =>
       /\ manifest.ok => Agrees(manifest.map, t)
       /\ \A u \in Writers \ {t} : pc[u] \notin Over \cup {"off"} => Agrees(memory[u], t)

AgreeInv == CauseInv /\ \A t \in Writers : Ours(t)

LEMMA InitAgreeInv == Init => AgreeInv
<1> SUFFICES ASSUME Init, NEW t \in Writers PROVE Ours(t)
  BY InitCauseInv DEF AgreeInv
<1>1. pc[t] = "off" /\ manifest.map = Empty /\ \A u \in Procs : memory[u] = Empty
  BY DEF Init, Whole, Writers
<1>2. Unheard(t)
  BY <1>1, EmptyType DEF Unheard, Empty
<1> QED  BY <1>1, <1>2 DEF Ours, Undisturbed, Over

\* Whoever writes the manifest writes a map of its own.
LEMMA MapsStep ==
  ASSUME CauseInv, NEW t \in Procs, Load(t) \/ Work(t)
  PROVE  manifest'.map \in {manifest.map, memory[t], Empty}
<1>1. CASE Saves(t)
  BY <1>1 DEF Saves, Written, Whole, Broken
<1>2. CASE Cuts(t)
  <2>1. manifest' = manifest \/ \E n : manifest' = Broken(n, t)
    BY <1>2, Zenon DEF Cuts, CutShort
  <2> QED  BY <2>1 DEF Broken
<1>3. CASE Rewrites(t)
  BY <1>3 DEF Rewrites, Broken
<1>4. CASE manifest' = manifest
  BY <1>4
<1> QED  BY <1>1, <1>2, <1>3, <1>4, StepKinds DEF CauseInv, Starts, Quiet

LEMMA UnheardStep ==
  ASSUME AgreeInv, NEW t \in Procs, Load(t) \/ Work(t), NEW u \in Writers
  PROVE  Unheard(u)'
<1> SUFFICES ASSUME pc'[u] \in {"off", "fetching", "folder", "mkdir", "upload", "record"},
                    NEW h \in Hashes
             PROVE  manifest'.map[h] # u /\ \A w \in Procs : memory'[w][h] # u
  BY DEF Unheard
<1>0. /\ CauseInv /\ ContentInv /\ TypeInv /\ TypeOK /\ Ours(u) /\ u \in Procs
      /\ \A w \in Procs \ {t} : pc'[w] = pc[w] /\ memory'[w] = memory[w]
  BY OwnStep DEF AgreeInv, CauseInv, ContentInv, TypeInv, Writers
<1>1. Empty[h] # u
  BY EmptyType DEF Empty
<1>2. /\ pc[u] \in {"off", "fetching", "folder", "mkdir", "upload", "record"}
      /\ u = t => ~Rewrites(t)
  <2>1. CASE u # t
    BY <1>0, <2>1
  <2>2. CASE u = t
    <3>1. pc[t] \in PCs /\ pc[t] # "serving" /\ ~Rewrites(t)
      BY <1>0, <2>2 DEF TypeInv, TypeOK, RolesOK, Writers, Rewrites, Saving
    <3>2. pc[t] \notin Over
      BY <1>0, OwnStep
    <3>3. ~(pc[t] \in {"verify", "delete", "forget", "save", "resave"})
      BY <2>2, <1>0 DEF Work, Store, Load, Fetch, FindFolder, MakeFolder, Upload, Record, Save, Verify,
            Delete, Forget, Raises, SaveRaises, Stop, Crash, Go, Goto, Rewrite, Saving, Over, TypeOK
    <3> QED  BY <2>2, <3>1, <3>2, <3>3 DEF PCs, Saving
  <2> QED  BY <2>1, <2>2
<1>3. manifest.map[h] # u /\ \A w \in Procs : memory[w][h] # u
  BY <1>0, <1>2 DEF Ours, Unheard
<1>4. manifest'.map[h] # u
  BY <1>0, <1>1, <1>3, MapsStep
<1>5. memory'[t][h] # u
  <2>1. CASE Rewrites(t)
    <3>1. u # t /\ u # Nobody /\ memory[t] \in Maps
      BY <1>0, <1>2, <2>1, EmptyType DEF TypeOK
    <3> QED  BY <1>3, <2>1, <3>1 DEF Rewrites, Maps
  <2>2. CASE ~Rewrites(t)
    BY <1>0, <1>1, <1>3, <2>2, StepKinds DEF Starts, Quiet, Saves, Cuts
  <2> QED  BY <2>1, <2>2
<1> QED  BY <1>0, <1>3, <1>4, <1>5

\* A step of another writer than the one that ended undisturbed.
LEMMA OthersAgree ==
  ASSUME AgreeInv, NEW t \in Procs, Load(t) \/ Work(t), NEW u \in Writers, u # t,
         Undisturbed(u)'
  PROVE  /\ manifest'.ok => Agrees(manifest.map, u)'
         /\ \A w \in Writers \ {u} : pc'[w] \notin Over \cup {"off"} => Agrees(memory[w], u)'
<1>0. /\ CauseInv /\ ContentInv /\ TypeInv /\ TypeOK /\ HistoryOK /\ Ours(u)
      /\ cmd' = cmd /\ object'[u] = object[u] /\ pc[t] \notin Over
      /\ pc'[u] = pc[u] /\ ended'[u] = ended[u]
      /\ \A w \in Procs \ {t} : pc'[w] = pc[w] /\ memory'[w] = memory[w]
      /\ \A v, w \in Writers : Overlap(v, w) => Overlap(v, w)'
      /\ u \in Procs
  BY OwnStep, HistoryStep DEF AgreeInv, CauseInv, ContentInv, TypeInv, Writers
<1>1. Undisturbed(u)
  <2>1. pc[u] \in Over
    BY <1>0 DEF Undisturbed
  <2>2. ASSUME NEW w \in Writers \ {u}, pc[w] # "off", HashOf(w) = HashOf(u)
        PROVE  w \in before[u]
    <3>1. pc'[w] # "off"
      BY <1>0, <2>2, StepKinds DEF Writers
    <3>2. w \in before'[u]
      BY <1>0, <2>2, <3>1 DEF Undisturbed, HashOf
    <3>3. before'[u] = before[u]
      BY <1>0, StepKinds DEF Starts, TypeOK
    <3> QED  BY <3>2, <3>3
  <2> QED  BY <1>0, <2>1, <2>2 DEF Undisturbed
<1>2. /\ manifest.ok => Agrees(manifest.map, u)
      /\ \A w \in Writers \ {u} : pc[w] \notin Over \cup {"off"} => Agrees(memory[w], u)
  BY <1>0, <1>1 DEF Ours
<1>3. ASSUME manifest'.ok
      PROVE  Agrees(manifest'.map, u)
  <2>1. CASE manifest' = manifest
    BY <1>2, <1>3, <2>1 DEF Agrees
  <2>2. CASE Rewrites(t)
    BY <1>3, <2>2 DEF Rewrites, Broken
  <2>3. CASE Saves(t)
    <3>1. t \in Writers /\ pc[t] \notin Over \cup {"off"}
      BY <1>0, <2>3, WriterActs DEF Saves, Saving, Over
    <3>2. manifest'.map = memory[t]
      BY <1>3, <2>3 DEF Saves, Written, Whole, Broken
    <3> QED  BY <1>2, <3>1, <3>2 DEF Agrees
  <2>4. CASE Cuts(t)
    <3>1. manifest' = manifest \/ \E n : manifest' = Broken(n, t)
      BY <2>4, Zenon DEF Cuts, CutShort
    <3>2. manifest' = manifest
      BY <1>3, <3>1 DEF Broken
    <3> QED  BY <2>1, <3>2
  <2> QED  BY <1>0, <2>1, <2>2, <2>3, <2>4, StepKinds DEF Starts, Quiet
<1>4. ASSUME NEW w \in Writers \ {u}, pc'[w] \notin Over \cup {"off"}
      PROVE  Agrees(memory'[w], u)
  <2>1. CASE w # t
    BY <1>0, <1>2, <1>4, <2>1 DEF Agrees, Writers
  <2>2. CASE w = t /\ Starts(t)
    BY <1>2, <1>4, <2>2 DEF Agrees, Starts
  <2>3. CASE w = t /\ Rewrites(t)
    <3>1. pc[t] \notin Over \cup {"off"}
      BY <2>3 DEF Rewrites, Over
    <3>2. HashOf(t) # HashOf(u)
      BY <1>0, <1>1, <1>4, <2>3, <3>1 DEF Undisturbed, HistoryOK
    <3>3. memory[t] \in Maps /\ HashOf(u) \in Hashes
      BY <1>0 DEF TypeOK, HashOf, Commands
    <3>4. memory'[t][HashOf(u)] = memory[t][HashOf(u)]
      BY <2>3, <3>2, <3>3 DEF Rewrites, Maps
    <3> QED  BY <1>2, <1>4, <2>3, <3>1, <3>4 DEF Agrees
  <2>4. CASE w = t /\ pc[t] # "off" /\ (Quiet(t) \/ Saves(t) \/ Cuts(t))
    <3>1. memory'[t] = memory[t]
      BY <1>4, <2>4 DEF Quiet, Saves, Cuts, Over
    <3> QED  BY <1>0, <1>2, <1>4, <2>4, <3>1 DEF Agrees
  <2> QED  BY <1>0, <2>1, <2>2, <2>3, <2>4, StepKinds
<1> QED  BY <1>0, <1>3, <1>4 DEF Agrees, HashOf

LEMMA AloneStays ==
  ASSUME CauseInv, NEW t \in Procs, Load(t) \/ Work(t), NEW u \in Writers, Alone(u)'
  PROVE  Alone(u)
BY HistoryStep DEF CauseInv, Alone

LEMMA OthersStep ==
  ASSUME AgreeInv, NEW t \in Procs, Load(t) \/ Work(t), NEW u \in Writers, u # t
  PROVE  Ours(u)'
<1>0. /\ CauseInv /\ ContentInv /\ TypeInv /\ HistoryOK /\ Ours(u)
      /\ cmd' = cmd /\ pc'[u] = pc[u] /\ memory'[u] = memory[u]
      /\ pc[t] \notin Over
      /\ \A v, w \in Writers : Overlap(v, w) => Overlap(v, w)'
  BY OwnStep, HistoryStep DEF AgreeInv, CauseInv, ContentInv, Writers
<1>1. pc'[u] = "resave" => memory'[u][HashOf(u)'] = Nobody
  BY <1>0 DEF Ours, HashOf
<1>2. ASSUME pc'[u] \in {"verify", "delete", "forget"}, Alone(u)', manifest'.ok
      PROVE  manifest'.map[HashOf(u)'] = u
  <2>1. pc[t] \notin Saving \cup {"record", "forget"}
    <3> SUFFICES ASSUME pc[t] \in Saving \cup {"record", "forget"} PROVE FALSE
      OBVIOUS
    <3>1. t \in Writers /\ pc[t] \notin Over \cup {"off"}
      BY <1>0, WriterActs DEF Saving, Over
    <3>2. Overlap(u, t)
      BY <1>0, <1>2, <3>1, BothActive DEF Over
    <3> QED  BY <1>0, <1>2, <3>1, <3>2 DEF Alone
  <2>2. manifest' = manifest
    BY <1>0, <2>1, StepKinds DEF Starts, Quiet, Rewrites, Saves, Cuts
  <2>3. Alone(u)
    BY <1>0, <1>2, AloneStays
  <2> QED  BY <1>0, <1>2, <2>2, <2>3 DEF Ours, HashOf
<1> QED  BY <1>1, <1>2, UnheardStep, OthersAgree DEF Ours

\* Where a writer comes from.
LEMMA StepOrigins ==
  ASSUME ContentInv, NEW t \in Writers, Load(t) \/ Work(t)
  PROVE  /\ pc'[t] \in {"verify", "delete", "forget"} => pc[t] \in {"save", "verify", "delete"}
         /\ pc'[t] = "done" => pc[t] \in {"save", "verify"}
         /\ pc'[t] = "failed" => pc[t] \in {"fetching", "resave"}
<1>0. TypeOK /\ t \in Procs /\ pc[t] # "serving"
  BY DEF ContentInv, TypeInv, RolesOK, Writers
<1>1. CASE Load(t)
  BY <1>1, <1>0, StepKinds DEF Load, Starts
<1>2. CASE Fetch(t)
  BY <1>2, <1>0 DEF Fetch, Go, Goto, TypeOK
<1>3. CASE FindFolder(t)
  BY <1>3, <1>0 DEF FindFolder, Go, Goto, TypeOK
<1>4. CASE MakeFolder(t)
  BY <1>4, <1>0 DEF MakeFolder, Go, Goto, TypeOK
<1>5. CASE Upload(t)
  BY <1>5, <1>0 DEF Upload, Go, Goto, TypeOK
<1>6. CASE Record(t)
  BY <1>6, <1>0 DEF Record, Rewrite, Saving, Goto, TypeOK
<1>7. CASE Save(t)
  BY <1>7, <1>0 DEF Save, Saving, Go, Goto, TypeOK
<1>8. CASE Verify(t)
  BY <1>8, <1>0 DEF Verify, Go, Goto, TypeOK
<1>9. CASE Delete(t)
  BY <1>9, <1>0 DEF Delete, Go, Goto, TypeOK
<1>10. CASE Forget(t)
  BY <1>10, <1>0 DEF Forget, Rewrite, Saving, Goto, TypeOK
<1>11. CASE Raises(t)
  BY <1>11, <1>0 DEF Raises, Go, Goto, TypeOK
<1>12. CASE SaveRaises(t)
  BY <1>12, <1>0 DEF SaveRaises, Go, Goto, TypeOK
<1>13. CASE Stop(t)
  BY <1>13, <1>0 DEF Stop, Go, Goto, TypeOK
<1>14. CASE Crash(t)
  BY <1>14, <1>0 DEF Crash, Go, Goto, TypeOK
<1> QED  BY <1>1, <1>2, <1>3, <1>4, <1>5, <1>6, <1>7, <1>8, <1>9, <1>10, <1>11, <1>12, <1>13,
            <1>14 DEF Work, Store

\* A writer that is stopped: where, and what it leaves of its upload.
LEMMA StopStep ==
  ASSUME ContentInv, NEW t \in Writers, Load(t) \/ Work(t), pc'[t] \in {"raised", "crashed"}
  PROVE  /\ ended'[t] = pc[t]
         /\ pc[t] \in {"off", "fetching", "folder", "mkdir", "forget"} => object'[t] = "none"
         /\ pc[t] = "verify" => object'[t] # "none"
         /\ pc[t] \in Saving => Cuts(t)
<1>0. /\ TypeOK /\ t \in Procs /\ Fits(t) /\ pc[t] # "serving"
      /\ pc[t] \in Saving => pc[t] \notin {"off", "verify"}
  BY DEF ContentInv, TypeInv, RolesOK, Writers, Saving
<1>1. ASSUME NEW l, NEW map, Goto(t, l, map)
      PROVE  pc'[t] = l /\ (l \in {"raised", "crashed"} => ended'[t] = pc[t])
  BY <1>0, <1>1 DEF Goto, TypeOK, Over
<1>2. CASE Load(t)
  <2>1. PICK l : Goto(t, l, manifest.map)
    BY <1>2 DEF Load
  <2> QED  BY <1>0, <1>1, <1>2, <2>1 DEF Load, Fits, Saving
<1>3. CASE Raises(t)
  <2>1. pc[t] \in {"folder", "mkdir", "forget", "verify"} => object' = object
    BY <1>3 DEF Raises, Effect
  <2> QED  BY <1>0, <1>1, <1>3, <2>1 DEF Raises, Go, Fits, Saving
<1>4. CASE SaveRaises(t)
  BY <1>0, <1>1, <1>4 DEF SaveRaises, Go, Goto, Cuts, Saving, TypeOK, Over
<1>5. CASE Crash(t)
  <2>1. ended'[t] = pc[t] /\ object' = object /\ pc[t] \notin Over
    BY <1>1, <1>5 DEF Crash, Go
  <2>2. pc[t] \in Saving => Cuts(t)
    BY <1>0, <1>5 DEF Crash, Go, Goto, Cuts, Saving, TypeOK, Over
  <2> QED  BY <1>0, <2>1, <2>2 DEF Fits
<1>6. CASE Verify(t)
  <2>1. PICK l : Goto(t, l, memory[t])
    BY <1>6 DEF Verify, Go
  <2> QED  BY <1>0, <1>1, <1>6, <2>1 DEF Verify, Fits, Saving
<1>7. pc'[t] \notin {"raised", "crashed"} \/ Load(t) \/ Raises(t) \/ SaveRaises(t) \/ Crash(t) \/ Verify(t)
  BY <1>0 DEF Work, Store, Fetch, FindFolder, MakeFolder, Upload, Record, Rewrite, Save, Delete,
              Forget, Stop, Go, Goto, Saving, TypeOK
<1> QED  BY <1>2, <1>3, <1>4, <1>5, <1>6, <1>7

LEMMA OwnAgrees ==
  ASSUME AgreeInv, NEW t \in Writers, Load(t) \/ Work(t)
  PROVE  Ours(t)'
<1>0. /\ CauseInv /\ ContentInv /\ TypeInv /\ TypeOK /\ HistoryOK /\ Ours(t)
      /\ cmd' = cmd /\ t \in Procs /\ Fits(t) /\ Fits(t)'
      /\ pc[t] \notin Over
      /\ \A w \in Procs \ {t} : pc'[w] = pc[w]
      /\ \A v, w \in Writers : Overlap(v, w) => Overlap(v, w)'
      /\ HashOf(t) \in Hashes /\ HashOf(t)' = HashOf(t) /\ memory[t] \in Maps
  BY OwnStep, OwnFits, HistoryStep
     DEF AgreeInv, CauseInv, ContentInv, TypeInv, TypeOK, Writers, HashOf, Commands
<1>1. ASSUME pc'[t] = "resave"
      PROVE  memory'[t][HashOf(t)] = Nobody
  <2>1. Rewrites(t)
    BY <1>0, <1>1, StepKinds DEF Starts, Quiet, Saves, Cuts, Saving
  <2> QED  BY <1>0, <1>1, <2>1 DEF Rewrites, Maps
<1>2. ASSUME Saves(t), manifest'.ok
      PROVE  manifest'.map = memory[t]
  BY <1>2 DEF Saves, Written, Whole, Broken
<1>3. pc[t] \notin Saving \cup {"record", "forget", "off"} => manifest' = manifest
  BY <1>0, StepKinds DEF Starts, Quiet, Rewrites, Saves, Cuts
<1>4. ASSUME pc'[t] \in {"verify", "delete", "forget"}, Alone(t)', manifest'.ok
      PROVE  manifest'.map[HashOf(t)] = t
  <2>1. CASE pc[t] = "save"
    <3>1. Saves(t)
      BY <1>0, <1>4, <2>1, StepKinds DEF Starts, Quiet, Rewrites, Cuts, Saving
    <3> QED  BY <1>0, <1>2, <1>4, <2>1, <3>1 DEF Fits
  <2>2. CASE pc[t] \in {"verify", "delete"}
    BY <1>0, <1>3, <1>4, <2>2, AloneStays DEF Ours, Saving
  <2> QED  BY <1>0, <1>4, <2>1, <2>2, StepOrigins
<1>5. ASSUME pc'[t] \in Over, Undisturbed(t)'
      PROVE  /\ manifest'.ok => Agrees(manifest.map, t)'
             /\ \A w \in Writers \ {t} : pc'[w] \notin Over \cup {"off"} => Agrees(memory[w], t)'
  <2>1. Alone(t)'
    BY <1>5 DEF Undisturbed, Alone
  <2>2. Alone(t)
    BY <1>0, <2>1, AloneStays
  <2>3. pc[t] # "off" => \A w \in Writers \ {t} : pc'[w] \in Over \cup {"off"}
    BY <1>0, <2>2, BothActive DEF Alone, Writers
  <2>4. t # Nobody /\ ~(pc'[t] \in {"raised", "crashed"} /\ pc'[t] \in {"done", "failed"})
    BY EmptyType
  <2>5. CASE pc'[t] \in {"done", "failed"}
    <3>1. pc[t] \in {"save", "verify", "fetching", "resave"}
      BY <1>0, <2>5, StepOrigins
    <3>2. object'[t] = IF pc'[t] = "done" THEN "file" ELSE "none"
      BY <1>0, <2>5 DEF Fits
    <3>3. manifest'.ok => (manifest'.map[HashOf(t)] = t <=> pc'[t] = "done")
      <4>1. CASE pc[t] \in Saving
        <5>1. Saves(t)
          BY <1>0, <2>5, <4>1, StepKinds DEF Starts, Quiet, Rewrites, Cuts, Saving
        <5>2. memory[t][HashOf(t)] = IF pc'[t] = "done" THEN t ELSE Nobody
          BY <1>0, <2>5, <4>1, StepOrigins DEF Fits, Ours, Saving
        <5> QED  BY <1>2, <2>4, <5>1, <5>2
      <4>2. CASE pc[t] = "verify"
        <5>1. pc'[t] = "done" /\ manifest' = manifest
          BY <1>0, <1>3, <2>5, <4>2, StepOrigins DEF Saving
        <5> QED  BY <1>0, <2>2, <4>2, <5>1 DEF Ours
      <4>3. CASE pc[t] = "fetching"
        <5>1. pc'[t] = "failed" /\ manifest' = manifest
          BY <1>0, <1>3, <2>5, <4>3, StepOrigins DEF Saving
        <5> QED  BY <1>0, <4>3, <5>1 DEF Ours, Unheard
      <4> QED  BY <3>1, <4>1, <4>2, <4>3 DEF Saving
    <3> QED  BY <1>0, <2>3, <2>4, <2>5, <3>1, <3>2, <3>3 DEF Agrees
  <2>6. CASE pc'[t] \in {"raised", "crashed"}
    <3>1. /\ ended'[t] = pc[t]
          /\ pc[t] \in {"off", "fetching", "folder", "mkdir", "forget"} => object'[t] = "none"
          /\ pc[t] = "verify" => object'[t] # "none"
      BY <1>0, <2>6, StopStep
    <3>2. CASE pc[t] \in {"off", "fetching", "folder", "mkdir", "upload", "record"}
      <4>1. manifest'.map[HashOf(t)] # t /\ \A w \in Writers \ {t} : memory'[w][HashOf(t)] # t
        <5>1. Unheard(t) /\ \A w \in Writers \ {t} : memory'[w] = memory[w]
          BY <1>0, OwnStep DEF Ours, Writers
        <5>2. manifest' = manifest
          BY <1>0, <2>6, <3>2, StepKinds DEF Starts, Quiet, Rewrites, Saves, Cuts, Saving
        <5> QED  BY <1>0, <3>2, <5>1, <5>2 DEF Unheard, Writers
      <4> QED  BY <1>0, <2>6, <3>1, <3>2, <4>1 DEF Agrees
    <3>3. CASE pc[t] \in {"verify", "delete", "forget"}
      <4>1. manifest' = manifest
        BY <1>0, <2>6, <3>3, StepKinds DEF Starts, Quiet, Rewrites, Saves, Cuts, Saving
      <4>2. manifest'.ok => manifest'.map[HashOf(t)] = t
        BY <1>0, <2>2, <3>3, <4>1 DEF Ours
      <4> QED  BY <1>0, <2>3, <2>6, <3>1, <3>3, <4>2 DEF Agrees
    <3>4. CASE pc[t] \in Saving
      <4>1. ~manifest.ok
        BY <1>0, <2>2, <3>4 DEF CauseInv, SavingInv, Alone, Overlap
      <4>2. Cuts(t)
        BY <1>0, <2>6, <3>4, StopStep
      <4>3. ~manifest'.ok
        <5>1. manifest' = manifest \/ \E n : manifest' = Broken(n, t)
          BY <4>2, Zenon DEF Cuts, CutShort
        <5> QED  BY <4>1, <5>1 DEF Broken
      <4> QED  BY <2>3, <3>4, <4>3 DEF Saving
    <3> QED  BY <1>0, <3>2, <3>3, <3>4 DEF TypeInv, TypeOK, RolesOK, PCs, Writers
  <2> QED  BY <1>5, <2>5, <2>6 DEF Over
<1>6. Undisturbed(t)' => pc'[t] \in Over
  BY DEF Undisturbed
<1> QED  BY <1>0, <1>1, <1>4, <1>5, <1>6, UnheardStep DEF Ours

LEMMA NextAgreeInv == AgreeInv /\ [Next]_vars => AgreeInv'
<1> SUFFICES ASSUME AgreeInv, [Next]_vars PROVE AgreeInv'
  OBVIOUS
<1>1. CauseInv'
  BY NextCauseInv DEF AgreeInv
<1>2. CASE UNCHANGED vars
  BY <1>1, <1>2 DEF vars, AgreeInv, Ours, Unheard, Alone, Agrees, Undisturbed, Overlap, HashOf
<1>3. ASSUME NEW t \in Procs, Load(t) \/ Work(t), NEW u \in Writers
      PROVE  Ours(u)'
  BY <1>3, OwnAgrees, OthersStep
<1> QED  BY <1>1, <1>2, <1>3 DEF Next, AgreeInv

\* One command at a time is safe: what a process that nobody overlapped has stored
\* is in the manifest, what it gave up is not, for good, whatever others did before
\* and do after it (agent/drive_adapter.py:60-65, 205-206, 302-313).
THEOREM ManifestKeeps == Spec => []ManifestAgrees
<1>1. AgreeInv => ManifestAgrees
  BY DEF AgreeInv, Ours, Agrees, Named, ManifestAgrees
<1> QED  BY InitAgreeInv, NextAgreeInv, <1>1, PTL DEF Spec

\* A process that was killed or failed, and that nobody overlapped, leaves a Drive
\* file without an entry only from between its upload and its save, and an entry
\* without a Drive file only from its delete; stopped anywhere else it leaves
\* neither, or a manifest that cannot be read (agent/drive_adapter.py:195-207, 302-313).
THEOREM StopsAreWindowed == Spec => []StopsHaveWindows
<1>1. AgreeInv => StopsHaveWindows
  BY DEF AgreeInv, Ours, Agrees, Named, StopsHaveWindows
<1> QED  BY InitAgreeInv, NextAgreeInv, <1>1, PTL DEF Spec

-------------------------------------------------------------------------------
(***************************************************************************)
(* The processes behave as both parts say.                                 *)
(***************************************************************************)

LEMMA HomeStep ==
  [HomeNext]_homeVars => [Next]_vars /\ [K!Next]_<< key, step, ident >>
<1> SUFFICES ASSUME HomeNext
             PROVE  [Next]_vars /\ [K!Next]_<< key, step, ident >>
  BY DEF homeVars
<1>1. ASSUME NEW p \in Procs, Identify(p)
      PROVE  UNCHANGED vars /\ K!Next
  BY <1>1 DEF Identify, K!Next
<1>2. ASSUME NEW p \in Procs, Begin(p) \/ GoOn(p)
      PROVE  Next /\ UNCHANGED << key, step, ident >>
  BY <1>2 DEF Begin, GoOn, Next
<1> QED  BY <1>1, <1>2 DEF HomeNext

\* An agent's processes, which also have to find their identity, are processes of
\* DriveStore and of KeyFile (agent/main.py:23-41, agent/cli.py:54-64).
THEOREM HomeIsBoth == HomeSpec => DriveSpec /\ KeyFileSpec
<1>1. HomeInit => Init /\ K!Init
  BY DEF HomeInit
<1> QED  BY <1>1, HomeStep, PTL DEF HomeSpec, DriveSpec, Spec, KeyFileSpec, K!Spec, K!keyVars

-------------------------------------------------------------------------------
(***************************************************************************)
(* The key file.                                                           *)
(***************************************************************************)

LEMMA KeyType == K!Init => K!TypeOK
BY DEF K!Init, K!TypeOK, K!Steps

LEMMA KeyTypeStep == K!TypeOK /\ [K!Next]_<< key, step, ident >> => K!TypeOK'
<1> SUFFICES ASSUME K!TypeOK, [K!Next]_<< key, step, ident >> PROVE K!TypeOK'
  OBVIOUS
<1>1. ASSUME NEW p \in Procs, K!LoadOrCreate(p)
      PROVE  K!TypeOK'
  <2>1. CASE K!Look(p)
    BY <2>1 DEF K!Look, K!Advance, K!TypeOK, K!Steps
  <2>2. CASE K!LoadKey(p)
    <3>1. key = Cut \/ key \in Procs \cup {Missing}
      BY DEF K!TypeOK
    <3> QED  BY <2>2, <3>1 DEF K!LoadKey, K!Advance, K!TypeOK, K!Steps
  <2>3. CASE K!OpenKey(p)
    BY <2>3 DEF K!OpenKey, K!Advance, K!TypeOK, K!Steps
  <2>4. CASE K!SaveKey(p)
    BY <2>4 DEF K!SaveKey, K!Advance, K!TypeOK, K!Steps
  <2>5. CASE K!KeyCrash(p)
    BY <2>5 DEF K!KeyCrash, K!Advance, K!TypeOK, K!Steps
  <2> QED  BY <1>1, <2>1, <2>2, <2>3, <2>4, <2>5 DEF K!LoadOrCreate
<1>2. CASE UNCHANGED << key, step, ident >>
  BY <1>2 DEF K!TypeOK
<1> QED  BY <1>1, <1>2 DEF K!Next

\* A process that looks for the key when it is there takes it, and so does one that
\* found it before.
LEMMA SettledStep ==
  K!TypeOK /\ [K!Next]_<< key, step, ident >> =>
    [K!Settled => /\ key' = key /\ K!Settled'
                  /\ \A p \in Procs : ident'[p] \in {ident[p], key}]_<< key, step, ident >>
<1> SUFFICES ASSUME K!TypeOK, K!Settled, NEW p \in Procs, K!LoadOrCreate(p)
             PROVE  /\ key' = key /\ K!Settled'
                    /\ \A q \in Procs : ident'[q] \in {ident[q], key}
  BY DEF K!Next
<1>0. /\ key \in Procs /\ key # Missing /\ key # Cut
      /\ step \in [Procs -> K!Steps] /\ ident \in [Procs -> Procs \cup {Missing}]
      /\ \A q \in Procs : step[q] \notin {"create", "write"}
  BY HomeAssumption DEF K!KeyFileAssumption, K!Settled, K!TypeOK
<1>1. CASE K!Look(p)
  BY <1>0, <1>1 DEF K!Look, K!Advance, K!Settled
<1>2. CASE K!LoadKey(p)
  BY <1>0, <1>2 DEF K!LoadKey, K!Advance, K!Settled
<1>3. CASE K!OpenKey(p) \/ K!SaveKey(p)
  BY <1>0, <1>3 DEF K!OpenKey, K!SaveKey
<1>4. CASE K!KeyCrash(p)
  BY <1>0, <1>4 DEF K!KeyCrash, K!Advance, K!Settled
<1> QED  BY <1>1, <1>2, <1>3, <1>4 DEF K!LoadOrCreate

\* However many processes an agent has and whichever are killed: once its key is
\* there and those that found none are through, the key is its identity for good
\* (agent/identity.py:83-95).
THEOREM KeyStays == HomeSpec => KeySettles
<1>1. HomeSpec => KeyFileSpec
  BY HomeIsBoth, PTL
<1> QED  BY <1>1, KeyType, KeyTypeStep, SettledStep, PTL
            DEF KeyFileSpec, K!Spec, K!keyVars, KeySettles, K!KeySettles
===============================================================================
