------------------------------ MODULE DriveStore ------------------------------
(***************************************************************************)
(* The Google Drive backend (agent/drive_adapter.py) under the processes    *)
(* that share one token, and with it one Drive folder and one manifest:     *)
(* agents' daemons (agent/main.py), which list and serve, the `download'    *)
(* commands next to them (agent/cli.py, agent/downloader.py:344-363), and   *)
(* scripts/seed_to_drive.py.  Each makes an adapter of its own, which loads *)
(* the manifest once and rewrites all of it after every change.  (The       *)
(* agents b and c of docker-compose.yml have one token.)                    *)
(*                                                                          *)
(* Every upload makes a new Drive file, and a process uploads at most once: *)
(* the id of a Drive file is the process that uploaded it.  Manifests are   *)
(* maps from hashes to ids; their text is as long as they have entries.     *)
(***************************************************************************)
EXTENDS Naturals, FiniteSets

CONSTANTS
  Procs,     \* runs of programs
  Daemons,   \* those that only read; the others store one file each
  Hashes,
  Nobody,    \* the id that is none
  Faulty,    \* processes whose calls to Drive and writes to the manifest may raise
  Mortal     \* processes that may be killed, at any point

Writers == Procs \ Daemons

ASSUME DriveAssumption ==
  /\ IsFiniteSet(Hashes)
  /\ Daemons \subseteq Procs
  /\ Nobody \notin Procs
  /\ Faulty \subseteq Writers
  /\ Mortal \subseteq Procs

VARIABLES
  cmd,       \* cmd[t]: the command that writer t is: a seed or a download, of which file
  pc,        \* pc[t]: where process t is
  memory,    \* memory[t]: its adapter's _manifest
  manifest,  \* the manifest file
  object,    \* object[t]: the Drive file t uploaded, `none' before and after it is there
  folders,   \* who created a folder named FOLDER_NAME
  before,    \* before[t]: the writers that were over when t started
  ended      \* ended[t]: where t was when it ended (like before, for the properties only)

vars == << cmd, pc, memory, manifest, object, folders, before, ended >>

Commands == [seed : BOOLEAN, hash : Hashes]
IsSeed(t) == cmd[t].seed
HashOf(t) == cmd[t].hash

Maps == [Hashes -> Writers \cup {Nobody}]
Empty == [h \in Hashes |-> Nobody]
Length(map) == Cardinality({h \in Hashes : map[h] # Nobody})

\* The file: whether its text is JSON, of which map, how long it is, and who had it
\* open last (for the properties only).
Files == [ok : BOOLEAN, map : Maps, length : Nat, by : Procs \cup {Nobody}]
Whole(map, t) == [ok |-> TRUE, map |-> map, length |-> Length(map), by |-> t]
Broken(length, t) == [ok |-> FALSE, map |-> Empty, length |-> length, by |-> t]

Over == {"done", "failed", "raised", "crashed"}
Saving == {"save", "resave"}
PCs == {"off", "serving", "fetching", "folder", "mkdir", "upload", "record", "verify",
        "delete", "forget"} \cup Saving \cup Over

\* t goes on to l; with the end of the process its memory is gone.
Goto(t, l, map) ==
  /\ pc' = [pc EXCEPT ![t] = l]
  /\ memory' = [memory EXCEPT ![t] = IF l \in Over THEN Empty ELSE map]
  /\ ended' = [ended EXCEPT ![t] = IF l \in Over THEN pc[t] ELSE @]

Go(t, l) == Goto(t, l, memory[t])

-------------------------------------------------------------------------------
(***************************************************************************)
(* The adapter.                                                            *)
(***************************************************************************)

\* What a program does first with its adapter.
Purpose(t) == IF t \in Daemons THEN "serving" ELSE IF IsSeed(t) THEN "folder" ELSE "fetching"

\* DriveAdapter(): _load_manifest.  There is no second look at the file.  A text
\* that is not JSON ends the process.
Load(t) ==
  /\ pc[t] = "off"
  /\ before' = [u \in Writers |->
                 IF u = t THEN {w \in Writers : pc[w] \in Over} ELSE before[u]]
  /\ Goto(t, IF manifest.ok THEN Purpose(t) ELSE "raised", manifest.map)
  /\ UNCHANGED << cmd, manifest, object, folders >>

\* A download has its chunks (module Swarm), or gives up before it stores anything.
Fetch(t) ==
  /\ pc[t] = "fetching"
  /\ Go(t, "folder") \/ Go(t, "failed")
  /\ UNCHANGED << cmd, manifest, object, folders, before >>

FindFolderBlindly(t) ==
  /\ pc[t] = "folder"
  /\ Go(t, "mkdir")
  /\ UNCHANGED << cmd, manifest, object, folders, before >>

\* _find_or_create: is there a folder of that name?
FindFolder(t) ==
  /\ pc[t] = "folder"
  /\ Go(t, IF folders = {} THEN "mkdir" ELSE "upload")
  /\ UNCHANGED << cmd, manifest, object, folders, before >>

\* _find_or_create: there was none.
MakeFolder(t) ==
  /\ pc[t] = "mkdir"
  /\ folders' = folders \cup {t}
  /\ Go(t, "upload")
  /\ UNCHANGED << cmd, manifest, object, before >>

\* What is uploaded: the file, and, if peers served wrong bytes, something else.
Uploads(t) == IF IsSeed(t) THEN {"file"} ELSE {"file", "other"}

\* write_stream: with its last chunk the Drive file is there.
Upload(t) ==
  /\ pc[t] = "upload"
  /\ \E content \in Uploads(t) : object' = [object EXCEPT ![t] = content]
  /\ Go(t, "record")
  /\ UNCHANGED << cmd, manifest, folders, before >>

RewriteInPlace(t, id, next) ==
  /\ Goto(t, next, [memory[t] EXCEPT ![HashOf(t)] = id])
  /\ manifest' = Broken(manifest.length, t)

\* The adapter's own map changes, and _save_manifest opens the file, which empties it.
Rewrite(t, id, next) ==
  /\ Goto(t, next, [memory[t] EXCEPT ![HashOf(t)] = id])
  /\ manifest' = Broken(0, t)

RecordUnsaved(t) ==
  /\ pc[t] = "record"
  /\ Goto(t, IF IsSeed(t) THEN "done" ELSE "verify", [memory[t] EXCEPT ![HashOf(t)] = t])
  /\ UNCHANGED << cmd, manifest, object, folders, before >>

RecordHash(t) ==
  /\ pc[t] = "record"
  /\ Rewrite(t, HashOf(t), "save")
  /\ UNCHANGED << cmd, object, folders, before >>

\* write_stream: the entry of the hash is the new file.
Record(t) ==
  /\ pc[t] = "record"
  /\ Rewrite(t, t, "save")
  /\ UNCHANGED << cmd, object, folders, before >>

\* The text of t's map is put at the beginning of the file, which is empty unless
\* another process has the file open as well: the end of a longer text stays.
Written(t) ==
  IF Length(memory[t]) >= manifest.length THEN Whole(memory[t], t)
                                          ELSE Broken(manifest.length, t)

\* _save_manifest is through.  A download goes on to check what it stored; after a
\* delete it raises DownloadError.
Save(t) ==
  /\ pc[t] \in Saving
  /\ manifest' = Written(t)
  /\ Go(t, IF pc[t] = "resave" THEN "failed" ELSE IF IsSeed(t) THEN "done" ELSE "verify")
  /\ UNCHANGED << cmd, object, folders, before >>

VerifyAnything(t) ==
  /\ pc[t] = "verify"
  /\ Go(t, "done")
  /\ UNCHANGED << cmd, manifest, object, folders, before >>

\* download step 6, by the id in memory: the hash of what is read back decides; a
\* Drive file that is gone ends the process.
Verify(t) ==
  /\ pc[t] = "verify"
  /\ LET content == object[memory[t][HashOf(t)]]
     IN Go(t, CASE content = "file" -> "done"
                  [] content = "other" -> "delete"
                  [] OTHER -> "raised")
  /\ UNCHANGED << cmd, manifest, object, folders, before >>

DeleteEntryOnly(t) ==
  /\ pc[t] = "delete"
  /\ Go(t, "forget")
  /\ UNCHANGED << cmd, manifest, object, folders, before >>

\* delete: first the Drive file ...
Delete(t) ==
  /\ pc[t] = "delete"
  /\ object' = [object EXCEPT ![memory[t][HashOf(t)]] = "none"]
  /\ Go(t, "forget")
  /\ UNCHANGED << cmd, manifest, folders, before >>

ForgetUnsaved(t) ==
  /\ pc[t] = "forget"
  /\ Go(t, "failed")
  /\ UNCHANGED << cmd, manifest, object, folders, before >>

\* ... then its entry.
Forget(t) ==
  /\ pc[t] = "forget"
  /\ Rewrite(t, Nobody, "resave")
  /\ UNCHANGED << cmd, object, folders, before >>

\* A daemon is told to stop.
Stop(t) ==
  /\ pc[t] = "serving"
  /\ Go(t, "done")
  /\ UNCHANGED << cmd, manifest, object, folders, before >>

-------------------------------------------------------------------------------
(***************************************************************************)
(* Faults and crashes.  No part of write_stream or delete catches anything. *)
(***************************************************************************)

\* What a call to Drive may have done although its answer was lost.
Effect(t) ==
  /\ CASE pc[t] = "upload" -> \E content \in Uploads(t) : object' = [object EXCEPT ![t] = content]
       [] pc[t] = "delete" -> object' = [object EXCEPT ![memory[t][HashOf(t)]] = "none"]
       [] OTHER -> UNCHANGED object
  /\ folders' = IF pc[t] = "mkdir" THEN folders \cup {t} ELSE folders

\* A call to Drive raises, or opening the manifest does.
Raises(t) ==
  /\ t \in Faulty
  /\ pc[t] \in {"folder", "mkdir", "upload", "record", "verify", "delete", "forget"}
  /\ Effect(t) \/ UNCHANGED << object, folders >>
  /\ Go(t, "raised")
  /\ UNCHANGED << cmd, manifest, before >>

\* What the file may be when not all of t's text got there.
CutShort(t) ==
  {manifest} \cup {Broken(n, t) : n \in {manifest.length} \cup manifest.length .. Length(memory[t])}

SaveRaises(t) ==
  /\ t \in Faulty
  /\ pc[t] \in Saving
  /\ manifest' \in CutShort(t)
  /\ Go(t, "raised")
  /\ UNCHANGED << cmd, object, folders, before >>

Crash(t) ==
  /\ t \in Mortal
  /\ pc[t] \notin Over \cup {"off"}
  /\ manifest' \in IF pc[t] \in Saving THEN CutShort(t) ELSE {manifest}
  /\ Go(t, "crashed")
  /\ UNCHANGED << cmd, object, folders, before >>

-------------------------------------------------------------------------------
Init ==
  /\ cmd \in [Writers -> Commands]
  /\ pc = [t \in Procs |-> "off"]
  /\ memory = [t \in Procs |-> Empty]
  /\ manifest = Whole(Empty, Nobody)
  /\ object = [t \in Writers |-> "none"]
  /\ folders = {}
  /\ before = [t \in Writers |-> {}]
  /\ ended = [t \in Procs |-> "off"]

Store(t) ==
  \/ Fetch(t) \/ FindFolder(t) \/ MakeFolder(t) \/ Upload(t) \/ Record(t) \/ Save(t)
  \/ Verify(t) \/ Delete(t) \/ Forget(t)
  \/ Raises(t) \/ SaveRaises(t)

Work(t) == Store(t) \/ Stop(t) \/ Crash(t)

Next == \E t \in Procs : Load(t) \/ Work(t)

Spec == Init /\ [][Next]_vars

-------------------------------------------------------------------------------
(***************************************************************************)
(* Properties.                                                             *)
(***************************************************************************)

TypeOK ==
  /\ cmd \in [Writers -> Commands]
  /\ pc \in [Procs -> PCs]
  /\ memory \in [Procs -> Maps]
  /\ manifest \in Files
  /\ object \in [Writers -> {"none", "file", "other"}]
  /\ folders \subseteq Writers
  /\ before \in [Writers -> SUBSET Writers]
  /\ ended \in [Procs -> PCs]

\* Neither of the two was over when the other started.
Overlap(t, u) ==
  /\ t # u
  /\ pc[t] # "off" /\ t \notin before[u]
  /\ pc[u] # "off" /\ u \notin before[t]

\* Wrong bytes are on Drive only while their download is checking them, or because
\* it was killed or Drive failed it: no download ends by its own decision and
\* leaves them, whoever else reads, lists and rewrites the manifest meanwhile
\* (agent/downloader.py:360-363, agent/drive_adapter.py:302-313).
WrongBytesHaveCause ==
  \A t \in Writers : object[t] = "other" =>
    pc[t] \in {"record", "save", "verify", "delete", "raised", "crashed"}

\* t is over, no other writer overlapped it, and none stored the same file after it.
Undisturbed(t) ==
  /\ pc[t] \in Over
  /\ \A u \in Writers \ {t} :
       ~Overlap(t, u) /\ (pc[u] # "off" /\ HashOf(u) = HashOf(t) => u \in before[t])

Named(t) == manifest.map[HashOf(t)] = t

\* The manifest has what an undisturbed process that ended by its own decision has
\* stored and not what it deleted, whatever happens to others before and after it,
\* as long as it can be read: one command at a time loses no entry and leaves none
\* without its Drive file (agent/drive_adapter.py:60-65, 205-206, 302-313).
ManifestAgrees ==
  \A t \in Writers : manifest.ok /\ Undisturbed(t) /\ pc[t] \in {"done", "failed"} =>
    (Named(t) <=> object[t] = "file")

\* A Drive file without an entry is left by a process only if it was killed or failed
\* after its upload and before it began to save, an entry without a Drive file only
\* if that was in its delete and before it began to save that: at every other moment
\* the two go together, for good (agent/drive_adapter.py:195-207, 302-313).  Stopped
\* in the saving itself it leaves a manifest that cannot be read: BrokenHasCause.
StopsHaveWindows ==
  \A t \in Writers : manifest.ok /\ Undisturbed(t) /\ pc[t] \in {"raised", "crashed"} =>
    /\ ~Named(t) /\ object[t] # "none" => ended[t] \in {"upload", "record"}
    /\ Named(t) /\ object[t] = "none" => ended[t] \in {"delete", "forget"}

\* A manifest that cannot be read, which keeps every later process from starting,
\* is being written, or its last writer was killed or failed in it, or
\* overlapped another writer (agent/drive_adapter.py:60-65).
BrokenHasCause ==
  ~manifest.ok =>
    \/ pc[manifest.by] \in Saving \cup {"raised", "crashed"}
    \/ \E u \in Writers : Overlap(manifest.by, u)

\* There is one folder of the name, unless two processes that made one overlapped
\* (agent/drive_adapter.py:94-117).
FoldersHaveCause ==
  \A t, u \in folders : t # u => Overlap(t, u)

-------------------------------------------------------------------------------
(***************************************************************************)
(* For the Drive files themselves the backend keeps the promise of         *)
(* Delivery, however the processes overlap: the Drive file of a process is *)
(* its copy.                                                               *)
(***************************************************************************)

PhaseAt(l) ==
  CASE l \in {"off", "fetching", "folder", "mkdir"} -> "fetching"
    [] l \in {"upload", "record", "save", "verify", "delete", "forget", "resave"} -> "storing"
    [] l = "raised" -> "failed"
    [] OTHER -> l

D == INSTANCE Delivery WITH
       Tasks <- Writers,
       phase <- [t \in Writers |-> PhaseAt(pc[t])],
       copy <- object

ImplementsDelivery == D!Spec
===============================================================================
