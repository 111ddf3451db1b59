# A verification project for cloud-p2p-agent

TLA+ modules of the agent, the tracker and the swarm they form, TLC
configurations that check them on small instances, and theorems with proofs that
TLAPS checks. Paths are relative to `src/`.

## 1. The system

| Part | State it keeps | Operations | Talks to |
|---|---|---|---|
| Downloader `agent/downloader.py` | one download in memory: candidates, trusted peers, chunks | `download`, `_handshake_peer`, `_fetch_chunk`, `_split_ranges` | tracker client, servers of other agents (HTTP), storage, trust engine |
| P2P server `agent/p2p_server.py` | none of its own | `/handshake`, `/transfer` | storage, trust engine |
| Storage `agent/storage.py` | a directory of files named by hash | `exists`, `get_size`, `read_range`, `write_stream`, `delete`, `list_files` | disk, in threads |
| Trust engine `agent/trust.py` | trust anchors, revocations | vouch, revoke, apply, `verify_chain` | server, downloader |
| Tracker `tracker/` | table hash → agent → time of registration, in memory | `/register`, `/unregister`, `/peers`, `/files` | agents (HTTP) |
| Tracker client `agent/tracker_client.py` | an HTTP client | `register`, `keepalive`, `get_peers`, `unregister`, retries | tracker |
| Agent process `agent/main.py` | shutdown event, keep-alive timer | start, keep-alive loop, signal, departure | all of the above |
| Command line `agent/cli.py` | – | one-shot `seed`, `download` in the directory of a running agent | storage, downloader |
| Drive adapter `agent/drive_adapter.py` | manifest hash → Drive id, in memory and in a file; the folder and the files on Drive | the storage interface | Google Drive, and, through the manifest, every process with the same token |
| HTTP adapter `agent/http_storage_adapter.py` | none | `exists`, `get_size`, `read_range` | file server |
| File server `fileserver/main.py` | a directory of files named by hash, filled by `scripts/prepare_file.sh` | HEAD, GET with a Range | HTTP adapter |
| Identity `agent/identity.py` | the key file | `load_or_create`, sign, verify | every process of the agent |
| Messages, serializer, config, other scripts | – | encoding, reading settings, set-up | – |

What is hard about it:

- **Shared files.** `write_stream` truncates and fills a file under its final
  name. The server of the same directory serves it meanwhile, and other tasks may
  write, read back or unlink the same name. `/transfer` looks at the file three
  times (`exists`, `get_size`, `read_range`) with awaits between.
- **Several sources.** Chunks come from peers whose copies may be wrong, cut short
  or change under the read; the chunks are put together by the ranges in their
  headers, not by the bytes that came.
- **Shared maps.** The Drive adapter loads its manifest once and writes it whole
  after each change; daemons, downloads and `seed_to_drive.py` with the same token
  do so next to one another, and a write empties the file first.
- **Failures.** Dead peers, time-outs, disk errors at every await (the flush of a
  close among them), processes that are killed.
- **Membership.** Registrations with a TTL, retried requests that the tracker may
  work on after their sender has given them up or died, a tracker that loses its
  table, an agent that one failed keep-alive takes down.
- **Trust.** Chains of vouches with a depth bound, expiry, revocations that reach
  each engine at its own time; decisions on two endpoints that see different things.

What makes the parts correct, in short: a download that reports success has
stored exactly the file; whatever else happens, no wrong content survives without
a fault; started tasks end; an agent that seeds is listed, one that is gone is
forgotten; a chain is accepted exactly when vouches that count connect the subject
to an anchor, and trust that is withdrawn stays withdrawn.
`PROJECT.json` lists the hazards one by one, with lines.

## 2. Modules

    RangeSplit ── Swarm ── SwarmInv ── MCSwarm        Registry ── Presence ── MCPresence
        │           │ implements                      Trust ── MCTrust
    HttpFetch     Delivery
        │           │ implements
    MCHttpFetch   DriveStore ── AgentHome ── MCDrive
                                    │ instance
                                 KeyFile

    RangeSplit_proofs ── Swarm_proofs ── SwarmSuccess_proofs ── SwarmShared_proofs
        │       │
        │   HttpFetch_proofs      AgentHome_proofs (of DriveStore, KeyFile, AgentHome)
    Trust_proofs                  Presence_proofs

**RangeSplit** – `_split_ranges` and the coverage check of `download`
(`downloader.py:41-62`, `323-342`) as operators on sizes and sequences of ranges.

**Swarm** – one file, several agents, several command-line tasks. Each await of
the code that lets somebody else run ends an action.

| Actions | Code |
|---|---|
| `StartDownload`, `AnswerHandshake`, `LoseHandshake`, `SendRequests`, `Gather` | `Downloader.download` up to the write: candidates cut to `max_peers`, all handshakes together, one range per trusted peer, all fetches together, sort and coverage |
| `ServeFind`, `ServeSize`, `ServeOpen`, `ServeRead`, `FetchFails` | `/transfer` at the serving agent, one action per look at the disk; the transfer breaks |
| `OpenForWrite`, `WriteChunk`, `CloseFile` | `LocalStorage.write_stream`; up to `BufSize` bytes stay in the file object until the close |
| `VerifyOpen`, `VerifyRead`, `Discard` | the read-back, the comparison of the hash, `delete` |
| `StartSeed` | `cmd_seed`, which goes on with `OpenForWrite` |
| `StorageRaises`, `WriteFails`, `CloseFails`, `Crash` | exceptions of the disk by the place where they are (not) caught; the process dies |

A directory is modelled as an inode table and a name: a handle goes on reading or
writing its file after the name was unlinked or given to another one. `SwarmInv`
holds two inductive invariants: `IInv` for directories with one task each,
`SharedInv` for directories that tasks share.

**Delivery** – the abstract promise: a task fetches, stores, and is done with the
file in place, or failed with nothing in place, or was spoilt by a fault or a
crash. Only the tasks of `Faulty` may be spoilt and only those of `Mortal` may die,
so a task that no fault reaches is held to the strong promise next to others that
are not. `Swarm` maps to it by `PhaseOf` and `CopyOf`, `DriveStore` by `PhaseAt`
and by the Drive files themselves.

**DriveStore** – processes with one token: daemons, which load the manifest and
serve, downloads, and `seed_to_drive.py`. Each await, each of the two halves of
`write_text` and each request to Drive is a step.

| Actions | Code |
|---|---|
| `Load` | `DriveAdapter.__init__`, `_load_manifest`; a text that is no JSON raises |
| `Fetch` | `download` up to the write (modules `Swarm`, `HttpFetch`) |
| `FindFolder`, `MakeFolder` | `_get_folder_id` |
| `Upload` | `_initiate_resumable_upload`, `_stream_chunks_to_drive`: the file is there with the last chunk |
| `Record`, `Save` | the entry in memory and `_save_manifest`, which empties the file and then fills it |
| `Verify` | the read-back of `download` by the id in memory |
| `Delete`, `Forget` | the two halves of `delete` |
| `Raises`, `SaveRaises`, `Crash` | a request that fails, with or without its effect; a write cut short; the process dies |

**KeyFile** – `AgentIdentity.load_or_create` of several processes: the look, the
read, and a save in two halves.

**AgentHome** – the composition of the two as programs start: identity, then
adapter (`main.py:26-47`, `cli.py:54-69`); `seed_to_drive.py` has no identity. It
uses the actions of both modules on disjoint variables, so `HomeSpec` implies
`DriveSpec` and `KeyFileSpec` (a theorem).

**HttpFetch** – a download whose sources keep their files on the file server:
`Find`, `Size`, `Get`, `Stream` are the two HEADs, the GET and one block of its body;
`Break` is a broken connection; `CopyAgain` and `CopyMore` are `cp` of
`prepare_file.sh`, which empties the file and fills it. Answers are put together by
the operators of `RangeSplit`.

**Registry** – the tracker's table as a function, its routes as operators. The
routes await nothing, so each is one step. Ages replace time stamps.

**Presence** – agent processes (`main.py`), their tracker client with time-outs
and retries, the network, the tracker. `Boot`, `Wake`, `Signal`, `LoopEnds`, `Leave`,
`Kill` are the life of the process: the loop ends when it sees the event, the process
is then `closing` for as long as uvicorn, which has no time-out for it, finishes the
requests it is serving, and only then the `finally` clause sends the departure. `Send`
within them is one attempt of `_post`, `CallFails` a transport error (tried again),
`CallRejected` a status error (raised at once). `Process` and `Query` are the
tracker's routes; `TrackerCrash` and `TrackerStart` its restarts; `StorageChanges` is
what commands do to the directory; `Tick` is time, which may not pass a deadline.
`gone` (for how long an agent has not served) and `missing` are history variables for
the properties only.

**Trust** – engines, vouches and revocations, `verify_chain` with its checks in
the order of the code, and the decisions of the endpoints. `TransferAdmitted` is
the decision of `/transfer`; it changes nothing and so is no action.

`..._proofs` modules hold the theorems. Operators named like another one with a
suffix (`SplitRangesLosingRest`, `OpenedForUpdate`, ...) are mutations: what the
definition after them would be with a plausible bug. They are not used by the
specifications; each property was seen to fail with one of them.

## 3. Abstractions

- A file is a sequence of few bytes; SHA-256 is collision free, so a checksum is
  the bytes it is of. The checksum of a chunk is computed by its sender over what it
  sends: it fails only when the response is damaged, which is part of `FetchFails`.
- A message that cannot be decoded is one more failed handshake or transfer. So is
  an HTTP status other than 200.
- The range and the sizes of a chunk are those that a peer running this repository's
  server puts into its header: peers may have wrong, shortened or changing files, but do
  not lie about what they send. In particular no chunk has more bytes than its range.
- Anchors added by the client after a handshake are not in `Swarm`: the process
  that adds them has no server. They are in `Trust`.
- Writes of a chunk are one step with any split between disk and buffer; reads go by
  `ReadSize`. A reader in another process can see any prefix that was flushed.
- DriveStore: a Drive file is named by the process that uploaded it, since a
  process uploads at most once; its content is the file or something else. The text
  of a manifest is JSON or not, is as long as it has entries, and is written by one
  call, at the beginning of the file: of two processes that have it open, the longer
  text keeps its end. An empty upload, a request refused and a request lost are all
  `Raises`. A refreshed token is as good as the one before, so the token file is left
  out. A daemon's reads change nothing; it looks at the manifest once, when it starts
  (so it neither serves nor announces what a download of the same token stored later
  until it is started again).
- HttpFetch: bytes are told apart by their offsets; the file on the server is a
  beginning of the one that is copied, and every copy is of the same file, its name
  being its hash. A body shorter than its Content-Length is an error at both ends (the
  HTTP libraries see to that). A download by an agent with this backend ends in
  `write_stream`, which always raises; it serves only.
- KeyFile: all keys have one length, so a key that is written over another replaces
  it; an empty file is `Cut`.
- DriveStore: `before` and `ended` (who was over when a process started, and where a
  process was when it ended) are history variables for the properties only.
- Presence: the two handlers of a signal, the agent's and uvicorn's, see it together. A
  second signal, on which uvicorn does not wait for its requests, is a quicker `Leave`.
  Steps take no time; the back-off sleep (0.5 s) is part of the
  unit an attempt may take; the clock of the tracker does not jump; two requests
  that agree in everything, age included, count as one.
- Trust: signatures are unforgeable (a vouch has a valid one iff it was issued as it
  is). Nothing in `src/` carries vouches between agents yet, so any agent may show
  any chain of issued vouches and of `Tampered` ones.

## 4. Runs

| Run | Instance | Shows |
|---|---|---|
| `split` | sizes 0..8, 1..3 peers, minimal chunk 1..3, blocks of 2, the file one byte shorter or longer than said, absent or empty at first, copied again once at any moment; connections break | `SplitIsPartition`, `EveryLossIsNoticed`, `AcceptedIsWhole`, `UntouchedIsServed`; under `FairSpec` `FetchesEnd` |
| `chain` | 3 agents; two downloads that may use one another as sources while the seeder's copy is rewritten; losses, crashes, disk faults at the second download; a destination with an old longer copy | `TypeOK`, `VerifiedMeansStored`, `Swarm` implements `Delivery`, and `IInv`, the invariant of the proof |
| `shared` | one directory with two downloads and a seed, one good and one bad source, sizes right and wrong, no disk faults | `QuiescentClean`, `JointSuccessMeansStored`, and `SharedInv`, the invariant of their proof |
| `liveness` | two downloads, sizes right and wrong, a source with the file or with another one, a dead one, and one another as sources; one directory has an old longer copy, which its own download empties, fills or removes while it is served; no losses | under `FairSpec`: `EveryTaskEnds`, `HoldersSuffice` |
| `presence` | 1 agent, 1 file; TTL 3, keep-alive 1, time-out 1, 2 attempts, lag 2; every fault, and transfers that keep a closing server for any time | `TypeOK`, `ForgottenAfterTTL`, `SeedersGetListed`, `NoEmptyEntry`; under `FairSpec` `ShutdownEnds` |
| `drive` | a daemon and two commands (seed or download, of one file or of two), 2 hashes, lost answers, cut writes and kills everywhere, no key file at first | `TypeOK`, `WrongBytesHaveCause`, `ManifestAgrees`, `StopsHaveWindows`, `BrokenHasCause`, `FoldersHaveCause`, `KeySettles`, `DriveStore` implements `Delivery` |
| `trust` | 4 agents in a line, `max_depth` 2, lifetimes 0 and 1, clock 0..1, 3 vouches, 1 revocation, a tampered vouch, one client that takes anchors | `TypeOK`, `ChainsReachAnchors`, `RefusalIsFinalBounded` |

Why the bounds are enough for the questions. Three bytes and two sources give a range
with a remainder, ranges shorter and longer than `ReadSize`, a cut before, in and
after a range; a copy with a byte after the end is the case the read-back cannot see.
In `liveness` a download that was told one byte too many asks for one that the old
copy has and the new one, written under the transfer, has not: the read comes back
empty for ever, and the transfer must end all the same. (A reader that went on until
it had its range would not: that mutation is among those seen to fail.) The right
size is there for `HoldersSuffice`. Three tasks in one directory are the least number
with a writer, a checker and a third that replaces the file between them. In
`presence` the lag is longer than the time-out, so requests outlive their senders and
overtake one another, and the TTL is no shorter than a keep-alive period and a failed
call, as in the code (300 s, 120 s, 2 attempts of 5 s). The bound of
`ForgottenAfterTTL` is tight: one unit less is violated. That of `SeedersGetListed`
is reached when a file is added while a call for another one is under way, so only
with a second file; with one file the worst is `MaxRetries * Timeout` less. In
`trust` the last agent is one vouch beyond `max_depth`, and a lifetime of 0 is the
boundary of expiry. With one agent and one file `presence` has the empty
table of a last departure; what holds for more of either is proved (section 5). In
`split`, 8 bytes for 3 peers give equal and unequal ranges, one and several blocks
per range and a last block that is not full, and one copy can come before, between
and after the looks of each of three transfers. In `drive`, two writers overlap at
every pair of steps with the same and with different hashes; a third writer after two
(an entry that is brought back) is covered by the theorems, which hold for any
number.

`drive` uses symmetry (neither commands nor files are told apart); it has no liveness
property, for which that would be unsound.

Deadlock is not checked in the runs of `Swarm`, `drive`, `lost_entry`, `two_keys` and `split`:
their tasks are one-shot and end. It is in the others.

Fairness. `Swarm`: a started task does its next local step (an `asyncio` process
that is not killed); a request is answered or fails (time-outs of 5 s and 30 s);
nobody has to start a task, no fault has to occur. `HttpFetch`: a transfer goes on
(both ends have time-outs); nobody has to go on with a copy, so a transfer may
find the file short for ever. `DriveStore` and `KeyFile` state safety only.
`Presence`: time passes (strong fairness of
`Tick`: steps take no time, so that two agents that stop and start could otherwise
keep it from passing), time-outs and the sleep of the keep-alive loop end, a loop
that sees the event ends (`LoopEnds`), and so does a server that closes (`Leave`): a
transfer is finite, reads of the disk end (`EveryTaskEnds`), and a requester of this
repository reads on or gives up after its time-out. A requester that kept its connection
and read nothing would keep the agent; `ShutdownEnds` does not speak of one.
Nobody has to start an agent, no tracker has to answer or come back.

### What the documentation says and the code does not do

Each has a run that TLC ends with a counterexample.

- `write_first`: `README.md:47` has the bytes verified before they are written. The
  download writes under the final name, then reads back and checks
  (`downloader.py:351-363`); until then wrong bytes can be served.
- `failed_write`: a failed `write_stream` is to leave nothing
  (`tests/test_storage.py:95-105`). The flush of a close can fail outside the
  `try` or in the `except` before the unlink (`storage.py:159,163`).
- `transfer`: `p2p_server.py:39-44` has the full chain verified again on each
  transfer. `/transfer` asks for a trust anchor only (`132`): a peer let in by a
  chain is rejected, and revocations are not looked at.
- `lost_entry`: `write_stream` is to "consume an async byte stream and persist it
  under file_hash" (`storage.py:62`). Two commands of one token that overlap both end
  well, and the manifest names the file of the one that saved last only
  (`drive_adapter.py:60-65`); the other is on Drive, and nobody finds it.
  `docker-compose.yml` gives two agents one token, and `demo.sh` has both download at
  the same time.

- `two_keys`: `load_or_create` is "what gives an agent a stable identity across
  restarts" (`identity.py:85-89`). On a new agent a daemon and a command may both find
  no key file (`91`); the one that writes last replaces the key that the other goes
  by, and the next start has that one. `KeySettles` says when the promise begins to hold.

Two more disagreements have no run. `list_files` is to give what the backend holds now
(`storage.py:74`), which a daemon with the Drive backend does not see. And
`tracker/main.py:71-73` says that an answer never includes stale addresses: an agent
that was killed is answered until its TTL has passed (`registry.py:88`), which is what
`ForgottenAfterTTL` bounds.

An empty file cannot be downloaded: it has no ranges, so nothing is fetched and
the download fails (`downloader.py:53`, `323-327`). `RangeSplit` and `Swarm` have it so,
and no property asks for anything else.

## 5. Proofs

Every invariant and every safety action property or refinement of a passing run is
stated by a theorem. Each rests on the named assumptions on the constants only,
unless a bullet says otherwise.

**Ranges**

- `RangeSplit_proofs!SplitPartitions`: for every size, number of peers and
  minimal chunk, the ranges cover the file in order, none is shorter than the
  minimal chunk (or the file), and there are no more than peers. It rests on two
  facts about integer division.
- Induction over numbers is used as `LeastElement`: a property that fails somewhere
  fails somewhere first. It is taken from the well-foundedness of `<`, since the
  library's induction rules have an operator as parameter.

**Swarm**

- `Swarm_proofs!TypeCorrect`: `TypeOK` is inductive, one lemma per action.
- `SwarmSuccess_proofs!SuccessMeansStored` (`VerifiedMeansStored`), `SuccessInvariant`
  (`IInv`), for at most one task per directory (`OneTaskPerHome`) and for any number
  of agents, tasks, sizes, copies, losses, faults and crashes. The invariant says more
  than the property, since success is decided by a read-back that stops at
  `file_size`: a transfer never holds more bytes than its range (`JobsFit`), so the
  chunks of a task that passed the coverage check have together at most
  `file_size` bytes (`PartsFit`); the file was emptied when it was opened, so it is no
  longer than what was written (`WrittenSoFar`); therefore the bytes that were read
  back are all there are (`ReadSoFar`), and their being `File` means that the
  file is. Without `OneTaskPerHome` the property is false: another task may empty or
  remove the file after the check.
- `SwarmSuccess_proofs!Refinement` (`ImplementsDelivery`), also for `OneTaskPerHome`.
  Each action is a step of one task's phase in `Delivery` or a stutter; that success is
  `Deliver` and not a claim only is `IInv`, before and after the step.
- `SwarmShared_proofs`: `SharedLeavesClean` (`QuiescentClean`), `JointSuccess`
  (`JointSuccessMeansStored`) and `SharedInvariant` (`SharedInv`), for any number of
  tasks in any number of shared directories and any losses on the network, but with
  `NoFaults`: a process that dies, or fails to write, leaves in the directory what
  it wrote, whoever else was told that all was well. The argument is about single
  offsets. Wherever the stored content differs from the file, some task *answers* for it
  (`Answers`): a seed that will still write there, a download that has yet to read it
  back or has read something wrong already, a task about to remove the file. Whoever
  spoils an offset is a download that reads back afterwards or a seed that has emptied
  the file and will write it, and whoever stops answering has put the offset right, found
  it right, or goes on to remove the file. When all have
  ended nobody answers, so nothing is wrong, unless nobody ever came to write
  (`Untouched`) or the one that failed took the file away (`GoneHasCause`). A download
  with the right size does not see what is behind the file; it answers only for what it
  sees (`Sees`), and does not write there itself (`WritesInOrder`).

**Drive and the home of an agent** (`AgentHome_proofs`, for any number of daemons,
commands, files, faults and kills)

- `TypeCorrect`; the manifest and the memories name only writers.
- `WrongBytesGo` (`WrongBytesHaveCause`), `Implements` (`ImplementsDelivery`). The
  invariant relates each step of a process to what is on Drive and in its memory: from
  `verify` to `delete` the process still has its own id for its hash, so what it
  checks and deletes is what it uploaded, whatever the manifest on disk says by then.
- `FoldersAreCaused`, `BreaksAreCaused`. A process that is in `mkdir` found no folder,
  so whoever made one since was not over when it started; a process that has the file
  open and the one that had it open last overlap.
- `ManifestKeeps` (`ManifestAgrees`). Inductive only together with what the memories
  hold: no map has an id before its process recorded it, and every writer under way,
  having loaded the manifest after an undisturbed command was over, has the right entry
  of that command in the map that it will write.
- `StopsAreWindowed` (`StopsHaveWindows`), by the same invariant, which says of a stopped
  process that each such map has its entry and its Drive file go together unless it was
  stopped in one of the two windows. The steps into the stop are what is new: before it
  recorded its upload nobody has heard of it; from `verify` on, alone, its entry is in
  the manifest; and a process stopped in its saving had emptied the file, which nobody
  can load from then on.
- `HomeIsBoth` and `KeyStays` (`KeySettles`): what is proved of `DriveStore` and of
  `KeyFile` holds of the processes as they start; and once the key file is there and
  nobody is left who found none, it never changes.

**HTTP transfers** (`HttpFetch_proofs`, for every size, number of peers, minimum range,
block size, and any copies and failures)

- `TypeCorrect`, `UntouchedServed` (`UntouchedIsServed`). Every range is non-empty and
  ends inside the file, a transfer wants at least one more byte as long as it streams,
  and a file that is left alone is there to its end, so no read of it is empty.
- `RangesPartition` (`SplitIsPartition`). That the ranges reach every offset is shown
  by the first range that ends at or after it.
- `LossIsNoticed` (`EveryLossIsNoticed`), `AcceptedAreWhole` (`AcceptedIsWhole`). A
  transfer that comes back starts where its range does, ends no later (`OriginInv`), and
  has every byte in between. So the coverage check, which looks at starts
  and ends in sorted order only, passes exactly if all ranges came back in full: the
  first one that is absent or cut leaves a gap which no other can fill. `Accepted`
  takes the sort of the code as any enumeration by increasing start; there is just one.

**Presence** (`Presence_proofs`, for any number of agents and files)

- `TypeCorrect`, `EntriesHavePeers` (`NoEmptyEntry`).
- `GoneAreForgotten` (`ForgottenAfterTTL`). Not inductive: it says nothing of requests
  under way. `AbsenceInv` does: a process that does not serve waits for no registration,
  at most one request of an agent still has somebody waiting for it, and every
  registration an agent sent, or is in the table with, is at least as old as its absence.
- `SeedersAreListed` (`SeedersGetListed`). Not inductive either: how long a file has
  been missing says nothing of how soon that ends. `ListingInv` bounds the time by what
  has passed: while the agent sleeps, by what it has slept and one call; during a call
  that names the file, by a sleep, a call and what has been spent on this one; during a
  call made before the file was stored, by what was spent on this one alone. A request
  somebody still waits for is the one of the call (`SameInv`), so when an answer ends
  a call the tracker has put just its files into the table.

**Trust** (`Trust_proofs`)

- `TypeCorrect` and `RefusalStays`: a refused chain of issued vouches stays refused
  until the engine takes a new anchor, for chains of any length (`RefusalIsFinal`) and
  so for those that TLC enumerates. A step moves the clock forward only and takes no
  vouch and no revocation back (`Monotonic`), so an edge without a fault had none before.
- `ChainsReachThusFar` (`ChainsReachAnchors`), for any depth. The set of those within
  reach is a recursive function of the number of vouches; that it is what its equation
  says at each depth, that a valid chain leads along it and that it has a valid chain to
  each of its members are three inductions, each by the least length that fails.

Only model-checked: the liveness properties `FetchesEnd`, `EveryTaskEnds`,
`HoldersSuffice` and `ShutdownEnds`, which need fairness and `ENABLED` and are out of
the prover's reach.

## 6. Not modelled, and what is left

Not modelled: the encoding of messages (pure; what does not decode is a failed
transfer), configuration, authentication and demo scripts, the token file.

What could follow:

1. Composition of `Presence` and `Swarm` on the set of listed files: a directory
   that is announced while an unchecked file is in it.
2. What still holds of a shared directory with disk faults or kills: a wrong content
   that survives is then the work of the tasks hit, or of one they stopped from
   reading back.
