-------------------------------- MODULE Presence --------------------------------
(***************************************************************************)
(* How seeding agents stay known to the tracker: the life of an agent        *)
(* process (agent/main.py), its calls to the tracker with their time-outs    *)
(* and retries (agent/tracker_client.py), the requests on the network, and   *)
(* the tracker's table (module Registry), which is in memory only.           *)
(*                                                                           *)
(* Time passes in units, by Tick, which no deadline lets pass; steps take    *)
(* none.  A request may be worked on by the tracker after its sender gave it *)
(* up, until it is Lag units old.                                            *)
(***************************************************************************)
EXTENDS Registry

CONSTANTS
  Agents,
  Files,
  KeepAlive,       \* KEEPALIVE_INTERVAL
  Timeout,         \* TrackerClient.DEFAULT_TIMEOUT
  MaxRetries,      \* TrackerClient.MAX_RETRIES: how often a request is sent
  Lag,             \* how long a request can stay on the network
  Lossy,           \* TRUE: while the tracker is up requests and answers may be lost,
                   \* or answered with an error on the way
  TrackerRestarts, \* TRUE: the tracker may crash and come back with an empty table
  MayKill          \* TRUE: agents may be killed

ASSUME PresenceAssumption ==
  /\ {KeepAlive, Timeout, MaxRetries} \subseteq Nat \ {0}
  /\ Lag \in Nat
  /\ {Lossy, TrackerRestarts, MayKill} \subseteq BOOLEAN

VARIABLES
  trackerUp,
  table,     \* the tracker's table
  run,       \* run[a]: the phase of a's process
  files,     \* files[a]: what storage.list_files() gives at a
  stop,      \* stop[a]: shutdown_event
  wait,      \* wait[a]: for how long the keep-alive loop has slept
  call,      \* call[a]: the request a waits for
  net,       \* requests that were sent and not worked on yet
  gone,      \* gone[a]: for how long a has neither served nor been about to
  missing    \* missing[a][f]: for how long a has seeded f without being listed, with
             \* the tracker up and f stored all the time

agent == << run, stop, wait, call >>
clocks == << gone, missing >>
vars == << trackerUp, table, agent, files, net, clocks >>

\* Ages are not told apart past these.
MaxGone == PeerTTL + Lag + 1
MaxMissing == KeepAlive + 2 * MaxRetries * Timeout + 1

\* The life of a process: it registers (`boot'), serves (`up'), waits for its server
\* to finish what it has under way (`closing'), and departs (`leaving').
Phases == {"off", "boot", "up", "closing", "leaving"}
Serving == {"boot", "up"}

Ops == {"register", "unregister"}
NoCall == [op |-> "none", files |-> {}, attempt |-> 0, age |-> 0]
Calls == [op : Ops, files : SUBSET Files, attempt : 1 .. MaxRetries, age : 0 .. Timeout]

\* A request; `open' while its sender waits for the answer.
Requests == [from : Agents, op : Ops, files : SUBSET Files,
             attempt : 1 .. MaxRetries, age : 0 .. Lag, open : BOOLEAN]

-------------------------------------------------------------------------------
(***************************************************************************)
(* Calls to the tracker.                                                   *)
(***************************************************************************)

\* The requests on the network once a waits for none of its own any more.  (Two
\* that agree in everything, their age included, count as one.)
GivenUp(a) == {IF m.from = a THEN [m EXCEPT !.open = FALSE] ELSE m : m \in net}

\* _post: one attempt.
Send(a, op, fs, attempt) ==
  /\ call' = [call EXCEPT ![a] = [op |-> op, files |-> fs, attempt |-> attempt, age |-> 0]]
  /\ net' = GivenUp(a) \cup {[from |-> a, op |-> op, files |-> fs,
                              attempt |-> attempt, age |-> 0, open |-> TRUE]}

NoCallOf(a) == call' = [call EXCEPT ![a] = NoCall]

\* The process of a is over; its sockets are closed.
Exit(a) ==
  /\ run' = [run EXCEPT ![a] = "off"]
  /\ stop' = [stop EXCEPT ![a] = FALSE]
  /\ wait' = [wait EXCEPT ![a] = 0]
  /\ NoCallOf(a)
  /\ net' = GivenUp(a)

\* The finally clause of run: leave every swarm, as well as it goes.
Depart(a) ==
  /\ run' = [run EXCEPT ![a] = "leaving"]
  /\ stop' = [stop EXCEPT ![a] = FALSE]
  /\ wait' = [wait EXCEPT ![a] = 0]
  /\ Send(a, "unregister", {}, 1)

\* The awaited call of a has its answer.  After the first registration the server
\* is started; after a keep-alive the loop sleeps again.
Succeed(a) ==
  /\ run' = [run EXCEPT ![a] = IF @ = "leaving" THEN "off" ELSE "up"]
  /\ wait' = [wait EXCEPT ![a] = 0]
  /\ NoCallOf(a)
  /\ UNCHANGED stop

\* TrackerError.  Nothing catches it but unregister: at the start it ends the
\* process before the server is up; from the keep-alive loop it takes the whole
\* agent down, and the departure does not wait for the server.
Fail(a) == IF run[a] = "up" THEN Depart(a) ELSE Exit(a)

\* What the routes do with a request.
Worked(m) ==
  IF m.op = "register" THEN Registered(table, m.files, m.from)
                       ELSE UnregisteredAll(table, m.from)

\* The tracker works on a request, and the answer gets back if somebody waits
\* for it, or is lost.
Process(m) ==
  /\ trackerUp
  /\ table' = Worked(m)
  /\ net' = net \ {m}
  /\ \/ m.open /\ Succeed(m.from)
     \/ (m.open => Lossy) /\ UNCHANGED agent
  /\ missing' = [missing EXCEPT ![m.from] =
                   [f \in Files |-> IF m.from \in Live(table', f) THEN 0 ELSE @[f]]]
  /\ UNCHANGED << trackerUp, files, gone >>

CallFailsUncounted(a) ==
  /\ call[a] # NoCall
  /\ call[a].age = Timeout \/ Lossy \/ ~trackerUp
  /\ Send(a, call[a].op, call[a].files, call[a].attempt)
  /\ UNCHANGED << run, stop, wait, trackerUp, table, files, clocks >>

CallFailsAgain(a) ==
  /\ call[a] # NoCall
  /\ call[a].age = Timeout \/ Lossy \/ ~trackerUp
  /\ Send(a, call[a].op, call[a].files, call[a].attempt + 1)
  /\ UNCHANGED << run, stop, wait, trackerUp, table, files, clocks >>

\* A transport error or a time-out: the request is sent again, which may make two
\* of it, until the attempts are used up.
CallFails(a) ==
  /\ call[a] # NoCall
  /\ call[a].age = Timeout \/ Lossy \/ ~trackerUp
  /\ IF call[a].attempt < MaxRetries
     THEN /\ Send(a, call[a].op, call[a].files, call[a].attempt + 1)
          /\ UNCHANGED << run, stop, wait >>
     ELSE Fail(a)
  /\ UNCHANGED << trackerUp, table, files, clocks >>

\* An HTTP status error (the routes give none, what is between may): it is raised
\* at once, whatever attempts are left, and says nothing of what the tracker does.
CallRejected(a) ==
  /\ call[a] # NoCall
  /\ Lossy
  /\ Fail(a)
  /\ UNCHANGED << trackerUp, table, files, clocks >>

-------------------------------------------------------------------------------
(***************************************************************************)
(* The agent process.                                                      *)
(***************************************************************************)

\* run: the files found at the start are registered before the server is up.
Boot(a) ==
  /\ run[a] = "off"
  /\ IF files[a] = {}
     THEN /\ run' = [run EXCEPT ![a] = "up"]
          /\ UNCHANGED << call, net >>
     ELSE /\ run' = [run EXCEPT ![a] = "boot"]
          /\ Send(a, "register", files[a], 1)
  /\ gone' = [gone EXCEPT ![a] = 0]
  /\ missing' = [missing EXCEPT ![a] = [f \in Files |-> 0]]
  /\ UNCHANGED << trackerUp, table, files, stop, wait >>

\* keepalive_loop: the sleep is over, what is stored now is registered again.
Wake(a) ==
  /\ run[a] = "up"
  /\ call[a] = NoCall
  /\ wait[a] = KeepAlive
  /\ IF files[a] = {}
     THEN /\ wait' = [wait EXCEPT ![a] = 0]
          /\ UNCHANGED << call, net >>
     ELSE /\ Send(a, "register", files[a], 1)
          /\ UNCHANGED wait
  /\ UNCHANGED << trackerUp, table, files, run, stop, clocks >>

\* SIGINT or SIGTERM, once the handlers are installed.
Signal(a) ==
  /\ run[a] = "up"
  /\ ~stop[a]
  /\ stop' = [stop EXCEPT ![a] = TRUE]
  /\ UNCHANGED << trackerUp, table, files, run, wait, call, net, clocks >>

\* The loop sees the event, not before a keep-alive that is under way has ended.
\* Nothing is registered again from here on, nor are connections accepted (uvicorn
\* has seen the signal as well).
LoopEnds(a) ==
  /\ run[a] = "up"
  /\ stop[a]
  /\ call[a] = NoCall
  /\ run' = [run EXCEPT ![a] = "closing"]
  /\ wait' = [wait EXCEPT ![a] = 0]
  /\ UNCHANGED << trackerUp, table, files, stop, call, net, clocks >>

\* The gather is over once the server is too: it lets the requests under way come to
\* their end, for as long as they take.
Leave(a) ==
  /\ run[a] = "closing"
  /\ Depart(a)
  /\ UNCHANGED << trackerUp, table, files, clocks >>

Kill(a) ==
  /\ MayKill
  /\ run[a] # "off"
  /\ Exit(a)
  /\ UNCHANGED << trackerUp, table, files, clocks >>

\* Commands of the same directory add a file or take one away (module Swarm).
StorageChanges(a, f) ==
  /\ files' = [files EXCEPT ![a] = IF f \in @ THEN @ \ {f} ELSE @ \cup {f}]
  /\ missing' = [missing EXCEPT ![a][f] = 0]
  /\ UNCHANGED << trackerUp, table, agent, net, gone >>

-------------------------------------------------------------------------------
(***************************************************************************)
(* The tracker.                                                            *)
(***************************************************************************)

\* The peers that GET /peers answers with ...
Answer(f) == Live(table, f)

\* ... and its effect.
Query(f) ==
  /\ trackerUp
  /\ table' = Pruned(table, f)
  /\ UNCHANGED << trackerUp, agent, files, net, clocks >>

TrackerCrash ==
  /\ TrackerRestarts
  /\ trackerUp
  /\ trackerUp' = FALSE
  /\ table' = NoEntry
  /\ missing' = [a \in Agents |-> [f \in Files |-> 0]]
  /\ UNCHANGED << agent, files, net, gone >>

TrackerStart ==
  /\ ~trackerUp
  /\ trackerUp' = TRUE
  /\ UNCHANGED << table, agent, files, net, clocks >>

-------------------------------------------------------------------------------
(***************************************************************************)
(* Time.                                                                   *)
(***************************************************************************)

\* A unit may pass unless somebody has something to do at once.
Tick ==
  /\ \A a \in Agents :
       IF call[a] # NoCall THEN call[a].age < Timeout
       ELSE run[a] = "up" => wait[a] < KeepAlive /\ ~stop[a]
  /\ table' = Aged(table)
  /\ call' = [a \in Agents |-> IF call[a] = NoCall THEN NoCall ELSE [call[a] EXCEPT !.age = @ + 1]]
  /\ wait' = [a \in Agents |->
                IF run[a] = "up" /\ call[a] = NoCall THEN wait[a] + 1 ELSE wait[a]]
  /\ net' = {[m EXCEPT !.age = @ + 1] : m \in {n \in net : n.age < Lag}}
  /\ gone' = [a \in Agents |->
                IF run[a] \notin Serving /\ gone[a] < MaxGone THEN gone[a] + 1 ELSE gone[a]]
  /\ missing' = [a \in Agents |-> [f \in Files |->
                   IF run[a] = "up" /\ f \in files[a] /\ trackerUp /\ a \notin Answer(f)
                   THEN IF missing[a][f] < MaxMissing THEN missing[a][f] + 1 ELSE MaxMissing
                   ELSE 0]]
  /\ UNCHANGED << trackerUp, run, files, stop >>

-------------------------------------------------------------------------------
Init ==
  /\ trackerUp = TRUE
  /\ table = NoEntry
  /\ run = [a \in Agents |-> "off"]
  /\ files \in [Agents -> SUBSET Files]
  /\ stop = [a \in Agents |-> FALSE]
  /\ wait = [a \in Agents |-> 0]
  /\ call = [a \in Agents |-> NoCall]
  /\ net = {}
  /\ gone = [a \in Agents |-> MaxGone]
  /\ missing = [a \in Agents |-> [f \in Files |-> 0]]

Next ==
  \/ \E a \in Agents : \/ Boot(a) \/ Wake(a) \/ Signal(a) \/ LoopEnds(a) \/ Leave(a) \/ Kill(a)
                      \/ CallFails(a) \/ CallRejected(a)
  \/ \E a \in Agents, f \in Files : StorageChanges(a, f)
  \/ \E m \in net : Process(m)
  \/ \E f \in Files : Query(f)
  \/ TrackerCrash \/ TrackerStart
  \/ Tick

\* Time goes on however busy the agents are (strong fairness: what they do takes no
\* time, so that without it they could keep it from passing for ever), sleeps and
\* time-outs end, a loop whose event is set ends, and so does a server that closes:
\* a transfer is finite, and its requester reads on or gives up.  Nobody has to
\* start an agent, no tracker has to answer, and a crashed one need not come back.
Fairness ==
  /\ SF_vars(Tick)
  /\ \A a \in Agents : /\ WF_vars(CallFails(a)) /\ WF_vars(Wake(a))
                      /\ WF_vars(LoopEnds(a)) /\ WF_vars(Leave(a))

Spec == Init /\ [][Next]_vars
FairSpec == Spec /\ Fairness

-------------------------------------------------------------------------------
(***************************************************************************)
(* Properties.                                                             *)
(***************************************************************************)

TypeOK ==
  /\ trackerUp \in BOOLEAN
  /\ DOMAIN table \subseteq Files
  /\ \A f \in DOMAIN table :
       DOMAIN table[f] \subseteq Agents /\ \A a \in DOMAIN table[f] : table[f][a] \in Nat
  /\ run \in [Agents -> Phases]
  /\ files \in [Agents -> SUBSET Files]
  /\ stop \in [Agents -> BOOLEAN]
  /\ wait \in [Agents -> 0 .. KeepAlive]
  /\ call \in [Agents -> Calls \cup {NoCall}]
  /\ net \subseteq Requests
  /\ gone \in [Agents -> 0 .. MaxGone]
  /\ missing \in [Agents -> [Files -> 0 .. MaxMissing]]

\* A hash is in the tracker's table, and so in the answer of GET /files, only
\* while somebody is registered for it: whatever order registrations, departures
\* and expiries come in, no empty entry is left behind (tracker/registry.py:64-101).
NoEmptyEntry == \A f \in DOMAIN table : DOMAIN table[f] # {}

\* An agent that serves no more - killed or failed, or told to stop and waiting for
\* its last transfers for however long, its last requests still on their way and its
\* departure late, lost or overtaken - is not handed out as a peer once the TTL and
\* the network's lag have passed (tracker/registry.py:77-94, agent/main.py:107-117).
ForgottenAfterTTL ==
  \A f \in Files : \A a \in Answer(f) : gone[a] =< PeerTTL + Lag

\* A running agent is listed for what it stores, or will be within one sleep and
\* two calls: after it was started, after a file was added, after the tracker lost
\* its table, after a stray departure of an earlier process of the same agent
\* (agent/main.py:66-96).
SeedersGetListed ==
  \A a \in Agents, f \in Files : missing[a][f] =< KeepAlive + 2 * MaxRetries * Timeout

\* An agent that is told to stop, and one that fails, is gone in the end: its loop
\* and its server end both, and no tracker that does not answer keeps it
\* (agent/main.py:84-117, agent/tracker_client.py:104-119).
ShutdownEnds ==
  \A a \in Agents : stop[a] \/ run[a] \in {"boot", "leaving"} ~>
                      ~stop[a] /\ run[a] \in {"off", "up"}
=================================================================================
