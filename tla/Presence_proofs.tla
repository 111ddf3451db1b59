---------------------------- MODULE Presence_proofs ----------------------------
(***************************************************************************)
(* The agents and the tracker's table, for any number of agents and files:  *)
(* type correctness, that no entry of the table is empty, that agents that  *)
(* are gone are forgotten, and that those that seed get listed in time.      *)
(***************************************************************************)
EXTENDS Presence, TLAPS

-------------------------------------------------------------------------------
(***************************************************************************)
(* The operations of the table.                                            *)
(***************************************************************************)

NoEmpty(tab) == \A f \in DOMAIN tab : DOMAIN tab[f] # {}

LEMMA RegisteredKeeps ==
  ASSUME NEW tab, NEW fs, NEW a, NoEmpty(tab)
  PROVE  NoEmpty(Registered(tab, fs, a))
BY DEF NoEmpty, Registered

LEMMA RemovedKeeps ==
  ASSUME NEW tab, NEW fs, NEW leaving, NoEmpty(tab)
  PROVE  NoEmpty(Removed(tab, fs, leaving))
BY DEF NoEmpty, Removed, Restrict

LEMMA AgedKeeps ==
  ASSUME NEW tab, NoEmpty(tab)
  PROVE  NoEmpty(Aged(tab))
BY DEF NoEmpty, Aged

LEMMA NoEntryKeeps == NoEmpty(NoEntry)
BY DEF NoEmpty, NoEntry

-------------------------------------------------------------------------------
LEMMA NoEmptyInit == Init => NoEmptyEntry
BY NoEntryKeeps DEF Init, NoEmptyEntry, NoEmpty

LEMMA NoEmptyStep == NoEmptyEntry /\ [Next]_vars => NoEmptyEntry'
<1> SUFFICES ASSUME NoEmpty(table), [Next]_vars PROVE NoEmpty(table')
  BY DEF NoEmptyEntry, NoEmpty
<1>1. CASE table' = table
  BY <1>1
<1>2. ASSUME NEW m \in net, Process(m)
      PROVE  NoEmpty(table')
  BY <1>2, RegisteredKeeps, RemovedKeeps DEF Process, Worked, UnregisteredAll, Unregistered
<1>3. ASSUME NEW f \in Files, Query(f)
      PROVE  NoEmpty(table')
  BY <1>3, RemovedKeeps DEF Query, Pruned
<1>4. CASE TrackerCrash
  BY <1>4, NoEntryKeeps DEF TrackerCrash
<1>5. CASE Tick
  BY <1>5, AgedKeeps DEF Tick
<1>6. ASSUME NEW a \in Agents,
             Boot(a) \/ Wake(a) \/ Signal(a) \/ LoopEnds(a) \/ Leave(a) \/ Kill(a)
               \/ CallFails(a) \/ CallRejected(a)
      PROVE  table' = table
  BY <1>6 DEF Boot, Wake, Signal, LoopEnds, Leave, Kill, CallFails, CallRejected
<1>7. ASSUME NEW a \in Agents, NEW f \in Files, StorageChanges(a, f)
      PROVE  table' = table
  BY <1>7 DEF StorageChanges
<1>8. CASE TrackerStart
  BY <1>1, <1>8 DEF TrackerStart
<1>9. CASE UNCHANGED vars
  BY <1>1, <1>9 DEF vars
<1> QED  BY <1>1, <1>2, <1>3, <1>4, <1>5, <1>6, <1>7, <1>8, <1>9 DEF Next

\* Whatever number of agents register, leave and expire, in whatever order and with
\* requests lost, late or doubled, GET /files lists no hash without a peer
\* (tracker/registry.py:64-101).
THEOREM EntriesHavePeers == Spec => []NoEmptyEntry
BY NoEmptyInit, NoEmptyStep, PTL DEF Spec

-------------------------------------------------------------------------------
(***************************************************************************)
(* Type correctness.                                                       *)
(***************************************************************************)

Table(tab) ==
  /\ DOMAIN tab \subseteq Files
  /\ \A f \in DOMAIN tab :
       DOMAIN tab[f] \subseteq Agents /\ \A a \in DOMAIN tab[f] : tab[f][a] \in Nat

AgentOK ==
  /\ run \in [Agents -> Phases]
  /\ stop \in [Agents -> BOOLEAN]
  /\ wait \in [Agents -> 0 .. KeepAlive]
  /\ call \in [Agents -> Calls \cup {NoCall}]

RestOK ==
  /\ trackerUp \in BOOLEAN
  /\ files \in [Agents -> SUBSET Files]
  /\ gone \in [Agents -> 0 .. MaxGone]
  /\ missing \in [Agents -> [Files -> 0 .. MaxMissing]]

NetOK == net \subseteq Requests

LEMMA TypeParts == TypeOK <=> Table(table) /\ AgentOK /\ RestOK /\ NetOK
BY DEF TypeOK, Table, AgentOK, RestOK, NetOK

LEMMA Bounds ==
  /\ KeepAlive \in Nat \ {0} /\ Timeout \in Nat \ {0} /\ MaxRetries \in Nat \ {0}
  /\ PeerTTL \in Nat /\ Lag \in Nat /\ MaxGone \in Nat \ {0} /\ MaxMissing \in Nat \ {0}
BY PresenceAssumption, RegistryAssumption DEF MaxGone, MaxMissing

LEMMA RegisteredTable ==
  ASSUME NEW tab, Table(tab), NEW fs \in SUBSET Files, NEW a \in Agents
  PROVE  Table(Registered(tab, fs, a))
BY DEF Table, Registered, Entry, NoEntry

LEMMA RemovedTable ==
  ASSUME NEW tab, Table(tab), NEW fs, NEW leaving
  PROVE  Table(Removed(tab, fs, leaving))
BY DEF Table, Removed, Restrict

LEMMA AgedTable ==
  ASSUME NEW tab, Table(tab)
  PROVE  Table(Aged(tab))
BY DEF Table, Aged

LEMMA NoEntryTable == Table(NoEntry)
BY DEF Table, NoEntry

LEMMA GivenUpType ==
  ASSUME NetOK, NEW a \in Agents
  PROVE  GivenUp(a) \subseteq Requests
<1> SUFFICES ASSUME NEW m \in net
             PROVE  [m EXCEPT !.open = FALSE] \in Requests /\ m \in Requests
  BY DEF GivenUp
<1> QED  BY DEF NetOK, Requests

LEMMA SendType ==
  ASSUME AgentOK, NetOK, NEW a \in Agents, NEW op \in Ops, NEW fs \in SUBSET Files,
         NEW attempt \in 1 .. MaxRetries, Send(a, op, fs, attempt)
  PROVE  call' \in [Agents -> Calls \cup {NoCall}] /\ NetOK'
<1>1. [op |-> op, files |-> fs, attempt |-> attempt, age |-> 0] \in Calls
  BY Bounds DEF Calls
<1>2. [from |-> a, op |-> op, files |-> fs, attempt |-> attempt, age |-> 0, open |-> TRUE]
        \in Requests
  BY Bounds DEF Requests
<1>3. call' \in [Agents -> Calls \cup {NoCall}]
  BY <1>1 DEF Send, AgentOK
<1> QED  BY <1>2, <1>3, GivenUpType DEF Send, NetOK

LEMMA DepartType ==
  ASSUME AgentOK, NetOK, NEW a \in Agents, Depart(a)
  PROVE  AgentOK' /\ NetOK'
<1>1. call' \in [Agents -> Calls \cup {NoCall}] /\ NetOK'
  BY SendType, Bounds DEF Depart, Ops
<1>2. 0 \in 0 .. KeepAlive
  BY Bounds
<1>3. /\ run' \in [Agents -> Phases]
      /\ stop' \in [Agents -> BOOLEAN]
      /\ wait' \in [Agents -> 0 .. KeepAlive]
  BY <1>2 DEF Depart, AgentOK, Phases
<1> QED  BY <1>1, <1>3 DEF AgentOK

LEMMA ExitType ==
  ASSUME AgentOK, NetOK, NEW a \in Agents, Exit(a)
  PROVE  AgentOK' /\ NetOK'
<1>1. NetOK'
  BY GivenUpType DEF Exit, NetOK
<1>2. call' \in [Agents -> Calls \cup {NoCall}]
  BY DEF Exit, NoCallOf, AgentOK
<1>3. 0 \in 0 .. KeepAlive
  BY Bounds
<1>4. /\ run' \in [Agents -> Phases]
      /\ stop' \in [Agents -> BOOLEAN]
      /\ wait' \in [Agents -> 0 .. KeepAlive]
  BY <1>3 DEF Exit, AgentOK, Phases
<1> QED  BY <1>1, <1>2, <1>4 DEF AgentOK

LEMMA FailType ==
  ASSUME AgentOK, NetOK, NEW a \in Agents, Fail(a)
  PROVE  AgentOK' /\ NetOK'
BY DepartType, ExitType DEF Fail

LEMMA InitTypeOK == Init => TypeOK
<1> SUFFICES ASSUME Init PROVE TypeOK
  OBVIOUS
<1>1. Table(table)
  BY NoEntryTable DEF Init
<1>2. AgentOK /\ RestOK /\ NetOK
  BY Bounds DEF Init, AgentOK, RestOK, NetOK, Phases
<1> QED  BY <1>1, <1>2, TypeParts

LEMMA NextTypeOK == TypeOK /\ [Next]_vars => TypeOK'
<1> SUFFICES ASSUME TypeOK, [Next]_vars
             PROVE  TypeOK'
  OBVIOUS
<1>0. Table(table) /\ AgentOK /\ RestOK /\ NetOK
  BY TypeParts
<1> USE <1>0
<1>1. ASSUME NEW a \in Agents, Boot(a)
      PROVE  Table(table)' /\ AgentOK' /\ RestOK' /\ NetOK'
  <2>1. RestOK' /\ Table(table)'
    BY <1>1, Bounds DEF Boot, RestOK, Table
  <2>2. CASE files[a] = {}
    BY <1>1, <2>1, <2>2 DEF Boot, AgentOK, NetOK, Phases
  <2>3. CASE files[a] # {}
    <3>1. files[a] \in SUBSET Files /\ 1 \in 1 .. MaxRetries /\ "register" \in Ops
      BY Bounds DEF Ops, RestOK
    <3>2. Send(a, "register", files[a], 1)
      BY <1>1, <2>3 DEF Boot
    <3>3. call' \in [Agents -> Calls \cup {NoCall}] /\ NetOK'
      BY <3>1, <3>2, SendType
    <3> QED  BY <1>1, <2>1, <2>3, <3>3 DEF Boot, AgentOK, Phases
  <2> QED  BY <2>2, <2>3
<1>2. ASSUME NEW a \in Agents, Wake(a)
      PROVE  Table(table)' /\ AgentOK' /\ RestOK' /\ NetOK'
  <2>1. RestOK' /\ Table(table)'
    BY <1>2 DEF Wake, RestOK, Table, clocks
  <2>2. CASE files[a] = {}
    BY <1>2, <2>1, <2>2, Bounds DEF Wake, AgentOK, NetOK
  <2>3. CASE files[a] # {}
    <3>1. files[a] \in SUBSET Files /\ 1 \in 1 .. MaxRetries /\ "register" \in Ops
      BY Bounds DEF Ops, RestOK
    <3>2. Send(a, "register", files[a], 1)
      BY <1>2, <2>3 DEF Wake
    <3>3. call' \in [Agents -> Calls \cup {NoCall}] /\ NetOK'
      BY <3>1, <3>2, SendType
    <3> QED  BY <1>2, <2>1, <2>3, <3>3 DEF Wake, AgentOK
  <2> QED  BY <2>2, <2>3
<1>3. ASSUME NEW a \in Agents, Signal(a) \/ LoopEnds(a)
      PROVE  Table(table)' /\ AgentOK' /\ RestOK' /\ NetOK'
  <2>1. CASE Signal(a)
    BY <2>1 DEF Signal, Table, AgentOK, RestOK, NetOK, clocks
  <2>2. CASE LoopEnds(a)
    BY <2>2, Bounds DEF LoopEnds, Phases, Table, AgentOK, RestOK, NetOK, clocks
  <2> QED  BY <1>3, <2>1, <2>2
<1>4. ASSUME NEW a \in Agents, Leave(a) \/ Kill(a) \/ CallRejected(a)
      PROVE  Table(table)' /\ AgentOK' /\ RestOK' /\ NetOK'
  <2>1. AgentOK' /\ NetOK'
    BY <1>4, DepartType, ExitType, FailType DEF Leave, Kill, CallRejected
  <2> QED  BY <1>4, <2>1 DEF Leave, Kill, CallRejected, Table, RestOK, clocks
<1>5. ASSUME NEW a \in Agents, CallFails(a)
      PROVE  Table(table)' /\ AgentOK' /\ RestOK' /\ NetOK'
  <2>1. call[a] \in Calls
    BY <1>5 DEF CallFails, AgentOK
  <2>2. CASE call[a].attempt < MaxRetries
    <3>1. call[a].op \in Ops /\ call[a].files \in SUBSET Files
          /\ call[a].attempt + 1 \in 1 .. MaxRetries
      BY <2>1, <2>2, Bounds DEF Calls
    <3>2. call' \in [Agents -> Calls \cup {NoCall}] /\ NetOK'
      BY <1>5, <2>2, <3>1, SendType DEF CallFails
    <3> QED  BY <1>5, <2>2, <3>2 DEF CallFails, AgentOK, Table, RestOK, clocks
  <2>3. CASE ~(call[a].attempt < MaxRetries)
    <3>1. AgentOK' /\ NetOK'
      BY <1>5, <2>3, FailType DEF CallFails
    <3> QED  BY <1>5, <3>1 DEF CallFails, Table, RestOK, clocks
  <2> QED  BY <2>2, <2>3
<1>6. ASSUME NEW a \in Agents, NEW f \in Files, StorageChanges(a, f)
      PROVE  Table(table)' /\ AgentOK' /\ RestOK' /\ NetOK'
  BY <1>6, Bounds DEF StorageChanges, Table, AgentOK, RestOK, NetOK, agent
<1>7. ASSUME NEW m \in net, Process(m)
      PROVE  Table(table)' /\ AgentOK' /\ RestOK' /\ NetOK'
  <2>1. m.from \in Agents /\ m.files \in SUBSET Files
    BY DEF NetOK, Requests
  <2>2. Table(table)'
    <3>1. Table(Registered(table, m.files, m.from))
      BY <2>1, RegisteredTable
    <3>2. Table(UnregisteredAll(table, m.from))
      BY RemovedTable DEF UnregisteredAll, Unregistered
    <3> QED  BY <1>7, <3>1, <3>2 DEF Process, Worked
  <2>3. NetOK'
    BY <1>7 DEF Process, NetOK
  <2>4. AgentOK'
    <3>1. CASE Succeed(m.from)
      BY <2>1, <3>1, Bounds DEF Succeed, NoCallOf, AgentOK, Phases
    <3>2. CASE UNCHANGED agent
      BY <3>2 DEF agent, AgentOK
    <3> QED  BY <1>7, <3>1, <3>2 DEF Process
  <2>5. RestOK'
    BY <1>7, <2>1, Bounds DEF Process, RestOK
  <2> QED  BY <2>2, <2>3, <2>4, <2>5
<1>8. ASSUME NEW f \in Files, Query(f)
      PROVE  Table(table)' /\ AgentOK' /\ RestOK' /\ NetOK'
  <2>1. Table(table)'
    BY <1>8, RemovedTable DEF Query, Pruned
  <2> QED  BY <1>8, <2>1 DEF Query, AgentOK, RestOK, NetOK, agent, clocks
<1>9. ASSUME TrackerCrash
      PROVE  Table(table)' /\ AgentOK' /\ RestOK' /\ NetOK'
  <2>1. Table(table)'
    BY <1>9, NoEntryTable DEF TrackerCrash
  <2>2. AgentOK' /\ NetOK'
    BY <1>9 DEF TrackerCrash, AgentOK, NetOK, agent
  <2>3. 0 \in 0 .. MaxMissing
    BY Bounds
  <2>4. missing' \in [Agents -> [Files -> 0 .. MaxMissing]]
    BY <1>9, <2>3 DEF TrackerCrash
  <2>5. RestOK'
    BY <1>9, <2>4 DEF TrackerCrash, RestOK
  <2> QED  BY <2>1, <2>2, <2>5
<1>10. ASSUME TrackerStart
      PROVE  Table(table)' /\ AgentOK' /\ RestOK' /\ NetOK'
  BY <1>10 DEF TrackerStart, Table, AgentOK, RestOK, NetOK, agent, clocks
<1>11. ASSUME Tick
      PROVE  Table(table)' /\ AgentOK' /\ RestOK' /\ NetOK'
  <2>1. Table(table)'
    BY <1>11, AgedTable DEF Tick
  <2>2. call' \in [Agents -> Calls \cup {NoCall}]
    <3>1. ASSUME NEW a \in Agents, call[a] # NoCall
          PROVE  [call[a] EXCEPT !.age = @ + 1] \in Calls
      <4>1. call[a] \in Calls /\ call[a].age < Timeout
        BY <1>11, <3>1 DEF Tick, AgentOK
      <4>2. call[a].age + 1 \in 0 .. Timeout
        BY <4>1, Bounds DEF Calls
      <4> QED  BY <4>1, <4>2 DEF Calls
    <3> QED  BY <1>11, <3>1 DEF Tick
  <2>3. wait' \in [Agents -> 0 .. KeepAlive]
    BY <1>11, Bounds DEF Tick, AgentOK
  <2>4. NetOK'
    <3>1. ASSUME NEW m \in net, m.age < Lag
          PROVE  [m EXCEPT !.age = @ + 1] \in Requests
      BY <3>1, Bounds DEF NetOK, Requests
    <3> QED  BY <1>11, <3>1 DEF Tick, NetOK
  <2>5. gone' \in [Agents -> 0 .. MaxGone]
    BY <1>11, Bounds DEF Tick, RestOK
  <2>6. missing' \in [Agents -> [Files -> 0 .. MaxMissing]]
    BY <1>11, Bounds DEF Tick, RestOK
  <2> QED  BY <1>11, <2>1, <2>2, <2>3, <2>4, <2>5, <2>6 DEF Tick, AgentOK, RestOK
<1>12. ASSUME UNCHANGED vars
      PROVE  Table(table)' /\ AgentOK' /\ RestOK' /\ NetOK'
  BY <1>12 DEF vars, Table, AgentOK, RestOK, NetOK, agent, clocks
<1>13. Table(table)' /\ AgentOK' /\ RestOK' /\ NetOK'
  BY <1>1, <1>2, <1>3, <1>4, <1>5, <1>6, <1>7, <1>8, <1>9, <1>10, <1>11, <1>12 DEF Next
<1> QED  BY <1>13 DEF TypeOK, Table, AgentOK, RestOK, NetOK

\* Every variable keeps its type: no call is sent more often than MAX_RETRIES or
\* waited for past its time-out, and no sleep is missed
\* (agent/tracker_client.py:151-172, agent/main.py:83-90).
THEOREM TypeCorrect == Spec => []TypeOK
BY InitTypeOK, NextTypeOK, PTL DEF Spec
-------------------------------------------------------------------------------
(***************************************************************************)
(* Agents that are gone are forgotten.  One that does not serve waits for    *)
(* no registration, so none is sent again for it and no answer puts it back  *)
(* to work; and the registrations it sent, and those that were worked on,    *)
(* are at least as old as its absence.                                       *)
(***************************************************************************)

PresentInv == \A a \in Agents : run[a] \in Serving => gone[a] = 0
CallInv ==
  \A a \in Agents : call[a] # NoCall =>
    \/ run[a] \in Serving
    \/ run[a] = "leaving" /\ call[a].op = "unregister"
OpenInv ==
  /\ \A m \in net : m.open => call[m.from] # NoCall
  /\ \A m, n \in net : m.open /\ n.open /\ m.from = n.from => m = n
SentInv == \A m \in net : m.op = "register" => gone[m.from] =< m.age
ListedInv == \A f \in DOMAIN table : \A a \in DOMAIN table[f] : gone[a] =< table[f][a] + Lag
AbsenceInv == PresentInv /\ CallInv /\ OpenInv /\ SentInv /\ ListedInv

LEMMA GivenUpOlder ==
  ASSUME NetOK, NEW a \in Agents, NEW m \in GivenUp(a)
  PROVE  /\ m.from = a => ~m.open
         /\ m.from # a => m \in net
         /\ \E n \in net : n.from = m.from /\ n.age = m.age /\ n.op = m.op
<1>1. PICK n \in net : m = IF n.from = a THEN [n EXCEPT !.open = FALSE] ELSE n
  BY DEF GivenUp
<1>2. n \in Requests
  BY DEF NetOK
<1> QED  BY <1>1, <1>2 DEF Requests

LEMMA IsCall ==
  ASSUME NEW op, NEW fs, NEW attempt \in Nat \ {0}, NEW age
  PROVE  [op |-> op, files |-> fs, attempt |-> attempt, age |-> age] # NoCall
<1> DEFINE made == [op |-> op, files |-> fs, attempt |-> attempt, age |-> age]
<1>1. made.attempt # NoCall.attempt
  BY DEF NoCall
<1> QED  BY <1>1

\* Registrations are sent by agents that serve.
LEMMA SendKeeps ==
  ASSUME AgentOK, NetOK, AbsenceInv, gone \in [Agents -> Nat],
         NEW a \in Agents, NEW op, NEW fs, NEW attempt \in Nat \ {0}, Send(a, op, fs, attempt),
         op = "register" => gone'[a] = 0, gone'[a] \in {0, gone[a]},
         \A b \in Agents \ {a} : gone'[b] = gone[b]
  PROVE  OpenInv' /\ SentInv'
<1> DEFINE new == [from |-> a, op |-> op, files |-> fs, attempt |-> attempt,
                   age |-> 0, open |-> TRUE]
<1>1. net' = GivenUp(a) \cup {new}
  BY DEF Send
<1>2. \A m \in net : m.from \in Agents /\ m.age \in Nat
  BY Bounds DEF NetOK, Requests
<1>3. call'[a] # NoCall /\ \A b \in Agents \ {a} : call'[b] = call[b]
  BY IsCall DEF Send, AgentOK
<1>4. OpenInv'
  <2>1. ASSUME NEW m \in net', m.open
        PROVE  m = new \/ (m \in net /\ m.from # a)
    BY <1>1, <2>1, GivenUpOlder
  <2>2. ASSUME NEW m \in net', m.open
        PROVE  call'[m.from] # NoCall
    BY <2>1, <2>2, <1>2, <1>3 DEF AbsenceInv, OpenInv
  <2>3. ASSUME NEW m \in net', NEW n \in net', m.open, n.open, m.from = n.from
        PROVE  m = n
    <3>1. new.from = a
      OBVIOUS
    <3>2. m = new \/ (m \in net /\ m.from # a)
      BY <2>1, <2>3
    <3>3. n = new \/ (n \in net /\ n.from # a)
      BY <2>1, <2>3
    <3> HIDE DEF new
    <3>4. CASE m = new \/ n = new
      BY <2>3, <3>1, <3>2, <3>3, <3>4
    <3>5. CASE m # new /\ n # new
      BY <2>3, <3>2, <3>3, <3>5 DEF AbsenceInv, OpenInv
    <3> QED  BY <3>4, <3>5
  <2> QED  BY <2>2, <2>3 DEF OpenInv
<1>5. ASSUME NEW m \in net', m.op = "register"
      PROVE  gone'[m.from] =< m.age
  <2>1. CASE m = new
    BY <1>5, <2>1
  <2>2. CASE m \in GivenUp(a)
    <3>1. PICK n \in net : n.from = m.from /\ n.age = m.age /\ n.op = m.op
      BY <2>2, GivenUpOlder
    <3>2. gone[n.from] =< n.age
      BY <1>5, <3>1 DEF AbsenceInv, SentInv
    <3> QED  BY <1>2, <3>1, <3>2
  <2> QED  BY <1>1, <2>1, <2>2
<1> QED  BY <1>4, <1>5 DEF SentInv

LEMMA DepartKeeps ==
  ASSUME AgentOK, NetOK, AbsenceInv, gone \in [Agents -> Nat],
         NEW a \in Agents, Depart(a), UNCHANGED << table, gone >>
  PROVE  AbsenceInv'
<1>1. run'[a] = "leaving" /\ \A b \in Agents \ {a} : run'[b] = run[b]
  BY DEF Depart, AgentOK
<1>2. OpenInv' /\ SentInv'
  BY SendKeeps DEF Depart
<1>3. call'[a].op = "unregister" /\ \A b \in Agents \ {a} : call'[b] = call[b]
  BY DEF Depart, Send, AgentOK
<1>4. PresentInv' /\ CallInv'
  BY <1>1, <1>3 DEF AbsenceInv, PresentInv, CallInv, Serving
<1> QED  BY <1>2, <1>4 DEF AbsenceInv, ListedInv

LEMMA ExitKeeps ==
  ASSUME AgentOK, NetOK, AbsenceInv, gone \in [Agents -> Nat],
         NEW a \in Agents, Exit(a), UNCHANGED << table, gone >>
  PROVE  AbsenceInv'
<1>1. run'[a] = "off" /\ \A b \in Agents \ {a} : run'[b] = run[b]
  BY DEF Exit, AgentOK
<1>2. call'[a] = NoCall /\ \A b \in Agents \ {a} : call'[b] = call[b]
  BY DEF Exit, NoCallOf, AgentOK
<1>3. net' = GivenUp(a)
  BY DEF Exit
<1>4. \A m \in net : m.from \in Agents
  BY DEF NetOK, Requests
<1>5. ASSUME NEW m \in net', m.open
      PROVE  m \in net /\ m.from # a
  BY <1>3, <1>5, GivenUpOlder
<1>6. OpenInv'
  BY <1>2, <1>4, <1>5 DEF AbsenceInv, OpenInv
<1>7. ASSUME NEW m \in net', m.op = "register"
      PROVE  gone'[m.from] =< m.age
  <2>1. PICK n \in net : n.from = m.from /\ n.age = m.age /\ n.op = m.op
    BY <1>3, GivenUpOlder
  <2> QED  BY <1>7, <2>1 DEF AbsenceInv, SentInv
<1>8. PresentInv' /\ CallInv'
  BY <1>1, <1>2 DEF AbsenceInv, PresentInv, CallInv, Serving
<1> QED  BY <1>6, <1>7, <1>8 DEF AbsenceInv, SentInv, ListedInv

LEMMA FailKeeps ==
  ASSUME AgentOK, NetOK, AbsenceInv, gone \in [Agents -> Nat],
         NEW a \in Agents, Fail(a), UNCHANGED << table, gone >>
  PROVE  AbsenceInv'
BY DepartKeeps, ExitKeeps DEF Fail

LEMMA AbsenceInit == Init => AbsenceInv
BY DEF Init, Serving, AbsenceInv, PresentInv, CallInv, OpenInv, SentInv, ListedInv, NoEntry

LEMMA AbsenceStep == TypeOK /\ AbsenceInv /\ [Next]_vars => AbsenceInv'
<1> SUFFICES ASSUME TypeOK, AbsenceInv, [Next]_vars PROVE AbsenceInv'
  OBVIOUS
<1>0. /\ Table(table) /\ AgentOK /\ RestOK /\ NetOK
      /\ gone \in [Agents -> Nat]
      /\ \A m \in net : m.from \in Agents /\ m.age \in 0 .. Lag
      /\ 1 \in Nat \ {0}
  BY TypeParts, Bounds DEF RestOK, NetOK, Requests
<1> USE <1>0
<1>1. ASSUME NEW a \in Agents, Boot(a)
      PROVE  AbsenceInv'
  <2>1. /\ run[a] = "off" /\ run'[a] \in Serving /\ gone'[a] = 0
        /\ \A b \in Agents \ {a} : run'[b] = run[b] /\ gone'[b] = gone[b]
    BY <1>1 DEF Boot, AgentOK, Serving
  <2>2. ListedInv'
    BY <1>1, <2>1, Bounds DEF Boot, AbsenceInv, ListedInv, Table
  <2>3. PresentInv'
    BY <2>1 DEF AbsenceInv, PresentInv
  <2>4. CallInv'
    BY <1>1, <2>1 DEF Boot, Send, AbsenceInv, CallInv, AgentOK
  <2>5. OpenInv' /\ SentInv'
    <3>1. CASE files[a] = {}
      <4>1. UNCHANGED << net, call >>
        BY <1>1, <3>1 DEF Boot
      <4> QED  BY <2>1, <4>1, Bounds DEF AbsenceInv, OpenInv, SentInv
    <3>2. CASE files[a] # {}
      BY <1>1, <2>1, <3>2, SendKeeps DEF Boot
    <3> QED  BY <3>1, <3>2
  <2> QED  BY <2>2, <2>3, <2>4, <2>5 DEF AbsenceInv
<1>2. ASSUME NEW a \in Agents, Wake(a)
      PROVE  AbsenceInv'
  <2>1. run[a] = "up" /\ gone[a] = 0 /\ UNCHANGED << run, gone, table >>
    BY <1>2 DEF Wake, AbsenceInv, PresentInv, Serving, clocks
  <2>2. CallInv'
    BY <1>2, <2>1 DEF Wake, Send, AbsenceInv, CallInv, AgentOK, Serving
  <2>3. OpenInv' /\ SentInv'
    <3>1. CASE files[a] = {}
      BY <1>2, <2>1, <3>1 DEF Wake, AbsenceInv, OpenInv, SentInv
    <3>2. CASE files[a] # {}
      BY <1>2, <2>1, <3>2, SendKeeps DEF Wake
    <3> QED  BY <3>1, <3>2
  <2> QED  BY <2>1, <2>2, <2>3 DEF AbsenceInv, PresentInv, ListedInv
<1>3. ASSUME NEW a \in Agents, Leave(a) \/ Kill(a)
      PROVE  AbsenceInv'
  <2>1. UNCHANGED << table, gone >>
    BY <1>3 DEF Leave, Kill, clocks
  <2>2. CASE Leave(a)
    BY <2>1, <2>2, DepartKeeps DEF Leave
  <2>3. CASE Kill(a)
    BY <2>1, <2>3, ExitKeeps DEF Kill
  <2> QED  BY <1>3, <2>2, <2>3
<1>4. ASSUME NEW a \in Agents, CallFails(a) \/ CallRejected(a)
      PROVE  AbsenceInv'
  <2>1. /\ call[a] # NoCall /\ call[a] \in Calls
        /\ call[a].op = "register" => gone[a] = 0
        /\ UNCHANGED << gone, table >>
    BY <1>4 DEF CallFails, CallRejected, AbsenceInv, PresentInv, CallInv, AgentOK, clocks
  <2>2. CASE CallFails(a) /\ call[a].attempt < MaxRetries
    <3>1. run' = run /\ Send(a, call[a].op, call[a].files, call[a].attempt + 1)
      BY <2>2 DEF CallFails
    <3>2. call[a].attempt + 1 \in Nat \ {0}
      BY <2>1, Bounds DEF Calls
    <3>3. OpenInv' /\ SentInv'
      BY <2>1, <3>1, <3>2, SendKeeps
    <3>4. CallInv'
      BY <2>1, <3>1 DEF Send, AbsenceInv, CallInv, AgentOK
    <3> QED  BY <2>1, <3>1, <3>3, <3>4 DEF AbsenceInv, PresentInv, ListedInv
  <2>3. CASE Fail(a)
    BY <2>1, <2>3, FailKeeps
  <2> QED  BY <1>4, <2>2, <2>3 DEF CallFails, CallRejected
<1>5. ASSUME NEW m \in net, Process(m)
      PROVE  AbsenceInv'
  <2>1. gone' = gone /\ net' = net \ {m}
    BY <1>5 DEF Process
  <2>2. SentInv'
    BY <2>1 DEF AbsenceInv, SentInv
  <2>3. m.op = "register" => gone[m.from] =< Lag
    BY Bounds DEF AbsenceInv, SentInv
  <2>4. ListedInv'
    <3>1. CASE m.op = "register"
      <4>1. table' = Registered(table, m.files, m.from)
        BY <1>5, <3>1 DEF Process, Worked
      <4>2. ASSUME NEW f \in DOMAIN table', NEW b \in DOMAIN table'[f]
            PROVE  gone[b] =< table'[f][b] + Lag
        <5>1. CASE f \in m.files /\ b = m.from
          BY <3>1, <4>1, <5>1, <2>3, Bounds DEF Registered
        <5>2. CASE ~(f \in m.files /\ b = m.from)
          <6>1. f \in DOMAIN table /\ b \in DOMAIN table[f] /\ table'[f][b] = table[f][b]
            BY <4>1, <4>2, <5>2 DEF Registered, Entry, NoEntry
          <6> QED  BY <6>1 DEF AbsenceInv, ListedInv
        <5> QED  BY <5>1, <5>2
      <4> QED  BY <2>1, <4>2 DEF ListedInv
    <3>2. CASE m.op # "register"
      <4>1. table' = Removed(table, DOMAIN table, {m.from})
        BY <1>5, <3>2 DEF Process, Worked, UnregisteredAll, Unregistered
      <4> QED  BY <2>1, <4>1 DEF Removed, Restrict, AbsenceInv, ListedInv
    <3> QED  BY <3>1, <3>2
  <2>5. CASE UNCHANGED agent
    BY <2>1, <2>2, <2>4, <2>5 DEF agent, AbsenceInv, PresentInv, CallInv, OpenInv
  <2>6. CASE m.open /\ Succeed(m.from)
    <3>1. /\ (run[m.from] \in Serving /\ gone[m.from] = 0) \/ run[m.from] = "leaving"
          /\ \A n \in net' : n.open => n.from # m.from
      BY <2>1, <2>6 DEF AbsenceInv, OpenInv, CallInv, PresentInv
    <3>2. \A b \in Agents \ {m.from} : run'[b] = run[b] /\ call'[b] = call[b]
      BY <2>6 DEF Succeed, NoCallOf, AgentOK
    <3>3. call'[m.from] = NoCall
      BY <2>6 DEF Succeed, NoCallOf, AgentOK
    <3>4. run'[m.from] \in Serving => gone[m.from] = 0
      BY <2>6, <3>1 DEF Succeed, AgentOK, Serving
    <3>5. PresentInv' /\ CallInv'
      BY <2>1, <3>2, <3>3, <3>4 DEF AbsenceInv, PresentInv, CallInv
    <3>6. OpenInv'
      BY <2>1, <3>1, <3>2 DEF AbsenceInv, OpenInv
    <3> QED  BY <2>2, <2>4, <3>5, <3>6 DEF AbsenceInv
  <2> QED  BY <1>5, <2>5, <2>6 DEF Process
<1>6. ASSUME NEW f \in Files, Query(f)
      PROVE  AbsenceInv'
  <2>1. ListedInv'
    BY <1>6 DEF Query, Pruned, Removed, Restrict, AbsenceInv, ListedInv, clocks
  <2> QED  BY <1>6, <2>1 DEF Query, agent, clocks, AbsenceInv, PresentInv, CallInv, OpenInv, SentInv
<1>7. ASSUME TrackerCrash
      PROVE  AbsenceInv'
  BY <1>7 DEF TrackerCrash, agent, NoEntry,
              AbsenceInv, PresentInv, CallInv, OpenInv, SentInv, ListedInv
<1>8. ASSUME Tick
      PROVE  AbsenceInv'
  <2>1. \A a \in Agents : /\ gone'[a] =< gone[a] + 1 /\ gone'[a] \in 0 .. MaxGone
                          /\ run[a] \in Serving => gone'[a] = gone[a]
    BY <1>8, Bounds DEF Tick, RestOK
  <2>2. PresentInv'
    BY <1>8, <2>1 DEF Tick, AbsenceInv, PresentInv
  <2>3. /\ \A a \in Agents : /\ call'[a] = NoCall <=> call[a] = NoCall
                             /\ call[a] # NoCall => call'[a].op = call[a].op
        /\ CallInv'
    <3>1. ASSUME NEW a \in Agents
          PROVE  IF call[a] = NoCall THEN call'[a] = NoCall
                 ELSE call'[a] # NoCall /\ call'[a].op = call[a].op
      <4>1. CASE call[a] = NoCall
        BY <1>8, <4>1 DEF Tick
      <4>2. CASE call[a] # NoCall
        <5>1. call[a] \in Calls /\ call'[a] = [call[a] EXCEPT !.age = @ + 1]
          BY <1>8, <4>2 DEF Tick, AgentOK
        <5>2. call'[a].op = call[a].op
          BY <5>1 DEF Calls
        <5>3. call'[a].op # NoCall.op
          BY <5>1, <5>2 DEF Calls, Ops, NoCall
        <5> QED  BY <4>2, <5>2, <5>3
      <4> QED  BY <4>1, <4>2
    <3>2. run' = run
      BY <1>8 DEF Tick
    <3> QED  BY <3>1, <3>2 DEF AbsenceInv, CallInv
  <2>4. ASSUME NEW m \in net'
        PROVE  \E n \in net : m = [n EXCEPT !.age = @ + 1] /\ n.age < Lag /\ n \in Requests
    BY <1>8 DEF Tick, NetOK
  <2>5. OpenInv'
    <3>1. ASSUME NEW m \in net', m.open
          PROVE  call'[m.from] # NoCall
      <4>1. PICK n \in net : m = [n EXCEPT !.age = @ + 1] /\ n \in Requests
        BY <2>4
      <4> QED  BY <2>3, <3>1, <4>1 DEF AbsenceInv, OpenInv, Requests
    <3>2. ASSUME NEW m1 \in net', NEW m2 \in net', m1.open, m2.open, m1.from = m2.from
          PROVE  m1 = m2
      <4>1. PICK n1 \in net : m1 = [n1 EXCEPT !.age = @ + 1] /\ n1 \in Requests
        BY <2>4
      <4>2. PICK n2 \in net : m2 = [n2 EXCEPT !.age = @ + 1] /\ n2 \in Requests
        BY <2>4
      <4>3. n1.open /\ n2.open /\ n1.from = n2.from
        BY <3>2, <4>1, <4>2 DEF Requests
      <4>4. n1 = n2
        BY <4>3 DEF AbsenceInv, OpenInv
      <4> QED  BY <4>1, <4>2, <4>4
    <3> QED  BY <3>1, <3>2 DEF OpenInv
  <2>6. ASSUME NEW m \in net', m.op = "register"
        PROVE  gone'[m.from] =< m.age
    <3>1. PICK n \in net : m = [n EXCEPT !.age = @ + 1] /\ n \in Requests
      BY <2>4
    <3>2. m.from = n.from /\ m.age = n.age + 1 /\ n.op = m.op
      BY <3>1 DEF Requests
    <3>3. gone[n.from] =< n.age
      BY <2>6, <3>2 DEF AbsenceInv, SentInv
    <3> QED  BY <2>1, <3>2, <3>3, Bounds
  <2>7. ASSUME NEW f \in DOMAIN table', NEW a \in DOMAIN table'[f]
        PROVE  gone'[a] =< table'[f][a] + Lag
    <3>1. /\ f \in DOMAIN table /\ a \in DOMAIN table[f]
          /\ table'[f][a] = IF table[f][a] > PeerTTL THEN table[f][a] ELSE table[f][a] + 1
      BY <1>8, <2>7 DEF Tick, Aged, Expired
    <3>2. a \in Agents /\ table[f][a] \in Nat /\ gone[a] =< table[f][a] + Lag
      BY <3>1 DEF Table, AbsenceInv, ListedInv
    <3> QED  BY <2>1, <3>1, <3>2, Bounds DEF MaxGone
  <2> QED  BY <2>2, <2>3, <2>5, <2>6, <2>7 DEF AbsenceInv, SentInv, ListedInv
<1>9. ASSUME NEW a \in Agents, Signal(a) \/ LoopEnds(a)
      PROVE  AbsenceInv'
  <2>1. UNCHANGED << table, call, net, gone >>
    BY <1>9 DEF Signal, LoopEnds, clocks
  <2>2. \A b \in Agents : /\ run'[b] \in Serving => run[b] \in Serving
                          /\ call[b] # NoCall => run'[b] = run[b]
    BY <1>9 DEF Signal, LoopEnds, Serving, AgentOK
  <2>3. PresentInv' /\ CallInv'
    BY <2>1, <2>2 DEF AbsenceInv, PresentInv, CallInv
  <2> QED  BY <2>1, <2>3 DEF AbsenceInv, OpenInv, SentInv, ListedInv
<1>10. ASSUME NEW a \in Agents, NEW f \in Files, StorageChanges(a, f)
       PROVE  AbsenceInv'
  BY <1>10 DEF StorageChanges, agent, AbsenceInv, PresentInv, CallInv, OpenInv, SentInv, ListedInv
<1>11. ASSUME TrackerStart
       PROVE  AbsenceInv'
  BY <1>11 DEF TrackerStart, agent, clocks,
               AbsenceInv, PresentInv, CallInv, OpenInv, SentInv, ListedInv
<1>12. ASSUME UNCHANGED vars
       PROVE  AbsenceInv'
  BY <1>12 DEF vars, agent, clocks, AbsenceInv, PresentInv, CallInv, OpenInv, SentInv, ListedInv
<1> QED  BY <1>1, <1>2, <1>3, <1>4, <1>5, <1>6, <1>7, <1>8, <1>9, <1>10, <1>11, <1>12 DEF Next

LEMMA AbsenceForgets == TypeOK /\ AbsenceInv => ForgottenAfterTTL
<1> SUFFICES ASSUME TypeOK, AbsenceInv, NEW f \in Files, NEW a \in Answer(f)
             PROVE  gone[a] =< PeerTTL + Lag
  BY DEF ForgottenAfterTTL
<1>1. Table(table) /\ RestOK
  BY TypeParts
<1>2. f \in DOMAIN table /\ a \in DOMAIN table[f] /\ ~(table[f][a] > PeerTTL)
  BY DEF Answer, Live, StaleIn, Expired, Entry, NoEntry
<1>3. table[f][a] \in Nat /\ a \in Agents /\ gone[a] \in Nat
  BY <1>1, <1>2, Bounds DEF Table, RestOK
<1>4. gone[a] =< table[f][a] + Lag
  BY <1>2 DEF AbsenceInv, ListedInv
<1> QED  BY <1>2, <1>3, <1>4, Bounds

\* An agent whose process has been gone for longer than the TTL and the network's
\* lag is handed out to nobody, whatever was lost, doubled or overtaken, however
\* often the tracker lost its table, and whatever the other agents do
\* (tracker/registry.py:77-94).
THEOREM GoneAreForgotten == Spec => []ForgottenAfterTTL
BY InitTypeOK, NextTypeOK, AbsenceInit, AbsenceStep, AbsenceForgets, PTL DEF Spec

-------------------------------------------------------------------------------
(***************************************************************************)
(* Seeders get listed.  The request on the network that is still waited for *)
(* is the one its sender's call tells of, so an answer means that what the  *)
(* call announces is listed; until then, the time a file has been missing   *)
(* is accounted for by the sleep and the calls that have passed.            *)
(***************************************************************************)

Longest == KeepAlive + 2 * MaxRetries * Timeout

\* For how long a has waited in its call, all attempts together.
Spent(a) == (call[a].attempt - 1) * Timeout + call[a].age

RegisterInv ==
  \A a \in Agents : call[a] # NoCall /\ run[a] \in {"boot", "up"} => call[a].op = "register"

SameInv ==
  \A m \in net : m.open => /\ call[m.from] # NoCall
                           /\ m.op = call[m.from].op
                           /\ m.files = call[m.from].files

MissingOf(a, f) ==
  /\ missing[a][f] =< Longest
  /\ run[a] = "boot" \/ f \notin files[a] => missing[a][f] = 0
  /\ run[a] = "up" /\ call[a] = NoCall => missing[a][f] =< wait[a] + MaxRetries * Timeout
  /\ run[a] = "up" /\ call[a] # NoCall =>
       IF f \in call[a].files
       THEN missing[a][f] =< KeepAlive + MaxRetries * Timeout + Spent(a)
       ELSE missing[a][f] =< Spent(a)

MissingInv == \A a \in Agents, f \in Files : MissingOf(a, f)

ListingInv == RegisterInv /\ SameInv /\ MissingInv

LEMMA LongestIs ==
  /\ MaxRetries * Timeout \in Nat
  /\ Longest = KeepAlive + MaxRetries * Timeout + MaxRetries * Timeout
  /\ Longest \in Nat
  /\ MaxMissing = Longest + 1
<1> DEFINE p == MaxRetries * Timeout
<1>1. p \in Nat
  BY Bounds
<1>2. 2 * MaxRetries * Timeout = p + p
  BY Bounds
<1> QED  BY <1>1, <1>2, Bounds DEF Longest, MaxMissing

LEMMA SpentBound ==
  ASSUME NEW n \in 1 .. MaxRetries, NEW age \in 0 .. Timeout
  PROVE  /\ (n - 1) * Timeout \in Nat
         /\ (n - 1) * Timeout + age =< n * Timeout
         /\ (n - 1) * Timeout + age =< MaxRetries * Timeout
<1>1. n \in Nat /\ n - 1 \in Nat /\ Timeout \in Nat /\ MaxRetries \in Nat /\ MaxRetries - n \in Nat
  BY Bounds
<1>2. ASSUME NEW x \in Nat, NEW y \in Nat
      PROVE  x * y \in Nat
  OBVIOUS
<1>3. (n - 1) * Timeout = n * Timeout - Timeout
  BY <1>1
<1>4. (MaxRetries - n) * Timeout = MaxRetries * Timeout - n * Timeout
  BY <1>1
<1>5. /\ (n - 1) * Timeout \in Nat /\ (MaxRetries - n) * Timeout \in Nat
      /\ n * Timeout \in Nat /\ MaxRetries * Timeout \in Nat
  BY <1>1, <1>2
<1> QED  BY <1>1, <1>3, <1>4, <1>5

\* What the time between two attempts counts.
LEMMA SpentOf ==
  ASSUME AgentOK, NEW a \in Agents, call[a] # NoCall
  PROVE  /\ call[a] \in Calls
         /\ Spent(a) \in Nat
         /\ Spent(a) =< call[a].attempt * Timeout
         /\ Spent(a) =< MaxRetries * Timeout
<1>1. call[a] \in Calls
  BY DEF AgentOK
<1>2. call[a].attempt \in 1 .. MaxRetries /\ call[a].age \in 0 .. Timeout
  BY <1>1 DEF Calls
<1>3. call[a].age \in Nat
  BY <1>2, Bounds
<1> QED  BY <1>1, <1>2, <1>3, SpentBound DEF Spent

LEMMA ListingInit == Init => ListingInv
<1> SUFFICES ASSUME Init PROVE ListingInv
  OBVIOUS
<1>1. RegisterInv /\ SameInv
  BY DEF Init, RegisterInv, SameInv
<1>2. MissingInv
  BY LongestIs DEF Init, MissingInv, MissingOf
<1> QED  BY <1>1, <1>2 DEF ListingInv

-------------------------------------------------------------------------------
LEMMA SendSame ==
  ASSUME AgentOK, NetOK, SameInv,
         NEW a \in Agents, NEW op, NEW fs, NEW attempt \in Nat \ {0}, Send(a, op, fs, attempt)
  PROVE  SameInv'
<1> DEFINE new == [from |-> a, op |-> op, files |-> fs, attempt |-> attempt,
                   age |-> 0, open |-> TRUE]
           made == [op |-> op, files |-> fs, attempt |-> attempt, age |-> 0]
<1>1. net' = GivenUp(a) \cup {new} /\ call' = [call EXCEPT ![a] = made]
  BY DEF Send
<1>2. call'[a] = made /\ \A b \in Agents \ {a} : call'[b] = call[b]
  BY <1>1 DEF AgentOK
<1>3. made # NoCall
  BY IsCall
<1>4. ASSUME NEW m \in net', m.open
      PROVE  /\ call'[m.from] # NoCall
             /\ m.op = call'[m.from].op
             /\ m.files = call'[m.from].files
  <2>1. CASE m = new
    BY <1>2, <1>3, <2>1
  <2>2. CASE m # new
    <3>1. m \in net /\ m.from # a
      BY <1>1, <1>4, <2>2, GivenUpOlder
    <3>2. m.from \in Agents
      BY <3>1 DEF NetOK, Requests
    <3> QED  BY <1>2, <1>4, <3>1, <3>2 DEF SameInv
  <2> QED  BY <2>1, <2>2
<1> QED  BY <1>4 DEF SameInv

LEMMA SendRegister ==
  ASSUME AgentOK, RegisterInv,
         NEW a \in Agents, NEW op, NEW fs, NEW attempt, Send(a, op, fs, attempt),
         \A b \in Agents \ {a} : run'[b] = run[b],
         run'[a] \in {"boot", "up"} => op = "register"
  PROVE  RegisterInv'
<1>1. call'[a].op = op /\ \A b \in Agents \ {a} : call'[b] = call[b]
  BY DEF Send, AgentOK
<1> QED  BY <1>1 DEF RegisterInv

\* A step after which a is over, or waits for nothing.
LEMMA ExitSame ==
  ASSUME AgentOK, NetOK, RegisterInv, SameInv,
         NEW a \in Agents, NoCallOf(a), \A m \in net' : m.open => m \in net /\ m.from # a,
         \A b \in Agents \ {a} : run'[b] = run[b]
  PROVE  RegisterInv' /\ SameInv'
<1>1. call'[a] = NoCall /\ \A b \in Agents \ {a} : call'[b] = call[b]
  BY DEF NoCallOf, AgentOK
<1>2. \A m \in net : m.from \in Agents
  BY DEF NetOK, Requests
<1>3. RegisterInv'
  BY <1>1 DEF RegisterInv
<1>4. SameInv'
  BY <1>1, <1>2 DEF SameInv
<1> QED  BY <1>3, <1>4

LEMMA DepartSame ==
  ASSUME AgentOK, NetOK, RegisterInv, SameInv, NEW a \in Agents, Depart(a)
  PROVE  RegisterInv' /\ SameInv'
<1>1. Send(a, "unregister", {}, 1)
  BY DEF Depart
<1>2. run'[a] = "leaving" /\ \A b \in Agents \ {a} : run'[b] = run[b]
  BY DEF Depart, AgentOK
<1> QED  BY <1>1, <1>2, SendSame, SendRegister

LEMMA ExitsSame ==
  ASSUME AgentOK, NetOK, RegisterInv, SameInv, NEW a \in Agents, Exit(a)
  PROVE  RegisterInv' /\ SameInv'
<1>1. NoCallOf(a) /\ net' = GivenUp(a)
  BY DEF Exit
<1>2. \A b \in Agents \ {a} : run'[b] = run[b]
  BY DEF Exit, AgentOK
<1>3. \A m \in net' : m.open => m \in net /\ m.from # a
  BY <1>1, GivenUpOlder
<1> QED  BY <1>1, <1>2, <1>3, ExitSame

LEMMA CallsStep ==
  TypeOK /\ AbsenceInv /\ RegisterInv /\ SameInv /\ [Next]_vars => RegisterInv' /\ SameInv'
<1> SUFFICES ASSUME TypeOK, AbsenceInv, RegisterInv, SameInv, [Next]_vars
             PROVE  RegisterInv' /\ SameInv'
  OBVIOUS
<1>0. AgentOK /\ NetOK /\ 1 \in Nat \ {0}
  BY TypeParts
<1> USE <1>0
<1>1. ASSUME NEW a \in Agents, Boot(a)
      PROVE  RegisterInv' /\ SameInv'
  <2>1. call[a] = NoCall /\ \A b \in Agents \ {a} : run'[b] = run[b]
    BY <1>1 DEF Boot, AbsenceInv, CallInv, AgentOK, Serving
  <2>2. CASE files[a] = {}
    BY <1>1, <2>1, <2>2 DEF Boot, RegisterInv, SameInv
  <2>3. CASE files[a] # {}
    BY <1>1, <2>1, <2>3, SendSame, SendRegister DEF Boot
  <2> QED  BY <2>2, <2>3
<1>2. ASSUME NEW a \in Agents, Wake(a)
      PROVE  RegisterInv' /\ SameInv'
  <2>1. CASE files[a] = {}
    BY <1>2, <2>1 DEF Wake, RegisterInv, SameInv
  <2>2. CASE files[a] # {}
    BY <1>2, <2>2, SendSame, SendRegister DEF Wake
  <2> QED  BY <2>1, <2>2
<1>3. ASSUME NEW a \in Agents, Leave(a) \/ Kill(a) \/ CallRejected(a)
      PROVE  RegisterInv' /\ SameInv'
  BY <1>3, DepartSame, ExitsSame DEF Leave, Kill, CallRejected, Fail
<1>4. ASSUME NEW a \in Agents, CallFails(a)
      PROVE  RegisterInv' /\ SameInv'
  <2>1. CASE call[a].attempt < MaxRetries
    <3>1. run' = run /\ Send(a, call[a].op, call[a].files, call[a].attempt + 1)
      BY <1>4, <2>1 DEF CallFails
    <3>2. call[a] \in Calls
      BY <1>4 DEF CallFails, AgentOK
    <3>3. call[a].attempt + 1 \in Nat \ {0}
      BY <3>2, Bounds DEF Calls
    <3>4. run'[a] \in {"boot", "up"} => call[a].op = "register"
      BY <1>4, <3>1 DEF CallFails, RegisterInv
    <3> QED  BY <3>1, <3>3, <3>4, SendSame, SendRegister
  <2>2. CASE ~(call[a].attempt < MaxRetries)
    BY <1>4, <2>2, DepartSame, ExitsSame DEF CallFails, Fail
  <2> QED  BY <2>1, <2>2
<1>5. ASSUME NEW m \in net, Process(m)
      PROVE  RegisterInv' /\ SameInv'
  <2>1. net' = net \ {m} /\ m.from \in Agents
    BY <1>5 DEF Process, NetOK, Requests
  <2>2. CASE UNCHANGED agent
    BY <2>1, <2>2 DEF agent, RegisterInv, SameInv
  <2>3. CASE m.open /\ Succeed(m.from)
    <3>1. NoCallOf(m.from) /\ \A b \in Agents \ {m.from} : run'[b] = run[b]
      BY <2>1, <2>3 DEF Succeed, AgentOK
    <3>2. \A n \in net' : n.open => n \in net /\ n.from # m.from
      BY <2>1, <2>3 DEF AbsenceInv, OpenInv
    <3> QED  BY <2>1, <3>1, <3>2, ExitSame
  <2> QED  BY <1>5, <2>2, <2>3 DEF Process
<1>6. ASSUME Tick
      PROVE  RegisterInv' /\ SameInv'
  <2>1. \A a \in Agents : /\ call[a] = NoCall => call'[a] = NoCall
                          /\ call[a] # NoCall => call'[a] = [call[a] EXCEPT !.age = @ + 1]
    BY <1>6 DEF Tick
  <2>2. ASSUME NEW a \in Agents, call[a] # NoCall
        PROVE  /\ call'[a] # NoCall
               /\ call'[a].op = call[a].op /\ call'[a].files = call[a].files
    <3>1. call[a] \in Calls /\ call'[a] = [call[a] EXCEPT !.age = @ + 1]
      BY <2>1, <2>2 DEF AgentOK
    <3>2. call'[a].op = call[a].op /\ call'[a].files = call[a].files
      BY <3>1 DEF Calls
    <3>3. call'[a].op # NoCall.op
      BY <3>1, <3>2 DEF Calls, Ops, NoCall
    <3> QED  BY <3>2, <3>3
  <2>3. RegisterInv'
    BY <1>6, <2>1, <2>2 DEF Tick, RegisterInv
  <2>4. ASSUME NEW m \in net', m.open
        PROVE  /\ call'[m.from] # NoCall
               /\ m.op = call'[m.from].op
               /\ m.files = call'[m.from].files
    <3>1. PICK n \in net : m = [n EXCEPT !.age = @ + 1] /\ n \in Requests
      BY <1>6 DEF Tick, NetOK
    <3>2. m.from = n.from /\ m.op = n.op /\ m.files = n.files /\ n.open /\ n.from \in Agents
      BY <2>4, <3>1 DEF Requests
    <3> QED  BY <2>2, <3>2 DEF SameInv
  <2> QED  BY <2>3, <2>4 DEF SameInv
<1>7. CASE UNCHANGED << run, call, net >>
  BY <1>7 DEF RegisterInv, SameInv
<1>8. ASSUME NEW a \in Agents, Signal(a) \/ LoopEnds(a)
      PROVE  RegisterInv' /\ SameInv'
  <2>1. UNCHANGED << call, net >>
    BY <1>8 DEF Signal, LoopEnds
  <2>2. \A b \in Agents : run'[b] \in {"boot", "up"} => run'[b] = run[b]
    BY <1>8 DEF Signal, LoopEnds, AgentOK
  <2> QED  BY <2>1, <2>2 DEF RegisterInv, SameInv
<1>9. ASSUME \/ \E a \in Agents, f \in Files : StorageChanges(a, f)
             \/ \E f \in Files : Query(f)
             \/ TrackerCrash \/ TrackerStart \/ UNCHANGED vars
      PROVE  UNCHANGED << run, call, net >>
  BY <1>9 DEF StorageChanges, Query, TrackerCrash, TrackerStart, vars, agent
<1> QED  BY <1>1, <1>2, <1>3, <1>4, <1>5, <1>6, <1>7, <1>8, <1>9 DEF Next

-------------------------------------------------------------------------------
\* What does not disturb the account of b and f, and what closes it.
LEMMA MissingFrame ==
  ASSUME NEW b, NEW f, MissingOf(b, f),
         run'[b] = run[b], wait'[b] = wait[b], call'[b] = call[b],
         f \in files'[b] <=> f \in files[b], missing'[b][f] = missing[b][f]
  PROVE  MissingOf(b, f)'
BY DEF MissingOf, Spent

LEMMA MissingZero ==
  ASSUME TypeOK', NEW b \in Agents, NEW f, missing'[b][f] = 0
  PROVE  MissingOf(b, f)'
<1>1. wait'[b] \in Nat /\ call'[b] \in Calls \cup {NoCall}
  BY Bounds DEF TypeOK
<1>2. ASSUME call'[b] # NoCall
      PROVE  Spent(b)' \in Nat
  <2>1. call'[b].attempt \in 1 .. MaxRetries /\ call'[b].age \in 0 .. Timeout
    BY <1>1, <1>2 DEF Calls
  <2>2. call'[b].age \in Nat /\ (call'[b].attempt - 1) * Timeout \in Nat
    BY <2>1, SpentBound, Bounds
  <2> QED  BY <2>2 DEF Spent
<1> QED  BY <1>1, <1>2, LongestIs, Bounds DEF MissingOf

LEMMA MissingOff ==
  ASSUME NEW b, NEW f, MissingOf(b, f), run'[b] \notin {"boot", "up"},
         files'[b] = files[b], missing'[b][f] = missing[b][f]
  PROVE  MissingOf(b, f)'
BY DEF MissingOf

LEMMA RegisteredIsLive ==
  ASSUME NEW tab, NEW fs, NEW a, NEW f \in fs
  PROVE  a \in Live(Registered(tab, fs, a), f)
BY RegistryAssumption DEF Live, StaleIn, Expired, Entry, Registered

\* The agents whose calls and files a step of a leaves alone.
LEMMA OthersMissing ==
  ASSUME MissingInv, NEW a \in Agents, UNCHANGED << files, missing >>,
         \A b \in Agents \ {a} : run'[b] = run[b] /\ wait'[b] = wait[b] /\ call'[b] = call[b],
         \A f \in Files : MissingOf(a, f)'
  PROVE  MissingInv'
<1> SUFFICES ASSUME NEW b \in Agents, NEW f \in Files, b # a PROVE MissingOf(b, f)'
  BY DEF MissingInv
<1> QED  BY MissingFrame DEF MissingInv

LEMMA OverMissing ==
  ASSUME TypeOK, MissingInv, NEW a \in Agents, Depart(a) \/ Exit(a),
         UNCHANGED << files, missing >>
  PROVE  MissingInv'
<1>1. run'[a] \notin {"boot", "up"}
  BY DEF Depart, Exit, TypeOK
<1>2. \A b \in Agents \ {a} : run'[b] = run[b] /\ wait'[b] = wait[b] /\ call'[b] = call[b]
  BY DEF Depart, Exit, Send, NoCallOf, TypeOK
<1>3. \A f \in Files : MissingOf(a, f)'
  BY <1>1, MissingOff DEF MissingInv
<1> QED  BY <1>2, <1>3, OthersMissing

LEMMA WakeMissing ==
  ASSUME TypeOK, TypeOK', MissingInv, NEW a \in Agents, Wake(a)
  PROVE  MissingInv'
<1>1. /\ run[a] = "up" /\ call[a] = NoCall /\ wait[a] = KeepAlive
      /\ UNCHANGED << run, files, missing >>
  BY DEF Wake, clocks
<1>2. \A b \in Agents \ {a} : wait'[b] = wait[b] /\ call'[b] = call[b]
  BY DEF Wake, Send, TypeOK
<1>3. ASSUME NEW f \in Files
      PROVE  MissingOf(a, f)'
  <2>1. MissingOf(a, f)
    BY DEF MissingInv
  <2>2. CASE f \notin files[a]
    BY <1>1, <2>1, <2>2, MissingZero DEF MissingOf
  <2>3. CASE f \in files[a]
    <3>1. call'[a] = [op |-> "register", files |-> files[a], attempt |-> 1, age |-> 0]
      BY <2>3 DEF Wake, Send, TypeOK
    <3>2. Spent(a)' = 0
      BY <3>1, Bounds DEF Spent
    <3>3. call'[a] # NoCall /\ call'[a].files = files[a]
      <4>1. call'[a].op # NoCall.op
        BY <3>1 DEF NoCall
      <4> QED  BY <3>1, <4>1
    <3>4. /\ missing'[a][f] =< Longest
          /\ missing'[a][f] =< KeepAlive + MaxRetries * Timeout
      BY <1>1, <2>1 DEF MissingOf
    <3>5. missing'[a][f] =< KeepAlive + MaxRetries * Timeout + Spent(a)'
      BY <3>2, <3>4, LongestIs, Bounds
    <3> QED  BY <1>1, <2>3, <3>3, <3>4, <3>5 DEF MissingOf
  <2> QED  BY <2>2, <2>3
<1> QED  BY <1>1, <1>2, <1>3, OthersMissing

LEMMA RetryMissing ==
  ASSUME TypeOK, MissingInv, NEW a \in Agents, CallFails(a), call[a].attempt < MaxRetries
  PROVE  MissingInv'
<1>1. /\ call[a] # NoCall
      /\ call' = [call EXCEPT ![a] = [op |-> call[a].op, files |-> call[a].files,
                                      attempt |-> call[a].attempt + 1, age |-> 0]]
      /\ UNCHANGED << run, wait, files, missing >>
  BY DEF CallFails, Send, clocks
<1>2. call[a] \in Calls /\ Spent(a) \in Nat /\ Spent(a) =< call[a].attempt * Timeout
  BY <1>1, SpentOf, TypeParts
<1>3. /\ call'[a].files = call[a].files
      /\ call'[a].attempt = call[a].attempt + 1 /\ call'[a].age = 0
      /\ \A b \in Agents \ {a} : call'[b] = call[b]
  BY <1>1 DEF TypeOK
<1>4. Spent(a)' \in Nat /\ Spent(a) =< Spent(a)'
  <2>1. call[a].attempt \in Nat /\ call[a].attempt * Timeout \in Nat
    <3>1. ASSUME NEW x \in Nat, NEW y \in Nat
          PROVE  x * y \in Nat
      OBVIOUS
    <3>2. call[a].attempt \in Nat
      BY <1>2, Bounds DEF Calls
    <3> QED  BY <3>1, <3>2, Bounds
  <2>2. call'[a].attempt - 1 = call[a].attempt
    BY <1>3, <2>1
  <2>3. Spent(a)' = call[a].attempt * Timeout + 0
    BY <1>3, <2>2 DEF Spent
  <2> QED  BY <1>2, <2>1, <2>3
<1>5. ASSUME NEW f \in Files
      PROVE  MissingOf(a, f)'
  <2>1. MissingOf(a, f) /\ missing[a][f] \in Nat
    BY Bounds DEF MissingInv, TypeOK
  <2>2. run[a] = "up" =>
          IF f \in call[a].files
          THEN missing[a][f] =< KeepAlive + MaxRetries * Timeout + Spent(a)'
          ELSE missing[a][f] =< Spent(a)'
    BY <1>1, <1>2, <1>4, <2>1, LongestIs, Bounds DEF MissingOf
  <2>3. call'[a] # NoCall
    BY <1>2, <1>3, Bounds DEF NoCall, Calls
  <2> QED  BY <1>1, <1>3, <2>1, <2>2, <2>3 DEF MissingOf
<1> QED  BY <1>1, <1>3, <1>5, OthersMissing

LEMMA ProcessMissing ==
  ASSUME TypeOK, TypeOK', AbsenceInv, RegisterInv, SameInv, MissingInv,
         NEW m \in net, Process(m)
  PROVE  MissingInv'
<1> DEFINE a == m.from
<1>1. a \in Agents /\ UNCHANGED files
  BY DEF Process, TypeOK, Requests
<1>2. /\ missing'[a] = [f \in Files |-> IF a \in Live(table', f) THEN 0 ELSE missing[a][f]]
      /\ \A b \in Agents \ {a} : missing'[b] = missing[b]
  BY <1>1 DEF Process, TypeOK
<1>3. ASSUME NEW f \in Files
      PROVE  /\ missing'[a][f] \in {0, missing[a][f]}
             /\ a \in Live(table', f) => missing'[a][f] = 0
  BY <1>2
<1> HIDE DEF a
<1>4. CASE UNCHANGED agent
  <2>1. ASSUME NEW b \in Agents, NEW f \in Files
        PROVE  MissingOf(b, f)'
    <3>1. MissingOf(b, f) /\ (missing'[b][f] = 0 \/ missing'[b][f] = missing[b][f])
      BY <1>2, <1>3 DEF MissingInv
    <3> QED  BY <1>1, <1>4, <3>1, MissingZero, MissingFrame DEF agent
  <2> QED  BY <2>1 DEF MissingInv
<1>5. CASE m.open /\ Succeed(a)
  <2>1. /\ run'[a] = IF run[a] = "leaving" THEN "off" ELSE "up"
        /\ wait'[a] = 0 /\ call'[a] = NoCall
        /\ \A b \in Agents \ {a} : run'[b] = run[b] /\ wait'[b] = wait[b] /\ call'[b] = call[b]
    BY <1>1, <1>5 DEF Succeed, NoCallOf, TypeOK
  <2>2. /\ run[a] \in {"boot", "up", "leaving"} /\ call[a] # NoCall
        /\ m.op = call[a].op /\ m.files = call[a].files
    BY <1>1, <1>5 DEF AbsenceInv, CallInv, Serving, SameInv, a
  <2>3. ASSUME NEW f \in Files
        PROVE  MissingOf(a, f)'
    <3>0. MissingOf(a, f) /\ missing[a][f] \in Nat
      BY <1>1, Bounds DEF MissingInv, TypeOK
    <3>1. CASE missing'[a][f] = 0
      BY <1>1, <3>1, MissingZero
    <3>2. CASE run[a] = "leaving" /\ missing'[a][f] # 0
      BY <1>1, <1>3, <2>1, <3>0, <3>2, MissingOff
    <3>3. CASE run[a] # "leaving" /\ missing'[a][f] # 0
      <4>1. call[a].op = "register"
        BY <1>1, <2>2, <3>3 DEF RegisterInv
      <4>2. table' = Registered(table, m.files, a)
        BY <2>2, <4>1 DEF Process, Worked, a
      <4>3. f \notin call[a].files
        BY <1>3, <2>2, <3>3, <4>2, RegisteredIsLive
      <4>4. missing'[a][f] = missing[a][f]
        BY <1>3, <3>3
      <4>5. run[a] = "up" /\ f \in files[a]
        BY <2>2, <3>0, <3>3, <4>4 DEF MissingOf
      <4>6. missing[a][f] =< Spent(a) /\ missing[a][f] =< Longest
        BY <2>2, <3>0, <4>3, <4>5 DEF MissingOf
      <4>7. Spent(a) \in Nat /\ Spent(a) =< MaxRetries * Timeout
        BY <1>1, <2>2, SpentOf, TypeParts
      <4>8. missing[a][f] =< 0 + MaxRetries * Timeout
        BY <3>0, <4>6, <4>7, LongestIs
      <4> QED  BY <1>1, <2>1, <4>4, <4>5, <4>6, <4>8 DEF MissingOf
    <3> QED  BY <2>2, <3>1, <3>2, <3>3
  <2>4. ASSUME NEW b \in Agents, b # a, NEW f \in Files
        PROVE  MissingOf(b, f)'
    BY <1>1, <1>2, <2>1, <2>4, MissingFrame DEF MissingInv
  <2> QED  BY <2>3, <2>4 DEF MissingInv
<1> QED  BY <1>4, <1>5 DEF Process, a

LEMMA TickMissing ==
  ASSUME TypeOK, TypeOK', MissingInv, Tick
  PROVE  MissingInv'
<1> SUFFICES ASSUME NEW a \in Agents, NEW f \in Files, missing'[a][f] # 0
             PROVE  MissingOf(a, f)'
  BY MissingZero DEF MissingInv
<1>1. MissingOf(a, f) /\ missing[a][f] \in Nat
  BY Bounds DEF MissingInv, TypeOK
<1>2. /\ run[a] = "up" /\ f \in files[a]
      /\ missing'[a][f] = IF missing[a][f] < MaxMissing THEN missing[a][f] + 1 ELSE MaxMissing
      /\ UNCHANGED << run, files >>
  BY DEF Tick
<1>3. missing'[a][f] = missing[a][f] + 1
  BY <1>1, <1>2, LongestIs DEF MissingOf
<1>4. CASE call[a] = NoCall
  <2>1. call'[a] = NoCall /\ wait[a] < KeepAlive /\ wait'[a] = wait[a] + 1
    BY <1>2, <1>4 DEF Tick
  <2>2. wait[a] \in Nat
    BY Bounds DEF TypeOK
  <2>3. missing[a][f] =< wait[a] + MaxRetries * Timeout
    BY <1>1, <1>2, <1>4 DEF MissingOf
  <2>4. /\ missing'[a][f] =< wait'[a] + MaxRetries * Timeout
        /\ missing'[a][f] =< Longest
    BY <1>1, <1>3, <2>1, <2>2, <2>3, LongestIs, Bounds
  <2> QED  BY <1>2, <2>1, <2>4 DEF MissingOf
<1>5. CASE call[a] # NoCall
  <2>1. call[a] \in Calls /\ call[a].age < Timeout /\ call'[a] = [call[a] EXCEPT !.age = @ + 1]
    BY <1>5 DEF Tick, TypeOK
  <2>2. /\ call[a].attempt \in 1 .. MaxRetries /\ call[a].age \in 0 .. Timeout
        /\ call[a].age + 1 \in 0 .. Timeout
    BY <2>1, Bounds DEF Calls
  <2>3. /\ call'[a].attempt = call[a].attempt /\ call'[a].age = call[a].age + 1
        /\ call'[a].files = call[a].files
    BY <2>1 DEF Calls
  <2>4. call'[a] # NoCall
    BY <2>2, <2>3, Bounds DEF NoCall
  <2>5. /\ (call[a].attempt - 1) * Timeout \in Nat
        /\ (call[a].attempt - 1) * Timeout + (call[a].age + 1) =< MaxRetries * Timeout
    BY <2>2, SpentBound
  <2>6. Spent(a)' = (call[a].attempt - 1) * Timeout + (call[a].age + 1)
    BY <2>3 DEF Spent
  <2>7. call[a].age \in Nat
    BY <2>2, Bounds
  <2>8. Spent(a) \in Nat /\ Spent(a)' = Spent(a) + 1 /\ Spent(a)' =< MaxRetries * Timeout
    BY <2>5, <2>6, <2>7 DEF Spent
  <2>9. IF f \in call[a].files
        THEN missing[a][f] =< KeepAlive + MaxRetries * Timeout + Spent(a)
        ELSE missing[a][f] =< Spent(a)
    BY <1>1, <1>2, <1>5 DEF MissingOf
  <2>10. /\ IF f \in call[a].files
            THEN missing'[a][f] =< KeepAlive + MaxRetries * Timeout + Spent(a)'
            ELSE missing'[a][f] =< Spent(a)'
         /\ missing'[a][f] =< Longest
    BY <1>1, <1>3, <2>8, <2>9, LongestIs, Bounds
  <2> QED  BY <1>2, <2>3, <2>4, <2>10 DEF MissingOf
<1> QED  BY <1>4, <1>5

LEMMA ListingStep ==
  TypeOK /\ AbsenceInv /\ ListingInv /\ [Next]_vars => ListingInv'
<1> SUFFICES ASSUME TypeOK, AbsenceInv, ListingInv, [Next]_vars PROVE MissingInv'
  BY CallsStep DEF ListingInv
<1>0. TypeOK' /\ RegisterInv /\ SameInv /\ MissingInv
  BY NextTypeOK DEF ListingInv
<1> USE <1>0
<1>1. ASSUME NEW a \in Agents, Boot(a)
      PROVE  MissingInv'
  <2>1. /\ UNCHANGED << files, wait >>
        /\ \A b \in Agents \ {a} :
             run'[b] = run[b] /\ call'[b] = call[b] /\ missing'[b] = missing[b]
        /\ missing'[a] = [f \in Files |-> 0]
    BY <1>1 DEF Boot, Send, TypeOK
  <2>2. ASSUME NEW b \in Agents, NEW f \in Files
        PROVE  MissingOf(b, f)'
    BY <2>1, MissingZero, MissingFrame DEF MissingInv
  <2> QED  BY <2>2 DEF MissingInv
<1>2. ASSUME NEW a \in Agents, Leave(a) \/ Kill(a) \/ CallRejected(a)
      PROVE  MissingInv'
  BY <1>2, OverMissing DEF Leave, Kill, CallRejected, Fail, clocks
<1>3. ASSUME NEW a \in Agents, CallFails(a)
      PROVE  MissingInv'
  BY <1>3, RetryMissing, OverMissing DEF CallFails, Fail, clocks
<1>4. ASSUME NEW a \in Agents, NEW f \in Files, StorageChanges(a, f)
      PROVE  MissingInv'
  <2>1. ASSUME NEW b \in Agents, NEW g \in Files
        PROVE  MissingOf(b, g)'
    <3>1. MissingOf(b, g) /\ UNCHANGED << run, wait, call >>
      BY <1>4 DEF StorageChanges, agent, MissingInv
    <3>2. CASE b = a /\ g = f
      <4>1. missing'[b][g] = 0
        BY <1>4, <3>2 DEF StorageChanges, TypeOK
      <4> QED  BY <4>1, MissingZero
    <3>3. CASE ~(b = a /\ g = f)
      <4>1. missing'[b][g] = missing[b][g] /\ (g \in files'[b] <=> g \in files[b])
        BY <1>4, <3>3 DEF StorageChanges, TypeOK
      <4> QED  BY <3>1, <4>1, MissingFrame
    <3> QED  BY <3>2, <3>3
  <2> QED  BY <2>1 DEF MissingInv
<1>5. ASSUME TrackerCrash
      PROVE  MissingInv'
  BY <1>5, MissingZero DEF TrackerCrash, MissingInv
<1>6. CASE UNCHANGED << run, wait, call, files, missing >>
  BY <1>6, MissingFrame DEF MissingInv
<1>7. ASSUME \/ \E a \in Agents : Signal(a)
             \/ \E f \in Files : Query(f)
             \/ TrackerStart \/ UNCHANGED vars
      PROVE  UNCHANGED << run, wait, call, files, missing >>
  BY <1>7 DEF Signal, Query, TrackerStart, vars, agent, clocks
<1>8. ASSUME NEW a \in Agents, LoopEnds(a)
      PROVE  MissingInv'
  <2>1. /\ run'[a] = "closing" /\ UNCHANGED << call, files, missing >>
        /\ \A b \in Agents \ {a} : run'[b] = run[b] /\ wait'[b] = wait[b]
    BY <1>8 DEF LoopEnds, clocks, TypeOK
  <2>2. \A f \in Files : MissingOf(a, f)'
    BY <2>1, MissingOff DEF MissingInv
  <2> QED  BY <2>1, <2>2, OthersMissing
<1> QED  BY <1>1, <1>2, <1>3, <1>4, <1>5, <1>6, <1>7, <1>8,
            WakeMissing, ProcessMissing, TickMissing DEF Next

LEMMA ListingListed == ListingInv => SeedersGetListed
BY DEF ListingInv, MissingInv, MissingOf, SeedersGetListed, Longest

\* An agent that runs is listed for whatever it stores within one keep-alive sleep
\* and two calls of the tracker being up: a file it was started with, one that was
\* added while a keep-alive was on its way, and any file after the tracker lost its
\* table or worked on a stray departure of an earlier process of the same agent
\* (agent/main.py:66-96, agent/tracker_client.py:151-172).
THEOREM SeedersAreListed == Spec => []SeedersGetListed
BY InitTypeOK, NextTypeOK, AbsenceInit, AbsenceStep, ListingInit, ListingStep, ListingListed,
   PTL DEF Spec
===============================================================================
