-------------------------------- MODULE Delivery --------------------------------
(***************************************************************************)
(* What is promised of a task that works alone on its copy of the file:     *)
(* success means that the file is there, for good; a failure leaves what was *)
(* there, or no copy; and nothing else happens to it.  Peers, ranges,       *)
(* handles, buffers and manifests do not appear.                            *)
(***************************************************************************)
CONSTANTS
  Tasks,
  Faulty,       \* tasks whose storage may raise
  Mortal        \* tasks that may be killed

VARIABLES
  phase,        \* phase[t]: how far task t is
  copy          \* copy[t]: what t's directory, or t, has stored under the file's hash

Kinds == {"none", "file", "other"}
Phases == {"fetching", "storing", "done", "failed", "crashed"}

TypeOK ==
  /\ phase \in [Tasks -> Phases]
  /\ copy \in [Tasks -> Kinds]

Init ==
  /\ phase = [t \in Tasks |-> "fetching"]
  /\ copy \in [Tasks -> Kinds]

Move(t, from, to, kind) ==
  /\ phase[t] = from
  /\ phase' = [phase EXCEPT ![t] = to]
  /\ copy' = [copy EXCEPT ![t] = kind]

\* Before the first byte is written the old copy is as it was.
GiveUp(t) == Move(t, "fetching", "failed", copy[t])

\* From then on there is no telling what is there ...
Store(t) ==
  \E kind \in Kinds : Move(t, "fetching", "storing", kind) \/ Move(t, "storing", "storing", kind)

\* ... until it is the file and said to be ...
Deliver(t) == Move(t, "storing", "done", "file")

\* ... or is removed.
Reject(t) == Move(t, "storing", "failed", "none")

\* A fault can get in the way of the removal, a crash always does.
Spoil(t) == t \in Faulty /\ \E kind \in Kinds : Move(t, "storing", "failed", kind)
Die(t) == t \in Mortal /\ \E from \in {"fetching", "storing"} : Move(t, from, "crashed", copy[t])

Next ==
  \E t \in Tasks :
    GiveUp(t) \/ Store(t) \/ Deliver(t) \/ Reject(t) \/ Spoil(t) \/ Die(t)

Spec == Init /\ [][Next]_<< phase, copy >>
===============================================================================
