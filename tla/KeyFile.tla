-------------------------------- MODULE KeyFile --------------------------------
(***************************************************************************)
(* The key file of an agent (agent/identity.py), which every process of the *)
(* agent loads when it starts, or creates when there is none: its daemon,   *)
(* each time it is started, and the commands `download', `peers' and        *)
(* `identity' next to it.  A key is named by the process that generated it. *)
(***************************************************************************)
CONSTANTS
  Procs,        \* runs of programs that call load_or_create
  Missing, Cut, \* what the file is before it is created, and while it is written
  Mortal        \* processes that may be killed

\* (Assumed by AgentHome.)
KeyFileAssumption == Missing \notin Procs /\ Cut \notin Procs /\ Missing # Cut

VARIABLES
  key,     \* the file: Missing, Cut or somebody's key
  step,    \* step[p]: how far p is in load_or_create
  ident    \* ident[p]: the identity p goes by, Missing while it has none

keyVars == << key, step, ident >>

Steps == {"look", "load", "create", "write", "ready", "ended"}

Advance(p, to) == step' = [step EXCEPT ![p] = to]

LookAndCreate(p) ==
  /\ step[p] = "look"
  /\ Advance(p, "create")
  /\ UNCHANGED << key, ident >>

\* path.exists(): without a file a new key is generated, in memory.
Look(p) ==
  /\ step[p] = "look"
  /\ Advance(p, IF key = Missing THEN "create" ELSE "load")
  /\ UNCHANGED << key, ident >>

\* _load: a file that is being written has no key in it yet, which is an error.
LoadKey(p) ==
  /\ step[p] = "load"
  /\ IF key = Cut
     THEN /\ Advance(p, "ended")
          /\ UNCHANGED ident
     ELSE /\ Advance(p, "ready")
          /\ ident' = [ident EXCEPT ![p] = key]
  /\ UNCHANGED key

\* _save: opening the file for writing empties it, whatever another process has
\* put there since the look ...
OpenKey(p) ==
  /\ step[p] = "create"
  /\ key' = Cut
  /\ Advance(p, "write")
  /\ UNCHANGED ident

\* ... and then the key is written, over that of another process that has the
\* file open too (keys have one length).
SaveKey(p) ==
  /\ step[p] = "write"
  /\ key' = p
  /\ Advance(p, "ready")
  /\ ident' = [ident EXCEPT ![p] = p]

KeyCrash(p) ==
  /\ p \in Mortal
  /\ step[p] \in {"load", "create", "write"}
  /\ Advance(p, "ended")
  /\ UNCHANGED << key, ident >>

Init ==
  /\ key = Missing
  /\ step = [p \in Procs |-> "look"]
  /\ ident = [p \in Procs |-> Missing]

LoadOrCreate(p) == Look(p) \/ LoadKey(p) \/ OpenKey(p) \/ SaveKey(p) \/ KeyCrash(p)

Next == \E p \in Procs : LoadOrCreate(p)

Spec == Init /\ [][Next]_keyVars

-------------------------------------------------------------------------------
TypeOK ==
  /\ key \in Procs \cup {Missing, Cut}
  /\ step \in [Procs -> Steps]
  /\ ident \in [Procs -> Procs \cup {Missing}]

\* Nobody is left between a look that found no file and the end of its _save.
Settled == key \in Procs /\ \A p \in Procs : step[p] \notin {"create", "write"}

\* Once the key is there and the processes that found none are through, it is the
\* identity of the agent for good: whoever starts later takes it, whatever is
\* killed, and nobody writes another (agent/identity.py:83-95).
KeySettles ==
  [][Settled => /\ key' = key /\ Settled'
                /\ \A p \in Procs : ident'[p] \in {ident[p], key}]_keyVars
=================================================================================
