------------------------------- MODULE AgentHome -------------------------------
(***************************************************************************)
(* How the processes of an agent start (agent/main.py:23-41,               *)
(* agent/cli.py:54-64): the identity is loaded or created, then the adapter *)
(* of the storage backend is made.                                          *)
(***************************************************************************)
EXTENDS DriveStore

CONSTANTS Missing, Cut

VARIABLES key, step, ident

K == INSTANCE KeyFile

ASSUME HomeAssumption == K!KeyFileAssumption

homeVars == << vars, key, step, ident >>

HomeInit == Init /\ K!Init

\* seed_to_drive.py makes an adapter only.
HasIdentity(p) == p \in Writers => ~IsSeed(p)

Identify(p) ==
  /\ HasIdentity(p)
  /\ K!LoadOrCreate(p)
  /\ UNCHANGED vars

\* A process that has no identity does not get as far as its storage.
Begin(p) ==
  /\ HasIdentity(p) => step[p] = "ready"
  /\ Load(p)
  /\ UNCHANGED << key, step, ident >>

GoOn(p) == Work(p) /\ UNCHANGED << key, step, ident >>

HomeNext == \E p \in Procs : Identify(p) \/ Begin(p) \/ GoOn(p)

HomeSpec == HomeInit /\ [][HomeNext]_homeVars

\* What is shown of the parts holds of them here.
DriveSpec == Spec
KeyFileSpec == K!Spec
KeySettles == K!KeySettles
===============================================================================
