-------------------------------- MODULE Registry --------------------------------
(***************************************************************************)
(* The tracker's table (tracker/registry.py) and what its routes            *)
(* (tracker/main.py) do with it, as operators on the table.  No route       *)
(* awaits anything, so each is one step.                                    *)
(*                                                                          *)
(* A table maps the hash of a file to a map from the agents that seed it to *)
(* the time since they were registered (now - registered_at, in the units   *)
(* of PeerTTL).                                                             *)
(***************************************************************************)
EXTENDS Naturals, FiniteSets, Functions

CONSTANT PeerTTL   \* Registry.peer_ttl
ASSUME RegistryAssumption == PeerTTL \in Nat

NoEntry == [a \in {} |-> 0]

\* What _store.get(file_hash, {}) is.
Entry(table, f) == IF f \in DOMAIN table THEN table[f] ELSE NoEntry

RegisteredOnce(table, files, a) ==
  [f \in DOMAIN table \cup files |->
     IF f \notin files THEN table[f]
     ELSE [b \in DOMAIN Entry(table, f) \cup {a} |->
             IF b \notin DOMAIN Entry(table, f) THEN 0 ELSE table[f][b]]]

\* register, for each of the announced hashes: add the agent or start its time
\* again.
Registered(table, files, a) ==
  [f \in DOMAIN table \cup files |->
     IF f \notin files THEN table[f]
     ELSE [b \in DOMAIN Entry(table, f) \cup {a} |-> IF b = a THEN 0 ELSE table[f][b]]]

RemovedKeepingEmpty(table, fs, gone) ==
  [f \in DOMAIN table |-> Restrict(table[f], DOMAIN table[f] \ (IF f \in fs THEN gone ELSE {}))]

\* The agents of `gone' leave the hashes of `fs'; a hash goes with its last agent.
Removed(table, fs, gone) ==
  LET kept == {f \in DOMAIN table : f \in fs => ~ DOMAIN table[f] \subseteq gone}
  IN [f \in kept |-> Restrict(table[f], DOMAIN table[f] \ (IF f \in fs THEN gone ELSE {}))]

\* unregister, for each of the given hashes, and unregister_all.
Unregistered(table, fs, a) == Removed(table, fs, {a})
UnregisteredAll(table, a) == Unregistered(table, DOMAIN table, a)

Expired(age) == age > PeerTTL

StaleIn(table, f) == {a \in DOMAIN Entry(table, f) : Expired(table[f][a])}

LiveWithStale(table, f) == DOMAIN Entry(table, f)

\* get_peers: the agents that are answered ...
Live(table, f) == DOMAIN Entry(table, f) \ StaleIn(table, f)

\* ... and what the answer leaves of the table.
Pruned(table, f) == Removed(table, {f}, StaleIn(table, f))

\* A unit of time passes; ages past the TTL are not told apart.
Aged(table) ==
  [f \in DOMAIN table |->
     [a \in DOMAIN table[f] |-> IF Expired(table[f][a]) THEN table[f][a] ELSE table[f][a] + 1]]
=================================================================================
