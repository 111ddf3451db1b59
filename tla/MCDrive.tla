-------------------------------- MODULE MCDrive --------------------------------
(***************************************************************************)
(* Instances of AgentHome for TLC.                                          *)
(***************************************************************************)
EXTENDS AgentHome, TLC

CONSTANTS daemon, first, second, song, film, nobody, missing, cut

\* Neither the writers nor the files are told apart.
Interchangeable == Permutations({first, second}) \cup Permutations({song, film})

-------------------------------------------------------------------------------
\* agent/storage.py:62: write_stream is to `consume an async byte stream and
\* persist it under file_hash'.  But when every command has ended well, a later
\* process may look for what one of them stored and find no entry of it: the other
\* loaded the manifest before and saved it after (agent/drive_adapter.py:60-65).
StoredIsFound ==
  (\A p \in Procs : pc[p] = "done") =>
    \A t \in Writers :
      LET id == manifest.map[HashOf(t)] IN id # Nobody /\ object[id] = "file"

\* agent/identity.py:85-89: load_or_create `is what gives an agent a stable identity
\* across restarts'.  But a process that starts later may load another key than the
\* one that a process of the same agent goes by: the file was overwritten by a third
\* that had found none either (agent/identity.py:91-94).
RestartKeepsIdentity ==
  [][\A p, q \in Procs :
       step[p] = "load" /\ step'[p] = "ready" /\ step[q] = "ready" =>
         ident'[p] = ident[q]]_homeVars
===============================================================================
