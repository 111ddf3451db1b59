-------------------------------- MODULE MCSwarm --------------------------------
(***************************************************************************)
(* Small instances of Swarm for TLC.                                       *)
(***************************************************************************)
EXTENDS SwarmInv, SequencesExt

CONSTANTS seeder, other, first, second, up, down, again

\* A file of three bytes, and directories' contents that are not it: cut short,
\* changed in its last byte, and with a byte after its end.
MCBytes == {"-", "w", "x", "y", "z"}
MCFile == << "x", "y", "z" >>
StaleCopy == << "w", "w", "w", "w" >>
OtherCopy == << "x", "y", "x" >>
LongCopy == << "x", "y", "z", "x" >>

\* A chain: `up' downloads to `first' while `down' downloads to `second', from
\* the seeder, from one another, or from both.  The seeder's copy is wrong until
\* `again' seeds the file; second has an old copy that is longer than the file.
ChainAgents == {seeder, first, second}
ChainTasks == {up, down, again}
ChainHome == (up :> first) @@ (down :> second) @@ (again :> seeder)
ChainCopies == (seeder :> {<< OtherCopy >>})
               @@ (first :> {<< >>})
               @@ (second :> {<< LongCopy >>})
EveryoneAdmits == ChainAgents \X ChainAgents

\* One directory, several tasks at once: two downloads and a seed, from a good
\* and a bad seeder.
SharedAgents == {seeder, other, first}
SharedHome == [t \in Tasks |-> first]
SharedCopies == (seeder :> {<< MCFile >>})
                @@ (other :> {<< OtherCopy >>, << LongCopy >>})
                @@ (first :> {<< >>, << StaleCopy >>})
SharedAdmits == SharedAgents \X SharedAgents

\* Two downloads, from one another and from two seeders, one of which is gone although
\* the tracker lists it.  What the other seeds may be wrong, and first has an old copy,
\* longer than the file: while it is served, its download empties it, fills it, or
\* removes it, so that reads of a transfer that runs come back short or empty.
LiveAgents == {seeder, other, first, second}
LiveHome == (up :> first) @@ (down :> second)
LiveCopies == (seeder :> {<< MCFile >>, << OtherCopy >>}) @@ (other :> {<< >>})
              @@ (first :> {<< StaleCopy >>}) @@ (second :> {<< >>})
LiveAdmits == LiveAgents \X LiveAgents

-------------------------------------------------------------------------------
(***************************************************************************)
(* What the documentation and the tests say of the code, and the code does *)
(* not do.                                                                 *)
(***************************************************************************)

\* README.md:47: ranges are `verified with a final sha256 hash before being
\* written to the destination storage backend'.  The download writes first and
\* verifies what it reads back (agent/downloader.py:351-363).
VerifiedBeforeWritten ==
  \A t \in Tasks : pc[t] = "write" =>
    FlattenSeq([i \in DOMAIN parts[t] |-> parts[t][i].data]) = File

\* tests/test_storage.py:95: a write_stream that fails leaves no file.  It does
\* when the flush of a close raises (agent/storage.py:159 and 163).
FailedWriteLeavesNothing ==
  [][\A t \in Tasks : pc[t] = "write" /\ pc'[t] = "failed" => path'[Home[t]] = 0]_vars
===============================================================================
