------------------------------- MODULE MCPresence -------------------------------
(***************************************************************************)
(* An instance of Presence for TLC.  A unit is two minutes: a TTL of 5       *)
(* minutes, a keep-alive every 2; time-outs (5 s) are rounded up to a unit.  *)
(***************************************************************************)
EXTENDS Presence, TLC

CONSTANTS alice, song
=================================================================================
