------------------------------ MODULE MCHttpFetch ------------------------------
(***************************************************************************)
(* HttpFetch for every file size, number of peers and minimum range up to a *)
(* bound.                                                                   *)
(***************************************************************************)
EXTENDS HttpFetch

CONSTANTS MaxSize, MaxMinChunk

MCArguments == [size : 0 .. MaxSize, peers : 1 .. MaxPeers, minChunk : 1 .. MaxMinChunk]
===============================================================================
