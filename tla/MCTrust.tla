--------------------------------- MODULE MCTrust ---------------------------------
(***************************************************************************)
(* Instances of Trust for TLC: agents at one, two and three vouches from    *)
(* the first.                                                               *)
(***************************************************************************)
EXTENDS Trust

CONSTANTS host, friend, guest, stranger

NoAnchors == [e \in Ids |-> {}]

\* Each knows the next: the last is three vouches away from the first.
Acquaintances == {<< host, friend >>, << friend, guest >>, << guest, stranger >>}

\* A vouch of the friend for the stranger, which the friend did not sign.
Altered == {[issuer |-> friend, subject |-> stranger, expires |-> 9]}

\* agent/p2p_server.py:39-44: `the downloader includes its full trust chain on
\* every /transfer request, and the server re-verifies it each time [...] a revoked
\* peer is rejected on the next request, not just at login'.  That is, a transfer
\* is open to those whom a handshake would let in, and to nobody else.
TransferReverifies ==
  \A e \in Ids \ TrustAll, s \in Ids :
    TransferAdmitted(e, s) <=> \E chain \in Chains : Trusts(e, s, chain)
==================================================================================
