---------------------------------- MODULE Trust ----------------------------------
(***************************************************************************)
(* Who is let in: the trust engines of the agents (agent/trust.py), the      *)
(* vouches and revocations that pass between them, and the decisions the two *)
(* endpoints of the server take with them (agent/p2p_server.py).             *)
(*                                                                           *)
(* Signatures are taken to be unforgeable: a vouch has a valid signature if  *)
(* its issuer issued it just like that, that is, if it is in `vouches'.      *)
(* Nothing in src/ carries vouches and revocations between agents yet; here  *)
(* any agent may present any of them at any time.                            *)
(***************************************************************************)
EXTENDS Integers, Sequences, FiniteSetsExt

CONSTANTS
  Ids,        \* agents
  Settings,   \* Settings[e]: the trust anchors in e's configuration
  TrustAll,   \* agents whose server is started with P2P_TRUST_ALL
  MaxDepth,   \* max_depth
  Lifetimes,  \* values of ttl_seconds
  Tampered,   \* vouches that were never signed as they are
  Clients,    \* agents that download
  MayVouch,   \* << e, s >>: e may issue vouches for s, and revoke them
  MaxTime, MaxVouches, MaxRevokes   \* bounds: the clock, and what is ever issued

ASSUME TrustAssumption ==
  /\ Settings \in [Ids -> SUBSET Ids]
  /\ TrustAll \subseteq Ids
  /\ MaxDepth \in Nat
  /\ Lifetimes \subseteq Nat
  /\ Clients \subseteq Ids
  /\ MayVouch \subseteq Ids \X Ids
  /\ {MaxTime, MaxVouches, MaxRevokes} \subseteq Nat
  /\ Tampered \subseteq [issuer : Ids, subject : Ids, expires : Int]

VARIABLES
  now,
  vouches,   \* the vouches that were issued
  revokes,   \* the revoke messages that were issued, as << issuer, subject >>
  anchors,   \* anchors[e]: trust_anchors
  revoked    \* revoked[e]: _revocations

vars == << now, vouches, revokes, anchors, revoked >>

Vouches == [issuer : Ids, subject : Ids, expires : Int]

-------------------------------------------------------------------------------
(***************************************************************************)
(* verify_chain.                                                           *)
(***************************************************************************)

Verdict(trusted, reason, depth) == [trusted |-> trusted, reason |-> reason, depth |-> depth]

\* What is wrong with the i-th edge of a chain, in the order it is looked for.
EdgeFault(e, chain, i) ==
  CASE chain[i] \notin vouches -> "invalid signature"
    [] chain[i] \in vouches /\ chain[i].expires < now -> "expired"
    [] /\ chain[i] \in vouches
       /\ chain[i].expires >= now
       /\ << chain[i].issuer, chain[i].subject >> \in revoked[e] -> "revoked"
    [] OTHER -> IF i < Len(chain) /\ chain[i].subject # chain[i + 1].issuer
                THEN "chain break" ELSE "none"

FaultyEdges(e, chain) == {i \in 1 .. Len(chain) : EdgeFault(e, chain, i) # "none"}

VerifyChainAnyRoot(e, subject, chain) ==
  IF subject \in anchors[e] THEN Verdict(TRUE, "anchor", 0)
  ELSE IF chain = << >> THEN Verdict(FALSE, "no chain", 0)
  ELSE IF Len(chain) > MaxDepth THEN Verdict(FALSE, "too deep", Len(chain))
  ELSE IF FaultyEdges(e, chain) # {}
       THEN LET i == Min(FaultyEdges(e, chain)) IN Verdict(FALSE, EdgeFault(e, chain, i), i)
  ELSE IF chain[Len(chain)].subject # subject THEN Verdict(FALSE, "wrong subject", Len(chain))
  ELSE Verdict(TRUE, "valid chain", Len(chain))

\* The verdict of e's engine on a subject that presents a chain, root first.
VerifyChain(e, subject, chain) ==
  IF subject \in anchors[e] THEN Verdict(TRUE, "anchor", 0)
  ELSE IF chain = << >> THEN Verdict(FALSE, "no chain", 0)
  ELSE IF Len(chain) > MaxDepth THEN Verdict(FALSE, "too deep", Len(chain))
  ELSE IF chain[1].issuer \notin anchors[e] THEN Verdict(FALSE, "unknown root", Len(chain))
  ELSE IF FaultyEdges(e, chain) # {}
       THEN LET i == Min(FaultyEdges(e, chain)) IN Verdict(FALSE, EdgeFault(e, chain, i), i)
  ELSE IF chain[Len(chain)].subject # subject THEN Verdict(FALSE, "wrong subject", Len(chain))
  ELSE Verdict(TRUE, "valid chain", Len(chain))

Trusts(e, subject, chain) == VerifyChain(e, subject, chain).trusted

-------------------------------------------------------------------------------
(***************************************************************************)
(* Vouching and revoking.                                                  *)
(***************************************************************************)

IssueVouchForgiving(e, s, life) ==
  /\ << e, s >> \in MayVouch
  /\ Cardinality(vouches) < MaxVouches
  /\ vouches' = vouches \cup {[issuer |-> e, subject |-> s, expires |-> now + life]}
  /\ revoked' = [revoked EXCEPT ![e] = @ \ {<< e, s >>}]
  /\ UNCHANGED << now, revokes, anchors >>

\* issue_vouch.
IssueVouch(e, s, life) ==
  /\ << e, s >> \in MayVouch
  /\ Cardinality(vouches) < MaxVouches
  /\ vouches' = vouches \cup {[issuer |-> e, subject |-> s, expires |-> now + life]}
  /\ UNCHANGED << now, revokes, anchors, revoked >>

\* issue_revoke: the issuer's own engine knows of it at once.
IssueRevoke(e, s) ==
  /\ << e, s >> \in MayVouch
  /\ Cardinality(revokes) < MaxRevokes
  /\ revokes' = revokes \cup {<< e, s >>}
  /\ revoked' = [revoked EXCEPT ![e] = @ \cup {<< e, s >>}]
  /\ UNCHANGED << now, vouches, anchors >>

ApplyRevokeSubjectOnly(e, r) ==
  /\ r \in revokes
  /\ revoked' = [revoked EXCEPT ![e] = @ \cup {r[2]}]
  /\ UNCHANGED << now, vouches, revokes, anchors >>

\* apply_revoke, of a message with a valid signature; others change nothing.
ApplyRevoke(e, r) ==
  /\ r \in revokes
  /\ revoked' = [revoked EXCEPT ![e] = @ \cup {r}]
  /\ UNCHANGED << now, vouches, revokes, anchors >>

-------------------------------------------------------------------------------
(***************************************************************************)
(* The endpoints.                                                          *)
(***************************************************************************)

\* The chains that can be presented: one longer than what is accepted is enough
\* to see the bound.
Chains == UNION {[1 .. n -> vouches \cup Tampered] : n \in 0 .. MaxDepth + 1}

\* _handle_handshake: those who have a chain to show that the server accepts.
LetIn(server) ==
  {s \in Ids : server \in TrustAll \/ \E chain \in Chains : Trusts(server, s, chain)}

\* The server keeps nothing of it; the client takes the server as an anchor.
\* (agent/downloader.py sends the empty chain only.)
Handshake(client, server) ==
  /\ client \in LetIn(server)
  /\ anchors' = [anchors EXCEPT ![client] = @ \cup {server}]
  /\ UNCHANGED << now, vouches, revokes, revoked >>

\* _handle_transfer: no chain comes with the request and none is remembered.
TransferAdmitted(server, client) == server \in TrustAll \/ client \in anchors[server]

Tick ==
  /\ now < MaxTime
  /\ now' = now + 1
  /\ UNCHANGED << vouches, revokes, anchors, revoked >>

Init ==
  /\ now = 0
  /\ vouches = {}
  /\ revokes = {}
  /\ anchors = [e \in Ids |-> Settings[e] \cup {e}]
  /\ revoked = [e \in Ids |-> {}]

Next ==
  \/ \E e, s \in Ids : IssueRevoke(e, s) \/ \E life \in Lifetimes : IssueVouch(e, s, life)
  \/ \E e \in Ids : \E r \in revokes : ApplyRevoke(e, r)
  \/ \E client \in Clients, server \in Ids : Handshake(client, server)
  \/ Tick

Spec == Init /\ [][Next]_vars

-------------------------------------------------------------------------------
(***************************************************************************)
(* Properties.                                                             *)
(***************************************************************************)

TypeOK ==
  /\ now \in Nat
  /\ vouches \subseteq Vouches
  /\ revokes \subseteq Ids \X Ids
  /\ anchors \in [Ids -> SUBSET Ids]
  /\ revoked \in [Ids -> SUBSET (Ids \X Ids)]

\* Vouches that count for e: signed, not expired, not revoked as far as e knows.
Counts(e) ==
  {<< v.issuer, v.subject >> : v \in {w \in vouches : w.expires >= now}} \ revoked[e]

\* The agents of S and those that such a vouch connects to one of them.
Onwards(e, S) == S \cup {s \in Ids : \E i \in S : << i, s >> \in Counts(e)}

\* Reach(e)[n]: the agents that at most n such vouches connect to an anchor of e.
Reach(e) ==
  LET reach[n \in 0 .. MaxDepth] == IF n = 0 THEN anchors[e] ELSE Onwards(e, reach[n - 1])
  IN reach

WithinReach(e) == Reach(e)[MaxDepth]

\* There is a chain with which an agent is trusted exactly if it is an anchor or
\* connected to one by at most max_depth vouches that count: the walk along the
\* chain (agent/trust.py:137-233) accepts nothing else, tampered vouches and
\* foreign roots included, and refuses nothing that it should accept.
ChainsReachAnchors ==
  \A e, s \in Ids : (\E chain \in Chains : Trusts(e, s, chain)) <=> s \in WithinReach(e)

\* A chain that an engine refuses for a subject it will not accept later, until it
\* takes a new anchor: time and revocations only take trust away, and no newer
\* vouch brings a revoked one back.
RefusalIsFinal ==
  [][\A e, s \in Ids : \A chain \in Seq(vouches) :
       Trusts(e, s, chain)' => Trusts(e, s, chain) \/ anchors'[e] # anchors[e]]_vars

\* As RefusalIsFinal, of the chains TLC can enumerate.
RefusalIsFinalBounded ==
  [][\A e, s \in Ids : \A chain \in UNION {[1 .. n -> vouches] : n \in 0 .. MaxDepth + 1} :
       Trusts(e, s, chain)' => Trusts(e, s, chain) \/ anchors'[e] # anchors[e]]_vars
==================================================================================
