------------------------------ MODULE Trust_proofs ------------------------------
(***************************************************************************)
(* Who is let in, for any number of agents, vouches and any depth: type      *)
(* correctness, that a refused chain stays refused, and that chains reach    *)
(* exactly as far as the vouches that count.                                 *)
(***************************************************************************)
EXTENDS Trust, RangeSplit_proofs

-------------------------------------------------------------------------------
(***************************************************************************)
(* Type correctness.                                                       *)
(***************************************************************************)

LEMMA InitTypeOK == Init => TypeOK
  BY TrustAssumption DEF Init, TypeOK

LEMMA NextTypeOK == TypeOK /\ [Next]_vars => TypeOK'
<1> SUFFICES ASSUME TypeOK, [Next]_vars PROVE TypeOK'
  OBVIOUS
<1>1. ASSUME NEW e \in Ids, NEW s \in Ids, NEW life \in Lifetimes, IssueVouch(e, s, life)
      PROVE  TypeOK'
  <2>1. now + life \in Int
    BY TrustAssumption DEF TypeOK
  <2> QED  BY <1>1, <2>1 DEF IssueVouch, TypeOK, Vouches
<1>2. ASSUME NEW e \in Ids, NEW s \in Ids, IssueRevoke(e, s)
      PROVE  TypeOK'
  BY <1>2 DEF IssueRevoke, TypeOK
<1>3. ASSUME NEW e \in Ids, NEW r \in revokes, ApplyRevoke(e, r)
      PROVE  TypeOK'
  BY <1>3 DEF ApplyRevoke, TypeOK
<1>4. ASSUME NEW client \in Clients, NEW server \in Ids, Handshake(client, server)
      PROVE  TypeOK'
  BY <1>4, TrustAssumption DEF Handshake, TypeOK
<1>5. CASE Tick
  BY <1>5 DEF Tick, TypeOK
<1>6. CASE UNCHANGED vars
  BY <1>6 DEF vars, TypeOK
<1> QED  BY <1>1, <1>2, <1>3, <1>4, <1>5, <1>6, TrustAssumption DEF Next

\* Every variable of Trust keeps its type: the revocations an engine holds are
\* pairs of agents, whatever it issues or applies (agent/trust.py:69, 106, 122).
THEOREM TypeCorrect == Spec => []TypeOK
BY InitTypeOK, NextTypeOK, PTL DEF Spec

-------------------------------------------------------------------------------
(***************************************************************************)
(* What a step never takes back.                                           *)
(***************************************************************************)

\* Time does not go backwards, a vouch stays issued, no engine forgets a revocation.
LEMMA Monotonic ==
  ASSUME TypeOK, [Next]_vars
  PROVE  /\ now' >= now
         /\ vouches \subseteq vouches'
         /\ \A e \in Ids : revoked[e] \subseteq revoked'[e]
<1>1. ASSUME NEW e \in Ids, NEW s \in Ids, NEW life \in Lifetimes, IssueVouch(e, s, life)
      PROVE  now' = now /\ vouches \subseteq vouches' /\ revoked' = revoked
  BY <1>1 DEF IssueVouch
<1>2. ASSUME NEW e \in Ids, NEW s \in Ids, IssueRevoke(e, s)
      PROVE  now' = now /\ vouches' = vouches /\ \A d \in Ids : revoked[d] \subseteq revoked'[d]
  BY <1>2 DEF IssueRevoke, TypeOK
<1>3. ASSUME NEW e \in Ids, NEW r \in revokes, ApplyRevoke(e, r)
      PROVE  now' = now /\ vouches' = vouches /\ \A d \in Ids : revoked[d] \subseteq revoked'[d]
  BY <1>3 DEF ApplyRevoke, TypeOK
<1>4. ASSUME NEW client \in Clients, NEW server \in Ids, Handshake(client, server)
      PROVE  now' = now /\ vouches \subseteq vouches' /\ revoked' = revoked
  BY <1>4 DEF Handshake
<1>5. ASSUME Tick
      PROVE  now' >= now /\ vouches' = vouches /\ revoked' = revoked
  BY <1>5 DEF Tick, TypeOK
<1>6. ASSUME UNCHANGED vars
      PROVE  now' = now /\ vouches \subseteq vouches' /\ revoked' = revoked
  BY <1>6 DEF vars
<1>7. now \in Nat
  BY DEF TypeOK
<1> QED  BY <1>1, <1>2, <1>3, <1>4, <1>5, <1>6, <1>7, TrustAssumption DEF Next

\* verify_chain accepts an anchor, or a chain that passes every check.
LEMMA TrustsMeans ==
  ASSUME NEW e, NEW s, NEW chain
  PROVE  Trusts(e, s, chain) <=>
           \/ s \in anchors[e]
           \/ /\ chain # << >>
              /\ ~(Len(chain) > MaxDepth)
              /\ chain[1].issuer \in anchors[e]
              /\ FaultyEdges(e, chain) = {}
              /\ chain[Len(chain)].subject = s
  BY DEF Trusts, VerifyChain, Verdict

\* An edge that was signed has no fault exactly if it has not expired, is not
\* revoked and leads on to the next one.
LEMMA FaultlessEdge ==
  ASSUME NEW e, NEW chain, NEW i, chain[i] \in vouches, chain[i].expires \in Int, now \in Int
  PROVE  EdgeFault(e, chain, i) = "none" <=>
           /\ chain[i].expires >= now
           /\ << chain[i].issuer, chain[i].subject >> \notin revoked[e]
           /\ ~(i < Len(chain) /\ chain[i].subject # chain[i + 1].issuer)
  BY DEF EdgeFault

\* A chain of issued vouches that an engine trusts after a step it trusted before,
\* unless it took a new anchor: an edge that has no fault had none before
\* (agent/trust.py:186-221).
LEMMA RefusedBefore ==
  ASSUME TypeOK, TypeOK', [Next]_vars,
         NEW e \in Ids, NEW s \in Ids, NEW chain \in Seq(vouches),
         Trusts(e, s, chain)', anchors'[e] = anchors[e]
  PROVE  Trusts(e, s, chain)
<1>1. now' >= now /\ revoked[e] \subseteq revoked'[e]
  BY Monotonic
<1>2. CASE s \in anchors[e]
  BY <1>2, TrustsMeans
<1>3. ASSUME s \notin anchors[e]
      PROVE  Trusts(e, s, chain)
  <2>1. /\ chain # << >>
        /\ ~(Len(chain) > MaxDepth)
        /\ chain[1].issuer \in anchors[e]
        /\ FaultyEdges(e, chain)' = {}
        /\ chain[Len(chain)].subject = s
    BY <1>3 DEF Trusts, VerifyChain, Verdict
  <2>2. ASSUME NEW i \in 1 .. Len(chain)
        PROVE  EdgeFault(e, chain, i) = "none"
    <3>1. chain[i] \in vouches /\ chain[i].expires \in Int
      BY DEF TypeOK, Vouches
    <3>2. chain[i] \in vouches'
      BY <3>1, Monotonic
    <3>3. EdgeFault(e, chain, i)' = "none"
      BY <2>1 DEF FaultyEdges
    <3>4. now \in Int /\ now' \in Int
      BY DEF TypeOK
    <3>5. /\ chain[i].expires >= now'
          /\ << chain[i].issuer, chain[i].subject >> \notin revoked'[e]
          /\ ~(i < Len(chain) /\ chain[i].subject # chain[i + 1].issuer)
      BY <3>1, <3>2, <3>3, <3>4 DEF EdgeFault
    <3>6. chain[i].expires >= now
      BY <1>1, <3>1, <3>4, <3>5
    <3> QED  BY <1>1, <3>1, <3>4, <3>5, <3>6, FaultlessEdge
  <2>3. FaultyEdges(e, chain) = {}
    BY <2>2 DEF FaultyEdges
  <2> QED  BY <2>1, <2>3, TrustsMeans
<1> QED  BY <1>2, <1>3

\* A chain that an engine refuses for a subject it refuses until it takes a new
\* anchor, however long the chain; those that TLC enumerates are among them
\* (agent/trust.py:137-233).
THEOREM RefusalStays == Spec => RefusalIsFinal /\ RefusalIsFinalBounded
<1>1. ASSUME TypeOK, TypeOK', [Next]_vars
      PROVE  \A e, s \in Ids : \A chain \in Seq(vouches) :
               Trusts(e, s, chain)' => Trusts(e, s, chain) \/ anchors'[e] # anchors[e]
  BY <1>1, RefusedBefore
<1>2. ASSUME NEW chain \in UNION {[1 .. n -> vouches] : n \in 0 .. MaxDepth + 1}
      PROVE  chain \in Seq(vouches)
  BY TrustAssumption
<1>3. TypeOK /\ TypeOK' /\ [Next]_vars =>
        [\A e, s \in Ids : \A chain \in Seq(vouches) :
           Trusts(e, s, chain)' => Trusts(e, s, chain) \/ anchors'[e] # anchors[e]]_vars
  BY <1>1
<1>4. TypeOK /\ TypeOK' /\ [Next]_vars =>
        [\A e, s \in Ids : \A chain \in UNION {[1 .. n -> vouches] : n \in 0 .. MaxDepth + 1} :
           Trusts(e, s, chain)' => Trusts(e, s, chain) \/ anchors'[e] # anchors[e]]_vars
  BY <1>1, <1>2
<1> QED  BY <1>3, <1>4, TypeCorrect, PTL DEF Spec, RefusalIsFinal, RefusalIsFinalBounded

-------------------------------------------------------------------------------
(***************************************************************************)
(* How far chains reach.  The recursion of Reach, unfolded, and the two      *)
(* directions by the length of the chain.                                   *)
(***************************************************************************)

\* The recursion has a solution: were there a first depth without one, that of the
\* depth before it could be continued.
LEMMA ReachExists ==
  ASSUME NEW e, NEW depth \in Nat
  PROVE  \E g : g = [n \in 0 .. depth |-> IF n = 0 THEN anchors[e] ELSE Onwards(e, g[n - 1])]
<1> DEFINE Solves(g, n) ==
             g = [k \in 0 .. n |-> IF k = 0 THEN anchors[e] ELSE Onwards(e, g[k - 1])]
           T == {n \in Nat : ~ \E g : Solves(g, n)}
<1>1. SUFFICES ASSUME T # {} PROVE FALSE
  BY <1>1
<1>2. PICK m \in T : \A k \in T : m =< k
  BY <1>1, LeastElement
<1>3. m # 0
  <2> DEFINE g == [k \in 0 .. 0 |-> anchors[e]]
  <2>1. Solves(g, 0)
    OBVIOUS
  <2> QED  BY <2>1
<1>4. m - 1 \in Nat /\ m - 1 \notin T
  <2>1. m \in Nat
    BY <1>2
  <2> HIDE DEF T
  <2> QED  BY <1>2, <1>3, <2>1
<1>5. PICK g : Solves(g, m - 1)
  BY <1>4
<1> DEFINE h == [k \in 0 .. m |-> IF k = m THEN Onwards(e, g[m - 1]) ELSE g[k]]
<1>6. \A k \in 0 .. m - 1 : h[k] = g[k]
  BY <1>4
<1>7. ASSUME NEW k \in 0 .. m
      PROVE  h[k] = IF k = 0 THEN anchors[e] ELSE Onwards(e, h[k - 1])
  <2>1. CASE k = m
    <3>1. h[k] = Onwards(e, g[m - 1]) /\ h[k - 1] = g[m - 1]
      BY <1>4, <1>6, <2>1
    <3> QED  BY <1>3, <2>1, <3>1
  <2>2. CASE k # m
    <3>1. k \in 0 .. m - 1 /\ (k # 0 => k - 1 \in 0 .. m - 1)
      BY <1>4, <2>2
    <3>2. h[k] = g[k] /\ (k # 0 => h[k - 1] = g[k - 1])
      BY <1>6, <3>1
    <3>3. g[k] = IF k = 0 THEN anchors[e] ELSE Onwards(e, g[k - 1])
      BY <1>5, <3>1
    <3> QED  BY <3>2, <3>3
  <2> QED  BY <2>1, <2>2
<1>8. h = [k \in 0 .. m |-> h[k]]
  OBVIOUS
<1> HIDE DEF h
<1>9. Solves(h, m)
  BY <1>7, <1>8
<1> QED  BY <1>2, <1>9

LEMMA ReachIs ==
  ASSUME NEW e
  PROVE  /\ Reach(e)[0] = anchors[e]
         /\ \A n \in 1 .. MaxDepth : Reach(e)[n] = Onwards(e, Reach(e)[n - 1])
<1>0. MaxDepth \in Nat
  BY TrustAssumption
<1>1. PICK g : g = [n \in 0 .. MaxDepth |-> IF n = 0 THEN anchors[e] ELSE Onwards(e, g[n - 1])]
  BY <1>0, ReachExists, Zenon
<1>2. Reach(e) = [n \in 0 .. MaxDepth |->
                    IF n = 0 THEN anchors[e] ELSE Onwards(e, Reach(e)[n - 1])]
  BY <1>1, Zenon DEF Reach
<1> DEFINE r == Reach(e)
<1>3. r = [n \in 0 .. MaxDepth |-> IF n = 0 THEN anchors[e] ELSE Onwards(e, r[n - 1])]
  BY <1>2
<1>4. 0 \in 0 .. MaxDepth /\ \A n \in 1 .. MaxDepth : n \in 0 .. MaxDepth /\ n # 0
  BY TrustAssumption
<1> HIDE DEF r
<1>5. r[0] = anchors[e] /\ \A n \in 1 .. MaxDepth : r[n] = Onwards(e, r[n - 1])
  BY <1>3, <1>4
<1> QED  BY <1>5 DEF r

LEMMA ReachGrows ==
  ASSUME NEW e, NEW n \in 0 .. MaxDepth
  PROVE  Reach(e)[n] \subseteq Reach(e)[MaxDepth]
<1> DEFINE T == {k \in Nat : n + k =< MaxDepth /\ ~(Reach(e)[n] \subseteq Reach(e)[n + k])}
<1>0. n \in Nat /\ MaxDepth \in Nat
  BY TrustAssumption
<1>1. SUFFICES ASSUME T # {} PROVE FALSE
  <2>1. MaxDepth - n \in Nat /\ n + (MaxDepth - n) = MaxDepth
    BY <1>0
  <2> QED  BY <1>1, <2>1
<1>2. PICK m \in T : \A k \in T : m =< k
  BY <1>1, LeastElement
<1>3. m # 0
  <2>1. n + 0 = n
    BY <1>0
  <2> QED  BY <1>2, <2>1
<1>4. m - 1 \in Nat /\ m - 1 \notin T /\ n + (m - 1) =< MaxDepth
  BY <1>0, <1>2, <1>3
<1>5. Reach(e)[n] \subseteq Reach(e)[n + (m - 1)]
  BY <1>4
<1>6. n + m \in 1 .. MaxDepth /\ (n + m) - 1 = n + (m - 1)
  BY <1>0, <1>2, <1>4
<1>7. Reach(e)[n + m] = Onwards(e, Reach(e)[n + (m - 1)])
  BY <1>6, ReachIs
<1>8. Reach(e)[n + (m - 1)] \subseteq Reach(e)[n + m]
  BY <1>7 DEF Onwards
<1> QED  BY <1>2, <1>5, <1>8

\* An edge that an engine accepts is a vouch that counts, and leads on.
LEMMA AcceptedEdge ==
  ASSUME TypeOK, NEW e, NEW chain, NEW i
  PROVE  EdgeFault(e, chain, i) = "none" <=>
           /\ chain[i] \in vouches
           /\ chain[i].expires >= now
           /\ << chain[i].issuer, chain[i].subject >> \notin revoked[e]
           /\ ~(i < Len(chain) /\ chain[i].subject # chain[i + 1].issuer)
<1>1. CASE chain[i] \in vouches
  <2>1. chain[i].expires \in Int /\ now \in Int
    BY <1>1 DEF TypeOK, Vouches
  <2> QED  BY <1>1, <2>1, FaultlessEdge
<1>2. CASE chain[i] \notin vouches
  BY <1>2 DEF EdgeFault
<1> QED  BY <1>1, <1>2

\* A chain from an anchor along edges that an engine accepts stays within reach.
LEMMA ChainStays ==
  ASSUME TypeOK, NEW e \in Ids, NEW chain, Len(chain) \in 1 .. MaxDepth,
         chain[1].issuer \in anchors[e], FaultyEdges(e, chain) = {}
  PROVE  \A n \in 1 .. Len(chain) : chain[n].subject \in Reach(e)[n]
<1> DEFINE T == {n \in Nat : n \in 1 .. Len(chain) /\ chain[n].subject \notin Reach(e)[n]}
<1>0. Len(chain) \in Nat /\ MaxDepth \in Nat /\ Len(chain) =< MaxDepth
  BY TrustAssumption
<1>1. SUFFICES ASSUME T # {} PROVE FALSE
  BY <1>0, <1>1
<1>2. PICK m \in T : \A k \in T : m =< k
  BY <1>1, LeastElement
<1>3. ASSUME NEW i \in 1 .. Len(chain)
      PROVE  /\ chain[i].issuer \in Ids /\ chain[i].subject \in Ids
             /\ << chain[i].issuer, chain[i].subject >> \in Counts(e)
             /\ i < Len(chain) => chain[i].subject = chain[i + 1].issuer
  <2>1. EdgeFault(e, chain, i) = "none"
    BY DEF FaultyEdges
  <2>2. /\ chain[i] \in vouches /\ chain[i].expires >= now
        /\ << chain[i].issuer, chain[i].subject >> \notin revoked[e]
        /\ ~(i < Len(chain) /\ chain[i].subject # chain[i + 1].issuer)
    BY <2>1, AcceptedEdge
  <2> QED  BY <2>2 DEF Counts, TypeOK, Vouches
<1>4. chain[m].issuer \in Reach(e)[m - 1]
  <2>1. CASE m = 1
    <3>1. m - 1 = 0
      BY <2>1
    <3> QED  BY <2>1, <3>1, ReachIs
  <2>2. CASE m # 1
    <3>1. m - 1 \in 1 .. Len(chain) /\ m - 1 < Len(chain) /\ m - 1 + 1 = m /\ m - 1 \notin T
      BY <1>0, <1>2, <2>2
    <3>2. chain[m - 1].subject = chain[m].issuer
      BY <1>3, <3>1
    <3> QED  BY <1>0, <3>1, <3>2
  <2> QED  BY <2>1, <2>2
<1>5. m \in 1 .. MaxDepth /\ m \in 1 .. Len(chain)
  BY <1>0, <1>2
<1>6. Reach(e)[m] = Onwards(e, Reach(e)[m - 1])
  BY <1>5, ReachIs
<1>7. chain[m].subject \in Onwards(e, Reach(e)[m - 1])
  BY <1>3, <1>4, <1>5 DEF Onwards
<1> QED  BY <1>2, <1>6, <1>7

\* n vouches that count, from an anchor of e to s.
Path(e, s, chain, n) ==
  /\ chain \in [1 .. n -> vouches]
  /\ chain[1].issuer \in anchors[e]
  /\ \A i \in 1 .. n : << chain[i].issuer, chain[i].subject >> \notin revoked[e]
                       /\ chain[i].expires >= now
  /\ \A i \in 1 .. n - 1 : chain[i].subject = chain[i + 1].issuer
  /\ chain[n].subject = s

LEMMA PathGoesOn ==
  ASSUME NEW e, NEW i, NEW chain, NEW n \in Nat \ {0}, Path(e, i, chain, n),
         NEW v \in vouches, v.expires >= now, v.issuer = i,
         << v.issuer, v.subject >> \notin revoked[e]
  PROVE  \E longer : Path(e, v.subject, longer, n + 1)
<1> DEFINE longer == [j \in 1 .. n + 1 |-> IF j = n + 1 THEN v ELSE chain[j]]
<1>1. longer[n + 1] = v /\ \A j \in 1 .. n : longer[j] = chain[j]
  OBVIOUS
<1>2. longer \in [1 .. n + 1 -> vouches]
  <2>1. \A j \in 1 .. n + 1 : j = n + 1 \/ j \in 1 .. n
    OBVIOUS
  <2> QED  BY <2>1 DEF Path
<1> HIDE DEF longer
<1>3. longer[1].issuer \in anchors[e]
  BY <1>1 DEF Path
<1>4. ASSUME NEW j \in 1 .. n + 1
      PROVE  /\ << longer[j].issuer, longer[j].subject >> \notin revoked[e]
             /\ longer[j].expires >= now
  <2>1. CASE j = n + 1
    BY <1>1, <2>1
  <2>2. CASE j \in 1 .. n
    BY <1>1, <2>2 DEF Path
  <2> QED  BY <2>1, <2>2
<1>5. ASSUME NEW j \in 1 .. (n + 1) - 1
      PROVE  longer[j].subject = longer[j + 1].issuer
  <2>1. CASE j = n
    BY <1>1, <2>1 DEF Path
  <2>2. CASE j # n
    <3>1. j \in 1 .. n /\ j + 1 \in 1 .. n /\ j \in 1 .. n - 1
      BY <2>2
    <3> QED  BY <1>1, <3>1 DEF Path
  <2> QED  BY <2>1, <2>2
<1> QED  BY <1>1, <1>2, <1>3, <1>4, <1>5 DEF Path

\* Whoever is within reach is an anchor or at the end of a path.
LEMMA PathTo ==
  ASSUME TypeOK, NEW e \in Ids
  PROVE  \A n \in 0 .. MaxDepth : \A s \in Reach(e)[n] :
           s \in anchors[e] \/ \E k \in 1 .. n : \E chain : Path(e, s, chain, k)
<1> DEFINE Led(n) == \A s \in Reach(e)[n] :
                       s \in anchors[e] \/ \E k \in 1 .. n : \E chain : Path(e, s, chain, k)
           T == {n \in Nat : n \in 0 .. MaxDepth /\ ~Led(n)}
<1>0. MaxDepth \in Nat
  BY TrustAssumption
<1> HIDE DEF Led
<1>1. SUFFICES ASSUME T # {} PROVE FALSE
  BY <1>0, <1>1 DEF Led
<1>2. PICK m \in T : \A k \in T : m =< k
  BY <1>1, LeastElement
<1>3. m # 0
  BY <1>2, ReachIs DEF Led
<1>4. m - 1 \in 0 .. MaxDepth /\ m - 1 \in Nat /\ m - 1 \notin T /\ m \in 1 .. MaxDepth
  BY <1>0, <1>2, <1>3
<1>5. Led(m - 1)
  BY <1>4
<1>6. Reach(e)[m] = Onwards(e, Reach(e)[m - 1])
  BY <1>4, ReachIs
<1>7. ASSUME NEW s \in Reach(e)[m]
      PROVE  s \in anchors[e] \/ \E k \in 1 .. m : \E chain : Path(e, s, chain, k)
  <2>1. CASE s \in Reach(e)[m - 1]
    <3>1. 1 .. m - 1 \subseteq 1 .. m
      BY <1>4
    <3> QED  BY <1>5, <2>1, <3>1 DEF Led
  <2>2. CASE s \notin Reach(e)[m - 1]
    <3>1. PICK i \in Reach(e)[m - 1] : << i, s >> \in Counts(e)
      BY <1>6, <2>2 DEF Onwards
    <3>2. PICK v \in vouches : /\ v.expires >= now /\ v.issuer = i /\ v.subject = s
                               /\ << v.issuer, v.subject >> \notin revoked[e]
      BY <3>1 DEF Counts
    <3>3. CASE i \in anchors[e]
      <4> DEFINE chain == [j \in 1 .. 1 |-> v]
      <4>1. chain \in [1 .. 1 -> vouches] /\ chain[1] = v
        OBVIOUS
      <4> HIDE DEF chain
      <4>2. Path(e, s, chain, 1)
        BY <3>2, <3>3, <4>1 DEF Path
      <4>3. 1 \in 1 .. m
        BY <1>4
      <4> QED  BY <4>2, <4>3
    <3>4. CASE i \notin anchors[e]
      <4>1. PICK k \in 1 .. m - 1 : \E chain : Path(e, i, chain, k)
        BY <1>5, <3>1, <3>4 DEF Led
      <4>2. k \in Nat \ {0} /\ k + 1 \in 1 .. m
        BY <1>4
      <4>3. \E longer : Path(e, v.subject, longer, k + 1)
        BY <3>2, <4>1, <4>2, PathGoesOn
      <4> QED  BY <3>2, <4>2, <4>3
    <3> QED  BY <3>3, <3>4
  <2> QED  BY <2>1, <2>2
<1> QED  BY <1>2, <1>7 DEF Led

\* A path is a chain that can be presented, and is accepted.
LEMMA PathTrusted ==
  ASSUME TypeOK, NEW e \in Ids, NEW s, NEW n \in 1 .. MaxDepth, NEW chain, Path(e, s, chain, n)
  PROVE  chain \in Chains /\ Trusts(e, s, chain)
<1>1. n \in Nat /\ n # 0 /\ n \in 0 .. MaxDepth + 1 /\ n =< MaxDepth /\ MaxDepth \in Nat
  BY TrustAssumption
<1>2. chain \in [1 .. n -> vouches]
  BY DEF Path
<1>3. chain \in [1 .. n -> vouches \cup Tampered]
  BY <1>2
<1>4. chain \in Chains
  BY <1>1, <1>3 DEF Chains
<1>5. chain \in Seq(vouches) /\ Len(chain) = n
  BY <1>1, <1>2, FunctionIsSeq
<1>6. chain # << >>
  BY <1>1, <1>5
<1>7. ASSUME NEW i \in 1 .. Len(chain)
      PROVE  EdgeFault(e, chain, i) = "none"
  <2>1. chain[i] \in vouches
    BY <1>2, <1>5
  <2>2. /\ chain[i].expires >= now
        /\ << chain[i].issuer, chain[i].subject >> \notin revoked[e]
    BY <1>5 DEF Path
  <2>3. ~(i < Len(chain) /\ chain[i].subject # chain[i + 1].issuer)
    BY <1>1, <1>5 DEF Path
  <2> QED  BY <2>1, <2>2, <2>3, AcceptedEdge
<1>8. FaultyEdges(e, chain) = {}
  BY <1>7 DEF FaultyEdges
<1> QED  BY <1>1, <1>4, <1>5, <1>6, <1>8, TrustsMeans DEF Path

LEMMA ChainsReach == TypeOK => ChainsReachAnchors
<1> SUFFICES ASSUME TypeOK, NEW e \in Ids, NEW s \in Ids
             PROVE  (\E chain \in Chains : Trusts(e, s, chain)) <=> s \in WithinReach(e)
  BY DEF ChainsReachAnchors
<1>0. MaxDepth \in Nat
  BY TrustAssumption
<1>1. ASSUME s \in anchors[e]
      PROVE  s \in WithinReach(e)
  <2>1. 0 \in 0 .. MaxDepth
    BY <1>0
  <2> QED  BY <1>1, <2>1, ReachGrows, ReachIs DEF WithinReach
<1>2. ASSUME NEW chain \in Chains, Trusts(e, s, chain)
      PROVE  s \in WithinReach(e)
  <2>1. CASE s \in anchors[e]
    BY <1>1, <2>1
  <2>2. CASE s \notin anchors[e]
    <3>1. /\ chain # << >> /\ ~(Len(chain) > MaxDepth)
          /\ chain[1].issuer \in anchors[e]
          /\ FaultyEdges(e, chain) = {} /\ chain[Len(chain)].subject = s
      BY <1>2, <2>2, TrustsMeans
    <3>2. PICK n \in 0 .. MaxDepth + 1 : chain \in [1 .. n -> vouches \cup Tampered]
      BY DEF Chains
    <3>3. n \in Nat
      BY <1>0
    <3>4. chain \in Seq(vouches \cup Tampered) /\ Len(chain) = n
      BY <3>2, <3>3, FunctionIsSeq
    <3>5. n # 0
      BY <3>1, <3>4, EmptySeq
    <3>6. Len(chain) \in 1 .. MaxDepth
      BY <1>0, <3>1, <3>3, <3>4, <3>5
    <3>7. s \in Reach(e)[Len(chain)]
      BY <3>1, <3>6, ChainStays
    <3>8. Len(chain) \in 0 .. MaxDepth
      BY <1>0, <3>6
    <3> QED  BY <3>7, <3>8, ReachGrows DEF WithinReach
  <2> QED  BY <2>1, <2>2
<1>3. ASSUME s \in WithinReach(e)
      PROVE  \E chain \in Chains : Trusts(e, s, chain)
  <2>1. MaxDepth \in 0 .. MaxDepth
    BY <1>0
  <2>2. CASE s \in anchors[e]
    <3> DEFINE chain == [j \in 1 .. 0 |-> CHOOSE v \in vouches : TRUE]
    <3>1. chain \in [1 .. 0 -> vouches \cup Tampered]
      OBVIOUS
    <3>2. 0 \in 0 .. MaxDepth + 1
      BY <1>0
    <3>3. chain \in Chains
      BY <3>1, <3>2 DEF Chains
    <3> HIDE DEF chain
    <3> QED  BY <2>2, <3>3, TrustsMeans
  <2>3. CASE s \notin anchors[e]
    <3>1. PICK k \in 1 .. MaxDepth : \E chain : Path(e, s, chain, k)
      BY <1>3, <2>1, <2>3, PathTo DEF WithinReach
    <3> QED  BY <3>1, PathTrusted
  <2> QED  BY <2>2, <2>3
<1> QED  BY <1>2, <1>3

\* For any number of agents, vouches, revocations and any max_depth: an agent can
\* present a chain that an engine accepts exactly if it is one of the engine's
\* anchors or at most max_depth vouches away from one, each of them signed, not
\* expired and not revoked as far as the engine knows; no tampered vouch helps and
\* no good one is refused (agent/trust.py:137-233).
THEOREM ChainsReachThusFar == Spec => []ChainsReachAnchors
BY TypeCorrect, ChainsReach, PTL
==================================================================================
