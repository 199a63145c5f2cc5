--------------------------- MODULE TransferProofs ---------------------------
(***************************************************************************)
(* Proofs about Transfer: in every network, whatever the routes, rules and *)
(* failures, a message is in exactly one place until it has ended.         *)
(***************************************************************************)
EXTENDS Transfer, Recursion

----------------------------------------------------------------------------
(* Queues of messages.                                                     *)

\* What is read of a message here, beside what it is about.
IsMessage(m) == {"id", "sls"} \subseteq DOMAIN m /\ m.id \in Id /\ m.sls \in Nat

IdsIn(q) == {q[k].id : k \in DOMAIN q}

\* A queue of messages, no message twice.
Proper(q) ==
    /\ q \in Seq({q[k] : k \in DOMAIN q})
    /\ \A k \in DOMAIN q : IsMessage(q[k])
    /\ \A j, k \in DOMAIN q : q[j].id = q[k].id => j = k

LEMMA QueueOf ==
    ASSUME NEW S, NEW q \in Seq(S)
    PROVE  /\ q \in Seq({q[k] : k \in DOMAIN q})
           /\ Len(q) \in Nat /\ DOMAIN q = 1 .. Len(q)
<1>1. Len(q) \in Nat /\ DOMAIN q = 1 .. Len(q) /\ q \in [1 .. Len(q) -> S]
    BY LenProperties
<1> DEFINE T == {q[k] : k \in DOMAIN q}
<1>2. q \in [1 .. Len(q) -> T]
    BY <1>1
<1> HIDE DEF T
<1>3. q \in Seq(T)
    BY <1>1, <1>2, SeqDef
<1> QED BY <1>1, <1>3 DEF T

LEMMA EmptyQueue ==
    ASSUME NEW q, q = <<>>
    PROVE  Proper(q) /\ IdsIn(q) = {}
<1>1. q \in Seq({}) /\ Len(q) = 0
    OBVIOUS
<1>2. DOMAIN q = {}
    BY <1>1
<1>3. q \in Seq({q[k] : k \in DOMAIN q})
    BY <1>1, QueueOf
<1> QED BY <1>2, <1>3 DEF Proper, IdsIn

LEMMA AppendQueue ==
    ASSUME NEW q, Proper(q), NEW m, IsMessage(m), m.id \notin IdsIn(q), NEW n, n = Append(q, m)
    PROVE  Proper(n) /\ IdsIn(n) = IdsIn(q) \cup {m.id} /\ n # <<>>
<1> DEFINE S == {q[k] : k \in DOMAIN q}
<1>1. q \in Seq(S)
    BY DEF Proper
<1>2. Len(q) \in Nat /\ DOMAIN q = 1 .. Len(q)
    BY <1>1, QueueOf
<1> HIDE DEF S
<1>3. q \in Seq(S \cup {m})
    BY <1>1
<1>4. /\ n \in Seq(S \cup {m}) /\ Len(n) = Len(q) + 1
      /\ n[Len(q) + 1] = m /\ \A k \in 1 .. Len(q) : n[k] = q[k]
    BY <1>3
<1>5. DOMAIN n = 1 .. Len(q) + 1 /\ n \in Seq({n[k] : k \in DOMAIN n})
    BY <1>4, QueueOf
<1>6. \A k \in DOMAIN q : q[k].id \in IdsIn(q)
    BY DEF IdsIn
<1>7. \A k \in DOMAIN n : k \in DOMAIN q \/ k = Len(q) + 1
    BY <1>2, <1>5
<1>8. IdsIn(n) = IdsIn(q) \cup {m.id}
    <2>1. \A k \in DOMAIN n : n[k].id \in IdsIn(q) \cup {m.id}
        BY <1>2, <1>4, <1>6, <1>7
    <2>2. \A k \in DOMAIN q : \E j \in DOMAIN n : n[j].id = q[k].id
        BY <1>2, <1>4, <1>5
    <2>3. \E j \in DOMAIN n : n[j].id = m.id
        BY <1>2, <1>4, <1>5
    <2> QED BY <2>1, <2>2, <2>3 DEF IdsIn
<1>9. \A k \in DOMAIN n : IsMessage(n[k])
    BY <1>2, <1>4, <1>7 DEF Proper
<1>10. ASSUME NEW j \in DOMAIN n, NEW k \in DOMAIN n, n[j].id = n[k].id PROVE j = k
    BY <1>2, <1>4, <1>6, <1>7, <1>10 DEF Proper
<1>11. n # <<>>
    BY <1>2, <1>4
<1> QED BY <1>5, <1>8, <1>9, <1>10, <1>11 DEF Proper

LEMMA TailQueue ==
    ASSUME NEW q, Proper(q), q # <<>>, NEW n, n = Tail(q)
    PROVE  /\ Proper(n) /\ IdsIn(n) = IdsIn(q) \ {Head(q).id}
           /\ IsMessage(Head(q)) /\ Head(q).id \in IdsIn(q)
<1> DEFINE S == {q[k] : k \in DOMAIN q}
<1>1. q \in Seq(S)
    BY DEF Proper
<1>2. Len(q) \in Nat /\ DOMAIN q = 1 .. Len(q)
    BY <1>1, QueueOf
<1> HIDE DEF S
<1>3. /\ n \in Seq(S) /\ Len(n) = Len(q) - 1 /\ Len(q) # 0 /\ Head(q) = q[1]
      /\ \A k \in 1 .. Len(n) : n[k] = q[k + 1]
    BY <1>1
<1>4. DOMAIN n = 1 .. Len(q) - 1 /\ n \in Seq({n[k] : k \in DOMAIN n})
    <2>1. n \in Seq(S)
        BY <1>3
    <2>2. \A x \in Seq(S) : DOMAIN x = 1 .. Len(x) /\ x \in Seq({x[k] : k \in DOMAIN x})
        BY QueueOf
    <2>3. DOMAIN n = 1 .. Len(n) /\ n \in Seq({n[k] : k \in DOMAIN n})
        BY <2>1, <2>2
    <2> QED BY <1>3, <2>3
<1>5. 1 \in DOMAIN q /\ Head(q) = q[1]
    BY <1>2, <1>3
<1>6. \A k \in DOMAIN n : k + 1 \in DOMAIN q /\ k + 1 # 1 /\ n[k] = q[k + 1] /\ k \in Nat
    BY <1>2, <1>3, <1>4
<1>7. \A k \in DOMAIN q : k = 1 \/ (k - 1 \in DOMAIN n /\ n[k - 1] = q[k])
    <2>1. \A k \in DOMAIN q : k = 1 \/ (k - 1 \in DOMAIN n /\ (k - 1) + 1 = k)
        BY <1>2, <1>4
    <2> QED BY <1>6, <2>1
<1>8. IdsIn(n) = IdsIn(q) \ {Head(q).id}
    <2>1. \A k \in DOMAIN n : n[k].id \in IdsIn(q) /\ n[k].id # Head(q).id
        BY <1>5, <1>6 DEF IdsIn, Proper
    <2>2. \A k \in DOMAIN q : q[k].id # Head(q).id => \E j \in DOMAIN n : n[j].id = q[k].id
        BY <1>5, <1>7
    <2> QED BY <2>1, <2>2 DEF IdsIn
<1>9. \A k \in DOMAIN n : IsMessage(n[k])
    BY <1>6 DEF Proper
<1>10. ASSUME NEW j \in DOMAIN n, NEW k \in DOMAIN n, n[j].id = n[k].id PROVE j = k
    <2>1. j + 1 = k + 1
        BY <1>6, <1>10 DEF Proper
    <2> QED BY <1>6, <2>1
<1> QED BY <1>4, <1>5, <1>8, <1>9, <1>10 DEF Proper, IdsIn

LEMMA ConcatQueue ==
    ASSUME NEW q, Proper(q), NEW r, Proper(r), IdsIn(q) \cap IdsIn(r) = {}, NEW n, n = q \o r
    PROVE  Proper(n) /\ IdsIn(n) = IdsIn(q) \cup IdsIn(r)
<1> DEFINE S == {q[k] : k \in DOMAIN q} \cup {r[k] : k \in DOMAIN r}
<1>1. q \in Seq(S) /\ r \in Seq(S)
    BY SeqMonotonic DEF Proper
<1>2. /\ Len(q) \in Nat /\ DOMAIN q = 1 .. Len(q)
      /\ Len(r) \in Nat /\ DOMAIN r = 1 .. Len(r)
    BY <1>1, QueueOf
<1> HIDE DEF S
<1>3. /\ n \in Seq(S) /\ Len(n) = Len(q) + Len(r)
      /\ \A k \in 1 .. Len(q) : n[k] = q[k]
      /\ \A k \in 1 .. Len(r) : n[Len(q) + k] = r[k]
    BY <1>1, <1>2, ConcatProperties
<1>4. DOMAIN n = 1 .. Len(q) + Len(r) /\ n \in Seq({n[k] : k \in DOMAIN n})
    <2>1. n \in Seq(S)
        BY <1>3
    <2>2. \A x \in Seq(S) : DOMAIN x = 1 .. Len(x) /\ x \in Seq({x[k] : k \in DOMAIN x})
        BY QueueOf
    <2>3. DOMAIN n = 1 .. Len(n) /\ n \in Seq({n[k] : k \in DOMAIN n})
        BY <2>1, <2>2
    <2> QED BY <1>3, <2>3
<1>5. ASSUME NEW k \in DOMAIN n
      PROVE  \/ k \in DOMAIN q /\ n[k] = q[k]
             \/ k - Len(q) \in DOMAIN r /\ n[k] = r[k - Len(q)]
    <2>1. CASE k <= Len(q)
        BY <1>2, <1>3, <1>4, <2>1
    <2>2. CASE k > Len(q)
        <3>1. k - Len(q) \in 1 .. Len(r) /\ Len(q) + (k - Len(q)) = k
            BY <1>2, <1>4, <2>2
        <3> QED BY <1>2, <1>3, <3>1
    <2> QED BY <1>2, <1>4, <2>1, <2>2
<1>6. /\ \A k \in DOMAIN q : k \in DOMAIN n /\ n[k] = q[k]
      /\ \A k \in DOMAIN r : Len(q) + k \in DOMAIN n /\ n[Len(q) + k] = r[k]
    BY <1>2, <1>3, <1>4
<1>7. IdsIn(n) = IdsIn(q) \cup IdsIn(r)
    <2>1. \A k \in DOMAIN n : n[k].id \in IdsIn(q) \cup IdsIn(r)
        BY <1>5 DEF IdsIn
    <2>2. \A k \in DOMAIN q : q[k].id \in IdsIn(n)
        <3>1. \A k \in DOMAIN q : k \in DOMAIN n /\ n[k].id = q[k].id
            BY <1>6
        <3> QED BY <3>1 DEF IdsIn
    <2>3. \A k \in DOMAIN r : r[k].id \in IdsIn(n)
        <3>1. \A k \in DOMAIN r : Len(q) + k \in DOMAIN n /\ n[Len(q) + k].id = r[k].id
            BY <1>6
        <3> QED BY <3>1 DEF IdsIn
    <2>4. IdsIn(n) \subseteq IdsIn(q) \cup IdsIn(r)
        BY <2>1 DEF IdsIn
    <2>5. IdsIn(q) \subseteq IdsIn(n) /\ IdsIn(r) \subseteq IdsIn(n)
        BY <2>2, <2>3 DEF IdsIn
    <2> QED BY <2>4, <2>5
<1>8. \A k \in DOMAIN n : IsMessage(n[k])
    BY <1>5 DEF Proper
<1>9. ASSUME NEW j \in DOMAIN n, NEW k \in DOMAIN n, n[j].id = n[k].id PROVE j = k
    <2>1. \A x \in DOMAIN q, y \in DOMAIN r : q[x].id # r[y].id
        BY DEF IdsIn
    <2>2. CASE j \in DOMAIN q /\ n[j] = q[j] /\ k \in DOMAIN q /\ n[k] = q[k]
        BY <1>9, <2>2 DEF Proper
    <2>3. CASE /\ j - Len(q) \in DOMAIN r /\ n[j] = r[j - Len(q)]
               /\ k - Len(q) \in DOMAIN r /\ n[k] = r[k - Len(q)]
        <3>1. j - Len(q) = k - Len(q)
            BY <1>9, <2>3 DEF Proper
        <3> QED BY <1>2, <1>4, <3>1
    <2> QED BY <1>5, <1>9, <2>1, <2>2, <2>3
<1> QED BY <1>4, <1>7, <1>8, <1>9 DEF Proper

----------------------------------------------------------------------------
(* The decisions of Routing: a linkset of the node or none, and a link of  *)
(* it that is up or none.                                                  *)

LEMMA NthIsMember ==
    ASSUME NEW n \in Nat, NEW S \in SUBSET (1 .. n), S # {}, NEW k \in Nat
    PROVE  /\ IsFiniteSet(S) /\ Cardinality(S) \in Nat \ {0}
           /\ Nth(S, k % Cardinality(S)) \in S
<1>1. IsFiniteSet(1 .. n)
    BY FS_Interval
<1>2. IsFiniteSet(S) /\ Cardinality(S) \in Nat
    BY <1>1, FS_Subset, FS_CardinalityType
<1>3. Cardinality(S) # 0
    BY <1>2, FS_EmptySet
<1> DEFINE c == Cardinality(S)
           r == k % c
<1>4. c \in Nat \ {0}
    BY <1>2, <1>3
<1> HIDE DEF c
<1>5. r \in 0 .. c - 1
    BY <1>4
<1> HIDE DEF r
<1>6. NthOf(S, r) \in S
    <2>1. S \in SUBSET Nat /\ r \in 0 .. Cardinality(S) - 1
        BY <1>5 DEF c
    <2> QED BY <1>2, <2>1, NthOfHasRank
<1>7. Nth(S, r) = NthOf(S, r)
    BY DEF Nth, NthOf
<1> QED BY <1>2, <1>3, <1>6, <1>7 DEF r, c

LEMMA FirstIsMember ==
    ASSUME NEW n \in Nat, NEW S \in SUBSET (1 .. n), S # {}
    PROVE  Nth(S, 0) \in S
<1>1. IsFiniteSet(S) /\ Cardinality(S) \in Nat \ {0}
    BY NthIsMember
<1>2. NthOf(S, 0) \in S
    BY <1>1, NthOfHasRank
<1> QED BY <1>2 DEF Nth, NthOf

\* A finite number of numbers has an upper bound.
LEMMA FiniteBound ==
    ASSUME NEW S, IsFiniteSet(S), NEW f \in [S -> Nat]
    PROVE  \E b \in Nat : \A x \in S : f[x] <= b
<1>1. PICK n \in Nat : ExistsSurjection(1 .. n, S)
    BY FS_NatSurjection
<1>2. PICK g \in Surjection(1 .. n, S) : TRUE
    BY <1>1 DEF ExistsSurjection
<1>3. g \in [1 .. n -> S] /\ \A x \in S : \E k \in 1 .. n : g[k] = x
    BY <1>2 DEF Surjection
<1> DEFINE T == {k \in 0 .. n : \E b \in Nat : \A j \in 1 .. k : f[g[j]] <= b}
<1>4. 0 \in T
    OBVIOUS
<1>5. ASSUME NEW k \in 0 .. n - 1, k \in T PROVE k + 1 \in T
    <2>1. PICK b \in Nat : \A j \in 1 .. k : f[g[j]] <= b
        BY <1>5
    <2> DEFINE v == f[g[k + 1]]
               c == b + v
    <2>2. v \in Nat /\ \A j \in 1 .. k + 1 : f[g[j]] \in Nat /\ (j \in 1 .. k \/ j = k + 1)
        BY <1>3
    <2>3. c \in Nat /\ b <= c /\ v <= c
        BY <2>2
    <2>4. \A j \in 1 .. k + 1 : f[g[j]] <= c
        <3> HIDE DEF c
        <3> QED BY <2>1, <2>2, <2>3
    <2>5. k + 1 \in 0 .. n
        OBVIOUS
    <2> QED BY <2>3, <2>4, <2>5
<1>6. n \in T
    <2> HIDE DEF T
    <2>1. 0 .. n \subseteq T
        BY <1>4, <1>5, Upward
    <2> QED BY <2>1
<1> QED BY <1>3, <1>6

\* How ConfigAssumption is used.
LEMMA ConfigFacts ==
    ASSUME NEW n \in Node, NEW c, c = Config[n]
    PROVE  /\ \A ls \in DOMAIN c.links :
                  Len(c.links[ls]) \in Nat /\ DOMAIN c.links[ls] = 1 .. Len(c.links[ls])
           /\ \A l \in LinksOf(n) : LinksetOf(c, l) \in DOMAIN c.links
           /\ \A d : LET routes == Candidates(c, d) IN
                  /\ Len(routes) \in Nat /\ DOMAIN routes = 1 .. Len(routes)
                  /\ \A i \in DOMAIN routes : routes[i].via \in DOMAIN c.links
<1>1. /\ \A ls \in DOMAIN c.links : c.links[ls] \in Seq(LinksOf(n))
      /\ \A l \in LinksOf(n) : \E ls \in DOMAIN c.links :
             \E i \in DOMAIN c.links[ls] : c.links[ls][i] = l
      /\ \A d \in DOMAIN c.routes : c.routes[d] \in Seq([via : DOMAIN c.links, priority : Nat])
    BY ConfigAssumption
<1>2. ASSUME NEW ls \in DOMAIN c.links
      PROVE  Len(c.links[ls]) \in Nat /\ DOMAIN c.links[ls] = 1 .. Len(c.links[ls])
    BY <1>1, <1>2, LenProperties
<1>3. ASSUME NEW l \in LinksOf(n) PROVE LinksetOf(c, l) \in DOMAIN c.links
    BY <1>1, <1>3 DEF LinksetOf
<1>4. ASSUME NEW d
      PROVE  LET routes == Candidates(c, d) IN
             /\ Len(routes) \in Nat /\ DOMAIN routes = 1 .. Len(routes)
             /\ \A i \in DOMAIN routes : routes[i].via \in DOMAIN c.links
    <2> DEFINE R == [via : DOMAIN c.links, priority : Nat]
               routes == Candidates(c, d)
    <2>1. routes \in Seq(R)
        <3>1. <<>> \in Seq(R)
            BY EmptySeq
        <3> QED BY <1>1, <3>1 DEF Candidates
    <2>2. \A r \in R : r.via \in DOMAIN c.links
        OBVIOUS
    <2> HIDE DEF R, routes
    <2>3. Len(routes) \in Nat /\ DOMAIN routes = 1 .. Len(routes) /\ routes \in [1 .. Len(routes) -> R]
        BY <2>1, LenProperties
    <2>4. \A i \in DOMAIN routes : routes[i].via \in DOMAIN c.links
        BY <2>2, <2>3
    <2> QED BY <2>3, <2>4 DEF routes
<1> QED BY <1>2, <1>3, <1>4

\* resolve_avoiding
LEMMA RouteFound ==
    ASSUME NEW n \in Node, NEW c, c = Config[n], NEW s, NEW d, NEW sls \in Nat, NEW avoid
    PROVE  EgressFor(c, s, d, sls, avoid) \in DOMAIN c.links \cup {None}
<1> DEFINE routes == Candidates(c, d)
           use == [i \in DOMAIN routes |-> Usable(s, d, routes[i].via, avoid)]
           tier == TierInUse(routes, use)
           inUse == {i \in tier : use[i] = ClassInUse(tier, use)}
           normal == Nth(tier, sls % Cardinality(tier))
           other == Nth(inUse, sls % Cardinality(inUse))
           chosen == ChooseRoute(tier, use, sls)
<1>1. /\ Len(routes) \in Nat /\ DOMAIN routes = 1 .. Len(routes)
      /\ \A i \in DOMAIN routes : routes[i].via \in DOMAIN c.links
    BY ConfigFacts
<1>2. \A i \in DOMAIN routes : use[i] \in {"No", "Restricted", "Yes"}
    BY DEF Usable
<1>3. EgressFor(c, s, d, sls, avoid) \in {None, ChosenAmong(routes, use, tier, sls)}
    BY DEF EgressFor, ChosenOf
<1> HIDE DEF routes
<1>4. tier \subseteq DOMAIN routes
    BY DEF TierInUse
<1>5. ASSUME tier # {} PROVE chosen \in tier
    <2>1. PICK j \in tier : use[j] # "No"
        <3>1. PICK i \in DOMAIN routes, j \in DOMAIN routes :
                  /\ use[j] # "No" /\ routes[i].priority = routes[j].priority
                  /\ \A k \in 1 .. j - 1 : routes[k].priority < routes[j].priority => use[k] = "No"
            BY <1>5 DEF TierInUse
        <3>2. j \in tier
            BY <3>1 DEF TierInUse
        <3> QED BY <3>1, <3>2
    <2> HIDE DEF use, tier
    <2>2. use[j] = "Yes" \/ use[j] = "Restricted"
        BY <1>2, <1>4, <2>1
    <2>3. inUse # {}
        BY <2>1, <2>2 DEF ClassInUse
    <2>4. inUse \in SUBSET (1 .. Len(routes))
        BY <1>1, <1>4
    <2>5. other \in inUse
        <3> HIDE DEF inUse
        <3> QED BY <1>1, <2>3, <2>4, NthIsMember
    <2>6. chosen = IF normal \in inUse THEN normal ELSE other
        BY DEF ChooseRoute
    <2> HIDE DEF chosen, normal, other
    <2> QED BY <2>5, <2>6
<1>6. CASE tier = {}
    BY <1>3, <1>6 DEF ChosenAmong
<1>7. CASE tier # {}
    <2>1. ChosenAmong(routes, use, tier, sls) = routes[chosen].via
        BY <1>7 DEF ChosenAmong
    <2> HIDE DEF chosen, tier, use
    <2>2. routes[chosen].via \in DOMAIN c.links
        BY <1>1, <1>4, <1>5, <1>7
    <2> QED BY <1>3, <2>1, <2>2
<1> QED BY <1>6, <1>7

\* share_width
LEMMA ShareWidthIsPositive ==
    ASSUME NEW n \in Node, NEW c, c = Config[n], NEW via
    PROVE  ShareWidth(c, via) \in Nat \ {0}
<1> DEFINE Ds == {d \in DOMAIN c.routes : Through(c, d, via) # {}}
           own(d) == Nth(Through(c, d, via), 0)
           Widths == {1} \cup {TierWidth(c.routes[d], own(d)) : d \in Ds}
           f == [d \in DOMAIN c.routes |-> Len(c.routes[d])]
<1>1. ASSUME NEW d \in DOMAIN c.routes
      PROVE  Len(c.routes[d]) \in Nat /\ DOMAIN c.routes[d] = 1 .. Len(c.routes[d])
    <2>1. Candidates(c, d) = c.routes[d]
        BY DEF Candidates
    <2>2. LET routes == Candidates(c, d) IN Len(routes) \in Nat /\ DOMAIN routes = 1 .. Len(routes)
        BY ConfigFacts
    <2> QED BY <2>1, <2>2
<1>2. IsFiniteSet(DOMAIN c.routes)
    BY ConfigAssumption
<1>3. ASSUME NEW d \in Ds
      PROVE  TierWidth(c.routes[d], own(d)) \in 1 .. Len(c.routes[d])
    <2> DEFINE L == Len(c.routes[d])
               S == {i \in DOMAIN c.routes[d] : c.routes[d][i].priority = c.routes[d][own(d)].priority}
    <2>1. L \in Nat /\ DOMAIN c.routes[d] = 1 .. L
        BY <1>1
    <2>2. Through(c, d, via) \in SUBSET (1 .. L) /\ Through(c, d, via) # {}
        BY <2>1 DEF Through
    <2> HIDE DEF L
    <2>3. own(d) \in 1 .. L
        BY <2>1, <2>2, FirstIsMember
    <2>4. TierWidth(c.routes[d], own(d)) = Cardinality(S)
        BY DEF TierWidth
    <2>5. S \in SUBSET (1 .. L) /\ own(d) \in S
        BY <2>1, <2>3
    <2> HIDE DEF S
    <2>6. S # {}
        BY <2>5
    <2>7. Cardinality(S) \in Nat \ {0}
        BY <2>1, <2>5, <2>6, NthIsMember
    <2>8. IsFiniteSet(1 .. L) /\ Cardinality(1 .. L) = L
        BY <2>1, FS_Interval
    <2>9. Cardinality(S) <= L
        BY <2>5, <2>8, FS_Subset
    <2> QED BY <2>1, <2>4, <2>7, <2>9 DEF L
<1>4. f \in [DOMAIN c.routes -> Nat]
    BY <1>1
<1>5. PICK b \in Nat : \A d \in DOMAIN c.routes : f[d] <= b
    <2> HIDE DEF f
    <2> QED BY <1>2, <1>4, FiniteBound
<1> DEFINE m == b + 1
<1>6. \A w \in Widths : w \in Nat \ {0} /\ w <= m
    <2>1. ASSUME NEW d \in Ds PROVE TierWidth(c.routes[d], own(d)) \in 1 .. b
        <3>1. Len(c.routes[d]) \in Nat /\ Len(c.routes[d]) <= b
            BY <1>1, <1>5
        <3> QED BY <1>3, <3>1
    <2> QED BY <2>1
<1>7. ShareWidth(c, via) = CHOOSE w \in Widths : \A v \in Widths : v <= w
    BY DEF ShareWidth
<1>8. 1 \in Widths
    OBVIOUS
<1> HIDE DEF Widths
<1>9. Widths \in SUBSET (0 .. m) /\ Widths # {} /\ m \in Nat
    BY <1>6, <1>8
<1>10. \E w \in Widths : \A v \in Widths : v <= w
    <2> HIDE DEF m
    <2> QED BY <1>9, GreatestElement
<1>11. ShareWidth(c, via) \in Widths
    BY <1>7, <1>10
<1> QED BY <1>6, <1>11

\* select_link_avoiding
LEMMA LinkFound ==
    ASSUME NEW n \in Node, NEW c, c = Config[n], NEW s, NEW ls \in DOMAIN c.links,
           NEW sls \in Nat, NEW avoid
    PROVE  SelectLink(c, s, ls, sls, avoid) \in s.up \cup {None}
<1> DEFINE links == c.links[ls]
           fit == {i \in DOMAIN links : links[i] \in s.up \ {avoid}}
           w == ShareWidth(c, ls)
           key == sls \div w
           other == Nth(fit, key % Cardinality(fit))
           normal == (key % Len(links)) + 1
<1>1. SelectLink(c, s, ls, sls, avoid) = LinkAmong(links, fit, key)
    BY DEF SelectLink
<1>2. w \in Nat \ {0}
    BY ShareWidthIsPositive
<1> HIDE DEF w
<1>3. key \in Nat
    BY <1>2
<1>4. Len(links) \in Nat /\ DOMAIN links = 1 .. Len(links)
    BY ConfigFacts
<1> HIDE DEF key, links
<1>5. fit \in SUBSET (1 .. Len(links)) /\ \A i \in fit : links[i] \in s.up
    BY <1>4
<1> HIDE DEF fit
<1>6. fit # {} => other \in fit
    BY <1>3, <1>4, <1>5, NthIsMember
<1>7. LinkAmong(links, fit, key) =
          IF fit = {} THEN None ELSE IF normal \in fit THEN links[normal] ELSE links[other]
    BY DEF LinkAmong
<1> HIDE DEF normal, other
<1> QED BY <1>1, <1>5, <1>6, <1>7

\* What leaves the node leaves it by a linkset.
IsDecision(c, d) ==
    /\ d.do \in {"Route", "RouteTo", "Local", "CrossTenant", "Drop"}
    /\ d.do = "Route" => d.via \in DOMAIN c.links
    /\ d.do = "RouteTo" => d.via \in DOMAIN c.links \cup {None}

\* route_for
LEMMA DecisionFound ==
    ASSUME NEW n \in Node, NEW c, c = Config[n], NEW s, NEW msg, msg.sls \in Nat
    PROVE  IsDecision(c, RouteFor(c, s, msg))
<1> DEFINE d == RouteFor(c, s, msg)
           target == ResultOf(c, s, TargetFor(c, s, msg))
           digits == IF ByContent(c, s, msg) THEN Deciding(c, msg).digits ELSE None
           own == Resolve(c, s, msg.dpc, msg.sls)
           far == Resolve(c, s, target.name, msg.sls)
           made == DecisionOf(c, s, target, msg.sls, digits)
<1>1. \A x, p, v, g : LET e == Decision(x, p, v, g) IN e.do = x /\ e.via = v
    BY DEF Decision
<1>2. own \in DOMAIN c.links \cup {None} /\ far \in DOMAIN c.links \cup {None}
    <2> HIDE DEF target
    <2> QED BY RouteFound DEF Resolve
<1>3. d = Transit(own) \/ d = Local \/ d = Drop \/ d = made
    <2>1. Translated(c, s, msg) = made
        BY DEF Translated
    <2> HIDE DEF made
    <2> QED BY <2>1 DEF RouteFor
<1> HIDE DEF d, target, digits, own
<1>4. made \in {Decision("RouteTo", target.name, far, digits), Local,
                Decision("CrossTenant", None, None, None), Drop}
    BY DEF DecisionOf
<1> HIDE DEF far, made
<1>5. Transit(own) = Drop \/ (own # None /\ Transit(own) = Decision("Route", None, own, None))
    BY DEF Transit
<1>6. Local.do = "Local" /\ Drop.do = "Drop"
    BY <1>1 DEF Local, Drop
<1> DEFINE go == Decision("Route", None, own, None)
           to == Decision("RouteTo", target.name, far, digits)
           out == Decision("CrossTenant", None, None, None)
<1>7. go.do = "Route" /\ go.via = own /\ to.do = "RouteTo" /\ to.via = far /\ out.do = "CrossTenant"
    BY <1>1
<1>8. d \in {Local, Drop, to, out} \/ (d = go /\ own # None)
    BY <1>3, <1>4, <1>5
<1> HIDE DEF go, to, out
<1>9. /\ d.do \in {"Route", "RouteTo", "Local", "CrossTenant", "Drop"}
      /\ d.do = "Route" => d.via \in DOMAIN c.links
      /\ d.do = "RouteTo" => d.via \in DOMAIN c.links \cup {None}
    BY <1>2, <1>6, <1>7, <1>8
<1> QED BY <1>9 DEF d, IsDecision

----------------------------------------------------------------------------
(* Outcomes.                                                               *)

StateFields == {"up", "open", "marks", "paused", "deferred", "held", "cursor"}

Final == {"Discard", "Reflect", "Deliver"}

\* A step disposes of a message: it ends here, goes out by a link that is up, or
\* is put into the buffer of a destination that is held.
Disposes(s, o, m) ==
    /\ IsMessage(o.msg) /\ o.msg.id = m.id
    /\ DOMAIN o.s = StateFields /\ o.s.up = s.up
    /\ \/ o.do \in Final /\ o.s.held = s.held
       \/ o.do = "Send" /\ o.link \in s.up /\ o.s.held = s.held
       \/ /\ o.do = "Hold" /\ o.msg.dpc \in DOMAIN s.held
          /\ o.s.held = [s.held EXCEPT ![o.msg.dpc] = Append(s.held[o.msg.dpc], o.msg)]

\* The message is another one with the same id, or the state was changed where
\* nothing waits.
LEMMA DisposesAs ==
    ASSUME NEW s, NEW r, r.up = s.up, r.held = s.held,
           NEW m, NEW x, x.id = m.id, NEW o, Disposes(r, o, x)
    PROVE  Disposes(s, o, m)
BY DEF Disposes

LEMMA OutcomeIs ==
    ASSUME NEW s, DOMAIN s = StateFields, NEW m, IsMessage(m)
    PROVE  /\ Disposes(s, Discarded(s, m), m)
           /\ Disposes(s, Reflected(s, m), m)
           /\ Disposes(s, ToUser(s, m), m)
           /\ \A l \in s.up : Disposes(s, OutBy(s, l, m), m)
BY DEF Disposes, Final, Discarded, Reflected, ToUser, OutBy, Outcome

LEMMA BufferedIs ==
    ASSUME NEW s, DOMAIN s = StateFields, NEW m, IsMessage(m), IsHeld(s, m)
    PROVE  Disposes(s, Buffered(s, m), m)
<1> DEFINE q == Append(s.held[m.dpc], m)
           h == [s.held EXCEPT ![m.dpc] = q]
           r == [s EXCEPT !.held = h]
           o == Outcome("Hold", r, None, m)
<1>1. Buffered(s, m) = IF Len(s.held[m.dpc]) < Capacity THEN o ELSE Discarded(s, m)
    BY DEF Buffered, StateFields
<1>2. m.dpc \in DOMAIN s.held
    BY DEF IsHeld
<1> HIDE DEF h
<1>3. DOMAIN r = StateFields /\ r.up = s.up /\ r.held = h
    BY DEF StateFields
<1> HIDE DEF r
<1>4. o.do = "Hold" /\ o.s = r /\ o.msg = m
    BY DEF Outcome
<1> HIDE DEF o
<1>5. Disposes(s, o, m)
    BY <1>2, <1>3, <1>4 DEF Disposes, h
<1>6. Disposes(s, Discarded(s, m), m)
    BY OutcomeIs
<1> QED BY <1>1, <1>5, <1>6

LEMMA OnLinkIs ==
    ASSUME NEW s, DOMAIN s = StateFields, NEW m, IsMessage(m), NEW l \in s.up \cup {None}
    PROVE  Disposes(s, OnLink(s, l, m), m)
BY OutcomeIs DEF OnLink

LEMMA SendViaIs ==
    ASSUME NEW n \in Node, NEW s, DOMAIN s = StateFields, NEW m, IsMessage(m),
           NEW via \in DOMAIN Config[n].links
    PROVE  /\ Disposes(s, SendNow(Config[n], s, via, m), m)
           /\ Disposes(s, SendVia(Config[n], s, via, m), m)
<1>1. SelectLink(Config[n], s, via, m.sls, None) \in s.up \cup {None}
    BY LinkFound DEF IsMessage
<1>2. Disposes(s, SendNow(Config[n], s, via, m), m)
    BY <1>1, OnLinkIs DEF SendNow
<1>3. IsHeld(s, m) => Disposes(s, Buffered(s, m), m)
    BY BufferedIs
<1> QED BY <1>2, <1>3 DEF SendVia

\* What this node writes of a message is a message with the same id.
LEMMA Rewritten ==
    ASSUME NEW m, IsMessage(m), NEW c, NEW d
    PROVE  /\ IsMessage(SccpReturn(c, m)) /\ SccpReturn(c, m).id = m.id
           /\ IsMessage(AbortOf(c, m)) /\ AbortOf(c, m).id = m.id
           /\ IsMessage(Relayed(m, d)) /\ Relayed(m, d).id = m.id
<1>1. IsMessage(SccpReturn(c, m)) /\ SccpReturn(c, m).id = m.id
    BY DEF SccpReturn, IsMessage
<1>2. IsMessage(AbortOf(c, m)) /\ AbortOf(c, m).id = m.id
    BY DEF AbortOf, IsMessage
<1>3. IsMessage(Relayed(m, d)) /\ Relayed(m, d).id = m.id
    BY DEF Relayed, IsMessage
<1> QED BY <1>1, <1>2, <1>3

\* sccp_return
LEMMA ReturnIs ==
    ASSUME NEW n \in Node, NEW s, DOMAIN s = StateFields, NEW m, IsMessage(m),
           NEW src \in DOMAIN Config[n].links
    PROVE  Disposes(s, ReturnOrDiscard(Config[n], s, src, m), m)
<1> DEFINE x == SccpReturn(Config[n], m)
<1>1. IsMessage(x) /\ x.id = m.id
    BY Rewritten
<1> HIDE DEF x
<1>2. Disposes(s, SendVia(Config[n], s, src, x), x)
    BY <1>1, SendViaIs
<1>3. Disposes(s, SendVia(Config[n], s, src, x), m)
    BY <1>1, <1>2, DisposesAs
<1>4. Disposes(s, Discarded(s, m), m)
    BY OutcomeIs
<1> QED BY <1>3, <1>4 DEF ReturnOrDiscard, x

LEMMA RefusedIs ==
    ASSUME NEW n \in Node, NEW s, DOMAIN s = StateFields, NEW m, IsMessage(m), NEW from
    PROVE  Disposes(s, RefusedHere(Config[n], s, from, m), m)
<1> DEFINE x == AbortOf(Config[n], m)
<1>1. IsMessage(x) /\ x.id = m.id
    BY Rewritten
<1> HIDE DEF x
<1>2. from \in s.up => Disposes(s, OutBy(s, from, x), x)
    BY <1>1, OutcomeIs
<1>3. from \in s.up => Disposes(s, OutBy(s, from, x), m)
    BY <1>1, <1>2, DisposesAs
<1>4. Disposes(s, Discarded(s, m), m)
    BY OutcomeIs
<1> QED BY <1>3, <1>4 DEF RefusedHere, x

\* dispatch
LEMMA ActsIs ==
    ASSUME NEW n \in Node, NEW s, DOMAIN s = StateFields, NEW m, IsMessage(m), NEW from,
           NEW src \in DOMAIN Config[n].links, NEW d, IsDecision(Config[n], d)
    PROVE  Disposes(s, Acts(Config[n], s, from, src, m, d), m)
<1> DEFINE c == Config[n]
           back == ReturnOrDiscard(c, s, src, m)
           x == Relayed(m, d)
<1>1. /\ Disposes(s, back, m) /\ Disposes(s, Discarded(s, m), m)
      /\ Disposes(s, Reflected(s, m), m) /\ Disposes(s, ToUser(s, m), m)
      /\ Disposes(s, RefusedHere(c, s, from, m), m)
    BY ReturnIs, OutcomeIs, RefusedIs
<1>2. IsMessage(x) /\ x.id = m.id
    BY Rewritten
<1> HIDE DEF x
<1>3. CASE d.do = "Route"
    <2>1. Disposes(s, SendVia(c, s, d.via, m), m)
        BY <1>3, SendViaIs DEF IsDecision
    <2>2. Disposes(s, Transfers(c, s, src, m, d), m)
        BY <1>1, <2>1 DEF Transfers
    <2>3. Acts(c, s, from, src, m, d) = Transfers(c, s, src, m, d)
        BY <1>3 DEF Acts
    <2> QED BY <2>2, <2>3
<1>4. CASE d.do = "RouteTo"
    <2>1. d.via \in DOMAIN c.links => Disposes(s, SendVia(c, s, d.via, x), m)
        <3>1. d.via \in DOMAIN c.links => Disposes(s, SendVia(c, s, d.via, x), x)
            BY <1>2, SendViaIs
        <3> QED BY <1>2, <3>1, DisposesAs
    <2>2. Disposes(s, Relays(c, s, src, m, d), m)
        <3>1. CASE d.via = None
            <4>1. Relays(c, s, src, m, d) \in {back, Reflected(s, m)}
                BY <3>1 DEF Relays
            <4> QED BY <1>1, <4>1
        <3>2. CASE d.via # None
            <4>1. Relays(c, s, src, m, d) \in {back, Reflected(s, m), SendVia(c, s, d.via, x)}
                BY <3>2 DEF Relays, x
            <4> QED BY <1>1, <1>4, <2>1, <3>2, <4>1 DEF IsDecision
        <3> QED BY <3>1, <3>2
    <2>3. Acts(c, s, from, src, m, d) = Relays(c, s, src, m, d)
        BY <1>4 DEF Acts
    <2> QED BY <2>2, <2>3
<1>5. CASE d.do = "Local"
    BY <1>1, <1>5 DEF Acts
<1>6. CASE d.do \in {"CrossTenant", "Drop"}
    BY <1>1, <1>6 DEF Acts
<1> QED BY <1>3, <1>4, <1>5, <1>6 DEF IsDecision

LEMMA DispatchIs ==
    ASSUME NEW n \in Node, NEW s, DOMAIN s = StateFields, NEW m, IsMessage(m),
           NEW from \in LinksOf(n)
    PROVE  Disposes(s, Dispatch(Config[n], s, from, m), m)
<1> DEFINE c == Config[n]
           r == Routed(c, s, m)
           src == LinksetOf(c, from)
           d == RouteFor(c, s, m)
           acts == Acts(c, r, from, src, m, d)
<1>1. DOMAIN r = StateFields /\ r.up = s.up /\ r.held = s.held
    <2>1. \A t : LET u == Selected(c, s, t) IN
              DOMAIN u = StateFields /\ u.up = s.up /\ u.held = s.held
        BY DEF Selected, StateFields
    <2> QED BY <2>1 DEF Routed
<1>2. src \in DOMAIN c.links
    BY ConfigFacts
<1>3. m.sls \in Nat
    BY DEF IsMessage
<1>4. IsDecision(Config[n], d)
    BY <1>3, DecisionFound
<1> HIDE DEF r, src, d
<1>5. Disposes(r, acts, m)
    BY <1>1, <1>2, <1>4, ActsIs
<1> HIDE DEF acts
<1>6. Disposes(s, acts, m)
    BY <1>1, <1>5, DisposesAs
<1>7. Disposes(s, Discarded(s, m), m)
    BY OutcomeIs
<1> QED BY <1>6, <1>7 DEF Dispatch, acts, r, src, d

\* reroute
LEMMA RerouteIs ==
    ASSUME NEW n \in Node, NEW s, DOMAIN s = StateFields, NEW m, IsMessage(m),
           NEW from \in LinksOf(n)
    PROVE  Disposes(s, Reroute(Config[n], s, from, m), m)
<1> DEFINE c == Config[n]
           own == LinksetOf(c, from)
           via == Resolve(c, s, m.dpc, m.sls)
           far == EgressFor(c, s, m.dpc, m.sls, own)
           link == SelectLink(c, s, own, m.sls, from)
           near == ByOtherLink(c, s, own, link, m)
<1>1. own \in DOMAIN c.links
    BY ConfigFacts
<1>2. m.sls \in Nat
    BY DEF IsMessage
<1> HIDE DEF own
<1>3. via \in DOMAIN c.links \cup {None} /\ far \in DOMAIN c.links \cup {None}
    BY <1>2, RouteFound DEF Resolve
<1>4. link \in s.up \cup {None}
    BY <1>1, <1>2, LinkFound
<1> HIDE DEF via, link
<1>5. Disposes(s, Discarded(s, m), m)
    BY OutcomeIs
<1>6. ASSUME NEW v \in DOMAIN c.links \cup {None}
      PROVE  Disposes(s, ByOtherRoute(c, s, v, m), m)
    BY <1>5, <1>6, SendViaIs DEF ByOtherRoute
<1>7. Disposes(s, near, m)
    <2>1. link # None => Disposes(s, OutBy(s, link, m), m)
        BY <1>4, OutcomeIs
    <2>2. IsHeld(s, m) => Disposes(s, Buffered(s, m), m)
        BY BufferedIs
    <2>3. Disposes(s, ByOtherRoute(c, s, far, m), m)
        <3> HIDE DEF far
        <3> QED BY <1>3, <1>6
    <2> QED BY <2>1, <2>2, <2>3 DEF ByOtherLink
<1>8. Reroute(c, s, from, m) = IF via = own THEN near ELSE ByOtherRoute(c, s, via, m)
    BY DEF Reroute, via, own, link
<1> HIDE DEF near
<1> QED BY <1>3, <1>6, <1>7, <1>8

LEMMA SendHeldIs ==
    ASSUME NEW n \in Node, NEW s, DOMAIN s = StateFields, NEW m, IsMessage(m)
    PROVE  Disposes(s, SendHeld(Config[n], s, Resolve(Config[n], s, m.dpc, m.sls), m), m)
<1> DEFINE via == Resolve(Config[n], s, m.dpc, m.sls)
<1>1. via \in DOMAIN Config[n].links \cup {None}
    BY RouteFound DEF Resolve, IsMessage
<1> HIDE DEF via
<1>2. Disposes(s, Discarded(s, m), m)
    BY OutcomeIs
<1>3. via \in DOMAIN Config[n].links => Disposes(s, SendNow(Config[n], s, via, m), m)
    BY SendViaIs
<1>4. Disposes(s, SendHeld(Config[n], s, via, m), m)
    BY <1>1, <1>2, <1>3 DEF SendHeld
<1> QED BY <1>4 DEF via

----------------------------------------------------------------------------
(* Where a message is: the ends of links, and the nodes that hold it for   *)
(* rerouting, are releasing it, or took it back from a link.               *)

Places(W, H, B, D) ==
    ({"Wire"} \X W) \cup ({"Held"} \X H) \cup ({"Batch"} \X B) \cup ({"Diverted"} \X D)

\* What is somewhere is nowhere else.
Sole(W, H, B, D) ==
    /\ \A q \in W : W = {q} /\ H = {} /\ B = {} /\ D = {}
    /\ \A q \in H : W = {} /\ H = {q} /\ B = {} /\ D = {}
    /\ \A q \in B : W = {} /\ H = {} /\ B = {q} /\ D = {}
    /\ \A q \in D : W = {} /\ H = {} /\ B = {} /\ D = {q}

LEMMA OnePlace ==
    ASSUME NEW W, NEW H, NEW B, NEW D, NEW x, Places(W, H, B, D) = {x}
    PROVE  Sole(W, H, B, D)
<1>1. /\ \A q \in W : <<"Wire", q>> = x
      /\ \A q \in H : <<"Held", q>> = x
      /\ \A q \in B : <<"Batch", q>> = x
      /\ \A q \in D : <<"Diverted", q>> = x
    BY DEF Places
<1>2. \A p, q, s, t : <<s, p>> = <<t, q>> => s = t /\ p = q
    OBVIOUS
<1>3. /\ \A p, q \in W : p = q
      /\ \A p, q \in H : p = q
      /\ \A p, q \in B : p = q
      /\ \A p, q \in D : p = q
    BY <1>1, <1>2
<1>4. /\ \A p \in W : H = {} /\ B = {} /\ D = {}
      /\ \A p \in H : W = {} /\ B = {} /\ D = {}
      /\ \A p \in B : W = {} /\ H = {} /\ D = {}
      /\ \A p \in D : W = {} /\ H = {} /\ B = {}
    <2>1. \A p \in W : H = {} /\ B = {} /\ D = {}
        BY <1>1, <1>2
    <2>2. \A p \in H : W = {} /\ B = {} /\ D = {}
        BY <1>1, <1>2
    <2>3. \A p \in B : W = {} /\ H = {} /\ D = {}
        BY <1>1, <1>2
    <2>4. \A p \in D : W = {} /\ H = {} /\ B = {}
        BY <1>1, <1>2
    <2> QED BY <2>1, <2>2, <2>3, <2>4
<1>5. \A q \in W : W = {q}
    BY <1>3
<1>6. \A q \in H : H = {q}
    BY <1>3
<1>7. \A q \in B : B = {q}
    BY <1>3
<1>8. \A q \in D : D = {q}
    BY <1>3
<1> QED BY <1>4, <1>5, <1>6, <1>7, <1>8 DEF Sole

LEMMA NoPlace ==
    ASSUME NEW W, NEW H, NEW B, NEW D
    PROVE  /\ Places(W, H, B, D) = {} <=> W = {} /\ H = {} /\ B = {} /\ D = {}
<1>1. ASSUME NEW s, NEW S, {s} \X S = {} PROVE S = {}
    <2>1. \A x \in S : <<s, x>> \in {s} \X S
        OBVIOUS
    <2> QED BY <1>1, <2>1
<1>2. ASSUME NEW s PROVE {s} \X {} = {}
    OBVIOUS
<1>3. Places(W, H, B, D) = {} =>
          {"Wire"} \X W = {} /\ {"Held"} \X H = {} /\ {"Batch"} \X B = {} /\ {"Diverted"} \X D = {}
    BY DEF Places
<1>4. Places(W, H, B, D) = {} => W = {} /\ H = {} /\ B = {} /\ D = {}
    <2>1. \A s, S : {s} \X S = {} => S = {}
        BY <1>1
    <2> QED BY <1>3, <2>1
<1>5. Places({}, {}, {}, {}) = {}
    BY DEF Places
<1> QED BY <1>4, <1>5

LEMMA PlaceOf ==
    ASSUME NEW q
    PROVE  /\ Places({q}, {}, {}, {}) = {<<"Wire", q>>}
           /\ Places({}, {q}, {}, {}) = {<<"Held", q>>}
           /\ Places({}, {}, {q}, {}) = {<<"Batch", q>>}
           /\ Places({}, {}, {}, {q}) = {<<"Diverted", q>>}
BY DEF Places

MsgsOf(q) == [k \in DOMAIN q |-> q[k].msg]

BufferIds(h) == UNION {IdsIn(h[d]) : d \in DOMAIN h}

OnWires(w, i) == {q \in Wires : i \in IdsIn(w[q[1]][q[2]])}
HeldAt(s, i) == {n \in Node : i \in BufferIds(s[n].held)}
BatchAt(r, i) == {n \in Node : i \in IdsIn(r[n].batch)}
DivertedAt(d, i) == {n \in Node : i \in IdsIn(MsgsOf(d[n]))}

At(w, s, r, d, i) == Places(OnWires(w, i), HeldAt(s, i), BatchAt(r, i), DivertedAt(d, i))

\* A message that was sent and has not ended is in one place, any other in none.
Placed(w, s, r, d, f) ==
    \A i \in Id :
        IF f[i] = "Sent" THEN \E x \in At(w, s, r, d, i) : At(w, s, r, d, i) = {x}
        ELSE At(w, s, r, d, i) = {}

WireOk(w) ==
    /\ DOMAIN w = Link
    /\ \A l \in Link : DOMAIN w[l] = Ends[l] /\ \A p \in Ends[l] : Proper(w[l][p])

ProperBuffers(h) ==
    /\ \A d \in DOMAIN h : Proper(h[d])
    /\ \A d, e \in DOMAIN h : d # e => IdsIn(h[d]) \cap IdsIn(h[e]) = {}

StateOk(s) ==
    /\ DOMAIN s = Node
    /\ \A n \in Node : DOMAIN s[n] = StateFields /\ s[n].up \subseteq LinksOf(n) /\ ProperBuffers(s[n].held)

ReleaseOk(r) ==
    /\ DOMAIN r = Node
    /\ \A n \in Node : DOMAIN r[n] = {"dpc", "batch"} /\ Proper(r[n].batch)

\* What was taken back from links, each message from a link of the node.
Returned(n, q) ==
    /\ q \in Seq({q[k] : k \in DOMAIN q}) /\ Proper(MsgsOf(q))
    /\ \A k \in DOMAIN q : q[k].link \in LinksOf(n)

DivertedOk(d) == DOMAIN d = Node /\ \A n \in Node : Returned(n, d[n])

PlacesInv ==
    /\ WireOk(wire)
    /\ StateOk(state)
    /\ ReleaseOk(release)
    /\ DivertedOk(diverted)
    /\ DOMAIN fate = Id
    /\ Placed(wire, state, release, diverted, fate)

----------------------------------------------------------------------------
(* What is put and taken.                                                  *)

LEMMA EndsOfLinks ==
    /\ \A l \in Link : \A p \in Ends[l] : <<l, p>> \in Wires
    /\ \A l \in Link : \A p \in Ends[l] :
           /\ FarEnd(l, p) \in Ends[l] /\ FarEnd(l, p) # p /\ FarEnd(l, FarEnd(l, p)) = p
           /\ \A r \in Ends[l] : r = p \/ r = FarEnd(l, p)
    /\ \A q \in Wires : q[1] \in Link /\ q[2] \in Ends[q[1]] /\ q = <<q[1], q[2]>>
<1>1. ASSUME NEW l \in Link, NEW p \in Ends[l]
      PROVE  /\ <<l, p>> \in Wires
             /\ FarEnd(l, p) \in Ends[l] /\ FarEnd(l, p) # p /\ FarEnd(l, FarEnd(l, p)) = p
             /\ \A r \in Ends[l] : r = p \/ r = FarEnd(l, p)
    <2>1. PICK a \in Node \cup Host, b \in Node \cup Host : a # b /\ Ends[l] = {a, b}
        BY NetworkAssumption
    <2>2. <<l, p>> \in Wires
        BY <2>1 DEF Wires
    <2>3. \A x \in Ends[l] : FarEnd(l, x) \in Ends[l] /\ FarEnd(l, x) # x
        BY <2>1 DEF FarEnd
    <2> QED BY <2>1, <2>2, <2>3
<1>2. \A q \in Wires : q[1] \in Link /\ q[2] \in Ends[q[1]] /\ q = <<q[1], q[2]>>
    BY DEF Wires
<1> QED BY <1>1, <1>2

WithQueue(w, l, p, q) == [w EXCEPT ![l][p] = q]
WithMore(w, l, p, m) == [w EXCEPT ![l][p] = Append(@, m)]
WithLess(w, l, p) == [w EXCEPT ![l][p] = Tail(@)]
WithState(s, n, x) == [s EXCEPT ![n] = x]
WithSent(w, n, o) == IF o.do = "Send" THEN WithMore(w, o.link, FarEnd(o.link, n), o.msg) ELSE w
WithHeld(h, d, m) == [h EXCEPT ![d] = Append(h[d], m)]

Differs(S, T, x, member) == T = IF member THEN S \cup {x} ELSE S \ {x}

\* The queue at one end of one link is replaced.
LEMMA WireChange ==
    ASSUME NEW w, WireOk(w), NEW l \in Link, NEW p \in Ends[l], NEW q, Proper(q),
           NEW lines, lines = WithQueue(w, l, p, q)
    PROVE  /\ WireOk(lines)
           /\ \A i : Differs(OnWires(w, i), OnWires(lines, i), <<l, p>>, i \in IdsIn(q))
<1>1. DOMAIN w = Link /\ \A k \in Link : DOMAIN w[k] = Ends[k] /\ \A e \in Ends[k] : Proper(w[k][e])
    BY DEF WireOk
<1>2. /\ DOMAIN lines = Link /\ \A k \in Link : DOMAIN lines[k] = Ends[k]
      /\ lines[l][p] = q
      /\ \A k \in Link : \A e \in Ends[k] : <<k, e>> # <<l, p>> => lines[k][e] = w[k][e]
    <2>1. DOMAIN lines = Link /\ \A k \in Link : k # l => lines[k] = w[k]
        BY <1>1 DEF WithQueue
    <2>2. lines[l] = [w[l] EXCEPT ![p] = q]
        BY <1>1 DEF WithQueue
    <2>3. DOMAIN lines[l] = Ends[l] /\ lines[l][p] = q /\ \A e \in Ends[l] : e # p => lines[l][e] = w[l][e]
        BY <1>1, <2>2
    <2> QED BY <1>1, <2>1, <2>3
<1>3. WireOk(lines)
    BY <1>1, <1>2 DEF WireOk
<1>4. ASSUME NEW i
      PROVE  Differs(OnWires(w, i), OnWires(lines, i), <<l, p>>, i \in IdsIn(q))
    <2>1. <<l, p>> \in Wires
        BY EndsOfLinks
    <2>2. ASSUME NEW x \in Wires, x # <<l, p>> PROVE lines[x[1]][x[2]] = w[x[1]][x[2]]
        BY <1>2, <2>2, EndsOfLinks
    <2>3. \A x \in Wires : x # <<l, p>> => (x \in OnWires(lines, i) <=> x \in OnWires(w, i))
        BY <2>2 DEF OnWires
    <2>4. <<l, p>> \in OnWires(lines, i) <=> i \in IdsIn(q)
        BY <1>2, <2>1 DEF OnWires
    <2>5. OnWires(lines, i) \subseteq Wires /\ OnWires(w, i) \subseteq Wires
        BY DEF OnWires
    <2>6. CASE i \in IdsIn(q)
        <3>1. OnWires(lines, i) = OnWires(w, i) \cup {<<l, p>>}
            BY <2>3, <2>4, <2>5, <2>6
        <3> QED BY <2>6, <3>1 DEF Differs
    <2>7. CASE i \notin IdsIn(q)
        <3>1. OnWires(lines, i) = OnWires(w, i) \ {<<l, p>>}
            BY <2>3, <2>4, <2>5, <2>7
        <3> QED BY <2>7, <3>1 DEF Differs
    <2> QED BY <2>6, <2>7
<1> QED BY <1>3, <1>4

LEMMA WirePut ==
    ASSUME NEW w, WireOk(w), NEW l \in Link, NEW p \in Ends[l], NEW m, IsMessage(m),
           OnWires(w, m.id) = {}, NEW lines, lines = WithMore(w, l, p, m)
    PROVE  /\ WireOk(lines)
           /\ OnWires(lines, m.id) = {<<l, p>>}
           /\ \A i : i # m.id => OnWires(lines, i) = OnWires(w, i)
<1> DEFINE q == w[l][p]
           n == Append(q, m)
<1>1. Proper(q) /\ <<l, p>> \in Wires
    BY EndsOfLinks DEF WireOk
<1>2. m.id \notin IdsIn(q)
    BY <1>1 DEF OnWires
<1>3. Proper(n) /\ IdsIn(n) = IdsIn(q) \cup {m.id}
    <2> HIDE DEF q
    <2> QED BY <1>1, <1>2, AppendQueue
<1>4. lines = WithQueue(w, l, p, n)
    BY DEF WireOk, WithQueue, WithMore
<1>5. \A i : i \in IdsIn(q) <=> <<l, p>> \in OnWires(w, i)
    BY <1>1 DEF OnWires
<1> HIDE DEF n, q
<1>6. /\ WireOk(lines)
      /\ \A i : Differs(OnWires(w, i), OnWires(lines, i), <<l, p>>, i \in IdsIn(n))
    BY <1>3, <1>4, WireChange
<1>7. OnWires(lines, m.id) = {<<l, p>>}
    BY <1>3, <1>6 DEF Differs
<1>8. ASSUME NEW i, i # m.id PROVE OnWires(lines, i) = OnWires(w, i)
    <2>1. i \in IdsIn(n) <=> <<l, p>> \in OnWires(w, i)
        BY <1>3, <1>5, <1>8
    <2> QED BY <1>6, <2>1 DEF Differs
<1> QED BY <1>6, <1>7, <1>8

LEMMA WireTake ==
    ASSUME NEW w, WireOk(w), NEW l \in Link, NEW p \in Ends[l], w[l][p] # <<>>,
           NEW m, m = Head(w[l][p]), NEW lines, lines = WithLess(w, l, p)
    PROVE  /\ WireOk(lines) /\ IsMessage(m)
           /\ <<l, p>> \in OnWires(w, m.id)
           /\ OnWires(lines, m.id) = OnWires(w, m.id) \ {<<l, p>>}
           /\ \A i : i # m.id => OnWires(lines, i) = OnWires(w, i)
<1> DEFINE q == w[l][p]
           n == Tail(q)
<1>1. Proper(q) /\ <<l, p>> \in Wires
    BY EndsOfLinks DEF WireOk
<1>2. lines = WithQueue(w, l, p, n)
    BY DEF WireOk, WithQueue, WithLess
<1>3. \A i : i \in IdsIn(q) <=> <<l, p>> \in OnWires(w, i)
    BY <1>1 DEF OnWires
<1>4. q # <<>> /\ m = Head(q)
    OBVIOUS
<1> HIDE DEF q
<1>5. Proper(n) /\ IdsIn(n) = IdsIn(q) \ {m.id} /\ IsMessage(m) /\ m.id \in IdsIn(q)
    BY <1>1, <1>4, TailQueue
<1> HIDE DEF n
<1>6. /\ WireOk(lines)
      /\ \A i : Differs(OnWires(w, i), OnWires(lines, i), <<l, p>>, i \in IdsIn(n))
    BY <1>2, <1>5, WireChange
<1>7. OnWires(lines, m.id) = OnWires(w, m.id) \ {<<l, p>>}
    BY <1>5, <1>6 DEF Differs
<1>8. ASSUME NEW i, i # m.id PROVE OnWires(lines, i) = OnWires(w, i)
    <2>1. i \in IdsIn(n) <=> <<l, p>> \in OnWires(w, i)
        BY <1>3, <1>5, <1>8
    <2> QED BY <1>6, <2>1 DEF Differs
<1> QED BY <1>3, <1>5, <1>6, <1>7, <1>8

\* The state of one node is replaced.
LEMMA StateChange ==
    ASSUME NEW s, StateOk(s), NEW n \in Node, NEW x, DOMAIN x = StateFields,
           x.up \subseteq LinksOf(n), ProperBuffers(x.held),
           NEW t, t = WithState(s, n, x)
    PROVE  /\ StateOk(t) /\ t[n] = x
           /\ \A i : Differs(HeldAt(s, i), HeldAt(t, i), n, i \in BufferIds(x.held))
<1>1. DOMAIN t = Node /\ t[n] = x /\ \A p \in Node : p # n => t[p] = s[p]
    BY DEF StateOk, WithState
<1>2. StateOk(t)
    BY <1>1 DEF StateOk
<1>3. ASSUME NEW i PROVE Differs(HeldAt(s, i), HeldAt(t, i), n, i \in BufferIds(x.held))
    <2>1. \A p \in Node : p # n => (p \in HeldAt(t, i) <=> p \in HeldAt(s, i))
        BY <1>1 DEF HeldAt
    <2>2. n \in HeldAt(t, i) <=> i \in BufferIds(x.held)
        BY <1>1 DEF HeldAt
    <2>3. HeldAt(t, i) \subseteq Node /\ HeldAt(s, i) \subseteq Node
        BY DEF HeldAt
    <2>4. CASE i \in BufferIds(x.held)
        <3>1. HeldAt(t, i) = HeldAt(s, i) \cup {n}
            BY <2>1, <2>2, <2>3, <2>4
        <3> QED BY <2>4, <3>1 DEF Differs
    <2>5. CASE i \notin BufferIds(x.held)
        <3>1. HeldAt(t, i) = HeldAt(s, i) \ {n}
            BY <2>1, <2>2, <2>3, <2>5
        <3> QED BY <2>5, <3>1 DEF Differs
    <2> QED BY <2>4, <2>5
<1> QED BY <1>1, <1>2, <1>3

LEMMA NothingMoves ==
    ASSUME NEW s, StateOk(s), NEW n \in Node, NEW x, DOMAIN x = StateFields,
           x.up \subseteq LinksOf(n), ProperBuffers(x.held), BufferIds(x.held) = BufferIds(s[n].held),
           NEW t, t = WithState(s, n, x)
    PROVE  StateOk(t) /\ \A i : HeldAt(t, i) = HeldAt(s, i)
<1>1. StateOk(t) /\ \A i : Differs(HeldAt(s, i), HeldAt(t, i), n, i \in BufferIds(x.held))
    BY StateChange
<1>2. ASSUME NEW i PROVE HeldAt(t, i) = HeldAt(s, i)
    <2>1. Differs(HeldAt(s, i), HeldAt(t, i), n, i \in BufferIds(x.held))
        BY <1>1
    <2>2. i \in BufferIds(x.held) <=> n \in HeldAt(s, i)
        BY DEF HeldAt
    <2> QED BY <2>1, <2>2 DEF Differs
<1> QED BY <1>1, <1>2

LEMMA BufferPut ==
    ASSUME NEW h, ProperBuffers(h), NEW d \in DOMAIN h, NEW m, IsMessage(m), m.id \notin BufferIds(h),
           NEW g, g = WithHeld(h, d, m)
    PROVE  ProperBuffers(g) /\ BufferIds(g) = BufferIds(h) \cup {m.id}
<1> DEFINE q == Append(h[d], m)
<1>1. Proper(h[d]) /\ m.id \notin IdsIn(h[d])
    BY DEF ProperBuffers, BufferIds
<1>2. Proper(q) /\ IdsIn(q) = IdsIn(h[d]) \cup {m.id}
    BY <1>1, AppendQueue
<1> HIDE DEF q
<1>3. DOMAIN g = DOMAIN h /\ g[d] = q /\ \A e \in DOMAIN h : e # d => g[e] = h[e]
    BY DEF q, WithHeld
<1>4. \A e \in DOMAIN h : e # d => IdsIn(h[e]) \cap IdsIn(q) = {}
    <2>1. \A e \in DOMAIN h : m.id \notin IdsIn(h[e])
        BY DEF BufferIds
    <2> QED BY <1>2, <2>1 DEF ProperBuffers
<1>5. ProperBuffers(g)
    <2>1. \A e \in DOMAIN g : Proper(g[e])
        BY <1>2, <1>3 DEF ProperBuffers
    <2>2. ASSUME NEW e \in DOMAIN g, NEW f \in DOMAIN g, e # f PROVE IdsIn(g[e]) \cap IdsIn(g[f]) = {}
        <3>1. CASE e = d
            BY <1>3, <1>4, <2>2, <3>1
        <3>2. CASE f = d
            BY <1>3, <1>4, <2>2, <3>2
        <3>3. CASE e # d /\ f # d
            BY <1>3, <2>2, <3>3 DEF ProperBuffers
        <3> QED BY <3>1, <3>2, <3>3
    <2> QED BY <2>1, <2>2 DEF ProperBuffers
<1>6. BufferIds(g) = BufferIds(h) \cup {m.id}
    <2>1. \A e \in DOMAIN h : IdsIn(g[e]) = IdsIn(h[e]) \cup (IF e = d THEN {m.id} ELSE {})
        BY <1>2, <1>3
    <2>2. \A i : i \in BufferIds(g) <=> \E e \in DOMAIN h : i \in IdsIn(g[e])
        BY <1>3 DEF BufferIds
    <2>3. \A i : i \in BufferIds(h) <=> \E e \in DOMAIN h : i \in IdsIn(h[e])
        BY DEF BufferIds
    <2>4. \A i : i \in BufferIds(g) <=> i \in BufferIds(h) \/ i = m.id
        BY <2>1, <2>2, <2>3
    <2> QED BY <2>4
<1> QED BY <1>5, <1>6

\* Message m is put on a wire or into a buffer, or ends; the others stay.
Moved(s, t, w, v, m, o) ==
    /\ \A i : i # m.id => OnWires(v, i) = OnWires(w, i) /\ HeldAt(t, i) = HeldAt(s, i)
    /\ \/ /\ Ended(o) # "Sent" /\ OnWires(v, m.id) = {} /\ HeldAt(t, m.id) = {}
       \/ /\ Ended(o) = "Sent" /\ HeldAt(t, m.id) = {}
          /\ \E q : OnWires(v, m.id) = {q}
       \/ /\ Ended(o) = "Sent" /\ OnWires(v, m.id) = {}
          /\ \E q : HeldAt(t, m.id) = {q}

\* What the step that disposes of a message does to the places of all messages,
\* when this one was taken from where it was.
LEMMA Disposal ==
    ASSUME NEW s, StateOk(s), NEW n \in Node, NEW m, NEW o, Disposes(s[n], o, m),
           NEW w, WireOk(w), OnWires(w, m.id) = {}, HeldAt(s, m.id) = {},
           NEW t, t = WithState(s, n, o.s), NEW v, v = WithSent(w, n, o)
    PROVE  /\ StateOk(t) /\ WireOk(v) /\ Moved(s, t, w, v, m, o)
<1>1. /\ IsMessage(o.msg) /\ o.msg.id = m.id
      /\ DOMAIN o.s = StateFields /\ o.s.up = s[n].up
      /\ \/ o.do \in Final /\ o.s.held = s[n].held
         \/ o.do = "Send" /\ o.link \in s[n].up /\ o.s.held = s[n].held
         \/ /\ o.do = "Hold" /\ o.msg.dpc \in DOMAIN s[n].held
            /\ o.s.held = [s[n].held EXCEPT ![o.msg.dpc] = Append(s[n].held[o.msg.dpc], o.msg)]
    BY DEF Disposes
<1>2. s[n].up \subseteq LinksOf(n) /\ ProperBuffers(s[n].held)
    BY DEF StateOk
<1> DEFINE x == o.s
<1>6. DOMAIN x = StateFields /\ x.up \subseteq LinksOf(n) /\ t = WithState(s, n, x)
    BY <1>1, <1>2
<1>3. CASE o.do \in Final /\ o.s.held = s[n].held
    <2>1. StateOk(t) /\ \A i : HeldAt(t, i) = HeldAt(s, i)
        <3>1. ProperBuffers(x.held) /\ BufferIds(x.held) = BufferIds(s[n].held)
            BY <1>2, <1>3
        <3> HIDE DEF x
        <3> QED BY <1>6, <3>1, NothingMoves
    <2>2. v = w /\ Ended(o) # "Sent"
        BY <1>3 DEF Final, Ended, WithSent
    <2> QED BY <2>1, <2>2 DEF Moved
<1>4. CASE o.do = "Send" /\ o.link \in s[n].up /\ o.s.held = s[n].held
    <2> DEFINE l == o.link
               p == FarEnd(l, n)
    <2>1. StateOk(t) /\ \A i : HeldAt(t, i) = HeldAt(s, i)
        <3>1. ProperBuffers(x.held) /\ BufferIds(x.held) = BufferIds(s[n].held)
            BY <1>2, <1>4
        <3> HIDE DEF x
        <3> QED BY <1>6, <3>1, NothingMoves
    <2>2. l \in Link /\ n \in Ends[l]
        BY <1>2, <1>4 DEF LinksOf
    <2>3. p \in Ends[l]
        BY <2>2, EndsOfLinks
    <2> DEFINE msg == o.msg
    <2>4. v = WithMore(w, l, p, msg) /\ Ended(o) = "Sent" /\ IsMessage(msg) /\ msg.id = m.id
        BY <1>1, <1>4 DEF Ended, WithSent
    <2> HIDE DEF l, p, msg
    <2>5. /\ WireOk(v)
          /\ OnWires(v, msg.id) = {<<l, p>>}
          /\ \A i : i # msg.id => OnWires(v, i) = OnWires(w, i)
        <3>1. OnWires(w, msg.id) = {}
            BY <2>4
        <3> QED BY <2>2, <2>3, <2>4, <3>1, WirePut
    <2> QED BY <2>1, <2>4, <2>5 DEF Moved
<1>5. CASE /\ o.do = "Hold" /\ o.msg.dpc \in DOMAIN s[n].held
           /\ o.s.held = [s[n].held EXCEPT ![o.msg.dpc] = Append(s[n].held[o.msg.dpc], o.msg)]
    <2>1. m.id \notin BufferIds(s[n].held)
        BY DEF HeldAt
    <2>2. ProperBuffers(o.s.held) /\ BufferIds(o.s.held) = BufferIds(s[n].held) \cup {m.id}
        <3> DEFINE g == o.s.held
                   h == s[n].held
                   msg == o.msg
                   d == msg.dpc
        <3>1. g = WithHeld(h, d, msg) /\ d \in DOMAIN h /\ msg.id = m.id /\ IsMessage(msg)
            BY <1>1, <1>5 DEF WithHeld
        <3> HIDE DEF g, d, msg
        <3> QED BY <1>2, <2>1, <3>1, BufferPut DEF g
    <2>3. StateOk(t) /\ \A i : Differs(HeldAt(s, i), HeldAt(t, i), n, i \in BufferIds(o.s.held))
        BY <1>6, <2>2, StateChange
    <2>4. HeldAt(t, m.id) = {n}
        BY <2>2, <2>3 DEF Differs
    <2>5. ASSUME NEW i, i # m.id PROVE HeldAt(t, i) = HeldAt(s, i)
        <3>1. i \in BufferIds(o.s.held) <=> n \in HeldAt(s, i)
            BY <2>2, <2>5 DEF HeldAt
        <3> QED BY <2>3, <3>1 DEF Differs
    <2>6. v = w /\ Ended(o) = "Sent"
        BY <1>5 DEF Ended, WithSent
    <2> QED BY <2>3, <2>4, <2>5, <2>6 DEF Moved
<1> QED BY <1>1, <1>3, <1>4, <1>5

WithFate(f, o) == [f EXCEPT ![o.msg.id] = Ended(o)]

\* Message m is nowhere any more but perhaps in a buffer; the others stay.
TakenOut(m, w0, w, r0, r, d0, d) ==
    /\ OnWires(w, m.id) = {} /\ BatchAt(r, m.id) = {} /\ DivertedAt(d, m.id) = {}
    /\ \A i \in Id : i # m.id =>
           OnWires(w, i) = OnWires(w0, i) /\ BatchAt(r, i) = BatchAt(r0, i)
               /\ DivertedAt(d, i) = DivertedAt(d0, i)

\* A step takes a message from where it is and disposes of it.
LEMMA Settled ==
    ASSUME NEW w0, NEW s, NEW r0, NEW d0, NEW f, Placed(w0, s, r0, d0, f),
           DOMAIN f = Id, StateOk(s), NEW w, WireOk(w), NEW r, NEW d,
           NEW n \in Node, NEW m, IsMessage(m), NEW o, Disposes(s[n], o, m),
           TakenOut(m, w0, w, r0, r, d0, d), HeldAt(s, m.id) = {},
           NEW t, t = WithState(s, n, o.s), NEW v, v = WithSent(w, n, o), NEW g, g = WithFate(f, o)
    PROVE  StateOk(t) /\ WireOk(v) /\ DOMAIN g = Id /\ Placed(v, t, r, d, g)
<1>0. StateOk(t) /\ WireOk(v) /\ Moved(s, t, w, v, m, o)
    BY Disposal DEF TakenOut
<1>1. /\ \A i : i # m.id => OnWires(v, i) = OnWires(w, i) /\ HeldAt(t, i) = HeldAt(s, i)
      /\ \/ /\ Ended(o) # "Sent" /\ OnWires(v, m.id) = {} /\ HeldAt(t, m.id) = {}
         \/ /\ Ended(o) = "Sent" /\ HeldAt(t, m.id) = {}
            /\ \E q : OnWires(v, m.id) = {q}
         \/ /\ Ended(o) = "Sent" /\ OnWires(v, m.id) = {}
            /\ \E q : HeldAt(t, m.id) = {q}
    BY <1>0 DEF Moved
<1>2. m.id \in Id /\ o.msg.id = m.id
    BY DEF Disposes, IsMessage
<1>3. DOMAIN g = Id /\ g[m.id] = Ended(o) /\ \A i \in Id : i # m.id => g[i] = f[i]
    BY <1>2 DEF WithFate
<1>4. ASSUME NEW i \in Id, i # m.id
      PROVE  IF g[i] = "Sent" THEN \E x \in At(v, t, r, d, i) : At(v, t, r, d, i) = {x}
             ELSE At(v, t, r, d, i) = {}
    <2>1. At(v, t, r, d, i) = At(w0, s, r0, d0, i)
        BY <1>1, <1>4 DEF At, TakenOut
    <2>2. g[i] = f[i]
        BY <1>3, <1>4
    <2> QED BY <2>1, <2>2 DEF Placed
<1>5. IF g[m.id] = "Sent" THEN \E x \in At(v, t, r, d, m.id) : At(v, t, r, d, m.id) = {x}
      ELSE At(v, t, r, d, m.id) = {}
    <2>1. CASE Ended(o) # "Sent" /\ OnWires(v, m.id) = {} /\ HeldAt(t, m.id) = {}
        <3>1. At(v, t, r, d, m.id) = {}
            BY <2>1, NoPlace DEF At, TakenOut
        <3> QED BY <1>3, <2>1, <3>1
    <2>2. CASE Ended(o) = "Sent" /\ HeldAt(t, m.id) = {} /\ \E q : OnWires(v, m.id) = {q}
        <3>1. PICK q : OnWires(v, m.id) = {q}
            BY <2>2
        <3>2. At(v, t, r, d, m.id) = {<<"Wire", q>>}
            BY <2>2, <3>1, PlaceOf DEF At, TakenOut
        <3> QED BY <1>3, <2>2, <3>2
    <2>3. CASE Ended(o) = "Sent" /\ OnWires(v, m.id) = {} /\ \E q : HeldAt(t, m.id) = {q}
        <3>1. PICK q : HeldAt(t, m.id) = {q}
            BY <2>3
        <3>2. At(v, t, r, d, m.id) = {<<"Held", q>>}
            BY <2>3, <3>1, PlaceOf DEF At, TakenOut
        <3> QED BY <1>3, <2>3, <3>2
    <2> QED BY <1>1, <2>1, <2>2, <2>3
<1>6. Placed(v, t, r, d, g)
    <2>1. \A i \in Id : IF g[i] = "Sent" THEN \E x \in At(v, t, r, d, i) : At(v, t, r, d, i) = {x}
                        ELSE At(v, t, r, d, i) = {}
        BY <1>4, <1>5
    <2> QED BY <2>1 DEF Placed
<1> QED BY <1>0, <1>3, <1>6

\* The release of one node is replaced, or what it took back.
LEMMA ReleaseChange ==
    ASSUME NEW r, ReleaseOk(r), NEW n \in Node, NEW x, DOMAIN x = {"dpc", "batch"}, Proper(x.batch),
           NEW t, t = WithState(r, n, x)
    PROVE  /\ ReleaseOk(t)
           /\ \A i : Differs(BatchAt(r, i), BatchAt(t, i), n, i \in IdsIn(x.batch))
<1>1. DOMAIN t = Node /\ t[n] = x /\ \A p \in Node : p # n => t[p] = r[p]
    BY DEF ReleaseOk, WithState
<1>2. ReleaseOk(t)
    BY <1>1 DEF ReleaseOk
<1>3. ASSUME NEW i PROVE Differs(BatchAt(r, i), BatchAt(t, i), n, i \in IdsIn(x.batch))
    <2>1. \A p \in Node : p # n => (p \in BatchAt(t, i) <=> p \in BatchAt(r, i))
        BY <1>1 DEF BatchAt
    <2>2. n \in BatchAt(t, i) <=> i \in IdsIn(x.batch)
        BY <1>1 DEF BatchAt
    <2>3. BatchAt(t, i) \subseteq Node /\ BatchAt(r, i) \subseteq Node
        BY DEF BatchAt
    <2>4. CASE i \in IdsIn(x.batch)
        <3>1. BatchAt(t, i) = BatchAt(r, i) \cup {n}
            BY <2>1, <2>2, <2>3, <2>4
        <3> QED BY <2>4, <3>1 DEF Differs
    <2>5. CASE i \notin IdsIn(x.batch)
        <3>1. BatchAt(t, i) = BatchAt(r, i) \ {n}
            BY <2>1, <2>2, <2>3, <2>5
        <3> QED BY <2>5, <3>1 DEF Differs
    <2> QED BY <2>4, <2>5
<1> QED BY <1>2, <1>3

LEMMA DivertedChange ==
    ASSUME NEW r, DivertedOk(r), NEW n \in Node, NEW q, Returned(n, q),
           NEW t, t = WithState(r, n, q)
    PROVE  /\ DivertedOk(t)
           /\ \A i : Differs(DivertedAt(r, i), DivertedAt(t, i), n, i \in IdsIn(MsgsOf(q)))
<1>1. DOMAIN t = Node /\ t[n] = q /\ \A p \in Node : p # n => t[p] = r[p]
    BY DEF DivertedOk, WithState
<1>2. DivertedOk(t)
    BY <1>1 DEF DivertedOk
<1>3. ASSUME NEW i PROVE Differs(DivertedAt(r, i), DivertedAt(t, i), n, i \in IdsIn(MsgsOf(q)))
    <2>1. \A p \in Node : p # n => (p \in DivertedAt(t, i) <=> p \in DivertedAt(r, i))
        BY <1>1 DEF DivertedAt
    <2>2. n \in DivertedAt(t, i) <=> i \in IdsIn(MsgsOf(q))
        BY <1>1 DEF DivertedAt
    <2>3. DivertedAt(t, i) \subseteq Node /\ DivertedAt(r, i) \subseteq Node
        BY DEF DivertedAt
    <2>4. CASE i \in IdsIn(MsgsOf(q))
        <3>1. DivertedAt(t, i) = DivertedAt(r, i) \cup {n}
            BY <2>1, <2>2, <2>3, <2>4
        <3> QED BY <2>4, <3>1 DEF Differs
    <2>5. CASE i \notin IdsIn(MsgsOf(q))
        <3>1. DivertedAt(t, i) = DivertedAt(r, i) \ {n}
            BY <2>1, <2>2, <2>3, <2>5
        <3> QED BY <2>5, <3>1 DEF Differs
    <2> QED BY <2>4, <2>5
<1> QED BY <1>2, <1>3

\* The first of what was taken back is sent.
LEMMA DivertedTail ==
    ASSUME NEW n, NEW q, Returned(n, q), q # <<>>, NEW m, m = Head(q).msg, NEW t, t = Tail(q)
    PROVE  /\ Returned(n, t) /\ IdsIn(MsgsOf(t)) = IdsIn(MsgsOf(q)) \ {m.id}
           /\ IsMessage(m) /\ m.id \in IdsIn(MsgsOf(q)) /\ Head(q).link \in LinksOf(n)
<1> DEFINE S == {q[k] : k \in DOMAIN q}
           Q == MsgsOf(q)
<1>1. q \in Seq(S) /\ Proper(Q) /\ \A k \in DOMAIN q : q[k].link \in LinksOf(n)
    BY DEF Returned
<1>2. Len(q) \in Nat /\ DOMAIN q = 1 .. Len(q)
    BY <1>1, QueueOf
<1> HIDE DEF S
<1>3. /\ t \in Seq(S) /\ Len(t) = Len(q) - 1 /\ Len(q) # 0 /\ Head(q) = q[1]
      /\ \A k \in 1 .. Len(t) : t[k] = q[k + 1]
    BY <1>1
<1>4. DOMAIN t = 1 .. Len(q) - 1 /\ t \in Seq({t[k] : k \in DOMAIN t})
    <2>1. \A x \in Seq(S) : DOMAIN x = 1 .. Len(x) /\ x \in Seq({x[k] : k \in DOMAIN x})
        BY QueueOf
    <2>2. DOMAIN t = 1 .. Len(t) /\ t \in Seq({t[k] : k \in DOMAIN t})
        BY <1>3, <2>1
    <2> QED BY <1>3, <2>2
<1>5. \A k \in DOMAIN t : k + 1 \in DOMAIN q /\ t[k] = q[k + 1]
    BY <1>2, <1>3, <1>4
<1>6. DOMAIN Q = 1 .. Len(q) /\ \A k \in DOMAIN q : Q[k] = q[k].msg
    BY <1>2 DEF MsgsOf
<1>7. \E X : Q \in Seq(X)
    BY <1>1 DEF Proper
<1>8. Len(Q) = Len(q) /\ Q # <<>>
    <2>1. Len(Q) \in Nat /\ DOMAIN Q = 1 .. Len(Q)
        BY <1>7, QueueOf
    <2>2. Len(Q) = Len(q)
        BY <1>2, <1>6, <2>1
    <2> QED BY <1>2, <1>3, <2>2
<1>9. MsgsOf(t) = Tail(Q) /\ Head(Q) = m
    <2>1. PICK X : Q \in Seq(X)
        BY <1>7
    <2>2. /\ Tail(Q) \in Seq(X) /\ Len(Tail(Q)) = Len(q) - 1 /\ Head(Q) = Q[1]
          /\ \A k \in 1 .. Len(q) - 1 : Tail(Q)[k] = Q[k + 1]
        BY <1>8, <2>1
    <2>3. Tail(Q) = [k \in 1 .. Len(q) - 1 |-> Q[k + 1]]
        <3> DEFINE T == Tail(Q)
        <3>1. T \in Seq(X) /\ Len(T) = Len(q) - 1 /\ \A k \in 1 .. Len(q) - 1 : T[k] = Q[k + 1]
            BY <2>2
        <3> HIDE DEF T
        <3>2. T \in [1 .. Len(q) - 1 -> X]
            BY <3>1, LenProperties
        <3> QED BY <3>1, <3>2 DEF T
    <2>4. MsgsOf(t) = [k \in 1 .. Len(q) - 1 |-> t[k].msg]
        BY <1>4 DEF MsgsOf
    <2>5. \A k \in 1 .. Len(q) - 1 : t[k].msg = Q[k + 1]
        BY <1>4, <1>5, <1>6
    <2>6. MsgsOf(t) = Tail(Q)
        BY <2>3, <2>4, <2>5
    <2> QED BY <1>2, <1>3, <1>6, <2>2, <2>6
<1> HIDE DEF Q
<1>10. /\ Proper(MsgsOf(t)) /\ IdsIn(MsgsOf(t)) = IdsIn(Q) \ {m.id}
       /\ IsMessage(m) /\ m.id \in IdsIn(Q)
    BY <1>1, <1>8, <1>9, TailQueue
<1>11. Head(q).link \in LinksOf(n)
    BY <1>1, <1>2, <1>3
<1>12. Returned(n, t)
    BY <1>1, <1>4, <1>5, <1>10 DEF Returned
<1> QED BY <1>10, <1>11, <1>12 DEF Q

----------------------------------------------------------------------------
(* The steps in which a node disposes of a message.                        *)

LEMMA CarriesIs ==
    ASSUME NEW n \in Node, NEW o, NEW lines, Carries(n, o, lines)
    PROVE  /\ state' = WithState(state, n, o.s) /\ wire' = WithSent(lines, n, o)
           /\ fate' = WithFate(fate, o)
BY DEF Carries, WithState, WithSent, WithMore, WithFate

LEMMA SoleIs ==
    ASSUME PlacesInv, NEW i \in Id
    PROVE  /\ Sole(OnWires(wire, i), HeldAt(state, i), BatchAt(release, i), DivertedAt(diverted, i))
           /\ fate[i] # "Sent" =>
                  /\ OnWires(wire, i) = {} /\ HeldAt(state, i) = {}
                  /\ BatchAt(release, i) = {} /\ DivertedAt(diverted, i) = {}
<1> DEFINE W == OnWires(wire, i)
           H == HeldAt(state, i)
           B == BatchAt(release, i)
           D == DivertedAt(diverted, i)
<1>1. IF fate[i] = "Sent" THEN \E x : Places(W, H, B, D) = {x} ELSE Places(W, H, B, D) = {}
    BY DEF PlacesInv, Placed, At
<1> HIDE DEF W, H, B, D
<1>2. CASE fate[i] = "Sent"
    <2>1. PICK x : Places(W, H, B, D) = {x}
        BY <1>1, <1>2
    <2>2. Sole(W, H, B, D)
        BY <2>1, OnePlace
    <2> QED BY <1>2, <2>2 DEF W, H, B, D
<1>3. CASE fate[i] # "Sent"
    <2>1. Places(W, H, B, D) = {}
        BY <1>1, <1>3
    <2>2. W = {} /\ H = {} /\ B = {} /\ D = {}
        BY <2>1, NoPlace
    <2>3. Sole(W, H, B, D)
        BY <2>2 DEF Sole
    <2> QED BY <2>2, <2>3 DEF W, H, B, D
<1> QED BY <1>2, <1>3

LEMMA ReceiveKeeps ==
    ASSUME PlacesInv, NEW n \in Node, NEW l \in LinksOf(n), Receive(n, l)
    PROVE  PlacesInv'
<1> DEFINE m == Head(wire[l][n])
           o == Dispatch(Config[n], state[n], l, m)
           w == Taken(l, n)
<1>1. l \in Link /\ n \in Ends[l] /\ wire[l][n] # <<>>
    BY DEF LinksOf, Receive
<1>2. /\ WireOk(wire) /\ StateOk(state) /\ ReleaseOk(release) /\ DivertedOk(diverted)
      /\ DOMAIN fate = Id /\ Placed(wire, state, release, diverted, fate)
    BY DEF PlacesInv
<1>3. release' = release /\ diverted' = diverted
    BY DEF Receive
<1>4. state' = WithState(state, n, o.s) /\ wire' = WithSent(w, n, o) /\ fate' = WithFate(fate, o)
    <2>1. Carries(n, o, w)
        BY DEF Receive
    <2> HIDE DEF o, w
    <2> QED BY <2>1, CarriesIs
<1>5. /\ WireOk(w) /\ IsMessage(m)
      /\ <<l, n>> \in OnWires(wire, m.id)
      /\ OnWires(w, m.id) = OnWires(wire, m.id) \ {<<l, n>>}
      /\ \A i : i # m.id => OnWires(w, i) = OnWires(wire, i)
    <2>1. w = WithLess(wire, l, n) /\ m = Head(wire[l][n])
        BY DEF Taken, WithLess
    <2> HIDE DEF w, m
    <2> QED BY <1>1, <1>2, <2>1, WireTake
<1>6. Disposes(state[n], o, m)
    <2>1. DOMAIN state[n] = StateFields
        BY <1>2 DEF StateOk
    <2> HIDE DEF m
    <2> QED BY <1>5, <2>1, DispatchIs
<1> HIDE DEF m, o, w
<1>7. /\ OnWires(wire, m.id) = {<<l, n>>} /\ HeldAt(state, m.id) = {}
      /\ BatchAt(release, m.id) = {} /\ DivertedAt(diverted, m.id) = {}
    BY <1>5, SoleIs DEF IsMessage, Sole
<1>8. OnWires(w, m.id) = {}
    BY <1>5, <1>7
<1>9. /\ StateOk(state') /\ WireOk(wire') /\ DOMAIN fate' = Id
      /\ Placed(wire', state', release, diverted, fate')
    <2>1. TakenOut(m, wire, w, release, release, diverted, diverted)
        BY <1>5, <1>7, <1>8 DEF TakenOut
    <2> QED BY <1>2, <1>4, <1>5, <1>6, <1>7, <2>1, Settled
<1> QED BY <1>2, <1>3, <1>9 DEF PlacesInv

LEMMA DivertKeeps ==
    ASSUME PlacesInv, NEW n \in Node, Divert(n)
    PROVE  PlacesInv'
<1> DEFINE q == diverted[n]
           m == Head(q).msg
           o == Reroute(Config[n], state[n], Head(q).link, m)
           t == Tail(q)
           d == WithState(diverted, n, t)
<1>1. /\ WireOk(wire) /\ StateOk(state) /\ ReleaseOk(release) /\ DivertedOk(diverted)
      /\ DOMAIN fate = Id /\ Placed(wire, state, release, diverted, fate)
    BY DEF PlacesInv
<1>2. q # <<>> /\ release' = release /\ diverted' = d
    BY <1>1 DEF Divert, WithState, DivertedOk
<1>3. state' = WithState(state, n, o.s) /\ wire' = WithSent(wire, n, o) /\ fate' = WithFate(fate, o)
    <2>1. Carries(n, o, wire)
        BY DEF Divert
    <2> HIDE DEF o
    <2> QED BY <2>1, CarriesIs
<1>4. /\ Returned(n, t) /\ IdsIn(MsgsOf(t)) = IdsIn(MsgsOf(q)) \ {m.id}
      /\ IsMessage(m) /\ m.id \in IdsIn(MsgsOf(q)) /\ Head(q).link \in LinksOf(n)
    <2>1. Returned(n, q)
        BY <1>1 DEF DivertedOk
    <2> HIDE DEF q, t
    <2>2. m = Head(q).msg
        OBVIOUS
    <2> HIDE DEF m
    <2> QED BY <1>2, <2>1, <2>2, DivertedTail DEF t
<1>5. Disposes(state[n], o, m)
    <2>1. DOMAIN state[n] = StateFields
        BY <1>1 DEF StateOk
    <2> HIDE DEF m
    <2> QED BY <1>4, <2>1, RerouteIs
<1>6. n \in DivertedAt(diverted, m.id)
    BY <1>4 DEF DivertedAt
<1>7. \A i : i \in IdsIn(MsgsOf(q)) <=> n \in DivertedAt(diverted, i)
    BY DEF DivertedAt
<1> HIDE DEF m, o, t, q
<1>8. DivertedOk(d) /\ \A i : Differs(DivertedAt(diverted, i), DivertedAt(d, i), n, i \in IdsIn(MsgsOf(t)))
    BY <1>1, <1>4, DivertedChange
<1>9. /\ OnWires(wire, m.id) = {} /\ HeldAt(state, m.id) = {}
      /\ BatchAt(release, m.id) = {} /\ DivertedAt(diverted, m.id) = {n}
    BY <1>4, <1>6, SoleIs DEF IsMessage, Sole
<1>10. DivertedAt(d, m.id) = {}
    BY <1>4, <1>8, <1>9 DEF Differs
<1>11. ASSUME NEW i \in Id, i # m.id PROVE DivertedAt(d, i) = DivertedAt(diverted, i)
    <2>1. i \in IdsIn(MsgsOf(t)) <=> n \in DivertedAt(diverted, i)
        BY <1>4, <1>7, <1>11
    <2> QED BY <1>8, <2>1 DEF Differs
<1> HIDE DEF d
<1>12. /\ StateOk(state') /\ WireOk(wire') /\ DOMAIN fate' = Id
       /\ Placed(wire', state', release, d, fate')
    <2>1. TakenOut(m, wire, wire, release, release, diverted, d)
        BY <1>9, <1>10, <1>11 DEF TakenOut
    <2> QED BY <1>1, <1>3, <1>4, <1>5, <1>9, <2>1, Settled
<1> QED BY <1>1, <1>2, <1>8, <1>12 DEF PlacesInv

LEMMA SendBatchKeeps ==
    ASSUME PlacesInv, NEW n \in Node, SendBatch(n)
    PROVE  PlacesInv'
<1> DEFINE q == release[n].batch
           m == Head(q)
           o == SendHeld(Config[n], state[n], Resolve(Config[n], state[n], m.dpc, m.sls), m)
           t == Tail(q)
           x == [release[n] EXCEPT !.batch = t]
           r == WithState(release, n, x)
<1>1. /\ WireOk(wire) /\ StateOk(state) /\ ReleaseOk(release) /\ DivertedOk(diverted)
      /\ DOMAIN fate = Id /\ Placed(wire, state, release, diverted, fate)
    BY DEF PlacesInv
<1>2. q # <<>> /\ diverted' = diverted /\ release' = r
    BY <1>1 DEF SendBatch, WithState, ReleaseOk
<1>3. state' = WithState(state, n, o.s) /\ wire' = WithSent(wire, n, o) /\ fate' = WithFate(fate, o)
    <2>1. Carries(n, o, wire)
        BY DEF SendBatch
    <2> HIDE DEF o
    <2> QED BY <2>1, CarriesIs
<1>4. Proper(t) /\ IdsIn(t) = IdsIn(q) \ {m.id} /\ IsMessage(m) /\ m.id \in IdsIn(q)
    <2>1. Proper(q)
        BY <1>1 DEF ReleaseOk
    <2> HIDE DEF q
    <2> QED BY <1>2, <2>1, TailQueue
<1>5. Disposes(state[n], o, m)
    <2>1. DOMAIN state[n] = StateFields
        BY <1>1 DEF StateOk
    <2> HIDE DEF m
    <2> QED BY <1>4, <2>1, SendHeldIs
<1>6. \A i : i \in IdsIn(q) <=> n \in BatchAt(release, i)
    BY DEF BatchAt
<1>7. DOMAIN x = {"dpc", "batch"} /\ x.batch = t
    BY <1>1 DEF ReleaseOk
<1> HIDE DEF m, o, t, q, x
<1>8. ReleaseOk(r) /\ \A i : Differs(BatchAt(release, i), BatchAt(r, i), n, i \in IdsIn(t))
    <2>1. Proper(x.batch)
        BY <1>4, <1>7
    <2>2. ReleaseOk(r) /\ \A i : Differs(BatchAt(release, i), BatchAt(r, i), n, i \in IdsIn(x.batch))
        BY <1>1, <1>7, <2>1, ReleaseChange
    <2> QED BY <1>7, <2>2
<1>9. /\ OnWires(wire, m.id) = {} /\ HeldAt(state, m.id) = {}
      /\ BatchAt(release, m.id) = {n} /\ DivertedAt(diverted, m.id) = {}
    BY <1>4, <1>6, SoleIs DEF IsMessage, Sole
<1>10. BatchAt(r, m.id) = {}
    BY <1>4, <1>8, <1>9 DEF Differs
<1>11. ASSUME NEW i \in Id, i # m.id PROVE BatchAt(r, i) = BatchAt(release, i)
    <2>1. i \in IdsIn(t) <=> n \in BatchAt(release, i)
        BY <1>4, <1>6, <1>11
    <2> QED BY <1>8, <2>1 DEF Differs
<1> HIDE DEF r
<1>12. /\ StateOk(state') /\ WireOk(wire') /\ DOMAIN fate' = Id
       /\ Placed(wire', state', r, diverted, fate')
    <2>1. TakenOut(m, wire, wire, release, r, diverted, diverted)
        BY <1>9, <1>10, <1>11 DEF TakenOut
    <2> QED BY <1>1, <1>3, <1>4, <1>5, <1>9, <2>1, Settled
<1> QED BY <1>1, <1>2, <1>8, <1>12 DEF PlacesInv

----------------------------------------------------------------------------
(* The steps in which nothing leaves a node.                               *)

LEMMA Unmoved ==
    ASSUME PlacesInv, StateOk(state'), ReleaseOk(release'),
           \A i : HeldAt(state', i) = HeldAt(state, i),
           \A i : BatchAt(release', i) = BatchAt(release, i),
           UNCHANGED <<wire, diverted, fate>>
    PROVE  PlacesInv'
<1>1. \A i : At(wire', state', release', diverted', i) = At(wire, state, release, diverted, i)
    BY DEF At
<1>2. Placed(wire', state', release', diverted', fate')
    BY <1>1 DEF PlacesInv, Placed
<1> QED BY <1>2 DEF PlacesInv

\* The node notes something: its buffers are as they were.
LEMMA StateFollows ==
    ASSUME PlacesInv, NEW n \in Node, NEW x, DOMAIN x = StateFields, x.up \subseteq LinksOf(n),
           ProperBuffers(x.held), BufferIds(x.held) = BufferIds(state[n].held),
           state' = WithState(state, n, x)
    PROVE  StateOk(state') /\ \A i : HeldAt(state', i) = HeldAt(state, i)
<1>1. StateOk(state)
    BY DEF PlacesInv
<1> QED BY <1>1, NothingMoves

LEMMA ReleaseFollows ==
    ASSUME PlacesInv, NEW n \in Node, NEW x, DOMAIN x = {"dpc", "batch"}, x.batch = release[n].batch,
           release' = WithState(release, n, x)
    PROVE  ReleaseOk(release') /\ \A i : BatchAt(release', i) = BatchAt(release, i)
<1>1. ReleaseOk(release) /\ Proper(x.batch)
    BY DEF PlacesInv, ReleaseOk
<1>2. ReleaseOk(release') /\ \A i : Differs(BatchAt(release, i), BatchAt(release', i), n, i \in IdsIn(x.batch))
    BY <1>1, ReleaseChange
<1>3. ASSUME NEW i PROVE BatchAt(release', i) = BatchAt(release, i)
    <2>1. i \in IdsIn(x.batch) <=> n \in BatchAt(release, i)
        BY DEF BatchAt
    <2> QED BY <1>2, <2>1 DEF Differs
<1> QED BY <1>2, <1>3

LEMMA OpenedIs ==
    ASSUME NEW h, ProperBuffers(h), NEW d, d \notin DOMAIN h, NEW g, g = Opened(h, d)
    PROVE  ProperBuffers(g) /\ BufferIds(g) = BufferIds(h)
<1>1. DOMAIN g = DOMAIN h \cup {d} /\ g[d] = <<>> /\ \A e \in DOMAIN h : g[e] = h[e]
    BY DEF Opened
<1>2. Proper(g[d]) /\ IdsIn(g[d]) = {}
    BY <1>1, EmptyQueue
<1>3. ProperBuffers(g)
    <2>1. \A e \in DOMAIN g : Proper(g[e])
        BY <1>1, <1>2 DEF ProperBuffers
    <2>2. ASSUME NEW e \in DOMAIN g, NEW f \in DOMAIN g, e # f PROVE IdsIn(g[e]) \cap IdsIn(g[f]) = {}
        <3>1. CASE e = d \/ f = d
            BY <1>2, <3>1
        <3>2. CASE e # d /\ f # d
            BY <1>1, <2>2, <3>2 DEF ProperBuffers
        <3> QED BY <3>1, <3>2
    <2> QED BY <2>1, <2>2 DEF ProperBuffers
<1>4. \A i : i \in BufferIds(g) <=> i \in BufferIds(h)
    BY <1>1, <1>2 DEF BufferIds
<1> QED BY <1>3, <1>4

\* A buffer is closed, or emptied.
LEMMA TakenFrom ==
    ASSUME NEW h, ProperBuffers(h), NEW d, NEW g, g = AfterTaking(h, d)
    PROVE  /\ ProperBuffers(g)
           /\ NothingFor(h, d) => BufferIds(g) = BufferIds(h)
           /\ ~NothingFor(h, d) => BufferIds(g) = BufferIds(h) \ IdsIn(h[d])
<1>1. CASE NothingFor(h, d)
    <2>1. DOMAIN g = DOMAIN h \ {d} /\ \A e \in DOMAIN g : g[e] = h[e]
        BY <1>1 DEF AfterTaking
    <2>2. d \in DOMAIN h => IdsIn(h[d]) = {}
        BY <1>1, EmptyQueue DEF NothingFor
    <2>3. ProperBuffers(g)
        BY <2>1 DEF ProperBuffers
    <2>4. \A i : i \in BufferIds(g) <=> i \in BufferIds(h)
        BY <2>1, <2>2 DEF BufferIds
    <2> QED BY <1>1, <2>3, <2>4
<1>2. CASE ~NothingFor(h, d)
    <2>1. d \in DOMAIN h /\ DOMAIN g = DOMAIN h /\ g[d] = <<>> /\ \A e \in DOMAIN h : e # d => g[e] = h[e]
        BY <1>2 DEF AfterTaking, NothingFor
    <2>2. Proper(g[d]) /\ IdsIn(g[d]) = {}
        BY <2>1, EmptyQueue
    <2>3. ProperBuffers(g)
        <3>1. \A e \in DOMAIN g : Proper(g[e])
            BY <2>1, <2>2 DEF ProperBuffers
        <3>2. ASSUME NEW e \in DOMAIN g, NEW f \in DOMAIN g, e # f PROVE IdsIn(g[e]) \cap IdsIn(g[f]) = {}
            <4>1. CASE e = d \/ f = d
                BY <2>2, <4>1
            <4>2. CASE e # d /\ f # d
                BY <2>1, <3>2, <4>2 DEF ProperBuffers
            <4> QED BY <4>1, <4>2
        <3> QED BY <3>1, <3>2 DEF ProperBuffers
    <2>4. ASSUME NEW i PROVE i \in BufferIds(g) <=> i \in BufferIds(h) /\ i \notin IdsIn(h[d])
        <3>1. i \in BufferIds(g) <=> \E e \in DOMAIN h : e # d /\ i \in IdsIn(h[e])
            BY <2>1, <2>2 DEF BufferIds
        <3>2. \A e \in DOMAIN h : e # d /\ i \in IdsIn(h[e]) => i \notin IdsIn(h[d])
            BY <2>1 DEF ProperBuffers
        <3>3. i \in BufferIds(h) <=> \E e \in DOMAIN h : i \in IdsIn(h[e])
            BY DEF BufferIds
        <3> QED BY <3>1, <3>2, <3>3
    <2> QED BY <1>2, <2>3, <2>4
<1> QED BY <1>1, <1>2

LEMMA RecomputeKeeps ==
    ASSUME PlacesInv, NEW n \in Node, Recompute(n)
    PROVE  PlacesInv'
<1> DEFINE x == [state[n] EXCEPT !.open = LinksetsUp(Config[n], state[n].up)]
<1>1. StateOk(state) /\ ReleaseOk(release)
    BY DEF PlacesInv
<1>2. state' = WithState(state, n, x) /\ UNCHANGED <<release, wire, diverted, fate>>
    BY <1>1 DEF Recompute, WithState, StateOk
<1>3. DOMAIN x = StateFields /\ x.up \subseteq LinksOf(n) /\ x.held = state[n].held
    BY <1>1 DEF StateOk, StateFields
<1> HIDE DEF x
<1>4. ProperBuffers(x.held) /\ BufferIds(x.held) = BufferIds(state[n].held)
    BY <1>1, <1>3 DEF StateOk
<1>5. StateOk(state') /\ \A i : HeldAt(state', i) = HeldAt(state, i)
    BY <1>2, <1>3, <1>4, StateFollows
<1> QED BY <1>1, <1>2, <1>5, Unmoved

\* Marks are noted now or later, and a buffer may be opened.
LEMMA NotesFollow ==
    ASSUME PlacesInv, NEW n \in Node, NEW x, NEW d,
           \/ \E new : x = NotesNow(n, d, new)
           \/ \E new : x = NotesLater(n, new)
           \/ d \notin DOMAIN state[n].held /\ \E new : x = [NotesLater(n, new) EXCEPT !.held = Opened(@, d)],
           state' = WithState(state, n, x)
    PROVE  StateOk(state') /\ \A i : HeldAt(state', i) = HeldAt(state, i)
<1>1. /\ DOMAIN state[n] = StateFields /\ state[n].up \subseteq LinksOf(n)
      /\ ProperBuffers(state[n].held)
    BY DEF PlacesInv, StateOk
<1>2. \/ x.held = state[n].held
      \/ d \notin DOMAIN state[n].held /\ x.held = Opened(state[n].held, d)
    BY <1>1 DEF NotesNow, NotesLater, StateFields
<1>3. DOMAIN x = StateFields /\ x.up \subseteq LinksOf(n)
    BY <1>1 DEF NotesNow, NotesLater, StateFields
<1>4. ProperBuffers(x.held) /\ BufferIds(x.held) = BufferIds(state[n].held)
    BY <1>1, <1>2, OpenedIs
<1> QED BY <1>3, <1>4, StateFollows

LEMMA ReleasesFollow ==
    ASSUME PlacesInv, NEW n \in Node, NEW d, NEW new, Releases(n, d, new)
    PROVE  /\ StateOk(state') /\ \A i : HeldAt(state', i) = HeldAt(state, i)
           /\ ReleaseOk(release') /\ \A i : BatchAt(release', i) = BatchAt(release, i)
<1> DEFINE x == NotesNow(n, d, Superseded(DeferredFor(n, d), new))
           y == [release[n] EXCEPT !.dpc = d]
<1>1. StateOk(state) /\ ReleaseOk(release)
    BY DEF PlacesInv
<1>2. state' = WithState(state, n, x) /\ (release' = release \/ release' = WithState(release, n, y))
    BY <1>1 DEF Releases, WithState, ReleaseOk
<1>3. DOMAIN y = {"dpc", "batch"} /\ y.batch = release[n].batch
    BY <1>1 DEF ReleaseOk
<1> HIDE DEF x, y
<1>4. \E k : x = NotesNow(n, d, k)
    BY DEF x
<1>5. StateOk(state') /\ \A i : HeldAt(state', i) = HeldAt(state, i)
    BY <1>2, <1>4, NotesFollow
<1>6. ReleaseOk(release') /\ \A i : BatchAt(release', i) = BatchAt(release, i)
    BY <1>1, <1>2, <1>3, ReleaseFollows
<1> QED BY <1>5, <1>6

LEMMA StatusChangesKeeps ==
    ASSUME PlacesInv, NEW n \in Node, NEW mark, StatusChanges(n, mark)
    PROVE  PlacesInv'
<1> DEFINE d == mark[1]
           before == InUse(Config[n], AsHeard(state[n], {}), d)
           after == InUse(Config[n], AsHeard(state[n], {mark}), d)
           moves == Moves(before, after)
<1>1. StateOk(state) /\ ReleaseOk(release)
    BY DEF PlacesInv
<1>2. MarkRoute(n, d, mark, moves) /\ UNCHANGED <<wire, diverted, fate>>
    BY DEF StatusChanges
<1> HIDE DEF moves
<1>3. /\ StateOk(state') /\ \A i : HeldAt(state', i) = HeldAt(state, i)
      /\ ReleaseOk(release') /\ \A i : BatchAt(release', i) = BatchAt(release, i)
    <2>1. CASE Releases(n, d, {mark})
        BY <2>1, ReleasesFollow
    <2>2. CASE release' = release /\ \E x :
                   /\ state' = WithState(state, n, x)
                   /\ \/ \E new : x = NotesNow(n, d, new)
                      \/ \E new : x = NotesLater(n, new)
                      \/ /\ d \notin DOMAIN state[n].held
                         /\ \E new : x = [NotesLater(n, new) EXCEPT !.held = Opened(@, d)]
        BY <1>1, <2>2, NotesFollow
    <2>3. \/ Releases(n, d, {mark})
          \/ release' = release /\ state' = [state EXCEPT ![n] = NotesLater(n, {mark})]
          \/ /\ release' = release /\ ~IsHolding(n, d)
             /\ state' = [state EXCEPT ![n] = [NotesLater(n, {mark}) EXCEPT !.held = Opened(@, d)]]
          \/ release' = release /\ state' = [state EXCEPT ![n] = NotesNow(n, d, {mark})]
        BY <1>2 DEF MarkRoute
    <2> QED BY <2>1, <2>2, <2>3 DEF IsHolding, WithState
<1> QED BY <1>2, <1>3, Unmoved

LEMMA T6ExpiresKeeps ==
    ASSUME PlacesInv, NEW n \in Node, NEW d, T6Expires(n, d)
    PROVE  PlacesInv'
<1>1. Releases(n, d, {}) /\ UNCHANGED <<wire, diverted, fate>>
    BY DEF T6Expires
<1>2. /\ StateOk(state') /\ \A i : HeldAt(state', i) = HeldAt(state, i)
      /\ ReleaseOk(release') /\ \A i : BatchAt(release', i) = BatchAt(release, i)
    BY <1>1, ReleasesFollow
<1> QED BY <1>1, <1>2, Unmoved

LEMMA TakeBatchKeeps ==
    ASSUME PlacesInv, NEW n \in Node, TakeBatch(n)
    PROVE  PlacesInv'
<1> DEFINE d == release[n].dpc
           h == state[n].held
           g == AfterTaking(h, d)
           b == BatchOf(h, d)
           x == [state[n] EXCEPT !.held = g]
<1>1. StateOk(state) /\ ReleaseOk(release)
    BY DEF PlacesInv
<1>2. /\ release[n].batch = <<>> /\ UNCHANGED <<wire, diverted, fate>>
      /\ state' = WithState(state, n, x) /\ release' = WithState(release, n, b)
    BY <1>1 DEF TakeBatch, WithState, StateOk, StateFields
<1>3. DOMAIN x = StateFields /\ x.up \subseteq LinksOf(n) /\ x.held = g
    BY <1>1 DEF StateOk, StateFields
<1>4. ProperBuffers(h)
    BY <1>1 DEF StateOk
<1>5. \A i : i \in BufferIds(h) <=> n \in HeldAt(state, i)
    BY DEF HeldAt
<1>6. \A i : n \notin BatchAt(release, i)
    BY <1>2, EmptyQueue DEF BatchAt
<1> HIDE DEF x, h, d
<1>7. /\ ProperBuffers(g)
      /\ NothingFor(h, d) => BufferIds(g) = BufferIds(h)
      /\ ~NothingFor(h, d) => BufferIds(g) = BufferIds(h) \ IdsIn(h[d])
    BY <1>4, TakenFrom
<1>8. DOMAIN b = {"dpc", "batch"} /\ b.batch = IF NothingFor(h, d) THEN <<>> ELSE h[d]
    BY DEF BatchOf, NotReleasing
<1>9. Proper(b.batch) /\ IdsIn(b.batch) = IF NothingFor(h, d) THEN {} ELSE IdsIn(h[d])
    BY <1>4, <1>8, EmptyQueue DEF ProperBuffers, NothingFor
<1>10. ~NothingFor(h, d) => IdsIn(h[d]) \subseteq BufferIds(h)
    BY DEF NothingFor, BufferIds
<1> HIDE DEF g, b
<1>11. /\ StateOk(state')
       /\ \A i : Differs(HeldAt(state, i), HeldAt(state', i), n, i \in BufferIds(g))
    <2>1. ProperBuffers(x.held)
        BY <1>3, <1>7
    <2>2. /\ StateOk(state')
          /\ \A i : Differs(HeldAt(state, i), HeldAt(state', i), n, i \in BufferIds(x.held))
        BY <1>1, <1>2, <1>3, <2>1, StateChange
    <2> QED BY <1>3, <2>2
<1>12. /\ ReleaseOk(release')
       /\ \A i : Differs(BatchAt(release, i), BatchAt(release', i), n, i \in IdsIn(b.batch))
    BY <1>1, <1>2, <1>8, <1>9, ReleaseChange
<1>13. CASE NothingFor(h, d)
    <2>1. ASSUME NEW i PROVE HeldAt(state', i) = HeldAt(state, i) /\ BatchAt(release', i) = BatchAt(release, i)
        <3>1. i \in BufferIds(g) <=> n \in HeldAt(state, i)
            BY <1>5, <1>7, <1>13
        <3>2. i \notin IdsIn(b.batch) /\ n \notin BatchAt(release, i)
            BY <1>6, <1>9, <1>13
        <3>3. HeldAt(state', i) = HeldAt(state, i)
            BY <1>11, <3>1 DEF Differs
        <3>4. BatchAt(release', i) = BatchAt(release, i)
            BY <1>12, <3>2 DEF Differs
        <3> QED BY <3>3, <3>4
    <2> QED BY <1>2, <1>11, <1>12, <2>1, Unmoved
<1>14. CASE ~NothingFor(h, d)
    <2>1. ASSUME NEW i \in Id
          PROVE  IF fate'[i] = "Sent"
                 THEN \E y \in At(wire', state', release', diverted', i) :
                          At(wire', state', release', diverted', i) = {y}
                 ELSE At(wire', state', release', diverted', i) = {}
        <3>1. CASE i \in IdsIn(h[d])
            <4>1. n \in HeldAt(state, i)
                BY <1>5, <1>10, <1>14, <3>1
            <4>2. /\ OnWires(wire, i) = {} /\ HeldAt(state, i) = {n} /\ BatchAt(release, i) = {}
                  /\ DivertedAt(diverted, i) = {} /\ fate[i] = "Sent"
                BY <4>1, SoleIs DEF Sole
            <4>3. HeldAt(state', i) = {}
                <5>1. i \notin BufferIds(g)
                    BY <1>7, <1>14, <3>1
                <5> QED BY <1>11, <4>2, <5>1 DEF Differs
            <4>4. BatchAt(release', i) = {n}
                <5>1. i \in IdsIn(b.batch)
                    BY <1>9, <1>14, <3>1
                <5> QED BY <1>12, <4>2, <5>1 DEF Differs
            <4>5. At(wire', state', release', diverted', i) = {<<"Batch", n>>}
                BY <1>2, <4>2, <4>3, <4>4, PlaceOf DEF At
            <4> QED BY <1>2, <4>2, <4>5
        <3>2. CASE i \notin IdsIn(h[d])
            <4>1. i \in BufferIds(g) <=> n \in HeldAt(state, i)
                BY <1>5, <1>7, <1>14, <3>2
            <4>2. i \notin IdsIn(b.batch) /\ n \notin BatchAt(release, i)
                BY <1>6, <1>9, <1>14, <3>2
            <4>3. HeldAt(state', i) = HeldAt(state, i)
                BY <1>11, <4>1 DEF Differs
            <4>4. BatchAt(release', i) = BatchAt(release, i)
                BY <1>12, <4>2 DEF Differs
            <4>5. At(wire', state', release', diverted', i) = At(wire, state, release, diverted, i)
                BY <1>2, <4>3, <4>4 DEF At
            <4> QED BY <1>2, <4>5 DEF PlacesInv, Placed
        <3> QED BY <3>1, <3>2
    <2>2. Placed(wire', state', release', diverted', fate')
        BY <2>1 DEF Placed
    <2> QED BY <1>2, <1>11, <1>12, <2>2 DEF PlacesInv
<1> QED BY <1>13, <1>14

----------------------------------------------------------------------------
(* The hosts.                                                              *)

LEMMA NextIdIs ==
    ASSUME \E i \in Id : fate[i] = "Unsent"
    PROVE  NextId \in Id /\ fate[NextId] = "Unsent"
<1> DEFINE S == {i \in Id : fate[i] = "Unsent"}
<1>1. S \subseteq Nat /\ S # {}
    BY TransferAssumption DEF Id
<1>2. PICK i \in S : \A j \in S : i <= j
    <2> HIDE DEF S
    <2> QED BY <1>1, LeastElement
<1>3. i \in Id /\ fate[i] = "Unsent" /\ \A j \in 1 .. i - 1 : fate[j] # "Unsent"
    BY <1>2, TransferAssumption DEF Id
<1> QED BY <1>3 DEF NextId

LEMMA HostSendsKeeps ==
    ASSUME PlacesInv, NEW m \in Traffic, HostSends(m.opc, m.link, m)
    PROVE  PlacesInv'
<1> DEFINE l == m.link
           h == m.opc
           p == FarEnd(l, h)
           x == [m EXCEPT !.id = NextId]
           id == NextId
<1>1. WireOk(wire)
    BY DEF PlacesInv
<1>2. id \in Id /\ fate[id] = "Unsent"
    BY NextIdIs DEF HostSends
<1>3. IsMessage(x) /\ x.id = id
    BY <1>2, TrafficAssumption DEF IsMessage
<1>4. l \in Link /\ p \in Ends[l]
    <2>1. l \in Link /\ h \in Ends[l]
        BY TrafficAssumption DEF LinksOf
    <2> QED BY <2>1, EndsOfLinks
<1>5. /\ wire' = WithMore(wire, l, p, x) /\ fate' = [fate EXCEPT ![id] = "Sent"]
      /\ UNCHANGED <<state, release, diverted>>
    BY DEF HostSends, WithMore
<1> HIDE DEF l, h, p, x, id
<1>6. /\ OnWires(wire, id) = {} /\ HeldAt(state, id) = {}
      /\ BatchAt(release, id) = {} /\ DivertedAt(diverted, id) = {}
    BY <1>2, SoleIs
<1>7. /\ WireOk(wire') /\ OnWires(wire', id) = {<<l, p>>}
      /\ \A i : i # id => OnWires(wire', i) = OnWires(wire, i)
    <2>1. OnWires(wire, x.id) = {}
        BY <1>3, <1>6
    <2>2. /\ WireOk(wire') /\ OnWires(wire', x.id) = {<<l, p>>}
          /\ \A i : i # x.id => OnWires(wire', i) = OnWires(wire, i)
        BY <1>1, <1>3, <1>4, <1>5, <2>1, WirePut
    <2> QED BY <1>3, <2>2
<1>8. DOMAIN fate' = Id /\ fate'[id] = "Sent" /\ \A i \in Id : i # id => fate'[i] = fate[i]
    BY <1>2, <1>5 DEF PlacesInv
<1>9. At(wire', state', release', diverted', id) = {<<"Wire", <<l, p>>>>}
    BY <1>5, <1>6, <1>7, PlaceOf DEF At
<1>10. ASSUME NEW i \in Id, i # id
       PROVE  At(wire', state', release', diverted', i) = At(wire, state, release, diverted, i)
    BY <1>5, <1>7, <1>10 DEF At
<1>11. Placed(wire', state', release', diverted', fate')
    BY <1>8, <1>9, <1>10 DEF PlacesInv, Placed
<1> QED BY <1>5, <1>7, <1>8, <1>11 DEF PlacesInv

LEMMA HostReceivesKeeps ==
    ASSUME PlacesInv, NEW h, NEW l \in LinksOf(h), HostReceives(h, l)
    PROVE  PlacesInv'
<1> DEFINE m == Head(wire[l][h])
           end == IF m.dpc = h THEN "Delivered" ELSE "Discarded"
<1>1. WireOk(wire) /\ l \in Link /\ h \in Ends[l]
    BY DEF PlacesInv, LinksOf
<1>2. /\ wire[l][h] # <<>> /\ wire' = WithLess(wire, l, h) /\ fate' = [fate EXCEPT ![m.id] = end]
      /\ UNCHANGED <<state, release, diverted>>
    BY DEF HostReceives, Taken, WithLess
<1>3. m = Head(wire[l][h]) /\ end # "Sent"
    OBVIOUS
<1> HIDE DEF m, end
<1>4. /\ WireOk(wire') /\ IsMessage(m)
      /\ <<l, h>> \in OnWires(wire, m.id)
      /\ OnWires(wire', m.id) = OnWires(wire, m.id) \ {<<l, h>>}
      /\ \A i : i # m.id => OnWires(wire', i) = OnWires(wire, i)
    BY <1>1, <1>2, <1>3, WireTake
<1>5. m.id \in Id
    BY <1>4 DEF IsMessage
<1>6. /\ OnWires(wire, m.id) = {<<l, h>>} /\ HeldAt(state, m.id) = {}
      /\ BatchAt(release, m.id) = {} /\ DivertedAt(diverted, m.id) = {}
    BY <1>4, <1>5, SoleIs DEF Sole
<1>7. DOMAIN fate' = Id /\ fate'[m.id] # "Sent" /\ \A i \in Id : i # m.id => fate'[i] = fate[i]
    BY <1>2, <1>3, <1>5 DEF PlacesInv
<1>8. At(wire', state', release', diverted', m.id) = {}
    <2>1. OnWires(wire', m.id) = {}
        BY <1>4, <1>6
    <2> QED BY <1>2, <1>6, <2>1, NoPlace DEF At
<1>9. ASSUME NEW i \in Id, i # m.id
      PROVE  At(wire', state', release', diverted', i) = At(wire, state, release, diverted, i)
    BY <1>2, <1>4, <1>9 DEF At
<1>10. Placed(wire', state', release', diverted', fate')
    BY <1>7, <1>8, <1>9 DEF PlacesInv, Placed
<1> QED BY <1>2, <1>4, <1>7, <1>10 DEF PlacesInv

----------------------------------------------------------------------------
(* The links.                                                              *)

Marked(m) == [m EXCEPT !.back = TRUE]

LEMMA BackIs ==
    ASSUME NEW n, NEW l \in LinksOf(n), NEW w, Proper(w), NEW r, r = [k \in DOMAIN w |-> Back(l, w[k])]
    PROVE  Returned(n, r) /\ IdsIn(MsgsOf(r)) = IdsIn(w)
<1> DEFINE S == {w[k] : k \in DOMAIN w}
           T == {Back(l, w[k]) : k \in DOMAIN w}
           X == {Back(l, w[k]).msg : k \in DOMAIN w}
           v == MsgsOf(r)
<1>1. Len(w) \in Nat /\ DOMAIN w = 1 .. Len(w)
    <2>1. w \in Seq(S)
        BY DEF Proper
    <2> QED BY <2>1, QueueOf
<1>2. r \in Seq(T) /\ r \in Seq({r[k] : k \in DOMAIN r}) /\ DOMAIN r = DOMAIN w
    <2>1. r \in [1 .. Len(w) -> T]
        BY <1>1
    <2> HIDE DEF T
    <2>2. r \in Seq(T)
        BY <1>1, <2>1, SeqDef
    <2> QED BY <1>1, <2>1, <2>2, QueueOf
<1>3. \A k \in DOMAIN w : r[k].link = l /\ r[k].msg = Marked(w[k])
    BY DEF Back, Marked
<1>4. \A k \in DOMAIN w : IsMessage(r[k].msg) /\ r[k].msg.id = w[k].id
    <2>1. ASSUME NEW m, IsMessage(m) PROVE IsMessage(Marked(m)) /\ Marked(m).id = m.id
        BY <2>1 DEF IsMessage, Marked
    <2> QED BY <1>3, <2>1 DEF Proper
<1>5. DOMAIN v = DOMAIN w /\ \A k \in DOMAIN w : v[k] = r[k].msg
    BY <1>2 DEF MsgsOf
<1>6. v \in Seq({v[k] : k \in DOMAIN v})
    <2>1. v \in [1 .. Len(w) -> X]
        BY <1>1, <1>2 DEF MsgsOf
    <2> HIDE DEF X
    <2>2. v \in Seq(X)
        BY <1>1, <2>1, SeqDef
    <2> HIDE DEF v
    <2> QED BY <2>2, QueueOf
<1> HIDE DEF v
<1>7. Proper(v)
    <2>1. \A k \in DOMAIN v : IsMessage(v[k]) /\ v[k].id = w[k].id
        BY <1>4, <1>5
    <2>2. \A j, k \in DOMAIN v : v[j].id = v[k].id => j = k
        BY <1>5, <2>1 DEF Proper
    <2> QED BY <1>6, <2>1, <2>2 DEF Proper
<1>8. IdsIn(v) = IdsIn(w)
    BY <1>4, <1>5 DEF IdsIn
<1> QED BY <1>2, <1>3, <1>7, <1>8 DEF Returned, v

Joined(q, r) == q \o r

Apart(q, r) == IdsIn(MsgsOf(q)) \cap IdsIn(MsgsOf(r)) = {}

LEMMA ReturnedMore ==
    ASSUME NEW n, NEW q, Returned(n, q), NEW r, Returned(n, r),
           Apart(q, r), NEW t, t = Joined(q, r)
    PROVE  Returned(n, t) /\ IdsIn(MsgsOf(t)) = IdsIn(MsgsOf(q)) \cup IdsIn(MsgsOf(r))
<1> DEFINE S == {q[k] : k \in DOMAIN q} \cup {r[k] : k \in DOMAIN r}
           Q == MsgsOf(q)
           R == MsgsOf(r)
<1>1. q \in Seq(S) /\ r \in Seq(S)
    BY SeqMonotonic DEF Returned
<1>2. /\ Len(q) \in Nat /\ DOMAIN q = 1 .. Len(q)
      /\ Len(r) \in Nat /\ DOMAIN r = 1 .. Len(r)
    BY <1>1, QueueOf
<1> HIDE DEF S
<1>0. t = q \o r
    BY DEF Joined
<1>3. /\ t \in Seq(S) /\ Len(t) = Len(q) + Len(r)
      /\ \A k \in 1 .. Len(q) : t[k] = q[k]
      /\ \A k \in 1 .. Len(r) : t[Len(q) + k] = r[k]
    BY <1>0, <1>1, <1>2, ConcatProperties
<1>4. DOMAIN t = 1 .. Len(q) + Len(r) /\ t \in Seq({t[k] : k \in DOMAIN t})
    <2>1. \A x \in Seq(S) : DOMAIN x = 1 .. Len(x) /\ x \in Seq({x[k] : k \in DOMAIN x})
        BY QueueOf
    <2>2. DOMAIN t = 1 .. Len(t) /\ t \in Seq({t[k] : k \in DOMAIN t})
        BY <1>3, <2>1
    <2> QED BY <1>3, <2>2
<1>5. \A k \in DOMAIN t : \/ k \in DOMAIN q /\ t[k] = q[k]
                          \/ k > Len(q) /\ k - Len(q) \in DOMAIN r /\ t[k] = r[k - Len(q)]
    <2>1. ASSUME NEW k \in DOMAIN t, k <= Len(q) PROVE k \in DOMAIN q /\ t[k] = q[k]
        BY <1>2, <1>3, <1>4, <2>1
    <2>2. ASSUME NEW k \in DOMAIN t, k > Len(q)
          PROVE  k - Len(q) \in DOMAIN r /\ t[k] = r[k - Len(q)]
        <3>1. k - Len(q) \in 1 .. Len(r) /\ Len(q) + (k - Len(q)) = k
            BY <1>2, <1>4, <2>2
        <3> QED BY <1>2, <1>3, <3>1
    <2> QED BY <1>2, <1>4, <2>1, <2>2
<1>6. \A k \in DOMAIN t : t[k].link \in LinksOf(n)
    BY <1>5 DEF Returned
<1>7. Proper(Q) /\ Proper(R) /\ DOMAIN Q = 1 .. Len(q) /\ DOMAIN R = 1 .. Len(r)
      /\ (\A k \in 1 .. Len(q) : Q[k] = q[k].msg) /\ (\A k \in 1 .. Len(r) : R[k] = r[k].msg)
    BY <1>2 DEF Returned, MsgsOf
<1> HIDE DEF Q, R
<1>8. MsgsOf(t) = Q \o R
    <2> DEFINE X == {Q[k] : k \in DOMAIN Q} \cup {R[k] : k \in DOMAIN R}
               U == Q \o R
    <2>1. Q \in Seq(X) /\ R \in Seq(X)
        BY <1>7, SeqMonotonic DEF Proper
    <2> HIDE DEF X
    <2>2. Len(Q) = Len(q) /\ Len(R) = Len(r)
        <3>1. /\ Len(Q) \in Nat /\ DOMAIN Q = 1 .. Len(Q)
              /\ Len(R) \in Nat /\ DOMAIN R = 1 .. Len(R)
            BY <2>1, QueueOf
        <3> QED BY <1>2, <1>7, <3>1
    <2>3. /\ U \in Seq(X) /\ Len(U) = Len(q) + Len(r)
          /\ \A k \in 1 .. Len(q) : U[k] = Q[k]
          /\ \A k \in 1 .. Len(r) : U[Len(q) + k] = R[k]
        <3>1. /\ U \in Seq(X) /\ Len(U) = Len(Q) + Len(R)
              /\ \A k \in 1 .. Len(Q) : U[k] = Q[k]
              /\ \A k \in 1 .. Len(R) : U[Len(Q) + k] = R[k]
            BY <2>1, ConcatProperties
        <3> HIDE DEF U
        <3> QED BY <2>2, <3>1
    <2> HIDE DEF U
    <2>4. U \in [1 .. Len(q) + Len(r) -> X]
        BY <2>3, LenProperties
    <2>5. MsgsOf(t) = [k \in 1 .. Len(q) + Len(r) |-> t[k].msg]
        BY <1>4 DEF MsgsOf
    <2>6. ASSUME NEW k \in 1 .. Len(q) + Len(r) PROVE U[k] = t[k].msg
        <3>1. CASE k <= Len(q)
            BY <1>2, <1>3, <1>7, <2>3, <3>1
        <3>2. CASE k > Len(q)
            <4>1. k - Len(q) \in 1 .. Len(r) /\ Len(q) + (k - Len(q)) = k
                BY <1>2, <3>2
            <4> QED BY <1>3, <1>7, <2>3, <4>1
        <3> QED BY <1>2, <3>1, <3>2
    <2>7. U = [k \in 1 .. Len(q) + Len(r) |-> t[k].msg]
        BY <2>4, <2>6
    <2> QED BY <2>5, <2>7 DEF U
<1>9. IdsIn(Q) \cap IdsIn(R) = {}
    BY DEF Apart, Q, R
<1>10. Proper(MsgsOf(t)) /\ IdsIn(MsgsOf(t)) = IdsIn(Q) \cup IdsIn(R)
    BY <1>7, <1>8, <1>9, ConcatQueue
<1>11. Returned(n, t)
    BY <1>4, <1>6, <1>10 DEF Returned
<1> QED BY <1>10, <1>11 DEF Q, R

LEMMA LinkReturnsKeeps ==
    ASSUME PlacesInv, NEW l \in Fails, LinkReturns(l)
    PROVE  PlacesInv'
<1>1. l \in Link
    BY NetworkAssumption
<1>2. StateOk(state) /\ ReleaseOk(release)
    BY DEF PlacesInv
<1>3. /\ DOMAIN state' = Node /\ UNCHANGED <<release, wire, diverted, fate>>
      /\ \A n \in Node : state'[n] = IF n \in Ends[l] THEN [state[n] EXCEPT !.up = @ \cup {l}] ELSE state[n]
    BY DEF LinkReturns
<1>4. ASSUME NEW n \in Node
      PROVE  DOMAIN state'[n] = StateFields /\ state'[n].up \subseteq LinksOf(n) /\ state'[n].held = state[n].held
    <2>1. DOMAIN state[n] = StateFields /\ state[n].up \subseteq LinksOf(n)
        BY <1>2 DEF StateOk
    <2>2. CASE n \in Ends[l]
        <3>1. l \in LinksOf(n) /\ state'[n] = [state[n] EXCEPT !.up = @ \cup {l}]
            BY <1>1, <1>3, <2>2 DEF LinksOf
        <3> QED BY <2>1, <3>1 DEF StateFields
    <2>3. CASE n \notin Ends[l]
        BY <1>3, <2>1, <2>3
    <2> QED BY <2>2, <2>3
<1>5. StateOk(state')
    BY <1>2, <1>3, <1>4 DEF StateOk
<1>6. ASSUME NEW i PROVE HeldAt(state', i) = HeldAt(state, i)
    BY <1>4 DEF HeldAt
<1> QED BY <1>2, <1>3, <1>5, <1>6, Unmoved

LEMMA LinkFailsKeeps ==
    ASSUME PlacesInv, NEW l \in Fails, LinkFails(l)
    PROVE  PlacesInv'
<1>1. l \in Link
    BY NetworkAssumption
<1>2. /\ WireOk(wire) /\ StateOk(state) /\ ReleaseOk(release) /\ DivertedOk(diverted)
      /\ DOMAIN fate = Id /\ Placed(wire, state, release, diverted, fate)
    BY DEF PlacesInv
<1>3. WireOk(wire') /\ \A i, q : q \in OnWires(wire', i) <=> q \in OnWires(wire, i) /\ q[1] # l
    <2>1. /\ DOMAIN wire' = Link /\ wire'[l] = [p \in Ends[l] |-> <<>>]
          /\ \A k \in Link : k # l => wire'[k] = wire[k]
        BY <1>1, <1>2 DEF LinkFails, WireOk
    <2>2. \A p \in Ends[l] : wire'[l][p] = <<>>
        BY <2>1
    <2>3. \A p \in Ends[l] : Proper(wire'[l][p]) /\ IdsIn(wire'[l][p]) = {}
        BY <2>2, EmptyQueue
    <2>4. WireOk(wire')
        BY <1>2, <2>1, <2>3 DEF WireOk
    <2>5. ASSUME NEW i, NEW q \in Wires
          PROVE  q \in OnWires(wire', i) <=> q \in OnWires(wire, i) /\ q[1] # l
        <3>1. q[1] \in Link /\ q[2] \in Ends[q[1]]
            BY EndsOfLinks
        <3> QED BY <2>1, <2>3, <3>1 DEF OnWires
    <2> QED BY <2>4, <2>5 DEF OnWires
<1>4. StateOk(state') /\ \A i : HeldAt(state', i) = HeldAt(state, i)
    <2>1. /\ DOMAIN state' = Node
          /\ \A n \in Node : state'[n] = [state[n] EXCEPT !.up = @ \ {l}]
        BY DEF LinkFails
    <2>2. ASSUME NEW n \in Node
          PROVE  /\ DOMAIN state'[n] = StateFields /\ state'[n].up \subseteq LinksOf(n)
                 /\ state'[n].held = state[n].held
        <3>1. DOMAIN state[n] = StateFields /\ state[n].up \subseteq LinksOf(n)
            BY <1>2 DEF StateOk
        <3> QED BY <2>1, <3>1 DEF StateFields
    <2>3. StateOk(state')
        BY <1>2, <2>1, <2>2 DEF StateOk
    <2>4. ASSUME NEW i PROVE HeldAt(state', i) = HeldAt(state, i)
        BY <2>2 DEF HeldAt
    <2> QED BY <2>3, <2>4
<1>5. release' = release
    BY DEF LinkFails
<1>6. ASSUME NEW n \in Node, n \in Ends[l]
      PROVE  LET t == diverted[n] \o HandedBack(n, l) IN
             /\ Returned(n, t)
             /\ IdsIn(MsgsOf(t)) = IdsIn(MsgsOf(diverted[n])) \cup IdsIn(wire[l][FarEnd(l, n)])
    <2> DEFINE r == HandedBack(n, l)
               w == wire[l][FarEnd(l, n)]
               q == diverted[n]
    <2>1. Proper(w) /\ l \in LinksOf(n) /\ <<l, FarEnd(l, n)>> \in Wires
        BY <1>1, <1>2, <1>6, EndsOfLinks DEF WireOk, LinksOf
    <2>2. r = [k \in DOMAIN w |-> Back(l, w[k])]
        BY DEF HandedBack
    <2>3. Returned(n, q)
        BY <1>2 DEF DivertedOk
    <2>4. ASSUME NEW i, i \in IdsIn(MsgsOf(q)), i \in IdsIn(w) PROVE FALSE
        <3>1. i \in Id
            BY <2>1, <2>4 DEF Proper, IdsIn, IsMessage
        <3>2. n \in DivertedAt(diverted, i)
            BY <2>4 DEF DivertedAt
        <3>3. <<l, FarEnd(l, n)>> \in OnWires(wire, i)
            BY <2>1, <2>4 DEF OnWires
        <3> QED BY <3>1, <3>2, <3>3, SoleIs DEF Sole
    <2> HIDE DEF r, w, q
    <2>5. Returned(n, r) /\ IdsIn(MsgsOf(r)) = IdsIn(w)
        BY <2>1, <2>2, BackIs
    <2> DEFINE t == q \o r
    <2>6. Returned(n, t) /\ IdsIn(MsgsOf(t)) = IdsIn(MsgsOf(q)) \cup IdsIn(MsgsOf(r))
        <3>1. Apart(q, r)
            BY <2>4, <2>5 DEF Apart
        <3> HIDE DEF t
        <3>2. t = Joined(q, r)
            BY DEF t, Joined
        <3> QED BY <2>3, <2>5, <3>1, <3>2, ReturnedMore
    <2> QED BY <2>5, <2>6 DEF r, w, q
<1>7. /\ DivertedOk(diverted')
      /\ \A i : \A n \in Node :
             n \in DivertedAt(diverted', i) <=>
                 \/ n \in DivertedAt(diverted, i)
                 \/ n \in Ends[l] /\ <<l, FarEnd(l, n)>> \in OnWires(wire, i)
    <2>1. /\ DOMAIN diverted' = Node
          /\ \A n \in Node : n \in Ends[l] => diverted'[n] = diverted[n] \o HandedBack(n, l)
          /\ \A n \in Node : n \notin Ends[l] => diverted'[n] = diverted[n]
        BY DEF LinkFails
    <2>2. \A n \in Node : Returned(n, diverted'[n])
        BY <1>2, <1>6, <2>1 DEF DivertedOk
    <2>3. DivertedOk(diverted')
        BY <2>1, <2>2 DEF DivertedOk
    <2>4. ASSUME NEW i, NEW n \in Node
          PROVE  n \in DivertedAt(diverted', i) <=>
                     \/ n \in DivertedAt(diverted, i)
                     \/ n \in Ends[l] /\ <<l, FarEnd(l, n)>> \in OnWires(wire, i)
        <3>1. CASE n \in Ends[l]
            <4>1. IdsIn(MsgsOf(diverted'[n])) =
                      IdsIn(MsgsOf(diverted[n])) \cup IdsIn(wire[l][FarEnd(l, n)])
                BY <1>6, <2>1, <3>1
            <4>2. <<l, FarEnd(l, n)>> \in Wires
                BY <1>1, <3>1, EndsOfLinks
            <4>3. <<l, FarEnd(l, n)>> \in OnWires(wire, i) <=> i \in IdsIn(wire[l][FarEnd(l, n)])
                BY <4>2 DEF OnWires
            <4> QED BY <3>1, <4>1, <4>3 DEF DivertedAt
        <3>2. CASE n \notin Ends[l]
            BY <2>1, <3>2 DEF DivertedAt
        <3> QED BY <3>1, <3>2
    <2> QED BY <2>3, <2>4
<1>8. \A i \in Id : i \in LostWith(l) <=>
          \E h \in Ends[l] \ Node : <<l, FarEnd(l, h)>> \in OnWires(wire, i)
    <2>1. \A h \in Ends[l] : <<l, FarEnd(l, h)>> \in Wires
        BY <1>1, EndsOfLinks
    <2>2. ASSUME NEW i \in Id, NEW h \in Ends[l]
          PROVE  <<l, FarEnd(l, h)>> \in OnWires(wire, i) <=>
                     \E k \in DOMAIN wire[l][FarEnd(l, h)] : wire[l][FarEnd(l, h)][k].id = i
        BY <2>1 DEF OnWires, IdsIn
    <2> QED BY <2>2 DEF LostWith
<1>9. /\ DOMAIN fate' = Id
      /\ \A i \in Id : fate'[i] = IF i \in LostWith(l) THEN "Discarded" ELSE fate[i]
    BY DEF LinkFails
<1>10. ASSUME NEW i \in Id
       PROVE  IF fate'[i] = "Sent"
              THEN \E y \in At(wire', state', release', diverted', i) :
                       At(wire', state', release', diverted', i) = {y}
              ELSE At(wire', state', release', diverted', i) = {}
    <2>1. CASE \A q \in OnWires(wire, i) : q[1] # l
        <3>1. OnWires(wire', i) = OnWires(wire, i)
            BY <1>3, <2>1
        <3>2. \A p : <<l, p>> \notin OnWires(wire, i)
            BY <2>1
        <3>3. DivertedAt(diverted', i) = DivertedAt(diverted, i)
            <4>1. \A n \in Node : n \in DivertedAt(diverted', i) <=> n \in DivertedAt(diverted, i)
                BY <1>7, <3>2
            <4> QED BY <4>1 DEF DivertedAt
        <3>4. fate'[i] = fate[i]
            BY <1>8, <1>9, <3>2
        <3>5. At(wire', state', release', diverted', i) = At(wire, state, release, diverted, i)
            BY <1>4, <1>5, <3>1, <3>3 DEF At
        <3> QED BY <1>2, <3>4, <3>5 DEF Placed
    <2>2. ASSUME NEW q \in OnWires(wire, i), q[1] = l
          PROVE  IF fate'[i] = "Sent"
                 THEN \E y \in At(wire', state', release', diverted', i) :
                          At(wire', state', release', diverted', i) = {y}
                 ELSE At(wire', state', release', diverted', i) = {}
        <3> DEFINE p == q[2]
                   f == FarEnd(l, p)
        <3>1. p \in Ends[l] /\ q = <<l, p>>
            <4>1. q \in Wires
                BY DEF OnWires
            <4> QED BY <2>2, <4>1, EndsOfLinks
        <3>2. f \in Ends[l] /\ \A e \in Ends[l] : FarEnd(l, e) = p <=> e = f
            <4>1. f \in Ends[l] /\ FarEnd(l, f) = p
                BY <1>1, <3>1, EndsOfLinks
            <4>2. \A e \in Ends[l] : FarEnd(l, FarEnd(l, e)) = e
                BY <1>1, EndsOfLinks
            <4> QED BY <4>1, <4>2
        <3> HIDE DEF p, f
        <3>3. /\ OnWires(wire, i) = {q} /\ HeldAt(state, i) = {} /\ BatchAt(release, i) = {}
              /\ DivertedAt(diverted, i) = {} /\ fate[i] = "Sent"
            BY SoleIs DEF Sole
        <3>4. OnWires(wire', i) = {}
            BY <1>3, <2>2, <3>3
        <3>5. \A e \in Ends[l] : <<l, FarEnd(l, e)>> \in OnWires(wire, i) <=> e = f
            BY <3>1, <3>2, <3>3
        <3>6. CASE f \in Node
            <4>1. DivertedAt(diverted', i) = {f}
                <5>1. \A n \in Node : n \in DivertedAt(diverted', i) <=> n = f
                    BY <1>7, <3>2, <3>3, <3>5
                <5> QED BY <3>6, <5>1 DEF DivertedAt
            <4>2. fate'[i] = "Sent"
                BY <1>8, <1>9, <3>3, <3>5, <3>6
            <4>3. At(wire', state', release', diverted', i) = {<<"Diverted", f>>}
                BY <1>4, <1>5, <3>3, <3>4, <4>1, PlaceOf DEF At
            <4> QED BY <4>2, <4>3
        <3>7. CASE f \notin Node
            <4>1. DivertedAt(diverted', i) = {}
                <5>1. \A n \in Node : n \notin DivertedAt(diverted', i)
                    BY <1>7, <3>3, <3>5, <3>7
                <5> QED BY <5>1 DEF DivertedAt
            <4>2. fate'[i] = "Discarded"
                BY <1>8, <1>9, <3>2, <3>5, <3>7
            <4>3. At(wire', state', release', diverted', i) = {}
                BY <1>4, <1>5, <3>3, <3>4, <4>1, NoPlace DEF At
            <4> QED BY <4>2, <4>3
        <3> QED BY <3>6, <3>7
    <2> QED BY <2>1, <2>2
<1>11. Placed(wire', state', release', diverted', fate')
    BY <1>10 DEF Placed
<1> QED BY <1>2, <1>3, <1>4, <1>5, <1>7, <1>9, <1>11 DEF PlacesInv

----------------------------------------------------------------------------
(* The results.                                                            *)

LEMMA PlacesInit == Init => PlacesInv
<1> SUFFICES ASSUME Init PROVE PlacesInv
    OBVIOUS
<1>1. Proper(<<>>) /\ IdsIn(<<>>) = {}
    BY EmptyQueue
<1>2. DOMAIN wire = Link /\ \A l \in Link : DOMAIN wire[l] = Ends[l] /\ \A p \in Ends[l] : wire[l][p] = <<>>
    BY DEF Init
<1>3. WireOk(wire)
    BY <1>1, <1>2 DEF WireOk
<1>4. /\ DOMAIN state = Node
      /\ \A n \in Node : /\ DOMAIN state[n] = StateFields /\ state[n].up = LinksOf(n)
                         /\ DOMAIN state[n].held = {}
    BY DEF Init, StateFields
<1>5. StateOk(state)
    BY <1>4 DEF StateOk, ProperBuffers
<1>6. /\ DOMAIN release = Node
      /\ \A n \in Node : DOMAIN release[n] = {"dpc", "batch"} /\ release[n].batch = <<>>
    BY DEF Init, NotReleasing
<1>7. ReleaseOk(release)
    BY <1>1, <1>6 DEF ReleaseOk
<1>8. DOMAIN diverted = Node /\ \A n \in Node : diverted[n] = <<>>
    BY DEF Init
<1>9. Proper(MsgsOf(<<>>)) /\ IdsIn(MsgsOf(<<>>)) = {}
    <2> DEFINE v == MsgsOf(<<>>)
    <2>1. v = <<>>
        BY DEF MsgsOf
    <2> QED BY <1>1, <2>1
<1>10. DivertedOk(diverted)
    <2>1. <<>> \in Seq({<<>>[k] : k \in DOMAIN <<>>}) /\ DOMAIN <<>> = {}
        OBVIOUS
    <2>2. ASSUME NEW n \in Node PROVE Returned(n, diverted[n])
        <3>1. Returned(n, <<>>)
            BY <1>9, <2>1 DEF Returned
        <3> QED BY <1>8, <3>1
    <2> QED BY <1>8, <2>2 DEF DivertedOk
<1>11. DOMAIN fate = Id /\ \A i \in Id : fate[i] = "Unsent"
    BY DEF Init
<1>12. ASSUME NEW i \in Id PROVE At(wire, state, release, diverted, i) = {}
    <2>1. OnWires(wire, i) = {}
        <3>1. ASSUME NEW q \in Wires PROVE q \notin OnWires(wire, i)
            BY <1>1, <1>2, EndsOfLinks DEF OnWires
        <3> QED BY <3>1 DEF OnWires
    <2>2. HeldAt(state, i) = {}
        BY <1>4 DEF HeldAt, BufferIds
    <2>3. BatchAt(release, i) = {}
        BY <1>1, <1>6 DEF BatchAt
    <2>4. DivertedAt(diverted, i) = {}
        BY <1>8, <1>9 DEF DivertedAt
    <2> QED BY <2>1, <2>2, <2>3, <2>4, NoPlace DEF At
<1>13. Placed(wire, state, release, diverted, fate)
    BY <1>11, <1>12 DEF Placed
<1> QED BY <1>3, <1>5, <1>7, <1>10, <1>11, <1>13 DEF PlacesInv

LEMMA PlacesNext == PlacesInv /\ [Next]_vars => PlacesInv'
<1> SUFFICES ASSUME PlacesInv, [Next]_vars PROVE PlacesInv'
    OBVIOUS
<1>1. ASSUME NEW n \in Node, NodeStep(n) PROVE PlacesInv'
    <2>1. ASSUME NEW l \in LinksOf(n), Receive(n, l) PROVE PlacesInv'
        BY <2>1, ReceiveKeeps
    <2>2. CASE Divert(n)
        BY <2>2, DivertKeeps
    <2>3. CASE Recompute(n)
        BY <2>3, RecomputeKeeps
    <2>4. CASE TakeBatch(n)
        BY <2>4, TakeBatchKeeps
    <2>5. CASE SendBatch(n)
        BY <2>5, SendBatchKeeps
    <2>6. ASSUME NEW d \in DOMAIN state[n].held, T6Expires(n, d) PROVE PlacesInv'
        BY <2>6, T6ExpiresKeeps
    <2> QED BY <1>1, <2>1, <2>2, <2>3, <2>4, <2>5, <2>6 DEF NodeStep
<1>2. ASSUME NEW h \in Host, HostStep(h) PROVE PlacesInv'
    BY <1>2, HostReceivesKeeps DEF HostStep
<1>3. ASSUME NEW change \in Changes, StatusChanges(change.node, change.mark) PROVE PlacesInv'
    <2>1. change.node \in Node
        BY NetworkAssumption
    <2> QED BY <1>3, <2>1, StatusChangesKeeps
<1>4. ASSUME NEW m \in Traffic, HostSends(m.opc, m.link, m) PROVE PlacesInv'
    BY <1>4, HostSendsKeeps
<1>5. ASSUME NEW l \in Fails, LinkFails(l) PROVE PlacesInv'
    BY <1>5, LinkFailsKeeps
<1>6. ASSUME NEW l \in Fails, LinkReturns(l) PROVE PlacesInv'
    BY <1>6, LinkReturnsKeeps
<1>7. CASE UNCHANGED vars
    <2>1. UNCHANGED <<wire, state, release, diverted, fate>>
        BY <1>7 DEF vars
    <2>2. \A i : At(wire', state', release', diverted', i) = At(wire, state, release, diverted, i)
        BY <2>1
    <2>3. Placed(wire', state', release', diverted', fate')
        BY <2>1 DEF PlacesInv
    <2> QED BY <2>1, <2>3 DEF PlacesInv
<1> QED BY <1>1, <1>2, <1>3, <1>4, <1>5, <1>6, <1>7 DEF Next

\* A message that was sent and has not ended is in one of the queues of the
\* network, in no other and not twice in this one; a message that was not sent,
\* or has ended, is in none.  This is the inductive invariant: the queues of a
\* node, the wires and the batch being released are all told apart, so that one
\* step, of the task of a link, of management or of a host, cannot copy or lose.
THEOREM EveryMessageIsPlaced == Spec => []PlacesInv
<1>1. Init => PlacesInv
    BY PlacesInit
<1>2. PlacesInv /\ [Next]_vars => PlacesInv'
    BY PlacesNext
<1> QED BY <1>1, <1>2, PTL DEF Spec

LEMMA TimesIs ==
    ASSUME NEW q, Proper(q), NEW i
    PROVE  Times(q, i) > 0 <=> i \in IdsIn(q)
<1> DEFINE S == {k \in DOMAIN q : q[k].id = i}
<1>1. IsFiniteSet(S)
    <2>1. q \in Seq({q[k] : k \in DOMAIN q})
        BY DEF Proper
    <2>2. Len(q) \in Nat /\ DOMAIN q = 1 .. Len(q)
        BY <2>1, QueueOf
    <2>3. IsFiniteSet(1 .. Len(q)) /\ S \subseteq 1 .. Len(q)
        BY <2>2, FS_Interval
    <2> QED BY <2>3, FS_Subset
<1>2. Cardinality(S) \in Nat /\ (Cardinality(S) = 0 <=> S = {})
    <2> HIDE DEF S
    <2> QED BY <1>1, FS_CardinalityType, FS_EmptySet
<1>3. S # {} <=> i \in IdsIn(q)
    BY DEF IdsIn
<1>4. Times(q, i) = Cardinality(S)
    BY DEF Times
<1> HIDE DEF S
<1> QED BY <1>2, <1>3, <1>4

LEMMA CountIs ==
    ASSUME NEW W, NEW H, NEW B, NEW D
    PROVE  /\ Places(W, H, B, D) = {} =>
                  Cardinality(W) + Cardinality(H) + Cardinality(B) + Cardinality(D) = 0
           /\ \A x \in Places(W, H, B, D) : Places(W, H, B, D) = {x} =>
                  Cardinality(W) + Cardinality(H) + Cardinality(B) + Cardinality(D) = 1
<1>1. Cardinality({}) = 0 /\ \A x : Cardinality({x}) = 1
    BY FS_EmptySet, FS_Singleton
<1>2. ASSUME Places(W, H, B, D) = {}
      PROVE  Cardinality(W) + Cardinality(H) + Cardinality(B) + Cardinality(D) = 0
    <2>1. W = {} /\ H = {} /\ B = {} /\ D = {}
        BY <1>2, NoPlace
    <2> QED BY <1>1, <2>1
<1>3. ASSUME NEW x \in Places(W, H, B, D), Places(W, H, B, D) = {x}
      PROVE  Cardinality(W) + Cardinality(H) + Cardinality(B) + Cardinality(D) = 1
    <2>1. Sole(W, H, B, D)
        BY <1>3, OnePlace
    <2>2. W # {} \/ H # {} \/ B # {} \/ D # {}
        <3>1. Places(W, H, B, D) # {}
            BY <1>3
        <3> QED BY <3>1, NoPlace
    <2>3. ASSUME NEW q \in W PROVE Cardinality(W) + Cardinality(H) + Cardinality(B) + Cardinality(D) = 1
        <3>1. W = {q} /\ H = {} /\ B = {} /\ D = {}
            BY <2>1 DEF Sole
        <3>2. Cardinality(W) = 1 /\ Cardinality(H) = 0 /\ Cardinality(B) = 0 /\ Cardinality(D) = 0
            BY <1>1, <3>1
        <3> QED BY <3>2
    <2>4. ASSUME NEW q \in H PROVE Cardinality(W) + Cardinality(H) + Cardinality(B) + Cardinality(D) = 1
        <3>1. W = {} /\ H = {q} /\ B = {} /\ D = {}
            BY <2>1 DEF Sole
        <3>2. Cardinality(W) = 0 /\ Cardinality(H) = 1 /\ Cardinality(B) = 0 /\ Cardinality(D) = 0
            BY <1>1, <3>1
        <3> QED BY <3>2
    <2>5. ASSUME NEW q \in B PROVE Cardinality(W) + Cardinality(H) + Cardinality(B) + Cardinality(D) = 1
        <3>1. W = {} /\ H = {} /\ B = {q} /\ D = {}
            BY <2>1 DEF Sole
        <3>2. Cardinality(W) = 0 /\ Cardinality(H) = 0 /\ Cardinality(B) = 1 /\ Cardinality(D) = 0
            BY <1>1, <3>1
        <3> QED BY <3>2
    <2>6. ASSUME NEW q \in D PROVE Cardinality(W) + Cardinality(H) + Cardinality(B) + Cardinality(D) = 1
        <3>1. W = {} /\ H = {} /\ B = {} /\ D = {q}
            BY <2>1 DEF Sole
        <3>2. Cardinality(W) = 0 /\ Cardinality(H) = 0 /\ Cardinality(B) = 0 /\ Cardinality(D) = 1
            BY <1>1, <3>1
        <3> QED BY <3>2
    <2> QED BY <2>2, <2>3, <2>4, <2>5, <2>6
<1> QED BY <1>2, <1>3

LEMMA PlacesCount == PlacesInv => InOnePlace
<1> SUFFICES ASSUME PlacesInv, NEW i \in Id
             PROVE  LET wires == {q \in Wires : Times(wire[q[1]][q[2]], i) > 0}
                        holders == {n \in Node : \E b \in Buffers(n) : Times(b, i) > 0}
                        releasing == {n \in Node : Times(release[n].batch, i) > 0}
                        diverting == {n \in Node : \E k \in DOMAIN diverted[n] : diverted[n][k].msg.id = i}
                    IN  Cardinality(wires) + Cardinality(holders) + Cardinality(releasing)
                            + Cardinality(diverting) = IF fate[i] = "Sent" THEN 1 ELSE 0
    BY DEF InOnePlace
<1> DEFINE wires == {q \in Wires : Times(wire[q[1]][q[2]], i) > 0}
           holders == {n \in Node : \E b \in Buffers(n) : Times(b, i) > 0}
           releasing == {n \in Node : Times(release[n].batch, i) > 0}
           diverting == {n \in Node : \E k \in DOMAIN diverted[n] : diverted[n][k].msg.id = i}
           W == OnWires(wire, i)
           H == HeldAt(state, i)
           B == BatchAt(release, i)
           D == DivertedAt(diverted, i)
<1>1. /\ WireOk(wire) /\ StateOk(state) /\ ReleaseOk(release) /\ DivertedOk(diverted)
      /\ Placed(wire, state, release, diverted, fate)
    BY DEF PlacesInv
<1>2. wires = W
    <2>1. ASSUME NEW q \in Wires
          PROVE  Times(wire[q[1]][q[2]], i) > 0 <=> i \in IdsIn(wire[q[1]][q[2]])
        <3>1. Proper(wire[q[1]][q[2]])
            BY <1>1, EndsOfLinks DEF WireOk
        <3> QED BY <3>1, TimesIs
    <2> QED BY <2>1 DEF OnWires
<1>3. holders = H
    <2>1. ASSUME NEW n \in Node
          PROVE  (\E b \in Buffers(n) : Times(b, i) > 0) <=> i \in BufferIds(state[n].held)
        <3>1. ASSUME NEW d \in DOMAIN state[n].held
              PROVE  Times(state[n].held[d], i) > 0 <=> i \in IdsIn(state[n].held[d])
            BY <1>1, TimesIs DEF StateOk, ProperBuffers
        <3> QED BY <3>1 DEF Buffers, BufferIds
    <2> QED BY <2>1 DEF HeldAt
<1>4. releasing = B
    <2>1. ASSUME NEW n \in Node
          PROVE  Times(release[n].batch, i) > 0 <=> i \in IdsIn(release[n].batch)
        BY <1>1, TimesIs DEF ReleaseOk
    <2> QED BY <2>1 DEF BatchAt
<1>5. diverting = D
    <2>1. ASSUME NEW n \in Node
          PROVE  (\E k \in DOMAIN diverted[n] : diverted[n][k].msg.id = i)
                     <=> i \in IdsIn(MsgsOf(diverted[n]))
        BY DEF MsgsOf, IdsIn
    <2> QED BY <2>1 DEF DivertedAt
<1>6. IF fate[i] = "Sent" THEN \E x \in Places(W, H, B, D) : Places(W, H, B, D) = {x}
      ELSE Places(W, H, B, D) = {}
    BY <1>1 DEF Placed, At
<1> HIDE DEF W, H, B, D, wires, holders, releasing, diverting
<1>7. Cardinality(W) + Cardinality(H) + Cardinality(B) + Cardinality(D) = IF fate[i] = "Sent" THEN 1 ELSE 0
    BY <1>6, CountIs
<1>8. Cardinality(wires) + Cardinality(holders) + Cardinality(releasing) + Cardinality(diverting)
          = IF fate[i] = "Sent" THEN 1 ELSE 0
    BY <1>2, <1>3, <1>4, <1>5, <1>7
<1> QED BY <1>8 DEF wires, holders, releasing, diverting

\* Controlled and forced rerouting, the release of a destination while messages
\* still come in, returns, and changeover by a link that fails neither lose a
\* message nor copy it, whatever the network, the routes, the rules and the order
\* of the steps.
THEOREM OnePlaceOnly == Spec => []InOnePlace
<1>1. PlacesInv => InOnePlace
    BY PlacesCount
<1> QED BY <1>1, EveryMessageIsPlaced, PTL

=============================================================================
