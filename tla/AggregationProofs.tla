-------------------------- MODULE AggregationProofs --------------------------
(***************************************************************************)
(* Proofs about the registers, the merging of modules and the chains of    *)
(* carries, with the adders in the list of modules: what is merged after   *)
(* the overlaps were resolved overlaps nothing; no node is lost but where  *)
(* merging cuts off its readers; equal registers share a group; and the    *)
(* asserts of registerAnalysis hold, but for hidden selects.               *)
(*                                                                         *)
(* What a module takes in, the modules that hang together and the roots of *)
(* the forest are recursive functions.  That they exist is shown first, a  *)
(* step at a time, and then that they are the least sets closed under      *)
(* their rule, which is all that is used of them.                          *)
(***************************************************************************)
EXTENDS CarryChains, FiniteSetTheorems, WellFoundedInduction, TLAPS

LEMMA LeastNat ==
  ASSUME NEW T \in SUBSET Nat, T # {}
  PROVE  \E x \in T : \A y \in T : x <= y
<1> DEFINE R == {p \in Nat \X Nat : p[1] < p[2]}
<1>1. IsWellFoundedOn(R, Nat)
  BY NatLessThanWellFounded DEF OpToRel
<1>2. \E x \in T : \A y \in T : ~(<<y, x>> \in R)
  <2> HIDE DEF R
  <2> QED BY <1>1, WFMin
<1>3. PICK x \in T : \A y \in T : ~(<<y, x>> \in R)
  BY <1>2
<1>4. ASSUME NEW y \in T PROVE x <= y
  <2>1. x \in Nat /\ y \in Nat
    OBVIOUS
  <2>2. <<y, x>> \notin {p \in Nat \X Nat : p[1] < p[2]}
    BY <1>3
  <2> QED BY <2>1, <2>2
<1> QED BY <1>4
-----------------------------------------------------------------------------
(* What grows step by step inside D ends with the least set that the steps *)
(* leave alone.  Cones of nodes and groups of modules grow like that.      *)
Growth(D, F) ==
  /\ F \in [SUBSET D -> SUBSET D]
  /\ \A s \in SUBSET D : s \subseteq F[s]
  /\ \A s, t \in SUBSET D : s \subseteq t => F[s] \subseteq F[t]
IsLeast(D, F, s, c) ==
  /\ c \in SUBSET D /\ s \subseteq c /\ F[c] = c
  /\ \A t \in SUBSET D : s \subseteq t /\ F[t] = t => c \subseteq t
Grows(D, F, g) == g = [s \in SUBSET D |-> IF F[s] = s THEN s ELSE g[F[s]]]

LEMMA GrowthHasEnd ==
  ASSUME NEW D, NEW F, Growth(D, F)
  PROVE  \E g : Grows(D, F, g)
<1> DEFINE g == [s \in SUBSET D |-> {x \in D : \A t \in SUBSET D : s \subseteq t /\ F[t] = t => x \in t}]
<1>1. ASSUME NEW s \in SUBSET D PROVE g[s] = IF F[s] = s THEN s ELSE g[F[s]]
  <2>1. CASE F[s] = s
    BY <2>1
  <2>2. CASE F[s] # s
    <3>1. F[s] \in SUBSET D /\ s \subseteq F[s]
      BY DEF Growth
    <3>2. \A t \in SUBSET D : F[t] = t => (s \subseteq t <=> F[s] \subseteq t)
      BY <3>1 DEF Growth
    <3> QED
      BY <2>2, <3>1, <3>2
  <2> QED
    BY <2>1, <2>2
<1>2. g = [s \in SUBSET D |-> IF F[s] = s THEN s ELSE g[F[s]]]
  <2>1. g = [s \in SUBSET D |-> g[s]]
    OBVIOUS
  <2> HIDE DEF g
  <2> QED
    BY <1>1, <2>1
<1> QED
  <2> HIDE DEF g
  <2> QED
    BY <1>2 DEF Grows

LEMMA GrowthEndsLeast ==
  ASSUME NEW D, IsFiniteSet(D), NEW F, Growth(D, F), NEW g, Grows(D, F, g), NEW s \in SUBSET D
  PROVE  IsLeast(D, F, s, g[s])
<1>1. \A t \in SUBSET D : /\ g[t] = IF F[t] = t THEN t ELSE g[F[t]]
                          /\ F[t] \in SUBSET D /\ t \subseteq F[t]
  BY DEF Grows, Growth
<1>2. Cardinality(D) \in Nat
  BY FS_CardinalityType
<1>3. \A t \in SUBSET D : IsFiniteSet(t) /\ Cardinality(t) \in Nat /\ Cardinality(t) <= Cardinality(D)
  BY FS_Subset, FS_CardinalityType
<1> DEFINE Wrong == {t \in SUBSET D : ~IsLeast(D, F, t, g[t])}
           Missing == {Cardinality(D) - Cardinality(t) : t \in Wrong}
<1>4. SUFFICES ASSUME Wrong # {} PROVE FALSE
  OBVIOUS
<1>5. PICK m \in Missing : \A y \in Missing : m <= y
  <2>1. Missing \in SUBSET Nat
    BY <1>2, <1>3
  <2>2. Missing # {}
    BY <1>4
  <2> HIDE DEF Missing
  <2> QED
    BY <2>1, <2>2, LeastNat
<1>6. PICK t \in Wrong : m = Cardinality(D) - Cardinality(t)
  BY <1>5
<1>7. F[t] # t
  BY <1>1, <1>6 DEF IsLeast
<1>8. F[t] \in Wrong
  <2>1. g[t] = g[F[t]]
    BY <1>1, <1>6, <1>7
  <2>2. \A u \in SUBSET D : F[u] = u => (t \subseteq u => F[t] \subseteq u)
    BY <1>6 DEF Growth
  <2>3. F[t] \in SUBSET D /\ t \subseteq F[t]
    BY <1>1, <1>6
  <2>4. IsLeast(D, F, F[t], g[F[t]]) => IsLeast(D, F, t, g[t])
    BY <2>1, <2>2, <2>3 DEF IsLeast
  <2> QED
    BY <1>6, <2>3, <2>4
<1>9. Cardinality(t) < Cardinality(F[t])
  <2> DEFINE u == F[t]
  <2>1. t \in SUBSET u /\ t # u /\ IsFiniteSet(u) /\ Cardinality(u) \in Nat /\ Cardinality(t) \in Nat
    BY <1>1, <1>3, <1>6, <1>7
  <2> HIDE DEF u
  <2>2. Cardinality(t) <= Cardinality(u) /\ Cardinality(t) # Cardinality(u)
    BY <2>1, FS_Subset
  <2>3. \A x, y \in Nat : x <= y /\ x # y => x < y
    OBVIOUS
  <2>4. Cardinality(t) < Cardinality(u)
    BY <2>1, <2>2, <2>3, Zenon
  <2> QED
    BY <2>4 DEF u
<1>10. Cardinality(D) - Cardinality(F[t]) \in Missing
  BY <1>8
<1> QED
  BY <1>2, <1>3, <1>5, <1>6, <1>8, <1>9, <1>10
-----------------------------------------------------------------------------
(* A cone is the least set of nodes around some that holds what they read, *)
(* but for the inputs.                                                     *)
ClosedUnder(nl, inputs, s) == \A n \in s : nl.reads[n] \ inputs \subseteq s
LEMMA ConeIsLeast ==
  ASSUME NEW nl, nl.reads \in [Node -> SUBSET Node], NEW from \in SUBSET Node, NEW inputs
  PROVE  LET c == Cone(nl, from, inputs)
         IN  /\ c \in SUBSET Node /\ from \subseteq c /\ ClosedUnder(nl, inputs, c)
             /\ \A t \in SUBSET Node : from \subseteq t /\ ClosedUnder(nl, inputs, t) => c \subseteq t
<1> DEFINE More(s) == s \cup ((UNION {nl.reads[n] : n \in s}) \ inputs)
           F == [s \in SUBSET Node |-> More(s)]
           Solves(g) == g = [s \in SUBSET Node |-> IF More(s) = s THEN s ELSE g[More(s)]]
           grow == CHOOSE g : Solves(g)
<1>1. \A s \in SUBSET Node : More(s) \in SUBSET Node /\ F[s] = More(s)
  OBVIOUS
<1>2. Growth(Node, F)
  <2>1. F \in [SUBSET Node -> SUBSET Node]
    BY <1>1
  <2>2. \A s \in SUBSET Node : s \subseteq F[s]
    BY <1>1
  <2>3. \A s, t \in SUBSET Node : s \subseteq t => More(s) \subseteq More(t)
    OBVIOUS
  <2> QED
    BY <1>1, <2>1, <2>2, <2>3 DEF Growth
<1>3. \A g : Grows(Node, F, g) <=> Solves(g)
  <2> TAKE g
  <2>1. [s \in SUBSET Node |-> IF F[s] = s THEN s ELSE g[F[s]]]
          = [s \in SUBSET Node |-> IF More(s) = s THEN s ELSE g[More(s)]]
    BY <1>1
  <2> QED
    BY <2>1 DEF Grows
<1>4. Grows(Node, F, grow)
  <2>1. \E g : Solves(g)
    <3> HIDE DEF F, Solves
    <3> QED BY <1>2, <1>3, GrowthHasEnd
  <2>2. Solves(grow)
    <3> HIDE DEF Solves
    <3> QED BY <2>1
  <2> HIDE DEF F, Solves, grow
  <2> QED
    BY <1>3, <2>2
<1>5. IsFiniteSet(Node)
  BY FS_Interval, NumNodesAssumption DEF Node
<1>6. IsLeast(Node, F, from, grow[from])
  <2> HIDE DEF F, grow
  <2> QED
    BY <1>2, <1>4, <1>5, GrowthEndsLeast
<1>7. Cone(nl, from, inputs) = grow[from]
  BY DEF Cone
<1>8. \A t \in SUBSET Node : F[t] = t <=> ClosedUnder(nl, inputs, t)
  <2> TAKE t \in SUBSET Node
  <2>1. F[t] = t \cup ((UNION {nl.reads[n] : n \in t}) \ inputs)
    OBVIOUS
  <2>2. (UNION {nl.reads[n] : n \in t}) \ inputs \subseteq t <=> ClosedUnder(nl, inputs, t)
    BY DEF ClosedUnder
  <2> HIDE DEF F
  <2> QED
    BY <2>1, <2>2
<1> SUFFICES ASSUME NEW cone, cone = Cone(nl, from, inputs)
             PROVE  /\ cone \in SUBSET Node /\ from \subseteq cone /\ ClosedUnder(nl, inputs, cone)
                    /\ \A t \in SUBSET Node : from \subseteq t /\ ClosedUnder(nl, inputs, t) => cone \subseteq t
  OBVIOUS
<1>9. IsLeast(Node, F, from, cone)
  BY <1>6, <1>7
<1> HIDE DEF F
<1>10. cone \in SUBSET Node /\ from \subseteq cone /\ F[cone] = cone
  BY <1>9 DEF IsLeast
<1>11. \A t \in SUBSET Node : from \subseteq t /\ F[t] = t => cone \subseteq t
  BY <1>9 DEF IsLeast
<1>12. ClosedUnder(nl, inputs, cone)
  BY <1>8, <1>10
<1>13. ASSUME NEW t \in SUBSET Node, from \subseteq t, ClosedUnder(nl, inputs, t) PROVE cone \subseteq t
  BY <1>8, <1>11, <1>13
<1> QED
  BY <1>10, <1>12, <1>13
-----------------------------------------------------------------------------
(* Each of some numbers is at one place of them in order.                  *)
LEMMA InOrderFacts ==
  ASSUME NEW ks, ks \in SUBSET Nat, IsFiniteSet(ks)
  PROVE  /\ Cardinality(ks) \in Nat
         /\ \A p \in 1..Cardinality(ks) : InOrder(ks)[p] \in ks
         /\ \A p, q \in 1..Cardinality(ks) : InOrder(ks)[p] = InOrder(ks)[q] => p = q
         /\ \A k \in ks : \E p \in 1..Cardinality(ks) : InOrder(ks)[p] = k
<1> DEFINE n == Cardinality(ks)
           UpTo(k) == {x \in ks : x <= k}
           rank == [k \in ks |-> Cardinality(UpTo(k))]
<1>1. n \in Nat
  BY FS_CardinalityType
<1>2. ASSUME NEW k \in ks
      PROVE  IsFiniteSet(UpTo(k)) /\ rank[k] \in 1..n
  <2>1. UpTo(k) \in SUBSET ks /\ k \in UpTo(k)
    OBVIOUS
  <2>2. rank[k] = Cardinality(UpTo(k))
    OBVIOUS
  <2> HIDE DEF UpTo, rank
  <2>3. IsFiniteSet(UpTo(k)) /\ Cardinality(UpTo(k)) <= n /\ Cardinality(UpTo(k)) \in Nat
    BY <2>1, FS_Subset, FS_CardinalityType
  <2>4. Cardinality(UpTo(k)) # 0
    BY <2>1, <2>3, FS_EmptySet
  <2> QED
    BY <1>1, <2>2, <2>3, <2>4
<1>3. ASSUME NEW k \in ks, NEW l \in ks, k < l PROVE rank[k] # rank[l]
  <2>1. UpTo(k) \in SUBSET UpTo(l) /\ l \in UpTo(l) /\ l \notin UpTo(k)
    <3>1. \A x \in ks : x \in Nat
      OBVIOUS
    <3>2. \A x \in ks : x <= k => x <= l
      BY <1>3, <3>1
    <3>3. ~(l <= k) /\ l <= l
      BY <1>3, <3>1
    <3> QED
      BY <3>2, <3>3
  <2>2. IsFiniteSet(UpTo(l))
    BY <1>2
  <2>3. rank[k] = Cardinality(UpTo(k)) /\ rank[l] = Cardinality(UpTo(l))
    OBVIOUS
  <2> HIDE DEF UpTo, rank
  <2>4. Cardinality(UpTo(k)) # Cardinality(UpTo(l))
    BY <2>1, <2>2, FS_Subset
  <2> QED
    BY <2>3, <2>4
<1>4. \A k, l \in ks : rank[k] = rank[l] => k = l
  <2> HIDE DEF rank
  <2>1. \A k, l \in ks : k # l => k < l \/ l < k
    OBVIOUS
  <2> QED
    BY <1>3, <2>1
<1>5. rank \in Surjection(ks, 1..n)
  <2>1. rank \in [ks -> 1..n]
    BY <1>2
  <2>2. rank \in Injection(ks, 1..n)
    <3> HIDE DEF rank
    <3> QED
      BY <1>4, <2>1 DEF Injection, IsInjective
  <2>3. IsFiniteSet(1..n) /\ Cardinality(1..n) = n
    <3> HIDE DEF n
    <3> QED
      BY <1>1, FS_Interval
  <2> HIDE DEF rank
  <2> QED
    BY <2>2, <2>3, FS_Injection
<1>6. ASSUME NEW p \in 1..n PROVE InOrder(ks)[p] \in ks /\ rank[InOrder(ks)[p]] = p
  <2>1. PICK k \in ks : rank[k] = p
    <3> HIDE DEF rank
    <3> QED
      BY <1>5 DEF Surjection
  <2>2. InOrder(ks)[p] = CHOOSE x \in ks : Cardinality(UpTo(x)) = p
    BY DEF InOrder
  <2>3. \A x \in ks : rank[x] = Cardinality(UpTo(x))
    OBVIOUS
  <2> HIDE DEF rank, UpTo
  <2> QED
    BY <2>1, <2>2, <2>3
<1>7. \A k \in ks : rank[k] \in 1..n
  BY <1>2
<1> HIDE DEF rank
<1>8. ASSUME NEW k \in ks PROVE \E p \in 1..n : InOrder(ks)[p] = k
  <2>1. rank[k] \in 1..n
    BY <1>7
  <2>2. InOrder(ks)[rank[k]] = k
    BY <1>4, <1>6, <2>1
  <2> QED
    BY <2>1, <2>2
<1> QED
  BY <1>1, <1>6, <1>8

(* The groups of modules: modules joined by edges are in one.              *)
Linked2(ms, k, l) == Edge(ms, k, l) \/ Edge(ms, l, k)
ClosedGroup(ms, s) == \A k \in s : \A l \in DOMAIN ms : Linked2(ms, k, l) => l \in s
LEMMA JoinedIsLeast ==
  ASSUME NEW ms, IsFiniteSet(DOMAIN ms), NEW k \in DOMAIN ms
  PROVE  /\ Joined(ms, k) \in SUBSET DOMAIN ms /\ k \in Joined(ms, k) /\ ClosedGroup(ms, Joined(ms, k))
         /\ \A t \in SUBSET DOMAIN ms : k \in t /\ ClosedGroup(ms, t) => Joined(ms, k) \subseteq t
<1> DEFINE D == DOMAIN ms
           More(s) == s \cup {k2 \in D : \E k1 \in s : Edge(ms, k1, k2) \/ Edge(ms, k2, k1)}
           F == [s \in SUBSET D |-> More(s)]
           Solves(g) == g = [s \in SUBSET D |-> IF More(s) = s THEN s ELSE g[More(s)]]
           mark == CHOOSE g : Solves(g)
<1>1. \A s \in SUBSET D : More(s) \in SUBSET D /\ F[s] = More(s)
  OBVIOUS
<1>2. Growth(D, F)
  <2>1. F \in [SUBSET D -> SUBSET D]
    BY <1>1
  <2>2. \A s \in SUBSET D : s \subseteq F[s]
    BY <1>1
  <2>3. \A s, t \in SUBSET D : s \subseteq t => More(s) \subseteq More(t)
    OBVIOUS
  <2> QED
    BY <1>1, <2>1, <2>2, <2>3 DEF Growth
<1>3. \A g : Grows(D, F, g) <=> Solves(g)
  <2> TAKE g
  <2>1. [s \in SUBSET D |-> IF F[s] = s THEN s ELSE g[F[s]]]
          = [s \in SUBSET D |-> IF More(s) = s THEN s ELSE g[More(s)]]
    BY <1>1
  <2> QED
    BY <2>1 DEF Grows
<1>4. Grows(D, F, mark)
  <2>1. \E g : Solves(g)
    <3> HIDE DEF F, Solves
    <3> QED BY <1>2, <1>3, GrowthHasEnd
  <2>2. Solves(mark)
    <3> HIDE DEF Solves
    <3> QED BY <2>1
  <2> HIDE DEF F, Solves, mark
  <2> QED
    BY <1>3, <2>2
<1>5. IsLeast(D, F, {k}, mark[{k}])
  <2>1. {k} \in SUBSET D /\ IsFiniteSet(D)
    OBVIOUS
  <2> HIDE DEF D, F, mark
  <2> QED
    BY <1>2, <1>4, <2>1, GrowthEndsLeast
<1>6. Joined(ms, k) = mark[{k}]
  BY DEF Joined
<1>7. \A t \in SUBSET D : F[t] = t <=> ClosedGroup(ms, t)
  <2> TAKE t \in SUBSET D
  <2>1. F[t] = More(t)
    BY <1>1
  <2>2. More(t) = t <=> ClosedGroup(ms, t)
    BY DEF ClosedGroup, Linked2
  <2> HIDE DEF F, More
  <2> QED
    BY <2>1, <2>2
<1> HIDE DEF F, mark
<1> QED
  BY <1>5, <1>6, <1>7 DEF IsLeast

LEMMA JoinedIsSymmetric ==
  ASSUME NEW ms, IsFiniteSet(DOMAIN ms), NEW k \in DOMAIN ms, NEW l \in Joined(ms, k)
  PROVE  l \in DOMAIN ms /\ Joined(ms, l) = Joined(ms, k)
<1> DEFINE K == Joined(ms, k)
           L == Joined(ms, l)
<1>1. K \in SUBSET DOMAIN ms /\ k \in K /\ ClosedGroup(ms, K) /\ l \in DOMAIN ms
  BY JoinedIsLeast
<1>2. /\ L \in SUBSET DOMAIN ms /\ l \in L /\ ClosedGroup(ms, L)
      /\ \A t \in SUBSET DOMAIN ms : l \in t /\ ClosedGroup(ms, t) => L \subseteq t
  BY <1>1, JoinedIsLeast
<1>3. \A t \in SUBSET DOMAIN ms : k \in t /\ ClosedGroup(ms, t) => K \subseteq t
  BY JoinedIsLeast
<1> HIDE DEF K, L
<1>4. L \subseteq K
  BY <1>1, <1>2 DEF K
<1>5. k \in L
  <2> SUFFICES ASSUME k \notin L PROVE FALSE
    OBVIOUS
  <2>1. ClosedGroup(ms, K \ L)
    BY <1>1, <1>2 DEF ClosedGroup, Linked2
  <2>2. K \subseteq K \ L
    BY <1>1, <1>3, <2>1
  <2> QED
    BY <1>2, <2>2 DEF K
<1>6. K \subseteq L
  BY <1>2, <1>3, <1>5
<1> QED
  BY <1>1, <1>4, <1>6 DEF K, L

LEMMA AloneOrJoined ==
  ASSUME NEW ms, IsFiniteSet(DOMAIN ms), NEW k \in DOMAIN ms, Joined(ms, k) # {k}, NEW l \in Joined(ms, k)
  PROVE  ms[l].type # "ripple_addsub"
<1>1. l \in DOMAIN ms /\ Joined(ms, l) = Joined(ms, k) /\ k \in Joined(ms, k)
  BY JoinedIsSymmetric, JoinedIsLeast
<1>2. \E x \in DOMAIN ms : Linked2(ms, l, x)
  <2> SUFFICES ASSUME \A x \in DOMAIN ms : ~Linked2(ms, l, x) PROVE FALSE
    OBVIOUS
  <2>1. ClosedGroup(ms, {l})
    BY DEF ClosedGroup
  <2>2. Joined(ms, l) \subseteq {l}
    BY <1>1, <2>1, JoinedIsLeast
  <2> QED
    BY <1>1, <2>2
<1> QED
  BY <1>2 DEF Linked2, Edge, Mergeable, IsMux

LEMMA FirstOfGroup ==
  ASSUME NEW ms, IsFiniteSet(DOMAIN ms), DOMAIN ms \in SUBSET Nat, NEW k \in DOMAIN ms, Joined(ms, k) # {k}
  PROVE  \E f \in Firsts(ms) : Joined(ms, f) = Joined(ms, k)
<1>1. Joined(ms, k) \in SUBSET Nat /\ k \in Joined(ms, k)
  BY JoinedIsLeast
<1>2. PICK f \in Joined(ms, k) : \A x \in Joined(ms, k) : f <= x
  BY <1>1, LeastNat
<1>3. f \in DOMAIN ms /\ Joined(ms, f) = Joined(ms, k)
  BY JoinedIsSymmetric
<1>4. Joined(ms, f) # {f}
  BY <1>1, <1>3
<1> QED
  BY <1>2, <1>3, <1>4 DEF Firsts

LEMMA FirstsDiffer ==
  ASSUME NEW ms, IsFiniteSet(DOMAIN ms), DOMAIN ms \in SUBSET Nat,
         NEW f \in Firsts(ms), NEW g \in Firsts(ms), f # g
  PROVE  Joined(ms, f) \cap Joined(ms, g) = {}
<1> SUFFICES ASSUME NEW x \in Joined(ms, f) \cap Joined(ms, g) PROVE FALSE
  OBVIOUS
<1>1. f \in DOMAIN ms /\ g \in DOMAIN ms /\ f \in Nat /\ g \in Nat
  BY DEF Firsts
<1>2. Joined(ms, f) = Joined(ms, g)
  BY <1>1, JoinedIsSymmetric
<1>3. f \in Joined(ms, g) /\ g \in Joined(ms, f)
  BY <1>1, <1>2, JoinedIsLeast
<1>4. f <= g /\ g <= f
  BY <1>3 DEF Firsts
<1> QED
  BY <1>1, <1>4
-----------------------------------------------------------------------------
(* A module that is no adder is the cone of its outputs.                   *)
ConeModule(nl, m) ==
  /\ DOMAIN m = {"type", "outputs", "inputs", "sel", "aux", "internals", "is_bad"}
  /\ m.type # "ripple_addsub" =>
       /\ m.outputs \in SUBSET Node /\ m.inputs \in SUBSET Node
       /\ m.internals = Cone(nl, m.outputs, m.inputs)
       /\ m.is_bad = Bad(nl, m.outputs, m.internals)

LEMMA ConeModuleFacts ==
  ASSUME netlist.reads \in [Node -> SUBSET Node], NEW m, ConeModule(netlist, m), m.type # "ripple_addsub"
  PROVE  /\ m.internals \in SUBSET Node /\ m.outputs \subseteq m.internals
         /\ ClosedUnder(netlist, m.inputs, m.internals)
         /\ \A t \in SUBSET Node : m.outputs \subseteq t /\ ClosedUnder(netlist, m.inputs, t) => m.internals \subseteq t
BY ConeIsLeast DEF ConeModule

(* What the merged module has inside is inside a part.                     *)
LEMMA MergedIsInside ==
  ASSUME netlist.reads \in [Node -> SUBSET Node], NEW ms, NEW parts \in SUBSET DOMAIN ms,
         \A k \in parts : ConeModule(netlist, ms[k]) /\ ms[k].type # "ripple_addsub"
  PROVE  /\ Merged(ms, parts).internals \subseteq UNION {ms[k].internals : k \in parts}
         /\ ConeModule(netlist, Merged(ms, parts))
         /\ Merged(ms, parts).type = "mux_merged"
<1> DEFINE outs == UNION {ms[k].outputs : k \in parts}
           ins == UNION {ms[k].inputs : k \in parts}
           U == UNION {ms[k].internals : k \in parts}
           m == Merged(ms, parts)
<1>1. \A k \in parts : /\ ms[k].internals \in SUBSET Node /\ ms[k].outputs \subseteq ms[k].internals
                        /\ ClosedUnder(netlist, ms[k].inputs, ms[k].internals)
                        /\ ms[k].inputs \in SUBSET Node
  BY ConeModuleFacts DEF ConeModule
<1>2. /\ m.outputs = outs \ ins /\ m.inputs = ins \ outs /\ m.type = "mux_merged"
      /\ m.internals = Cone(netlist, outs \ ins, ins \ outs)
      /\ m.is_bad = Bad(netlist, outs \ ins, m.internals)
      /\ DOMAIN m = {"type", "outputs", "inputs", "sel", "aux", "internals", "is_bad"}
  BY DEF Merged, NewModule
<1>3. outs \ ins \in SUBSET Node /\ ins \ outs \in SUBSET Node /\ U \in SUBSET Node
  BY <1>1
<1>4. outs \subseteq U
  BY <1>1
<1>5. ClosedUnder(netlist, ins \ outs, U)
  <2> SUFFICES ASSUME NEW k \in parts, NEW n \in ms[k].internals, NEW r \in netlist.reads[n], r \notin ins \ outs
               PROVE  r \in U
    BY DEF ClosedUnder
  <2>1. CASE r \in ms[k].inputs
    BY <1>4, <2>1
  <2>2. CASE r \notin ms[k].inputs
    BY <1>1, <2>2 DEF ClosedUnder
  <2> QED
    BY <2>1, <2>2
<1> HIDE DEF outs, ins, U, m
<1>6. m.internals \subseteq U
  BY <1>2, <1>3, <1>4, <1>5, ConeIsLeast
<1>7. ConeModule(netlist, m)
  BY <1>2, <1>3 DEF ConeModule
<1> QED
  BY <1>2, <1>6, <1>7 DEF U, m

(* Where nothing is cut off, it has all that the parts have inside, and it *)
(* is good if they are.                                                    *)
LEMMA MergedHoldsParts ==
  ASSUME IsNetlist(netlist), NEW ms, NEW parts \in SUBSET DOMAIN ms, CutsNothing(ms, parts),
         \A k \in parts : ConeModule(netlist, ms[k]) /\ ms[k].type # "ripple_addsub" /\ ~ms[k].is_bad
  PROVE  /\ \A k \in parts : ms[k].internals \subseteq Merged(ms, parts).internals
         /\ ~Merged(ms, parts).is_bad
<1> DEFINE outs == UNION {ms[k].outputs : k \in parts}
           ins == UNION {ms[k].inputs : k \in parts}
           U == UNION {ms[k].internals : k \in parts}
           m == Merged(ms, parts)
           M == m.internals
<1>1. netlist.reads \in [Node -> SUBSET Node] /\ \A p \in netlist.siblings : p \subseteq Node
  BY DEF IsNetlist
<1>2. \A k \in parts : /\ ms[k].internals \in SUBSET Node /\ ms[k].outputs \subseteq ms[k].internals
                        /\ ClosedUnder(netlist, ms[k].inputs, ms[k].internals)
                        /\ ms[k].inputs \in SUBSET Node
                        /\ ~Bad(netlist, ms[k].outputs, ms[k].internals)
  BY <1>1, ConeModuleFacts DEF ConeModule
<1>3. /\ M = Cone(netlist, outs \ ins, ins \ outs)
      /\ m.is_bad = Bad(netlist, outs \ ins, M)
  BY DEF Merged, NewModule
<1>4. outs \ ins \in SUBSET Node /\ outs \subseteq U /\ U \in SUBSET Node
  BY <1>2
<1>5. outs \ ins \subseteq M /\ ClosedUnder(netlist, ins \ outs, M) /\ M \in SUBSET Node
  <2> HIDE DEF M, outs, ins
  <2> QED
    BY <1>1, <1>3, <1>4, ConeIsLeast
<1>6. /\ \A k1, k2 \in parts : ms[k1].inputs \cap ms[k2].internals \subseteq ms[k2].outputs
      /\ \A k \in parts : ms[k].inputs \subseteq UNION {netlist.reads[n] : n \in ms[k].internals}
      /\ \A ring \in (SUBSET U) \ {{}} : \E n \in ring : \A r \in ring : n \notin netlist.reads[r]
  BY DEF CutsNothing
<1> HIDE DEF m, M
<1>7. U \subseteq M
  <2> SUFFICES ASSUME U \ M # {} PROVE FALSE
    OBVIOUS
  <2>1. PICK n \in U \ M : \A r \in U \ M : n \notin netlist.reads[r]
    <3>1. U \ M \in (SUBSET U) \ {{}}
      OBVIOUS
    <3> HIDE DEF U
    <3> QED
      BY <1>6, <3>1
  <2>2. PICK k \in parts : n \in ms[k].internals
    OBVIOUS
  <2>3. CASE n \in outs
    <3>1. n \in ins
      BY <1>5, <2>1, <2>3
    <3>2. PICK k1 \in parts : n \in ms[k1].inputs
      BY <3>1
    <3>3. PICK r \in ms[k1].internals : n \in netlist.reads[r]
      BY <1>6, <3>2
    <3>4. r \in M
      BY <2>1, <3>3
    <3>5. n \in M
      BY <1>5, <2>3, <3>3, <3>4 DEF ClosedUnder
    <3> QED
      BY <2>1, <3>5
  <2>4. CASE n \notin outs
    <3> DEFINE T == ms[k].internals \ {n}
    <3>1. T \in SUBSET Node /\ ms[k].outputs \subseteq T
      BY <1>2, <2>4
    <3>2. PICK r \in T : n \in netlist.reads[r] \ ms[k].inputs
      <4> SUFFICES ASSUME \A r \in T : n \notin netlist.reads[r] \ ms[k].inputs PROVE FALSE
        OBVIOUS
      <4>1. ClosedUnder(netlist, ms[k].inputs, T)
        BY <1>2 DEF ClosedUnder
      <4>2. ms[k].internals \subseteq T
        <5> HIDE DEF T
        <5> QED
          BY <1>1, <3>1, <4>1, ConeModuleFacts
      <4> QED
        BY <2>2, <4>2
    <3>3. r \in M
      BY <2>1, <3>2
    <3>4. n \in ins
      BY <1>5, <2>1, <3>2, <3>3 DEF ClosedUnder
    <3>5. n \in ms[k].outputs
      BY <1>6, <2>2, <3>4
    <3> QED
      BY <2>4, <3>5
  <2> QED
    BY <2>3, <2>4
<1>8. M \subseteq U
  <2>1. \A k \in parts : ConeModule(netlist, ms[k]) /\ ms[k].type # "ripple_addsub"
    OBVIOUS
  <2> QED
    BY <1>1, <2>1, MergedIsInside DEF m, M
<1>9. ~Bad(netlist, outs \ ins, M)
  <2>1. ASSUME NEW o \in outs, netlist.kind[o] = "latchgate" PROVE FALSE
    BY <1>2, <2>1 DEF Bad
  <2>2. ASSUME NEW p \in netlist.siblings, Cardinality(p \cap M) = 1 PROVE FALSE
    <3>1. IsFiniteSet(p \cap M)
      <4>1. p \cap M \in SUBSET Node /\ IsFiniteSet(Node)
        BY <1>1, FS_Interval, NumNodesAssumption DEF Node
      <4> QED
        BY <4>1, FS_Subset
    <3>2. PICK x : p \cap M = {x}
      BY <2>2, <3>1, FS_Singleton
    <3>3. PICK k \in parts : x \in ms[k].internals
      BY <1>8, <3>2
    <3>4. p \cap ms[k].internals = {x}
      BY <1>7, <3>2, <3>3
    <3>5. Cardinality(p \cap ms[k].internals) = 1
      BY <3>4, FS_Singleton
    <3> QED
      BY <1>2, <3>5 DEF Bad
  <2> QED
    BY <2>1, <2>2 DEF Bad
<1> QED
  BY <1>3, <1>7, <1>9 DEF m, M
-----------------------------------------------------------------------------
Listed(s) == \E S : s \in Seq(S)

LEMMA ListedFacts ==
  ASSUME NEW s, Listed(s)
  PROVE  Len(s) \in Nat /\ DOMAIN s = 1..Len(s) /\ IsFiniteSet(DOMAIN s) /\ DOMAIN s \in SUBSET Nat
<1>1. Len(s) \in Nat /\ DOMAIN s = 1..Len(s)
  BY DEF Listed
<1> QED
  BY <1>1, FS_Interval

LEMMA ListedIfFunction ==
  ASSUME NEW n \in Nat, NEW s, DOMAIN s = 1..n, s = [k \in 1..n |-> s[k]]
  PROVE  Listed(s) /\ Len(s) = n
<1> DEFINE S == {s[k] : k \in 1..n}
<1>1. s \in Seq(S) /\ Len(s) = n
  OBVIOUS
<1> QED
  BY <1>1 DEF Listed

LEMMA Appended ==
  ASSUME NEW s, Listed(s), NEW m
  PROVE  /\ Listed(Append(s, m)) /\ DOMAIN Append(s, m) = 1..(Len(s) + 1)
         /\ \A k \in 1..Len(s) : Append(s, m)[k] = s[k]
         /\ Append(s, m)[Len(s) + 1] = m
<1>1. PICK S : s \in Seq(S)
  BY DEF Listed
<1> DEFINE T == S \cup {m}
<1>2. s \in Seq(T) /\ m \in T
  BY <1>1
<1> HIDE DEF T
<1>3. Append(s, m) \in Seq(T)
  BY <1>2
<1> QED
  BY <1>2, <1>3 DEF Listed

LEMMA Joint ==
  ASSUME NEW s, Listed(s), NEW t, Listed(t)
  PROVE  /\ Listed(s \o t) /\ DOMAIN (s \o t) = 1..(Len(s) + Len(t))
         /\ \A k \in 1..Len(s) : (s \o t)[k] = s[k]
         /\ \A k \in (Len(s) + 1)..(Len(s) + Len(t)) : k - Len(s) \in 1..Len(t) /\ (s \o t)[k] = t[k - Len(s)]
<1>1. PICK S : s \in Seq(S)
  BY DEF Listed
<1>2. PICK R : t \in Seq(R)
  BY DEF Listed
<1> DEFINE T == S \cup R
<1>3. s \in Seq(T) /\ t \in Seq(T)
  BY <1>1, <1>2
<1> HIDE DEF T
<1>4. s \o t \in Seq(T) /\ Len(s \o t) = Len(s) + Len(t)
  BY <1>3
<1>5. Len(s) \in Nat /\ Len(t) \in Nat
  BY <1>3
<1>6. DOMAIN (s \o t) = 1..(Len(s) + Len(t))
  BY <1>4
<1>7. \A k \in 1..Len(s) : (s \o t)[k] = s[k]
  BY <1>3
<1>8. \A k \in (Len(s) + 1)..(Len(s) + Len(t)) : k - Len(s) \in 1..Len(t) /\ (s \o t)[k] = t[k - Len(s)]
  BY <1>3, <1>5
<1> QED
  BY <1>4, <1>6, <1>7, <1>8 DEF Listed

LEMMA JointCones ==
  ASSUME NEW nl, NEW s, Listed(s), NEW t, Listed(t),
         \A k \in DOMAIN s : ConeModule(nl, s[k]), \A k \in DOMAIN t : ConeModule(nl, t[k])
  PROVE  Listed(s \o t) /\ \A k \in DOMAIN (s \o t) : ConeModule(nl, (s \o t)[k])
<1>1. ASSUME NEW k \in DOMAIN (s \o t) PROVE ConeModule(nl, (s \o t)[k])
  <2>1. /\ k \in 1..(Len(s) + Len(t)) /\ Len(s) \in Nat /\ Len(t) \in Nat
        /\ DOMAIN s = 1..Len(s) /\ DOMAIN t = 1..Len(t)
    BY <1>1, Joint, ListedFacts
  <2>2. CASE k \in 1..Len(s)
    BY <2>1, <2>2, Joint
  <2>3. CASE k \in (Len(s) + 1)..(Len(s) + Len(t))
    <3>1. k - Len(s) \in DOMAIN t /\ (s \o t)[k] = t[k - Len(s)]
      BY <2>1, <2>3, Joint
    <3> QED
      BY <3>1
  <2> QED
    BY <2>1, <2>2, <2>3
<1> QED
  BY <1>1, Joint

LEMMA SelectedFacts ==
  ASSUME NEW ms, NEW ks, ks \in SUBSET Nat, IsFiniteSet(ks)
  PROVE  /\ Listed(Selected(ms, ks)) /\ DOMAIN Selected(ms, ks) = 1..Cardinality(ks)
         /\ \A p \in 1..Cardinality(ks) : Selected(ms, ks)[p] = ms[InOrder(ks)[p]] /\ InOrder(ks)[p] \in ks
         /\ \A p, q \in 1..Cardinality(ks) : InOrder(ks)[p] = InOrder(ks)[q] => p = q
         /\ \A k \in ks : \E p \in 1..Cardinality(ks) : InOrder(ks)[p] = k
<1>1. Cardinality(ks) \in Nat
  BY InOrderFacts
<1> DEFINE n == Cardinality(ks)
           s == Selected(ms, ks)
<1>2. DOMAIN s = 1..n /\ s = [k \in 1..n |-> s[k]] /\ \A p \in 1..n : s[p] = ms[InOrder(ks)[p]]
  BY DEF Selected
<1>3. Listed(s)
  <2> HIDE DEF s, n
  <2> QED
    BY <1>1, <1>2, ListedIfFunction DEF n
<1> HIDE DEF s
<1> QED
  BY <1>2, <1>3, InOrderFacts DEF s
-----------------------------------------------------------------------------
Resolved == \A k \in DOMAIN modules : ~modules[k].is_bad
ModulesInv ==
  /\ Listed(modules) /\ \A k \in DOMAIN modules : ConeModule(netlist, modules[k])
RegistersInv ==
  /\ Listed(newmods)
  /\ \A k \in DOMAIN newmods : newmods[k].type = "reg" /\ ConeModule(netlist, newmods[k])
GroupInv ==
  /\ netlist \in Netlists
  /\ ModulesInv /\ RegistersInv
  /\ phase = "analyse" => i \in Nat \ {0}
  /\ phase = "replace" => Resolved

LEMMA NewIsCone ==
  ASSUME NEW nl, NEW type, NEW outputs \in SUBSET Node, NEW inputs \in SUBSET Node, NEW sel, NEW aux
  PROVE  /\ ConeModule(nl, NewModule(nl, type, outputs, inputs, sel, aux))
         /\ NewModule(nl, type, outputs, inputs, sel, aux).type = type
         /\ NewModule(nl, type, outputs, inputs, sel, aux).inputs = inputs
         /\ NewModule(nl, type, outputs, inputs, sel, aux).outputs = outputs
BY DEF ConeModule, NewModule

LEMMA GroupStarts == Init => GroupInv
<1> SUFFICES ASSUME Init PROVE GroupInv
  OBVIOUS
<1>1. netlist \in Netlists /\ newmods = <<>> /\ phase = "analyse" /\ i = 1
  BY DEF Init
<1>2. PICK found \in Searches(netlist) :
        modules = [k \in DOMAIN found |->
                    NewModule(netlist, found[k].type, found[k].outputs, found[k].inputs, found[k].sel, {})]
  BY DEF Init
<1>3. found \in Seq(FoundModule)
  BY <1>1, SearchesAssumption
<1>4. /\ Len(found) \in Nat /\ DOMAIN found = 1..Len(found)
      /\ \A k \in DOMAIN found : found[k].outputs \in SUBSET Node /\ found[k].inputs \in SUBSET Node
  <2>1. \A k \in DOMAIN found : found[k] \in FoundModule
    BY <1>3
  <2>2. \A f \in FoundModule : f.outputs \in SUBSET Node /\ f.inputs \in SUBSET Node
    BY DEF FoundModule
  <2> QED
    BY <1>3, <2>1, <2>2
<1>5. \A k \in DOMAIN found : ConeModule(netlist, modules[k])
  BY <1>2, <1>4, NewIsCone
<1>6. Listed(modules)
  BY <1>2, <1>4, ListedIfFunction
<1>7. Listed(newmods) /\ DOMAIN newmods = {}
  BY <1>1 DEF Listed
<1> QED
  BY <1>1, <1>2, <1>5, <1>6, <1>7 DEF GroupInv, ModulesInv, RegistersInv

LEMMA AnalyseStep ==
  ASSUME GroupInv, Analyse PROVE GroupInv'
<1>1. /\ netlist' = netlist /\ modules' = modules
      /\ phase = "analyse" /\ phase' \in {"analyse", "abort"}
      /\ i \in Nat \ {0} /\ i' = i + 1 /\ i <= Len(modules)
  BY DEF Analyse, GroupInv
<1>2. CASE newmods' = newmods
  BY <1>1, <1>2 DEF GroupInv, ModulesInv, RegistersInv
<1>3. CASE newmods' # newmods
  <2> DEFINE m == modules[i]
  <2>1. newmods' = Append(newmods, Register(m)) /\ m.type = "mux"
    BY <1>3 DEF Analyse
  <2>2. i \in DOMAIN modules
    BY <1>1, ListedFacts DEF GroupInv, ModulesInv
  <2>3. ConeModule(netlist, m) /\ netlist.reads \in [Node -> SUBSET Node]
    BY <2>2, NetlistsAssumption DEF GroupInv, ModulesInv, IsNetlist
  <2>4. m.inputs \in SUBSET Node
    BY <2>1, <2>3 DEF ConeModule
  <2> HIDE DEF m
  <2>5. ConeModule(netlist, Register(m)) /\ Register(m).type = "reg"
    <3> DEFINE latches == UNION {HeldIn(m, o) : o \in Outs(m)}
               seen    == UNION {InputMap(m, o) : o \in Outs(m)}
               good    == (seen \cap m.inputs) \ latches
               gates   == {g \in UNION {netlist.reads[l] : l \in latches} : netlist.kind[g] = "latchgate"}
               aux     == (UNION {netlist.reads[n] : n \in latches \cup gates}) \ (gates \cup seen)
    <3>1. latches \in SUBSET Node
      BY <2>4 DEF HeldIn
    <3>2. gates \in SUBSET Node
      BY <2>3, <3>1
    <3>3. good \cup aux \in SUBSET Node
      BY <2>3, <2>4, <3>1, <3>2
    <3>4. Register(m) = NewModule(netlist, "reg", latches, good \cup aux, good \cap m.sel, aux)
      BY DEF Register
    <3> HIDE DEF latches, good, aux
    <3> QED
      BY <3>1, <3>3, <3>4, NewIsCone
  <2> QED
    BY <1>1, <2>1, <2>5, Appended, ListedFacts DEF GroupInv, ModulesInv, RegistersInv
<1> QED
  BY <1>2, <1>3

LEMMA LinkingStep ==
  ASSUME GroupInv, StartLinks \/ Compare \/ NextRegister \/ StartGroups PROVE GroupInv'
<1>1. /\ netlist' = netlist /\ modules' = modules /\ newmods' = newmods
      /\ phase' \in {"link", "group"}
  BY DEF StartLinks, Compare, NextRegister, StartGroups
<1> QED
  BY <1>1 DEF GroupInv, ModulesInv, RegistersInv

LEMMA MergeGroupStep ==
  ASSUME GroupInv, MergeGroup PROVE GroupInv'
<1>1. /\ netlist' = netlist /\ newmods' = newmods /\ phase' \in {"group", "abort"}
  BY DEF MergeGroup
<1>2. CASE modules' = modules
  BY <1>1, <1>2 DEF GroupInv, ModulesInv, RegistersInv
<1>3. CASE modules' # modules
  <2>1. PICK g \in groups :
          LET mods == {newmods[r] : r \in {s \in Reg : repr[s] = g}} IN
          modules' = Append(modules, NewModule(netlist, "reg_group", UNION {n.outputs : n \in mods},
                             UNION {n.inputs : n \in mods}, UNION {m.sel : m \in mods}, UNION {n.aux : n \in mods}))
    BY <1>3 DEF MergeGroup
  <2> DEFINE mods == {newmods[r] : r \in {s \in Reg : repr[s] = g}}
             outputs == UNION {n.outputs : n \in mods}
             inputs == UNION {n.inputs : n \in mods}
             m == NewModule(netlist, "reg_group", outputs, inputs, UNION {n.sel : n \in mods}, UNION {n.aux : n \in mods})
  <2>2. \A n \in mods : n.outputs \in SUBSET Node /\ n.inputs \in SUBSET Node
    BY DEF GroupInv, RegistersInv, ConeModule, Reg
  <2>3. outputs \in SUBSET Node /\ inputs \in SUBSET Node
    BY <2>2
  <2>4. modules' = Append(modules, m)
    BY <2>1
  <2>5. ConeModule(netlist, m)
    <3> HIDE DEF outputs, inputs, mods
    <3> QED
      BY <2>3, NewIsCone
  <2> HIDE DEF m
  <2> QED
    BY <1>1, <2>4, <2>5, Appended, ListedFacts DEF GroupInv, ModulesInv, RegistersInv
<1> QED
  BY <1>2, <1>3

LEMMA KeepRegistersStep ==
  ASSUME GroupInv, KeepRegisters PROVE GroupInv'
<1>1. /\ netlist' = netlist /\ newmods' = newmods /\ phase' = "merge" /\ modules' = modules \o newmods
  BY DEF KeepRegisters
<1>2. Listed(modules) /\ Listed(newmods)
  BY DEF GroupInv, ModulesInv, RegistersInv
<1>3. /\ Listed(modules \o newmods)
      /\ \A k \in DOMAIN (modules \o newmods) : ConeModule(netlist, (modules \o newmods)[k])
  BY <1>2, JointCones DEF GroupInv, ModulesInv, RegistersInv
<1> QED
  BY <1>1, <1>3 DEF GroupInv, ModulesInv, RegistersInv

(* What merging makes of good modules that share nothing.                  *)
LEMMA MergedModulesFacts ==
  ASSUME IsNetlist(netlist), NEW ms, Listed(ms), \A k \in DOMAIN ms : ConeModule(netlist, ms[k])
  PROVE  /\ Listed(MergedModules(ms)) /\ DOMAIN MergedModules(ms) = 1..Cardinality(Firsts(ms))
         /\ Firsts(ms) \in SUBSET DOMAIN ms /\ IsFiniteSet(Firsts(ms))
         /\ \A p \in DOMAIN MergedModules(ms) :
              LET f == InOrder(Firsts(ms))[p] IN
              /\ f \in Firsts(ms) /\ MergedModules(ms)[p] = Merged(ms, Joined(ms, f))
              /\ \A k \in Joined(ms, f) : k \in DOMAIN ms /\ ms[k].type # "ripple_addsub"
              /\ MergedModules(ms)[p].internals \subseteq UNION {ms[k].internals : k \in Joined(ms, f)}
              /\ ConeModule(netlist, MergedModules(ms)[p])
<1>1. Len(ms) \in Nat /\ DOMAIN ms = 1..Len(ms) /\ IsFiniteSet(DOMAIN ms) /\ DOMAIN ms \in SUBSET Nat
  BY ListedFacts
<1>2. Firsts(ms) \in SUBSET DOMAIN ms /\ IsFiniteSet(Firsts(ms)) /\ Firsts(ms) \in SUBSET Nat
  <2>1. Firsts(ms) \in SUBSET DOMAIN ms
    BY DEF Firsts
  <2> QED
    BY <1>1, <2>1, FS_Subset
<1> DEFINE n == Cardinality(Firsts(ms))
           s == MergedModules(ms)
<1>3. n \in Nat /\ \A p \in 1..n : InOrder(Firsts(ms))[p] \in Firsts(ms)
  BY <1>2, InOrderFacts
<1>4. DOMAIN InOrder(Firsts(ms)) = 1..n
  BY DEF InOrder
<1>5. DOMAIN s = 1..n /\ \A p \in 1..n : s[p] = Merged(ms, Joined(ms, InOrder(Firsts(ms))[p]))
  BY <1>4 DEF MergedModules
<1>6. s = [p \in 1..n |-> s[p]]
  BY <1>4 DEF MergedModules
<1>7. Listed(s)
  <2> HIDE DEF s, n
  <2> QED
    BY <1>3, <1>5, <1>6, ListedIfFunction
<1>8. ASSUME NEW f \in Firsts(ms)
      PROVE  /\ \A k \in Joined(ms, f) : k \in DOMAIN ms /\ ms[k].type # "ripple_addsub"
             /\ Merged(ms, Joined(ms, f)).internals \subseteq UNION {ms[k].internals : k \in Joined(ms, f)}
             /\ ConeModule(netlist, Merged(ms, Joined(ms, f)))
  <2>1. f \in DOMAIN ms /\ Joined(ms, f) # {f}
    BY DEF Firsts
  <2>2. Joined(ms, f) \in SUBSET DOMAIN ms /\ \A k \in Joined(ms, f) : ms[k].type # "ripple_addsub"
    BY <1>1, <2>1, JoinedIsLeast, AloneOrJoined
  <2>3. netlist.reads \in [Node -> SUBSET Node]
    BY DEF IsNetlist
  <2> QED
    BY <2>2, <2>3, MergedIsInside
<1> QED
  BY <1>2, <1>3, <1>5, <1>7, <1>8

LEMMA MergeBesideStep ==
  ASSUME GroupInv, MergeBeside PROVE GroupInv'
<1>1. /\ netlist' = netlist /\ newmods' = newmods /\ phase' = "resolve"
      /\ modules' = modules \o MergedModules(modules)
  BY DEF MergeBeside
<1>2. IsNetlist(netlist) /\ Listed(modules) /\ \A k \in DOMAIN modules : ConeModule(netlist, modules[k])
  BY NetlistsAssumption DEF GroupInv, ModulesInv
<1>3. Listed(MergedModules(modules)) /\ \A p \in DOMAIN MergedModules(modules) : ConeModule(netlist, MergedModules(modules)[p])
  BY <1>2, MergedModulesFacts
<1>4. /\ Listed(modules \o MergedModules(modules))
      /\ \A k \in DOMAIN (modules \o MergedModules(modules)) : ConeModule(netlist, (modules \o MergedModules(modules))[k])
  BY <1>2, <1>3, JointCones
<1> QED
  BY <1>1, <1>4 DEF GroupInv, ModulesInv, RegistersInv

LEMMA ResolveOverlapsStep ==
  ASSUME GroupInv, ResolveOverlaps PROVE GroupInv'
<1>1. netlist' = netlist /\ newmods' = newmods /\ phase' = "replace"
  BY DEF ResolveOverlaps
<1>2. PICK kept \in SUBSET DOMAIN modules :
        /\ \A k \in kept : ~modules[k].is_bad
        /\ modules' = Selected(modules, kept)
  BY DEF ResolveOverlaps, Survivors
<1>3. Listed(modules) /\ \A k \in DOMAIN modules : ConeModule(netlist, modules[k])
  BY DEF GroupInv, ModulesInv
<1>4. kept \in SUBSET Nat /\ IsFiniteSet(kept)
  BY <1>3, ListedFacts, FS_Subset
<1> DEFINE after == Selected(modules, kept)
<1>5. /\ Listed(after)
      /\ \A p \in DOMAIN after : after[p] = modules[InOrder(kept)[p]] /\ InOrder(kept)[p] \in kept
      /\ \A p, q \in DOMAIN after : InOrder(kept)[p] = InOrder(kept)[q] => p = q
  <2>1. Listed(Selected(modules, kept))
    BY <1>4, SelectedFacts
  <2>2. DOMAIN Selected(modules, kept) = 1..Cardinality(kept)
    BY <1>4, SelectedFacts
  <2>3. \A p \in 1..Cardinality(kept) : Selected(modules, kept)[p] = modules[InOrder(kept)[p]]
    BY <1>4, SelectedFacts
  <2>4. \A p \in 1..Cardinality(kept) : InOrder(kept)[p] \in kept
    BY <1>4, SelectedFacts
  <2>5. \A p, q \in 1..Cardinality(kept) : InOrder(kept)[p] = InOrder(kept)[q] => p = q
    BY <1>4, SelectedFacts
  <2> QED
    BY <2>1, <2>2, <2>3, <2>4, <2>5
<1>6. \A p \in DOMAIN after : ~after[p].is_bad /\ ConeModule(netlist, after[p])
  BY <1>2, <1>3, <1>5
<1> HIDE DEF after
<1>7. modules' = after
  BY <1>2 DEF after
<1> QED
  BY <1>1, <1>5, <1>6, <1>7 DEF GroupInv, ModulesInv, RegistersInv, Resolved

(* After merging in place every place has a share of the former list to    *)
(* itself: its own module, or a group that was merged.                     *)
After(ms) == Killed(ms) \o MergedModules(ms)
Kept(ms) == {x \in DOMAIN After(ms) : ~After(ms)[x].is_bad}
Origin(ms, x) == IF x <= Len(ms) THEN {x} ELSE Joined(ms, InOrder(Firsts(ms))[x - Len(ms)])

LEMMA KilledFacts ==
  ASSUME NEW ms, Listed(ms), NEW nl, \A k \in DOMAIN ms : ConeModule(nl, ms[k])
  PROVE  /\ Listed(Killed(ms)) /\ Len(Killed(ms)) = Len(ms) /\ DOMAIN Killed(ms) = DOMAIN ms
         /\ \A k \in DOMAIN ms :
              /\ Killed(ms)[k].internals = ms[k].internals
              /\ Killed(ms)[k].is_bad <=> ms[k].is_bad \/ Joined(ms, k) # {k}
              /\ Joined(ms, k) = {k} => Killed(ms)[k] = [ms[k] EXCEPT !.is_bad = @ \/ FALSE]
<1>1. Len(ms) \in Nat /\ DOMAIN ms = 1..Len(ms)
  BY ListedFacts
<1> DEFINE s == Killed(ms)
<1>2. DOMAIN s = 1..Len(ms) /\ s = [k \in 1..Len(ms) |-> s[k]]
  BY <1>1 DEF Killed
<1>3. Listed(s) /\ Len(s) = Len(ms)
  <2> HIDE DEF s
  <2> QED
    BY <1>1, <1>2, ListedIfFunction
<1>4. ASSUME NEW k \in DOMAIN ms
      PROVE  /\ s[k].internals = ms[k].internals
             /\ s[k].is_bad <=> ms[k].is_bad \/ Joined(ms, k) # {k}
             /\ Joined(ms, k) = {k} => s[k] = [ms[k] EXCEPT !.is_bad = @ \/ FALSE]
  <2>1. s[k] = [ms[k] EXCEPT !.is_bad = @ \/ Joined(ms, k) # {k}]
    BY DEF Killed
  <2>2. "internals" \in DOMAIN ms[k] /\ "is_bad" \in DOMAIN ms[k]
    BY DEF ConeModule
  <2> QED
    BY <2>1, <2>2
<1> QED
  BY <1>1, <1>2, <1>3, <1>4

LEMMA PlacesAfter ==
  ASSUME IsNetlist(netlist), NEW ms, Listed(ms), \A k \in DOMAIN ms : ConeModule(netlist, ms[k]),
         NEW x \in DOMAIN After(ms)
  PROVE  /\ x \in Nat /\ Len(ms) \in Nat
         /\ x <= Len(ms) => x \in DOMAIN ms /\ After(ms)[x] = Killed(ms)[x]
         /\ x > Len(ms) => /\ x - Len(ms) \in 1..Cardinality(Firsts(ms))
                           /\ After(ms)[x] = MergedModules(ms)[x - Len(ms)]
<1>1. Listed(Killed(ms)) /\ Len(Killed(ms)) = Len(ms) /\ Len(ms) \in Nat /\ DOMAIN ms = 1..Len(ms)
  BY KilledFacts, ListedFacts
<1>2. Listed(MergedModules(ms)) /\ DOMAIN MergedModules(ms) = 1..Cardinality(Firsts(ms))
  BY MergedModulesFacts
<1>3. DOMAIN MergedModules(ms) = 1..Len(MergedModules(ms)) /\ Len(MergedModules(ms)) \in Nat
  BY <1>2, ListedFacts
<1>4. x \in 1..(Len(ms) + Len(MergedModules(ms)))
  BY <1>1, <1>2, Joint DEF After
<1>5. CASE x <= Len(ms)
  <2>1. x \in 1..Len(ms)
    BY <1>1, <1>4, <1>5
  <2>2. After(ms)[x] = Killed(ms)[x]
    BY <1>1, <1>2, <2>1, Joint DEF After
  <2> QED
    BY <1>1, <1>4, <1>5, <2>1, <2>2
<1>6. CASE x > Len(ms)
  <2>1. x \in (Len(ms) + 1)..(Len(ms) + Len(MergedModules(ms)))
    BY <1>1, <1>3, <1>4, <1>6
  <2>2. x - Len(ms) \in 1..Len(MergedModules(ms)) /\ After(ms)[x] = MergedModules(ms)[x - Len(ms)]
    BY <1>1, <1>2, <2>1, Joint DEF After
  <2>3. Len(MergedModules(ms)) = Cardinality(Firsts(ms)) \/ 1..Len(MergedModules(ms)) = 1..Cardinality(Firsts(ms))
    BY <1>2, <1>3
  <2>4. x - Len(ms) \in 1..Cardinality(Firsts(ms))
    BY <2>2, <2>3
  <2> QED
    BY <1>1, <1>4, <1>6, <2>2, <2>4
<1> QED
  BY <1>1, <1>3, <1>4, <1>5, <1>6

LEMMA OriginsDiffer ==
  ASSUME IsNetlist(netlist), NEW ms, Listed(ms), \A k \in DOMAIN ms : ConeModule(netlist, ms[k]),
         NEW x \in Kept(ms), NEW y \in Kept(ms), x # y
  PROVE  Origin(ms, x) \cap Origin(ms, y) = {}
<1>1. /\ IsFiniteSet(DOMAIN ms) /\ DOMAIN ms \in SUBSET Nat /\ Len(ms) \in Nat
      /\ Firsts(ms) \in SUBSET DOMAIN ms /\ IsFiniteSet(Firsts(ms)) /\ Firsts(ms) \in SUBSET Nat
  BY ListedFacts, MergedModulesFacts
<1>2. ASSUME NEW z \in Kept(ms), z <= Len(ms)
      PROVE  Origin(ms, z) = {z} /\ z \in DOMAIN ms /\ Joined(ms, z) = {z}
  <2>1. z \in DOMAIN After(ms) /\ ~After(ms)[z].is_bad
    BY DEF Kept
  <2>2. z \in DOMAIN ms /\ After(ms)[z] = Killed(ms)[z]
    BY <1>2, <2>1, PlacesAfter
  <2> QED
    BY <1>2, <2>1, <2>2, KilledFacts DEF Origin
<1>3. ASSUME NEW z \in Kept(ms), ~(z <= Len(ms))
      PROVE  /\ z - Len(ms) \in 1..Cardinality(Firsts(ms))
             /\ InOrder(Firsts(ms))[z - Len(ms)] \in Firsts(ms)
             /\ Origin(ms, z) = Joined(ms, InOrder(Firsts(ms))[z - Len(ms)])
  <2>1. z \in DOMAIN After(ms)
    BY DEF Kept
  <2>2. z \in Nat /\ z > Len(ms)
    BY <1>1, <1>3, <2>1, PlacesAfter
  <2>3. z - Len(ms) \in 1..Cardinality(Firsts(ms))
    BY <2>1, <2>2, PlacesAfter
  <2> QED
    BY <1>1, <1>3, <2>3, InOrderFacts DEF Origin
<1>4. ASSUME NEW z \in DOMAIN ms, Joined(ms, z) = {z}, NEW f \in Firsts(ms), z \in Joined(ms, f)
      PROVE  FALSE
  <2>1. f \in DOMAIN ms /\ Joined(ms, f) # {f}
    BY DEF Firsts
  <2>2. Joined(ms, z) = Joined(ms, f) /\ f \in Joined(ms, f)
    BY <1>1, <1>4, <2>1, JoinedIsSymmetric, JoinedIsLeast
  <2> QED
    BY <1>4, <2>1, <2>2
<1>5. CASE x <= Len(ms) /\ y <= Len(ms)
  BY <1>2, <1>5
<1>6. CASE x <= Len(ms) /\ ~(y <= Len(ms))
  BY <1>2, <1>3, <1>4, <1>6
<1>7. CASE ~(x <= Len(ms)) /\ y <= Len(ms)
  BY <1>2, <1>3, <1>4, <1>7
<1>8. CASE ~(x <= Len(ms)) /\ ~(y <= Len(ms))
  <2>1. x \in Nat /\ y \in Nat
    BY PlacesAfter DEF Kept
  <2>2. x - Len(ms) # y - Len(ms)
    BY <1>1, <2>1
  <2>3. InOrder(Firsts(ms))[x - Len(ms)] # InOrder(Firsts(ms))[y - Len(ms)]
    BY <1>1, <1>3, <1>8, <2>2, InOrderFacts
  <2> QED
    BY <1>1, <1>3, <1>8, <2>3, FirstsDiffer
<1> QED
  BY <1>5, <1>6, <1>7, <1>8

LEMMA InsideOrigin ==
  ASSUME IsNetlist(netlist), NEW ms, Listed(ms), \A k \in DOMAIN ms : ConeModule(netlist, ms[k]),
         NEW x \in Kept(ms)
  PROVE  /\ After(ms)[x].internals \subseteq UNION {ms[k].internals : k \in Origin(ms, x)}
         /\ Origin(ms, x) \subseteq DOMAIN ms
         /\ ConeModule(netlist, After(ms)[x])
<1>1. x \in DOMAIN After(ms) /\ ~After(ms)[x].is_bad
  BY DEF Kept
<1>2. CASE x <= Len(ms)
  <2>1. x \in DOMAIN ms /\ After(ms)[x] = Killed(ms)[x] /\ Origin(ms, x) = {x}
    BY <1>1, <1>2, PlacesAfter DEF Origin
  <2>2. Joined(ms, x) = {x} /\ ~ms[x].is_bad /\ Killed(ms)[x].internals = ms[x].internals
    BY <1>1, <2>1, KilledFacts
  <2>3. After(ms)[x] = [ms[x] EXCEPT !.is_bad = @ \/ FALSE]
    BY <2>1, <2>2, KilledFacts
  <2>4. ConeModule(netlist, After(ms)[x])
    <3> DEFINE m == ms[x]
               a == After(ms)[x]
    <3>1. ConeModule(netlist, m) /\ a = [m EXCEPT !.is_bad = @ \/ FALSE]
      BY <2>1, <2>3
    <3> HIDE DEF m, a
    <3>2. /\ DOMAIN a = DOMAIN m /\ a.type = m.type /\ a.outputs = m.outputs /\ a.inputs = m.inputs
          /\ a.internals = m.internals /\ a.is_bad = (m.is_bad \/ FALSE)
      BY <3>1 DEF ConeModule
    <3>3. m.type # "ripple_addsub" => a.is_bad = Bad(netlist, m.outputs, m.internals)
      <4>1. m.type # "ripple_addsub" => m.is_bad = Bad(netlist, m.outputs, m.internals)
        BY <3>1 DEF ConeModule
      <4>2. Bad(netlist, m.outputs, m.internals) \in BOOLEAN
        BY DEF Bad
      <4> HIDE DEF Bad
      <4> QED
        BY <3>2, <4>1, <4>2
    <3>4. ConeModule(netlist, a)
      BY <3>1, <3>2, <3>3 DEF ConeModule
    <3> QED
      BY <3>4 DEF a
  <2> QED
    BY <2>1, <2>2, <2>4
<1>3. CASE ~(x <= Len(ms))
  <2>1. x > Len(ms) /\ Origin(ms, x) = Joined(ms, InOrder(Firsts(ms))[x - Len(ms)])
    BY <1>1, <1>3, PlacesAfter DEF Origin
  <2>2. x - Len(ms) \in DOMAIN MergedModules(ms) /\ After(ms)[x] = MergedModules(ms)[x - Len(ms)]
    BY <1>1, <2>1, PlacesAfter, MergedModulesFacts
  <2> QED
    BY <2>1, <2>2, MergedModulesFacts
<1> QED
  BY <1>2, <1>3

(* What the list holds after merging in place, and what each module of it  *)
(* comes from.                                                             *)
From(ms, p) == InOrder(Kept(ms))[p]

LEMMA ReplacedFacts ==
  ASSUME IsNetlist(netlist), NEW ms, Listed(ms), \A k \in DOMAIN ms : ConeModule(netlist, ms[k])
  PROVE  LET after == Selected(After(ms), Kept(ms))
         IN  /\ Listed(after)
             /\ \A p \in DOMAIN after : after[p] = After(ms)[From(ms, p)] /\ From(ms, p) \in Kept(ms)
             /\ \A p, q \in DOMAIN after : From(ms, p) = From(ms, q) => p = q
<1>1. Kept(ms) \in SUBSET Nat /\ IsFiniteSet(Kept(ms))
  <2>1. Listed(After(ms))
    BY KilledFacts, MergedModulesFacts, Joint DEF After
  <2>2. Kept(ms) \in SUBSET DOMAIN After(ms)
    BY DEF Kept
  <2> QED
    BY <2>1, <2>2, ListedFacts, FS_Subset
<1>2. Listed(Selected(After(ms), Kept(ms)))
  BY <1>1, SelectedFacts
<1>3. DOMAIN Selected(After(ms), Kept(ms)) = 1..Cardinality(Kept(ms))
  BY <1>1, SelectedFacts
<1>4. \A p \in 1..Cardinality(Kept(ms)) : Selected(After(ms), Kept(ms))[p] = After(ms)[InOrder(Kept(ms))[p]]
  BY <1>1, SelectedFacts
<1>5. \A p \in 1..Cardinality(Kept(ms)) : InOrder(Kept(ms))[p] \in Kept(ms)
  BY <1>1, SelectedFacts
<1>6. \A p, q \in 1..Cardinality(Kept(ms)) : InOrder(Kept(ms))[p] = InOrder(Kept(ms))[q] => p = q
  BY <1>1, SelectedFacts
<1> QED
  BY <1>2, <1>3, <1>4, <1>5, <1>6 DEF From

LEMMA MergeInPlaceStep ==
  ASSUME GroupInv, MergeInPlace PROVE GroupInv'
<1>1. /\ netlist' = netlist /\ newmods' = newmods /\ phase = "replace" /\ phase' = "done"
      /\ modules' = Selected(After(modules), Kept(modules))
  BY DEF MergeInPlace, After, Kept
<1>2. PICK ms : ms = modules
  OBVIOUS
<1>3. /\ Listed(ms) /\ \A k \in DOMAIN ms : ConeModule(netlist, ms[k])
      /\ IsNetlist(netlist)
  BY <1>2, NetlistsAssumption DEF GroupInv, ModulesInv
<1> DEFINE after == Selected(After(ms), Kept(ms))
<1>4. /\ Listed(after)
      /\ \A p \in DOMAIN after : after[p] = After(ms)[From(ms, p)] /\ From(ms, p) \in Kept(ms)
  BY <1>3, ReplacedFacts
<1> HIDE DEF after
<1>5. \A p \in DOMAIN after : ConeModule(netlist, after[p])
  <2> TAKE p \in DOMAIN after
  <2>1. From(ms, p) \in Kept(ms) /\ after[p] = After(ms)[From(ms, p)]
    BY <1>4
  <2> QED
    BY <1>3, <2>1, InsideOrigin
<1>6. modules' = after
  BY <1>1, <1>2 DEF after
<1> QED
  BY <1>1, <1>4, <1>5, <1>6 DEF GroupInv, ModulesInv, RegistersInv

(* Two modules of the list come from different modules of the former list, *)
(* inside of which they lie.                                               *)
LEMMA MergeInPlaceAddsNoOverlap ==
  ASSUME GroupInv, MergeInPlace PROVE Overlapped(modules') \subseteq Overlapped(modules)
<1>1. modules' = Selected(After(modules), Kept(modules))
  BY DEF MergeInPlace, After, Kept
<1>2. PICK ms : ms = modules
  OBVIOUS
<1>3. /\ Listed(ms) /\ \A k \in DOMAIN ms : ConeModule(netlist, ms[k])
      /\ IsNetlist(netlist)
  BY <1>2, NetlistsAssumption DEF GroupInv, ModulesInv
<1> DEFINE after == Selected(After(ms), Kept(ms))
<1>4. /\ \A p \in DOMAIN after : after[p] = After(ms)[From(ms, p)] /\ From(ms, p) \in Kept(ms)
      /\ \A p, q \in DOMAIN after : From(ms, p) = From(ms, q) => p = q
  BY <1>3, ReplacedFacts
<1> HIDE DEF after
<1>5. ASSUME NEW n \in Overlapped(after) PROVE n \in Overlapped(ms)
  <2>1. PICK p \in DOMAIN after, q \in DOMAIN after : p # q /\ n \in after[p].internals /\ n \in after[q].internals
    BY <1>5 DEF Overlapped
  <2>2. /\ From(ms, p) \in Kept(ms) /\ From(ms, q) \in Kept(ms) /\ From(ms, p) # From(ms, q)
        /\ after[p] = After(ms)[From(ms, p)] /\ after[q] = After(ms)[From(ms, q)]
    BY <1>4, <2>1
  <2>3. Origin(ms, From(ms, p)) \cap Origin(ms, From(ms, q)) = {}
    BY <1>3, <2>2, OriginsDiffer
  <2>4. /\ after[p].internals \subseteq UNION {ms[k].internals : k \in Origin(ms, From(ms, p))}
        /\ after[q].internals \subseteq UNION {ms[k].internals : k \in Origin(ms, From(ms, q))}
        /\ Origin(ms, From(ms, p)) \subseteq DOMAIN ms /\ Origin(ms, From(ms, q)) \subseteq DOMAIN ms
    BY <1>3, <2>2, InsideOrigin
  <2>5. PICK k1 \in Origin(ms, From(ms, p)), k2 \in Origin(ms, From(ms, q)) :
          n \in ms[k1].internals /\ n \in ms[k2].internals
    BY <2>1, <2>4
  <2>6. k1 \in DOMAIN ms /\ k2 \in DOMAIN ms \ {k1}
    BY <2>3, <2>4, <2>5
  <2> QED
    BY <2>5, <2>6 DEF Overlapped
<1> QED
  BY <1>1, <1>2, <1>5 DEF after

LEMMA IdentifyRCAsStep ==
  ASSUME GroupInv, IdentifyRCAs PROVE GroupInv'
<1>1. netlist' = netlist /\ newmods' = newmods /\ i' = i /\ phase = "merge" /\ phase' = phase
  BY DEF IdentifyRCAs
<1>2. CASE modules' = modules
  BY <1>1, <1>2 DEF GroupInv, ModulesInv, RegistersInv
<1>3. CASE modules' # modules
  <2>1. PICK sums : modules' = Append(modules, AdderModule(chain, sums))
    BY <1>3 DEF IdentifyRCAs, UseChain
  <2>2. ConeModule(netlist, AdderModule(chain, sums))
    BY DEF ConeModule, AdderModule
  <2>3. PICK m : m = AdderModule(chain, sums)
    OBVIOUS
  <2> QED
    BY <1>1, <2>1, <2>2, <2>3, Appended, ListedFacts DEF GroupInv, ModulesInv, RegistersInv
<1> QED
  BY <1>2, <1>3

LEMMA GroupStep ==
  ASSUME GroupInv, [AggregateNext]_<<vars, search>> PROVE GroupInv'
<1>1. CASE UNCHANGED vars
  BY <1>1 DEF vars, forest, GroupInv, ModulesInv, RegistersInv, Resolved
<1>2. CASE IdentifyRCAs
  BY <1>2, IdentifyRCAsStep
<1>3. CASE Next
  BY <1>3, AnalyseStep, LinkingStep, MergeGroupStep, KeepRegistersStep, MergeBesideStep,
     ResolveOverlapsStep, MergeInPlaceStep DEF Next
<1> QED
  BY <1>1, <1>2, <1>3 DEF AggregateNext

LEMMA ReplaceComesAlone ==
  ASSUME [AggregateNext]_<<vars, search>>, phase = "replace", ~UNCHANGED vars PROVE MergeInPlace
BY DEF AggregateNext, IdentifyRCAs, Next, Analyse, StartLinks, Compare, NextRegister, StartGroups,
       MergeGroup, KeepRegisters, MergeBeside, ResolveOverlaps

(* Merging in place of the parts brings no node into two modules that was  *)
(* not in two before (MergingAddsNoOverlap): where merge_modules left no   *)
(* overlap there is none at the end, with adders in the list or without.   *)
THEOREM MergingAddsNone == Aggregate => MergingAddsNoOverlap
<1>1. AggregateInit => GroupInv
  BY GroupStarts DEF AggregateInit
<1>2. GroupInv /\ [AggregateNext]_<<vars, search>> => GroupInv'
  BY GroupStep
<1> DEFINE AddsNone == phase = "replace" => Overlapped(modules') \subseteq Overlapped(modules)
<1>3. GroupInv /\ [AggregateNext]_<<vars, search>> => [AddsNone]_vars
  <2> SUFFICES ASSUME GroupInv, [AggregateNext]_<<vars, search>>, phase = "replace", ~UNCHANGED vars
               PROVE  AddsNone
    OBVIOUS
  <2>1. MergeInPlace
    BY ReplaceComesAlone
  <2> QED
    BY <2>1, MergeInPlaceAddsNoOverlap
<1> QED
  BY <1>1, <1>2, <1>3, PTL DEF Aggregate, MergingAddsNoOverlap

(* A good module that is merged with others comes to lie inside the module *)
(* that replaces it; one that is not merged stays.                         *)
LEMMA KeptInside ==
  ASSUME IsNetlist(netlist), NEW ms, Listed(ms), NEW k \in DOMAIN ms,
         \A l \in DOMAIN ms : ConeModule(netlist, ms[l]) /\ ~ms[l].is_bad,
         CutsNothing(ms, Joined(ms, k))
  PROVE  \E x \in Kept(ms) : ms[k].internals \subseteq After(ms)[x].internals
<1>1. /\ Listed(Killed(ms)) /\ Len(Killed(ms)) = Len(ms) /\ Len(ms) \in Nat
      /\ DOMAIN ms = 1..Len(ms) /\ IsFiniteSet(DOMAIN ms) /\ DOMAIN ms \in SUBSET Nat
  BY KilledFacts, ListedFacts
<1>2. /\ Listed(MergedModules(ms)) /\ DOMAIN MergedModules(ms) = 1..Len(MergedModules(ms))
      /\ Len(MergedModules(ms)) \in Nat /\ Firsts(ms) \in SUBSET Nat /\ IsFiniteSet(Firsts(ms))
      /\ DOMAIN MergedModules(ms) = 1..Cardinality(Firsts(ms))
  BY <1>1, MergedModulesFacts, ListedFacts
<1>3. DOMAIN After(ms) = 1..(Len(ms) + Len(MergedModules(ms)))
  BY <1>1, <1>2, Joint DEF After
<1>4. CASE Joined(ms, k) = {k}
  <2>1. k \in DOMAIN After(ms) /\ After(ms)[k] = Killed(ms)[k]
    BY <1>1, <1>2, <1>3, Joint DEF After
  <2>2. ~Killed(ms)[k].is_bad /\ Killed(ms)[k].internals = ms[k].internals
    BY <1>4, KilledFacts
  <2> QED
    BY <2>1, <2>2 DEF Kept
<1>5. CASE Joined(ms, k) # {k}
  <2>1. PICK f \in Firsts(ms) : Joined(ms, f) = Joined(ms, k)
    BY <1>1, <1>5, FirstOfGroup
  <2>2. PICK p \in 1..Cardinality(Firsts(ms)) : InOrder(Firsts(ms))[p] = f
    BY <1>2, InOrderFacts
  <2>3. MergedModules(ms)[p] = Merged(ms, Joined(ms, k))
    BY <1>2, <2>1, <2>2, MergedModulesFacts
  <2>4. /\ Joined(ms, k) \in SUBSET DOMAIN ms /\ k \in Joined(ms, k)
        /\ \A l \in Joined(ms, k) : ms[l].type # "ripple_addsub"
    BY <1>1, <1>5, JoinedIsLeast, AloneOrJoined
  <2>5. /\ ms[k].internals \subseteq Merged(ms, Joined(ms, k)).internals
        /\ ~Merged(ms, Joined(ms, k)).is_bad
    BY <2>4, MergedHoldsParts
  <2> DEFINE x == Len(ms) + p
  <2>6. /\ x \in (Len(ms) + 1)..(Len(ms) + Len(MergedModules(ms))) /\ x - Len(ms) = p
        /\ x \in DOMAIN After(ms)
    <3>1. p \in 1..Len(MergedModules(ms))
      BY <1>2
    <3> QED
      BY <1>1, <1>2, <1>3, <3>1
  <2>7. After(ms)[x] = MergedModules(ms)[p]
    <3> HIDE DEF x
    <3>1. After(ms)[x] = MergedModules(ms)[x - Len(ms)]
      BY <1>1, <1>2, <2>6, Joint DEF After
    <3> QED
      BY <2>6, <3>1
  <2> HIDE DEF x
  <2> QED
    BY <2>3, <2>5, <2>6, <2>7 DEF Kept
<1> QED
  BY <1>4, <1>5

LEMMA MergeInPlaceKeeps ==
  ASSUME GroupInv, MergeInPlace, NEW k \in DOMAIN modules, CutsNothing(modules, Joined(modules, k))
  PROVE  \E k1 \in DOMAIN modules' : modules[k].internals \subseteq modules'[k1].internals
<1>1. phase = "replace" /\ modules' = Selected(After(modules), Kept(modules))
  BY DEF MergeInPlace, After, Kept
<1>2. PICK ms : ms = modules
  OBVIOUS
<1>3. /\ Listed(ms) /\ \A l \in DOMAIN ms : ConeModule(netlist, ms[l]) /\ ~ms[l].is_bad
      /\ IsNetlist(netlist) /\ k \in DOMAIN ms /\ CutsNothing(ms, Joined(ms, k))
  BY <1>1, <1>2, NetlistsAssumption DEF GroupInv, ModulesInv, Resolved
<1>4. PICK x \in Kept(ms) : ms[k].internals \subseteq After(ms)[x].internals
  BY <1>3, KeptInside
<1>5. Kept(ms) \in SUBSET Nat /\ IsFiniteSet(Kept(ms))
  <2>1. Listed(After(ms))
    BY <1>3, KilledFacts, MergedModulesFacts, Joint DEF After
  <2>2. Kept(ms) \in SUBSET DOMAIN After(ms)
    BY DEF Kept
  <2> QED
    BY <2>1, <2>2, ListedFacts, FS_Subset
<1>6. PICK p \in 1..Cardinality(Kept(ms)) : InOrder(Kept(ms))[p] = x
  BY <1>5, InOrderFacts
<1>7. p \in DOMAIN Selected(After(ms), Kept(ms)) /\ Selected(After(ms), Kept(ms))[p] = After(ms)[x]
  <2>1. DOMAIN Selected(After(ms), Kept(ms)) = 1..Cardinality(Kept(ms))
    BY <1>5, SelectedFacts
  <2>2. Selected(After(ms), Kept(ms))[p] = After(ms)[InOrder(Kept(ms))[p]]
    BY <1>5, SelectedFacts
  <2> QED
    BY <1>6, <2>1, <2>2
<1> QED
  BY <1>1, <1>2, <1>4, <1>7

(* Merging in place loses no node, unless it cuts off what leads there: a  *)
(* module in the list before it lies inside one of those after it, for     *)
(* which the parts of its group must have only outputs in each other, have *)
(* no input that nothing inside them reads, and no ring of gates.          *)
THEOREM MergingLosesNothing == Aggregate => MergingKeepsNodes
<1>1. AggregateInit => GroupInv
  BY GroupStarts DEF AggregateInit
<1>2. GroupInv /\ [AggregateNext]_<<vars, search>> => GroupInv'
  BY GroupStep
<1> DEFINE Keeps == phase = "replace" =>
                      \A k \in DOMAIN modules :
                        CutsNothing(modules, Joined(modules, k)) =>
                          \E k1 \in DOMAIN modules' : modules[k].internals \subseteq modules'[k1].internals
<1>3. GroupInv /\ [AggregateNext]_<<vars, search>> => [Keeps]_vars
  <2> SUFFICES ASSUME GroupInv, [AggregateNext]_<<vars, search>>, phase = "replace", ~UNCHANGED vars
               PROVE  Keeps
    OBVIOUS
  <2>1. MergeInPlace
    BY ReplaceComesAlone
  <2> QED
    BY <2>1, MergeInPlaceKeeps
<1> QED
  BY <1>1, <1>2, <1>3, PTL DEF Aggregate, MergingKeepsNodes
-----------------------------------------------------------------------------
(* Registers with the same ungrouped inputs come into one group.           *)
(*                                                                         *)
(* uf_link may move any register, but it never moves the second: as the    *)
(* list of the first begins that of the second, whatever raised the level  *)
(* of the first has raised that of the second as well.  So the ones still  *)
(* to come are roots, and in its turn a register is moved to each that its *)
(* list begins and stays with the last.                                    *)
Begins(a, b) == SameUngrouped(newmods[a], newmods[b])
(* The registers that a has been compared with and moved to, and itself.   *)
MovedTo(a) == {a} \cup {b \in Reg : a < b /\ Begins(a, b) /\ (a < i \/ (a = i /\ b < j))}

LinkTypes ==
  /\ Listed(newmods)
  /\ i \in Nat \ {0} /\ j \in Nat /\ i < j
  /\ repr \in [Reg -> Reg] /\ level \in [Reg -> Nat]
WithTheLast == \A a \in Reg : repr[a] \in MovedTo(a) /\ \A b \in MovedTo(a) : b <= repr[a]
LevelOfFirst ==
  \A b \in Reg : i \in Reg /\ i < b /\ Begins(i, b) =>
    level[i] <= level[b] /\ (b < j => level[i] < level[b])
LevelsOfOthers ==
  \A a, b \in Reg : i \in Reg /\ i < a /\ a < b /\ Begins(a, b) =>
    \/ level[a] <= level[b]
    \/ j <= b /\ Begins(i, b) /\ level[a] <= level[i] + 1
LinkInv == phase = "link" => LinkTypes /\ WithTheLast /\ LevelOfFirst /\ LevelsOfOthers

LEMMA BeginsIsTransitive ==
  ASSUME NEW a, NEW b, NEW c, Begins(a, b), Begins(b, c) PROVE Begins(a, c)
BY DEF Begins, SameUngrouped

LEMMA RepFacts ==
  ASSUME NEW rp \in [Reg -> Reg]
  PROVE  \A s \in Reg : Rep(rp, s) = IF rp[s] = s THEN s ELSE Rep(rp, rp[s])
<1> DEFINE Solves(f) == f = [s \in Reg |-> IF rp[s] = s THEN s ELSE f[rp[s]]]
           climb == CHOOSE f : Solves(f)
           Closed(S) == \A x \in S : rp[x] \in S
           Above(s) == {t \in Reg : \A S \in SUBSET Reg : s \in S /\ Closed(S) => t \in S}
           Roots(s) == {t \in Above(s) : rp[t] = t}
           f == [s \in Reg |-> IF rp[s] = s THEN s ELSE CHOOSE t : t \in Roots(s)]
<1>1. ASSUME NEW s \in Reg, rp[s] # s PROVE Roots(s) = Roots(rp[s])
  <2>1. rp[s] \in Reg
    OBVIOUS
  <2>2. Above(rp[s]) \subseteq Above(s)
    OBVIOUS
  <2>3. ASSUME NEW t \in Above(s), t # s PROVE t \in Above(rp[s])
    <3> SUFFICES ASSUME NEW S \in SUBSET Reg, rp[s] \in S, Closed(S) PROVE t \in S
      OBVIOUS
    <3>1. Closed(S \cup {s}) /\ S \cup {s} \in SUBSET Reg
      OBVIOUS
    <3> QED
      BY <2>3, <3>1
  <2> QED
    BY <1>1, <2>2, <2>3
<1>2. ASSUME NEW s \in Reg, rp[s] = s PROVE \A t : t \in Roots(s) <=> t = s
  <2>1. Closed({s}) /\ {s} \in SUBSET Reg
    BY <1>2
  <2>2. s \in Above(s)
    OBVIOUS
  <2> QED
    BY <1>2, <2>1, <2>2
<1>3. ASSUME NEW s \in Reg PROVE f[s] = IF rp[s] = s THEN s ELSE f[rp[s]]
  <2>1. CASE rp[s] = s
    BY <2>1
  <2>2. CASE rp[s] # s
    <3>1. f[s] = CHOOSE t : t \in Roots(s)
      BY <2>2
    <3>2. Roots(s) = Roots(rp[s]) /\ rp[s] \in Reg
      BY <1>1, <2>2
    <3>3. CASE rp[rp[s]] = rp[s]
      <4>1. \A t : t \in Roots(rp[s]) <=> t = rp[s]
        BY <1>2, <3>2, <3>3
      <4>2. f[rp[s]] = rp[s]
        BY <3>2, <3>3
      <4> HIDE DEF f, Roots
      <4> QED
        BY <2>2, <3>1, <3>2, <4>1, <4>2
    <3>4. CASE rp[rp[s]] # rp[s]
      <4>1. f[rp[s]] = CHOOSE t : t \in Roots(rp[s])
        BY <3>2, <3>4
      <4> HIDE DEF f, Roots
      <4> QED
        BY <2>2, <3>1, <3>2, <4>1
    <3> QED
      BY <3>3, <3>4
  <2> QED
    BY <2>1, <2>2
<1>4. Solves(f)
  <2>1. f = [s \in Reg |-> f[s]]
    OBVIOUS
  <2> HIDE DEF f
  <2> QED
    BY <1>3, <2>1
<1>5. Solves(climb)
  <2> HIDE DEF f, Solves
  <2> QED
    BY <1>4
<1>6. \A s \in Reg : Rep(rp, s) = climb[s]
  BY DEF Rep
<1>7. \A s \in Reg : rp[s] \in Reg
  OBVIOUS
<1>8. \A s \in Reg : climb[s] = IF rp[s] = s THEN s ELSE climb[rp[s]]
  <2> HIDE DEF climb
  <2> QED
    BY <1>5
<1> HIDE DEF climb
<1> QED
  BY <1>6, <1>7, <1>8

(* Compression changes nothing where a register is one below its root.     *)
LEMMA FoundChangesNothing ==
  ASSUME NEW rp \in [Reg -> Reg], NEW r \in Reg, rp[rp[r]] = rp[r]
  PROVE  Found(rp, r) = rp
<1> DEFINE Solves(f) == f = [s \in Reg |-> {s} \cup IF rp[s] = s THEN {} ELSE f[rp[s]]]
           way == CHOOSE f : Solves(f)
           Closed(S) == \A x \in S : rp[x] \in S
           f == [s \in Reg |-> {t \in Reg : \A S \in SUBSET Reg : s \in S /\ Closed(S) => t \in S}]
<1>1. ASSUME NEW s \in Reg PROVE f[s] = {s} \cup IF rp[s] = s THEN {} ELSE f[rp[s]]
  <2>1. rp[s] \in Reg /\ s \in f[s] /\ f[rp[s]] \subseteq f[s]
    OBVIOUS
  <2>2. ASSUME NEW t \in f[s], t # s PROVE rp[s] # s /\ t \in f[rp[s]]
    <3>1. rp[s] # s
      <4>1. rp[s] = s => Closed({s}) /\ {s} \in SUBSET Reg
        OBVIOUS
      <4> QED
        BY <2>2, <4>1
    <3>2. ASSUME NEW S \in SUBSET Reg, rp[s] \in S, Closed(S) PROVE t \in S
      <4>1. Closed(S \cup {s}) /\ S \cup {s} \in SUBSET Reg
        BY <3>2
      <4> QED
        BY <2>2, <4>1
    <3> QED
      BY <2>1, <2>2, <3>1, <3>2
  <2> HIDE DEF f
  <2> QED
    BY <2>1, <2>2
<1>2. Solves(f)
  <2>1. f = [s \in Reg |-> f[s]]
    OBVIOUS
  <2> HIDE DEF f
  <2> QED
    BY <1>1, <2>1
<1>3. Solves(way)
  <2> HIDE DEF f, Solves
  <2> QED
    BY <1>2
<1>4. Found(rp, r) = [s \in Reg |-> IF s \in way[r] THEN Rep(rp, r) ELSE rp[s]]
  BY DEF Found
<1>5. \A s \in Reg : way[s] = {s} \cup IF rp[s] = s THEN {} ELSE way[rp[s]]
  <2> HIDE DEF way
  <2> QED
    BY <1>3
<1> HIDE DEF way
<1>6. way[r] = {r, rp[r]}
  BY <1>5
<1>7. \A s \in way[r] : Rep(rp, r) = rp[s]
  BY <1>6, RepFacts
<1>8. \A s \in Reg : (IF s \in way[r] THEN Rep(rp, r) ELSE rp[s]) = rp[s]
  BY <1>7
<1>9. rp = [s \in Reg |-> rp[s]]
  OBVIOUS
<1> QED
  BY <1>4, <1>8, <1>9

LEMMA LinksStart ==
  ASSUME GroupInv, StartLinks PROVE LinkInv'
<1>1. /\ Listed(newmods) /\ newmods' = newmods /\ i' = 1 /\ j' = 2
      /\ repr' = [r \in Reg |-> r] /\ level' = [r \in Reg |-> 0]
  BY DEF StartLinks, GroupInv, RegistersInv
<1>2. Reg \in SUBSET Nat /\ Reg' = Reg
  BY <1>1, ListedFacts DEF Reg
<1>3. LinkTypes'
  BY <1>1, <1>2 DEF LinkTypes
<1>4. \A a \in Reg : MovedTo(a)' = {a}
  <2> SUFFICES ASSUME NEW a \in Reg PROVE MovedTo(a)' = {a}
    OBVIOUS
  <2>1. \A b \in Reg : ~(a < b /\ (a < 1 \/ (a = 1 /\ b < 2)))
    <3>1. a \in 1..Len(newmods) /\ Len(newmods) \in Nat /\ Reg = 1..Len(newmods)
      BY <1>1, ListedFacts DEF Reg
    <3> QED
      BY <3>1
  <2> QED
    BY <1>1, <1>2, <2>1 DEF MovedTo
<1>5. WithTheLast'
  BY <1>1, <1>2, <1>4 DEF WithTheLast
<1>6. LevelOfFirst' /\ LevelsOfOthers'
  BY <1>1, <1>2 DEF LevelOfFirst, LevelsOfOthers
<1> QED
  BY <1>3, <1>5, <1>6 DEF LinkInv

(* What Compare does while the invariant holds.                            *)
LEMMA CompareLinks ==
  ASSUME LinkInv, Compare
  PROVE  /\ repr[i] < j /\ repr[j] = j
         /\ IF Begins(i, j)
            THEN /\ repr' = [repr EXCEPT ![i] = j]
                 /\ level' = [level EXCEPT ![j] = IF level[i] = level[j] THEN @ + 1 ELSE @]
            ELSE repr' = repr /\ level' = level
<1>1. phase = "link" /\ i \in Reg /\ j \in Reg
  BY DEF Compare
<1>2. LinkTypes /\ WithTheLast /\ LevelOfFirst
  BY <1>1 DEF LinkInv
<1>3. Reg \in SUBSET Nat
  BY <1>2, ListedFacts DEF LinkTypes, Reg
<1>4. \A a \in Reg : i < a => repr[a] = a
  <2> SUFFICES ASSUME NEW a \in Reg, i < a PROVE repr[a] = a
    OBVIOUS
  <2>1. MovedTo(a) = {a}
    BY <1>1, <1>3 DEF MovedTo
  <2> QED
    BY <1>2, <2>1 DEF WithTheLast
<1>5. repr[j] = j /\ i < j
  BY <1>1, <1>2, <1>4 DEF LinkTypes
<1>6. repr[i] \in Reg /\ repr[i] < j /\ repr[repr[i]] = repr[i]
  <2>1. repr[i] = i \/ (repr[i] \in Reg /\ i < repr[i] /\ repr[i] < j)
    BY <1>1, <1>2, <1>3 DEF WithTheLast, MovedTo
  <2> QED
    BY <1>1, <1>4, <1>5, <2>1
<1>7. Found(Found(repr, i), j) = repr
  BY <1>1, <1>2, <1>5, <1>6, FoundChangesNothing DEF LinkTypes
<1>8. repr[i] # repr[j]
  BY <1>1, <1>3, <1>5, <1>6
<1>9. CASE ~Begins(i, j)
  BY <1>5, <1>6, <1>7, <1>9 DEF Compare, Begins
<1>10. CASE Begins(i, j)
  <2>1. level[i] <= level[j] /\ level[i] \in Nat /\ level[j] \in Nat /\ level \in [Reg -> Nat]
    BY <1>1, <1>2, <1>5, <1>10 DEF LevelOfFirst, LinkTypes
  <2>2. ~Higher(i, j)
    BY <2>1 DEF Higher
  <2>3. repr' = Linked(repr, i, j) /\ level' = Raised(i, j)
    BY <1>7, <1>8, <1>10 DEF Compare, Begins
  <2>4. repr' = [repr EXCEPT ![i] = j]
    BY <2>2, <2>3 DEF Linked
  <2>5. level' = [level EXCEPT ![j] = IF level[i] = level[j] THEN @ + 1 ELSE @]
    BY <2>1, <2>2, <2>3 DEF Raised
  <2> QED
    BY <1>5, <1>6, <1>10, <2>4, <2>5
<1> QED
  BY <1>9, <1>10

LEMMA CompareKeepsLinks ==
  ASSUME LinkInv, Compare PROVE LinkInv'
<1>1. phase = "link" /\ i \in Reg /\ j \in Reg /\ newmods' = newmods /\ i' = i /\ j' = j + 1
  BY DEF Compare
<1>2. LinkTypes /\ WithTheLast /\ LevelOfFirst /\ LevelsOfOthers
  BY <1>1 DEF LinkInv
<1>3. Reg' = Reg /\ Reg \in SUBSET Nat /\ (\A a, b : Begins(a, b)' <=> Begins(a, b))
  BY <1>1, <1>2, ListedFacts DEF LinkTypes, Reg, Begins
<1>4. i \in Nat /\ j \in Nat /\ i < j /\ repr \in [Reg -> Reg] /\ level \in [Reg -> Nat]
  BY <1>2 DEF LinkTypes
<1>5. \A a \in Reg : MovedTo(a)' = IF a = i /\ Begins(i, j) THEN MovedTo(a) \cup {j} ELSE MovedTo(a)
  <2> SUFFICES ASSUME NEW a \in Reg
               PROVE  MovedTo(a)' = IF a = i /\ Begins(i, j) THEN MovedTo(a) \cup {j} ELSE MovedTo(a)
    OBVIOUS
  <2>1. \A b \in Reg : b < j + 1 <=> b < j \/ b = j
    BY <1>3, <1>4
  <2>2. MovedTo(a)' = {a} \cup {b \in Reg : a < b /\ Begins(a, b) /\ (a < i \/ (a = i /\ b < j + 1))}
    BY <1>1, <1>3 DEF MovedTo
  <2>3. MovedTo(a) = {a} \cup {b \in Reg : a < b /\ Begins(a, b) /\ (a < i \/ (a = i /\ b < j))}
    BY DEF MovedTo
  <2>4. ~(i < i)
    BY <1>4
  <2> QED
    BY <1>1, <1>4, <2>1, <2>2, <2>3, <2>4
<1>6. CASE ~Begins(i, j)
  <2>1. repr' = repr /\ level' = level
    BY <1>6, CompareLinks
  <2>2. LinkTypes'
    BY <1>1, <1>2, <1>3, <1>4, <2>1 DEF LinkTypes
  <2>3. WithTheLast'
    BY <1>2, <1>3, <1>5, <1>6, <2>1 DEF WithTheLast
  <2>4. \A b \in Reg : (b < j + 1 => b < j \/ b = j) /\ (j <= b => b = j \/ j + 1 <= b)
    BY <1>3, <1>4
  <2>5. LevelOfFirst'
    BY <1>1, <1>2, <1>3, <1>6, <2>1, <2>4 DEF LevelOfFirst
  <2>6. LevelsOfOthers'
    BY <1>1, <1>2, <1>3, <1>6, <2>1, <2>4 DEF LevelsOfOthers
  <2> QED
    BY <2>2, <2>3, <2>5, <2>6 DEF LinkInv
<1>7. CASE Begins(i, j)
  <2>1. /\ repr[i] < j /\ repr' = [repr EXCEPT ![i] = j]
        /\ level' = [level EXCEPT ![j] = IF level[i] = level[j] THEN @ + 1 ELSE @]
    BY <1>7, CompareLinks
  <2>2. /\ level[i] \in Nat /\ level[j] \in Nat /\ level[i] <= level[j]
        /\ \A b \in Reg : level[b] \in Nat
    BY <1>1, <1>2, <1>4, <1>7 DEF LevelOfFirst
  <2>3. /\ level' \in [Reg -> Nat] /\ level'[j] >= level[j] /\ level'[j] >= level[i] + 1
        /\ (level'[j] = level[j] \/ level'[j] = level[i] + 1)
        /\ \A b \in Reg : b # j => level'[b] = level[b]
    BY <1>1, <1>4, <2>1, <2>2
  <2>4. LinkTypes'
    BY <1>1, <1>2, <1>3, <1>4, <2>1, <2>3 DEF LinkTypes
  <2>5. WithTheLast'
    <3> SUFFICES ASSUME NEW a \in Reg
                 PROVE  repr'[a] \in MovedTo(a)' /\ \A b \in MovedTo(a)' : b <= repr'[a]
      BY <1>3 DEF WithTheLast
    <3>1. repr[a] \in MovedTo(a) /\ \A b \in MovedTo(a) : b <= repr[a]
      BY <1>2 DEF WithTheLast
    <3>2. CASE a = i
      <4>1. repr'[a] = j /\ MovedTo(a)' = MovedTo(a) \cup {j}
        BY <1>1, <1>4, <1>5, <1>7, <2>1, <3>2
      <4>2. \A b \in MovedTo(a) : b \in Nat /\ b <= j
        <5>1. MovedTo(a) \subseteq Reg /\ repr[a] \in Nat
          BY <1>3, <1>4 DEF MovedTo
        <5>2. \A b \in MovedTo(a) : b \in Nat /\ b <= repr[a] /\ repr[a] < j
          BY <1>3, <2>1, <3>1, <3>2, <5>1
        <5>3. \A m, n \in Nat : m <= n /\ n < j => m <= j
          BY <1>4
        <5> QED
          BY <5>1, <5>2, <5>3
      <4> QED
        BY <1>4, <4>1, <4>2
    <3>3. CASE a # i
      BY <1>4, <1>5, <2>1, <3>1, <3>3
    <3> QED
      BY <3>2, <3>3
  <2>6. LevelOfFirst'
    <3> SUFFICES ASSUME NEW b \in Reg, i < b, Begins(i, b)
                 PROVE  level'[i] <= level'[b] /\ (b < j + 1 => level'[i] < level'[b])
      BY <1>1, <1>3 DEF LevelOfFirst
    <3>1. level[i] <= level[b] /\ (b < j => level[i] < level[b]) /\ level'[i] = level[i]
      BY <1>1, <1>2, <1>3, <1>4, <2>3 DEF LevelOfFirst
    <3>2. CASE b = j
      BY <2>2, <2>3, <3>1, <3>2
    <3>3. CASE b # j
      BY <1>3, <1>4, <2>3, <3>1, <3>3
    <3> QED
      BY <3>2, <3>3
  <2>7. LevelsOfOthers'
    <3> SUFFICES ASSUME NEW a \in Reg, NEW b \in Reg, i < a, a < b, Begins(a, b)
                 PROVE  level'[a] <= level'[b] \/ (j + 1 <= b /\ Begins(i, b) /\ level'[a] <= level'[i] + 1)
      BY <1>1, <1>3 DEF LevelsOfOthers
    <3>1. level[a] <= level[b] \/ (j <= b /\ Begins(i, b) /\ level[a] <= level[i] + 1)
      BY <1>1, <1>2 DEF LevelsOfOthers
    <3>2. level'[i] = level[i] /\ a \in Nat /\ b \in Nat /\ level[a] \in Nat /\ level[b] \in Nat
      BY <1>1, <1>3, <1>4, <2>2, <2>3
    <3>3. CASE a = j
      <4>1. Begins(i, b) /\ j + 1 <= b /\ level'[b] = level[b]
        BY <1>4, <1>7, <2>3, <3>2, <3>3, BeginsIsTransitive
      <4> QED
        BY <2>2, <2>3, <3>1, <3>2, <3>3, <4>1
    <3>4. CASE b = j
      <4>1. level'[a] = level[a]
        BY <3>2, <2>3, <3>4
      <4> QED
        BY <2>2, <2>3, <3>1, <3>2, <3>4, <4>1
    <3>5. CASE a # j /\ b # j
      <4>1. level'[a] = level[a] /\ level'[b] = level[b]
        BY <2>3, <3>5
      <4> QED
        BY <1>4, <3>1, <3>2, <3>5, <4>1
    <3> QED
      BY <3>3, <3>4, <3>5
  <2> QED
    BY <2>4, <2>5, <2>6, <2>7 DEF LinkInv
<1> QED
  BY <1>6, <1>7

LEMMA NextRegisterKeepsLinks ==
  ASSUME LinkInv, NextRegister PROVE LinkInv'
<1>1. /\ phase = "link" /\ i \in Reg /\ j \notin Reg /\ newmods' = newmods /\ i' = i + 1 /\ j' = i + 2
      /\ repr' = repr /\ level' = level
  BY DEF NextRegister, forest
<1>2. LinkTypes /\ WithTheLast /\ LevelOfFirst /\ LevelsOfOthers
  BY <1>1 DEF LinkInv
<1>3. /\ Reg' = Reg /\ Reg = 1..Len(newmods) /\ Len(newmods) \in Nat
      /\ \A a, b : Begins(a, b)' <=> Begins(a, b)
  BY <1>1, <1>2, ListedFacts DEF LinkTypes, Reg, Begins
<1>4. i \in Nat \ {0} /\ j \in Nat /\ i < j /\ level \in [Reg -> Nat]
  BY <1>2 DEF LinkTypes
<1>5. \A b \in Reg : b < j /\ b \in Nat
  BY <1>1, <1>3, <1>4
<1>6. LinkTypes'
  BY <1>1, <1>2, <1>3, <1>4 DEF LinkTypes
<1>7. \A a \in Reg : MovedTo(a)' = MovedTo(a)
  <2> SUFFICES ASSUME NEW a \in Reg PROVE MovedTo(a)' = MovedTo(a)
    OBVIOUS
  <2>1. \A b \in Reg : a < b => ((a < i + 1 \/ (a = i + 1 /\ b < i + 2)) <=> (a < i \/ (a = i /\ b < j)))
    BY <1>4, <1>5
  <2>2. MovedTo(a)' = {a} \cup {b \in Reg : a < b /\ Begins(a, b) /\ (a < i + 1 \/ (a = i + 1 /\ b < i + 2))}
    BY <1>1, <1>3 DEF MovedTo
  <2> QED
    BY <2>1, <2>2 DEF MovedTo
<1>8. WithTheLast'
  BY <1>1, <1>2, <1>3, <1>7 DEF WithTheLast
<1>9. \A a, b \in Reg : i < a /\ a < b /\ Begins(a, b) => level[a] <= level[b]
  BY <1>1, <1>2, <1>4, <1>5 DEF LevelsOfOthers
<1>10. LevelOfFirst'
  <2>1. \A b \in Reg : i + 1 < b => ~(b < i + 2) /\ i < i + 1
    BY <1>4, <1>5
  <2> QED
    BY <1>1, <1>3, <1>9, <2>1 DEF LevelOfFirst
<1>11. LevelsOfOthers'
  <2>1. \A a \in Reg : i + 1 < a => i < a
    BY <1>4, <1>5
  <2> QED
    BY <1>1, <1>3, <1>9, <2>1 DEF LevelsOfOthers
<1> QED
  BY <1>6, <1>8, <1>10, <1>11 DEF LinkInv

LEMMA GroupsOfEquals ==
  ASSUME LinkInv, StartGroups PROVE EqualsGrouped'
<1>1. /\ phase = "link" /\ i \notin Reg /\ newmods' = newmods /\ repr' = [r \in Reg |-> Rep(repr, r)]
  BY DEF StartGroups
<1>2. LinkTypes /\ WithTheLast
  BY <1>1 DEF LinkInv
<1>3. Reg' = Reg /\ Reg = 1..Len(newmods) /\ Len(newmods) \in Nat /\ repr \in [Reg -> Reg]
  BY <1>1, <1>2, ListedFacts DEF LinkTypes, Reg
<1>4. \A a \in Reg : a < i
  BY <1>1, <1>2, <1>3 DEF LinkTypes
<1>5. ASSUME NEW r1 \in Reg, NEW r2 \in Reg, Ungrouped(newmods[r1]) = Ungrouped(newmods[r2]), r1 < r2
      PROVE  Rep(repr, r1) = Rep(repr, r2)
  <2>1. Begins(r1, r2) /\ \A b : Begins(r1, b) <=> Begins(r2, b)
    BY <1>5 DEF Begins, SameUngrouped
  <2>2. repr[r2] \in MovedTo(r1)
    <3>1. repr[r2] \in MovedTo(r2) /\ r1 \in Nat /\ r2 \in Nat /\ repr[r2] \in Reg
      BY <1>2, <1>3 DEF WithTheLast
    <3>2. repr[r2] = r2 \/ (r2 < repr[r2] /\ Begins(r2, repr[r2]))
      BY <3>1 DEF MovedTo
    <3>3. r1 < repr[r2] /\ Begins(r1, repr[r2])
      BY <1>3, <1>5, <2>1, <3>1, <3>2
    <3> QED
      BY <1>4, <3>1, <3>3 DEF MovedTo
  <2>3. repr[r1] \in MovedTo(r2)
    <3>1. repr[r1] \in MovedTo(r1) /\ repr[r1] \in Reg /\ r2 \in MovedTo(r1)
      BY <1>2, <1>3, <1>4, <1>5, <2>1 DEF WithTheLast, MovedTo
    <3>2. r2 <= repr[r1]
      BY <1>2, <3>1 DEF WithTheLast
    <3>3. Begins(r1, repr[r1])
      BY <1>3, <1>5, <3>1, <3>2 DEF MovedTo
    <3>4. repr[r1] = r2 \/ r2 < repr[r1]
      BY <1>3, <3>1, <3>2
    <3> QED
      BY <1>4, <2>1, <3>1, <3>3, <3>4 DEF MovedTo
  <2>4. repr[r1] = repr[r2]
    <3>1. repr[r1] <= repr[r2] /\ repr[r2] <= repr[r1]
      BY <1>2, <2>2, <2>3 DEF WithTheLast
    <3>2. repr[r1] \in 1..Len(newmods) /\ repr[r2] \in 1..Len(newmods)
      BY <1>3
    <3> QED
      BY <1>3, <3>1, <3>2
  <2>5. repr[r1] # r1
    <3>1. r2 \in MovedTo(r1)
      BY <1>4, <1>5, <2>1 DEF MovedTo
    <3>2. r2 <= repr[r1]
      BY <1>2, <3>1 DEF WithTheLast
    <3> QED
      BY <1>3, <1>5, <3>2
  <2>6. Rep(repr, r1) = Rep(repr, repr[r2])
    BY <1>3, <2>4, <2>5, RepFacts
  <2>7. Rep(repr, r2) = Rep(repr, repr[r2])
    BY <1>3, RepFacts
  <2> QED
    BY <2>6, <2>7
<1>6. ASSUME NEW r1 \in Reg, NEW r2 \in Reg, Ungrouped(newmods[r1]) = Ungrouped(newmods[r2])
      PROVE  Rep(repr, r1) = Rep(repr, r2)
  <2>1. r1 < r2 \/ r1 = r2 \/ r2 < r1
    BY <1>3
  <2> QED
    BY <1>5, <1>6, <2>1
<1> QED
  BY <1>1, <1>3, <1>6 DEF EqualsGrouped, Reg, Ungrouped

LEMMA LinkStep ==
  ASSUME GroupInv, LinkInv, EqualsGrouped, [AggregateNext]_<<vars, search>>
  PROVE  LinkInv' /\ EqualsGrouped'
<1>1. CASE UNCHANGED vars
  <2>1. LinkInv'
    BY <1>1 DEF vars, forest, LinkInv, LinkTypes, WithTheLast, LevelOfFirst, LevelsOfOthers, MovedTo, Begins, Reg
  <2>2. EqualsGrouped'
    BY <1>1 DEF vars, forest, EqualsGrouped, Ungrouped, Reg
  <2> QED
    BY <2>1, <2>2
<1>2. CASE phase' \notin {"link", "group"}
  BY <1>2 DEF LinkInv, EqualsGrouped
<1>3. CASE StartLinks
  BY <1>3, LinksStart DEF StartLinks, EqualsGrouped
<1>4. CASE Compare
  BY <1>4, CompareKeepsLinks DEF Compare, EqualsGrouped
<1>5. CASE NextRegister
  BY <1>5, NextRegisterKeepsLinks DEF NextRegister, EqualsGrouped
<1>6. CASE StartGroups
  BY <1>6, GroupsOfEquals DEF StartGroups, LinkInv
<1>7. CASE MergeGroup
  <2>1. phase = "group" /\ newmods' = newmods /\ repr' = repr /\ phase' \in {"group", "abort"}
    BY <1>7 DEF MergeGroup, forest
  <2> QED
    BY <2>1 DEF LinkInv, EqualsGrouped, Ungrouped, Reg
<1>8. CASE IdentifyRCAs
  BY <1>2, <1>8 DEF IdentifyRCAs
<1>9. CASE Analyse \/ KeepRegisters \/ MergeBeside \/ ResolveOverlaps \/ MergeInPlace
  <2>1. phase' \notin {"link", "group"}
    BY <1>9 DEF Analyse, KeepRegisters, MergeBeside, ResolveOverlaps, MergeInPlace
  <2> QED
    BY <1>2, <2>1
<1> QED
  BY <1>1, <1>3, <1>4, <1>5, <1>6, <1>7, <1>8, <1>9 DEF AggregateNext, Next

(* Registers with the same ungrouped inputs come into one group, whatever  *)
(* other registers there are, in whatever order, and although uf_link      *)
(* takes registers from where they were linked before.                     *)
THEOREM EqualsStayTogether == Aggregate => []EqualsGrouped
<1>1. AggregateInit => GroupInv /\ LinkInv /\ EqualsGrouped
  <2>1. AggregateInit => phase = "analyse"
    BY DEF AggregateInit, Init
  <2> QED
    BY <2>1, GroupStarts DEF AggregateInit, LinkInv, EqualsGrouped
<1>2. GroupInv /\ LinkInv /\ EqualsGrouped /\ [AggregateNext]_<<vars, search>>
        => (GroupInv /\ LinkInv /\ EqualsGrouped)'
  BY GroupStep, LinkStep
<1> QED
  BY <1>1, <1>2, PTL DEF Aggregate
-----------------------------------------------------------------------------
-----------------------------------------------------------------------------
(* Modules are typed, and the groups of one hold inputs of it only.        *)
WellMade(m) == m \in IdModule /\ m.sel \cup m.aux \subseteq m.inputs
AllWellMade(ms) == ms \in Seq(IdModule) /\ \A k \in DOMAIN ms : WellMade(ms[k])

LEMMA NodesAreFinite == IsFiniteSet(Node) /\ Node \in SUBSET Nat
<1>1. IsFiniteSet(1..NumNodes)
  BY NumNodesAssumption, FS_Interval
<1> QED
  BY <1>1, NumNodesAssumption DEF Node

LEMMA NewIsWellMade ==
  ASSUME IsNetlist(netlist), NEW type \in Type, NEW outputs \in SUBSET Node, NEW inputs \in SUBSET Node,
         NEW sel, sel \subseteq inputs, NEW aux, aux \subseteq inputs
  PROVE  /\ WellMade(NewModule(netlist, type, outputs, inputs, sel, aux))
         /\ NewModule(netlist, type, outputs, inputs, sel, aux).sel = sel
         /\ NewModule(netlist, type, outputs, inputs, sel, aux).type = type
<1> DEFINE internals == Cone(netlist, outputs, inputs)
           m == NewModule(netlist, type, outputs, inputs, sel, aux)
<1>1. internals \in SUBSET Node
  BY ConeIsLeast DEF IsNetlist
<1>2. Bad(netlist, outputs, internals) \in BOOLEAN
  BY DEF Bad
<1>3. m = [type |-> type, outputs |-> outputs, inputs |-> inputs, sel |-> sel, aux |-> aux,
           internals |-> internals, is_bad |-> Bad(netlist, outputs, internals)]
  BY DEF NewModule
<1> HIDE DEF m, internals
<1>4. sel \in SUBSET Node /\ aux \in SUBSET Node
  OBVIOUS
<1>5. m \in IdModule
  BY <1>1, <1>2, <1>3, <1>4 DEF IdModule
<1>6. m.sel = sel /\ m.aux = aux /\ m.inputs = inputs /\ m.type = type
  BY <1>3
<1>7. WellMade(m)
  BY <1>5, <1>6 DEF WellMade
<1> QED
  BY <1>6, <1>7 DEF m

LEMMA WellMadeAppended ==
  ASSUME NEW ms, AllWellMade(ms), NEW m, WellMade(m)
  PROVE  /\ AllWellMade(Append(ms, m)) /\ DOMAIN Append(ms, m) = 1..(Len(ms) + 1) /\ Len(Append(ms, m)) = Len(ms) + 1
         /\ \A k \in DOMAIN ms : Append(ms, m)[k] = ms[k] /\ k \in DOMAIN Append(ms, m)
         /\ Append(ms, m)[Len(ms) + 1] = m
<1>1. ms \in Seq(IdModule) /\ m \in IdModule
  BY DEF AllWellMade, WellMade
<1>2. /\ Append(ms, m) \in Seq(IdModule) /\ DOMAIN Append(ms, m) = 1..(Len(ms) + 1) /\ Len(Append(ms, m)) = Len(ms) + 1
      /\ \A k \in DOMAIN ms : Append(ms, m)[k] = ms[k] /\ k \in 1..(Len(ms) + 1)
      /\ Append(ms, m)[Len(ms) + 1] = m
      /\ DOMAIN ms = 1..Len(ms) /\ Len(ms) \in Nat
  BY <1>1
<1>3. ASSUME NEW k \in 1..(Len(ms) + 1) PROVE WellMade(Append(ms, m)[k])
  <2>1. k \in 1..Len(ms) \/ k = Len(ms) + 1
    BY <1>2
  <2> QED
    BY <1>2, <2>1 DEF AllWellMade
<1> QED
  BY <1>2, <1>3 DEF AllWellMade

LEMMA WellMadeJoint ==
  ASSUME NEW ms, AllWellMade(ms), NEW ns, AllWellMade(ns)
  PROVE  AllWellMade(ms \o ns)
<1>1. ms \in Seq(IdModule) /\ ns \in Seq(IdModule)
  BY DEF AllWellMade
<1>2. ms \o ns \in Seq(IdModule)
  BY <1>1
<1>3. ASSUME NEW k \in DOMAIN (ms \o ns) PROVE WellMade((ms \o ns)[k])
  <2>1. k \in 1..(Len(ms) + Len(ns)) /\ Len(ms) \in Nat /\ Len(ns) \in Nat
        /\ DOMAIN ms = 1..Len(ms) /\ DOMAIN ns = 1..Len(ns)
    BY <1>1
  <2>2. CASE k <= Len(ms)
    <3>1. k \in DOMAIN ms /\ (ms \o ns)[k] = ms[k]
      BY <1>1, <2>1, <2>2
    <3> QED
      BY <3>1 DEF AllWellMade
  <2>3. CASE ~(k <= Len(ms))
    <3>1. k - Len(ms) \in DOMAIN ns /\ (ms \o ns)[k] = ns[k - Len(ms)]
      BY <1>1, <2>1, <2>3
    <3> QED
      BY <3>1 DEF AllWellMade
  <2> QED
    BY <2>2, <2>3
<1> QED
  BY <1>2, <1>3 DEF AllWellMade

LEMMA WellMadeList ==
  ASSUME NEW n \in Nat, NEW ms, DOMAIN ms = 1..n, ms = [k \in 1..n |-> ms[k]], \A k \in 1..n : WellMade(ms[k])
  PROVE  AllWellMade(ms)
<1>1. \A k \in 1..n : ms[k] \in IdModule
  BY DEF WellMade
<1>2. ms \in Seq(IdModule)
  BY <1>1
<1> QED
  BY <1>2 DEF AllWellMade
-----------------------------------------------------------------------------
(* What registerAnalysis makes of a multiplexer.                           *)
LEMMA NoMoreThan ==
  ASSUME NEW S, NEW T, IsFiniteSet(T), NEW R,
         \A s \in S : \E t \in T : <<s, t>> \in R,
         \A s1, s2 \in S : \A t \in T : <<s1, t>> \in R /\ <<s2, t>> \in R => s1 = s2
  PROVE  IsFiniteSet(S) /\ Cardinality(S) <= Cardinality(T) /\ Cardinality(S) \in Nat
<1> DEFINE f == [s \in S |-> CHOOSE t \in T : <<s, t>> \in R]
<1>1. \A s \in S : f[s] \in T /\ <<s, f[s]>> \in R
  OBVIOUS
<1>2. f \in Injection(S, T)
  <2>1. f \in [S -> T]
    BY <1>1
  <2> HIDE DEF f
  <2> QED
    BY <1>1, <2>1 DEF Injection, IsInjective
<1> HIDE DEF f
<1> QED
  BY <1>2, FS_Injection, FS_CardinalityType
(* The latches of a multiplexer, what registerAnalysis has seen of it and  *)
(* the latch gates.                                                        *)
LatchesOf(m) == UNION {HeldIn(m, o) : o \in Outs(m)}
SeenOf(m) == UNION {InputMap(m, o) : o \in Outs(m)}
GoodOf(m) == (SeenOf(m) \cap m.inputs) \ LatchesOf(m)
GatesOf(m) == {g \in UNION {netlist.reads[l] : l \in LatchesOf(m)} : netlist.kind[g] = "latchgate"}
AuxOf(m) == (UNION {netlist.reads[n] : n \in LatchesOf(m) \cup GatesOf(m)}) \ (GatesOf(m) \cup SeenOf(m))

LEMMA RegisterIsNew ==
  ASSUME NEW m
  PROVE  Register(m) = NewModule(netlist, "reg", LatchesOf(m), GoodOf(m) \cup AuxOf(m), GoodOf(m) \cap m.sel, AuxOf(m))
BY DEF Register, LatchesOf, SeenOf, GoodOf, GatesOf, AuxOf

LEMMA PartsOfRegister ==
  ASSUME IsNetlist(netlist), NEW m, WellMade(m)
  PROVE  /\ LatchesOf(m) \in SUBSET Node /\ GatesOf(m) \in SUBSET Node /\ SeenOf(m) \in SUBSET Node
         /\ GoodOf(m) \cup AuxOf(m) \in SUBSET Node
         /\ LatchesOf(m) \cap m.sel = {} /\ m.sel \subseteq m.inputs
         /\ Outs(m) \in SUBSET Node /\ Outs(m) \subseteq m.outputs
<1>1. netlist.reads \in [Node -> SUBSET Node]
  BY DEF IsNetlist
<1>2. m.outputs \in SUBSET Node /\ m.inputs \in SUBSET Node /\ m.sel \subseteq m.inputs
  BY DEF WellMade, IdModule
<1>3. Outs(m) \in SUBSET Node /\ Outs(m) \subseteq m.outputs
  BY <1>2 DEF Outs
<1>4. LatchesOf(m) \in SUBSET Node /\ LatchesOf(m) \cap m.sel = {}
  BY <1>2 DEF LatchesOf, HeldIn
<1>5. GatesOf(m) \in SUBSET Node
  BY <1>1, <1>4 DEF GatesOf
<1>6. ASSUME NEW o \in Outs(m) PROVE InputMap(m, o) \in SUBSET Node
  <2>1. {o} \in SUBSET Node
    BY <1>3
  <2> DEFINE c == Cone(netlist, {o}, m.inputs)
  <2>2. c \in SUBSET Node
    BY <1>1, <2>1, ConeIsLeast
  <2>3. InputMap(m, o) \subseteq {o} \cup c \cup UNION {netlist.reads[n] : n \in c}
    BY DEF InputMap
  <2> HIDE DEF c
  <2>4. UNION {netlist.reads[n] : n \in c} \in SUBSET Node
    BY <1>1, <2>2
  <2> QED
    BY <2>1, <2>2, <2>3, <2>4
<1>7. SeenOf(m) \in SUBSET Node
  BY <1>6 DEF SeenOf
<1>8. GoodOf(m) \in SUBSET Node
  BY <1>2 DEF GoodOf
<1>9. AuxOf(m) \in SUBSET Node
  BY <1>1, <1>4, <1>5 DEF AuxOf
<1> QED
  BY <1>2, <1>3, <1>4, <1>5, <1>7, <1>8, <1>9

LEMMA RegisterIsWellMade ==
  ASSUME IsNetlist(netlist), NEW m, WellMade(m), m.type = "mux", Cardinality(Outs(m)) >= 2
  PROVE  WellMade(Register(m)) /\ (Register(m).sel = {} => SelectHidden(m))
<1>1. WellMade(Register(m)) /\ Register(m).sel = GoodOf(m) \cap m.sel
  <2> DEFINE ins == GoodOf(m) \cup AuxOf(m)
             sel == GoodOf(m) \cap m.sel
  <2>1. sel \subseteq ins /\ AuxOf(m) \subseteq ins
    OBVIOUS
  <2>2. "reg" \in Type
    BY DEF Type
  <2>3. LatchesOf(m) \in SUBSET Node /\ ins \in SUBSET Node
    BY PartsOfRegister
  <2>4. Register(m) = NewModule(netlist, "reg", LatchesOf(m), ins, sel, AuxOf(m))
    BY RegisterIsNew
  <2> HIDE DEF ins, sel
  <2>5. WellMade(Register(m)) /\ Register(m).sel = sel
    BY <2>1, <2>2, <2>3, <2>4, NewIsWellMade
  <2> QED
    BY <2>5 DEF sel
<1>2. ASSUME GoodOf(m) \cap m.sel = {}, NEW o \in Outs(m) PROVE InputMap(m, o) \cap m.sel = {}
  <2> SUFFICES ASSUME NEW x \in InputMap(m, o), x \in m.sel PROVE FALSE
    OBVIOUS
  <2>1. x \in SeenOf(m)
    BY DEF SeenOf
  <2>2. x \in m.inputs /\ x \notin LatchesOf(m)
    BY PartsOfRegister
  <2> QED
    BY <1>2, <2>1, <2>2 DEF GoodOf
<1> QED
  BY <1>1, <1>2 DEF SelectHidden

(* The assert: the register has the inside of the multiplexer at most, and *)
(* a latch and a latch gate for each output.                               *)
LEMMA InsideOfRegister ==
  ASSUME IsNetlist(netlist), NEW m, WellMade(m), ConeModule(netlist, m), m.type = "mux"
  PROVE  Register(m).internals \subseteq m.internals \cup LatchesOf(m) \cup GatesOf(m)
<1> DEFINE D == UNION {Cone(netlist, {o}, m.inputs) : o \in Outs(m) \ m.inputs}
           T == D \cup LatchesOf(m) \cup GatesOf(m)
           inputs == GoodOf(m) \cup AuxOf(m)
<1>1. netlist.reads \in [Node -> SUBSET Node]
  BY DEF IsNetlist
<1>2. /\ LatchesOf(m) \in SUBSET Node /\ GatesOf(m) \in SUBSET Node
      /\ Outs(m) \in SUBSET Node /\ Outs(m) \subseteq m.outputs
  BY PartsOfRegister
<1>3. ASSUME NEW o \in Outs(m)
      PROVE  LET c == Cone(netlist, {o}, m.inputs)
             IN  c \in SUBSET Node /\ ClosedUnder(netlist, m.inputs, c) /\ c \subseteq m.internals
  <2>1. {o} \in SUBSET Node /\ o \in m.outputs
    BY <1>2
  <2>2. m.internals \in SUBSET Node /\ m.outputs \subseteq m.internals /\ ClosedUnder(netlist, m.inputs, m.internals)
    BY <1>1, ConeModuleFacts
  <2>3. {o} \subseteq m.internals
    BY <2>1, <2>2
  <2> QED
    BY <1>1, <2>1, <2>2, <2>3, ConeIsLeast
<1>4. D \in SUBSET Node /\ D \subseteq m.internals
  BY <1>3
<1>5. ASSUME NEW n \in SeenOf(m) PROVE n \in T \cup inputs
  <2>1. PICK o \in Outs(m) : n \in InputMap(m, o)
    BY DEF SeenOf
  <2> DEFINE c == Cone(netlist, {o}, m.inputs)
  <2>2. CASE o \in m.inputs
    BY <2>1, <2>2 DEF InputMap, GoodOf
  <2>3. CASE o \notin m.inputs
    <3>1. n \in c \/ \E x \in c : n \in netlist.reads[x]
      BY <1>1, <1>2, <2>1, <2>3, ConeIsLeast DEF InputMap
    <3>2. c \subseteq D /\ ClosedUnder(netlist, m.inputs, c)
      BY <1>3, <2>3
    <3>3. n \in c \/ n \in m.inputs
      BY <3>1, <3>2 DEF ClosedUnder
    <3> QED
      BY <3>2, <3>3 DEF GoodOf
  <2> QED
    BY <2>2, <2>3
<1>6. ASSUME NEW x \in T, NEW n \in netlist.reads[x] PROVE n \in T \cup inputs
  <2>1. CASE x \in D
    <3>1. PICK o \in Outs(m) \ m.inputs : x \in Cone(netlist, {o}, m.inputs)
      BY <2>1
    <3>2. n \in InputMap(m, o)
      BY <3>1 DEF InputMap
    <3> QED
      BY <1>5, <3>2 DEF SeenOf
  <2>2. CASE x \in LatchesOf(m) \cup GatesOf(m)
    <3>1. n \in AuxOf(m) \/ n \in GatesOf(m) \/ n \in SeenOf(m)
      BY <2>2 DEF AuxOf
    <3> QED
      BY <1>5, <3>1
  <2> QED
    BY <2>1, <2>2
<1>7. T \in SUBSET Node /\ LatchesOf(m) \subseteq T /\ ClosedUnder(netlist, inputs, T)
  BY <1>2, <1>4, <1>6 DEF ClosedUnder
<1>8. inputs \in SUBSET Node
  BY PartsOfRegister
<1> HIDE DEF T, inputs
<1>9. Cone(netlist, LatchesOf(m), inputs) \subseteq T
  BY <1>1, <1>2, <1>7, ConeIsLeast
<1>10. Register(m).internals = Cone(netlist, LatchesOf(m), inputs)
  BY RegisterIsNew DEF NewModule, inputs
<1> QED
  BY <1>4, <1>9, <1>10 DEF T

LEMMA RegisterIsSmall ==
  ASSUME IsNetlist(netlist), OneGateEach(netlist), NEW m, WellMade(m), ConeModule(netlist, m), m.type = "mux"
  PROVE  Cardinality(Register(m).internals) <= Cardinality(m.internals) + 2 * Cardinality(Outs(m))
<1>1. /\ LatchesOf(m) \in SUBSET Node /\ GatesOf(m) \in SUBSET Node
      /\ Outs(m) \in SUBSET Node /\ Outs(m) \subseteq m.outputs
  BY PartsOfRegister
<1>2. netlist.reads \in [Node -> SUBSET Node] /\ m.internals \in SUBSET Node
  BY DEF IsNetlist, WellMade, IdModule
<1>3. IsFiniteSet(Outs(m)) /\ IsFiniteSet(m.internals)
  BY <1>1, <1>2, NodesAreFinite, FS_Subset
<1> DEFINE gates == {g \in Node : netlist.kind[g] = "latchgate"}
<1>4. IsFiniteSet(LatchesOf(m)) /\ Cardinality(LatchesOf(m)) <= Cardinality(Outs(m)) /\ Cardinality(LatchesOf(m)) \in Nat
  <2> DEFINE R == {p \in Node \X Node : p[1] \in HeldIn(m, p[2])}
  <2>1. ASSUME NEW l \in LatchesOf(m) PROVE \E o \in Outs(m) : <<l, o>> \in R
    BY <1>1 DEF LatchesOf
  <2>2. ASSUME NEW l1 \in LatchesOf(m), NEW l2 \in LatchesOf(m), NEW o \in Outs(m), <<l1, o>> \in R, <<l2, o>> \in R
        PROVE  l1 = l2
    <3>1. l1 \in HeldIn(m, o) /\ l2 \in HeldIn(m, o)
      BY <2>2
    <3>2. PICK g \in Node : Readers(netlist, o) = {g} /\ netlist.kind[g] = "latchgate" /\ l1 \in Readers(netlist, g)
      BY <3>1 DEF HeldIn
    <3>3. PICK h \in Node : Readers(netlist, o) = {h} /\ l2 \in Readers(netlist, h)
      BY <3>1 DEF HeldIn
    <3>4. g = h
      BY <3>2, <3>3
    <3> QED
      BY <3>2, <3>3, <3>4 DEF OneGateEach
  <2> HIDE DEF R
  <2> QED
    BY <1>3, <2>1, <2>2, NoMoreThan
<1>5. IsFiniteSet(GatesOf(m)) /\ Cardinality(GatesOf(m)) <= Cardinality(LatchesOf(m)) /\ Cardinality(GatesOf(m)) \in Nat
  <2> DEFINE R == {p \in Node \X Node : p[1] \in netlist.reads[p[2]]}
  <2>1. ASSUME NEW g \in GatesOf(m) PROVE \E l \in LatchesOf(m) : <<g, l>> \in R
    BY <1>1 DEF GatesOf
  <2>2. ASSUME NEW g1 \in GatesOf(m), NEW g2 \in GatesOf(m), NEW l \in LatchesOf(m), <<g1, l>> \in R, <<g2, l>> \in R
        PROVE  g1 = g2
    <3>1. g1 \in gates /\ g2 \in gates /\ g1 \in netlist.reads[l] /\ g2 \in netlist.reads[l] /\ l \in Node
      BY <1>1, <2>2 DEF GatesOf
    <3> QED
      BY <3>1 DEF OneGateEach
  <2> HIDE DEF R
  <2> QED
    BY <1>4, <2>1, <2>2, NoMoreThan
<1> DEFINE both == LatchesOf(m) \cup GatesOf(m)
<1>6. /\ IsFiniteSet(both) /\ Cardinality(both) \in Nat
      /\ Cardinality(both) <= Cardinality(LatchesOf(m)) + Cardinality(GatesOf(m))
  <2>1. IsFiniteSet(both) /\ Cardinality(both) = Cardinality(LatchesOf(m)) + Cardinality(GatesOf(m)) - Cardinality(LatchesOf(m) \cap GatesOf(m))
    BY <1>4, <1>5, FS_Union
  <2>2. Cardinality(LatchesOf(m) \cap GatesOf(m)) \in Nat
    BY <1>4, FS_Intersection, FS_CardinalityType
  <2>3. Cardinality(both) \in Nat
    BY <2>1, FS_CardinalityType
  <2> QED
    BY <1>4, <1>5, <2>1, <2>2, <2>3
<1> HIDE DEF both
<1>7. /\ IsFiniteSet(m.internals \cup both) /\ Cardinality(m.internals \cup both) \in Nat
      /\ Cardinality(m.internals \cup both) <= Cardinality(m.internals) + Cardinality(both)
  <2>1. IsFiniteSet(m.internals \cup both) /\ Cardinality(m.internals \cup both) = Cardinality(m.internals) + Cardinality(both) - Cardinality(m.internals \cap both)
    BY <1>3, <1>6, FS_Union
  <2>2. Cardinality(m.internals \cap both) \in Nat
    BY <1>3, FS_Intersection, FS_CardinalityType
  <2>3. Cardinality(m.internals \cup both) \in Nat /\ Cardinality(m.internals) \in Nat
    BY <1>3, <2>1, FS_CardinalityType
  <2> QED
    BY <1>6, <2>1, <2>2, <2>3
<1>8. Cardinality(Register(m).internals) <= Cardinality(m.internals \cup both) /\ Cardinality(Register(m).internals) \in Nat
  <2>1. Register(m).internals \in SUBSET (m.internals \cup both)
    BY InsideOfRegister DEF both
  <2> QED
    BY <1>7, <2>1, FS_Subset, FS_CardinalityType
<1>9. Cardinality(m.internals) \in Nat /\ Cardinality(Outs(m)) \in Nat
  BY <1>3, FS_CardinalityType
<1> QED
  BY <1>4, <1>5, <1>6, <1>7, <1>8, <1>9
-----------------------------------------------------------------------------
(* The types along the steps.  A register without a select input comes of  *)
(* a multiplexer whose select is hidden.                                   *)
Hidden == \E k \in DOMAIN modules : SelectHidden(modules[k])
NoSelectIsHidden ==
  phase \in {"analyse", "link", "group"} => \A r \in Reg : newmods[r].sel = {} => Hidden
PhaseOK ==
  \/ phase \in {"analyse", "link", "group", "merge", "resolve", "replace", "done"}
  \/ phase = "abort" /\ modules[Len(modules)].type = "reg_group" /\ Hidden
ForestOK == phase = "group" => repr \in [Reg -> Reg] /\ level \in [Reg -> Nat]
TypesInv ==
  /\ AllWellMade(modules) /\ AllWellMade(newmods)
  /\ i \in Nat /\ j \in Nat
  /\ groups \subseteq Reg
  /\ NoSelectIsHidden /\ PhaseOK /\ ForestOK

(* At the end of the links the registers point to roots.                   *)
LEMMA RootsAtTheEnd ==
  ASSUME LinkInv, phase = "link", i \notin Reg
  PROVE  \A r \in Reg : Rep(repr, r) \in Reg
<1>1. LinkTypes /\ WithTheLast
  BY DEF LinkInv
<1>2. Reg = 1..Len(newmods) /\ Len(newmods) \in Nat /\ repr \in [Reg -> Reg]
  BY <1>1, ListedFacts DEF LinkTypes, Reg
<1>3. \A a \in Reg : a < i
  BY <1>1, <1>2 DEF LinkTypes
<1> SUFFICES ASSUME NEW r \in Reg PROVE Rep(repr, r) \in Reg
  OBVIOUS
<1>4. repr[r] \in Reg /\ repr[repr[r]] \in Reg
  BY <1>2
<1>5. repr[repr[r]] = repr[r]
  <2> DEFINE a == repr[r]
             b == repr[a]
  <2>1. a \in MovedTo(r) /\ b \in MovedTo(a) /\ \A x \in MovedTo(r) : x <= a
    BY <1>1, <1>4 DEF WithTheLast
  <2>2. a = r \/ (r < a /\ Begins(r, a))
    BY <2>1 DEF MovedTo
  <2>3. b = a \/ (a < b /\ Begins(a, b))
    BY <2>1 DEF MovedTo
  <2>4. a \in Nat /\ b \in Nat /\ r \in Nat /\ a \in Reg /\ b \in Reg
    BY <1>2, <1>4
  <2> HIDE DEF a, b
  <2>5. CASE b # a
    <3>1. r < b /\ Begins(r, b)
      BY <2>2, <2>3, <2>4, <2>5, BeginsIsTransitive
    <3>2. b \in MovedTo(r)
      BY <1>3, <2>4, <3>1 DEF MovedTo
    <3>3. b <= a
      BY <2>1, <3>2
    <3> QED
      BY <2>3, <2>4, <2>5, <3>3
  <2> QED
    BY <2>5 DEF a, b
<1>6. Rep(repr, repr[r]) = repr[r]
  BY <1>2, <1>4, <1>5, RepFacts
<1>7. Rep(repr, r) = r \/ Rep(repr, r) = repr[r]
  BY <1>2, <1>6, RepFacts
<1> QED
  BY <1>4, <1>7

LEMMA TypesStart == Init => TypesInv
<1> SUFFICES ASSUME Init PROVE TypesInv
  OBVIOUS
<1>1. /\ netlist \in Netlists /\ newmods = <<>> /\ phase = "analyse" /\ i = 1 /\ j = 1
      /\ groups = {}
  BY DEF Init
<1>2. PICK found \in Searches(netlist) :
        modules = [k \in DOMAIN found |->
                    NewModule(netlist, found[k].type, found[k].outputs, found[k].inputs, found[k].sel, {})]
  BY DEF Init
<1>3. found \in Seq(FoundModule) /\ \A k \in DOMAIN found : found[k].sel \subseteq found[k].inputs
  BY <1>1, SearchesAssumption
<1>4. Len(found) \in Nat /\ DOMAIN found = 1..Len(found) /\ \A k \in DOMAIN found : found[k] \in FoundModule
  BY <1>3
<1>5. ASSUME NEW k \in 1..Len(found) PROVE WellMade(modules[k])
  <2> DEFINE f == found[k]
  <2>1. f.type \in Type /\ f.outputs \in SUBSET Node /\ f.inputs \in SUBSET Node /\ f.sel \subseteq f.inputs
    <3>1. f \in FoundModule
      BY <1>4
    <3>2. \A x \in FoundModule : x.type \in Type /\ x.outputs \in SUBSET Node /\ x.inputs \in SUBSET Node
      BY DEF FoundModule, Type
    <3> QED
      BY <1>3, <1>4, <3>1, <3>2
  <2>2. modules[k] = NewModule(netlist, f.type, f.outputs, f.inputs, f.sel, {})
    BY <1>2, <1>4
  <2>3. IsNetlist(netlist)
    BY <1>1, NetlistsAssumption
  <2> HIDE DEF f
  <2> QED
    BY <2>1, <2>2, <2>3, NewIsWellMade
<1>6. AllWellMade(modules)
  BY <1>2, <1>4, <1>5, WellMadeList
<1>7. AllWellMade(newmods) /\ Reg = {}
  BY <1>1 DEF AllWellMade, Reg
<1> QED
  BY <1>1, <1>6, <1>7 DEF TypesInv, NoSelectIsHidden, PhaseOK, ForestOK

LEMMA AnalyseTypes ==
  ASSUME GroupInv, TypesInv, Analyse PROVE TypesInv'
<1>1. /\ phase = "analyse" /\ i \in 1..Len(modules) /\ i' = i + 1
      /\ UNCHANGED <<netlist, modules, j, repr, level, groups>>
      /\ IsNetlist(netlist) /\ OneGateEach(netlist)
  <2>1. i \in Nat \ {0} /\ i <= Len(modules) /\ Len(modules) \in Nat
    BY ListedFacts DEF Analyse, GroupInv, ModulesInv
  <2>2. netlist \in Netlists
    BY DEF GroupInv
  <2> QED
    BY <2>1, <2>2, NetlistsAssumption, LatchGatesAssumption DEF Analyse, forest
<1> DEFINE m == modules[i]
<1>2. WellMade(m) /\ ConeModule(netlist, m) /\ i \in DOMAIN modules
  BY <1>1, ListedFacts DEF TypesInv, AllWellMade, GroupInv, ModulesInv
<1>3. Hidden' <=> Hidden
  BY <1>1 DEF Hidden, SelectHidden, Outs, HeldIn, InputMap
<1>4. CASE newmods' = newmods /\ phase' = phase
  BY <1>1, <1>3, <1>4 DEF TypesInv, NoSelectIsHidden, PhaseOK, ForestOK, Reg
<1>5. CASE m.type = "mux" /\ Cardinality(Outs(m)) >= 2
  <2> DEFINE r == Register(m)
  <2>1. newmods' = Append(newmods, r)
    BY <1>5 DEF Analyse
  <2>2. phase' = phase
    <3>1. Cardinality(r.internals) <= Cardinality(m.internals) + 2 * Cardinality(Outs(m))
      BY <1>1, <1>2, <1>5, RegisterIsSmall
    <3> QED
      BY <1>5, <3>1 DEF Analyse
  <2>3. WellMade(r) /\ (r.sel = {} => Hidden)
    BY <1>1, <1>2, <1>5, RegisterIsWellMade DEF Hidden
  <2> HIDE DEF r, m
  <2>4. AllWellMade(newmods) /\ Len(newmods) \in Nat /\ DOMAIN newmods = 1..Len(newmods)
    BY DEF TypesInv, AllWellMade
  <2>5. /\ AllWellMade(newmods') /\ Reg' = 1..(Len(newmods) + 1)
        /\ \A k \in Reg : newmods'[k] = newmods[k] /\ k \in Reg'
        /\ newmods'[Len(newmods) + 1] = r
    BY <2>1, <2>3, <2>4, WellMadeAppended DEF Reg
  <2>6. NoSelectIsHidden'
    <3>1. \A k \in Reg' : newmods'[k].sel = {} => Hidden
      <4> SUFFICES ASSUME NEW k \in Reg', newmods'[k].sel = {} PROVE Hidden
        OBVIOUS
      <4>1. k \in Reg \/ k = Len(newmods) + 1
        BY <2>4, <2>5 DEF Reg
      <4> QED
        BY <1>1, <2>3, <2>5, <4>1 DEF TypesInv, NoSelectIsHidden
    <3> QED
      BY <1>3, <3>1 DEF NoSelectIsHidden
  <2>7. groups' \subseteq Reg'
    BY <1>1, <2>5 DEF TypesInv
  <2>8. PhaseOK' /\ ForestOK'
    BY <1>1, <2>2 DEF PhaseOK, ForestOK
  <2>9. i' \in Nat /\ j' \in Nat /\ AllWellMade(modules')
    BY <1>1 DEF TypesInv
  <2> QED
    BY <2>5, <2>6, <2>7, <2>8, <2>9 DEF TypesInv
<1>6. (m.type = "mux" /\ Cardinality(Outs(m)) >= 2) \/ (newmods' = newmods /\ phase' = phase)
  BY DEF Analyse
<1> QED
  BY <1>4, <1>5, <1>6

LEMMA LinkingTypes ==
  ASSUME GroupInv, LinkInv, TypesInv, StartLinks \/ Compare \/ NextRegister \/ StartGroups PROVE TypesInv'
<1>1. /\ netlist' = netlist /\ modules' = modules /\ newmods' = newmods
      /\ phase \in {"analyse", "link"} /\ phase' \in {"link", "group"}
  BY DEF StartLinks, Compare, NextRegister, StartGroups
<1>2. Reg' = Reg /\ (Hidden' <=> Hidden)
  BY <1>1 DEF Reg, Hidden, SelectHidden, Outs, HeldIn, InputMap
<1>3. NoSelectIsHidden' /\ PhaseOK' /\ AllWellMade(modules') /\ AllWellMade(newmods')
  BY <1>1, <1>2 DEF TypesInv, NoSelectIsHidden, PhaseOK
<1>4. i' \in Nat /\ j' \in Nat
  BY DEF StartLinks, Compare, NextRegister, StartGroups, TypesInv
<1>5. groups' \subseteq Reg' /\ ForestOK'
  <2>1. CASE StartLinks \/ Compare \/ NextRegister
    <3>1. groups' = groups /\ phase' = "link"
      BY <2>1 DEF StartLinks, Compare, NextRegister
    <3> QED
      BY <1>2, <3>1 DEF TypesInv, ForestOK
  <2>2. CASE StartGroups
    <3>1. phase = "link" /\ i \notin Reg
      BY <2>2 DEF StartGroups
    <3>2. \A r \in Reg : Rep(repr, r) \in Reg
      BY <3>1, RootsAtTheEnd
    <3>3. level \in [Reg -> Nat]
      BY <3>1 DEF LinkInv, LinkTypes
    <3>4. repr' = [r \in Reg |-> Rep(repr, r)] /\ groups' = {Rep(repr, r) : r \in Reg} /\ level' = level
      BY <2>2 DEF StartGroups
    <3>5. repr' \in [Reg -> Reg] /\ groups' \subseteq Reg
      BY <3>2, <3>4
    <3> QED
      BY <1>2, <3>3, <3>4, <3>5 DEF ForestOK
  <2> QED
    BY <2>1, <2>2
<1> QED
  BY <1>3, <1>4, <1>5 DEF TypesInv

LEMMA MergeGroupTypes ==
  ASSUME GroupInv, TypesInv, MergeGroup PROVE TypesInv'
<1>1. /\ phase = "group"
      /\ UNCHANGED <<netlist, newmods, i, j, repr, level>>
      /\ IsNetlist(netlist)
  BY NetlistsAssumption DEF MergeGroup, forest, GroupInv
<1>2. PICK g \in groups :
        LET mods == {newmods[r] : r \in {s \in Reg : repr[s] = g}}
            sel  == UNION {m.sel : m \in mods}
            m    == NewModule(netlist, "reg_group", UNION {n.outputs : n \in mods},
                              UNION {n.inputs : n \in mods}, sel, UNION {n.aux : n \in mods})
        IN  /\ IF \E r \in Reg \ {g} : repr[r] = g
               THEN /\ modules' = Append(modules, m)
                    /\ phase' = IF sel # {} THEN phase ELSE "abort"
               ELSE UNCHANGED <<modules, phase>>
            /\ groups' = groups \ {g}
  BY DEF MergeGroup
<1>3. Reg' = Reg
  BY <1>1 DEF Reg
<1>4. groups' \subseteq Reg'
  BY <1>2, <1>3 DEF TypesInv
<1>5. ForestOK'
  <2>1. ForestOK
    BY DEF TypesInv
  <2> QED
    BY <1>1, <1>3, <2>1 DEF ForestOK
<1>6. CASE UNCHANGED <<modules, phase>>
  <2>1. Hidden' <=> Hidden
    BY <1>1, <1>6 DEF Hidden, SelectHidden, Outs, HeldIn, InputMap
  <2> QED
    BY <1>1, <1>3, <1>4, <1>5, <1>6, <2>1 DEF TypesInv, NoSelectIsHidden, PhaseOK
<1>7. CASE \E r \in Reg \ {g} : repr[r] = g
  <2> DEFINE mods == {newmods[r] : r \in {s \in Reg : repr[s] = g}}
             sel  == UNION {m.sel : m \in mods}
             outs == UNION {n.outputs : n \in mods}
             ins  == UNION {n.inputs : n \in mods}
             aux  == UNION {n.aux : n \in mods}
             m    == NewModule(netlist, "reg_group", outs, ins, sel, aux)
  <2>1. modules' = Append(modules, m) /\ phase' = IF sel # {} THEN phase ELSE "abort"
    BY <1>2, <1>7
  <2>2. \A n \in mods : WellMade(n)
    BY DEF TypesInv, AllWellMade, Reg
  <2>3. outs \in SUBSET Node /\ ins \in SUBSET Node /\ sel \subseteq ins /\ aux \subseteq ins
    <3>1. \A n \in mods : n.outputs \in SUBSET Node /\ n.inputs \in SUBSET Node /\ n.sel \subseteq n.inputs /\ n.aux \subseteq n.inputs
      BY <2>2 DEF WellMade, IdModule
    <3> HIDE DEF mods
    <3> QED
      BY <3>1
  <2>4. sel = {} => Hidden
    <3>1. PICK r \in Reg : repr[r] = g
      BY <1>7
    <3>2. newmods[r] \in mods
      BY <3>1
    <3>3. sel = {} => newmods[r].sel = {}
      <4> HIDE DEF mods
      <4> QED
        BY <3>2
    <3> QED
      BY <1>1, <3>3 DEF TypesInv, NoSelectIsHidden
  <2> HIDE DEF mods, sel, outs, ins, aux
  <2>5. WellMade(m) /\ m.type = "reg_group"
    <3>1. "reg_group" \in Type
      BY DEF Type
    <3> QED
      BY <1>1, <2>3, <3>1, NewIsWellMade
  <2> HIDE DEF m
  <2>6. /\ AllWellMade(modules') /\ Len(modules') = Len(modules) + 1
        /\ \A k \in DOMAIN modules : modules'[k] = modules[k] /\ k \in DOMAIN modules'
        /\ modules'[Len(modules')].type = "reg_group"
    BY <2>1, <2>5, WellMadeAppended DEF TypesInv
  <2>7. Hidden => Hidden'
    <3> SUFFICES ASSUME NEW k \in DOMAIN modules, SelectHidden(modules[k]) PROVE Hidden'
      BY DEF Hidden
    <3>1. SelectHidden(modules[k])'
      <4>1. modules'[k] = modules[k] /\ netlist' = netlist
        BY <1>1, <2>6
      <4>2. Outs(modules[k])' = Outs(modules[k])
        BY <4>1 DEF Outs, HeldIn
      <4>3. \A o \in Outs(modules[k]) : InputMap(modules[k], o)' = InputMap(modules[k], o)
        BY <4>1 DEF InputMap
      <4> QED
        BY <4>1, <4>2, <4>3 DEF SelectHidden
    <3> QED
      BY <2>6, <3>1 DEF Hidden
  <2>8. NoSelectIsHidden'
    BY <1>1, <1>3, <2>7 DEF TypesInv, NoSelectIsHidden
  <2>9. PhaseOK'
    BY <1>1, <2>1, <2>4, <2>6, <2>7 DEF PhaseOK
  <2>10. i' \in Nat /\ j' \in Nat /\ AllWellMade(newmods')
    BY <1>1 DEF TypesInv
  <2> QED
    BY <1>4, <1>5, <2>6, <2>8, <2>9, <2>10 DEF TypesInv
<1> QED
  BY <1>2, <1>6, <1>7

(* What follows the registers: only the list of modules changes.           *)
LEMMA LaterTypes ==
  ASSUME TypesInv, UNCHANGED <<netlist, newmods, i, j, repr, level, groups>>,
         phase' \in {"merge", "resolve", "replace", "done"}, AllWellMade(modules')
  PROVE  TypesInv'
<1>1. Reg' = Reg
  BY DEF Reg
<1> QED
  BY <1>1 DEF TypesInv, NoSelectIsHidden, PhaseOK, ForestOK

LEMMA MergedAreWellMade ==
  ASSUME IsNetlist(netlist), NEW ms, AllWellMade(ms)
  PROVE  AllWellMade(MergedModules(ms))
<1>1. /\ Len(ms) \in Nat /\ DOMAIN ms = 1..Len(ms) /\ IsFiniteSet(DOMAIN ms) /\ DOMAIN ms \in SUBSET Nat
  BY FS_Interval DEF AllWellMade
<1>2. Firsts(ms) \in SUBSET DOMAIN ms /\ IsFiniteSet(Firsts(ms)) /\ Firsts(ms) \in SUBSET Nat
  <2>1. Firsts(ms) \in SUBSET DOMAIN ms
    BY DEF Firsts
  <2> QED
    BY <1>1, <2>1, FS_Subset
<1> DEFINE n == Cardinality(Firsts(ms))
           s == MergedModules(ms)
<1>3. n \in Nat /\ \A p \in 1..n : InOrder(Firsts(ms))[p] \in Firsts(ms)
  BY <1>2, InOrderFacts
<1>4. DOMAIN InOrder(Firsts(ms)) = 1..n
  BY DEF InOrder
<1>5. DOMAIN s = 1..n /\ s = [p \in 1..n |-> s[p]] /\ \A p \in 1..n : s[p] = Merged(ms, Joined(ms, InOrder(Firsts(ms))[p]))
  BY <1>4 DEF MergedModules
<1>6. ASSUME NEW parts \in SUBSET DOMAIN ms PROVE WellMade(Merged(ms, parts))
  <2> DEFINE outs == UNION {ms[k].outputs : k \in parts}
             ins  == UNION {ms[k].inputs : k \in parts}
             sel  == (UNION {ms[k].sel : k \in parts}) \cap (ins \ outs)
             aux  == (UNION {ms[k].aux : k \in parts}) \cap (ins \ outs)
             os   == outs \ ins
             is   == ins \ outs
  <2>1. \A k \in parts : ms[k].outputs \in SUBSET Node /\ ms[k].inputs \in SUBSET Node
    BY DEF AllWellMade, WellMade, IdModule
  <2>2. os \in SUBSET Node /\ is \in SUBSET Node /\ sel \subseteq is /\ aux \subseteq is
    BY <2>1
  <2>3. Merged(ms, parts) = NewModule(netlist, "mux_merged", os, is, sel, aux)
    BY DEF Merged
  <2>4. "mux_merged" \in Type
    BY DEF Type
  <2> HIDE DEF os, is, sel, aux
  <2> QED
    BY <2>2, <2>3, <2>4, NewIsWellMade
<1>7. \A p \in 1..n : WellMade(s[p])
  <2>1. \A f \in DOMAIN ms : Joined(ms, f) \in SUBSET DOMAIN ms
    BY <1>1, JoinedIsLeast
  <2> HIDE DEF s, n
  <2> QED
    BY <1>2, <1>3, <1>5, <1>6, <2>1
<1> HIDE DEF s, n
<1> QED
  BY <1>3, <1>5, <1>7, WellMadeList DEF s

LEMMA SelectedAreWellMade ==
  ASSUME NEW ms, AllWellMade(ms), NEW ks \in SUBSET DOMAIN ms
  PROVE  AllWellMade(Selected(ms, ks))
<1>1. ks \in SUBSET Nat /\ IsFiniteSet(ks)
  <2>1. IsFiniteSet(DOMAIN ms) /\ DOMAIN ms \in SUBSET Nat
    BY FS_Interval DEF AllWellMade
  <2> QED
    BY <2>1, FS_Subset
<1> DEFINE n == Cardinality(ks)
           s == Selected(ms, ks)
<1>2. n \in Nat /\ \A p \in 1..n : InOrder(ks)[p] \in ks
  BY <1>1, InOrderFacts
<1>3. DOMAIN s = 1..n /\ s = [p \in 1..n |-> s[p]] /\ \A p \in 1..n : s[p] = ms[InOrder(ks)[p]]
  BY DEF Selected
<1>4. \A p \in 1..n : WellMade(s[p])
  <2> HIDE DEF s, n
  <2> QED
    BY <1>2, <1>3 DEF AllWellMade
<1> HIDE DEF s, n
<1> QED
  BY <1>2, <1>3, <1>4, WellMadeList DEF s

LEMMA KilledAreWellMade ==
  ASSUME NEW ms, AllWellMade(ms)
  PROVE  AllWellMade(Killed(ms))
<1>1. Len(ms) \in Nat /\ DOMAIN ms = 1..Len(ms)
  BY DEF AllWellMade
<1> DEFINE s == Killed(ms)
<1>2. DOMAIN s = 1..Len(ms) /\ s = [k \in 1..Len(ms) |-> s[k]]
  BY <1>1 DEF Killed
<1>3. ASSUME NEW k \in 1..Len(ms) PROVE WellMade(s[k])
  <2> DEFINE m == ms[k]
             bad == m.is_bad \/ Joined(ms, k) # {k}
  <2>1. s[k] = [m EXCEPT !.is_bad = bad]
    BY <1>1 DEF Killed
  <2>2. WellMade(m) /\ bad \in BOOLEAN
    BY <1>1 DEF AllWellMade
  <2> HIDE DEF m, bad, s
  <2>3. s[k] \in IdModule
    BY <2>1, <2>2 DEF WellMade, IdModule
  <2>4. s[k].sel = m.sel /\ s[k].aux = m.aux /\ s[k].inputs = m.inputs
    BY <2>1, <2>2 DEF WellMade, IdModule
  <2> QED
    BY <2>2, <2>3, <2>4 DEF WellMade
<1> HIDE DEF s
<1> QED
  BY <1>1, <1>2, <1>3, WellMadeList DEF s

LEMMA MergingTypes ==
  ASSUME GroupInv, TypesInv, KeepRegisters \/ MergeBeside \/ ResolveOverlaps \/ MergeInPlace PROVE TypesInv'
<1>1. IsNetlist(netlist) /\ AllWellMade(modules) /\ AllWellMade(newmods)
  BY NetlistsAssumption DEF GroupInv, TypesInv
<1>2. /\ UNCHANGED <<netlist, newmods, i, j, repr, level, groups>>
      /\ phase' \in {"merge", "resolve", "replace", "done"}
  BY DEF KeepRegisters, MergeBeside, ResolveOverlaps, MergeInPlace, forest
<1>3. CASE KeepRegisters
  <2>1. modules' = modules \o newmods
    BY <1>3 DEF KeepRegisters
  <2> QED
    BY <1>1, <1>2, <2>1, WellMadeJoint, LaterTypes
<1>4. CASE MergeBeside
  <2>1. modules' = modules \o MergedModules(modules)
    BY <1>4 DEF MergeBeside
  <2> QED
    BY <1>1, <1>2, <2>1, MergedAreWellMade, WellMadeJoint, LaterTypes
<1>5. CASE ResolveOverlaps
  <2>1. PICK kept \in SUBSET DOMAIN modules : modules' = Selected(modules, kept)
    BY <1>5 DEF ResolveOverlaps, Survivors
  <2> QED
    BY <1>1, <1>2, <2>1, SelectedAreWellMade, LaterTypes
<1>6. CASE MergeInPlace
  <2> DEFINE all == Killed(modules) \o MergedModules(modules)
             kept == {k \in DOMAIN all : ~all[k].is_bad}
  <2>1. modules' = Selected(all, kept)
    BY <1>6 DEF MergeInPlace
  <2>2. AllWellMade(all)
    BY <1>1, MergedAreWellMade, KilledAreWellMade, WellMadeJoint
  <2>3. kept \in SUBSET DOMAIN all
    OBVIOUS
  <2> HIDE DEF all, kept
  <2> QED
    BY <1>2, <2>1, <2>2, <2>3, SelectedAreWellMade, LaterTypes
<1> QED
  BY <1>3, <1>4, <1>5, <1>6
-----------------------------------------------------------------------------
(* What createAdderModule makes is a module too.                           *)
CoversAreCovers == \A c \in netlist.covers : IsCover(c)

(* The bits of a slice, each at one place.                                  *)
Bits(ch, sums, k) == {n \in sums[k].leaves : ~Carried(ch, k, n)}
LEMMA OwnBits ==
  ASSUME CoversAreCovers, NEW ch, NEW sums, NEW k \in DOMAIN sums, sums[k] \in Sums
  PROVE  /\ Len(Own(ch, sums, k)) = Cardinality(Bits(ch, sums, k)) /\ Len(Own(ch, sums, k)) \in Nat
         /\ \A p \in 1..Len(Own(ch, sums, k)) : Own(ch, sums, k)[p] \in Bits(ch, sums, k) \cap Node
         /\ \A p, q \in 1..Len(Own(ch, sums, k)) : Own(ch, sums, k)[p] = Own(ch, sums, k)[q] => p = q
         /\ \A n \in Bits(ch, sums, k) : \E p \in 1..Len(Own(ch, sums, k)) : Own(ch, sums, k)[p] = n
<1> DEFINE bits == Bits(ch, sums, k)
<1>1. sums[k].leaves \in SUBSET Node
  BY DEF CoversAreCovers, IsCover, Sums, Covers
<1>2. bits \in SUBSET Node /\ bits \in SUBSET Nat /\ IsFiniteSet(bits)
  <2>1. bits \in SUBSET Node
    BY <1>1 DEF Bits
  <2> HIDE DEF bits
  <2> QED
    BY <2>1, NodesAreFinite, FS_Subset
<1>3. Own(ch, sums, k) = InOrder(bits)
  BY DEF Own, Bits
<1> HIDE DEF bits
<1>4. /\ Cardinality(bits) \in Nat /\ \A p \in 1..Cardinality(bits) : InOrder(bits)[p] \in bits
      /\ \A p, q \in 1..Cardinality(bits) : InOrder(bits)[p] = InOrder(bits)[q] => p = q
      /\ \A n \in bits : \E p \in 1..Cardinality(bits) : InOrder(bits)[p] = n
  BY <1>2, InOrderFacts
<1>5. Listed(InOrder(bits)) /\ Len(InOrder(bits)) = Cardinality(bits)
  <2> DEFINE s == InOrder(bits)
             n == Cardinality(bits)
             At(p) == CHOOSE m \in bits : Cardinality({x \in bits : x <= m}) = p
  <2>1. s = [p \in 1..n |-> At(p)]
    BY DEF InOrder
  <2> HIDE DEF s, n, At
  <2>2. DOMAIN s = 1..n /\ s = [p \in 1..n |-> s[p]]
    BY <2>1
  <2>3. n \in Nat
    BY <1>4 DEF n
  <2>4. Listed(s) /\ Len(s) = n
    BY <2>2, <2>3, ListedIfFunction
  <2> QED
    BY <2>4 DEF s, n
<1> QED
  BY <1>2, <1>3, <1>4, <1>5 DEF bits

LEMMA WordsOfNodes ==
  ASSUME CoversAreCovers, NEW ch \in Seq(Carrys), NEW sums \in [DOMAIN ch -> Sums], NEW p \in {1, 2}
  PROVE  Range(Word(ch, sums, p)) \in SUBSET Node
<1> DEFINE bits == {k \in DOMAIN ch : Len(Own(ch, sums, k)) >= p}
<1>1. ASSUME NEW k \in bits PROVE Plain(ch[k], Own(ch, sums, k)[p]) \in Node
  <2>1. k \in DOMAIN ch /\ k \in DOMAIN sums /\ sums[k] \in Sums /\ ch[k] \in Carrys
    OBVIOUS
  <2>2. Own(ch, sums, k)[p] \in Node
    BY <2>1, OwnBits
  <2>3. ch[k].leaves \in SUBSET Node
    BY <2>1 DEF CoversAreCovers, IsCover, Carrys, Covers
  <2> QED
    BY <2>2, <2>3 DEF Plain
<1>2. Word(ch, sums, p) = [k \in bits |-> Plain(ch[k], Own(ch, sums, k)[p])]
  BY DEF Word
<1> HIDE DEF bits
<1> QED
  BY <1>1, <1>2 DEF Range

(* A recursion along the places of a list has its results.                 *)
Entered(f, V, Enter, n) == f \in [0..n -> V] /\ \A k \in 0..n : f[k] = IF k = 0 THEN {} ELSE Enter[<<k, f[k - 1]>>]
LEMMA EnteredExists ==
  ASSUME NEW V, {} \in V, NEW n \in Nat, NEW Enter \in [(1..n) \X V -> V]
  PROVE  \E f : Entered(f, V, Enter, n)
<1> DEFINE T == {l \in Nat : l <= n /\ ~\E f : Entered(f, V, Enter, l)}
<1> SUFFICES ASSUME T # {} PROVE FALSE
  OBVIOUS
<1>1. PICK l \in T : \A y \in T : l <= y
  <2>1. T \in SUBSET Nat
    OBVIOUS
  <2> HIDE DEF T
  <2> QED
    BY <2>1, LeastNat
<1>2. l \in Nat /\ l <= n /\ ~\E f : Entered(f, V, Enter, l)
  BY <1>1
<1>3. l # 0
  <2> DEFINE f == [k \in 0..0 |-> {}]
  <2>1. Entered(f, V, Enter, 0)
    BY DEF Entered
  <2> HIDE DEF f
  <2> QED
    BY <1>2, <2>1
<1>4. l - 1 \in Nat /\ l - 1 <= n /\ l - 1 \notin T
  <2>1. l - 1 \in Nat /\ l - 1 <= n /\ ~(l <= l - 1)
    BY <1>2, <1>3
  <2> HIDE DEF T
  <2> QED
    BY <1>1, <2>1
<1>5. PICK f : Entered(f, V, Enter, l - 1)
  BY <1>4
<1> DEFINE g == [k \in 0..l |-> IF k = l THEN Enter[<<l, f[l - 1]>>] ELSE f[k]]
<1>6. f[l - 1] \in V /\ l \in 1..n /\ Enter[<<l, f[l - 1]>>] \in V
  <2>1. f[l - 1] \in V /\ l \in 1..n
    BY <1>2, <1>3, <1>4, <1>5 DEF Entered
  <2>2. <<l, f[l - 1]>> \in (1..n) \X V
    BY <2>1
  <2> QED
    BY <2>1, <2>2
<1>7. g \in [0..l -> V]
  <2>1. \A k \in 0..l : k # l => k \in 0..(l - 1)
    BY <1>2
  <2> QED
    BY <1>5, <1>6, <2>1 DEF Entered
<1>8. ASSUME NEW k \in 0..l PROVE g[k] = IF k = 0 THEN {} ELSE Enter[<<k, g[k - 1]>>]
  <2>1. CASE k = l
    <3>1. k # 0 /\ k - 1 \in 0..l /\ k - 1 # l
      BY <1>2, <1>3, <2>1
    <3>2. g[k - 1] = f[l - 1] /\ g[k] = Enter[<<l, f[l - 1]>>]
      BY <2>1, <3>1
    <3> HIDE DEF g
    <3> QED
      BY <2>1, <3>1, <3>2
  <2>2. CASE k # l
    <3>1. k \in 0..(l - 1) /\ (k # 0 => k - 1 \in 0..l /\ k - 1 # l)
      BY <1>2, <2>2
    <3>2. g[k] = f[k] /\ (k # 0 => g[k - 1] = f[k - 1])
      BY <2>2, <3>1
    <3> HIDE DEF g
    <3> QED
      BY <1>5, <3>1, <3>2 DEF Entered
  <2> QED
    BY <2>1, <2>2
<1>9. Entered(g, V, Enter, l)
  <2> HIDE DEF g
  <2> QED
    BY <1>7, <1>8 DEF Entered
<1> HIDE DEF g
<1> QED
  BY <1>2, <1>9

(* What the module of an adder consists of: the gates and leaves that were *)
(* put in carry by carry, the outputs, and what lies behind them.           *)
Inputs(ch, sums) == Range(Word(ch, sums, 1)) \cup Range(Word(ch, sums, 2)) \cup CarryIn(ch, sums)
Outputs(ch, sums) == {sums[k].root : k \in DOMAIN sums} \cup {Last(ch).root}
PutIn(ch, sums, entered) ==
  /\ entered[0] = {}
  /\ \A k \in 1..Len(ch) : entered[k] = EnterCarry(netlist, ch[k], Inputs(ch, sums), entered[k - 1])
  /\ \A k \in 0..Len(ch) : entered[k] \in SUBSET Node
Behind(ch, sums, stop) == (UNION {netlist.reads[o] : o \in Outputs(ch, sums)}) \ stop
TakenIn(ch, sums, carried) ==
  LET stop == Inputs(ch, sums) \cup carried
  IN  carried \cup Outputs(ch, sums) \cup Cone(netlist, Behind(ch, sums, stop), stop)

LEMMA AdderIsMade ==
  ASSUME IsNetlist(netlist), CoversAreCovers, NEW ch \in Seq(Carrys), ch # <<>>, NEW sums \in [DOMAIN ch -> Sums]
  PROVE  /\ Inputs(ch, sums) \in SUBSET Node /\ Outputs(ch, sums) \in SUBSET Node
         /\ \E entered : /\ PutIn(ch, sums, entered)
                         /\ AdderModule(ch, sums) =
                              [type |-> "ripple_addsub", outputs |-> Outputs(ch, sums),
                               inputs |-> Inputs(ch, sums), sel |-> {}, aux |-> {},
                               internals |-> TakenIn(ch, sums, entered[Len(ch)]),
                               is_bad |-> Bad(netlist, Outputs(ch, sums), TakenIn(ch, sums, entered[Len(ch)]))]
<1> DEFINE inputs  == Inputs(ch, sums)
           outputs == Outputs(ch, sums)
           Solves(f) == f = [k \in 0..Len(ch) |->
                               IF k = 0 THEN {} ELSE EnterCarry(netlist, ch[k], inputs, f[k - 1])]
           entered == CHOOSE f : Solves(f)
<1>1. netlist.reads \in [Node -> SUBSET Node]
  BY DEF IsNetlist
<1>2. Len(ch) \in Nat /\ Len(ch) # 0 /\ DOMAIN ch = 1..Len(ch) /\ \A k \in 1..Len(ch) : ch[k] \in Carrys /\ sums[k] \in Sums
  OBVIOUS
<1>3. \A k \in 1..Len(ch) : /\ ch[k].root \in Node /\ ch[k].leaves \in SUBSET Node
                            /\ sums[k].root \in Node
  BY <1>2 DEF CoversAreCovers, IsCover, Carrys, Sums, Covers
<1>4. inputs \in SUBSET Node
  <2>1. CarryIn(ch, sums) \in SUBSET Node
    <3>1. 1 \in DOMAIN sums /\ sums[1] \in Sums
      BY <1>2
    <3>2. Len(Own(ch, sums, 1)) = 3 => Own(ch, sums, 1)[3] \in Node
      BY <3>1, OwnBits
    <3> QED
      BY <3>2 DEF CarryIn
  <2> QED
    BY <2>1, WordsOfNodes DEF Inputs
<1>5. outputs \in SUBSET Node
  BY <1>2, <1>3 DEF Last, Outputs
<1> HIDE DEF inputs, outputs
<1>6. PutIn(ch, sums, entered)
  <2> DEFINE V == SUBSET Node
             Enter == [p \in (1..Len(ch)) \X V |-> EnterCarry(netlist, ch[p[1]], inputs, p[2])]
  <2>1. ASSUME NEW k \in 1..Len(ch), NEW inside \in V PROVE EnterCarry(netlist, ch[k], inputs, inside) \in V
    <3> DEFINE c == ch[k]
               closed == c.leaves \cup inside
    <3>1. c.root \in Node /\ c.leaves \in SUBSET Node
      BY <1>3
    <3>2. ({c.root} \ closed) \in SUBSET Node
      BY <3>1
    <3>3. Cone(netlist, {c.root} \ closed, closed) \in SUBSET Node
      <4> HIDE DEF closed
      <4> QED
        BY <1>1, <3>2, ConeIsLeast
    <3> QED
      BY <3>1, <3>3 DEF EnterCarry
  <2>2. Enter \in [(1..Len(ch)) \X V -> V]
    <3>1. \A p \in (1..Len(ch)) \X V : p[1] \in 1..Len(ch) /\ p[2] \in V
      OBVIOUS
    <3> HIDE DEF V
    <3> QED
      BY <2>1, <3>1
  <2>3. \A k \in 1..Len(ch) : \A x \in V : Enter[<<k, x>>] = EnterCarry(netlist, ch[k], inputs, x)
    <3> HIDE DEF V
    <3> QED
      OBVIOUS
  <2>4. PICK f : Entered(f, V, Enter, Len(ch))
    <3>1. {} \in V
      OBVIOUS
    <3> HIDE DEF V, Enter
    <3> QED
      BY <1>2, <2>2, <3>1, EnteredExists
  <2>5. Solves(f)
    <3>1. \A k \in 0..Len(ch) : f[k] = IF k = 0 THEN {} ELSE EnterCarry(netlist, ch[k], inputs, f[k - 1])
      <4> SUFFICES ASSUME NEW k \in 0..Len(ch), k # 0
                   PROVE  f[k] = EnterCarry(netlist, ch[k], inputs, f[k - 1])
        BY <2>4 DEF Entered
      <4>1. k \in 1..Len(ch) /\ k - 1 \in 0..Len(ch)
        BY <1>2
      <4>2. f[k - 1] \in V /\ f[k] = Enter[<<k, f[k - 1]>>]
        <5> HIDE DEF V, Enter
        <5> QED
          BY <2>4, <4>1 DEF Entered
      <4> HIDE DEF V, Enter
      <4> QED
        BY <2>3, <4>1, <4>2
    <3>2. f = [k \in 0..Len(ch) |-> f[k]]
      <4> HIDE DEF V, Enter
      <4> QED
        BY <2>4 DEF Entered
    <3> QED
      BY <3>1, <3>2
  <2>6. Solves(entered)
    <3> HIDE DEF Solves
    <3> QED
      BY <2>5
  <2> HIDE DEF entered
  <2>7. /\ entered[0] = {}
        /\ \A k \in 1..Len(ch) : entered[k] = EnterCarry(netlist, ch[k], inputs, entered[k - 1])
    <3>1. \A k \in 0..Len(ch) : entered[k] = IF k = 0 THEN {} ELSE EnterCarry(netlist, ch[k], inputs, entered[k - 1])
      BY <2>6
    <3> QED
      BY <1>2, <3>1
  <2> DEFINE Out == {k \in Nat : k <= Len(ch) /\ entered[k] \notin V}
  <2>8. Out = {}
    <3> SUFFICES ASSUME Out # {} PROVE FALSE
      OBVIOUS
    <3>1. PICK k \in Out : \A y \in Out : k <= y
      <4>1. Out \in SUBSET Nat
        OBVIOUS
      <4> HIDE DEF Out
      <4> QED
        BY <4>1, LeastNat
    <3>2. k \in Nat /\ k <= Len(ch) /\ entered[k] \notin V
      BY <3>1
    <3>3. k # 0
      BY <2>7, <3>2
    <3>4. k \in 1..Len(ch) /\ k - 1 \in Nat /\ k - 1 <= Len(ch) /\ ~(k <= k - 1)
      BY <1>2, <3>2, <3>3
    <3>5. entered[k - 1] \in V
      BY <3>1, <3>4
    <3> HIDE DEF V
    <3> QED
      BY <2>1, <2>7, <3>2, <3>4, <3>5
  <2>9. \A k \in 0..Len(ch) : entered[k] \in V
    <3> TAKE k \in 0..Len(ch)
    <3>1. k \in Nat /\ k <= Len(ch)
      BY <1>2
    <3> HIDE DEF V
    <3> QED
      BY <2>8, <3>1
  <2> QED
    BY <2>7, <2>9 DEF PutIn, inputs
<1>7. AdderModule(ch, sums) =
        [type |-> "ripple_addsub", outputs |-> outputs, inputs |-> inputs, sel |-> {}, aux |-> {},
         internals |-> TakenIn(ch, sums, entered[Len(ch)]),
         is_bad |-> Bad(netlist, outputs, TakenIn(ch, sums, entered[Len(ch)]))]
  BY DEF AdderModule, inputs, outputs, entered, Inputs, Outputs, TakenIn, Behind
<1> HIDE DEF entered
<1> QED
  BY <1>4, <1>5, <1>6, <1>7 DEF inputs, outputs

LEMMA AdderIsWellMade ==
  ASSUME IsNetlist(netlist), CoversAreCovers, NEW ch \in Seq(Carrys), ch # <<>>, NEW sums \in [DOMAIN ch -> Sums]
  PROVE  WellMade(AdderModule(ch, sums))
<1> DEFINE inputs  == Inputs(ch, sums)
           outputs == Outputs(ch, sums)
<1>1. inputs \in SUBSET Node /\ outputs \in SUBSET Node
  BY AdderIsMade
<1>2. PICK entered :
        /\ PutIn(ch, sums, entered)
        /\ AdderModule(ch, sums) =
             [type |-> "ripple_addsub", outputs |-> outputs, inputs |-> inputs, sel |-> {}, aux |-> {},
              internals |-> TakenIn(ch, sums, entered[Len(ch)]),
              is_bad |-> Bad(netlist, outputs, TakenIn(ch, sums, entered[Len(ch)]))]
  BY AdderIsMade
<1> DEFINE carried == entered[Len(ch)]
           stop == inputs \cup carried
           behind == Behind(ch, sums, stop)
           all == TakenIn(ch, sums, carried)
<1>3. carried \in SUBSET Node
  <2>1. Len(ch) \in 0..Len(ch)
    OBVIOUS
  <2> QED
    BY <1>2, <2>1 DEF PutIn
<1>4. netlist.reads \in [Node -> SUBSET Node]
  BY DEF IsNetlist
<1>5. behind \in SUBSET Node
  BY <1>1, <1>4 DEF Behind
<1>6. all = carried \cup outputs \cup Cone(netlist, behind, stop)
  BY DEF TakenIn
<1> HIDE DEF inputs, outputs, carried, behind, stop, all
<1>7. Cone(netlist, behind, stop) \in SUBSET Node
  BY <1>4, <1>5, ConeIsLeast
<1>8. all \in SUBSET Node
  BY <1>1, <1>3, <1>6, <1>7
<1>9. Bad(netlist, outputs, all) \in BOOLEAN
  BY DEF Bad
<1> QED
  BY <1>1, <1>2, <1>8, <1>9 DEF WellMade, IdModule, Type, carried, all
-----------------------------------------------------------------------------
(* The search for chains, whose edges lead from carry to carry.            *)
EdgesAgree == \A a, b \in Carrys : b \in EdgesAt(edges_out, a) <=> a \in EdgesAt(edges_in, b)
CarryGraph(edges) == DOMAIN edges \subseteq Carrys /\ \A c \in DOMAIN edges : edges[c] \in SUBSET Carrys
PathOK == chain \in Seq(Carrys) /\ rest \in Seq(SUBSET Carrys) /\ Len(rest) = Len(chain)
ChainsInv ==
  /\ partners \in [Carrys -> SUBSET Sums]
  /\ CarryGraph(edges_out) /\ EdgesAgree
  /\ starts \subseteq Carrys /\ (step = "chains" => starts \subseteq DOMAIN edges_out)
  /\ PathOK
  /\ step \in Steps \cup {"abort"}

LEMMA ChainsStart == AggregateInit => ChainsInv
<1> SUFFICES ASSUME AggregateInit PROVE ChainsInv
  OBVIOUS
<1>1. DOMAIN edges_out = {} /\ DOMAIN edges_in = {}
  BY DEF AggregateInit
<1>2. CarryGraph(edges_out) /\ EdgesAgree
  BY <1>1 DEF CarryGraph, EdgesAgree, EdgesAt
<1>3. PathOK /\ partners \in [Carrys -> SUBSET Sums]
  BY DEF AggregateInit, PathOK
<1> QED
  BY <1>2, <1>3 DEF AggregateInit, ChainsInv, Steps

LEMMA EdgesOfNonempty ==
  ASSUME NEW f
  PROVE  /\ DOMAIN Nonempty(f) \subseteq DOMAIN f
         /\ \A c \in DOMAIN Nonempty(f) : Nonempty(f)[c] = f[c]
         /\ \A c : EdgesAt(Nonempty(f), c) = EdgesAt(f, c)
<1> DEFINE D == {c \in DOMAIN f : f[c] # {}}
<1>1. Nonempty(f) = [c \in D |-> f[c]]
  BY DEF Nonempty, Restrict
<1>2. DOMAIN Nonempty(f) = D /\ \A c \in D : Nonempty(f)[c] = f[c]
  <2> HIDE DEF D
  <2> QED
    BY <1>1
<1>3. ASSUME NEW c PROVE EdgesAt(Nonempty(f), c) = EdgesAt(f, c)
  <2>1. CASE c \in D
    BY <1>2, <2>1 DEF EdgesAt
  <2>2. CASE c \notin D
    <3>1. EdgesAt(Nonempty(f), c) = {}
      <4> HIDE DEF D
      <4> QED
        BY <1>2, <2>2 DEF EdgesAt
    <3>2. EdgesAt(f, c) = {}
      BY <2>2 DEF EdgesAt
    <3> QED
      BY <3>1, <3>2
  <2> QED
    BY <2>1, <2>2
<1> QED
  BY <1>2, <1>3

LEMMA EdgesWithout ==
  ASSUME NEW edges, NEW cs, NEW c
  PROVE  EdgesAt(Without(edges, cs), c) = IF c \in cs THEN {} ELSE EdgesAt(edges, c) \ cs
BY DEF EdgesAt, Without

LEMMA PathShortened ==
  ASSUME PathOK, chain # <<>>
  PROVE  /\ Front(chain) \in Seq(Carrys) /\ Front(rest) \in Seq(SUBSET Carrys)
         /\ Len(Front(rest)) = Len(Front(chain))
<1>1. Len(chain) \in Nat \ {0} /\ Len(rest) = Len(chain)
  BY DEF PathOK
<1>2. 0 <= Len(chain) - 1 /\ Len(chain) - 1 <= Len(chain)
  BY <1>1
<1>3. \A k \in 1..(Len(chain) - 1) : k \in 1..Len(chain)
  BY <1>1
<1>4. SubSeq(chain, 1, Len(chain) - 1) \in Seq(Carrys) /\ Len(SubSeq(chain, 1, Len(chain) - 1)) = Len(chain) - 1
  BY <1>1, <1>2, <1>3 DEF PathOK
<1>5. SubSeq(rest, 1, Len(rest) - 1) \in Seq(SUBSET Carrys) /\ Len(SubSeq(rest, 1, Len(rest) - 1)) = Len(rest) - 1
  BY <1>1, <1>2, <1>3 DEF PathOK
<1> QED
  BY <1>1, <1>4, <1>5 DEF Front

LEMMA RelationKeepsChains ==
  ASSUME ChainsInv, CreateNotRelation, netlist' = netlist PROVE ChainsInv'
<1>1. Carrys' = Carrys /\ Sums' = Sums
  BY DEF Carrys, Sums, Covers
<1>2. UNCHANGED <<partners, edges_out, edges_in, starts, chain, rest>> /\ step' = "partners"
  BY DEF CreateNotRelation, graph, walk
<1> QED
  BY <1>1, <1>2 DEF ChainsInv, CarryGraph, EdgesAgree, EdgesAt, PathOK, Steps

LEMMA SearchKeepsChains ==
  ASSUME ChainsInv, netlist' = netlist,
         \/ FindPartners \/ CreateGraph \/ RemoveContained
         \/ StartChains \/ StartChain \/ Follow \/ Return \/ EndChains
  PROVE  ChainsInv'
<1>1. Carrys' = Carrys /\ Sums' = Sums
  BY DEF Carrys, Sums, Covers
<1>2. CASE FindPartners
  <2>1. UNCHANGED <<edges_out, edges_in, starts, chain, rest>> /\ step' = "graph"
    BY <1>2 DEF FindPartners, graph, walk
  <2>2. PICK sumset \in SUBSET Sums : partners' = [c \in Carrys |-> {s \in sumset : Matches(s, c)}]
    BY <1>2 DEF FindPartners
  <2>3. partners' \in [Carrys -> SUBSET Sums]
    BY <2>2
  <2> QED
    BY <1>1, <2>1, <2>3 DEF ChainsInv, CarryGraph, EdgesAgree, EdgesAt, PathOK, Steps
<1>3. CASE CreateGraph
  <2> DEFINE outs == [a \in Carrys |-> {b \in Carrys : Edge2(a, b)}]
             ins  == [b \in Carrys |-> {a \in Carrys : Edge2(a, b)}]
  <2>1. /\ UNCHANGED <<partners, starts, chain, rest>> /\ step' = "remove"
        /\ edges_out' = Nonempty(outs) /\ edges_in' = Nonempty(ins)
    BY <1>3 DEF CreateGraph, walk
  <2>2. CarryGraph(outs) /\ \A a, b \in Carrys : b \in EdgesAt(outs, a) <=> a \in EdgesAt(ins, b)
    BY DEF CarryGraph, EdgesAt
  <2> HIDE DEF outs, ins
  <2>3. CarryGraph(edges_out')
    BY <2>1, <2>2, EdgesOfNonempty DEF CarryGraph
  <2>4. \A a, b \in Carrys : b \in EdgesAt(edges_out', a) <=> a \in EdgesAt(edges_in', b)
    BY <2>1, <2>2, EdgesOfNonempty
  <2> QED
    BY <1>1, <2>1, <2>3, <2>4 DEF ChainsInv, CarryGraph, EdgesAgree, EdgesAt, PathOK, Steps
<1>4. CASE RemoveContained
  <2>1. /\ UNCHANGED <<partners, starts, chain, rest>> /\ step' = "starts"
        /\ edges_out' = Without(edges_out, nodes2remove) /\ edges_in' = Without(edges_in, nodes2remove)
    BY <1>4 DEF RemoveContained, walk
  <2>2. CarryGraph(edges_out')
    BY <2>1 DEF ChainsInv, CarryGraph, Without
  <2>3. \A a, b \in Carrys : b \in EdgesAt(edges_out', a) <=> a \in EdgesAt(edges_in', b)
    <3> TAKE a, b \in Carrys
    <3>1. b \in EdgesAt(edges_out, a) <=> a \in EdgesAt(edges_in, b)
      BY DEF ChainsInv, EdgesAgree
    <3>2. /\ EdgesAt(edges_out', a) = IF a \in nodes2remove THEN {} ELSE EdgesAt(edges_out, a) \ nodes2remove
          /\ EdgesAt(edges_in', b) = IF b \in nodes2remove THEN {} ELSE EdgesAt(edges_in, b) \ nodes2remove
      BY <2>1, EdgesWithout
    <3> QED
      BY <3>1, <3>2
  <2> QED
    BY <1>1, <2>1, <2>2, <2>3 DEF ChainsInv, CarryGraph, EdgesAgree, EdgesAt, PathOK, Steps
<1>5. CASE StartChains
  <2>1. UNCHANGED <<partners, edges_out, edges_in, chain, rest>> /\ step' = "chains"
    BY <1>5 DEF StartChains, graph
  <2>2. starts' \subseteq DOMAIN edges_out
    BY <1>5 DEF StartChains
  <2> QED
    BY <1>1, <2>1, <2>2 DEF ChainsInv, CarryGraph, EdgesAgree, EdgesAt, PathOK, Steps
<1>6. CASE StartChain
  <2> DEFINE c == First(starts)
  <2>1. /\ UNCHANGED <<partners, edges_out, edges_in, step>> /\ step = "chains"
        /\ starts' = starts \ {c} /\ chain' = <<c>> /\ rest' = <<edges_out[c]>>
    BY <1>6 DEF StartChain, graph
  <2>2. c \in starts
    BY <1>6 DEF StartChain, First
  <2> HIDE DEF c
  <2>3. c \in Carrys /\ edges_out[c] \in SUBSET Carrys
    BY <2>1, <2>2 DEF ChainsInv, CarryGraph
  <2>4. chain' \in Seq(Carrys) /\ rest' \in Seq(SUBSET Carrys) /\ Len(rest') = Len(chain')
    BY <2>1, <2>3
  <2> QED
    BY <1>1, <2>1, <2>4 DEF ChainsInv, CarryGraph, EdgesAgree, EdgesAt, PathOK, Steps
<1>7. CASE Follow
  <2> DEFINE c == First(Last(rest))
             less == [rest EXCEPT ![Len(rest)] = @ \ {c}]
             more == EdgesAt(edges_out, c)
  <2>1. /\ UNCHANGED <<partners, edges_out, edges_in, starts, step>>
        /\ chain' = Append(chain, c) /\ rest' = Append(less, more)
    BY <1>7 DEF Follow, graph
  <2>2. /\ chain \in Seq(Carrys) /\ rest \in Seq(SUBSET Carrys) /\ Len(rest) = Len(chain)
        /\ chain # <<>> /\ Last(rest) # {}
    BY <1>7 DEF Follow, ChainsInv, PathOK
  <2>3. Len(rest) \in 1..Len(rest) /\ Len(chain) \in Nat
    BY <2>2
  <2>4. rest[Len(rest)] \in SUBSET Carrys /\ c \in rest[Len(rest)]
    BY <2>2, <2>3 DEF First, Last
  <2>5. c \in Carrys /\ more \in SUBSET Carrys
    BY <2>4 DEF ChainsInv, CarryGraph, EdgesAt
  <2> HIDE DEF c, more
  <2>6. less \in Seq(SUBSET Carrys) /\ Len(less) = Len(rest)
    BY <2>2, <2>3, <2>4
  <2> HIDE DEF less
  <2>7. chain' \in Seq(Carrys) /\ rest' \in Seq(SUBSET Carrys) /\ Len(rest') = Len(chain')
    BY <2>1, <2>2, <2>5, <2>6
  <2> QED
    BY <1>1, <2>1, <2>7 DEF ChainsInv, CarryGraph, EdgesAgree, EdgesAt, PathOK
<1>8. CASE Return
  <2>1. /\ UNCHANGED <<partners, edges_out, edges_in, starts, step>>
        /\ chain' = Front(chain) /\ rest' = Front(rest) /\ chain # <<>>
    BY <1>8 DEF Return, graph
  <2>2. chain' \in Seq(Carrys) /\ rest' \in Seq(SUBSET Carrys) /\ Len(rest') = Len(chain')
    BY <2>1, PathShortened DEF ChainsInv
  <2> QED
    BY <1>1, <2>1, <2>2 DEF ChainsInv, CarryGraph, EdgesAgree, EdgesAt, PathOK
<1>9. CASE EndChains
  <2>1. UNCHANGED <<partners, edges_out, edges_in, starts, chain, rest>> /\ step' = "done"
    BY <1>9 DEF EndChains, graph, walk
  <2> QED
    BY <1>1, <2>1 DEF ChainsInv, CarryGraph, EdgesAgree, EdgesAt, PathOK, Steps
<1> QED
  BY <1>2, <1>3, <1>4, <1>5, <1>6, <1>7, <1>8, <1>9

LEMMA UseKeepsChains ==
  ASSUME ChainsInv, netlist' = netlist, UseChain PROVE ChainsInv'
<1>1. Carrys' = Carrys /\ Sums' = Sums
  BY DEF Carrys, Sums, Covers
<1>2. /\ UNCHANGED <<partners, edges_out, edges_in, starts>> /\ chain # <<>>
      /\ chain' = Front(chain) /\ rest' = Front(rest)
      /\ step = "chains" /\ step' \in {step, "abort"}
  BY DEF UseChain, graph
<1>3. chain' \in Seq(Carrys) /\ rest' \in Seq(SUBSET Carrys) /\ Len(rest') = Len(chain')
  BY <1>2, PathShortened DEF ChainsInv
<1> QED
  BY <1>1, <1>2, <1>3 DEF ChainsInv, CarryGraph, EdgesAgree, EdgesAt, PathOK

LEMMA ChainsStep ==
  ASSUME ChainsInv, [AggregateNext]_<<vars, search>> PROVE ChainsInv'
<1>1. ASSUME UNCHANGED search, netlist' = netlist PROVE ChainsInv'
  <2>1. Carrys' = Carrys /\ Sums' = Sums
    BY <1>1 DEF Carrys, Sums, Covers
  <2>2. UNCHANGED <<partners, edges_out, edges_in, starts, chain, rest, step>>
    BY <1>1 DEF search, graph, walk
  <2> QED
    BY <2>1, <2>2 DEF ChainsInv, CarryGraph, EdgesAgree, EdgesAt, PathOK
<1>2. CASE UNCHANGED <<vars, search>>
  BY <1>1, <1>2 DEF vars
<1>3. CASE CreateNotRelation /\ UNCHANGED vars
  BY <1>3, RelationKeepsChains DEF vars
<1>4. CASE IdentifyRCAs
  <2>1. netlist' = netlist
    BY <1>4 DEF IdentifyRCAs
  <2> QED
    BY <1>4, <2>1, SearchKeepsChains, UseKeepsChains DEF IdentifyRCAs
<1>5. CASE Next /\ UNCHANGED search
  <2>1. netlist' = netlist
    BY <1>5 DEF Next, Analyse, StartLinks, Compare, NextRegister, StartGroups, MergeGroup,
       KeepRegisters, MergeBeside, ResolveOverlaps, MergeInPlace
  <2> QED
    BY <1>1, <1>5, <2>1
<1> QED
  BY <1>2, <1>3, <1>4, <1>5 DEF AggregateNext
-----------------------------------------------------------------------------
LEMMA AdderTypes ==
  ASSUME GroupInv, TypesInv, ChainsInv, IdentifyRCAs PROVE TypesInv'
<1>1. /\ UNCHANGED <<netlist, newmods, i, j, repr, level, groups, phase>> /\ phase = "merge"
      /\ modules' = modules \/ UseChain
  BY DEF IdentifyRCAs, forest
<1>2. CASE modules' = modules
  BY <1>1, <1>2, LaterTypes DEF TypesInv
<1>3. CASE modules' # modules
  <2>1. PICK sums \in [DOMAIN chain -> Sums] : modules' = Append(modules, AdderModule(chain, sums))
    BY <1>1, <1>3 DEF UseChain
  <2>2. chain \in Seq(Carrys) /\ chain # <<>>
    BY <1>1, <1>3 DEF UseChain, ChainsInv, PathOK
  <2>3. IsNetlist(netlist) /\ CoversAreCovers
    BY NetlistsAssumption, CoversAssumption DEF GroupInv, CoversAreCovers
  <2>4. WellMade(AdderModule(chain, sums))
    BY <2>2, <2>3, AdderIsWellMade
  <2>5. AllWellMade(modules')
    BY <2>1, <2>4, WellMadeAppended DEF TypesInv
  <2> QED
    BY <1>1, <2>5, LaterTypes
<1> QED
  BY <1>2, <1>3

LEMMA TypesStep ==
  ASSUME GroupInv, LinkInv, TypesInv, ChainsInv, [AggregateNext]_<<vars, search>> PROVE TypesInv'
<1>1. CASE UNCHANGED vars
  <2>1. UNCHANGED <<netlist, modules, newmods, i, j, repr, level, groups, phase>>
    BY <1>1 DEF vars, forest
  <2>2. Reg' = Reg /\ (Hidden' <=> Hidden)
    BY <2>1 DEF Reg, Hidden, SelectHidden, Outs, HeldIn, InputMap
  <2>3. NoSelectIsHidden' /\ PhaseOK'
    BY <2>1, <2>2 DEF TypesInv, NoSelectIsHidden, PhaseOK
  <2> QED
    BY <2>1, <2>2, <2>3 DEF TypesInv, ForestOK
<1>2. CASE IdentifyRCAs
  BY <1>2, AdderTypes
<1>3. CASE Next
  BY <1>3, AnalyseTypes, LinkingTypes, MergeGroupTypes, MergingTypes DEF Next
<1> QED
  BY <1>1, <1>2, <1>3 DEF AggregateNext

(* No assert of registerAnalysis fails as the aggregation runs, but for the *)
(* one on the select inputs of a group, and that only when the select of a  *)
(* multiplexer lies hidden behind its data inputs: a register has at most   *)
(* the nodes of its multiplexer and two for each bit, because every latch   *)
(* has a latch gate and every latch gate a latch of its own.  Groups of     *)
(* inputs stay inputs, and both sides of the graph of carries agree.        *)
THEOREM AggregateTypeCorrect == Aggregate => []AggregateTypeOK
<1> DEFINE Inv == GroupInv /\ LinkInv /\ EqualsGrouped /\ TypesInv /\ ChainsInv
<1>1. AggregateInit => Inv
  <2> SUFFICES ASSUME AggregateInit PROVE Inv
    OBVIOUS
  <2>1. GroupInv /\ TypesInv
    BY GroupStarts, TypesStart DEF AggregateInit
  <2>2. LinkInv /\ EqualsGrouped
    BY DEF AggregateInit, Init, LinkInv, EqualsGrouped
  <2>3. ChainsInv
    BY ChainsStart
  <2> QED
    BY <2>1, <2>2, <2>3
<1>2. Inv /\ [AggregateNext]_<<vars, search>> => Inv'
  BY GroupStep, LinkStep, TypesStep, ChainsStep
<1>3. Inv => AggregateTypeOK
  <2> SUFFICES ASSUME Inv PROVE AggregateTypeOK
    OBVIOUS
  <2>1. IsNetlist(netlist)
    BY NetlistsAssumption DEF GroupInv
  <2>2. phase \in {"link", "group"} => repr \in [Reg -> Reg] /\ level \in [Reg -> Nat]
    BY DEF LinkInv, LinkTypes, TypesInv, ForestOK
  <2>3. modules \in Seq(IdModule) /\ newmods \in Seq(IdModule)
    BY DEF TypesInv, AllWellMade
  <2>4. \A k \in DOMAIN modules : modules[k].sel \cup modules[k].aux \subseteq modules[k].inputs
    BY DEF TypesInv, AllWellMade, WellMade
  <2>5. TypeOK
    BY <2>1, <2>2, <2>3, <2>4 DEF TypesInv, PhaseOK, Hidden, TypeOK
  <2> QED
    BY <2>5 DEF AggregateTypeOK, ChainsInv, EdgesAgree, PathOK
<1> HIDE DEF Inv
<1> QED
  BY <1>1, <1>2, <1>3, PTL DEF Aggregate
-----------------------------------------------------------------------------
(* What the search for adders has found, as its steps leave it: who is      *)
(* related, which carries have partners, and what is left of the graph.     *)
Relation ==
  LET inverters == Covers({"not"})
      Says(n, m) == \E c \in inverters : c.root = n /\ c.leaves = {m}
      Pair(n, m) == \E c, d \in netlist.covers : c.root = n /\ d.root = m /\ Opposite(c, d)
      Related(n, m) == inverters # {} /\ (Says(n, m) \/ Pair(n, m))
  IN  [n \in Node |-> {m \in {c.root : c \in netlist.covers} \cup
                             UNION {c.leaves : c \in inverters} :
                        Related(n, m) \/ Related(m, n)}]

Led(a) == {b \in Carrys : Edge2(a, b)}
Contained(na, nb) == na # nb /\ Led(na) # {} /\ InvContained(na, nb) /\ Led(na) = Led(nb)
Dropped == {nb \in Carrys : Led(nb) # {} /\ \E na \in Carrys : Contained(na, nb)}

PartnersFound ==
  \A c \in Carrys :
    /\ \A s \in partners[c] : s \in Sums /\ Matches(s, c)
    /\ \A s \in Sums : Matches(s, c) => partners[c] # {}
GraphMade == \A c : EdgesAt(edges_out, c) = IF c \in Carrys THEN Led(c) ELSE {}
GraphPruned ==
  /\ DOMAIN edges_out = {a \in Carrys : Led(a) # {}} \ Dropped
  /\ \A a \in DOMAIN edges_out : edges_out[a] = Led(a) \ Dropped
MatchInv ==
  /\ \A c : EdgesAt(edges_in, c) \subseteq Carrys
  /\ step # "relate" => not_relation = Relation
  /\ step \notin {"relate", "partners"} => PartnersFound
  /\ step = "remove" => DOMAIN edges_out = {a \in Carrys : Led(a) # {}} /\ GraphMade
  /\ step \in {"starts", "chains", "done"} => GraphPruned

LEMMA MatchKept ==
  ASSUME MatchInv, UNCHANGED <<netlist, not_relation, partners, edges_out, edges_in>>,
         \/ step' = step
         \/ {step, step'} \subseteq {"starts", "chains", "done"}
         \/ step' = "abort" /\ step \notin {"relate", "partners"}
  PROVE  MatchInv'
<1>1. Carrys' = Carrys /\ Sums' = Sums /\ Relation' = Relation
  BY DEF Carrys, Sums, Covers, Relation, Opposite
<1>2. \A s, c : Matches(s, c)' = Matches(s, c)
  BY DEF Matches, SameOrNot
<1>3. \A a, b : Edge2(a, b)' = Edge2(a, b)
  BY DEF Edge2
<1>4. \A a : Led(a)' = Led(a)
  BY <1>1, <1>3 DEF Led
<1>5. \A na, nb : InvContained(na, nb)' = InvContained(na, nb)
  BY DEF InvContained, Inverter
<1>6. Dropped' = Dropped
  BY <1>1, <1>4, <1>5 DEF Dropped, Contained
<1>7. PartnersFound' <=> PartnersFound
  BY <1>1, <1>2 DEF PartnersFound
<1>8. GraphMade' <=> GraphMade
  BY <1>1, <1>4 DEF GraphMade, EdgesAt
<1>9. GraphPruned' <=> GraphPruned
  BY <1>1, <1>4, <1>6 DEF GraphPruned
<1>10. {a \in Carrys : Led(a) # {}}' = {a \in Carrys : Led(a) # {}}
  BY <1>1, <1>4
<1>11. \A c : EdgesAt(edges_in, c)' \subseteq Carrys'
  BY <1>1 DEF MatchInv, EdgesAt
<1> QED
  BY <1>1, <1>7, <1>8, <1>9, <1>10, <1>11 DEF MatchInv

LEMMA RelationIsMade ==
  ASSUME MatchInv, CreateNotRelation, netlist' = netlist PROVE MatchInv'
<1>1. not_relation' = Relation /\ step' = "partners"
  BY DEF CreateNotRelation, Relation
<1>2. Relation' = Relation
  BY DEF Relation, Covers, Opposite
<1>3. \A c : EdgesAt(edges_in, c)' \subseteq Carrys'
  BY DEF CreateNotRelation, graph, MatchInv, EdgesAt, Carrys, Covers
<1> QED
  BY <1>1, <1>2, <1>3 DEF MatchInv

LEMMA PartnersAreFound ==
  ASSUME MatchInv, FindPartners, netlist' = netlist PROVE MatchInv'
<1>1. Carrys' = Carrys /\ Sums' = Sums /\ Relation' = Relation
  BY DEF Carrys, Sums, Covers, Relation, Opposite
<1>2. step = "partners" /\ step' = "graph" /\ not_relation' = not_relation
  BY DEF FindPartners
<1>3. PICK sumset \in SUBSET Sums :
        /\ \A s \in Sums : \E t \in sumset : t.leaves = s.leaves
        /\ partners' = [c \in Carrys |-> {s \in sumset : Matches(s, c)}]
  BY DEF FindPartners
<1>4. \A s, c : Matches(s, c)' = Matches(s, c)
  BY <1>2 DEF Matches, SameOrNot
<1>5. ASSUME NEW c \in Carrys, NEW s \in Sums, Matches(s, c) PROVE partners'[c] # {}
  <2>1. PICK t \in sumset : t.leaves = s.leaves
    BY <1>3
  <2>2. Matches(t, c)
    BY <1>5, <2>1 DEF Matches
  <2> QED
    BY <1>3, <2>1, <2>2
<1>6. PartnersFound'
  BY <1>1, <1>3, <1>4, <1>5 DEF PartnersFound
<1>7. \A c : EdgesAt(edges_in, c)' \subseteq Carrys'
  BY <1>1 DEF FindPartners, graph, MatchInv, EdgesAt
<1> QED
  BY <1>1, <1>2, <1>6, <1>7 DEF MatchInv

LEMMA GraphIsMade ==
  ASSUME MatchInv, CreateGraph, netlist' = netlist PROVE MatchInv'
<1>1. Carrys' = Carrys /\ Sums' = Sums /\ Relation' = Relation
  BY DEF Carrys, Sums, Covers, Relation, Opposite
<1>2. step = "graph" /\ step' = "remove" /\ not_relation' = not_relation /\ partners' = partners
  BY DEF CreateGraph
<1> DEFINE outs == [a \in Carrys |-> {b \in Carrys : Edge2(a, b)}]
<1>3. edges_out' = Nonempty(outs)
  BY DEF CreateGraph
<1>4. \A s, c : Matches(s, c)' = Matches(s, c)
  BY <1>2 DEF Matches, SameOrNot
<1>5. PartnersFound'
  BY <1>1, <1>2, <1>4 DEF PartnersFound, MatchInv
<1>6. \A a, b : Edge2(a, b)' = Edge2(a, b)
  BY <1>2 DEF Edge2
<1>7. \A a : Led(a)' = Led(a)
  BY <1>1, <1>6 DEF Led
<1>8. DOMAIN outs = Carrys /\ \A a \in Carrys : outs[a] = Led(a)
  BY DEF Led
<1> HIDE DEF outs
<1>9. \A c : EdgesAt(outs, c) = IF c \in Carrys THEN Led(c) ELSE {}
  BY <1>8 DEF EdgesAt
<1>10. \A c : EdgesAt(edges_out', c) = IF c \in Carrys THEN Led(c) ELSE {}
  BY <1>3, <1>9, EdgesOfNonempty
<1>11. DOMAIN edges_out' = {a \in Carrys : Led(a) # {}}
  <2> DEFINE D == {c \in DOMAIN outs : outs[c] # {}}
  <2>1. D = {a \in Carrys : Led(a) # {}}
    BY <1>8
  <2>2. Nonempty(outs) = [c \in D |-> outs[c]]
    BY DEF Nonempty, Restrict
  <2> QED
    BY <1>3, <2>1, <2>2
<1>12. GraphMade'
  <2>1. \A c : EdgesAt(edges_out, c)' = EdgesAt(edges_out', c)
    BY DEF EdgesAt
  <2> QED
    BY <1>1, <1>7, <1>10, <2>1 DEF GraphMade
<1>13. {a \in Carrys : Led(a) # {}}' = {a \in Carrys : Led(a) # {}}
  BY <1>1, <1>7
<1>14. \A c : EdgesAt(edges_in, c)' \subseteq Carrys'
  <2> DEFINE ins == [b \in Carrys |-> {a \in Carrys : Edge2(a, b)}]
  <2>1. edges_in' = Nonempty(ins)
    BY DEF CreateGraph
  <2>2. \A c : EdgesAt(ins, c) \subseteq Carrys
    BY DEF EdgesAt
  <2> HIDE DEF ins
  <2>3. \A c : EdgesAt(edges_in', c) \subseteq Carrys
    BY <2>1, <2>2, EdgesOfNonempty
  <2> QED
    BY <1>1, <2>3 DEF EdgesAt
<1> QED
  BY <1>1, <1>2, <1>5, <1>11, <1>12, <1>13, <1>14 DEF MatchInv

LEMMA GraphIsPruned ==
  ASSUME MatchInv, RemoveContained, netlist' = netlist PROVE MatchInv'
<1>1. Carrys' = Carrys /\ Sums' = Sums /\ Relation' = Relation
  BY DEF Carrys, Sums, Covers, Relation, Opposite
<1>2. step = "remove" /\ step' = "starts" /\ not_relation' = not_relation /\ partners' = partners
      /\ edges_out' = Without(edges_out, nodes2remove)
  BY DEF RemoveContained
<1>3. \A s, c : Matches(s, c)' = Matches(s, c)
  BY <1>2 DEF Matches, SameOrNot
<1>4. PartnersFound'
  BY <1>1, <1>2, <1>3 DEF PartnersFound, MatchInv
<1>5. \A a, b : Edge2(a, b)' = Edge2(a, b)
  BY <1>2 DEF Edge2
<1>6. \A a : Led(a)' = Led(a)
  BY <1>1, <1>5 DEF Led
<1>7. \A na, nb : InvContained(na, nb)' = InvContained(na, nb)
  BY DEF InvContained, Inverter
<1>8. Dropped' = Dropped
  BY <1>1, <1>6, <1>7 DEF Dropped, Contained
<1>9. DOMAIN edges_out = {a \in Carrys : Led(a) # {}} /\ GraphMade
  BY <1>2 DEF MatchInv
<1>10. \A a \in DOMAIN edges_out : edges_out[a] = Led(a)
  <2> TAKE a \in DOMAIN edges_out
  <2>1. a \in Carrys /\ EdgesAt(edges_out, a) = Led(a)
    BY <1>9 DEF GraphMade
  <2> QED
    BY <2>1 DEF EdgesAt
<1>11. nodes2remove = Dropped
  <2>1. ASSUME NEW nb \in Carrys, Led(nb) # {}
        PROVE  (\E na \in DOMAIN edges_out \ {nb} : InvContained(na, nb) /\ edges_out[na] = edges_out[nb])
                 <=> \E na \in Carrys : Contained(na, nb)
    <3>1. nb \in DOMAIN edges_out /\ edges_out[nb] = Led(nb)
      BY <1>9, <1>10, <2>1
    <3>2. ASSUME NEW na \in DOMAIN edges_out \ {nb}, InvContained(na, nb), edges_out[na] = edges_out[nb]
          PROVE  na \in Carrys /\ Contained(na, nb)
      BY <1>9, <1>10, <3>1, <3>2 DEF Contained
    <3>3. ASSUME NEW na \in Carrys, Contained(na, nb)
          PROVE  na \in DOMAIN edges_out \ {nb} /\ InvContained(na, nb) /\ edges_out[na] = edges_out[nb]
      BY <1>9, <1>10, <3>1, <3>3 DEF Contained
    <3> QED
      BY <3>2, <3>3
  <2> QED
    BY <1>9, <2>1 DEF nodes2remove, Dropped
<1>12. DOMAIN edges_out' = {a \in Carrys : Led(a) # {}} \ Dropped
       /\ \A a \in DOMAIN edges_out' : edges_out'[a] = Led(a) \ Dropped
  <2>1. edges_out' = [c \in DOMAIN edges_out \ Dropped |-> edges_out[c] \ Dropped]
    BY <1>2, <1>11 DEF Without
  <2> QED
    BY <1>9, <1>10, <2>1
<1>13. GraphPruned'
  BY <1>1, <1>6, <1>8, <1>12 DEF GraphPruned
<1>14. \A c : EdgesAt(edges_in, c)' \subseteq Carrys'
  <2>1. edges_in' = Without(edges_in, nodes2remove)
    BY DEF RemoveContained
  <2>2. \A c : EdgesAt(edges_in', c) \subseteq Carrys
    BY <2>1, EdgesWithout DEF MatchInv
  <2> QED
    BY <1>1, <2>2 DEF EdgesAt
<1> QED
  BY <1>1, <1>2, <1>4, <1>13, <1>14 DEF MatchInv

LEMMA MatchStep ==
  ASSUME MatchInv, [AggregateNext]_<<vars, search>> PROVE MatchInv'
<1>1. ASSUME UNCHANGED search, netlist' = netlist PROVE MatchInv'
  <2>1. UNCHANGED <<not_relation, partners, edges_out, edges_in, step>>
    BY <1>1 DEF search, graph
  <2> QED
    BY <1>1, <2>1, MatchKept
<1>2. CASE UNCHANGED <<vars, search>>
  BY <1>1, <1>2 DEF vars
<1>3. CASE CreateNotRelation /\ UNCHANGED vars
  BY <1>3, RelationIsMade DEF vars
<1>4. CASE IdentifyRCAs
  <2>1. netlist' = netlist
    BY <1>4 DEF IdentifyRCAs
  <2>2. CASE FindPartners
    BY <2>1, <2>2, PartnersAreFound
  <2>3. CASE CreateGraph
    BY <2>1, <2>3, GraphIsMade
  <2>4. CASE RemoveContained
    BY <2>1, <2>4, GraphIsPruned
  <2>5. CASE StartChains \/ EndChains
    <3>1. UNCHANGED <<not_relation, partners, edges_out, edges_in>> /\ {step, step'} \subseteq {"starts", "chains", "done"}
      BY <2>5 DEF StartChains, EndChains, graph
    <3> QED
      BY <2>1, <3>1, MatchKept
  <2>6. CASE StartChain \/ Follow \/ Return
    <3>1. UNCHANGED <<not_relation, partners, edges_out, edges_in, step>>
      BY <2>6 DEF StartChain, Follow, Return, graph
    <3> QED
      BY <2>1, <3>1, MatchKept
  <2>7. CASE UseChain
    <3>1. UNCHANGED <<not_relation, partners, edges_out, edges_in>> /\ step = "chains" /\ step' \in {step, "abort"}
      BY <2>7 DEF UseChain, graph
    <3> QED
      BY <2>1, <3>1, MatchKept
  <2> QED
    BY <1>4, <2>2, <2>3, <2>4, <2>5, <2>6, <2>7 DEF IdentifyRCAs
<1>5. CASE Next /\ UNCHANGED search
  <2>1. netlist' = netlist
    BY <1>5 DEF Next, Analyse, StartLinks, Compare, NextRegister, StartGroups, MergeGroup,
       KeepRegisters, MergeBeside, ResolveOverlaps, MergeInPlace
  <2> QED
    BY <1>1, <1>5, <2>1
<1> QED
  BY <1>2, <1>3, <1>4, <1>5 DEF AggregateNext

-----------------------------------------------------------------------------
(* The walk along the graph misses no path from end to end: one that is     *)
(* long enough has become an adder, is the one being followed, or branches  *)
(* off it by an edge not yet taken.                                         *)
EndToEnd(q) ==
  /\ q \in Seq(Carrys) /\ Len(q) >= MinChain
  /\ \A k \in 1..(Len(q) - 1) : q[k + 1] \in EdgesAt(edges_out, q[k])
  /\ EdgesAt(edges_in, q[1]) = {} /\ EdgesAt(edges_out, q[Len(q)]) = {}
Made(q) == \E ad \in adders : ad.chain = q
BranchesOff(q, k) ==
  /\ k < Len(q) /\ q[k + 1] \in rest[k]
  /\ \A l \in 1..k : q[l] = chain[l]
Ahead(q) == q[1] \in starts \/ q = chain \/ \E k \in 1..Len(chain) : BranchesOff(q, k)
WalkInv ==
  /\ step \notin {"chains", "done", "abort"} => chain = <<>>
  /\ step = "chains" => /\ \A k \in 1..Len(chain) : rest[k] \subseteq EdgesAt(edges_out, chain[k])
                        /\ \A q : EndToEnd(q) => Made(q) \/ Ahead(q)
  /\ step = "done" => \A q : EndToEnd(q) => Made(q)

LEMMA EndToEndFacts ==
  ASSUME NEW q, EndToEnd(q)
  PROVE  /\ q \in Seq(Carrys) /\ Len(q) \in Nat /\ Len(q) >= 2 /\ Len(q) >= MinChain
         /\ q[1] \in DOMAIN edges_out /\ q[2] \in edges_out[q[1]]
         /\ \A k \in 1..Len(q) : q[k] \in Carrys
<1>1. q \in Seq(Carrys) /\ Len(q) \in Nat /\ Len(q) >= 2 /\ Len(q) >= MinChain
  BY MinChainAssumption DEF EndToEnd
<1>2. 1 \in 1..(Len(q) - 1) /\ 1 + 1 = 2
  BY <1>1
<1>3. q[2] \in EdgesAt(edges_out, q[1])
  BY <1>2 DEF EndToEnd
<1>4. \A k \in 1..Len(q) : q[k] \in Carrys
  BY <1>1
<1> QED
  BY <1>1, <1>3, <1>4 DEF EdgesAt

LEMMA WalkStarts ==
  ASSUME ChainsInv, WalkInv, StartChains, netlist' = netlist PROVE WalkInv'
<1>1. UNCHANGED <<edges_out, edges_in, chain, rest, adders>> /\ step = "starts" /\ step' = "chains"
      /\ starts' = {c \in DOMAIN edges_out : EdgesAt(edges_in, c) = {}}
  BY DEF StartChains, graph
<1>2. chain = <<>>
  BY <1>1 DEF WalkInv
<1>3. ASSUME NEW q, EndToEnd(q)' PROVE Ahead(q)'
  <2>1. EndToEnd(q)
    BY <1>1, <1>3 DEF EndToEnd, EdgesAt, Carrys, Covers
  <2>2. q[1] \in starts'
    BY <1>1, <2>1, EndToEndFacts DEF EndToEnd
  <2> QED
    BY <2>2 DEF Ahead
<1>4. Len(chain') = 0
  BY <1>1, <1>2
<1>5. \A k \in 1..Len(chain') : rest'[k] \subseteq EdgesAt(edges_out', chain'[k])
  BY <1>4
<1> QED
  BY <1>1, <1>3, <1>5 DEF WalkInv, EdgesAt

LEMMA WalkSets ==
  ASSUME ChainsInv, WalkInv, StartChain, netlist' = netlist PROVE WalkInv'
<1> DEFINE c == First(starts)
<1>1. /\ UNCHANGED <<edges_out, edges_in, adders, step>> /\ step = "chains" /\ chain = <<>>
      /\ starts' = starts \ {c} /\ chain' = <<c>> /\ rest' = <<edges_out[c]>>
  BY DEF StartChain, graph
<1>2. c \in starts
  BY DEF StartChain, First
<1> HIDE DEF c
<1>3. c \in DOMAIN edges_out
  BY <1>1, <1>2 DEF ChainsInv
<1>4. ASSUME NEW q, EndToEnd(q)' PROVE Made(q)' \/ Ahead(q)'
  <2>1. EndToEnd(q)
    BY <1>1, <1>4 DEF EndToEnd, EdgesAt, Carrys, Covers
  <2>2. Made(q) \/ Ahead(q)
    BY <1>1, <2>1 DEF WalkInv
  <2>3. Len(q) \in Nat /\ Len(q) >= 2 /\ q[2] \in edges_out[q[1]]
    BY <2>1, EndToEndFacts
  <2>4. q # chain /\ Len(chain) = 0
    <3>1. Len(chain) = 0
      BY <1>1
    <3> QED
      BY <2>3, <3>1
  <2>5. CASE q[1] = c
    <3>1. 1 \in 1..Len(chain') /\ chain'[1] = c /\ rest'[1] = edges_out[c] /\ 1 + 1 = 2 /\ 1 < Len(q)
      BY <1>1, <2>3
    <3>2. \A l \in 1..1 : l = 1
      OBVIOUS
    <3>3. BranchesOff(q, 1)'
      BY <2>3, <2>5, <3>1, <3>2 DEF BranchesOff
    <3> QED
      BY <3>1, <3>3 DEF Ahead
  <2>6. CASE q[1] # c
    <3>1. ~\E k \in 1..Len(chain) : BranchesOff(q, k)
      BY <2>4
    <3> QED
      BY <1>1, <2>2, <2>4, <2>6, <3>1 DEF Ahead, Made
  <2> QED
    BY <2>5, <2>6
<1>5. \A k \in 1..Len(chain') : rest'[k] \subseteq EdgesAt(edges_out', chain'[k])
  <2>1. Len(chain') = 1 /\ chain'[1] = c /\ rest'[1] = edges_out[c]
    BY <1>1
  <2>2. \A k \in 1..1 : k = 1
    OBVIOUS
  <2> QED
    BY <1>1, <1>3, <2>1, <2>2 DEF EdgesAt
<1> QED
  BY <1>1, <1>4, <1>5 DEF WalkInv, EdgesAt

LEMMA WalkFollows ==
  ASSUME ChainsInv, WalkInv, Follow, netlist' = netlist PROVE WalkInv'
<1> DEFINE c == First(Last(rest))
           n == Len(chain)
           less == [rest EXCEPT ![Len(rest)] = @ \ {c}]
           more == EdgesAt(edges_out, c)
<1>1. /\ UNCHANGED <<edges_out, edges_in, starts, adders, step>> /\ step = "chains" /\ chain # <<>>
      /\ chain' = Append(chain, c) /\ rest' = Append(less, more)
  BY DEF Follow, graph
<1>2. /\ chain \in Seq(Carrys) /\ rest \in Seq(SUBSET Carrys) /\ Len(rest) = n /\ n \in Nat
      /\ n \in 1..n /\ Last(rest) # {}
  BY <1>1 DEF Follow, ChainsInv, PathOK
<1>3. c \in rest[n]
  BY <1>2 DEF First, Last
<1>4. rest[n] \subseteq EdgesAt(edges_out, chain[n])
  BY <1>1, <1>2 DEF WalkInv
<1> HIDE DEF c, more
<1>5. Len(less) = n /\ \A k \in 1..n : less[k] = IF k = n THEN rest[n] \ {c} ELSE rest[k]
  BY <1>2
<1>6. less \in Seq(SUBSET Carrys)
  BY <1>2
<1> HIDE DEF less
<1>7. more \in SUBSET Carrys /\ c \in Carrys
  <2>1. c \in Carrys
    BY <1>2, <1>3
  <2> QED
    BY <2>1 DEF more, ChainsInv, CarryGraph, EdgesAt
<1>8. /\ Len(chain') = n + 1 /\ chain'[n + 1] = c /\ rest'[n + 1] = more
      /\ \A k \in 1..n : chain'[k] = chain[k] /\ rest'[k] = less[k]
  BY <1>1, <1>2, <1>5, <1>6, <1>7
<1> HIDE DEF n
<1>9. \A k \in 1..(n + 1) : k \in 1..n \/ k = n + 1
  BY <1>2
<1>10. ASSUME NEW q, EndToEnd(q)' PROVE Made(q)' \/ Ahead(q)'
  <2>1. EndToEnd(q)
    BY <1>1, <1>10 DEF EndToEnd, EdgesAt, Carrys, Covers
  <2>2. Made(q) \/ Ahead(q)
    BY <1>1, <2>1 DEF WalkInv
  <2>3. q \in Seq(Carrys) /\ Len(q) \in Nat
    BY <2>1, EndToEndFacts
  <2>4. CASE Made(q) \/ q[1] \in starts
    BY <1>1, <2>4 DEF Made, Ahead
  <2>5. CASE q = chain
    <3>1. EdgesAt(edges_out, chain[n]) = {}
      BY <2>1, <2>5 DEF EndToEnd, n
    <3> QED
      BY <1>3, <1>4, <3>1
  <2>6. ASSUME NEW k \in 1..n, BranchesOff(q, k) PROVE Ahead(q)'
    <3>1. k \in Nat /\ k < Len(q) /\ q[k + 1] \in rest[k] /\ \A l \in 1..k : q[l] = chain[l]
      BY <1>2, <2>6 DEF BranchesOff
    <3>2. \A l \in 1..k : l \in 1..n
      BY <1>2
    <3>3. \A l \in 1..k : q[l] = chain'[l]
      BY <1>8, <3>1, <3>2
    <3>4. CASE k # n \/ q[k + 1] # c
      <4>1. q[k + 1] \in rest'[k]
        BY <1>5, <1>8, <3>1, <3>4
      <4>2. BranchesOff(q, k)'
        BY <3>1, <3>3, <4>1 DEF BranchesOff
      <4>3. k \in 1..Len(chain')
        BY <1>2, <1>8
      <4> QED
        BY <4>2, <4>3 DEF Ahead
    <3>5. CASE k = n /\ q[k + 1] = c
      <4>1. \A l \in 1..(n + 1) : q[l] = chain'[l]
        BY <1>8, <1>9, <3>3, <3>5
      <4>2. CASE Len(q) = n + 1
        <5>1. chain' \in Seq(Carrys)
          BY <1>1, <1>2, <1>7
        <5>2. q = chain'
          BY <1>8, <2>3, <4>1, <4>2, <5>1
        <5> QED
          BY <5>2 DEF Ahead
      <4>3. CASE Len(q) # n + 1
        <5>1. n + 1 < Len(q) /\ n + 1 \in 1..(Len(q) - 1) /\ n + 1 \in 1..Len(chain')
          BY <1>2, <1>8, <2>3, <3>1, <3>5, <4>3
        <5>2. q[(n + 1) + 1] \in EdgesAt(edges_out, q[n + 1])
          BY <2>1, <5>1 DEF EndToEnd
        <5>3. q[(n + 1) + 1] \in rest'[n + 1]
          BY <1>8, <3>5, <5>2 DEF more
        <5>4. PICK m : m = n + 1
          OBVIOUS
        <5>5. BranchesOff(q, m)'
          BY <4>1, <5>1, <5>3, <5>4 DEF BranchesOff
        <5> QED
          BY <5>1, <5>4, <5>5 DEF Ahead
      <4> QED
        BY <4>2, <4>3
    <3> QED
      BY <3>4, <3>5
  <2> QED
    BY <2>2, <2>4, <2>5, <2>6 DEF Ahead, n
<1>11. \A k \in 1..Len(chain') : rest'[k] \subseteq EdgesAt(edges_out', chain'[k])
  <2> SUFFICES ASSUME NEW k \in 1..(n + 1) PROVE rest'[k] \subseteq EdgesAt(edges_out', chain'[k])
    BY <1>8
  <2>1. CASE k = n + 1
    BY <1>1, <1>8, <2>1 DEF more, EdgesAt
  <2>2. CASE k \in 1..n
    <3>1. rest[k] \subseteq EdgesAt(edges_out, chain[k])
      BY <1>1, <2>2 DEF WalkInv, n
    <3>2. rest'[k] \subseteq rest[k]
      BY <1>5, <1>8, <2>2
    <3> QED
      BY <1>1, <1>8, <2>2, <3>1, <3>2 DEF EdgesAt
  <2> QED
    BY <1>9, <2>1, <2>2
<1>12. \A k \in 1..Len(chain') : rest'[k] \subseteq EdgesAt(edges_out, chain[k])'
  BY <1>11 DEF EdgesAt
<1> QED
  BY <1>1, <1>10, <1>12 DEF WalkInv

(* Going back, after an end or where no edge is left.                       *)
LEMMA WalkBacks ==
  ASSUME ChainsInv, WalkInv, netlist' = netlist,
         UNCHANGED <<edges_out, edges_in, starts>>, step = "chains", step' = "chains",
         chain # <<>>, Last(rest) = {}, chain' = Front(chain), rest' = Front(rest),
         adders \subseteq adders', EndToEnd(chain) => \E ad \in adders' : ad.chain = chain
  PROVE  WalkInv'
<1> DEFINE n == Len(chain)
<1>1. /\ chain \in Seq(Carrys) /\ rest \in Seq(SUBSET Carrys) /\ Len(rest) = n /\ n \in Nat /\ n # 0
  BY DEF ChainsInv, PathOK
<1>2. rest[n] = {}
  BY <1>1 DEF Last
<1>3. /\ Len(chain') = n - 1 /\ \A k \in 1..(n - 1) : chain'[k] = chain[k] /\ rest'[k] = rest[k]
  BY <1>1 DEF Front
<1> HIDE DEF n
<1>4. ASSUME NEW q, EndToEnd(q)' PROVE Made(q)' \/ Ahead(q)'
  <2>1. EndToEnd(q)
    BY <1>4 DEF EndToEnd, EdgesAt, Carrys, Covers
  <2>2. Made(q) \/ Ahead(q)
    BY <2>1 DEF WalkInv
  <2>3. CASE Made(q) \/ q[1] \in starts \/ q = chain
    BY <2>1, <2>3 DEF Made, Ahead
  <2>4. ASSUME NEW k \in 1..n, BranchesOff(q, k) PROVE Ahead(q)'
    <3>1. k < Len(q) /\ q[k + 1] \in rest[k] /\ \A l \in 1..k : q[l] = chain[l]
      BY <2>4 DEF BranchesOff
    <3>2. k # n
      BY <1>2, <3>1
    <3>3. k \in 1..(n - 1) /\ \A l \in 1..k : l \in 1..(n - 1)
      BY <1>1, <3>2
    <3>4. BranchesOff(q, k)'
      BY <1>3, <3>1, <3>3 DEF BranchesOff
    <3> QED
      BY <1>3, <3>3, <3>4 DEF Ahead
  <2> QED
    BY <2>2, <2>3, <2>4 DEF Ahead, n
<1>5. \A k \in 1..Len(chain') : rest'[k] \subseteq EdgesAt(edges_out, chain[k])'
  <2> TAKE k \in 1..Len(chain')
  <2>1. k \in 1..(n - 1) /\ k \in 1..n
    BY <1>1, <1>3
  <2>2. rest[k] \subseteq EdgesAt(edges_out, chain[k])
    BY <2>1 DEF WalkInv, n
  <2> QED
    BY <1>3, <2>1, <2>2 DEF EdgesAt
<1> QED
  BY <1>4, <1>5 DEF WalkInv

LEMMA WalkUses ==
  ASSUME ChainsInv, WalkInv, UseChain, netlist' = netlist PROVE WalkInv'
<1>1. /\ UNCHANGED <<edges_out, edges_in, starts>> /\ step = "chains" /\ chain # <<>>
      /\ EdgesAt(edges_out, Last(chain)) = {}
      /\ chain' = Front(chain) /\ rest' = Front(rest) /\ step' \in {step, "abort"}
  BY DEF UseChain, graph
<1>2. CASE step' = "abort"
  BY <1>2 DEF WalkInv
<1>3. CASE step' = "chains"
  <2>1. chain \in Seq(Carrys) /\ Len(chain) \in 1..Len(chain) /\ Len(rest) = Len(chain)
    BY <1>1 DEF ChainsInv, PathOK
  <2>2. rest[Len(chain)] \subseteq EdgesAt(edges_out, chain[Len(chain)])
    BY <1>1, <2>1 DEF WalkInv
  <2>3. Last(rest) = {}
    BY <1>1, <2>1, <2>2 DEF Last
  <2>4. adders \subseteq adders'
    BY <1>3 DEF UseChain
  <2>5. ASSUME EndToEnd(chain) PROVE \E ad \in adders' : ad.chain = chain
    <3>1. ~(Len(chain) < MinChain)
      <4>1. Len(chain) >= MinChain /\ Len(chain) \in Nat /\ MinChain \in Nat
        BY <2>5, EndToEndFacts, MinChainAssumption
      <4> QED
        BY <4>1
    <3>2. PICK ad : ad.chain = chain /\ adders' = adders \cup {ad}
      <4>1. PICK sums \in [DOMAIN chain -> Sums] :
              adders' = adders \cup
                          {[chain |-> chain, sums |-> sums, module |-> AdderModule(chain, sums),
                            a |-> Word(chain, sums, 1), b |-> Word(chain, sums, 2),
                            carry_in |-> CarryIn(chain, sums)]}
        BY <1>3, <3>1 DEF UseChain
      <4> DEFINE ad == [chain |-> chain, sums |-> sums, module |-> AdderModule(chain, sums),
                        a |-> Word(chain, sums, 1), b |-> Word(chain, sums, 2),
                        carry_in |-> CarryIn(chain, sums)]
      <4>2. ad.chain = chain /\ adders' = adders \cup {ad}
        BY <4>1
      <4> HIDE DEF ad
      <4> QED
        BY <4>2
    <3> QED
      BY <3>2
  <2> QED
    BY <1>1, <1>3, <2>3, <2>4, <2>5, WalkBacks
<1> QED
  BY <1>1, <1>2, <1>3

LEMMA WalkReturns ==
  ASSUME ChainsInv, WalkInv, Return, netlist' = netlist PROVE WalkInv'
<1>1. /\ UNCHANGED <<edges_out, edges_in, starts, adders, step>> /\ step = "chains" /\ chain # <<>>
      /\ Last(rest) = {} /\ EdgesAt(edges_out, Last(chain)) # {}
      /\ chain' = Front(chain) /\ rest' = Front(rest)
  BY DEF Return, graph
<1>2. ~EndToEnd(chain)
  BY <1>1 DEF EndToEnd, Last
<1> QED
  BY <1>1, <1>2, WalkBacks

LEMMA WalkStep ==
  ASSUME ChainsInv, WalkInv, [AggregateNext]_<<vars, search>> PROVE WalkInv'
<1>1. ASSUME UNCHANGED <<edges_out, edges_in, starts, chain, rest, adders, step>>, netlist' = netlist
      PROVE WalkInv'
  BY <1>1 DEF WalkInv, EndToEnd, Made, Ahead, BranchesOff, EdgesAt, Carrys, Covers
<1>2. CASE UNCHANGED <<vars, search>>
  BY <1>1, <1>2 DEF vars, search, graph, walk
<1>3. ASSUME UNCHANGED chain, step' \notin {"chains", "done", "abort"}, step \notin {"chains", "done", "abort"}
      PROVE  WalkInv'
  BY <1>3 DEF WalkInv
<1>4. CASE CreateNotRelation /\ UNCHANGED vars
  BY <1>3, <1>4 DEF CreateNotRelation, walk
<1>5. CASE IdentifyRCAs
  <2>1. netlist' = netlist
    BY <1>5 DEF IdentifyRCAs
  <2>2. CASE FindPartners
    BY <1>3, <2>2 DEF FindPartners, walk
  <2>3. CASE CreateGraph
    BY <1>3, <2>3 DEF CreateGraph, walk
  <2>4. CASE RemoveContained
    BY <1>3, <2>4 DEF RemoveContained, walk
  <2>5. CASE EndChains
    <3>1. /\ UNCHANGED <<edges_out, edges_in, starts, chain, rest, adders>>
          /\ step = "chains" /\ step' = "done" /\ chain = <<>> /\ starts = {}
      BY <2>5 DEF EndChains, graph, walk
    <3>2. ASSUME NEW q, EndToEnd(q)' PROVE Made(q)'
      <4>1. EndToEnd(q)
        BY <2>1, <3>1, <3>2 DEF EndToEnd, EdgesAt, Carrys, Covers
      <4>2. Len(q) \in Nat /\ Len(q) >= 2 /\ Len(chain) = 0
        BY <3>1, <4>1, EndToEndFacts
      <4>3. q # chain /\ ~\E k \in 1..Len(chain) : BranchesOff(q, k)
        BY <4>2
      <4>4. ~Ahead(q)
        BY <3>1, <4>3 DEF Ahead
      <4> QED
        BY <3>1, <4>1, <4>4 DEF WalkInv, Made
    <3> QED
      BY <3>1, <3>2 DEF WalkInv
  <2> QED
    BY <1>5, <2>1, <2>2, <2>3, <2>4, <2>5, WalkStarts, WalkSets, WalkFollows, WalkUses, WalkReturns DEF IdentifyRCAs
<1>6. CASE Next /\ UNCHANGED search
  <2>1. netlist' = netlist
    BY <1>6 DEF Next, Analyse, StartLinks, Compare, NextRegister, StartGroups, MergeGroup,
       KeepRegisters, MergeBeside, ResolveOverlaps, MergeInPlace
  <2> QED
    BY <1>1, <1>6, <2>1 DEF search, graph, walk
<1> QED
  BY <1>2, <1>4, <1>5, <1>6 DEF AggregateNext

-----------------------------------------------------------------------------
(* What WellCovered says, in the words of the model.                        *)
Clean == IsNetlist(netlist) /\ CoversAreCovers /\ WellCovered(netlist)

LEMMA CleanFacts ==
  ASSUME Clean
  PROVE  /\ \A c \in Carrys \cup Sums :
              c.root \in Node /\ c.leaves \in SUBSET Node /\ c.root \notin c.leaves /\ IsFiniteSet(c.leaves)
         /\ \A c, d \in Carrys : c.root = d.root /\ c.leaves = d.leaves => c = d
         /\ \A n, m, l \in Node : Inverter(n, m) => ~Inverter(m, l)
         /\ \A n, m \in Node : Inverter(n, m) => \E c \in Covers({"not"}) : c.root = n /\ c.leaves = {m}
         /\ \A n, m \in Node : Inverter(n, m) =>
              \A c \in Carrys : c.root = n => \E d \in Carrys : d.root = m /\ d.leaves = c.leaves
         /\ \A c \in Carrys : \A n, m \in c.leaves : ~Inverter(n, m)
         /\ \A n \in Node : n \notin Cone(Reading(netlist), Reading(netlist).reads[n], {})
<1>1. Carrys = {c \in netlist.covers : c.fn \in {"carry", "and", "nand"}} /\ Sums \subseteq netlist.covers
  BY DEF Carrys, Sums, Covers
<1>2. ASSUME NEW c \in Carrys \cup Sums
      PROVE  c.root \in Node /\ c.leaves \in SUBSET Node /\ c.root \notin c.leaves /\ IsFiniteSet(c.leaves)
  <2>1. IsCover(c)
    BY <1>1 DEF Clean, CoversAreCovers
  <2>2. c.root \in Node /\ c.leaves \in SUBSET Node /\ c.root \notin c.leaves
    BY <2>1 DEF IsCover
  <2> QED
    BY <2>2, NodesAreFinite, FS_Subset
<1>3. \A c, d \in Carrys : c.root = d.root /\ c.leaves = d.leaves => c = d
  BY <1>1 DEF Clean, WellCovered
<1>4. ASSUME NEW n \in Node, NEW m \in Node, Inverter(n, m)
      PROVE  /\ \A l \in Node : ~Inverter(m, l)
             /\ \E c \in Covers({"not"}) : c.root = n /\ c.leaves = {m}
             /\ \A c \in Carrys : c.root = n => \E d \in Carrys : d.root = m /\ d.leaves = c.leaves
  <2>1. /\ \A l \in Node : ~(netlist.kind[m] = "inv" /\ netlist.reads[m] = {l})
        /\ \E c \in netlist.covers : c.fn = "not" /\ c.root = n /\ c.leaves = {m}
        /\ \A c \in Carrys : c.root = n => \E d \in Carrys : d.root = m /\ d.leaves = c.leaves
    BY <1>1, <1>4 DEF Clean, WellCovered, Inverter, Inverts
  <2> QED
    BY <2>1 DEF Inverter, Covers
<1>5. \A c \in Carrys : \A n, m \in c.leaves : ~Inverter(n, m)
  BY <1>1 DEF Clean, WellCovered, Inverter, Inverts
<1>6. \A n \in Node : n \notin Cone(Reading(netlist), Reading(netlist).reads[n], {})
  BY DEF Clean, WellCovered
<1> QED
  BY <1>2, <1>3, <1>4, <1>5, <1>6

(* A carry whose leaves are those of another but for inverters: each leaf   *)
(* of the other one has its counterpart.                                    *)
LEMMA ContainedLeaves ==
  ASSUME Clean, NEW na \in Carrys, NEW nb \in Carrys, InvContained(na, nb)
  PROVE  \A b \in nb.leaves : \E a \in na.leaves : a = b \/ Inverter(b, a)
<1> DEFINE S == na.leaves
           T == nb.leaves
           Of(a, b) == a = b \/ Inverter(b, a)
           f == [a \in S |-> CHOOSE b \in T : Of(a, b)]
<1>1. S \in SUBSET Node /\ T \in SUBSET Node /\ IsFiniteSet(T) /\ Cardinality(S) = Cardinality(T)
      /\ \A n, m \in S : ~Inverter(n, m)
  BY CleanFacts DEF InvContained
<1>2. \A a \in S : \E b \in T : Of(a, b)
  BY DEF InvContained
<1> HIDE DEF S, T
<1>3. \A a \in S : f[a] \in T /\ Of(a, f[a])
  BY <1>2
<1>4. f \in [S -> T]
  <2>1. f = [a \in S |-> f[a]]
    OBVIOUS
  <2> HIDE DEF f, Of
  <2> QED
    BY <1>3, <2>1
<1> HIDE DEF f
<1>5. ASSUME NEW a \in S, NEW c \in S, f[a] = f[c] PROVE a = c
  <2>1. Of(a, f[a]) /\ Of(c, f[a])
    BY <1>3, <1>5
  <2> QED
    BY <1>1, <2>1 DEF Inverter
<1>6. f \in Injection(S, T)
  BY <1>4, <1>5 DEF Injection, IsInjective
<1>7. f \in Surjection(S, T)
  BY <1>1, <1>6, FS_Injection
<1>8. \A b \in T : \E a \in S : Of(a, b)
  BY <1>3, <1>7 DEF Surjection
<1> QED
  BY <1>8 DEF S, T

LEMMA ContainedIsOrder ==
  ASSUME Clean
  PROVE  /\ \A na \in Carrys : InvContained(na, na)
         /\ \A na, nb, nc \in Carrys : InvContained(na, nb) /\ InvContained(nb, nc) => InvContained(na, nc)
         /\ \A na, nb \in Carrys : InvContained(na, nb) /\ InvContained(nb, na) => na = nb
<1>1. \A na \in Carrys : InvContained(na, na)
  BY DEF InvContained
<1>2. ASSUME NEW na \in Carrys, NEW nb \in Carrys, NEW nc \in Carrys, InvContained(na, nb), InvContained(nb, nc)
      PROVE  InvContained(na, nc)
  <2>1. na.leaves \in SUBSET Node /\ nb.leaves \in SUBSET Node /\ nc.leaves \in SUBSET Node
    BY CleanFacts
  <2>2. ASSUME NEW a \in na.leaves PROVE \E c \in nc.leaves : a = c \/ Inverter(c, a)
    <3>1. PICK b \in nb.leaves : a = b \/ Inverter(b, a)
      BY <1>2 DEF InvContained
    <3>2. PICK c \in nc.leaves : b = c \/ Inverter(c, b)
      BY <1>2 DEF InvContained
    <3>3. a \in Node /\ b \in Node /\ c \in Node
      BY <2>1
    <3>4. ~(Inverter(c, b) /\ Inverter(b, a))
      BY <3>3, CleanFacts
    <3> QED
      BY <3>1, <3>2, <3>4
  <2> QED
    BY <1>2, <2>2 DEF InvContained
<1>3. ASSUME NEW na \in Carrys, NEW nb \in Carrys, InvContained(na, nb), InvContained(nb, na)
      PROVE  na = nb
  <2>1. na.leaves \in SUBSET Node /\ nb.leaves \in SUBSET Node /\ IsFiniteSet(nb.leaves)
    BY CleanFacts
  <2>2. ASSUME NEW a \in na.leaves PROVE a \in nb.leaves
    <3>1. PICK b \in nb.leaves : a = b \/ Inverter(b, a)
      BY <1>3 DEF InvContained
    <3>2. PICK c \in na.leaves : b = c \/ Inverter(c, b)
      BY <1>3 DEF InvContained
    <3>3. a \in Node /\ b \in Node /\ c \in Node
      BY <2>1
    <3>4. ~(Inverter(c, b) /\ Inverter(b, a)) /\ ~Inverter(c, a)
      BY <3>3, CleanFacts
    <3> QED
      BY <3>1, <3>2, <3>4
  <2>3. na.leaves = nb.leaves
    <3>1. Cardinality(na.leaves) = Cardinality(nb.leaves) /\ na.leaves \in SUBSET nb.leaves
      BY <1>3, <2>2 DEF InvContained
    <3> QED
      BY <2>1, <3>1, FS_Subset
  <2> QED
    BY <1>3, <2>3, CleanFacts DEF InvContained
<1> QED
  BY <1>1, <1>2, <1>3

(* Of each carry that leads somewhere one stays in the graph that reads the *)
(* same but for inverters.                                                  *)
LEMMA OneStays ==
  ASSUME Clean, NEW nb \in Carrys, Led(nb) # {}
  PROVE  \E na \in Carrys \ Dropped : InvContained(na, nb) /\ Led(na) = Led(nb)
<1> DEFINE Below(n) == {x \in Carrys : InvContained(x, n) /\ Led(x) = Led(nb)}
           At(n) == {x.leaves : x \in Below(n)}
           T == {Cardinality(At(n)) : n \in Below(nb)}
<1>1. ASSUME NEW n \in Below(nb) PROVE IsFiniteSet(At(n)) /\ Cardinality(At(n)) \in Nat
  <2>1. At(n) \in SUBSET (SUBSET Node)
    BY CleanFacts
  <2>2. IsFiniteSet(SUBSET Node)
    BY NodesAreFinite, FS_SUBSET
  <2> HIDE DEF At
  <2> QED
    BY <2>1, <2>2, FS_Subset, FS_CardinalityType
<1>2. nb \in Below(nb)
  BY ContainedIsOrder
<1>3. T \in SUBSET Nat /\ T # {}
  <2> HIDE DEF At, Below
  <2> QED
    BY <1>1, <1>2
<1>4. PICK t \in T : \A u \in T : t <= u
  <2> HIDE DEF T
  <2> QED
    BY <1>3, LeastNat
<1>5. PICK na \in Below(nb) : t = Cardinality(At(na))
  <2> HIDE DEF At, Below
  <2> QED
    BY <1>4
<1>6. na \in Carrys /\ InvContained(na, nb) /\ Led(na) = Led(nb)
  OBVIOUS
<1>7. ASSUME na \in Dropped PROVE FALSE
  <2>1. PICK x \in Carrys : x # na /\ InvContained(x, na) /\ Led(x) = Led(na)
    BY <1>7 DEF Dropped, Contained
  <2>2. x \in Below(nb)
    BY <1>6, <2>1, ContainedIsOrder
  <2>3. At(x) \subseteq At(na)
    <3>1. Below(x) \subseteq Below(na)
      BY <1>6, <2>1, ContainedIsOrder
    <3> HIDE DEF Below
    <3> QED
      BY <3>1
  <2>4. na.leaves \in At(na)
    <3>1. na \in Below(na)
      BY <1>6, ContainedIsOrder
    <3> HIDE DEF Below
    <3> QED
      BY <3>1
  <2>5. na.leaves \notin At(x)
    <3> SUFFICES ASSUME NEW y \in Below(x), y.leaves = na.leaves PROVE FALSE
      OBVIOUS
    <3>1. y \in Carrys /\ InvContained(y, x) /\ y.root = na.root
      BY <2>1 DEF InvContained
    <3>2. y = na
      BY <3>1, CleanFacts
    <3> QED
      BY <2>1, <3>1, <3>2, ContainedIsOrder
  <2>6. Cardinality(At(x)) \in T
    <3> HIDE DEF At, Below
    <3> QED
      BY <2>2
  <2> HIDE DEF At, Below, T
  <2>7. IsFiniteSet(At(na)) /\ Cardinality(At(na)) \in Nat /\ Cardinality(At(x)) \in Nat
    BY <1>1, <2>2
  <2>8. Cardinality(At(x)) <= Cardinality(At(na)) /\ Cardinality(At(na)) # Cardinality(At(x))
    <3>1. At(x) \in SUBSET At(na)
      BY <2>3
    <3> QED
      BY <2>4, <2>5, <2>7, <3>1, FS_Subset
  <2>9. Cardinality(At(na)) <= Cardinality(At(x))
    BY <1>4, <1>5, <2>6
  <2> QED
    BY <2>7, <2>8, <2>9
<1> QED
  BY <1>6, <1>7

-----------------------------------------------------------------------------
(* Nodes of opposite values are related once there is an inverter.          *)
LEMMA OpposedAreRelated ==
  ASSUME Clean, not_relation = Relation, Covers({"not"}) # {},
         NEW n \in Node, NEW m \in Node, <<n, m>> \in Opposed(netlist)
  PROVE  SameOrNot(n, m) /\ SameOrNot(m, n)
<1> DEFINE inverters == Covers({"not"})
           SaidInverse(x, y) == \E c \in inverters : c.root = x /\ c.leaves = {y}
           Pair(x, y) == \E c, d \in netlist.covers : c.root = x /\ d.root = y /\ Opposite(c, d)
           Related(x, y) == inverters # {} /\ (SaidInverse(x, y) \/ Pair(x, y))
           D == {c.root : c \in netlist.covers} \cup UNION {c.leaves : c \in inverters}
<1>1. \A x \in Node : not_relation[x] = {y \in D : Related(x, y) \/ Related(y, x)}
  BY DEF Relation
<1>2. ASSUME NEW x \in Node, NEW y \in Node, Inverter(x, y) PROVE SaidInverse(x, y) /\ x \in D /\ y \in D
  <2>1. PICK c \in inverters : c.root = x /\ c.leaves = {y}
    BY <1>2, CleanFacts
  <2>2. c \in netlist.covers
    BY DEF Covers
  <2> QED
    BY <2>1, <2>2
<1>3. ASSUME NEW c \in netlist.covers, NEW d \in netlist.covers,
             {c.fn, d.fn} \in {{"and", "nand"}, {"or", "nor"}}, c.leaves = d.leaves
      PROVE  Opposite(c, d) \/ Opposite(d, c)
  <2>1. \/ c.fn = "and" /\ d.fn = "nand"
        \/ c.fn = "nand" /\ d.fn = "and"
        \/ c.fn = "or" /\ d.fn = "nor"
        \/ c.fn = "nor" /\ d.fn = "or"
    BY <1>3
  <2> QED
    BY <1>3, <2>1 DEF Opposite
<1> DEFINE P == {p \in netlist.covers \X netlist.covers :
                   /\ {p[1].fn, p[2].fn} \in {{"and", "nand"}, {"or", "nor"}}
                   /\ p[1].leaves = p[2].leaves}
<1>4. \/ Complements(n, m)
      \/ SaidInverse(n, m) \/ SaidInverse(m, n)
      \/ <<n, m>> \in {<<p[1].root, p[2].root>> : p \in P}
  <2> DEFINE nots == {c \in netlist.covers : c.fn = "not"}
  <2>1. \/ Complements(n, m)
        \/ <<n, m>> \in UNION {({c.root} \X c.leaves) \cup (c.leaves \X {c.root}) : c \in nots}
        \/ <<n, m>> \in {<<p[1].root, p[2].root>> : p \in P}
    BY DEF Opposed, Complements, Inverter, Inverts
  <2>2. CASE <<n, m>> \in UNION {({c.root} \X c.leaves) \cup (c.leaves \X {c.root}) : c \in nots}
    <3>0. PICK c \in nots : <<n, m>> \in ({c.root} \X c.leaves) \cup (c.leaves \X {c.root})
      <4> HIDE DEF nots
      <4> QED
        BY <2>2
    <3>1. PICK l \in c.leaves : (n = c.root /\ m = l) \/ (n = l /\ m = c.root)
      BY <3>0
    <3>2. c \in inverters
      BY DEF Covers
    <3>3. c.leaves = {l}
      <4>1. Cardinality(c.leaves) = 1 /\ c.leaves \in SUBSET Node
        BY <3>0 DEF Clean, CoversAreCovers, IsCover
      <4>2. IsFiniteSet(c.leaves)
        BY <4>1, NodesAreFinite, FS_Subset
      <4>3. PICK x : c.leaves = {x}
        BY <4>1, <4>2, FS_Singleton
      <4> QED
        BY <3>1, <4>3
    <3> QED
      BY <3>1, <3>2, <3>3
  <2> QED
    BY <2>1, <2>2
<1>5. CASE Complements(n, m) \/ SaidInverse(n, m) \/ SaidInverse(m, n)
  <2>1. SaidInverse(n, m) \/ SaidInverse(m, n)
    BY <1>2, <1>5 DEF Complements
  <2>2. \A x, y \in Node : SaidInverse(x, y) => x \in D /\ y \in D
    BY DEF Covers
  <2>3. n \in D /\ m \in D
    BY <2>1, <2>2
  <2>4. Related(n, m) \/ Related(m, n)
    BY <2>1
  <2> HIDE DEF D, Related
  <2> QED
    BY <1>1, <2>3, <2>4 DEF SameOrNot
<1>6. CASE <<n, m>> \in {<<p[1].root, p[2].root>> : p \in P}
  <2>1. PICK p \in P : <<n, m>> = <<p[1].root, p[2].root>>
    <3> HIDE DEF P
    <3> QED
      BY <1>6
  <2>2. p[1] \in netlist.covers /\ p[2] \in netlist.covers /\ p[1].root = n /\ p[2].root = m
    BY <2>1
  <2>3. Opposite(p[1], p[2]) \/ Opposite(p[2], p[1])
    BY <1>3, <2>1, <2>2
  <2>4. (Pair(n, m) \/ Pair(m, n)) /\ n \in D /\ m \in D
    BY <2>2, <2>3
  <2>5. Related(n, m) \/ Related(m, n)
    BY <2>4
  <2> HIDE DEF D, Related
  <2> QED
    BY <1>1, <2>4, <2>5 DEF SameOrNot
<1> QED
  BY <1>4, <1>5, <1>6

(* A carry for which there is a sum up to complement finds a partner.       *)
LEMMA SummedMatches ==
  ASSUME Clean, not_relation = Relation, NEW c \in Carrys, c \in Summed(Opposed(netlist))
  PROVE  \E s \in Sums : Matches(s, c)
<1>1. PICK s \in Sums :
        \/ c.leaves = s.leaves
        \/ Covers({"not"}) # {} /\ SameSignals(Opposed(netlist), s.leaves, c.leaves)
  BY DEF Summed
<1> DEFINE S == s.leaves
           T == c.leaves
<1>2. S \in SUBSET Node /\ T \in SUBSET Node /\ IsFiniteSet(S)
  BY CleanFacts
<1>3. CASE T = S
  <2> DEFINE f == [l \in T |-> l]
  <2>1. f \in [T -> S] /\ \A l \in T : SameOrNot(l, f[l])
    BY <1>3 DEF SameOrNot
  <2>2. Range(f) = S
    BY <1>3 DEF Range
  <2> HIDE DEF f
  <2> QED
    BY <1>3, <2>1, <2>2 DEF Matches
<1>4. CASE Covers({"not"}) # {} /\ SameSignals(Opposed(netlist), S, T)
  <2>1. Cardinality(S) = Cardinality(T)
    BY <1>4 DEF SameSignals
  <2>2. PICK f \in [S -> T] : Range(f) = T /\ \A n \in S : n = f[n] \/ <<n, f[n]>> \in Opposed(netlist)
    BY <1>4 DEF SameSignals
  <2> DEFINE g == [l \in T |-> CHOOSE n \in S : f[n] = l]
  <2> HIDE DEF S, T
  <2>3. \A l \in T : \E n \in S : f[n] = l
    BY <2>2 DEF Range
  <2>4. f \in Surjection(S, T)
    BY <2>3 DEF Surjection
  <2>5. f \in Injection(S, T)
    BY <1>2, <2>1, <2>4, FS_SurjSameCardinalityImpliesInj
  <2>6. \A l \in T : g[l] \in S /\ f[g[l]] = l
    BY <2>3
  <2>7. g \in [T -> S]
    <3>1. g = [l \in T |-> g[l]]
      OBVIOUS
    <3> HIDE DEF g
    <3> QED
      BY <2>6, <3>1
  <2> HIDE DEF g
  <2>8. Range(g) = S
    <3>1. ASSUME NEW n \in S PROVE \E l \in T : g[l] = n
      <4>1. f[n] \in T /\ f[g[f[n]]] = f[n] /\ g[f[n]] \in S
        BY <2>6
      <4>2. g[f[n]] = n
        BY <2>5, <4>1 DEF Injection, IsInjective
      <4> QED
        BY <4>1, <4>2
    <3> QED
      BY <2>7, <3>1 DEF Range
  <2>9. ASSUME NEW l \in T PROVE SameOrNot(l, g[l])
    <3>1. g[l] \in S /\ f[g[l]] = l /\ l \in Node /\ g[l] \in Node
      BY <1>2, <2>6
    <3>2. CASE g[l] = l
      BY <3>2 DEF SameOrNot
    <3>3. CASE <<g[l], l>> \in Opposed(netlist)
      BY <1>4, <3>1, <3>3, OpposedAreRelated
    <3> QED
      BY <2>2, <3>1, <3>2, <3>3
  <2> QED
    BY <2>1, <2>7, <2>8, <2>9 DEF Matches, S, T
<1> QED
  BY <1>1, <1>3, <1>4

(* The covers of a node come after those of their leaves.                   *)
LEMMA NodesInOrder ==
  ASSUME Clean
  PROVE  \E h \in [Node -> 0..NumNodes] : \A c \in Carrys : \A l \in c.leaves : h[l] < h[c.root]
<1> DEFINE R == Reading(netlist)
           Back(s) == Cone(R, s, {})
           h == [n \in Node |-> Cardinality(Back({n}))]
<1>1. R.reads \in [Node -> SUBSET Node]
  <2>1. \A n \in Node : UNION {c.leaves : c \in {c \in netlist.covers : c.root = n}} \in SUBSET Node
    BY DEF Clean, CoversAreCovers, IsCover
  <2>2. R.reads = [n \in Node |-> UNION {c.leaves : c \in {c \in netlist.covers : c.root = n}}]
    BY DEF Reading
  <2> QED
    BY <2>1, <2>2
<1>2. ASSUME NEW c \in Carrys PROVE c.leaves \subseteq R.reads[c.root]
  <2>1. R.reads = [n \in Node |-> UNION {d.leaves : d \in {d \in netlist.covers : d.root = n}}]
    BY DEF Reading
  <2>2. c.root \in Node /\ c \in netlist.covers
    BY CleanFacts DEF Carrys, Covers
  <2> QED
    BY <2>1, <2>2
<1>3. \A n \in Node : n \notin Back(R.reads[n])
  BY CleanFacts
<1> HIDE DEF R
<1>4. ASSUME NEW s \in SUBSET Node
      PROVE  /\ Back(s) \in SUBSET Node /\ s \subseteq Back(s) /\ ClosedUnder(R, {}, Back(s))
             /\ \A t \in SUBSET Node : s \subseteq t /\ ClosedUnder(R, {}, t) => Back(s) \subseteq t
  BY <1>1, ConeIsLeast
<1> HIDE DEF Back
<1>5. ASSUME NEW n \in Node PROVE IsFiniteSet(Back({n})) /\ Cardinality(Back({n})) \in 0..NumNodes
  <2>1. Back({n}) \in SUBSET Node
    BY <1>4
  <2>2. IsFiniteSet(Node) /\ Cardinality(Node) = NumNodes
    <3>1. 1 \in Int /\ NumNodes \in Int /\ (1 > NumNodes => NumNodes = 0) /\ NumNodes - 1 + 1 = NumNodes
      BY NumNodesAssumption
    <3> QED
      BY <3>1, FS_Interval DEF Node
  <2>3. IsFiniteSet(Back({n})) /\ Cardinality(Back({n})) <= NumNodes
    BY <2>1, <2>2, FS_Subset
  <2>4. Cardinality(Back({n})) \in Nat
    BY <2>3, FS_CardinalityType
  <2> QED
    BY <2>3, <2>4, NumNodesAssumption
<1>6. ASSUME NEW c \in Carrys, NEW l \in c.leaves PROVE h[l] < h[c.root]
  <2> DEFINE n == c.root
  <2>1. n \in Node /\ l \in Node /\ l \in R.reads[n] /\ R.reads[n] \in SUBSET Node
    BY <1>1, <1>2, CleanFacts
  <2> HIDE DEF n
  <2>2. l \in Back({n})
    <3>1. n \in Back({n})
      BY <1>4, <2>1
    <3>2. ClosedUnder(R, {}, Back({n}))
      BY <1>4, <2>1
    <3> QED
      BY <2>1, <3>1, <3>2 DEF ClosedUnder
  <2>3. Back({l}) \subseteq Back({n})
    <3>1. Back({n}) \in SUBSET Node /\ ClosedUnder(R, {}, Back({n})) /\ {l} \subseteq Back({n})
      BY <1>4, <2>1, <2>2
    <3> QED
      BY <1>4, <2>1, <3>1
  <2>4. Back({l}) \subseteq Back(R.reads[n])
    <3>1. Back(R.reads[n]) \in SUBSET Node /\ ClosedUnder(R, {}, Back(R.reads[n])) /\ {l} \subseteq Back(R.reads[n])
      BY <1>4, <2>1
    <3> QED
      BY <1>4, <2>1, <3>1
  <2>5. n \notin Back({l}) /\ n \in Back({n})
    BY <1>3, <1>4, <2>1, <2>4
  <2>6. Back({l}) \in SUBSET Back({n})
    BY <2>3
  <2>7. Cardinality(Back({l})) <= Cardinality(Back({n})) /\ Cardinality(Back({l})) # Cardinality(Back({n}))
    BY <1>5, <2>1, <2>5, <2>6, FS_Subset
  <2>8. h[l] = Cardinality(Back({l})) /\ h[n] = Cardinality(Back({n}))
    BY <2>1
  <2>9. Cardinality(Back({l})) \in Nat /\ Cardinality(Back({n})) \in Nat
    BY <1>5, <2>1, NumNodesAssumption
  <2>10. Cardinality(Back({l})) < Cardinality(Back({n}))
    BY <2>7, <2>9
  <2> QED
    BY <2>8, <2>10 DEF n
<1>7. h \in [Node -> 0..NumNodes]
  BY <1>5
<1> HIDE DEF h
<1> QED
  BY <1>6, <1>7

-----------------------------------------------------------------------------
(* Paths through carries, and the longest around one.                       *)
LEMMA PathsJoin ==
  ASSUME NEW carries, NEW p \in Paths(carries)
  PROVE  /\ p \in Seq(carries) /\ Len(p) >= 1
         /\ \A k \in 1..(Len(p) - 1) : CanJoin(p[k], p[k + 1])
<1> DEFINE N == NumNodes
           V == SUBSET Seq(carries)
           More(s) == {<<c>> : c \in carries} \cup
                      UNION {{Append(q, c) : c \in {d \in carries : CanJoin(Last(q), d)}} : q \in s}
           Enter == [x \in (1..N) \X V |-> More(x[2])]
           Solves(g) == g = [k \in 0..N |-> IF k = 0 THEN {} ELSE More(g[k - 1])]
           upTo == CHOOSE g : Solves(g)
<1>1. N \in Nat
  BY NumNodesAssumption
<1>2. Paths(carries) = upTo[N]
  BY DEF Paths
<1>3. ASSUME NEW s \in V PROVE More(s) \in V
  <2>1. \A c \in carries : <<c>> \in Seq(carries)
    OBVIOUS
  <2>2. \A q \in s : \A c \in carries : Append(q, c) \in Seq(carries)
    BY <1>3
  <2>3. ASSUME NEW q \in s PROVE {Append(q, c) : c \in {d \in carries : CanJoin(Last(q), d)}} \subseteq Seq(carries)
    BY <2>2
  <2>4. {<<c>> : c \in carries} \subseteq Seq(carries)
    BY <2>1
  <2>5. (UNION {{Append(q, c) : c \in {d \in carries : CanJoin(Last(q), d)}} : q \in s}) \subseteq Seq(carries)
    BY <2>3
  <2> QED
    BY <2>4, <2>5
<1>4. Enter \in [(1..N) \X V -> V]
  <2> HIDE DEF V, More
  <2> QED
    BY <1>3
<1>5. {} \in V
  OBVIOUS
<1>6. Solves(upTo)
  <2>1. PICK f : Entered(f, V, Enter, N)
    <3> HIDE DEF V, Enter, N
    <3> QED
      BY <1>1, <1>4, <1>5, EnteredExists
  <2>2. \A k \in 0..N : f[k] = IF k = 0 THEN {} ELSE More(f[k - 1])
    <3> SUFFICES ASSUME NEW k \in 0..N PROVE f[k] = IF k = 0 THEN {} ELSE More(f[k - 1])
      OBVIOUS
    <3>1. CASE k = 0
      <4> HIDE DEF V, Enter, More
      <4> QED
        BY <2>1, <3>1 DEF Entered
    <3>2. CASE k # 0
      <4>1. k \in 1..N /\ k - 1 \in 0..N
        BY <1>1, <3>2
      <4>2. f[k - 1] \in V /\ f[k] = Enter[<<k, f[k - 1]>>]
        <5> HIDE DEF V, Enter, N
        <5> QED
          BY <2>1, <3>2, <4>1 DEF Entered
      <4>3. Enter[<<k, f[k - 1]>>] = More(f[k - 1])
        <5> HIDE DEF V, More
        <5> QED
          BY <4>1, <4>2
      <4> HIDE DEF V, Enter, More
      <4> QED
        BY <3>2, <4>2, <4>3
    <3> QED
      BY <3>1, <3>2
  <2>3. f = [k \in 0..N |-> f[k]]
    <3> HIDE DEF V, Enter
    <3> QED
      BY <2>1 DEF Entered
  <2>4. Solves(f)
    <3> HIDE DEF More, N
    <3> QED
      BY <2>2, <2>3
  <2> HIDE DEF Solves
  <2> QED
    BY <2>4
<1> DEFINE Joined1(q) == /\ q \in Seq(carries) /\ Len(q) >= 1
                         /\ \A k \in 1..(Len(q) - 1) : CanJoin(q[k], q[k + 1])
           T == {k \in Nat : k <= N /\ ~\A q \in upTo[k] : Joined1(q)}
<1> HIDE DEF upTo
<1>7. \A k \in 0..N : upTo[k] = IF k = 0 THEN {} ELSE More(upTo[k - 1])
  <2> HIDE DEF More, N
  <2> QED
    BY <1>6
<1>8. ASSUME T # {} PROVE FALSE
  <2>1. PICK k \in T : \A y \in T : k <= y
    <3>1. T \in SUBSET Nat
      OBVIOUS
    <3> HIDE DEF T
    <3> QED
      BY <1>8, <3>1, LeastNat
  <2>2. k \in Nat /\ k <= N /\ ~\A q \in upTo[k] : Joined1(q)
    BY <2>1
  <2> HIDE DEF Joined1
  <2>3. k # 0
    <3>1. 0 \in 0..N
      BY <1>1
    <3>2. upTo[0] = {}
      <4> HIDE DEF More, N
      <4> QED
        BY <1>7, <3>1
    <3> QED
      BY <2>2, <3>2
  <2>4. k - 1 \in Nat /\ k - 1 <= N /\ k \in 0..N /\ ~(k <= k - 1)
    BY <1>1, <2>2, <2>3
  <2>5. \A q \in upTo[k - 1] : Joined1(q)
    BY <2>1, <2>4
  <2>6. upTo[k] = More(upTo[k - 1])
    <3> HIDE DEF More
    <3> QED
      BY <1>7, <2>3, <2>4
  <2>7. ASSUME NEW q \in upTo[k - 1], NEW c \in carries, CanJoin(Last(q), c) PROVE Joined1(Append(q, c))
    <3>1. q \in Seq(carries) /\ Len(q) >= 1 /\ \A l \in 1..(Len(q) - 1) : CanJoin(q[l], q[l + 1])
      BY <2>5 DEF Joined1
    <3> DEFINE r == Append(q, c)
               n == Len(q)
    <3>2. n \in Nat /\ r \in Seq(carries) /\ Len(r) = n + 1 /\ r[n + 1] = c
          /\ \A l \in 1..n : r[l] = q[l]
      BY <3>1
    <3>3. CanJoin(q[n], c)
      BY <2>7 DEF Last
    <3> HIDE DEF r, n
    <3>4. ASSUME NEW l \in 1..n PROVE CanJoin(r[l], r[l + 1])
      <4>1. CASE l = n
        BY <3>2, <3>3, <3>4, <4>1
      <4>2. CASE l # n
        <5>1. l \in 1..(n - 1) /\ l + 1 \in 1..n
          BY <3>2, <4>2
        <5> QED
          BY <3>1, <3>2, <5>1 DEF n
      <4> QED
        BY <4>1, <4>2
    <3>5. n >= 1 /\ (n + 1) - 1 = n /\ n + 1 >= 1
      BY <3>1, <3>2 DEF n
    <3>6. Joined1(r)
      BY <3>2, <3>4, <3>5 DEF Joined1
    <3> QED
      BY <3>6 DEF r
  <2>8. ASSUME NEW c \in carries PROVE Joined1(<<c>>)
    <3>1. <<c>> \in Seq(carries) /\ Len(<<c>>) = 1 /\ 1..(1 - 1) = {}
      OBVIOUS
    <3> QED
      BY <3>1 DEF Joined1
  <2>9. \A q \in upTo[k] : Joined1(q)
    BY <2>6, <2>7, <2>8
  <2> QED
    BY <2>2, <2>9
<1>9. \A q \in upTo[N] : Joined1(q)
  <2>1. N \in Nat /\ N <= N
    BY <1>1
  <2> HIDE DEF Joined1
  <2> QED
    BY <1>8, <2>1
<1> QED
  BY <1>2, <1>9

Along(V, G, q) == q \in Seq(V) /\ Len(q) >= 1 /\ \A k \in 1..(Len(q) - 1) : q[k + 1] \in G[q[k]]
Holds(q, p) == \E k \in 0..(Len(q) - Len(p)) : \A l \in 1..Len(p) : q[k + l] = p[l]

(* Where edges go up in a bounded order, a path is a part of one that goes  *)
(* from end to end.                                                         *)
LEMMA LongestPath ==
  ASSUME NEW V, NEW G \in [V -> SUBSET V], NEW B \in Nat, NEW h \in [V -> 0..B],
         \A v \in V : \A w \in G[v] : h[v] < h[w],
         NEW p, Along(V, G, p)
  PROVE  \E q : /\ Along(V, G, q) /\ Holds(q, p)
                /\ G[q[Len(q)]] = {} /\ \A v \in V : q[1] \notin G[v]
<1> DEFINE IsLen(n) == \E q : Along(V, G, q) /\ Holds(q, p) /\ Len(q) = n
           T == {n \in Nat : n <= B + 1 /\ IsLen((B + 1) - n)}
<1>1. ASSUME NEW q, Along(V, G, q) PROVE Len(q) \in Nat /\ Len(q) <= B + 1
  <2>1. q \in Seq(V) /\ Len(q) \in Nat /\ Len(q) >= 1
    BY <1>1 DEF Along
  <2>2. \A k \in 1..Len(q) : q[k] \in V /\ h[q[k]] \in 0..B
    BY <2>1
  <2> DEFINE L == {k \in Nat : k \in 1..Len(q) /\ ~(h[q[k]] >= k - 1)}
  <2>3. ASSUME L # {} PROVE FALSE
    <3>1. PICK k \in L : \A y \in L : k <= y
      <4>1. L \in SUBSET Nat
        OBVIOUS
      <4> HIDE DEF L
      <4> QED
        BY <2>3, <4>1, LeastNat
    <3>2. k \in Nat /\ k \in 1..Len(q) /\ ~(h[q[k]] >= k - 1) /\ h[q[k]] \in 0..B
      BY <2>2, <3>1
    <3>3. k # 1
      BY <3>2
    <3>4. k - 1 \in Nat /\ k - 1 \in 1..Len(q) /\ k - 1 \in 1..(Len(q) - 1) /\ ~(k <= k - 1) /\ (k - 1) + 1 = k
      BY <2>1, <3>2, <3>3
    <3>5. h[q[k - 1]] >= (k - 1) - 1
      BY <3>1, <3>4
    <3>6. q[k] \in G[q[k - 1]]
      BY <1>1, <3>4 DEF Along
    <3>7. h[q[k - 1]] < h[q[k]] /\ h[q[k - 1]] \in 0..B
      BY <2>2, <3>4, <3>6
    <3> QED
      BY <3>2, <3>5, <3>7
  <2>4. Len(q) \in 1..Len(q)
    BY <2>1
  <2>5. h[q[Len(q)]] >= Len(q) - 1
    BY <2>1, <2>3, <2>4
  <2>6. h[q[Len(q)]] \in 0..B
    BY <2>2, <2>4
  <2> QED
    BY <2>1, <2>5, <2>6
<1>2. Holds(p, p)
  <2>1. Len(p) \in Nat
    BY DEF Along
  <2>2. 0 \in 0..(Len(p) - Len(p)) /\ \A l \in 1..Len(p) : 0 + l = l
    BY <2>1
  <2> QED
    BY <2>2 DEF Holds
<1>3. \A q : Along(V, G, q) /\ Holds(q, p) => (B + 1) - Len(q) \in T
  <2> TAKE q
  <2> HAVE Along(V, G, q) /\ Holds(q, p)
  <2>1. Len(q) \in Nat /\ Len(q) <= B + 1
    BY <1>1
  <2>2. (B + 1) - Len(q) \in Nat /\ (B + 1) - Len(q) <= B + 1 /\ (B + 1) - ((B + 1) - Len(q)) = Len(q)
    BY <2>1
  <2> QED
    BY <2>2
<1>4. T \in SUBSET Nat /\ T # {}
  <2>1. T \in SUBSET Nat
    OBVIOUS
  <2> HIDE DEF T
  <2> QED
    BY <1>2, <1>3, <2>1
<1>5. PICK t \in T : \A y \in T : t <= y
  <2> HIDE DEF T
  <2> QED
    BY <1>4, LeastNat
<1>6. t \in Nat /\ t <= B + 1
  BY <1>5
<1>7. PICK q : Along(V, G, q) /\ Holds(q, p) /\ Len(q) = (B + 1) - t
  BY <1>5
<1>8. \A r : Along(V, G, r) /\ Holds(r, p) => Len(r) <= Len(q)
  <2> TAKE r
  <2> HAVE Along(V, G, r) /\ Holds(r, p)
  <2>1. (B + 1) - Len(r) \in T
    BY <1>3
  <2>2. t <= (B + 1) - Len(r)
    <3> HIDE DEF T
    <3> QED
      BY <1>5, <2>1
  <2>3. Len(r) \in Nat /\ Len(q) \in Nat
    BY <1>1, <1>7
  <2> QED
    BY <1>6, <1>7, <2>2, <2>3
<1> HIDE DEF T
<1> DEFINE n == Len(q)
           m == Len(p)
<1>9. q \in Seq(V) /\ n \in Nat /\ n >= 1 /\ m \in Nat /\ m >= 1 /\ \A k \in 1..(n - 1) : q[k + 1] \in G[q[k]]
  BY <1>7 DEF Along
<1>10. PICK k \in 0..(n - m) : \A l \in 1..m : q[k + l] = p[l]
  BY <1>7 DEF Holds
<1>11. q[1] \in V /\ q[n] \in V
  <2>1. 1 \in 1..n /\ n \in 1..n
    BY <1>9
  <2> QED
    BY <1>9, <2>1
<1>12. ASSUME NEW w \in G[q[n]] PROVE FALSE
  <2> DEFINE r == Append(q, w)
  <2>1. w \in V
    BY <1>11, <1>12
  <2>2. r \in Seq(V) /\ Len(r) = n + 1 /\ r[n + 1] = w /\ \A l \in 1..n : r[l] = q[l]
    BY <1>9, <2>1
  <2> HIDE DEF r, n, m
  <2>3. ASSUME NEW l \in 1..n PROVE r[l + 1] \in G[r[l]]
    <3>1. CASE l = n
      BY <1>12, <2>2, <2>3, <3>1
    <3>2. CASE l # n
      <4>1. l \in 1..(n - 1) /\ l + 1 \in 1..n
        BY <1>9, <3>2
      <4> QED
        BY <1>9, <2>2, <4>1
    <3> QED
      BY <3>1, <3>2
  <2>4. (n + 1) - 1 = n /\ n + 1 >= 1
    BY <1>9
  <2>5. Along(V, G, r)
    BY <2>2, <2>3, <2>4 DEF Along
  <2>6. k \in 0..((n + 1) - m) /\ \A l \in 1..m : k + l \in 1..n
    BY <1>9
  <2>7. Holds(r, p)
    BY <1>10, <2>2, <2>6 DEF Holds, m
  <2>8. Len(r) <= n
    BY <1>8, <2>5, <2>7 DEF n
  <2> QED
    BY <1>9, <2>2, <2>8
<1>13. ASSUME NEW v \in V, q[1] \in G[v] PROVE FALSE
  <2> DEFINE r == <<v>> \o q
  <2>1. r \in Seq(V) /\ Len(r) = n + 1 /\ r[1] = v /\ \A l \in 1..n : r[l + 1] = q[l]
    BY <1>9
  <2> HIDE DEF r, n, m
  <2>2. ASSUME NEW l \in 1..n PROVE r[l + 1] \in G[r[l]]
    <3>1. CASE l = 1
      BY <1>13, <2>1, <2>2, <3>1
    <3>2. CASE l # 1
      <4>1. l - 1 \in 1..(n - 1) /\ l - 1 \in 1..n /\ (l - 1) + 1 = l
        BY <1>9, <3>2
      <4>2. q[l] \in G[q[l - 1]]
        BY <1>9, <4>1
      <4>3. r[l] = q[l - 1] /\ r[l + 1] = q[l]
        BY <2>1, <4>1
      <4> QED
        BY <4>2, <4>3
    <3> QED
      BY <3>1, <3>2
  <2>3. (n + 1) - 1 = n /\ n + 1 >= 1
    BY <1>9
  <2>4. Along(V, G, r)
    BY <2>1, <2>2, <2>3 DEF Along
  <2>5. k + 1 \in 0..((n + 1) - m) /\ \A l \in 1..m : k + l \in 1..n /\ (k + 1) + l = (k + l) + 1
    BY <1>9
  <2>6. Holds(r, p)
    BY <1>10, <2>1, <2>5 DEF Holds, m
  <2>7. Len(r) <= n
    BY <1>8, <2>4, <2>6 DEF n
  <2> QED
    BY <1>9, <2>1, <2>7
<1>14. G[q[n]] = {}
  BY <1>12
<1> QED
  BY <1>7, <1>13, <1>14

-----------------------------------------------------------------------------
(* A path of carries that have sums is, but for inverters, one in what is   *)
(* left of the graph: it is made from its end back, at each place from a    *)
(* carry that stays and that reads the one before or what that inverts.     *)
SameRoot(c, d) == c.root = d.root \/ Complements(c.root, d.root)
Stays(a, b) == a \notin Dropped /\ b \notin Dropped /\ b \in Led(a)
Lifted(p, r, t) ==
  /\ r \in Seq(Carrys) /\ Len(r) = t
  /\ \A k \in 1..(t - 1) : Stays(r[k], r[k + 1])
  /\ \A l \in 1..t : SameRoot(r[l], p[(Len(p) - t) + l])
  /\ r[1] \notin Dropped /\ partners[r[1]] # {}
  /\ \E d \in Carrys : d.leaves = p[(Len(p) - t) + 1].leaves /\ InvContained(r[1], d)

LEMMA PartnerStays ==
  ASSUME Clean, NEW d \in Carrys, partners[d] # {}
  PROVE  \E a \in Carrys \ Dropped : InvContained(a, d) /\ Led(a) = Led(d) /\ partners[a] # {}
<1>1. CASE Led(d) = {}
  <2>1. d \notin Dropped
    BY <1>1 DEF Dropped
  <2> QED
    BY <2>1, ContainedIsOrder
<1>2. CASE Led(d) # {}
  <2>1. PICK a \in Carrys \ Dropped : InvContained(a, d) /\ Led(a) = Led(d)
    BY <1>2, OneStays
  <2>2. partners[a] # {}
    BY <1>2, <2>1 DEF Led, Edge2
  <2> QED
    BY <2>1, <2>2
<1> QED
  BY <1>1, <1>2

LEMMA PathIsLifted ==
  ASSUME Clean, PartnersFound, NEW p \in Seq(Carrys), Len(p) >= 1,
         \A k \in 1..(Len(p) - 1) : CanJoin(p[k], p[k + 1]),
         \A k \in 1..Len(p) : \E s \in Sums : Matches(s, p[k])
  PROVE  \E r : Lifted(p, r, Len(p))
<1> DEFINE n == Len(p)
           T == {t \in Nat : t \in 1..n /\ ~\E r : Lifted(p, r, t)}
<1>1. n \in Nat /\ \A k \in 1..n : p[k] \in Carrys
  OBVIOUS
<1>2. ASSUME NEW c \in Carrys, NEW k \in 1..n, c.leaves = p[k].leaves PROVE partners[c] # {}
  <2>1. PICK s \in Sums : Matches(s, p[k])
    OBVIOUS
  <2>2. Matches(s, c)
    BY <1>2, <2>1 DEF Matches
  <2> QED
    BY <2>1, <2>2 DEF PartnersFound
<1>3. SUFFICES ASSUME T # {} PROVE FALSE
  <2>1. n \in Nat /\ n \in 1..n
    BY <1>1
  <2> QED
    BY <2>1
<1>4. PICK t \in T : \A y \in T : t <= y
  <2>1. T \in SUBSET Nat
    OBVIOUS
  <2> HIDE DEF T
  <2> QED
    BY <1>3, <2>1, LeastNat
<1>5. t \in Nat /\ t \in 1..n /\ ~\E r : Lifted(p, r, t)
  BY <1>4
<1>6. CASE t = 1
  <2>1. n \in 1..n
    BY <1>1
  <2>2. p[n] \in Carrys /\ partners[p[n]] # {}
    BY <1>1, <1>2, <2>1
  <2>3. PICK a \in Carrys \ Dropped : InvContained(a, p[n]) /\ partners[a] # {}
    BY <2>2, PartnerStays
  <2> DEFINE r == <<a>>
  <2>4. r \in Seq(Carrys) /\ Len(r) = 1 /\ r[1] = a /\ 1..(1 - 1) = {} /\ (n - 1) + 1 = n
    BY <1>1, <2>3
  <2> HIDE DEF r
  <2>5. \A l \in 1..1 : l = 1
    OBVIOUS
  <2>6. SameRoot(a, p[n])
    BY <2>3 DEF SameRoot, InvContained
  <2>7. Lifted(p, r, 1)
    BY <2>2, <2>3, <2>4, <2>5, <2>6 DEF Lifted
  <2> QED
    BY <1>5, <1>6, <2>7
<1>7. CASE t # 1
  <2> DEFINE i0 == n - t
  <2>1. t - 1 \in Nat /\ t - 1 \in 1..n /\ ~(t <= t - 1) /\ n - (t - 1) = i0 + 1
        /\ i0 \in Nat /\ i0 + 1 \in 1..(n - 1) /\ i0 + 1 \in 1..n /\ (i0 + 1) + 1 \in 1..n
    BY <1>1, <1>5, <1>7
  <2>2. PICK r : Lifted(p, r, t - 1)
    BY <1>4, <2>1
  <2> HIDE DEF T, n, i0
  <2>3. PICK d \in Carrys : d.leaves = p[(i0 + 1) + 1].leaves /\ InvContained(r[1], d)
    BY <2>1, <2>2 DEF Lifted, n
  <2>4. /\ r \in Seq(Carrys) /\ Len(r) = t - 1 /\ r[1] \notin Dropped /\ partners[r[1]] # {}
        /\ \A k \in 1..((t - 1) - 1) : Stays(r[k], r[k + 1])
        /\ \A l \in 1..(t - 1) : SameRoot(r[l], p[(i0 + 1) + l])
    BY <2>1, <2>2 DEF Lifted, n
  <2>5. r[1] \in Carrys
    <3>1. 1 \in 1..Len(r)
      BY <2>1, <2>4
    <3> QED
      BY <2>4, <3>1
  <2> DEFINE c == p[i0 + 1]
             e == p[(i0 + 1) + 1]
  <2>6. c \in Carrys /\ e \in Carrys /\ CanJoin(c, e)
    BY <1>1, <2>1 DEF n
  <2>7. c.root \in d.leaves /\ Cardinality(d.leaves) # 2
    BY <2>3, <2>6 DEF CanJoin
  <2>8. PICK x \in r[1].leaves : x = c.root \/ Inverter(c.root, x)
    BY <2>3, <2>5, <2>7, ContainedLeaves
  <2>9. x \in Node /\ c.root \in Node
    BY <2>5, <2>6, <2>8, CleanFacts
  <2>10. PICK b \in Carrys : b.root = x /\ b.leaves = c.leaves
    <3>1. CASE x = c.root
      BY <2>6, <3>1
    <3>2. CASE Inverter(c.root, x)
      BY <2>6, <2>9, <3>2, CleanFacts
    <3> QED
      BY <2>8, <3>1, <3>2
  <2>11. partners[b] # {}
    BY <1>2, <2>1, <2>10
  <2>12. r[1] \in Led(b)
    <3>1. Cardinality(r[1].leaves) # 2
      BY <2>3, <2>7 DEF InvContained
    <3>2. b # r[1]
      BY <2>5, <2>8, <2>10, CleanFacts
    <3> QED
      BY <2>4, <2>5, <2>8, <2>10, <2>11, <3>1, <3>2 DEF Led, Edge2, CanJoin
  <2>13. PICK a \in Carrys \ Dropped : InvContained(a, b) /\ Led(a) = Led(b) /\ partners[a] # {}
    BY <2>11, PartnerStays
  <2>14. a.root = x /\ SameRoot(a, c)
    BY <2>8, <2>10, <2>13 DEF SameRoot, InvContained, Complements
  <2>15. Stays(a, r[1])
    BY <2>4, <2>12, <2>13 DEF Stays
  <2> DEFINE q == <<a>> \o r
  <2>16. q \in Seq(Carrys) /\ Len(q) = t /\ q[1] = a /\ \A l \in 1..(t - 1) : q[l + 1] = r[l]
    <3>1. <<a>> \in Seq(Carrys) /\ Len(<<a>>) = 1 /\ <<a>>[1] = a /\ r \in Seq(Carrys)
      BY <2>4, <2>13
    <3>2. Len(r) \in Nat /\ Len(q) = 1 + Len(r) /\ q \in Seq(Carrys)
      BY <3>1
    <3>3. \A l \in 1..Len(q) : q[l] = IF l <= 1 THEN <<a>>[l] ELSE r[l - 1]
      BY <3>1, <3>2
    <3>4. 1 \in 1..Len(q) /\ \A l \in 1..Len(r) : l + 1 \in 1..Len(q) /\ ~(l + 1 <= 1) /\ (l + 1) - 1 = l
      BY <3>2
    <3> HIDE DEF q
    <3>5. q[1] = a /\ \A l \in 1..Len(r) : q[l + 1] = r[l]
      BY <3>1, <3>3, <3>4
    <3>6. Len(r) = t - 1 /\ Len(q) = t
      BY <1>5, <2>4, <3>2
    <3> QED
      BY <3>2, <3>5, <3>6
  <2> HIDE DEF q, c, e
  <2>17. ASSUME NEW k \in 1..(t - 1) PROVE Stays(q[k], q[k + 1])
    <3>1. CASE k = 1
      BY <2>15, <2>16, <2>17, <3>1
    <3>2. CASE k # 1
      <4>1. k - 1 \in 1..((t - 1) - 1) /\ k - 1 \in 1..(t - 1) /\ (k - 1) + 1 = k
        BY <1>5, <3>2
      <4>2. Stays(r[k - 1], r[k])
        BY <2>4, <4>1
      <4>3. q[k] = r[k - 1] /\ q[k + 1] = r[k]
        BY <2>16, <4>1
      <4> QED
        BY <4>2, <4>3
    <3> QED
      BY <3>1, <3>2
  <2>18. ASSUME NEW l \in 1..t PROVE SameRoot(q[l], p[(n - t) + l])
    <3>1. CASE l = 1
      <4>1. p[(n - t) + l] = c /\ q[l] = a
        BY <2>16, <3>1 DEF c, i0
      <4> QED
        BY <2>14, <4>1
    <3>2. CASE l # 1
      <4>1. l - 1 \in 1..(t - 1) /\ (l - 1) + 1 = l /\ (i0 + 1) + (l - 1) = i0 + l
        BY <1>5, <2>1, <3>2
      <4>2. SameRoot(r[l - 1], p[i0 + l])
        <5>1. SameRoot(r[l - 1], p[(i0 + 1) + (l - 1)])
          BY <2>4, <4>1
        <5> QED
          BY <4>1, <5>1
      <4>3. q[l] = r[l - 1]
        BY <2>16, <4>1
      <4> QED
        BY <4>2, <4>3 DEF i0
    <3> QED
      BY <3>1, <3>2
  <2>19. b.leaves = p[(n - t) + 1].leaves
    BY <2>10 DEF c, i0
  <2>20. q[1] \notin Dropped /\ partners[q[1]] # {} /\ InvContained(q[1], b)
    BY <2>13, <2>16
  <2>21. Lifted(p, q, t)
    BY <2>16, <2>17, <2>18, <2>19, <2>20 DEF Lifted, n
  <2> QED
    BY <1>5, <2>21
<1> QED
  BY <1>6, <1>7

LEMMA ChainsAreFound ==
  ASSUME Clean, ChainsInv, MatchInv, WalkInv, step = "done",
         NEW p \in Paths(Summed(Opposed(netlist))), Len(p) >= MinChain
  PROVE  \E ad \in adders : \E k \in 0..(Len(ad.chain) - Len(p)) : \A l \in DOMAIN p :
           SameRoot(ad.chain[k + l], p[l])
<1>1. p \in Seq(Carrys) /\ Len(p) >= 1 /\ \A k \in 1..(Len(p) - 1) : CanJoin(p[k], p[k + 1])
  <2>1. Summed(Opposed(netlist)) \subseteq Carrys
    BY DEF Summed
  <2>2. p \in Seq(Summed(Opposed(netlist)))
    BY PathsJoin
  <2> HIDE DEF Summed
  <2>3. p \in Seq(Carrys)
    BY <2>1, <2>2
  <2> QED
    BY <2>3, PathsJoin
<1>2. not_relation = Relation /\ PartnersFound /\ GraphPruned
  BY DEF MatchInv
<1>3. \A k \in 1..Len(p) : \E s \in Sums : Matches(s, p[k])
  <2> TAKE k \in 1..Len(p)
  <2>1. p[k] \in Summed(Opposed(netlist))
    <3>1. p \in Seq(Summed(Opposed(netlist)))
      BY PathsJoin
    <3> QED
      BY <3>1
  <2>2. p[k] \in Carrys
    BY <1>1
  <2> QED
    BY <1>2, <2>1, <2>2, SummedMatches
<1>4. PICK r : Lifted(p, r, Len(p))
  BY <1>1, <1>2, <1>3, PathIsLifted
<1> DEFINE G == [c \in Carrys |-> EdgesAt(edges_out, c)]
           n == Len(p)
<1>5. G \in [Carrys -> SUBSET Carrys]
  BY DEF ChainsInv, CarryGraph, EdgesAt
<1>6. \A a, b \in Carrys : b \in G[a] => b \in Led(a)
  BY <1>2 DEF GraphPruned, EdgesAt
<1>7. \A a, b \in Carrys : Stays(a, b) => b \in G[a]
  BY <1>2 DEF GraphPruned, EdgesAt, Stays
<1>8. \A a \in Carrys : G[a] = EdgesAt(edges_out, a)
  OBVIOUS
<1> HIDE DEF G
<1>9. n \in Nat /\ r \in Seq(Carrys) /\ Len(r) = n /\ \A k \in 1..n : r[k] \in Carrys
  BY <1>1, <1>4 DEF Lifted
<1>10. Along(Carrys, G, r)
  <2>1. \A k \in 1..(n - 1) : k \in 1..n /\ k + 1 \in 1..n
    BY <1>9
  <2>2. \A k \in 1..(n - 1) : r[k + 1] \in G[r[k]]
    BY <1>4, <1>7, <1>9, <2>1 DEF Lifted
  <2> QED
    BY <1>1, <1>9, <2>2 DEF Along
<1>11. PICK hn \in [Node -> 0..NumNodes] : \A c \in Carrys : \A l \in c.leaves : hn[l] < hn[c.root]
  BY NodesInOrder
<1> DEFINE h == [c \in Carrys |-> hn[c.root]]
<1>12. h \in [Carrys -> 0..NumNodes] /\ \A a \in Carrys : \A b \in G[a] : h[a] < h[b]
  <2>1. \A a, b \in Carrys : b \in G[a] => a.root \in b.leaves
    BY <1>6 DEF Led, Edge2, CanJoin
  <2>2. \A a \in Carrys : a.root \in Node
    BY CleanFacts
  <2> QED
    BY <1>5, <1>11, <2>1, <2>2
<1> HIDE DEF h, n
<1>13. PICK q : /\ Along(Carrys, G, q) /\ Holds(q, r)
                /\ G[q[Len(q)]] = {} /\ \A v \in Carrys : q[1] \notin G[v]
  BY <1>5, <1>10, <1>12, NumNodesAssumption, LongestPath
<1>14. q \in Seq(Carrys) /\ Len(q) \in Nat /\ Len(q) >= 1 /\ q[1] \in Carrys /\ q[Len(q)] \in Carrys
       /\ \A k \in 1..(Len(q) - 1) : q[k] \in Carrys /\ q[k + 1] \in G[q[k]]
  <2>1. q \in Seq(Carrys) /\ Len(q) \in Nat /\ Len(q) >= 1
        /\ \A k \in 1..(Len(q) - 1) : q[k + 1] \in G[q[k]]
    BY <1>13 DEF Along
  <2>2. 1 \in 1..Len(q) /\ Len(q) \in 1..Len(q) /\ \A k \in 1..(Len(q) - 1) : k \in 1..Len(q)
    BY <2>1
  <2> QED
    BY <2>1, <2>2
<1>15. PICK k \in 0..(Len(q) - Len(r)) : \A l \in 1..Len(r) : q[k + l] = r[l]
  BY <1>13 DEF Holds
<1>16. EndToEnd(q)
  <2>1. Len(q) >= MinChain
    BY <1>9, <1>14, <1>15, MinChainAssumption DEF n
  <2>2. EdgesAt(edges_in, q[1]) = {}
    <3>1. \A a \in Carrys : a \notin EdgesAt(edges_in, q[1])
      BY <1>8, <1>13, <1>14 DEF ChainsInv, EdgesAgree
    <3>2. EdgesAt(edges_in, q[1]) \subseteq Carrys
      BY DEF MatchInv
    <3> QED
      BY <3>1, <3>2
  <2> QED
    BY <1>8, <1>13, <1>14, <2>1, <2>2 DEF EndToEnd
<1>17. PICK ad \in adders : ad.chain = q
  BY <1>16 DEF WalkInv, Made
<1>18. \A l \in DOMAIN p : SameRoot(q[k + l], p[l])
  <2>1. DOMAIN p = 1..n
    BY <1>1 DEF n
  <2>2. \A l \in 1..n : q[k + l] = r[l] /\ (n - n) + l = l
    BY <1>9, <1>15
  <2> QED
    BY <1>4, <2>1, <2>2 DEF Lifted, n
<1>19. k \in 0..(Len(ad.chain) - Len(p))
  BY <1>9, <1>15, <1>17 DEF n
<1> QED
  BY <1>17, <1>18, <1>19

(* Taking the carries that read inverters out of the graph loses no adder,  *)
(* and the walk misses no path: in a design that is well covered every path *)
(* of carries that have sums is, but for inverters, a part of an adder.     *)
THEOREM ChainsBecomeAdders == Aggregate => [](WellCovered(netlist) => EveryChainInAnAdder)
<1> DEFINE Inv == GroupInv /\ ChainsInv /\ MatchInv /\ WalkInv
<1>1. AggregateInit => Inv
  <2> SUFFICES ASSUME AggregateInit PROVE Inv
    OBVIOUS
  <2>1. GroupInv
    BY GroupStarts DEF AggregateInit
  <2>2. ChainsInv
    BY ChainsStart
  <2>3. step = "relate" /\ chain = <<>> /\ edges_in = <<>>
    BY DEF AggregateInit
  <2>4. \A c : EdgesAt(edges_in, c) \subseteq Carrys
    BY <2>3 DEF EdgesAt
  <2>5. MatchInv /\ WalkInv
    BY <2>3, <2>4 DEF MatchInv, WalkInv
  <2> QED
    BY <2>1, <2>2, <2>5
<1>2. Inv /\ [AggregateNext]_<<vars, search>> => Inv'
  BY GroupStep, ChainsStep, MatchStep, WalkStep
<1>3. Inv => (WellCovered(netlist) => EveryChainInAnAdder)
  <2> SUFFICES ASSUME Inv, WellCovered(netlist), Finished PROVE EveryChainInAnAdder
    BY DEF EveryChainInAnAdder
  <2>1. Clean /\ step = "done"
    BY NetlistsAssumption, CoversAssumption DEF Clean, GroupInv, CoversAreCovers, Finished
  <2>2. \A p \in Paths(Summed(Opposed(netlist))) : Len(p) >= MinChain =>
          \E ad \in adders : \E k \in 0..(Len(ad.chain) - Len(p)) : \A l \in DOMAIN p :
            SameRoot(ad.chain[k + l], p[l])
    BY <2>1, ChainsAreFound
  <2> QED
    BY <2>2 DEF EveryChainInAnAdder, SameRoot
<1> QED
  BY <1>1, <1>2, <1>3, PTL DEF Aggregate
-----------------------------------------------------------------------------
(* What matching up to complement rests on, in the words of the model.      *)
Paired == Clean /\ WellMatched(netlist) /\ not_relation = Relation

LEMMA RelatedAreOpposed ==
  ASSUME Clean, not_relation = Relation, NEW n \in Node, NEW m \in Node, SameOrNot(n, m), n # m
  PROVE  <<n, m>> \in Opposed(netlist) /\ <<m, n>> \in Opposed(netlist) /\ SameOrNot(m, n)
<1> DEFINE inverters == Covers({"not"})
           Says(x, y) == \E c \in inverters : c.root = x /\ c.leaves = {y}
           Pair(x, y) == \E c, d \in netlist.covers : c.root = x /\ d.root = y /\ Opposite(c, d)
           Related(x, y) == inverters # {} /\ (Says(x, y) \/ Pair(x, y))
           D == {c.root : c \in netlist.covers} \cup UNION {c.leaves : c \in inverters}
           nots == {c \in netlist.covers : c.fn = "not"}
           Sides(c) == ({c.root} \X c.leaves) \cup (c.leaves \X {c.root})
           S == UNION {Sides(c) : c \in nots}
           P == {p \in netlist.covers \X netlist.covers :
                   /\ {p[1].fn, p[2].fn} \in {{"and", "nand"}, {"or", "nor"}}
                   /\ p[1].leaves = p[2].leaves}
           Q == {<<p[1].root, p[2].root>> : p \in P}
<1>1. \A x \in Node : not_relation[x] = {y \in D : Related(x, y) \/ Related(y, x)}
  BY DEF Relation
<1>2. Related(n, m) \/ Related(m, n)
  <2> HIDE DEF Related, D
  <2> QED
    BY <1>1 DEF SameOrNot
<1>3. S \subseteq Opposed(netlist) /\ Q \subseteq Opposed(netlist)
  BY DEF Opposed
<1>4. ASSUME NEW x \in Node, NEW y \in Node, Related(x, y)
      PROVE  <<x, y>> \in Opposed(netlist) /\ <<y, x>> \in Opposed(netlist) /\ x \in D
  <2>1. CASE Says(x, y)
    <3>1. PICK c \in inverters : c.root = x /\ c.leaves = {y}
      BY <2>1
    <3>2. c \in nots /\ c \in netlist.covers
      BY DEF Covers
    <3>3. <<x, y>> \in Sides(c) /\ <<y, x>> \in Sides(c)
      BY <3>1
    <3>4. <<x, y>> \in S /\ <<y, x>> \in S
      <4> HIDE DEF Sides, nots
      <4> QED
        BY <3>2, <3>3
    <3>5. x \in D
      BY <3>1, <3>2
    <3> HIDE DEF S, D
    <3> QED
      BY <1>3, <3>4, <3>5
  <2>2. CASE Pair(x, y)
    <3>1. PICK c \in netlist.covers, d \in netlist.covers : c.root = x /\ d.root = y /\ Opposite(c, d)
      BY <2>2
    <3>2. <<c, d>> \in P /\ <<d, c>> \in P
      BY <3>1 DEF Opposite
    <3> HIDE DEF P
    <3>3. <<<<c, d>>[1].root, <<c, d>>[2].root>> \in Q /\ <<<<d, c>>[1].root, <<d, c>>[2].root>> \in Q
      BY <3>2
    <3>4. <<x, y>> \in Q /\ <<y, x>> \in Q
      BY <3>1, <3>3
    <3>5. x \in D
      BY <3>1
    <3> HIDE DEF Q, D
    <3> QED
      BY <1>3, <3>4, <3>5
  <2> QED
    BY <1>4, <2>1, <2>2
<1>5. <<n, m>> \in Opposed(netlist) /\ <<m, n>> \in Opposed(netlist)
  <2> HIDE DEF Related, D
  <2> QED
    BY <1>2, <1>4
<1>6. Covers({"not"}) # {}
  BY <1>2
<1> QED
  BY <1>5, <1>6, OpposedAreRelated

LEMMA PairedFacts ==
  ASSUME Paired
  PROVE  /\ \A n, m \in Node : SameOrNot(n, m) =>
              SameOrNot(m, n) /\ (n = m \/ <<n, m>> \in Opposed(netlist))
         /\ \A n, m \in Node : Inverter(n, m) => SameOrNot(n, m) /\ SameOrNot(m, n)
         /\ \A c \in Carrys \cup Sums : \A n \in Node : \A l, m \in c.leaves :
              SameOrNot(n, l) /\ SameOrNot(n, m) => l = m
         /\ \A c \in Carrys \cup Sums : \A n \in Cone(netlist, {c.root}, c.leaves) : netlist.reads[n] # {}
         /\ \A c \in Carrys : \A n \in Node : SameOrNot(n, c.root) =>
              n = c.root \/ Inverter(n, c.root) \/ Inverter(c.root, n) \/ netlist.reads[n] = netlist.reads[c.root]
<1> DEFINE opposed == Opposed(netlist)
           Like(n, m) == n = m \/ <<n, m>> \in opposed
<1>1. Clean /\ not_relation = Relation
  BY DEF Paired
<1>2. Carrys \cup Sums = {c \in netlist.covers : c.fn \in {"carry", "and", "nand", "sum", "isum"}}
      /\ Carrys = {c \in netlist.covers : c.fn \in {"carry", "and", "nand"}}
  BY DEF Carrys, Sums, Covers
<1>3. ASSUME NEW c \in Carrys \cup Sums
      PROVE  /\ \A n \in Node : \A l, m \in c.leaves : Like(n, l) /\ Like(n, m) => l = m
             /\ \A n \in Cone(netlist, {c.root}, c.leaves) : netlist.reads[n] # {}
  BY <1>2 DEF Paired, WellMatched
<1>4. \A c \in Carrys : \A n \in Node : <<n, c.root>> \in opposed =>
        Inverter(n, c.root) \/ Inverter(c.root, n) \/ netlist.reads[n] = netlist.reads[c.root]
  BY <1>2 DEF Paired, WellMatched, Inverts, Inverter
<1>5. \A n, m \in Node : SameOrNot(n, m) => SameOrNot(m, n) /\ Like(n, m)
  BY <1>1, RelatedAreOpposed DEF SameOrNot
<1>6. ASSUME NEW n \in Node, NEW m \in Node, Inverter(n, m) PROVE SameOrNot(n, m) /\ SameOrNot(m, n)
  <2>1. Covers({"not"}) # {}
    BY <1>1, <1>6, CleanFacts
  <2>2. <<n, m>> \in Opposed(netlist)
    BY <1>6 DEF Opposed, Inverts, Inverter
  <2> QED
    BY <1>1, <2>1, <2>2, OpposedAreRelated
<1> HIDE DEF opposed
<1>7. \A c \in Carrys \cup Sums : c.leaves \in SUBSET Node /\ c.root \in Node
  BY <1>1, CleanFacts
<1>8. ASSUME NEW c \in Carrys \cup Sums, NEW n \in Node, NEW l \in c.leaves, NEW m \in c.leaves,
             SameOrNot(n, l), SameOrNot(n, m)
      PROVE  l = m
  <2>1. l \in Node /\ m \in Node
    BY <1>7
  <2>2. Like(n, l) /\ Like(n, m)
    BY <1>5, <1>8, <2>1
  <2> HIDE DEF Like
  <2> QED
    BY <1>3, <2>2
<1>9. \A c \in Carrys : \A n \in Node : SameOrNot(n, c.root) =>
        n = c.root \/ Inverter(n, c.root) \/ Inverter(c.root, n) \/ netlist.reads[n] = netlist.reads[c.root]
  BY <1>4, <1>5, <1>7
<1> QED
  BY <1>3, <1>5, <1>6, <1>8, <1>9 DEF opposed

(* A chain of carries, each read by the next, with a sum for each.          *)
Fits(ch, sums) ==
  /\ ch \in Seq(Carrys) /\ ch # <<>> /\ sums \in [DOMAIN ch -> Sums]
  /\ \A k \in DOMAIN ch : Matches(sums[k], ch[k])
  /\ \A k \in 1..(Len(ch) - 1) : CanJoin(ch[k], ch[k + 1])

LEMMA FitsFacts ==
  ASSUME Clean, NEW ch, NEW sums, Fits(ch, sums)
  PROVE  /\ Len(ch) \in Nat /\ Len(ch) >= 1 /\ DOMAIN ch = 1..Len(ch) /\ DOMAIN sums = 1..Len(ch)
         /\ \A k \in 1..Len(ch) : ch[k] \in Carrys /\ sums[k] \in Sums /\ Matches(sums[k], ch[k])
         /\ \A k \in 1..Len(ch) : /\ ch[k].leaves \in SUBSET Node /\ sums[k].leaves \in SUBSET Node
                                  /\ IsFiniteSet(ch[k].leaves) /\ IsFiniteSet(sums[k].leaves)
                                  /\ ch[k].root \in Node /\ sums[k].root \in Node
         /\ \A k \in 1..Len(ch) : k # 1 => k - 1 \in 1..Len(ch) /\ CanJoin(ch[k - 1], ch[k])
<1>1. ch \in Seq(Carrys) /\ ch # <<>> /\ sums \in [DOMAIN ch -> Sums]
  BY DEF Fits
<1>2. Len(ch) \in Nat /\ Len(ch) >= 1 /\ DOMAIN ch = 1..Len(ch) /\ DOMAIN sums = 1..Len(ch)
  BY <1>1
<1>3. \A k \in 1..Len(ch) : ch[k] \in Carrys /\ sums[k] \in Sums /\ Matches(sums[k], ch[k])
  BY <1>1, <1>2 DEF Fits
<1>4. ASSUME NEW k \in 1..Len(ch), k # 1 PROVE k - 1 \in 1..Len(ch) /\ CanJoin(ch[k - 1], ch[k])
  <2>1. k - 1 \in 1..(Len(ch) - 1) /\ (k - 1) + 1 = k /\ k - 1 \in 1..Len(ch)
    BY <1>2, <1>4
  <2>2. CanJoin(ch[k - 1], ch[(k - 1) + 1])
    BY <2>1 DEF Fits
  <2> QED
    BY <2>1, <2>2
<1> QED
  BY <1>2, <1>3, <1>4, CleanFacts

(* How the leaves of a sum and a carry are paired: no leaf is left.         *)
LEMMA LeavesArePaired ==
  ASSUME Paired, NEW s \in Sums, NEW c \in Carrys, Matches(s, c)
  PROVE  \E f \in Bijection(c.leaves, s.leaves) : \A l \in c.leaves : SameOrNot(l, f[l]) /\ SameOrNot(f[l], l)
<1>1. Clean
  BY DEF Paired
<1>2. /\ c.leaves \in SUBSET Node /\ s.leaves \in SUBSET Node
      /\ IsFiniteSet(c.leaves) /\ IsFiniteSet(s.leaves)
  BY <1>1, CleanFacts
<1>3. PICK f \in [c.leaves -> s.leaves] : Range(f) = s.leaves /\ \A l \in c.leaves : SameOrNot(l, f[l])
  BY DEF Matches
<1>4. f \in Surjection(c.leaves, s.leaves)
  BY <1>3 DEF Range, Surjection
<1>5. Cardinality(c.leaves) = Cardinality(s.leaves)
  BY DEF Matches
<1>6. f \in Injection(c.leaves, s.leaves)
  BY <1>2, <1>4, <1>5, FS_SurjSameCardinalityImpliesInj
<1>7. \A l \in c.leaves : SameOrNot(f[l], l)
  BY <1>2, <1>3, PairedFacts
<1> QED
  BY <1>3, <1>4, <1>6, <1>7 DEF Bijection

(* A slice takes two bits of its own; the first may take a carry in.        *)
LEMMA BitsOfSlices ==
  ASSUME Paired, NEW ch, NEW sums, Fits(ch, sums), NEW k \in 1..Len(ch)
  PROVE  /\ Len(Own(ch, sums, k)) = 2 \/ (k = 1 /\ Len(Own(ch, sums, k)) = 3)
         /\ k # 1 => \E r \in sums[k].leaves : /\ SameOrNot(ch[k - 1].root, r)
                                                /\ Bits(ch, sums, k) = sums[k].leaves \ {r}
         /\ k = 1 => Bits(ch, sums, k) = sums[k].leaves
<1>1. Clean
  BY DEF Paired
<1> DEFINE s == sums[k]
           c == ch[k]
<1>2. /\ s \in Sums /\ c \in Carrys /\ Matches(s, c) /\ s.leaves \in SUBSET Node /\ IsFiniteSet(s.leaves)
      /\ k \in DOMAIN sums
  BY <1>1, FitsFacts
<1>3. IsCover(s) /\ IsCover(c) /\ CoversAreCovers
  BY <1>1, <1>2 DEF Clean, CoversAreCovers, Sums, Carrys, Covers
<1>4. Cardinality(s.leaves) \in {2, 3} /\ Cardinality(c.leaves) \in {2, 3}
  BY <1>2, <1>3 DEF IsCover, Sums, Carrys, Covers
<1>5. Cardinality(c.leaves) = Cardinality(s.leaves)
  BY <1>2 DEF Matches
<1>6. Len(Own(ch, sums, k)) = Cardinality(Bits(ch, sums, k))
  BY <1>2, <1>3, OwnBits
<1>7. CASE k = 1
  <2>1. Bits(ch, sums, k) = s.leaves
    BY <1>7 DEF Bits, Carried
  <2> QED
    BY <1>4, <1>6, <1>7, <2>1
<1>8. CASE k # 1
  <2> DEFINE r0 == ch[k - 1].root
  <2>1. r0 \in c.leaves /\ Cardinality(c.leaves) # 2 /\ r0 \in Node /\ k > 1
    <3>1. k - 1 \in 1..Len(ch) /\ CanJoin(ch[k - 1], ch[k])
      BY <1>1, <1>8, FitsFacts
    <3>2. ch[k - 1].root \in Node /\ Len(ch) \in Nat
      BY <1>1, <3>1, FitsFacts
    <3> QED
      BY <1>8, <3>1, <3>2 DEF CanJoin
  <2>2. PICK f \in [c.leaves -> s.leaves] : \A l \in c.leaves : SameOrNot(l, f[l])
    BY <1>2 DEF Matches
  <2> DEFINE r == f[r0]
  <2> HIDE DEF r0
  <2>3. r \in s.leaves /\ SameOrNot(r0, r)
    BY <2>1, <2>2
  <2>4. \A n \in s.leaves : SameOrNot(r0, n) => n = r
    BY <1>2, <2>1, <2>3, PairedFacts
  <2>5. \A n \in s.leaves : Carried(ch, k, n) <=> n = r
    BY <2>1, <2>3, <2>4 DEF Carried, r0
  <2> HIDE DEF r
  <2>6. Bits(ch, sums, k) = s.leaves \ {r}
    BY <2>5 DEF Bits
  <2>7. Cardinality(s.leaves \ {r}) = Cardinality(s.leaves) - 1
    BY <1>2, <2>3, FS_RemoveElement
  <2>8. Len(Own(ch, sums, k)) = 2
    BY <1>4, <1>5, <1>6, <2>1, <2>6, <2>7
  <2> QED
    BY <1>8, <2>3, <2>6, <2>8 DEF r0
<1> QED
  BY <1>7, <1>8

LEMMA WordFacts ==
  ASSUME Paired, NEW ch, NEW sums, Fits(ch, sums), NEW p \in {1, 2}
  PROVE  /\ DOMAIN Word(ch, sums, p) = 1..Len(ch)
         /\ \A k \in 1..Len(ch) : Word(ch, sums, p)[k] = Plain(ch[k], Own(ch, sums, k)[p])
<1> DEFINE bits == {k \in DOMAIN ch : Len(Own(ch, sums, k)) >= p}
<1>1. bits = 1..Len(ch)
  <2>1. DOMAIN ch = 1..Len(ch)
    BY FitsFacts DEF Paired
  <2>2. \A k \in 1..Len(ch) : Len(Own(ch, sums, k)) >= p
    BY BitsOfSlices
  <2> QED
    BY <2>1, <2>2
<1>2. Word(ch, sums, p) = [k \in bits |-> Plain(ch[k], Own(ch, sums, k)[p])]
  BY DEF Word
<1> HIDE DEF bits
<1> QED
  BY <1>1, <1>2

LEMMA PlainFacts ==
  ASSUME Paired, NEW c \in Carrys, NEW n \in Node
  PROVE  /\ Plain(c, n) \in Node /\ SameOrNot(n, Plain(c, n)) /\ SameOrNot(Plain(c, n), n)
         /\ Plain(c, n) = n \/ (Plain(c, n) \in c.leaves /\ Inverter(n, Plain(c, n)))
         /\ \A m \in c.leaves : Inverter(n, m) => Plain(c, n) \in c.leaves
<1>1. c.leaves \in SUBSET Node
  BY CleanFacts DEF Paired
<1>2. Plain(c, n) = n \/ (Plain(c, n) \in c.leaves /\ Inverter(n, Plain(c, n)))
  BY DEF Plain
<1>3. \A m \in c.leaves : Inverter(n, m) => Plain(c, n) \in c.leaves
  BY DEF Plain
<1>4. Plain(c, n) \in Node
  BY <1>1, <1>2
<1>5. SameOrNot(n, Plain(c, n)) /\ SameOrNot(Plain(c, n), n)
  BY <1>2, <1>4, PairedFacts DEF SameOrNot
<1> QED
  BY <1>2, <1>3, <1>4, <1>5

(* The node that stands for a leaf of a sum: the carry before, the carry    *)
(* in, or a bit of a word.                                                  *)
CarryAt(ch, sums, k) == IF k = 1 THEN CarryIn(ch, sums) ELSE {ch[k - 1].root}
BitAt(ch, sums, k) == {Word(ch, sums, 1)[k], Word(ch, sums, 2)[k]} \cup CarryAt(ch, sums, k)
BitOf(ch, sums, k, n) ==
  IF Carried(ch, k, n) THEN ch[k - 1].root
  ELSE IF k = 1 /\ n \in CarryIn(ch, sums) THEN n
  ELSE Plain(ch[k], n)
IsCarried(ch, k, n, x) == k # 1 /\ SameOrNot(ch[k - 1].root, n) /\ x = ch[k - 1].root
IsCarryIn(ch, sums, k, n, x) == k = 1 /\ n \in CarryIn(ch, sums) /\ x = n
IsInput(ch, sums, k, n, x) ==
  x = Plain(ch[k], n) /\ \E p \in {1, 2} : n = Own(ch, sums, k)[p] /\ x = Word(ch, sums, p)[k]

LEMMA BitCases ==
  ASSUME Paired, NEW ch, NEW sums, Fits(ch, sums), NEW k \in 1..Len(ch), NEW n \in sums[k].leaves
  PROVE  LET x == BitOf(ch, sums, k, n)
         IN  /\ IsCarried(ch, k, n, x) \/ IsCarryIn(ch, sums, k, n, x) \/ IsInput(ch, sums, k, n, x)
             /\ x \in BitAt(ch, sums, k) /\ x \in Node /\ n \in Node
             /\ SameOrNot(n, x) /\ SameOrNot(x, n)
<1> DEFINE x == BitOf(ch, sums, k, n)
<1>1. Clean
  BY DEF Paired
<1>2. /\ k \in DOMAIN sums /\ sums[k] \in Sums /\ ch[k] \in Carrys /\ sums[k].leaves \in SUBSET Node
      /\ CoversAreCovers /\ n \in Node /\ Len(ch) \in Nat
  BY <1>1, FitsFacts DEF Clean
<1>3. CASE Carried(ch, k, n)
  <2>1. k # 1 /\ SameOrNot(ch[k - 1].root, n) /\ x = ch[k - 1].root
    BY <1>2, <1>3 DEF Carried, BitOf
  <2>2. ch[k - 1].root \in Node
    BY <1>1, <2>1, FitsFacts
  <2>3. SameOrNot(n, ch[k - 1].root)
    BY <1>2, <2>1, <2>2, PairedFacts
  <2> QED
    BY <1>2, <2>1, <2>2, <2>3 DEF IsCarried, BitAt, CarryAt
<1>4. CASE ~Carried(ch, k, n) /\ k = 1 /\ n \in CarryIn(ch, sums)
  <2>1. x = n
    BY <1>4 DEF BitOf
  <2> QED
    BY <1>2, <1>4, <2>1 DEF IsCarryIn, BitAt, CarryAt, SameOrNot
<1>5. CASE ~Carried(ch, k, n) /\ ~(k = 1 /\ n \in CarryIn(ch, sums))
  <2>1. x = Plain(ch[k], n)
    BY <1>5 DEF BitOf
  <2>2. n \in Bits(ch, sums, k)
    BY <1>5 DEF Bits
  <2>3. PICK p \in 1..Len(Own(ch, sums, k)) : Own(ch, sums, k)[p] = n
    BY <1>2, <2>2, OwnBits
  <2>4. p \in {1, 2}
    <3>1. CASE Len(Own(ch, sums, k)) = 2
      BY <3>1
    <3>2. CASE k = 1 /\ Len(Own(ch, sums, k)) = 3
      <4>1. Own(ch, sums, 1)[3] \in CarryIn(ch, sums)
        BY <3>2 DEF CarryIn
      <4>2. p # 3
        BY <1>5, <2>3, <3>2, <4>1
      <4> DEFINE len == Len(Own(ch, sums, k))
      <4>3. p \in 1..len /\ len = 3
        BY <3>2
      <4> HIDE DEF len
      <4> QED
        BY <4>2, <4>3
    <3> QED
      BY <3>1, <3>2, BitsOfSlices
  <2>5. x = Word(ch, sums, p)[k]
    BY <2>1, <2>3, <2>4, WordFacts
  <2>6. x \in BitAt(ch, sums, k)
    BY <2>4, <2>5 DEF BitAt
  <2>7. IsInput(ch, sums, k, n, x)
    BY <2>1, <2>3, <2>4, <2>5 DEF IsInput
  <2>8. x \in Node /\ SameOrNot(n, x) /\ SameOrNot(x, n)
    BY <1>2, <2>1, PlainFacts
  <2> QED
    BY <1>2, <2>6, <2>7, <2>8
<1> QED
  BY <1>3, <1>4, <1>5

(* Each node of a bit stands for one leaf of the sum.                       *)
LEMMA BitsOfSums ==
  ASSUME Paired, NEW ch, NEW sums, Fits(ch, sums), NEW k \in 1..Len(ch)
  PROVE  [n \in sums[k].leaves |-> BitOf(ch, sums, k, n)] \in Bijection(sums[k].leaves, BitAt(ch, sums, k))
<1> DEFINE S == sums[k].leaves
           T == BitAt(ch, sums, k)
           g == [n \in S |-> BitOf(ch, sums, k, n)]
           own == Own(ch, sums, k)
<1>1. Clean
  BY DEF Paired
<1>2. /\ k \in DOMAIN sums /\ sums[k] \in Sums /\ ch[k] \in Carrys /\ CoversAreCovers /\ S \in SUBSET Node
  BY <1>1, FitsFacts DEF Clean
<1>3. \A n \in S : g[n] \in T /\ g[n] \in Node /\ n \in Node /\ SameOrNot(g[n], n)
  BY BitCases
<1>4. \A n, m \in S : g[n] = g[m] => n = m
  <2> HIDE DEF g, S
  <2>1. sums[k] \in Carrys \cup Sums /\ S = sums[k].leaves
    BY <1>2 DEF S
  <2> QED
    BY <1>3, <2>1, PairedFacts
<1>5. ASSUME NEW p \in {1, 2} PROVE \E n \in S : g[n] = Word(ch, sums, p)[k]
  <2>1. p \in 1..Len(own)
    BY BitsOfSlices
  <2>2. own[p] \in S /\ ~Carried(ch, k, own[p])
    BY <1>2, <2>1, OwnBits DEF Bits
  <2>3. ~(k = 1 /\ own[p] \in CarryIn(ch, sums))
    <3> SUFFICES ASSUME k = 1, own[p] \in CarryIn(ch, sums) PROVE FALSE
      OBVIOUS
    <3>1. Len(own) = 3 /\ own[p] = own[3]
      BY DEF CarryIn
    <3>2. 3 \in 1..Len(own) /\ p # 3
      BY <3>1
    <3> QED
      BY <1>2, <2>1, <3>1, <3>2, OwnBits
  <2>4. g[own[p]] = Plain(ch[k], own[p])
    BY <2>2, <2>3 DEF BitOf
  <2>5. Word(ch, sums, p)[k] = Plain(ch[k], own[p])
    BY WordFacts
  <2> QED
    BY <2>2, <2>4, <2>5
<1>6. ASSUME NEW x \in CarryAt(ch, sums, k) PROVE \E n \in S : g[n] = x
  <2>1. CASE k = 1
    <3>1. Len(own) = 3 /\ x = own[3] /\ x \in CarryIn(ch, sums)
      BY <1>6, <2>1 DEF CarryAt, CarryIn
    <3>2. 3 \in 1..Len(own)
      BY <3>1
    <3>3. own[3] \in Bits(ch, sums, k)
      BY <1>2, <3>2, OwnBits
    <3>4. x \in S /\ ~Carried(ch, k, x)
      BY <3>1, <3>3 DEF Bits
    <3>5. g[x] = x
      BY <2>1, <3>1, <3>4 DEF BitOf
    <3> QED
      BY <3>4, <3>5
  <2>2. CASE k # 1
    <3>1. x = ch[k - 1].root /\ k > 1
      <4>1. Len(ch) \in Nat
        BY <1>1, FitsFacts
      <4> QED
        BY <1>6, <2>2, <4>1 DEF CarryAt
    <3>2. PICK r \in S : SameOrNot(ch[k - 1].root, r)
      BY <2>2, BitsOfSlices
    <3>3. g[r] = x
      BY <3>1, <3>2 DEF BitOf, Carried
    <3> QED
      BY <3>2, <3>3
  <2> QED
    BY <2>1, <2>2
<1>7. \A x \in T : \E n \in S : g[n] = x
  BY <1>5, <1>6 DEF BitAt
<1>8. g \in [S -> T]
  <2>1. g = [n \in S |-> g[n]]
    OBVIOUS
  <2> HIDE DEF g, T
  <2> QED
    BY <1>3, <2>1
<1> HIDE DEF g, S, T
<1>9. g \in Bijection(S, T)
  BY <1>4, <1>7, <1>8 DEF Bijection, Injection, IsInjective, Surjection
<1> QED
  BY <1>9 DEF g, S, T

(* A leaf of the carry is of the bit that its counterpart in the sum is of: *)
(* of what that inverts it is the node itself.                              *)
LEMMA LeafCases ==
  ASSUME Paired, NEW ch, NEW sums, Fits(ch, sums), NEW k \in 1..Len(ch),
         NEW l \in ch[k].leaves, NEW n \in sums[k].leaves, SameOrNot(l, n)
  PROVE  LET x == BitOf(ch, sums, k, n)
         IN  \/ l = x
             \/ /\ x = n /\ ~IsCarried(ch, k, n, x)
                /\ IsCarryIn(ch, sums, k, n, x) \/ \A m \in ch[k].leaves : ~Inverter(n, m)
<1> DEFINE x == BitOf(ch, sums, k, n)
           c == ch[k]
<1>1. Clean
  BY DEF Paired
<1>2. /\ sums[k] \in Sums /\ c \in Carrys /\ sums[k].leaves \in SUBSET Node /\ c.leaves \in SUBSET Node
      /\ l \in Node /\ n \in Node
  BY <1>1, FitsFacts
<1>3. SameOrNot(n, l)
  BY <1>2, PairedFacts
<1>4. \A m \in c.leaves : SameOrNot(n, m) => m = l
  BY <1>2, <1>3, PairedFacts
<1>6. CASE IsCarried(ch, k, n, x)
  <2>1. x \in c.leaves
    BY <1>1, <1>6, FitsFacts DEF IsCarried, CanJoin
  <2>2. SameOrNot(n, x)
    BY BitCases
  <2> QED
    BY <1>4, <2>1, <2>2
<1>7. CASE IsCarryIn(ch, sums, k, n, x)
  <2>1. ~IsCarried(ch, k, n, x)
    BY <1>7 DEF IsCarried, IsCarryIn
  <2> QED
    BY <1>7, <2>1 DEF IsCarryIn
<1>8. CASE IsInput(ch, sums, k, n, x) /\ ~IsCarried(ch, k, n, x)
  <2>1. x = Plain(c, n)
    BY <1>8 DEF IsInput
  <2>2. CASE x = n /\ \A m \in c.leaves : ~Inverter(n, m)
    BY <1>8, <2>2
  <2>3. ASSUME NEW m \in c.leaves, Inverter(n, m) PROVE l = x
    <3>1. x \in c.leaves /\ SameOrNot(n, x)
      BY <1>2, <2>1, <2>3, PlainFacts
    <3> QED
      BY <1>4, <3>1
  <2>4. CASE x # n
    <3>1. x \in c.leaves /\ SameOrNot(n, x)
      BY <1>2, <2>1, <2>4, PlainFacts
    <3> QED
      BY <1>4, <3>1
  <2> QED
    BY <2>2, <2>3, <2>4
<1> QED
  BY <1>6, <1>7, <1>8, BitCases

(* So the sum and the carry of a slice are those of its bit.                *)
LEMMA BitsAreLeaves ==
  ASSUME Paired, NEW ch, NEW sums, Fits(ch, sums), NEW k \in 1..Len(ch)
  PROVE  /\ SameSignals(Opposed(netlist), sums[k].leaves, BitAt(ch, sums, k))
         /\ SameSignals(Opposed(netlist), ch[k].leaves, BitAt(ch, sums, k))
<1> DEFINE S == sums[k].leaves
           C == ch[k].leaves
           T == BitAt(ch, sums, k)
           g == [n \in S |-> BitOf(ch, sums, k, n)]
<1>1. Clean
  BY DEF Paired
<1>2. /\ sums[k] \in Sums /\ ch[k] \in Carrys /\ Matches(sums[k], ch[k])
      /\ S \in SUBSET Node /\ C \in SUBSET Node /\ IsFiniteSet(S) /\ IsFiniteSet(C)
  BY <1>1, FitsFacts
<1>3. g \in Bijection(S, T)
  BY BitsOfSums
<1>4. \A n \in S : g[n] \in Node /\ n \in Node /\ SameOrNot(n, g[n])
  BY BitCases
<1>5. PICK f \in Bijection(C, S) : \A l \in C : SameOrNot(l, f[l])
  BY <1>2, LeavesArePaired
<1>6. \A l \in C : f[l] \in S
  BY <1>5 DEF Bijection, Injection
<1>7. \A l \in C : SameOrNot(l, g[f[l]])
  <2> TAKE l \in C
  <2>1. SameOrNot(l, f[l]) /\ f[l] \in S
    BY <1>5, <1>6
  <2>2. l = g[f[l]] \/ g[f[l]] = f[l]
    BY <2>1, LeafCases
  <2> HIDE DEF g
  <2> QED
    BY <2>1, <2>2 DEF SameOrNot
<1> DEFINE h == [l \in C |-> g[f[l]]]
<1> HIDE DEF g, S, C, T
<1>8. \A n \in S : n = g[n] \/ <<n, g[n]>> \in Opposed(netlist)
  BY <1>4, PairedFacts
<1>9. \A l \in C : l = h[l] \/ <<l, h[l]>> \in Opposed(netlist)
  <2> TAKE l \in C
  <2>1. l \in Node /\ g[f[l]] \in Node /\ SameOrNot(l, g[f[l]])
    BY <1>2, <1>4, <1>6, <1>7
  <2> QED
    BY <2>1, PairedFacts
<1>10. /\ g \in [S -> T] /\ (\A n, m \in S : g[n] = g[m] => n = m) /\ (\A x \in T : \E n \in S : g[n] = x)
       /\ f \in [C -> S] /\ (\A n, m \in C : f[n] = f[m] => n = m) /\ (\A x \in S : \E n \in C : f[n] = x)
  BY <1>3, <1>5 DEF Bijection, Injection, IsInjective, Surjection
<1>11. Cardinality(S) = Cardinality(T) /\ Cardinality(C) = Cardinality(S)
  <2>1. ExistsBijection(S, T) /\ ExistsBijection(C, S)
    BY <1>3, <1>5 DEF ExistsBijection
  <2> QED
    BY <1>2, <2>1, FS_Bijection
<1>12. Range(g) = T
  BY <1>10 DEF Range
<1>13. h \in [C -> T] /\ \A l \in C : h[l] = g[f[l]]
  BY <1>10
<1> HIDE DEF h
<1>14. Range(h) = T
  <2>1. \A x \in T : \E l \in C : h[l] = x
    <3> TAKE x \in T
    <3>1. PICK n \in S : g[n] = x
      BY <1>10
    <3>2. PICK l \in C : f[l] = n
      BY <1>10
    <3> QED
      BY <1>13, <3>1, <3>2
  <2> QED
    BY <1>13, <2>1 DEF Range
<1>15. SameSignals(Opposed(netlist), S, T)
  BY <1>8, <1>10, <1>11, <1>12 DEF SameSignals
<1>16. SameSignals(Opposed(netlist), C, T)
  BY <1>9, <1>11, <1>13, <1>14 DEF SameSignals
<1> QED
  BY <1>15, <1>16 DEF S, C, T

LEMMA ChainsAddUp ==
  ASSUME Paired, NEW ch, NEW sums, Fits(ch, sums)
  PROVE  AddsUp(ch, sums)
<1>1. /\ Clean /\ DOMAIN ch = 1..Len(ch) /\ Len(ch) \in Nat /\ 1 \in 1..Len(ch)
      /\ 1 \in DOMAIN sums /\ sums[1] \in Sums /\ ch[1] \in Carrys /\ CoversAreCovers
  <2>1. Clean /\ CoversAreCovers
    BY DEF Paired, Clean
  <2>2. Len(ch) \in Nat /\ Len(ch) >= 1 /\ DOMAIN ch = 1..Len(ch) /\ DOMAIN sums = 1..Len(ch)
    BY <2>1, FitsFacts
  <2>3. 1 \in 1..Len(ch)
    BY <2>2
  <2> QED
    BY <2>1, <2>2, <2>3, FitsFacts
<1>2. \A k \in DOMAIN ch : Len(Own(ch, sums, k)) = 3 => k = 1
  <2> DEFINE len(k) == Len(Own(ch, sums, k))
  <2>1. \A k \in 1..Len(ch) : len(k) = 2 \/ (k = 1 /\ len(k) = 3)
    BY BitsOfSlices
  <2> HIDE DEF len
  <2>2. \A k \in 1..Len(ch) : len(k) = 3 => k = 1
    BY <2>1
  <2> QED
    BY <1>1, <2>2 DEF len
<1>3. \A p \in {1, 2} : \A k \in DOMAIN Word(ch, sums, p) : 1..k \subseteq DOMAIN Word(ch, sums, p)
  <2>1. \A p \in {1, 2} : DOMAIN Word(ch, sums, p) = 1..Len(ch)
    BY WordFacts
  <2>2. \A k \in 1..Len(ch) : 1..k \subseteq 1..Len(ch)
    BY <1>1
  <2> QED
    BY <2>1, <2>2
<1>4. Word(ch, sums, 1) # Word(ch, sums, 2)
  <2> DEFINE own == Own(ch, sums, 1)
             n == own[1]
             m == own[2]
  <2>1. 1 \in 1..Len(own) /\ 2 \in 1..Len(own)
    <3>1. Len(own) \in {2, 3}
      BY <1>1, BitsOfSlices
    <3> HIDE DEF own
    <3> QED
      BY <3>1
  <2>2. n \in Bits(ch, sums, 1) \cap Node /\ m \in Bits(ch, sums, 1) \cap Node /\ n # m
    <3>1. /\ \A p \in 1..Len(own) : own[p] \in Bits(ch, sums, 1) \cap Node
          /\ \A p, q \in 1..Len(own) : own[p] = own[q] => p = q
      BY <1>1, OwnBits
    <3>2. 1 # 2
      OBVIOUS
    <3> HIDE DEF own
    <3> QED
      BY <2>1, <3>1, <3>2
  <2>3. n \in sums[1].leaves /\ m \in sums[1].leaves /\ n \in Node /\ m \in Node
    BY <2>2 DEF Bits
  <2>4. Word(ch, sums, 1)[1] = Plain(ch[1], n) /\ Word(ch, sums, 2)[1] = Plain(ch[1], m)
    BY <1>1, WordFacts
  <2>5. Plain(ch[1], n) # Plain(ch[1], m)
    <3> HIDE DEF own, n, m
    <3>1. Plain(ch[1], n) \in Node /\ SameOrNot(Plain(ch[1], n), n) /\ SameOrNot(Plain(ch[1], m), m)
      BY <1>1, <2>3, PlainFacts
    <3> QED
      BY <1>1, <2>2, <2>3, <3>1, PairedFacts
  <2> QED
    BY <2>4, <2>5
<1> QED
  BY <1>2, <1>3, <1>4 DEF AddsUp

LEMMA ChainsSlicesAdd ==
  ASSUME Paired, NEW ad, Fits(ad.chain, ad.sums), ad.a = Word(ad.chain, ad.sums, 1),
         ad.b = Word(ad.chain, ad.sums, 2), ad.carry_in = CarryIn(ad.chain, ad.sums)
  PROVE  SlicesAdd(Opposed(netlist), ad)
<1> DEFINE bit(k) == {ad.a[k], ad.b[k]} \cup (IF k = 1 THEN ad.carry_in ELSE {ad.chain[k - 1].root})
<1>1. DOMAIN ad.chain = 1..Len(ad.chain)
  BY FitsFacts DEF Paired
<1>2. \A k \in 1..Len(ad.chain) : bit(k) = BitAt(ad.chain, ad.sums, k)
  BY DEF BitAt, CarryAt
<1>3. \A k \in 1..Len(ad.chain) : /\ SameSignals(Opposed(netlist), ad.sums[k].leaves, bit(k))
                                   /\ SameSignals(Opposed(netlist), ad.chain[k].leaves, bit(k))
  <2> HIDE DEF bit
  <2> QED
    BY <1>2, BitsAreLeaves
<1> QED
  BY <1>1, <1>3 DEF SlicesAdd

(* The gates that lie behind a node.                                        *)
LEMMA ConeOfNode ==
  ASSUME netlist.reads \in [Node -> SUBSET Node], NEW n \in Node, NEW stop
  PROVE  /\ Cone(netlist, {n}, stop) \in SUBSET Node /\ n \in Cone(netlist, {n}, stop)
         /\ ClosedUnder(netlist, stop, Cone(netlist, {n}, stop))
<1>1. {n} \in SUBSET Node
  OBVIOUS
<1> QED
  BY <1>1, ConeIsLeast

(* What a carry puts in: what was in already, gates that lie before its     *)
(* leaves, and leaves that are no inputs.                                   *)
LEMMA EnterFacts ==
  ASSUME Paired, NEW ch, NEW sums, Fits(ch, sums), NEW entered, PutIn(ch, sums, entered), NEW k \in 1..Len(ch)
  PROVE  /\ entered[k - 1] \subseteq entered[k] /\ ch[k].root \in entered[k]
         /\ ch[k].leaves \subseteq entered[k] \cup Inputs(ch, sums)
         /\ \A n \in entered[k] :
              \/ n \in entered[k - 1]
              \/ n \in ch[k].leaves \ Inputs(ch, sums)
              \/ netlist.reads[n] # {} /\ netlist.reads[n] \subseteq entered[k] \cup Inputs(ch, sums)
<1> DEFINE c == ch[k]
           inputs == Inputs(ch, sums)
           inside == entered[k - 1]
           stop == c.leaves \cup inside
           from == {c.root} \ stop
           cone == Cone(netlist, from, stop)
           whole == Cone(netlist, {c.root}, c.leaves)
<1>1. Clean
  BY DEF Paired
<1>2. c \in Carrys /\ c.root \in Node /\ c.leaves \in SUBSET Node /\ c.root \notin c.leaves /\ Len(ch) \in Nat
  BY <1>1, FitsFacts, CleanFacts
<1>3. netlist.reads \in [Node -> SUBSET Node]
  BY <1>1 DEF Clean, IsNetlist
<1>4. k - 1 \in 0..Len(ch)
  BY <1>2
<1>5. inside \in SUBSET Node /\ entered[k] = inside \cup cone \cup (c.leaves \ inputs)
  BY <1>4 DEF PutIn, EnterCarry
<1>6. from \in SUBSET Node
  BY <1>2
<1>7. /\ cone \in SUBSET Node /\ from \subseteq cone /\ ClosedUnder(netlist, stop, cone)
      /\ \A t \in SUBSET Node : from \subseteq t /\ ClosedUnder(netlist, stop, t) => cone \subseteq t
  <2> HIDE DEF from, stop
  <2>1. from \in SUBSET Node
    BY <1>6
  <2> QED
    BY <1>3, <2>1, ConeIsLeast
<1>8. whole \in SUBSET Node /\ c.root \in whole /\ ClosedUnder(netlist, c.leaves, whole)
  BY <1>2, <1>3, ConeOfNode
<1>9. \A n \in whole : netlist.reads[n] # {}
  BY <1>2, PairedFacts
<1> HIDE DEF c, cone, whole, inside, inputs
<1>10. cone \subseteq whole
  <2>1. from \subseteq whole /\ ClosedUnder(netlist, stop, whole)
    BY <1>8 DEF ClosedUnder
  <2> QED
    BY <1>7, <1>8, <2>1
<1>11. ASSUME NEW n \in cone
       PROVE  netlist.reads[n] # {} /\ netlist.reads[n] \subseteq entered[k] \cup inputs
  <2>1. netlist.reads[n] \ stop \subseteq cone
    BY <1>7 DEF ClosedUnder
  <2>2. netlist.reads[n] # {}
    BY <1>9, <1>10
  <2> QED
    BY <1>5, <2>1, <2>2
<1>12. c.root \in entered[k]
  <2>1. CASE c.root \in inside
    BY <1>5, <2>1
  <2>2. CASE c.root \notin inside
    <3>1. c.root \in from
      BY <1>2, <2>2
    <3> QED
      BY <1>5, <1>7, <3>1
  <2> QED
    BY <2>1, <2>2
<1> QED
  BY <1>5, <1>11, <1>12 DEF c, inside, inputs

(* A leaf that is no input is the carry before, an inverter of an input or  *)
(* opposite to one in another way.                                          *)
Sound(ch, sums, inside, n) ==
  \/ netlist.reads[n] # {} /\ netlist.reads[n] \subseteq inside \cup Inputs(ch, sums)
  \/ \E p \in Inputs(ch, sums) : /\ <<n, p>> \in Opposed(netlist)
                                 /\ p \in CarryIn(ch, sums) \/ ~Complements(n, p)

LEMMA BitsAreInputs ==
  ASSUME Paired, NEW ch, NEW sums, Fits(ch, sums), NEW k \in 1..Len(ch), NEW n, NEW x,
         IsCarryIn(ch, sums, k, n, x) \/ IsInput(ch, sums, k, n, x)
  PROVE  x \in Inputs(ch, sums)
<1>1. \A p \in {1, 2} : Word(ch, sums, p)[k] \in Range(Word(ch, sums, p))
  BY WordFacts DEF Range
<1> QED
  BY <1>1 DEF IsCarryIn, IsInput, Inputs

LEMMA LeavesAreSound ==
  ASSUME Paired, NEW ch, NEW sums, Fits(ch, sums), NEW k \in 1..Len(ch),
         NEW l \in ch[k].leaves \ Inputs(ch, sums), NEW inside
  PROVE  Sound(ch, sums, inside, l) \/ (k # 1 /\ l = ch[k - 1].root)
<1> DEFINE inputs == Inputs(ch, sums)
<1>1. Clean
  BY DEF Paired
<1>2. /\ sums[k] \in Sums /\ ch[k] \in Carrys /\ Matches(sums[k], ch[k])
      /\ sums[k].leaves \in SUBSET Node /\ ch[k].leaves \in SUBSET Node
  BY <1>1, FitsFacts
<1>3. PICK f \in Bijection(ch[k].leaves, sums[k].leaves) : \A y \in ch[k].leaves : SameOrNot(y, f[y])
  BY <1>2, LeavesArePaired
<1> DEFINE n == f[l]
           x == BitOf(ch, sums, k, n)
<1>4. n \in sums[k].leaves /\ SameOrNot(l, n) /\ l \in Node /\ n \in Node
  BY <1>2, <1>3 DEF Bijection, Injection
<1> HIDE DEF n
<1>5. IsCarried(ch, k, n, x) \/ x \in inputs
  BY <1>4, BitCases, BitsAreInputs
<1>6. \/ l = x
      \/ /\ x = n /\ ~IsCarried(ch, k, n, x)
         /\ IsCarryIn(ch, sums, k, n, x) \/ \A m \in ch[k].leaves : ~Inverter(n, m)
  BY <1>4, LeafCases
<1> HIDE DEF x
<1>7. CASE l = x
  BY <1>5, <1>7 DEF IsCarried
<1>8. CASE l # x
  <2>1. x = n /\ n \in inputs /\ l # n
    BY <1>5, <1>6, <1>8
  <2>2. <<l, n>> \in Opposed(netlist)
    BY <1>4, <2>1, PairedFacts
  <2>3. CASE IsCarryIn(ch, sums, k, n, x)
    <3>1. n \in CarryIn(ch, sums)
      BY <2>3 DEF IsCarryIn
    <3> QED
      BY <2>1, <2>2, <3>1 DEF Sound
  <2>4. CASE ~Inverter(n, l)
    <3>1. CASE Inverter(l, n)
      <4>1. netlist.reads[l] = {n}
        BY <3>1 DEF Inverter
      <4> QED
        BY <2>1, <4>1 DEF Sound
    <3>2. CASE ~Inverter(l, n)
      BY <2>1, <2>2, <2>4, <3>2 DEF Sound, Complements
    <3> QED
      BY <3>1, <3>2
  <2> QED
    BY <1>6, <1>8, <2>3, <2>4
<1> QED
  BY <1>7, <1>8

(* What is put in carry by carry is sound, and holds the carries.           *)
Holding(ch, sums, entered, k) ==
  /\ \A n \in entered[k] : Sound(ch, sums, entered[k], n)
  /\ \A y \in 1..k : /\ ch[y].root \in entered[k]
                     /\ ch[y].leaves \subseteq entered[k] \cup Inputs(ch, sums)
LEMMA EnteredIsSound ==
  ASSUME Paired, NEW ch, NEW sums, Fits(ch, sums), NEW entered, PutIn(ch, sums, entered)
  PROVE  Holding(ch, sums, entered, Len(ch))
<1> DEFINE T == {k \in Nat : k <= Len(ch) /\ ~Holding(ch, sums, entered, k)}
<1>1. Len(ch) \in Nat
  BY FitsFacts DEF Paired
<1>2. SUFFICES ASSUME T # {} PROVE FALSE
  BY <1>1
<1>3. PICK k \in T : \A y \in T : k <= y
  <2>1. T \in SUBSET Nat
    OBVIOUS
  <2> HIDE DEF T
  <2> QED
    BY <1>2, <2>1, LeastNat
<1>4. k \in Nat /\ k <= Len(ch) /\ ~Holding(ch, sums, entered, k)
  OBVIOUS
<1>5. k # 0
  <2>1. entered[0] = {} /\ 1..0 = {}
    BY DEF PutIn
  <2>2. Holding(ch, sums, entered, 0)
    BY <2>1 DEF Holding
  <2> QED
    BY <1>4, <2>2
<1>6. k \in 1..Len(ch) /\ k - 1 \in Nat /\ k - 1 <= Len(ch) /\ ~(k <= k - 1)
  BY <1>1, <1>4, <1>5
<1>7. Holding(ch, sums, entered, k - 1)
  BY <1>3, <1>6
<1> HIDE DEF T
<1>8. /\ entered[k - 1] \subseteq entered[k] /\ ch[k].root \in entered[k]
      /\ ch[k].leaves \subseteq entered[k] \cup Inputs(ch, sums)
  BY <1>6, EnterFacts
<1>9. ASSUME NEW n \in entered[k - 1] PROVE Sound(ch, sums, entered[k], n)
  <2>1. Sound(ch, sums, entered[k - 1], n)
    BY <1>7 DEF Holding
  <2> QED
    BY <1>8, <2>1 DEF Sound
<1>10. ASSUME NEW n \in entered[k] PROVE Sound(ch, sums, entered[k], n)
  <2>1. CASE n \in entered[k - 1]
    BY <1>9, <2>1
  <2>2. CASE n \in ch[k].leaves \ Inputs(ch, sums)
    <3>1. CASE k # 1 /\ n = ch[k - 1].root
      <4>1. k - 1 \in 1..(k - 1)
        BY <1>6, <3>1
      <4>2. n \in entered[k - 1]
        BY <1>7, <3>1, <4>1 DEF Holding
      <4> QED
        BY <1>9, <4>2
    <3> QED
      BY <1>6, <2>2, <3>1, LeavesAreSound
  <2>3. CASE netlist.reads[n] # {} /\ netlist.reads[n] \subseteq entered[k] \cup Inputs(ch, sums)
    BY <2>3 DEF Sound
  <2> QED
    BY <1>6, <2>1, <2>2, <2>3, EnterFacts
<1>11. ASSUME NEW y \in 1..k
       PROVE  ch[y].root \in entered[k] /\ ch[y].leaves \subseteq entered[k] \cup Inputs(ch, sums)
  <2>1. CASE y = k
    BY <1>8, <2>1
  <2>2. CASE y # k
    <3>1. y \in 1..(k - 1)
      BY <1>6, <2>2
    <3>2. ch[y].root \in entered[k - 1] /\ ch[y].leaves \subseteq entered[k - 1] \cup Inputs(ch, sums)
      BY <1>7, <3>1 DEF Holding
    <3> QED
      BY <1>8, <3>2
  <2> QED
    BY <2>1, <2>2
<1> QED
  BY <1>4, <1>10, <1>11 DEF Holding

(* What lies behind the outputs, up to the inputs and what the carries took *)
(* in, are gates of the sums and the carries, and leaves of sums that       *)
(* invert an input or the carry before or read what that carry reads.       *)
LEMMA BehindIsDriven ==
  ASSUME Paired, NEW ch, NEW sums, Fits(ch, sums), NEW inside, Holding(ch, sums, inside, Len(ch))
  PROVE  LET stop == Inputs(ch, sums) \cup inside[Len(ch)]
         IN  \A n \in Cone(netlist, Behind(ch, sums, stop), stop) : netlist.reads[n] # {}
<1> DEFINE N == Len(ch)
           stop == Inputs(ch, sums) \cup inside[N]
           behind == Behind(ch, sums, stop)
           reads == netlist.reads
           Inner(c) == Cone(netlist, {c.root}, c.leaves)
           slices == {ch[k] : k \in 1..N} \cup {sums[k] : k \in 1..N}
           left == (UNION {sums[k].leaves : k \in 1..N}) \ stop
           t == (UNION {Inner(c) : c \in slices}) \cup left
<1>1. Clean
  BY DEF Paired
<1>2. reads \in [Node -> SUBSET Node]
  BY <1>1 DEF Clean, IsNetlist
<1>3. /\ N \in Nat /\ N >= 1 /\ DOMAIN ch = 1..N /\ DOMAIN sums = 1..N
      /\ \A k \in 1..N : ch[k] \in Carrys /\ sums[k] \in Sums /\ sums[k].leaves \in SUBSET Node
  BY <1>1, FitsFacts
<1>4. ASSUME NEW c \in slices
      PROVE  /\ Inner(c) \in SUBSET Node /\ c.root \in Inner(c)
             /\ \A n \in Inner(c) : reads[n] # {} /\ reads[n] \subseteq Inner(c) \cup c.leaves
  <2>1. c \in Carrys \cup Sums
    BY <1>3
  <2>2. c.root \in Node
    BY <1>1, <2>1, CleanFacts
  <2>3. Inner(c) \in SUBSET Node /\ c.root \in Inner(c) /\ ClosedUnder(netlist, c.leaves, Inner(c))
    BY <1>2, <2>2, ConeOfNode
  <2>4. \A n \in Inner(c) : reads[n] # {}
    BY <2>1, PairedFacts
  <2> HIDE DEF Inner
  <2> QED
    BY <2>3, <2>4 DEF ClosedUnder
<1>5. \A k \in 1..N : ch[k] \in slices /\ sums[k] \in slices
  OBVIOUS
<1>6. \A k \in 1..N : ch[k].root \in inside[N] /\ ch[k].leaves \subseteq stop
  BY DEF Holding
<1> HIDE DEF Inner, slices, N
<1>7. ASSUME NEW c \in slices, NEW n \in Inner(c) PROVE n \in t
  OBVIOUS
<1>8. ASSUME NEW k \in 1..N, NEW n \in sums[k].leaves PROVE n \in stop \/ n \in t
  OBVIOUS
<1>9. t \in SUBSET Node
  BY <1>3, <1>4
<1> DEFINE Driven(n) == reads[n] # {} /\ reads[n] \subseteq t \cup stop
<1> HIDE DEF stop
<1>10. \A k \in 1..N : \A n \in Inner(ch[k]) : Driven(n)
  <2> TAKE k \in 1..N
  <2> TAKE n \in Inner(ch[k])
  <2>1. reads[n] # {} /\ reads[n] \subseteq Inner(ch[k]) \cup ch[k].leaves
    BY <1>4, <1>5
  <2>2. Inner(ch[k]) \subseteq t
    BY <1>5, <1>7
  <2> HIDE DEF t
  <2> QED
    BY <1>6, <2>1, <2>2
<1>11. \A k \in 1..N : \A n \in Inner(sums[k]) : Driven(n)
  <2> TAKE k \in 1..N
  <2> TAKE n \in Inner(sums[k])
  <2>1. reads[n] # {} /\ reads[n] \subseteq Inner(sums[k]) \cup sums[k].leaves
    BY <1>4, <1>5
  <2>2. Inner(sums[k]) \subseteq t
    BY <1>5, <1>7
  <2>3. sums[k].leaves \subseteq stop \cup t
    BY <1>8
  <2> HIDE DEF t
  <2> QED
    BY <2>1, <2>2, <2>3
<1>12. ASSUME NEW k \in 1..N, NEW n \in sums[k].leaves \ stop PROVE Driven(n)
  <2> DEFINE x == BitOf(ch, sums, k, n)
  <2>1. /\ IsCarried(ch, k, n, x) \/ IsCarryIn(ch, sums, k, n, x) \/ IsInput(ch, sums, k, n, x)
        /\ n \in Node /\ SameOrNot(n, x)
    BY <1>12, BitCases DEF N
  <2> HIDE DEF x
  <2>2. CASE IsCarryIn(ch, sums, k, n, x) \/ IsInput(ch, sums, k, n, x)
    <3>1. x \in stop
      BY <2>2, BitsAreInputs DEF stop, N
    <3>2. x # n
      BY <3>1
    <3>3. x = Plain(ch[k], n)
      BY <2>2, <3>2 DEF IsCarryIn, IsInput
    <3>4. Inverter(n, x)
      BY <1>3, <2>1, <3>2, <3>3, PlainFacts
    <3>5. reads[n] = {x}
      BY <3>4 DEF Inverter
    <3> HIDE DEF t
    <3> QED
      BY <3>1, <3>5
  <2>3. CASE IsCarried(ch, k, n, x)
    <3> DEFINE c == ch[k - 1]
    <3>1. k - 1 \in 1..N /\ x = c.root
      BY <1>1, <2>3, FitsFacts DEF IsCarried, N
    <3>2. c \in Carrys /\ c.root \in stop /\ c.root \in Inner(c) /\ c \in slices
      BY <1>3, <1>4, <1>5, <1>6, <3>1 DEF stop
    <3>3. Driven(c.root)
      BY <1>10, <3>1, <3>2
    <3> HIDE DEF c
    <3>4. n = c.root \/ Inverter(n, c.root) \/ Inverter(c.root, n) \/ reads[n] = reads[c.root]
      BY <2>1, <3>1, <3>2, PairedFacts
    <3>5. CASE n = c.root
      BY <3>2, <3>5
    <3>6. CASE Inverter(n, c.root)
      <4>1. reads[n] = {c.root}
        BY <3>6 DEF Inverter
      <4> HIDE DEF t
      <4> QED
        BY <3>2, <4>1
    <3>7. CASE Inverter(c.root, n)
      <4>1. n \in Inner(c)
        <5>1. reads[c.root] \subseteq Inner(c) \cup c.leaves /\ c.leaves \subseteq stop
          BY <1>4, <1>6, <3>1, <3>2 DEF c
        <5>2. n \in reads[c.root]
          BY <3>7 DEF Inverter
        <5> QED
          BY <5>1, <5>2
      <4> QED
        BY <1>10, <3>1, <4>1 DEF c
    <3>8. CASE reads[n] = reads[c.root]
      <4> HIDE DEF t
      <4> QED
        BY <3>3, <3>8
    <3> QED
      BY <3>4, <3>5, <3>6, <3>7, <3>8
  <2> QED
    BY <2>1, <2>2, <2>3
<1>13. \A n \in t : Driven(n)
  <2> SUFFICES ASSUME NEW n \in t PROVE Driven(n)
    OBVIOUS
  <2>1. (\E c \in slices : n \in Inner(c)) \/ n \in left
    OBVIOUS
  <2>2. n \in left => \E k \in 1..N : n \in sums[k].leaves \ stop
    OBVIOUS
  <2>3. \A c \in slices : \E k \in 1..N : c = ch[k] \/ c = sums[k]
    BY DEF slices
  <2> HIDE DEF Driven, left, t
  <2> QED
    BY <1>10, <1>11, <1>12, <2>1, <2>2, <2>3
<1>14. behind \subseteq t
  <2>1. ASSUME NEW o \in Outputs(ch, sums) PROVE Driven(o)
    <3>1. \E k \in 1..N : o = sums[k].root \/ o = ch[k].root
      <4>1. N \in 1..N /\ Last(ch) = ch[N]
        BY <1>3 DEF Last, N
      <4> QED
        BY <1>3, <4>1 DEF Outputs
    <3>2. PICK c \in slices : o = c.root
      BY <1>5, <3>1
    <3>3. o \in Inner(c)
      BY <1>4, <3>2
    <3> QED
      BY <1>7, <1>13, <3>3
  <2> HIDE DEF t
  <2> QED
    BY <2>1 DEF Behind
<1>15. ClosedUnder(netlist, stop, t)
  <2> HIDE DEF t
  <2> QED
    BY <1>13 DEF ClosedUnder
<1> HIDE DEF t, behind, Driven
<1>16. Cone(netlist, behind, stop) \subseteq t
  <2>1. behind \in SUBSET Node
    BY <1>9, <1>14
  <2> QED
    BY <1>2, <1>9, <1>14, <1>15, <2>1, ConeIsLeast
<1> QED
  BY <1>13, <1>16 DEF Driven, behind, stop, N

LEMMA NothingIsSwallowed ==
  ASSUME Paired, NEW ch, NEW sums, Fits(ch, sums)
  PROVE  NothingSwallowed(Opposed(netlist), AdderModule(ch, sums), CarryIn(ch, sums))
<1>1. Clean /\ IsNetlist(netlist) /\ CoversAreCovers
  BY DEF Paired, Clean
<1>2. ch \in Seq(Carrys) /\ ch # <<>> /\ sums \in [DOMAIN ch -> Sums]
  BY DEF Fits
<1>3. Inputs(ch, sums) \in SUBSET Node /\ Outputs(ch, sums) \in SUBSET Node
  BY <1>1, <1>2, AdderIsMade
<1>4. PICK entered :
        /\ PutIn(ch, sums, entered)
        /\ AdderModule(ch, sums).inputs = Inputs(ch, sums)
        /\ AdderModule(ch, sums).internals = TakenIn(ch, sums, entered[Len(ch)])
  BY <1>1, <1>2, AdderIsMade
<1>5. Holding(ch, sums, entered, Len(ch))
  BY <1>4, EnteredIsSound
<1> DEFINE inputs == Inputs(ch, sums)
           outputs == Outputs(ch, sums)
           carried == entered[Len(ch)]
           stop == inputs \cup carried
           behind == Behind(ch, sums, stop)
           cone == Cone(netlist, behind, stop)
           all == TakenIn(ch, sums, carried)
<1>6. \A n \in cone : netlist.reads[n] # {}
  BY <1>5, BehindIsDriven
<1>7. netlist.reads \in [Node -> SUBSET Node]
  BY <1>1 DEF IsNetlist
<1>8. all = carried \cup outputs \cup cone
  BY DEF TakenIn
<1>9. behind = (UNION {netlist.reads[o] : o \in outputs}) \ stop
  BY DEF Behind
<1>10. \A o \in outputs : netlist.reads[o] # {}
  <2>1. ASSUME NEW c \in Carrys \cup Sums PROVE netlist.reads[c.root] # {}
    <3>1. c.root \in Node
      BY <1>1, CleanFacts
    <3>2. c.root \in Cone(netlist, {c.root}, c.leaves)
      BY <1>7, <3>1, ConeOfNode
    <3> QED
      BY <3>2, PairedFacts
  <2>2. \A o \in outputs : \E c \in Carrys \cup Sums : o = c.root
    <3>1. Len(ch) \in 1..Len(ch) /\ DOMAIN sums = 1..Len(ch) /\ Last(ch) = ch[Len(ch)]
      BY <1>2 DEF Last
    <3>2. \A k \in 1..Len(ch) : ch[k] \in Carrys /\ sums[k] \in Sums
      BY <1>1, FitsFacts
    <3> QED
      BY <3>1, <3>2 DEF Outputs
  <2> QED
    BY <2>1, <2>2
<1>11. behind \in SUBSET Node
  <2> HIDE DEF behind, stop
  <2> QED
    BY <1>3, <1>7, <1>9
<1>12. behind \subseteq cone /\ ClosedUnder(netlist, stop, cone)
  <2> HIDE DEF behind, stop
  <2> QED
    BY <1>7, <1>11, ConeIsLeast
<1>13. \A n \in carried : Sound(ch, sums, carried, n)
  BY <1>5 DEF Holding
<1> HIDE DEF outputs, carried, behind, cone, all
<1>14. ASSUME NEW n \in all
       PROVE  \/ netlist.reads[n] # {} /\ netlist.reads[n] \subseteq all \cup inputs
              \/ \E p \in inputs : <<n, p>> \in Opposed(netlist) /\ (p \in CarryIn(ch, sums) \/ ~Complements(n, p))
  <2>1. CASE n \in carried
    BY <1>8, <1>13, <2>1 DEF Sound
  <2>2. CASE n \in outputs
    <3>1. netlist.reads[n] \subseteq behind \cup stop
      BY <1>9, <2>2
    <3> QED
      BY <1>8, <1>10, <1>12, <2>2, <3>1
  <2>3. CASE n \in cone
    <3>1. netlist.reads[n] \subseteq cone \cup stop
      BY <1>12, <2>3 DEF ClosedUnder
    <3> QED
      BY <1>6, <1>8, <2>3, <3>1
  <2> QED
    BY <1>8, <2>1, <2>2, <2>3
<1> QED
  BY <1>4, <1>14 DEF NothingSwallowed, all, carried

-----------------------------------------------------------------------------
(* The adders that have been made are of chains with a sum for each carry,  *)
(* and so is the one that is made where the path being followed ends.       *)
MadeOf(ad) ==
  /\ Fits(ad.chain, ad.sums)
  /\ ad.a = Word(ad.chain, ad.sums, 1) /\ ad.b = Word(ad.chain, ad.sums, 2)
  /\ ad.carry_in = CarryIn(ad.chain, ad.sums) /\ ad.module = AdderModule(ad.chain, ad.sums)
AdderInv ==
  /\ step \notin {"chains", "done", "abort"} => adders = {}
  /\ step = "chains" => \A k \in 1..(Len(chain) - 1) : chain[k + 1] \in EdgesAt(edges_out, chain[k])
  /\ \A ad \in adders : MadeOf(ad)
  /\ WellCovered(netlist) /\ WellMatched(netlist) => step # "abort"

LEMMA MadeKept ==
  ASSUME netlist' = netlist, not_relation' = not_relation, NEW ad
  PROVE  MadeOf(ad)' = MadeOf(ad)
<1>1. Carrys' = Carrys /\ Sums' = Sums
  BY DEF Carrys, Sums, Covers
<1>2. \A s, c : Matches(s, c)' = Matches(s, c)
  BY DEF Matches, SameOrNot
<1>3. \A ch, sums : Fits(ch, sums)' = Fits(ch, sums)
  BY <1>1, <1>2 DEF Fits, CanJoin
<1>4. \A ch, sums, k : Own(ch, sums, k)' = Own(ch, sums, k)
  BY DEF Own, Carried, SameOrNot
<1>5. \A c, n : Plain(c, n)' = Plain(c, n)
  BY DEF Plain, Inverter
<1>6. \A ch, sums, p : Word(ch, sums, p)' = Word(ch, sums, p)
  BY <1>4, <1>5 DEF Word
<1>7. \A ch, sums : CarryIn(ch, sums)' = CarryIn(ch, sums)
  BY <1>4 DEF CarryIn
<1>8. ASSUME NEW ch, NEW sums PROVE AdderModule(ch, sums)' = AdderModule(ch, sums)
  <2> DEFINE MadeFrom(nl, inputs) ==
               LET outputs == Outputs(ch, sums)
                   entered[k \in 0..Len(ch)] ==
                     IF k = 0 THEN {} ELSE EnterCarry(nl, ch[k], inputs, entered[k - 1])
                   carried == entered[Len(ch)]
                   stop    == inputs \cup carried
                   behind  == (UNION {nl.reads[o] : o \in outputs}) \ stop
                   all     == carried \cup outputs \cup Cone(nl, behind, stop)
               IN  [type |-> "ripple_addsub", outputs |-> outputs, inputs |-> inputs, sel |-> {}, aux |-> {},
                    internals |-> all, is_bad |-> Bad(nl, outputs, all)]
  <2>1. AdderModule(ch, sums) = MadeFrom(netlist, Inputs(ch, sums))
    BY DEF AdderModule, Inputs, Outputs
  <2>2. AdderModule(ch, sums)' = MadeFrom(netlist', Inputs(ch, sums)')
    BY DEF AdderModule, Inputs, Outputs
  <2>3. Inputs(ch, sums)' = Inputs(ch, sums)
    BY <1>6, <1>7 DEF Inputs
  <2> HIDE DEF MadeFrom
  <2> QED
    BY <2>1, <2>2, <2>3
<1> QED
  BY <1>3, <1>6, <1>7, <1>8 DEF MadeOf

(* An end of the walk: what is left of the path still consists of edges.    *)
LEMMA EdgesOfFront ==
  ASSUME ChainsInv, AdderInv, step = "chains", chain # <<>>, chain' = Front(chain), edges_out' = edges_out
  PROVE  \A k \in 1..(Len(chain') - 1) : chain'[k + 1] \in EdgesAt(edges_out', chain'[k])
<1> DEFINE n == Len(chain)
<1>1. chain \in Seq(Carrys) /\ n \in Nat /\ n # 0
  BY DEF ChainsInv, PathOK
<1>2. Len(chain') = n - 1 /\ \A k \in 1..(n - 1) : chain'[k] = chain[k]
  <2>1. chain' = SubSeq(chain, 1, n - 1)
    BY DEF Front
  <2> HIDE DEF n
  <2>2. n - 1 \in Nat /\ (n - 1) - 1 + 1 = n - 1 /\ Len(chain) = n
    BY <1>1 DEF n
  <2>3. Len(SubSeq(chain, 1, n - 1)) = n - 1 /\ \A k \in 1..(n - 1) : SubSeq(chain, 1, n - 1)[k] = chain[k]
    BY <1>1, <2>2
  <2> QED
    BY <2>1, <2>3
<1>3. \A k \in 1..(n - 1) : chain[k + 1] \in EdgesAt(edges_out, chain[k])
  BY DEF AdderInv
<1> HIDE DEF n
<1>4. \A k \in 1..((n - 1) - 1) : k \in 1..(n - 1) /\ k + 1 \in 1..(n - 1)
  BY <1>1
<1> QED
  BY <1>2, <1>3, <1>4

LEMMA ChainFits ==
  ASSUME ChainsInv, MatchInv, AdderInv, step = "chains", chain # <<>>,
         NEW sums \in [DOMAIN chain -> Sums], \A k \in DOMAIN chain : sums[k] \in partners[chain[k]]
  PROVE  Fits(chain, sums)
<1>1. chain \in Seq(Carrys) /\ Len(chain) \in Nat /\ DOMAIN chain = 1..Len(chain)
      /\ \A k \in 1..Len(chain) : chain[k] \in Carrys
  BY DEF ChainsInv, PathOK
<1>2. PartnersFound /\ GraphPruned
  BY DEF MatchInv
<1>3. \A k \in DOMAIN chain : Matches(sums[k], chain[k])
  BY <1>1, <1>2 DEF PartnersFound
<1>4. ASSUME NEW k \in 1..(Len(chain) - 1) PROVE CanJoin(chain[k], chain[k + 1])
  <2>1. chain[k + 1] \in EdgesAt(edges_out, chain[k])
    BY DEF AdderInv
  <2>2. chain[k + 1] \in Led(chain[k])
    BY <1>2, <2>1 DEF GraphPruned, EdgesAt
  <2> QED
    BY <2>2 DEF Led, Edge2
<1> QED
  BY <1>1, <1>3, <1>4 DEF Fits

LEMMA AddersAreMade ==
  ASSUME GroupInv, ChainsInv, MatchInv, AdderInv, UseChain, netlist' = netlist PROVE AdderInv'
<1>1. /\ step = "chains" /\ chain # <<>> /\ chain' = Front(chain)
      /\ edges_out' = edges_out /\ not_relation' = not_relation
  BY DEF UseChain, graph
<1>2. /\ step' \in {"chains", "abort"}
      /\ step' # "abort" => \A k \in 1..(Len(chain') - 1) : chain'[k + 1] \in EdgesAt(edges_out', chain'[k])
  BY <1>1, EdgesOfFront DEF UseChain
<1>3. \A k : EdgesAt(edges_out, k)' = EdgesAt(edges_out', k)
  BY DEF EdgesAt
<1>4. \A ad \in adders : MadeOf(ad)'
  BY <1>1, MadeKept DEF AdderInv
<1>5. CASE adders' = adders /\ step' = step
  BY <1>1, <1>2, <1>3, <1>4, <1>5 DEF AdderInv
<1>6. CASE ~(adders' = adders /\ step' = step)
  <2>1. PICK sums \in {f \in [DOMAIN chain -> Sums] : \A k \in DOMAIN chain : f[k] \in partners[chain[k]]} :
          IF AddsUp(chain, sums)
          THEN /\ adders' = adders \cup
                     {[chain |-> chain, sums |-> sums, module |-> AdderModule(chain, sums),
                       a |-> Word(chain, sums, 1), b |-> Word(chain, sums, 2),
                       carry_in |-> CarryIn(chain, sums)]}
               /\ step' = step
          ELSE adders' = adders /\ step' = "abort"
    BY <1>6 DEF UseChain
  <2>2. Fits(chain, sums)
    BY <1>1, ChainFits
  <2>3. WellCovered(netlist) /\ WellMatched(netlist) => AddsUp(chain, sums)
    <3> SUFFICES ASSUME WellCovered(netlist), WellMatched(netlist) PROVE AddsUp(chain, sums)
      OBVIOUS
    <3>1. Paired
      BY <1>1, NetlistsAssumption, CoversAssumption DEF Paired, Clean, GroupInv, CoversAreCovers, MatchInv
    <3> QED
      BY <2>2, <3>1, ChainsAddUp
  <2>4. CASE AddsUp(chain, sums)
    <3> DEFINE ad == [chain |-> chain, sums |-> sums, module |-> AdderModule(chain, sums),
                      a |-> Word(chain, sums, 1), b |-> Word(chain, sums, 2),
                      carry_in |-> CarryIn(chain, sums)]
    <3>1. adders' = adders \cup {ad} /\ step' = step
      BY <2>1, <2>4
    <3>2. MadeOf(ad)
      BY <2>2 DEF MadeOf
    <3> HIDE DEF ad
    <3>3. \E new : adders' = adders \cup {new} /\ MadeOf(new)
      BY <3>1, <3>2
    <3>4. PICK new : adders' = adders \cup {new} /\ MadeOf(new)
      BY <3>3
    <3>5. MadeOf(new)'
      BY <1>1, <3>4, MadeKept
    <3> QED
      BY <1>1, <1>2, <1>3, <1>4, <3>1, <3>4, <3>5 DEF AdderInv
  <2>5. CASE ~AddsUp(chain, sums)
    <3>1. adders' = adders /\ step' = "abort"
      BY <2>1, <2>5
    <3>2. ~(WellCovered(netlist) /\ WellMatched(netlist))
      BY <2>3, <2>5
    <3> QED
      BY <1>4, <3>1, <3>2 DEF AdderInv
  <2> QED
    BY <2>4, <2>5
<1> QED
  BY <1>5, <1>6

LEMMA AdderStep ==
  ASSUME GroupInv, ChainsInv, MatchInv, WalkInv, AdderInv, [AggregateNext]_<<vars, search>> PROVE AdderInv'
<1>1. ASSUME UNCHANGED <<netlist, not_relation, edges_out, chain, adders, step>> PROVE AdderInv'
  <2>1. \A ad \in adders : MadeOf(ad)'
    BY <1>1, MadeKept DEF AdderInv
  <2>2. \A c : EdgesAt(edges_out, c)' = EdgesAt(edges_out, c)
    BY <1>1 DEF EdgesAt
  <2> QED
    BY <1>1, <2>1, <2>2 DEF AdderInv
<1>2. CASE UNCHANGED <<vars, search>>
  BY <1>1, <1>2 DEF vars, search, graph, walk
<1>3. ASSUME adders' = adders, step \notin {"chains", "done", "abort"}, step' \notin {"chains", "done", "abort"}
      PROVE  AdderInv'
  BY <1>3 DEF AdderInv
<1>4. CASE CreateNotRelation /\ UNCHANGED vars
  BY <1>3, <1>4 DEF CreateNotRelation
<1>5. CASE IdentifyRCAs
  <2>1. netlist' = netlist
    BY <1>5 DEF IdentifyRCAs
  <2>2. CASE FindPartners \/ CreateGraph \/ RemoveContained
    BY <1>3, <2>2 DEF FindPartners, CreateGraph, RemoveContained
  <2>3. ASSUME adders' = adders, not_relation' = not_relation, step' \in {"chains", "done"},
               \A k \in 1..(Len(chain') - 1) : chain'[k + 1] \in EdgesAt(edges_out', chain'[k])
        PROVE  AdderInv'
    <3>1. \A ad \in adders : MadeOf(ad)'
      BY <2>1, <2>3, MadeKept DEF AdderInv
    <3>2. \A c : EdgesAt(edges_out, c)' = EdgesAt(edges_out', c)
      BY DEF EdgesAt
    <3> QED
      BY <2>3, <3>1, <3>2 DEF AdderInv
  <2>4. CASE StartChains \/ EndChains
    <3>1. /\ adders' = adders /\ not_relation' = not_relation /\ step' \in {"chains", "done"}
          /\ chain' = chain /\ chain = <<>>
      BY <2>4 DEF StartChains, EndChains, graph, walk, WalkInv
    <3>2. 1..(Len(chain') - 1) = {}
      BY <3>1
    <3> QED
      BY <2>3, <3>1, <3>2
  <2>5. CASE StartChain
    <3>1. adders' = adders /\ not_relation' = not_relation /\ step' = "chains" /\ Len(chain') = 1
      BY <2>5 DEF StartChain
    <3>2. 1..(Len(chain') - 1) = {}
      BY <3>1
    <3> QED
      BY <2>3, <3>1, <3>2
  <2>6. CASE Follow
    <3> DEFINE c == First(Last(rest))
               n == Len(chain)
    <3>1. /\ adders' = adders /\ not_relation' = not_relation /\ edges_out' = edges_out
          /\ step = "chains" /\ step' = "chains" /\ chain # <<>> /\ chain' = Append(chain, c) /\ Last(rest) # {}
      BY <2>6 DEF Follow, graph
    <3>2. chain \in Seq(Carrys) /\ n \in Nat /\ n \in 1..n /\ Len(rest) = n /\ rest \in Seq(SUBSET Carrys)
      BY <3>1 DEF ChainsInv, PathOK
    <3>3. c \in rest[n]
      BY <3>1, <3>2 DEF First, Last
    <3>4. c \in EdgesAt(edges_out, chain[n])
      BY <3>1, <3>2, <3>3 DEF WalkInv
    <3> HIDE DEF c
    <3>5. Len(chain') = n + 1 /\ chain'[n + 1] = c /\ \A k \in 1..n : chain'[k] = chain[k]
      BY <3>1, <3>2
    <3>6. \A k \in 1..(n - 1) : chain[k + 1] \in EdgesAt(edges_out, chain[k])
      BY <3>1 DEF AdderInv
    <3> HIDE DEF n
    <3>7. ASSUME NEW k \in 1..n PROVE chain'[k + 1] \in EdgesAt(edges_out', chain'[k])
      <4>1. CASE k = n
        BY <3>1, <3>4, <3>5, <4>1
      <4>2. CASE k # n
        <5>1. k \in 1..(n - 1) /\ k + 1 \in 1..n
          BY <3>2, <4>2
        <5> QED
          BY <3>1, <3>5, <3>6, <5>1
      <4> QED
        BY <4>1, <4>2
    <3>8. (n + 1) - 1 = n
      BY <3>2
    <3> QED
      BY <2>3, <3>1, <3>5, <3>7, <3>8
  <2>7. CASE Return
    <3>1. /\ adders' = adders /\ not_relation' = not_relation /\ edges_out' = edges_out
          /\ step = "chains" /\ step' = "chains" /\ chain # <<>> /\ chain' = Front(chain)
      BY <2>7 DEF Return, graph
    <3> QED
      BY <2>3, <3>1, EdgesOfFront
  <2>8. CASE UseChain
    BY <2>1, <2>8, AddersAreMade
  <2> QED
    BY <1>5, <2>2, <2>4, <2>5, <2>6, <2>7, <2>8 DEF IdentifyRCAs
<1>6. CASE Next /\ UNCHANGED search
  <2>1. netlist' = netlist
    BY <1>6 DEF Next, Analyse, StartLinks, Compare, NextRegister, StartGroups, MergeGroup,
       KeepRegisters, MergeBeside, ResolveOverlaps, MergeInPlace
  <2> QED
    BY <1>1, <1>6, <2>1 DEF search, graph, walk
<1> QED
  BY <1>2, <1>4, <1>5, <1>6 DEF AggregateNext

(* Where leaves can be told apart up to complement, no assert fails as      *)
(* adders are made; in each slice the sum and the carry are those of one    *)
(* bit of each word and of the carry before; and what an adder takes in     *)
(* lies between its outputs and its inputs.                                 *)
THEOREM AddersAdd == Aggregate => [](WellCovered(netlist) /\ WellMatched(netlist) => AddersAreSound)
<1> DEFINE Inv == GroupInv /\ ChainsInv /\ MatchInv /\ WalkInv /\ AdderInv
<1>1. AggregateInit => Inv
  <2> SUFFICES ASSUME AggregateInit PROVE Inv
    OBVIOUS
  <2>1. GroupInv
    BY GroupStarts DEF AggregateInit
  <2>2. ChainsInv
    BY ChainsStart
  <2>3. step = "relate" /\ chain = <<>> /\ edges_in = <<>> /\ adders = {}
    BY DEF AggregateInit
  <2>4. \A c : EdgesAt(edges_in, c) \subseteq Carrys
    BY <2>3 DEF EdgesAt
  <2>5. MatchInv /\ WalkInv /\ AdderInv
    BY <2>3, <2>4 DEF MatchInv, WalkInv, AdderInv
  <2> QED
    BY <2>1, <2>2, <2>5
<1>2. Inv /\ [AggregateNext]_<<vars, search>> => Inv'
  BY GroupStep, ChainsStep, MatchStep, WalkStep, AdderStep
<1>3. Inv => (WellCovered(netlist) /\ WellMatched(netlist) => AddersAreSound)
  <2> SUFFICES ASSUME Inv, WellCovered(netlist), WellMatched(netlist) PROVE AddersAreSound
    OBVIOUS
  <2>1. step # "abort"
    BY DEF AdderInv
  <2>2. ASSUME Finished, NEW ad \in adders
        PROVE  SlicesAdd(Opposed(netlist), ad) /\ NothingSwallowed(Opposed(netlist), ad.module, ad.carry_in)
    <3>1. Paired
      BY <2>2, NetlistsAssumption, CoversAssumption
         DEF Paired, Clean, GroupInv, CoversAreCovers, MatchInv, Finished
    <3>2. MadeOf(ad)
      BY DEF AdderInv
    <3>3. SlicesAdd(Opposed(netlist), ad)
      BY <3>1, <3>2, ChainsSlicesAdd DEF MadeOf
    <3>4. NothingSwallowed(Opposed(netlist), AdderModule(ad.chain, ad.sums), CarryIn(ad.chain, ad.sums))
      BY <3>1, <3>2, NothingIsSwallowed DEF MadeOf
    <3> QED
      BY <3>2, <3>3, <3>4 DEF MadeOf
  <2> QED
    BY <2>1, <2>2 DEF AddersAreSound
<1> QED
  BY <1>1, <1>2, <1>3, PTL DEF Aggregate
=============================================================================
