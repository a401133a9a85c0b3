--------------------------- MODULE TopoSortProofs ---------------------------
(* The order that topo_sort leaves, for every netlist and every limit.     *)
EXTENDS TopoSort, TLAPS, FiniteSetTheorems, WellFoundedInduction

-----------------------------------------------------------------------------
(* Least and greatest members.                                             *)

LEMMA LessThanWellFounded ==
  IsWellFoundedOn({p \in Nat \X Nat : p[1] < p[2]}, Nat)
BY NatLessThanWellFounded DEF OpToRel

LEMMA LeastNat ==
  ASSUME NEW T \in SUBSET Nat, T # {}
  PROVE  \E x \in T : \A y \in T : x <= y
<1> DEFINE R == {p \in Nat \X Nat : p[1] < p[2]}
<1>1. IsWellFoundedOn(R, Nat)
  BY LessThanWellFounded
<1>2. \E x \in T : \A y \in T : ~(<<y, x>> \in R)
  <2> HIDE DEF R
  <2> QED BY <1>1, WFMin
<1>3. PICK x \in T : \A y \in T : ~(<<y, x>> \in R)
  BY <1>2
<1>4. ASSUME NEW y \in T PROVE x <= y
  <2>1. x \in Nat /\ y \in Nat
    OBVIOUS
  <2>2. <<y, x>> \notin {p \in Nat \X Nat : p[1] < p[2]}
    BY <1>3
  <2>3. ~(y < x)
    BY <2>1, <2>2
  <2> QED BY <2>1, <2>3
<1> QED BY <1>4

(* A bounded set of numbers has the maximum that update_level computes.    *)
LEMMA MaxOfBounded ==
  ASSUME NEW S \in SUBSET Int, S # {}, NEW b \in Int, \A x \in S : x <= b
  PROVE  MaxOf(S) \in S /\ \A x \in S : x <= MaxOf(S)
<1> DEFINE T == {b - x : x \in S}
<1>1. T \in SUBSET Nat /\ T # {}
  <2>1. \A x \in S : b - x \in Nat
    OBVIOUS
  <2> QED BY <2>1
<1>2. PICK t \in T : \A y \in T : t <= y
  <2> HIDE DEF T
  <2> QED BY <1>1, LeastNat
<1>3. PICK m \in S : t = b - m
  OBVIOUS
<1>4. \A x \in S : x <= m
  BY <1>2, <1>3
<1> QED BY <1>4 DEF MaxOf

-----------------------------------------------------------------------------
(* The invariant.  While a walk runs, every gate it has passed is above    *)
(* those of its inputs that are not marked, provided that the walk has     *)
(* moved nothing or is the one that marks: what moves behind the walk is   *)
(* then marked.                                                            *)

Bounded == \E b \in Nat : \A n \in Node : level[n] <= b

Above(n) == \A m \in inputs[n] : m \in loop_nodes \/ level[m] < level[n]

PassedAreAbove ==
  (phase \in {"sources", "levels"} /\ (~changed \/ iterations = MaxIterations))
    => \A i \in 1..(pos - 1) : order[i] \notin loop_nodes => Above(order[i])

AllAreAbove ==
  phase \notin {"sources", "levels"} =>
    \A n \in Gate \ loop_nodes : Above(n)

WithinLimit ==
  /\ phase = "sources" => pos = 1
  /\ phase \in {"sources", "levels"} => iterations <= MaxIterations

SortedOrder == Settled => SortedByLevel(order)

PassedAreCovered ==
  Settled => \A i \in 1..(pos - 1) : order[i] \in covered \cup PassedOver

IInv ==
  /\ TypeOK
  /\ Bounded
  /\ PassedAreAbove
  /\ AllAreAbove
  /\ WithinLimit
  /\ SortedOrder
  /\ PassedAreCovered
  /\ CoversReady

-----------------------------------------------------------------------------
(* Facts about one state.                                                  *)

LEMMA GateFacts ==
  ASSUME TypeOK
  PROVE  /\ Gate \subseteq Node
         /\ Cardinality(Gate) \in Nat
         /\ order \in [1..Cardinality(Gate) -> Gate]
         /\ \A n \in Node : inputs[n] \subseteq Node
<1>1. Gate \subseteq Node
  BY DEF Gate
<1>2. IsFiniteSet(Node)
  BY NumNodesAssumption, FS_Interval DEF Node
<1>3. Cardinality(Gate) \in Nat
  BY <1>1, <1>2, FS_Subset, FS_CardinalityType
<1> QED BY <1>1, <1>3 DEF TypeOK, Listing, IsNetlist, inputs

(* update_level puts a gate above all its inputs.                          *)
LEMMA NewLevelIsAbove ==
  ASSUME TypeOK, NEW b \in Nat, \A n \in Node : level[n] <= b, NEW n \in Node
  PROVE  /\ NewLevel(n) \in Int
         /\ NewLevel(n) <= b + 1
         /\ \A m \in inputs[n] : level[m] < NewLevel(n)
<1> DEFINE S == {level[m] : m \in inputs[n]} \cup {0}
<1>1. inputs[n] \subseteq Node
  BY GateFacts
<1>2. S \in SUBSET Int /\ S # {} /\ \A x \in S : x <= b
  BY <1>1 DEF TypeOK
<1>3. MaxOf(S) \in S /\ \A x \in S : x <= MaxOf(S)
  <2> HIDE DEF S
  <2> QED BY <1>2, MaxOfBounded
<1>4. MaxOf(S) \in Int /\ MaxOf(S) <= b
  BY <1>2, <1>3
<1>5. \A m \in inputs[n] : level[m] \in S /\ level[m] \in Int
  BY <1>1 DEF TypeOK
<1>6. NewLevel(n) = MaxOf(S) + 1
  BY DEF NewLevel
<1>7. \A m \in inputs[n] : level[m] <= MaxOf(S)
  BY <1>3, <1>5
<1> HIDE DEF S
<1> QED BY <1>4, <1>5, <1>6, <1>7

LEMMA InitEstablishesIInv == Init => IInv
<1> SUFFICES ASSUME Init PROVE IInv
  OBVIOUS
<1>1. IsNetlist(netlist)
  BY NetlistsAssumption DEF Init
<1>2. Cardinality(Gate) \in Nat
  <2>1. IsFiniteSet(Node)
    BY NumNodesAssumption, FS_Interval DEF Node
  <2> QED BY <2>1, FS_Subset, FS_CardinalityType DEF Gate
<1>3. TypeOK
  <2>1. level \in [Node -> Int] /\ order \in Listing /\ loop_nodes \in SUBSET Gate /\ covered \in SUBSET Gate
    BY DEF Init
  <2>2. iterations \in 0..(MaxIterations + 1) /\ pos \in 1..(Cardinality(Gate) + 1)
    BY <1>2, MaxIterationsAssumption DEF Init
  <2> QED BY <1>1, <2>1, <2>2 DEF Init, TypeOK, Phase
<1>4. Bounded
  BY DEF Init, Bounded
<1>5. PassedAreAbove /\ AllAreAbove /\ SortedOrder /\ PassedAreCovered /\ CoversReady
  BY DEF Init, PassedAreAbove, AllAreAbove, SortedOrder, PassedAreCovered, CoversReady, Settled
<1>6. WithinLimit
  BY MaxIterationsAssumption DEF Init, WithinLimit
<1> QED BY <1>3, <1>4, <1>5, <1>6 DEF IInv

-----------------------------------------------------------------------------
(* One lemma per action that disturbs a part of the invariant.             *)

(* What does not depend on the step.                                       *)
LEMMA SameNetlist ==
  ASSUME netlist' = netlist
  PROVE  Gate' = Gate /\ inputs' = inputs /\ Listing' = Listing
BY DEF Gate, inputs, Listing

LEMMA LevelSourcesPreserves ==
  ASSUME IInv, LevelSources
  PROVE  IInv'
<1> USE DEF IInv, LevelSources
<1>1. Gate' = Gate /\ inputs' = inputs /\ Listing' = Listing
  BY SameNetlist
<1>2. TypeOK'
  <2>1. level' \in [Node -> Int]
    BY DEF TypeOK
  <2> QED BY <1>1, <2>1 DEF TypeOK, Phase
<1>3. Bounded'
  <2>1. PICK b \in Nat : \A n \in Node : level[n] <= b
    BY DEF Bounded
  <2>2. b + 1 \in Nat /\ \A n \in Node : level'[n] <= b + 1
    BY <2>1 DEF TypeOK
  <2> QED BY <2>2 DEF Bounded
<1>4. PassedAreAbove' /\ AllAreAbove' /\ WithinLimit' /\ SortedOrder' /\ PassedAreCovered' /\ CoversReady'
  BY DEF PassedAreAbove, AllAreAbove, WithinLimit, SortedOrder, PassedAreCovered, CoversReady, Settled
<1> QED BY <1>2, <1>3, <1>4

LEMMA UpdateLevelPreserves ==
  ASSUME IInv, UpdateLevel
  PROVE  IInv'
<1> DEFINE n == order[pos]
           l == NewLevel(n)
<1> USE DEF IInv
<1>1. Gate' = Gate /\ inputs' = inputs /\ Listing' = Listing
  BY SameNetlist DEF UpdateLevel
<1>2. PICK b \in Nat : \A m \in Node : level[m] <= b
  BY DEF Bounded
<1>3. /\ pos \in 1..Cardinality(Gate) /\ n \in Gate /\ n \in Node
      /\ Cardinality(Gate) \in Nat
  BY GateFacts DEF UpdateLevel
<1>4. l \in Int /\ l <= b + 1 /\ \A m \in inputs[n] : level[m] < l
  BY <1>2, <1>3, NewLevelIsAbove
<1>5. /\ level' = [level EXCEPT ![n] = l]
      /\ changed' = (changed \/ l # level[n])
      /\ loop_nodes' = IF l # level[n] /\ iterations = MaxIterations
                       THEN loop_nodes \cup {n} ELSE loop_nodes
      /\ phase = "levels" /\ phase' = "levels"
      /\ pos' = pos + 1 /\ order' = order /\ iterations' = iterations
  BY DEF UpdateLevel
<1> HIDE DEF n, l
<1>6. TypeOK'
  <2>1. level' \in [Node -> Int]
    BY <1>3, <1>4, <1>5 DEF TypeOK
  <2>2. loop_nodes' \in SUBSET Gate
    BY <1>3, <1>5 DEF TypeOK
  <2>3. pos' \in 1..(Cardinality(Gate) + 1) /\ changed' \in BOOLEAN
    BY <1>3, <1>5 DEF TypeOK
  <2> QED BY <1>1, <2>1, <2>2, <2>3 DEF TypeOK, UpdateLevel
<1>7. Bounded'
  <2>1. b + 1 \in Nat /\ \A m \in Node : level'[m] <= b + 1
    BY <1>2, <1>3, <1>4, <1>5 DEF TypeOK
  <2> QED BY <2>1 DEF Bounded
<1>8. PassedAreAbove'
  <2> SUFFICES ASSUME ~changed' \/ iterations = MaxIterations,
                      NEW i \in 1..pos, order[i] \notin loop_nodes',
                      NEW m \in inputs[order[i]], m \notin loop_nodes'
               PROVE  level'[m] < level'[order[i]]
    BY <1>1, <1>3, <1>5 DEF PassedAreAbove, Above, TypeOK
  <2>1. m \in Node /\ order[i] \in Node
    BY <1>3, GateFacts
  <2>2. CASE l # level[n]
    <3>1. iterations = MaxIterations /\ loop_nodes' = loop_nodes \cup {n}
      BY <1>5, <2>2
    <3>2. i # pos /\ m # n /\ order[i] # n
      BY <3>1 DEF n
    <3>3. level[m] < level[order[i]]
      BY <1>3, <1>5, <3>1, <3>2 DEF PassedAreAbove, Above
    <3> QED BY <1>5, <2>1, <3>2, <3>3 DEF TypeOK
  <2>3. CASE l = level[n]
    <3>1. level' = level /\ loop_nodes' = loop_nodes /\ changed' = changed
      BY <1>3, <1>5, <2>3 DEF TypeOK
    <3>2. CASE i = pos
      BY <1>4, <2>3, <3>1, <3>2 DEF n
    <3>3. CASE i # pos
      <4>1. i \in 1..(pos - 1)
        BY <1>3, <3>3
      <4> QED BY <1>5, <3>1, <4>1 DEF PassedAreAbove, Above
    <3> QED BY <3>2, <3>3
  <2> QED BY <2>2, <2>3
<1>9. AllAreAbove' /\ WithinLimit' /\ SortedOrder' /\ PassedAreCovered' /\ CoversReady'
  BY <1>5 DEF AllAreAbove, WithinLimit, SortedOrder, PassedAreCovered, CoversReady, Settled
<1> QED BY <1>6, <1>7, <1>8, <1>9

LEMMA EndWalkPreserves ==
  ASSUME IInv, EndWalk
  PROVE  IInv'
<1> USE DEF IInv, EndWalk
<1>1. Gate' = Gate /\ inputs' = inputs /\ Listing' = Listing
  BY SameNetlist
<1>2. iterations \in 0..MaxIterations /\ Cardinality(Gate) \in Nat
  BY GateFacts, MaxIterationsAssumption DEF TypeOK, WithinLimit
<1>3. TypeOK'
  <2>1. iterations' \in 0..(MaxIterations + 1)
    BY <1>2, MaxIterationsAssumption
  <2>2. pos' \in 1..(Cardinality(Gate) + 1) /\ changed' \in BOOLEAN /\ phase' \in Phase
    <3>1. (pos' = 1 \/ pos' = pos) /\ (changed' = FALSE \/ changed' = changed)
          /\ (phase' = "levels" \/ phase' = "sort")
      BY Zenon
    <3>2. pos' \in 1..(Cardinality(Gate) + 1)
      BY <1>2, <3>1 DEF TypeOK
    <3>3. changed' \in BOOLEAN /\ phase' \in Phase
      BY <3>1 DEF TypeOK, Phase
    <3> HIDE DEF EndWalk
    <3> QED BY <3>2, <3>3
  <2>3. IsNetlist(netlist)' /\ level' \in [Node -> Int] /\ loop_nodes' \in SUBSET Gate
        /\ order' \in Listing /\ covered' \in SUBSET Gate
    BY <1>1 DEF TypeOK, IsNetlist
  <2> HIDE DEF EndWalk
  <2> QED BY <1>1, <2>1, <2>2, <2>3 DEF TypeOK
<1>4. Bounded'
  BY DEF Bounded
<1>5. PassedAreAbove'
  BY DEF PassedAreAbove
<1>6. AllAreAbove'
  <2> SUFFICES ASSUME phase' = "sort", NEW g \in Gate \ loop_nodes PROVE Above(g)
    BY <1>1 DEF AllAreAbove, Above
  <2>1. ~changed \/ iterations = MaxIterations
    BY <1>2, MaxIterationsAssumption
  <2>2. PICK i \in 1..Cardinality(Gate) : order[i] = g
    BY DEF TypeOK, Listing
  <2>3. i \in 1..(pos - 1)
    BY <1>2
  <2> QED BY <2>1, <2>2, <2>3 DEF PassedAreAbove
<1>7. WithinLimit'
  BY <1>2 DEF WithinLimit
<1>8. SortedOrder' /\ PassedAreCovered' /\ CoversReady'
  BY DEF SortedOrder, PassedAreCovered, CoversReady, Settled
<1> QED BY <1>3, <1>4, <1>5, <1>6, <1>7, <1>8

LEMMA SortGatesPreserves ==
  ASSUME IInv, SortGates
  PROVE  IInv'
<1> USE DEF IInv, SortGates
<1>1. Gate' = Gate /\ inputs' = inputs /\ Listing' = Listing
  BY SameNetlist
<1>2. TypeOK'
  <2>1. pos' \in 1..(Cardinality(Gate) + 1) /\ order' \in Listing
    BY GateFacts
  <2> QED BY <1>1, <2>1 DEF TypeOK, Phase
<1>3. Bounded'
  BY DEF Bounded
<1>4. AllAreAbove'
  BY <1>1 DEF AllAreAbove, Above
<1>5. SortedOrder'
  BY DEF SortedOrder, SortedByLevel
<1>6. PassedAreAbove' /\ WithinLimit' /\ PassedAreCovered' /\ CoversReady'
  BY DEF PassedAreAbove, WithinLimit, PassedAreCovered, CoversReady, Settled
<1> QED BY <1>2, <1>3, <1>4, <1>5, <1>6

(* Sorting by level turns "above" into "after".                            *)
LEMMA AboveIsAfter ==
  ASSUME IInv, Settled, NEW i \in DOMAIN order, NEW j \in DOMAIN order,
         order[i] \notin loop_nodes, order[j] \notin loop_nodes,
         order[i] \in inputs[order[j]]
  PROVE  i < j
<1>1. order[i] \in Gate /\ order[j] \in Gate /\ i \in Int /\ j \in Int
      /\ Gate \subseteq Node
  BY GateFacts DEF IInv
<1>2. level[order[i]] < level[order[j]]
  BY <1>1 DEF IInv, AllAreAbove, Above, Settled
<1>3. level[order[i]] \in Int /\ level[order[j]] \in Int
  BY <1>1 DEF IInv, TypeOK
<1>4. j < i => level[order[j]] <= level[order[i]]
  BY DEF IInv, SortedOrder, SortedByLevel
<1> QED BY <1>1, <1>2, <1>3, <1>4

LEMMA CoverStepPreserves ==
  ASSUME IInv, CoverGate \/ PassOverGate \/ CoverTooEarly \/ EndCover
  PROVE  IInv'
<1> DEFINE Step == CoverGate \/ PassOverGate \/ CoverTooEarly \/ EndCover
<1> USE DEF IInv
<1>1. /\ netlist' = netlist /\ level' = level /\ iterations' = iterations
      /\ changed' = changed /\ loop_nodes' = loop_nodes /\ order' = order
      /\ phase = "cover" /\ phase' \in {"cover", "done", "undefined"}
  BY DEF CoverGate, PassOverGate, CoverTooEarly, EndCover
<1>2. Gate' = Gate /\ inputs' = inputs /\ Listing' = Listing
  BY <1>1, SameNetlist
<1>3. pos \in 1..(Cardinality(Gate) + 1) /\ Cardinality(Gate) \in Nat
      /\ DOMAIN order = 1..Cardinality(Gate) /\ \A i \in DOMAIN order : order[i] \in Gate
  BY GateFacts DEF TypeOK
<1>4. \/ /\ pos \in DOMAIN order /\ pos' = pos + 1
         /\ \/ covered' = covered \cup {order[pos]}
            \/ covered' = covered /\ order[pos] \in PassedOver
      \/ pos' = pos /\ covered' = covered
  BY DEF CoverGate, PassOverGate, CoverTooEarly, EndCover
<1>5. TypeOK'
  <2>1. pos' \in 1..(Cardinality(Gate) + 1)
    BY <1>3, <1>4
  <2>2. covered' \in SUBSET Gate
    BY <1>3, <1>4 DEF TypeOK
  <2>3. phase' \in Phase
    BY <1>1 DEF Phase
  <2> QED BY <1>1, <1>2, <2>1, <2>2, <2>3 DEF TypeOK
<1>6. Bounded' /\ SortedOrder' /\ AllAreAbove'
  BY <1>1, <1>2 DEF Bounded, SortedOrder, SortedByLevel, AllAreAbove, Above, Settled
<1>7. PassedAreAbove' /\ WithinLimit'
  BY <1>1 DEF PassedAreAbove, WithinLimit
<1>8. PassedAreCovered'
  <2> SUFFICES ASSUME NEW i \in 1..(pos' - 1)
               PROVE  order[i] \in covered' \cup PassedOver
    BY <1>1 DEF PassedAreCovered, PassedOver
  <2>1. CASE i = pos
    BY <1>3, <1>4, <2>1
  <2>2. CASE i # pos
    <3>1. i \in 1..(pos - 1)
      BY <1>3, <1>4, <2>2
    <3> QED BY <1>1, <1>4, <3>1 DEF PassedAreCovered, Settled
  <2> QED BY <2>1, <2>2
<1>9. CoversReady'
  <2>1. CASE CoverTooEarly
    <3> SUFFICES ASSUME loop_nodes = {} PROVE FALSE
      BY <1>1 DEF CoversReady
    <3>1. pos \in DOMAIN order
      BY <2>1 DEF CoverTooEarly
    <3>2. PICK m \in inputs[order[pos]] \cap Gate : m \notin covered
      BY <2>1 DEF CoverTooEarly, InputsReady
    <3>3. m \notin PassedOver
      <4>1. order[pos] \in Gate /\ order[pos] \notin netlist.aside
        BY <1>3, <2>1, <3>1 DEF CoverTooEarly, PassedOver
      <4> QED BY <3>2, <4>1 DEF TypeOK, IsNetlist, Gate, inputs, PassedOver
    <3>4. PICK i \in DOMAIN order : order[i] = m
      BY <3>2 DEF TypeOK, Listing
    <3>5. i < pos
      BY <1>1, <3>1, <3>2, <3>4, AboveIsAfter DEF Settled
    <3>6. i \in 1..(pos - 1)
      BY <1>3, <3>4, <3>5
    <3> QED BY <1>1, <3>2, <3>3, <3>4, <3>6 DEF PassedAreCovered, Settled
  <2>2. CASE ~CoverTooEarly
    <3>1. phase' # "undefined"
      BY <2>2 DEF CoverGate, PassOverGate, EndCover
    <3> QED BY <3>1 DEF CoversReady
  <2> QED BY <2>1, <2>2
<1> QED BY <1>5, <1>6, <1>7, <1>8, <1>9

LEMMA StutterPreserves ==
  ASSUME IInv, UNCHANGED vars
  PROVE  IInv'
<1>1. Gate' = Gate /\ inputs' = inputs /\ Listing' = Listing
  BY SameNetlist DEF vars
<1>2. TypeOK'
  BY <1>1 DEF IInv, TypeOK, vars
<1>3. Bounded' /\ PassedAreAbove' /\ AllAreAbove' /\ WithinLimit'
  BY <1>1 DEF IInv, Bounded, PassedAreAbove, AllAreAbove, Above, WithinLimit, vars
<1>4. SortedOrder' /\ PassedAreCovered' /\ CoversReady'
  BY DEF IInv, SortedOrder, SortedByLevel, PassedAreCovered, PassedOver, CoversReady, Settled, vars
<1> QED BY <1>2, <1>3, <1>4 DEF IInv

(* IInv holds in every reachable state.                                    *)
THEOREM IInvHolds == Spec => []IInv
<1>1. ASSUME IInv, [Next]_vars PROVE IInv'
  BY <1>1, LevelSourcesPreserves, UpdateLevelPreserves, EndWalkPreserves,
     SortGatesPreserves, CoverStepPreserves, StutterPreserves DEF Next
<1> QED BY <1>1, InitEstablishesIInv, PTL DEF Spec

-----------------------------------------------------------------------------
(* The sort and the cover walk keep all variables in range, whatever the   *)
(* netlist and maxTopoSortIterations.                                      *)
THEOREM TopoTypeCorrect == Spec => []TypeOK
BY IInvHolds, PTL DEF IInv

(* topo_sort leaves a topological order of the gates it did not mark, for  *)
(* every netlist, with combinational loops or not, and every limit.        *)
THEOREM SortIsTopological == Spec => []TopoOrder
<1>1. ASSUME IInv PROVE TopoOrder
  BY <1>1, AboveIsAfter DEF TopoOrder
<1> QED BY <1>1, IInvHolds, PTL

(* mark_loop takes a gate of every combinational loop: the gates it leaves *)
(* hold none, since of any set of them none reads the highest.             *)
THEOREM LoopsAreBroken == Spec => []LoopsBroken
<1>1. ASSUME IInv PROVE LoopsBroken
  <2> USE <1>1 DEF IInv
  <2> SUFFICES ASSUME Settled, NEW S \in SUBSET (Gate \ loop_nodes), S # {}
               PROVE  \E n \in S : \A m \in S : n \notin inputs[m]
    BY DEF LoopsBroken
  <2>1. S \subseteq Node /\ \A n \in S : level[n] \in Int
    BY GateFacts DEF TypeOK
  <2>2. PICK b \in Nat : \A n \in Node : level[n] <= b
    BY DEF Bounded
  <2> DEFINE L == {level[n] : n \in S}
  <2>3. L \in SUBSET Int /\ L # {} /\ \A x \in L : x <= b
    BY <2>1, <2>2
  <2>4. MaxOf(L) \in L /\ \A x \in L : x <= MaxOf(L)
    <3> HIDE DEF L
    <3> QED BY <2>3, MaxOfBounded
  <2>5. PICK n \in S : level[n] = MaxOf(L)
    BY <2>4
  <2>6. \A m \in S : level[m] <= level[n]
    BY <2>4, <2>5
  <2>7. ASSUME NEW m \in S, n \in inputs[m] PROVE FALSE
    <3>1. level[n] < level[m]
      BY <2>7 DEF AllAreAbove, Above, Settled
    <3> QED BY <2>1, <2>6, <3>1
  <2> QED BY <2>7
<1> QED BY <1>1, IInvHolds, PTL

(* If topo_sort marked no gate, kcover_analysis computes the covers of     *)
(* every gate after those of its inputs.                                   *)
THEOREM CoversAreReady == Spec => []CoversReady
BY IInvHolds, PTL DEF IInv
-----------------------------------------------------------------------------
(* The levels.  First, what the recursive functions of the reference are.  *)

Steps(f, V, x0, G, k) == f \in [0..k -> V] /\ f[0] = x0 /\ \A i \in 1..k : f[i] = G[f[i - 1]]

LEMMA StepsExist ==
  ASSUME NEW V, NEW x0 \in V, NEW G \in [V -> V], NEW k \in Nat
  PROVE  \E f : Steps(f, V, x0, G, k)
<1> DEFINE Solves(f, l) == f \in [0..l -> V] /\ f[0] = x0 /\ \A i \in 1..l : f[i] = G[f[i - 1]]
           T == {l \in Nat : ~\E f : Solves(f, l)}
<1> SUFFICES ASSUME T # {} PROVE FALSE
  BY DEF Steps
<1>1. PICK l \in T : \A y \in T : l <= y
  <2> HIDE DEF T
  <2>1. T \in SUBSET Nat
    BY DEF T
  <2> QED BY <2>1, LeastNat
<1>2. l # 0
  <2>1. Solves([i \in 0..0 |-> x0], 0)
    OBVIOUS
  <2> QED BY <2>1
<1>3. l - 1 \in Nat /\ l \in Nat /\ l - 1 \notin T
  <2>1. l \in Nat
    BY <1>1
  <2>2. l - 1 \in Nat /\ ~(l <= l - 1)
    BY <1>2, <2>1
  <2> HIDE DEF T
  <2> QED BY <1>1, <2>1, <2>2
<1>4. PICK f : Solves(f, l - 1)
  BY <1>3
<1> DEFINE g == [i \in 0..l |-> IF i = l THEN G[f[l - 1]] ELSE f[i]]
<1>5. g \in [0..l -> V]
  <2>1. f[l - 1] \in V /\ \A i \in 0..l : i # l => f[i] \in V
    BY <1>3, <1>4
  <2> QED BY <2>1
<1>6. g[0] = x0
  BY <1>2, <1>3, <1>4
<1>7. ASSUME NEW i \in 1..l PROVE g[i] = G[g[i - 1]]
  <2>1. i - 1 \in 0..l /\ i \in 0..l /\ i - 1 # l
    BY <1>3
  <2>2. g[i - 1] = f[i - 1]
    BY <2>1
  <2>3. CASE i = l
    BY <2>1, <2>2, <2>3
  <2>4. CASE i # l
    <3>1. i \in 1..(l - 1) /\ g[i] = f[i]
      BY <2>1, <2>4
    <3> QED BY <1>4, <2>2, <3>1
  <2> QED BY <2>3, <2>4
<1>8. Solves(g, l)
  <2> HIDE DEF g
  <2> QED BY <1>5, <1>6, <1>7
<1> QED BY <1>8 DEF Steps

(* What holds at the start and is kept by every step holds all along.      *)
LEMMA FirstBreach ==
  ASSUME NEW k \in Nat, NEW T \in SUBSET (0..k), T # {}, 0 \notin T
  PROVE  \E i \in 1..k : i \in T /\ i - 1 \in 0..k /\ i - 1 \notin T
<1>1. T \in SUBSET Nat
  OBVIOUS
<1>2. PICK i \in T : \A y \in T : i <= y
  BY <1>1, LeastNat
<1>3. i \in 1..k /\ i - 1 \in 0..k
  <2>1. i # 0 /\ i \in 0..k
    BY <1>2
  <2> QED BY <2>1
<1>4. i - 1 \notin T
  BY <1>2, <1>3
<1> QED BY <1>2, <1>3, <1>4

(* Cone(n) is the least set of gates that holds the gates n reads, and     *)
(* with every gate the gates it reads.                                     *)
Upward(S) == \A m \in S : inputs[m] \cap Gate \subseteq S

LEMMA ConeFacts ==
  ASSUME IsNetlist(netlist), NEW n \in Node
  PROVE  /\ Cone(n) \in SUBSET Gate /\ inputs[n] \cap Gate \subseteq Cone(n) /\ Upward(Cone(n))
         /\ \A S \in SUBSET Gate : inputs[n] \cap Gate \subseteq S /\ Upward(S) => Cone(n) \subseteq S
<1> DEFINE V == SUBSET Gate
           x0 == inputs[n] \cap Gate
           More(s) == s \cup UNION {inputs[m] \cap Gate : m \in s}
           G == [s \in V |-> More(s)]
           Solves(f) == f = [i \in 0..NumNodes |->
                              IF i = 0 THEN inputs[n] \cap Gate
                              ELSE f[i - 1] \cup UNION {inputs[m] \cap Gate : m \in f[i - 1]}]
           F == CHOOSE f : Solves(f)
<1>1. NumNodes \in Nat /\ NumNodes >= 1 /\ x0 \in V /\ G \in [V -> V] /\ \A s \in V : G[s] = More(s)
  BY NumNodesAssumption
<1>2. \E f : Solves(f) /\ f \in [0..NumNodes -> V]
  <2>1. PICK f : Steps(f, V, x0, G, NumNodes)
    <3> HIDE DEF V, x0, G, More
    <3> QED BY <1>1, StepsExist
  <2>2. \A i \in 1..NumNodes : f[i - 1] \in V /\ f[i] = More(f[i - 1])
    <3> TAKE i \in 1..NumNodes
    <3>1. i - 1 \in 0..NumNodes
      BY <1>1
    <3>2. f[i - 1] \in V
      BY <2>1, <3>1 DEF Steps
    <3> HIDE DEF G, V
    <3> QED BY <1>1, <2>1, <3>2 DEF Steps
  <2>3. \A i \in 0..NumNodes : f[i] = IF i = 0 THEN x0 ELSE More(f[i - 1])
    <3> HIDE DEF x0, More
    <3>1. \A i \in 0..NumNodes : i = 0 \/ i \in 1..NumNodes
      BY <1>1
    <3> QED BY <2>1, <2>2, <3>1 DEF Steps
  <2>4. f = [i \in 0..NumNodes |-> f[i]] /\ f \in [0..NumNodes -> V]
    BY <2>1 DEF Steps
  <2>5. Solves(f)
    BY <2>3, <2>4
  <2> QED BY <2>4, <2>5
<1>3. Solves(F)
  <2> HIDE DEF Solves
  <2> QED BY <1>2
<1>4. Cone(n) = F[NumNodes]
  BY DEF Cone
<1>5. F[0] = x0 /\ \A i \in 1..NumNodes : F[i] = More(F[i - 1])
  <2>1. \A i \in 0..NumNodes : F[i] = IF i = 0 THEN x0 ELSE More(F[i - 1])
    <3> HIDE DEF F
    <3> QED BY <1>3
  <2> HIDE DEF F, More
  <2> QED BY <1>1, <2>1
<1> HIDE DEF F
(* It stays inside what is closed, and grows.                              *)
<1>6. ASSUME NEW S \in SUBSET Gate, x0 \subseteq S, Upward(S), NEW k \in 0..NumNodes PROVE F[k] \subseteq S
  <2> DEFINE T == {i \in 0..NumNodes : ~(F[i] \subseteq S)}
  <2> SUFFICES ASSUME T # {} PROVE FALSE
    OBVIOUS
  <2>1. T \in SUBSET (0..NumNodes) /\ 0 \notin T
    BY <1>5, <1>6
  <2>2. PICK i \in 1..NumNodes : i \in T /\ i - 1 \in 0..NumNodes /\ i - 1 \notin T
    <3> HIDE DEF T
    <3> QED BY <1>1, <2>1, FirstBreach
  <2>3. F[i - 1] \subseteq S
    BY <2>2
  <2>4. F[i] = More(F[i - 1])
    BY <1>5, <2>2
  <2>5. More(F[i - 1]) \subseteq S
    BY <1>6, <2>3 DEF Upward
  <2> QED BY <2>2, <2>4, <2>5
<1>7. Upward(Gate)
  BY DEF Upward
<1>8. \A k \in 0..NumNodes : F[k] \in SUBSET Gate
  BY <1>6, <1>7
<1>9. \A i \in 1..NumNodes : F[i - 1] \subseteq F[i]
  BY <1>5
<1>10. \A i \in 1..NumNodes : F[i] = F[i - 1] => Upward(F[i])
  BY <1>5 DEF Upward
(* Before it is closed, every step adds a gate.                            *)
<1>11. IsFiniteSet(Gate) /\ Cardinality(Gate) \in Nat /\ Cardinality(Gate) <= NumNodes
  <2>1. IsFiniteSet(Node) /\ Cardinality(Node) = NumNodes /\ Gate \subseteq Node
    BY <1>1, FS_Interval DEF Node, Gate
  <2> QED BY <2>1, FS_Subset, FS_CardinalityType
<1>12. \A k \in 0..NumNodes : IsFiniteSet(F[k]) /\ Cardinality(F[k]) \in Nat /\ Cardinality(F[k]) <= NumNodes
  <2> TAKE k \in 0..NumNodes
  <2>1. F[k] \in SUBSET Gate
    BY <1>8
  <2>2. IsFiniteSet(F[k]) /\ Cardinality(F[k]) <= Cardinality(Gate)
    BY <1>11, <2>1, FS_Subset
  <2>3. Cardinality(F[k]) \in Nat
    BY <2>2, FS_CardinalityType
  <2> QED BY <1>1, <1>11, <2>2, <2>3
<1>13. ASSUME NEW k \in 0..NumNodes PROVE Upward(F[k]) \/ Cardinality(F[k]) >= k + 1
  <2> DEFINE T == {i \in 0..NumNodes : ~(Upward(F[i]) \/ Cardinality(F[i]) >= i + 1)}
  <2> SUFFICES ASSUME T # {} PROVE FALSE
    OBVIOUS
  <2>1. T \in SUBSET (0..NumNodes) /\ 0 \notin T
    <3>1. 0 \in 0..NumNodes
      BY <1>1
    <3>2. CASE F[0] = {}
      BY <3>2 DEF Upward
    <3>3. CASE F[0] # {}
      <4>1. Cardinality(F[0]) # 0 /\ Cardinality(F[0]) \in Nat
        BY <1>12, <3>1, <3>3, FS_EmptySet
      <4> QED BY <4>1
    <3> QED BY <3>2, <3>3
  <2>2. PICK i \in 1..NumNodes : i \in T /\ i - 1 \in 0..NumNodes /\ i - 1 \notin T
    <3> HIDE DEF T
    <3> QED BY <1>1, <2>1, FirstBreach
  <2>3. i \in 0..NumNodes /\ ~Upward(F[i]) /\ ~(Cardinality(F[i]) >= i + 1)
    BY <2>2
  <2>4. Upward(F[i - 1]) \/ Cardinality(F[i - 1]) >= i
    BY <2>2
  <2>5. F[i] # F[i - 1]
    BY <1>10, <2>3
  <2>6. ~Upward(F[i - 1])
    <3>1. Upward(F[i - 1]) => More(F[i - 1]) = F[i - 1]
      BY DEF Upward
    <3> QED BY <1>5, <2>5, <3>1
  <2>7. Cardinality(F[i - 1]) < Cardinality(F[i])
    <3>1. Cardinality(F[i - 1]) <= Cardinality(F[i]) /\ Cardinality(F[i - 1]) # Cardinality(F[i])
      BY <1>9, <1>12, <2>2, <2>3, <2>5, FS_Subset
    <3> QED BY <1>12, <2>2, <2>3, <3>1
  <2> QED BY <1>12, <2>2, <2>3, <2>4, <2>6, <2>7
<1>14. Upward(F[NumNodes])
  BY <1>1, <1>12, <1>13
<1>15. x0 \subseteq F[NumNodes]
  <2> DEFINE T == {i \in 0..NumNodes : ~(x0 \subseteq F[i])}
  <2> SUFFICES ASSUME T # {} PROVE FALSE
    BY <1>1
  <2>1. T \in SUBSET (0..NumNodes) /\ 0 \notin T
    BY <1>5
  <2>2. PICK i \in 1..NumNodes : i \in T /\ i - 1 \in 0..NumNodes /\ i - 1 \notin T
    <3> HIDE DEF T
    <3> QED BY <1>1, <2>1, FirstBreach
  <2>3. F[i - 1] \subseteq F[i]
    BY <1>9
  <2> QED BY <2>2, <2>3
<1> QED BY <1>1, <1>4, <1>6, <1>8, <1>14, <1>15

(* What is behind no loop reads only gates that are behind no loop, and    *)
(* that have fewer gates behind them.                                      *)
LEMMA BehindNoLoop ==
  ASSUME IsNetlist(netlist), NEW n \in Node, ~BehindLoop(n), NEW m \in inputs[n] \cap Gate
  PROVE  m \in Node /\ ~BehindLoop(m) /\ Cone(m) \cup {m} \subseteq Cone(n) /\ m \notin Cone(m)
<1>1. m \in Gate /\ m \in Node
  BY DEF Gate
<1>2. m \in Cone(n) /\ inputs[m] \cap Gate \subseteq Cone(n) /\ Cone(n) \in SUBSET Gate
  BY ConeFacts DEF Upward
<1>3. Cone(m) \subseteq Cone(n)
  BY <1>1, <1>2, ConeFacts
<1> QED BY <1>1, <1>2, <1>3 DEF BehindLoop, OnLoop

LEMMA ConeSize ==
  ASSUME IsNetlist(netlist), NEW n \in Node
  PROVE  /\ Cardinality(Cone(n)) \in Nat
         /\ ~BehindLoop(n) => /\ Cardinality(Cone(n)) + 1 <= NumNodes
                              /\ \A m \in inputs[n] \cap Gate : Cardinality(Cone(m)) + 1 <= Cardinality(Cone(n))
<1>1. IsFiniteSet(Node) /\ Cardinality(Node) = NumNodes /\ Gate \subseteq Node /\ NumNodes \in Nat
  BY NumNodesAssumption, FS_Interval DEF Node, Gate
<1>2. \A S \in SUBSET Node : IsFiniteSet(S) /\ Cardinality(S) \in Nat /\ Cardinality(S) <= NumNodes
  BY <1>1, FS_Subset, FS_CardinalityType
<1>3. \A S \in SUBSET Node : \A x \in Node \ S : Cardinality(S \cup {x}) = Cardinality(S) + 1
  BY <1>2, FS_AddElement
<1>4. \A m \in Node : Cone(m) \in SUBSET Node
  BY <1>1, ConeFacts
<1>5. ASSUME ~BehindLoop(n) PROVE Cardinality(Cone(n)) + 1 <= NumNodes
  <2>1. n \notin Cone(n)
    BY <1>5 DEF BehindLoop, OnLoop
  <2>2. Cone(n) \cup {n} \in SUBSET Node
    BY <1>4
  <2> QED BY <1>2, <1>3, <1>4, <2>1, <2>2
<1>6. ASSUME ~BehindLoop(n), NEW m \in inputs[n] \cap Gate
      PROVE  Cardinality(Cone(m)) + 1 <= Cardinality(Cone(n))
  <2>1. m \in Node /\ Cone(m) \cup {m} \subseteq Cone(n) /\ m \notin Cone(m)
    BY <1>6, BehindNoLoop
  <2>2. Cardinality(Cone(m) \cup {m}) <= Cardinality(Cone(n))
    BY <1>2, <1>4, <2>1, FS_Subset
  <2> QED BY <1>3, <1>4, <2>1, <2>2
<1> QED BY <1>2, <1>4, <1>5, <1>6

(* The depths, step by step.                                               *)
Deeper(d) ==
  [n \in Node |-> IF netlist.kind[n] = "source" THEN 0
                 ELSE IF netlist.kind[n] = "macro_out" THEN 1
                 ELSE MaxOf({d[m] : m \in inputs[n]} \cup {0}) + 1]
Shallow == [n \in Node |-> IF netlist.kind[n] = "source" THEN 0 ELSE 1]

LEMMA BoundedOnNodes ==
  ASSUME NEW d \in [Node -> Nat]
  PROVE  \E b \in Nat : \A n \in Node : d[n] <= b
<1> DEFINE Bounds(b, k) == \A n \in 1..k : d[n] <= b
           T == {k \in 0..NumNodes : ~\E b \in Nat : Bounds(b, k)}
<1>1. NumNodes \in Nat /\ NumNodes \in 0..NumNodes /\ Node = 1..NumNodes
  BY NumNodesAssumption DEF Node
<1>0. SUFFICES ASSUME T # {} PROVE FALSE
  <2>1. NumNodes \notin T => \E b \in Nat : Bounds(b, NumNodes)
    <3> HIDE DEF Bounds
    <3> QED BY <1>1
  <2> QED BY <1>1, <2>1
<1>2. T \in SUBSET (0..NumNodes) /\ 0 \notin T
  OBVIOUS
<1>3. PICK k \in 1..NumNodes : k \in T /\ k - 1 \in 0..NumNodes /\ k - 1 \notin T
  <2> HIDE DEF T
  <2> QED BY <1>0, <1>1, <1>2, FirstBreach
<1>4. PICK b \in Nat : Bounds(b, k - 1)
  <2> HIDE DEF Bounds
  <2> QED BY <1>3
<1>5. \A n \in 1..k : n \in Node /\ (n = k \/ n \in 1..(k - 1))
  BY <1>1
<1>6. d[k] \in Nat /\ \A n \in 1..k : d[n] \in Nat
  BY <1>1, <1>5
<1>7. b + d[k] \in Nat /\ Bounds(b + d[k], k)
  BY <1>4, <1>5, <1>6
<1> QED BY <1>3, <1>7

LEMMA DeeperIsAbove ==
  ASSUME IsNetlist(netlist), NEW d \in [Node -> Nat]
  PROVE  /\ Deeper(d) \in [Node -> Nat]
         /\ \A n \in Gate : Deeper(d)[n] >= 1
         /\ \A n \in Gate : \A m \in inputs[n] : d[m] < Deeper(d)[n]
<1> DEFINE M(n) == {d[m] : m \in inputs[n]} \cup {0}
<1>1. PICK b \in Nat : \A n \in Node : d[n] <= b
  BY BoundedOnNodes
<1>2. ASSUME NEW n \in Node
      PROVE  MaxOf(M(n)) \in Nat /\ \A x \in M(n) : x <= MaxOf(M(n))
  <2> DEFINE S == M(n)
  <2>1. inputs[n] \subseteq Node
    BY DEF IsNetlist, inputs
  <2>2. S \in SUBSET Nat /\ S # {} /\ \A x \in S : x <= b
    BY <1>1, <2>1
  <2>3. S \in SUBSET Int /\ b \in Int
    BY <2>2
  <2> HIDE DEF M, S
  <2>4. MaxOf(S) \in S /\ \A x \in S : x <= MaxOf(S)
    BY <2>2, <2>3, MaxOfBounded
  <2> QED BY <2>2, <2>4 DEF S
<1>3. Deeper(d) \in [Node -> Nat]
  <2>1. \A n \in Node : MaxOf(M(n)) + 1 \in Nat
    BY <1>2
  <2> QED BY <2>1 DEF Deeper
<1>4. ASSUME NEW n \in Gate, NEW m \in inputs[n] PROVE d[m] < Deeper(d)[n]
  <2>1. n \in Node /\ m \in Node /\ netlist.kind[n] = "gate"
    BY DEF Gate, IsNetlist, inputs
  <2>2. Deeper(d)[n] = MaxOf(M(n)) + 1
    BY <2>1 DEF Deeper
  <2>3. d[m] \in M(n) /\ d[m] \in Nat
    BY <2>1
  <2>4. d[m] <= MaxOf(M(n)) /\ MaxOf(M(n)) \in Nat
    <3> HIDE DEF M
    <3> QED BY <1>2, <2>1, <2>3
  <2> QED BY <2>2, <2>3, <2>4
<1>5. ASSUME NEW n \in Gate PROVE Deeper(d)[n] >= 1
  <2>1. n \in Node /\ netlist.kind[n] = "gate"
    BY DEF Gate
  <2>2. Deeper(d)[n] = MaxOf(M(n)) + 1
    BY <2>1 DEF Deeper
  <2>3. 0 \in M(n)
    OBVIOUS
  <2>4. 0 <= MaxOf(M(n)) /\ MaxOf(M(n)) \in Nat
    <3> HIDE DEF M
    <3> QED BY <1>2, <2>1, <2>3
  <2> QED BY <2>2, <2>4
<1> QED BY <1>3, <1>4, <1>5

LEMMA DepthSteps ==
  ASSUME IsNetlist(netlist)
  PROVE  \E D \in [0..NumNodes -> [Node -> Nat]] :
           /\ Depth = D[NumNodes] /\ D[0] = Shallow
           /\ \A i \in 1..NumNodes : D[i] = Deeper(D[i - 1])
<1> DEFINE V == [Node -> Nat]
           G == [d \in V |-> Deeper(d)]
           Rule(f, i) == [n \in Node |->
                           IF netlist.kind[n] = "source" THEN 0
                           ELSE IF netlist.kind[n] = "macro_out" \/ i = 0 THEN 1
                           ELSE MaxOf({f[i - 1][m] : m \in inputs[n]} \cup {0}) + 1]
           Solves(f) == f = [i \in 0..NumNodes |-> Rule(f, i)]
           D == CHOOSE f : Solves(f)
<1>1. NumNodes \in Nat /\ Shallow \in V /\ G \in [V -> V] /\ \A d \in V : G[d] = Deeper(d)
  BY NumNodesAssumption, DeeperIsAbove DEF Shallow
<1>2. \A f : Rule(f, 0) = Shallow
  BY DEF Shallow
<1>3. \A f : \A i \in 1..NumNodes : Rule(f, i) = Deeper(f[i - 1])
  BY DEF Deeper
<1>4. \E f : Solves(f)
  <2>1. PICK f : Steps(f, V, Shallow, G, NumNodes)
    <3> HIDE DEF V, G
    <3> QED BY <1>1, StepsExist
  <2>2. \A i \in 1..NumNodes : f[i] = Deeper(f[i - 1])
    <3> TAKE i \in 1..NumNodes
    <3>1. i - 1 \in 0..NumNodes
      BY <1>1
    <3>2. f[i - 1] \in V
      BY <2>1, <3>1 DEF Steps
    <3> HIDE DEF G, V
    <3> QED BY <1>1, <2>1, <3>2 DEF Steps
  <2>3. f[0] = Shallow /\ f = [i \in 0..NumNodes |-> f[i]]
    BY <2>1 DEF Steps
  <2>4. \A i \in 0..NumNodes : f[i] = Rule(f, i)
    <3> HIDE DEF Rule
    <3>1. \A i \in 0..NumNodes : i = 0 \/ i \in 1..NumNodes
      BY <1>1
    <3> QED BY <1>2, <1>3, <2>2, <2>3, <3>1
  <2>5. Solves(f)
    <3> HIDE DEF Rule
    <3> QED BY <2>3, <2>4
  <2> QED BY <2>5
<1>5. Solves(D)
  <2> HIDE DEF Solves
  <2> QED BY <1>4
<1>6. Depth = D[NumNodes]
  BY DEF Depth
<1> HIDE DEF D
<1>7. D[0] = Shallow /\ \A i \in 1..NumNodes : D[i] = Deeper(D[i - 1])
  <2>1. \A i \in 0..NumNodes : D[i] = Rule(D, i)
    <3> HIDE DEF Rule
    <3> QED BY <1>5
  <2> HIDE DEF Rule
  <2>2. 0 \in 0..NumNodes /\ \A i \in 1..NumNodes : i \in 0..NumNodes
    BY <1>1
  <2> QED BY <1>2, <1>3, <2>1, <2>2
<1>8. \A i \in 0..NumNodes : D[i] \in V
  <2> DEFINE T == {i \in 0..NumNodes : D[i] \notin V}
  <2> SUFFICES ASSUME T # {} PROVE FALSE
    OBVIOUS
  <2>1. T \in SUBSET (0..NumNodes) /\ 0 \notin T
    <3> HIDE DEF V
    <3> QED BY <1>1, <1>7
  <2>2. PICK i \in 1..NumNodes : i \in T /\ i - 1 \in 0..NumNodes /\ i - 1 \notin T
    <3> HIDE DEF T
    <3> QED BY <1>1, <2>1, FirstBreach
  <2>3. D[i - 1] \in V /\ D[i] \notin V
    BY <2>2
  <2>4. Deeper(D[i - 1]) \in V
    BY <2>3, DeeperIsAbove
  <2> QED BY <1>7, <2>2, <2>3, <2>4
<1>9. D \in [0..NumNodes -> V]
  <2>1. D = [i \in 0..NumNodes |-> D[i]]
    <3>1. D = [i \in 0..NumNodes |-> Rule(D, i)]
      BY <1>5
    <3> HIDE DEF Rule
    <3> QED BY <3>1
  <2> HIDE DEF V
  <2> QED BY <1>8, <2>1
<1> QED BY <1>6, <1>7, <1>9

(* The depths of what is behind no loop have settled: one more step does   *)
(* not change them.                                                        *)
LEMMA DepthFacts ==
  ASSUME IsNetlist(netlist)
  PROVE  /\ Depth \in [Node -> Nat]
         /\ \A n \in Node \ Gate : Depth[n] = Shallow[n]
         /\ \A n \in Gate : Depth[n] >= 1
         /\ \A n \in Gate : ~BehindLoop(n) => Depth[n] = Deeper(Depth)[n]
         /\ \A n \in Gate : ~BehindLoop(n) => \A m \in inputs[n] : Depth[m] < Depth[n]
<1> DEFINE Size(n) == Cardinality(Cone(n))
<1>1. PICK D \in [0..NumNodes -> [Node -> Nat]] :
           /\ Depth = D[NumNodes] /\ D[0] = Shallow
           /\ \A i \in 1..NumNodes : D[i] = Deeper(D[i - 1])
  BY DepthSteps
<1>2. NumNodes \in Nat /\ NumNodes >= 1 /\ Gate \subseteq Node
      /\ \A n \in Node : inputs[n] \subseteq Node
  BY NumNodesAssumption DEF Gate, IsNetlist, inputs
<1>3. \A i \in 1..NumNodes : i - 1 \in 0..NumNodes /\ i \in 0..NumNodes /\ D[i - 1] \in [Node -> Nat]
  <2>1. \A i \in 1..NumNodes : i - 1 \in 0..NumNodes /\ i \in 0..NumNodes
    BY <1>2
  <2> QED BY <2>1
<1>4. Depth \in [Node -> Nat] /\ NumNodes \in 1..NumNodes
  BY <1>1, <1>2
<1>5. ASSUME NEW i \in 0..NumNodes, NEW n \in Node \ Gate PROVE D[i][n] = Shallow[n]
  <2>1. netlist.kind[n] \in {"source", "macro_out"}
    BY DEF Gate, IsNetlist, Kind
  <2>2. \A d : Deeper(d)[n] = Shallow[n]
    BY <2>1 DEF Deeper, Shallow
  <2>3. CASE i = 0
    BY <1>1, <2>3
  <2>4. CASE i # 0
    <3>1. i \in 1..NumNodes
      BY <1>2, <2>4
    <3> QED BY <1>1, <2>2, <3>1
  <2> QED BY <2>3, <2>4
<1>6. ASSUME NEW d \in [Node -> Nat], NEW e \in [Node -> Nat], NEW n \in Gate,
             \A m \in inputs[n] : d[m] = e[m]
      PROVE  Deeper(d)[n] = Deeper(e)[n]
  <2>1. {d[m] : m \in inputs[n]} = {e[m] : m \in inputs[n]}
    BY <1>6
  <2> QED BY <1>2, <2>1 DEF Deeper
<1>7. \A n \in Node : Size(n) \in Nat
  BY ConeSize
<1> DEFINE Settles(n) == \A i \in 0..NumNodes : i >= Size(n) + 1 => D[i][n] = Depth[n]
           Bad == {n \in Gate : ~BehindLoop(n) /\ ~Settles(n)}
(* Before n settles, all that it reads has.                                *)
<1>8. ASSUME NEW n \in Gate, ~BehindLoop(n), NEW i \in 1..NumNodes, i >= Size(n) + 1,
             \A m \in inputs[n] \cap Gate : Settles(m)
      PROVE  D[i][n] = Deeper(Depth)[n]
  <2>1. ASSUME NEW m \in inputs[n] PROVE D[i - 1][m] = Depth[m]
    <3>1. m \in Node /\ NumNodes \in 0..NumNodes
      BY <1>2
    <3>2. CASE m \notin Gate
      BY <1>1, <1>3, <1>5, <3>1, <3>2
    <3>3. CASE m \in Gate
      <4>1. Size(m) + 1 <= Size(n) /\ Size(m) \in Nat /\ Size(n) \in Nat
        BY <1>2, <1>7, <1>8, <3>1, <3>3, ConeSize
      <4> HIDE DEF Size
      <4>2. i - 1 >= Size(m) + 1
        BY <1>8, <4>1
      <4> QED BY <1>3, <1>8, <3>3, <4>2
    <3> QED BY <3>2, <3>3
  <2>2. D[i] = Deeper(D[i - 1]) /\ D[i - 1] \in [Node -> Nat]
    BY <1>1, <1>3
  <2> QED BY <1>4, <1>6, <2>1, <2>2
<1>9. \A n \in Gate : ~BehindLoop(n) => NumNodes >= Size(n) + 1
  BY <1>2, ConeSize
<1>10. Bad = {}
  <2> SUFFICES ASSUME Bad # {} PROVE FALSE
    OBVIOUS
  <2> DEFINE T == {Size(n) : n \in Bad}
  <2>1. T \in SUBSET Nat /\ T # {}
    BY <1>2, <1>7
  <2>2. PICK c \in T : \A y \in T : c <= y
    <3> HIDE DEF T
    <3> QED BY <2>1, LeastNat
  <2>3. PICK n \in Bad : c = Size(n)
    BY <2>2
  <2>4. \A m \in Bad : Size(n) <= Size(m)
    BY <2>2, <2>3
  <2>5. n \in Gate /\ n \in Node /\ ~BehindLoop(n) /\ ~Settles(n)
    BY <1>2, <2>3
  <2>6. ASSUME NEW m \in inputs[n] \cap Gate PROVE Settles(m)
    <3>1. m \in Gate /\ m \in Node /\ ~BehindLoop(m)
      BY <1>2, <2>5, BehindNoLoop
    <3>2. Size(m) + 1 <= Size(n) /\ Size(m) \in Nat /\ Size(n) \in Nat
      BY <1>7, <2>5, <2>6, <3>1, ConeSize
    <3> HIDE DEF Size
    <3>3. ~(Size(n) <= Size(m))
      BY <3>2
    <3> HIDE DEF Settles
    <3> QED BY <2>4, <3>1, <3>3
  <2>7. PICK i \in 0..NumNodes : i >= Size(n) + 1 /\ D[i][n] # Depth[n]
    BY <2>5
  <2>8. i \in 1..NumNodes
    <3>1. Size(n) \in Nat
      BY <1>7, <2>5
    <3> HIDE DEF Size
    <3> QED BY <2>7, <3>1
  <2> HIDE DEF Settles, Size
  <2>9. D[i][n] = Deeper(Depth)[n]
    BY <1>8, <2>5, <2>6, <2>7, <2>8
  <2>10. D[NumNodes][n] = Deeper(Depth)[n]
    BY <1>4, <1>8, <1>9, <2>5, <2>6
  <2> QED BY <1>1, <2>7, <2>9, <2>10
<1>11. ASSUME NEW n \in Gate, ~BehindLoop(n) PROVE Depth[n] = Deeper(Depth)[n]
  <2>1. \A m \in inputs[n] \cap Gate : ~BehindLoop(m) /\ m \in Gate
    BY <1>2, <1>11, BehindNoLoop
  <2>2. \A m \in inputs[n] \cap Gate : Settles(m)
    BY <1>10, <2>1
  <2> HIDE DEF Settles, Size
  <2> QED BY <1>1, <1>4, <1>8, <1>9, <1>11, <2>2
<1>12. ASSUME NEW n \in Gate PROVE Depth[n] >= 1
  <2>1. D[NumNodes - 1] \in [Node -> Nat] /\ Depth = Deeper(D[NumNodes - 1])
    BY <1>1, <1>3, <1>4
  <2> QED BY <2>1, DeeperIsAbove
<1>13. ASSUME NEW n \in Gate, ~BehindLoop(n), NEW m \in inputs[n] PROVE Depth[m] < Depth[n]
  BY <1>4, <1>11, <1>13, DeeperIsAbove
<1>14. \A n \in Node \ Gate : Depth[n] = Shallow[n]
  <2>1. NumNodes \in 0..NumNodes
    BY <1>2
  <2> QED BY <1>1, <1>5, <2>1
<1> QED BY <1>4, <1>11, <1>12, <1>13, <1>14

LEMMA SameDepths ==
  ASSUME netlist' = netlist
  PROVE  /\ Depth' = Depth
         /\ \A n : Cone(n)' = Cone(n)
         /\ \A n : BehindLoop(n)' <=> BehindLoop(n)
BY DEF Depth, Cone, Gate, inputs, BehindLoop, OnLoop

-----------------------------------------------------------------------------
(* The invariant of the levels.  After k walks every gate whose depth is   *)
(* at most k, and that is behind no loop, has its depth for a level, and   *)
(* the running walk leaves the gates one deeper with theirs.  The walk     *)
(* that marks moves none of them, and a walk that moves nothing has found  *)
(* a fixpoint, of which there is one.                                      *)

Free(n) == ~BehindLoop(n)
Exact(n) == level[n] = Depth[n]

SourcesExact ==
  phase = "sources" \/ \A n \in Node \ Gate : Exact(n)

ShallowExact ==
  phase = "levels" =>
    \A n \in Gate : Free(n) /\ Depth[n] <= iterations => Exact(n)

PassedExact ==
  phase = "levels" =>
    \A i \in 1..(pos - 1) :
      Free(order[i]) /\ Depth[order[i]] <= iterations + 1 => Exact(order[i])

Unmoved ==
  (phase = "levels" /\ ~changed) =>
    \A i \in 1..(pos - 1) : level[order[i]] = NewLevel(order[i])

FreeUnmarked ==
  (phase = "sources" => iterations = 0 /\ loop_nodes = {} /\ pos = 1)
  /\ (LimitSuffices => \A n \in Gate : Free(n) => n \notin loop_nodes)

FreeExact ==
  (phase \notin {"sources", "levels"} /\ LimitSuffices) =>
    \A n \in Gate : Free(n) => Exact(n)

LevelsInv ==
  SourcesExact /\ ShallowExact /\ PassedExact /\ Unmoved /\ FreeUnmarked /\ FreeExact

(* A gate whose inputs have their depths gets its own.                     *)
LEMMA ExactStep ==
  ASSUME IsNetlist(netlist), NEW n \in Gate, Free(n), \A m \in inputs[n] : Exact(m)
  PROVE  NewLevel(n) = Depth[n]
<1>1. n \in Node /\ netlist.kind[n] = "gate"
  BY DEF Gate
<1>2. Depth[n] = Deeper(Depth)[n]
  BY DepthFacts DEF Free
<1>3. Deeper(Depth)[n] = MaxOf({Depth[m] : m \in inputs[n]} \cup {0}) + 1
  BY <1>1 DEF Deeper
<1>4. {Depth[m] : m \in inputs[n]} = {level[m] : m \in inputs[n]}
  BY DEF Exact
<1> QED BY <1>2, <1>3, <1>4 DEF NewLevel

(* What a gate reads has its depth once all that is less deep has.         *)
LEMMA InputsExact ==
  ASSUME IInv, LevelsInv, phase = "levels", NEW n \in Gate, Free(n), Depth[n] <= iterations + 1
  PROVE  \A m \in inputs[n] : Exact(m)
<1>1. IsNetlist(netlist) /\ iterations \in Nat /\ n \in Node /\ inputs[n] \subseteq Node
  BY GateFacts, MaxIterationsAssumption DEF IInv, TypeOK
<1> SUFFICES ASSUME NEW m \in inputs[n] PROVE Exact(m)
  OBVIOUS
<1>2. CASE m \notin Gate
  BY <1>1, <1>2 DEF LevelsInv, SourcesExact
<1>3. CASE m \in Gate
  <2>1. Free(m)
    BY <1>1, <1>3, BehindNoLoop DEF Free
  <2>2. Depth[m] < Depth[n] /\ Depth[m] \in Nat /\ Depth[n] \in Nat
    BY <1>1, DepthFacts DEF Free
  <2>3. Depth[m] <= iterations
    BY <1>1, <2>2
  <2> QED BY <1>3, <2>1, <2>3 DEF LevelsInv, ShallowExact
<1> QED BY <1>2, <1>3

LEMMA SameFree ==
  ASSUME netlist' = netlist
  PROVE  /\ Gate' = Gate /\ inputs' = inputs /\ Depth' = Depth
         /\ \A n : Free(n)' <=> Free(n)
         /\ LimitSuffices' <=> LimitSuffices
<1>1. Gate' = Gate /\ inputs' = inputs /\ Depth' = Depth /\ \A n : BehindLoop(n)' <=> BehindLoop(n)
  BY SameNetlist, SameDepths
<1> QED BY <1>1 DEF Free, LimitSuffices

LEMMA InitEstablishesLevelsInv == Init => LevelsInv
BY DEF Init, LevelsInv, SourcesExact, ShallowExact, PassedExact, Unmoved, FreeUnmarked, FreeExact

LEMMA LevelSourcesKeepsLevels ==
  ASSUME IInv, LevelsInv, LevelSources
  PROVE  LevelsInv'
<1>1. /\ Gate' = Gate /\ inputs' = inputs /\ Depth' = Depth
      /\ \A n : Free(n)' <=> Free(n)
      /\ LimitSuffices' <=> LimitSuffices
  BY SameFree DEF LevelSources
<1>2. /\ phase = "sources" /\ phase' = "levels" /\ loop_nodes' = loop_nodes
      /\ iterations' = 0 /\ pos' = 1
  BY DEF LevelSources, LevelsInv, FreeUnmarked
<1>3. IsNetlist(netlist)
  BY DEF IInv, TypeOK
<1>4. SourcesExact'
  <2> SUFFICES ASSUME NEW n \in Node \ Gate PROVE level'[n] = Depth[n]
    BY <1>1 DEF SourcesExact, Exact
  <2>1. netlist.kind[n] \in {"source", "macro_out"}
    BY <1>3 DEF Gate, IsNetlist, Kind
  <2>2. level'[n] = IF netlist.kind[n] = "source" THEN 0 ELSE 1
    BY <2>1 DEF LevelSources
  <2>3. Depth[n] = Shallow[n]
    BY <1>3, DepthFacts
  <2> QED BY <2>2, <2>3 DEF Shallow
<1>5. ShallowExact'
  <2>1. ASSUME NEW n \in Gate PROVE ~(Depth[n] <= 0)
    <3>1. Depth[n] >= 1 /\ Depth[n] \in Nat
      BY <1>3, DepthFacts DEF Gate
    <3> QED BY <3>1
  <2> QED BY <1>1, <1>2, <2>1 DEF ShallowExact
<1>6. PassedExact' /\ Unmoved' /\ FreeExact'
  BY <1>2 DEF PassedExact, Unmoved, FreeExact
<1>7. FreeUnmarked'
  BY <1>1, <1>2 DEF FreeUnmarked, LevelsInv
<1> QED BY <1>4, <1>5, <1>6, <1>7 DEF LevelsInv

LEMMA UpdateLevelKeepsLevels ==
  ASSUME IInv, LevelsInv, UpdateLevel
  PROVE  LevelsInv'
<1> DEFINE n == order[pos]
           l == NewLevel(n)
<1>1. /\ Gate' = Gate /\ inputs' = inputs /\ Depth' = Depth
      /\ \A m : Free(m)' <=> Free(m)
      /\ LimitSuffices' <=> LimitSuffices
  BY SameFree DEF UpdateLevel
<1>2. /\ IsNetlist(netlist) /\ pos \in 1..Cardinality(Gate) /\ n \in Gate /\ n \in Node
      /\ Cardinality(Gate) \in Nat /\ Gate \subseteq Node /\ DOMAIN level = Node
      /\ iterations \in Nat /\ \A m \in Node : Depth[m] \in Nat
      /\ \A i \in 1..(pos - 1) : order[i] \in Gate
  <2>1. /\ IsNetlist(netlist) /\ pos \in 1..Cardinality(Gate) /\ n \in Gate /\ n \in Node
        /\ Cardinality(Gate) \in Nat /\ Gate \subseteq Node /\ DOMAIN level = Node
    BY GateFacts DEF UpdateLevel, IInv, TypeOK
  <2>2. iterations \in Nat /\ \A m \in Node : Depth[m] \in Nat
    BY <2>1, DepthFacts, MaxIterationsAssumption DEF IInv, TypeOK
  <2>3. \A i \in 1..(pos - 1) : order[i] \in Gate
    <3>1. \A i \in 1..(pos - 1) : i \in 1..Cardinality(Gate)
      BY <2>1
    <3> QED BY <3>1, GateFacts DEF IInv
  <2> QED BY <2>1, <2>2, <2>3
<1>3. /\ level' = [level EXCEPT ![n] = l]
      /\ changed' = (changed \/ l # level[n])
      /\ loop_nodes' = IF l # level[n] /\ iterations = MaxIterations
                       THEN loop_nodes \cup {n} ELSE loop_nodes
      /\ phase = "levels" /\ phase' = "levels"
      /\ pos' = pos + 1 /\ order' = order /\ iterations' = iterations
  BY DEF UpdateLevel
<1>4. Free(n) /\ Depth[n] <= iterations + 1 => l = Depth[n]
  BY <1>2, <1>3, ExactStep, InputsExact
<1> HIDE DEF n, l
<1>5. level'[n] = l /\ \A m \in Node : m # n => level'[m] = level[m]
  BY <1>2, <1>3
<1>6. SourcesExact'
  BY <1>1, <1>2, <1>3, <1>5 DEF SourcesExact, Exact, LevelsInv
<1>7. ShallowExact'
  <2> SUFFICES ASSUME NEW m \in Gate, Free(m), Depth[m] <= iterations PROVE level'[m] = Depth[m]
    BY <1>1, <1>3 DEF ShallowExact, Exact
  <2>1. CASE m = n
    <3>1. Depth[m] <= iterations + 1
      BY <1>2
    <3> QED BY <1>4, <1>5, <2>1, <3>1
  <2>2. CASE m # n
    BY <1>2, <1>3, <1>5, <2>2 DEF LevelsInv, ShallowExact, Exact
  <2> QED BY <2>1, <2>2
<1>8. PassedExact'
  <2> SUFFICES ASSUME NEW i \in 1..pos, Free(order[i]), Depth[order[i]] <= iterations + 1
               PROVE  level'[order[i]] = Depth[order[i]]
    BY <1>1, <1>2, <1>3 DEF PassedExact, Exact
  <2>1. CASE order[i] = n
    BY <1>4, <1>5, <2>1
  <2>2. CASE order[i] # n
    <3>1. i \in 1..(pos - 1)
      BY <1>2, <2>2 DEF n
    <3>2. order[i] \in Node /\ level[order[i]] = Depth[order[i]]
      BY <1>2, <1>3, <3>1 DEF LevelsInv, PassedExact, Exact
    <3> QED BY <1>5, <2>2, <3>2
  <2> QED BY <2>1, <2>2
<1>9. Unmoved'
  <2> SUFFICES ASSUME ~changed' PROVE \A i \in 1..pos : level'[order[i]] = NewLevel(order[i])'
    BY <1>2, <1>3 DEF Unmoved
  <2>1. l = level[n] /\ ~changed
    BY <1>3
  <2>2. level' = level
    BY <1>2, <1>3, <2>1 DEF IInv, TypeOK
  <2>3. \A m : NewLevel(m)' = NewLevel(m)
    BY <1>1, <2>2 DEF NewLevel
  <2> SUFFICES ASSUME NEW i \in 1..pos PROVE level[order[i]] = NewLevel(order[i])
    BY <1>3, <2>2, <2>3
  <2>4. CASE i = pos
    BY <2>1, <2>4 DEF n, l
  <2>5. CASE i # pos
    <3>1. i \in 1..(pos - 1)
      BY <1>2, <2>5
    <3> QED BY <1>3, <2>1, <3>1 DEF LevelsInv, Unmoved
  <2> QED BY <2>4, <2>5
<1>10. FreeUnmarked'
  <2> SUFFICES ASSUME LimitSuffices, NEW m \in Gate, Free(m) PROVE m \notin loop_nodes'
    BY <1>1, <1>3 DEF FreeUnmarked
  <2>1. m \notin loop_nodes
    BY DEF LevelsInv, FreeUnmarked
  <2>2. ASSUME m = n, l # level[n], iterations = MaxIterations PROVE FALSE
    <3>1. Depth[m] <= iterations
      BY <2>2 DEF LimitSuffices, Free
    <3>2. Depth[m] <= iterations + 1
      BY <1>2, <3>1
    <3>3. l = Depth[m]
      BY <1>4, <2>2, <3>2
    <3>4. level[m] = Depth[m]
      BY <1>3, <3>1 DEF LevelsInv, ShallowExact, Exact
    <3> QED BY <2>2, <3>3, <3>4
  <2> QED BY <1>3, <2>1, <2>2
<1>11. FreeExact'
  BY <1>3 DEF FreeExact
<1> QED BY <1>6, <1>7, <1>8, <1>9, <1>10, <1>11 DEF LevelsInv

LEMMA EndWalkKeepsLevels ==
  ASSUME IInv, LevelsInv, EndWalk
  PROVE  LevelsInv'
<1>1. /\ Gate' = Gate /\ inputs' = inputs /\ Depth' = Depth
      /\ \A m : Free(m)' <=> Free(m)
      /\ LimitSuffices' <=> LimitSuffices
  BY SameFree DEF EndWalk
<1>2. /\ IsNetlist(netlist) /\ Cardinality(Gate) \in Nat /\ Gate \subseteq Node
      /\ iterations \in Nat /\ iterations <= MaxIterations /\ MaxIterations \in Nat
      /\ \A m \in Node : Depth[m] \in Nat
  BY GateFacts, DepthFacts, MaxIterationsAssumption DEF EndWalk, IInv, TypeOK, WithinLimit
<1>3. /\ level' = level /\ loop_nodes' = loop_nodes /\ iterations' = iterations + 1
      /\ order' = order /\ phase = "levels" /\ pos = Cardinality(Gate) + 1
  BY DEF EndWalk
<1>4. \/ phase' = "levels" /\ pos' = 1
      \/ phase' = "sort" /\ (~changed \/ iterations = MaxIterations)
  <2>1. iterations + 1 <= MaxIterations \/ iterations = MaxIterations
    BY <1>2
  <2> QED BY <1>3, <2>1 DEF EndWalk
<1>5. \A m \in Gate : \E i \in 1..(pos - 1) : order[i] = m
  <2>1. pos - 1 = Cardinality(Gate)
    BY <1>2, <1>3
  <2> QED BY <2>1 DEF IInv, TypeOK, Listing
<1>6. SourcesExact'
  BY <1>1, <1>3, <1>4 DEF SourcesExact, Exact, LevelsInv
<1>7. ShallowExact'
  BY <1>1, <1>3, <1>5 DEF LevelsInv, PassedExact, ShallowExact, Exact
<1>8. PassedExact' /\ Unmoved'
  BY <1>4 DEF PassedExact, Unmoved
<1>9. FreeUnmarked'
  BY <1>1, <1>3, <1>4 DEF FreeUnmarked, LevelsInv
<1>10. FreeExact'
  <2> SUFFICES ASSUME phase' = "sort", LimitSuffices
               PROVE  \A n \in Gate : Free(n) => Exact(n)
    BY <1>1, <1>3, <1>4 DEF FreeExact, Exact
  <2>1. CASE iterations = MaxIterations
    BY <1>3, <2>1 DEF LimitSuffices, Free, LevelsInv, ShallowExact
  <2>2. CASE ~changed
    <3> DEFINE Off == {n \in Gate : Free(n) /\ ~Exact(n)}
               T == {Depth[n] : n \in Off}
    <3> SUFFICES ASSUME Off # {} PROVE FALSE
      OBVIOUS
    <3>1. T \in SUBSET Nat /\ T # {}
      BY <1>2
    <3>2. PICK c \in T : \A y \in T : c <= y
      <4> HIDE DEF T
      <4> QED BY <3>1, LeastNat
    <3>3. PICK n \in Off : c = Depth[n]
      BY <3>2
    <3>4. \A m \in Off : Depth[n] <= Depth[m]
      BY <3>2, <3>3
    <3>5. n \in Gate /\ n \in Node /\ Free(n) /\ ~Exact(n) /\ inputs[n] \subseteq Node
      BY <1>2, <3>3 DEF IsNetlist, inputs
    <3>6. ASSUME NEW m \in inputs[n] PROVE Exact(m)
      <4>1. CASE m \notin Gate
        BY <1>3, <3>5, <4>1 DEF LevelsInv, SourcesExact
      <4>2. CASE m \in Gate
        <5>1. Free(m)
          BY <1>2, <3>5, <4>2, BehindNoLoop DEF Free
        <5>2. Depth[m] < Depth[n] /\ Depth[m] \in Nat /\ Depth[n] \in Nat
          BY <1>2, <3>5, DepthFacts DEF Free
        <5>3. m \notin Off
          BY <3>4, <5>2
        <5> QED BY <4>2, <5>1, <5>3
      <4> QED BY <4>1, <4>2
    <3>7. NewLevel(n) = Depth[n]
      BY <1>2, <3>5, <3>6, ExactStep
    <3>8. level[n] = NewLevel(n)
      BY <1>3, <1>5, <2>2, <3>5 DEF LevelsInv, Unmoved
    <3> QED BY <3>5, <3>7, <3>8 DEF Exact
  <2> QED BY <1>3, <1>4, <2>1, <2>2
<1> QED BY <1>6, <1>7, <1>8, <1>9, <1>10 DEF LevelsInv

LEMMA LaterKeepsLevels ==
  ASSUME LevelsInv, SortGates \/ CoverGate \/ PassOverGate \/ CoverTooEarly \/ EndCover
  PROVE  LevelsInv'
<1>1. /\ netlist' = netlist /\ level' = level /\ loop_nodes' = loop_nodes
      /\ phase \notin {"sources", "levels"} /\ phase' \notin {"sources", "levels"}
  BY DEF SortGates, CoverGate, PassOverGate, CoverTooEarly, EndCover
<1>2. /\ Gate' = Gate /\ inputs' = inputs /\ Depth' = Depth
      /\ \A m : Free(m)' <=> Free(m)
      /\ LimitSuffices' <=> LimitSuffices
  BY <1>1, SameFree
<1>3. SourcesExact'
  BY <1>1, <1>2 DEF LevelsInv, SourcesExact, Exact
<1>4. ShallowExact' /\ PassedExact' /\ Unmoved'
  BY <1>1 DEF ShallowExact, PassedExact, Unmoved
<1>5. FreeUnmarked' /\ FreeExact'
  BY <1>1, <1>2 DEF LevelsInv, FreeUnmarked, FreeExact, Exact
<1> QED BY <1>3, <1>4, <1>5 DEF LevelsInv

LEMMA StutterKeepsLevels ==
  ASSUME LevelsInv, UNCHANGED vars
  PROVE  LevelsInv'
<1>1. /\ netlist' = netlist /\ level' = level /\ loop_nodes' = loop_nodes /\ phase' = phase
      /\ pos' = pos /\ order' = order /\ changed' = changed /\ iterations' = iterations
  BY DEF vars
<1>2. /\ Gate' = Gate /\ inputs' = inputs /\ Depth' = Depth
      /\ \A m : Free(m)' <=> Free(m)
      /\ LimitSuffices' <=> LimitSuffices
  BY <1>1, SameFree
<1>3. \A m : NewLevel(m)' = NewLevel(m) /\ (Exact(m)' <=> Exact(m))
  BY <1>1, <1>2 DEF NewLevel, Exact
<1>4. SourcesExact' /\ ShallowExact' /\ PassedExact'
  BY <1>1, <1>2, <1>3 DEF LevelsInv, SourcesExact, ShallowExact, PassedExact
<1>5. Unmoved' /\ FreeUnmarked' /\ FreeExact'
  BY <1>1, <1>2, <1>3 DEF LevelsInv, Unmoved, FreeUnmarked, FreeExact
<1> QED BY <1>4, <1>5 DEF LevelsInv

(* topo_sort gives every node behind no loop the length of its longest     *)
(* path for a level, and marks none of them, whatever the order of names   *)
(* in which its walks see the gates, if the limit is no shorter than those *)
(* paths.                                                                  *)
THEOREM LevelsAreExact == Spec => []LevelsExact
<1>1. ASSUME IInv, LevelsInv, [Next]_vars PROVE LevelsInv'
  BY <1>1, LevelSourcesKeepsLevels, UpdateLevelKeepsLevels, EndWalkKeepsLevels,
     LaterKeepsLevels, StutterKeepsLevels DEF Next
<1>2. ASSUME IInv, LevelsInv PROVE LevelsExact
  <2> SUFFICES ASSUME Settled, LimitSuffices, NEW n \in Node, Free(n)
               PROVE  n \notin loop_nodes /\ Exact(n)
    BY DEF LevelsExact, Free, Exact
  <2>1. phase \notin {"sources", "levels"} /\ loop_nodes \subseteq Gate
    BY <1>2 DEF Settled, IInv, TypeOK
  <2>2. CASE n \in Gate
    BY <1>2, <2>1, <2>2 DEF LevelsInv, FreeUnmarked, FreeExact
  <2>3. CASE n \notin Gate
    BY <1>2, <2>1, <2>3 DEF LevelsInv, SourcesExact
  <2> QED BY <2>2, <2>3
<1> QED BY <1>1, <1>2, InitEstablishesLevelsInv, IInvHolds, PTL DEF Spec
=============================================================================
