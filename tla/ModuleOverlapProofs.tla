------------------------ MODULE ModuleOverlapProofs ------------------------
(* What merge_modules leaves, for every number of nodes and modules.       *)
EXTENDS ModuleOverlap, TLAPS, FiniteSetTheorems

-----------------------------------------------------------------------------
(* The invariant.                                                          *)

(* The modules that cleanup_modules has kept, and those still ahead of it. *)
(* Outside of cleanup_modules nothing is kept and all are ahead.           *)
Kept == {kept[i] : i \in DOMAIN kept}
Ahead == {modules[i] : i \in {j \in DOMAIN modules : j >= index}}
Alive == Kept \cup Ahead

NothingKept == phase \notin {"cleanup", "aborted"} => kept = <<>> /\ index = 1

ListedOnce ==
  /\ \A i, j \in DOMAIN modules : modules[i] = modules[j] => i = j
  /\ \A i, j \in DOMAIN kept : kept[i] = kept[j] => i = j
  /\ Kept \cap Ahead = {}

LoopsInStep == outer = 0 => inner = NumModules

NodesNameAlive ==
  \A n \in Node : \A m \in node_modules[n] : m \in Alive /\ n \in internals[m]

UnnamedAreSiblings ==
  \A m \in Alive : \A n \in internals[m] :
    m \notin node_modules[n] => \E k \in Added({n}) : m \in node_modules[k]

NoneDominatedYet == phase = "create" => \A m \in Module : ~Dominated(m)

(* A module `mi' that became dominated in its own loop is inside a larger  *)
(* module, so an `mj' inside `mi' is not what covers `mi'.                 *)
DominatedStrictly ==
  (phase = "merge" /\ outer \in Module /\ Dominated(outer) /\ Later(inner) # {})
    => \E u \in Module : /\ ~Dominated(u) /\ dominateable[u]
                         /\ internals[outer] \subseteq internals[u]
                         /\ internals[u] # internals[outer]

(* Only modules that others may dominate are dominated, and by such.       *)
DominatedByItsKind ==
  \A m \in Module : Dominated(m) =>
    /\ dominateable[m]
    /\ \E u \in Module : ~Dominated(u) /\ dominateable[u] /\ internals[m] \subseteq internals[u]

(* Until the program is solved only what is bad or dominated is deleted.   *)
LostGo ==
  ~solved => \A m \in Module : internals[m] = {} \/ m \in Alive \/ Goes(m)

KeptAreGood ==
  /\ \A m \in Kept : m \notin is_bad /\ conflicting[m] = {}
  /\ phase = "mark" => \A m \in Listed : conflicting[m] = {}
  /\ phase \in {"mark", "done"} => \A m \in Listed : m \notin is_bad

ConflictsAreShared ==
  phase \in {"solve", "done"} =>
    \A m \in Listed : \A k \in conflicting[m] :
      k # m /\ \E n \in Node : m \in node_modules[n] /\ k \in node_modules[n]

SharedAreBad ==
  solved => \A n \in Node : \A m, k \in node_modules[n] :
              m # k => m \in is_bad \/ k \in is_bad

SolvedInTime ==
  /\ phase = "create" => ~solved
  /\ phase = "done" /\ config.eliminateOverlaps => solved \/ Listed = {}

IInv ==
  /\ TypeOK
  /\ NothingKept
  /\ ListedOnce
  /\ LoopsInStep
  /\ NodesNameAlive
  /\ UnnamedAreSiblings
  /\ NoneDominatedYet
  /\ DominatedStrictly
  /\ DominatedByItsKind
  /\ DominatedIsCovered
  /\ LostGo
  /\ KeptAreGood
  /\ ConflictsAreShared
  /\ SharedAreBad
  /\ SolvedInTime
  /\ NumbersArePlaces

-----------------------------------------------------------------------------
(* Facts about one state.                                                  *)

(* An element appended to a list comes last.                               *)
LEMMA AppendFacts ==
  ASSUME NEW S, NEW s \in Seq(S), NEW x \in S
  PROVE  /\ Append(s, x) \in Seq(S)
         /\ Len(Append(s, x)) = Len(s) + 1
         /\ DOMAIN s = 1..Len(s)
         /\ DOMAIN Append(s, x) = 1..(Len(s) + 1)
         /\ \A i \in 1..Len(s) : Append(s, x)[i] = s[i]
         /\ Append(s, x)[Len(s) + 1] = x
         /\ Len(s) \in Nat
OBVIOUS

LEMMA ListFacts ==
  ASSUME TypeOK
  PROVE  /\ DOMAIN modules = 1..Len(modules) /\ Len(modules) \in Nat
         /\ \A i \in DOMAIN modules : modules[i] \in Module
         /\ DOMAIN kept = 1..Len(kept) /\ Len(kept) \in Nat
         /\ \A i \in DOMAIN kept : kept[i] \in Module
         /\ index \in Nat /\ index >= 1
         /\ Listed \subseteq Module /\ Kept \subseteq Module /\ Ahead \subseteq Listed
<1>1. modules \in Seq(Module) /\ kept \in Seq(Module)
  BY DEF TypeOK
<1>2. DOMAIN modules = 1..Len(modules) /\ Len(modules) \in Nat
  BY <1>1
<1>3. DOMAIN kept = 1..Len(kept) /\ Len(kept) \in Nat
  BY <1>1
<1>4. \A i \in DOMAIN modules : modules[i] \in Module
  BY <1>1
<1>5. \A i \in DOMAIN kept : kept[i] \in Module
  BY <1>1
<1>6. index \in Nat /\ index >= 1
  BY <1>2 DEF TypeOK
<1>7. Listed \subseteq Module /\ Kept \subseteq Module /\ Ahead \subseteq Listed
  BY <1>4, <1>5 DEF Listed, Kept, Ahead
<1> QED BY <1>2, <1>3, <1>4, <1>5, <1>6, <1>7

(* Outside of cleanup_modules the living modules are the listed ones.      *)
LEMMA AllAhead ==
  ASSUME TypeOK, NothingKept, phase \notin {"cleanup", "aborted"}
  PROVE  Kept = {} /\ Ahead = Listed /\ Alive = Listed
<1>1. kept = <<>> /\ index = 1
  BY DEF NothingKept
<1>2. Kept = {}
  BY <1>1 DEF Kept
<1>3. Ahead = Listed
  BY <1>1, ListFacts DEF Ahead, Listed
<1> QED BY <1>2, <1>3 DEF Alive

(* The module at the loop counter of cleanup_modules leaves Ahead.         *)
LEMMA Advance ==
  ASSUME TypeOK, ListedOnce, index \in DOMAIN modules, modules' = modules, index' = index + 1
  PROVE  /\ modules[index] \in Module
         /\ modules[index] \in Ahead
         /\ modules[index] \notin Kept
         /\ Ahead' = Ahead \ {modules[index]}
<1>1. modules[index] \in Module /\ modules[index] \in Ahead
  BY ListFacts DEF Ahead
<1>2. modules[index] \notin Kept
  BY <1>1 DEF ListedOnce
<1>3. ASSUME NEW m \in Ahead, m # modules[index] PROVE m \in Ahead'
  BY <1>3, ListFacts DEF Ahead
<1>4. Ahead' \subseteq Ahead
  BY ListFacts DEF Ahead
<1>5. modules[index] \notin Ahead'
  BY ListFacts DEF Ahead, ListedOnce
<1> QED BY <1>1, <1>2, <1>3, <1>4, <1>5

LEMMA KeptAppended ==
  ASSUME TypeOK, NEW m \in Module, kept' = Append(kept, m)
  PROVE  Kept' = Kept \cup {m}
<1>1. kept \in Seq(Module)
  BY DEF TypeOK
<1>2. /\ DOMAIN kept = 1..Len(kept) /\ DOMAIN kept' = 1..(Len(kept) + 1) /\ Len(kept) \in Nat
      /\ \A i \in 1..Len(kept) : kept'[i] = kept[i]
      /\ kept'[Len(kept) + 1] = m
  BY <1>1, AppendFacts
<1>3. Kept' \subseteq Kept \cup {m}
  BY <1>2 DEF Kept
<1>4. Kept \cup {m} \subseteq Kept'
  BY <1>2 DEF Kept
<1> QED BY <1>3, <1>4

(* A set with two members has more than one.                               *)
LEMMA TwoMembers ==
  ASSUME NEW S, IsFiniteSet(S), NEW x \in S, NEW y \in S, x # y
  PROVE  Cardinality(S) > 1
<1>1. IsFiniteSet({x, y}) /\ Cardinality({x, y}) = 2
  <2>1. IsFiniteSet({x}) /\ Cardinality({x}) = 1
    BY FS_Singleton
  <2>2. IsFiniteSet({x} \cup {y}) /\ Cardinality({x} \cup {y}) = Cardinality({x}) + 1
    BY <2>1, FS_AddElement
  <2>3. {x, y} = {x} \cup {y}
    OBVIOUS
  <2> QED BY <2>1, <2>2, <2>3
<1>2. Cardinality({x, y}) <= Cardinality(S)
  BY FS_Subset
<1>3. Cardinality(S) \in Nat
  BY FS_CardinalityType
<1> QED BY <1>1, <1>2, <1>3

(* A feasible choice takes at most one of two modules that share a node.   *)
LEMMA FeasibleChoosesOne ==
  ASSUME TypeOK, NEW S, Feasible(S), NEW n \in Node,
         NEW m \in node_modules[n], NEW k \in node_modules[n], m # k
  PROVE  m \notin S \/ k \notin S
<1>1. node_modules[n] \subseteq Module
  BY DEF TypeOK
<1>2. IsFiniteSet(Module)
  BY NumModulesAssumption, FS_Interval DEF Module
<1>3. IsFiniteSet(node_modules[n])
  BY <1>1, <1>2, FS_Subset
<1>4. n \in Rows
  BY <1>3, TwoMembers DEF Rows
<1>5. Cardinality(node_modules[n] \cap S) <= 1
  BY <1>4 DEF Feasible
<1>6. SUFFICES ASSUME m \in S, k \in S PROVE FALSE
  OBVIOUS
<1>7. IsFiniteSet(node_modules[n] \cap S)
  BY <1>3, FS_Subset
<1>8. Cardinality(node_modules[n] \cap S) > 1 /\ Cardinality(node_modules[n] \cap S) \in Nat
  BY <1>6, <1>7, TwoMembers, FS_CardinalityType
<1> QED BY <1>5, <1>8

-----------------------------------------------------------------------------
(* The initial states.                                                     *)

LEMMA InitEstablishesIInv == Init => IInv
<1> SUFFICES ASSUME Init PROVE IInv
  OBVIOUS
<1>1. TypeOK
  <2>1. modules \in Seq(Module) /\ kept \in Seq(Module) /\ Len(modules) = 0
    BY DEF Init
  <2>2. /\ internals \in [Module -> SUBSET Node] /\ conflicting \in [Module -> SUBSET Module]
        /\ node_modules \in [Node -> SUBSET Module] /\ is_bad \in SUBSET Module
        /\ dominator \in [Module -> Module] /\ number \in [Module -> Int]
    BY DEF Init
  <2>3. dominateable \in [Module -> BOOLEAN] /\ solved \in BOOLEAN /\ phase \in Phase
    BY DEF Init, Phase
  <2>4. node \in 1..(NumNodes + 1) /\ outer \in 0..NumModules /\ inner \in 1..NumModules
    BY NumNodesAssumption, NumModulesAssumption DEF Init
  <2>5. index \in 1..(Len(modules) + 1)
    BY <2>1 DEF Init
  <2>6. config \in Config
    BY ConfigsAssumption DEF Init
  <2> QED BY <2>1, <2>2, <2>3, <2>4, <2>5, <2>6 DEF TypeOK
<1>2. NothingKept /\ LoopsInStep
  BY DEF Init, NothingKept, LoopsInStep
<1>3. Kept = {} /\ Ahead = {} /\ Listed = {}
  BY DEF Init, Kept, Ahead, Listed
<1>4. ListedOnce
  BY <1>3 DEF Init, ListedOnce
<1>5. NodesNameAlive /\ UnnamedAreSiblings
  BY <1>3 DEF Init, NodesNameAlive, UnnamedAreSiblings, Alive
<1>6. NoneDominatedYet /\ DominatedStrictly /\ DominatedIsCovered /\ DominatedByItsKind /\ LostGo
  BY DEF Init, NoneDominatedYet, DominatedStrictly, DominatedIsCovered, DominatedByItsKind,
         LostGo, Dominated
<1>7. KeptAreGood /\ ConflictsAreShared /\ SharedAreBad /\ SolvedInTime /\ NumbersArePlaces
  BY <1>3 DEF Init, KeptAreGood, ConflictsAreShared, SharedAreBad, SolvedInTime, NumbersArePlaces
<1> QED BY <1>1, <1>2, <1>4, <1>5, <1>6, <1>7 DEF IInv

-----------------------------------------------------------------------------
(* The steps, one group of conjuncts after the other.                      *)

LEMMA TypeOKStep == TypeOK /\ LoopsInStep /\ [Next]_vars => TypeOK'
<1> SUFFICES ASSUME TypeOK, LoopsInStep, [Next]_vars PROVE TypeOK'
  OBVIOUS
<1> USE DEF TypeOK, sets, cursor
<1>1. ASSUME NEW m \in Module, NEW shape \in Shapes, CreateModule(m, shape) PROVE TypeOK'
  <2> DEFINE S == IF shape.siblings THEN shape.inside \cup Added(shape.inside)
                  ELSE shape.inside
  <2>1. shape \in Shape
    BY ShapesAssumption
  <2>2. S \subseteq Node
    BY <2>1, SiblingsAssumption DEF Shape, Added
  <2>3. modules' \in Seq(Module) /\ Len(modules') = Len(modules) + 1 /\ Len(modules) \in Nat
    BY <1>1 DEF CreateModule
  <2>4. internals' \in [Module -> SUBSET Node]
    BY <1>1, <2>2 DEF CreateModule
  <2>5. node_modules' \in [Node -> SUBSET Module]
    BY <1>1 DEF CreateModule
  <2>6. dominateable' \in [Module -> BOOLEAN]
    <3>1. shape.dominateable \in BOOLEAN
      BY <2>1 DEF Shape
    <3>2. dominateable' = [dominateable EXCEPT ![m] = shape.dominateable]
      BY <1>1 DEF CreateModule
    <3> QED BY <3>1, <3>2, Zenon
  <2>7. is_bad' \in SUBSET Module
    BY <1>1 DEF CreateModule
  <2>8. number' \in [Module -> Int]
    BY <1>1, <2>3 DEF CreateModule
  <2>9. index' \in 1..(Len(modules') + 1)
    BY <1>1, <2>3 DEF CreateModule
  <2>10. UNCHANGED <<config, dominator, conflicting, cursor, kept, solved, phase>>
    BY <1>1 DEF CreateModule
  <2> QED BY <2>3, <2>4, <2>5, <2>6, <2>7, <2>8, <2>9, <2>10
<1>2. CASE StartMerge
  BY <1>2 DEF StartMerge, Phase
<1>3. CASE TakeOuter
  <2>1. PICK k \in Later(outer) : /\ outer' = k
                                  /\ inner' = IF Dominated(k) THEN NumModules ELSE k
    BY <1>3 DEF TakeOuter
  <2>2. k \in Module
    BY <2>1 DEF Later
  <2>3. outer' \in 0..NumModules /\ inner' \in 1..NumModules
    BY <2>1, <2>2, NumModulesAssumption DEF Module
  <2>4. UNCHANGED <<config, modules, sets, is_bad, dominator, number, conflicting, node,
                    kept, index, solved, phase>>
    BY <1>3 DEF TakeOuter
  <2> QED BY <2>3, <2>4
<1>4. CASE Compare
  <2>1. PICK mj \in Later(inner) :
          /\ inner' = mj
          /\ dominator' =
               IF Dominated(mj) \/ ~dominateable[outer] \/ ~dominateable[mj]
               THEN dominator
               ELSE IF Contains(outer, mj) THEN [dominator EXCEPT ![mj] = outer]
               ELSE IF Contains(mj, outer) THEN [dominator EXCEPT ![outer] = mj]
               ELSE dominator
    BY <1>4 DEF Compare
  <2>2. mj \in Module /\ mj > inner
    BY DEF Later
  <2>3. outer \in Module
    BY <2>2, NumModulesAssumption DEF LoopsInStep, Module
  <2>4. dominator' \in {dominator, [dominator EXCEPT ![mj] = outer], [dominator EXCEPT ![outer] = mj]}
    BY <2>1, Zenon
  <2>5. dominator' \in [Module -> Module]
    BY <2>2, <2>3, <2>4
  <2>6. inner' \in 1..NumModules
    BY <2>1, <2>2 DEF Module
  <2>7. UNCHANGED <<config, modules, sets, is_bad, number, conflicting, node, outer, kept,
                    index, solved, phase>>
    BY <1>4 DEF Compare
  <2> QED BY <2>5, <2>6, <2>7
<1>5. CASE EndNode
  BY <1>5, NumNodesAssumption, NumModulesAssumption DEF EndNode, Node
<1>6. CASE StartCleanup
  BY <1>6 DEF StartCleanup, Phase
<1>7. CASE KeepModule
  <2>1. modules[index] \in Module /\ index' \in 1..(Len(modules) + 1)
    BY <1>7, ListFacts DEF KeepModule
  <2>2. kept' \in Seq(Module)
    BY <1>7, <2>1 DEF KeepModule
  <2>3. conflicting' \in [Module -> SUBSET Module]
    BY <1>7 DEF KeepModule
  <2>4. UNCHANGED <<config, modules, sets, is_bad, dominator, number, cursor, solved, phase>>
    BY <1>7 DEF KeepModule
  <2> QED BY <2>1, <2>2, <2>3, <2>4
<1>8. CASE DeleteModule
  <2>1. index' \in 1..(Len(modules) + 1)
    BY <1>8, ListFacts DEF DeleteModule
  <2>2. node_modules' \in [Node -> SUBSET Module]
    BY <1>8 DEF DeleteModule
  <2>3. UNCHANGED <<config, modules, internals, dominateable, is_bad, dominator, number,
                    conflicting, cursor, kept, solved, phase>>
    BY <1>8 DEF DeleteModule
  <2> QED BY <2>1, <2>2, <2>3
<1>9. CASE AbortDelete
  BY <1>9 DEF AbortDelete, Phase
<1>10. ASSUME NEW list \in Seq(Module) PROVE Numbered(list) \in [Module -> Int]
  <2>1. DOMAIN list \subseteq Int
    BY <1>10
  <2>2. ASSUME NEW m \in Module, \E i \in DOMAIN list : list[i] = m
        PROVE (CHOOSE i \in DOMAIN list : list[i] = m) \in DOMAIN list
    BY <2>2
  <2> QED BY <2>1, <2>2 DEF Numbered
<1>11. CASE EndCleanup
  <2>1. modules' \in Seq(Module) /\ kept' \in Seq(Module) /\ Len(modules') \in Nat
    BY <1>11 DEF EndCleanup
  <2>2. number' \in [Module -> Int]
    BY <1>10, <1>11 DEF EndCleanup
  <2>3. index' \in 1..(Len(modules') + 1) /\ phase' \in Phase
    BY <1>11, <2>1 DEF EndCleanup, Phase
  <2>4. UNCHANGED <<config, sets, is_bad, dominator, conflicting, cursor, solved>>
    BY <1>11 DEF EndCleanup
  <2> QED BY <2>1, <2>2, <2>3, <2>4
<1>12. CASE MarkConflicting
  <2>1. conflicting' \in [Module -> SUBSET Module]
    BY <1>12 DEF MarkConflicting
  <2>2. number' \in [Module -> Int]
    BY <1>10, <1>12 DEF MarkConflicting
  <2>3. phase' \in Phase
    BY <1>12 DEF MarkConflicting, Phase
  <2>4. UNCHANGED <<config, modules, sets, is_bad, dominator, cursor, kept, index, solved>>
    BY <1>12 DEF MarkConflicting
  <2> QED BY <2>1, <2>2, <2>3, <2>4
<1>13. CASE Solve
  <2>1. is_bad' \in SUBSET Module
    BY <1>13, ListFacts DEF Solve
  <2>2. solved' \in BOOLEAN /\ phase' \in Phase
    BY <1>13 DEF Solve, Phase
  <2>3. UNCHANGED <<config, modules, sets, dominator, number, conflicting, cursor, kept, index>>
    BY <1>13 DEF Solve
  <2> QED BY <2>1, <2>2, <2>3
<1>14. CASE AbortSolve
  BY <1>14 DEF AbortSolve, Phase
<1>15. CASE UNCHANGED vars
  BY <1>15 DEF vars
<1> QED
  BY <1>1, <1>2, <1>3, <1>4, <1>5, <1>6, <1>7, <1>8, <1>9, <1>11, <1>12, <1>13,
     <1>14, <1>15 DEF Next

(* The lists: what is kept, and that a module is listed once.              *)
ListsInv == TypeOK /\ NothingKept /\ ListedOnce /\ LoopsInStep

LEMMA ListsStep == ListsInv /\ [Next]_vars => NothingKept' /\ ListedOnce' /\ LoopsInStep'
<1> SUFFICES ASSUME ListsInv, [Next]_vars PROVE NothingKept' /\ ListedOnce' /\ LoopsInStep'
  OBVIOUS
<1> USE DEF ListsInv
<1>0. TypeOK /\ NothingKept /\ ListedOnce /\ LoopsInStep
  OBVIOUS
<1>1. ASSUME NEW m \in Module, NEW shape \in Shapes, CreateModule(m, shape)
      PROVE NothingKept' /\ ListedOnce' /\ LoopsInStep'
  <2>1. /\ phase = "create" /\ m \notin Listed /\ modules' = Append(modules, m)
        /\ UNCHANGED <<kept, index, phase, outer, inner>>
    BY <1>1 DEF CreateModule, cursor
  <2>2. kept = <<>> /\ index = 1 /\ Kept' = {}
    BY <1>0, <2>1 DEF NothingKept, Kept
  <2>3. modules \in Seq(Module)
    BY DEF TypeOK
  <2>4. \A i, j \in DOMAIN modules' : modules'[i] = modules'[j] => i = j
    <3>1. \A i \in 1..Len(modules) : modules'[i] = modules[i] /\ modules[i] # m
      BY <2>1, <2>3, AppendFacts, ListFacts DEF Listed
    <3>2. DOMAIN modules' = 1..(Len(modules) + 1) /\ modules'[Len(modules) + 1] = m
      BY <2>1, <2>3, AppendFacts
    <3>3. DOMAIN modules = 1..Len(modules) /\ Len(modules) \in Nat
      BY ListFacts
    <3> QED BY <3>1, <3>2, <3>3, <1>0 DEF ListedOnce
  <2> QED BY <1>0, <2>1, <2>2, <2>4 DEF NothingKept, ListedOnce, LoopsInStep
<1>2. CASE StartMerge
  BY <1>0, <1>2 DEF StartMerge, NothingKept, ListedOnce, LoopsInStep, Kept, Ahead, cursor
<1>3. CASE TakeOuter
  <2>1. outer' # 0
    BY <1>3, NumModulesAssumption DEF TakeOuter, Later, TypeOK, Module
  <2>2. UNCHANGED <<config, modules, kept, index, phase>>
    BY <1>3 DEF TakeOuter
  <2> QED BY <1>0, <2>1, <2>2 DEF NothingKept, ListedOnce, LoopsInStep, Kept, Ahead
<1>4. CASE Compare
  <2>1. outer # 0
    BY <1>0, <1>4, NumModulesAssumption DEF Compare, Later, TypeOK, Module, LoopsInStep
  <2>2. UNCHANGED <<config, modules, kept, index, phase, outer>>
    BY <1>4 DEF Compare
  <2> QED BY <1>0, <2>1, <2>2 DEF NothingKept, ListedOnce, LoopsInStep, Kept, Ahead
<1>5. CASE EndNode
  BY <1>0, <1>5 DEF EndNode, NothingKept, ListedOnce, LoopsInStep, Kept, Ahead
<1>6. CASE StartCleanup
  BY <1>0, <1>6 DEF StartCleanup, NothingKept, ListedOnce, LoopsInStep, Kept, Ahead, cursor
<1>7. CASE KeepModule
  <2>1. /\ phase = "cleanup" /\ index \in DOMAIN modules /\ kept' = Append(kept, modules[index])
        /\ index' = index + 1 /\ UNCHANGED <<modules, phase, outer, inner>>
    BY <1>7 DEF KeepModule, cursor
  <2>2. /\ modules[index] \in Module /\ modules[index] \in Ahead /\ modules[index] \notin Kept
        /\ Ahead' = Ahead \ {modules[index]}
    BY <2>1, Advance
  <2>3. Kept' = Kept \cup {modules[index]}
    BY <2>1, <2>2, KeptAppended
  <2>4. \A i, j \in DOMAIN kept' : kept'[i] = kept'[j] => i = j
    <3>1. kept \in Seq(Module)
      BY DEF TypeOK
    <3>2. \A i \in 1..Len(kept) : kept'[i] = kept[i] /\ kept[i] # modules[index]
      BY <2>1, <2>2, <3>1, AppendFacts, ListFacts DEF Kept
    <3>3. DOMAIN kept' = 1..(Len(kept) + 1) /\ kept'[Len(kept) + 1] = modules[index]
      BY <2>1, <2>2, <3>1, AppendFacts
    <3>4. DOMAIN kept = 1..Len(kept) /\ Len(kept) \in Nat
      BY ListFacts
    <3> QED BY <3>2, <3>3, <3>4, <1>0 DEF ListedOnce
  <2> QED BY <1>0, <2>1, <2>2, <2>3, <2>4 DEF NothingKept, ListedOnce, LoopsInStep
<1>8. CASE DeleteModule
  <2>1. /\ phase = "cleanup" /\ index \in DOMAIN modules
        /\ index' = index + 1 /\ UNCHANGED <<config, modules, kept, phase, outer, inner>>
    BY <1>8 DEF DeleteModule, cursor
  <2>2. Ahead' = Ahead \ {modules[index]} /\ Kept' = Kept
    BY <2>1, Advance DEF Kept
  <2> QED BY <1>0, <2>1, <2>2 DEF NothingKept, ListedOnce, LoopsInStep
<1>9. CASE AbortDelete
  BY <1>0, <1>9 DEF AbortDelete, NothingKept, ListedOnce, LoopsInStep, Kept, Ahead, cursor
<1>10. CASE EndCleanup
  <2>1. modules' = kept /\ kept' = <<>> /\ index' = 1 /\ UNCHANGED <<outer, inner>>
    BY <1>10 DEF EndCleanup, cursor
  <2>2. Kept' = {}
    BY <2>1 DEF Kept
  <2> QED BY <1>0, <2>1, <2>2 DEF NothingKept, ListedOnce, LoopsInStep
<1>11. CASE MarkConflicting
  BY <1>0, <1>11 DEF MarkConflicting, NothingKept, ListedOnce, LoopsInStep, Kept, Ahead, cursor
<1>12. CASE Solve
  BY <1>0, <1>12 DEF Solve, NothingKept, ListedOnce, LoopsInStep, Kept, Ahead, cursor
<1>13. CASE AbortSolve
  BY <1>0, <1>13 DEF AbortSolve, NothingKept, ListedOnce, LoopsInStep, Kept, Ahead, cursor
<1>14. CASE UNCHANGED vars
  BY <1>0, <1>14 DEF vars, NothingKept, ListedOnce, LoopsInStep, Kept, Ahead
<1> QED
  BY <1>1, <1>2, <1>3, <1>4, <1>5, <1>6, <1>7, <1>8, <1>9, <1>10, <1>11, <1>12,
     <1>13, <1>14 DEF Next

(* The two views of the inside.  Steps that leave the views and the living *)
(* modules alone keep them.                                                *)
ViewsInv == ListsInv /\ NodesNameAlive /\ UnnamedAreSiblings

LEMMA ViewsUntouched ==
  ASSUME ViewsInv, internals' = internals, node_modules' = node_modules, Alive' = Alive
  PROVE  NodesNameAlive' /\ UnnamedAreSiblings'
BY DEF ViewsInv, NodesNameAlive, UnnamedAreSiblings, Added

LEMMA ViewsStep == ViewsInv /\ [Next]_vars => NodesNameAlive' /\ UnnamedAreSiblings'
<1> SUFFICES ASSUME ViewsInv, [Next]_vars PROVE NodesNameAlive' /\ UnnamedAreSiblings'
  OBVIOUS
<1>0. TypeOK /\ NothingKept /\ ListedOnce /\ NodesNameAlive /\ UnnamedAreSiblings
  BY DEF ViewsInv, ListsInv
<1>1. ASSUME NEW m \in Module, NEW shape \in Shapes, CreateModule(m, shape)
      PROVE NodesNameAlive' /\ UnnamedAreSiblings'
  <2> DEFINE S == IF shape.siblings THEN shape.inside \cup Added(shape.inside)
                  ELSE shape.inside
  <2>1. /\ phase = "create" /\ m \notin Listed /\ modules' = Append(modules, m)
        /\ UNCHANGED <<kept, index, phase>>
        /\ internals' = [internals EXCEPT ![m] = S]
        /\ node_modules' = [n \in Node |->
                              IF n \in shape.inside THEN node_modules[n] \cup {m}
                              ELSE node_modules[n]]
    BY <1>1 DEF CreateModule
  <2>2. shape.inside \subseteq Node
    BY ShapesAssumption DEF Shape
  <2>3. S \subseteq Node /\ shape.inside \subseteq S
    BY <2>2, SiblingsAssumption DEF Added
  <2>4. Alive = Listed
    BY <1>0, <2>1, AllAhead
  <2>5. Alive' = Listed \cup {m}
    <3>1. modules \in Seq(Module)
      BY <1>0 DEF TypeOK
    <3>2. Kept' = {} /\ index' = 1
      BY <1>0, <2>1 DEF NothingKept, Kept
    <3>3. /\ DOMAIN modules' = 1..(Len(modules) + 1) /\ Len(modules) \in Nat
          /\ DOMAIN modules = 1..Len(modules)
          /\ \A i \in 1..Len(modules) : modules'[i] = modules[i]
          /\ modules'[Len(modules) + 1] = m
      BY <2>1, <3>1, AppendFacts
    <3>4. Ahead' = {modules'[i] : i \in 1..(Len(modules) + 1)}
      BY <3>2, <3>3 DEF Ahead
    <3>5. Ahead' = Listed \cup {m}
      BY <3>3, <3>4 DEF Listed
    <3> QED BY <3>2, <3>5 DEF Alive
  <2>6. internals \in [Module -> SUBSET Node] /\ node_modules \in [Node -> SUBSET Module]
    BY <1>0 DEF TypeOK
  <2>7. /\ internals'[m] = S
        /\ \A k \in Module : k # m => internals'[k] = internals[k]
        /\ \A n \in Node : node_modules'[n] = IF n \in shape.inside THEN node_modules[n] \cup {m}
                                              ELSE node_modules[n]
    <3> HIDE DEF S
    <3> QED BY <2>1, <2>6
  <2>8. \A n \in Node : m \notin node_modules[n]
    BY <1>0, <2>1, <2>4 DEF NodesNameAlive
  <2>9. \A k \in Listed : k \in Module /\ k # m
    BY <1>0, <2>1, ListFacts
  <2> HIDE DEF S
  <2>10. NodesNameAlive'
    <3> SUFFICES ASSUME NEW n \in Node, NEW k \in node_modules'[n]
                 PROVE  k \in Alive' /\ n \in internals'[k]
      BY DEF NodesNameAlive
    <3>1. CASE k = m
      BY <2>3, <2>5, <2>7, <2>8, <3>1
    <3>2. CASE k # m
      <4>1. k \in node_modules[n]
        BY <2>7, <3>2
      <4>2. k \in Listed /\ n \in internals[k]
        BY <1>0, <2>4, <4>1 DEF NodesNameAlive
      <4> QED BY <2>5, <2>7, <2>9, <4>2
    <3> QED BY <3>1, <3>2
  <2>11. UnnamedAreSiblings'
    <3> SUFFICES ASSUME NEW k \in Alive', NEW n \in internals'[k], k \notin node_modules'[n]
                 PROVE  \E l \in Added({n}) : k \in node_modules'[l]
      BY DEF UnnamedAreSiblings, Added
    <3>1. CASE k = m
      <4>1. n \in S /\ n \notin shape.inside
        BY <2>3, <2>7, <3>1
      <4>2. n \in Added(shape.inside)
        BY <4>1 DEF S
      <4>3. PICK p \in Siblings \ LatchPairs : n \in p /\ p \cap shape.inside # {}
        BY <4>2 DEF Added
      <4>4. PICK l \in p : l \in shape.inside
        BY <4>3
      <4>5. l \in Added({n})
        BY <4>3, <4>4 DEF Added
      <4>6. m \in node_modules'[l]
        BY <2>2, <2>7, <4>4
      <4> QED BY <3>1, <4>5, <4>6
    <3>2. CASE k # m
      <4>1. k \in Listed /\ n \in internals[k]
        BY <2>5, <2>7, <2>9, <3>2
      <4>2. n \in Node
        BY <2>6, <2>9, <4>1
      <4>3. k \notin node_modules[n]
        BY <2>7, <4>2
      <4>4. PICK l \in Added({n}) : k \in node_modules[l]
        BY <1>0, <2>4, <4>1, <4>3 DEF UnnamedAreSiblings
      <4>5. l \in Node
        BY <4>4, SiblingsAssumption DEF Added
      <4> QED BY <2>7, <4>4, <4>5
    <3> QED BY <3>1, <3>2
  <2> QED BY <2>10, <2>11
<1>2. CASE \/ StartMerge \/ TakeOuter \/ Compare \/ EndNode \/ StartCleanup
           \/ AbortDelete \/ MarkConflicting \/ Solve \/ AbortSolve
  <2>1. UNCHANGED <<config, modules, kept, index, internals, node_modules>>
    BY <1>2 DEF StartMerge, TakeOuter, Compare, EndNode, StartCleanup, AbortDelete,
                MarkConflicting, Solve, AbortSolve, sets
  <2>2. Alive' = Alive
    BY <2>1 DEF Alive, Kept, Ahead
  <2> QED BY <2>1, <2>2, ViewsUntouched
<1>3. CASE KeepModule
  <2>1. /\ index \in DOMAIN modules /\ kept' = Append(kept, modules[index])
        /\ index' = index + 1 /\ UNCHANGED <<config, modules, internals, node_modules>>
    BY <1>3 DEF KeepModule, sets
  <2>2. Alive' = Alive
    BY <1>0, <2>1, Advance, KeptAppended DEF Alive
  <2> QED BY <2>1, <2>2, ViewsUntouched
<1>4. CASE DeleteModule
  <2> DEFINE m == modules[index]
  <2>1. /\ index \in DOMAIN modules
        /\ index' = index + 1 /\ UNCHANGED <<config, modules, internals, kept>>
        /\ node_modules' = [n \in Node |->
                              IF n \in internals[m] THEN node_modules[n] \ {m}
                              ELSE node_modules[n]]
    BY <1>4 DEF DeleteModule
  <2>2. Alive' = Alive \ {m}
    BY <1>0, <2>1, Advance DEF Alive, Kept
  <2>3. \A n \in Node : node_modules'[n] = node_modules[n] \ {m}
    <3>1. \A n \in Node : n \notin internals[m] => m \notin node_modules[n]
      BY <1>0 DEF NodesNameAlive
    <3> HIDE DEF m
    <3> QED BY <2>1, <3>1
  <2>4. internals \in [Module -> SUBSET Node] /\ Alive \subseteq Module
    BY <1>0, ListFacts DEF TypeOK, Alive
  <2> HIDE DEF m
  <2>5. NodesNameAlive'
    BY <1>0, <2>1, <2>2, <2>3 DEF NodesNameAlive
  <2>6. UnnamedAreSiblings'
    <3> SUFFICES ASSUME NEW k \in Alive', NEW n \in internals'[k], k \notin node_modules'[n]
                 PROVE  \E l \in Added({n}) : k \in node_modules'[l]
      BY DEF UnnamedAreSiblings, Added
    <3>1. k \in Alive /\ k # m /\ n \in internals[k] /\ n \in Node
      BY <2>1, <2>2, <2>4
    <3>2. k \notin node_modules[n]
      BY <2>3, <3>1
    <3>3. PICK l \in Added({n}) : k \in node_modules[l]
      BY <1>0, <3>1, <3>2 DEF UnnamedAreSiblings
    <3>4. l \in Node
      BY <3>3, SiblingsAssumption DEF Added
    <3> QED BY <2>3, <3>1, <3>3, <3>4
  <2> QED BY <2>5, <2>6
<1>5. CASE EndCleanup
  <2>1. /\ index = Len(modules) + 1 /\ modules' = kept /\ kept' = <<>> /\ index' = 1
        /\ UNCHANGED <<internals, node_modules>>
    BY <1>5 DEF EndCleanup, sets
  <2>2. Ahead = {} /\ Kept' = {}
    BY <1>0, <2>1, ListFacts DEF Ahead, Kept
  <2>3. Ahead' = Kept
    BY <1>0, <2>1, ListFacts DEF Ahead, Kept
  <2>4. Alive' = Alive
    BY <2>2, <2>3 DEF Alive
  <2> QED BY <2>1, <2>4, ViewsUntouched
<1>6. CASE UNCHANGED vars
  <2>1. UNCHANGED <<config, modules, kept, index, internals, node_modules>>
    BY <1>6 DEF vars
  <2>2. Alive' = Alive
    BY <2>1 DEF Alive, Kept, Ahead
  <2> QED BY <2>1, <2>2, ViewsUntouched
<1> QED
  BY <1>1, <1>2, <1>3, <1>4, <1>5, <1>6 DEF Next

(* Domination.                                                             *)
DominationInv ==
  TypeOK /\ LoopsInStep /\ NoneDominatedYet /\ DominatedStrictly /\ DominatedIsCovered

LEMMA DominationStep ==
  DominationInv /\ [Next]_vars => NoneDominatedYet' /\ DominatedStrictly' /\ DominatedIsCovered'
<1> SUFFICES ASSUME DominationInv, [Next]_vars
             PROVE  NoneDominatedYet' /\ DominatedStrictly' /\ DominatedIsCovered'
  OBVIOUS
<1>0. TypeOK /\ LoopsInStep /\ NoneDominatedYet /\ DominatedStrictly /\ DominatedIsCovered
  BY DEF DominationInv
<1>1. ASSUME NEW m \in Module, NEW shape \in Shapes, CreateModule(m, shape)
      PROVE NoneDominatedYet' /\ DominatedStrictly' /\ DominatedIsCovered'
  <2>1. phase = "create" /\ phase' = "create" /\ dominator' = dominator
    BY <1>1 DEF CreateModule
  <2>2. \A k \in Module : ~Dominated(k)'
    BY <1>0, <2>1 DEF NoneDominatedYet, Dominated
  <2> QED BY <2>1, <2>2 DEF NoneDominatedYet, DominatedStrictly, DominatedIsCovered, Dominated
<1>2. CASE \/ StartCleanup \/ KeepModule \/ DeleteModule \/ AbortDelete \/ EndCleanup
           \/ MarkConflicting \/ Solve \/ AbortSolve
  <2>1. UNCHANGED <<internals, dominator>> /\ phase' \notin {"create", "merge"}
    BY <1>2 DEF StartCleanup, KeepModule, DeleteModule, AbortDelete, EndCleanup,
                MarkConflicting, Solve, AbortSolve, sets
  <2> QED BY <1>0, <2>1 DEF NoneDominatedYet, DominatedStrictly, DominatedIsCovered, Dominated
<1>3. CASE StartMerge
  <2>1. UNCHANGED <<internals, dominator>> /\ phase = "create" /\ phase' # "create"
    BY <1>3 DEF StartMerge, sets
  <2>2. \A k \in Module : ~Dominated(k)'
    BY <1>0, <2>1 DEF NoneDominatedYet, Dominated
  <2> QED BY <2>1, <2>2 DEF NoneDominatedYet, DominatedStrictly, DominatedIsCovered, Dominated
<1>4. CASE TakeOuter \/ EndNode
  <2>1. UNCHANGED <<internals, dominateable, dominator, phase, node_modules>> /\ phase = "merge"
    BY <1>4 DEF TakeOuter, EndNode, sets
  <2>2. inner' = NumModules \/ (outer' \in Module => ~Dominated(outer)')
    BY <1>4 DEF TakeOuter, EndNode, Dominated
  <2>3. inner' = NumModules => Later(inner)' = {}
    <3>1. \A n \in Node : node_modules[n] \subseteq Module
      BY <1>0 DEF TypeOK
    <3>2. \A k \in Module : ~(k > NumModules)
      BY NumModulesAssumption DEF Module
    <3> QED BY <2>1, <3>1, <3>2 DEF Later
  <2>4. DominatedStrictly'
    BY <2>2, <2>3 DEF DominatedStrictly
  <2> QED BY <1>0, <2>1, <2>4 DEF NoneDominatedYet, DominatedIsCovered, Dominated
<1>5. CASE Compare
  <2>1. PICK mj \in Later(inner) :
          /\ inner' = mj
          /\ dominator' =
               IF Dominated(mj) \/ ~dominateable[outer] \/ ~dominateable[mj]
               THEN dominator
               ELSE IF Contains(outer, mj) THEN [dominator EXCEPT ![mj] = outer]
               ELSE IF Contains(mj, outer) THEN [dominator EXCEPT ![outer] = mj]
               ELSE dominator
    BY <1>5 DEF Compare
  <2>2. phase = "merge" /\ UNCHANGED <<phase, internals, dominateable, node_modules, node, outer>>
    BY <1>5 DEF Compare, sets
  <2>3. mj \in Module /\ outer \in Module
    BY <1>0, NumModulesAssumption DEF Later, LoopsInStep, TypeOK, Module
  <2>4. dominator \in [Module -> Module]
    BY <1>0 DEF TypeOK
  <2>5. Dominated(outer) => \E u \in Module : /\ ~Dominated(u) /\ dominateable[u]
                                              /\ internals[outer] \subseteq internals[u]
                                              /\ internals[u] # internals[outer]
    BY <1>0, <2>1, <2>2, <2>3 DEF DominatedStrictly
  <2>6. \A m \in Module : \E u \in Module : ~Dominated(u) /\ internals[m] \subseteq internals[u]
    BY <1>0 DEF DominatedIsCovered
  <2>7. CASE dominator' = dominator
    BY <2>2, <2>5, <2>6, <2>7 DEF NoneDominatedYet, DominatedStrictly, DominatedIsCovered, Dominated
  <2>8. CASE ~Dominated(mj) /\ Contains(outer, mj) /\ dominator' = [dominator EXCEPT ![mj] = outer]
    <3>1. internals[mj] \subseteq internals[outer]
      BY <2>8 DEF Contains
    <3>2. \A k \in Module : k # mj => (Dominated(k)' <=> Dominated(k))
      BY <2>3, <2>4, <2>8 DEF Dominated
    <3>3. Dominated(outer) =>
            \E u \in Module : /\ ~Dominated(u)' /\ dominateable[u]
                              /\ internals[outer] \subseteq internals[u]
                              /\ internals[u] # internals[outer]
      BY <2>5, <3>1, <3>2
    <3>4. ~Dominated(outer) => ~Dominated(outer)'
      BY <2>2, <2>3, <2>4, <2>8 DEF Dominated
    <3>5. \E u \in Module : ~Dominated(u)' /\ internals[outer] \subseteq internals[u]
      BY <2>2, <2>3, <3>3, <3>4 DEF Dominated
    <3>6. ASSUME NEW m \in Module
          PROVE \E u \in Module : ~Dominated(u)' /\ internals[m] \subseteq internals[u]
      <4>1. PICK u \in Module : ~Dominated(u) /\ internals[m] \subseteq internals[u]
        BY <2>6
      <4>2. CASE u = mj
        BY <3>1, <3>5, <4>1, <4>2
      <4>3. CASE u # mj
        BY <3>2, <4>1, <4>3
      <4> QED BY <4>2, <4>3
    <3>7. DominatedIsCovered'
      BY <2>2, <3>6 DEF DominatedIsCovered, Dominated
    <3>8. DominatedStrictly'
      <4>1. Dominated(outer)' => Dominated(outer)
        BY <3>4
      <4> QED BY <2>2, <3>3, <4>1 DEF DominatedStrictly, Dominated
    <3> QED BY <2>2, <3>7, <3>8 DEF NoneDominatedYet
  <2>9. CASE /\ ~Dominated(mj) /\ dominateable[mj] /\ ~Contains(outer, mj) /\ Contains(mj, outer)
             /\ dominator' = [dominator EXCEPT ![outer] = mj]
    <3>1. internals[outer] \subseteq internals[mj] /\ internals[mj] # internals[outer] /\ mj # outer
      BY <2>9 DEF Contains
    <3>2. \A k \in Module : k # outer => (Dominated(k)' <=> Dominated(k))
      BY <2>3, <2>4, <2>9 DEF Dominated
    <3>3. ~Dominated(mj)'
      BY <2>3, <2>9, <3>1, <3>2
    <3>4. ASSUME NEW m \in Module
          PROVE \E u \in Module : ~Dominated(u)' /\ internals[m] \subseteq internals[u]
      <4>1. PICK u \in Module : ~Dominated(u) /\ internals[m] \subseteq internals[u]
        BY <2>6
      <4>2. CASE u = outer
        BY <2>3, <3>1, <3>3, <4>1, <4>2
      <4>3. CASE u # outer
        BY <3>2, <4>1, <4>3
      <4> QED BY <4>2, <4>3
    <3>5. DominatedIsCovered'
      BY <2>2, <3>4 DEF DominatedIsCovered, Dominated
    <3>6. DominatedStrictly'
      BY <2>2, <2>3, <2>9, <3>1, <3>3 DEF DominatedStrictly, Dominated
    <3> QED BY <2>2, <3>5, <3>6 DEF NoneDominatedYet
  <2> QED BY <2>1, <2>7, <2>8, <2>9, Zenon
<1>6. CASE UNCHANGED vars
  BY <1>0, <1>6 DEF vars, NoneDominatedYet, DominatedStrictly, DominatedIsCovered, Dominated, Later
<1> QED
  BY <1>1, <1>2, <1>3, <1>4, <1>5, <1>6 DEF Next

LEMMA ByItsKindStep ==
  DominationInv /\ DominatedByItsKind /\ [Next]_vars => DominatedByItsKind'
<1> SUFFICES ASSUME DominationInv, DominatedByItsKind, [Next]_vars PROVE DominatedByItsKind'
  OBVIOUS
<1>0. TypeOK /\ LoopsInStep /\ NoneDominatedYet /\ DominatedStrictly
  BY DEF DominationInv
<1>1. ASSUME NEW m \in Module, NEW shape \in Shapes, CreateModule(m, shape)
      PROVE DominatedByItsKind'
  <2>1. phase = "create" /\ dominator' = dominator
    BY <1>1 DEF CreateModule
  <2>2. \A k \in Module : ~Dominated(k)'
    BY <1>0, <2>1 DEF NoneDominatedYet, Dominated
  <2> QED BY <2>2 DEF DominatedByItsKind, Dominated
<1>2. CASE Compare
  <2>1. PICK mj \in Later(inner) :
          dominator' =
            IF Dominated(mj) \/ ~dominateable[outer] \/ ~dominateable[mj]
            THEN dominator
            ELSE IF Contains(outer, mj) THEN [dominator EXCEPT ![mj] = outer]
            ELSE IF Contains(mj, outer) THEN [dominator EXCEPT ![outer] = mj]
            ELSE dominator
    BY <1>2 DEF Compare
  <2>2. phase = "merge" /\ UNCHANGED <<internals, dominateable, outer>>
    BY <1>2 DEF Compare, sets
  <2>3. mj \in Module /\ outer \in Module
    BY <1>0, NumModulesAssumption DEF Later, LoopsInStep, TypeOK, Module
  <2>4. mj \in Module /\ outer \in Module /\ dominator \in [Module -> Module]
    BY <1>0, <2>3 DEF TypeOK
  <2>5. Dominated(outer) => \E u \in Module : /\ ~Dominated(u) /\ dominateable[u]
                                              /\ internals[outer] \subseteq internals[u]
                                              /\ internals[u] # internals[outer]
    BY <1>0, <2>1, <2>2, <2>4 DEF DominatedStrictly
  <2>6. CASE dominator' = dominator
    BY <2>2, <2>6 DEF DominatedByItsKind, Dominated
  <2> DEFINE Own(m, u) == ~Dominated(u)' /\ dominateable[u] /\ internals[m] \subseteq internals[u]
  <2>7. CASE /\ ~Dominated(mj) /\ dominateable[outer] /\ dominateable[mj]
             /\ Contains(outer, mj) /\ dominator' = [dominator EXCEPT ![mj] = outer]
    <3>1. internals[mj] \subseteq internals[outer]
      BY <2>7 DEF Contains
    <3>2. \A k \in Module : k # mj => (Dominated(k)' <=> Dominated(k))
      BY <2>4, <2>7 DEF Dominated
    <3>3. \E u \in Module : Own(outer, u)
      <4>1. CASE Dominated(outer)
        BY <2>5, <3>1, <3>2, <4>1
      <4>2. CASE ~Dominated(outer)
        <5>1. ~Dominated(outer)'
          BY <2>2, <2>4, <2>7, <4>2 DEF Dominated
        <5> QED BY <2>2, <2>4, <2>7, <5>1 DEF Dominated
      <4> QED BY <4>1, <4>2
    <3>4. ASSUME NEW m \in Module, Dominated(m)'
          PROVE  dominateable[m] /\ \E u \in Module : Own(m, u)
      <4>1. CASE m = mj
        BY <2>7, <3>1, <3>3, <4>1
      <4>2. CASE m # mj
        <5>1. PICK u \in Module : ~Dominated(u) /\ dominateable[u]
                                  /\ internals[m] \subseteq internals[u] /\ dominateable[m]
          BY <3>2, <3>4, <4>2 DEF DominatedByItsKind
        <5>2. CASE u = mj
          BY <3>1, <3>3, <5>1, <5>2
        <5>3. CASE u # mj
          BY <3>2, <5>1, <5>3
        <5> QED BY <5>2, <5>3
      <4> QED BY <4>1, <4>2
    <3> QED BY <2>2, <3>4 DEF DominatedByItsKind, Dominated
  <2>8. CASE /\ ~Dominated(mj) /\ dominateable[outer] /\ dominateable[mj]
             /\ ~Contains(outer, mj) /\ Contains(mj, outer)
             /\ dominator' = [dominator EXCEPT ![outer] = mj]
    <3>1. internals[outer] \subseteq internals[mj] /\ mj # outer
      BY <2>8 DEF Contains
    <3>2. \A k \in Module : k # outer => (Dominated(k)' <=> Dominated(k))
      BY <2>4, <2>8 DEF Dominated
    <3>3. Own(outer, mj)
      BY <2>4, <2>8, <3>1, <3>2
    <3>4. ASSUME NEW m \in Module, Dominated(m)'
          PROVE  dominateable[m] /\ \E u \in Module : Own(m, u)
      <4>1. CASE m = outer
        BY <2>4, <2>8, <3>3, <4>1
      <4>2. CASE m # outer
        <5>1. PICK u \in Module : ~Dominated(u) /\ dominateable[u]
                                  /\ internals[m] \subseteq internals[u] /\ dominateable[m]
          BY <3>2, <3>4, <4>2 DEF DominatedByItsKind
        <5>2. CASE u = outer
          BY <2>4, <3>1, <3>3, <5>1, <5>2
        <5>3. CASE u # outer
          BY <3>2, <5>1, <5>3
        <5> QED BY <5>2, <5>3
      <4> QED BY <4>1, <4>2
    <3> QED BY <2>2, <3>4 DEF DominatedByItsKind, Dominated
  <2> QED BY <2>1, <2>6, <2>7, <2>8, Zenon
<1>3. CASE \/ StartMerge \/ TakeOuter \/ EndNode \/ StartCleanup \/ KeepModule \/ DeleteModule
           \/ AbortDelete \/ EndCleanup \/ MarkConflicting \/ Solve \/ AbortSolve
           \/ UNCHANGED vars
  <2>1. UNCHANGED <<internals, dominateable, dominator>>
    BY <1>3 DEF StartMerge, TakeOuter, EndNode, StartCleanup, KeepModule, DeleteModule,
                AbortDelete, EndCleanup, MarkConflicting, Solve, AbortSolve, sets, vars
  <2> QED BY <2>1 DEF DominatedByItsKind, Dominated
<1> QED BY <1>1, <1>2, <1>3 DEF Next

(* A module once deleted for a reason keeps it: is_bad and dominator only  *)
(* ever gain members.                                                      *)
LEMMA LostGoStep ==
  ListsInv /\ NoneDominatedYet /\ LostGo /\ [Next]_vars => LostGo'
<1> SUFFICES ASSUME ListsInv, NoneDominatedYet, LostGo, [Next]_vars PROVE LostGo'
  OBVIOUS
<1>0. TypeOK /\ NothingKept /\ ListedOnce /\ NothingKept'
  BY ListsStep DEF ListsInv
<1> DEFINE Here(m) == internals[m] = {} \/ m \in Alive \/ Goes(m)
<1>1. ASSUME NEW m \in Module, NEW shape \in Shapes, CreateModule(m, shape) PROVE LostGo'
  <2>1. /\ phase = "create" /\ modules' = Append(modules, m) /\ is_bad \subseteq is_bad'
        /\ UNCHANGED <<dominator, kept, index, solved, phase>>
        /\ \A k \in Module : k # m => internals'[k] = internals[k]
    BY <1>0, <1>1 DEF CreateModule, TypeOK
  <2>2. Ahead' = Ahead \cup {m} /\ Kept' = Kept
    <3>1. index = 1 /\ modules \in Seq(Module)
      BY <1>0, <2>1 DEF NothingKept, TypeOK
    <3>2. /\ DOMAIN modules = 1..Len(modules) /\ DOMAIN modules' = 1..(Len(modules) + 1)
          /\ \A i \in 1..Len(modules) : modules'[i] = modules[i]
          /\ modules'[Len(modules) + 1] = m /\ Len(modules) \in Nat
      BY <2>1, <3>1, AppendFacts
    <3>3. Ahead' \subseteq Ahead \cup {m}
      BY <2>1, <3>1, <3>2 DEF Ahead
    <3>4. Ahead \cup {m} \subseteq Ahead'
      BY <2>1, <3>1, <3>2 DEF Ahead
    <3> QED BY <2>1, <3>3, <3>4 DEF Kept
  <2> QED BY <2>1, <2>2 DEF LostGo, Alive, Goes, Dominated
<1>2. CASE Compare
  <2>1. PICK mj \in Later(inner) :
          dominator' =
            IF Dominated(mj) \/ ~dominateable[outer] \/ ~dominateable[mj]
            THEN dominator
            ELSE IF Contains(outer, mj) THEN [dominator EXCEPT ![mj] = outer]
            ELSE IF Contains(mj, outer) THEN [dominator EXCEPT ![outer] = mj]
            ELSE dominator
    BY <1>2 DEF Compare
  <2>2. UNCHANGED <<internals, is_bad, modules, kept, index, solved>>
    BY <1>2 DEF Compare, sets
  <2>3. Contains(mj, mj)
    BY DEF Contains
  <2>4. \A m \in Module : Goes(m) => Goes(m)'
    <3>1. dominator \in [Module -> Module]
      BY <1>0 DEF TypeOK
    <3>2. \A m \in Module : Dominated(m) => Dominated(m)'
      BY <2>1, <2>3, <3>1 DEF Dominated
    <3> QED BY <2>2, <3>2 DEF Goes
  <2> QED BY <2>2, <2>4 DEF LostGo, Alive, Ahead, Kept
<1>3. CASE \/ StartMerge \/ TakeOuter \/ EndNode \/ StartCleanup
           \/ AbortDelete \/ MarkConflicting \/ AbortSolve \/ UNCHANGED vars
  <2>1. UNCHANGED <<internals, is_bad, dominator, modules, kept, index, solved>>
    BY <1>3 DEF StartMerge, TakeOuter, EndNode, StartCleanup, AbortDelete, MarkConflicting,
                AbortSolve, sets, vars
  <2> QED BY <2>1 DEF LostGo, Alive, Ahead, Kept, Goes, Dominated
<1>4. CASE KeepModule \/ DeleteModule
  <2>1. /\ index \in DOMAIN modules /\ index' = index + 1
        /\ UNCHANGED <<config, modules, internals, is_bad, dominator, solved>>
    BY <1>4 DEF KeepModule, DeleteModule, sets
  <2>2. modules[index] \in Module /\ Ahead' = Ahead \ {modules[index]}
    BY <1>0, <2>1, Advance
  <2>3. \/ Goes(modules[index]) /\ Kept' = Kept
        \/ Kept' = Kept \cup {modules[index]}
    <3>1. CASE KeepModule
      BY <1>0, <2>2, <3>1, KeptAppended DEF KeepModule
    <3>2. CASE DeleteModule
      BY <3>2 DEF DeleteModule, Kept
    <3> QED BY <1>4, <3>1, <3>2
  <2> QED BY <2>1, <2>2, <2>3 DEF LostGo, Alive, Goes, Dominated
<1>5. CASE EndCleanup
  <2>1. /\ index = Len(modules) + 1 /\ modules' = kept /\ kept' = <<>> /\ index' = 1
        /\ UNCHANGED <<internals, is_bad, dominator, solved>>
    BY <1>5 DEF EndCleanup, sets
  <2>2. Ahead = {}
    BY <1>0, <2>1, ListFacts DEF Ahead
  <2>3. Ahead' = Kept
    BY <1>0, <2>1, ListFacts DEF Ahead, Kept
  <2> QED BY <2>1, <2>2, <2>3 DEF LostGo, Alive, Goes, Dominated
<1>6. CASE Solve
  BY <1>6 DEF Solve, LostGo
<1> QED BY <1>1, <1>2, <1>3, <1>4, <1>5, <1>6 DEF Next

(* What the cleanups keep, and what the integer program leaves.            *)
ResultInv ==
  /\ ViewsInv
  /\ KeptAreGood /\ ConflictsAreShared /\ SharedAreBad /\ SolvedInTime /\ NumbersArePlaces

ResultStep ==
  KeptAreGood' /\ ConflictsAreShared' /\ SharedAreBad' /\ SolvedInTime' /\ NumbersArePlaces'

(* In a list without repetitions renumberModules gives each its place.     *)
LEMMA NumberedIsPlace ==
  ASSUME NEW list \in Seq(Module), NEW i \in DOMAIN list,
         \A j, k \in DOMAIN list : list[j] = list[k] => j = k
  PROVE  Numbered(list)[list[i]] = i - 1
<1>1. list[i] \in Module
  OBVIOUS
<1>2. (CHOOSE j \in DOMAIN list : list[j] = list[i]) = i
  OBVIOUS
<1> QED BY <1>1, <1>2 DEF Numbered

LEMMA ResultsStep == ResultInv /\ [Next]_vars => ResultStep
<1> SUFFICES ASSUME ResultInv, [Next]_vars PROVE ResultStep
  OBVIOUS
<1> USE DEF ResultStep
<1>0. /\ ViewsInv /\ TypeOK /\ NothingKept /\ ListedOnce /\ NodesNameAlive
      /\ KeptAreGood /\ ConflictsAreShared /\ SharedAreBad /\ SolvedInTime /\ NumbersArePlaces
  BY DEF ResultInv, ViewsInv, ListsInv
<1>1. ASSUME NEW m \in Module, NEW shape \in Shapes, CreateModule(m, shape) PROVE ResultStep
  <2>1. phase = "create" /\ phase' = "create" /\ kept' = <<>>
    BY <1>0, <1>1 DEF CreateModule, NothingKept
  <2>2. Kept' = {}
    BY <2>1 DEF Kept
  <2>3. SharedAreBad'
    <3> SUFFICES ASSUME solved', NEW n \in Node, NEW k \in node_modules'[n],
                        NEW l \in node_modules'[n], k # l
                 PROVE  k \in is_bad' \/ l \in is_bad'
      BY DEF SharedAreBad
    <3>1. solved' = solved
      BY <1>1 DEF CreateModule
    <3> QED BY <1>0, <2>1, <3>1 DEF SolvedInTime
  <2>4. solved' = solved /\ config' = config
    BY <1>1 DEF CreateModule
  <2> QED BY <1>0, <2>1, <2>2, <2>3, <2>4 DEF KeptAreGood, ConflictsAreShared, SolvedInTime, NumbersArePlaces
<1>2. CASE StartMerge
  <2>1. /\ phase = "create" /\ phase' \in {"done", "merge", "cleanup"}
        /\ phase' = "done" => modules = <<>>
        /\ UNCHANGED <<config, modules, kept, is_bad, node_modules, solved>>
    BY <1>2 DEF StartMerge, sets
  <2>2. kept' = <<>> /\ Kept' = {}
    BY <1>0, <2>1 DEF NothingKept, Kept
  <2>3. phase' = "done" => Listed' = {} /\ DOMAIN modules' = {}
    BY <2>1 DEF Listed
  <2> QED BY <1>0, <2>1, <2>2, <2>3 DEF KeptAreGood, ConflictsAreShared, SharedAreBad, SolvedInTime,
                                       NumbersArePlaces
<1>3. CASE TakeOuter \/ Compare \/ EndNode \/ StartCleanup
  <2>1. /\ phase' \in {"merge", "cleanup"} /\ phase = "merge"
        /\ UNCHANGED <<config, modules, kept, is_bad, node_modules, solved>>
    BY <1>3 DEF TakeOuter, Compare, EndNode, StartCleanup, sets
  <2>2. kept' = <<>> /\ Kept' = {}
    BY <1>0, <2>1 DEF NothingKept, Kept
  <2> QED BY <1>0, <2>1, <2>2 DEF KeptAreGood, ConflictsAreShared, SharedAreBad, SolvedInTime,
                                 NumbersArePlaces
<1>4. CASE KeepModule
  <2> DEFINE m == modules[index]
  <2>1. /\ phase = "cleanup" /\ phase' = "cleanup" /\ index \in DOMAIN modules /\ ~Goes(m)
        /\ kept' = Append(kept, m) /\ index' = index + 1
        /\ conflicting' = [conflicting EXCEPT ![m] = {}]
        /\ UNCHANGED <<modules, is_bad, node_modules, solved>>
    BY <1>4 DEF KeepModule, sets
  <2>2. m \in Module /\ Kept' = Kept \cup {m}
    BY <1>0, <2>1, Advance, KeptAppended
  <2>3. conflicting \in [Module -> SUBSET Module] /\ Kept \subseteq Module
    BY <1>0, ListFacts DEF TypeOK
  <2> HIDE DEF m
  <2>4. conflicting'[m] = {} /\ m \notin is_bad'
    BY <2>1, <2>2, <2>3 DEF Goes
  <2>5. \A k \in Kept : conflicting'[k] = {}
    BY <1>0, <2>1, <2>2, <2>3 DEF KeptAreGood
  <2>6. \A k \in Kept' : k \notin is_bad' /\ conflicting'[k] = {}
    BY <1>0, <2>1, <2>2, <2>4, <2>5 DEF KeptAreGood
  <2>7. KeptAreGood'
    BY <2>1, <2>6 DEF KeptAreGood
  <2> QED BY <1>0, <2>1, <2>7 DEF ConflictsAreShared, SharedAreBad, SolvedInTime, NumbersArePlaces
<1>5. CASE DeleteModule
  <2>1. /\ phase = "cleanup" /\ phase' = "cleanup"
        /\ UNCHANGED <<config, modules, kept, is_bad, conflicting, solved>>
    BY <1>5 DEF DeleteModule
  <2>2. \A n \in Node : node_modules'[n] \subseteq node_modules[n]
    BY <1>5 DEF DeleteModule
  <2>3. SharedAreBad'
    BY <1>0, <2>1, <2>2 DEF SharedAreBad
  <2>4. KeptAreGood'
    BY <1>0, <2>1 DEF KeptAreGood, Kept
  <2> QED BY <2>1, <2>3, <2>4 DEF ConflictsAreShared, SolvedInTime, NumbersArePlaces
<1>6. CASE AbortDelete \/ AbortSolve
  <2>1. phase' = "aborted" /\ UNCHANGED <<config, modules, kept, is_bad, conflicting, node_modules, solved>>
    BY <1>6 DEF AbortDelete, AbortSolve, sets
  <2> QED BY <1>0, <2>1 DEF KeptAreGood, ConflictsAreShared, SharedAreBad, SolvedInTime,
                           NumbersArePlaces, Kept
<1>7. CASE EndCleanup
  <2>1. /\ phase' = (IF config.eliminateOverlaps THEN "mark" ELSE "done")
        /\ modules' = kept /\ kept' = <<>> /\ number' = Numbered(kept)
        /\ UNCHANGED <<config, is_bad, conflicting, node_modules, solved>>
    BY <1>7 DEF EndCleanup, sets
  <2>2. Listed' = Kept /\ Kept' = {}
    BY <2>1 DEF Listed, Kept
  <2>3. KeptAreGood'
    BY <1>0, <2>1, <2>2 DEF KeptAreGood
  <2>4. ConflictsAreShared'
    BY <1>0, <2>1, <2>2 DEF KeptAreGood, ConflictsAreShared
  <2>5. NumbersArePlaces'
    <3>1. kept \in Seq(Module)
      BY <1>0 DEF TypeOK
    <3>2. \A k, l \in DOMAIN kept : kept[k] = kept[l] => k = l
      BY <1>0 DEF ListedOnce
    <3>3. \A k \in DOMAIN kept : Numbered(kept)[kept[k]] = k - 1
      BY <3>1, <3>2, NumberedIsPlace
    <3> QED BY <2>1, <3>3 DEF NumbersArePlaces
  <2> QED BY <1>0, <2>1, <2>3, <2>4, <2>5 DEF SharedAreBad, SolvedInTime
<1>8. CASE MarkConflicting
  <2>1. /\ phase = "mark" /\ phase' = (IF solved THEN "done" ELSE "solve")
        /\ number' = Numbered(modules)
        /\ conflicting' =
             IF ~config.glpk /\ ~solved THEN conflicting
             ELSE [m \in Module |->
                     conflicting[m] \cup
                       UNION {node_modules[n] \ {m} : n \in {k \in Node : m \in node_modules[k]}}]
        /\ UNCHANGED <<config, modules, kept, is_bad, node_modules, solved>>
    BY <1>8 DEF MarkConflicting, sets
  <2>2. kept = <<>> /\ Kept' = {} /\ Listed' = Listed /\ Listed \subseteq Module
    BY <1>0, <2>1, ListFacts DEF NothingKept, Kept, Listed
  <2>3. KeptAreGood'
    BY <1>0, <2>1, <2>2 DEF KeptAreGood
  <2>4. ConflictsAreShared'
    <3> SUFFICES ASSUME NEW m \in Listed, NEW k \in conflicting'[m]
                 PROVE  k # m /\ \E n \in Node : m \in node_modules[n] /\ k \in node_modules[n]
      BY <2>1, <2>2 DEF ConflictsAreShared
    <3>1. conflicting[m] = {}
      BY <1>0, <2>1 DEF KeptAreGood
    <3>2. conflicting'[m] =
            conflicting[m] \cup
              UNION {node_modules[n] \ {m} : n \in {l \in Node : m \in node_modules[l]}}
      BY <2>1, <2>2, <3>1
    <3>3. PICK n \in Node : m \in node_modules[n] /\ k \in node_modules[n] \ {m}
      BY <3>1, <3>2
    <3> QED BY <3>3
  <2>5. NumbersArePlaces'
    <3>1. modules \in Seq(Module)
      BY <1>0 DEF TypeOK
    <3>2. \A j, k \in DOMAIN modules : modules[j] = modules[k] => j = k
      BY <1>0 DEF ListedOnce
    <3>3. \A i \in DOMAIN modules : Numbered(modules)[modules[i]] = i - 1
      BY <3>1, <3>2, NumberedIsPlace
    <3> QED BY <2>1, <3>3 DEF NumbersArePlaces
  <2> QED BY <1>0, <2>1, <2>3, <2>4, <2>5 DEF SharedAreBad, SolvedInTime
<1>9. CASE Solve
  <2>1. /\ phase = "solve" /\ phase' = "cleanup"
        /\ UNCHANGED <<config, modules, kept, conflicting, node_modules>>
    BY <1>9 DEF Solve, sets
  <2>2. PICK S \in SUBSET Listed : Solution(S) /\ is_bad' = is_bad \cup (Listed \ S)
    BY <1>9 DEF Solve
  <2>3. Feasible(S)
    BY <2>2 DEF Solution
  <2>4. Alive = Listed /\ kept = <<>>
    BY <1>0, <2>1, AllAhead DEF NothingKept
  <2>5. SharedAreBad'
    <3> SUFFICES ASSUME NEW n \in Node, NEW m \in node_modules[n], NEW k \in node_modules[n], m # k
                 PROVE  m \in is_bad' \/ k \in is_bad'
      BY <2>1 DEF SharedAreBad
    <3>1. m \in Listed /\ k \in Listed
      BY <1>0, <2>4 DEF NodesNameAlive
    <3>2. m \notin S \/ k \notin S
      BY <1>0, <2>3, FeasibleChoosesOne
    <3> QED BY <2>2, <3>1, <3>2
  <2>6. Kept' = {}
    BY <2>1, <2>4 DEF Kept
  <2> QED BY <2>1, <2>5, <2>6 DEF KeptAreGood, ConflictsAreShared, SolvedInTime, NumbersArePlaces
<1>10. CASE UNCHANGED vars
  BY <1>0, <1>10 DEF vars, KeptAreGood, ConflictsAreShared, SharedAreBad, SolvedInTime,
                     NumbersArePlaces, Kept, Listed
<1> QED
  BY <1>1, <1>2, <1>3, <1>4, <1>5, <1>6, <1>7, <1>8, <1>9, <1>10 DEF Next

-----------------------------------------------------------------------------
(* The theorems.                                                           *)

LEMMA IInvStep == IInv /\ [Next]_vars => IInv'
<1> SUFFICES ASSUME IInv, [Next]_vars PROVE IInv'
  OBVIOUS
<1>1. TypeOK'
  BY TypeOKStep DEF IInv
<1>2. NothingKept' /\ ListedOnce' /\ LoopsInStep'
  BY ListsStep DEF IInv, ListsInv
<1>3. NodesNameAlive' /\ UnnamedAreSiblings'
  BY ViewsStep DEF IInv, ListsInv, ViewsInv
<1>4. NoneDominatedYet' /\ DominatedStrictly' /\ DominatedIsCovered'
  BY DominationStep DEF IInv, DominationInv
<1>6. DominatedByItsKind'
  BY ByItsKindStep DEF IInv, DominationInv
<1>7. LostGo'
  BY LostGoStep DEF IInv, ListsInv
<1>5. ResultStep
  BY ResultsStep DEF IInv, ListsInv, ViewsInv, ResultInv
<1> QED BY <1>1, <1>2, <1>3, <1>4, <1>5, <1>6, <1>7 DEF IInv, ResultStep

LEMMA IInvHolds == Spec => []IInv
BY InitEstablishesIInv, IInvStep, PTL DEF Spec

(* The types of what merge_modules keeps.                                  *)
THEOREM OverlapTypeCorrect == Spec => []TypeOK
<1>1. IInv => TypeOK
  BY DEF IInv
<1> QED BY <1>1, IInvHolds, PTL

(* node_t::merge_modules never dominates a module away without another     *)
(* module that nothing dominates and that holds all of its nodes.          *)
THEOREM NoMergeLosesNodes == Spec => []DominatedIsCovered
<1>1. IInv => DominatedIsCovered
  BY DEF IInv
<1> QED BY <1>1, IInvHolds, PTL

(* node_t::modules and internals differ in added siblings only.            *)
THEOREM NodesAndModulesAgree == Spec => []ViewsAgree
<1>1. IInv => ViewsAgree
  <2> SUFFICES ASSUME IInv, phase \notin {"cleanup", "aborted"} PROVE ViewsAgree
    BY DEF ViewsAgree
  <2>1. Alive = Listed
    BY AllAhead DEF IInv
  <2> QED BY <2>1 DEF IInv, NodesNameAlive, UnnamedAreSiblings, ViewsAgree
<1> QED BY <1>1, IInvHolds, PTL

(* No living module names a deleted one among its conflicts.               *)
LEMMA NoDanglingConflicts == IInv => NoDeletedConflict
  <1> SUFFICES ASSUME IInv, phase \in {"solve", "done"}, NEW m \in Listed, NEW k \in conflicting[m]
               PROVE  k \in Listed \ {m}
    BY DEF NoDeletedConflict
  <1>1. Alive = Listed
    BY AllAhead DEF IInv
  <1>2. k # m /\ \E n \in Node : k \in node_modules[n]
    BY DEF IInv, ConflictsAreShared
  <1> QED BY <1>1, <1>2 DEF IInv, NodesNameAlive

(* Whatever optimal choice the solver returns, the modules that remain     *)
(* overlap in sibling gates at most.                                       *)
THEOREM OverlapsGetResolved == Spec => []OverlapsResolved
<1>1. IInv => OverlapsResolved
  <2> SUFFICES ASSUME IInv, phase = "done", config.eliminateOverlaps,
                      NEW m \in Listed, NEW k \in Listed, m # k
               PROVE  /\ internals[m] \cap internals[k] \subseteq UNION (Siblings \ LatchPairs)
                      /\ k \notin conflicting[m]
    BY NoDanglingConflicts DEF OverlapsResolved
  <2>1. Alive = Listed
    BY AllAhead DEF IInv
  <2>2. solved
    BY DEF IInv, SolvedInTime
  <2>3. m \notin is_bad /\ k \notin is_bad
    BY DEF IInv, KeptAreGood
  <2>4. ASSUME NEW n \in Node, m \in node_modules[n], k \in node_modules[n] PROVE FALSE
    BY <2>2, <2>3, <2>4 DEF IInv, SharedAreBad
  <2>5. k \notin conflicting[m]
    BY <2>4 DEF IInv, ConflictsAreShared
  <2>6. ASSUME NEW n \in internals[m] \cap internals[k], n \notin UNION (Siblings \ LatchPairs) PROVE FALSE
    <3>1. n \in Node
      BY ListFacts DEF IInv, TypeOK
    <3>2. Added({n}) = {}
      BY <2>6 DEF Added
    <3>3. m \in node_modules[n] /\ k \in node_modules[n]
      BY <2>1, <3>2 DEF IInv, UnnamedAreSiblings
    <3> QED BY <2>4, <3>1, <3>3
  <2> QED BY <2>5, <2>6
<1> QED BY <1>1, IInvHolds, PTL

(* The first cleanup deletes a good module only if others may dominate it  *)
(* and a module of that kind holds all of its nodes.                       *)
THEOREM GoodIsKeptOrCovered == Spec => []GoodStaysCovered
<1>1. IInv => GoodStaysCovered
  <2> SUFFICES ASSUME IInv, phase \in {"mark", "solve", "done"}, ~solved, NEW m \in Module,
                      m \notin is_bad, m \notin Listed, internals[m] # {}
               PROVE  /\ dominateable[m]
                      /\ \E u \in Listed \cup is_bad :
                            dominateable[u] /\ internals[m] \subseteq internals[u]
    BY DEF GoodStaysCovered
  <2>1. Alive = Listed
    BY AllAhead DEF IInv
  <2>2. Dominated(m)
    BY <2>1 DEF IInv, LostGo, Goes
  <2>3. PICK u \in Module : ~Dominated(u) /\ dominateable[u] /\ internals[m] \subseteq internals[u]
    BY <2>2 DEF IInv, DominatedByItsKind
  <2>4. u \in Listed \cup is_bad
    BY <2>1, <2>3 DEF IInv, LostGo, Goes
  <2> QED BY <2>2, <2>3, <2>4 DEF IInv, DominatedByItsKind
<1> QED BY <1>1, IInvHolds, PTL

(* The columns of the integer program are the places of the modules.       *)
THEOREM ColumnsArePlaces == Spec => []NumbersArePlaces
<1>1. IInv => NumbersArePlaces
  BY DEF IInv
<1> QED BY <1>1, IInvHolds, PTL
=============================================================================
