--------------------------- MODULE ModuleOverlap ---------------------------
(***************************************************************************)
(* The life of the inferred modules (id_module_t) and the resolution of    *)
(* their overlaps, flat_module_t::merge_modules:                           *)
(*   - modules are created; compute_internals enters them in node_t::      *)
(*     modules of the nodes inside them (node_modules here);               *)
(*   - in the GLPK build only, node_t::merge_modules, node by node, marks  *)
(*     modules that others contain as dominated;                           *)
(*   - cleanup_modules deletes what is bad or dominated;                   *)
(*   - if asked to, an integer program chooses modules no two of which     *)
(*     share a node, and cleanup_modules deletes the others.               *)
(* The inside of a module is kept twice, in the module and in its nodes,   *)
(* and deleting a module asserts that the two agree.                       *)
(***************************************************************************)
EXTENDS Integers, Sequences, FiniteSets

CONSTANTS
  NumNodes,   \* number of nodes; a node is its rank by name
  NumModules, \* bound: modules that may be created
  Siblings,   \* pairs: the outputs of a cell, a latch and its latch gate
  LatchPairs, \* those that are a latch and its latch gate
  Shapes,     \* what a module may be created as
  Configs     \* the builds and options to look at

Node == 1..NumNodes

(* A module is its address: std::set<id_module_t*> iterates in its order,  *)
(* and modules are allocated at any.                                       *)
Module == 1..NumModules

(* The nodes inside, whether another module may dominate it (id_module_t:: *)
(* isDominateable), whether an output is a latch gate (or, of a candidate  *)
(* that words bound, a latch is inside), and whether it is computed by     *)
(* compute_internals2, which adds sibling gates.                           *)
Shape == [inside : (SUBSET Node) \ {{}}, dominateable : BOOLEAN,
          cuts_latch : BOOLEAN, siblings : BOOLEAN]

(* The solver is GLPK, or CPLEX by the makefile's default.  CPLEX solves   *)
(* the program without slices (options.sliceableILP is off).               *)
Config == [glpk : BOOLEAN, eliminateOverlaps : BOOLEAN]

ASSUME NumNodesAssumption == NumNodes \in Nat
ASSUME NumModulesAssumption == NumModules \in Nat \ {0}
ASSUME SiblingsAssumption ==
  /\ \A p \in Siblings : p \subseteq Node /\ Cardinality(p) = 2
  /\ \A p, q \in Siblings : p # q => p \cap q = {}
ASSUME LatchPairsAssumption == LatchPairs \subseteq Siblings
ASSUME ShapesAssumption == Shapes \subseteq Shape
ASSUME ConfigsAssumption == Configs \subseteq Config

VARIABLES
  config,       \* the build and the options; does not change
  modules,      \* flat_module_t::modules
  internals,    \* id_module_t::internals
  dominateable, \* id_module_t::isDominateable
  is_bad,       \* id_module_t::is_bad, as the set of modules it holds for
  dominator,    \* id_module_t::dominator
  number,       \* id_module_t::moduleNumber
  conflicting,  \* id_module_t::conflicting_modules
  node_modules, \* node_t::modules
  node,         \* the loop counters of merge_modules: the node,
  outer,        \*   the module `mi'
  inner,        \*   and the last module `mj' it was compared with
  kept,         \* new_modules of cleanup_modules
  index,        \* the loop counter of cleanup_modules
  solved,       \* whether the integer program was solved
  phase         \* what runs

sets == <<internals, dominateable, node_modules>>
cursor == <<node, outer, inner>>
vars == <<config, modules, internals, dominateable, is_bad, dominator, number,
          conflicting, node_modules, node, outer, inner, kept, index, solved,
          phase>>

Phase == {"create", "merge", "cleanup", "mark", "solve", "done", "aborted"}

Listed == {modules[i] : i \in DOMAIN modules}
Dominated(m) == dominator[m] # m

(* What the solver is given: a row for each node with several modules, and *)
(* in it an entry for each of them.                                        *)
Rows == {n \in Node : Cardinality(node_modules[n]) > 1}
Entries == UNION {{<<n, m>> : m \in node_modules[n]} : n \in Rows}

Init ==
  /\ config \in Configs
  /\ modules = <<>>
  /\ internals = [m \in Module |-> {}]
  /\ dominateable = [m \in Module |-> FALSE]
  /\ is_bad = {}
  /\ dominator = [m \in Module |-> m]
  /\ number = [m \in Module |-> 0]
  /\ conflicting = [m \in Module |-> {}]
  /\ node_modules = [n \in Node |-> {}]
  /\ node = 1 /\ outer = 0 /\ inner = NumModules
  /\ kept = <<>> /\ index = 1
  /\ solved = FALSE
  /\ phase = "create"
-----------------------------------------------------------------------------
Partners(S) == UNION {p \in Siblings : p \cap S # {}}

(* add_sibling_gates passes over latches and their gates.                  *)
Added(S) == UNION {p \in Siblings \ LatchPairs : p \cap S # {}}

(* id_module_t::mark_bad: a latch gate is no output, and siblings are      *)
(* inside together or not at all.                                          *)
Bad(shape, S) == shape.cuts_latch \/ ~(Partners(S) \subseteq S)

(* compute_internals or compute_internals2, then add_module.               *)
(* compute_internals2 adds the siblings after it has entered the module    *)
(* in node_t::modules.                                                     *)
CreateModule(m, shape) ==
  LET S == IF shape.siblings THEN shape.inside \cup Added(shape.inside)
           ELSE shape.inside
  IN  /\ phase = "create"
      /\ m \notin Listed
      /\ modules' = Append(modules, m)
      /\ internals' = [internals EXCEPT ![m] = S]
      /\ node_modules' = [n \in Node |->
                            IF n \in shape.inside THEN node_modules[n] \cup {m}
                            ELSE node_modules[n]]
      /\ dominateable' = [dominateable EXCEPT ![m] = shape.dominateable]
      /\ is_bad' = IF Bad(shape, S) THEN is_bad \cup {m} ELSE is_bad
      /\ number' = [number EXCEPT ![m] = Len(modules)]
      /\ UNCHANGED <<config, dominator, conflicting, cursor, kept, index, solved, phase>>

(* merge_modules is called; with no module it returns.  The CPLEX build    *)
(* leaves domination out.                                                  *)
StartMerge ==
  /\ phase = "create"
  /\ phase' = IF modules = <<>> THEN "done"
               ELSE IF config.glpk THEN "merge" ELSE "cleanup"
  /\ UNCHANGED <<config, modules, sets, is_bad, dominator, number, conflicting, cursor,
                 kept, index, solved>>
-----------------------------------------------------------------------------
(* node_t::merge_modules.                                                  *)

Later(m) == IF node \in Node THEN {k \in node_modules[node] : k > m} ELSE {}
IsFirst(k, S) == k \in S /\ \A l \in S : k <= l

(* Mutant: the containment is swapped.                                     *)
ContainedIn(mi, mj) == internals[mi] \subseteq internals[mj]
(* id_module_t::contains.                                                  *)
Contains(mi, mj) == internals[mj] \subseteq internals[mi]

(* The next module `mi', unless it is dominated already.                   *)
TakeOuter ==
  /\ phase = "merge"
  /\ Later(inner) = {}
  /\ \E k \in Later(outer) :
       /\ IsFirst(k, Later(outer))
       /\ outer' = k
       /\ inner' = IF Dominated(k) THEN NumModules ELSE k
  /\ UNCHANGED <<config, modules, sets, is_bad, dominator, number, conflicting, node,
                 kept, index, solved, phase>>

(* Mutant: mj may be of any kind.                                          *)
CompareAnyKind ==
  /\ phase = "merge"
  /\ \E mj \in Later(inner) :
       /\ IsFirst(mj, Later(inner))
       /\ inner' = mj
       /\ dominator' =
            IF Dominated(mj) \/ ~dominateable[outer] THEN dominator
            ELSE IF Contains(outer, mj) THEN [dominator EXCEPT ![mj] = outer]
            ELSE IF Contains(mj, outer) THEN [dominator EXCEPT ![outer] = mj]
            ELSE dominator
  /\ UNCHANGED <<config, modules, sets, is_bad, number, conflicting, node, outer, kept,
                 index, solved, phase>>

(* The next module `mj' is compared with `mi'; `mi' itself may have become *)
(* dominated in between.                                                   *)
Compare ==
  /\ phase = "merge"
  /\ \E mj \in Later(inner) :
       /\ IsFirst(mj, Later(inner))
       /\ inner' = mj
       /\ dominator' =
            IF Dominated(mj) \/ ~dominateable[outer] \/ ~dominateable[mj]
            THEN dominator
            ELSE IF Contains(outer, mj) THEN [dominator EXCEPT ![mj] = outer]
            ELSE IF Contains(mj, outer) THEN [dominator EXCEPT ![outer] = mj]
            ELSE dominator
  /\ UNCHANGED <<config, modules, sets, is_bad, number, conflicting, node, outer, kept,
                 index, solved, phase>>

EndNode ==
  /\ phase = "merge"
  /\ node \in Node
  /\ Later(inner) = {} /\ Later(outer) = {}
  /\ node' = node + 1
  /\ outer' = 0 /\ inner' = NumModules
  /\ UNCHANGED <<config, modules, sets, is_bad, dominator, number, conflicting, kept,
                 index, solved, phase>>

StartCleanup ==
  /\ phase = "merge"
  /\ node = NumNodes + 1
  /\ phase' = "cleanup"
  /\ UNCHANGED <<config, modules, sets, is_bad, dominator, number, conflicting, cursor,
                 kept, index, solved>>
-----------------------------------------------------------------------------
(* cleanup_modules.                                                        *)

Goes(m) == m \in is_bad \/ Dominated(m)

(* Mutant: the conflicts are not cleared.                                  *)
KeepModuleAndConflicts ==
  /\ phase = "cleanup"
  /\ index \in DOMAIN modules
  /\ ~Goes(modules[index])
  /\ kept' = Append(kept, modules[index])
  /\ index' = index + 1
  /\ UNCHANGED <<config, modules, sets, is_bad, dominator, number, conflicting, cursor,
                 solved, phase>>

KeepModule ==
  /\ phase = "cleanup"
  /\ index \in DOMAIN modules
  /\ ~Goes(modules[index])
  /\ kept' = Append(kept, modules[index])
  /\ conflicting' = [conflicting EXCEPT ![modules[index]] = {}]
  /\ index' = index + 1
  /\ UNCHANGED <<config, modules, sets, is_bad, dominator, number, cursor, solved, phase>>

(* The destructor takes the module out of the nodes it thinks are inside.  *)
Removable(m) == \A n \in internals[m] : m \in node_modules[n]

(* Mutant: the nodes keep the module.                                      *)
DeleteModuleOnly ==
  /\ phase = "cleanup"
  /\ index \in DOMAIN modules
  /\ Goes(modules[index])
  /\ index' = index + 1
  /\ UNCHANGED <<config, modules, sets, is_bad, dominator, number, conflicting, cursor,
                 kept, solved, phase>>

DeleteModule ==
  /\ phase = "cleanup"
  /\ index \in DOMAIN modules
  /\ LET m == modules[index] IN
       /\ Goes(m) /\ Removable(m)
       /\ node_modules' = [n \in Node |->
                             IF n \in internals[m] THEN node_modules[n] \ {m}
                             ELSE node_modules[n]]
  /\ index' = index + 1
  /\ UNCHANGED <<config, modules, internals, dominateable, is_bad, dominator, number,
                 conflicting, cursor, kept, solved, phase>>

(* remove_module's assert.                                                 *)
AbortDelete ==
  /\ phase = "cleanup"
  /\ index \in DOMAIN modules
  /\ Goes(modules[index]) /\ ~Removable(modules[index])
  /\ phase' = "aborted"
  /\ UNCHANGED <<config, modules, sets, is_bad, dominator, number, conflicting, cursor,
                 kept, index, solved>>

(* renumberModules.                                                        *)
Numbered(list) ==
  [m \in Module |-> IF \E i \in DOMAIN list : list[i] = m
                    THEN (CHOOSE i \in DOMAIN list : list[i] = m) - 1
                    ELSE number[m]]

(* Mutant: the loop counter is not reset.                                  *)
EndCleanupNoReset ==
  /\ phase = "cleanup"
  /\ index = Len(modules) + 1
  /\ modules' = kept
  /\ number' = Numbered(kept)
  /\ kept' = <<>>
  /\ phase' = IF config.eliminateOverlaps THEN "mark" ELSE "done"
  /\ UNCHANGED <<config, sets, is_bad, dominator, conflicting, cursor, index, solved>>

EndCleanup ==
  /\ phase = "cleanup"
  /\ index = Len(modules) + 1
  /\ modules' = kept
  /\ number' = Numbered(kept)
  /\ kept' = <<>> /\ index' = 1
  /\ phase' = IF config.eliminateOverlaps THEN "mark" ELSE "done"
  /\ UNCHANGED <<config, sets, is_bad, dominator, conflicting, cursor, solved>>
-----------------------------------------------------------------------------
(* mark_conflicting_modules.  The first time the CPLEX build only numbers  *)
(* the modules.                                                            *)
MarkConflicting ==
  /\ phase = "mark"
  /\ conflicting' =
       IF ~config.glpk /\ ~solved THEN conflicting
       ELSE [m \in Module |->
               conflicting[m] \cup
                 UNION {node_modules[n] \ {m} : n \in {k \in Node : m \in node_modules[k]}}]
  /\ number' = Numbered(modules)
  /\ phase' = IF solved THEN "done" ELSE "solve"
  /\ UNCHANGED <<config, modules, sets, is_bad, dominator, cursor, kept, index, solved>>

(* The asserts on the constraint matrix: an entry's column is checked      *)
(* against the number of entries.                                          *)
MatrixAllowed == \A e \in Entries : number[e[2]] + 1 <= Cardinality(Entries)

(* Mutant: the bound of a row is one too high.                             *)
FeasibleInPairs(S) == \A n \in Rows : Cardinality(node_modules[n] \cap S) <= 2
Feasible(S) == \A n \in Rows : Cardinality(node_modules[n] \cap S) <= 1

(* GLPK ends the process when it is asked to add no columns or no rows.    *)
AddsNone == modules = <<>> \/ Rows = {}

(* The objective: the sum of num_internals.                                *)
Value(S) == Cardinality(UNION {{<<m, n>> : n \in internals[m]} : m \in S})

(* glp_intopt returns a choice within 2.5 % of the best.  What is best for *)
(* CPLEX depends on options (weights, a coverage to reach), so any choice  *)
(* may be.                                                                 *)
Solution(S) ==
  /\ S \subseteq Listed
  /\ Feasible(S)
  /\ config.glpk =>
       \A T \in SUBSET Listed : Feasible(T) => 40 * Value(T) <= 41 * Value(S)

Aborts == config.glpk /\ (AddsNone \/ ~MatrixAllowed)

(* eliminate_overlaps_glpk and eliminate_overlaps: what is not chosen is   *)
(* bad.                                                                    *)
Solve ==
  /\ phase = "solve"
  /\ ~Aborts
  /\ \E S \in SUBSET Listed : Solution(S) /\ is_bad' = is_bad \cup (Listed \ S)
  /\ solved' = TRUE
  /\ phase' = "cleanup"
  /\ UNCHANGED <<config, modules, sets, dominator, number, conflicting, cursor, kept, index>>

AbortSolve ==
  /\ phase = "solve"
  /\ Aborts
  /\ phase' = "aborted"
  /\ UNCHANGED <<config, modules, sets, is_bad, dominator, number, conflicting, cursor,
                 kept, index, solved>>

Next ==
  \/ \E m \in Module, shape \in Shapes : CreateModule(m, shape)
  \/ StartMerge \/ TakeOuter \/ Compare \/ EndNode \/ StartCleanup
  \/ KeepModule \/ DeleteModule \/ AbortDelete \/ EndCleanup
  \/ MarkConflicting \/ Solve \/ AbortSolve

Spec == Init /\ [][Next]_vars
-----------------------------------------------------------------------------
TypeOK ==
  /\ config \in Config
  /\ modules \in Seq(Module)
  /\ internals \in [Module -> SUBSET Node]
  /\ dominateable \in [Module -> BOOLEAN]
  /\ is_bad \in SUBSET Module
  /\ dominator \in [Module -> Module]
  /\ number \in [Module -> Int]
  /\ conflicting \in [Module -> SUBSET Module]
  /\ node_modules \in [Node -> SUBSET Module]
  /\ node \in 1..(NumNodes + 1)
  /\ outer \in 0..NumModules
  /\ inner \in 1..NumModules
  /\ kept \in Seq(Module)
  /\ index \in 1..(Len(modules) + 1)
  /\ solved \in BOOLEAN
  /\ phase \in Phase

(* No merging loses a node: what a dominated module holds, a module that   *)
(* nothing dominates holds as well, although `mi' may be dominated in the  *)
(* middle of its loop and dominate others after that.                      *)
DominatedIsCovered ==
  \A m \in Module : \E u \in Module : ~Dominated(u) /\ internals[m] \subseteq internals[u]

(* The two views agree up to siblings: node_t::modules names only listed   *)
(* modules that hold the node, and a node that does not name a module that *)
(* holds it is the sibling of one that does.                               *)
ViewsAgree ==
  phase \notin {"cleanup", "aborted"} =>
    /\ \A n \in Node : \A m \in node_modules[n] : m \in Listed /\ n \in internals[m]
    /\ \A m \in Listed : \A n \in internals[m] :
         m \notin node_modules[n] => \E k \in Added({n}) : m \in node_modules[k]

NoDeletedConflict ==
  phase \in {"solve", "done"} => \A m \in Listed : conflicting[m] \subseteq Listed \ {m}

(* No module keeps a pointer to a deleted one, and at the end modules      *)
(* overlap and conflict at most in sibling gates.                          *)
OverlapsResolved ==
  /\ NoDeletedConflict
  /\ phase = "done" /\ config.eliminateOverlaps =>
       \A m, k \in Listed : m # k =>
         /\ internals[m] \cap internals[k] \subseteq UNION (Siblings \ LatchPairs)
         /\ k \notin conflicting[m]

(* The first cleanup deletes a good module only for one that holds all of  *)
(* its nodes, which is listed or, as merge_modules does not look, bad.     *)
GoodStaysCovered ==
  (phase \in {"mark", "solve", "done"} /\ ~solved) =>
    \A m \in Module : m \notin is_bad =>
      \/ m \in Listed \/ internals[m] = {}
      \/ /\ dominateable[m]
         /\ \E u \in Listed \cup is_bad : dominateable[u] /\ internals[m] \subseteq internals[u]

(* The columns of the integer program are the places in the list, after    *)
(* both cleanups.                                                          *)
NumbersArePlaces ==
  phase \in {"solve", "done"} => \A i \in DOMAIN modules : number[modules[i]] = i - 1

(* remove_module: assert(modules.find(m) != modules.end()).                *)
RemoveSucceeds ==
  (phase = "cleanup" /\ index \in DOMAIN modules /\ Goes(modules[index]))
    => Removable(modules[index])

(* eliminate_overlaps_glpk: assert(ja[i] >= 1 && ja[i] <= N).              *)
MatrixInRange == phase = "solve" /\ config.glpk => MatrixAllowed
=============================================================================
