------------------------------ MODULE TopoSort ------------------------------
(***************************************************************************)
(* flat_module_t::topo_sort, which gives every node a level and sorts the  *)
(* gates by it, followed by the walk of kcover_analysis over the sorted    *)
(* list, which rests on the order: node_t::compute_covers reads k_inputs   *)
(* of a gate's inputs, and only the walk fills k_inputs.                   *)
(*                                                                         *)
(* The levels are a fixpoint.  A netlist with combinational loops has      *)
(* none; after MaxIterations more walks the gates that still move are      *)
(* taken for members of a loop and left out of the analysis.               *)
(***************************************************************************)
EXTENDS Integers, Sequences, FiniteSets

CONSTANTS
  NumNodes,      \* number of nodes; a node is its rank by name
  Netlists,      \* the netlists to sort
  MaxIterations  \* options.maxTopoSortIterations

Node == 1..NumNodes

(* "source" stands for latches, inputs and macros, whose level is 0.       *)
Kind == {"source", "macro_out", "gate"}

(* The cover walk sets dead gates aside and, without ramAnalysis, the      *)
(* gates of latches.  What is dead is read by what is dead at most, and    *)
(* the gate of a latch by the latch.                                       *)
IsNetlist(nl) ==
  /\ nl.kind \in [Node -> Kind]
  /\ nl.inputs \in [Node -> SUBSET Node]
  /\ nl.aside \in SUBSET Node
  /\ \A n \in Node : nl.kind[n] = "gate" /\ n \notin nl.aside => nl.inputs[n] \cap nl.aside = {}

ASSUME NumNodesAssumption == NumNodes \in Nat \ {0}
ASSUME MaxIterationsAssumption == MaxIterations \in Nat
ASSUME NetlistsAssumption == \A nl \in Netlists : IsNetlist(nl)

VARIABLES
  netlist,    \* the graph; does not change
  level,      \* node_t::level
  iterations, \* the counter of topo_sort's do-while
  changed,    \* its flag
  loop_nodes, \* the gates mark_loop is called with
  order,      \* the list `gates`
  pos,        \* the loop counter of the running walk
  covered,    \* the gates whose k-covers are computed
  phase       \* what runs

vars == <<netlist, level, iterations, changed, loop_nodes, order, pos,
          covered, phase>>

inputs == netlist.inputs
Gate == {n \in Node : netlist.kind[n] = "gate"}

Phase == {"sources", "levels", "sort", "cover", "done", "undefined"}

(* The lists of all gates.                                                 *)
Listing ==
  {s \in [1..Cardinality(Gate) -> Gate] : \A g \in Gate : \E i \in DOMAIN s : s[i] = g}

(* create_nodelists lists them by name.                                    *)
ByName(s) == \A i, j \in DOMAIN s : i < j => s[i] < s[j]

(* Mutant: the comparison is swapped.                                      *)
SortedBackwards(s) ==
  \A i, j \in DOMAIN s : i < j => level[s[i]] >= level[s[j]]
(* toposort_cmp; std::sort may leave any such order, it is not stable.     *)
SortedByLevel(s) ==
  \A i, j \in DOMAIN s : i < j => level[s[i]] <= level[s[j]]

MaxOf(S) == CHOOSE m \in S : \A x \in S : x <= m
-----------------------------------------------------------------------------
Init ==
  /\ netlist \in Netlists
  /\ level = [n \in Node |-> -1]
  /\ iterations = 0
  /\ changed = FALSE
  /\ loop_nodes = {}
  /\ order \in {s \in Listing : ByName(s)}
  /\ pos = 1
  /\ covered = {}
  /\ phase = "sources"

(* Mutant: inputs that are no gates do not count.                          *)
NewLevelOfGates(n) == MaxOf({level[m] : m \in inputs[n] \cap Gate} \cup {0}) + 1
(* node_t::update_level.                                                   *)
NewLevel(n) == MaxOf({level[m] : m \in inputs[n]} \cup {0}) + 1

(* The first walk starts with what is no gate; macros come before their    *)
(* outputs, so a macro output sees its macro at level 0.                   *)
LevelSources ==
  /\ phase = "sources"
  /\ level' = [n \in Node |-> CASE netlist.kind[n] = "source" -> 0
                                [] netlist.kind[n] = "macro_out" -> 1
                                [] OTHER -> level[n]]
  /\ phase' = "levels"
  /\ UNCHANGED <<netlist, iterations, changed, loop_nodes, order, pos, covered>>

UpdateLevel ==
  /\ phase = "levels"
  /\ pos \in DOMAIN order
  /\ LET n == order[pos]
         moves == NewLevel(n) # level[n]
     IN  /\ level' = [level EXCEPT ![n] = NewLevel(n)]
         /\ changed' = (changed \/ moves)
         /\ loop_nodes' = IF moves /\ iterations = MaxIterations
                          THEN loop_nodes \cup {n} ELSE loop_nodes
  /\ pos' = pos + 1
  /\ UNCHANGED <<netlist, iterations, order, covered, phase>>

(* Mutant: the walks are not limited.                                      *)
EndWalkNoLimit ==
  /\ phase = "levels"
  /\ pos = Cardinality(Gate) + 1
  /\ iterations' = iterations + 1
  /\ IF changed THEN pos' = 1 /\ changed' = FALSE /\ phase' = phase
     ELSE phase' = "sort" /\ UNCHANGED <<pos, changed>>
  /\ UNCHANGED <<netlist, level, loop_nodes, order, covered>>

(* Mutant: stops before the walk that marks.                               *)
EndWalkTooEarly ==
  /\ phase = "levels"
  /\ pos = Cardinality(Gate) + 1
  /\ iterations' = iterations + 1
  /\ IF changed /\ iterations' < MaxIterations
     THEN pos' = 1 /\ changed' = FALSE /\ phase' = phase
     ELSE phase' = "sort" /\ UNCHANGED <<pos, changed>>
  /\ UNCHANGED <<netlist, level, loop_nodes, order, covered>>

(* The end of a walk: another one, unless nothing moved or the limit is    *)
(* reached.                                                                *)
EndWalk ==
  /\ phase = "levels"
  /\ pos = Cardinality(Gate) + 1
  /\ iterations' = iterations + 1
  /\ IF changed /\ iterations' <= MaxIterations
     THEN pos' = 1 /\ changed' = FALSE /\ phase' = phase
     ELSE phase' = "sort" /\ UNCHANGED <<pos, changed>>
  /\ UNCHANGED <<netlist, level, loop_nodes, order, covered>>

SortGates ==
  /\ phase = "sort"
  /\ order' \in {s \in Listing : SortedByLevel(s)}
  /\ pos' = 1
  /\ phase' = "cover"
  /\ UNCHANGED <<netlist, level, iterations, changed, loop_nodes, covered>>
-----------------------------------------------------------------------------
(* get_kcovers of an input that is no gate, or has its covers, returns;    *)
(* compute_covers of any other reads past the end of an empty k_inputs,    *)
(* which only the walk fills.                                              *)
InputsReady(n) ==
  \A m \in inputs[n] \cap Gate : m \in covered \/ inputs[m] = {}

(* What kcover_analysis passes over: the gates that mark_loop marked, too. *)
PassedOver == loop_nodes \cup netlist.aside

CoverGate ==
  /\ phase = "cover"
  /\ pos \in DOMAIN order
  /\ order[pos] \notin PassedOver /\ InputsReady(order[pos])
  /\ covered' = covered \cup {order[pos]}
  /\ pos' = pos + 1
  /\ UNCHANGED <<netlist, level, iterations, changed, loop_nodes, order, phase>>

CoverTooEarly ==
  /\ phase = "cover"
  /\ pos \in DOMAIN order
  /\ order[pos] \notin PassedOver /\ ~InputsReady(order[pos])
  /\ phase' = "undefined"
  /\ UNCHANGED <<netlist, level, iterations, changed, loop_nodes, order, pos, covered>>

PassOverGate ==
  /\ phase = "cover"
  /\ pos \in DOMAIN order
  /\ order[pos] \in PassedOver
  /\ pos' = pos + 1
  /\ UNCHANGED <<netlist, level, iterations, changed, loop_nodes, order, covered, phase>>

EndCover ==
  /\ phase = "cover"
  /\ pos = Cardinality(Gate) + 1
  /\ phase' = "done"
  /\ UNCHANGED <<netlist, level, iterations, changed, loop_nodes, order, pos, covered>>

Next ==
  \/ LevelSources \/ UpdateLevel \/ EndWalk \/ SortGates
  \/ CoverGate \/ CoverTooEarly \/ PassOverGate \/ EndCover

(* bsim is one sequential process.                                         *)
Spec == Init /\ [][Next]_vars
-----------------------------------------------------------------------------
TypeOK ==
  /\ IsNetlist(netlist)
  /\ level \in [Node -> Int]
  /\ iterations \in 0..(MaxIterations + 1)
  /\ changed \in BOOLEAN
  /\ loop_nodes \in SUBSET Gate
  /\ order \in Listing
  /\ pos \in 1..(Cardinality(Gate) + 1)
  /\ covered \in SUBSET Gate
  /\ phase \in Phase

Settled == phase \in {"cover", "done", "undefined"}

(* What n is computed from: the gates on paths of gates into it.           *)
Cone(n) ==
  LET F[i \in 0..NumNodes] ==
        IF i = 0 THEN inputs[n] \cap Gate
        ELSE F[i - 1] \cup UNION {inputs[m] \cap Gate : m \in F[i - 1]}
  IN  F[NumNodes]

OnLoop(n) == n \in Cone(n)
BehindLoop(n) == \E m \in Cone(n) : OnLoop(m)

(* The length of the longest path to a node that is behind no loop; macro  *)
(* outputs count as one above their macro.                                 *)
Depth ==
  LET D[i \in 0..NumNodes] ==
        [n \in Node |->
           IF netlist.kind[n] = "source" THEN 0
           ELSE IF netlist.kind[n] = "macro_out" \/ i = 0 THEN 1
           ELSE MaxOf({D[i - 1][m] : m \in inputs[n]} \cup {0}) + 1]
  IN  D[NumNodes]

(* The limit is no shorter than any path that is behind no loop.           *)
LimitSuffices == \A n \in Gate : ~BehindLoop(n) => Depth[n] <= MaxIterations

(* Whatever the limit, the gates that mark_loop left hold no loop: of any  *)
(* set of them one is read by none of the set, so compute_covers does not  *)
(* recurse for ever.                                                       *)
LoopsBroken ==
  Settled => \A S \in SUBSET (Gate \ loop_nodes) :
               S # {} => \E n \in S : \A m \in S : n \notin inputs[m]

(* Whatever the limit, the sorted list is a topological order of the gates *)
(* that mark_loop left: the walks of propagateTreeMarks and                *)
(* kcover_analysis see the inputs of such a gate before the gate.          *)
TopoOrder ==
  Settled =>
    \A i, j \in DOMAIN order :
      (/\ order[i] \notin loop_nodes /\ order[j] \notin loop_nodes
       /\ order[i] \in inputs[order[j]]) => i < j

(* With a sufficient limit mark_loop gets only gates of loops and what     *)
(* they drive, and every other gate's level is the length of its longest   *)
(* path, in whatever order of names the walks saw the gates.               *)
LevelsExact ==
  (Settled /\ LimitSuffices) =>
    \A n \in Node : ~BehindLoop(n) => n \notin loop_nodes /\ level[n] = Depth[n]

(* Unless a gate was marked, kcover_analysis asks for no covers of a gate  *)
(* it has not reached or has set aside: its k_inputs would be empty.       *)
CoversReady == loop_nodes = {} => phase # "undefined"

=============================================================================
