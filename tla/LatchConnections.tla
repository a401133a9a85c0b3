--------------------------- MODULE LatchConnections ---------------------------
(***************************************************************************)
(* flat_module_t::compute_latch_connections: which latches a node drives   *)
(* and which drive it, over combinational paths, and which of them over    *)
(* one path only.  Word, shift-register and counter analyses walk the      *)
(* latches along these sets.                                               *)
(*                                                                         *)
(* Driven and driving latches are two fixpoints, computed one after the    *)
(* other in walks over the same lists.  Macros are updated once, after     *)
(* each fixpoint.  Scan inputs are no connections.                         *)
(***************************************************************************)
EXTENDS Integers, Sequences

CONSTANTS
  NumNodes,  \* nodes are numbered in the order of the lists they are in
  NoNode,    \* NULL
  Netlists   \* the netlists to look at

Node == 1..NumNodes
Kind == {"latch", "gate", "input", "macro", "macro_out"}

(* inputs[n] lists the pins; si[n] is the scan input of a latch gate.      *)
IsNetlist(nl) ==
  /\ nl.kind \in [Node -> Kind]
  /\ nl.inputs \in [Node -> Seq(Node)]
  /\ nl.si \in [Node -> Node \cup {NoNode}]
  /\ \A n \in Node : nl.si[n] # NoNode => nl.kind[n] = "gate"

ASSUME NumNodesAssumption == NumNodes \in Nat
ASSUME NoNodeAssumption == NoNode \notin Node
ASSUME NetlistsAssumption == \A nl \in Netlists : IsNetlist(nl)

VARIABLES
  netlist,  \* the graph; does not change
  driven,   \* node_t::driven_latches
  driving,  \* node_t::driving_latches
  sp,       \* node_t::driving_latches_sp
  left,     \* the nodes that the running walk has not come to
  changed,  \* the flag of the running do-while
  phase     \* what runs; "done" is lcg_computed

vars == <<netlist, driven, driving, sp, left, changed, phase>>

inputs == netlist.inputs
OfKind(k) == {n \in Node : netlist.kind[n] = k}
Latch == OfKind("latch")
Gate == OfKind("gate")
Macros == OfKind("macro") \cup OfKind("macro_out")

Pins(n) == DOMAIN inputs[n]
In(n) == {inputs[n][k] : k \in Pins(n)}
Fanouts(n) == {m \in Node : n \in In(m)}

(* The order of the walks.                                                 *)
After == [driven |-> "drivenMacros", drivenMacros |-> "driving", driving |-> "drivingMacros",
          drivingMacros |-> "paths", paths |-> "done"]
Phase == DOMAIN After \cup {"done"}
OverMacros == {"drivenMacros", "drivingMacros"}
ToFixpoint == {"driven", "driving"}

Walked(p) == IF p = "done" THEN {}
             ELSE IF p \in OverMacros THEN Macros ELSE Latch \cup Gate

(* Latches come first, but last in the walk for the paths; the walk for    *)
(* driven latches goes through the gates backwards.                        *)
Place(n) ==
  CASE netlist.kind[n] \in {"latch", "macro"} -> IF phase = "paths" THEN NumNodes + n ELSE n
    [] OTHER -> IF phase = "driven" THEN 2 * NumNodes + 1 - n
                ELSE IF phase = "paths" THEN n ELSE NumNodes + n
IsNext(n) == n \in left /\ \A m \in left : Place(n) <= Place(m)
-----------------------------------------------------------------------------
Init ==
  /\ netlist \in Netlists
  /\ driven = [n \in Node |-> {}]
  /\ driving = [n \in Node |-> {}]
  /\ sp = [n \in Node |-> {}]
  /\ phase = "driven"
  /\ left = Latch \cup Gate
  /\ changed = FALSE

(* Mutant: scan inputs count.                                              *)
DrivenOverScan(n) ==
  UNION {IF m \in Latch THEN {m} ELSE driven[m] : m \in Fanouts(n)}

(* What a node drives over its fanouts.                                    *)
DrivenOver(n) ==
  UNION {IF m \in Latch THEN {m} ELSE IF netlist.si[m] = n THEN {} ELSE driven[m] :
           m \in Fanouts(n)}

(* What drives a node over its inputs.                                     *)
DrivingOver(n) ==
  UNION {IF i \in Latch THEN {i} ELSE driving[i] : i \in In(n) \ {netlist.si[n]}}

UpdateDriven ==
  /\ phase \in {"driven", "drivenMacros"}
  /\ \E n \in left :
       /\ IsNext(n)
       /\ driven' = [driven EXCEPT ![n] = @ \cup DrivenOver(n)]
       /\ left' = left \ {n}
  /\ changed' = (changed \/ driven' # driven)
  /\ UNCHANGED <<netlist, driving, sp, phase>>

UpdateDriving ==
  /\ phase \in {"driving", "drivingMacros"}
  /\ \E n \in left :
       /\ IsNext(n)
       /\ driving' = [driving EXCEPT ![n] = @ \cup DrivingOver(n)]
       /\ left' = left \ {n}
  /\ changed' = (changed \/ driving' # driving)
  /\ UNCHANGED <<netlist, driven, sp, phase>>

(* Pins of n that bring latch l: over one path, and over several.          *)
Single(n, l) ==
  {k \in Pins(n) : LET i == inputs[n][k] IN IF i \in Latch THEN i = l ELSE l \in sp[i]}
Several(n, l) ==
  {k \in Pins(n) : LET i == inputs[n][k] IN i \notin Latch /\ l \in driving[i] \ sp[i]}

(* Mutant: a pin counts once however many paths lead to it.                *)
OnePathAnyInner(n, l) ==
  \E k \in Single(n, l) \cup Several(n, l) : Single(n, l) \cup Several(n, l) = {k}
(* The cnt of compute_driving_latches_mp is 1.                             *)
OnePath(n, l) == Several(n, l) = {} /\ \E k \in Pins(n) : Single(n, l) = {k}

ComputePaths ==
  /\ phase = "paths"
  /\ \E n \in left :
       /\ IsNext(n)
       /\ sp' = [sp EXCEPT ![n] = @ \cup {l \in driving[n] : OnePath(n, l)}]
       /\ left' = left \ {n}
  /\ UNCHANGED <<netlist, driven, driving, changed, phase>>

(* Mutant: the flag is not reset.                                          *)
WalkAgainStillChanged ==
  /\ phase \in ToFixpoint /\ left = {} /\ changed
  /\ left' = Walked(phase)
  /\ UNCHANGED <<netlist, driven, driving, sp, phase, changed>>
(* A walk in which something changed is followed by another.               *)
WalkAgain ==
  /\ phase \in ToFixpoint /\ left = {} /\ changed
  /\ changed' = FALSE
  /\ left' = Walked(phase)
  /\ UNCHANGED <<netlist, driven, driving, sp, phase>>

(* Otherwise the next phase starts; macros get one walk.                   *)
EndWalk ==
  /\ phase # "done" /\ left = {}
  /\ phase \in ToFixpoint => ~changed
  /\ phase' = After[phase]
  /\ changed' = FALSE
  /\ left' = Walked(phase')
  /\ UNCHANGED <<netlist, driven, driving, sp>>

Next == UpdateDriven \/ UpdateDriving \/ ComputePaths \/ WalkAgain \/ EndWalk
Spec == Init /\ [][Next]_vars
-----------------------------------------------------------------------------
(* The sets hold latches.                                                  *)
TypeOK ==
  /\ IsNetlist(netlist)
  /\ driven \in [Node -> SUBSET Latch]
  /\ driving \in [Node -> SUBSET Latch]
  /\ sp \in [Node -> SUBSET Latch]
  /\ left \subseteq Walked(phase)
  /\ changed \in BOOLEAN
  /\ phase \in Phase

(* The two fixpoints agree: a latch drives another just if the other is    *)
(* driven by it.  onepath asserts it of every latch it is given from       *)
(* driven_latches.                                                         *)
ConnectionsAgree ==
  phase \in {"drivingMacros", "paths", "done"} =>
    \A l, m \in Latch : m \in driven[l] <=> l \in driving[m]

(* compute_driving_latches_mp asserts cnt > 0: a latch that drives a node  *)
(* comes in at some pin, on loops and scan inputs too.                     *)
EveryDriverHasAPin ==
  phase = "paths" =>
    \A n \in left : \A l \in driving[n] : Single(n, l) \cup Several(n, l) # {}
=============================================================================
