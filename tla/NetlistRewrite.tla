--------------------------- MODULE NetlistRewrite ---------------------------
(***************************************************************************)
(* The clean-up of a netlist that flat_module_t's constructor runs before  *)
(* any analysis (flat_module.cpp): rewriteInverters merges inverters of    *)
(* the same signal, rewriteBuffers bypasses buffers and pairs of           *)
(* inverters, removeDeadNodes drops the one-input gates nothing reads any  *)
(* more.  All three edit the graph (node_t::inputs, node_t::fanouts) while *)
(* they walk it, and both rewriters repeat their walk until nothing moves. *)
(*                                                                         *)
(* A node is its rank in flat_module_t::map, which is ordered by name; the *)
(* list `gates` has the gates in that order, so a walk over `gates` is a   *)
(* walk over 1..NumNodes that passes over everything that is no gate.      *)
(***************************************************************************)
EXTENDS Naturals, Sequences, FiniteSets

CONSTANTS
  NumNodes,     \* number of nodes of the flat module
  NoNode,       \* the NULL pointer
  Netlists,     \* the netlists the parser may hand over
  RemovesNor2xb \* options.removeNOR2XB is set

Node == 1..NumNodes

(* What the rewriters tell apart.  "fn" is every other combinational       *)
(* gate, "latchgate" the logic create_latch_gate splits off a latch.       *)
Kind == {"input", "latch", "latchgate", "buf", "inv", "nor2xb", "fn"}
GateKind == Kind \ {"input", "latch"}

(* A netlist: buffers and inverters have one input, a NOR2XB two.          *)
IsNetlist(nl) ==
  /\ nl.kind \in [Node -> Kind]
  /\ nl.inputs \in [Node -> Seq(Node)]
  /\ nl.output \in SUBSET Node
  /\ \A n \in Node : nl.kind[n] \in {"buf", "inv"} => Len(nl.inputs[n]) = 1
  /\ \A n \in Node : nl.kind[n] = "nor2xb" => Len(nl.inputs[n]) = 2

ASSUME NumNodesAssumption == NumNodes \in Nat \ {0}
ASSUME NoNodeAssumption == NoNode \notin Node
ASSUME NetlistsAssumption == \A nl \in Netlists : IsNetlist(nl)
ASSUME OptionAssumption == RemovesNor2xb \in BOOLEAN

VARIABLES
  netlist,  \* the netlist as it was read; never changes
  inputs,   \* node_t::inputs
  fanouts,  \* node_t::fanouts, a list without duplicates
  orig,     \* node_t::orig, what a rewritten node was replaced by
  dead,     \* the nodes with node_t::dead set
  not_map,  \* rewriteInverters' map from a signal to its inverter
  phase,    \* the function that runs
  pos,      \* the loop counter
  changed   \* the do-while flag of the running rewriter

vars == <<netlist, inputs, fanouts, orig, dead, not_map, phase, pos, changed>>

Phase == {"inverters", "buffers", "dead", "done", "abort"}

kind == netlist.kind
Driver(n) == inputs[n][1]
Reads(n, m) == \E i \in DOMAIN inputs[n] : inputs[n][i] = m
Readers(m) == {n \in Node : Reads(n, m)}
-----------------------------------------------------------------------------
(* create_fanouts has just entered every node in the fanouts of its inputs.*)
Init ==
  /\ netlist \in Netlists
  /\ inputs = netlist.inputs
  /\ fanouts = [m \in Node |-> Readers(m)]
  /\ orig = [n \in Node |-> NoNode]
  /\ dead = {}
  /\ not_map = [n \in Node |-> NoNode]
  /\ phase = "inverters"
  /\ pos = 1
  /\ changed = FALSE

(* Mutant: the pin is erased instead of rewired.                           *)
RewiredErases(ins, old, new) == SelectSeq(ins, LAMBDA m : m # old)

(* node_t::rewrite_inputs on one node.                                     *)
Rewired(ins, old, new) ==
  [i \in DOMAIN ins |-> IF ins[i] = old THEN new ELSE ins[i]]

(* set_orig asserts that the node was not rewritten before.                *)
SetOrigAllowed(old) == fanouts[old] = {} \/ orig[old] = NoNode

(* Mutant: the new driver does not learn its reader.                       *)
RewriteNodesNoAdd(old, new) ==
  /\ SetOrigAllowed(old)
  /\ inputs' = [n \in Node |-> IF n \in fanouts[old]
                               THEN Rewired(inputs[n], old, new)
                               ELSE inputs[n]]
  /\ fanouts' = [fanouts EXCEPT ![old] = {}]
  /\ orig' = IF fanouts[old] = {} THEN orig ELSE [orig EXCEPT ![old] = new]
  /\ changed' = (changed \/ fanouts[old] # {})
  /\ UNCHANGED <<netlist, dead, not_map, phase>>

(* Mutant: the fanouts of the old node are kept.                           *)
RewriteNodesNoClear(old, new) ==
  /\ SetOrigAllowed(old)
  /\ inputs' = [n \in Node |-> IF n \in fanouts[old]
                               THEN Rewired(inputs[n], old, new)
                               ELSE inputs[n]]
  /\ fanouts' = [fanouts EXCEPT ![new] = @ \cup fanouts[old]]
  /\ orig' = IF fanouts[old] = {} THEN orig ELSE [orig EXCEPT ![old] = new]
  /\ changed' = (changed \/ fanouts[old] # {})
  /\ UNCHANGED <<netlist, dead, not_map, phase>>

(* Mutant: every walk counts as a change.                                  *)
RewriteNodesAlwaysChanged(old, new) ==
  /\ SetOrigAllowed(old)
  /\ inputs' = [n \in Node |-> IF n \in fanouts[old]
                               THEN Rewired(inputs[n], old, new)
                               ELSE inputs[n]]
  /\ fanouts' = [fanouts EXCEPT ![new] = @ \cup fanouts[old], ![old] = {}]
  /\ orig' = IF fanouts[old] = {} THEN orig ELSE [orig EXCEPT ![old] = new]
  /\ changed' = TRUE
  /\ UNCHANGED <<netlist, dead, not_map, phase>>

(* flat_module_t::rewriteNodes: whoever reads `old` now reads `new`.       *)
RewriteNodes(old, new) ==
  /\ SetOrigAllowed(old)
  /\ inputs' = [n \in Node |-> IF n \in fanouts[old]
                               THEN Rewired(inputs[n], old, new)
                               ELSE inputs[n]]
  /\ fanouts' = [fanouts EXCEPT ![new] = @ \cup fanouts[old], ![old] = {}]
  /\ orig' = IF fanouts[old] = {} THEN orig ELSE [orig EXCEPT ![old] = new]
  /\ changed' = (changed \/ fanouts[old] # {})
  /\ UNCHANGED <<netlist, dead, not_map, phase>>

(* The walk reaches the next node.                                         *)
Visits(p, n) == phase = p /\ pos = n /\ n \in Node
PassOver == 
  /\ pos' = pos + 1
  /\ UNCHANGED <<netlist, inputs, fanouts, orig, dead, not_map, phase, changed>>
-----------------------------------------------------------------------------
(* rewriteInverters *)
RecordInverter(n) ==
  /\ Visits("inverters", n)
  /\ kind[n] = "inv"
  /\ not_map[Driver(n)] = NoNode
  /\ not_map' = [not_map EXCEPT ![Driver(n)] = n]
  /\ pos' = pos + 1
  /\ UNCHANGED <<netlist, inputs, fanouts, orig, dead, phase, changed>>

DuplicateInverter(n) ==
  /\ kind[n] = "inv"
  /\ not_map[Driver(n)] \notin {NoNode, n}

MergeInverter(n) ==
  /\ Visits("inverters", n)
  /\ DuplicateInverter(n)
  /\ RewriteNodes(n, not_map[Driver(n)])
  /\ pos' = pos + 1

PassOverInInverters(n) ==
  /\ Visits("inverters", n)
  /\ kind[n] = "inv" => not_map[Driver(n)] = n
  /\ PassOver

(* The end of one walk of either rewriter.                                 *)
RepeatWalk ==
  /\ phase \in {"inverters", "buffers"}
  /\ pos = NumNodes + 1
  /\ changed
  /\ pos' = 1
  /\ changed' = FALSE
  /\ UNCHANGED <<netlist, inputs, fanouts, orig, dead, not_map, phase>>

(* Mutant: one walk, whatever it moved.                                    *)
EndInvertersAtOnce ==
  /\ phase = "inverters"
  /\ pos = NumNodes + 1
  /\ phase' = "buffers"
  /\ pos' = 1
  /\ UNCHANGED <<netlist, inputs, fanouts, orig, dead, not_map, changed>>

EndInverters ==
  /\ phase = "inverters"
  /\ pos = NumNodes + 1
  /\ ~changed
  /\ phase' = "buffers"
  /\ pos' = 1
  /\ UNCHANGED <<netlist, inputs, fanouts, orig, dead, not_map, changed>>
-----------------------------------------------------------------------------
(* rewriteBuffers: a buffer is bypassed to its input, the second of two    *)
(* inverters in a row to the input of the first.                           *)
(* Mutant: an inverter is bypassed to the first inverter of the pair.      *)
BypassTargetNear(n) == Driver(n)

BypassTarget(n) ==
  IF kind[n] = "buf" THEN Driver(n) ELSE Driver(Driver(n))

Bypassable(n) ==
  /\ \/ kind[n] = "buf"
     \/ kind[n] = "inv" /\ kind[Driver(n)] = "inv"
  /\ BypassTarget(n) # n

Bypass(n) ==
  /\ Visits("buffers", n)
  /\ Bypassable(n)
  /\ RewriteNodes(n, BypassTarget(n))
  /\ pos' = pos + 1

PassOverInBuffers(n) ==
  /\ Visits("buffers", n)
  /\ ~Bypassable(n)
  /\ PassOver

EndBuffers ==
  /\ phase = "buffers"
  /\ pos = NumNodes + 1
  /\ ~changed
  /\ phase' = "dead"
  /\ pos' = NumNodes
  /\ UNCHANGED <<netlist, inputs, fanouts, orig, dead, not_map, changed>>
-----------------------------------------------------------------------------
(* removeDeadNodes: one walk from the last gate to the first.              *)
(* Mutant: outputs of the module are removed too.                          *)
UnreadOrOutput(n) == kind[n] \in GateKind /\ fanouts[n] = {}

Unread(n) == kind[n] \in GateKind /\ fanouts[n] = {} /\ n \notin netlist.output

Removable(n) ==
  Len(inputs[n]) = 1 \/ (RemovesNor2xb /\ kind[n] = "nor2xb")

(* The asserts of removeDeadNodes, remove_fanout and mark_dead.            *)
RemovalAllowed(n) ==
  /\ kind[n] # "latchgate"
  /\ Removable(n) => n \in fanouts[Driver(n)] /\ n \notin dead

RemoveDeadNode(n) ==
  /\ Visits("dead", n)
  /\ Unread(n) /\ Removable(n) /\ RemovalAllowed(n)
  /\ fanouts' = [fanouts EXCEPT ![Driver(n)] = @ \ {n}]
  /\ dead' = dead \cup {n}
  /\ pos' = pos - 1
  /\ UNCHANGED <<netlist, inputs, orig, not_map, phase, changed>>

KeepNode(n) ==
  /\ Visits("dead", n)
  /\ Unread(n) => RemovalAllowed(n) /\ ~Removable(n)
  /\ pos' = pos - 1
  /\ UNCHANGED <<netlist, inputs, fanouts, orig, dead, not_map, phase, changed>>

EndRemoval ==
  /\ phase = "dead"
  /\ pos = 0
  /\ phase' = "done"
  /\ UNCHANGED <<netlist, inputs, fanouts, orig, dead, not_map, pos, changed>>
-----------------------------------------------------------------------------
(* A failed assert ends the process.                                       *)
FailingAssert(n) ==
  \/ Visits("inverters", n) /\ DuplicateInverter(n) /\ ~SetOrigAllowed(n)
  \/ Visits("buffers", n) /\ Bypassable(n) /\ ~SetOrigAllowed(n)
  \/ Visits("dead", n) /\ Unread(n) /\ ~RemovalAllowed(n)

Abort(n) ==
  /\ FailingAssert(n)
  /\ phase' = "abort"
  /\ UNCHANGED <<netlist, inputs, fanouts, orig, dead, not_map, pos, changed>>

Next ==
  \/ \E n \in Node :
       \/ RecordInverter(n) \/ MergeInverter(n) \/ PassOverInInverters(n)
       \/ Bypass(n) \/ PassOverInBuffers(n)
       \/ RemoveDeadNode(n) \/ KeepNode(n)
       \/ Abort(n)
  \/ RepeatWalk \/ EndInverters \/ EndBuffers \/ EndRemoval

(* bsim is one sequential process: it keeps running until it returns.      *)
Spec == Init /\ [][Next]_vars /\ WF_vars(Next)
=============================================================================
