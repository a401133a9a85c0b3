------------------------ MODULE NetlistRewriteProps -------------------------
(* What the clean-up of NetlistRewrite owes to the analyses that follow.   *)
EXTENDS NetlistRewrite

(* The shape of the graph; inputs keep their number.                       *)
TypeOK ==
  /\ IsNetlist(netlist)
  /\ inputs \in [Node -> Seq(Node)]
  /\ \A n \in Node : DOMAIN inputs[n] = DOMAIN netlist.inputs[n]
  /\ fanouts \in [Node -> SUBSET Node]
  /\ orig \in [Node -> Node \cup {NoNode}]
  /\ dead \in SUBSET Node
  /\ not_map \in [Node -> Node \cup {NoNode}]
  /\ phase \in Phase
  /\ pos \in 0..(NumNodes + 1)
  /\ changed \in BOOLEAN

Valuation == [Node -> BOOLEAN]

(* v is a behaviour of the buffers and inverters wired as in `ins`; every  *)
(* other node may have any value.                                          *)
Obeys(v, ins) ==
  \A n \in Node :
    /\ kind[n] = "buf" => v[n] = v[ins[n][1]]
    /\ kind[n] = "inv" => v[n] = ~v[ins[n][1]]

SamePins(v) ==
  \A n \in Node : \A i \in DOMAIN inputs[n] :
    v[inputs[n][i]] = v[netlist.inputs[n][i]]

(* node_t::orig leads to a node with the same signal, so that the coverage *)
(* count of get_covered_redundant_gate_count may follow it.                *)
SameOrig(v) ==
  \A n \in Node : orig[n] # NoNode => v[orig[n]] = v[n]

(* A solution of the equations inverters and buffers had when they were    *)
(* read gives every pin the value it had: rewriteNodes (flat_module.cpp)   *)
(* never connects a reader to a different signal, nor does set_orig name   *)
(* one, whatever the rest of the circuit computes.                         *)
SignalsPreserved ==
  \A v \in Valuation : Obeys(v, netlist.inputs) => SamePins(v) /\ SameOrig(v)

(* The fanout lists, which every traversal of bsim uses forwards, name all *)
(* the live readers of a node and only readers of it.                      *)
FanoutsTrackReaders ==
  \A m \in Node : /\ Readers(m) \ dead \subseteq fanouts[m]
                  /\ fanouts[m] \subseteq Readers(m)

(* removeDeadNodes takes no node a live node reads, and no output.         *)
NoLiveReaderOfDead ==
  \A d \in dead : /\ Readers(d) \subseteq dead
                  /\ d \notin netlist.output

(* No assert of the clean-up fails: rewrite_inputs and remove_fanout find  *)
(* what they look for, set_orig is called once per node, mark_dead too.    *)
NoAssertFails == phase # "abort"

InvertersMerged ==
  \A n1, n2 \in Node :
    (/\ kind[n1] = "inv" /\ kind[n2] = "inv"
     /\ fanouts[n1] # {} /\ fanouts[n2] # {}
     /\ Driver(n1) = Driver(n2)) => n1 = n2
BuffersBypassed == \A n \in Node : Bypassable(n) => fanouts[n] = {}

(* The loops stop only when nothing is left to do, although rewiring makes *)
(* new work behind the walk: at the end of rewriteInverters every signal   *)
(* has at most one inverter that is read, although the map it merges by    *)
(* outlives the rewiring; at the end of rewriteBuffers nothing reads a     *)
(* buffer or the second of two inverters.                                  *)
NothingLeftToRewrite ==
  [][(EndInverters => InvertersMerged) /\ (EndBuffers => BuffersBypassed)]_vars

(* The do-while loops of both rewriters end for every netlist.             *)
Terminates == <>(phase \in {"done", "abort"})
=============================================================================
