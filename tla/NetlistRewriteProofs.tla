----------------------- MODULE NetlistRewriteProofs -------------------------
(* Proofs about the netlist clean-up, for every netlist of every size.     *)
EXTENDS NetlistRewriteProps, TLAPS

USE NumNodesAssumption, NoNodeAssumption DEF Node

(* Rewriting the pins of a node leaves a list of nodes of the same length. *)
LEMMA RewiredType ==
  ASSUME NEW s \in Seq(Node), NEW old \in Node, NEW new \in Node
  PROVE  /\ Rewired(s, old, new) \in Seq(Node)
         /\ DOMAIN Rewired(s, old, new) = DOMAIN s
  BY DEF Rewired

(* What TypeOK says of the kinds, and of the pins RewriteNodes follows.    *)
LEMMA DriverType ==
  ASSUME TypeOK, NEW n \in Node, kind[n] \in {"buf", "inv", "nor2xb"}
  PROVE  1 \in DOMAIN inputs[n] /\ Driver(n) \in Node
<1>1. 1 \in DOMAIN netlist.inputs[n]
  <2>1. Len(netlist.inputs[n]) \in {1, 2}
    BY DEF TypeOK, IsNetlist, kind
  <2>2. netlist.inputs[n] \in Seq(Node)
    BY DEF TypeOK, IsNetlist
  <2> QED
    BY <2>1, <2>2
<1>2. 1 \in DOMAIN inputs[n]
  BY <1>1 DEF TypeOK
<1>3. inputs[n] \in Seq(Node)
  BY DEF TypeOK
<1> QED
  BY <1>2, <1>3 DEF Driver

(* Both rewriters call rewriteNodes with a node of the netlist.            *)
LEMMA BypassTargetType ==
  ASSUME TypeOK, NEW n \in Node, Bypassable(n)
  PROVE  BypassTarget(n) \in Node
<1>1. kind[n] \in {"buf", "inv", "nor2xb"} => Driver(n) \in Node
  BY DriverType
<1>2. CASE kind[n] = "buf"
  BY <1>1, <1>2 DEF BypassTarget
<1>3. CASE kind[n] = "inv" /\ kind[Driver(n)] = "inv"
  <2>1. Driver(n) \in Node
    BY <1>1, <1>3
  <2>2. Driver(Driver(n)) \in Node
    BY <1>3, <2>1, DriverType
  <2> QED
    BY <1>3, <2>2 DEF BypassTarget
<1> QED
  BY <1>2, <1>3 DEF Bypassable

(* rewriteNodes keeps the shape of the graph.                              *)
LEMMA RewriteNodesType ==
  ASSUME TypeOK, NEW old \in Node, NEW new \in Node,
         RewriteNodes(old, new), pos' \in 0..(NumNodes + 1)
  PROVE  TypeOK'
<1>1. inputs' \in [Node -> Seq(Node)]
  BY RewiredType DEF TypeOK, RewriteNodes
<1>2. \A n \in Node : DOMAIN inputs'[n] = DOMAIN netlist.inputs[n]
  BY RewiredType DEF TypeOK, RewriteNodes
<1>3. fanouts' \in [Node -> SUBSET Node] /\ orig' \in [Node -> Node \cup {NoNode}]
  BY DEF TypeOK, RewriteNodes
<1>4. changed' \in BOOLEAN
  BY DEF TypeOK, RewriteNodes
<1>5. UNCHANGED <<netlist, dead, not_map, phase>>
  BY DEF RewriteNodes
<1> QED
  BY <1>1, <1>2, <1>3, <1>4, <1>5 DEF TypeOK

(* The graph keeps its shape, whatever is rewritten (flat_module.cpp,      *)
(* rewriteInverters, rewriteBuffers, removeDeadNodes).                     *)
THEOREM TypeCorrect == Spec => []TypeOK
<1>1. ASSUME Init
      PROVE  TypeOK
  <2>1. IsNetlist(netlist)
    BY <1>1, NetlistsAssumption DEF Init
  <2>2. inputs \in [Node -> Seq(Node)]
    BY <1>1, <2>1 DEF Init, IsNetlist
  <2>3. \A n \in Node : DOMAIN inputs[n] = DOMAIN netlist.inputs[n]
    BY <1>1 DEF Init
  <2>4. fanouts \in [Node -> SUBSET Node]
    BY <1>1 DEF Init, Readers
  <2>5. orig \in [Node -> Node \cup {NoNode}] /\ not_map \in [Node -> Node \cup {NoNode}]
    BY <1>1 DEF Init
  <2>6. dead \in SUBSET Node /\ phase \in Phase /\ changed \in BOOLEAN
    BY <1>1 DEF Init, Phase
  <2>7. pos \in 0..(NumNodes + 1)
    BY <1>1 DEF Init
  <2> QED
    BY <2>1, <2>2, <2>3, <2>4, <2>5, <2>6, <2>7 DEF TypeOK
<1>2. TypeOK /\ [Next]_vars => TypeOK'
  <2> SUFFICES ASSUME TypeOK, [Next]_vars
               PROVE  TypeOK'
    OBVIOUS
  <2>1. ASSUME NEW n \in Node, RecordInverter(n)
        PROVE  TypeOK'
    <3>1. Driver(n) \in Node /\ pos + 1 \in 0..(NumNodes + 1)
      BY <2>1, DriverType DEF RecordInverter, Visits
    <3> QED
      BY <2>1, <3>1 DEF RecordInverter, TypeOK
  <2>2. ASSUME NEW n \in Node, MergeInverter(n)
        PROVE  TypeOK'
    <3>1. Driver(n) \in Node /\ pos + 1 \in 0..(NumNodes + 1)
      BY <2>2, DriverType DEF MergeInverter, DuplicateInverter, Visits
    <3>2. not_map[Driver(n)] \in Node
      BY <2>2, <3>1 DEF MergeInverter, DuplicateInverter, TypeOK
    <3> QED
      BY <2>2, <3>1, <3>2, RewriteNodesType DEF MergeInverter
  <2>3. ASSUME NEW n \in Node, Bypass(n)
        PROVE  TypeOK'
    <3>1. BypassTarget(n) \in Node /\ pos + 1 \in 0..(NumNodes + 1)
      BY <2>3, BypassTargetType DEF Bypass, Visits
    <3> QED
      BY <2>3, <3>1, RewriteNodesType DEF Bypass
  <2>4. ASSUME NEW n \in Node, PassOverInInverters(n) \/ PassOverInBuffers(n)
        PROVE  TypeOK'
    <3>1. pos + 1 \in 0..(NumNodes + 1)
      BY <2>4 DEF PassOverInInverters, PassOverInBuffers, Visits
    <3> QED
      BY <2>4, <3>1 DEF PassOverInInverters, PassOverInBuffers, PassOver,
                        TypeOK
  <2>5. ASSUME NEW n \in Node, RemoveDeadNode(n)
        PROVE  TypeOK'
    <3>1. pos - 1 \in 0..(NumNodes + 1)
      BY <2>5 DEF RemoveDeadNode, Visits
    <3>2. fanouts' \in [Node -> SUBSET Node]
      BY <2>5 DEF RemoveDeadNode, TypeOK
    <3> QED
      BY <2>5, <3>1, <3>2 DEF RemoveDeadNode, TypeOK
  <2>6. ASSUME NEW n \in Node, KeepNode(n)
        PROVE  TypeOK'
    <3>1. pos - 1 \in 0..(NumNodes + 1)
      BY <2>6 DEF KeepNode, Visits
    <3> QED
      BY <2>6, <3>1 DEF KeepNode, TypeOK
  <2>7. ASSUME NEW n \in Node, Abort(n)
        PROVE  TypeOK'
    BY <2>7 DEF Abort, TypeOK, Phase
  <2>8. ASSUME RepeatWalk \/ EndInverters \/ EndBuffers \/ EndRemoval
        PROVE  TypeOK'
    <3>1. pos' \in 0..(NumNodes + 1)
      BY <2>8 DEF RepeatWalk, EndInverters, EndBuffers, EndRemoval, TypeOK
    <3>2. phase' \in Phase
      BY <2>8 DEF RepeatWalk, EndInverters, EndBuffers, EndRemoval, TypeOK, Phase
    <3>3. changed' \in BOOLEAN
      BY <2>8 DEF RepeatWalk, EndInverters, EndBuffers, EndRemoval, TypeOK
    <3>4. UNCHANGED <<netlist, inputs, fanouts, orig, dead, not_map>>
      BY <2>8 DEF RepeatWalk, EndInverters, EndBuffers, EndRemoval
    <3> QED
      BY <3>1, <3>2, <3>3, <3>4 DEF TypeOK
  <2>9. CASE UNCHANGED vars
    BY <2>9 DEF vars, TypeOK
  <2> QED
    BY <2>1, <2>2, <2>3, <2>4, <2>5, <2>6, <2>7, <2>8, <2>9 DEF Next
<1> QED
  BY <1>1, <1>2, PTL DEF Spec
-----------------------------------------------------------------------------
(***************************************************************************)
(* Why no rewriting changes a signal.  Take any solution v of the buffer   *)
(* and inverter equations of the netlist as it was read.  The strengthened *)
(* invariant says of it that every pin still has its value, that not_map   *)
(* maps a signal to one of opposite value even when the inverter it names  *)
(* has since been rewired, and that orig stays on one value.  Only the     *)
(* part about not_map makes MergeInverter's step go through.               *)
(***************************************************************************)
Agrees(v) ==
  /\ SamePins(v)
  /\ \A k \in Node : not_map[k] # NoNode => v[not_map[k]] = ~v[k]
  /\ \A n \in Node : orig[n] # NoNode => v[orig[n]] = v[n]

SignalInv == \A v \in Valuation : Obeys(v, netlist.inputs) => Agrees(v)

(* The equations of a buffer and of an inverter hold as they are wired now.*)
LEMMA DriverSignal ==
  ASSUME TypeOK, NEW v \in Valuation, Obeys(v, netlist.inputs), SamePins(v),
         NEW n \in Node
  PROVE  /\ kind[n] = "buf" => v[n] = v[Driver(n)]
         /\ kind[n] = "inv" => v[n] = ~v[Driver(n)]
<1>1. ASSUME kind[n] \in {"buf", "inv"}
      PROVE  v[Driver(n)] = v[netlist.inputs[n][1]]
  BY <1>1, DriverType DEF SamePins, Driver
<1> QED
  BY <1>1 DEF Obeys

(* Moving the readers of a node to one of equal value keeps every value.   *)
LEMMA RewriteKeepsSignals ==
  ASSUME TypeOK, NEW v \in Valuation, Agrees(v),
         NEW old \in Node, NEW new \in Node, v[old] = v[new],
         RewriteNodes(old, new)
  PROVE  Agrees(v)'
<1>1. SamePins(v)'
  <2> SUFFICES ASSUME NEW n \in Node, NEW i \in DOMAIN inputs'[n]
               PROVE  v[inputs'[n][i]] = v[netlist.inputs[n][i]]
    BY DEF RewriteNodes, SamePins
  <2>1. CASE n \in fanouts[old]
    <3>1. inputs'[n] = Rewired(inputs[n], old, new)
      BY <2>1 DEF RewriteNodes
    <3>2. i \in DOMAIN inputs[n]
      BY <3>1 DEF Rewired
    <3>3. inputs'[n][i] = IF inputs[n][i] = old THEN new ELSE inputs[n][i]
      BY <3>1, <3>2 DEF Rewired
    <3> QED
      BY <3>2, <3>3 DEF Agrees, SamePins
  <2>2. CASE n \notin fanouts[old]
    BY <2>2 DEF RewriteNodes, Agrees, SamePins
  <2> QED
    BY <2>1, <2>2
<1>2. \A n \in Node : orig'[n] # NoNode => v[orig'[n]] = v[n]
  <2>1. orig' = IF fanouts[old] = {} THEN orig ELSE [orig EXCEPT ![old] = new]
    BY DEF RewriteNodes
  <2>2. \A n \in Node : orig'[n] = orig[n] \/ (n = old /\ orig'[n] = new)
    BY <2>1 DEF TypeOK
  <2> QED
    BY <2>2 DEF Agrees
<1>3. not_map' = not_map
  BY DEF RewriteNodes
<1> QED
  BY <1>1, <1>2, <1>3 DEF Agrees

(* Every step keeps it, for one solution v.                                *)
LEMMA StepKeepsSignals ==
  ASSUME TypeOK, NEW v \in Valuation, Obeys(v, netlist.inputs), Agrees(v),
         [Next]_vars
  PROVE  Agrees(v)'
<1> USE DEF Agrees
<1>1. ASSUME NEW n \in Node, RecordInverter(n)
      PROVE  Agrees(v)'
  <2>1. v[n] = ~v[Driver(n)] /\ Driver(n) \in Node
    BY <1>1, DriverSignal, DriverType DEF RecordInverter
  <2>2. \A k \in Node : not_map'[k] # NoNode => v[not_map'[k]] = ~v[k]
    BY <1>1, <2>1 DEF RecordInverter, TypeOK
  <2> QED
    BY <1>1, <2>2 DEF RecordInverter, SamePins
<1>2. ASSUME NEW n \in Node, MergeInverter(n)
      PROVE  Agrees(v)'
  <2>1. v[n] = ~v[Driver(n)] /\ Driver(n) \in Node
    BY <1>2, DriverSignal, DriverType DEF MergeInverter, DuplicateInverter
  <2>2. not_map[Driver(n)] \in Node
    BY <1>2, <2>1 DEF MergeInverter, DuplicateInverter, TypeOK
  <2>3. v[not_map[Driver(n)]] = ~v[Driver(n)]
    BY <2>1, <2>2
  <2> QED
    BY <1>2, <2>1, <2>2, <2>3, RewriteKeepsSignals DEF MergeInverter
<1>3. ASSUME NEW n \in Node, Bypass(n)
      PROVE  Agrees(v)'
  <2>1. v[n] = v[BypassTarget(n)]
    <3>1. CASE kind[n] = "buf"
      BY <3>1, DriverSignal DEF BypassTarget
    <3>2. CASE kind[n] = "inv" /\ kind[Driver(n)] = "inv"
      <4>1. Driver(n) \in Node /\ Driver(Driver(n)) \in Node
        BY <3>2, DriverType
      <4>2. v[n] = ~v[Driver(n)]
        BY <3>2, DriverSignal
      <4>3. v[Driver(n)] = ~v[Driver(Driver(n))]
        BY <3>2, <4>1, DriverSignal
      <4>4. v[Driver(Driver(n))] \in BOOLEAN
        BY <4>1 DEF Valuation
      <4> QED
        BY <3>2, <4>2, <4>3, <4>4 DEF BypassTarget
    <3> QED
      BY <1>3, <3>1, <3>2 DEF Bypass, Bypassable
  <2>2. BypassTarget(n) \in Node
    BY <1>3, BypassTargetType DEF Bypass
  <2> QED
    BY <1>3, <2>1, <2>2, RewriteKeepsSignals DEF Bypass
<1>4. ASSUME UNCHANGED <<netlist, inputs, not_map, orig>>
      PROVE  Agrees(v)'
  BY <1>4 DEF SamePins
<1>5. ASSUME NEW n \in Node,
             \/ PassOverInInverters(n) \/ PassOverInBuffers(n)
             \/ RemoveDeadNode(n) \/ KeepNode(n) \/ Abort(n)
      PROVE  Agrees(v)'
  BY <1>4, <1>5 DEF PassOverInInverters, PassOverInBuffers, PassOver,
                    RemoveDeadNode, KeepNode, Abort
<1>6. ASSUME RepeatWalk \/ EndInverters \/ EndBuffers \/ EndRemoval
      PROVE  Agrees(v)'
  BY <1>4, <1>6 DEF RepeatWalk, EndInverters, EndBuffers, EndRemoval
<1>7. CASE UNCHANGED vars
  BY <1>4, <1>7 DEF vars
<1> QED
  BY <1>1, <1>2, <1>3, <1>5, <1>6, <1>7 DEF Next

(* No step changes the netlist that was read.                              *)
LEMMA NetlistConstant == [Next]_vars => UNCHANGED netlist
  BY DEF Next, vars, RecordInverter, MergeInverter, RewriteNodes, Bypass,
         PassOverInInverters, PassOverInBuffers, PassOver, RemoveDeadNode,
         KeepNode, Abort, RepeatWalk, EndInverters, EndBuffers, EndRemoval

(* The strengthened invariant holds throughout.                            *)
LEMMA SignalInvariance == Spec => []SignalInv
<1>1. Init => SignalInv
  BY DEF Init, SignalInv, Agrees, SamePins
<1>2. TypeOK /\ SignalInv /\ [Next]_vars => SignalInv'
  <2> SUFFICES ASSUME TypeOK, SignalInv, [Next]_vars,
                      NEW v \in Valuation, Obeys(v, netlist.inputs)'
               PROVE  Agrees(v)'
    BY DEF SignalInv, Valuation
  <2>1. Obeys(v, netlist.inputs)
    BY NetlistConstant DEF Obeys, kind
  <2> QED
    BY <2>1, StepKeepsSignals DEF SignalInv
<1> QED
  BY <1>1, <1>2, TypeCorrect, PTL DEF Spec

(* The clean-up connects no pin to a different signal: every solution of   *)
(* the original buffer and inverter equations gives every pin the value it *)
(* had, and node_t::orig never leads to a different signal, for every      *)
(* netlist and every order of its names.                                   *)
THEOREM CleanUpPreservesSignals == Spec => []SignalsPreserved
<1>1. SignalInv => SignalsPreserved
  BY DEF SignalInv, SignalsPreserved, Agrees, SameOrig
<1> QED
  BY <1>1, SignalInvariance, PTL
-----------------------------------------------------------------------------
(***************************************************************************)
(* Why the fanout lists can be trusted.  Nothing is dead while the         *)
(* rewriters run, so rewriteNodes cannot hand a reader to a dead node; and *)
(* removeDeadNodes marks a node only when its list is empty, which the     *)
(* first conjunct turns into: no live node reads it.                       *)
(***************************************************************************)
GraphInv ==
  /\ FanoutsTrackReaders
  /\ NoLiveReaderOfDead
  /\ phase \in {"inverters", "buffers"} => dead = {}

LEMMA RewriteKeepsGraph ==
  ASSUME TypeOK, GraphInv, dead = {}, NEW old \in Node, NEW new \in Node,
         old # new, RewriteNodes(old, new)
  PROVE  GraphInv'
<1>1. \A n \in Node : \A i \in DOMAIN inputs[n] :
        inputs'[n][i] = IF n \in fanouts[old] /\ inputs[n][i] = old
                        THEN new ELSE inputs[n][i]
  BY DEF RewriteNodes, Rewired, TypeOK
<1>2. \A n \in Node : DOMAIN inputs'[n] = DOMAIN inputs[n]
  BY DEF RewriteNodes, Rewired, TypeOK
<1>3. \A m \in Node : fanouts[m] = Readers(m)
  BY DEF GraphInv, FanoutsTrackReaders
<1>4. \A m \in Node : fanouts'[m] = Readers(m)'
  <2> SUFFICES ASSUME NEW m \in Node, NEW n \in Node
               PROVE  n \in fanouts'[m] <=> Reads(n, m)'
    BY DEF Readers, RewriteNodes, TypeOK
  <2>1. n \in fanouts[old] <=> Reads(n, old)
    BY <1>3 DEF Readers
  <2>2. n \in fanouts[m] <=> Reads(n, m)
    BY <1>3 DEF Readers
  <2>3. CASE m = old
    BY <1>1, <1>2, <2>1, <2>3 DEF RewriteNodes, Reads, TypeOK
  <2>4. CASE m = new
    <3>1. n \in fanouts'[m] <=> n \in fanouts[new] \/ n \in fanouts[old]
      BY <2>4 DEF RewriteNodes, TypeOK
    <3>2. Reads(n, new)' <=> Reads(n, new) \/ Reads(n, old)
      BY <1>1, <1>2, <2>1 DEF Reads
    <3> QED
      BY <2>1, <2>2, <2>4, <3>1, <3>2
  <2>5. CASE m # old /\ m # new
    <3>1. fanouts'[m] = fanouts[m]
      BY <2>5 DEF RewriteNodes, TypeOK
    <3>2. Reads(n, m)' <=> Reads(n, m)
      BY <1>1, <1>2, <2>5 DEF Reads
    <3> QED
      BY <2>2, <3>1, <3>2
  <2> QED
    BY <2>3, <2>4, <2>5
<1>5. dead' = {}
  BY DEF RewriteNodes
<1> QED
  BY <1>4, <1>5 DEF GraphInv, FanoutsTrackReaders, NoLiveReaderOfDead

(* A step that moves no edge and marks nothing dead keeps it.              *)
LEMMA StutterKeepsGraph ==
  ASSUME GraphInv, UNCHANGED <<netlist, inputs, fanouts, dead>>,
         phase' \in {"inverters", "buffers"} => phase \in {"inverters", "buffers"}
  PROVE  GraphInv'
  BY DEF GraphInv, FanoutsTrackReaders, NoLiveReaderOfDead, Readers, Reads

LEMMA GraphInvariance == Spec => []GraphInv
<1>1. Init => GraphInv
  BY DEF Init, GraphInv, FanoutsTrackReaders, NoLiveReaderOfDead
<1>2. ASSUME TypeOK, GraphInv, [Next]_vars
      PROVE  GraphInv'
  <2>1. ASSUME NEW n \in Node, MergeInverter(n)
        PROVE  GraphInv'
    <3>1. Driver(n) \in Node
      BY <1>2, <2>1, DriverType DEF MergeInverter, DuplicateInverter
    <3>2. not_map[Driver(n)] \in Node /\ not_map[Driver(n)] # n
      BY <1>2, <2>1, <3>1 DEF MergeInverter, DuplicateInverter, TypeOK
    <3>3. dead = {}
      BY <1>2, <2>1 DEF MergeInverter, Visits, GraphInv
    <3> QED
      BY <1>2, <2>1, <3>2, <3>3, RewriteKeepsGraph DEF MergeInverter
  <2>2. ASSUME NEW n \in Node, Bypass(n)
        PROVE  GraphInv'
    <3>1. BypassTarget(n) \in Node /\ BypassTarget(n) # n
      BY <1>2, <2>2, BypassTargetType DEF Bypass, Bypassable
    <3>2. dead = {}
      BY <1>2, <2>2 DEF Bypass, Visits, GraphInv
    <3> QED
      BY <1>2, <2>2, <3>1, <3>2, RewriteKeepsGraph DEF Bypass
  <2>3. ASSUME NEW n \in Node, RemoveDeadNode(n)
        PROVE  GraphInv'
    <3>1. dead' = dead \cup {n} /\ UNCHANGED <<netlist, inputs, phase>>
      BY <2>3 DEF RemoveDeadNode
    <3>2. FanoutsTrackReaders'
      <4>1. \A m \in Node : fanouts'[m] = fanouts[m] \/ fanouts'[m] = fanouts[m] \ {n}
        BY <1>2, <2>3 DEF RemoveDeadNode, TypeOK
      <4>2. \A m \in Node : Readers(m)' = Readers(m)
        BY <3>1 DEF Readers, Reads
      <4> QED
        BY <1>2, <3>1, <4>1, <4>2 DEF GraphInv, FanoutsTrackReaders
    <3>3. Readers(n) \subseteq dead /\ n \notin netlist.output
      BY <1>2, <2>3 DEF RemoveDeadNode, Unread, GraphInv, FanoutsTrackReaders
    <3>4. NoLiveReaderOfDead'
      BY <1>2, <3>1, <3>3 DEF GraphInv, NoLiveReaderOfDead, Readers, Reads
    <3>5. phase' \notin {"inverters", "buffers"}
      BY <2>3 DEF RemoveDeadNode, Visits
    <3> QED
      BY <3>2, <3>4, <3>5 DEF GraphInv
  <2>4. ASSUME NEW n \in Node,
               \/ RecordInverter(n) \/ PassOverInInverters(n)
               \/ PassOverInBuffers(n) \/ KeepNode(n) \/ Abort(n)
        PROVE  GraphInv'
    BY <1>2, <2>4, StutterKeepsGraph
       DEF RecordInverter, PassOverInInverters, PassOverInBuffers, PassOver,
           KeepNode, Abort
  <2>5. ASSUME RepeatWalk \/ EndInverters \/ EndBuffers \/ EndRemoval
        PROVE  GraphInv'
    BY <1>2, <2>5, StutterKeepsGraph
       DEF RepeatWalk, EndInverters, EndBuffers, EndRemoval
  <2>6. CASE UNCHANGED vars
    BY <1>2, <2>6, StutterKeepsGraph DEF vars
  <2> QED
    BY <1>2, <2>1, <2>2, <2>3, <2>4, <2>5, <2>6 DEF Next
<1> QED
  BY <1>1, <1>2, TypeCorrect, PTL DEF Spec

(* Every fanout list names all live readers of its node and no node that   *)
(* does not read it (add_fanout and fanouts_clear in rewriteNodes,         *)
(* remove_fanout in removeDeadNodes).                                      *)
THEOREM FanoutsStayExact == Spec => []FanoutsTrackReaders
<1>1. GraphInv => FanoutsTrackReaders
  BY DEF GraphInv
<1> QED
  BY <1>1, GraphInvariance, PTL

(* removeDeadNodes never removes a node that a live node reads, nor an     *)
(* output of the module.                                                   *)
THEOREM RemovalIsSafe == Spec => []NoLiveReaderOfDead
<1>1. GraphInv => NoLiveReaderOfDead
  BY DEF GraphInv
<1> QED
  BY <1>1, GraphInvariance, PTL
-----------------------------------------------------------------------------
(***************************************************************************)
(* What a walk has passed.  A rewrite of a node that nothing reads moves   *)
(* no edge, so as long as `changed' is not set the nodes behind the walk   *)
(* are as the walk left them.                                              *)
(***************************************************************************)
MergedBehind(n) == kind[n] = "inv" /\ fanouts[n] # {} => not_map[Driver(n)] = n
BypassedBehind(n) == Bypassable(n) => fanouts[n] = {}

WalkInv ==
  ~changed =>
    /\ phase = "inverters" => \A n \in Node : n < pos => MergedBehind(n)
    /\ phase = "buffers" => \A n \in Node : n < pos => BypassedBehind(n)

(* Nothing moves for a node without readers.                               *)
LEMMA NoReadersNoChange ==
  ASSUME TypeOK, NEW old \in Node, NEW new \in Node, RewriteNodes(old, new), ~changed'
  PROVE  /\ ~changed /\ fanouts[old] = {}
         /\ UNCHANGED <<netlist, inputs, fanouts, not_map, phase>>
<1>1. ~changed /\ fanouts[old] = {} /\ UNCHANGED <<netlist, not_map, phase>>
  BY DEF RewriteNodes
<1>2. inputs' = inputs
  BY <1>1 DEF RewriteNodes, TypeOK
<1>3. fanouts' = fanouts
  BY <1>1 DEF RewriteNodes, TypeOK
<1> QED
  BY <1>1, <1>2, <1>3

LEMMA WalkStep == TypeOK /\ WalkInv /\ [Next]_vars => WalkInv'
<1> SUFFICES ASSUME TypeOK, WalkInv, [Next]_vars, ~changed'
             PROVE  /\ phase' = "inverters" => \A n \in Node : n < pos' => MergedBehind(n)'
                    /\ phase' = "buffers" => \A n \in Node : n < pos' => BypassedBehind(n)'
  BY DEF WalkInv
<1>0. pos \in Nat /\ \A n \in Node : n \in Nat
  <2>1. pos \in 0..(NumNodes + 1)
    BY DEF TypeOK
  <2> QED
    BY <2>1
<1>1. ASSUME NEW n \in Node, RecordInverter(n)
      PROVE  phase' = "inverters" /\ \A m \in Node : m < pos' => MergedBehind(m)'
  <2>1. /\ phase = "inverters" /\ pos = n /\ pos' = n + 1 /\ not_map[Driver(n)] = NoNode
        /\ not_map' = [not_map EXCEPT ![Driver(n)] = n] /\ kind[n] = "inv"
        /\ UNCHANGED <<netlist, inputs, fanouts, phase, changed>>
    BY <1>1 DEF RecordInverter, Visits
  <2>2. Driver(n) \in Node /\ not_map \in [Node -> Node \cup {NoNode}]
    BY <2>1, DriverType DEF TypeOK
  <2> SUFFICES ASSUME NEW m \in Node, m < pos' PROVE MergedBehind(m)'
    BY <2>1
  <2>3. CASE m = n
    BY <2>1, <2>2, <2>3 DEF MergedBehind, kind, Driver
  <2>4. CASE m # n
    <3>1. m < pos
      BY <1>0, <2>1, <2>4
    <3>2. MergedBehind(m)
      BY <2>1, <3>1 DEF WalkInv
    <3> QED
      BY <2>1, <2>2, <3>2 DEF MergedBehind, kind, Driver
  <2> QED
    BY <2>3, <2>4
<1>2. ASSUME NEW n \in Node, MergeInverter(n)
      PROVE  phase' = "inverters" /\ \A m \in Node : m < pos' => MergedBehind(m)'
  <2>1. Driver(n) \in Node
    BY <1>2, DriverType DEF MergeInverter, DuplicateInverter
  <2>2. not_map[Driver(n)] \in Node
    BY <1>2, <2>1 DEF MergeInverter, DuplicateInverter, TypeOK
  <2>3. ~changed /\ fanouts[n] = {} /\ UNCHANGED <<netlist, inputs, fanouts, not_map, phase>>
    BY <1>2, <2>2, NoReadersNoChange DEF MergeInverter
  <2>4. phase = "inverters" /\ pos = n /\ pos' = n + 1
    BY <1>2 DEF MergeInverter, Visits
  <2>5. \A m \in Node : m < pos' => m < pos \/ m = n
    BY <1>0, <2>4
  <2> QED
    BY <2>3, <2>4, <2>5 DEF WalkInv, MergedBehind, kind, Driver
<1>3. ASSUME NEW n \in Node, PassOverInInverters(n)
      PROVE  phase' = "inverters" /\ \A m \in Node : m < pos' => MergedBehind(m)'
  <2>1. /\ phase = "inverters" /\ pos = n /\ pos' = n + 1 /\ MergedBehind(n)
        /\ UNCHANGED <<netlist, inputs, fanouts, not_map, phase, changed>>
    BY <1>3 DEF PassOverInInverters, PassOver, Visits, MergedBehind
  <2>2. \A m \in Node : m < pos' => m < pos \/ m = n
    BY <1>0, <2>1
  <2> QED
    BY <2>1, <2>2 DEF WalkInv, MergedBehind, kind, Driver
<1>4. ASSUME NEW n \in Node, Bypass(n)
      PROVE  phase' = "buffers" /\ \A m \in Node : m < pos' => BypassedBehind(m)'
  <2>1. BypassTarget(n) \in Node
    BY <1>4, BypassTargetType DEF Bypass
  <2>2. ~changed /\ fanouts[n] = {} /\ UNCHANGED <<netlist, inputs, fanouts, not_map, phase>>
    BY <1>4, <2>1, NoReadersNoChange DEF Bypass
  <2>3. phase = "buffers" /\ pos = n /\ pos' = n + 1
    BY <1>4 DEF Bypass, Visits
  <2>4. \A m \in Node : m < pos' => m < pos \/ m = n
    BY <1>0, <2>3
  <2> QED
    BY <2>2, <2>3, <2>4 DEF WalkInv, BypassedBehind, Bypassable, BypassTarget, kind, Driver
<1>5. ASSUME NEW n \in Node, PassOverInBuffers(n)
      PROVE  phase' = "buffers" /\ \A m \in Node : m < pos' => BypassedBehind(m)'
  <2>1. /\ phase = "buffers" /\ pos = n /\ pos' = n + 1 /\ ~Bypassable(n)
        /\ UNCHANGED <<netlist, inputs, fanouts, not_map, phase, changed>>
    BY <1>5 DEF PassOverInBuffers, PassOver, Visits
  <2>2. \A m \in Node : m < pos' => m < pos \/ m = n
    BY <1>0, <2>1
  <2> QED
    BY <2>1, <2>2 DEF WalkInv, BypassedBehind, Bypassable, BypassTarget, kind, Driver
<1>6. CASE RepeatWalk \/ EndInverters
  <2>1. pos' = 1
    BY <1>6 DEF RepeatWalk, EndInverters
  <2>2. \A n \in Node : ~(n < pos')
    BY <2>1
  <2> QED
    BY <2>2
<1>7. CASE \/ EndBuffers \/ EndRemoval
           \/ \E n \in Node : RemoveDeadNode(n) \/ KeepNode(n) \/ Abort(n)
  <2>1. phase' \notin {"inverters", "buffers"}
    BY <1>7 DEF EndBuffers, EndRemoval, RemoveDeadNode, KeepNode, Abort, Visits
  <2> QED
    BY <2>1
<1>8. CASE UNCHANGED vars
  BY <1>8 DEF vars, WalkInv, MergedBehind, BypassedBehind, Bypassable, BypassTarget, kind, Driver
<1> QED
  BY <1>1, <1>2, <1>3, <1>4, <1>5, <1>6, <1>7, <1>8 DEF Next

(* The do-while loops of rewriteInverters and rewriteBuffers do not stop   *)
(* early: at the end of the one a signal has one inverter that is read,    *)
(* at the end of the other nothing reads what could be bypassed.           *)
THEOREM LoopsFinishTheirWork == Spec => NothingLeftToRewrite
<1>1. Init => WalkInv
  <2>1. Init => pos = 1 /\ \A n \in Node : ~(n < 1)
    BY DEF Init
  <2> QED
    BY <2>1 DEF WalkInv
<1>2. TypeOK /\ WalkInv /\ [Next]_vars =>
        [(EndInverters => InvertersMerged) /\ (EndBuffers => BuffersBypassed)]_vars
  <2> SUFFICES ASSUME TypeOK, WalkInv
               PROVE  (EndInverters => InvertersMerged) /\ (EndBuffers => BuffersBypassed)
    OBVIOUS
  <2>1. ASSUME pos = NumNodes + 1 PROVE \A n \in Node : n < pos
    BY <2>1
  <2>2. EndInverters => InvertersMerged
    <3> SUFFICES ASSUME EndInverters, NEW n1 \in Node, NEW n2 \in Node,
                        kind[n1] = "inv", kind[n2] = "inv", fanouts[n1] # {}, fanouts[n2] # {},
                        Driver(n1) = Driver(n2)
                 PROVE  n1 = n2
      BY DEF InvertersMerged
    <3>1. MergedBehind(n1) /\ MergedBehind(n2)
      BY <2>1 DEF EndInverters, WalkInv
    <3> QED
      BY <3>1 DEF MergedBehind
  <2>3. EndBuffers => BuffersBypassed
    BY <2>1 DEF EndBuffers, WalkInv, BypassedBehind, BuffersBypassed
  <2> QED
    BY <2>2, <2>3
<1> QED
  BY <1>1, <1>2, WalkStep, TypeCorrect, PTL DEF Spec, NothingLeftToRewrite
=============================================================================
