------------------------------- MODULE KCover -------------------------------
(* The enumeration of k-feasible cuts, node_t::get_kcovers and             *)
(* compute_covers, for the gates of a netlist in topological order.        *)
(* A cover of a gate is a set of leaves.  compute_covers combines one      *)
(* cover of each input, depth first; kcover_t::simple_merge refuses more   *)
(* than kcoverTh leaves, kcover_t::prune drops leaves that lie inside, and *)
(* what has at most kcoverSize leaves and is new is kept.                  *)
EXTENDS Integers, Sequences, FiniteSets

CONSTANTS
  NumNodes,   \* number of nodes; a node is its place in the order
  kcoverSize, \* options.kcoverSize
  kcoverTh,   \* options.kcoverTh
  Netlists    \* the netlists to start from

Node == 1..NumNodes

(* Each node has the list of its input pins.  Inputs, latches and macros   *)
(* count as sources whatever they read, and have an empty list here; so    *)
(* tie cells, gates without inputs, are left out.  After topo_sort a gate  *)
(* comes after what it reads.                                              *)
IsNetlist(inputs) ==
  /\ inputs \in [Node -> Seq(Node)]
  /\ \A n \in Node : \A i \in DOMAIN inputs[n] : inputs[n][i] < n

ASSUME NumNodesAssumption == NumNodes \in Nat
ASSUME kcoverAssumption == kcoverSize \in Nat /\ kcoverTh \in Nat
ASSUME NetlistsAssumption == \A inputs \in Netlists : IsNetlist(inputs)

VARIABLES
  inputs,   \* node_t::inputs
  kcovers,  \* node_t::kcovers
  gate,     \* the gate kcover_analysis is at
  k_inputs, \* node_t::k_inputs of that gate
  stack     \* the calls of compute_covers that run

vars == <<inputs, kcovers, gate, k_inputs, stack>>

Gate == {n \in Node : inputs[n] # <<>>}
Fanin(n) == {inputs[n][i] : i \in DOMAIN inputs[n]}

(* A cover: kcover_t::leaves, and kcover_t::internals if prune filled      *)
(* them, {} if not.  (get_internals also keeps what compute_internals      *)
(* finds, which is the same whenever it is asked.)                         *)
Cover == [leaves : SUBSET Node, internals : SUBSET Node]

(* A call of compute_covers(cov, pos): the leaves of cov, its parents as   *)
(* pairs of a node and a place in the node's list, and the loop counter.   *)
(* Its pos is its depth in the stack.                                      *)
Frame == [leaves : SUBSET Node, parents : SUBSET (Node \X Nat), next : Nat]
-----------------------------------------------------------------------------
(* compute_internals: what the root reaches above the leaves, the least    *)
(* set that is closed.  All of it comes before the root.                   *)
Above(root, leaves) == (1..root) \ leaves
Closed(root, leaves) ==
  {S \in SUBSET Above(root, leaves) :
     /\ root \in leaves \cup S
     /\ \A n \in S : Fanin(n) \subseteq leaves \cup S}
Cone(root, leaves) ==
  LET closed == Closed(root, leaves)
  IN  {n \in Above(root, leaves) : \A S \in closed : n \in S}

(* The leaves that getFn meets on its way down from the root.              *)
Met(root, leaves) ==
  leaves \cap ({root} \cup UNION {Fanin(n) : n \in Cone(root, leaves)})

(* Mutant: the leaves count as inside.                                     *)
InternalsAndLeaves(n, cover) ==
  (IF cover.internals # {} THEN cover.internals ELSE Cone(n, cover.leaves)) \cup cover.leaves

(* kcover_t::get_internals.                                                *)
Internals(n, cover) ==
  IF cover.internals # {} \/ cover.leaves = {} THEN cover.internals
  ELSE Cone(n, cover.leaves)

CoverAt(p) == kcovers[p[1]][p[2]]

(* Mutant: the root is forgotten.                                          *)
InsideNoRoot(f) == UNION {Internals(p[1], CoverAt(p)) : p \in f.parents}

(* What kcover_t::prune collects.                                          *)
Inside(f) == {gate} \cup UNION {Internals(p[1], CoverAt(p)) : p \in f.parents}

(* kcover_t::prune.  It prunes if the function of the root depends on      *)
(* fewer inputs than there are leaves: surely if getFn does not meet a     *)
(* leaf, and for some functions of the gates if it meets them all.         *)
PruneOfPhony(f) ==
  {[leaves |-> f.leaves, internals |-> {}],
   [leaves |-> f.leaves \ Inside(f), internals |-> Inside(f)]}
Pruned(f) ==
  {[leaves |-> f.leaves \ Inside(f), internals |-> Inside(f)]}
    \cup IF Met(gate, f.leaves) = f.leaves
         THEN {[leaves |-> f.leaves, internals |-> {}]} ELSE {}
-----------------------------------------------------------------------------
(* The orders that std::sort may leave with kcover_cnt_cmp.                *)
Orders(k) == {b \in [1..k -> 1..k] : \A i \in 1..k : \E j \in 1..k : b[j] = i}
SortedInputs(n) ==
  {[j \in 1..Len(inputs[n]) |-> inputs[n][b[j]]] : b \in
     {b \in Orders(Len(inputs[n])) : \A i, j \in 1..Len(inputs[n]) :
        i < j => Len(kcovers[inputs[n][b[i]]]) <= Len(kcovers[inputs[n][b[j]]])}}

Itself(n) == [leaves |-> {n}, internals |-> {}]

(* A source gets its only cover when it is first asked for it.             *)
Init ==
  /\ inputs \in Netlists
  /\ kcovers = [n \in Node |-> IF n \in Gate THEN <<>> ELSE <<Itself(n)>>]
  /\ gate = 1
  /\ k_inputs = <<>>
  /\ stack = <<>>

(* Mutant: the loop does not look for the end of the list.                 *)
PassOverSourceAlways ==
  /\ stack = <<>>
  /\ gate \notin Gate
  /\ gate' = gate + 1
  /\ UNCHANGED <<inputs, kcovers, k_inputs, stack>>

(* kcover_analysis runs over the gates only.                               *)
PassOverSource ==
  /\ stack = <<>>
  /\ gate \in Node \ Gate
  /\ gate' = gate + 1
  /\ UNCHANGED <<inputs, kcovers, k_inputs, stack>>

(* kcover_analysis sorts the inputs and asks the gate for its covers.      *)
TakeGate ==
  /\ stack = <<>>
  /\ gate \in Gate
  /\ k_inputs' \in SortedInputs(gate)
  /\ stack' = <<[leaves |-> {}, parents |-> {}, next |-> 1]>>
  /\ UNCHANGED <<inputs, kcovers, gate>>

depth == Len(stack)
top == stack[depth]
AtInput == depth \in DOMAIN k_inputs

(* The next cover of the input is merged, unless it brings too many        *)
(* leaves.                                                                 *)
MergeNext ==
  LET inp == k_inputs[depth]
      leaves == top.leaves \cup kcovers[inp][top.next].leaves
  IN  /\ AtInput
      /\ top.next \in DOMAIN kcovers[inp]
      /\ Cardinality(leaves) <= kcoverTh
      /\ stack' = Append([stack EXCEPT ![depth].next = @ + 1],
                         [leaves |-> leaves,
                          parents |-> top.parents \cup {<<inp, top.next>>},
                          next |-> 1])
      /\ UNCHANGED <<inputs, kcovers, gate, k_inputs>>

(* simple_merge returns NULL.                                              *)
RefuseNext ==
  LET inp == k_inputs[depth] IN
  /\ AtInput
  /\ top.next \in DOMAIN kcovers[inp]
  /\ Cardinality(top.leaves \cup kcovers[inp][top.next].leaves) > kcoverTh
  /\ stack' = [stack EXCEPT ![depth].next = @ + 1]
  /\ UNCHANGED <<inputs, kcovers, gate, k_inputs>>

(* Mutant: the last cover of an input is not tried.                        *)
ReturnEarly ==
  /\ AtInput /\ depth > 1
  /\ top.next = Len(kcovers[k_inputs[depth]])
  /\ stack' = SubSeq(stack, 1, depth - 1)
  /\ UNCHANGED <<inputs, kcovers, gate, k_inputs>>

(* The loop over the covers of an input ends.                              *)
Return ==
  /\ AtInput /\ depth > 1
  /\ top.next = Len(kcovers[k_inputs[depth]]) + 1
  /\ stack' = SubSeq(stack, 1, depth - 1)
  /\ UNCHANGED <<inputs, kcovers, gate, k_inputs>>

(* is_duplicate: covers are the same if their leaves are.                  *)
IsDuplicate(cover) == \E i \in DOMAIN kcovers[gate] : kcovers[gate][i].leaves = cover.leaves

(* All inputs are merged: prune, and keep what is small and new.           *)
Keep ==
  /\ stack # <<>> /\ depth = Len(k_inputs) + 1
  /\ \E cover \in Pruned(top) :
       kcovers' = IF Cardinality(cover.leaves) <= kcoverSize /\ ~IsDuplicate(cover)
                  THEN [kcovers EXCEPT ![gate] = Append(@, cover)] ELSE kcovers
  /\ stack' = SubSeq(stack, 1, depth - 1)
  /\ UNCHANGED <<inputs, gate, k_inputs>>

(* get_kcovers adds the gate itself.                                       *)
FinishGate ==
  /\ AtInput /\ depth = 1
  /\ top.next = Len(kcovers[k_inputs[1]]) + 1
  /\ kcovers' = [kcovers EXCEPT ![gate] = Append(@, Itself(gate))]
  /\ stack' = <<>>
  /\ gate' = gate + 1
  /\ UNCHANGED <<inputs, k_inputs>>

Next ==
  PassOverSource \/ TakeGate \/ MergeNext \/ RefuseNext \/ Return \/ Keep \/ FinishGate

Spec == Init /\ [][Next]_vars
-----------------------------------------------------------------------------
TypeOK ==
  /\ IsNetlist(inputs)
  /\ kcovers \in [Node -> Seq(Cover)]
  /\ gate \in 1..(NumNodes + 1)
  /\ k_inputs \in Seq(Node)
  /\ stack \in Seq(Frame)

Done(n) == n < gate
CoversOf(n) == {kcovers[n][i] : i \in DOMAIN kcovers[n]}

(* Going down from the root, getFn comes to a leaf before it comes to a    *)
(* source: its assert(node->get_type() == GATE) holds, whatever was pruned.*)
CoversAreCuts == \A n \in Node : \A c \in CoversOf(n) : Cone(n, c.leaves) \subseteq Gate

(* No leaf hides behind the others, so numInputs of a cover is what the    *)
(* root sees of the netlist.                                               *)
LeavesAreMet == \A n \in Node : \A c \in CoversOf(n) : Met(n, c.leaves) = c.leaves

(* The internals that prune puts together from the parents are those that  *)
(* compute_internals would find from the leaves that remain.               *)
InternalsAreExact ==
  \A n \in Node : \A c \in CoversOf(n) :
    c.internals # {} => c.internals = Cone(n, c.leaves)

(* Covers are within the limit, and no two of a gate have the same leaves. *)
CoversAreDistinct ==
  \A n \in Node : \A i, j \in DOMAIN kcovers[n] :
    /\ kcovers[n][i].leaves = kcovers[n][j].leaves => i = j
    /\ kcovers[n][i].leaves = {n} \/ Cardinality(kcovers[n][i].leaves) <= kcoverSize

(* The search leaves nothing out, although it cuts off below a merge that  *)
(* is too large and visits the inputs in any order: every choice of one    *)
(* cover for each input whose leaves are few enough leads to a cover, the  *)
(* whole choice or what pruning leaves of it.                              *)
ChoicesOf(n) ==
  {c \in [Fanin(n) -> 1..Cardinality(SUBSET Node)] : \A m \in Fanin(n) : c[m] \in DOMAIN kcovers[m]}
SearchIsComplete ==
  \A n \in Gate : Done(n) =>
    \A c \in ChoicesOf(n) :
      LET leaves == UNION {kcovers[m][c[m]].leaves : m \in Fanin(n)}
          inside == {n} \cup UNION {Internals(m, kcovers[m][c[m]]) : m \in Fanin(n)}
      IN  Cardinality(leaves) <= kcoverTh =>
            \E L \in {leaves, leaves \ inside} :
              Cardinality(L) > kcoverSize \/ \E k \in CoversOf(n) : k.leaves = L

=============================================================================
