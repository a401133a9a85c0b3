----------------------------- MODULE MCTopoSort -----------------------------
(* Small netlists for TopoSort.                                            *)
EXTENDS TopoSort

(* Every wiring of gates with at most two inputs, in every order of names; *)
(* the last node is a latch, a macro's output or a gate that reads one     *)
(* node.  Gates of one input that nothing reads, or only such gates, may   *)
(* be set aside.                                                           *)
Fanin == {S \in SUBSET Node : Cardinality(S) <= 2}
Last == {<<"source", {}>>, <<"macro_out", {}>>} \cup {<<"gate", {n}>> : n \in Node}
Unread(nl, set) ==
  {n \in Node : /\ nl.kind[n] = "gate" /\ Cardinality(nl.inputs[n]) = 1
                /\ \A m \in Node \ set : n \notin nl.inputs[m]}
Wirings ==
  {[kind |-> [n \in Node |-> IF n = NumNodes THEN last[1] ELSE "gate"],
    inputs |-> [n \in Node |-> IF n = NumNodes THEN last[2] ELSE f[n]],
    aside |-> {}] :
     f \in [1..(NumNodes - 1) -> Fanin], last \in Last}
MCNetlists ==
  UNION {LET once == Unread(nl, {})
         IN  {[nl EXCEPT !.aside = set] : set \in {{}, Unread(nl, once)}} : nl \in Wirings}
=============================================================================
