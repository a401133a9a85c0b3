-------------------------- MODULE MCNetlistRewrite --------------------------
(* Small netlists for NetlistRewrite.                                      *)
EXTENDS NetlistRewriteProps

Spare == NumNodes

(* Every netlist of one primary input, buffers and inverters that read any *)
(* node, rings included, in every order of names, and a latch that reads   *)
(* one of them.                                                            *)
RingNetlists ==
  LET Used == 1..(NumNodes - 1)
      Wired(k) == {[n \in Node |-> IF n \in {r, Spare} THEN <<>> ELSE <<f[n]>>] :
                      f \in {f \in [Used -> Used] : k[f[NumNodes - 1]] \in {"buf", "inv"}},
                      r \in {m \in Used : k[m] = "input"}}
      Kinds == {[n \in Node |-> IF n = Spare THEN "input" ELSE k[n]] : k \in
                 {k \in [Used -> {"input", "buf", "inv", "latch"}] :
                  /\ Cardinality({n \in Used : k[n] = "input"}) = 1
                  /\ {n \in Used : k[n] = "latch"} = {NumNodes - 1}}}
  IN  UNION {[kind : {k}, inputs : Wired(k), output : {{}}] : k \in Kinds}

(* Chains into a two-input gate under every choice of primary outputs; no  *)
(* gate reads itself.                                                      *)
OutputNetlists ==
  LET Used == {1, 2, 3, NumNodes}
      Kinds == {k \in [Node -> {"input", "latchgate", "buf", "inv", "fn", "nor2xb"}] :
                  /\ \A n \in Node \ {2, 3, NumNodes} : k[n] = "input"
                  /\ k[NumNodes] \in {"fn", "nor2xb"}
                  /\ k[2] \in {"buf", "inv"} /\ k[3] \in {"buf", "inv", "latchgate"}}
      Wired == {[n \in Node |-> IF n \notin {2, 3, NumNodes} THEN <<>>
                                ELSE IF n = NumNodes THEN <<f[1], f[n]>>
                                ELSE <<f[n]>>] :
                  f \in {g \in [Used -> Used] : /\ g[1] <= g[NumNodes]
                                             /\ g[2] # 2 /\ g[3] # 3}}
  IN  {nl \in [kind : Kinds, inputs : Wired, output : SUBSET (Used \ {1})] :
         \A n \in Node : nl.kind[n] = "latchgate" => n \in nl.output}

(* Two inverters of an input, one of each of them, and a gate that reads   *)
(* both, in every order of names.                                          *)
MergeNetlists ==
  LET kinds == <<"input", "inv", "inv", "inv", "inv", "fn">>
      wires == <<<<>>, <<1>>, <<1>>, <<2>>, <<3>>, <<4, 5>>>>
      Orders == {s \in [Node -> Node] : \A n, m \in Node : s[n] = s[m] => n = m}
      Place(s, n) == CHOOSE m \in Node : s[m] = n
  IN {[kind |-> [n \in Node |-> kinds[s[n]]],
       inputs |-> [n \in Node |-> [i \in DOMAIN wires[s[n]] |-> Place(s, wires[s[n]][i])]],
       output |-> {}] : s \in Orders}

SmallNetlists == RingNetlists \cup OutputNetlists \cup MergeNetlists
=============================================================================
