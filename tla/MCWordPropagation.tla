------------------------- MODULE MCWordPropagation -------------------------
(* Two inputs, two cells of two pins, and others of one pin.               *)
EXTENDS WordPropagation, FiniteSetsExt

Pairs == {1, 2, 5, 6}
Symmetries == [t \in Types |-> IF t = "ND" THEN {1, 2} ELSE {}]

(* The cells of two pins are muxes or NANDs, whose pins are alike; the     *)
(* last cells are inverters or macros.  Readers are listed by number, up   *)
(* or down.                                                                *)
Wired(in, two, last, macros, up) ==
  LET type == [n \in Node |-> CASE n <= 2 -> NoType [] n \in {3, 4} -> two [] OTHER -> last]
      fanouts == [n \in Node |-> {m \in Node : \E i \in DOMAIN in[m] : in[m][i] = n}]
      First(S) == IF S = {} THEN 1 ELSE IF up THEN Min(S) ELSE Max(S)
  IN [type |-> type, macro |-> macros, inputs |-> in, fanouts |-> fanouts,
      first |-> [n \in Node |-> [t \in Types |-> First({m \in fanouts[n] : type[m] = t})]]]

Wirings ==
  {[n \in Node |-> CASE n <= 2 -> <<>> [] n = 3 -> f [] n = 4 -> g [] OTHER -> <<h[n]>>] :
     f \in Pairs \X Pairs, g \in {1, 5} \X Pairs, h \in [5..NumNodes -> 1..4]}

SmallNetlists ==
  {Wired(in, two, "INV", {}, up) : two \in {"MX", "ND"}, in \in Wirings, up \in BOOLEAN} \cup
  {Wired(in, "MX", "RAM", 5..NumNodes, TRUE) : in \in {x \in Wirings : x[5][1] = 1}}
Tables == {<< <<1, 2>> >>, << <<4, 3>> >>, << <<3, 4>> >>, << <<5, 6>>, <<2, 1>> >>}
=============================================================================
