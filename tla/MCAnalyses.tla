------------------------------ MODULE MCAnalyses ------------------------------
(* Small netlists for the latch connections and what is found along them.  *)
EXTENDS Counters, LatchConnectionsProps

UpToTwo(S) == {<<a>> : a \in S} \cup {<<p[1], p[2]>> : p \in {q \in S \X S : q[1] <= q[2]}}

(* Gates 1 and 2 are sorted, or on or behind a loop.                       *)
Ordered(first, second) ==
  (\E k \in DOMAIN first : first[k] = 2) => \E k \in DOMAIN second : second[k] \in {1, 2}

(* The nodes that an instance has no use for are inputs.                   *)
Padded(s, e) == s \o [k \in 1..(NumNodes - Len(s)) |-> e]
NoScan == [n \in Node |-> NoNode]
Plain(kind, in, scan) ==
  [kind |-> Padded(kind, "input"), inputs |-> Padded(in, <<>>), si |-> scan, fn |-> [n \in Node |-> {}], clk |-> [n \in Node |-> n],
   rst |-> [n \in Node |-> 0],
   address |-> SetToSortSeq({n \in DOMAIN kind : kind[n] = "latch"}, <),
   ram |-> {}, ignored |-> {}]

(* Two gates with any wiring; gate 3 is the latch gate of latch 5 and may  *)
(* have a scan input, gate 4 that of latch 6; node 7 is the clock.         *)
Scanned ==
  {Plain(<<"gate", "gate", "gate", "gate", "latch", "latch", "input">>,
         <<first, second, <<d>> \o (IF s = NoNode THEN <<>> ELSE <<s>>), <<e>>,
           <<3, 7>>, <<4, 7>>, <<>>>>,
         [n \in Node |-> IF n = 3 THEN s ELSE NoNode]) :
     first \in UpToTwo({1, 2, 5, 6}), second \in UpToTwo({1, 2, 5, 6}),
     d \in {2, 5}, s \in {1, 2, 5, NoNode}, e \in {1, 6}}

(* Latch 5 scans itself in and has a clock that a gate makes from latches. *)
ScansItself ==
  {Plain(<<"gate", "gate", "gate", "gate", "latch", "latch", "input">>,
         <<first, second, <<2, 5>>, <<1>>, <<3, 1>>, <<4, 7>>, <<>>>>,
         [n \in Node |-> IF n = 3 THEN 5 ELSE NoNode]) :
     first \in UpToTwo({1, 5, 6}), second \in UpToTwo({1, 2, 5, 6})}

(* Latch 4 with latch gate 3, two gates, and macro 5 with outputs 6 and 7. *)
WithMacro ==
  {Plain(<<"gate", "gate", "gate", "latch", "macro", "macro_out", "macro_out">>,
         <<first, second, <<d>>, <<3, c>>, <<m>>, <<5>>, <<5>>>>, NoScan) :
     first \in UpToTwo({2, 4, 6, 7}), second \in UpToTwo({1, 4, 6}),
     d \in {1, 2}, c \in {6, 1}, m \in {2, 4}}

(* A latch that takes over from another, always or when enabled.           *)
Copy(from) == [in |-> <<from>>, fn |-> {{1}}]
Take(from, self, enable) ==
  [in |-> <<from, self, enable>>,
   fn |-> {P \in SUBSET (1..3) : IF 3 \in P THEN 1 \in P ELSE 2 \in P}]
(* One that toggles when all, or none, of others are 1, or never.          *)
Toggle(how, others, self) ==
  [in |-> <<self>> \o others,
   fn |-> LET after == 2..(Len(others) + 1) IN
          {P \in SUBSET (1..(Len(others) + 1)) :
             (1 \in P) # CASE how = "up" -> after \subseteq P
                           [] how = "down" -> after \cap P = {}
                           [] how = "hold" -> FALSE}]

(* Latch gates `gates' with a latch each; the last node is their clock.    *)
Latches(gates, order, rst, ram) ==
  LET num == Len(gates) IN
  [kind |-> Padded([n \in 1..(2 * num) |-> IF n <= num THEN "gate" ELSE "latch"], "input"),
   inputs |-> Padded([n \in 1..(2 * num) |-> IF n <= num THEN gates[n].in ELSE <<n - num, NumNodes>>], <<>>),
   si |-> NoScan,
   fn |-> Padded([n \in 1..num |-> gates[n].fn], {}),
   clk |-> [n \in Node |-> 0], rst |-> rst, address |-> order, ram |-> ram, ignored |-> {}]

NoReset == [n \in Node |-> 0]

(* Four latches, 5 to 8, with latch gates 1 to 4 and one enable.           *)
Shifting(plains, orders, resets, rams) ==
  {Latches([n \in 1..4 |-> IF n \in plain THEN Copy(from[n]) ELSE Take(from[n], n + 4, NumNodes)],
           order, rst, ram) :
     from \in [1..4 -> {5, 6, 7, 8}], plain \in plains, order \in orders, rst \in resets, ram \in rams}

(* Two rows of three, with an enable each; the second row may begin or end *)
(* in the first.                                                           *)
TwoRows ==
  {Latches(<<Take(NumNodes, 7, 13), Take(7, 8, 13), Take(8, 9, 13),
             Take(d, 10, e), Take(f, 11, e), Take(g, 12, e)>>,
           <<7, 8, 9, 10, 11, 12>>, NoReset, {}) :
     d \in {NumNodes, 7, 8}, f \in {10, 7, 8}, g \in {11, 8, 10}, e \in {13, NumNodes}}

(* Three latches, 4 to 6, with latch gates 1 to 3.                         *)
Counting(hows, orders, rams) ==
  {Latches([n \in 1..3 |-> Toggle(how[n], SetToSortSeq(read[n], <), n + 3)], order, NoReset, ram) :
     how \in hows, read \in {f \in [1..3 -> SUBSET {4, 5, 6}] : \A n \in 1..3 : n + 3 \notin f[n]},
     order \in orders, ram \in rams}

(* Latches 5 to 7 with gates 2 to 4; gate 1 is the carry of the first two. *)
WithCarry ==
  {[Plain(<<"gate", "gate", "gate", "gate", "latch", "latch", "latch">>,
          <<<<5, 6>>, Toggle("up", <<>>, 5).in, Toggle("up", second, 6).in, Toggle("up", third, 7).in,
            <<2, NumNodes>>, <<3, NumNodes>>, <<4, NumNodes>>>>, NoScan)
      EXCEPT !.clk = NoReset,
             !.fn = Padded(<<{{1, 2}}, Toggle("up", <<>>, 5).fn, Toggle("up", second, 6).fn,
                             Toggle("up", third, 7).fn>>, {})] :
     second \in {<<5>>, <<7>>, <<5, 7>>}, third \in {<<1>>, <<1, 5>>, <<1, 6>>, <<5, 6>>}}

(* Latch 4 toggles, 5 and 6 take over from it and from each other: both    *)
(* orders of the three pass the tests, although every read counts.         *)
Settle(self, others) == [in |-> <<self>> \o others, fn |-> {P \in SUBSET (1..3) : 1 \notin P /\ P # {}}]
EitherOrder ==
  {Latches(<<Toggle("up", <<>>, 4), Settle(5, <<4, 6>>), Settle(6, <<4, m>>)>>, <<4, 5, 6>>, NoReset, {}) :
     m \in {4, 5}}

Orders(l) == {l, Reverse(l)}
AlmostAll(how) == {h \in [1..3 -> {how, "hold"}] : Cardinality({n \in 1..3 : h[n] = "hold"}) < 3}

SmallNetlists ==
  {nl \in Scanned \cup ScansItself \cup WithMacro : Ordered(nl.inputs[1], nl.inputs[2])}
  \cup Shifting({1..4}, Orders(<<5, 6, 7, 8>>), {NoReset}, {{}})
  \cup Shifting({{}, {1, 2}}, {<<5, 6, 7, 8>>}, {NoReset}, {{}})
  \cup Shifting({1..4}, {<<5, 6, 7, 8>>}, {[NoReset EXCEPT ![8] = 2]}, {{}, {8}})
  \cup TwoRows
  \cup Counting(AlmostAll("up") \cup AlmostAll("down"), {<<4, 5, 6>>}, {{}})
  \cup Counting(AlmostAll("up"), {<<6, 5, 4>>}, {{}, {6}})
  \cup WithCarry \cup EitherOrder
=============================================================================
