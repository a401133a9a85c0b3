--------------------------- MODULE MCAggregation ---------------------------
(* Small adders, and the circuits of MCModuleGrouping, for CarryChains.     *)
EXTENDS CarryChains, MCModuleGrouping

(* Nodes of an adder of three bits: operands, inverters of one, carry in    *)
(* and carries, their complements, sums, and what one operand is made of.   *)
A(b) == b
B(b) == 3 + b
C(b) == 7 + b         \* C(0) is the carry in
NotA(b) == 10 + b
NotC(b) == 14 + b
S(b) == 16 + b
P == {20, 21}

(* A design is a cell for each node with the nodes it reads.                *)
Cell(fn, reads) == [fn |-> fn, reads |-> reads]

(* Which of the complements the sum and the carry of a bit read, how the    *)
(* complement of the first operand and of the first carry are made, and     *)
(* whether the sum and the carry of the first bit have a carry in.          *)
Flips == [a : BOOLEAN, c : BOOLEAN]
Adder(sum, carry, half, nand, nor) ==
  LET Operands(f, b) == {IF f.a THEN NotA(b) ELSE A(b), B(b)}
      Reads(f, b) == Operands(f, b) \cup {IF f.c THEN NotC(b - 1) ELSE C(b - 1)}
      SumReads(b) == IF b = 1 /\ half.sum THEN Operands(sum[1], 1) ELSE Reads(sum[b], b)
      CarryReads(b) == IF b = 1 /\ half.carry THEN Operands(carry[1], 1) ELSE Reads(carry[b], b)
      cells == [n \in Node |->
        CASE n \in {S(b) : b \in 1..3}    -> Cell("sum", SumReads(n - 16))
          [] n = C(1) /\ half.carry       -> Cell("and", CarryReads(1))
          [] n \in {C(b) : b \in 1..3}    -> Cell("carry", CarryReads(n - 7))
          [] n = A(1) /\ nor              -> Cell("or", P)
          [] n = NotA(1) /\ nor           -> Cell("nor", P)
          [] n \in {NotA(b) : b \in 1..3} -> Cell("not", {A(n - 10)})
          [] n = NotC(1) /\ nand          -> Cell("nand", CarryReads(1))
          [] n \in {NotC(b) : b \in 0..2} -> Cell("not", {C(n - 14)})
          [] OTHER                        -> Cell("input", {})]
      used == {S(b) : b \in 1..3} \cup {C(b) : b \in 1..3} \cup
              UNION {SumReads(b) \cup CarryReads(b) : b \in 1..3}
      needed == used \cup UNION {cells[n].reads : n \in used}
  IN  [n \in Node |-> IF n \in needed THEN cells[n] ELSE Cell("input", {})]

(* The covers of a cell: its leaves may be taken behind their inverters.    *)
Not(fn) ==
  CASE fn = "and" -> "nand" [] fn = "nand" -> "and" [] fn = "or" -> "nor" [] fn = "nor" -> "or"
    [] fn = "sum" -> "isum" [] fn = "isum" -> "sum" [] OTHER -> fn
Behind(fn, reads, flipped) ==
  CASE flipped = {}        -> {fn}
    [] fn = "carry"        -> {fn}
    [] fn = "sum"          -> {IF Cardinality(flipped) % 2 = 0 THEN "sum" ELSE "isum"}
    [] flipped # reads     -> {}
    [] fn \in {"and", "nand"} -> {IF fn = "and" THEN "nor" ELSE "or"}
    [] fn \in {"or", "nor"}   -> {IF fn = "or" THEN "nand" ELSE "and"}
    [] OTHER               -> {}
CellCovers(cells, n) ==
  LET reads == cells[n].reads
      inverters == {m \in reads : cells[m].fn = "not"}
      Leaves(flipped) == (reads \ flipped) \cup UNION {cells[m].reads : m \in flipped}
  IN  UNION {[root : {n}, leaves : {Leaves(f)}, fn : Behind(cells[n].fn, reads, f)] :
               f \in SUBSET inverters}

AdderNetlist(cells) ==
  LET gates  == {n \in Node : cells[n].fn # "input"}
      direct == UNION {CellCovers(cells, n) : n \in gates}
  IN  [kind     |-> [n \in Node |-> IF cells[n].fn = "not" THEN "inv" ELSE "other"],
       reads    |-> [n \in Node |-> cells[n].reads],
       siblings |-> {},
       covers   |-> direct \cup
                    UNION {{[root |-> n, leaves |-> c.leaves, fn |-> Not(c.fn)] :
                              c \in {c \in direct : c.root \in cells[n].reads}} :
                           n \in {n \in gates : cells[n].fn = "not"}}]

(* Adders with every choice of complements in the first bits.               *)
Straight == [a |-> FALSE, c |-> FALSE]
AdderCells ==
  {Adder(<<s1, [Straight EXCEPT !.c = s2], Straight>>, <<c1, c2, Straight>>,
         [sum |-> made[1], carry |-> made[2]], made[3], made[4]) :
     s1 \in Flips, s2 \in BOOLEAN, c1 \in Flips, c2 \in Flips,
     made \in {<<FALSE, FALSE, FALSE, FALSE>>, <<FALSE, FALSE, FALSE, TRUE>>,
               <<TRUE, TRUE, FALSE, FALSE>>, <<TRUE, TRUE, TRUE, FALSE>>,
               <<FALSE, TRUE, FALSE, FALSE>>}}

(* Two more bits that the first carry feeds as well, and that may feed the  *)
(* third.                                                                   *)
Forked(c2, c3, joins) ==
  LET straight == Adder(<<Straight, Straight, Straight>>,
                        <<Straight, [Straight EXCEPT !.c = c2], Straight>>,
                        [sum |-> FALSE, carry |-> FALSE], FALSE, FALSE)
      first == IF c3 THEN NotC(1) ELSE C(1)
  IN  [n \in Node |->
        CASE n = NotC(1)        -> Cell("not", {C(1)})
          [] n = 22             -> Cell("carry", {A(3), B(3), first})
          [] n = 23             -> Cell("sum", {A(3), B(3), C(1)})
          [] n = 24             -> Cell("carry", {A(2), B(2), 22})
          [] n = 25             -> Cell("isum", {A(2), B(2), 22})
          [] n = C(3) /\ joins  -> Cell("carry", {22, B(3), C(2)})
          [] n = S(3) /\ joins  -> Cell("sum", {22, B(3), C(2)})
          [] OTHER              -> straight[n]]
ForkedCells == {Forked(c2, c3, joins) : c2 \in BOOLEAN, c3 \in BOOLEAN, joins \in BOOLEAN}

AdderNetlists == {AdderNetlist(cells) : cells \in AdderCells \cup ForkedCells}

ASSUME AddersAreCovered == \A nl \in AdderNetlists : WellCovered(nl) /\ WellMatched(nl)

WithoutAdders(nl) == [kind |-> nl.kind, reads |-> nl.reads, siblings |-> nl.siblings, covers |-> {}]
AggregateNetlists == AdderNetlists \cup {WithoutAdders(nl) : nl \in SmallNetlists}
AggregateSearches(nl) ==
  IF nl.covers # {} THEN {<<>>}
  ELSE SmallSearches([kind |-> nl.kind, reads |-> nl.reads, siblings |-> nl.siblings])

Early == step # "done"
=============================================================================
