----------------------------- MODULE CarryChains -----------------------------
(* aggr::identifyRCAs, the search for ripple carry adders that aggregate()  *)
(* makes after registerAnalysis: the covers that compute a sum or a carry   *)
(* are taken from the function table, each carry is given the sums of the   *)
(* same leaves up to complement, carries that read each other make a graph, *)
(* and each path of it from end to end becomes a module.                    *)
(*                                                                          *)
(* A slice (bitslice_t) is its cover: no two covers have the same root and  *)
(* leaves.  Where the code goes through slices by address, any order is     *)
(* possible.                                                                *)
EXTENDS ModuleGrouping

CONSTANT MinChain \* the shortest chain that counts, 4 in the code
ASSUME MinChainAssumption == MinChain \in Nat /\ MinChain >= 2

(* What kcover_analysis and the function table have found.  A carry is that *)
(* of a full adder with any leaf inverted; that of a half adder is an and.  *)
IsCover(c) ==
  /\ c.root \in Node /\ c.leaves \subseteq Node \ {c.root}
  /\ \/ c.fn = "not" /\ Cardinality(c.leaves) = 1
     \/ c.fn \in {"and", "nand", "or", "nor"} /\ Cardinality(c.leaves) = 2
     \/ c.fn \in {"sum", "isum"} /\ Cardinality(c.leaves) \in {2, 3}
     \/ c.fn = "carry" /\ Cardinality(c.leaves) = 3
ASSUME CoversAssumption == \A nl \in Netlists : \A c \in nl.covers : IsCover(c)

VARIABLES
  not_relation, \* flat_module_t::notRelation, a set for each node
  partners,     \* bitslice_t::partners of each carry
  edges_out,    \* the graph: the carries that read a carry,
  edges_in,     \*   and those that it reads
  starts,       \* carries without edges in that are still to be followed
  chain, rest,  \* the path being followed, and at each of its carries the
                \*   edges not yet taken
  adders,       \* what createAdderModule was called with and has made
  step          \* what identifyRCAs does

graph  == <<edges_out, edges_in>>
walk   == <<starts, chain, rest>>
search == <<not_relation, partners, graph, walk, adders, step>>

Covers(fns) == {c \in netlist.covers : c.fn \in fns}
Sums   == Covers({"sum", "isum"})
Carrys == Covers({"carry", "and", "nand"})
-----------------------------------------------------------------------------
(* markNotRelation.                                                         *)
Opposite(c, d) ==
  <<c.fn, d.fn>> \in {<<"and", "nand">>, <<"or", "nor">>} /\ c.leaves = d.leaves

(* create_not_relation, the last of the analysis of covers.  It returns     *)
(* early when there is no inverter.                                         *)
CreateNotRelation ==
  /\ step = "relate"
  /\ LET inverters == Covers({"not"})
         Inverts(n, m) == \E c \in inverters : c.root = n /\ c.leaves = {m}
         Pair(n, m) == \E c, d \in netlist.covers : c.root = n /\ d.root = m /\ Opposite(c, d)
         Related(n, m) == inverters # {} /\ (Inverts(n, m) \/ Pair(n, m))
     IN  not_relation' =
           [n \in Node |-> {m \in {c.root : c \in netlist.covers} \cup
                                   UNION {c.leaves : c \in inverters} :
                              Related(n, m) \/ Related(m, n)}]
  /\ step' = "partners"
  /\ UNCHANGED <<partners, graph, walk, adders>>

SameOrNot(n, m) == n = m \/ m \in not_relation[n]

(* Mutant: leaves without a counterpart in the carry are overlooked.        *)
MatchesSome(s, c) == \A l \in c.leaves : \E m \in s.leaves : SameOrNot(l, m)

(* find_matching_sums: the leaves of the sum are those of the carry, each   *)
(* or one that is its complement.                                           *)
Matches(s, c) ==
  /\ Cardinality(c.leaves) = Cardinality(s.leaves)
  /\ \E f \in [c.leaves -> s.leaves] :
       Range(f) = s.leaves /\ \A l \in c.leaves : SameOrNot(l, f[l])

(* Of sums with the same leaves the set they are looked up in holds the     *)
(* first; the exclusive or comes before its complement.                     *)
FindPartners ==
  /\ step = "partners"
  /\ LET Before(s) == {t \in Sums : t.leaves = s.leaves /\ t.fn = "sum" /\ s.fn = "isum"}
     IN  \E sumset \in SUBSET {s \in Sums : Before(s) = {}} :
           /\ \A s \in Sums : \E t \in sumset : t.leaves = s.leaves
           /\ \A s, t \in sumset : s.leaves = t.leaves => s = t
           /\ partners' = [c \in Carrys |-> {s \in sumset : Matches(s, c)}]
  /\ step' = "graph"
  /\ UNCHANGED <<not_relation, graph, walk, adders>>
-----------------------------------------------------------------------------
(* canJoinAdders: a full adder reads the carry.                             *)
CanJoin(a, b) == Cardinality(b.leaves) # 2 /\ a.root \in b.leaves
Edge2(a, b) == a # b /\ partners[a] # {} /\ partners[b] # {} /\ CanJoin(a, b)
Nonempty(f) == Restrict(f, {c \in DOMAIN f : f[c] # {}})
CreateGraph ==
  /\ step = "graph"
  /\ edges_out' = Nonempty([a \in Carrys |-> {b \in Carrys : Edge2(a, b)}])
  /\ edges_in'  = Nonempty([b \in Carrys |-> {a \in Carrys : Edge2(a, b)}])
  /\ step' = "remove"
  /\ UNCHANGED <<not_relation, partners, walk, adders>>

Inverter(n, m) == netlist.kind[n] = "inv" /\ netlist.reads[n] = {m}

(* Mutant: either leaf may be the inverter of the other.                    *)
InvContainedEitherWay(na, nb) ==
  /\ na.root = nb.root
  /\ Cardinality(na.leaves) = Cardinality(nb.leaves)
  /\ \A a \in na.leaves : \E b \in nb.leaves : a = b \/ Inverter(b, a) \/ Inverter(a, b)

(* bitslice_t::inv_contained: nb reads what na reads, or its inverter.      *)
InvContained(na, nb) ==
  /\ na.root = nb.root
  /\ Cardinality(na.leaves) = Cardinality(nb.leaves)
  /\ \A a \in na.leaves : \E b \in nb.leaves : a = b \/ Inverter(b, a)
nodes2remove ==
  {nb \in DOMAIN edges_out :
     \E na \in DOMAIN edges_out \ {nb} :
       InvContained(na, nb) /\ edges_out[na] = edges_out[nb]}

(* bitslice_graph_t::remove_node of each of them.                           *)
Without(edges, cs) == [c \in DOMAIN edges \ cs |-> edges[c] \ cs]
RemoveContained ==
  /\ step = "remove"
  /\ edges_out' = Without(edges_out, nodes2remove)
  /\ edges_in'  = Without(edges_in, nodes2remove)
  /\ step' = "starts"
  /\ UNCHANGED <<not_relation, partners, walk, adders>>
-----------------------------------------------------------------------------
(* num_edges_in and num_edges_out count what is at no place as nothing.     *)
EdgesAt(edges, c) == IF c \in DOMAIN edges THEN edges[c] ELSE {}

(* The first by address; which it is makes no difference.                   *)
First(cs) == CHOOSE c \in cs : TRUE

(* enumerateChains: along all paths from the carries that read no other.    *)
StartChains ==
  /\ step = "starts"
  /\ starts' = {c \in DOMAIN edges_out : EdgesAt(edges_in, c) = {}}
  /\ step' = "chains"
  /\ UNCHANGED <<not_relation, partners, graph, chain, rest, adders>>

StartChain ==
  /\ step = "chains" /\ chain = <<>>
  /\ starts # {}
  /\ LET c == First(starts)
     IN  /\ starts' = starts \ {c}
         /\ chain' = <<c>> /\ rest' = <<edges_out[c]>>
  /\ UNCHANGED <<not_relation, partners, graph, adders, step>>

Follow ==
  /\ step = "chains" /\ chain # <<>>
  /\ Last(rest) # {}
  /\ LET c == First(Last(rest))
     IN  /\ chain' = Append(chain, c)
         /\ rest' = Append([rest EXCEPT ![Len(rest)] = @ \ {c}], EdgesAt(edges_out, c))
  /\ UNCHANGED <<not_relation, partners, graph, starts, adders, step>>

(* What createAdderModule makes of a chain of carries and their sums.  The  *)
(* bits of a slice are the leaves of its sum but for the previous carry or  *)
(* its complement; an inverter that the carry does without is passed over.  *)
Carried(ch, k, n) == k > 1 /\ SameOrNot(ch[k - 1].root, n)
Own(ch, sums, k) == InOrder({n \in sums[k].leaves : ~Carried(ch, k, n)})
Plain(c, n) == IF \E m \in c.leaves : Inverter(n, m) THEN CHOOSE m \in c.leaves : Inverter(n, m) ELSE n
Word(ch, sums, p) ==
  LET bits == {k \in DOMAIN ch : Len(Own(ch, sums, k)) >= p}
  IN  [k \in bits |-> Plain(ch[k], Own(ch, sums, k)[p])]
CarryIn(ch, sums) == IF Len(Own(ch, sums, 1)) = 3 THEN {Own(ch, sums, 1)[3]} ELSE {}

(* Its asserts and those of add_bit and add_input_word: only the first      *)
(* slice has a carry in, words have no gaps and are two.                    *)
AddsUp(ch, sums) ==
  /\ \A k \in DOMAIN ch : Len(Own(ch, sums, k)) = 3 => k = 1
  /\ \A p \in {1, 2} : \A k \in DOMAIN Word(ch, sums, p) : 1..k \subseteq DOMAIN Word(ch, sums, p)
  /\ Word(ch, sums, 1) # Word(ch, sums, 2)

(* Mutant: leaves of the carries are added although they are inputs.        *)
EnterCarryWithInputs(nl, c, inputs, inside) ==
  LET stop == c.leaves \cup inside
  IN  inside \cup Cone(nl, {c.root} \ stop, stop) \cup c.leaves

(* The gates of a carry and those of its leaves that are no inputs.  Of a   *)
(* gate that is inside already the inputs are not looked at.                *)
EnterCarry(nl, c, inputs, inside) ==
  LET stop == c.leaves \cup inside
  IN  inside \cup Cone(nl, {c.root} \ stop, stop) \cup (c.leaves \ inputs)

AdderModule(ch, sums) ==
  LET inputs  == Range(Word(ch, sums, 1)) \cup Range(Word(ch, sums, 2)) \cup CarryIn(ch, sums)
      outputs == {sums[k].root : k \in DOMAIN sums} \cup {Last(ch).root}
      entered[k \in 0..Len(ch)] ==
        IF k = 0 THEN {} ELSE EnterCarry(netlist, ch[k], inputs, entered[k - 1])
      carried == entered[Len(ch)]
      stop    == inputs \cup carried
      behind  == (UNION {netlist.reads[o] : o \in outputs}) \ stop
      all     == carried \cup outputs \cup Cone(netlist, behind, stop)
  IN  [type |-> "ripple_addsub", outputs |-> outputs, inputs |-> inputs, sel |-> {}, aux |-> {},
       internals |-> all, is_bad |-> Bad(netlist, outputs, all)]

(* The end of a path: adder_creator_t::use, with one partner of each carry. *)
UseChain ==
  /\ step = "chains" /\ chain # <<>>
  /\ EdgesAt(edges_out, Last(chain)) = {}
  /\ IF Len(chain) < MinChain
     THEN UNCHANGED <<modules, adders, step>>
     ELSE \E sums \in {f \in [DOMAIN chain -> Sums] :
                         \A k \in DOMAIN chain : f[k] \in partners[chain[k]]} :
            IF AddsUp(chain, sums)
            THEN LET m == AdderModule(chain, sums)
                 IN  /\ modules' = Append(modules, m)
                     /\ adders' = adders \cup
                          {[chain |-> chain, sums |-> sums, module |-> m,
                            a |-> Word(chain, sums, 1), b |-> Word(chain, sums, 2),
                            carry_in |-> CarryIn(chain, sums)]}
                     /\ UNCHANGED step
            ELSE step' = "abort" /\ UNCHANGED <<modules, adders>>
  /\ chain' = Front(chain) /\ rest' = Front(rest)
  /\ UNCHANGED <<not_relation, partners, graph, starts>>

Return ==
  /\ step = "chains" /\ chain # <<>>
  /\ Last(rest) = {} /\ EdgesAt(edges_out, Last(chain)) # {}
  /\ chain' = Front(chain) /\ rest' = Front(rest)
  /\ UNCHANGED <<not_relation, partners, graph, starts, adders, step>>

EndChains ==
  /\ step = "chains" /\ chain = <<>> /\ starts = {}
  /\ step' = "done"
  /\ UNCHANGED <<not_relation, partners, graph, walk, adders>>
-----------------------------------------------------------------------------
(* The aggregation up to the resolution of overlaps and what follows it.    *)
AggregateInit ==
  /\ Init
  /\ not_relation = [n \in Node |-> {}]
  /\ partners = [c \in Carrys |-> {}]
  /\ edges_out = <<>> /\ edges_in = <<>>
  /\ starts = {} /\ chain = <<>> /\ rest = <<>>
  /\ adders = {}
  /\ step = "relate"

(* identifyRCAs is called after registerAnalysis and before any merging.    *)
IdentifyRCAs ==
  /\ phase = "merge"
  /\ \/ /\ \/ FindPartners \/ CreateGraph \/ RemoveContained
           \/ StartChains \/ StartChain \/ Follow \/ Return \/ EndChains
        /\ UNCHANGED modules
     \/ UseChain
  /\ UNCHANGED <<netlist, newmods, i, j, forest, groups, phase>>

AggregateNext ==
  \/ CreateNotRelation /\ UNCHANGED vars
  \/ IdentifyRCAs
  \/ /\ step # "relate" /\ (phase = "merge" => step = "done")
     /\ Next /\ UNCHANGED search

Aggregate == AggregateInit /\ [][AggregateNext]_<<vars, search>>
-----------------------------------------------------------------------------
Steps == {"relate", "partners", "graph", "remove", "starts", "chains", "done"}

(* Types, with the asserts of registerAnalysis; and both sides of the graph *)
(* of carries agree, although bitslice_graph_t keeps them apart.            *)
AggregateTypeOK ==
  /\ TypeOK
  /\ partners \in [Carrys -> SUBSET Sums]
  /\ \A a, b \in Carrys : b \in EdgesAt(edges_out, a) <=> a \in EdgesAt(edges_in, b)
  /\ starts \subseteq Carrys
  /\ chain \in Seq(Carrys) /\ Len(rest) = Len(chain)
  /\ step \in Steps \cup {"abort"}

Finished == phase = "merge" /\ step = "done"

Complements(n, m) == Inverter(n, m) \/ Inverter(m, n)

(* Nodes of opposite values: inverters, covers that say so, and gates of    *)
(* opposite functions.                                                      *)
Inverts(nl, n, m) == nl.kind[n] = "inv" /\ nl.reads[n] = {m}
Opposed(nl) ==
  {p \in Node \X Node : Inverts(nl, p[1], p[2]) \/ Inverts(nl, p[2], p[1])} \cup
  (UNION {({c.root} \X c.leaves) \cup (c.leaves \X {c.root}) : c \in {c \in nl.covers : c.fn = "not"}}) \cup
  {<<p[1].root, p[2].root>> :
     p \in {p \in nl.covers \X nl.covers :
              /\ {p[1].fn, p[2].fn} \in {{"and", "nand"}, {"or", "nor"}}
              /\ p[1].leaves = p[2].leaves}}

(* Two sets of nodes that are the same but for complements.                 *)
SameSignals(opposed, S, T) ==
  /\ Cardinality(S) = Cardinality(T)
  /\ \E f \in [S -> T] : Range(f) = T /\ \A n \in S : n = f[n] \/ <<n, f[n]>> \in opposed

(* The carries for which there is a sum, and the paths along such carries.  *)
(* Opposite gates count only where there is an inverter, as                 *)
(* create_not_relation gives up without one.                                *)
Summed(opposed) ==
  {c \in Carrys : \E s \in Sums :
     \/ c.leaves = s.leaves
     \/ Covers({"not"}) # {} /\ SameSignals(opposed, s.leaves, c.leaves)}
Paths(carries) ==
  LET upTo[k \in 0..NumNodes] ==
        IF k = 0 THEN {}
        ELSE {<<c>> : c \in carries} \cup
             UNION {{Append(p, c) : c \in {c \in carries : CanJoin(Last(p), c)}} : p \in upTo[k - 1]}
  IN  upTo[NumNodes]

(* What the walk over covers leaves of a design that is clean and has no    *)
(* loops: no carry twice; no inverter of an inverter, for each inverter the *)
(* cover that says so, and the carries of an inverter are those of the node *)
(* it inverts; no carry of a node and its inverter; no cover of a node that *)
(* the covers of its leaves lead back to.                                   *)
Reading(nl) ==
  [reads |-> [n \in Node |-> UNION {c.leaves : c \in {c \in nl.covers : c.root = n}}]]
WellCovered(nl) ==
  LET carries == {c \in nl.covers : c.fn \in {"carry", "and", "nand"}}
  IN  /\ \A c, d \in carries : c.root = d.root /\ c.leaves = d.leaves => c = d
      /\ \A n, m \in Node : Inverts(nl, n, m) =>
           /\ \A l \in Node : ~Inverts(nl, m, l)
           /\ \E c \in nl.covers : c.fn = "not" /\ c.root = n /\ c.leaves = {m}
           /\ \A c \in carries : c.root = n => \E d \in carries : d.root = m /\ d.leaves = c.leaves
      /\ \A c \in carries : \A n, m \in c.leaves : ~Inverts(nl, n, m)
      /\ \A n \in Node : n \notin Cone(Reading(nl), Reading(nl).reads[n], {})

(* Taking out carries that read inverters loses no adder: every path of     *)
(* carries is, but for inverters, a part of one that became a module.       *)
EveryChainInAnAdder ==
  Finished =>
    \A opposed \in {Opposed(netlist)} : \A p \in Paths(Summed(opposed)) :
      Len(p) >= MinChain =>
        \E ad \in adders : \E k \in 0..(Len(ad.chain) - Len(p)) : \A l \in DOMAIN p :
          LET c == ad.chain[k + l]
          IN  c.root = p[l].root \/ Complements(c.root, p[l].root)

(* In every slice of an adder the sum and the carry are those of one bit of *)
(* each word and of the carry before.                                       *)
SlicesAdd(opposed, ad) ==
  \A k \in DOMAIN ad.chain :
    LET carry == IF k = 1 THEN ad.carry_in ELSE {ad.chain[k - 1].root}
        bit == {ad.a[k], ad.b[k]} \cup carry
    IN  /\ SameSignals(opposed, ad.sums[k].leaves, bit)
        /\ SameSignals(opposed, ad.chain[k].leaves, bit)

(* What an adder takes in lies between its outputs and its inputs, but for  *)
(* complements of inputs that the carries read.  With an inverter for carry *)
(* in that is the node which drives it, be it an input of the design.       *)
NothingSwallowed(opposed, m, carry_in) ==
  \A n \in m.internals :
    \/ netlist.reads[n] # {} /\ netlist.reads[n] \subseteq m.internals \cup m.inputs
    \/ \E p \in m.inputs : <<n, p>> \in opposed /\ (p \in carry_in \/ ~Complements(n, p))

(* And what matching up to complement rests on: no two leaves of a sum or a *)
(* carry are the same or opposite to a third node or each other, leaves cut *)
(* the root off from what reads nothing, and what is opposite to a carry is *)
(* next to it.                                                              *)
WellMatched(nl) ==
  \A opposed \in {Opposed(nl)} :
    LET Like(n, m) == n = m \/ <<n, m>> \in opposed
    IN  /\ \A c \in {c \in nl.covers : c.fn \in {"carry", "and", "nand", "sum", "isum"}} :
             /\ \A n \in Node : \A l, m \in c.leaves : Like(n, l) /\ Like(n, m) => l = m
             /\ \A n \in Cone(nl, {c.root}, c.leaves) : nl.reads[n] # {}
        /\ \A c \in {c \in nl.covers : c.fn \in {"carry", "and", "nand"}} :
             \A n \in Node : <<n, c.root>> \in opposed =>
               Inverts(nl, n, c.root) \/ Inverts(nl, c.root, n) \/ nl.reads[n] = nl.reads[c.root]

(* No assert fails as adders are made, so that every word has a bit of each *)
(* slice; and a module that is called an adder is one, although sums and    *)
(* carries were matched up to complement and the carries' gates were put in *)
(* by hand.                                                                 *)
AddersAreSound ==
  /\ step # "abort"
  /\ Finished =>
       \A opposed \in {Opposed(netlist)} : \A ad \in adders :
         SlicesAdd(opposed, ad) /\ NothingSwallowed(opposed, ad.module, ad.carry_in)
=============================================================================
