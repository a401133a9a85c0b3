--------------------------- MODULE ModuleGrouping ---------------------------
(* How inferred modules (id_module_t) are put together, around the          *)
(* resolution of their overlaps:                                            *)
(*   - flat_module_t::registerAnalysis makes a register of each multiplexer *)
(*     that feeds its outputs back through latches, links the registers it  *)
(*     finds alike in a forest and makes a group of each tree of it;        *)
(*   - mergeMuxes(false) makes one module of multiplexers that feed each    *)
(*     other and of decoders that select them, beside its parts;            *)
(*   - merge_modules resolves the overlaps (ModuleOverlap);                 *)
(*   - mergeMuxes(true) merges what is left, in place of its parts.         *)
EXTENDS Integers, SequencesExt

CONSTANTS
  NumNodes,   \* number of nodes; a node is its address
  Netlists,   \* the netlists to look at
  Searches(_) \* the lists of modules the searches for multiplexers and
              \*   decoders may find in a netlist

Node == 1..NumNodes
Kind == {"other", "inv", "latchgate", "latch"}
IsNetlist(nl) ==
  /\ nl.kind \in [Node -> Kind]
  /\ nl.reads \in [Node -> SUBSET Node]
  /\ \A p \in nl.siblings : p \subseteq Node /\ Cardinality(p) = 2

Type == {"mux", "dec", "demux", "reg", "reg_group", "mux_merged", "ripple_addsub"}
(* Inputs in groups other than "sel" and "aux" do not occur here.           *)
IdModule == [type : Type, outputs : SUBSET Node, inputs : SUBSET Node,
             sel : SUBSET Node, aux : SUBSET Node,
             internals : SUBSET Node, is_bad : BOOLEAN]

(* What the searches find, before compute_internals.                        *)
FoundModule == [type : {"mux", "dec", "demux"}, outputs : SUBSET Node, inputs : SUBSET Node, sel : SUBSET Node]

ASSUME NumNodesAssumption == NumNodes \in Nat
ASSUME NetlistsAssumption == \A nl \in Netlists : IsNetlist(nl)

ASSUME SearchesAssumption ==
  \A nl \in Netlists : \A found \in Searches(nl) :
    found \in Seq(FoundModule) /\ \A k \in DOMAIN found : found[k].sel \subseteq found[k].inputs

(* create_latch_gate makes each latch gate for one latch, which reads no    *)
(* other.                                                                   *)
Readers(nl, n) == {r \in Node : n \in nl.reads[r]}
OneGateEach(nl) ==
  LET gates == {g \in Node : nl.kind[g] = "latchgate"}
  IN  /\ \A g \in gates : \A l1, l2 \in Readers(nl, g) : l1 = l2
      /\ \A l \in Node : \A g1, g2 \in nl.reads[l] \cap gates : g1 = g2
ASSUME LatchGatesAssumption == \A nl \in Netlists : OneGateEach(nl)

VARIABLES
  netlist, \* the graph; does not change
  modules, \* flat_module_t::modules
  newmods, \* the registers registerAnalysis has made
  i, j,    \* its loop counters
  repr,    \* id_module_t::repr, by position in newmods
  level,   \* id_module_t::level
  groups,  \* the representatives whose groups are still to be merged
  phase    \* what runs

vars == <<netlist, modules, newmods, i, j, repr, level, groups, phase>>
forest == <<repr, level>>

Reg == DOMAIN newmods

(* Places of a list in their order, and what is there.                      *)
InOrder(ks) == [p \in 1..Cardinality(ks) |-> CHOOSE k \in ks : Cardinality({x \in ks : x <= k}) = p]
Selected(ms, ks) == [p \in 1..Cardinality(ks) |-> ms[InOrder(ks)[p]]]
-----------------------------------------------------------------------------
(* What lies behind a set of nodes, up to the inputs of a module.           *)
Cone(nl, from, inputs) ==
  LET grow[s \in SUBSET Node] ==
        LET more == s \cup ((UNION {nl.reads[n] : n \in s}) \ inputs)
        IN  IF more = s THEN s ELSE grow[more]
  IN  grow[from]

Bad(nl, outputs, internals) ==
  \/ \E o \in outputs : nl.kind[o] = "latchgate"
  \/ \E p \in nl.siblings : Cardinality(p \cap internals) = 1

(* A new module after compute_internals.                                    *)
NewModule(nl, type, outputs, inputs, sel, aux) ==
  LET internals == Cone(nl, outputs, inputs)
  IN  [type |-> type, outputs |-> outputs, inputs |-> inputs, sel |-> sel, aux |-> aux,
       internals |-> internals, is_bad |-> Bad(nl, outputs, internals)]

IsMux(m) == m.type \in {"mux", "mux_merged"}
-----------------------------------------------------------------------------
(* Mutant: latches among the select inputs count.                           *)
HeldInSelect(m, o) ==
  {l \in m.inputs :
     \E g \in Node : /\ Readers(netlist, o) = {g}
                     /\ netlist.kind[g] = "latchgate"
                     /\ l \in Readers(netlist, g)}

(* The latches an output of a multiplexer is held in: it is all their latch *)
(* gate is there for, and they come back as a data input.                   *)
HeldIn(m, o) ==
  {l \in m.inputs \ m.sel :
     \E g \in Node : /\ Readers(netlist, o) = {g}
                     /\ netlist.kind[g] = "latchgate"
                     /\ l \in Readers(netlist, g)}
Outs(m) == {o \in m.outputs : HeldIn(m, o) # {}}

(* The nodes compute_inputmap visits from an output: no others when it is   *)
(* an input itself.                                                         *)
InputMap(m, o) ==
  LET cone == Cone(netlist, {o}, m.inputs)
  IN  {o} \cup IF o \in m.inputs THEN {} ELSE cone \cup UNION {netlist.reads[n] : n \in cone}

(* id_module_t::registerAnalysis: the latches with what drives them, up to  *)
(* the inputs of the multiplexer and those that the latches have besides.   *)
Register(m) ==
  LET latches == UNION {HeldIn(m, o) : o \in Outs(m)}
      seen    == UNION {InputMap(m, o) : o \in Outs(m)}
      good    == (seen \cap m.inputs) \ latches
      gates   == {g \in UNION {netlist.reads[l] : l \in latches} : netlist.kind[g] = "latchgate"}
      aux     == (UNION {netlist.reads[n] : n \in latches \cup gates}) \ (gates \cup seen)
  IN  NewModule(netlist, "reg", latches, good \cup aux, good \cap m.sel, aux)

Analyse ==
  /\ phase = "analyse" /\ i <= Len(modules)
  /\ LET m == modules[i]
         r == Register(m)
     IN  IF m.type = "mux" /\ Cardinality(Outs(m)) >= 2
         THEN /\ newmods' = Append(newmods, r)
              /\ phase' = IF Cardinality(r.internals) <= Cardinality(m.internals) + 2 * Cardinality(Outs(m))
                          THEN phase ELSE "abort"
         ELSE UNCHANGED <<newmods, phase>>
  /\ i' = i + 1
  /\ UNCHANGED <<netlist, modules, j, forest, groups>>

(* uf_init of every register.                                               *)
StartLinks ==
  /\ phase = "analyse" /\ i > Len(modules)
  /\ repr' = [r \in Reg |-> r] /\ level' = [r \in Reg |-> 0]
  /\ i' = 1 /\ j' = 2
  /\ phase' = "link"
  /\ UNCHANGED <<netlist, modules, newmods, groups>>

Ungrouped(m) == m.inputs \ (m.sel \cup m.aux)

(* same_ungrouped_inputs, std::equal over two sets in the order of          *)
(* addresses for as long as the first is: whether it begins the second.     *)
(* Past the end of a shorter second there is no address of a node.          *)
SameUngrouped(m1, m2) ==
  /\ Ungrouped(m1) \subseteq Ungrouped(m2)
  /\ \A n1 \in Ungrouped(m1), n2 \in Ungrouped(m2) \ Ungrouped(m1) : n1 < n2

Rep(rp, r) == LET climb[s \in Reg] == IF rp[s] = s THEN s ELSE climb[rp[s]] IN climb[r]
(* uf_get_rep leaves every register on the way below the root.              *)
Found(rp, r) ==
  LET way[s \in Reg] == {s} \cup IF rp[s] = s THEN {} ELSE way[rp[s]]
  IN  [s \in Reg |-> IF s \in way[r] THEN Rep(rp, r) ELSE rp[s]]

(* Mutant: a tie goes to the first as well.                                 *)
HigherOrEqual(r1, r2) == level[r1] >= level[r2]

(* uf_link takes the two registers themselves, not their roots.             *)
Higher(r1, r2) == level[r1] > level[r2]
Linked(rp, r1, r2) ==
  IF Higher(r1, r2) THEN [rp EXCEPT ![r2] = r1] ELSE [rp EXCEPT ![r1] = r2]
Raised(r1, r2) ==
  IF ~Higher(r1, r2) /\ level[r1] = level[r2] THEN [level EXCEPT ![r2] = @ + 1] ELSE level

Compare ==
  /\ phase = "link" /\ i \in Reg /\ j \in Reg
  /\ LET rp == Found(Found(repr, i), j)
     IN  IF rp[i] # rp[j] /\ SameUngrouped(newmods[i], newmods[j])
         THEN repr' = Linked(rp, i, j) /\ level' = Raised(i, j)
         ELSE repr' = rp /\ UNCHANGED level
  /\ j' = j + 1
  /\ UNCHANGED <<netlist, modules, newmods, i, groups, phase>>

NextRegister ==
  /\ phase = "link" /\ i \in Reg /\ j \notin Reg
  /\ i' = i + 1 /\ j' = i + 2
  /\ UNCHANGED <<netlist, modules, newmods, forest, groups, phase>>

StartGroups ==
  /\ phase = "link" /\ i \notin Reg
  /\ repr' = [r \in Reg |-> Rep(repr, r)]
  /\ groups' = {Rep(repr, r) : r \in Reg}
  /\ phase' = "group"
  /\ UNCHANGED <<netlist, modules, newmods, i, j, level>>

(* aggr::merge_modules of the registers with a representative, when there   *)
(* are two or more.  The decoders it then looks for at the select inputs    *)
(* are not modelled.                                                        *)
MergeGroup ==
  /\ phase = "group"
  /\ \E g \in groups :
       LET mods == {newmods[r] : r \in {s \in Reg : repr[s] = g}}
           sel  == UNION {m.sel : m \in mods}
           m    == NewModule(netlist, "reg_group", UNION {n.outputs : n \in mods},
                             UNION {n.inputs : n \in mods}, sel, UNION {n.aux : n \in mods})
       IN  /\ IF \E r \in Reg \ {g} : repr[r] = g
              THEN /\ modules' = Append(modules, m)
                   /\ phase' = IF sel # {} THEN phase ELSE "abort"
              ELSE UNCHANGED <<modules, phase>>
           /\ groups' = groups \ {g}
  /\ UNCHANGED <<netlist, newmods, i, j, forest>>

KeepRegisters ==
  /\ phase = "group" /\ groups = {}
  /\ modules' = modules \o newmods
  /\ phase' = "merge"
  /\ UNCHANGED <<netlist, newmods, i, j, forest, groups>>
-----------------------------------------------------------------------------
(* check_mergeables with knownMergesOnly, its default.                      *)
Mergeable(m1, m2) ==
  /\ IsMux(m2)
  /\ \/ IsMux(m1) /\ Cardinality(m1.outputs) = Cardinality(m2.outputs)
     \/ m1.type \in {"dec", "demux"} /\ m1.outputs \subseteq m2.sel

(* compute_compatible_modules: m2 reads all m1 puts out.                    *)
Compatible(m1, m2) == m1.outputs # {} /\ m1.outputs \subseteq m2.inputs

Edge(ms, k1, k2) == k1 # k2 /\ Compatible(ms[k1], ms[k2]) /\ Mergeable(ms[k1], ms[k2])

(* module_group_mark: the modules that edges lead to, in either direction.  *)
Joined(ms, k) ==
  LET mark[s \in SUBSET DOMAIN ms] ==
        LET more == s \cup {k2 \in DOMAIN ms : \E k1 \in s : Edge(ms, k1, k2) \/ Edge(ms, k2, k1)}
        IN  IF more = s THEN s ELSE mark[more]
  IN  mark[{k}]

(* Mutants: groups keep what is no longer an input; INPUT replaces OUTPUT.   *)
MergedKeepsGroups(ms, parts) ==
  LET outs == UNION {ms[k].outputs : k \in parts}
      ins  == UNION {ms[k].inputs : k \in parts}
  IN  NewModule(netlist, "mux_merged", outs \ ins, ins \ outs,
                UNION {ms[k].sel : k \in parts}, UNION {ms[k].aux : k \in parts})
MergedReads(ms, parts) ==
  LET outs == UNION {ms[k].outputs : k \in parts}
      ins  == UNION {ms[k].inputs : k \in parts}
  IN  NewModule(netlist, "mux_merged", outs \ ins, ins,
                UNION {ms[k].sel : k \in parts}, UNION {ms[k].aux : k \in parts})

(* merge_modulelist: what is an output of one part and an input of another  *)
(* is neither of the whole.                                                 *)
Merged(ms, parts) ==
  LET outs == UNION {ms[k].outputs : k \in parts}
      ins  == UNION {ms[k].inputs : k \in parts}
  IN  NewModule(netlist, "mux_merged", outs \ ins, ins \ outs,
                (UNION {ms[k].sel : k \in parts}) \cap (ins \ outs),
                (UNION {ms[k].aux : k \in parts}) \cap (ins \ outs))

(* The positions of the modules that are merged with later ones.            *)
Firsts(ms) == {k \in DOMAIN ms : Joined(ms, k) # {k} /\ \A k1 \in Joined(ms, k) : k <= k1}
MergedModules(ms) ==
  LET firsts == InOrder(Firsts(ms))
  IN  [f \in DOMAIN firsts |-> Merged(ms, Joined(ms, firsts[f]))]

(* mergeMuxes(false), after the aggregation.                                *)
MergeBeside ==
  /\ phase = "merge"
  /\ modules' = modules \o MergedModules(modules)
  /\ phase' = "resolve"
  /\ UNCHANGED <<netlist, newmods, i, j, forest, groups>>

(* The nodes that lie in two of the modules.                                *)
Overlapped(ms) ==
  UNION {ms[k].internals \cap UNION {ms[k2].internals : k2 \in DOMAIN ms \ {k}} : k \in DOMAIN ms}

(* What flat_module_t::merge_modules leaves of the good modules: with       *)
(* options.eliminateOverlaps any that share no node, as none of these takes *)
(* in sibling gates; without it all in the CPLEX build, and in the GLPK     *)
(* build those that do not lie inside others.                               *)
Share(ms, k1, k2) == k1 # k2 /\ ms[k1].internals \cap ms[k2].internals # {}
Inside(ms, k1, k2) == k1 # k2 /\ ms[k1].internals \subseteq ms[k2].internals
Survivors(ms) ==
  LET good == {k \in DOMAIN ms : ~ms[k].is_bad}
  IN  {kept \in SUBSET good : \A k1, k2 \in kept : ~Share(ms, k1, k2)}
      \cup {good}
      \cup {kept \in SUBSET good : /\ \A k1, k2 \in kept : ~Inside(ms, k1, k2)
                                   /\ \A k \in good \ kept : \E k1 \in DOMAIN ms : Inside(ms, k, k1)}

(* The first merging is an option.                                          *)
ResolveOverlaps ==
  /\ phase \in {"merge", "resolve"}
  /\ \E kept \in Survivors(modules) : modules' = Selected(modules, kept)
  /\ phase' = "replace"
  /\ UNCHANGED <<netlist, newmods, i, j, forest, groups>>

(* Mutant: the parts stay good.                                             *)
KilledNone(ms) == ms

(* mergeMuxes(true): the parts are marked bad, and cleanup_modules deletes  *)
(* what is bad.                                                             *)
Killed(ms) ==
  [k \in DOMAIN ms |-> [ms[k] EXCEPT !.is_bad = @ \/ Joined(ms, k) # {k}]]
MergeInPlace ==
  /\ phase = "replace"
  /\ LET all == Killed(modules) \o MergedModules(modules)
     IN  modules' = Selected(all, {k \in DOMAIN all : ~all[k].is_bad})
  /\ phase' = "done"
  /\ UNCHANGED <<netlist, newmods, i, j, forest, groups>>
-----------------------------------------------------------------------------
Init ==
  /\ netlist \in Netlists
  /\ \E found \in Searches(netlist) :
       modules = [k \in DOMAIN found |->
                    NewModule(netlist, found[k].type, found[k].outputs,
                              found[k].inputs, found[k].sel, {})]
  /\ newmods = <<>> /\ i = 1 /\ j = 1
  /\ repr = <<>> /\ level = <<>> /\ groups = {}
  /\ phase = "analyse"

Next ==
  \/ Analyse \/ StartLinks
  \/ Compare \/ NextRegister \/ StartGroups
  \/ MergeGroup \/ KeepRegisters
  \/ MergeBeside \/ ResolveOverlaps \/ MergeInPlace

Spec == Init /\ [][Next]_vars
-----------------------------------------------------------------------------
(* A multiplexer held in latches of whose select none of them is behind:    *)
(* the data inputs of its bits, which are inputs all, lie between.          *)
SelectHidden(m) ==
  /\ m.type = "mux" /\ Cardinality(Outs(m)) >= 2
  /\ \A o \in Outs(m) : InputMap(m, o) \cap m.sel = {}

(* Types; groups of a module hold only inputs of it; and the asserts of     *)
(* registerAnalysis: a register has no more nodes than its multiplexer,     *)
(* latches and latch gates; and a group of registers has select inputs,     *)
(* unless they are hidden.                                                  *)
TypeOK ==
  /\ IsNetlist(netlist)
  /\ modules \in Seq(IdModule) /\ newmods \in Seq(IdModule)
  /\ \A k \in DOMAIN modules : modules[k].sel \cup modules[k].aux \subseteq modules[k].inputs
  /\ i \in Nat /\ j \in Nat
  /\ phase \in {"link", "group"} => repr \in [Reg -> Reg] /\ level \in [Reg -> Nat]
  /\ groups \subseteq Reg
  /\ \/ phase \in {"analyse", "link", "group", "merge", "resolve", "replace", "done"}
     \/ /\ phase = "abort" /\ modules[Len(modules)].type = "reg_group"
        /\ \E k \in DOMAIN modules : SelectHidden(modules[k])

(* Registers with the same ungrouped inputs come into one group, although   *)
(* uf_link moves registers between trees and registers are also linked for  *)
(* inputs that only begin alike.                                            *)
EqualsGrouped ==
  phase = "group" =>
    \A r1, r2 \in Reg :
      Ungrouped(newmods[r1]) = Ungrouped(newmods[r2]) => repr[r1] = repr[r2]

(* Merging in place of the parts comes after the overlaps were resolved: it *)
(* brings no node into two modules that was not in two before.              *)
MergingAddsNoOverlap ==
  [][phase = "replace" => Overlapped(modules') \subseteq Overlapped(modules)]_vars

(* What merging cuts off otherwise: nodes behind an input of one part that  *)
(* lies inside another, parts that feed only an input left unread when an   *)
(* earlier merging did so, and parts in a ring, of which no output is left. *)
CutsNothing(ms, parts) ==
  LET inside == UNION {ms[k].internals : k \in parts} IN
  /\ \A k1, k2 \in parts : ms[k1].inputs \cap ms[k2].internals \subseteq ms[k2].outputs
  /\ \A k \in parts : ms[k].inputs \subseteq UNION {netlist.reads[n] : n \in ms[k].internals}
  /\ \A ring \in (SUBSET inside) \ {{}} : \E n \in ring : \A r \in ring : n \notin netlist.reads[r]

(* Nor does it lose a node, unless it cuts off what leads there.            *)
MergingKeepsNodes ==
  [][phase = "replace" =>
       \A k \in DOMAIN modules :
         CutsNothing(modules, Joined(modules, k)) =>
           \E k1 \in DOMAIN modules' : modules[k].internals \subseteq modules'[k1].internals]_vars
=============================================================================
