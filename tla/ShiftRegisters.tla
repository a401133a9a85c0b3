--------------------------- MODULE ShiftRegisters ---------------------------
(***************************************************************************)
(* find_shiftregs: chains of latches, each of which loads from the one     *)
(* before under the same condition.                                        *)
(*                                                                         *)
(* From every latch the chains are searched depth first along the latch    *)
(* connections.  Then chains inside others are left out, chains that load  *)
(* alike are linked in a union-find forest, and each tree of it makes one  *)
(* register.                                                               *)
(***************************************************************************)
EXTENDS LatchConnections, FiniteSets, SequencesExt

CONSTANTS
  HeadDiff,   \* driving latches the first two may differ in, 256 in the code
  ChainDiff   \* those that later ones may, 16 in the code

(* What the search asks of a netlist besides its graph: the function of    *)
(* each gate, as the sets of pins it is true of; the clock and reset marks *)
(* of each latch; the latches by address; and those in a memory already.   *)
(* The first pin of a latch is its latch gate.  Latches of one clock have  *)
(* no loop in front of them.                                               *)
IsDesign(nl) ==
  LET latches == {n \in Node : nl.kind[n] = "latch"} IN
  /\ nl.fn \in [Node -> SUBSET SUBSET Nat]
  /\ nl.clk \in [Node -> Nat]
  /\ nl.rst \in [Node -> Nat]
  /\ nl.address \in Seq(latches) /\ IsInjective(nl.address) /\ ToSet(nl.address) = latches
  /\ nl.ram \subseteq latches
  /\ \A l \in latches : nl.inputs[l] # <<>> /\ nl.kind[nl.inputs[l][1]] = "gate"
  /\ \/ \A l, m \in latches : nl.clk[l] = nl.clk[m] => l = m
     \/ \A g \in Node : nl.kind[g] = "gate" =>
          \A k \in DOMAIN nl.inputs[g] :
            nl.kind[nl.inputs[g][k]] = "gate" => nl.inputs[g][k] < g

ASSUME DiffAssumption == HeadDiff \in Nat /\ ChainDiff \in Nat
ASSUME DesignsAssumption == \A nl \in Netlists : IsDesign(nl)

VARIABLES
  stage,      \* what runs once the connections are computed
  todo,       \* latches that no search has started from
  path,       \* latch_out
  rest,       \* for each call of explore, the driven latches it has not tried
  chains,     \* shiftreg_list_t: the chains found
  contained,  \* shiftreg_t::contained, by place in the list
  root,       \* shiftreg_t::root
  rank,       \* shiftreg_t::rank
  pair,       \* the chains to compare next: i and j of the loops
  registers,  \* root_map: the latches of the module made for each root
  covered     \* latches of which is_covered_by_seq is true

searchVars == <<stage, todo, path, rest, chains>>
forestVars == <<contained, root, rank, pair>>
resultVars == <<registers, covered>>
shiftVars == <<searchVars, forestVars, resultVars>>

DInput(l) == inputs[l][1]
Sources == {n \in Node \ Gate : \E g \in Gate : n \in In(g)}
(* Sets of latches are walked by address.                                  *)
IsFirst(l, S) ==
  /\ l \in S
  /\ \A i, j \in DOMAIN netlist.address :
       netlist.address[i] \in S /\ netlist.address[j] = l => j <= i

(* The value of each node when the sources in `on' are 1.                  *)
Value(on) ==
  LET value[n \in Node] == IF n \in Gate THEN {k \in Pins(n) : value[inputs[n][k]]} \in netlist.fn[n]
                                         ELSE n \in on
  IN  value

(* What m loads when l is 1 and it is 0, and when it is the other way      *)
(* round.  SAT finds two of these equal just if the functions are.         *)
Loads(l, m) ==
  [on \in SUBSET Sources |->
     <<Value((on \ {m}) \cup {l})[DInput(m)], Value((on \ {l}) \cup {m})[DInput(m)]>>]

SameGroup(l, m) ==
  /\ netlist.clk[l] = netlist.clk[m]
  /\ netlist.rst[l] - netlist.rst[m] \in -1..1
CountDiff(l, m) == Cardinality((driving[l] \ driving[m]) \cup (driving[m] \ driving[l]))

(* Mutant: only a latch of the path itself is refused.                     *)
DrivesOnly(m, p) == m \in ToSet(p)
(* Whether m drives a latch of the path.                                   *)
Drives(m, p) == ToSet(p) \cap driven[m] # {}

Follows(l, m, diff) ==
  /\ l \in sp[m]
  /\ SameGroup(l, m)
  /\ CountDiff(l, m) <= diff
(* The driven latches that explore tries after p.                          *)
Candidates(p, diff) ==
  {m \in driven[Last(p)] : ~Drives(m, p) /\ m \notin covered /\ Follows(Last(p), m, diff)}

IsShiftReg(p, m) == Loads(p[Len(p) - 1], Last(p)) = Loads(Last(p), m)
-----------------------------------------------------------------------------
ShiftInit ==
  /\ Init
  /\ stage = "explore"
  /\ todo = Latch
  /\ path = <<>> /\ rest = <<>>
  /\ chains = <<>>
  /\ contained = {} /\ root = <<>> /\ rank = <<>> /\ pair = <<1, 1>>
  /\ registers = <<>>
  /\ covered = netlist.ram

(* The search goes on to the next latch of the list.                       *)
StartAt(l) ==
  /\ phase = "done" /\ stage = "explore" /\ path = <<>>
  /\ l \in todo /\ \A m \in todo : l <= m
  /\ todo' = todo \ {l}
  /\ IF l \in covered THEN UNCHANGED <<path, rest>>
     ELSE path' = <<l>> /\ rest' = <<Candidates(<<l>>, HeadDiff)>>
  /\ UNCHANGED <<stage, chains, forestVars, resultVars>>

(* The first two latches of a chain are taken unseen; from the third on    *)
(* they must load alike, and each longer chain is put down.                *)
TryNext ==
  /\ stage = "explore" /\ path # <<>>
  /\ \E m \in Last(rest) :
       LET accepted == Len(path) = 1 \/ IsShiftReg(path, m)
           left_over == [rest EXCEPT ![Len(rest)] = @ \ {m}]
       IN  /\ IsFirst(m, Last(rest))
           /\ path' = IF accepted THEN Append(path, m) ELSE path
           /\ rest' = IF accepted THEN Append(left_over, Candidates(path', ChainDiff)) ELSE left_over
           /\ chains' = IF accepted /\ Len(path) > 1 THEN Append(chains, path') ELSE chains
  /\ UNCHANGED <<stage, todo, forestVars, resultVars>>

Backtrack ==
  /\ stage = "explore" /\ path # <<>> /\ Last(rest) = {}
  /\ path' = Front(path) /\ rest' = Front(rest)
  /\ UNCHANGED <<stage, todo, chains, forestVars, resultVars>>

ContainsChain(a, b) == ToSet(b) \subseteq ToSet(a)
MarkContained ==
  /\ phase = "done" /\ stage = "explore" /\ path = <<>> /\ todo = {}
  /\ stage' = "link"
  /\ contained' = {j \in DOMAIN chains : \E i \in DOMAIN chains \ {j} : ContainsChain(chains[i], chains[j])}
  /\ root' = [i \in DOMAIN chains |-> i]
  /\ rank' = [i \in DOMAIN chains |-> 0]
  /\ pair' = <<1, 1>>
  /\ UNCHANGED <<todo, path, rest, chains, resultVars>>

(* find_set: the root above i; all on the way to it are hung under it.     *)
FindSet(r, i) == LET up[k \in DOMAIN r] == IF r[k] = k THEN k ELSE up[r[k]] IN up[i]
Compressed(r, i) ==
  LET above[k \in DOMAIN r] == IF r[k] = k THEN {k} ELSE {k} \cup above[r[k]]
  IN  [k \in DOMAIN r |-> IF k \in above[i] THEN FindSet(r, i) ELSE r[k]]

(* Mutant: only what is loaded while all else is 0 is compared.            *)
AlikeAtZero(a, b) == Loads(a[1], a[2])[{}] = Loads(b[1], b[2])[{}]
Alike(a, b) == Loads(a[1], a[2]) = Loads(b[1], b[2])

(* identical and link, for the next pair.  link sets the root of the chain *)
(* it is given and not that of its tree.                                   *)
LinkPair ==
  LET i == pair[1]
      j == pair[2]
      compared == {i, j} \cap contained = {} /\ i # j /\ Len(chains[i]) = Len(chains[j])
      r == IF compared THEN Compressed(Compressed(root, i), j) ELSE root
  IN
  /\ stage = "link" /\ i <= Len(chains)
  /\ pair' = IF j = Len(chains) THEN <<i + 1, 1>> ELSE <<i, j + 1>>
  /\ IF compared /\ (r[i] = r[j] \/ Alike(chains[i], chains[j]))
     THEN IF rank[i] < rank[j]
          THEN root' = [r EXCEPT ![i] = r[j]] /\ UNCHANGED rank
          ELSE /\ root' = [r EXCEPT ![j] = r[i]]
               /\ rank' = IF rank[i] = rank[j] THEN [rank EXCEPT ![i] = @ + 1] ELSE rank
     ELSE root' = r /\ UNCHANGED rank
  /\ UNCHANGED <<searchVars, contained, resultVars>>

Kept == DOMAIN chains \ contained
(* One module for each tree.  Its latches are covered from now on.         *)
CreateRegisters ==
  /\ stage = "link" /\ pair[1] > Len(chains)
  /\ stage' = "count"
  /\ registers' = [k \in {FindSet(root, i) : i \in Kept} |->
                     UNION {ToSet(chains[i]) : i \in {x \in Kept : FindSet(root, x) = k}}]
  /\ covered' = covered \cup UNION {ToSet(chains[i]) : i \in Kept}
  /\ todo' = Latch
  /\ UNCHANGED <<path, rest, chains, forestVars>>

ShiftNext ==
  \/ \E l \in Node : StartAt(l)
  \/ TryNext \/ Backtrack \/ MarkContained \/ LinkPair \/ CreateRegisters
-----------------------------------------------------------------------------
(* No chain is lost for being inside another: each is in a register whole. *)
(* That two chains are never inside each other rests on drives, which      *)
(* refuses latches that close a ring.                                      *)
EveryChainInARegister ==
  stage = "count" =>
    \A i \in DOMAIN chains : \E k \in DOMAIN registers : ToSet(chains[i]) \subseteq registers[k]

(* The trees are the classes of chains of one length whose latches load    *)
(* alike, all along the chain, although link hangs chains and not trees    *)
(* under each other, and identical compares the first two latches only.    *)
RegistersAreClasses ==
  stage = "link" /\ pair[1] > Len(chains) =>
    \A i, j \in Kept :
      FindSet(root, i) = FindSet(root, j) <=>
        /\ Len(chains[i]) = Len(chains[j])
        /\ \A k \in 2..Len(chains[i]) :
             Loads(chains[i][k - 1], chains[i][k]) = Loads(chains[j][1], chains[j][2])
=============================================================================
