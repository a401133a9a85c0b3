---------------------------- MODULE FunctionTable ----------------------------
(* The table of functions, flat_module_t::bdds.  createFunction enters the *)
(* function of every cover: the first cover of a class founds it and       *)
(* enters its function under every order of the inputs, a later cover is   *)
(* found in the table and joins.  The permutation that a cover is left     *)
(* with says which leaf plays which part; bitslice_t sorts the leaves by   *)
(* it, and aggregation reads the parts off them.                           *)
EXTENDS Integers, FiniteSets

CONSTANTS
  numInputs,  \* size of the covers; every size has a manager of its own
  NumCovers,  \* number of covers
  Functions   \* the functions the covers may have

Pos == 0..(numInputs - 1)
Cover == 1..NumCovers

(* A function of the inputs is the set of the assignments it is true of.   *)
Assignment == [Pos -> BOOLEAN]
Perm == {p \in [Pos -> Pos] : \A i, j \in Pos : p[i] = p[j] => i = j}
Identity == [i \in Pos |-> i]

ASSUME numInputsAssumption == numInputs \in Nat
ASSUME NumCoversAssumption == NumCovers \in Nat
ASSUME FunctionsAssumption == Functions \subseteq SUBSET Assignment

VARIABLES
  fn,        \* the function of each cover, kcover_t::getFn
  cover,     \* the cover that kcover_analysis is at
  bdds,      \* flat_module_t::bdds: fnInfo_t of the functions entered
  todo,      \* the orders next_permutation has not come to
  perm,      \* kcover_t::perm of the covers it is set for
  canonical  \* kcover_t::canonical, likewise

vars == <<fn, cover, bdds, todo, perm, canonical>>
-----------------------------------------------------------------------------
(* The function of a cover of the same leaves in another order: leaf p[i]  *)
(* comes at place i.                                                       *)
Permuted(f, p) == {[i \in Pos |-> u[p[i]]] : u \in f}

(* next_permutation comes to the orders as to the words of a dictionary.   *)
Precedes(p, q) == \E i \in Pos : p[i] < q[i] /\ \A j \in 0..(i - 1) : p[j] = q[j]
NextOf(orders) == {p \in orders : \A q \in orders \ {p} : Precedes(p, q)}

Info(p, canon) == [permutation |-> p, canonicalPtr |-> canon]
With(map, x, value) == [y \in DOMAIN map \cup {x} |-> IF y = x THEN value ELSE map[y]]
Nothing == [x \in {} |-> x]

Init ==
  /\ fn \in [Cover -> Functions]
  /\ cover = 1
  /\ todo = {}
  /\ bdds = Nothing /\ perm = Nothing /\ canonical = Nothing

After(orders) == IF orders = {} THEN cover + 1 ELSE cover

(* The function is not in the table.  Its own order comes first.           *)
FoundClass ==
  /\ cover \in Cover /\ todo = {}
  /\ fn[cover] \notin DOMAIN bdds
  /\ bdds' = With(bdds, fn[cover], Info(Identity, fn[cover]))
  /\ perm' = With(perm, cover, Identity)
  /\ canonical' = With(canonical, cover, fn[cover])
  /\ todo' = Perm \ {Identity}
  /\ cover' = After(todo')
  /\ UNCHANGED fn

(* Mutant: every order is its own canonical function.                      *)
EnterOrderAlone ==
  /\ \E p \in NextOf(todo) :
       LET b == Permuted(fn[cover], p)
       IN  /\ IF b \in DOMAIN bdds THEN UNCHANGED <<bdds, perm>>
              ELSE /\ bdds' = With(bdds, b, Info(p, b))
                   /\ perm' = With(perm, cover, p)
           /\ todo' = todo \ {p}
  /\ cover' = After(todo')
  /\ UNCHANGED <<fn, canonical>>

(* Another order of the inputs; only a function that is new is entered,    *)
(* and the cover is given its permutation too.                             *)
EnterOrder ==
  /\ \E p \in NextOf(todo) :
       LET b == Permuted(fn[cover], p)
       IN  /\ IF b \in DOMAIN bdds THEN UNCHANGED <<bdds, perm>>
              ELSE /\ bdds' = With(bdds, b, Info(p, fn[cover]))
                   /\ perm' = With(perm, cover, p)
           /\ todo' = todo \ {p}
  /\ cover' = After(todo')
  /\ UNCHANGED <<fn, canonical>>

(* Mutant: the cover gets the permutation of the class's founder.          *)
JoinClassAsFounder ==
  /\ cover \in Cover /\ todo = {}
  /\ fn[cover] \in DOMAIN bdds
  /\ perm' = With(perm, cover, bdds[bdds[fn[cover]].canonicalPtr].permutation)
  /\ canonical' = With(canonical, cover, bdds[fn[cover]].canonicalPtr)
  /\ cover' = cover + 1
  /\ UNCHANGED <<fn, bdds, todo>>

(* Mutant: the cover is not given a permutation.                           *)
JoinClassNoPerm ==
  /\ cover \in Cover /\ todo = {}
  /\ fn[cover] \in DOMAIN bdds
  /\ canonical' = With(canonical, cover, bdds[fn[cover]].canonicalPtr)
  /\ cover' = cover + 1
  /\ UNCHANGED <<fn, bdds, perm, todo>>

(* The function is in the table; the cover joins the covers of its         *)
(* canonical function.                                                     *)
JoinClass ==
  /\ cover \in Cover /\ todo = {}
  /\ fn[cover] \in DOMAIN bdds
  /\ perm' = With(perm, cover, bdds[fn[cover]].permutation)
  /\ canonical' = With(canonical, cover, bdds[fn[cover]].canonicalPtr)
  /\ cover' = cover + 1
  /\ UNCHANGED <<fn, bdds, todo>>

Next == FoundClass \/ EnterOrder \/ JoinClass
Spec == Init /\ [][Next]_vars
-----------------------------------------------------------------------------
(* bitslice_t::xs: place i has the leaf whose permutation is i.            *)
xs(c, i) == CHOOSE j \in Pos : perm[c][j] = i

(* What the analyses do: they look a function up, take its permutation     *)
(* (the select of a mux is p[2]) and read the leaf that plays input i off  *)
(* xs[p[i]].                                                               *)
LeafFor(c, f, i) == xs(c, bdds[f].permutation[i])
-----------------------------------------------------------------------------
TypeOK ==
  /\ fn \in [Cover -> SUBSET Assignment]
  /\ cover \in 1..(NumCovers + 1)
  /\ DOMAIN bdds \subseteq SUBSET Assignment
  /\ bdds \in [DOMAIN bdds -> [permutation : Perm, canonicalPtr : DOMAIN bdds]]
  /\ todo \subseteq Perm
  /\ DOMAIN perm \subseteq Cover /\ perm \in [DOMAIN perm -> Perm]
  /\ canonical \in [DOMAIN perm -> DOMAIN bdds]

(* The cover whose function founded the class.                             *)
Founder(c) == \A d \in DOMAIN canonical : d < c => canonical[d] # canonical[c]

(* The leaves a cover offers for the inputs of a function of its class do  *)
(* compute that function.                                                  *)
InRole(c, f) ==
  fn[c] = {u \in Assignment : [i \in Pos |-> u[LeafFor(c, f, i)]] \in f}
Class(f) == {c \in DOMAIN canonical : canonical[c] = bdds[f].canonicalPtr}

(* Whatever function of the class is looked up, each cover that joined it  *)
(* has its leaves in the parts that function gives them.                   *)
LeavesInRole ==
  \A f \in DOMAIN bdds : \A c \in Class(f) : Founder(c) \/ InRole(c, f)

(* Two functions have the same canonical function just if one is the other *)
(* under an order of the inputs, so a lookup finds every cover there is.   *)
ClassesAreOrbits ==
  todo = {} =>
    \A f, g \in DOMAIN bdds :
      bdds[f].canonicalPtr = bdds[g].canonicalPtr <=> \E p \in Perm : g = Permuted(f, p)

(* aggregateMuxes keeps a `map between mux-selects and muxes', every mux   *)
(* under the leaf that selects: as LeavesInRole, for the founder too.      *)
FounderInRole ==
  \A f \in DOMAIN bdds : \A c \in Class(f) : c < cover => InRole(c, f)
=============================================================================
