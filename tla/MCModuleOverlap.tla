-------------------------- MODULE MCModuleOverlap --------------------------
(* Small sets of modules for ModuleOverlap.                                *)
EXTENDS ModuleOverlap

Plain(S) == [inside |-> S, dominateable |-> TRUE, cuts_latch |-> FALSE, siblings |-> FALSE]

(* Any set of nodes; two of them as a candidate, two cut a latch.  Nodes 3 *)
(* and 4 are a cell with two outputs: modules with either, plain or made   *)
(* by compute_internals2; nodes 5 and 6 are a latch gate and its latch.    *)
MCSiblings == {{3, 4}, {5, 6}}
MCLatchPairs == {{5, 6}}
MCShapes ==
  {Plain(S) : S \in (SUBSET (1..3)) \ {{}}}
    \cup {[Plain(S) EXCEPT !.dominateable = FALSE] : S \in {{1}, {1, 2}}}
    \cup {[Plain(S) EXCEPT !.cuts_latch = TRUE] : S \in {{2}, {1, 2, 3}}}
    \cup {[Plain(S) EXCEPT !.siblings = b] : S \in {{2, 4}, {3, 4}, {1, 3, 4}}, b \in BOOLEAN}
    \cup {[Plain(S) EXCEPT !.siblings = TRUE] : S \in {{1, 3}, {2, 3}, {1}, {5}, {3, 5, 6}}}

(* Both builds with and without the elimination of overlaps.               *)
MCConfigs == Config
GlpkOnly == {[glpk |-> TRUE, eliminateOverlaps |-> TRUE]}

(* Few modules over four nodes, none of them a sibling.                    *)
NoSiblings == {}
FourShapes == {Plain(S) : S \in {{1}, {1, 2}, {2, 3}, {3, 4}, {1, 3, 4}}}
=============================================================================
