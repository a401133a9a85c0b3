---------------------------- MODULE MCLateMerges ----------------------------
(* Netlists whose merges reach a gate after the walk has passed it.        *)
EXTENDS NetlistRewriteProps

(* Seven inverters, an input and a latch, wired so that merges reach a     *)
(* gate one walk after it was visited; two of the names swapped.           *)
LateMergeNetlists ==
  LET wires == <<4, 3, 7, 7, 6, 8, 8, 0, 1>>
      Swap(a, b) == [n \in Node |-> IF n = a THEN b ELSE IF n = b THEN a ELSE n]
      Renamed(s) ==
        [kind |-> [n \in Node |-> IF s[n] = 8 THEN "input"
                                  ELSE IF s[n] = 9 THEN "latch" ELSE "inv"],
         inputs |-> [n \in Node |-> IF s[n] = 8 THEN <<>> ELSE <<s[wires[s[n]]]>>],
         output |-> {}]
  IN  {Renamed(Swap(a, b)) : a \in Node, b \in Node}
=============================================================================
