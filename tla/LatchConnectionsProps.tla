------------------------- MODULE LatchConnectionsProps -------------------------
(* What driving_latches_sp means, path by path.                            *)
EXTENDS LatchConnections, FiniteSets

(* The pins that a path may go over: all of them, or no scan inputs.       *)
AnyPin == [n \in Node |-> Pins(n)]
NoScanPin == [n \in Node |-> {p \in Pins(n) : inputs[n][p] # netlist.si[n]}]

(* Enough pins for a path that goes round a loop once.                     *)
Longest == 2 * Cardinality(Gate) + 1

(* Paths from latch l are the lists of their pins, and go over no other    *)
(* latch and no macro.  One more pin makes longer ones of those so far.    *)
Longer(paths, l, over) ==
  [n \in Node |->
     IF n \notin Latch \cup Gate THEN {}
     ELSE {<<p>> : p \in {p \in over[n] : inputs[n][p] = l}}
          \cup UNION {{Append(q, p) : q \in paths[inputs[n][p]]} :
                        p \in {p \in over[n] : inputs[n][p] \in Gate}}]

(* The paths from l to each node of at most k pins.                        *)
Paths(l, over) ==
  LET upTo[k \in 0..Longest] ==
        IF k = 0 THEN [n \in Node |-> {}] ELSE Longer(upTo[k - 1], l, over)
  IN  upTo

IsOne(paths) == \E q \in paths : paths = {q}

(* topo_sort could sort the gates and no gate or latch reads a macro.      *)
Sorted == \A g \in Gate : \A i \in In(g) \cap Gate : i < g
NoMacros == \A n \in Latch \cup Gate : In(n) \cap Macros = {}

(* A latch in driving_latches_sp has one path to the node and no more,     *)
(* scan inputs left out, on any netlist; on a sorted one without macros    *)
(* the latches with one path in all, scan inputs included, are in it.      *)
SpIsTheOnlyPath ==
  phase = "paths" /\ left = {} =>
    \A l \in Latch :
      LET unscanned == Paths(l, NoScanPin)[Longest]
          all == Paths(l, AnyPin)[Longest]
      IN  \A n \in Latch \cup Gate : l \in driving[n] =>
            /\ l \in sp[n] => IsOne(unscanned[n])
            /\ Sorted /\ NoMacros /\ IsOne(all[n]) => l \in sp[n]

=============================================================================
