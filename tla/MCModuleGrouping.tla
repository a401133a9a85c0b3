-------------------------- MODULE MCModuleGrouping --------------------------
(* Small circuits of multiplexers for ModuleGrouping.                       *)
EXTENDS ModuleGrouping

(* Multiplexers of two bits each, from some data inputs, under a select     *)
(* input and with the reset 4, whose outputs are kept in latches.           *)
Bits == {1, 2}
Gate(m, b)  == 6 * m + b - 2
Held(m, b)  == 6 * m + b + 2
Registers(data, sel, holds) ==
  LET M == DOMAIN data
      Reads(n) ==
        UNION {IF n = Gate(m, b) THEN data[m] \cup {sel[m]} \cup IF m \in holds THEN {Held(m, b)} ELSE {}
               ELSE IF n = Gate(m, b) + 2 THEN {Gate(m, b), 4}
               ELSE IF n = Held(m, b) THEN {Gate(m, b) + 2}
               ELSE {} : m \in M, b \in Bits}
  IN  [kind |-> [n \in Node |-> IF \E m \in M, b \in Bits : n = Gate(m, b) + 2 THEN "latchgate"
                                ELSE IF \E m \in M, b \in Bits : n = Held(m, b) THEN "latch"
                                ELSE "other"],
       reads |-> [n \in Node |-> Reads(n)],
       siblings |-> {{Gate(m, b) + 2, Held(m, b)} : m \in M, b \in Bits}]

(* Four registers of data inputs in any combination and five of lists that  *)
(* begin each other; and three of which one may read a latch of the first,  *)
(* hold nothing or be selected by a latch of its own.                       *)
RegisterNetlists ==
  {Registers(d, [m \in DOMAIN d |-> 3], DOMAIN d) :
     d \in [1..4 -> SUBSET {1, 2}] \cup [1..5 -> {{}, {1}, {1, 2}}]}
  \cup {Registers(d, [m \in 1..3 |-> IF m \in s THEN Held(m, 1) ELSE 3], h) :
          d \in [1..3 -> SUBSET {1, Held(1, 1)}], s \in SUBSET {1, 2}, h \in {1..2, 1..3}}

(* Two of which one bit reads the select through 1 and has 2 for data, the  *)
(* other the other way round, where 1 and 2 are complements of the select.  *)
HiddenSelect ==
  [Registers([m \in 1..2 |-> {1}], [m \in 1..2 |-> 2], 1..2) EXCEPT !.reads[1] = {3}, !.reads[2] = {3}]

Multiplexers(nl) ==
  LET M == {m \in 1..5 : nl.reads[Gate(m, 1)] # {}}
      Ins(m) == nl.reads[1] \cup UNION {nl.reads[Gate(m, b)] : b \in Bits}
  IN  {[m \in M |-> [type |-> "mux", outputs |-> {Gate(m, b) : b \in Bits}, inputs |-> Ins(m),
                     sel |-> IF 3 \in Ins(m) THEN {3} ELSE {Held(m, 1)}]]}

(* Netlists of four gates; those that read the same are one cell.           *)
Gates == 3..6
GateNetlists ==
  {[kind |-> [n \in Node |-> "other"], 
    reads |-> [n \in Node |-> IF n \in Gates THEN f[n] ELSE {}], 
    siblings |-> IF f[4] = f[5] THEN {{4, 5}} ELSE {}] :
     f \in {f \in [Gates -> kSubset(2, 1..5)] :
            /\ \A n \in Gates : f[n] \subseteq 1..(n - 1)
            /\ \A n \in 3..5 : \E r \in Gates : n \in f[r]}}

(* Three modules of one or two outputs, of which one feeds another at least *)
(* twice: all multiplexers, or one a decoder of select inputs.              *)
Parts(nl) ==
  {p \in [outputs : {o \in SUBSET Gates : Cardinality(o) \in {1, 2}}, inputs : SUBSET (1..5)] :
     /\ p.outputs \cap p.inputs = {}
     /\ LET cone == Cone(nl, p.outputs, p.inputs)
        IN  cone \subseteq Gates /\ UNION {nl.reads[n] : n \in cone} \ cone = p.inputs}
Feeding(parts) ==
  LET near == [p \in parts |-> {q \in parts : p.outputs \subseteq q.inputs \/ q.outputs \subseteq p.inputs}]
  IN  UNION {{{p} \cup two : two \in kSubset(2, near[p])} : p \in parts}
Typed(p, dec) ==
  [type |-> IF p \in dec THEN "dec" ELSE "mux", outputs |-> p.outputs, inputs |-> p.inputs,
   sel |-> IF p \in dec THEN {} ELSE p.inputs \cap UNION {d.outputs : d \in dec}]
FeedingModules(nl) ==
  UNION {{LET s == SetToSeq(t) IN [k \in DOMAIN s |-> Typed(s[k], dec)] :
            dec \in {{}} \cup {{p} : p \in {p \in t : \E q \in t : p.outputs \subseteq q.inputs}}} :
           t \in Feeding(Parts(nl))}

(* Two multiplexers that feed each other.                                   *)
Ring ==
  [kind |-> [n \in Node |-> "other"], siblings |-> {},
   reads |-> [n \in Node |-> IF n \in {3, 4} THEN {1, n + 2} ELSE IF n \in {5, 6} THEN {2, n - 2} ELSE {}]]
RingModules ==
  [m \in {1, 2} |-> [type |-> "mux", outputs |-> {2 * m + 1, 2 * m + 2},
                     inputs |-> {m, 7 - 2 * m, 8 - 2 * m}, sel |-> {m}]]

SmallNetlists == RegisterNetlists \cup {HiddenSelect} \cup GateNetlists \cup {Ring}
SmallSearches(nl) ==
  IF nl = Ring THEN {RingModules} ELSE IF nl \in GateNetlists THEN FeedingModules(nl) ELSE Multiplexers(nl)
=============================================================================
