-------------------------- MODULE WordPropagation --------------------------
(* The growth of words, flat_module_t::propagate_words and the             *)
(* interactive ip_fwdprop.  A word is a list of nodes that belong          *)
(* together.  If all are cells of one type, the nodes at one pin of each   *)
(* make a word, and so do the cells of one type that read each of them.    *)
(* Rounds go over the words found in the round before until none is new.   *)
EXTENDS Integers, Sequences, FiniteSets

CONSTANTS
  NumNodes,     \* number of nodes
  Types,        \* library cells
  NoType,       \* NULL, the library cell of inputs and macro outputs
  isSymmetric,  \* lib_elem_t::is_symmetric_input: the pins of each cell
  Netlists,     \* the netlists to look at
  WordTables    \* lists of the words to start from

Node == 1..NumNodes

(* Of the list of readers of a node all that matters is who they are and   *)
(* which one of each type comes first.                                     *)
IsNetlist(nl) ==
  /\ nl.type \in [Node -> Types \cup {NoType}]
  /\ nl.macro \subseteq Node
  /\ nl.inputs \in [Node -> Seq(Node)]
  /\ nl.fanouts \in [Node -> SUBSET Node]
  /\ \A n, m \in Node : m \in nl.fanouts[n] <=> \E i \in DOMAIN nl.inputs[m] : nl.inputs[m][i] = n
  /\ nl.first \in [Node -> [Types -> Node]]
  /\ \A n \in Node, t \in Types : \A m \in nl.fanouts[n] :
       nl.type[m] = t => nl.first[n][t] \in nl.fanouts[n] /\ nl.type[nl.first[n][t]] = t
  /\ \A n, m \in Node : nl.type[n] = nl.type[m] /\ nl.type[n] # NoType
                        => Len(nl.inputs[n]) = Len(nl.inputs[m])

Repeats(w) == \E i, j \in DOMAIN w : i # j /\ w[i] = w[j]
IsWord(w) == w \in Seq(Node) /\ w # <<>> /\ ~Repeats(w)

ASSUME NumNodesAssumption == NumNodes \in Nat
ASSUME TypesAssumption ==
  /\ NoType \notin Types
  /\ isSymmetric \in [Types -> SUBSET Nat]
ASSUME NetlistsAssumption == \A nl \in Netlists : IsNetlist(nl)
ASSUME WordTablesAssumption == 
  \A table \in WordTables : table \in Seq(Seq(Node)) /\ \A k \in DOMAIN table : IsWord(table[k])

VARIABLES
  netlist,    \* the graph; does not change
  typed,      \* the word typed in, when ip_fwdprop runs; it is not in the table
  earlier,    \* the words in the table when ip_fwdprop starts; it does not
              \*   go over them
  words,      \* flat_module_t::words
  init_words, \* the words left to do in the round
  new_words,  \* those it has found
  pin,        \* the next pin propagate_back reads of the first of init_words
  types,      \* the cells propagate_forward has left for it
  phase       \* what runs

vars == <<netlist, typed, earlier, words, init_words, new_words, pin, types, phase>>

interactive == typed # {}
w == Head(init_words)
-----------------------------------------------------------------------------
Bits(v) == {v[k] : k \in DOMAIN v}
(* Whether two words have the same bits, in any order.                     *)
SameBits(u, v) == Len(u) = Len(v) /\ Bits(v) \subseteq Bits(u)
SimilarWordExists(v) == \E u \in words : SameBits(u, v)

(* Mutant: the word is not done in the next round.                         *)
EnterNotQueued(v) ==
  IF SimilarWordExists(v) THEN UNCHANGED <<words, new_words>>
  ELSE words' = words \cup {v} /\ UNCHANGED new_words
(* Mutant: add_word is forgotten.                                          *)
EnterNotListed(v) ==
  IF SimilarWordExists(v) THEN UNCHANGED <<words, new_words>>
  ELSE UNCHANGED words /\ new_words' = Append(new_words, v)
(* What both directions do with a word they come upon.                     *)
Enter(v) ==
  IF SimilarWordExists(v) THEN UNCHANGED <<words, new_words>>
  ELSE words' = words \cup {v} /\ new_words' = Append(new_words, v)

(* Cells of one type.  NULL stands for a type not yet known, so a word *)
(* of inputs first and cells of one type after them passes, too.           *)
CanPropagateBack(nl, v) ==
  /\ Bits(v) \cap nl.macro = {}
  /\ \A i, j \in DOMAIN v : i < j /\ nl.type[v[i]] # NoType => nl.type[v[j]] = nl.type[v[i]]

(* The asserts of propagate_back.                                          *)
IsUniform(nl, v) ==
  \A k \in DOMAIN v : /\ nl.type[v[k]] = nl.type[v[1]]
                      /\ Len(nl.inputs[v[k]]) = Len(nl.inputs[v[1]])

(* Mutant: the size of the set is not compared.                            *)
GivesWordAlways(nl, v, p) == p \notin isSymmetric[nl.type[v[1]]]
(* Whether pin p of the cells makes a word.                                *)
GivesWord(nl, v, p) ==
  /\ \A i, j \in DOMAIN v : nl.inputs[v[i]][p] = nl.inputs[v[j]][p] => i = j
  /\ p \notin isSymmetric[nl.type[v[1]]]
BackWord(nl, v, p) == [k \in DOMAIN v |-> nl.inputs[v[k]][p]]

ReadersOf(nl, n, t) == {m \in nl.fanouts[n] : nl.type[m] = t}
(* createFanoutTypeIntersection asks bit 0 for every bit, so the types are *)
(* those that one reader of the first bit has.  NULL comes first among     *)
(* them and ends propagate_forward.                                        *)
FanoutTypes(nl, v) ==
  LET once == {t \in Types \cup {NoType} :
                 Cardinality(ReadersOf(nl, v[1], t)) = 1}
  IN IF NoType \in once THEN {} ELSE once

AllRead(nl, v, t) ==
  /\ \A k \in DOMAIN v : ReadersOf(nl, v[k], t) # {}
  /\ \A i, j \in DOMAIN v : nl.first[v[i]][t] = nl.first[v[j]][t] => i = j
(* The first reader of each bit.  create_fwdprop_words means to make words *)
(* of their pins as well, but goes over its own empty list.                *)
ForwardWord(nl, v, t) == [k \in DOMAIN v |-> nl.first[v[k]][t]]
-----------------------------------------------------------------------------
GoesBack(v) == ~interactive /\ CanPropagateBack(netlist, v)

Init ==
  /\ netlist \in Netlists
  /\ init_words \in WordTables
  /\ \/ typed = {} /\ earlier = {} /\ words = Bits(init_words)
     \/ /\ Len(init_words) = 1 /\ typed = Bits(init_words)
        /\ earlier \in {{}} \cup {Bits(table) : table \in WordTables} /\ words = earlier
  /\ new_words = <<>>
  /\ pin = 1
  /\ types = {}
  /\ phase = "back"

TryPin ==
  /\ phase = "back" /\ init_words # <<>>
  /\ GoesBack(w) /\ IsUniform(netlist, w)
  /\ pin <= Len(netlist.inputs[w[1]])
  /\ IF GivesWord(netlist, w, pin) THEN Enter(BackWord(netlist, w, pin))
     ELSE UNCHANGED <<words, new_words>>
  /\ pin' = pin + 1
  /\ UNCHANGED <<netlist, typed, earlier, init_words, types, phase>>

(* An assert fails.                                                        *)
Abort ==
  /\ phase = "back" /\ init_words # <<>>
  /\ GoesBack(w) /\ ~IsUniform(netlist, w)
  /\ phase' = "aborted"
  /\ UNCHANGED <<netlist, typed, earlier, words, init_words, new_words, pin, types>>

EndBack ==
  /\ phase = "back" /\ init_words # <<>>
  /\ GoesBack(w) => IsUniform(netlist, w) /\ pin > Len(netlist.inputs[w[1]])
  /\ types' = FanoutTypes(netlist, w)
  /\ phase' = "forward"
  /\ UNCHANGED <<netlist, typed, earlier, words, init_words, new_words, pin>>

TryType(t) ==
  /\ phase = "forward" /\ t \in types
  /\ IF AllRead(netlist, w, t) THEN Enter(ForwardWord(netlist, w, t))
     ELSE UNCHANGED <<words, new_words>>
  /\ types' = types \ {t}
  /\ UNCHANGED <<netlist, typed, earlier, init_words, pin, phase>>

EndWord ==
  /\ phase = "forward" /\ types = {}
  /\ init_words' = Tail(init_words)
  /\ pin' = 1
  /\ phase' = "back"
  /\ UNCHANGED <<netlist, typed, earlier, words, new_words, types>>

(* Mutant: the copy leaves out the last word.                              *)
NextRoundShort ==
  /\ phase = "back" /\ init_words = <<>> /\ new_words # <<>>
  /\ init_words' = SubSeq(new_words, 1, Len(new_words) - 1)
  /\ new_words' = <<>>
  /\ UNCHANGED <<netlist, typed, earlier, words, pin, types, phase>>
(* The words found become the words to do.                                 *)
NextRound ==
  /\ phase = "back" /\ init_words = <<>> /\ new_words # <<>>
  /\ init_words' = new_words
  /\ new_words' = <<>>
  /\ UNCHANGED <<netlist, typed, earlier, words, pin, types, phase>>

End ==
  /\ phase = "back" /\ init_words = <<>> /\ new_words = <<>>
  /\ phase' = "done"
  /\ UNCHANGED <<netlist, typed, earlier, words, init_words, new_words, pin, types>>

Next ==
  \/ TryPin \/ Abort \/ EndBack
  \/ \E t \in Types : TryType(t)
  \/ EndWord \/ NextRound \/ End
Spec == Init /\ [][Next]_vars
FairSpec == Spec /\ WF_vars(Next)
-----------------------------------------------------------------------------
(* Words are lists of different nodes, and those to do are in the table,   *)
(* but for the one typed in, and were not there before.                    *)
TypeOK ==
  /\ IsNetlist(netlist)
  /\ \A v \in words \cup typed : IsWord(v)
  /\ earlier \subseteq words /\ (~interactive => earlier = {})
  /\ init_words \in Seq((words \ earlier) \cup typed)
  /\ new_words \in Seq(words \ earlier)
  /\ pin \in Nat \ {0}
  /\ types \subseteq Types
  /\ phase \in {"back", "forward", "done", "aborted"}
  /\ phase = "forward" => init_words # <<>>

(* What can be found from a word, back or forward.                         *)
Found(c, v) ==
  {BackWord(c.netlist, v, p) : p \in
     {q \in DOMAIN c.netlist.inputs[v[1]] :
        /\ ~c.interactive /\ CanPropagateBack(c.netlist, v) /\ IsUniform(c.netlist, v)
        /\ GivesWord(c.netlist, v, q)}} \cup
  {ForwardWord(c.netlist, v, t) : t \in {u \in FanoutTypes(c.netlist, v) : AllRead(c.netlist, v, u)}}

Closure == INSTANCE WordClosure WITH
  Gives <- Found, Alike <- SameBits,
  setting <- [netlist |-> netlist, interactive |-> interactive],
  given <- typed, old <- earlier, table <- words, ended <- (phase = "done")

(* The rounds, pins and types are one way to close the table: nothing is   *)
(* entered twice or unfounded, and when propagate_words ends what can be   *)
(* found from any of its words is in the table; when ip_fwdprop ends, what *)
(* can be found from the word typed in and from those it entered.          *)
Implements == Closure!Spec

(* `let's first deal with the inputs', of the cells that read a word: at   *)
(* the end the words at their pins are known, although                     *)
(* create_fwdprop_words never makes them.  Macros are ignored.             *)
InputsDealtWith ==
  phase = "done" /\ ~interactive =>
    \A v \in words : \A t \in FanoutTypes(netlist, v) :
      AllRead(netlist, v, t) /\ Bits(ForwardWord(netlist, v, t)) \cap netlist.macro = {} =>
        \A p \in DOMAIN netlist.inputs[ForwardWord(netlist, v, t)[1]] :
          GivesWord(netlist, ForwardWord(netlist, v, t), p)
            => SimilarWordExists(BackWord(netlist, ForwardWord(netlist, v, t), p))

(* The rounds come to an end.                                              *)
Terminates == <>(phase \in {"done", "aborted"})
=============================================================================
