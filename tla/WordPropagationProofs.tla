------------------------ MODULE WordPropagationProofs ------------------------
(* The growth of words implements WordClosure.  The work list is why: a    *)
(* word that is not on it, here or for the next round, has been treated,   *)
(* and what was found of it stays found because the table only grows.      *)
EXTENDS WordPropagation, FiniteSetTheorems, FunctionTheorems, TLAPS

Setting == [netlist |-> netlist, interactive |-> interactive]

(* What is known of the words of v, given the table.                       *)
Sim(ws, f) == \E u \in ws : SameBits(u, f)
BackApplies(c, v) ==
  ~c.interactive /\ CanPropagateBack(c.netlist, v) /\ IsUniform(c.netlist, v)
BackBelow(ws, c, v, k) ==
  BackApplies(c, v) =>
    \A q \in DOMAIN c.netlist.inputs[v[1]] :
      q < k /\ GivesWord(c.netlist, v, q) => Sim(ws, BackWord(c.netlist, v, q))
BackAll(ws, c, v) ==
  BackApplies(c, v) =>
    \A q \in DOMAIN c.netlist.inputs[v[1]] :
      GivesWord(c.netlist, v, q) => Sim(ws, BackWord(c.netlist, v, q))
ForwardBut(ws, c, v, T) ==
  \A t \in FanoutTypes(c.netlist, v) \ T :
    AllRead(c.netlist, v, t) => Sim(ws, ForwardWord(c.netlist, v, t))
Treated(ws, c, v) == \A f \in Found(c, v) : Sim(ws, f)

(* The table only grows.                                                   *)
LEMMA SimGrows ==
  ASSUME NEW ws, NEW wt, ws \subseteq wt
  PROVE  /\ \A f : Sim(ws, f) => Sim(wt, f)
         /\ \A c, v, k : BackBelow(ws, c, v, k) => BackBelow(wt, c, v, k)
         /\ \A c, v : BackAll(ws, c, v) => BackAll(wt, c, v)
         /\ \A c, v, T : ForwardBut(ws, c, v, T) => ForwardBut(wt, c, v, T)
         /\ \A c, v : Treated(ws, c, v) => Treated(wt, c, v)
<1>1. \A f : Sim(ws, f) => Sim(wt, f)
  BY DEF Sim
<1>2. \A c, v, k : BackBelow(ws, c, v, k) => BackBelow(wt, c, v, k)
  BY <1>1 DEF BackBelow
<1>3. \A c, v : BackAll(ws, c, v) => BackAll(wt, c, v)
  BY <1>1 DEF BackAll
<1>4. \A c, v, T : ForwardBut(ws, c, v, T) => ForwardBut(wt, c, v, T)
  BY <1>1 DEF ForwardBut
<1>5. \A c, v : Treated(ws, c, v) => Treated(wt, c, v)
  BY <1>1 DEF Treated
<1> QED
  BY <1>1, <1>2, <1>3, <1>4, <1>5

(* A word with all pins and all types done is treated.                     *)
LEMMA AllIsTreated ==
  ASSUME NEW ws, NEW c, NEW v, BackAll(ws, c, v), ForwardBut(ws, c, v, {})
  PROVE  Treated(ws, c, v)
<1> SUFFICES ASSUME NEW f \in Found(c, v) PROVE Sim(ws, f)
  BY DEF Treated
<1>1. CASE \E p \in DOMAIN c.netlist.inputs[v[1]] :
             /\ BackApplies(c, v) /\ GivesWord(c.netlist, v, p)
             /\ f = BackWord(c.netlist, v, p)
  BY <1>1 DEF BackAll
<1>2. CASE \E t \in FanoutTypes(c.netlist, v) :
             AllRead(c.netlist, v, t) /\ f = ForwardWord(c.netlist, v, t)
  BY <1>2 DEF ForwardBut
<1> QED
  BY <1>1, <1>2 DEF Found, BackApplies

(* Both rules make words of words.                                         *)
LEMMA BackWordIsWord ==
  ASSUME NEW nl, IsNetlist(nl), NEW v, IsWord(v), IsUniform(nl, v),
         NEW p \in 1..Len(nl.inputs[v[1]]), GivesWord(nl, v, p)
  PROVE  IsWord(BackWord(nl, v, p))
<1> DEFINE b == BackWord(nl, v, p)
<1>1. v \in Seq(Node) /\ DOMAIN v = 1..Len(v) /\ Len(v) \in Nat /\ Len(v) # 0
  BY DEF IsWord
<1>2. ASSUME NEW k \in DOMAIN v
      PROVE  nl.inputs[v[k]][p] \in Node
  <2>1. v[k] \in Node /\ v[1] \in Node
    BY <1>1
  <2>2. nl.inputs[v[k]] \in Seq(Node) /\ nl.inputs[v[1]] \in Seq(Node)
    BY <2>1 DEF IsNetlist
  <2>3. Len(nl.inputs[v[k]]) = Len(nl.inputs[v[1]])
    BY DEF IsUniform
  <2> QED
    BY <2>2, <2>3
<1>3. b = [k \in 1..Len(v) |-> nl.inputs[v[k]][p]]
  BY <1>1 DEF BackWord
<1>4. b \in Seq(Node) /\ Len(b) = Len(v) /\ DOMAIN b = DOMAIN v
  BY <1>1, <1>2, <1>3
<1>5. ~Repeats(b)
  BY <1>3, <1>4, <1>1 DEF Repeats, GivesWord
<1> QED
  BY <1>1, <1>4, <1>5 DEF IsWord

LEMMA ForwardWordIsWord ==
  ASSUME NEW nl, IsNetlist(nl), NEW v, IsWord(v), NEW t \in Types, AllRead(nl, v, t)
  PROVE  IsWord(ForwardWord(nl, v, t))
<1> DEFINE b == ForwardWord(nl, v, t)
<1>1. v \in Seq(Node) /\ DOMAIN v = 1..Len(v) /\ Len(v) \in Nat /\ Len(v) # 0
  BY DEF IsWord
<1>2. \A k \in DOMAIN v : nl.first[v[k]][t] \in Node
  BY <1>1 DEF IsNetlist
<1>3. b = [k \in 1..Len(v) |-> nl.first[v[k]][t]]
  BY <1>1 DEF ForwardWord
<1>4. b \in Seq(Node) /\ Len(b) = Len(v) /\ DOMAIN b = DOMAIN v
  BY <1>1, <1>2, <1>3
<1>5. ~Repeats(b)
  BY <1>3, <1>4, <1>1 DEF Repeats, AllRead
<1> QED
  BY <1>1, <1>4, <1>5 DEF IsWord
-----------------------------------------------------------------------------
(* A list with a word at its end.                                          *)
LEMMA AppendBits ==
  ASSUME NEW S, NEW list \in Seq(S), NEW f \in S
  PROVE  Bits(list) \subseteq Bits(Append(list, f)) /\ f \in Bits(Append(list, f))
<1> DEFINE long == Append(list, f)
<1>1. /\ Len(list) \in Nat /\ DOMAIN list = 1..Len(list)
      /\ long \in Seq(S) /\ DOMAIN long = 1..(Len(list) + 1)
      /\ \A i \in 1..Len(list) : long[i] = list[i]
      /\ long[Len(list) + 1] = f
  OBVIOUS
<1> HIDE DEF long
<1>2. Bits(list) \subseteq Bits(long) /\ f \in Bits(long)
  BY <1>1 DEF Bits
<1> QED
  BY <1>2 DEF long

(* What entering a word does to the table and to the list.                 *)
LEMMA EnterEffect ==
  ASSUME TypeOK, NEW f, IsWord(f), Enter(f)
  PROVE  /\ words \subseteq words' /\ words' \subseteq words \cup {f}
         /\ \A u \in words' : IsWord(u)
         /\ Sim(words', f)
         /\ new_words' \in Seq(words' \ earlier)
         /\ Bits(new_words) \subseteq Bits(new_words')
         /\ words' \ words \subseteq Bits(new_words')
<1>1. CASE SimilarWordExists(f)
  BY <1>1 DEF Enter, TypeOK, SimilarWordExists, Sim
<1>2. CASE ~SimilarWordExists(f)
  <2>1. words' = words \cup {f} /\ new_words' = Append(new_words, f)
    BY <1>2 DEF Enter
  <2>2. new_words \in Seq(words' \ earlier) /\ new_words \in Seq(words \ earlier) /\ f \in words' \ earlier
    <3>1. f \notin words
      BY <1>2 DEF SimilarWordExists, SameBits
    <3> QED
      BY <2>1, <3>1 DEF TypeOK
  <2>3. new_words' \in Seq(words' \ earlier) /\ Len(new_words') = Len(new_words) + 1
        /\ \A i \in 1..Len(new_words) : new_words'[i] = new_words[i]
        /\ new_words'[Len(new_words) + 1] = f
    BY <2>1, <2>2
  <2>4. Bits(new_words) \subseteq Bits(new_words') /\ f \in Bits(new_words')
    BY <2>1, <2>2, AppendBits
  <2>5. SameBits(f, f)
    BY DEF SameBits
  <2> QED
    BY <2>1, <2>3, <2>4, <2>5 DEF TypeOK, Sim
<1> QED
  BY <1>1, <1>2

(* The first of the words to do.                                           *)
LEMMA HeadIsWord ==
  ASSUME TypeOK, init_words # <<>>
  PROVE  w \in (words \ earlier) \cup typed /\ IsWord(w)
         /\ Bits(init_words) = {w} \cup Bits(Tail(init_words))
         /\ Tail(init_words) \in Seq((words \ earlier) \cup typed)
<1>1. init_words \in Seq((words \ earlier) \cup typed) /\ Len(init_words) \in Nat /\ Len(init_words) > 0
  BY DEF TypeOK
<1>2. w = init_words[1] /\ w \in (words \ earlier) \cup typed
  BY <1>1 DEF w
<1>3. /\ Tail(init_words) \in Seq((words \ earlier) \cup typed)
      /\ DOMAIN Tail(init_words) = 1..(Len(init_words) - 1)
      /\ \A i \in 1..(Len(init_words) - 1) : Tail(init_words)[i] = init_words[i + 1]
  BY <1>1
<1>4. Bits(init_words) \subseteq {w} \cup Bits(Tail(init_words))
  <2> SUFFICES ASSUME NEW k \in 1..Len(init_words), k # 1
               PROVE  init_words[k] \in Bits(Tail(init_words))
    BY <1>1, <1>2 DEF Bits
  <2>1. k - 1 \in 1..(Len(init_words) - 1) /\ Tail(init_words)[k - 1] = init_words[k]
    BY <1>1, <1>3
  <2> QED
    BY <2>1, <1>3 DEF Bits
<1>5. {w} \cup Bits(Tail(init_words)) \subseteq Bits(init_words)
  BY <1>1, <1>2, <1>3 DEF Bits
<1> QED
  BY <1>2, <1>3, <1>4, <1>5 DEF TypeOK
-----------------------------------------------------------------------------
(* What is on neither list has been treated, but for the words from before. *)
OnListOrTreated(ws, c, given, list, found) ==
  \A v \in (ws \ earlier) \cup given : v \in Bits(list) \cup Bits(found) \/ Treated(ws, c, v)

IInv ==
  /\ TypeOK
  /\ OnListOrTreated(words, Setting, typed, init_words, new_words)
  /\ phase = "back" /\ init_words = <<>> => pin = 1
  /\ phase = "back" /\ init_words # <<>> => BackBelow(words, Setting, w, pin)
  /\ phase = "forward" => BackAll(words, Setting, w) /\ ForwardBut(words, Setting, w, types)
  /\ phase = "forward" => types \subseteq FanoutTypes(netlist, w)
  /\ phase = "done" => init_words = <<>> /\ new_words = <<>>

(* A new word has no pin done.                                             *)
LEMMA NoPinDone ==
  ASSUME NEW ws, NEW c, IsNetlist(c.netlist), NEW v, IsWord(v)
  PROVE  BackBelow(ws, c, v, 1)
<1>1. v[1] \in Node
  BY DEF IsWord
<1>2. c.netlist.inputs[v[1]] \in Seq(Node)
  BY <1>1 DEF IsNetlist
<1> QED
  BY <1>2 DEF BackBelow

LEMMA EveryPinDone ==
  ASSUME NEW ws, NEW c, IsNetlist(c.netlist), NEW v, IsWord(v), NEW k \in Nat,
         BackApplies(c, v) => k > Len(c.netlist.inputs[v[1]]),
         BackBelow(ws, c, v, k)
  PROVE  BackAll(ws, c, v)
<1>1. v[1] \in Node
  BY DEF IsWord
<1>2. c.netlist.inputs[v[1]] \in Seq(Node)
  BY <1>1 DEF IsNetlist
<1> QED
  BY <1>2 DEF BackBelow, BackAll

LEMMA NextPinDone ==
  ASSUME NEW ws, NEW c, IsNetlist(c.netlist), NEW v, IsWord(v), NEW k \in Nat,
         BackBelow(ws, c, v, k),
         GivesWord(c.netlist, v, k) => Sim(ws, BackWord(c.netlist, v, k))
  PROVE  BackBelow(ws, c, v, k + 1)
<1>1. v[1] \in Node
  BY DEF IsWord
<1>2. c.netlist.inputs[v[1]] \in Seq(Node)
  BY <1>1 DEF IsNetlist
<1> SUFFICES ASSUME BackApplies(c, v), NEW q \in DOMAIN c.netlist.inputs[v[1]],
                    q < k + 1, GivesWord(c.netlist, v, q)
             PROVE  Sim(ws, BackWord(c.netlist, v, q))
  BY DEF BackBelow
<1>3. q < k \/ q = k
  <2> DEFINE pins == c.netlist.inputs[v[1]]
  <2>1. pins \in Seq(Node) /\ q \in DOMAIN pins
    BY <1>2
  <2> HIDE DEF pins
  <2>2. q \in Nat
    BY <2>1
  <2> QED
    BY <2>2
<1> QED
  BY <1>3 DEF BackBelow

LEMMA SettingIs ==
  /\ Setting.netlist = netlist /\ Setting.interactive = interactive
  /\ \A v : BackApplies(Setting, v) <=> GoesBack(v) /\ IsUniform(netlist, v)
BY DEF Setting, BackApplies, GoesBack

LEMMA InitInv == Init => IInv
<1> SUFFICES ASSUME Init PROVE IInv
  OBVIOUS
<1>1. init_words \in Seq(Seq(Node)) /\ \A k \in DOMAIN init_words : IsWord(init_words[k])
  BY WordTablesAssumption DEF Init
<1>2. init_words \in Seq(Bits(init_words)) /\ \A v \in Bits(init_words) : IsWord(v)
  BY <1>1 DEF Bits
<1>3. /\ Bits(init_words) \subseteq words \cup typed
      /\ (words \ earlier) \cup typed \subseteq Bits(init_words)
      /\ \A v \in words \cup typed : IsWord(v)
      /\ earlier \subseteq words /\ (~interactive => earlier = {})
  <2>1. ASSUME NEW table \in WordTables, NEW v \in Bits(table) PROVE IsWord(v)
    BY <2>1, WordTablesAssumption DEF Bits
  <2>2. CASE typed = {} /\ earlier = {} /\ words = Bits(init_words)
    BY <1>2, <2>2
  <2>3. CASE /\ Len(init_words) = 1 /\ typed = Bits(init_words)
             /\ earlier \in {{}} \cup {Bits(table) : table \in WordTables} /\ words = earlier
    <3>1. typed # {}
      <4>1. Len(init_words) = 1
        BY <2>3
      <4>2. 1 \in DOMAIN init_words
        BY <1>1, <4>1
      <4> QED
        BY <2>3, <4>2 DEF Bits
    <3>2. \A v \in words : IsWord(v)
      BY <2>1, <2>3
    <3> QED
      BY <1>2, <2>3, <3>1, <3>2 DEF interactive
  <2> QED
    BY <2>2, <2>3 DEF Init
<1>4. TypeOK
  <2>1. IsNetlist(netlist)
    BY NetlistsAssumption DEF Init
  <2>2. new_words \in Seq(words \ earlier)
    BY DEF Init
  <2> QED
    BY <1>2, <1>3, <2>1, <2>2 DEF Init, TypeOK
<1>5. OnListOrTreated(words, Setting, typed, init_words, new_words)
  BY <1>3 DEF OnListOrTreated
<1>6. ASSUME init_words # <<>> PROVE BackBelow(words, Setting, w, 1)
  BY <1>4, <1>6, HeadIsWord, NoPinDone, SettingIs DEF TypeOK
<1> QED
  BY <1>4, <1>5, <1>6 DEF IInv, Init

(* The lists after a word was entered.                                     *)
LEMMA EnterKeepsLists ==
  ASSUME IInv, NEW f, IsWord(f), Enter(f), UNCHANGED <<netlist, typed, earlier, init_words>>
  PROVE  OnListOrTreated(words', Setting, typed, init_words, new_words')
<1>1. TypeOK /\ OnListOrTreated(words, Setting, typed, init_words, new_words)
  BY DEF IInv
<1>2. /\ words \subseteq words' /\ words' \ words \subseteq Bits(new_words')
      /\ Bits(new_words) \subseteq Bits(new_words')
  BY <1>1, EnterEffect
<1>3. \A c, v : Treated(words, c, v) => Treated(words', c, v)
  BY <1>2, SimGrows
<1> QED
  BY <1>1, <1>2, <1>3 DEF OnListOrTreated

LEMMA StepInv == IInv /\ [Next]_vars => IInv'
<1> SUFFICES ASSUME IInv, [Next]_vars PROVE IInv'
  OBVIOUS
<1> DEFINE L(ws, list, found) == OnListOrTreated(ws, Setting, typed, list, found)
           B(ws, v, k) == BackBelow(ws, Setting, v, k)
           A(ws, v) == BackAll(ws, Setting, v)
           F(ws, v, T) == ForwardBut(ws, Setting, v, T)
<1>0. /\ TypeOK
      /\ L(words, init_words, new_words)
      /\ phase = "back" /\ init_words = <<>> => pin = 1
      /\ phase = "back" /\ init_words # <<>> => B(words, w, pin)
      /\ phase = "forward" => A(words, w) /\ F(words, w, types)
      /\ phase = "forward" => types \subseteq FanoutTypes(netlist, w)
      /\ phase = "done" => init_words = <<>> /\ new_words = <<>>
  BY DEF IInv
<1>types. /\ IsNetlist(netlist) /\ \A v \in words \cup typed : IsWord(v)
          /\ earlier \subseteq words /\ (~interactive => earlier = {})
          /\ init_words \in Seq((words \ earlier) \cup typed) /\ new_words \in Seq(words \ earlier)
          /\ pin \in Nat \ {0} /\ types \subseteq Types
          /\ phase \in {"back", "forward", "done", "aborted"}
          /\ phase = "forward" => init_words # <<>>
  BY <1>0 DEF TypeOK
<1>set. Setting.netlist = netlist
        /\ \A v : BackApplies(Setting, v) <=> GoesBack(v) /\ IsUniform(netlist, v)
  BY SettingIs
<1>head. init_words # <<>> =>
           w \in (words \ earlier) \cup typed /\ IsWord(w)
           /\ Bits(init_words) = {w} \cup Bits(Tail(init_words))
           /\ Tail(init_words) \in Seq((words \ earlier) \cup typed)
  BY <1>0, HeadIsWord
(* To show the invariant of the next state, in which the setting is the    *)
(* same, is to show its parts.                                             *)
<1>p. ASSUME UNCHANGED <<netlist, typed, earlier>>, TypeOK',
             L(words', init_words', new_words'),
             phase' = "back" /\ init_words' = <<>> => pin' = 1,
             phase' = "back" /\ init_words' # <<>> => B(words', Head(init_words'), pin'),
             phase' = "forward" => A(words', Head(init_words')) /\ F(words', Head(init_words'), types'),
             phase' = "forward" => types' \subseteq FanoutTypes(netlist', Head(init_words')),
             phase' = "done" => init_words' = <<>> /\ new_words' = <<>>
      PROVE  IInv'
  <2>1. Setting' = Setting
    BY <1>p DEF Setting, interactive
  <2>2. OnListOrTreated(words, Setting, typed, init_words, new_words)'
    BY <1>p, <2>1 DEF L, OnListOrTreated
  <2>3. (phase = "back" /\ init_words # <<>> => BackBelow(words, Setting, w, pin))'
    BY <1>p, <2>1 DEF w
  <2>4. (phase = "forward" => BackAll(words, Setting, w) /\ ForwardBut(words, Setting, w, types))'
    BY <1>p, <2>1 DEF w
  <2>5. (phase = "forward" => types \subseteq FanoutTypes(netlist, w))'
    BY <1>p DEF w
  <2> QED
    BY <1>p, <2>2, <2>3, <2>4, <2>5 DEF IInv
<1> HIDE DEF L, B, A, F
<1>1. CASE TryPin
  <2>1. /\ phase = "back" /\ phase' = "back" /\ init_words # <<>> /\ init_words' = init_words
        /\ GoesBack(w) /\ IsUniform(netlist, w) /\ pin \in 1..Len(netlist.inputs[w[1]])
        /\ UNCHANGED <<netlist, typed, earlier, types>> /\ pin' = pin + 1
    BY <1>1, <1>types DEF TryPin
  <2>2. CASE GivesWord(netlist, w, pin)
    <3> DEFINE f == BackWord(netlist, w, pin)
    <3>1. IsWord(f)
      BY <1>head, <1>types, <2>1, <2>2, BackWordIsWord
    <3>2. Enter(f)
      BY <1>1, <2>2 DEF TryPin
    <3> HIDE DEF f
    <3>3. /\ words \subseteq words' /\ Sim(words', f) /\ new_words' \in Seq(words' \ earlier)
          /\ \A u \in words' : IsWord(u)
      BY <1>0, <3>1, <3>2, EnterEffect
    <3>4. TypeOK'
      BY <1>types, <2>1, <3>3 DEF TypeOK, interactive
    <3>5. L(words', init_words', new_words')
      BY <3>1, <3>2, <2>1, EnterKeepsLists DEF L
    <3>6. BackBelow(words', Setting, w, pin)
      BY <1>0, <2>1, <3>3, SimGrows DEF B
    <3>7. BackBelow(words', Setting, w, pin + 1)
      BY <3>3, <3>6, <1>head, <1>types, <1>set, <2>1, NextPinDone DEF f
    <3> QED
      BY <1>p, <2>1, <3>4, <3>5, <3>7 DEF B, w
  <2>3. CASE ~GivesWord(netlist, w, pin)
    <3>1. UNCHANGED <<words, new_words>>
      BY <1>1, <2>3 DEF TryPin
    <3>2. TypeOK'
      BY <1>types, <2>1, <3>1 DEF TypeOK, interactive
    <3>3. BackBelow(words, Setting, w, pin + 1)
      BY <1>0, <1>head, <1>types, <1>set, <2>1, <2>3, NextPinDone DEF B
    <3> QED
      BY <1>0, <1>p, <2>1, <3>1, <3>2, <3>3 DEF B, w
  <2> QED
    BY <2>2, <2>3
<1>2. CASE Abort
  <2>1. TypeOK'
    BY <1>2, <1>types DEF Abort, TypeOK, interactive
  <2> QED
    BY <1>0, <1>2, <1>p, <2>1 DEF Abort
<1>3. CASE EndBack
  <2>1. /\ phase = "back" /\ phase' = "forward" /\ init_words # <<>>
        /\ UNCHANGED <<netlist, typed, earlier, words, init_words, new_words, pin>>
        /\ BackApplies(Setting, w) => pin > Len(netlist.inputs[w[1]])
        /\ types' = FanoutTypes(netlist, w)
    BY <1>3, <1>set DEF EndBack
  <2>2. types' \subseteq Types
    BY <2>1 DEF FanoutTypes
  <2>3. TypeOK'
    BY <1>types, <2>1, <2>2 DEF TypeOK, interactive
  <2>4. BackAll(words, Setting, w)
    BY <1>0, <1>head, <1>types, <1>set, <2>1, EveryPinDone DEF B
  <2>5. ForwardBut(words, Setting, w, types')
    BY <2>1, <1>set DEF ForwardBut
  <2> QED
    BY <1>0, <1>p, <2>1, <2>3, <2>4, <2>5 DEF A, F, w
<1>4. ASSUME NEW t \in Types, TryType(t) PROVE IInv'
  <2>1. /\ phase = "forward" /\ phase' = "forward" /\ init_words # <<>> /\ init_words' = init_words
        /\ UNCHANGED <<netlist, typed, earlier, pin>> /\ t \in types /\ types' = types \ {t}
    BY <1>4, <1>types DEF TryType
  <2>2. CASE AllRead(netlist, w, t)
    <3> DEFINE f == ForwardWord(netlist, w, t)
    <3>1. IsWord(f)
      BY <1>head, <1>types, <2>1, <2>2, ForwardWordIsWord
    <3>2. Enter(f)
      BY <1>4, <2>2 DEF TryType
    <3> HIDE DEF f
    <3>3. /\ words \subseteq words' /\ Sim(words', f) /\ new_words' \in Seq(words' \ earlier)
          /\ \A u \in words' : IsWord(u)
      BY <1>0, <3>1, <3>2, EnterEffect
    <3>4. TypeOK'
      BY <1>types, <2>1, <3>3 DEF TypeOK, interactive
    <3>5. L(words', init_words', new_words')
      BY <3>1, <3>2, <2>1, EnterKeepsLists DEF L
    <3>6. BackAll(words', Setting, w) /\ ForwardBut(words', Setting, w, types)
      BY <1>0, <2>1, <3>3, SimGrows DEF A, F
    <3>7. ForwardBut(words', Setting, w, types')
      BY <3>3, <3>6, <2>1, <1>set DEF f, ForwardBut
    <3>8. types' \subseteq FanoutTypes(netlist', Head(init_words'))
      BY <1>0, <2>1 DEF w
    <3> QED
      BY <1>p, <2>1, <3>4, <3>5, <3>6, <3>7, <3>8 DEF A, F, w
  <2>3. CASE ~AllRead(netlist, w, t)
    <3>1. UNCHANGED <<words, new_words>>
      BY <1>4, <2>3 DEF TryType
    <3>2. TypeOK'
      BY <1>types, <2>1, <3>1 DEF TypeOK, interactive
    <3>3. ForwardBut(words, Setting, w, types')
      BY <1>0, <2>1, <2>3, <1>set DEF F, ForwardBut
    <3>4. types' \subseteq FanoutTypes(netlist', Head(init_words'))
      BY <1>0, <2>1 DEF w
    <3> QED
      BY <1>0, <1>p, <2>1, <3>1, <3>2, <3>3, <3>4 DEF A, F, w
  <2> QED
    BY <2>2, <2>3
<1>5. CASE EndWord
  <2>1. /\ phase = "forward" /\ phase' = "back" /\ types = {} /\ init_words # <<>>
        /\ init_words' = Tail(init_words) /\ pin' = 1
        /\ UNCHANGED <<netlist, typed, earlier, words, new_words, types>>
    BY <1>5, <1>types DEF EndWord
  <2>2. TypeOK'
    BY <1>types, <1>head, <2>1 DEF TypeOK, interactive
  <2>3. Treated(words, Setting, w)
    BY <1>0, <2>1, AllIsTreated DEF A, F
  <2>4. L(words', init_words', new_words')
    BY <1>0, <1>head, <2>1, <2>3 DEF L, OnListOrTreated
  <2>5. ASSUME init_words' # <<>> PROVE BackBelow(words', Setting, Head(init_words'), 1)
    <3>1. IsWord(Head(init_words'))
      BY <2>2, <2>5, <1>types, <2>1, <1>head
    <3> QED
      BY <3>1, <1>types, <1>set, NoPinDone
  <2> QED
    BY <1>p, <2>1, <2>2, <2>4, <2>5 DEF B
<1>6. CASE NextRound
  <2>1. /\ phase = "back" /\ phase' = "back" /\ init_words = <<>>
        /\ init_words' = new_words /\ new_words' = <<>>
        /\ UNCHANGED <<netlist, typed, earlier, words, pin, types>>
    BY <1>6 DEF NextRound
  <2>2. init_words' \in Seq((words \ earlier) \cup typed)
    BY <1>types, <2>1
  <2>3. TypeOK'
    BY <1>types, <2>1, <2>2 DEF TypeOK, interactive
  <2>4. L(words', init_words', new_words')
    <3>1. Bits(<<>>) = {}
      BY DEF Bits
    <3> QED
      BY <1>0, <2>1, <3>1 DEF L, OnListOrTreated
  <2>5. ASSUME init_words' # <<>> PROVE BackBelow(words', Setting, Head(init_words'), 1)
    <3>1. IsWord(Head(init_words'))
      BY <2>2, <2>5, <1>types
    <3> QED
      BY <3>1, <1>types, <1>set, NoPinDone
  <2> QED
    BY <1>0, <1>p, <2>1, <2>3, <2>4, <2>5 DEF B
<1>7. CASE End
  <2>1. TypeOK'
    BY <1>7, <1>types DEF End, TypeOK, interactive
  <2> QED
    BY <1>0, <1>7, <1>p, <2>1 DEF End
<1>8. CASE UNCHANGED vars
  <2>1. TypeOK'
    BY <1>8, <1>types DEF vars, TypeOK, interactive
  <2> QED
    BY <1>0, <1>8, <1>p, <2>1 DEF vars, w
<1> QED
  BY <1>1, <1>2, <1>3, <1>4, <1>5, <1>6, <1>7, <1>8 DEF Next
-----------------------------------------------------------------------------
THEOREM Invariance == Spec => []IInv
<1>1. Init => IInv
  BY InitInv
<1>2. IInv /\ [Next]_vars => IInv'
  BY StepInv
<1> QED
  BY <1>1, <1>2, PTL DEF Spec

(* Every word entered is a list of different nodes, and the lists of words *)
(* to do hold words of the table, but for the one typed in.                *)
THEOREM TypeCorrect == Spec => []TypeOK
<1>1. IInv => TypeOK
  BY DEF IInv
<1> QED
  BY <1>1, Invariance, PTL

(* A step of propagate_words or ip_fwdprop enters one word that a rule     *)
(* gives and the table has not, or ends when there is none, or is none of  *)
(* the abstract machine's business.                                        *)
LEMMA StepImplements == IInv /\ [Next]_vars => [Closure!Next]_(Closure!cvars)
<1> SUFFICES ASSUME IInv, [Next]_vars PROVE [Closure!Next]_(Closure!cvars)
  OBVIOUS
<1> DEFINE stutters == UNCHANGED <<netlist, typed, earlier, words>> /\ (phase' = "done" <=> phase = "done")
<1>0. TypeOK /\ OnListOrTreated(words, Setting, typed, init_words, new_words)
      /\ (phase = "done" => init_words = <<>> /\ new_words = <<>>)
  BY DEF IInv
<1>head. init_words # <<>> => w \in (words \ earlier) \cup typed /\ IsWord(w)
  BY <1>0, HeadIsWord
<1>set. Setting = [netlist |-> netlist, interactive |-> interactive]
        /\ Setting.netlist = netlist
        /\ \A v : BackApplies(Setting, v) <=> GoesBack(v) /\ IsUniform(netlist, v)
  BY SettingIs DEF Setting
<1>s. ASSUME stutters PROVE UNCHANGED Closure!cvars
  BY <1>s DEF Closure!cvars, interactive
(* Entering what was found is learning it.                                 *)
<1>e. ASSUME NEW f \in Found(Setting, w), init_words # <<>>, Enter(f),
             phase # "done", phase' # "done", UNCHANGED <<netlist, typed, earlier>>
      PROVE  Closure!Learn \/ UNCHANGED Closure!cvars
  <2>1. CASE SimilarWordExists(f)
    <3>1. stutters
      BY <1>e, <2>1 DEF Enter
    <3> QED
      BY <3>1, <1>s
  <2>2. CASE ~SimilarWordExists(f)
    <3>1. words' = words \cup {f}
      BY <1>e, <2>2 DEF Enter
    <3>2. f \in Closure!Missing
      BY <1>e, <2>2, <1>head, <1>set DEF Closure!Missing, Closure!Known, SimilarWordExists
    <3>3. UNCHANGED <<[netlist |-> netlist, interactive |-> interactive], typed, earlier, (phase = "done")>>
      BY <1>e DEF interactive
    <3> QED
      BY <1>e, <3>1, <3>2, <3>3 DEF Closure!Learn
  <2> QED
    BY <2>1, <2>2
<1>1. CASE TryPin
  <2>1. /\ init_words # <<>> /\ phase = "back" /\ phase' = "back" /\ UNCHANGED <<netlist, typed, earlier>>
        /\ GoesBack(w) /\ IsUniform(netlist, w) /\ pin \in 1..Len(netlist.inputs[w[1]])
    BY <1>1, <1>0 DEF TryPin, TypeOK
  <2>2. CASE GivesWord(netlist, w, pin)
    <3>1. pin \in DOMAIN netlist.inputs[w[1]]
      <4>1. w[1] \in Node
        BY <1>head, <2>1 DEF IsWord
      <4>2. netlist.inputs[w[1]] \in Seq(Node)
        BY <1>0, <4>1 DEF TypeOK, IsNetlist
      <4> QED
        BY <2>1, <4>2
    <3>2. BackWord(netlist, w, pin) \in Found(Setting, w)
      BY <2>1, <2>2, <3>1, <1>set DEF Found, GoesBack, Setting
    <3> QED
      BY <1>1, <1>e, <2>1, <2>2, <3>2 DEF TryPin, Closure!Next
  <2>3. CASE ~GivesWord(netlist, w, pin)
    BY <1>1, <1>s, <2>1, <2>3 DEF TryPin
  <2> QED
    BY <2>2, <2>3
<1>2. CASE Abort
  BY <1>2, <1>s DEF Abort
<1>3. CASE EndBack
  BY <1>3, <1>s DEF EndBack
<1>4. ASSUME NEW t \in Types, TryType(t) PROVE [Closure!Next]_(Closure!cvars)
  <2>1. /\ init_words # <<>> /\ phase = "forward" /\ phase' = "forward"
        /\ UNCHANGED <<netlist, typed, earlier>> /\ t \in types
    BY <1>4, <1>0 DEF TryType, TypeOK
  <2>2. CASE AllRead(netlist, w, t)
    <3>1. t \in FanoutTypes(netlist, w)
      BY <2>1 DEF IInv
    <3>2. ForwardWord(netlist, w, t) \in Found(Setting, w)
      BY <2>2, <3>1, <1>set DEF Found
    <3> QED
      BY <1>4, <1>e, <2>1, <2>2, <3>2 DEF TryType, Closure!Next
  <2>3. CASE ~AllRead(netlist, w, t)
    BY <1>4, <1>s, <2>1, <2>3 DEF TryType
  <2> QED
    BY <2>2, <2>3
<1>5. CASE EndWord
  BY <1>5, <1>s DEF EndWord
<1>6. CASE NextRound
  BY <1>6, <1>s DEF NextRound
<1>7. CASE End
  <2>1. /\ init_words = <<>> /\ new_words = <<>> /\ phase = "back" /\ phase' = "done"
        /\ UNCHANGED <<netlist, typed, earlier, words>>
    BY <1>7 DEF End
  <2>2. ASSUME NEW v \in (words \ earlier) \cup typed PROVE Treated(words, Setting, v)
    <3>1. Bits(<<>>) = {}
      BY DEF Bits
    <3> QED
      BY <1>0, <2>1, <3>1 DEF OnListOrTreated
  <2>3. Closure!Missing = {}
    BY <2>2, <1>set DEF Closure!Missing, Closure!Known, Treated, Sim
  <2>4. UNCHANGED <<[netlist |-> netlist, interactive |-> interactive], typed, earlier, words>>
    BY <2>1 DEF interactive
  <2> QED
    BY <2>1, <2>3, <2>4 DEF Closure!End, Closure!Next
<1>8. CASE UNCHANGED vars
  BY <1>8, <1>s DEF vars
<1> QED
  BY <1>1, <1>2, <1>3, <1>4, <1>5, <1>6, <1>7, <1>8 DEF Next

(* The rounds of propagate_words, over any netlist and from any words, are *)
(* a way to close the table, with nothing left at their end.               *)
THEOREM GrowthImplementsClosure == Spec => Implements
<1>1. Init => Closure!Init
  BY DEF Init, Closure!Init
<1>2. IInv /\ [Next]_vars => [Closure!Next]_(Closure!cvars)
  BY StepImplements
<1> QED
  BY <1>1, <1>2, Invariance, PTL DEF Spec, Implements, Closure!Spec
-----------------------------------------------------------------------------
(* Two words that the table takes for the same are permutations of each    *)
(* other: the test compares in one direction, but no bit repeats.          *)
LEMMA BitsCount ==
  ASSUME NEW v, IsWord(v)
  PROVE  IsFiniteSet(Bits(v)) /\ Cardinality(Bits(v)) = Len(v)
<1>1. v \in Seq(Node) /\ DOMAIN v = 1..Len(v) /\ Len(v) \in Nat
  BY DEF IsWord
<1>2. v \in [1..Len(v) -> Bits(v)] /\ \A n \in Bits(v) : \E k \in 1..Len(v) : v[k] = n
  BY <1>1 DEF Bits
<1>3. v \in Surjection(1..Len(v), Bits(v))
  BY <1>2 DEF Surjection
<1>4. v \in Injection(1..Len(v), Bits(v))
  BY <1>1, <1>2 DEF Injection, IsInjective, IsWord, Repeats
<1>5. IsFiniteSet(1..Len(v)) /\ Cardinality(1..Len(v)) = Len(v)
  BY <1>1, FS_Interval
<1> QED
  BY <1>3, <1>4, <1>5, FS_Surjection

LEMMA SameBitsArePermutations ==
  ASSUME NEW u, IsWord(u), NEW v, IsWord(v), SameBits(u, v)
  PROVE  Bits(u) = Bits(v)
BY BitsCount, FS_Subset DEF SameBits

(* `let's first deal with the inputs': what create_fwdprop_words leaves    *)
(* out, back-propagation of the word it makes finds in the next round.     *)
THEOREM InputsAreDealtWith == Spec => []InputsDealtWith
<1>1. ASSUME IInv PROVE InputsDealtWith
  <2> SUFFICES ASSUME phase = "done", ~interactive,
                      NEW v \in words, NEW t \in FanoutTypes(netlist, v),
                      AllRead(netlist, v, t),
                      Bits(ForwardWord(netlist, v, t)) \cap netlist.macro = {},
                      NEW p \in DOMAIN netlist.inputs[ForwardWord(netlist, v, t)[1]],
                      GivesWord(netlist, ForwardWord(netlist, v, t), p)
               PROVE  SimilarWordExists(BackWord(netlist, ForwardWord(netlist, v, t), p))
    BY DEF InputsDealtWith
  <2> DEFINE f == ForwardWord(netlist, v, t)
  <2>1. /\ IsNetlist(netlist) /\ \A x \in words : IsWord(x)
        /\ \A x \in words : Treated(words, Setting, x)
    <3>1. Bits(<<>>) = {}
      BY DEF Bits
    <3> QED
      BY <1>1, <3>1 DEF IInv, TypeOK, OnListOrTreated
  <2>2. t \in Types
    BY DEF FanoutTypes
  <2>3. IsWord(f) /\ DOMAIN f = DOMAIN v /\ \A k \in DOMAIN f : netlist.type[f[k]] = t
    <3>1. v \in Seq(Node)
      BY <2>1 DEF IsWord
    <3>2. \A k \in DOMAIN v : netlist.type[netlist.first[v[k]][t]] = t
      BY <2>1, <2>2, <3>1 DEF AllRead, ReadersOf, IsNetlist
    <3> QED
      BY <2>1, <2>2, <3>2, ForwardWordIsWord DEF ForwardWord
  <2>4. PICK u \in words : SameBits(u, f)
    <3>1. f \in Found(Setting, v)
      BY SettingIs DEF Found
    <3> QED
      BY <2>1, <3>1 DEF Treated, Sim
  <2> HIDE DEF f
  <2>5. IsWord(u) /\ Bits(u) = Bits(f) /\ Len(u) = Len(f)
    BY <2>1, <2>3, <2>4, SameBitsArePermutations DEF SameBits
  <2>6. /\ u \in Seq(Node) /\ DOMAIN u = 1..Len(u) /\ Len(u) \in Nat /\ Len(u) # 0
        /\ f \in Seq(Node) /\ DOMAIN f = 1..Len(f) /\ Len(f) # 0
        /\ \A k \in DOMAIN u : u[k] \in Bits(f) /\ \E j \in DOMAIN f : u[k] = f[j]
        /\ \A k \in DOMAIN f : f[k] \in Bits(f) /\ \E j \in DOMAIN u : f[k] = u[j]
    <3>1. /\ u \in Seq(Node) /\ DOMAIN u = 1..Len(u) /\ Len(u) \in Nat /\ Len(u) # 0
          /\ f \in Seq(Node) /\ DOMAIN f = 1..Len(f) /\ Len(f) # 0
      BY <2>3, <2>5 DEF IsWord
    <3>2. ASSUME NEW k \in DOMAIN u PROVE u[k] \in Bits(f) /\ \E j \in DOMAIN f : u[k] = f[j]
      <4>1. u[k] \in Bits(u)
        BY DEF Bits
      <4> QED
        BY <2>5, <4>1 DEF Bits
    <3>3. ASSUME NEW k \in DOMAIN f PROVE f[k] \in Bits(f) /\ \E j \in DOMAIN u : f[k] = u[j]
      <4>1. f[k] \in Bits(f)
        BY DEF Bits
      <4> QED
        BY <2>5, <4>1 DEF Bits
    <3> QED
      BY <3>1, <3>2, <3>3
  <2>7. \A n, m \in Bits(f) : netlist.type[n] = t /\ Len(netlist.inputs[n]) = Len(netlist.inputs[m])
    <3>1. ASSUME NEW n \in Bits(f) PROVE n \in Node /\ netlist.type[n] = t
      <4>1. PICK k \in DOMAIN f : n = f[k]
        BY DEF Bits
      <4> QED
        BY <2>3, <2>6, <4>1
    <3>2. t # NoType
      BY <2>2, TypesAssumption
    <3> QED
      BY <2>1, <3>1, <3>2 DEF IsNetlist
  <2>8. BackApplies(Setting, u)
    <3>1. 1 \in DOMAIN u
      BY <2>6
    <3>2. IsUniform(netlist, u)
      BY <2>6, <2>7, <3>1 DEF IsUniform
    <3>3. Bits(u) \cap netlist.macro = {}
      BY <2>5 DEF f
    <3>4. CanPropagateBack(netlist, u)
      BY <2>6, <2>7, <3>3 DEF CanPropagateBack
    <3> QED
      BY <3>2, <3>4, SettingIs DEF GoesBack
  <2>9. p \in DOMAIN netlist.inputs[u[1]]
    <3>1. u[1] \in Bits(f) /\ f[1] \in Bits(f) /\ u[1] \in Node /\ f[1] \in Node
      BY <2>6
    <3>2. Len(netlist.inputs[u[1]]) = Len(netlist.inputs[f[1]])
      BY <2>7, <3>1
    <3>3. netlist.inputs[u[1]] \in Seq(Node) /\ netlist.inputs[f[1]] \in Seq(Node)
      BY <2>1, <3>1 DEF IsNetlist
    <3> QED
      BY <3>2, <3>3 DEF f
  <2>10. GivesWord(netlist, u, p)
    <3>1. 1 \in DOMAIN u /\ 1 \in DOMAIN f
      BY <2>6
    <3>2. netlist.type[u[1]] = t /\ netlist.type[f[1]] = t
      BY <2>6, <2>7, <3>1
    <3>3. ASSUME NEW i \in DOMAIN u, NEW j \in DOMAIN u,
                 netlist.inputs[u[i]][p] = netlist.inputs[u[j]][p]
          PROVE  i = j
      <4>1. PICK a \in DOMAIN f, b \in DOMAIN f : u[i] = f[a] /\ u[j] = f[b]
        BY <2>6
      <4>2. a = b
        BY <3>3, <4>1 DEF GivesWord, f
      <4> QED
        BY <2>5, <4>1, <4>2 DEF IsWord, Repeats
    <3> QED
      BY <3>2, <3>3 DEF GivesWord, f
  <2>11. PICK x \in words : SameBits(x, BackWord(netlist, u, p))
    <3>1. BackWord(netlist, u, p) \in Found(Setting, u)
      BY <2>8, <2>9, <2>10, SettingIs DEF Found, BackApplies
    <3> QED
      BY <2>1, <3>1 DEF Treated, Sim
  <2>12. SameBits(x, BackWord(netlist, f, p))
    <3> DEFINE bu == BackWord(netlist, u, p)
               bf == BackWord(netlist, f, p)
    <3>1. bu = [k \in 1..Len(u) |-> netlist.inputs[u[k]][p]] /\ bf = [k \in 1..Len(f) |-> netlist.inputs[f[k]][p]]
      BY <2>6 DEF BackWord
    <3>2. Len(bu) = Len(u) /\ Len(bf) = Len(f)
      BY <2>5, <2>6, <3>1
    <3>3. Bits(bf) \subseteq Bits(bu)
      <4> SUFFICES ASSUME NEW k \in DOMAIN bf PROVE bf[k] \in Bits(bu)
        BY DEF Bits
      <4>1. PICK j \in DOMAIN u : f[k] = u[j]
        BY <2>6, <3>1
      <4>2. j \in DOMAIN bu /\ bu[j] = bf[k]
        BY <2>6, <3>1, <4>1
      <4> QED
        BY <4>2 DEF Bits
    <3> HIDE DEF bu, bf
    <3>4. SameBits(x, bu)
      BY <2>11 DEF bu
    <3>5. SameBits(x, bf)
      BY <2>5, <3>2, <3>3, <3>4 DEF SameBits
    <3> QED
      BY <3>5 DEF bf
  <2> QED
    BY <2>12 DEF SimilarWordExists, f
<1> QED
  BY <1>1, Invariance, PTL
=============================================================================
