---------------------------- MODULE KCoverProofs ----------------------------
(* Theorems about the enumeration of covers (KCover), for every netlist    *)
(* and every kcoverSize and kcoverTh.                                      *)
EXTENDS KCover, TLAPS, FiniteSetTheorems, WellFoundedInduction

(* What is true of every cover that is kept.                               *)
GoodCover(n, c) ==
  /\ c.leaves \subseteq 1..n
  /\ Cone(n, c.leaves) \subseteq Gate
  /\ Met(n, c.leaves) = c.leaves
  /\ c.internals # {} => c.internals = Cone(n, c.leaves)

CoversAreGood == \A n \in Node : \A i \in DOMAIN kcovers[n] : GoodCover(n, kcovers[n][i])

(* A gate has no covers before its turn, and while it has its turn none    *)
(* of which it is a leaf.                                                  *)
InTurn ==
  \A n \in Gate :
    /\ n > gate => kcovers[n] = <<>>
    /\ n = gate =>
         /\ stack = <<>> => kcovers[n] = <<>>
         /\ \A i \in DOMAIN kcovers[n] : kcovers[n][i].leaves \subseteq 1..(n - 1)

(* k_inputs has the inputs of the gate, in some order.                     *)
InputsTaken ==
  stack # <<>> =>
    /\ gate \in Gate
    /\ Len(stack) <= Len(k_inputs) + 1
    /\ Len(k_inputs) > 0
    /\ \A j \in DOMAIN k_inputs : k_inputs[j] \in Fanin(gate)
    /\ \A m \in Fanin(gate) : \E j \in DOMAIN k_inputs : k_inputs[j] = m

(* The leaves of a merge are those of its parents, one for every input     *)
(* passed so far.                                                          *)
MergedFrom(f, d) ==
  /\ \A p \in f.parents : p[1] \in Fanin(gate) /\ p[2] \in DOMAIN kcovers[p[1]]
  /\ f.leaves = UNION {CoverAt(p).leaves : p \in f.parents}
  /\ \A j \in 1..(d - 1) : \E p \in f.parents : p[1] = k_inputs[j]
FramesAreMerges == \A d \in DOMAIN stack : MergedFrom(stack[d], d)

IInv ==
  /\ TypeOK
  /\ CoversAreGood
  /\ CoversAreDistinct
  /\ InTurn
  /\ InputsTaken
  /\ FramesAreMerges
-----------------------------------------------------------------------------
(* The order of the places is well-founded.                                *)
LEMMA LessThanWellFounded ==
  IsWellFoundedOn({p \in Nat \X Nat : p[1] < p[2]}, Nat)
BY NatLessThanWellFounded DEF OpToRel

(* A set of numbers has a least one.                                       *)
LEMMA LeastNat ==
  ASSUME NEW T \in SUBSET Nat, T # {}
  PROVE  \E x \in T : \A y \in T : x <= y
<1> DEFINE R == {p \in Nat \X Nat : p[1] < p[2]}
<1>1. IsWellFoundedOn(R, Nat)
  BY LessThanWellFounded
<1>2. \E x \in T : \A y \in T : ~(<<y, x>> \in R)
  <2> HIDE DEF R
  <2> QED BY <1>1, WFMin
<1>3. PICK x \in T : \A y \in T : ~(<<y, x>> \in R)
  BY <1>2
<1>4. ASSUME NEW y \in T PROVE x <= y
  <2>1. x \in Nat /\ y \in Nat
    OBVIOUS
  <2>2. <<y, x>> \notin {p \in Nat \X Nat : p[1] < p[2]}
    BY <1>3
  <2>3. ~(y < x)
    BY <2>1, <2>2
  <2> QED BY <2>1, <2>3
<1> QED BY <1>4

(* The internals are closed themselves, being what all closed sets share.  *)
LEMMA ConeIsClosed ==
  ASSUME IsNetlist(inputs), NEW n \in Node, NEW L \in SUBSET Node
  PROVE  Cone(n, L) \in Closed(n, L)
<1>1. Above(n, L) \in Closed(n, L)
  BY NumNodesAssumption DEF Above, Closed, Fanin, IsNetlist, Node
<1>2. n \notin L => n \in Cone(n, L)
  BY NumNodesAssumption DEF Above, Closed, Cone, Node
<1>3. ASSUME NEW m \in Cone(n, L)  PROVE Fanin(m) \subseteq L \cup Cone(n, L)
  <2> SUFFICES ASSUME NEW x \in Fanin(m), x \notin L  PROVE x \in Cone(n, L)
    OBVIOUS
  <2>1. x \in Above(n, L)
    BY <1>1, <1>3 DEF Closed, Cone
  <2>2. \A S \in Closed(n, L) : x \in S
    BY <1>3 DEF Closed, Cone
  <2> QED BY <2>1, <2>2 DEF Cone
<1>4. Cone(n, L) \subseteq Above(n, L)
  BY DEF Cone
<1> QED BY <1>2, <1>3, <1>4 DEF Closed

(* No closed set is smaller.                                               *)
LEMMA ConeIsLeast ==
  ASSUME NEW n \in Node, NEW L \in SUBSET Node, NEW S \in Closed(n, L)
  PROVE  Cone(n, L) \subseteq S
BY DEF Cone

(* What is inside has inputs, and they cannot all be inside.               *)
LEMMA NoEmptyCut ==
  ASSUME IsNetlist(inputs), NEW n \in Node, Cone(n, {}) \subseteq Gate
  PROVE  FALSE
<1>1. Cone(n, {}) \in Closed(n, {})
  BY ConeIsClosed
<1>2. n \in Cone(n, {}) /\ Cone(n, {}) \subseteq 1..n
  BY <1>1 DEF Closed, Above
<1>3. PICK x \in Cone(n, {}) : \A y \in Cone(n, {}) : x <= y
  <2>1. Cone(n, {}) \in SUBSET Nat /\ Cone(n, {}) # {}
    BY <1>2
  <2> QED BY <2>1, LeastNat
<1>4. x \in Node /\ inputs[x] # <<>> /\ inputs[x] \in Seq(Node)
  BY DEF Gate, IsNetlist
<1>5. inputs[x][1] \in Fanin(x) /\ inputs[x][1] < x
  BY <1>4 DEF Fanin, IsNetlist, Node
<1>6. inputs[x][1] \in Cone(n, {})
  BY <1>1, <1>5 DEF Closed
<1> QED BY <1>3, <1>5, <1>6, <1>2

(* The trivial cover, the node itself.                                     *)
LEMMA ItselfIsGood ==
  ASSUME IsNetlist(inputs), NEW n \in Node
  PROVE  GoodCover(n, Itself(n))
<1>1. {} \in Closed(n, {n})
  BY DEF Closed, Above
<1>2. Cone(n, {n}) = {}
  BY <1>1, ConeIsLeast
<1>3. n \in 1..n
  BY NumNodesAssumption DEF Node
<1>4. Met(n, {n}) = {n}
  BY DEF Met
<1> QED BY <1>2, <1>3, <1>4 DEF GoodCover, Itself

(* So Internals are the internals of a cover, cached or not.               *)
LEMMA InternalsAreCone ==
  ASSUME IsNetlist(inputs), NEW n \in Node, NEW c \in Cover, GoodCover(n, c)
  PROVE  Internals(n, c) = Cone(n, c.leaves)
<1>1. CASE c.internals # {}
  BY <1>1 DEF Internals, GoodCover
<1>2. CASE c.internals = {}
  <2>1. c.leaves # {}
    BY NoEmptyCut DEF GoodCover
  <2> QED BY <1>2, <2>1 DEF Internals
<1> QED BY <1>1, <1>2
-----------------------------------------------------------------------------
(* The step that matters: what prune leaves of a complete merge is again a *)
(* good cover.                                                             *)
Complete(f) ==
  /\ \A p \in f.parents : p[1] \in Fanin(gate) /\ p[2] \in DOMAIN kcovers[p[1]]
  /\ f.leaves = UNION {CoverAt(p).leaves : p \in f.parents}
  /\ \A m \in Fanin(gate) : \E p \in f.parents : p[1] = m

(* The facts about a parent that the lemmas below use.                    *)
LEMMA ParentsAreGood ==
  ASSUME TypeOK, CoversAreGood, gate \in Gate, NEW f \in Frame, Complete(f),
         NEW p \in f.parents
  PROVE  /\ p[1] \in Node /\ p[1] < gate
         /\ CoverAt(p).leaves \in SUBSET Node
         /\ CoverAt(p).leaves \subseteq f.leaves
         /\ CoverAt(p).leaves \subseteq 1..p[1]
         /\ Internals(p[1], CoverAt(p)) = Cone(p[1], CoverAt(p).leaves)
         /\ Cone(p[1], CoverAt(p).leaves) \subseteq Gate
         /\ Cone(p[1], CoverAt(p).leaves) \in Closed(p[1], CoverAt(p).leaves)
         /\ Met(p[1], CoverAt(p).leaves) = CoverAt(p).leaves
<1>1. p[1] \in Fanin(gate) /\ p[2] \in DOMAIN kcovers[p[1]]
  BY DEF Complete
<1>2. p[1] \in Node /\ p[1] < gate
  BY <1>1 DEF TypeOK, IsNetlist, Fanin, Gate
<1>3. CoverAt(p) \in Cover
  <2>1. kcovers[p[1]] \in Seq(Cover)
    BY <1>2 DEF TypeOK
  <2> QED BY <2>1, <1>1 DEF CoverAt
<1>4. GoodCover(p[1], CoverAt(p))
  BY <1>1, <1>2 DEF CoversAreGood, CoverAt
<1>5. CoverAt(p).leaves \in SUBSET Node
  BY <1>3 DEF Cover
<1>6. IsNetlist(inputs)
  BY DEF TypeOK
<1>7. Internals(p[1], CoverAt(p)) = Cone(p[1], CoverAt(p).leaves)
  BY <1>2, <1>3, <1>4, <1>6, InternalsAreCone
<1>8. Cone(p[1], CoverAt(p).leaves) \in Closed(p[1], CoverAt(p).leaves)
  BY <1>2, <1>5, <1>6, ConeIsClosed
<1>9. CoverAt(p).leaves \subseteq f.leaves
  BY DEF Complete
<1> QED BY <1>2, <1>4, <1>5, <1>7, <1>8, <1>9 DEF GoodCover

(* What prune collects is what the leaves that remain enclose.             *)
LEMMA InsideIsCone ==
  ASSUME TypeOK, CoversAreGood, gate \in Gate, NEW f \in Frame, Complete(f)
  PROVE  /\ Inside(f) \subseteq Gate
         /\ Inside(f) \subseteq 1..gate
         /\ gate \in Inside(f)
         /\ \A n \in Inside(f) : Fanin(n) \subseteq f.leaves \cup Inside(f)
         /\ Cone(gate, f.leaves \ Inside(f)) = Inside(f)
<1> DEFINE I == Inside(f)
           C(p) == Cone(p[1], CoverAt(p).leaves)
           R == f.leaves \ I
<1>1. \A p \in f.parents : Internals(p[1], CoverAt(p)) = C(p)
  BY ParentsAreGood
<1>2. /\ gate \in I
      /\ \A p \in f.parents : C(p) \subseteq I
      /\ \A n \in I : n = gate \/ \E p \in f.parents : n \in C(p)
  BY <1>1 DEF Inside
<1>3. gate \in Node
  BY DEF Gate
<1>4. I \subseteq Gate
  BY <1>2, ParentsAreGood
<1>5. I \subseteq 1..gate
  <2>0. gate \in 1..gate
    BY <1>3, NumNodesAssumption DEF Node
  <2> SUFFICES ASSUME NEW p \in f.parents, NEW n \in C(p)  PROVE n \in 1..gate
    <3> HIDE DEF I, C
    <3> QED BY <1>2, <2>0
  <2>1. n \in 1..p[1] /\ p[1] < gate /\ p[1] \in Node
    BY ParentsAreGood DEF Closed, Above
  <2> QED BY <2>1, <1>3 DEF Node
<1>6. ASSUME NEW n \in I  PROVE Fanin(n) \subseteq f.leaves \cup I
  <2>1. CASE n = gate
    <3> SUFFICES ASSUME NEW m \in Fanin(gate)  PROVE m \in f.leaves \cup I
      BY <2>1
    <3>1. PICK p \in f.parents : p[1] = m
      BY DEF Complete
    <3>2. p[1] \in CoverAt(p).leaves \cup C(p) /\ CoverAt(p).leaves \subseteq f.leaves
      BY ParentsAreGood DEF Closed
    <3> QED BY <3>1, <3>2, <1>2
  <2>2. ASSUME NEW p \in f.parents, n \in C(p)  PROVE Fanin(n) \subseteq f.leaves \cup I
    <3>1. Fanin(n) \subseteq CoverAt(p).leaves \cup C(p) /\ CoverAt(p).leaves \subseteq f.leaves
      BY <2>2, ParentsAreGood DEF Closed
    <3> QED BY <3>1, <1>2
  <2> QED BY <2>1, <2>2, <1>2
<1>7. f.leaves \in SUBSET Node /\ R \in SUBSET Node
  BY DEF Frame
<1>8. I \in Closed(gate, R)
  BY <1>2, <1>5, <1>6 DEF Closed, Above
<1>9. ASSUME NEW S \in Closed(gate, R)  PROVE I \subseteq S
  <2>1. gate \in S
    BY <1>2 DEF Closed
  <2>2. ASSUME NEW p \in f.parents  PROVE C(p) \subseteq S
    <3> DEFINE T == S \cap C(p)
               L == CoverAt(p).leaves
    <3>1. C(p) \in Closed(p[1], L) /\ p[1] \in Node /\ L \in SUBSET Node
      BY ParentsAreGood
    <3>2. p[1] \in R \cup S
      BY <2>1, <1>9 DEF Complete, Closed
    <3>3. p[1] \in L \cup T
      BY <3>1, <3>2, <1>2 DEF Closed
    <3>4. ASSUME NEW n \in T  PROVE Fanin(n) \subseteq L \cup T
      <4>1. Fanin(n) \subseteq L \cup C(p)
        BY <3>1 DEF Closed
      <4>2. Fanin(n) \subseteq R \cup S
        BY <1>9 DEF Closed
      <4> QED BY <4>1, <4>2, <1>2
    <3>5. T \in Closed(p[1], L)
      BY <3>1, <3>3, <3>4 DEF Closed
    <3> QED BY <3>5, <3>1, ConeIsLeast
  <2> QED BY <2>1, <2>2, <1>2
<1>10. Cone(gate, R) = I
  <2>1. Cone(gate, R) \subseteq I
    BY <1>3, <1>7, <1>8, ConeIsLeast
  <2>2. Cone(gate, R) \in Closed(gate, R)
    BY <1>3, <1>7, ConeIsClosed DEF TypeOK
  <2> QED BY <2>1, <2>2, <1>9
<1> QED BY <1>2, <1>4, <1>5, <1>6, <1>10

(* So whatever prune does, the cover is good and the gate is not its leaf. *)
LEMMA MergeIsGood ==
  ASSUME TypeOK, CoversAreGood, gate \in Gate, NEW f \in Frame, Complete(f),
         NEW c \in Pruned(f)
  PROVE  c \in Cover /\ GoodCover(gate, c) /\ c.leaves \subseteq 1..(gate - 1)
<1> DEFINE I == Inside(f)
           R == f.leaves \ I
<1>1. /\ I \subseteq Gate /\ I \subseteq 1..gate /\ gate \in I
      /\ \A n \in I : Fanin(n) \subseteq f.leaves \cup I
      /\ Cone(gate, R) = I
  BY InsideIsCone
<1>2. gate \in Node /\ Gate \subseteq Node
  BY DEF Gate
<1>3. f.leaves \subseteq 1..(gate - 1)
  <2> SUFFICES ASSUME NEW p \in f.parents, NEW x \in CoverAt(p).leaves  PROVE x \in 1..(gate - 1)
    BY DEF Complete
  <2>1. x \in 1..p[1] /\ p[1] < gate /\ p[1] \in Node
    BY ParentsAreGood
  <2> QED BY <2>1, <1>2 DEF Node
<1>4. f.leaves \subseteq 1..gate
  BY <1>2, <1>3 DEF Node
<1>5. f.leaves \in SUBSET Node
  BY DEF Frame
<1>6. CASE c = [leaves |-> R, internals |-> I]
  <2>1. Met(gate, R) = R
    <3> SUFFICES ASSUME NEW x \in R  PROVE x \in {gate} \cup UNION {Fanin(n) : n \in I}
      BY <1>1 DEF Met
    <3>1. PICK p \in f.parents : x \in CoverAt(p).leaves
      BY DEF Complete
    <3>2. x = p[1] \/ \E n \in Cone(p[1], CoverAt(p).leaves) : x \in Fanin(n)
      BY <3>1, ParentsAreGood DEF Met
    <3>3. Cone(p[1], CoverAt(p).leaves) \subseteq I
      BY ParentsAreGood DEF Inside
    <3>4. p[1] \in Fanin(gate)
      BY DEF Complete
    <3> QED BY <3>2, <3>3, <3>4, <1>1
  <2>2. c \in Cover
    BY <1>6, <1>1, <1>2, <1>5 DEF Cover
  <2>3. GoodCover(gate, c)
    BY <1>6, <1>1, <1>4, <2>1 DEF GoodCover
  <2> QED BY <2>2, <2>3, <1>3, <1>6
<1>7. CASE c = [leaves |-> f.leaves, internals |-> {}] /\ Met(gate, f.leaves) = f.leaves
  <2>1. I \ f.leaves \in Closed(gate, f.leaves)
    BY <1>1 DEF Closed, Above
  <2>2. Cone(gate, f.leaves) \subseteq I
    BY <2>1, <1>2, <1>5, ConeIsLeast
  <2>3. GoodCover(gate, c)
    BY <1>7, <1>1, <1>4, <2>2 DEF GoodCover
  <2> QED BY <2>3, <1>3, <1>5, <1>7 DEF Cover
<1> QED BY <1>6, <1>7 DEF Pruned
-----------------------------------------------------------------------------
(* A loop of compute_covers takes its next cover.                          *)
LEMMA Stepped ==
  ASSUME NEW s \in Seq(Frame), NEW d \in 1..Len(s)
  PROVE  LET t == [s EXCEPT ![d].next = @ + 1]
         IN  /\ t \in Seq(Frame)
             /\ Len(t) = Len(s)
             /\ \A i \in 1..Len(s) : t[i].leaves = s[i].leaves /\ t[i].parents = s[i].parents
<1> DEFINE t == [s EXCEPT ![d].next = @ + 1]
<1>1. s[d] \in Frame
  OBVIOUS
<1>2. [s[d] EXCEPT !.next = @ + 1] \in Frame
  <2>1. /\ s[d].leaves \in SUBSET Node
        /\ s[d].parents \in SUBSET (Node \X Nat)
        /\ s[d].next + 1 \in Nat
    BY <1>1 DEF Frame
  <2>2. [s[d] EXCEPT !.next = @ + 1] =
          [leaves |-> s[d].leaves, parents |-> s[d].parents, next |-> s[d].next + 1]
    BY <1>1 DEF Frame
  <2> QED BY <2>1, <2>2 DEF Frame
<1>3. t = [s EXCEPT ![d] = [s[d] EXCEPT !.next = @ + 1]]
  OBVIOUS
<1>4. t \in Seq(Frame) /\ Len(t) = Len(s)
  BY <1>2, <1>3
<1>5. \A i \in 1..Len(s) : t[i] = IF i = d THEN [s[d] EXCEPT !.next = @ + 1] ELSE s[i]
  BY <1>3
<1>6. \A i \in 1..Len(s) : t[i].leaves = s[i].leaves /\ t[i].parents = s[i].parents
  BY <1>5, <1>1 DEF Frame
<1> QED BY <1>4, <1>6

(* The invariant holds of the sources' covers.                             *)
THEOREM Initially == Init => IInv
<1> SUFFICES ASSUME Init PROVE IInv
  OBVIOUS
<1>1. IsNetlist(inputs)
  BY NetlistsAssumption DEF Init
<1>2. \A n \in Node : Itself(n) \in Cover
  BY DEF Itself, Cover
<1>3. kcovers \in [Node -> Seq(Cover)]
  <2>1. <<>> \in Seq(Cover) /\ \A n \in Node : <<Itself(n)>> \in Seq(Cover)
    BY <1>2
  <2> QED BY <2>1 DEF Init
<1>4. TypeOK
  BY <1>1, <1>3, NumNodesAssumption DEF Init, TypeOK
<1>5. ASSUME NEW n \in Node PROVE GoodCover(n, Itself(n))
  BY <1>1, ItselfIsGood
<1>6. ASSUME NEW n \in Node, NEW i \in DOMAIN kcovers[n]
      PROVE  kcovers[n][i] = Itself(n) /\ i = 1
  BY DEF Init
<1>7. CoversAreGood
  BY <1>5, <1>6 DEF CoversAreGood
<1>8. CoversAreDistinct
  <2> SUFFICES ASSUME NEW n \in Node, NEW i \in DOMAIN kcovers[n], NEW j \in DOMAIN kcovers[n]
               PROVE  i = j /\ kcovers[n][i].leaves = {n}
    BY DEF CoversAreDistinct
  <2>1. i = 1 /\ j = 1
    BY <1>6
  <2>2. kcovers[n][i] = Itself(n)
    BY <1>6
  <2> QED BY <2>1, <2>2 DEF Itself
<1>9. InTurn
  BY DEF InTurn, Init, Gate
<1>10. InputsTaken /\ FramesAreMerges
  BY DEF InputsTaken, FramesAreMerges, Init
<1> QED BY <1>4, <1>7, <1>8, <1>9, <1>10 DEF IInv

(* The steps that only move in the stack leave the covers alone.           *)
LEMMA FixedInputs ==
  ASSUME UNCHANGED inputs
  PROVE  /\ Gate' = Gate
         /\ \A n : Fanin(n)' = Fanin(n)
         /\ \A n, L : Cone(n, L)' = Cone(n, L)
         /\ \A n, L : Met(n, L)' = Met(n, L)
         /\ \A n, c : GoodCover(n, c)' = GoodCover(n, c)
<1>1. \A n, L : Closed(n, L)' = Closed(n, L)
  BY DEF Closed, Fanin
<1>2. \A n, L : Cone(n, L)' = Cone(n, L)
  BY <1>1 DEF Cone
<1>3. Gate' = Gate /\ \A n : Fanin(n)' = Fanin(n)
  BY DEF Gate, Fanin
<1>4. \A n, L : Met(n, L)' = Met(n, L)
  BY <1>2, <1>3 DEF Met
<1> QED BY <1>2, <1>3, <1>4 DEF GoodCover

(* The covers that do not change stay good and distinct.                   *)
LEMMA SameCovers ==
  ASSUME UNCHANGED <<inputs, kcovers>>
  PROVE  /\ CoversAreGood => CoversAreGood'
         /\ CoversAreDistinct => CoversAreDistinct'
         /\ \A p : CoverAt(p)' = CoverAt(p)
BY FixedInputs DEF CoversAreGood, CoversAreDistinct, CoverAt

(* Whatever order the sort leaves, k_inputs has all the inputs and no other.*)
LEMMA SortedAreInputs ==
  ASSUME IsNetlist(inputs), NEW n \in Gate, NEW k \in SortedInputs(n)
  PROVE  /\ k \in Seq(Node) /\ Len(k) > 0
         /\ \A j \in DOMAIN k : k[j] \in Fanin(n)
         /\ \A m \in Fanin(n) : \E j \in DOMAIN k : k[j] = m
<1> DEFINE len == Len(inputs[n])
<1>1. inputs[n] \in Seq(Node) /\ len \in Nat /\ len > 0 /\ DOMAIN inputs[n] = 1..len
  BY DEF Gate, IsNetlist
<1>2. PICK b \in Orders(len) : k = [j \in 1..len |-> inputs[n][b[j]]]
  BY DEF SortedInputs
<1>3. /\ \A j \in 1..len : b[j] \in 1..len
      /\ \A i \in 1..len : \E j \in 1..len : b[j] = i
  BY <1>2 DEF Orders
<1>4. \A j \in 1..len : k[j] = inputs[n][b[j]] /\ k[j] \in Node
  <2>1. \A j \in 1..len : k[j] = inputs[n][b[j]]
    BY <1>2
  <2>2. \A m \in 1..len : inputs[n][m] \in Node
    BY <1>1
  <2> HIDE DEF len
  <2> QED
    BY <1>3, <2>1, <2>2
<1>5. k \in Seq(Node) /\ Len(k) = len /\ DOMAIN k = 1..len
  <2>1. k \in [1..len -> Node]
    BY <1>2, <1>4
  <2> HIDE DEF len
  <2> QED BY <1>1, <2>1
<1>6. \A j \in 1..len : k[j] \in Fanin(n)
  BY <1>1, <1>3, <1>4 DEF Fanin
<1>7. ASSUME NEW m \in Fanin(n)  PROVE \E j \in 1..len : k[j] = m
  <2>1. PICK i \in 1..len : m = inputs[n][i]
    BY <1>1 DEF Fanin
  <2>2. PICK j \in 1..len : b[j] = i
    BY <1>3
  <2> QED BY <2>1, <2>2, <1>4
<1> QED BY <1>1, <1>5, <1>6, <1>7

(* The steps, one by one.                                                  *)
LEMMA PassOverSourceKeeps ==
  ASSUME IInv, PassOverSource  PROVE IInv'
<1> USE DEF PassOverSource
<1>1. TypeOK'
  BY NumNodesAssumption DEF IInv, TypeOK, Node, IsNetlist
<1>2. CoversAreGood' /\ CoversAreDistinct'
  BY SameCovers DEF IInv
<1>3. InTurn'
  <2>1. ASSUME NEW n \in Gate, n > gate' \/ n = gate'
        PROVE  kcovers'[n] = <<>>
    <3>1. n > gate
      BY <2>1, NumNodesAssumption DEF Gate, Node
    <3> QED BY <3>1 DEF IInv, InTurn
  <2> QED BY <2>1, FixedInputs DEF InTurn
<1>4. InputsTaken' /\ FramesAreMerges'
  BY DEF InputsTaken, FramesAreMerges
<1> QED BY <1>1, <1>2, <1>3, <1>4 DEF IInv

(* A first frame without parents.                                          *)
LEMMA TakeGateKeeps ==
  ASSUME IInv, TakeGate  PROVE IInv'
<1> USE DEF TakeGate
<1>1. k_inputs' \in Seq(Node) /\ Len(k_inputs') > 0
  BY SortedAreInputs DEF IInv, TypeOK
<1>2. /\ \A j \in DOMAIN k_inputs' : k_inputs'[j] \in Fanin(gate)
      /\ \A m \in Fanin(gate) : \E j \in DOMAIN k_inputs' : k_inputs'[j] = m
  BY SortedAreInputs DEF IInv, TypeOK
<1>3. [leaves |-> {}, parents |-> {}, next |-> 1] \in Frame
  BY DEF Frame
<1>4. stack' \in Seq(Frame) /\ Len(stack') = 1 /\ stack'[1] = [leaves |-> {}, parents |-> {}, next |-> 1]
  BY <1>3
<1>5. TypeOK'
  BY <1>1, <1>4 DEF IInv, TypeOK, IsNetlist
<1>6. CoversAreGood' /\ CoversAreDistinct'
  BY SameCovers DEF IInv
<1>7. InTurn'
  BY FixedInputs DEF IInv, InTurn
<1>8. InputsTaken'
  BY <1>1, <1>2, <1>4, FixedInputs DEF InputsTaken
<1>9. FramesAreMerges'
  BY <1>4 DEF FramesAreMerges, MergedFrom
<1> QED BY <1>5, <1>6, <1>7, <1>8, <1>9 DEF IInv

(* It is enough that the frames are merges of the covers as they were.     *)
LEMMA SameMerges ==
  ASSUME UNCHANGED <<inputs, kcovers, gate, k_inputs>>,
         \A d \in DOMAIN stack' : MergedFrom(stack'[d], d)
  PROVE  FramesAreMerges'
BY FixedInputs DEF FramesAreMerges, MergedFrom, CoverAt

(* The new frame has one more parent, for the input of its depth.          *)
LEMMA MergeNextKeeps ==
  ASSUME IInv, MergeNext  PROVE IInv'
<1> DEFINE inp == k_inputs[depth]
           leaves == top.leaves \cup kcovers[inp][top.next].leaves
           s == [stack EXCEPT ![depth].next = @ + 1]
           f == [leaves |-> leaves, parents |-> top.parents \cup {<<inp, top.next>>}, next |-> 1]
<1>1. /\ depth \in DOMAIN k_inputs /\ top.next \in DOMAIN kcovers[inp]
      /\ stack' = Append(s, f)
      /\ UNCHANGED <<inputs, kcovers, gate, k_inputs>>
  BY DEF MergeNext, AtInput
<1>2. /\ stack \in Seq(Frame) /\ k_inputs \in Seq(Node) /\ depth \in Nat /\ depth > 0
      /\ DOMAIN k_inputs = 1..Len(k_inputs) /\ depth <= Len(k_inputs)
  BY <1>1 DEF IInv, TypeOK, depth
<1>3. stack # <<>> /\ depth \in 1..Len(stack) /\ top \in Frame
  BY <1>2 DEF depth, top
<1>4. /\ s \in Seq(Frame) /\ Len(s) = Len(stack)
      /\ \A i \in 1..Len(stack) : s[i].leaves = stack[i].leaves /\ s[i].parents = stack[i].parents
  BY <1>2, <1>3, Stepped
<1>5. inp \in Node /\ inp \in Fanin(gate) /\ kcovers[inp] \in Seq(Cover)
  BY <1>1, <1>2, <1>3 DEF IInv, InputsTaken, TypeOK
<1>6. f \in Frame
  <2>1. top.next \in Nat /\ top.leaves \in SUBSET Node /\ top.parents \in SUBSET (Node \X Nat)
    BY <1>3 DEF Frame
  <2>2. kcovers[inp][top.next].leaves \in SUBSET Node
    <3>1. kcovers[inp][top.next] \in Cover
      BY <1>1, <1>5
    <3> QED BY <3>1 DEF Cover
  <2> QED BY <2>1, <2>2, <1>5 DEF Frame
<1> HIDE DEF inp, leaves, s, f
<1>7. /\ stack' \in Seq(Frame) /\ Len(stack') = depth + 1
      /\ \A i \in 1..depth : stack'[i] = s[i]
      /\ stack'[depth + 1] = f
  BY <1>1, <1>2, <1>4, <1>6 DEF depth
<1>8. TypeOK'
  BY <1>1, <1>7 DEF IInv, TypeOK, IsNetlist
<1>9. CoversAreGood' /\ CoversAreDistinct'
  BY <1>1, SameCovers DEF IInv
<1>10. stack' # <<>>
  BY <1>2, <1>7
<1>11. InTurn'
  BY <1>1, <1>3, <1>10, FixedInputs DEF IInv, InTurn
<1>12. InputsTaken'
  BY <1>1, <1>2, <1>3, <1>7, FixedInputs DEF IInv, InputsTaken
<1>13. MergedFrom(top, depth)
  BY <1>3 DEF IInv, FramesAreMerges, top
<1>14. MergedFrom(f, depth + 1)
  <2>1. f.leaves = leaves /\ f.parents = top.parents \cup {<<inp, top.next>>}
    BY DEF f
  <2>2. CoverAt(<<inp, top.next>>).leaves \cup top.leaves = leaves
    BY DEF CoverAt, leaves
  <2>3. \A p \in f.parents : p[1] \in Fanin(gate) /\ p[2] \in DOMAIN kcovers[p[1]]
    BY <2>1, <1>1, <1>5, <1>13 DEF MergedFrom
  <2>4. f.leaves = UNION {CoverAt(p).leaves : p \in f.parents}
    BY <2>1, <2>2, <1>13 DEF MergedFrom
  <2>5. \A j \in 1..depth : \E p \in f.parents : p[1] = k_inputs[j]
    <3> SUFFICES ASSUME NEW j \in 1..depth  PROVE \E p \in f.parents : p[1] = k_inputs[j]
      OBVIOUS
    <3>1. CASE j = depth
      <4>1. <<inp, top.next>> \in f.parents /\ <<inp, top.next>>[1] = k_inputs[j]
        BY <2>1, <3>1 DEF inp
      <4> QED BY <4>1
    <3>2. CASE j \in 1..(depth - 1)
      BY <3>2, <2>1, <1>13 DEF MergedFrom
    <3> QED BY <3>1, <3>2, <1>2
  <2>6. (depth + 1) - 1 = depth
    BY <1>2
  <2> QED BY <2>3, <2>4, <2>5, <2>6 DEF MergedFrom
<1>15. ASSUME NEW d \in DOMAIN stack'  PROVE MergedFrom(stack'[d], d)
  <2>1. CASE d \in 1..depth
    <3>1. MergedFrom(stack[d], d)
      BY <2>1, <1>2 DEF IInv, FramesAreMerges, depth
    <3>2. stack'[d].leaves = stack[d].leaves /\ stack'[d].parents = stack[d].parents
      BY <2>1, <1>4, <1>7 DEF depth
    <3> QED BY <3>1, <3>2 DEF MergedFrom
  <2>2. CASE d = depth + 1
    BY <2>2, <1>7, <1>14
  <2> QED BY <2>1, <2>2, <1>2, <1>7
<1>16. FramesAreMerges'
  BY <1>1, <1>15, SameMerges
<1> QED BY <1>8, <1>9, <1>11, <1>12, <1>16 DEF IInv

(* Only the loop counter moves.                                            *)
LEMMA RefuseNextKeeps ==
  ASSUME IInv, RefuseNext  PROVE IInv'
<1>1. /\ depth \in DOMAIN k_inputs
      /\ stack' = [stack EXCEPT ![depth].next = @ + 1]
      /\ UNCHANGED <<inputs, kcovers, gate, k_inputs>>
  BY DEF RefuseNext, AtInput
<1>2. stack \in Seq(Frame) /\ depth \in 1..Len(stack) /\ stack # <<>>
  BY <1>1 DEF IInv, TypeOK, depth
<1>3. /\ stack' \in Seq(Frame) /\ Len(stack') = Len(stack)
      /\ \A i \in 1..Len(stack) : stack'[i].leaves = stack[i].leaves /\ stack'[i].parents = stack[i].parents
  BY <1>1, <1>2, Stepped
<1>4. stack' # <<>>
  BY <1>2, <1>3
<1>5. TypeOK'
  BY <1>1, <1>3 DEF IInv, TypeOK, IsNetlist
<1>6. CoversAreGood' /\ CoversAreDistinct'
  BY <1>1, SameCovers DEF IInv
<1>7. InTurn'
  BY <1>1, <1>2, <1>4, FixedInputs DEF IInv, InTurn
<1>8. InputsTaken'
  BY <1>1, <1>2, <1>3, FixedInputs DEF IInv, InputsTaken
<1>9. \A d \in DOMAIN stack' : MergedFrom(stack'[d], d)
  BY <1>2, <1>3 DEF IInv, FramesAreMerges, MergedFrom
<1>10. FramesAreMerges'
  BY <1>1, <1>9, SameMerges
<1> QED BY <1>5, <1>6, <1>7, <1>8, <1>10 DEF IInv

(* The last frame goes.                                                    *)
LEMMA ReturnKeeps ==
  ASSUME IInv, Return  PROVE IInv'
<1>1. /\ depth > 1 /\ stack' = SubSeq(stack, 1, depth - 1)
      /\ UNCHANGED <<inputs, kcovers, gate, k_inputs>>
  BY DEF Return
<1>2. stack \in Seq(Frame) /\ depth \in Nat /\ stack # <<>> /\ Len(stack) = depth
  BY <1>1 DEF IInv, TypeOK, depth
<1>3. /\ stack' \in Seq(Frame) /\ Len(stack') = depth - 1
      /\ \A i \in 1..(depth - 1) : stack'[i] = stack[i]
  BY <1>1, <1>2
<1>4. stack' # <<>>
  BY <1>1, <1>2, <1>3
<1>5. TypeOK'
  BY <1>1, <1>3 DEF IInv, TypeOK, IsNetlist
<1>6. CoversAreGood' /\ CoversAreDistinct'
  BY <1>1, SameCovers DEF IInv
<1>7. InTurn'
  BY <1>1, <1>2, <1>4, FixedInputs DEF IInv, InTurn
<1>8. InputsTaken'
  <2>1. Len(k_inputs) \in Nat
    BY DEF IInv, TypeOK
  <2> QED BY <2>1, <1>1, <1>2, <1>3, FixedInputs DEF IInv, InputsTaken
<1>9. \A d \in DOMAIN stack' : MergedFrom(stack'[d], d)
  BY <1>2, <1>3 DEF IInv, FramesAreMerges
<1>10. FramesAreMerges'
  BY <1>1, <1>9, SameMerges
<1> QED BY <1>5, <1>6, <1>7, <1>8, <1>10 DEF IInv

(* One more cover for the gate.                                            *)
LEMMA OneMore ==
  ASSUME TypeOK, CoversAreGood, CoversAreDistinct, gate \in Node, UNCHANGED inputs,
         NEW c \in Cover, GoodCover(gate, c),
         c.leaves = {gate} \/ Cardinality(c.leaves) <= kcoverSize,
         \A i \in DOMAIN kcovers[gate] : kcovers[gate][i].leaves # c.leaves,
         kcovers' = [kcovers EXCEPT ![gate] = Append(@, c)]
  PROVE  /\ kcovers' \in [Node -> Seq(Cover)]
         /\ \A n \in Node : n # gate => kcovers'[n] = kcovers[n]
         /\ \A i \in DOMAIN kcovers'[gate] :
              kcovers'[gate][i] = c \/ \E j \in DOMAIN kcovers[gate] : kcovers'[gate][i] = kcovers[gate][j]
         /\ CoversAreGood'
         /\ CoversAreDistinct'
<1> DEFINE old == kcovers[gate]
           new == kcovers'[gate]
<1>1. kcovers \in [Node -> Seq(Cover)] /\ old \in Seq(Cover)
  BY DEF TypeOK
<1>2. new = Append(old, c) /\ \A n \in Node : n # gate => kcovers'[n] = kcovers[n]
  BY <1>1
<1>3. /\ new \in Seq(Cover) /\ DOMAIN new = 1..(Len(old) + 1) /\ DOMAIN old = 1..Len(old)
      /\ new[Len(old) + 1] = c
      /\ \A i \in 1..Len(old) : new[i] = old[i]
  <2> HIDE DEF new, old
  <2> QED BY <1>1, <1>2
<1>4. kcovers' \in [Node -> Seq(Cover)]
  BY <1>1, <1>3
<1> HIDE DEF new, old
<1>5. \A i \in DOMAIN new : i = Len(old) + 1 \/ i \in DOMAIN old
  BY <1>1, <1>3
<1>6. \A i \in DOMAIN new : new[i] = c \/ \E j \in DOMAIN old : new[i] = old[j]
  BY <1>3, <1>5
<1>7. ASSUME NEW n \in Node, NEW i \in DOMAIN kcovers'[n]
      PROVE  GoodCover(n, kcovers'[n][i])
  <2>1. CASE n # gate
    BY <2>1, <1>2 DEF CoversAreGood
  <2>2. CASE n = gate
    <3>1. \A j \in DOMAIN old : GoodCover(gate, old[j])
      BY DEF CoversAreGood, old
    <3>2. i \in DOMAIN new /\ kcovers'[n][i] = new[i]
      BY <2>2 DEF new
    <3> QED BY <3>1, <3>2, <1>6, <2>2
  <2> QED BY <2>1, <2>2
<1>8. CoversAreGood'
  BY <1>7, FixedInputs DEF CoversAreGood, GoodCover
<1>9. /\ \A i, j \in DOMAIN old : old[i].leaves = old[j].leaves => i = j
      /\ \A i \in DOMAIN old : old[i].leaves = {gate} \/ Cardinality(old[i].leaves) <= kcoverSize
      /\ \A i \in DOMAIN old : old[i].leaves # c.leaves
  BY DEF CoversAreDistinct, old
<1>10. /\ \A i, j \in DOMAIN new : new[i].leaves = new[j].leaves => i = j
       /\ \A i \in DOMAIN new : new[i].leaves = {gate} \/ Cardinality(new[i].leaves) <= kcoverSize
  <2>1. /\ new[Len(old) + 1] = c
        /\ \A i \in DOMAIN old : new[i] = old[i]
    BY <1>3
  <2> QED BY <2>1, <1>5, <1>9
<1>11. CoversAreDistinct'
  <2> SUFFICES ASSUME NEW n \in Node
               PROVE  \A i, j \in DOMAIN kcovers'[n] :
                        /\ kcovers'[n][i].leaves = kcovers'[n][j].leaves => i = j
                        /\ kcovers'[n][i].leaves = {n} \/ Cardinality(kcovers'[n][i].leaves) <= kcoverSize
    BY DEF CoversAreDistinct
  <2>1. CASE n # gate
    BY <2>1, <1>2 DEF CoversAreDistinct
  <2>2. CASE n = gate
    BY <2>2, <1>10 DEF new
  <2> QED BY <2>1, <2>2
<1> QED BY <1>2, <1>4, <1>6, <1>8, <1>11 DEF new, old

(* The last frame is a complete merge; a new cover is good and new.        *)
LEMMA KeepKeeps ==
  ASSUME IInv, Keep  PROVE IInv'
<1>1. PICK c \in Pruned(top) :
        kcovers' = IF Cardinality(c.leaves) <= kcoverSize /\ ~IsDuplicate(c)
                   THEN [kcovers EXCEPT ![gate] = Append(@, c)] ELSE kcovers
  BY DEF Keep
<1>2. /\ stack # <<>> /\ depth = Len(k_inputs) + 1
      /\ stack' = SubSeq(stack, 1, depth - 1)
      /\ UNCHANGED <<inputs, gate, k_inputs>>
  BY DEF Keep
<1>3. /\ stack \in Seq(Frame) /\ k_inputs \in Seq(Node) /\ Len(k_inputs) > 0
      /\ depth \in Nat /\ depth > 1 /\ depth = Len(stack)
      /\ DOMAIN k_inputs = 1..(depth - 1)
  BY <1>2 DEF IInv, TypeOK, InputsTaken, depth
<1>4. top \in Frame /\ gate \in Gate /\ gate \in Node /\ MergedFrom(top, depth)
  BY <1>2, <1>3 DEF IInv, InputsTaken, FramesAreMerges, Gate, top
<1>5. Complete(top)
  <2>1. \A m \in Fanin(gate) : \E j \in 1..(depth - 1) : k_inputs[j] = m
    BY <1>2, <1>3 DEF IInv, InputsTaken
  <2> QED BY <2>1, <1>4 DEF MergedFrom, Complete
<1>6. c \in Cover /\ GoodCover(gate, c) /\ c.leaves \subseteq 1..(gate - 1)
  BY <1>4, <1>5, MergeIsGood DEF IInv
<1>7. /\ stack' \in Seq(Frame) /\ Len(stack') = depth - 1
      /\ \A i \in 1..(depth - 1) : stack'[i] = stack[i]
  BY <1>2, <1>3
<1>8. stack' # <<>>
  BY <1>3, <1>7
<1>9. /\ kcovers' \in [Node -> Seq(Cover)]
      /\ \A n \in Node : n # gate => kcovers'[n] = kcovers[n]
      /\ \A i \in DOMAIN kcovers'[gate] : kcovers'[gate][i].leaves \subseteq 1..(gate - 1)
      /\ CoversAreGood' /\ CoversAreDistinct'
  <2>1. \A i \in DOMAIN kcovers[gate] : kcovers[gate][i].leaves \subseteq 1..(gate - 1)
    BY <1>4 DEF IInv, InTurn
  <2>2. CASE kcovers' = kcovers
    BY <2>1, <2>2, <1>2, SameCovers DEF IInv, TypeOK
  <2>3. CASE /\ Cardinality(c.leaves) <= kcoverSize /\ ~IsDuplicate(c)
             /\ kcovers' = [kcovers EXCEPT ![gate] = Append(@, c)]
    <3>1. \A i \in DOMAIN kcovers[gate] : kcovers[gate][i].leaves # c.leaves
      BY <2>3 DEF IsDuplicate
    <3>2. /\ kcovers' \in [Node -> Seq(Cover)]
          /\ \A n \in Node : n # gate => kcovers'[n] = kcovers[n]
          /\ \A i \in DOMAIN kcovers'[gate] :
               kcovers'[gate][i] = c \/ \E j \in DOMAIN kcovers[gate] : kcovers'[gate][i] = kcovers[gate][j]
          /\ CoversAreGood' /\ CoversAreDistinct'
      BY <2>3, <3>1, <1>2, <1>4, <1>6, OneMore DEF IInv
    <3> QED BY <2>1, <3>2, <1>6
  <2> QED BY <1>1, <2>2, <2>3
<1>10. TypeOK'
  BY <1>2, <1>7, <1>9 DEF IInv, TypeOK, IsNetlist
<1>11. InTurn'
  <2>1. \A n \in Gate : n > gate => kcovers'[n] = <<>>
    BY <1>9, <1>4 DEF IInv, InTurn, Gate, Node
  <2> QED BY <2>1, <1>2, <1>8, <1>9, FixedInputs DEF InTurn
<1>12. InputsTaken'
  BY <1>2, <1>3, <1>7, FixedInputs DEF IInv, InputsTaken
<1>13. ASSUME NEW p, p[1] \in Fanin(gate)  PROVE kcovers'[p[1]] = kcovers[p[1]]
  <2>1. p[1] \in Node /\ p[1] < gate
    BY <1>4, <1>13 DEF IInv, TypeOK, IsNetlist, Fanin
  <2> QED BY <2>1, <1>4, <1>9 DEF Node
<1>14. ASSUME NEW d \in DOMAIN stack'  PROVE MergedFrom(stack'[d], d)
  BY <1>3, <1>7 DEF IInv, FramesAreMerges
<1>15. ASSUME NEW d \in DOMAIN stack'
       PROVE  LET f == stack'[d]
              IN  /\ \A p \in f.parents : p[1] \in Fanin(gate) /\ p[2] \in DOMAIN kcovers'[p[1]]
                  /\ f.leaves = UNION {kcovers'[p[1]][p[2]].leaves : p \in f.parents}
                  /\ \A j \in 1..(d - 1) : \E p \in f.parents : p[1] = k_inputs[j]
  <2>1. MergedFrom(stack'[d], d)
    BY <1>14
  <2>2. \A p \in stack'[d].parents : kcovers'[p[1]] = kcovers[p[1]]
    BY <1>13, <2>1 DEF MergedFrom
  <2> QED BY <2>1, <2>2 DEF MergedFrom, CoverAt
<1>16. FramesAreMerges'
  BY <1>2, <1>15, FixedInputs DEF FramesAreMerges, MergedFrom, CoverAt
<1> QED BY <1>9, <1>10, <1>11, <1>12, <1>16 DEF IInv

(* The trivial cover is new, as no other has the gate for a leaf.          *)
LEMMA FinishGateKeeps ==
  ASSUME IInv, FinishGate  PROVE IInv'
<1>1. /\ stack # <<>> /\ stack' = <<>> /\ gate' = gate + 1
      /\ kcovers' = [kcovers EXCEPT ![gate] = Append(@, Itself(gate))]
      /\ UNCHANGED <<inputs, k_inputs>>
  <2>1. Len(stack) = 1
    BY DEF FinishGate, depth
  <2> QED BY <2>1 DEF FinishGate
<1>2. gate \in Gate /\ gate \in Node
  BY <1>1 DEF IInv, InputsTaken, Gate
<1>3. Itself(gate) \in Cover /\ GoodCover(gate, Itself(gate)) /\ Itself(gate).leaves = {gate}
  BY <1>2, ItselfIsGood DEF Itself, Cover, IInv, TypeOK
<1>4. \A i \in DOMAIN kcovers[gate] : kcovers[gate][i].leaves # Itself(gate).leaves
  <2>1. \A i \in DOMAIN kcovers[gate] : kcovers[gate][i].leaves \subseteq 1..(gate - 1)
    BY <1>2 DEF IInv, InTurn
  <2>2. gate \notin 1..(gate - 1)
    BY <1>2 DEF Node
  <2> QED BY <2>1, <2>2, <1>3
<1>5. /\ kcovers' \in [Node -> Seq(Cover)]
      /\ \A n \in Node : n # gate => kcovers'[n] = kcovers[n]
      /\ CoversAreGood' /\ CoversAreDistinct'
  BY <1>1, <1>2, <1>3, <1>4, OneMore DEF IInv
<1>6. TypeOK'
  BY <1>1, <1>2, <1>5, NumNodesAssumption DEF IInv, TypeOK, IsNetlist, Node
<1>7. InTurn'
  <2>1. ASSUME NEW n \in Gate, n > gate' \/ n = gate'
        PROVE  kcovers'[n] = <<>>
    <3>1. n \in Node /\ n > gate /\ n # gate
      BY <2>1, <1>1, <1>2 DEF Gate, Node
    <3> QED BY <3>1, <1>5 DEF IInv, InTurn
  <2> QED BY <2>1, <1>1, FixedInputs DEF InTurn
<1>8. InputsTaken' /\ FramesAreMerges'
  BY <1>1 DEF InputsTaken, FramesAreMerges
<1> QED BY <1>5, <1>6, <1>7, <1>8 DEF IInv

(* Nothing happens.                                                        *)
LEMMA StutterKeeps ==
  ASSUME IInv, UNCHANGED vars  PROVE IInv'
<1>1. UNCHANGED <<inputs, kcovers, gate, k_inputs>> /\ UNCHANGED stack
  BY DEF vars
<1>2. TypeOK'
  BY <1>1 DEF IInv, TypeOK, IsNetlist
<1>3. InTurn' /\ InputsTaken'
  BY <1>1, FixedInputs DEF IInv, InTurn, InputsTaken
<1>4. FramesAreMerges'
  BY <1>1, SameMerges DEF IInv, FramesAreMerges
<1> QED BY <1>1, <1>2, <1>3, <1>4, SameCovers DEF IInv

(* Every step keeps the invariant.                                         *)
THEOREM IInvIsInductive == IInv /\ [Next]_vars => IInv'
BY PassOverSourceKeeps, TakeGateKeeps, MergeNextKeeps, RefuseNextKeeps, ReturnKeeps,
   KeepKeeps, FinishGateKeeps, StutterKeeps DEF Next

(* So the invariant always holds.                                          *)
THEOREM Invariance == Spec => []IInv
BY Initially, IInvIsInductive, PTL DEF Spec

-----------------------------------------------------------------------------
(* The state of the enumeration stays in range.                            *)
THEOREM CoverTypeCorrect == Spec => []TypeOK
BY Invariance, PTL DEF IInv

(* Every kept cover is a cut: getFn never runs past its leaves into a      *)
(* source, so the assert in it holds for every netlist.                    *)
THEOREM GetFnStaysInside == Spec => []CoversAreCuts
<1>1. IInv => CoversAreCuts
  BY DEF IInv, CoversAreGood, GoodCover, CoversAreCuts, CoversOf
<1> QED BY <1>1, Invariance, PTL

(* Every leaf of a kept cover is met on the way down from the root.        *)
THEOREM NoHiddenLeaves == Spec => []LeavesAreMet
<1>1. IInv => LeavesAreMet
  BY DEF IInv, CoversAreGood, GoodCover, LeavesAreMet, CoversOf
<1> QED BY <1>1, Invariance, PTL

(* The internals that prune caches are those compute_internals would find. *)
THEOREM CachedInternalsAreRight == Spec => []InternalsAreExact
<1>1. IInv => InternalsAreExact
  BY DEF IInv, CoversAreGood, GoodCover, InternalsAreExact, CoversOf
<1> QED BY <1>1, Invariance, PTL

(* No two covers of a node have the same leaves, the trivial cover         *)
(* included, and none but it is larger than kcoverSize.                    *)
THEOREM NoCoverTwice == Spec => []CoversAreDistinct
BY Invariance, PTL DEF IInv

-----------------------------------------------------------------------------
(* The search.  A frame's parents are what the frames below it chose, and  *)
(* a choice that is not handled yet lies ahead of the loops: it agrees     *)
(* with the frames up to one whose loop has not come to it.                *)
LeavesOf(n, c) == UNION {kcovers[m][c[m]].leaves : m \in Fanin(n)}
InsideOf(n, c) == {n} \cup UNION {Internals(m, kcovers[m][c[m]]) : m \in Fanin(n)}

HasLeaves(n, L) == Cardinality(L) > kcoverSize \/ \E k \in CoversOf(n) : k.leaves = L
Handled(n, c) ==
  Cardinality(LeavesOf(n, c)) <= kcoverTh =>
    HasLeaves(n, LeavesOf(n, c)) \/ HasLeaves(n, LeavesOf(n, c) \ InsideOf(n, c))

ParentsAreChosen ==
  \A d \in DOMAIN stack :
    stack[d].parents = {<<k_inputs[e], stack[e].next - 1>> : e \in 1..(d - 1)}

OnPath(c, d) == \A e \in 1..(d - 1) : c[k_inputs[e]] = stack[e].next - 1
AheadAt(c, d) == OnPath(c, d) /\ (d \in DOMAIN k_inputs => stack[d].next <= c[k_inputs[d]])
Ahead(c) == \E d \in DOMAIN stack : AheadAt(c, d)

NothingSkipped ==
  stack # <<>> => \A c \in ChoicesOf(gate) : Handled(gate, c) \/ Ahead(c)

DoneAreHandled ==
  \A n \in Gate : Done(n) => \A c \in ChoicesOf(n) : Handled(n, c)

SearchInv == ParentsAreChosen /\ NothingSkipped /\ DoneAreHandled

LEMMA HandledIsComplete == DoneAreHandled => SearchIsComplete
<1> SUFFICES ASSUME DoneAreHandled, NEW n \in Gate, Done(n), NEW c \in ChoicesOf(n),
                    Cardinality(LeavesOf(n, c)) <= kcoverTh
             PROVE  \E L \in {LeavesOf(n, c), LeavesOf(n, c) \ InsideOf(n, c)} : HasLeaves(n, L)
  BY DEF SearchIsComplete, LeavesOf, InsideOf, HasLeaves
<1>1. Handled(n, c)
  BY DEF DoneAreHandled
<1> QED BY <1>1 DEF Handled

(* What a choice is of.                                                    *)
LEMMA ChoiceFacts ==
  ASSUME TypeOK, NEW n \in Gate, NEW c \in ChoicesOf(n), NEW m \in Fanin(n)
  PROVE  /\ m \in Node /\ m < n /\ kcovers[m] \in Seq(Cover)
         /\ c[m] \in 1..Len(kcovers[m])
         /\ kcovers[m][c[m]].leaves \in SUBSET Node
<1>1. m \in Node /\ m < n
  BY DEF TypeOK, IsNetlist, Fanin, Gate
<1>2. kcovers[m] \in Seq(Cover) /\ c[m] \in DOMAIN kcovers[m]
  BY <1>1 DEF TypeOK, ChoicesOf
<1>3. kcovers[m][c[m]] \in Cover
  BY <1>2
<1> QED BY <1>1, <1>2, <1>3 DEF Cover

LEMMA FewLeaves ==
  ASSUME TypeOK, NEW n \in Gate, NEW c \in ChoicesOf(n), NEW S \in SUBSET LeavesOf(n, c)
  PROVE  /\ Cardinality(S) \in Nat /\ Cardinality(LeavesOf(n, c)) \in Nat
         /\ Cardinality(S) <= Cardinality(LeavesOf(n, c))
<1>1. LeavesOf(n, c) \in SUBSET Node
  BY ChoiceFacts DEF LeavesOf
<1>2. IsFiniteSet(Node)
  BY NumNodesAssumption, FS_Interval DEF Node
<1>3. IsFiniteSet(LeavesOf(n, c))
  BY <1>1, <1>2, FS_Subset
<1> QED BY <1>3, FS_Subset, FS_CardinalityType

(* While the covers of what n reads stay, so do its choices, and a new     *)
(* cover of n handles no less.                                             *)
LEMMA SameChoices ==
  ASSUME UNCHANGED inputs, NEW n \in Node, \A m \in Fanin(n) : kcovers'[m] = kcovers[m]
  PROVE  /\ ChoicesOf(n)' = ChoicesOf(n)
         /\ \A c : LeavesOf(n, c)' = LeavesOf(n, c)
         /\ \A c : InsideOf(n, c)' = InsideOf(n, c)
<1>1. Fanin(n)' = Fanin(n) /\ \A r, L : Cone(r, L)' = Cone(r, L)
  BY FixedInputs
<1>2. ChoicesOf(n)' = ChoicesOf(n)
  <2> DEFINE F == Fanin(n)
             C == [F -> 1..Cardinality(SUBSET Node)]
  <2>1. ChoicesOf(n) = {c \in C : \A m \in F : c[m] \in DOMAIN kcovers[m]}
    BY DEF ChoicesOf
  <2>2. ChoicesOf(n)' = {c \in C : \A m \in F : c[m] \in DOMAIN kcovers'[m]}
    BY <1>1 DEF ChoicesOf
  <2>3. \A m \in F : kcovers'[m] = kcovers[m]
    OBVIOUS
  <2> HIDE DEF F, C
  <2> QED BY <2>1, <2>2, <2>3
<1>3. \A c : LeavesOf(n, c)' = LeavesOf(n, c)
  BY <1>1 DEF LeavesOf
<1>4. \A m, u : Internals(m, u)' = Internals(m, u)
  BY <1>1 DEF Internals
<1>5. \A c : InsideOf(n, c)' = InsideOf(n, c)
  BY <1>1, <1>4 DEF InsideOf
<1> QED BY <1>2, <1>3, <1>5

LEMMA HandledStays ==
  ASSUME UNCHANGED inputs, NEW n \in Node, \A m \in Fanin(n) : kcovers'[m] = kcovers[m],
         CoversOf(n) \subseteq CoversOf(n)', NEW c, Handled(n, c)
  PROVE  Handled(n, c)'
<1>1. LeavesOf(n, c)' = LeavesOf(n, c) /\ InsideOf(n, c)' = InsideOf(n, c)
  BY SameChoices
<1>2. \A L : HasLeaves(n, L) => HasLeaves(n, L)'
  BY DEF HasLeaves
<1> QED BY <1>1, <1>2 DEF Handled

(* A step that changes no cover leaves what is done.                       *)
LEMMA DoneStays ==
  ASSUME IInv, DoneAreHandled, UNCHANGED <<inputs, gate>>,
         \A n \in Node : n # gate => kcovers'[n] = kcovers[n], gate \in Node
  PROVE  DoneAreHandled'
<1>1. Gate' = Gate /\ \A n : Done(n)' <=> Done(n)
  BY FixedInputs DEF Done
<1> SUFFICES ASSUME NEW n \in Gate, Done(n) PROVE (\A c \in ChoicesOf(n) : Handled(n, c))'
  BY <1>1 DEF DoneAreHandled
<1>2. n \in Node /\ n < gate /\ gate \in Int /\ \A m \in Fanin(n) : m \in Node /\ m < n
  <2>1. n \in Node /\ n < gate
    BY DEF Gate, Done
  <2>2. gate \in Int
    BY NumNodesAssumption DEF Node
  <2>3. inputs[n] \in Seq(Node) /\ \A i \in DOMAIN inputs[n] : inputs[n][i] < n
    BY <2>1 DEF IInv, TypeOK, IsNetlist
  <2> QED BY <2>1, <2>2, <2>3 DEF Fanin
<1>3. n # gate /\ \A m \in Fanin(n) : m # gate
  BY <1>2 DEF Node
<1>4. kcovers'[n] = kcovers[n] /\ \A m \in Fanin(n) : kcovers'[m] = kcovers[m]
  BY <1>2, <1>3
<1>5. ChoicesOf(n)' = ChoicesOf(n)
  BY <1>2, <1>4, SameChoices
<1>6. CoversOf(n)' = CoversOf(n)
  BY <1>4 DEF CoversOf
<1>7. \A c \in ChoicesOf(n) : Handled(n, c)'
  BY <1>2, <1>4, <1>6, HandledStays DEF DoneAreHandled
<1> QED BY <1>5, <1>7

LEMMA SearchInitially == Init => SearchInv
<1> SUFFICES ASSUME Init PROVE SearchInv
  OBVIOUS
<1>1. ParentsAreChosen /\ NothingSkipped
  BY DEF Init, ParentsAreChosen, NothingSkipped
<1>2. \A n \in Gate : ~Done(n)
  BY NumNodesAssumption DEF Init, Done, Gate, Node
<1> QED BY <1>1, <1>2 DEF SearchInv, DoneAreHandled

(* For the steps that only move in the stack, it is enough that they leave *)
(* every choice ahead that is not handled.                                 *)
LEMMA MovesAreEnough ==
  ASSUME IInv, SearchInv, stack # <<>>, UNCHANGED <<inputs, kcovers, gate, k_inputs>>,
         ParentsAreChosen',
         \A c \in ChoicesOf(gate) : Ahead(c) /\ ~Handled(gate, c) => Ahead(c)'
  PROVE  SearchInv'
<1>1. gate \in Gate /\ gate \in Node /\ Gate' = Gate
  BY FixedInputs DEF IInv, InputsTaken, Gate
<1>2. ChoicesOf(gate)' = ChoicesOf(gate)
  BY <1>1, SameChoices
<1>3. CoversOf(gate)' = CoversOf(gate)
  BY DEF CoversOf
<1>4. \A c \in ChoicesOf(gate) : Handled(gate, c) => Handled(gate, c)'
  BY <1>1, <1>3, HandledStays
<1>5. \A c \in ChoicesOf(gate) : Handled(gate, c) \/ Ahead(c)
  BY DEF SearchInv, NothingSkipped
<1>6. \A c \in ChoicesOf(gate)' : Handled(gate, c)' \/ Ahead(c)'
  BY <1>2, <1>4, <1>5
<1>7. NothingSkipped'
  BY <1>6 DEF NothingSkipped
<1>8. DoneAreHandled'
  BY <1>1, DoneStays DEF SearchInv
<1> QED BY <1>7, <1>8 DEF SearchInv

LEMMA TakeGateSearches ==
  ASSUME IInv, SearchInv, TakeGate PROVE SearchInv'
<1>1. /\ stack = <<>> /\ gate \in Gate /\ gate \in Node /\ UNCHANGED <<inputs, kcovers, gate>>
      /\ stack' = <<[leaves |-> {}, parents |-> {}, next |-> 1]>>
  BY DEF TakeGate, Gate
<1>2. k_inputs' \in Seq(Node) /\ Len(k_inputs') > 0 /\ \A j \in DOMAIN k_inputs' : k_inputs'[j] \in Fanin(gate)
  BY SortedAreInputs DEF IInv, TypeOK, TakeGate
<1>3. DOMAIN stack' = 1..1 /\ stack'[1].parents = {} /\ stack'[1].next = 1
  BY <1>1
<1>4. ParentsAreChosen'
  <2>1. \A d \in 1..1 : {<<k_inputs'[e], stack'[e].next - 1>> : e \in 1..(d - 1)} = {}
    OBVIOUS
  <2>2. \A d \in DOMAIN stack' : d = 1
    BY <1>3
  <2> QED BY <1>3, <2>1, <2>2 DEF ParentsAreChosen
<1>5. DoneAreHandled'
  BY <1>1, DoneStays DEF SearchInv
<1>6. NothingSkipped'
  <2>1. ChoicesOf(gate)' = ChoicesOf(gate)
    BY <1>1, SameChoices
  <2> SUFFICES ASSUME NEW c \in ChoicesOf(gate) PROVE Ahead(c)'
    BY <1>1, <2>1 DEF NothingSkipped
  <2>2. 1 \in DOMAIN k_inputs' /\ k_inputs'[1] \in Fanin(gate)
    BY <1>2
  <2>3. c[k_inputs'[1]] \in 1..Len(kcovers[k_inputs'[1]]) /\ kcovers[k_inputs'[1]] \in Seq(Cover)
    BY <1>1, <2>2, ChoiceFacts DEF IInv
  <2>4. stack'[1].next <= c[k_inputs'[1]]
    BY <1>3, <2>3
  <2>5. AheadAt(c, 1)'
    BY <2>4 DEF AheadAt, OnPath
  <2> QED BY <1>3, <2>5 DEF Ahead
<1> QED BY <1>4, <1>5, <1>6 DEF SearchInv

(* Where the search stands while the loop of a frame runs.                 *)
LEMMA AtInputFacts ==
  ASSUME IInv, depth \in DOMAIN k_inputs
  PROVE  /\ stack \in Seq(Frame) /\ depth \in 1..Len(stack) /\ depth = Len(stack) /\ stack # <<>>
         /\ depth \in Nat /\ DOMAIN stack = 1..depth /\ k_inputs \in Seq(Node)
         /\ gate \in Gate /\ k_inputs[depth] \in Fanin(gate)
         /\ \A d \in 1..depth : d \in DOMAIN k_inputs /\ k_inputs[d] \in Fanin(gate) /\ stack[d].next \in Nat
<1>1. stack \in Seq(Frame) /\ depth = Len(stack) /\ depth \in Nat /\ DOMAIN stack = 1..depth /\ k_inputs \in Seq(Node)
  BY DEF IInv, TypeOK, depth
<1>2. depth \in 1..Len(k_inputs) /\ Len(k_inputs) \in Nat /\ DOMAIN k_inputs = 1..Len(k_inputs)
  BY <1>1
<1>3. stack # <<>> /\ depth \in 1..Len(stack)
  BY <1>1, <1>2
<1>4. gate \in Gate /\ \A j \in DOMAIN k_inputs : k_inputs[j] \in Fanin(gate)
  BY <1>3 DEF IInv, InputsTaken
<1>5. ASSUME NEW d \in 1..depth PROVE d \in DOMAIN k_inputs /\ k_inputs[d] \in Fanin(gate) /\ stack[d].next \in Nat
  <2>1. d \in DOMAIN k_inputs /\ stack[d] \in Frame
    BY <1>1, <1>2
  <2> QED BY <1>4, <2>1 DEF Frame
<1> QED BY <1>1, <1>2, <1>3, <1>4, <1>5

LEMMA MergeNextSearches ==
  ASSUME IInv, SearchInv, MergeNext PROVE SearchInv'
<1> DEFINE inp == k_inputs[depth]
           s == [stack EXCEPT ![depth].next = @ + 1]
           f == [leaves |-> top.leaves \cup kcovers[inp][top.next].leaves,
                 parents |-> top.parents \cup {<<inp, top.next>>}, next |-> 1]
<1>1. /\ depth \in DOMAIN k_inputs /\ stack' = Append(s, f)
      /\ UNCHANGED <<inputs, kcovers, gate, k_inputs>>
  BY DEF MergeNext, AtInput
<1>2. /\ stack \in Seq(Frame) /\ depth \in 1..Len(stack) /\ depth = Len(stack) /\ stack # <<>>
      /\ depth \in Nat /\ DOMAIN stack = 1..depth /\ k_inputs \in Seq(Node) /\ gate \in Gate
      /\ \A d \in 1..depth : d \in DOMAIN k_inputs /\ k_inputs[d] \in Fanin(gate) /\ stack[d].next \in Nat
  BY <1>1, AtInputFacts
<1>3. s \in Seq(Frame) /\ Len(s) = depth /\ \A i \in 1..depth : s[i].parents = stack[i].parents
  BY <1>2, Stepped
<1>4. \A i \in 1..depth : s[i].next = IF i = depth THEN top.next + 1 ELSE stack[i].next
  <2>1. stack[depth] \in Frame /\ top = stack[depth]
    BY <1>2 DEF top
  <2>2. s = [stack EXCEPT ![depth] = [stack[depth] EXCEPT !.next = @ + 1]]
    OBVIOUS
  <2> QED BY <1>2, <2>1, <2>2 DEF Frame
<1>5. stack' \in Seq(Frame)
  BY MergeNextKeeps DEF IInv, TypeOK
<1>6. /\ Len(stack') = depth + 1 /\ DOMAIN stack' = 1..(depth + 1)
      /\ \A i \in 1..depth : stack'[i] = s[i]
      /\ stack'[depth + 1] = f
  BY <1>1, <1>2, <1>3 DEF s, f
<1>7. \A i \in 1..depth : /\ stack'[i].parents = stack[i].parents
                           /\ stack'[i].next = IF i = depth THEN top.next + 1 ELSE stack[i].next
  BY <1>3, <1>4, <1>6
<1>8. stack'[depth + 1].next = 1 /\ stack'[depth + 1].parents = top.parents \cup {<<inp, top.next>>}
  BY <1>6 DEF f
<1>9. top.next \in Nat /\ top = stack[depth]
  BY <1>2 DEF top
<1> DEFINE Chosen(d) == {<<k_inputs[e], stack[e].next - 1>> : e \in 1..(d - 1)}
           Chosen2(d) == {<<k_inputs[e], stack'[e].next - 1>> : e \in 1..(d - 1)}
<1> HIDE DEF inp, s, f
<1>10. ParentsAreChosen'
  <2>1. \A d \in 1..depth : Chosen2(d) = Chosen(d)
    <3> SUFFICES ASSUME NEW d \in 1..depth, NEW e \in 1..(d - 1)
                 PROVE  stack'[e].next = stack[e].next
      OBVIOUS
    <3>1. e \in 1..depth /\ e # depth
      BY <1>2
    <3> QED BY <1>7, <3>1
  <2>2. Chosen2(depth + 1) = Chosen(depth) \cup {<<inp, top.next>>}
    <3>1. Chosen2(depth + 1) = {<<k_inputs[e], stack'[e].next - 1>> : e \in 1..depth}
      BY <1>2
    <3>2. stack'[depth].next - 1 = top.next
      BY <1>2, <1>7, <1>9
    <3>3. 1..depth = (1..(depth - 1)) \cup {depth}
      BY <1>2
    <3>4. Chosen2(depth + 1) = Chosen2(depth) \cup {<<k_inputs[depth], stack'[depth].next - 1>>}
      BY <3>1, <3>3
    <3> QED BY <1>2, <2>1, <3>2, <3>4 DEF inp
  <2>3. \A d \in 1..depth : stack'[d].parents = Chosen(d)
    BY <1>2, <1>7 DEF SearchInv, ParentsAreChosen
  <2>4. stack'[depth + 1].parents = Chosen2(depth + 1)
    BY <1>2, <1>8, <1>9, <2>2 DEF SearchInv, ParentsAreChosen
  <2>5. \A d \in DOMAIN stack' : d \in 1..depth \/ d = depth + 1
    BY <1>2, <1>6
  <2>6. \A d \in DOMAIN stack' : stack'[d].parents = Chosen2(d)
    <3> HIDE DEF Chosen, Chosen2
    <3> QED BY <2>1, <2>3, <2>4, <2>5
  <2> QED BY <1>1, <2>6 DEF ParentsAreChosen
<1>11. ASSUME NEW c \in ChoicesOf(gate), Ahead(c) PROVE Ahead(c)'
  <2>1. PICK d \in 1..depth : AheadAt(c, d)
    BY <1>2, <1>11 DEF Ahead
  <2>2. \A m \in Fanin(gate) : c[m] \in Nat /\ c[m] >= 1
    <3> TAKE m \in Fanin(gate)
    <3>1. c[m] \in 1..Len(kcovers[m]) /\ kcovers[m] \in Seq(Cover)
      BY <1>2, ChoiceFacts DEF IInv
    <3> QED BY <3>1
  <2>3. \A e \in 1..(d - 1) : e \in 1..depth /\ e # depth
    BY <1>2
  <2>4. OnPath(c, d)'
    BY <1>1, <1>7, <2>1, <2>3 DEF AheadAt, OnPath
  <2>5. CASE d # depth \/ top.next < c[inp]
    <3>1. stack[d].next <= c[k_inputs[d]]
      BY <1>2, <2>1 DEF AheadAt
    <3>2. stack'[d].next <= c[k_inputs[d]]
      <4>1. CASE d # depth
        BY <1>7, <3>1, <4>1
      <4>2. CASE d = depth
        <5>1. stack'[d].next = top.next + 1 /\ top.next < c[inp] /\ inp = k_inputs[d]
          BY <1>2, <1>7, <2>5, <4>2 DEF inp
        <5>2. c[inp] \in Nat
          BY <1>2, <2>2, <5>1
        <5> QED BY <1>9, <5>1, <5>2
      <4> QED BY <4>1, <4>2
    <3>3. AheadAt(c, d)'
      BY <1>1, <2>4, <3>2 DEF AheadAt
    <3>4. d \in DOMAIN stack'
      BY <1>2, <1>6
    <3> QED BY <3>3, <3>4 DEF Ahead
  <2>6. CASE d = depth /\ ~(top.next < c[inp])
    <3>1. top.next <= c[inp] /\ c[inp] \in Nat
      BY <1>2, <1>9, <2>1, <2>2, <2>6 DEF AheadAt, inp
    <3>2. c[inp] = top.next
      BY <1>9, <2>6, <3>1
    <3>3. stack'[depth].next - 1 = top.next
      BY <1>2, <1>7, <1>9
    <3>4. PICK D \in Nat : D = depth + 1
      BY <1>2
    <3>5. \A e \in 1..(D - 1) : c[k_inputs[e]] = stack'[e].next - 1
      <4> TAKE e \in 1..(D - 1)
      <4>1. e = depth \/ e \in 1..(d - 1)
        BY <1>2, <2>6, <3>4
      <4>2. CASE e = depth
        BY <3>2, <3>3, <4>2 DEF inp
      <4>3. CASE e \in 1..(d - 1)
        BY <1>1, <2>4, <4>3 DEF OnPath
      <4> QED BY <4>1, <4>2, <4>3
    <3>6. D \in DOMAIN k_inputs => stack'[D].next <= c[k_inputs[D]]
      <4> SUFFICES ASSUME D \in DOMAIN k_inputs PROVE 1 <= c[k_inputs[D]]
        BY <1>8, <3>4
      <4>1. k_inputs[D] \in Fanin(gate)
        BY <1>2 DEF IInv, InputsTaken
      <4> QED BY <2>2, <4>1
    <3>7. AheadAt(c, D)'
      BY <1>1, <3>5, <3>6 DEF AheadAt, OnPath
    <3>8. D \in DOMAIN stack'
      BY <1>2, <1>6, <3>4
    <3> QED BY <3>7, <3>8 DEF Ahead
  <2> QED BY <2>5, <2>6
<1> QED BY <1>1, <1>2, <1>10, <1>11, MovesAreEnough

(* What is ahead stays ahead while the frames below stay, unless it is the *)
(* loop on top that moves.                                                 *)
LEMMA StaysAhead ==
  ASSUME NEW c, NEW d \in Nat, AheadAt(c, d), d \in DOMAIN stack', UNCHANGED k_inputs,
         \A e \in 1..(d - 1) : stack'[e].next = stack[e].next,
         d \in DOMAIN k_inputs => stack'[d].next <= c[k_inputs[d]]
  PROVE  Ahead(c)'
<1>1. AheadAt(c, d)'
  BY DEF AheadAt, OnPath
<1> QED BY <1>1 DEF Ahead

LEMMA RefuseNextSearches ==
  ASSUME IInv, SearchInv, RefuseNext PROVE SearchInv'
<1> DEFINE inp == k_inputs[depth]
<1>1. /\ depth \in DOMAIN k_inputs /\ stack' = [stack EXCEPT ![depth].next = @ + 1]
      /\ UNCHANGED <<inputs, kcovers, gate, k_inputs>>
      /\ top.next \in DOMAIN kcovers[inp]
      /\ Cardinality(top.leaves \cup kcovers[inp][top.next].leaves) > kcoverTh
  BY DEF RefuseNext, AtInput
<1>2. /\ stack \in Seq(Frame) /\ depth \in 1..Len(stack) /\ depth = Len(stack) /\ stack # <<>>
      /\ depth \in Nat /\ DOMAIN stack = 1..depth /\ k_inputs \in Seq(Node) /\ gate \in Gate
      /\ \A d \in 1..depth : d \in DOMAIN k_inputs /\ k_inputs[d] \in Fanin(gate) /\ stack[d].next \in Nat
  BY <1>1, AtInputFacts
<1>3. stack' \in Seq(Frame) /\ Len(stack') = depth /\ \A i \in 1..depth : stack'[i].parents = stack[i].parents
  BY <1>1, <1>2, Stepped
<1>4. \A i \in 1..depth : stack'[i].next = IF i = depth THEN top.next + 1 ELSE stack[i].next
  <2>1. stack[depth] \in Frame /\ top = stack[depth]
    BY <1>2 DEF top
  <2>2. stack' = [stack EXCEPT ![depth] = [stack[depth] EXCEPT !.next = @ + 1]]
    BY <1>1
  <2> QED BY <1>2, <2>1, <2>2 DEF Frame
<1>5. top.next \in Nat /\ top = stack[depth] /\ DOMAIN stack' = 1..depth
  BY <1>2, <1>3 DEF top
<1>6. ASSUME NEW d \in 1..depth, NEW e \in 1..(d - 1) PROVE stack'[e].next = stack[e].next
  <2>1. e \in 1..depth /\ e # depth
    BY <1>2
  <2> QED BY <1>4, <2>1
<1>7. ParentsAreChosen'
  <2> SUFFICES ASSUME NEW d \in 1..depth
               PROVE  stack'[d].parents = {<<k_inputs[e], stack'[e].next - 1>> : e \in 1..(d - 1)}
    BY <1>1, <1>5 DEF ParentsAreChosen
  <2>1. stack'[d].parents = {<<k_inputs[e], stack[e].next - 1>> : e \in 1..(d - 1)}
    BY <1>2, <1>3 DEF SearchInv, ParentsAreChosen
  <2> QED BY <1>6, <2>1
<1>8. ASSUME NEW c \in ChoicesOf(gate), Ahead(c), ~Handled(gate, c) PROVE Ahead(c)'
  <2>1. PICK d \in 1..depth : AheadAt(c, d)
    BY <1>2, <1>8 DEF Ahead
  <2>2. stack[d].next <= c[k_inputs[d]] /\ c[k_inputs[d]] \in Nat
    <3>1. c[k_inputs[d]] \in 1..Len(kcovers[k_inputs[d]]) /\ kcovers[k_inputs[d]] \in Seq(Cover)
      BY <1>2, ChoiceFacts DEF IInv
    <3> QED BY <1>2, <2>1, <3>1 DEF AheadAt
  (* The refused merge is not part of a choice with few leaves.            *)
  <2>3. ASSUME d = depth PROVE top.next # c[inp]
    <3> SUFFICES ASSUME top.next = c[inp] PROVE FALSE
      OBVIOUS
    <3>1. top.parents = {<<k_inputs[e], stack[e].next - 1>> : e \in 1..(depth - 1)}
      BY <1>2, <1>5 DEF SearchInv, ParentsAreChosen
    <3>2. \A e \in 1..(depth - 1) : stack[e].next - 1 = c[k_inputs[e]] /\ k_inputs[e] \in Fanin(gate)
      <4>1. \A e \in 1..(depth - 1) : e \in 1..depth
        BY <1>2
      <4> QED BY <1>2, <2>1, <2>3, <4>1 DEF AheadAt, OnPath
    <3>3. \A p \in top.parents : p[1] \in Fanin(gate) /\ p[2] = c[p[1]]
      BY <3>1, <3>2
    <3>4. top.leaves = UNION {CoverAt(p).leaves : p \in top.parents}
      BY <1>2, <1>5 DEF IInv, FramesAreMerges, MergedFrom
    <3>5. top.leaves \subseteq LeavesOf(gate, c)
      BY <3>3, <3>4 DEF LeavesOf, CoverAt
    <3>6. kcovers[inp][top.next].leaves \subseteq LeavesOf(gate, c)
      BY <1>2 DEF LeavesOf
    <3>7. top.leaves \cup kcovers[inp][top.next].leaves \in SUBSET LeavesOf(gate, c)
      BY <3>5, <3>6
    <3>8. Cardinality(LeavesOf(gate, c)) > kcoverTh
      <4> DEFINE a == Cardinality(top.leaves \cup kcovers[inp][top.next].leaves)
                 b == Cardinality(LeavesOf(gate, c))
      <4>1. a <= b /\ a \in Nat /\ b \in Nat /\ a > kcoverTh /\ kcoverTh \in Nat
        BY <1>1, <1>2, <3>7, FewLeaves, kcoverAssumption DEF IInv
      <4> HIDE DEF a, b
      <4>2. b > kcoverTh
        BY <4>1
      <4> QED BY <4>2 DEF b
    <3>9. ~(Cardinality(LeavesOf(gate, c)) <= kcoverTh)
      <4>1. Cardinality(LeavesOf(gate, c)) \in Nat /\ kcoverTh \in Nat
        BY <1>2, FewLeaves, kcoverAssumption DEF IInv
      <4> QED BY <3>8, <4>1
    <3> QED BY <1>8, <3>9 DEF Handled
  <2>4. stack'[d].next <= c[k_inputs[d]]
    <3>1. CASE d # depth
      BY <1>4, <2>2, <3>1
    <3>2. CASE d = depth
      <4>1. top.next <= c[inp] /\ top.next # c[inp] /\ c[inp] \in Nat
        BY <1>5, <2>2, <2>3, <3>2
      <4>2. top.next + 1 <= c[inp]
        BY <1>5, <4>1
      <4>3. stack'[depth].next = top.next + 1
        BY <1>2, <1>4
      <4> QED BY <3>2, <4>2, <4>3
    <3> QED BY <3>1, <3>2
  <2>5. d \in Nat /\ d \in DOMAIN stack'
    BY <1>5
  <2> QED BY <1>1, <1>6, <2>1, <2>4, <2>5, StaysAhead
<1> QED BY <1>1, <1>2, <1>7, <1>8, MovesAreEnough

LEMMA ReturnSearches ==
  ASSUME IInv, SearchInv, Return PROVE SearchInv'
<1>1. /\ depth \in DOMAIN k_inputs /\ depth > 1 /\ top.next = Len(kcovers[k_inputs[depth]]) + 1
      /\ stack' = SubSeq(stack, 1, depth - 1)
      /\ UNCHANGED <<inputs, kcovers, gate, k_inputs>>
  BY DEF Return, AtInput
<1>2. /\ stack \in Seq(Frame) /\ depth \in 1..Len(stack) /\ depth = Len(stack) /\ stack # <<>>
      /\ depth \in Nat /\ DOMAIN stack = 1..depth /\ k_inputs \in Seq(Node) /\ gate \in Gate
      /\ \A d \in 1..depth : d \in DOMAIN k_inputs /\ k_inputs[d] \in Fanin(gate) /\ stack[d].next \in Nat
  BY <1>1, AtInputFacts
<1>3. /\ stack' \in Seq(Frame) /\ DOMAIN stack' = 1..(depth - 1)
      /\ \A i \in 1..(depth - 1) : stack'[i] = stack[i] /\ i \in 1..depth
  BY <1>1, <1>2
<1>4. ASSUME NEW d \in 1..(depth - 1), NEW e \in 1..(d - 1) PROVE stack'[e].next = stack[e].next
  <2>1. e \in 1..(depth - 1)
    BY <1>2
  <2> QED BY <1>3, <2>1
<1>5. ParentsAreChosen'
  <2> SUFFICES ASSUME NEW d \in 1..(depth - 1)
               PROVE  stack'[d].parents = {<<k_inputs[e], stack'[e].next - 1>> : e \in 1..(d - 1)}
    BY <1>1, <1>3 DEF ParentsAreChosen
  <2>1. stack'[d].parents = {<<k_inputs[e], stack[e].next - 1>> : e \in 1..(d - 1)}
    BY <1>2, <1>3 DEF SearchInv, ParentsAreChosen
  <2> QED BY <1>4, <2>1
<1>6. ASSUME NEW c \in ChoicesOf(gate), Ahead(c) PROVE Ahead(c)'
  <2>1. PICK d \in 1..depth : AheadAt(c, d)
    BY <1>2, <1>6 DEF Ahead
  <2>2. stack[d].next <= c[k_inputs[d]]
    BY <1>2, <2>1 DEF AheadAt
  <2>3. d # depth
    <3> SUFFICES ASSUME d = depth PROVE FALSE
      OBVIOUS
    <3>1. c[k_inputs[depth]] \in 1..Len(kcovers[k_inputs[depth]]) /\ kcovers[k_inputs[depth]] \in Seq(Cover)
      BY <1>2, ChoiceFacts DEF IInv
    <3>2. top.next <= c[k_inputs[depth]]
      BY <2>2 DEF top
    <3> QED BY <1>1, <3>1, <3>2
  <2>4. d \in 1..(depth - 1) /\ d \in Nat
    BY <1>2, <2>3
  <2> QED BY <1>1, <1>3, <1>4, <2>1, <2>2, <2>4, StaysAhead
<1> QED BY <1>1, <1>2, <1>5, <1>6, MovesAreEnough

(* A frame that has passed all inputs holds the leaves of its choice, and  *)
(* prune collects what is inside.                                          *)
LEMMA TopIsChoice ==
  ASSUME IInv, ParentsAreChosen, stack # <<>>, depth = Len(k_inputs) + 1,
         NEW c \in ChoicesOf(gate), OnPath(c, depth)
  PROVE  top.leaves = LeavesOf(gate, c) /\ Inside(top) = InsideOf(gate, c)
<1>1. /\ depth \in DOMAIN stack /\ k_inputs \in Seq(Node) /\ top = stack[depth]
      /\ DOMAIN k_inputs = 1..(depth - 1)
  BY DEF IInv, TypeOK, depth, top
<1>2. /\ \A j \in 1..(depth - 1) : k_inputs[j] \in Fanin(gate)
      /\ \A m \in Fanin(gate) : \E j \in 1..(depth - 1) : k_inputs[j] = m
  BY <1>1 DEF IInv, InputsTaken
<1>3. top.parents = {<<k_inputs[e], c[k_inputs[e]]>> : e \in 1..(depth - 1)}
  BY <1>1 DEF ParentsAreChosen, OnPath
<1>4. top.parents = {<<m, c[m]>> : m \in Fanin(gate)}
  BY <1>2, <1>3
<1>5. top.leaves = UNION {CoverAt(p).leaves : p \in top.parents}
  BY <1>1 DEF IInv, FramesAreMerges, MergedFrom
<1>6. /\ \A p \in top.parents : p[1] \in Fanin(gate) /\ p[2] = c[p[1]]
      /\ \A m \in Fanin(gate) : \E p \in top.parents : p[1] = m /\ p[2] = c[m]
  <2>1. \A p \in top.parents : p[1] \in Fanin(gate) /\ p[2] = c[p[1]]
    BY <1>4
  <2>2. ASSUME NEW m \in Fanin(gate) PROVE \E p \in top.parents : p[1] = m /\ p[2] = c[m]
    <3>1. <<m, c[m]>> \in top.parents
      BY <1>4
    <3> QED BY <3>1
  <2> QED BY <2>1, <2>2
<1>7. /\ \A p \in top.parents : CoverAt(p) = kcovers[p[1]][c[p[1]]] /\ p[1] \in Fanin(gate)
      /\ \A m \in Fanin(gate) : \E p \in top.parents : p[1] = m /\ CoverAt(p) = kcovers[m][c[m]]
  BY <1>6 DEF CoverAt
<1>8. top.leaves = LeavesOf(gate, c)
  <2>1. ASSUME NEW p \in top.parents
        PROVE \E m \in Fanin(gate) : CoverAt(p).leaves = kcovers[m][c[m]].leaves
    BY <1>7
  <2>2. ASSUME NEW m \in Fanin(gate)
        PROVE \E p \in top.parents : CoverAt(p).leaves = kcovers[m][c[m]].leaves
    BY <1>7
  <2>3. {CoverAt(p).leaves : p \in top.parents} = {kcovers[m][c[m]].leaves : m \in Fanin(gate)}
    BY <2>1, <2>2
  <2> QED BY <1>5, <2>3 DEF LeavesOf
<1>9. Inside(top) = InsideOf(gate, c)
  <2>1. ASSUME NEW p \in top.parents
        PROVE \E m \in Fanin(gate) : Internals(p[1], CoverAt(p)) = Internals(m, kcovers[m][c[m]])
    BY <1>7
  <2>2. ASSUME NEW m \in Fanin(gate)
        PROVE \E p \in top.parents : Internals(p[1], CoverAt(p)) = Internals(m, kcovers[m][c[m]])
    BY <1>7
  <2>3. {Internals(p[1], CoverAt(p)) : p \in top.parents}
          = {Internals(m, kcovers[m][c[m]]) : m \in Fanin(gate)}
    BY <2>1, <2>2
  <2> QED BY <2>3 DEF Inside, InsideOf
<1> QED BY <1>8, <1>9

LEMMA KeepSearches ==
  ASSUME IInv, SearchInv, Keep PROVE SearchInv'
<1>1. PICK cov \in Pruned(top) :
        kcovers' = IF Cardinality(cov.leaves) <= kcoverSize /\ ~IsDuplicate(cov)
                   THEN [kcovers EXCEPT ![gate] = Append(@, cov)] ELSE kcovers
  BY DEF Keep
<1>2. /\ stack # <<>> /\ depth = Len(k_inputs) + 1
      /\ stack' = SubSeq(stack, 1, depth - 1)
      /\ UNCHANGED <<inputs, gate, k_inputs>>
  BY DEF Keep
<1>3. /\ stack \in Seq(Frame) /\ k_inputs \in Seq(Node) /\ Len(k_inputs) > 0
      /\ depth \in Nat /\ depth > 1 /\ depth = Len(stack) /\ DOMAIN stack = 1..depth
      /\ DOMAIN k_inputs = 1..(depth - 1) /\ gate \in Gate /\ gate \in Node
      /\ kcovers[gate] \in Seq(Cover) /\ DOMAIN kcovers = Node
  BY <1>2 DEF IInv, TypeOK, InputsTaken, depth, Gate
<1>4. /\ stack' \in Seq(Frame) /\ DOMAIN stack' = 1..(depth - 1)
      /\ \A i \in 1..(depth - 1) : stack'[i] = stack[i] /\ i \in 1..depth
  BY <1>2, <1>3
<1>5. ASSUME NEW d \in 1..(depth - 1), NEW e \in 1..(d - 1) PROVE stack'[e].next = stack[e].next
  <2>1. e \in 1..(depth - 1)
    BY <1>3
  <2> QED BY <1>4, <2>1
<1>6. ParentsAreChosen'
  <2> SUFFICES ASSUME NEW d \in 1..(depth - 1)
               PROVE  stack'[d].parents = {<<k_inputs[e], stack'[e].next - 1>> : e \in 1..(d - 1)}
    BY <1>2, <1>4 DEF ParentsAreChosen
  <2>1. stack'[d].parents = {<<k_inputs[e], stack[e].next - 1>> : e \in 1..(d - 1)}
    BY <1>3, <1>4 DEF SearchInv, ParentsAreChosen
  <2> QED BY <1>5, <2>1
<1>7. \A n \in Node : n # gate => kcovers'[n] = kcovers[n]
  BY <1>1, <1>3
<1>8. \A m \in Fanin(gate) : kcovers'[m] = kcovers[m]
  <2>1. \A m \in Fanin(gate) : m \in Node /\ m # gate
    <3>1. inputs[gate] \in Seq(Node) /\ \A i \in DOMAIN inputs[gate] : inputs[gate][i] < gate
      BY <1>3 DEF IInv, TypeOK, IsNetlist
    <3>2. gate \in Int
      BY <1>3, NumNodesAssumption DEF Node
    <3> QED BY <3>1, <3>2 DEF Fanin
  <2> QED BY <1>7, <2>1
<1>0. cov \in Cover
  <2>1. top \in Frame /\ MergedFrom(top, depth)
    BY <1>3 DEF IInv, FramesAreMerges, top
  <2>2. \A m \in Fanin(gate) : \E j \in 1..(depth - 1) : k_inputs[j] = m
    BY <1>2, <1>3 DEF IInv, InputsTaken
  <2>3. Complete(top)
    BY <2>1, <2>2 DEF MergedFrom, Complete
  <2> QED BY <1>3, <2>1, <2>3, MergeIsGood DEF IInv
<1>9. /\ CoversOf(gate) \subseteq CoversOf(gate)'
      /\ Cardinality(cov.leaves) > kcoverSize \/ \E k \in CoversOf(gate)' : k.leaves = cov.leaves
  <2>1. CASE Cardinality(cov.leaves) <= kcoverSize /\ ~IsDuplicate(cov)
    <3> DEFINE old == kcovers[gate]
               new == kcovers'[gate]
    <3>1. new = Append(old, cov) /\ old \in Seq(Cover)
      BY <1>1, <1>3, <2>1
    <3>2. cov \in Cover
      BY <1>0
    <3> HIDE DEF new, old
    <3>3. /\ DOMAIN old = 1..Len(old) /\ Len(old) \in Nat /\ DOMAIN new = 1..(Len(old) + 1)
          /\ new[Len(old) + 1] = cov /\ \A i \in 1..Len(old) : new[i] = old[i]
      BY <3>1, <3>2
    <3>4. \A i \in DOMAIN old : i \in DOMAIN new /\ new[i] = old[i]
      BY <3>3
    <3>5. \E i \in DOMAIN new : new[i] = cov
      BY <3>3
    <3>6. CoversOf(gate) = {old[i] : i \in DOMAIN old} /\ CoversOf(gate)' = {new[i] : i \in DOMAIN new}
      BY <1>2 DEF CoversOf, old, new
    <3>7. CoversOf(gate) \subseteq CoversOf(gate)' /\ cov \in CoversOf(gate)'
      BY <3>4, <3>5, <3>6
    <3> QED BY <3>7
  <2>2. CASE ~(Cardinality(cov.leaves) <= kcoverSize)
    <3>1. kcovers' = kcovers /\ Cardinality(cov.leaves) > kcoverSize
      <4>1. cov.leaves \in SUBSET Node
        BY <1>0 DEF Cover
      <4>2. Cardinality(cov.leaves) \in Nat
        <5>1. IsFiniteSet(Node)
          BY NumNodesAssumption, FS_Interval DEF Node
        <5> QED BY <4>1, <5>1, FS_Subset, FS_CardinalityType
      <4> QED BY <1>1, <2>2, <4>2, kcoverAssumption
    <3> QED BY <1>2, <3>1 DEF CoversOf
  <2>3. CASE IsDuplicate(cov)
    <3>1. kcovers' = kcovers /\ \E k \in CoversOf(gate) : k.leaves = cov.leaves
      BY <1>1, <2>3 DEF IsDuplicate, CoversOf
    <3> QED BY <1>2, <3>1 DEF CoversOf
  <2> QED BY <2>1, <2>2, <2>3
<1>10. DoneAreHandled'
  BY <1>2, <1>3, <1>7, DoneStays DEF SearchInv
<1>11. ChoicesOf(gate)' = ChoicesOf(gate)
  BY <1>2, <1>3, <1>8, SameChoices
<1>12. ASSUME NEW c \in ChoicesOf(gate) PROVE Handled(gate, c)' \/ Ahead(c)'
  <2>1. CASE Handled(gate, c)
    BY <1>2, <1>3, <1>8, <1>9, <2>1, HandledStays
  <2>2. CASE Ahead(c)
    <3>1. PICK d \in 1..depth : AheadAt(c, d)
      BY <1>3, <2>2 DEF Ahead
    <3>2. CASE d = depth
      <4>1. top.leaves = LeavesOf(gate, c) /\ Inside(top) = InsideOf(gate, c)
        BY <1>2, <3>1, <3>2, TopIsChoice DEF SearchInv, AheadAt
      <4>2. cov.leaves \in {top.leaves, top.leaves \ Inside(top)}
        BY DEF Pruned
      <4>3. /\ LeavesOf(gate, c)' = LeavesOf(gate, c)
            /\ InsideOf(gate, c)' = InsideOf(gate, c)
        BY <1>2, <1>3, <1>8, SameChoices
      <4>4. \A L : L = cov.leaves => HasLeaves(gate, L)'
        BY <1>9 DEF HasLeaves
      <4>5. HasLeaves(gate, LeavesOf(gate, c))' \/ HasLeaves(gate, LeavesOf(gate, c) \ InsideOf(gate, c))'
        BY <4>1, <4>2, <4>3, <4>4
      <4> QED BY <4>5 DEF Handled
    <3>3. CASE d # depth
      <4>1. d \in 1..(depth - 1) /\ d \in Nat
        BY <1>3, <3>3
      <4>2. d \in DOMAIN k_inputs => stack'[d].next <= c[k_inputs[d]]
        BY <1>4, <3>1, <4>1 DEF AheadAt
      <4>3. \A e \in 1..(d - 1) : stack'[e].next = stack[e].next
        BY <1>5, <4>1
      <4> QED BY <1>2, <1>4, <3>1, <4>1, <4>2, <4>3, StaysAhead
    <3> QED BY <3>2, <3>3
  <2> QED BY <1>2, <2>1, <2>2 DEF SearchInv, NothingSkipped
<1>13. NothingSkipped'
  BY <1>11, <1>12 DEF NothingSkipped
<1> QED BY <1>6, <1>10, <1>13 DEF SearchInv

LEMMA FinishGateSearches ==
  ASSUME IInv, SearchInv, FinishGate PROVE SearchInv'
<1>1. /\ depth \in DOMAIN k_inputs /\ depth = 1 /\ top.next = Len(kcovers[k_inputs[1]]) + 1
      /\ kcovers' = [kcovers EXCEPT ![gate] = Append(@, Itself(gate))]
      /\ stack' = <<>> /\ gate' = gate + 1
      /\ UNCHANGED <<inputs, k_inputs>>
  BY DEF FinishGate, AtInput
<1>2. /\ stack \in Seq(Frame) /\ depth = Len(stack) /\ stack # <<>>
      /\ DOMAIN stack = 1..1 /\ k_inputs \in Seq(Node) /\ gate \in Gate /\ gate \in Node
      /\ k_inputs[1] \in Fanin(gate) /\ 1 \in DOMAIN k_inputs
  BY <1>1, AtInputFacts DEF Gate
<1>3. Gate' = Gate /\ \A n \in Node : n # gate => kcovers'[n] = kcovers[n]
  BY <1>1, FixedInputs DEF IInv, TypeOK
(* The loop of the first frame is over, so nothing is ahead.               *)
<1>4. ASSUME NEW c \in ChoicesOf(gate) PROVE Handled(gate, c)
  <2>1. ASSUME Ahead(c) PROVE FALSE
    <3>1. AheadAt(c, 1)
      BY <1>2, <2>1 DEF Ahead
    <3>2. top.next <= c[k_inputs[1]]
      BY <1>1, <1>2, <3>1 DEF AheadAt, top
    <3>3. c[k_inputs[1]] \in 1..Len(kcovers[k_inputs[1]]) /\ kcovers[k_inputs[1]] \in Seq(Cover)
      BY <1>2, ChoiceFacts DEF IInv
    <3> QED BY <1>1, <3>2, <3>3
  <2> QED BY <1>2, <2>1 DEF SearchInv, NothingSkipped
<1>5. \A n \in Gate : n \in Node /\ n \in Int /\ \A m \in Fanin(n) : m \in Node /\ m < n
  <2> TAKE n \in Gate
  <2>1. n \in Node /\ n \in Int
    BY NumNodesAssumption DEF Gate, Node
  <2>2. inputs[n] \in Seq(Node) /\ \A i \in DOMAIN inputs[n] : inputs[n][i] < n
    BY <2>1 DEF IInv, TypeOK, IsNetlist
  <2> QED BY <2>1, <2>2 DEF Fanin
<1>6. ASSUME NEW n \in Gate, Done(n)' PROVE (\A c \in ChoicesOf(n) : Handled(n, c))'
  <2>1. n < gate \/ n = gate
    BY <1>1, <1>2, <1>5, <1>6 DEF Done
  <2>2. \A m \in Fanin(n) : m # gate /\ m \in Node
    BY <1>2, <1>5, <2>1
  <2>3. \A m \in Fanin(n) : kcovers'[m] = kcovers[m]
    BY <1>3, <2>2
  <2>4. CoversOf(n) \subseteq CoversOf(n)'
    <3>1. CASE n # gate
      BY <1>3, <1>5, <3>1 DEF CoversOf
    <3>2. CASE n = gate
      <4> DEFINE old == kcovers[n]
                 new == kcovers'[n]
      <4>1. new = Append(old, Itself(n)) /\ old \in Seq(Cover)
        BY <1>1, <1>2, <3>2 DEF IInv, TypeOK
      <4>2. Itself(n) \in Cover
        BY <1>5 DEF Itself, Cover
      <4>3. CoversOf(n) = {old[i] : i \in DOMAIN old} /\ CoversOf(n)' = {new[i] : i \in DOMAIN new}
        BY DEF CoversOf
      <4> HIDE DEF old, new
      <4>4. \A i \in DOMAIN old : i \in DOMAIN new /\ new[i] = old[i]
        BY <4>1, <4>2
      <4> QED BY <4>3, <4>4
    <3> QED BY <3>1, <3>2
  <2>5. \A c \in ChoicesOf(n) : Handled(n, c)
    <3>1. CASE n = gate
      BY <1>4, <3>1
    <3>2. CASE n < gate
      BY <3>2 DEF SearchInv, DoneAreHandled, Done
    <3> QED BY <2>1, <3>1, <3>2
  <2>6. \A c \in ChoicesOf(n) : Handled(n, c)'
    BY <1>1, <1>5, <2>3, <2>4, <2>5, HandledStays
  <2>7. ChoicesOf(n)' = ChoicesOf(n)
    BY <1>1, <1>5, <2>3, SameChoices
  <2> QED BY <2>6, <2>7
<1>7. DoneAreHandled'
  BY <1>3, <1>6 DEF DoneAreHandled
<1>8. ParentsAreChosen' /\ NothingSkipped'
  BY <1>1 DEF ParentsAreChosen, NothingSkipped
<1> QED BY <1>7, <1>8 DEF SearchInv

LEMMA PassOverSourceSearches ==
  ASSUME IInv, SearchInv, PassOverSource PROVE SearchInv'
<1>1. /\ stack = <<>> /\ gate \in Node \ Gate /\ gate' = gate + 1
      /\ UNCHANGED <<inputs, kcovers, k_inputs, stack>>
  BY DEF PassOverSource
<1>2. Gate' = Gate
  BY <1>1, FixedInputs
<1>3. ASSUME NEW n \in Gate, Done(n)' PROVE (\A c \in ChoicesOf(n) : Handled(n, c))'
  <2>1. n \in Node /\ Done(n)
    <3>1. n \in Node /\ n # gate /\ n < gate + 1
      BY <1>1, <1>3 DEF Gate, Done
    <3> QED BY <1>1, <3>1, NumNodesAssumption DEF Node, Done
  <2>2. ChoicesOf(n)' = ChoicesOf(n) /\ CoversOf(n)' = CoversOf(n)
    BY <1>1, <2>1, SameChoices DEF CoversOf
  <2>3. \A c \in ChoicesOf(n) : Handled(n, c)'
    BY <1>1, <2>1, <2>2, HandledStays DEF SearchInv, DoneAreHandled
  <2> QED BY <2>2, <2>3
<1>4. DoneAreHandled'
  BY <1>2, <1>3 DEF DoneAreHandled
<1>5. ParentsAreChosen' /\ NothingSkipped'
  BY <1>1 DEF ParentsAreChosen, NothingSkipped
<1> QED BY <1>4, <1>5 DEF SearchInv

LEMMA StutterSearches ==
  ASSUME IInv, SearchInv, UNCHANGED vars PROVE SearchInv'
<1>1. UNCHANGED <<inputs, kcovers, gate, k_inputs>> /\ UNCHANGED stack
  BY DEF vars
<1>2. ParentsAreChosen'
  BY <1>1 DEF SearchInv, ParentsAreChosen
<1>3. CASE stack # <<>>
  <2>1. \A c : Ahead(c) => Ahead(c)'
    BY <1>1 DEF Ahead, AheadAt, OnPath
  <2> QED BY <1>1, <1>2, <1>3, <2>1, MovesAreEnough
<1>4. CASE stack = <<>>
  <2>1. NothingSkipped'
    BY <1>1, <1>4 DEF NothingSkipped
  <2>2. Gate' = Gate
    BY <1>1, FixedInputs
  <2>3. ASSUME NEW n \in Gate, Done(n)' PROVE (\A c \in ChoicesOf(n) : Handled(n, c))'
    <3>1. n \in Node /\ Done(n)
      BY <1>1, <2>3 DEF Gate, Done
    <3>2. ChoicesOf(n)' = ChoicesOf(n) /\ CoversOf(n)' = CoversOf(n)
      BY <1>1, <3>1, SameChoices DEF CoversOf
    <3>3. \A c \in ChoicesOf(n) : Handled(n, c)'
      BY <1>1, <3>1, <3>2, HandledStays DEF SearchInv, DoneAreHandled
    <3> QED BY <3>2, <3>3
  <2>4. DoneAreHandled'
    BY <2>2, <2>3 DEF DoneAreHandled
  <2> QED BY <1>2, <2>1, <2>4 DEF SearchInv
<1> QED BY <1>3, <1>4

(* Whatever order the inputs are visited in, the depth-first search of     *)
(* compute_covers, which cuts off below a merge that is too large, leaves  *)
(* out no choice of one cover for each input whose leaves are few enough.  *)
THEOREM SearchLeavesNothingOut == Spec => []SearchIsComplete
<1>1. ASSUME IInv, SearchInv, [Next]_vars PROVE SearchInv'
  BY <1>1, PassOverSourceSearches, TakeGateSearches, MergeNextSearches, RefuseNextSearches,
     ReturnSearches, KeepSearches, FinishGateSearches, StutterSearches DEF Next
<1>2. SearchInv => SearchIsComplete
  BY HandledIsComplete DEF SearchInv
<1> QED BY <1>1, <1>2, SearchInitially, Invariance, PTL DEF Spec
=============================================================================
