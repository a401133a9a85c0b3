------------------------- MODULE FunctionTableProofs -------------------------
(***************************************************************************)
(* Theorems about FunctionTable, for every number of inputs, covers and    *)
(* functions.                                                              *)
(*                                                                         *)
(* The orders of the inputs form a group that acts on the functions.  What *)
(* the table keeps is, for each function, an order that takes its          *)
(* canonical function to it; once a class has been entered, all the orders *)
(* of its founder are in the table, so the class is a whole orbit and no   *)
(* later cover can found it again.                                         *)
(***************************************************************************)
EXTENDS FunctionTable, FiniteSetTheorems, FunctionTheorems, TLAPS

Compose(p, q) == [i \in Pos |-> p[q[i]]]
InverseOf(p) == [i \in Pos |-> CHOOSE j \in Pos : p[j] = i]

(* Every entry says how its function is got from the canonical one.        *)
EntryOK(f) ==
  /\ bdds[f].canonicalPtr \in DOMAIN bdds
  /\ bdds[bdds[f].canonicalPtr].canonicalPtr = bdds[f].canonicalPtr
  /\ f = Permuted(bdds[f].canonicalPtr, bdds[f].permutation)
EntriesOK == \A f \in DOMAIN bdds : EntryOK(f)

(* The orders of a canonical function that have been entered.              *)
EnteredFor(f) == IF todo # {} /\ f = fn[cover] THEN Perm \ todo ELSE Perm
HasOrder(f, p) ==
  /\ Permuted(f, p) \in DOMAIN bdds
  /\ bdds[Permuted(f, p)].canonicalPtr = f
OrbitsEntered ==
  \A f \in DOMAIN bdds : bdds[f].canonicalPtr = f =>
    \A p \in EnteredFor(f) : HasOrder(f, p)

(* While orders are entered the cover at hand is a founder.                *)
Entering ==
  /\ DOMAIN perm = IF todo = {} THEN 1..(cover - 1) ELSE 1..cover
  /\ todo # {} =>
       /\ cover \in Cover
       /\ fn[cover] \in DOMAIN bdds
       /\ bdds[fn[cover]].canonicalPtr = fn[cover]
       /\ Founder(cover)

(* What a cover is left with.                                              *)
CoverOK(c) ==
  /\ fn[c] \in DOMAIN bdds
  /\ bdds[fn[c]].canonicalPtr = canonical[c]
  /\ Founder(c) \/ perm[c] = bdds[fn[c]].permutation
CoversOK == \A c \in DOMAIN canonical : CoverOK(c)

IInv == TypeOK /\ EntriesOK /\ OrbitsEntered /\ Entering /\ CoversOK
-----------------------------------------------------------------------------
(* The group of the orders.                                                *)

(* An order of finitely many inputs is onto.                               *)
LEMMA PermOnto ==
  ASSUME NEW p \in Perm
  PROVE  \A i \in Pos : \E j \in Pos : p[j] = i
<1>1. IsFiniteSet(Pos)
  BY numInputsAssumption, FS_Interval DEF Pos
<1>2. p \in Injection(Pos, Pos)
  BY DEF Perm, Injection, IsInjective
<1>3. p \in Surjection(Pos, Pos)
  BY <1>1, <1>2, FS_Injection
<1> QED BY <1>3 DEF Surjection

LEMMA IdentityIsPerm == Identity \in Perm
BY DEF Identity, Perm

LEMMA ComposeIsPerm ==
  ASSUME NEW p \in Perm, NEW q \in Perm
  PROVE  Compose(p, q) \in Perm
BY DEF Compose, Perm

LEMMA InverseIsPerm ==
  ASSUME NEW p \in Perm
  PROVE  /\ InverseOf(p) \in Perm
         /\ \A i \in Pos : p[InverseOf(p)[i]] = i
         /\ \A i \in Pos : InverseOf(p)[p[i]] = i
<1>1. \A i \in Pos : InverseOf(p)[i] \in Pos /\ p[InverseOf(p)[i]] = i
  BY PermOnto DEF InverseOf
<1>2. InverseOf(p) \in [Pos -> Pos]
  BY <1>1 DEF InverseOf
<1>3. \A i, j \in Pos : p[i] = p[j] => i = j
  BY DEF Perm
<1>4. p \in [Pos -> Pos]
  BY DEF Perm
<1>5. InverseOf(p) \in Perm
  BY <1>1, <1>2 DEF Perm
<1> QED BY <1>1, <1>3, <1>4, <1>5

(* The functions stay functions, and the orders act on them.               *)
LEMMA PermutedType ==
  ASSUME NEW f \in SUBSET Assignment, NEW p \in Perm
  PROVE  Permuted(f, p) \in SUBSET Assignment
BY DEF Permuted, Perm, Assignment

LEMMA PermutedIdentity ==
  ASSUME NEW f \in SUBSET Assignment
  PROVE  Permuted(f, Identity) = f
<1>1. \A u \in f : [i \in Pos |-> u[Identity[i]]] = u
  BY DEF Identity, Assignment
<1> QED BY <1>1 DEF Permuted

LEMMA PermutedCompose ==
  ASSUME NEW f \in SUBSET Assignment, NEW p \in Perm, NEW q \in Perm
  PROVE  Permuted(Permuted(f, p), q) = Permuted(f, Compose(p, q))
<1> DEFINE Then(u) == [i \in Pos |-> u[p[i]]]
           Both(u) == [i \in Pos |-> u[Compose(p, q)[i]]]
<1>1. \A u \in f : [i \in Pos |-> Then(u)[q[i]]] = Both(u)
  BY DEF Compose, Perm
<1>2. Permuted(f, p) = {Then(u) : u \in f}
  BY DEF Permuted
<1>3. Permuted(f, Compose(p, q)) = {Both(u) : u \in f}
  BY DEF Permuted
<1>4. Permuted(Permuted(f, p), q) = {[i \in Pos |-> v[q[i]]] : v \in {Then(u) : u \in f}}
  BY <1>2 DEF Permuted
<1> HIDE DEF Then, Both
<1> QED BY <1>1, <1>3, <1>4

LEMMA PermutedInverse ==
  ASSUME NEW f \in SUBSET Assignment, NEW p \in Perm
  PROVE  Permuted(Permuted(f, p), InverseOf(p)) = f
<1>1. InverseOf(p) \in Perm /\ Compose(p, InverseOf(p)) = Identity
  BY InverseIsPerm DEF Compose, Identity
<1> QED BY <1>1, PermutedCompose, PermutedIdentity
-----------------------------------------------------------------------------
(* The invariant.                                                          *)

LEMMA WithType ==
  ASSUME NEW m, NEW S, NEW T, m \in [DOMAIN m -> S], S \subseteq T, NEW x, NEW v \in T
  PROVE  With(m, x, v) \in [DOMAIN m \cup {x} -> T]
BY DEF With

LEMMA InitEstablishesIInv == Init => IInv
<1> SUFFICES ASSUME Init PROVE IInv
  OBVIOUS
<1>1. DOMAIN bdds = {} /\ DOMAIN perm = {} /\ DOMAIN canonical = {} /\ todo = {}
  BY DEF Init, Nothing
<1>2. TypeOK
  <2>1. fn \in [Cover -> SUBSET Assignment] /\ cover \in 1..(NumCovers + 1)
    BY FunctionsAssumption, NumCoversAssumption DEF Init
  <2>2. bdds \in [DOMAIN bdds -> [permutation : Perm, canonicalPtr : DOMAIN bdds]]
    BY <1>1 DEF Init, Nothing
  <2>3. perm \in [DOMAIN perm -> Perm] /\ canonical \in [DOMAIN perm -> DOMAIN bdds]
    BY <1>1 DEF Init, Nothing
  <2> QED BY <1>1, <2>1, <2>2, <2>3 DEF TypeOK
<1>3. EntriesOK /\ OrbitsEntered /\ CoversOK
  BY <1>1 DEF EntriesOK, OrbitsEntered, CoversOK
<1>4. Entering
  BY <1>1 DEF Entering, Init
<1> QED BY <1>2, <1>3, <1>4 DEF IInv

(* Types of the values that a step puts into the state.                    *)
LEMMA InfoType ==
  ASSUME NEW p \in Perm, NEW S, NEW f \in S
  PROVE  /\ Info(p, f) \in [permutation : Perm, canonicalPtr : S]
         /\ Info(p, f).permutation = p
         /\ Info(p, f).canonicalPtr = f
BY DEF Info

LEMMA EntriesType ==
  ASSUME bdds \in [DOMAIN bdds -> [permutation : Perm, canonicalPtr : DOMAIN bdds]],
         NEW b, NEW p \in Perm, NEW f \in DOMAIN bdds \cup {b}
  PROVE  With(bdds, b, Info(p, f))
           \in [DOMAIN bdds \cup {b} -> [permutation : Perm, canonicalPtr : DOMAIN bdds \cup {b}]]
<1> DEFINE S == [permutation : Perm, canonicalPtr : DOMAIN bdds]
           T == [permutation : Perm, canonicalPtr : DOMAIN bdds \cup {b}]
<1>1. S \subseteq T
  OBVIOUS
<1>2. Info(p, f) \in T
  BY InfoType
<1>3. bdds \in [DOMAIN bdds -> S]
  OBVIOUS
<1> HIDE DEF S, T
<1>4. With(bdds, b, Info(p, f)) \in [DOMAIN bdds \cup {b} -> T]
  BY <1>1, <1>2, <1>3, WithType
<1> QED BY <1>4 DEF T

LEMMA CoverMoves ==
  ASSUME cover \in Cover, NEW orders
  PROVE  After(orders) \in 1..(NumCovers + 1)
BY NumCoversAssumption DEF After, Cover

LEMMA TypeOKStep == IInv /\ [Next]_vars => TypeOK'
<1> SUFFICES ASSUME IInv, [Next]_vars PROVE TypeOK'
  OBVIOUS
<1> USE DEF IInv
<1>0. TypeOK
  OBVIOUS
<1>1. CASE FoundClass
  <2>1. fn[cover] \in SUBSET Assignment /\ cover \in Cover
    BY <1>0, <1>1 DEF FoundClass, TypeOK
  <2>2. bdds' = With(bdds, fn[cover], Info(Identity, fn[cover]))
        /\ perm' = With(perm, cover, Identity)
        /\ canonical' = With(canonical, cover, fn[cover])
        /\ todo' = Perm \ {Identity} /\ cover' = After(todo') /\ fn' = fn
    BY <1>1 DEF FoundClass
  <2>3. DOMAIN bdds' = DOMAIN bdds \cup {fn[cover]} /\ DOMAIN perm' = DOMAIN perm \cup {cover}
    BY <2>2 DEF With
  <2>4. bdds' \in [DOMAIN bdds' -> [permutation : Perm, canonicalPtr : DOMAIN bdds']]
    BY <1>0, <2>2, <2>3, IdentityIsPerm, EntriesType DEF TypeOK
  <2>5. perm' \in [DOMAIN perm' -> Perm]
    BY <1>0, <2>2, <2>3, IdentityIsPerm DEF TypeOK, With
  <2>6. canonical' \in [DOMAIN perm' -> DOMAIN bdds']
    BY <1>0, <2>2, <2>3 DEF TypeOK, With
  <2>7. cover' \in 1..(NumCovers + 1)
    BY <2>1, <2>2, CoverMoves
  <2> QED BY <1>0, <2>1, <2>2, <2>3, <2>4, <2>5, <2>6, <2>7 DEF TypeOK
<1>2. CASE EnterOrder
  <2>1. fn[cover] \in SUBSET Assignment /\ cover \in Cover /\ fn[cover] \in DOMAIN bdds
        /\ DOMAIN perm = 1..cover
    <3>1. todo # {}
      BY <1>2 DEF EnterOrder, NextOf
    <3> QED BY <1>0, <3>1 DEF TypeOK, Entering
  <2>2. PICK p \in NextOf(todo) :
          /\ IF Permuted(fn[cover], p) \in DOMAIN bdds THEN UNCHANGED <<bdds, perm>>
             ELSE /\ bdds' = With(bdds, Permuted(fn[cover], p), Info(p, fn[cover]))
                  /\ perm' = With(perm, cover, p)
          /\ todo' = todo \ {p}
    BY <1>2 DEF EnterOrder
  <2>3. p \in Perm
    BY <1>0, <2>2 DEF NextOf, TypeOK
  <2>4. cover' = After(todo') /\ fn' = fn /\ canonical' = canonical
    BY <1>2 DEF EnterOrder
  <2>5. cover' \in 1..(NumCovers + 1) /\ todo' \subseteq Perm
    BY <1>0, <2>1, <2>2, <2>4, CoverMoves DEF TypeOK
  <2>6. CASE Permuted(fn[cover], p) \in DOMAIN bdds
    BY <1>0, <2>2, <2>4, <2>5, <2>6 DEF TypeOK
  <2>7. CASE Permuted(fn[cover], p) \notin DOMAIN bdds
    <3> DEFINE b == Permuted(fn[cover], p)
    <3>1. b \in SUBSET Assignment
      BY <2>1, <2>3, PermutedType
    <3>2. bdds' = With(bdds, b, Info(p, fn[cover])) /\ perm' = With(perm, cover, p)
      BY <2>2, <2>7
    <3> HIDE DEF b
    <3>3. DOMAIN bdds' = DOMAIN bdds \cup {b} /\ DOMAIN perm' = DOMAIN perm
      <4>1. DOMAIN perm' = DOMAIN perm \cup {cover}
        BY <3>2 DEF With
      <4>2. cover \in DOMAIN perm
        BY <2>1, NumCoversAssumption DEF Cover
      <4> QED BY <3>2, <4>1, <4>2 DEF With
    <3>4. bdds' \in [DOMAIN bdds' -> [permutation : Perm, canonicalPtr : DOMAIN bdds']]
      BY <1>0, <2>1, <2>3, <3>2, <3>3, EntriesType DEF TypeOK
    <3>5. perm' \in [DOMAIN perm' -> Perm]
      BY <1>0, <2>3, <3>2, <3>3 DEF TypeOK, With
    <3>6. canonical' \in [DOMAIN perm' -> DOMAIN bdds']
      BY <1>0, <2>4, <3>3 DEF TypeOK
    <3> QED BY <1>0, <2>4, <2>5, <3>1, <3>3, <3>4, <3>5, <3>6 DEF TypeOK
  <2> QED BY <2>6, <2>7
<1>3. CASE JoinClass
  <2>1. /\ cover \in Cover /\ fn[cover] \in DOMAIN bdds
        /\ perm' = With(perm, cover, bdds[fn[cover]].permutation)
        /\ canonical' = With(canonical, cover, bdds[fn[cover]].canonicalPtr)
        /\ cover' = cover + 1 /\ fn' = fn /\ bdds' = bdds /\ todo' = todo
    BY <1>3 DEF JoinClass
  <2>2. bdds[fn[cover]].permutation \in Perm /\ bdds[fn[cover]].canonicalPtr \in DOMAIN bdds
    BY <1>0, <2>1 DEF TypeOK
  <2>3. DOMAIN perm' = DOMAIN perm \cup {cover}
    BY <2>1 DEF With
  <2>4. perm' \in [DOMAIN perm' -> Perm]
    BY <1>0, <2>1, <2>2, <2>3 DEF TypeOK, With
  <2>5. canonical' \in [DOMAIN perm' -> DOMAIN bdds']
    BY <1>0, <2>1, <2>2, <2>3 DEF TypeOK, With
  <2>6. cover' \in 1..(NumCovers + 1)
    BY <2>1, NumCoversAssumption DEF Cover
  <2> QED BY <1>0, <2>1, <2>3, <2>4, <2>5, <2>6 DEF TypeOK
<1>4. CASE UNCHANGED vars
  BY <1>0, <1>4 DEF TypeOK, vars, Perm, Pos, Assignment, Cover
<1> QED BY <1>1, <1>2, <1>3, <1>4 DEF Next
-----------------------------------------------------------------------------
(* No entry is ever changed.                                               *)
Grows ==
  /\ DOMAIN bdds \subseteq DOMAIN bdds'
  /\ \A f \in DOMAIN bdds : bdds'[f] = bdds[f]

LEMMA GrowthKeeps ==
  ASSUME Grows
  PROVE  /\ \A f \in DOMAIN bdds : EntryOK(f) => EntryOK(f)'
         /\ \A f \in DOMAIN bdds : \A p : HasOrder(f, p) => HasOrder(f, p)'
BY DEF Grows, EntryOK, HasOrder

LEMMA WithGrows ==
  ASSUME NEW f, NEW v, f \notin DOMAIN bdds, bdds' = With(bdds, f, v)
  PROVE  Grows /\ DOMAIN bdds' = DOMAIN bdds \cup {f} /\ bdds'[f] = v
<1>1. /\ DOMAIN With(bdds, f, v) = DOMAIN bdds \cup {f}
      /\ With(bdds, f, v)[f] = v
      /\ \A y \in DOMAIN bdds : y # f => With(bdds, f, v)[y] = bdds[y]
  BY DEF With
<1>2. \A y \in DOMAIN bdds : y # f
  OBVIOUS
<1> QED BY <1>1, <1>2 DEF Grows

LEMMA FoundClassStep ==
  ASSUME IInv, FoundClass
  PROVE  EntriesOK' /\ OrbitsEntered' /\ Entering' /\ CoversOK'
<1> USE DEF IInv
<1>0. PICK f0, c0 : f0 = fn[cover] /\ c0 = cover
  OBVIOUS
<1>1. /\ cover \in Cover /\ todo = {} /\ f0 \notin DOMAIN bdds
      /\ bdds' = With(bdds, f0, Info(Identity, f0))
      /\ perm' = With(perm, cover, Identity)
      /\ canonical' = With(canonical, cover, f0)
      /\ todo' = Perm \ {Identity} /\ cover' = After(todo') /\ fn' = fn
  BY <1>0 DEF FoundClass
<1>2. f0 \in SUBSET Assignment
  BY <1>0, <1>1 DEF TypeOK
<1>3. Grows /\ DOMAIN bdds' = DOMAIN bdds \cup {f0}
      /\ bdds'[f0].permutation = Identity /\ bdds'[f0].canonicalPtr = f0
  <2>1. Grows /\ DOMAIN bdds' = DOMAIN bdds \cup {f0} /\ bdds'[f0] = Info(Identity, f0)
    BY <1>1, WithGrows
  <2> QED BY <2>1 DEF Info
<1>4. Permuted(f0, Identity) = f0
  BY <1>2, PermutedIdentity
<1>5. DOMAIN perm = 1..(cover - 1) /\ DOMAIN canonical = DOMAIN perm
  BY <1>1 DEF Entering, TypeOK
<1>6. DOMAIN perm' = 1..cover /\ DOMAIN canonical' = 1..cover
  <2>1. DOMAIN perm' = DOMAIN perm \cup {cover} /\ DOMAIN canonical' = DOMAIN perm \cup {cover}
    BY <1>1, <1>5 DEF With
  <2>2. 1..(cover - 1) \cup {cover} = 1..cover
    BY <1>1, NumCoversAssumption DEF Cover
  <2> QED BY <1>5, <2>1, <2>2
<1>7. /\ canonical'[cover] = f0
      /\ \A c \in 1..(cover - 1) : canonical'[c] = canonical[c] /\ perm'[c] = perm[c]
  <2>1. \A c \in 1..(cover - 1) : c # cover
    BY <1>1, NumCoversAssumption DEF Cover
  <2> QED BY <1>1, <1>5, <2>1 DEF With
<1>8. \A c \in 1..(cover - 1) : canonical[c] \in DOMAIN bdds
  BY <1>5 DEF TypeOK
<1>9. EntriesOK'
  <2>1. \A f \in DOMAIN bdds : EntryOK(f)'
    BY <1>3, GrowthKeeps DEF EntriesOK
  <2>2. EntryOK(f0)'
    <3>1. bdds'[f0].canonicalPtr \in DOMAIN bdds'
          /\ bdds'[bdds'[f0].canonicalPtr].canonicalPtr = bdds'[f0].canonicalPtr
          /\ f0 = Permuted(bdds'[f0].canonicalPtr, bdds'[f0].permutation)
      BY <1>3, <1>4
    <3> QED BY <3>1 DEF EntryOK
  <2>3. \A f \in DOMAIN bdds' : EntryOK(f)'
    BY <1>3, <2>1, <2>2
  <2> QED BY <2>3 DEF EntriesOK
<1>10. OrbitsEntered'
  <2> SUFFICES ASSUME NEW f \in DOMAIN bdds', bdds'[f].canonicalPtr = f, NEW p \in EnteredFor(f)'
               PROVE  HasOrder(f, p)'
    BY DEF OrbitsEntered
  <2>1. CASE f \in DOMAIN bdds
    <3>1. f # f0 /\ bdds[f].canonicalPtr = f
      BY <1>0, <1>1, <1>3, <2>1 DEF Grows
    <3>2. p \in EnteredFor(f)
      BY <1>1 DEF EnteredFor
    <3> QED BY <1>3, <2>1, <3>1, <3>2, GrowthKeeps DEF OrbitsEntered
  <2>2. CASE f = f0
    <3>1. CASE cover' = cover /\ todo' # {}
      <4>1. p = Identity
        BY <1>0, <1>1, <2>2, <3>1 DEF EnteredFor
      <4> QED BY <1>3, <1>4, <2>2, <4>1 DEF HasOrder
    <3>2. CASE todo' = {}
      <4>1. p = Identity
        BY <1>1, <3>2 DEF EnteredFor
      <4> QED BY <1>3, <1>4, <2>2, <4>1 DEF HasOrder
    <3> QED BY <1>1, <3>1, <3>2 DEF After
  <2> QED BY <1>3, <2>1, <2>2
<1>11. Founder(c0)'
  BY <1>0, <1>1, <1>6, <1>7, <1>8, NumCoversAssumption DEF Founder, Cover
<1>12. Entering'
  <2>1. CASE todo' = {}
    <3>1. cover' = cover + 1 /\ cover' - 1 = cover
      BY <1>1, <2>1, NumCoversAssumption DEF After, Cover
    <3> QED BY <1>6, <2>1, <3>1 DEF Entering
  <2>2. CASE todo' # {}
    <3>1. cover' = cover
      BY <1>1, <2>2 DEF After
    <3>2. fn'[cover'] = f0
      BY <1>0, <1>1, <3>1
    <3>3. Founder(cover)'
      BY <1>0, <1>11, <3>1 DEF Founder
    <3> QED BY <1>1, <1>3, <1>6, <2>2, <3>1, <3>2, <3>3 DEF Entering
  <2> QED BY <2>1, <2>2
<1>13. CoversOK'
  <2> SUFFICES ASSUME NEW c \in 1..cover PROVE CoverOK(c)'
    BY <1>6 DEF CoversOK
  <2>1. CASE c = cover
    BY <1>0, <1>1, <1>3, <1>7, <1>11, <2>1 DEF CoverOK
  <2>2. CASE c # cover
    <3>1. c \in 1..(cover - 1)
      BY <1>1, <2>2, NumCoversAssumption DEF Cover
    <3>2. CoverOK(c) /\ fn'[c] = fn[c] /\ bdds'[fn[c]] = bdds[fn[c]] /\ fn[c] \in DOMAIN bdds'
      BY <1>1, <1>3, <1>5, <3>1 DEF CoversOK, CoverOK, Grows
    <3>3. Founder(c) => Founder(c)'
      <4>1. \A d \in 1..cover : d < c => d \in 1..(cover - 1)
        BY <1>1, NumCoversAssumption DEF Cover
      <4> QED BY <1>5, <1>6, <1>7, <3>1, <4>1 DEF Founder
    <3> QED BY <1>7, <3>1, <3>2, <3>3 DEF CoverOK
  <2> QED BY <2>1, <2>2
<1> QED BY <1>9, <1>10, <1>12, <1>13

(* An order of the founder whose function is there already belongs to the  *)
(* founder's own class: another class would have entered the founder too.  *)
LEMMA NoOtherClass ==
  ASSUME IInv, todo # {}, NEW p \in Perm, Permuted(fn[cover], p) \in DOMAIN bdds
  PROVE  bdds[Permuted(fn[cover], p)].canonicalPtr = fn[cover]
<1> USE DEF IInv
<1>0. PICK f0, b : f0 = fn[cover] /\ b = Permuted(f0, p)
  OBVIOUS
<1>1. f0 \in DOMAIN bdds /\ bdds[f0].canonicalPtr = f0 /\ f0 \in SUBSET Assignment
      /\ b \in DOMAIN bdds
  BY <1>0 DEF Entering, TypeOK
<1>2. PICK k, r : k = bdds[b].canonicalPtr /\ r = bdds[b].permutation
  OBVIOUS
<1>3. /\ k \in DOMAIN bdds /\ bdds[k].canonicalPtr = k /\ b = Permuted(k, r)
      /\ r \in Perm /\ k \in SUBSET Assignment
  BY <1>1, <1>2 DEF EntriesOK, EntryOK, TypeOK
<1>4. InverseOf(p) \in Perm /\ Compose(r, InverseOf(p)) \in Perm
  BY <1>3, InverseIsPerm, ComposeIsPerm
<1>5. f0 = Permuted(k, Compose(r, InverseOf(p)))
  <2>1. f0 = Permuted(b, InverseOf(p))
    BY <1>0, <1>1, PermutedInverse
  <2> QED BY <1>3, <1>4, <2>1, PermutedCompose
<1>6. SUFFICES ASSUME k # f0 PROVE FALSE
  BY <1>0, <1>2
<1>7. HasOrder(k, Compose(r, InverseOf(p)))
  BY <1>0, <1>3, <1>4, <1>6 DEF OrbitsEntered, EnteredFor
<1> QED BY <1>1, <1>5, <1>6, <1>7 DEF HasOrder

LEMMA EnterOrderStep ==
  ASSUME IInv, EnterOrder
  PROVE  EntriesOK' /\ OrbitsEntered' /\ Entering' /\ CoversOK'
<1> USE DEF IInv
<1>0. PICK p \in NextOf(todo) :
        /\ IF Permuted(fn[cover], p) \in DOMAIN bdds THEN UNCHANGED <<bdds, perm>>
           ELSE /\ bdds' = With(bdds, Permuted(fn[cover], p), Info(p, fn[cover]))
                /\ perm' = With(perm, cover, p)
        /\ todo' = todo \ {p}
  BY DEF EnterOrder
<1>1. PICK f0, c0, b : f0 = fn[cover] /\ c0 = cover /\ b = Permuted(f0, p)
  OBVIOUS
<1>2. /\ p \in todo /\ p \in Perm /\ todo # {} /\ cover' = After(todo')
      /\ fn' = fn /\ canonical' = canonical
  BY <1>0 DEF EnterOrder, NextOf, TypeOK
<1>3. /\ c0 \in Cover /\ f0 \in DOMAIN bdds /\ bdds[f0].canonicalPtr = f0 /\ Founder(c0)
      /\ DOMAIN perm = 1..c0 /\ DOMAIN canonical = 1..c0
  BY <1>1, <1>2 DEF Entering, TypeOK
<1>4. b \in DOMAIN bdds => bdds[b].canonicalPtr = f0
  BY <1>1, <1>2, NoOtherClass
<1>5. /\ Grows /\ b \in DOMAIN bdds' /\ bdds'[b].canonicalPtr = f0
      /\ DOMAIN bdds' = DOMAIN bdds \cup {b}
      /\ b \notin DOMAIN bdds => bdds'[b].permutation = p
      /\ DOMAIN perm' = 1..c0 /\ \A c \in 1..c0 : c # c0 => perm'[c] = perm[c]
  <2>1. CASE b \in DOMAIN bdds
    BY <1>0, <1>1, <1>3, <1>4, <2>1 DEF Grows
  <2>2. CASE b \notin DOMAIN bdds
    <3>1. bdds' = With(bdds, b, Info(p, f0)) /\ perm' = With(perm, c0, p)
      BY <1>0, <1>1, <2>2
    <3>2. Grows /\ DOMAIN bdds' = DOMAIN bdds \cup {b} /\ bdds'[b] = Info(p, f0)
      BY <2>2, <3>1, WithGrows
    <3>3. c0 \in 1..c0
      BY <1>3, NumCoversAssumption DEF Cover
    <3>4. DOMAIN perm' = 1..c0 /\ \A c \in 1..c0 : c # c0 => perm'[c] = perm[c]
      BY <1>3, <3>1, <3>3 DEF With
    <3> QED BY <2>2, <3>2, <3>4 DEF Info
  <2> QED BY <2>1, <2>2
<1>6. EntriesOK'
  <2>1. \A f \in DOMAIN bdds : EntryOK(f)'
    BY <1>5, GrowthKeeps DEF EntriesOK
  <2>2. ASSUME b \notin DOMAIN bdds PROVE EntryOK(b)'
    <3>1. bdds'[f0] = bdds[f0] /\ f0 \in DOMAIN bdds'
      BY <1>3, <1>5 DEF Grows
    <3> QED BY <1>1, <1>3, <1>5, <2>2, <3>1 DEF EntryOK
  <2>3. \A f \in DOMAIN bdds' : EntryOK(f)'
    BY <1>5, <2>1, <2>2
  <2> QED BY <2>3 DEF EntriesOK
<1>7. HasOrder(f0, p)'
  BY <1>1, <1>5 DEF HasOrder
<1>8. OrbitsEntered'
  <2> SUFFICES ASSUME NEW f \in DOMAIN bdds', bdds'[f].canonicalPtr = f, NEW q \in EnteredFor(f)'
               PROVE  HasOrder(f, q)'
    BY DEF OrbitsEntered
  <2>1. f \in DOMAIN bdds /\ bdds[f].canonicalPtr = f
    BY <1>3, <1>5 DEF Grows
  <2>2. CASE q \in EnteredFor(f)
    BY <1>5, <2>1, <2>2, GrowthKeeps DEF OrbitsEntered
  <2>3. CASE q \notin EnteredFor(f)
    <3>1. q \in Perm
      BY DEF EnteredFor
    <3>2. f = f0 /\ q \in todo
      BY <1>1, <2>3, <3>1 DEF EnteredFor
    <3>3. q \notin todo'
      <4>1. CASE todo' = {}
        BY <4>1
      <4>2. CASE todo' # {}
        <5>1. cover' = cover
          BY <1>2, <4>2 DEF After
        <5> QED BY <1>1, <1>2, <3>2, <4>2, <5>1 DEF EnteredFor
      <4> QED BY <4>1, <4>2
    <3>4. q = p
      BY <1>0, <3>2, <3>3
    <3> QED BY <1>7, <3>2, <3>4
  <2> QED BY <2>2, <2>3
<1>9. Founder(c0)'
  BY <1>2, <1>3 DEF Founder
<1>10. Entering'
  <2>1. CASE todo' = {}
    <3>1. cover' = cover + 1 /\ cover' - 1 = c0
      BY <1>1, <1>2, <1>3, <2>1, NumCoversAssumption DEF After, Cover
    <3> QED BY <1>5, <2>1, <3>1 DEF Entering
  <2>2. CASE todo' # {}
    <3>1. cover' = c0 /\ fn'[cover'] = f0
      BY <1>1, <1>2, <2>2 DEF After
    <3>2. Founder(cover)'
      BY <1>9, <3>1 DEF Founder
    <3>3. f0 \in DOMAIN bdds' /\ bdds'[f0].canonicalPtr = f0
      BY <1>3, <1>5 DEF Grows
    <3> QED BY <1>3, <1>5, <2>2, <3>1, <3>2, <3>3 DEF Entering
  <2> QED BY <2>1, <2>2
<1>11. CoversOK'
  <2> SUFFICES ASSUME NEW c \in 1..c0 PROVE CoverOK(c)'
    BY <1>2, <1>3 DEF CoversOK
  <2>1. CoverOK(c) /\ fn'[c] = fn[c] /\ bdds'[fn[c]] = bdds[fn[c]] /\ fn[c] \in DOMAIN bdds'
    BY <1>2, <1>3, <1>5 DEF CoversOK, CoverOK, Grows
  <2>2. Founder(c) => Founder(c)'
    BY <1>2 DEF Founder
  <2>3. CASE c = c0
    BY <1>2, <1>9, <2>1, <2>3 DEF CoverOK
  <2>4. CASE c # c0
    BY <1>2, <1>5, <2>1, <2>2, <2>4 DEF CoverOK
  <2> QED BY <2>3, <2>4
<1> QED BY <1>6, <1>8, <1>10, <1>11

LEMMA JoinClassStep ==
  ASSUME IInv, JoinClass
  PROVE  EntriesOK' /\ OrbitsEntered' /\ Entering' /\ CoversOK'
<1> USE DEF IInv
<1>1. PICK c0 : c0 = cover
  OBVIOUS
<1>2. /\ c0 \in Cover /\ todo = {} /\ fn[c0] \in DOMAIN bdds
      /\ perm' = With(perm, c0, bdds[fn[c0]].permutation)
      /\ canonical' = With(canonical, c0, bdds[fn[c0]].canonicalPtr)
      /\ cover' = c0 + 1 /\ fn' = fn /\ bdds' = bdds /\ todo' = todo
  BY <1>1 DEF JoinClass
<1>3. Grows
  BY <1>2 DEF Grows
<1>4. EntriesOK' /\ OrbitsEntered'
  <2>1. EntriesOK'
    BY <1>2 DEF EntriesOK, EntryOK
  <2>2. \A f : EnteredFor(f)' = Perm /\ EnteredFor(f) = Perm
    BY <1>2 DEF EnteredFor
  <2>3. \A f, p : HasOrder(f, p) => HasOrder(f, p)'
    BY <1>2 DEF HasOrder
  <2> QED BY <1>2, <2>1, <2>2, <2>3 DEF OrbitsEntered
<1>5. DOMAIN perm = 1..(c0 - 1) /\ DOMAIN canonical = 1..(c0 - 1)
  BY <1>1, <1>2 DEF Entering, TypeOK
<1>6. 1..(c0 - 1) \cup {c0} = 1..c0 /\ c0 \notin 1..(c0 - 1) /\ cover' - 1 = c0
  BY <1>2, NumCoversAssumption DEF Cover
<1>7. DOMAIN perm' = 1..c0 /\ DOMAIN canonical' = 1..c0
  BY <1>2, <1>5, <1>6 DEF With
<1>8. /\ canonical'[c0] = bdds[fn[c0]].canonicalPtr /\ perm'[c0] = bdds[fn[c0]].permutation
      /\ \A c \in 1..(c0 - 1) : canonical'[c] = canonical[c] /\ perm'[c] = perm[c]
  BY <1>2, <1>5, <1>6 DEF With
<1>9. Entering'
  BY <1>2, <1>6, <1>7 DEF Entering
<1>10. CoversOK'
  <2> SUFFICES ASSUME NEW c \in 1..c0 PROVE CoverOK(c)'
    BY <1>7 DEF CoversOK
  <2>1. CASE c = c0
    BY <1>2, <1>8, <2>1 DEF CoverOK
  <2>2. CASE c # c0
    <3>1. c \in 1..(c0 - 1)
      BY <1>2, <2>2, NumCoversAssumption DEF Cover
    <3>2. CoverOK(c)
      BY <1>5, <3>1 DEF CoversOK
    <3>3. Founder(c) => Founder(c)'
      <4>1. \A d \in 1..c0 : d < c => d \in 1..(c0 - 1)
        BY <1>2, NumCoversAssumption DEF Cover
      <4> QED BY <1>5, <1>7, <1>8, <3>1, <4>1 DEF Founder
    <3> QED BY <1>2, <1>8, <3>1, <3>2, <3>3 DEF CoverOK
  <2> QED BY <2>1, <2>2
<1> QED BY <1>4, <1>9, <1>10

LEMMA IInvStep == IInv /\ [Next]_vars => IInv'
<1> SUFFICES ASSUME IInv, [Next]_vars PROVE IInv'
  OBVIOUS
<1>1. TypeOK'
  BY TypeOKStep
<1>2. EntriesOK' /\ OrbitsEntered' /\ Entering' /\ CoversOK'
  <2>1. CASE UNCHANGED vars
    BY <2>1 DEF vars, IInv, EntriesOK, EntryOK, OrbitsEntered, EnteredFor, HasOrder, Entering,
                Founder, CoversOK, CoverOK
  <2> QED BY <2>1, FoundClassStep, EnterOrderStep, JoinClassStep DEF Next
<1> QED BY <1>1, <1>2 DEF IInv

LEMMA IInvHolds == Spec => []IInv
BY InitEstablishesIInv, IInvStep, PTL DEF Spec
-----------------------------------------------------------------------------
(* The entries of createFunction stay of their types: every function in    *)
(* the table has an order of the inputs and a canonical function that is   *)
(* in the table, and every cover met has a permutation and a class.        *)
THEOREM TableTypeCorrect == Spec => []TypeOK
<1>1. IInv => TypeOK
  BY DEF IInv
<1> QED BY <1>1, IInvHolds, PTL

(* Two functions that have been entered are in the same class just if one  *)
(* is the other under an order of the inputs, in whatever order            *)
(* kcover_analysis brings the covers to createFunction.                    *)
THEOREM ClassesAreWholeOrbits == Spec => []ClassesAreOrbits
<1>1. ASSUME IInv, todo = {}, NEW f \in DOMAIN bdds, NEW g \in DOMAIN bdds
      PROVE  bdds[f].canonicalPtr = bdds[g].canonicalPtr <=> \E p \in Perm : g = Permuted(f, p)
  <2> USE <1>1 DEF IInv
  <2>1. PICK k, q, h, r : /\ k = bdds[f].canonicalPtr /\ q = bdds[f].permutation
                          /\ h = bdds[g].canonicalPtr /\ r = bdds[g].permutation
    OBVIOUS
  <2>2. /\ k \in DOMAIN bdds /\ bdds[k].canonicalPtr = k /\ f = Permuted(k, q)
        /\ q \in Perm /\ r \in Perm /\ g = Permuted(h, r)
        /\ k \in SUBSET Assignment /\ f \in SUBSET Assignment
    BY <2>1 DEF EntriesOK, EntryOK, TypeOK
  <2>3. ASSUME k = h PROVE \E p \in Perm : g = Permuted(f, p)
    <3>1. InverseOf(q) \in Perm /\ Compose(InverseOf(q), r) \in Perm
      BY <2>2, InverseIsPerm, ComposeIsPerm
    <3>2. k = Permuted(f, InverseOf(q))
      BY <2>2, PermutedInverse
    <3>3. g = Permuted(f, Compose(InverseOf(q), r))
      BY <2>2, <2>3, <3>1, <3>2, PermutedCompose
    <3> QED BY <3>1, <3>3
  <2>4. ASSUME NEW p \in Perm, g = Permuted(f, p) PROVE k = h
    <3>1. Compose(q, p) \in Perm /\ g = Permuted(k, Compose(q, p))
      BY <2>2, <2>4, PermutedCompose, ComposeIsPerm
    <3>2. HasOrder(k, Compose(q, p))
      BY <2>2, <3>1 DEF OrbitsEntered, EnteredFor
    <3> QED BY <2>1, <3>1, <3>2 DEF HasOrder
  <2> QED BY <2>1, <2>3, <2>4
<1>2. IInv => ClassesAreOrbits
  BY <1>1 DEF ClassesAreOrbits
<1> QED BY <1>2, IInvHolds, PTL

(* bitslice_t reads the leaf of a part off xs, where the order of the      *)
(* cover is undone.                                                        *)
LEMMA LeafIsInverse ==
  ASSUME NEW c, perm[c] \in Perm, NEW i \in Pos
  PROVE  xs(c, i) = InverseOf(perm[c])[i]
BY DEF xs, InverseOf

(* Whatever function of a class an analysis looks up, each cover of the    *)
(* class but its founder has its leaves in the parts that the permutation  *)
(* of that function names, for covers of any size.                         *)
THEOREM LeavesPlayTheirParts == Spec => []LeavesInRole
<1>1. ASSUME IInv, NEW f \in DOMAIN bdds, NEW c \in Class(f), ~Founder(c)
      PROVE  InRole(c, f)
  <2> USE <1>1 DEF IInv
  <2>1. PICK k, q, r, g : /\ k = canonical[c] /\ q = perm[c]
                          /\ r = bdds[f].permutation /\ g = fn[c]
    OBVIOUS
  <2>2. /\ c \in DOMAIN canonical /\ bdds[f].canonicalPtr = k /\ c \in Cover
        /\ g \in DOMAIN bdds /\ bdds[g].canonicalPtr = k /\ q = bdds[g].permutation
    BY <2>1 DEF Class, CoversOK, CoverOK, TypeOK
  <2>3. /\ f = Permuted(k, r) /\ g = Permuted(k, q) /\ q \in Perm /\ r \in Perm
        /\ k \in SUBSET Assignment /\ g \in SUBSET Assignment
    BY <2>1, <2>2 DEF EntriesOK, EntryOK, TypeOK
  <2>4. PICK m, n : m = InverseOf(q) /\ n = InverseOf(r)
    OBVIOUS
  <2>5. /\ m \in Perm /\ n \in Perm /\ Compose(m, r) \in Perm
        /\ \A i \in Pos : q[m[i]] = i /\ m[q[i]] = i /\ r[n[i]] = i /\ n[r[i]] = i
    BY <2>3, <2>4, InverseIsPerm, ComposeIsPerm
  <2>6. \A i \in Pos : LeafFor(c, f, i) = Compose(m, r)[i]
    <3> SUFFICES ASSUME NEW i \in Pos PROVE LeafFor(c, f, i) = Compose(m, r)[i]
      OBVIOUS
    <3>1. r[i] \in Pos
      BY <2>3 DEF Perm
    <3>2. xs(c, r[i]) = m[r[i]]
      BY <2>1, <2>3, <2>4, <3>1, LeafIsInverse
    <3> QED BY <2>1, <3>2 DEF LeafFor, Compose
  <2>7. f = Permuted(g, Compose(m, r))
    <3>1. k = Permuted(g, m)
      BY <2>3, <2>4, PermutedInverse
    <3> QED BY <2>3, <2>5, <3>1, PermutedCompose
  <2>8. PICK d \in Perm : d = Compose(m, r)
    BY <2>5
  <2>9. \A u \in Assignment : [i \in Pos |-> u[LeafFor(c, f, i)]] = [i \in Pos |-> u[d[i]]]
    BY <2>6, <2>8
  <2>10. \A u \in Assignment : u \in g <=> [i \in Pos |-> u[d[i]]] \in f
    <3> TAKE u \in Assignment
    <3>1. u \in g => [i \in Pos |-> u[d[i]]] \in f
      BY <2>7, <2>8 DEF Permuted
    <3>2. ASSUME [i \in Pos |-> u[d[i]]] \in f PROVE u \in g
      <4>1. PICK v \in g : [i \in Pos |-> u[d[i]]] = [i \in Pos |-> v[d[i]]]
        BY <2>7, <2>8, <3>2 DEF Permuted
      <4>2. \A i \in Pos : u[d[i]] = v[d[i]]
        BY <4>1
      <4>3. \A i \in Pos : u[i] = v[i]
        BY <4>2, PermOnto
      <4>4. v \in Assignment
        BY <2>3
      <4> QED BY <4>3, <4>4 DEF Assignment
    <3> QED BY <3>1, <3>2
  <2>11. g = {u \in Assignment : [i \in Pos |-> u[LeafFor(c, f, i)]] \in f}
    BY <2>3, <2>9, <2>10
  <2> QED BY <2>1, <2>11 DEF InRole
<1>2. IInv => LeavesInRole
  BY <1>1 DEF LeavesInRole
<1> QED BY <1>2, IInvHolds, PTL
=============================================================================
