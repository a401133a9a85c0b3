---------------------------- MODULE AnalysesProofs ----------------------------
(***************************************************************************)
(* Theorems about the latch connections, and about the searches for shift  *)
(* registers and counters that run along them, for every netlist.          *)
(*                                                                         *)
(* That the two fixpoints of the connections agree needs no path: what is  *)
(* driven so far stays inside what any family of sets allows that is       *)
(* closed under the rules for driving latches, and the other way round.    *)
(* At the end each fixpoint is such a family for the other.                *)
(* That a path is the only one does need the paths: they are a recursive   *)
(* function, and what holds of them goes up along the order of the walk.   *)
(***************************************************************************)
EXTENDS Counters, LatchConnectionsProps, FiniteSetTheorems, SequenceTheorems, WellFoundedInduction,
        TLAPS

LG == Latch \cup Gate
Families == [Node -> SUBSET Node]

(* Closed under what update_driving_latches does at a node.                *)
DrivingClosedAt(B, n) ==
  \A i \in In(n) \ {netlist.si[n]} :
    /\ i \in Latch => i \in B[n]
    /\ i \in Gate => B[i] \subseteq B[n]
(* Closed under what update_driven_latches does at a node.                 *)
DrivenClosedAt(F, n) ==
  \A m \in Fanouts(n) :
    /\ m \in Latch => m \in F[n]
    /\ m \in Gate /\ netlist.si[m] # n => F[m] \subseteq F[n]

DrivingClosed(B) == \A n \in LG : DrivingClosedAt(B, n)
DrivenClosed(F) == \A n \in LG : DrivenClosedAt(F, n)

(* What a node may drive if B is closed, and be driven by if F is.         *)
MayDrive(B, n) == {x \in Latch : (n \in Latch => n \in B[x]) /\ (n \in Gate => B[n] \subseteq B[x])}
MayBeDrivenBy(F, n) == {x \in Latch : (n \in Latch => n \in F[x]) /\ (n \in Gate => F[n] \subseteq F[x])}

NetOK == netlist \in Netlists

(* Macros have nothing until their own walk.                               *)
DrivenMacrosEmpty == phase = "driven" => \A n \in Node \ LG : driven[n] = {}
DrivingMacrosEmpty ==
  phase \in {"driven", "drivenMacros", "driving"} => \A n \in Node \ LG : driving[n] = {}

DrivenSound ==
  \A B \in Families : DrivingClosed(B) => \A n \in LG : driven[n] \subseteq MayDrive(B, n)
DrivingSound ==
  \A F \in Families : DrivenClosed(F) => \A n \in LG : driving[n] \subseteq MayBeDrivenBy(F, n)

(* As long as nothing changes the nodes passed are closed.                 *)
DrivenComplete ==
  /\ phase = "driven" /\ ~changed => \A n \in LG \ left : DrivenClosedAt(driven, n)
  /\ phase # "driven" => DrivenClosed(driven)
DrivingComplete ==
  /\ phase = "driving" /\ ~changed => \A n \in LG \ left : DrivingClosedAt(driving, n)
  /\ phase \in {"drivingMacros", "paths", "done"} => DrivingClosed(driving)

(* A latch came to a node over one of its pins, and not the scan input.    *)
CameOverAPin ==
  \A n \in LG : \A l \in driving[n] :
    \E i \in In(n) \ {netlist.si[n]} : i = l \/ (i \notin Latch /\ l \in driving[i])

IInv == /\ NetOK /\ TypeOK /\ DrivenMacrosEmpty /\ DrivingMacrosEmpty
        /\ DrivenSound /\ DrivingSound /\ DrivenComplete /\ DrivingComplete /\ CameOverAPin
-----------------------------------------------------------------------------
LEMMA LessThanWellFounded ==
  IsWellFoundedOn({p \in Nat \X Nat : p[1] < p[2]}, Nat)
BY NatLessThanWellFounded DEF OpToRel

LEMMA LeastNat ==
  ASSUME NEW T \in SUBSET Nat, T # {}
  PROVE  \E x \in T : \A y \in T : x <= y
<1> DEFINE R == {p \in Nat \X Nat : p[1] < p[2]}
<1>1. IsWellFoundedOn(R, Nat)
  BY LessThanWellFounded
<1>2. \E x \in T : \A y \in T : ~(<<y, x>> \in R)
  <2> HIDE DEF R
  <2> QED BY <1>1, WFMin
<1>3. PICK x \in T : \A y \in T : ~(<<y, x>> \in R)
  BY <1>2
<1>4. ASSUME NEW y \in T PROVE x <= y
  <2>1. x \in Nat /\ y \in Nat
    OBVIOUS
  <2>2. <<y, x>> \notin {p \in Nat \X Nat : p[1] < p[2]}
    BY <1>3
  <2> QED BY <2>1, <2>2
<1> QED BY <1>4

(* What the shape of a netlist gives.                                      *)
LEMMA NetFacts ==
  ASSUME NetOK
  PROVE  /\ IsNetlist(netlist)
         /\ \A n \in Node : In(n) \subseteq Node /\ Fanouts(n) \subseteq Node
         /\ \A n, m \in Node : m \in Fanouts(n) <=> n \in In(m)
         /\ \A n \in Latch : netlist.si[n] = NoNode /\ n \notin Gate
         /\ Latch \subseteq Node /\ Gate \subseteq Node /\ NoNode \notin Node
         /\ Macros \subseteq Node /\ Macros \cap LG = {}
<1>1. IsNetlist(netlist)
  BY NetlistsAssumption DEF NetOK
<1>2. \A n \in Node : In(n) \subseteq Node
  BY <1>1 DEF IsNetlist, In, Pins, inputs
<1>3. \A n \in Latch : netlist.si[n] = NoNode
  BY <1>1 DEF IsNetlist, Latch, OfKind
<1> QED
  BY <1>1, <1>2, <1>3, NoNodeAssumption DEF Fanouts, Latch, Gate, OfKind, Macros, LG

(* Nothing about the netlist changes.                                      *)
LEMMA NetUnchanged ==
  ASSUME netlist' = netlist
  PROVE  /\ Latch' = Latch /\ Gate' = Gate /\ LG' = LG /\ Macros' = Macros
         /\ \A n : In(n)' = In(n) /\ Fanouts(n)' = Fanouts(n)
         /\ \A p : Walked(p)' = Walked(p)
         /\ \A B, n : DrivingClosedAt(B, n)' <=> DrivingClosedAt(B, n)
         /\ \A B, n : DrivenClosedAt(B, n)' <=> DrivenClosedAt(B, n)
         /\ \A B : DrivingClosed(B)' <=> DrivingClosed(B)
         /\ \A B : DrivenClosed(B)' <=> DrivenClosed(B)
         /\ \A B, n : MayDrive(B, n)' = MayDrive(B, n)
         /\ \A B, n : MayBeDrivenBy(B, n)' = MayBeDrivenBy(B, n)
<1>1. /\ Latch' = Latch /\ Gate' = Gate /\ LG' = LG /\ Macros' = Macros
      /\ \A n : In(n)' = In(n) /\ Fanouts(n)' = Fanouts(n)
  BY DEF Latch, Gate, OfKind, LG, Macros, In, Fanouts, Pins, inputs
<1>2. \A p : Walked(p)' = Walked(p)
  BY <1>1 DEF Walked
<1>3. \A B, n : /\ DrivingClosedAt(B, n)' <=> DrivingClosedAt(B, n)
                /\ DrivenClosedAt(B, n)' <=> DrivenClosedAt(B, n)
  BY <1>1 DEF DrivingClosedAt, DrivenClosedAt
<1>4. \A B, n : MayDrive(B, n)' = MayDrive(B, n) /\ MayBeDrivenBy(B, n)' = MayBeDrivenBy(B, n)
  BY <1>1 DEF MayDrive, MayBeDrivenBy
<1> QED
  BY <1>1, <1>2, <1>3, <1>4 DEF DrivingClosed, DrivenClosed

(* What UpdateDriven and UpdateDriving add.                                *)
LEMMA DrivenOverFacts ==
  ASSUME NetOK, TypeOK, NEW n \in Node
  PROVE  /\ DrivenOver(n) \subseteq Latch
         /\ \A x \in DrivenOver(n) :
              \E m \in Fanouts(n) :
                (m \in Latch /\ x = m) \/ (m \notin Latch /\ netlist.si[m] # n /\ x \in driven[m])
         /\ \A m \in Fanouts(n) :
              /\ m \in Latch => m \in DrivenOver(n)
              /\ m \in Gate /\ netlist.si[m] # n => driven[m] \subseteq DrivenOver(n)
<1> USE NetFacts
<1>1. \A m \in Fanouts(n) : m \in Node /\ driven[m] \subseteq Latch
  BY DEF TypeOK
<1>2. \A x \in DrivenOver(n) :
        \E m \in Fanouts(n) :
          (m \in Latch /\ x = m) \/ (m \notin Latch /\ netlist.si[m] # n /\ x \in driven[m])
  BY DEF DrivenOver
<1>3. \A m \in Fanouts(n) :
        /\ m \in Latch => m \in DrivenOver(n)
        /\ m \in Gate /\ netlist.si[m] # n => driven[m] \subseteq DrivenOver(n)
  BY DEF DrivenOver
<1>4. DrivenOver(n) \subseteq Latch
  BY <1>1, <1>2
<1> QED
  BY <1>2, <1>3, <1>4

LEMMA DrivingOverFacts ==
  ASSUME NetOK, TypeOK, NEW n \in Node
  PROVE  /\ DrivingOver(n) \subseteq Latch
         /\ \A x \in DrivingOver(n) :
              \E i \in In(n) \ {netlist.si[n]} :
                (i \in Latch /\ x = i) \/ (i \notin Latch /\ x \in driving[i])
         /\ \A i \in In(n) \ {netlist.si[n]} :
              /\ i \in Latch => i \in DrivingOver(n)
              /\ i \in Gate => driving[i] \subseteq DrivingOver(n)
<1> USE NetFacts
<1>1. \A i \in In(n) : i \in Node /\ driving[i] \subseteq Latch
  BY DEF TypeOK
<1>2. \A x \in DrivingOver(n) :
        \E i \in In(n) \ {netlist.si[n]} :
          (i \in Latch /\ x = i) \/ (i \notin Latch /\ x \in driving[i])
  BY DEF DrivingOver
<1>3. \A i \in In(n) \ {netlist.si[n]} :
        /\ i \in Latch => i \in DrivingOver(n)
        /\ i \in Gate => driving[i] \subseteq DrivingOver(n)
  BY DEF DrivingOver
<1>4. DrivingOver(n) \subseteq Latch
  BY <1>1, <1>2
<1> QED
  BY <1>2, <1>3, <1>4

(* One update stays inside what closed families allow.                     *)
LEMMA DrivenStaysSound ==
  ASSUME NetOK, TypeOK, NEW n \in LG, NEW B \in Families, DrivingClosed(B),
         \A m \in LG : driven[m] \subseteq MayDrive(B, m),
         \A m \in Node \ LG : driven[m] = {}
  PROVE  DrivenOver(n) \subseteq MayDrive(B, n)
<1> USE NetFacts
<1>0. n \in Node /\ LG \subseteq Node
  BY DEF LG
<1> SUFFICES ASSUME NEW x \in DrivenOver(n) PROVE x \in MayDrive(B, n)
  OBVIOUS
<1>1. PICK m \in Fanouts(n) :
          (m \in Latch /\ x = m) \/ (m \notin Latch /\ netlist.si[m] # n /\ x \in driven[m])
  BY <1>0, DrivenOverFacts
<1>2. x \in Latch /\ m \in Node /\ n \in In(m)
  BY <1>0, DrivenOverFacts
<1>3. CASE m \in Latch /\ x = m
  <2>1. DrivingClosedAt(B, m) /\ n \in In(m) \ {netlist.si[m]}
    BY <1>0, <1>2, <1>3 DEF DrivingClosed, LG
  <2> QED
    BY <1>2, <1>3, <2>1 DEF DrivingClosedAt, MayDrive
<1>4. CASE m \notin Latch /\ netlist.si[m] # n /\ x \in driven[m]
  <2>1. m \in Gate /\ x \in MayDrive(B, m)
    BY <1>2, <1>4 DEF LG
  <2>2. DrivingClosedAt(B, m) /\ n \in In(m) \ {netlist.si[m]}
    BY <1>2, <1>4, <2>1 DEF DrivingClosed, LG
  <2> QED
    BY <1>2, <2>1, <2>2 DEF DrivingClosedAt, MayDrive
<1> QED
  BY <1>1, <1>3, <1>4

LEMMA DrivingStaysSound ==
  ASSUME NetOK, TypeOK, NEW n \in LG, NEW F \in Families, DrivenClosed(F),
         \A i \in LG : driving[i] \subseteq MayBeDrivenBy(F, i),
         \A i \in Node \ LG : driving[i] = {}
  PROVE  DrivingOver(n) \subseteq MayBeDrivenBy(F, n)
<1> USE NetFacts
<1>0. n \in Node /\ LG \subseteq Node
  BY DEF LG
<1> SUFFICES ASSUME NEW x \in DrivingOver(n) PROVE x \in MayBeDrivenBy(F, n)
  OBVIOUS
<1>1. PICK i \in In(n) \ {netlist.si[n]} :
          (i \in Latch /\ x = i) \/ (i \notin Latch /\ x \in driving[i])
  BY <1>0, DrivingOverFacts
<1>2. x \in Latch /\ i \in Node /\ n \in Fanouts(i)
  BY <1>0, DrivingOverFacts
<1>3. CASE i \in Latch /\ x = i
  <2>1. DrivenClosedAt(F, i)
    BY <1>3 DEF DrivenClosed, LG
  <2> QED
    BY <1>1, <1>2, <1>3, <2>1 DEF DrivenClosedAt, MayBeDrivenBy
<1>4. CASE i \notin Latch /\ x \in driving[i]
  <2>1. i \in Gate /\ x \in MayBeDrivenBy(F, i)
    BY <1>2, <1>4 DEF LG
  <2>2. DrivenClosedAt(F, i)
    BY <2>1 DEF DrivenClosed, LG
  <2> QED
    BY <1>1, <1>2, <2>1, <2>2 DEF DrivenClosedAt, MayBeDrivenBy
<1> QED
  BY <1>1, <1>3, <1>4
-----------------------------------------------------------------------------
(* Facts about the phases.                                                 *)
LEMMA PhaseFacts ==
  /\ After["driven"] = "drivenMacros" /\ After["drivenMacros"] = "driving"
  /\ After["driving"] = "drivingMacros" /\ After["drivingMacros"] = "paths"
  /\ After["paths"] = "done"
  /\ Phase = {"driven", "drivenMacros", "driving", "drivingMacros", "paths", "done"}
BY DEF After, Phase

LEMMA InitEstablishes == Init => IInv
<1> SUFFICES ASSUME Init PROVE IInv
  OBVIOUS
<1>1. NetOK
  BY DEF Init, NetOK
<1> USE <1>1, NetFacts
<1>2. TypeOK
  <2>1. driven \in [Node -> SUBSET Latch]
    BY DEF Init
  <2>2. driving \in [Node -> SUBSET Latch]
    BY DEF Init
  <2>3. sp \in [Node -> SUBSET Latch]
    BY DEF Init
  <2>4. left \subseteq Walked(phase) /\ changed \in BOOLEAN /\ phase \in Phase
    BY PhaseFacts DEF Init, Walked, OverMacros
  <2> QED
    BY <2>1, <2>2, <2>3, <2>4 DEF TypeOK
<1>3. /\ DrivenMacrosEmpty /\ DrivingMacrosEmpty /\ DrivenSound /\ DrivingSound /\ CameOverAPin
  BY DEF Init, DrivenMacrosEmpty, DrivingMacrosEmpty, DrivenSound, DrivingSound, CameOverAPin, LG
<1>4. DrivenComplete /\ DrivingComplete
  BY DEF Init, DrivenComplete, DrivingComplete, LG
<1> QED
  BY <1>2, <1>3, <1>4 DEF IInv

(* What the walks add to driven.                                           *)
LEMMA UpdateDrivenPreserves == IInv /\ UpdateDriven => IInv'
<1> SUFFICES ASSUME IInv, UpdateDriven PROVE IInv'
  OBVIOUS
<1>0. PICK n \in left : /\ driven' = [driven EXCEPT ![n] = @ \cup DrivenOver(n)]
                        /\ left' = left \ {n}
  BY DEF UpdateDriven
<1>1. /\ NetOK /\ TypeOK /\ phase \in {"driven", "drivenMacros"} /\ phase' = phase
      /\ UNCHANGED <<netlist, driving, sp>>
      /\ changed' = (changed \/ driven' # driven)
  BY DEF IInv, UpdateDriven
<1>2. NetOK'
  BY <1>1 DEF NetOK
<1> USE <1>1, NetFacts
<1>3. /\ n \in Node
      /\ phase = "driven" => n \in LG
      /\ phase = "drivenMacros" => n \in Node \ LG
  BY DEF TypeOK, Walked, OverMacros, LG
<1>4. /\ driven'[n] = driven[n] \cup DrivenOver(n)
      /\ \A m \in Node \ {n} : driven'[m] = driven[m]
  BY <1>0, <1>3 DEF TypeOK
<1>5. TypeOK'
  <2>1. driven' \in [Node -> SUBSET Latch]
    BY <1>0, <1>3, DrivenOverFacts DEF TypeOK
  <2>2. Latch' = Latch /\ Walked(phase)' = Walked(phase)
    BY NetUnchanged
  <2>3. left' \subseteq Walked(phase) /\ changed' \in BOOLEAN
    BY <1>0 DEF TypeOK
  <2>4. driving' \in [Node -> SUBSET Latch] /\ sp' \in [Node -> SUBSET Latch]
    BY DEF TypeOK
  <2> QED
    BY <2>1, <2>2, <2>3, <2>4 DEF TypeOK
<1>6. DrivenMacrosEmpty' /\ DrivingMacrosEmpty'
  <2>1. LG' = LG
    BY NetUnchanged
  <2> QED
    BY <1>3, <1>4, <2>1 DEF IInv, DrivenMacrosEmpty, DrivingMacrosEmpty
<1>7. DrivenSound'
  <2> SUFFICES ASSUME NEW B \in Families, DrivingClosed(B), NEW m \in LG
               PROVE  driven'[m] \subseteq MayDrive(B, m)
    BY NetUnchanged DEF DrivenSound
  <2>1. \A k \in LG : driven[k] \subseteq MayDrive(B, k)
    BY DEF IInv, DrivenSound
  <2>2. CASE m = n
    <3>1. phase = "driven" /\ \A k \in Node \ LG : driven[k] = {}
      BY <1>3, <2>2 DEF IInv, DrivenMacrosEmpty
    <3>2. DrivenOver(n) \subseteq MayDrive(B, n)
      BY <2>1, <2>2, <3>1, DrivenStaysSound
    <3> QED
      BY <1>4, <2>1, <2>2, <3>2
  <2>3. CASE m # n
    BY <1>4, <2>1, <2>3 DEF LG
  <2> QED
    BY <2>2, <2>3
<1>8. DrivingSound'
  BY NetUnchanged DEF IInv, DrivingSound
<1>9. DrivenComplete'
  <2>1. CASE phase = "driven"
    <3> SUFFICES ASSUME ~changed', NEW m \in LG \ left' PROVE DrivenClosedAt(driven', m)
      BY <2>1, NetUnchanged DEF DrivenComplete, DrivenClosedAt
    <3>1. ~changed /\ driven' = driven
      OBVIOUS
    <3>2. CASE m = n
      <4>1. DrivenOver(n) \subseteq driven[n]
        BY <1>4, <3>1
      <4>2. \A k \in Fanouts(n) :
              /\ k \in Latch => k \in DrivenOver(n)
              /\ k \in Gate /\ netlist.si[k] # n => driven[k] \subseteq DrivenOver(n)
        BY <1>3, DrivenOverFacts
      <4> QED
        BY <3>1, <3>2, <4>1, <4>2 DEF DrivenClosedAt
    <3>3. CASE m # n
      BY <1>0, <2>1, <3>1, <3>3 DEF IInv, DrivenComplete
    <3> QED
      BY <3>2, <3>3
  <2>2. CASE phase = "drivenMacros"
    <3> SUFFICES ASSUME NEW m \in LG PROVE DrivenClosedAt(driven', m)
      BY <2>2, NetUnchanged DEF DrivenComplete, DrivenClosed, DrivenClosedAt
    <3>1. DrivenClosedAt(driven, m)
      BY <2>2 DEF IInv, DrivenComplete, DrivenClosed
    <3>2. n \notin LG /\ \A k \in LG : driven'[k] = driven[k]
      BY <1>3, <1>4, <2>2 DEF LG
    <3> QED
      BY <3>1, <3>2 DEF DrivenClosedAt, LG
  <2> QED
    BY <2>1, <2>2
<1>10. DrivingComplete'
  BY DEF IInv, DrivingComplete
<1>11. CameOverAPin'
  BY NetUnchanged DEF IInv, CameOverAPin
<1> QED
  BY <1>2, <1>5, <1>6, <1>7, <1>8, <1>9, <1>10, <1>11 DEF IInv

(* What the walks add to driving.                                          *)
LEMMA UpdateDrivingPreserves == IInv /\ UpdateDriving => IInv'
<1> SUFFICES ASSUME IInv, UpdateDriving PROVE IInv'
  OBVIOUS
<1>0. PICK n \in left : /\ driving' = [driving EXCEPT ![n] = @ \cup DrivingOver(n)]
                        /\ left' = left \ {n}
  BY DEF UpdateDriving
<1>1. /\ NetOK /\ TypeOK /\ phase \in {"driving", "drivingMacros"} /\ phase' = phase
      /\ UNCHANGED <<netlist, driven, sp>>
      /\ changed' = (changed \/ driving' # driving)
  BY DEF IInv, UpdateDriving
<1>2. NetOK'
  BY <1>1 DEF NetOK
<1> USE <1>1, NetFacts
<1>3. /\ n \in Node
      /\ phase = "driving" => n \in LG
      /\ phase = "drivingMacros" => n \in Node \ LG
  BY DEF TypeOK, Walked, OverMacros, LG
<1>4. /\ driving'[n] = driving[n] \cup DrivingOver(n)
      /\ \A m \in Node \ {n} : driving'[m] = driving[m]
  BY <1>0, <1>3 DEF TypeOK
<1>5. TypeOK'
  <2>1. driving' \in [Node -> SUBSET Latch]
    BY <1>0, <1>3, DrivingOverFacts DEF TypeOK
  <2>2. Latch' = Latch /\ Walked(phase)' = Walked(phase)
    BY NetUnchanged
  <2>3. left' \subseteq Walked(phase) /\ changed' \in BOOLEAN
    BY <1>0 DEF TypeOK
  <2>4. driven' \in [Node -> SUBSET Latch] /\ sp' \in [Node -> SUBSET Latch]
    BY DEF TypeOK
  <2> QED
    BY <2>1, <2>2, <2>3, <2>4 DEF TypeOK
<1>6. DrivenMacrosEmpty' /\ DrivingMacrosEmpty'
  <2>1. LG' = LG
    BY NetUnchanged
  <2> QED
    BY <1>3, <1>4, <2>1 DEF IInv, DrivenMacrosEmpty, DrivingMacrosEmpty
<1>7. DrivingSound'
  <2> SUFFICES ASSUME NEW F \in Families, DrivenClosed(F), NEW m \in LG
               PROVE  driving'[m] \subseteq MayBeDrivenBy(F, m)
    BY NetUnchanged DEF DrivingSound
  <2>1. \A k \in LG : driving[k] \subseteq MayBeDrivenBy(F, k)
    BY DEF IInv, DrivingSound
  <2>2. CASE m = n
    <3>1. \A k \in Node \ LG : driving[k] = {}
      BY <1>3, <2>2 DEF IInv, DrivingMacrosEmpty
    <3>2. DrivingOver(n) \subseteq MayBeDrivenBy(F, n)
      BY <2>1, <2>2, <3>1, DrivingStaysSound
    <3> QED
      BY <1>4, <2>1, <2>2, <3>2
  <2>3. CASE m # n
    BY <1>4, <2>1, <2>3 DEF LG
  <2> QED
    BY <2>2, <2>3
<1>8. DrivenSound'
  BY NetUnchanged DEF IInv, DrivenSound
<1>9. DrivingComplete'
  <2>1. CASE phase = "driving"
    <3> SUFFICES ASSUME ~changed', NEW m \in LG \ left' PROVE DrivingClosedAt(driving', m)
      BY <2>1, NetUnchanged DEF DrivingComplete, DrivingClosedAt
    <3>1. ~changed /\ driving' = driving
      OBVIOUS
    <3>2. CASE m = n
      <4>1. DrivingOver(n) \subseteq driving[n]
        BY <1>4, <3>1
      <4>2. \A i \in In(n) \ {netlist.si[n]} :
              /\ i \in Latch => i \in DrivingOver(n)
              /\ i \in Gate => driving[i] \subseteq DrivingOver(n)
        BY <1>3, DrivingOverFacts
      <4> QED
        BY <3>1, <3>2, <4>1, <4>2 DEF DrivingClosedAt
    <3>3. CASE m # n
      BY <1>0, <2>1, <3>1, <3>3 DEF IInv, DrivingComplete
    <3> QED
      BY <3>2, <3>3
  <2>2. CASE phase = "drivingMacros"
    <3> SUFFICES ASSUME NEW m \in LG PROVE DrivingClosedAt(driving', m)
      BY <2>2, NetUnchanged DEF DrivingComplete, DrivingClosed, DrivingClosedAt
    <3>1. DrivingClosedAt(driving, m)
      BY <2>2 DEF IInv, DrivingComplete, DrivingClosed
    <3>2. n \notin LG /\ \A k \in LG : driving'[k] = driving[k]
      BY <1>3, <1>4, <2>2 DEF LG
    <3> QED
      BY <3>1, <3>2 DEF DrivingClosedAt, LG
  <2> QED
    BY <2>1, <2>2
<1>10. DrivenComplete'
  <2>1. DrivenClosed(driven)
    BY DEF IInv, DrivenComplete
  <2> QED
    BY <2>1, NetUnchanged DEF DrivenComplete, DrivenClosed, DrivenClosedAt
<1>11. CameOverAPin'
  <2> SUFFICES ASSUME NEW m \in LG, NEW l \in driving'[m]
               PROVE  \E i \in In(m) \ {netlist.si[m]} : i = l \/ (i \notin Latch /\ l \in driving'[i])
    BY NetUnchanged DEF CameOverAPin
  <2>1. \A i \in Node : driving[i] \subseteq driving'[i]
    BY <1>4
  <2>2. \E i \in In(m) \ {netlist.si[m]} : i = l \/ (i \notin Latch /\ l \in driving[i])
    <3>1. CASE l \in driving[m]
      BY <3>1 DEF IInv, CameOverAPin
    <3>2. CASE m = n /\ l \in DrivingOver(n)
      BY <1>3, <3>2, DrivingOverFacts
    <3> QED
      BY <1>4, <3>1, <3>2 DEF LG
  <2>3. In(m) \subseteq Node
    BY DEF LG
  <2> QED
    BY <2>1, <2>2, <2>3
<1> QED
  BY <1>2, <1>5, <1>6, <1>7, <1>8, <1>9, <1>10, <1>11 DEF IInv

(* The other actions leave both fixpoints alone.                           *)
LEMMA SameFixpoints ==
  ASSUME IInv, UNCHANGED <<netlist, driven, driving>>
  PROVE  NetOK' /\ DrivenSound' /\ DrivingSound' /\ CameOverAPin'
<1>1. NetOK'
  BY DEF IInv, NetOK
<1>2. DrivenSound' /\ DrivingSound'
  BY NetUnchanged DEF IInv, DrivenSound, DrivingSound
<1>3. CameOverAPin'
  BY NetUnchanged DEF IInv, CameOverAPin
<1> QED
  BY <1>1, <1>2, <1>3

LEMMA ComputePathsPreserves == IInv /\ ComputePaths => IInv'
<1> SUFFICES ASSUME IInv, ComputePaths PROVE IInv'
  OBVIOUS
<1>1. /\ UNCHANGED <<netlist, driven, driving, changed, phase>> /\ phase = "paths"
      /\ NetOK /\ TypeOK
  BY DEF IInv, ComputePaths
<1>2. PICK n \in left : /\ sp' = [sp EXCEPT ![n] = @ \cup {l \in driving[n] : OnePath(n, l)}]
                        /\ left' = left \ {n}
  BY DEF ComputePaths
<1> USE <1>1, NetFacts
<1>3. n \in Node
  BY DEF TypeOK, Walked, OverMacros
<1>4. TypeOK'
  <2>1. sp' \in [Node -> SUBSET Latch]
    BY <1>2, <1>3 DEF TypeOK
  <2>2. Latch' = Latch /\ Walked(phase)' = Walked(phase)
    BY NetUnchanged
  <2>3. left' \subseteq Walked(phase)
    BY <1>2 DEF TypeOK
  <2> QED
    BY <2>1, <2>2, <2>3 DEF TypeOK
<1>5. DrivenMacrosEmpty' /\ DrivingMacrosEmpty'
  BY DEF DrivenMacrosEmpty, DrivingMacrosEmpty
<1>6. DrivenComplete' /\ DrivingComplete'
  <2>1. DrivenClosed(driven) /\ DrivingClosed(driving)
    BY DEF IInv, DrivenComplete, DrivingComplete
  <2>2. DrivenClosed(driven)' /\ DrivingClosed(driving)'
    BY <2>1, NetUnchanged DEF DrivenClosed, DrivenClosedAt, DrivingClosed, DrivingClosedAt
  <2> QED
    BY <2>2 DEF DrivenComplete, DrivingComplete
<1> QED
  BY <1>4, <1>5, <1>6, SameFixpoints DEF IInv

LEMMA WalkAgainPreserves == IInv /\ WalkAgain => IInv'
<1> SUFFICES ASSUME IInv, WalkAgain PROVE IInv'
  OBVIOUS
<1>1. /\ UNCHANGED <<netlist, driven, driving, sp, phase>> /\ phase \in {"driven", "driving"}
      /\ left' = Walked(phase) /\ changed' = FALSE /\ NetOK /\ TypeOK
  BY DEF IInv, WalkAgain, ToFixpoint
<1> USE <1>1, NetFacts
<1>2. TypeOK'
  <2>1. Latch' = Latch /\ Walked(phase)' = Walked(phase)
    BY NetUnchanged
  <2> QED
    BY <2>1 DEF TypeOK
<1>3. DrivenMacrosEmpty' /\ DrivingMacrosEmpty'
  BY NetUnchanged DEF IInv, DrivenMacrosEmpty, DrivingMacrosEmpty
<1>4. LG \ left' = {} /\ LG' = LG
  BY NetUnchanged DEF Walked, OverMacros, LG
<1>5. DrivenComplete'
  <2>1. phase # "driven" => DrivenClosed(driven)'
    BY NetUnchanged DEF IInv, DrivenComplete, DrivenClosed, DrivenClosedAt
  <2> QED
    BY <1>4, <2>1 DEF DrivenComplete
<1>6. DrivingComplete'
  BY <1>4 DEF DrivingComplete
<1> QED
  BY <1>2, <1>3, <1>5, <1>6, SameFixpoints DEF IInv

LEMMA EndWalkPreserves == IInv /\ EndWalk => IInv'
<1> SUFFICES ASSUME IInv, EndWalk PROVE IInv'
  OBVIOUS
<1>1. /\ UNCHANGED <<netlist, driven, driving, sp>> /\ phase' = After[phase] /\ changed' = FALSE
      /\ phase # "done" /\ left = {} /\ NetOK /\ TypeOK
      /\ phase \in {"driven", "driving"} => ~changed
      /\ left' = Walked(phase')
  BY NetUnchanged DEF IInv, EndWalk, ToFixpoint
<1> USE <1>1, NetFacts, PhaseFacts
<1>2. TypeOK'
  <2>1. phase' \in Phase
    BY DEF TypeOK
  <2>2. Latch' = Latch /\ left' \subseteq Walked(phase')
    BY NetUnchanged
  <2>3. Walked(phase)' = Walked(phase')
    BY NetUnchanged DEF Walked
  <2> QED
    BY <2>1, <2>2, <2>3 DEF TypeOK
<1>3. DrivenMacrosEmpty' /\ DrivingMacrosEmpty'
  BY NetUnchanged DEF IInv, TypeOK, DrivenMacrosEmpty, DrivingMacrosEmpty
<1>4. DrivenComplete'
  <2>1. DrivenClosed(driven) /\ phase' # "driven"
    BY DEF IInv, DrivenComplete, DrivenClosed, TypeOK
  <2>2. DrivenClosed(driven)'
    BY <2>1, NetUnchanged DEF DrivenClosed, DrivenClosedAt
  <2> QED
    BY <2>1, <2>2 DEF DrivenComplete
<1>5. DrivingComplete'
  <2>1. CASE phase \in {"driven", "drivenMacros"}
    <3>1. LG \ left' = {} \/ phase' # "driving"
      BY <2>1 DEF Walked, OverMacros, LG
    <3> QED
      BY <2>1, <3>1, NetUnchanged DEF DrivingComplete
  <2>2. CASE phase \in {"driving", "drivingMacros", "paths"}
    <3>1. DrivingClosed(driving) /\ phase' # "driving"
      BY <2>2 DEF IInv, DrivingComplete, DrivingClosed
    <3>2. DrivingClosed(driving)'
      BY <3>1, NetUnchanged DEF DrivingClosed, DrivingClosedAt
    <3> QED
      BY <3>1, <3>2 DEF DrivingComplete
  <2> QED
    BY <2>1, <2>2 DEF TypeOK
<1> QED
  BY <1>2, <1>3, <1>4, <1>5, SameFixpoints DEF IInv

LEMMA StutterPreserves == IInv /\ UNCHANGED vars => IInv'
<1> SUFFICES ASSUME IInv, UNCHANGED vars PROVE IInv'
  OBVIOUS
<1>1. UNCHANGED <<netlist, driven, driving, sp, left, changed, phase>>
  BY DEF vars
<1>2. TypeOK'
  BY <1>1, NetUnchanged DEF IInv, TypeOK
<1>3. DrivenMacrosEmpty' /\ DrivingMacrosEmpty'
  BY <1>1, NetUnchanged DEF IInv, DrivenMacrosEmpty, DrivingMacrosEmpty
<1>4. DrivenComplete' /\ DrivingComplete'
  BY <1>1, NetUnchanged DEF IInv, DrivenComplete, DrivingComplete, DrivenClosed, DrivingClosed,
                            DrivenClosedAt, DrivingClosedAt
<1> QED
  BY <1>1, <1>2, <1>3, <1>4, SameFixpoints DEF IInv

(* IInv is inductive: compute_latch_connections keeps it.                  *)
THEOREM Inductive == Spec => []IInv
<1>1. IInv /\ [Next]_vars => IInv'
  BY UpdateDrivenPreserves, UpdateDrivingPreserves, ComputePathsPreserves, WalkAgainPreserves,
     EndWalkPreserves, StutterPreserves DEF Next
<1> QED
  BY InitEstablishes, <1>1, PTL DEF Spec
-----------------------------------------------------------------------------
(* For every netlist the sets hold latches and nothing else, and the walks *)
(* stay in their lists (compute_latch_connections).                        *)
THEOREM LatchTypeCorrect == Spec => []TypeOK
<1>1. IInv => TypeOK
  BY DEF IInv
<1> QED
  BY Inductive, <1>1, PTL

(* For every netlist, with loops, scan chains and macros: once both are    *)
(* computed, driven_latches and driving_latches of latches are converse    *)
(* relations, so that the assert of onepath holds (shiftreg.cpp:230).      *)
THEOREM FixpointsAgree == Spec => []ConnectionsAgree
<1>1. IInv => ConnectionsAgree
  <2> SUFFICES ASSUME IInv, phase \in {"drivingMacros", "paths", "done"},
                      NEW l \in Latch, NEW m \in Latch
               PROVE  m \in driven[l] <=> l \in driving[m]
    BY DEF ConnectionsAgree
  <2>1. l \in LG /\ m \in LG
    BY DEF LG
  <2>2. driving \in Families /\ driven \in Families
    BY NetFacts DEF IInv, TypeOK, Families
  <2>3. DrivingClosed(driving) /\ DrivenClosed(driven)
    BY DEF IInv, DrivingComplete, DrivenComplete
  <2>4. driven[l] \subseteq MayDrive(driving, l)
    BY <2>1, <2>2, <2>3 DEF IInv, DrivenSound
  <2>5. driving[m] \subseteq MayBeDrivenBy(driven, m)
    BY <2>1, <2>2, <2>3 DEF IInv, DrivingSound
  <2> QED
    BY <2>4, <2>5 DEF MayDrive, MayBeDrivenBy
<1> QED
  BY Inductive, <1>1, PTL

(* For every netlist: compute_driving_latches_mp finds a pin for each      *)
(* driving latch, so that its assert(cnt > 0) holds.                       *)
THEOREM PathAssertHolds == Spec => []EveryDriverHasAPin
<1>1. IInv => EveryDriverHasAPin
  <2> SUFFICES ASSUME IInv, phase = "paths", NEW n \in left, NEW l \in driving[n]
               PROVE  Single(n, l) \cup Several(n, l) # {}
    BY DEF EveryDriverHasAPin
  <2>1. n \in LG
    BY DEF IInv, TypeOK, Walked, OverMacros, LG
  <2>2. l \in Latch
    BY <2>1, NetFacts DEF IInv, TypeOK, LG
  <2>3. PICK i \in In(n) : i = l \/ (i \notin Latch /\ l \in driving[i])
    BY <2>1 DEF IInv, CameOverAPin
  <2>4. PICK k \in Pins(n) : inputs[n][k] = i
    BY DEF In
  <2>5. k \in Single(n, l) \/ k \in Several(n, l)
    BY <2>2, <2>3, <2>4 DEF Single, Several
  <2> QED
    BY <2>5
<1> QED
  BY Inductive, <1>1, PTL
-----------------------------------------------------------------------------
(* The paths.  P[k] holds the paths from l of at most k pins.              *)
ArePaths(P, l, over) ==
  /\ \A k \in 0..Longest : \A n \in Node : P[k][n] \subseteq Seq(Nat)
  /\ \A n \in Node : P[0][n] = {}
  /\ \A k \in 1..Longest : \A n \in LG : \A q :
       q \in P[k][n] <=>
         \E p \in over[n] :
           \/ inputs[n][p] = l /\ q = <<p>>
           \/ inputs[n][p] \in Gate /\ \E r \in P[k - 1][inputs[n][p]] : q = Append(r, p)

(* How far a node is from the latches if the gates are sorted.             *)
Rank(n) == IF n \in Latch THEN Cardinality(Gate) + 1 ELSE Cardinality({g \in Gate : g <= n})

LEMMA PathsTyped ==
  ASSUME NetOK
  PROVE  /\ AnyPin \in [Node -> SUBSET Nat] /\ NoScanPin \in [Node -> SUBSET Nat]
         /\ \A n \in Node : /\ AnyPin[n] = Pins(n)
                            /\ NoScanPin[n] = {p \in Pins(n) : inputs[n][p] # netlist.si[n]}
                            /\ Pins(n) \subseteq Nat
                            /\ \A p \in Pins(n) : inputs[n][p] \in In(n)
<1>1. \A n \in Node : Pins(n) \subseteq Nat /\ \A p \in Pins(n) : inputs[n][p] \in In(n)
  BY NetFacts DEF IsNetlist, Pins, inputs, In
<1> QED BY <1>1 DEF AnyPin, NoScanPin

LEMMA RankFacts ==
  ASSUME NetOK
  PROVE  /\ Longest \in Nat /\ Longest >= 1
         /\ \A n \in LG : Rank(n) \in 1..Longest
         /\ \A g \in Gate, n \in LG : n \in Latch \/ g < n => Rank(g) < Rank(n)
<1> USE NetFacts
<1> DEFINE U(n) == {g \in Gate : g <= n}
           C == Cardinality(Gate)
<1>1. IsFiniteSet(Gate) /\ C \in Nat
  <2>1. IsFiniteSet(Node)
    BY NumNodesAssumption, FS_Interval DEF Node
  <2> QED BY <2>1, FS_Subset, FS_CardinalityType
<1>2. ASSUME NEW n \in Node
      PROVE  IsFiniteSet(U(n)) /\ Cardinality(U(n)) \in Nat /\ Cardinality(U(n)) <= C
  <2>1. U(n) \in SUBSET Gate
    OBVIOUS
  <2> QED BY <1>1, <2>1, FS_Subset, FS_CardinalityType
<1>3. Node \subseteq Int
  BY NumNodesAssumption DEF Node
<1>4. ASSUME NEW n \in Gate PROVE Cardinality(U(n)) >= 1
  <2>1. n \in U(n)
    BY <1>3
  <2>2. Cardinality(U(n)) # 0
    BY <1>2, <2>1, FS_EmptySet
  <2> QED BY <1>2, <2>2
<1>5. ASSUME NEW g \in Gate, NEW n \in Gate, g < n
      PROVE  Cardinality(U(g)) < Cardinality(U(n))
  <2>0. Gate \subseteq Int /\ g \in Int /\ n \in Int
    <3>1. Gate \subseteq Node
      BY NetFacts
    <3> QED
      BY <1>3, <3>1
  <2>a. \A m \in Gate : m \in Int
    BY <2>0
  <2>b. \A m \in U(g) : m \in U(n)
    BY <1>5, <2>0, <2>a
  <2>1. U(g) \in SUBSET U(n) /\ n \in U(n) /\ n \notin U(g)
    <3>1. n <= n /\ ~(n <= g)
      BY <1>5, <2>0
    <3> QED
      BY <2>b, <3>1
  <2>2. /\ Cardinality(U(g)) <= Cardinality(U(n)) 
        /\ Cardinality(U(n)) = Cardinality(U(g)) => U(n) = U(g)
    <3> DEFINE S == U(g)
               T == U(n)
    <3>1. n \in Node
      BY NetFacts
    <3>2. IsFiniteSet(T) /\ S \in SUBSET T
      BY <1>2, <2>1, <3>1
    <3> HIDE DEF S, T
    <3>3. Cardinality(S) <= Cardinality(T) /\ (Cardinality(T) = Cardinality(S) => T = S)
      BY <3>2, FS_Subset
    <3> QED
      BY <3>3 DEF S, T
  <2> DEFINE below == Cardinality(U(g))
             upTo == Cardinality(U(n))
  <2>3. below \in Nat /\ upTo \in Nat
    <3>1. g \in Node /\ n \in Node
      BY NetFacts
    <3> HIDE DEF U
    <3> QED
      BY <1>2, <3>1
  <2>4. U(n) # U(g)
    BY <2>1
  <2>5. below <= upTo /\ below # upTo
    BY <2>2, <2>4
  <2> HIDE DEF below, upTo
  <2>6. below < upTo
    BY <2>3, <2>5
  <2> QED BY <2>6 DEF below, upTo
<1>6. \A n \in LG : Rank(n) = IF n \in Latch THEN C + 1 ELSE Cardinality(U(n))
  BY DEF Rank
<1>7. Longest = 2 * C + 1
  BY DEF Longest
<1>8. Gate \subseteq Node /\ \A n \in LG : n \in Latch \/ n \in Gate
  BY DEF LG
<1> HIDE DEF U, C
<1>9. ASSUME NEW n \in LG PROVE Rank(n) \in 1..Longest
  <2>1. CASE n \in Latch
    BY <1>1, <1>6, <1>7, <2>1
  <2>2. CASE n \notin Latch
    BY <1>1, <1>2, <1>4, <1>6, <1>7, <1>8, <2>2
  <2> QED BY <2>1, <2>2
<1>10. ASSUME NEW g \in Gate, NEW n \in LG, n \in Latch \/ g < n PROVE Rank(g) < Rank(n)
  <2>0. g \notin Latch /\ g \in LG
    BY DEF LG
  <2>1. CASE n \in Latch
    BY <1>1, <1>2, <1>6, <1>8, <2>0, <2>1
  <2>2. CASE n \notin Latch
    BY <1>5, <1>6, <1>8, <1>10, <2>0, <2>2
  <2> QED BY <2>1, <2>2
<1>11. Longest \in Nat /\ Longest >= 1
  BY <1>1, <1>7
<1> QED BY <1>9, <1>10, <1>11
-----------------------------------------------------------------------------
Steps(f, V, x0, G, k) == f \in [0..k -> V] /\ f[0] = x0 /\ \A i \in 1..k : f[i] = G[f[i - 1]]

LEMMA StepsExist ==
  ASSUME NEW V, NEW x0 \in V, NEW G \in [V -> V], NEW k \in Nat
  PROVE  \E f : Steps(f, V, x0, G, k)
<1> DEFINE Solves(f, l) == f \in [0..l -> V] /\ f[0] = x0 /\ \A i \in 1..l : f[i] = G[f[i - 1]]
           T == {l \in Nat : ~\E f : Solves(f, l)}
<1> SUFFICES ASSUME T # {} PROVE FALSE
  BY DEF Steps
<1>1. PICK l \in T : \A y \in T : l <= y
  <2> HIDE DEF T
  <2>1. T \in SUBSET Nat
    BY DEF T
  <2> QED BY <2>1, LeastNat
<1>2. l # 0
  <2>1. Solves([i \in 0..0 |-> x0], 0)
    OBVIOUS
  <2> QED BY <2>1
<1>3. l - 1 \in Nat /\ l \in Nat /\ l - 1 \notin T
  <2>1. l \in Nat
    BY <1>1
  <2>2. l - 1 \in Nat /\ ~(l <= l - 1)
    BY <1>2, <2>1
  <2> HIDE DEF T
  <2> QED BY <1>1, <2>1, <2>2
<1>4. PICK f : Solves(f, l - 1)
  BY <1>3
<1> DEFINE g == [i \in 0..l |-> IF i = l THEN G[f[l - 1]] ELSE f[i]]
<1>5. g \in [0..l -> V]
  <2>1. f[l - 1] \in V /\ \A i \in 0..l : i # l => f[i] \in V
    BY <1>3, <1>4
  <2> QED BY <2>1
<1>6. g[0] = x0
  BY <1>2, <1>3, <1>4
<1>7. ASSUME NEW i \in 1..l PROVE g[i] = G[g[i - 1]]
  <2>1. i - 1 \in 0..l /\ i \in 0..l /\ i - 1 # l
    BY <1>3
  <2>2. g[i - 1] = f[i - 1]
    BY <2>1
  <2>3. CASE i = l
    BY <2>1, <2>2, <2>3
  <2>4. CASE i # l
    <3>1. i \in 1..(l - 1) /\ g[i] = f[i]
      BY <2>1, <2>4
    <3> QED BY <1>4, <2>2, <3>1
  <2> QED BY <2>3, <2>4
<1>8. Solves(g, l)
  <2> HIDE DEF g
  <2> QED BY <1>5, <1>6, <1>7
<1> QED BY <1>8 DEF Steps

(* The function Paths exists, and is what its recursion says.              *)
LEMMA PathsArePaths ==
  ASSUME NetOK, NEW l \in Latch, NEW over \in [Node -> SUBSET Nat],
         \A n \in Node : over[n] \subseteq Pins(n)
  PROVE  ArePaths(Paths(l, over), l, over)
<1> DEFINE V == [Node -> SUBSET Seq(Nat)]
           x0 == [n \in Node |-> {}]
           G == [s \in V |-> Longer(s, l, over)]
           Solves(f) == f = [k \in 0..Longest |->
                              IF k = 0 THEN [n \in Node |-> {}] ELSE Longer(f[k - 1], l, over)]
           F == CHOOSE f : Solves(f)
<1>1. Longest \in Nat /\ Longest >= 1 /\ x0 \in V
  BY RankFacts
<1> DEFINE First(n) == {<<p>> : p \in {p \in over[n] : inputs[n][p] = l}}
           Over(s, n, p) == {Append(q, p) : q \in s[inputs[n][p]]}
           Further(s, n) == UNION {Over(s, n, p) : p \in {p \in over[n] : inputs[n][p] \in Gate}}
<1>a. ASSUME NEW s, NEW n \in Node
      PROVE  Longer(s, l, over)[n] = IF n \notin Latch \cup Gate THEN {} ELSE First(n) \cup Further(s, n)
  BY DEF Longer
<1>b. ASSUME NEW n, NEW q PROVE q \in First(n) <=> \E p \in over[n] : inputs[n][p] = l /\ q = <<p>>
  OBVIOUS
<1>c. ASSUME NEW s, NEW n, NEW q
      PROVE  q \in Further(s, n) <=>
               \E p \in over[n] : inputs[n][p] \in Gate /\ \E r \in s[inputs[n][p]] : q = Append(r, p)
  <2>1. \A p : q \in Over(s, n, p) <=> \E r \in s[inputs[n][p]] : q = Append(r, p)
    OBVIOUS
  <2> HIDE DEF Over
  <2>2. q \in Further(s, n) <=> \E p \in over[n] : inputs[n][p] \in Gate /\ q \in Over(s, n, p)
    OBVIOUS
  <2> QED BY <2>1, <2>2
<1> HIDE DEF First, Further
<1> USE NetFacts
<1>2. ASSUME NEW s \in V, NEW n \in LG, NEW q
      PROVE  q \in Longer(s, l, over)[n] <=>
               \E p \in over[n] :
                 \/ inputs[n][p] = l /\ q = <<p>>
                 \/ inputs[n][p] \in Gate /\ \E r \in s[inputs[n][p]] : q = Append(r, p)
  <2> HIDE DEF V
  <2>1. n \in Node /\ n \in Latch \cup Gate
    BY DEF LG
  <2>2. q \in Longer(s, l, over)[n] <=> q \in First(n) \/ q \in Further(s, n)
    <3>1. Longer(s, l, over)[n] = IF n \notin Latch \cup Gate THEN {} ELSE First(n) \cup Further(s, n)
      BY <1>a, <2>1
    <3>2. Longer(s, l, over)[n] = First(n) \cup Further(s, n)
      BY <2>1, <3>1
    <3> QED BY <3>2
  <2>3. q \in First(n) <=> \E p \in over[n] : inputs[n][p] = l /\ q = <<p>>
    BY <1>b
  <2>4. q \in Further(s, n) <=>
          \E p \in over[n] : inputs[n][p] \in Gate /\ \E r \in s[inputs[n][p]] : q = Append(r, p)
    BY <1>c
  <2> QED BY <2>2, <2>3, <2>4
<1>3. ASSUME NEW s \in V PROVE Longer(s, l, over) \in V
  <2>1. ASSUME NEW n \in Node, NEW q \in Longer(s, l, over)[n] PROVE q \in Seq(Nat)
    <3>1. CASE n \notin Latch \cup Gate
      BY <1>a, <2>1, <3>1
    <3>2. CASE n \in Latch \cup Gate
      <4>1. n \in LG
        BY <3>2 DEF LG
      <4> HIDE DEF V
      <4>2. PICK p \in over[n] : \/ inputs[n][p] = l /\ q = <<p>>
                                 \/ inputs[n][p] \in Gate /\ \E r \in s[inputs[n][p]] : q = Append(r, p)
        BY <1>2, <2>1, <4>1
      <4>3. p \in Nat
        BY <2>1
      <4>4. CASE inputs[n][p] = l /\ q = <<p>>
        BY <4>3, <4>4
      <4>5. CASE inputs[n][p] \in Gate /\ \E r \in s[inputs[n][p]] : q = Append(r, p)
        <5>1. inputs[n][p] \in Node
          BY <4>5
        <5>2. PICK r \in s[inputs[n][p]] : q = Append(r, p)
          BY <4>5
        <5>3. r \in Seq(Nat)
          BY <5>1, <5>2 DEF V
        <5> QED BY <4>3, <5>2, <5>3, AppendProperties
      <4> QED BY <4>2, <4>4, <4>5
    <3> QED BY <3>1, <3>2
  <2>2. DOMAIN Longer(s, l, over) = Node /\ Longer(s, l, over) = [n \in Node |-> Longer(s, l, over)[n]]
    BY DEF Longer
  <2>3. [n \in Node |-> Longer(s, l, over)[n]] \in V
    BY <2>1
  <2> QED BY <2>2, <2>3
<1>4. G \in [V -> V] /\ \A s \in V : G[s] = Longer(s, l, over)
  <2> HIDE DEF V
  <2> QED BY <1>3
<1>5. \E f : Solves(f) /\ f \in [0..Longest -> V]
  <2>1. PICK f : Steps(f, V, x0, G, Longest)
    <3> HIDE DEF V, x0, G
    <3> QED BY <1>1, <1>4, StepsExist
  <2>2. ASSUME NEW i \in 1..Longest PROVE f[i] = Longer(f[i - 1], l, over)
    <3>1. i - 1 \in 0..Longest
      BY <1>1
    <3>2. f[i - 1] \in V
      <4> HIDE DEF V
      <4> QED BY <2>1, <3>1 DEF Steps
    <3> HIDE DEF G, V
    <3> QED BY <1>4, <2>1, <3>2 DEF Steps
  <2>3. f \in [0..Longest -> V] /\ f[0] = x0
    <3> HIDE DEF V, G, x0
    <3> QED BY <2>1 DEF Steps
  <2> DEFINE h == [k \in 0..Longest |-> IF k = 0 THEN [n \in Node |-> {}] ELSE Longer(f[k - 1], l, over)]
  <2>4. \A k \in 0..Longest : f[k] = h[k]
    <3> TAKE k \in 0..Longest
    <3>1. CASE k = 0
      BY <2>3, <3>1
    <3>2. CASE k # 0
      <4>1. k \in 1..Longest
        BY <1>1, <3>2
      <4>2. f[k] = Longer(f[k - 1], l, over)
        BY <2>2, <4>1
      <4> QED BY <3>2, <4>2
    <3> QED BY <3>1, <3>2
  <2>5. f = h
    <3>1. DOMAIN f = 0..Longest /\ f = [k \in 0..Longest |-> f[k]]
      <4> HIDE DEF V
      <4> QED BY <2>3
    <3>2. h = [k \in 0..Longest |-> h[k]]
      OBVIOUS
    <3> HIDE DEF h
    <3> QED BY <2>4, <3>1, <3>2
  <2> HIDE DEF V
  <2> QED BY <2>3, <2>5
<1>6. Solves(F)
  <2> HIDE DEF Solves
  <2> QED BY <1>5
<1>7. Paths(l, over) = F
  BY DEF Paths
<1> DEFINE P == Paths(l, over)
<1>8. /\ P[0] = [n \in Node |-> {}]
      /\ \A k \in 1..Longest : P[k] = Longer(P[k - 1], l, over)
  <2>1. P = [k \in 0..Longest |-> IF k = 0 THEN [n \in Node |-> {}] ELSE Longer(P[k - 1], l, over)]
    <3> HIDE DEF F
    <3> QED BY <1>6, <1>7
  <2>2. 0 \in 0..Longest /\ \A k \in 1..Longest : k \in 0..Longest /\ k # 0
    BY <1>1
  <2> HIDE DEF P
  <2> QED BY <2>1, <2>2
<1> HIDE DEF P
<1>9. \A k \in 0..Longest : P[k] \in V
  <2> DEFINE T == {k \in 0..Longest : P[k] \notin V}
  <2> SUFFICES ASSUME T # {} PROVE FALSE
    BY DEF T
  <2>1. T \in SUBSET Nat
    BY <1>1
  <2>2. PICK k \in T : \A y \in T : k <= y
    <3> HIDE DEF T
    <3> QED BY <2>1, LeastNat
  <2>3. k # 0
    BY <1>1, <1>8, <2>2
  <2>4. k \in 1..Longest /\ k - 1 \in 0..Longest /\ ~(k <= k - 1)
    BY <1>1, <2>2, <2>3
  <2>5. P[k - 1] \in V
    BY <2>2, <2>4
  <2>6. P[k] \in V
    <3> HIDE DEF V
    <3> QED BY <1>3, <1>8, <2>4, <2>5
  <2> QED BY <2>2, <2>6
<1>10. \A k \in 1..Longest : k - 1 \in 0..Longest
  BY <1>1
<1>11. \A k \in 0..Longest : \A n \in Node : P[k][n] \subseteq Seq(Nat)
  BY <1>9
<1>12. \A n \in Node : P[0][n] = {}
  BY <1>8
<1>13. ASSUME NEW k \in 1..Longest, NEW n \in LG, NEW q
       PROVE  q \in P[k][n] <=>
                \E p \in over[n] :
                  \/ inputs[n][p] = l /\ q = <<p>>
                  \/ inputs[n][p] \in Gate /\ \E r \in P[k - 1][inputs[n][p]] : q = Append(r, p)
  <2>1. P[k - 1] \in V /\ P[k] = Longer(P[k - 1], l, over)
    BY <1>8, <1>9, <1>10
  <2> HIDE DEF V
  <2>2. q \in Longer(P[k - 1], l, over)[n] <=>
          \E p \in over[n] :
            \/ inputs[n][p] = l /\ q = <<p>>
            \/ inputs[n][p] \in Gate /\ \E r \in P[k - 1][inputs[n][p]] : q = Append(r, p)
    <3> DEFINE S == P[k - 1]
    <3>1. S \in V
      BY <2>1
    <3> HIDE DEF S
    <3>2. q \in Longer(S, l, over)[n] <=>
            \E p \in over[n] :
              \/ inputs[n][p] = l /\ q = <<p>>
              \/ inputs[n][p] \in Gate /\ \E r \in S[inputs[n][p]] : q = Append(r, p)
      BY <1>2, <3>1
    <3> QED BY <3>2 DEF S
  <2> QED BY <2>1, <2>2
<1>14. ArePaths(P, l, over)
  BY <1>11, <1>12, <1>13 DEF ArePaths
<1> QED BY <1>14 DEF P
-----------------------------------------------------------------------------
(* Inputs are driven by nothing, and a latch over one path drives.         *)
OthersUndriven == \A n \in Node \ (LG \cup Macros) : driving[n] = {}
SpDrives == \A n \in Node : sp[n] \subseteq driving[n]
(* Nothing is there before the walk comes to it, in the order of the gates.*)
SpOfPassed == \A n \in Node : sp[n] # {} => phase \in {"paths", "done"} /\ n \in LG \ left
GatesInOrder == phase = "paths" => \A m \in Gate \ left : \A n \in Gate \cap left : m < n

(* One path, of at most Rank(n) pins.                                      *)
OneOnly(P, n) ==
  \E q \in Seq(Nat), d \in 1..Rank(n) :
    \A k \in 0..Longest : P[k][n] = IF d <= k THEN {q} ELSE {}
OneEach ==
  phase = "paths" =>
    \A n \in LG \ left : \A l \in sp[n] :
      \A P : ArePaths(P, l, NoScanPin) => OneOnly(P, n)

(* On a sorted netlist without macros no node with one path was missed.    *)
NoneMissed ==
  phase = "paths" /\ Sorted /\ NoMacros =>
    \A n \in LG \ left : \A l \in driving[n] \ sp[n] : \A k \in Rank(n)..Longest :
      \A P : ArePaths(P, l, AnyPin) => ~IsOne(P[k][n])

SpInv == /\ OthersUndriven /\ SpDrives /\ SpOfPassed /\ GatesInOrder
         /\ OneEach /\ NoneMissed

(* A path takes its latch to a node that the latch drives.                 *)
LEMMA PathsDrive ==
  ASSUME IInv, phase = "paths", NEW l \in Latch, NEW P, ArePaths(P, l, NoScanPin)
  PROVE  \A k \in 0..Longest : \A n \in LG : P[k][n] # {} => l \in driving[n]
<1> DEFINE T == {k \in 0..Longest : \E n \in LG : P[k][n] # {} /\ l \notin driving[n]}
<1> SUFFICES ASSUME T # {} PROVE FALSE
  OBVIOUS
<1>0. NetOK /\ Longest \in Nat /\ LG \subseteq Node /\ Gate \subseteq LG
  BY RankFacts, NetFacts DEF IInv, LG
<1>1. PICK k \in T : \A y \in T : k <= y
  <2>1. T \in SUBSET Nat
    BY <1>0
  <2> HIDE DEF T
  <2> QED BY <2>1, LeastNat
<1>2. PICK n \in LG : P[k][n] # {} /\ l \notin driving[n]
  BY <1>1
<1>3. n \in Node /\ k \in 0..Longest
  BY <1>0, <1>1
<1>4. k \in 1..Longest /\ k - 1 \in 0..Longest /\ ~(k <= k - 1)
  <2>1. k # 0
    BY <1>2, <1>3 DEF ArePaths
  <2> QED BY <1>0, <1>3, <2>1
<1>5. PICK q : q \in P[k][n]
  BY <1>2
<1>6. PICK p \in NoScanPin[n] :
        \/ inputs[n][p] = l /\ q = <<p>>
        \/ inputs[n][p] \in Gate /\ \E r \in P[k - 1][inputs[n][p]] : q = Append(r, p)
  BY <1>4, <1>5 DEF ArePaths
<1> DEFINE i == inputs[n][p]
<1>7. i \in In(n) \ {netlist.si[n]}
  BY <1>0, <1>3, <1>6, PathsTyped
<1>8. DrivingClosedAt(driving, n)
  BY DEF IInv, DrivingComplete, DrivingClosed
<1>9. CASE i = l
  BY <1>2, <1>7, <1>8, <1>9 DEF DrivingClosedAt
<1>10. CASE i \in Gate /\ P[k - 1][i] # {}
  <2>1. l \in driving[i]
    <3>1. k - 1 \notin T
      <4> HIDE DEF T
      <4> QED BY <1>1, <1>4
    <3> QED BY <1>0, <1>4, <1>10, <3>1
  <2> QED BY <1>2, <1>7, <1>8, <1>10, <2>1 DEF DrivingClosedAt
<1> QED BY <1>6, <1>9, <1>10

(* On a sorted netlist without macros every latch that drives a node has a *)
(* path to it.                                                             *)
LEMMA DriversHavePaths ==
  ASSUME IInv, OthersUndriven, Sorted, NoMacros, NEW l \in Latch, NEW P, ArePaths(P, l, AnyPin)
  PROVE  \A n \in LG : l \in driving[n] => \A k \in Rank(n)..Longest : P[k][n] # {}
<1> DEFINE Breach(n) == n \in LG /\ l \in driving[n] /\ \E k \in Rank(n)..Longest : P[k][n] = {}
           T == {c \in 0..Longest : \E n \in LG : Breach(n) /\ Rank(n) = c}
<1>0. NetOK /\ Longest \in Nat /\ LG \subseteq Node /\ Gate \subseteq LG
  BY RankFacts, NetFacts DEF IInv, LG
<1> SUFFICES ASSUME T # {} PROVE FALSE
  <2>1. \A n \in LG : ~Breach(n)
    <3> SUFFICES ASSUME NEW n \in LG, Breach(n) PROVE FALSE
      OBVIOUS
    <3>1. Rank(n) \in 0..Longest
      BY <1>0, RankFacts
    <3> HIDE DEF Breach
    <3> QED BY <3>1
  <2> QED BY <2>1
<1>1. PICK c \in T : \A y \in T : c <= y
  <2>1. T \in SUBSET Nat
    BY <1>0
  <2> HIDE DEF T
  <2> QED BY <2>1, LeastNat
<1>2. PICK n \in LG : Breach(n) /\ Rank(n) = c
  BY <1>1
<1>3. PICK k \in Rank(n)..Longest : P[k][n] = {}
  BY <1>2
<1>4. n \in Node /\ Rank(n) \in 1..Longest /\ k \in 1..Longest /\ k - 1 \in 0..Longest
  <2>1. Rank(n) \in 1..Longest
    BY <1>0, RankFacts
  <2> QED BY <1>0, <2>1
<1>5. PICK i \in In(n) \ {netlist.si[n]} : i = l \/ (i \notin Latch /\ l \in driving[i])
  BY <1>2 DEF IInv, CameOverAPin
<1>6. PICK p \in Pins(n) : inputs[n][p] = i
  BY <1>5 DEF In
<1>7. p \in AnyPin[n]
  BY <1>0, <1>4, <1>6, PathsTyped
<1>8. CASE i = l
  <2>1. <<p>> \in P[k][n]
    BY <1>4, <1>6, <1>7, <1>8 DEF ArePaths
  <2> QED BY <1>3, <2>1
<1>9. CASE i \notin Latch /\ l \in driving[i]
  <2>1. i \in Node /\ i \notin Macros
    BY <1>0, <1>4, <1>5, NetFacts DEF NoMacros, LG
  <2>2. i \in Gate
    BY <1>9, <2>1 DEF OthersUndriven, LG
  <2>3. n \in Latch \/ i < n
    BY <1>5, <2>2 DEF Sorted, LG
  <2>4. Rank(i) < Rank(n) /\ Rank(i) \in 1..Longest
    BY <1>0, <2>2, <2>3, RankFacts
  <2>5. ~Breach(i)
    <3> SUFFICES ASSUME Breach(i) PROVE FALSE
      OBVIOUS
    <3>1. Rank(i) \in T
      <4> HIDE DEF Breach
      <4> QED BY <1>0, <2>2, <2>4
    <3> HIDE DEF T, Breach
    <3> QED BY <1>1, <1>2, <1>4, <2>4, <3>1
  <2>6. k - 1 \in Rank(i)..Longest
    BY <1>3, <1>4, <2>4
  <2>7. PICK r : r \in P[k - 1][i]
    BY <1>0, <1>9, <2>2, <2>5, <2>6
  <2>8. Append(r, p) \in P[k][n]
    BY <1>4, <1>6, <1>7, <2>2, <2>7 DEF ArePaths
  <2> QED BY <1>3, <2>8
<1> QED BY <1>5, <1>8, <1>9

(* What comes in over one pin, and there over one path, has one path.      *)
LEMMA OneGivesOne ==
  ASSUME IInv, SpInv, phase = "paths", NEW n \in left, IsNext(n),
         NEW l \in driving[n], OnePath(n, l), NEW P, ArePaths(P, l, NoScanPin)
  PROVE  OneOnly(P, n)
<1>0. /\ NetOK /\ Longest \in Nat /\ LG \subseteq Node /\ Gate \subseteq LG
      /\ n \in LG /\ n \in Node /\ l \in Latch
  BY RankFacts, NetFacts DEF IInv, TypeOK, Walked, OverMacros, LG
<1>1. PICK k \in Pins(n) : Single(n, l) = {k} /\ Several(n, l) = {}
  BY DEF OnePath
<1> DEFINE i == inputs[n][k]
<1>2. k \in NoScanPin[n] /\ k \in Nat /\ i \in In(n) /\ i \in Node
  <2>1. PICK j \in In(n) \ {netlist.si[n]} : j = l \/ (j \notin Latch /\ l \in driving[j])
    BY <1>0 DEF IInv, CameOverAPin
  <2>2. PICK p \in Pins(n) : inputs[n][p] = j
    BY <2>1 DEF In
  <2>3. p \in Single(n, l) \/ p \in Several(n, l)
    BY <1>0, <2>1, <2>2 DEF Single, Several
  <2>4. p = k
    BY <1>1, <2>3
  <2> QED BY <1>0, <2>1, <2>2, <2>4, PathsTyped, NetFacts
<1>3. ASSUME NEW p \in NoScanPin[n], p # k, NEW c \in 0..Longest
      PROVE  inputs[n][p] # l /\ (inputs[n][p] \in Gate => P[c][inputs[n][p]] = {})
  <2>1. p \in Pins(n) /\ p \notin Single(n, l) /\ p \notin Several(n, l)
    BY <1>0, <1>1, <1>3, PathsTyped
  <2>2. inputs[n][p] # l
    BY <1>0, <2>1 DEF Single
  <2>3. ASSUME inputs[n][p] \in Gate PROVE l \notin driving[inputs[n][p]]
    BY <1>0, <2>1, <2>3, NetFacts DEF Single, Several
  <2> QED BY <1>0, <2>2, <2>3, PathsDrive
<1>4. ASSUME NEW c \in 1..Longest, NEW q
      PROVE  q \in P[c][n] <=> \/ i = l /\ q = <<k>>
                               \/ i \in Gate /\ \E r \in P[c - 1][i] : q = Append(r, k)
  <2>0. c - 1 \in 0..Longest
    BY <1>0
  <2>1. q \in P[c][n] <=>
          \E p \in NoScanPin[n] :
            \/ inputs[n][p] = l /\ q = <<p>>
            \/ inputs[n][p] \in Gate /\ \E r \in P[c - 1][inputs[n][p]] : q = Append(r, p)
    BY <1>0 DEF ArePaths
  <2>2. \A p \in NoScanPin[n] : p # k =>
          inputs[n][p] # l /\ (inputs[n][p] \in Gate => P[c - 1][inputs[n][p]] = {})
    BY <1>3, <2>0
  <2> QED BY <1>2, <2>1, <2>2
<1>5. P[0][n] = {} /\ 0 \in 0..Longest
  BY <1>0 DEF ArePaths
<1>6. Rank(n) \in 1..Longest
  BY <1>0, RankFacts
<1>7. CASE i = l
  <2>1. i \notin Gate
    BY <1>0, <1>7, NetFacts
  <2>2. \A c \in 1..Longest : P[c][n] = {<<k>>}
    BY <1>4, <1>7, <2>1
  <2>3. \A c \in 0..Longest : P[c][n] = IF 1 <= c THEN {<<k>>} ELSE {}
    <3> TAKE c \in 0..Longest
    <3>1. CASE c = 0
      BY <1>5, <3>1
    <3>2. CASE c # 0
      BY <1>0, <2>2, <3>2
    <3> QED BY <3>1, <3>2
  <2>4. <<k>> \in Seq(Nat) /\ 1 \in 1..Rank(n)
    BY <1>2, <1>6
  <2> QED BY <2>3, <2>4 DEF OneOnly
<1>8. CASE i # l
  <2>1. i \notin Latch /\ l \in sp[i]
    BY <1>1, <1>8 DEF Single
  <2>2. i \in LG \ left /\ i \in Gate
    BY <1>2, <2>1 DEF SpInv, SpOfPassed, LG
  <2>3. OneOnly(P, i)
    BY <2>1, <2>2 DEF SpInv, OneEach
  <2>4. PICK q \in Seq(Nat), d \in 1..Rank(i) :
          \A c \in 0..Longest : P[c][i] = IF d <= c THEN {q} ELSE {}
    BY <2>3 DEF OneOnly
  <2>5. n \in Latch \/ i < n
    BY <1>0, <2>2 DEF SpInv, GatesInOrder, LG
  <2>6. Rank(i) < Rank(n) /\ Rank(i) \in 1..Longest
    BY <1>0, <2>2, <2>5, RankFacts
  <2>7. d + 1 \in 1..Rank(n) /\ Append(q, k) \in Seq(Nat)
    BY <1>2, <1>6, <2>6
  <2>a. d \in Nat /\ d >= 1
    BY <2>6
  <2>8. ASSUME NEW c \in 0..Longest
        PROVE  P[c][n] = IF d + 1 <= c THEN {Append(q, k)} ELSE {}
    <3>1. CASE c = 0
      <4>1. ~(d + 1 <= c)
        BY <2>a, <3>1
      <4>2. P[c][n] = {}
        BY <1>5, <3>1
      <4> QED BY <4>1, <4>2
    <3>2. CASE c # 0
      <4>1. c \in 1..Longest /\ c - 1 \in 0..Longest
        BY <1>0, <3>2
      <4>2. \A r : r \in P[c][n] <=> \E s \in P[c - 1][i] : r = Append(s, k)
        BY <1>4, <1>8, <2>2, <4>1
      <4>3. P[c - 1][i] = IF d <= c - 1 THEN {q} ELSE {}
        BY <2>4, <4>1
      <4>4. d <= c - 1 <=> d + 1 <= c
        BY <4>1, <2>6
      <4>5. CASE d + 1 <= c
        BY <4>2, <4>3, <4>4, <4>5
      <4>6. CASE ~(d + 1 <= c)
        BY <4>2, <4>3, <4>4, <4>6
      <4> QED BY <4>5, <4>6
    <3> QED BY <3>1, <3>2
  <2> QED BY <2>7, <2>8 DEF OneOnly
<1> QED BY <1>7, <1>8

LEMMA LastPin ==
  \A r, s \in Seq(Nat), k, m \in Nat : Append(r, k) = Append(s, m) => r = s /\ k = m
BY AppendInjective

(* And the other way round, if the netlist is sorted and has no macros.    *)
LEMMA OneComesFromOne ==
  ASSUME IInv, SpInv, phase = "paths", Sorted, NoMacros, NEW n \in left, IsNext(n),
         NEW l \in driving[n], NEW P, ArePaths(P, l, AnyPin),
         NEW c \in Rank(n)..Longest, IsOne(P[c][n])
  PROVE  OnePath(n, l)
<1>0. /\ NetOK /\ Longest \in Nat /\ LG \subseteq Node /\ Gate \subseteq LG
      /\ n \in LG /\ n \in Node /\ l \in Latch /\ Rank(n) \in 1..Longest
  BY RankFacts, NetFacts DEF IInv, TypeOK, Walked, OverMacros, LG
<1>1. c \in 1..Longest /\ c - 1 \in 0..Longest
  BY <1>0
<1>2. PICK q : P[c][n] = {q}
  BY DEF IsOne
<1>3. ASSUME NEW k \in Pins(n), inputs[n][k] \notin Latch, l \in driving[inputs[n][k]]
      PROVE  /\ inputs[n][k] \in Gate /\ P[c - 1][inputs[n][k]] # {}
             /\ c - 1 \in Rank(inputs[n][k])..Longest
             /\ n \in Latch \/ inputs[n][k] < n
  <2> DEFINE i == inputs[n][k]
  <2>1. i \in In(n) /\ i \in Node /\ i \notin Macros
    BY <1>0, PathsTyped, NetFacts DEF NoMacros, LG
  <2>2. i \in Gate
    BY <1>3, <2>1 DEF SpInv, OthersUndriven, LG
  <2>3. n \in Latch \/ i < n
    BY <1>0, <2>1, <2>2 DEF Sorted, LG
  <2>4. Rank(i) < Rank(n) /\ Rank(i) \in 1..Longest
    BY <1>0, <2>2, <2>3, RankFacts
  <2>5. c - 1 \in Rank(i)..Longest
    BY <1>0, <1>1, <2>4
  <2>6. OthersUndriven
    BY DEF SpInv
  <2>7. P[c - 1][i] # {}
    BY <1>0, <1>3, <2>2, <2>5, <2>6, DriversHavePaths
  <2> QED BY <2>2, <2>3, <2>5, <2>7
<1>4. ASSUME NEW k \in Pins(n), inputs[n][k] \in Gate, NEW r \in P[c - 1][inputs[n][k]]
      PROVE  /\ q = Append(r, k) /\ r \in Seq(Nat) /\ k \in Nat
  <2>1. k \in AnyPin[n] /\ k \in Nat /\ inputs[n][k] \in Node
    BY <1>0, <1>4, PathsTyped
  <2>2. Append(r, k) \in P[c][n]
    BY <1>0, <1>1, <1>4, <2>1 DEF ArePaths
  <2>3. r \in Seq(Nat)
    BY <1>1, <2>1 DEF ArePaths
  <2> QED BY <1>2, <2>1, <2>2, <2>3
<1>5. ASSUME NEW k \in Single(n, l) \cup Several(n, l)
      PROVE  k \in Nat /\ \E r \in Seq(Nat) : q = Append(r, k)
  <2>1. k \in Pins(n) /\ k \in Nat /\ k \in AnyPin[n]
    BY <1>0, PathsTyped DEF Single, Several
  <2>2. CASE inputs[n][k] = l
    <3>1. <<k>> \in P[c][n]
      BY <1>0, <1>1, <2>1, <2>2 DEF ArePaths
    <3>2. <<k>> = Append(<<>>, k) /\ <<>> \in Seq(Nat)
      BY <2>1
    <3> QED BY <1>2, <2>1, <3>1, <3>2
  <2>3. CASE inputs[n][k] # l
    <3>1. inputs[n][k] \notin Latch /\ inputs[n][k] \in Node
      BY <1>0, <2>1, <2>3, PathsTyped, NetFacts DEF Single, Several
    <3>2. l \in driving[inputs[n][k]]
      BY <2>1, <3>1 DEF SpInv, SpDrives, Single, Several
    <3>3. inputs[n][k] \in Gate /\ \E r : r \in P[c - 1][inputs[n][k]]
      BY <1>3, <2>1, <3>1, <3>2
    <3> QED BY <1>4, <2>1, <3>3
  <2> QED BY <2>2, <2>3
<1>6. \A k, m \in Single(n, l) \cup Several(n, l) : k = m
  <2> TAKE k, m \in Single(n, l) \cup Several(n, l)
  <2>1. PICK r \in Seq(Nat) : q = Append(r, k)
    BY <1>5
  <2>2. PICK s \in Seq(Nat) : q = Append(s, m)
    BY <1>5
  <2>3. k \in Nat /\ m \in Nat
    BY <1>5
  <2>4. Append(r, k) = Append(s, m)
    BY <2>1, <2>2
  <2> QED BY <2>3, <2>4, LastPin
<1>7. Several(n, l) = {}
  <2> SUFFICES ASSUME NEW k \in Several(n, l) PROVE FALSE
    OBVIOUS
  <2> DEFINE i == inputs[n][k]
  <2>1. k \in Pins(n) /\ i \notin Latch /\ l \in driving[i] \ sp[i]
    BY DEF Several
  <2>2. i \in Gate /\ P[c - 1][i] # {} /\ c - 1 \in Rank(i)..Longest /\ (n \in Latch \/ i < n)
    BY <1>3, <2>1
  <2>3. i \notin left
    <3>0. i \in Node /\ n \in Node
      BY <1>0, <2>2
    <3>1. n \in Int /\ i \in Int /\ NumNodes \in Nat /\ i <= NumNodes /\ n >= 1
      BY <3>0, NumNodesAssumption DEF Node
    <3>2. Place(i) = i
      BY <2>2 DEF Place, Gate, OfKind
    <3>3. Place(n) = IF n \in Latch THEN NumNodes + n ELSE n
      <4>1. netlist.kind[n] \in {"latch", "gate"} /\ (netlist.kind[n] = "latch" <=> n \in Latch)
        BY <1>0 DEF LG, Latch, Gate, OfKind
      <4> QED BY <4>1 DEF Place
    <3> QED BY <2>2, <3>1, <3>2, <3>3 DEF IsNext
  <2>4. IsOne(P[c - 1][i])
    <3>1. PICK r : r \in P[c - 1][i]
      BY <2>2
    <3>2. ASSUME NEW s \in P[c - 1][i] PROVE s = r
      <4>1. q = Append(r, k) /\ r \in Seq(Nat) /\ k \in Nat
        BY <1>4, <2>1, <2>2, <3>1
      <4>2. q = Append(s, k) /\ s \in Seq(Nat)
        BY <1>4, <2>1, <2>2
      <4> QED BY <4>1, <4>2, LastPin
    <3> QED BY <3>1, <3>2 DEF IsOne
  <2>5. i \in LG \ left
    BY <1>0, <2>2, <2>3
  <2> QED BY <2>1, <2>2, <2>4, <2>5 DEF SpInv, NoneMissed
<1>8. Single(n, l) \cup Several(n, l) # {}
  <2>1. PICK j \in In(n) : j = l \/ (j \notin Latch /\ l \in driving[j])
    BY <1>0 DEF IInv, CameOverAPin
  <2>2. PICK p \in Pins(n) : inputs[n][p] = j
    BY <2>1 DEF In
  <2>3. p \in Single(n, l) \/ p \in Several(n, l)
    BY <1>0, <2>1, <2>2 DEF Single, Several
  <2> QED BY <2>3
<1>9. PICK k \in Single(n, l) : Single(n, l) = {k}
  BY <1>6, <1>7, <1>8
<1>10. k \in Pins(n)
  BY DEF Single
<1> QED BY <1>7, <1>9, <1>10 DEF OnePath

LEMMA PathsUnchanged ==
  ASSUME netlist' = netlist
  PROVE  /\ Latch' = Latch /\ Gate' = Gate /\ LG' = LG /\ Macros' = Macros
         /\ Longest' = Longest /\ (Sorted' <=> Sorted) /\ (NoMacros' <=> NoMacros)
         /\ \A n : Rank(n)' = Rank(n)
         /\ \A P, l : /\ ArePaths(P, l, AnyPin)' <=> ArePaths(P, l, AnyPin)
                      /\ ArePaths(P, l, NoScanPin)' <=> ArePaths(P, l, NoScanPin)
         /\ \A P, n : OneOnly(P, n)' <=> OneOnly(P, n)
<1>1. /\ Latch' = Latch /\ Gate' = Gate /\ LG' = LG /\ Macros' = Macros
      /\ \A n : In(n)' = In(n)
  BY NetUnchanged
<1>2. Longest' = Longest
  BY <1>1 DEF Longest
<1>3. \A n : Rank(n)' = Rank(n)
  BY <1>1 DEF Rank
<1>4. (Sorted' <=> Sorted) /\ (NoMacros' <=> NoMacros)
  BY <1>1 DEF Sorted, NoMacros
<1>5. AnyPin' = AnyPin /\ NoScanPin' = NoScanPin
  BY DEF AnyPin, NoScanPin, Pins, inputs
<1>6. ASSUME NEW P, NEW l
      PROVE  /\ ArePaths(P, l, AnyPin)' <=> ArePaths(P, l, AnyPin)
             /\ ArePaths(P, l, NoScanPin)' <=> ArePaths(P, l, NoScanPin)
  BY <1>1, <1>2, <1>5 DEF ArePaths, inputs
<1>7. \A P, n : OneOnly(P, n)' <=> OneOnly(P, n)
  BY <1>2, <1>3 DEF OneOnly
<1> QED BY <1>1, <1>2, <1>3, <1>4, <1>6, <1>7

LEMMA SpInit == Init => SpInv
BY DEF Init, SpInv, OthersUndriven, SpDrives, SpOfPassed, GatesInOrder, OneEach, NoneMissed

(* Before the walk for the paths only driving changes.                     *)
LEMMA SpBefore ==
  ASSUME IInv, SpInv, UpdateDriven \/ UpdateDriving \/ WalkAgain
  PROVE  SpInv'
<1>1. /\ netlist' = netlist /\ sp' = sp /\ phase' = phase
      /\ phase \in {"driven", "drivenMacros", "driving", "drivingMacros"}
      /\ NetOK /\ TypeOK
  BY DEF UpdateDriven, UpdateDriving, WalkAgain, ToFixpoint, IInv
<1> USE <1>1
<1>2. \A n \in Node : sp[n] = {}
  BY DEF SpInv, SpOfPassed
<1>3. SpOfPassed' /\ GatesInOrder' /\ OneEach' /\ NoneMissed' /\ SpDrives'
  BY <1>2 DEF SpOfPassed, GatesInOrder, OneEach, NoneMissed, SpDrives
<1>4. OthersUndriven'
  <2>1. LG' = LG /\ Macros' = Macros
    BY NetUnchanged
  <2>2. CASE UpdateDriving
    <3>1. PICK n \in left : driving' = [driving EXCEPT ![n] = @ \cup DrivingOver(n)]
      BY <2>2 DEF UpdateDriving
    <3>2. n \in LG \cup Macros
      BY DEF TypeOK, Walked, OverMacros, LG
    <3>3. \A m \in Node : m # n => driving'[m] = driving[m]
      BY <3>1 DEF TypeOK
    <3> QED BY <2>1, <3>2, <3>3 DEF SpInv, OthersUndriven
  <2>3. CASE UpdateDriven \/ WalkAgain
    <3>1. driving' = driving
      BY <2>3 DEF UpdateDriven, WalkAgain
    <3> QED BY <2>1, <3>1 DEF SpInv, OthersUndriven
  <2> QED BY <2>2, <2>3
<1> QED BY <1>3, <1>4 DEF SpInv

LEMMA SpEndWalk == IInv /\ SpInv /\ EndWalk => SpInv'
<1> SUFFICES ASSUME IInv, SpInv, EndWalk PROVE SpInv'
  OBVIOUS
<1>1. /\ UNCHANGED <<netlist, driven, driving, sp>> /\ phase' = After[phase]
      /\ phase # "done" /\ left = {} /\ left' = Walked(phase') /\ phase \in Phase
      /\ \A p : Walked(p)' = Walked(p)
  BY NetUnchanged DEF IInv, TypeOK, EndWalk, Walked
<1> USE <1>1, PhaseFacts
<1>2. LG' = LG /\ Macros' = Macros /\ Gate' = Gate
  BY NetUnchanged
<1>3. OthersUndriven' /\ SpDrives'
  BY <1>2 DEF SpInv, OthersUndriven, SpDrives
<1>4. phase' = "paths" => left' = LG
  BY DEF Walked, OverMacros, LG
<1>5. phase' = "done" => left' = {}
  BY DEF Walked
<1>6. SpOfPassed'
  <2> SUFFICES ASSUME NEW n \in Node, sp[n] # {}
               PROVE  phase' \in {"paths", "done"} /\ n \in LG \ left'
    BY <1>2 DEF SpOfPassed
  <2>1. phase = "paths" /\ n \in LG
    BY DEF SpInv, SpOfPassed
  <2> QED BY <1>5, <2>1
<1>7. GatesInOrder' /\ OneEach' /\ NoneMissed'
  BY <1>2, <1>4 DEF GatesInOrder, OneEach, NoneMissed, LG
<1> QED BY <1>3, <1>6, <1>7 DEF SpInv

LEMMA SpComputePaths == IInv /\ SpInv /\ ComputePaths => SpInv'
<1> SUFFICES ASSUME IInv, SpInv, ComputePaths PROVE SpInv'
  OBVIOUS
<1>1. /\ UNCHANGED <<netlist, driven, driving, changed, phase>> /\ phase = "paths"
      /\ NetOK /\ TypeOK
  BY DEF IInv, ComputePaths
<1>2. PICK n \in left : /\ IsNext(n)
                        /\ sp' = [sp EXCEPT ![n] = @ \cup {l \in driving[n] : OnePath(n, l)}]
                        /\ left' = left \ {n}
  BY DEF ComputePaths
<1> USE <1>1, PathsUnchanged
<1>3. n \in Node /\ n \in LG /\ LG \subseteq Node /\ Gate \subseteq LG /\ left \subseteq LG
  BY NetFacts DEF TypeOK, Walked, OverMacros, LG
<1>4. sp[n] = {}
  BY <1>3 DEF SpInv, SpOfPassed
<1>5. /\ sp'[n] = {l \in driving[n] : OnePath(n, l)}
      /\ \A m \in Node : m # n => sp'[m] = sp[m]
  BY <1>2, <1>3, <1>4 DEF TypeOK
<1>6. OthersUndriven' /\ SpDrives'
  BY <1>5 DEF SpInv, OthersUndriven, SpDrives
<1>7. SpOfPassed'
  BY <1>2, <1>3, <1>5 DEF SpInv, SpOfPassed
<1>8. GatesInOrder'
  <2> SUFFICES ASSUME NEW m \in Gate \ left', NEW g \in Gate \cap left' PROVE m < g
    BY DEF GatesInOrder
  <2>1. CASE m # n
    BY <1>2, <2>1 DEF SpInv, GatesInOrder
  <2>2. CASE m = n
    <3>1. Place(n) = n /\ Place(g) = g
      BY <2>2 DEF Place, Gate, OfKind
    <3>2. n <= g /\ n # g
      BY <1>2, <2>2, <3>1 DEF IsNext
    <3>3. n \in Int /\ g \in Int
      BY <1>3, NumNodesAssumption DEF Node
    <3> QED BY <2>2, <3>2, <3>3
  <2> QED BY <2>1, <2>2
<1>9. OneEach'
  <2> SUFFICES ASSUME NEW m \in LG \ left', NEW l \in sp'[m], NEW P, ArePaths(P, l, NoScanPin)
               PROVE  OneOnly(P, m)
    BY DEF OneEach
  <2>1. CASE m # n
    BY <1>2, <1>3, <1>5, <2>1 DEF SpInv, OneEach
  <2>2. CASE m = n
    <3>1. l \in driving[n] /\ OnePath(n, l)
      BY <1>5, <2>2
    <3> QED BY <1>2, <2>2, <3>1, OneGivesOne
  <2> QED BY <2>1, <2>2
<1>10. NoneMissed'
  <2> SUFFICES ASSUME Sorted, NoMacros, NEW m \in LG \ left', NEW l \in driving[m] \ sp'[m],
                      NEW k \in Rank(m)..Longest, NEW P, ArePaths(P, l, AnyPin), IsOne(P[k][m])
               PROVE  FALSE
    BY DEF NoneMissed, IsOne
  <2>1. CASE m # n
    BY <1>2, <1>3, <1>5, <2>1 DEF SpInv, NoneMissed
  <2>2. CASE m = n
    <3>1. OnePath(n, l)
      BY <1>2, <2>2, OneComesFromOne
    <3> QED BY <1>5, <2>2, <3>1
  <2> QED BY <2>1, <2>2
<1> QED BY <1>6, <1>7, <1>8, <1>9, <1>10 DEF SpInv

LEMMA SpStutter == SpInv /\ UNCHANGED vars => SpInv'
<1> SUFFICES ASSUME SpInv, UNCHANGED vars PROVE SpInv'
  OBVIOUS
<1>1. UNCHANGED <<netlist, driving, sp, left, phase>>
  BY DEF vars
<1> USE <1>1, PathsUnchanged
<1>2. OthersUndriven' /\ SpDrives' /\ SpOfPassed' /\ GatesInOrder'
  BY DEF SpInv, OthersUndriven, SpDrives, SpOfPassed, GatesInOrder
<1>3. OneEach'
  BY DEF SpInv, OneEach
<1>4. NoneMissed'
  BY DEF SpInv, NoneMissed, IsOne
<1> QED BY <1>2, <1>3, <1>4 DEF SpInv

THEOREM PathsInductive == Spec => []SpInv
<1>1. IInv /\ SpInv /\ [Next]_vars => SpInv'
  BY SpBefore, SpEndWalk, SpComputePaths, SpStutter DEF Next
<1> QED BY SpInit, Inductive, <1>1, PTL DEF Spec

(* For every netlist, with loops, scan chains and macros: a latch that     *)
(* compute_driving_latches_mp puts into driving_latches_sp has one path to *)
(* the node; and if topo_sort could sort the gates and there are no macros *)
(* it leaves out no latch that has one path, scan inputs counted.          *)
THEOREM SpIsExact == Spec => []SpIsTheOnlyPath
<1>1. IInv /\ SpInv => SpIsTheOnlyPath
  <2> SUFFICES ASSUME IInv, SpInv, phase = "paths", left = {}, NEW l \in Latch,
                      NEW n \in Latch \cup Gate, l \in driving[n]
               PROVE  /\ l \in sp[n] => IsOne(Paths(l, NoScanPin)[Longest][n])
                      /\ Sorted /\ NoMacros /\ IsOne(Paths(l, AnyPin)[Longest][n]) => l \in sp[n]
    BY DEF SpIsTheOnlyPath
  <2>1. NetOK /\ n \in LG \ left
    BY DEF IInv, LG
  <2>2. Rank(n) \in 1..Longest /\ Longest \in Nat
    BY <2>1, RankFacts
  <2>3. Longest \in 0..Longest /\ Longest \in Rank(n)..Longest
    BY <2>2
  <2>4. /\ ArePaths(Paths(l, NoScanPin), l, NoScanPin)
        /\ ArePaths(Paths(l, AnyPin), l, AnyPin)
    <3>1. /\ AnyPin \in [Node -> SUBSET Nat] /\ NoScanPin \in [Node -> SUBSET Nat]
          /\ \A m \in Node : AnyPin[m] \subseteq Pins(m) /\ NoScanPin[m] \subseteq Pins(m)
      BY <2>1, PathsTyped
    <3> QED BY <2>1, <3>1, PathsArePaths
  <2>5. ASSUME l \in sp[n] PROVE IsOne(Paths(l, NoScanPin)[Longest][n])
    <3>1. OneOnly(Paths(l, NoScanPin), n)
      BY <2>1, <2>4, <2>5 DEF SpInv, OneEach
    <3>2. PICK q \in Seq(Nat), d \in 1..Rank(n) :
            Paths(l, NoScanPin)[Longest][n] = IF d <= Longest THEN {q} ELSE {}
      BY <2>3, <3>1 DEF OneOnly
    <3>3. Paths(l, NoScanPin)[Longest][n] = {q}
      BY <2>2, <3>2
    <3> QED BY <3>3 DEF IsOne
  <2>6. ASSUME Sorted, NoMacros, IsOne(Paths(l, AnyPin)[Longest][n]) PROVE l \in sp[n]
    BY <2>1, <2>3, <2>4, <2>6 DEF SpInv, NoneMissed
  <2> QED BY <2>5, <2>6
<1> QED BY Inductive, PathsInductive, <1>1, PTL
-----------------------------------------------------------------------------
(* A chain follows the connections, each over one path and under one       *)
(* clock; no latch of it drives one before, and none is in a memory.       *)
RunsForward(p) ==
  /\ p \in Seq(Latch)
  /\ \A k \in 1..(Len(p) - 1) :
       p[k + 1] \in driven[p[k]] /\ p[k] \in sp[p[k + 1]] /\ netlist.clk[p[k]] = netlist.clk[p[k + 1]]
  /\ \A k \in 1..Len(p) : \A j \in 1..(k - 1) : p[j] \notin driven[p[k]]
  /\ \A k \in 1..Len(p) : p[k] \notin netlist.ram

(* What may come after latch i of p, if it is the last.                    *)
MayFollow(p, i) ==
  {m \in Latch :
     /\ m \in driven[p[i]] /\ p[i] \in sp[m] /\ netlist.clk[p[i]] = netlist.clk[m]
     /\ \A j \in 1..i : p[j] \notin driven[m]
     /\ m \notin netlist.ram}

PathSound ==
  /\ RunsForward(path)
  /\ rest \in Seq(SUBSET Latch) /\ Len(rest) = Len(path)
  /\ \A i \in 1..Len(path) : rest[i] \subseteq MayFollow(path, i)
ChainsSound ==
  /\ chains \in Seq(Seq(Latch))
  /\ \A i \in 1..Len(chains) : RunsForward(chains[i])
NotBefore ==
  /\ phase # "done" => stage = "explore" /\ path = <<>> /\ rest = <<>> /\ chains = <<>>
  /\ stage = "explore" => covered = netlist.ram
  /\ todo \subseteq Latch
SearchInv == TypeOK /\ NotBefore /\ PathSound /\ ChainsSound
-----------------------------------------------------------------------------
(* The composed machine implements that of the latch connections: neither  *)
(* find_shiftregs nor find_counters touches what compute_latch_connections *)
(* left, so its theorems hold while they run.                              *)
THEOREM ConnectionsUndisturbed == Analyses => Spec
<1>1. CountersInit => Init
  BY DEF CountersInit, ShiftInit
<1>2. [AnalysesNext]_AnalysesVars => [Next]_vars
  BY DEF AnalysesNext, AnalysesVars
<1> QED
  BY <1>1, <1>2, PTL DEF Analyses, Spec

(* Before anything runs there is no path and no chain.                     *)
LEMMA SearchStarts == CountersInit => NotBefore /\ PathSound /\ ChainsSound
  BY DEF CountersInit, ShiftInit, Init, NotBefore, PathSound, ChainsSound, RunsForward, ToFixpoint

(* Once the connections are there, no step of theirs is possible.          *)
LEMMA ConnectionStep ==
  ASSUME SearchInv, TypeOK', Next, UNCHANGED shiftVars
  PROVE  SearchInv'
<1>1. phase # "done"
  BY DEF Next, UpdateDriven, UpdateDriving, ComputePaths, WalkAgain, EndWalk, ToFixpoint
<1>2. netlist' = netlist /\ Latch' = Latch
  BY DEF Next, UpdateDriven, UpdateDriving, ComputePaths, WalkAgain, EndWalk, Latch, OfKind
<1>3. path' = <<>> /\ rest' = <<>> /\ chains' = <<>> /\ stage' = "explore"
  BY <1>1 DEF SearchInv, NotBefore, shiftVars, searchVars
<1>4. NotBefore'
  BY <1>2, <1>3 DEF SearchInv, NotBefore, shiftVars, searchVars, forestVars, resultVars, Latch, OfKind
<1>5. PathSound' /\ ChainsSound'
  BY <1>3 DEF PathSound, ChainsSound, RunsForward
<1> QED
  BY <1>4, <1>5 DEF SearchInv

(* Steps that leave the connections, the path and the chains alone.        *)
LEMMA OtherStep ==
  ASSUME SearchInv, UNCHANGED <<vars, path, rest, chains>>, NotBefore'
  PROVE  SearchInv'
<1>1. TypeOK' /\ PathSound' /\ ChainsSound'
  BY DEF SearchInv, TypeOK, PathSound, ChainsSound, RunsForward, MayFollow, vars, Latch, Gate, OfKind,
         Walked, Macros
<1> QED
  BY <1>1 DEF SearchInv

(* What explore tries may follow the path.                                 *)
LEMMA CandidatesMayFollow ==
  ASSUME SearchInv, stage = "explore",
         NEW p \in Seq(Latch), p # <<>>, NEW diff
  PROVE  Candidates(p, diff) \subseteq MayFollow(p, Len(p))
<1>1. Len(p) \in Nat \ {0} /\ Last(p) = p[Len(p)] /\ p[Len(p)] \in Latch
  BY DEF Last
<1>2. driven[p[Len(p)]] \subseteq Latch
  BY <1>1 DEF SearchInv, TypeOK, Latch, OfKind
<1>3. covered = netlist.ram
  BY DEF SearchInv, NotBefore
<1>4. \A m : ~Drives(m, p) => \A j \in 1..Len(p) : p[j] \notin driven[m]
  BY DEF Drives, ToSet
<1> QED
  BY <1>1, <1>2, <1>3, <1>4 DEF Candidates, Follows, SameGroup, MayFollow

(* A latch that may follow makes the path one longer.                      *)
LEMMA PathExtends ==
  ASSUME NEW p, RunsForward(p), p # <<>>, NEW m \in MayFollow(p, Len(p))
  PROVE  RunsForward(Append(p, m))
<1>1. p \in Seq(Latch) /\ Len(p) \in Nat \ {0} /\ m \in Latch
  BY DEF RunsForward, MayFollow
<1> DEFINE q == Append(p, m)
<1>2. q \in Seq(Latch) /\ Len(q) = Len(p) + 1 /\ q[Len(p) + 1] = m
      /\ \A k \in 1..Len(p) : q[k] = p[k]
  BY <1>1
<1> HIDE DEF q
<1>3. \A k \in 1..(Len(q) - 1) :
        q[k + 1] \in driven[q[k]] /\ q[k] \in sp[q[k + 1]] /\ netlist.clk[q[k]] = netlist.clk[q[k + 1]]
  <2> SUFFICES ASSUME NEW k \in 1..(Len(q) - 1)
               PROVE  q[k + 1] \in driven[q[k]] /\ q[k] \in sp[q[k + 1]]
                      /\ netlist.clk[q[k]] = netlist.clk[q[k + 1]]
    OBVIOUS
  <2>1. CASE k = Len(p)
    BY <1>1, <1>2, <2>1 DEF MayFollow
  <2>2. CASE k < Len(p)
    <3>1. k \in 1..(Len(p) - 1) /\ q[k] = p[k] /\ q[k + 1] = p[k + 1]
      BY <1>1, <1>2, <2>2
    <3> QED
      BY <3>1 DEF RunsForward
  <2> QED
    BY <1>1, <1>2, <2>1, <2>2
<1>4. \A k \in 1..Len(q) : \A j \in 1..(k - 1) : q[j] \notin driven[q[k]]
  <2> SUFFICES ASSUME NEW k \in 1..Len(q), NEW j \in 1..(k - 1)
               PROVE  q[j] \notin driven[q[k]]
    OBVIOUS
  <2>1. j \in 1..Len(p) /\ q[j] = p[j]
    BY <1>1, <1>2
  <2>2. CASE k = Len(p) + 1
    BY <1>2, <2>1, <2>2 DEF MayFollow
  <2>3. CASE k \in 1..Len(p)
    BY <1>2, <2>1, <2>3 DEF RunsForward
  <2> QED
    BY <1>1, <1>2, <2>2, <2>3
<1>5. \A k \in 1..Len(q) : q[k] \notin netlist.ram
  <2> SUFFICES ASSUME NEW k \in 1..Len(q) PROVE q[k] \notin netlist.ram
    OBVIOUS
  <2> QED
    BY <1>1, <1>2 DEF RunsForward, MayFollow
<1> QED
  BY <1>2, <1>3, <1>4, <1>5 DEF RunsForward, q

(* What may follow a latch depends on the path up to it only.              *)
LEMMA SamePrefix ==
  ASSUME NEW p, NEW q, NEW i \in Nat, \A j \in 1..i : p[j] = q[j], i # 0
  PROVE  MayFollow(p, i) = MayFollow(q, i)
BY DEF MayFollow

(* A path of one latch; or the latch is covered and nothing happens.       *)
LEMMA StartStep ==
  ASSUME SearchInv, NEW l \in Node, StartAt(l), UNCHANGED vars
  PROVE  SearchInv'
<1>1. NotBefore'
  BY DEF SearchInv, NotBefore, StartAt, forestVars, resultVars, vars, Latch, OfKind
<1>2. CASE l \in covered
  BY <1>1, <1>2, OtherStep DEF StartAt
<1>3. CASE l \notin covered
  <2>1. path' = <<l>> /\ rest' = <<Candidates(<<l>>, HeadDiff)>> /\ chains' = chains /\ l \in Latch
        /\ l \notin netlist.ram /\ stage = "explore"
    BY <1>3 DEF StartAt, SearchInv, NotBefore
  <2>2. Candidates(<<l>>, HeadDiff) \subseteq MayFollow(<<l>>, 1)
    BY <2>1, CandidatesMayFollow
  <2>3. RunsForward(<<l>>)
    BY <2>1 DEF RunsForward
  <2>4. MayFollow(<<l>>, 1) \subseteq Latch
    BY DEF MayFollow
  <2>5. PathSound'
    BY <2>1, <2>2, <2>3, <2>4 DEF PathSound, RunsForward, MayFollow, vars, Latch, OfKind
  <2>6. TypeOK' /\ ChainsSound'
    BY <2>1 DEF SearchInv, TypeOK, ChainsSound, RunsForward, vars, Latch, Gate, OfKind, Walked, Macros
  <2> QED
    BY <1>1, <2>5, <2>6 DEF SearchInv
<1> QED
  BY <1>2, <1>3

(* The path is longer by a latch that may follow, or that latch is done.   *)
LEMMA TryStep ==
  ASSUME SearchInv, TryNext, UNCHANGED vars
  PROVE  SearchInv'
<1>1. NotBefore'
  BY DEF SearchInv, NotBefore, TryNext, forestVars, resultVars, vars, Latch, OfKind
<1>2. TypeOK'
  BY DEF SearchInv, TypeOK, vars, Latch, Gate, OfKind, Walked, Macros
<1>3. stage = "explore" /\ path \in Seq(Latch) /\ Len(path) \in Nat \ {0} /\ Len(rest) = Len(path)
      /\ rest \in Seq(SUBSET Latch)
  BY DEF TryNext, SearchInv, PathSound, RunsForward
<1>4. PICK m \in rest[Len(path)] :
        LET accepted == Len(path) = 1 \/ IsShiftReg(path, m)
            left_over == [rest EXCEPT ![Len(rest)] = @ \ {m}]
        IN  /\ path' = IF accepted THEN Append(path, m) ELSE path
            /\ rest' = IF accepted THEN Append(left_over, Candidates(path', ChainDiff)) ELSE left_over
            /\ chains' = IF accepted /\ Len(path) > 1 THEN Append(chains, path') ELSE chains
  BY <1>3 DEF TryNext, Last
<1> DEFINE left_over == [rest EXCEPT ![Len(rest)] = @ \ {m}]
           p == Append(path, m)
<1>5. m \in MayFollow(path, Len(path)) /\ m \in Latch
  BY <1>3 DEF SearchInv, PathSound, MayFollow
<1>6. RunsForward(p)
  BY <1>3, <1>5, PathExtends DEF SearchInv, PathSound
<1>7. /\ left_over \in Seq(SUBSET Latch) /\ Len(left_over) = Len(path)
      /\ \A i \in 1..Len(path) : left_over[i] \subseteq MayFollow(path, i)
  BY <1>3 DEF SearchInv, PathSound
<1>8. p \in Seq(Latch) /\ p # <<>> /\ Len(p) = Len(path) + 1 /\ \A i \in 1..Len(path) : p[i] = path[i]
  BY <1>3, <1>5
<1>9. Candidates(p, ChainDiff) \subseteq MayFollow(p, Len(p))
  BY <1>3, <1>8, CandidatesMayFollow
<1>10. Candidates(p, ChainDiff) \subseteq Latch
  BY <1>9 DEF MayFollow
<1>11. CASE Len(path) = 1 \/ IsShiftReg(path, m)
  <2> DEFINE r == Append(left_over, Candidates(p, ChainDiff))
  <2>1. path' = p /\ rest' = r /\ chains' \in {chains, Append(chains, p)}
    BY <1>4, <1>11
  <2>2. /\ r \in Seq(SUBSET Latch) /\ Len(r) = Len(p)
        /\ \A i \in 1..Len(path) : r[i] = left_over[i]
        /\ r[Len(p)] = Candidates(p, ChainDiff)
    <3> HIDE DEF left_over, p
    <3> QED
      BY <1>3, <1>7, <1>8, <1>10
  <2>3. \A i \in 1..Len(path) : MayFollow(p, i) = MayFollow(path, i)
    <3> TAKE i \in 1..Len(path)
    <3> HIDE DEF p
    <3>1. i \in Nat /\ i # 0 /\ \A j \in 1..i : p[j] = path[j]
      BY <1>3, <1>8
    <3> QED
      BY <3>1, SamePrefix
  <2> HIDE DEF left_over, p, r
  <2>4. \A i \in 1..Len(p) : r[i] \subseteq MayFollow(p, i)
    <3> TAKE i \in 1..Len(p)
    <3>1. CASE i = Len(p)
      BY <1>9, <2>2, <3>1
    <3>2. CASE i \in 1..Len(path)
      BY <1>7, <2>2, <2>3, <3>2
    <3> QED
      BY <1>3, <1>8, <3>1, <3>2
  <2>5. PathSound'
    BY <1>6, <2>1, <2>2, <2>4 DEF PathSound, RunsForward, MayFollow, vars, Latch, OfKind
  <2>6. chains' \in Seq(Seq(Latch)) /\ \A i \in 1..Len(chains') : RunsForward(chains'[i])
    <3>1. chains \in Seq(Seq(Latch)) /\ Len(chains) \in Nat /\ \A i \in 1..Len(chains) : RunsForward(chains[i])
      BY DEF SearchInv, ChainsSound
    <3>2. CASE chains' = chains
      BY <3>1, <3>2
    <3>3. CASE chains' = Append(chains, p)
      <4>1. chains' \in Seq(Seq(Latch)) /\ Len(chains') = Len(chains) + 1
            /\ chains'[Len(chains) + 1] = p /\ \A i \in 1..Len(chains) : chains'[i] = chains[i]
        BY <1>8, <3>1, <3>3
      <4>2. ASSUME NEW i \in 1..Len(chains') PROVE RunsForward(chains'[i])
        <5>1. CASE i = Len(chains) + 1
          BY <1>6, <4>1, <5>1
        <5>2. CASE i \in 1..Len(chains)
          BY <3>1, <4>1, <5>2
        <5> QED
          BY <3>1, <4>1, <5>1, <5>2
      <4> QED
        BY <4>1, <4>2
    <3> QED
      BY <2>1, <3>2, <3>3
  <2>7. ChainsSound'
    BY <2>6 DEF ChainsSound, RunsForward, vars, Latch, OfKind
  <2> QED
    BY <1>1, <1>2, <2>5, <2>7 DEF SearchInv
<1>12. CASE ~(Len(path) = 1 \/ IsShiftReg(path, m))
  <2>1. path' = path /\ rest' = left_over /\ chains' = chains
    BY <1>4, <1>12
  <2> HIDE DEF left_over
  <2>2. PathSound' /\ ChainsSound'
    BY <1>7, <2>1 DEF SearchInv, PathSound, ChainsSound, RunsForward, MayFollow, vars, Latch, OfKind
  <2> QED
    BY <1>1, <1>2, <2>2 DEF SearchInv
<1> QED
  BY <1>11, <1>12

(* The start of a path that runs forward does so too.                      *)
LEMMA BacktrackStep ==
  ASSUME SearchInv, Backtrack, UNCHANGED vars
  PROVE  SearchInv'
<1>1. NotBefore'
  BY DEF SearchInv, NotBefore, Backtrack, forestVars, resultVars, vars, Latch, OfKind
<1>2. path \in Seq(Latch) /\ Len(path) \in Nat \ {0} /\ Len(rest) = Len(path) /\ rest \in Seq(SUBSET Latch)
  BY DEF Backtrack, SearchInv, PathSound, RunsForward
<1>3. path' = Front(path) /\ rest' = Front(rest) /\ chains' = chains
  BY DEF Backtrack
<1>4. /\ path' \in Seq(Latch) /\ Len(path') = Len(path) - 1
      /\ \A k \in 1..(Len(path) - 1) : path'[k] = path[k]
  BY <1>2, <1>3 DEF Front
<1>5. /\ rest' \in Seq(SUBSET Latch) /\ Len(rest') = Len(path')
      /\ \A k \in 1..(Len(path) - 1) : rest'[k] = rest[k]
  BY <1>2, <1>3, <1>4 DEF Front
<1> DEFINE p == path'
           r == rest'
<1> HIDE DEF p, r
<1>6. RunsForward(p)
  <2>1. \A k \in 1..(Len(p) - 1) : k \in 1..(Len(path) - 1) /\ p[k] = path[k] /\ p[k + 1] = path[k + 1]
    BY <1>2, <1>4 DEF p
  <2>2. \A k \in 1..Len(p) : k \in 1..Len(path) /\ p[k] = path[k]
    BY <1>2, <1>4 DEF p
  <2>3. \A k \in 1..Len(p) : \A j \in 1..(k - 1) : p[j] = path[j]
    BY <1>2, <1>4 DEF p
  <2>4. p \in Seq(Latch)
    BY <1>4 DEF p
  <2> QED
    BY <2>1, <2>2, <2>3, <2>4 DEF SearchInv, PathSound, RunsForward
<1>7. \A i \in 1..Len(p) : r[i] \subseteq MayFollow(p, i)
  <2> TAKE i \in 1..Len(p)
  <2>0. i \in 1..(Len(path) - 1) /\ \A j \in 1..i : j \in 1..(Len(path) - 1)
    BY <1>2, <1>4 DEF p
  <2>1. i \in 1..Len(path) /\ i \in Nat /\ i # 0 /\ r[i] = rest[i] /\ \A j \in 1..i : p[j] = path[j]
    <3>1. i \in 1..Len(path) /\ i \in Nat /\ i # 0
      BY <1>2, <2>0
    <3>2. r[i] = rest[i]
      BY <1>5, <2>0 DEF r
    <3>3. \A j \in 1..i : p[j] = path[j]
      BY <1>4, <2>0 DEF p
    <3> QED
      BY <3>1, <3>2, <3>3
  <2>2. MayFollow(p, i) = MayFollow(path, i)
    BY <2>1, SamePrefix
  <2> QED
    BY <2>1, <2>2 DEF SearchInv, PathSound
<1>8. PathSound'
  BY <1>5, <1>6, <1>7 DEF p, r, PathSound, RunsForward, MayFollow, vars, Latch, OfKind
<1>9. TypeOK' /\ ChainsSound'
  BY <1>3 DEF SearchInv, TypeOK, ChainsSound, RunsForward, vars, Latch, Gate, OfKind, Walked, Macros
<1> QED
  BY <1>1, <1>8, <1>9 DEF SearchInv

(* Linking, the modules and the counters leave path and chains alone.      *)
LEMMA LaterStep ==
  ASSUME SearchInv, UNCHANGED vars,
         \/ MarkContained \/ LinkPair \/ CreateRegisters
         \/ CountersNext
  PROVE  SearchInv'
<1>1. UNCHANGED <<path, rest, chains>>
  BY DEF MarkContained, LinkPair, CreateRegisters, CountersNext, CountFrom, Lengthen, Shorten, AddOverlaps,
         Merge, EndMerge, OutputCounters, shiftVars, searchVars
<1>2. NotBefore'
  <2>1. CASE MarkContained
    BY <2>1 DEF MarkContained, SearchInv, NotBefore, vars, Latch, OfKind
  <2>2. CASE LinkPair
    BY <2>2 DEF LinkPair, SearchInv, NotBefore, searchVars, resultVars, vars, Latch, OfKind
  <2>3. CASE CreateRegisters
    BY <2>3 DEF CreateRegisters, SearchInv, NotBefore, vars, Latch, OfKind
  <2>4. CASE CountersNext
    BY <2>4 DEF CountersNext, CountFrom, Lengthen, Shorten, AddOverlaps, Merge, EndMerge, OutputCounters,
                SearchInv, NotBefore, shiftVars, searchVars, resultVars, vars, Latch, OfKind
  <2> QED
    BY <2>1, <2>2, <2>3, <2>4
<1> QED
  BY <1>1, <1>2, OtherStep

(* SearchInv is inductive: the search of explore keeps it, and what runs   *)
(* before and after leaves it alone.                                       *)
THEOREM SearchInductive == Analyses => []SearchInv
<1>1. CountersInit /\ TypeOK => SearchInv
  BY SearchStarts DEF SearchInv
<1>2. ASSUME SearchInv, TypeOK', [AnalysesNext]_AnalysesVars
      PROVE  SearchInv'
  <2>1. CASE Next /\ UNCHANGED <<shiftVars, counterVars>>
    BY <1>2, <2>1, ConnectionStep
  <2>2. CASE ShiftNext /\ UNCHANGED <<vars, counterVars>>
    BY <1>2, <2>2, StartStep, TryStep, BacktrackStep, LaterStep DEF ShiftNext
  <2>3. CASE CountersNext /\ UNCHANGED vars
    BY <1>2, <2>3, LaterStep
  <2>4. CASE UNCHANGED AnalysesVars
    BY <1>2, <2>4, OtherStep DEF AnalysesVars, shiftVars, searchVars, forestVars, resultVars,
       SearchInv, NotBefore, vars, Latch, OfKind
  <2> QED
    BY <1>2, <2>1, <2>2, <2>3, <2>4 DEF AnalysesNext
<1> QED
  BY <1>1, <1>2, ConnectionsUndisturbed, LatchTypeCorrect, PTL DEF Analyses
-----------------------------------------------------------------------------
(* For every netlist the chains that explore finds take two latches in one *)
(* order: where one goes from a latch to the next (shiftreg.cpp:248), no   *)
(* chain has the next before the latch.  So two chains of the same latches *)
(* are one and the same, and markContained cannot leave out both for the   *)
(* other's sake (shiftreg.cpp:162), which the test drives is there for.    *)
ChainsAgreeOnOrder ==
  \A a, b \in DOMAIN chains :
    \A k \in 1..(Len(chains[a]) - 1) : \A i, j \in 1..Len(chains[b]) :
      chains[b][i] = chains[a][k] /\ chains[b][j] = chains[a][k + 1] => i < j
THEOREM OneOrder == Analyses => []ChainsAgreeOnOrder
<1>1. SearchInv => ChainsAgreeOnOrder
  <2> SUFFICES ASSUME SearchInv, NEW a \in DOMAIN chains, NEW b \in DOMAIN chains,
                      NEW k \in 1..(Len(chains[a]) - 1),
                      NEW i \in 1..Len(chains[b]), NEW j \in 1..Len(chains[b]),
                      chains[b][i] = chains[a][k], chains[b][j] = chains[a][k + 1]
               PROVE  i < j
    BY DEF ChainsAgreeOnOrder
  <2>1. RunsForward(chains[a]) /\ RunsForward(chains[b])
    <3>1. chains \in Seq(Seq(Latch)) /\ DOMAIN chains = 1..Len(chains)
      BY DEF SearchInv, ChainsSound
    <3> QED
      BY <3>1 DEF SearchInv, ChainsSound
  <2>2. chains[b][j] \in driven[chains[b][i]]
    BY <2>1 DEF RunsForward
  <2>3. ~(j \in 1..(i - 1))
    BY <2>1, <2>2 DEF RunsForward
  <2>4. chains[a][k] \notin driven[chains[a][k + 1]]
    <3>1. Len(chains[a]) \in Nat
      BY <2>1 DEF RunsForward
    <3>2. k + 1 \in 1..Len(chains[a]) /\ k \in 1..((k + 1) - 1)
      BY <3>1
    <3> QED
      BY <2>1, <3>2 DEF RunsForward
  <2>5. i # j
    BY <2>2, <2>4
  <2> QED
    BY <2>3, <2>5
<1> QED
  BY SearchInductive, <1>1, PTL
-----------------------------------------------------------------------------
(* Of two chains the one takes the latches of the other no sooner.         *)
LEMMA NoSooner ==
  ASSUME NEW a, NEW b, RunsForward(a), RunsForward(b), ToSet(b) \subseteq ToSet(a)
  PROVE  \A k \in 1..Len(b) : \A i \in 1..Len(a) : a[i] = b[k] => k <= i
<1>1. a \in Seq(Latch) /\ b \in Seq(Latch) /\ Len(a) \in Nat /\ Len(b) \in Nat
      /\ DOMAIN a = 1..Len(a) /\ DOMAIN b = 1..Len(b)
  BY DEF RunsForward
<1> DEFINE Sooner == {k \in 1..Len(b) : \E i \in 1..Len(a) : a[i] = b[k] /\ i < k}
<1>2. SUFFICES ASSUME Sooner # {} PROVE FALSE
  BY <1>1
<1>3. PICK k \in Sooner : \A y \in Sooner : k <= y
  <2>1. Sooner \in SUBSET Nat
    OBVIOUS
  <2> QED
    BY <1>2, <2>1, LeastNat
<1>4. PICK i \in 1..Len(a) : a[i] = b[k] /\ i < k
  OBVIOUS
<1>5. k \in Nat /\ k - 1 \in 1..(Len(b) - 1) /\ k - 1 \in 1..Len(b) /\ (k - 1) + 1 = k
  BY <1>1, <1>4
<1>6. PICK h \in 1..Len(a) : a[h] = b[k - 1]
  BY <1>1, <1>5 DEF ToSet
<1>7. k - 1 <= h
  <2>1. k - 1 \notin Sooner
    BY <1>3, <1>5
  <2> QED
    BY <1>5, <1>6, <2>1
<1>8. b[k] \in driven[b[k - 1]]
  BY <1>5 DEF RunsForward
<1>9. ~(i \in 1..(h - 1))
  BY <1>4, <1>6, <1>8 DEF RunsForward
<1>10. i # h
  <2>1. b[k - 1] \notin driven[b[k]]
    BY <1>5 DEF RunsForward
  <2> QED
    BY <1>4, <1>6, <1>8, <2>1
<1> QED
  BY <1>1, <1>4, <1>5, <1>7, <1>9, <1>10

LEMMA SameLatchesSameChain ==
  ASSUME NEW a, NEW b, RunsForward(a), RunsForward(b), ToSet(a) = ToSet(b)
  PROVE  a = b
<1>1. a \in Seq(Latch) /\ b \in Seq(Latch) /\ Len(a) \in Nat /\ Len(b) \in Nat
      /\ DOMAIN a = 1..Len(a) /\ DOMAIN b = 1..Len(b)
  BY DEF RunsForward
<1>2. \A k \in 1..Len(b) : \A i \in 1..Len(a) : a[i] = b[k] => k = i
  <2>1. \A k \in 1..Len(b) : \A i \in 1..Len(a) : a[i] = b[k] => k <= i
    BY NoSooner
  <2>2. \A k \in 1..Len(a) : \A i \in 1..Len(b) : b[i] = a[k] => k <= i
    BY NoSooner
  <2> QED
    BY <1>1, <2>1, <2>2
<1>3. \A k \in 1..Len(b) : k \in 1..Len(a) /\ a[k] = b[k]
  <2> TAKE k \in 1..Len(b)
  <2>1. PICK i \in 1..Len(a) : a[i] = b[k]
    BY <1>1 DEF ToSet
  <2> QED
    BY <1>2, <2>1
<1>4. \A k \in 1..Len(a) : k \in 1..Len(b)
  <2> TAKE k \in 1..Len(a)
  <2>1. PICK i \in 1..Len(b) : b[i] = a[k]
    BY <1>1 DEF ToSet
  <2> QED
    BY <1>2, <2>1
<1>5. Len(a) = Len(b)
  <2>1. Len(b) <= Len(a)
    <3>1. Len(b) # 0 => Len(b) \in 1..Len(b)
      BY <1>1
    <3> QED
      BY <1>1, <1>3, <3>1
  <2>2. Len(a) <= Len(b)
    <3>1. Len(a) # 0 => Len(a) \in 1..Len(a)
      BY <1>1
    <3> QED
      BY <1>1, <1>4, <3>1
  <2>3. \A x, y \in Nat : x <= y /\ y <= x => x = y
    OBVIOUS
  <2> QED
    BY <1>1, <2>1, <2>2, <2>3, Zenon
<1> QED
  BY <1>1, <1>3, <1>5

(* Around each of some lists of latches is one with as many as there are.  *)
LEMMA InsideALargestOne ==
  ASSUME NEW C, C \in Seq(Seq(Latch)), NEW i \in DOMAIN C
  PROVE  \E j \in DOMAIN C : /\ ToSet(C[i]) \subseteq ToSet(C[j])
                             /\ \A k \in DOMAIN C : ToSet(C[j]) \subseteq ToSet(C[k]) => ToSet(C[k]) = ToSet(C[j])
<1>1. Len(C) \in Nat /\ DOMAIN C = 1..Len(C) /\ \A j \in DOMAIN C : C[j] \in Seq(Latch)
  OBVIOUS
<1>2. IsFiniteSet(Node) /\ Cardinality(Node) = NumNodes
  BY FS_Interval, NumNodesAssumption DEF Node
<1>3. \A j \in DOMAIN C : ToSet(C[j]) \subseteq Node
  BY <1>1 DEF ToSet, Latch, OfKind
<1>4. \A j \in DOMAIN C : /\ IsFiniteSet(ToSet(C[j])) /\ Cardinality(ToSet(C[j])) \in Nat
                          /\ Cardinality(ToSet(C[j])) <= NumNodes
  <2> TAKE j \in DOMAIN C
  <2> DEFINE T == ToSet(C[j])
  <2>1. T \subseteq Node
    BY <1>3
  <2> HIDE DEF T
  <2>2. IsFiniteSet(T) /\ Cardinality(T) <= NumNodes
    BY <1>2, <2>1, FS_Subset
  <2>3. Cardinality(T) \in Nat
    BY <2>2, FS_CardinalityType
  <2> QED
    BY <2>2, <2>3 DEF T
<1> DEFINE Around == {j \in DOMAIN C : ToSet(C[i]) \subseteq ToSet(C[j])}
           Missing == {NumNodes - Cardinality(ToSet(C[j])) : j \in Around}
<1>5. PICK m \in Missing : \A y \in Missing : m <= y
  <2>1. Missing \in SUBSET Nat
    BY <1>4, NumNodesAssumption
  <2>2. i \in Around
    OBVIOUS
  <2>3. Missing # {}
    BY <2>2
  <2> HIDE DEF Missing
  <2> QED
    BY <2>1, <2>3, LeastNat
<1>6. PICK j \in Around : m = NumNodes - Cardinality(ToSet(C[j]))
  BY <1>5
<1>7. ASSUME NEW k \in DOMAIN C, ToSet(C[j]) \subseteq ToSet(C[k]) PROVE ToSet(C[k]) = ToSet(C[j])
  <2>1. k \in Around
    BY <1>7
  <2>2. Cardinality(ToSet(C[k])) <= Cardinality(ToSet(C[j]))
    <3>1. NumNodes - Cardinality(ToSet(C[k])) \in Missing
      BY <2>1
    <3>2. m <= NumNodes - Cardinality(ToSet(C[k]))
      BY <1>5, <3>1
    <3> QED
      BY <1>4, <1>6, <3>2, NumNodesAssumption
  <2> DEFINE S == ToSet(C[j])
             T == ToSet(C[k])
  <2>3. IsFiniteSet(T) /\ S \subseteq T /\ Cardinality(T) <= Cardinality(S)
        /\ Cardinality(S) \in Nat /\ Cardinality(T) \in Nat
    BY <1>4, <1>7, <2>2
  <2> HIDE DEF S, T
  <2>4. T \in SUBSET T /\ S \in SUBSET T
    BY <2>3
  <2>5. Cardinality(S) <= Cardinality(T) /\ (Cardinality(S) = Cardinality(T) => S = T)
    BY <2>3, <2>4, FS_Subset
  <2>6. S = T
    <3>1. \A x, y \in Nat : x <= y /\ y <= x => x = y
      OBVIOUS
    <3> QED
      BY <2>3, <2>5, <3>1, Zenon
  <2> QED
    BY <2>6 DEF S, T
<1> QED
  BY <1>7

(* A chain lies in one that is inside no other.                            *)
LEMMA InsideAKeptOne ==
  ASSUME NEW C, C \in Seq(Seq(Latch)), \A i \in 1..Len(C) : RunsForward(C[i]),
         \A i, j \in 1..Len(C) : C[i] = C[j] => i = j,
         NEW i \in DOMAIN C
  PROVE  \E j \in DOMAIN C : /\ ToSet(C[i]) \subseteq ToSet(C[j])
                             /\ \A k \in DOMAIN C \ {j} : ~ContainsChain(C[k], C[j])
<1>1. Len(C) \in Nat /\ DOMAIN C = 1..Len(C) /\ \A j \in DOMAIN C : C[j] \in Seq(Latch)
  OBVIOUS
<1>2. PICK j \in DOMAIN C : /\ ToSet(C[i]) \subseteq ToSet(C[j])
                           /\ \A k \in DOMAIN C : ToSet(C[j]) \subseteq ToSet(C[k]) => ToSet(C[k]) = ToSet(C[j])
  BY InsideALargestOne
<1>3. ASSUME NEW k \in DOMAIN C \ {j}, ContainsChain(C[k], C[j]) PROVE FALSE
  <2>1. ToSet(C[j]) = ToSet(C[k])
    BY <1>2, <1>3 DEF ContainsChain
  <2>2. RunsForward(C[j]) /\ RunsForward(C[k])
    BY <1>1
  <2>3. C[j] = C[k]
    BY <2>1, <2>2, SameLatchesSameChain
  <2> QED
    BY <1>1, <1>3, <2>3
<1> QED
  BY <1>2, <1>3
-----------------------------------------------------------------------------
(* Neighbours along p load alike, all as the first two do.                 *)
AlikeAlong(p) == \A k \in 2..Len(p) : Loads(p[k - 1], p[k]) = Loads(p[1], p[2])
AllAlike ==
  /\ AlikeAlong(path)
  /\ \A i \in 1..Len(chains) : 3 <= Len(chains[i]) /\ AlikeAlong(chains[i])

(* A chain that has begun like the path went on with a latch that is tried *)
(* already; and no search starts twice.                                    *)
StartedOnce ==
  /\ \A i \in 1..Len(chains) : chains[i][1] \notin todo
  /\ path # <<>> => path[1] \notin todo
WentElsewhere ==
  /\ \A k \in 1..(Len(path) - 1) : path[k + 1] \notin rest[k]
  /\ \A i \in 1..Len(chains) : \A k \in 1..Len(path) :
       k < Len(chains[i]) /\ (\A j \in 1..k : chains[i][j] = path[j]) => chains[i][k + 1] \notin rest[k]
FoundOnce ==
  /\ \A i, j \in 1..Len(chains) : chains[i] = chains[j] => i = j
  /\ stage = "explore" => StartedOnce /\ WentElsewhere
ChainsInv == SearchInv /\ AllAlike /\ FoundOnce

LEMMA LoadsOfNetlist ==
  ASSUME netlist' = netlist
  PROVE  \A l, m : Loads(l, m)' = Loads(l, m)
<1> TAKE l, m
<1>1. Gate' = Gate /\ inputs' = inputs /\ Sources' = Sources
  BY DEF Gate, OfKind, inputs, Sources, In, Pins
<1>2. \A on : Value(on)' = Value(on)
  <2> TAKE on
  <2> QED
    BY <1>1 DEF Value, Pins
<1>3. DInput(m)' = DInput(m)
  BY <1>1 DEF DInput
<1> QED
  BY <1>1, <1>2, <1>3 DEF Loads

LEMMA ChainsStart == CountersInit => AllAlike /\ FoundOnce
BY DEF CountersInit, ShiftInit, AllAlike, AlikeAlong, FoundOnce, StartedOnce, WentElsewhere

(* Steps that leave the netlist and the search alone.                      *)
LEMMA ChainsStay ==
  ASSUME ChainsInv, UNCHANGED <<netlist, path, rest, chains>>,
         stage' = "explore" => stage = "explore" /\ todo' = todo
  PROVE  AllAlike' /\ FoundOnce'
<1>1. AllAlike'
  <2>1. AlikeAlong(path)' <=> AlikeAlong(path)
    BY LoadsOfNetlist DEF AlikeAlong
  <2>2. \A i \in 1..Len(chains) : AlikeAlong(chains[i])' <=> AlikeAlong(chains[i])
    BY LoadsOfNetlist DEF AlikeAlong
  <2> QED
    BY <2>1, <2>2 DEF ChainsInv, AllAlike
<1>2. FoundOnce'
  BY DEF ChainsInv, FoundOnce, StartedOnce, WentElsewhere
<1> QED
  BY <1>1, <1>2

LEMMA ChainsStarted ==
  ASSUME ChainsInv, NEW l \in Node, StartAt(l), UNCHANGED vars
  PROVE  AllAlike' /\ FoundOnce'
<1>1. netlist' = netlist /\ chains' = chains /\ stage = "explore" /\ stage' = stage
      /\ todo' = todo \ {l} /\ l \in todo
  BY DEF vars, StartAt
<1>2. CASE l \in covered
  <2>1. path' = path /\ rest' = rest /\ path = <<>>
    BY <1>2 DEF StartAt
  <2>2. \A i \in 1..Len(chains) : AlikeAlong(chains[i])' <=> AlikeAlong(chains[i])
    BY <1>1, LoadsOfNetlist DEF AlikeAlong
  <2>3. AllAlike'
    BY <1>1, <2>1, <2>2 DEF ChainsInv, AllAlike, AlikeAlong
  <2>4. FoundOnce'
    BY <1>1, <2>1 DEF ChainsInv, FoundOnce, StartedOnce, WentElsewhere
  <2> QED
    BY <2>3, <2>4
<1>3. CASE l \notin covered
  <2>1. path' = <<l>> /\ Len(rest') = 1
    BY <1>3 DEF StartAt
  <2>2. \A i \in 1..Len(chains) : AlikeAlong(chains[i])' <=> AlikeAlong(chains[i])
    BY <1>1, LoadsOfNetlist DEF AlikeAlong
  <2>3. AllAlike'
    BY <1>1, <2>1, <2>2 DEF ChainsInv, AllAlike, AlikeAlong
  <2>4. StartedOnce'
    BY <1>1, <2>1 DEF ChainsInv, FoundOnce, StartedOnce
  <2>5. WentElsewhere'
    <3>1. \A i \in 1..Len(chains) : chains[i][1] # l
      BY <1>1 DEF ChainsInv, FoundOnce, StartedOnce
    <3> QED
      BY <1>1, <2>1, <3>1 DEF WentElsewhere
  <2> QED
    BY <1>1, <2>3, <2>4, <2>5 DEF ChainsInv, FoundOnce
<1> QED
  BY <1>2, <1>3

(* The longer path is a chain that has not been found before.              *)
LEMMA ChainsGrow ==
  ASSUME ChainsInv, TryNext, UNCHANGED vars
  PROVE  AllAlike' /\ FoundOnce'
<1>1. stage = "explore" /\ stage' = stage /\ todo' = todo /\ netlist' = netlist
      /\ path \in Seq(Latch) /\ Len(path) \in Nat \ {0} /\ Len(rest) = Len(path)
      /\ rest \in Seq(SUBSET Latch) /\ path # <<>>
  BY DEF TryNext, ChainsInv, SearchInv, PathSound, RunsForward, vars
<1>2. PICK m \in rest[Len(path)] :
        LET accepted == Len(path) = 1 \/ IsShiftReg(path, m)
            left_over == [rest EXCEPT ![Len(rest)] = @ \ {m}]
        IN  /\ path' = IF accepted THEN Append(path, m) ELSE path
            /\ rest' = IF accepted THEN Append(left_over, Candidates(path', ChainDiff)) ELSE left_over
            /\ chains' = IF accepted /\ Len(path) > 1 THEN Append(chains, path') ELSE chains
  BY <1>1 DEF TryNext, Last
<1>3. m \in Latch
  BY <1>1
<1>4. chains \in Seq(Seq(Latch)) /\ Len(chains) \in Nat
      /\ \A i \in 1..Len(chains) : chains[i] \in Seq(Latch) /\ Len(chains[i]) \in Nat
  BY DEF ChainsInv, SearchInv, ChainsSound, RunsForward
<1>5. /\ \A i, j \in 1..Len(chains) : chains[i] = chains[j] => i = j
      /\ StartedOnce /\ WentElsewhere
  BY <1>1 DEF ChainsInv, FoundOnce
<1> DEFINE left_over == [rest EXCEPT ![Len(rest)] = @ \ {m}]
           p == Append(path, m)
<1>6. /\ left_over \in Seq(SUBSET Latch) /\ Len(left_over) = Len(path)
      /\ \A k \in 1..Len(path) : left_over[k] \subseteq rest[k]
      /\ m \notin left_over[Len(path)]
  BY <1>1
<1>7. p \in Seq(Latch) /\ Len(p) = Len(path) + 1 /\ p[Len(path) + 1] = m
      /\ \A k \in 1..Len(path) : p[k] = path[k]
  BY <1>1, <1>3
<1> HIDE DEF left_over, p
<1>8. \A q : AlikeAlong(q)' <=> AlikeAlong(q)
  <2> TAKE q
  <2> QED
    BY <1>1, LoadsOfNetlist DEF AlikeAlong
<1>9. \A k \in 1..(Len(path) - 1) : path[k + 1] \notin left_over[k]
  BY <1>1, <1>5, <1>6 DEF WentElsewhere
<1>10. \A i \in 1..Len(chains) : \A k \in 1..Len(path) :
         k < Len(chains[i]) /\ (\A j \in 1..k : chains[i][j] = path[j]) => chains[i][k + 1] \notin left_over[k]
  BY <1>5, <1>6 DEF WentElsewhere
<1>11. CASE Len(path) = 1 \/ IsShiftReg(path, m)
  <2> DEFINE cand == Candidates(p, ChainDiff)
             r == Append(left_over, cand)
  <2>1. path' = p /\ rest' = r /\ chains' = IF Len(path) > 1 THEN Append(chains, p) ELSE chains
    BY <1>2, <1>11 DEF p, left_over
  <2>2. Len(r) = Len(p) /\ r[Len(p)] = cand /\ \A k \in 1..Len(path) : r[k] = left_over[k]
    <3> HIDE DEF cand
    <3> QED
      BY <1>1, <1>6, <1>7
  <2> HIDE DEF r
  <2>3. AlikeAlong(p)
    <3> SUFFICES ASSUME NEW k \in 2..Len(p)
                 PROVE  Loads(p[k - 1], p[k]) = Loads(p[1], p[2])
      BY DEF AlikeAlong
    <3>1. AlikeAlong(path)
      BY DEF ChainsInv, AllAlike
    <3>2. CASE k \in 2..Len(path)
      BY <1>1, <1>7, <3>1, <3>2 DEF AlikeAlong
    <3>3. CASE k = Len(path) + 1 /\ Len(path) = 1
      BY <3>3
    <3>4. CASE k = Len(path) + 1 /\ Len(path) # 1
      <4>1. Len(path) \in 2..Len(path) /\ IsShiftReg(path, m) /\ Last(path) = path[Len(path)]
        BY <1>1, <1>11, <3>4 DEF Last
      <4>2. Loads(path[Len(path)], m) = Loads(path[1], path[2])
        BY <3>1, <4>1 DEF AlikeAlong, IsShiftReg
      <4>3. p[k - 1] = path[Len(path)] /\ p[k] = m /\ p[1] = path[1] /\ p[2] = path[2]
        BY <1>1, <1>7, <3>4, <4>1
      <4> QED
        BY <4>2, <4>3
    <3> QED
      BY <1>1, <1>7, <3>2, <3>3, <3>4
  <2>4. ASSUME NEW i \in 1..Len(chains) PROVE chains[i] # p
    <3>1. CASE chains[i] = p
      <4>1. Len(path) < Len(chains[i]) /\ \A j \in 1..Len(path) : chains[i][j] = path[j]
        BY <1>1, <1>7, <3>1
      <4>2. chains[i][Len(path) + 1] \notin rest[Len(path)]
        BY <1>1, <1>5, <4>1 DEF WentElsewhere
      <4> QED
        BY <1>7, <3>1, <4>2
    <3> QED
      BY <3>1
  <2>5. /\ chains' \in Seq(Seq(Latch))
        /\ \A i \in 1..Len(chains') : \/ i \in 1..Len(chains) /\ chains'[i] = chains[i]
                                      \/ i = Len(chains) + 1 /\ chains'[i] = p /\ Len(path) > 1
        /\ Len(chains) <= Len(chains')
    <3>1. CASE Len(path) > 1
      BY <1>4, <1>7, <2>1, <3>1
    <3>2. CASE ~(Len(path) > 1)
      BY <1>4, <2>1, <3>2
    <3> QED
      BY <3>1, <3>2
  <2>6. AllAlike'
    <3>1. \A i \in 1..Len(chains') : 3 <= Len(chains'[i]) /\ AlikeAlong(chains'[i])
      BY <1>1, <1>7, <2>3, <2>5 DEF ChainsInv, AllAlike
    <3> QED
      BY <1>8, <2>1, <2>3, <3>1 DEF AllAlike
  <2>7. \A i, j \in 1..Len(chains') : chains'[i] = chains'[j] => i = j
    BY <1>5, <2>4, <2>5
  <2>8. StartedOnce'
    <3>1. p[1] = path[1] /\ p # <<>> /\ path[1] \notin todo
      BY <1>1, <1>5, <1>7 DEF StartedOnce
    <3>2. \A i \in 1..Len(chains') : chains'[i][1] \notin todo
      BY <1>5, <2>5, <3>1 DEF StartedOnce
    <3> QED
      BY <1>1, <2>1, <3>1, <3>2 DEF StartedOnce
  <2>9. \A k \in 1..(Len(p) - 1) : p[k + 1] \notin r[k]
    <3> TAKE k \in 1..(Len(p) - 1)
    <3>1. CASE k = Len(path)
      BY <1>1, <1>6, <1>7, <2>2, <3>1
    <3>2. CASE k \in 1..(Len(path) - 1)
      <4>1. p[k + 1] = path[k + 1] /\ r[k] = left_over[k]
        BY <1>1, <1>7, <2>2, <3>2
      <4> QED
        BY <1>9, <3>2, <4>1
    <3> QED
      BY <1>1, <1>7, <3>1, <3>2
  <2>10. ASSUME NEW i \in 1..Len(chains'), NEW k \in 1..Len(p),
                k < Len(chains'[i]), \A j \in 1..k : chains'[i][j] = p[j]
         PROVE  chains'[i][k + 1] \notin r[k]
    <3>1. CASE i \in 1..Len(chains) /\ chains'[i] = chains[i]
      <4>1. CASE k = Len(p)
        <5>0. k = Len(path) + 1 /\ Len(path) \in Nat /\ chains[i] \in Seq(Latch) /\ Len(chains[i]) \in Nat
          <6>1. k = Len(path) + 1 /\ Len(path) \in Nat
            BY <1>1, <1>7, <4>1
          <6>2. chains[i] \in Seq(Latch)
            BY <1>1, <1>4, <3>1
          <6>3. Len(chains[i]) \in Nat
            BY <6>2
          <6> QED
            BY <6>1, <6>2, <6>3
        <5>a. \A j \in 1..k : chains[i][j] = p[j]
          BY <2>10, <3>1
        <5>1. chains[i][Len(path) + 1] = m /\ Len(path) < Len(chains[i])
              /\ \A j \in 1..Len(path) : chains[i][j] = path[j]
          <6>1. \A j \in 1..Len(path) : j \in 1..k /\ p[j] = path[j]
            BY <1>7, <5>0
          <6>2. k \in 1..k /\ p[k] = m /\ Len(path) < Len(chains[i])
            BY <1>7, <2>10, <3>1, <5>0
          <6> QED
            BY <5>0, <5>a, <6>1, <6>2
        <5>2. Len(path) \in 1..Len(path) /\ m \in rest[Len(path)]
          BY <1>1
        <5>3. chains[i][Len(path) + 1] \notin rest[Len(path)]
          BY <1>5, <3>1, <5>1, <5>2 DEF WentElsewhere
        <5> QED
          BY <5>1, <5>2, <5>3
      <4>2. CASE k \in 1..Len(path)
        <5>1. \A j \in 1..k : chains[i][j] = path[j]
          BY <1>1, <1>7, <2>10, <3>1, <4>2
        <5> QED
          BY <1>10, <2>2, <2>10, <3>1, <4>2, <5>1
      <4> QED
        BY <1>1, <1>7, <4>1, <4>2
    <3>2. CASE i = Len(chains) + 1 /\ chains'[i] = p
      BY <1>1, <1>7, <2>9, <2>10, <3>2
    <3> QED
      BY <2>5, <3>1, <3>2
  <2>11. WentElsewhere'
    <3>1. \A i \in 1..Len(chains') : \A k \in 1..Len(p) :
            k < Len(chains'[i]) /\ (\A j \in 1..k : chains'[i][j] = p[j]) => chains'[i][k + 1] \notin r[k]
      BY <2>10
    <3>2. path' = p /\ rest' = r
      BY <2>1
    <3> QED
      BY <2>9, <3>1, <3>2 DEF WentElsewhere
  <2> QED
    BY <2>6, <2>7, <2>8, <2>11 DEF FoundOnce
<1>12. CASE ~(Len(path) = 1 \/ IsShiftReg(path, m))
  <2>1. path' = path /\ rest' = left_over /\ chains' = chains
    BY <1>2, <1>12 DEF left_over
  <2>2. AllAlike'
    BY <1>8, <2>1 DEF ChainsInv, AllAlike
  <2>3. StartedOnce' /\ WentElsewhere'
    BY <1>1, <1>5, <1>9, <1>10, <2>1 DEF StartedOnce, WentElsewhere
  <2> QED
    BY <1>5, <2>1, <2>2, <2>3 DEF FoundOnce
<1> QED
  BY <1>11, <1>12

LEMMA ChainsShrink ==
  ASSUME ChainsInv, Backtrack, UNCHANGED vars
  PROVE  AllAlike' /\ FoundOnce'
<1>1. path \in Seq(Latch) /\ Len(path) \in Nat \ {0} /\ Len(rest) = Len(path) /\ rest \in Seq(SUBSET Latch)
  BY DEF Backtrack, ChainsInv, SearchInv, PathSound, RunsForward
<1>2. path' = Front(path) /\ rest' = Front(rest) /\ chains' = chains /\ stage = "explore" /\ stage' = stage
      /\ todo' = todo /\ netlist' = netlist
  BY DEF Backtrack, vars
<1>3. /\ path' \in Seq(Latch) /\ Len(path') = Len(path) - 1
      /\ \A k \in 1..(Len(path) - 1) : path'[k] = path[k]
  BY <1>1, <1>2 DEF Front
<1>4. \A k \in 1..(Len(path) - 1) : rest'[k] = rest[k]
  BY <1>1, <1>2 DEF Front
<1> DEFINE p == path'
           r == rest'
<1> HIDE DEF p, r
<1>5. Len(p) = Len(path) - 1 /\ \A k \in 1..Len(p) : k \in 1..Len(path) /\ p[k] = path[k] /\ r[k] = rest[k]
  BY <1>1, <1>3, <1>4 DEF p, r
<1>6. \A q : AlikeAlong(q)' <=> AlikeAlong(q)
  <2> TAKE q
  <2> QED
    BY <1>2, LoadsOfNetlist DEF AlikeAlong
<1>7. AlikeAlong(p)
  <2> SUFFICES ASSUME NEW k \in 2..Len(p)
               PROVE  Loads(p[k - 1], p[k]) = Loads(p[1], p[2])
    BY DEF AlikeAlong
  <2>1. /\ p[k - 1] = path[k - 1] /\ p[k] = path[k] /\ p[1] = path[1] /\ p[2] = path[2]
        /\ k \in 2..Len(path)
    BY <1>1, <1>5
  <2> QED
    BY <2>1 DEF ChainsInv, AllAlike, AlikeAlong
<1>8. AllAlike'
  BY <1>2, <1>6, <1>7 DEF ChainsInv, AllAlike, p
<1>9. /\ \A i, j \in 1..Len(chains) : chains[i] = chains[j] => i = j
      /\ StartedOnce /\ WentElsewhere
  BY <1>2 DEF ChainsInv, FoundOnce
<1>10. StartedOnce'
  <2>1. p # <<>> => p[1] = path[1] /\ path # <<>>
    <3>1. p # <<>> => Len(p) # 0
      BY <1>3 DEF p
    <3> QED
      BY <1>1, <1>5, <3>1
  <2> QED
    BY <1>2, <1>9, <2>1 DEF StartedOnce, p
<1>11. \A k \in 1..(Len(p) - 1) : p[k + 1] \notin r[k]
  <2> TAKE k \in 1..(Len(p) - 1)
  <2>1. k \in 1..(Len(path) - 1) /\ p[k + 1] = path[k + 1] /\ r[k] = rest[k]
    BY <1>1, <1>5
  <2> QED
    BY <1>9, <2>1 DEF WentElsewhere
<1>12. ASSUME NEW i \in 1..Len(chains), NEW k \in 1..Len(p),
              k < Len(chains[i]), \A j \in 1..k : chains[i][j] = p[j]
       PROVE  chains[i][k + 1] \notin r[k]
  <2>1. k \in 1..Len(path) /\ r[k] = rest[k] /\ \A j \in 1..k : chains[i][j] = path[j]
    BY <1>1, <1>5, <1>12
  <2> QED
    BY <1>9, <1>12, <2>1 DEF WentElsewhere
<1>13. WentElsewhere'
  BY <1>2, <1>11, <1>12 DEF WentElsewhere, p, r
<1> QED
  BY <1>2, <1>8, <1>9, <1>10, <1>13 DEF FoundOnce

LEMMA ChainsStep ==
  ASSUME ChainsInv, SearchInv', [AnalysesNext]_AnalysesVars
  PROVE  ChainsInv'
<1>1. CASE Next /\ UNCHANGED <<shiftVars, counterVars>>
  <2>1. netlist' = netlist
    BY <1>1 DEF Next, UpdateDriven, UpdateDriving, ComputePaths, WalkAgain, EndWalk
  <2> QED
    BY <1>1, <2>1, ChainsStay DEF shiftVars, searchVars, ChainsInv
<1>2. CASE ShiftNext /\ UNCHANGED <<vars, counterVars>>
  <2>1. CASE MarkContained \/ LinkPair \/ CreateRegisters
    <3>1. /\ UNCHANGED <<netlist, path, rest, chains>>
          /\ stage' # "explore"
      BY <1>2, <2>1 DEF MarkContained, LinkPair, CreateRegisters, searchVars, vars
    <3> QED
      BY <3>1, ChainsStay DEF ChainsInv
  <2> QED
    BY <1>2, <2>1, ChainsStarted, ChainsGrow, ChainsShrink DEF ShiftNext, ChainsInv
<1>3. CASE CountersNext /\ UNCHANGED vars
  <2>1. stage' # "explore" /\ UNCHANGED <<path, rest, chains>>
    BY <1>3 DEF CountersNext, CountFrom, Lengthen, Shorten, AddOverlaps, Merge, EndMerge, OutputCounters,
                shiftVars, searchVars
  <2> QED
    BY <1>3, <2>1, ChainsStay DEF vars, ChainsInv
<1>4. CASE UNCHANGED AnalysesVars
  BY <1>4, ChainsStay DEF AnalysesVars, vars, shiftVars, searchVars, ChainsInv
<1> QED
  BY <1>1, <1>2, <1>3, <1>4 DEF AnalysesNext

(* No chain is found twice, and all latches of a chain load alike.         *)
THEOREM ChainsInductive == Analyses => []ChainsInv
<1>1. CountersInit /\ SearchInv => ChainsInv
  BY ChainsStart DEF ChainsInv
<1> QED
  BY <1>1, ChainsStep, SearchInductive, PTL DEF Analyses
-----------------------------------------------------------------------------
(* The forest.  The chains that are to hang together, and the first one of *)
(* them.                                                                   *)
Kin(x) == {y \in Kept : Len(chains[y]) = Len(chains[x]) /\ Alike(chains[y], chains[x])}
Founder(x) == CHOOSE m \in Kin(x) : \A y \in Kin(x) : m <= y
Compared(i, j) == \/ i < pair[1]
                  \/ i = pair[1] /\ j < pair[2]

(* A chain hangs under the first of its kin as soon as it has been         *)
(* compared with it, and until then under itself.                          *)
PairInLoops ==
  /\ pair \in Nat \X Nat
  /\ pair[1] \in 1..(Len(chains) + 1)
  /\ pair[1] <= Len(chains) => pair[2] \in 1..Len(chains)
UnderFounder ==
  \A x \in DOMAIN chains :
    IF x \in Kept /\ Compared(Founder(x), x) THEN root[x] = Founder(x)
                                             ELSE root[x] = x /\ rank[x] = 0
ForestOfKin ==
  stage = "link" => /\ PairInLoops
                    /\ root \in [DOMAIN chains -> DOMAIN chains]
                    /\ rank \in [DOMAIN chains -> Nat]
                    /\ UnderFounder
ContainedAreInside ==
  stage # "explore" =>
    contained = {j \in DOMAIN chains : \E i \in DOMAIN chains \ {j} : ContainsChain(chains[i], chains[j])}
KeptInRegisters ==
  stage \notin {"explore", "link"} =>
    \A i \in Kept : \E k \in DOMAIN registers : ToSet(chains[i]) \subseteq registers[k]
LinkInv == ChainsInv /\ ForestOfKin /\ ContainedAreInside /\ KeptInRegisters

LEMMA FounderFacts ==
  ASSUME chains \in Seq(Seq(Latch)), NEW x \in Kept
  PROVE  /\ Founder(x) \in Kept /\ Founder(x) \in Nat /\ x \in Nat /\ Founder(x) <= x
         /\ Len(chains[Founder(x)]) = Len(chains[x]) /\ Alike(chains[Founder(x)], chains[x])
<1>1. Kin(x) \in SUBSET Nat /\ x \in Kin(x)
  BY DEF Kin, Kept, Alike
<1>2. \E m \in Kin(x) : \A y \in Kin(x) : m <= y
  BY <1>1, LeastNat
<1>3. Founder(x) \in Kin(x) /\ \A y \in Kin(x) : Founder(x) <= y
  BY <1>2 DEF Founder
<1> QED
  BY <1>1, <1>3 DEF Kin, Kept

LEMMA FoundersMeet ==
  ASSUME chains \in Seq(Seq(Latch)), NEW x \in Kept, NEW y \in Kept
  PROVE  Founder(x) = Founder(y) <=> Len(chains[x]) = Len(chains[y]) /\ Alike(chains[x], chains[y])
<1>1. ASSUME Len(chains[x]) = Len(chains[y]), Alike(chains[x], chains[y])
      PROVE  Founder(x) = Founder(y)
  <2>1. Kin(x) = Kin(y)
    BY <1>1 DEF Kin, Alike
  <2> QED
    BY <2>1 DEF Founder
<1>2. ASSUME Founder(x) = Founder(y)
      PROVE  Len(chains[x]) = Len(chains[y]) /\ Alike(chains[x], chains[y])
  <2>1. /\ Len(chains[Founder(x)]) = Len(chains[x]) /\ Alike(chains[Founder(x)], chains[x])
        /\ Len(chains[Founder(y)]) = Len(chains[y]) /\ Alike(chains[Founder(y)], chains[y])
    BY FounderFacts
  <2> QED
    BY <1>2, <2>1 DEF Alike
<1> QED
  BY <1>1, <1>2

LEMMA FounderOfFounder ==
  ASSUME chains \in Seq(Seq(Latch)), NEW x \in Kept
  PROVE  Founder(Founder(x)) = Founder(x)
BY FounderFacts, FoundersMeet

(* In a forest where each chain is a root or right below one, find_set     *)
(* takes one step and hangs nothing anew.                                  *)
Flat(r, D) == r \in [D -> D] /\ \A k \in D : r[r[k]] = r[k]
LEMMA FindSetFlat ==
  ASSUME NEW D, NEW r, Flat(r, D), NEW i \in D
  PROVE  FindSet(r, i) = r[i]
<1> DEFINE Solves(f) == f = [k \in D |-> IF r[k] = k THEN k ELSE f[r[k]]]
           up == CHOOSE f : Solves(f)
<1>1. DOMAIN r = D /\ r \in [D -> D] /\ \A k \in D : r[k] \in D /\ r[r[k]] = r[k]
  BY DEF Flat
<1>2. Solves(r)
  <2>1. \A k \in D : r[k] = (IF r[k] = k THEN k ELSE r[r[k]])
    BY <1>1
  <2> QED
    BY <1>1, <2>1
<1>3. Solves(up)
  <2> HIDE DEF Solves
  <2> QED
    BY <1>2
<1>4. \A k \in D : up[k] = IF r[k] = k THEN k ELSE up[r[k]]
  <2> HIDE DEF up
  <2> QED
    BY <1>3
<1>5. up[i] = r[i]
  <2> HIDE DEF up
  <2> QED
    BY <1>1, <1>4
<1>6. FindSet(r, i) = up[i]
  BY <1>1 DEF FindSet
<1> QED
  BY <1>5, <1>6

LEMMA CompressedFlat ==
  ASSUME NEW D, NEW r, Flat(r, D), NEW i \in D
  PROVE  Compressed(r, i) = r
<1> DEFINE Solves(f) == f = [k \in D |-> IF r[k] = k THEN {k} ELSE {k} \cup f[r[k]]]
           g == [k \in D |-> {k, r[k]}]
           above == CHOOSE f : Solves(f)
<1>1. DOMAIN r = D /\ r \in [D -> D] /\ \A k \in D : r[k] \in D /\ r[r[k]] = r[k]
  BY DEF Flat
<1>2. Solves(g)
  <2>1. \A k \in D : {k, r[k]} = (IF r[k] = k THEN {k} ELSE {k} \cup g[r[k]])
    BY <1>1
  <2> QED
    BY <1>1, <2>1
<1>3. Solves(above)
  <2> HIDE DEF Solves, g
  <2> QED
    BY <1>2
<1>4. \A k \in D : above[k] = IF r[k] = k THEN {k} ELSE {k} \cup above[r[k]]
  <2> HIDE DEF above
  <2> QED
    BY <1>3
<1>5. above[i] = {i, r[i]}
  <2> HIDE DEF above
  <2> QED
    BY <1>1, <1>4
<1>6. FindSet(r, i) = r[i]
  BY FindSetFlat
<1>7. Compressed(r, i) = [k \in DOMAIN r |-> IF k \in above[i] THEN FindSet(r, i) ELSE r[k]]
  BY <1>1 DEF Compressed
<1>8. \A k \in D : (IF k \in above[i] THEN FindSet(r, i) ELSE r[k]) = r[k]
  <2> HIDE DEF above
  <2> QED
    BY <1>1, <1>5, <1>6
<1> QED
  <2> HIDE DEF above
  <2> QED
    BY <1>1, <1>7, <1>8

LEMMA FoundersStay ==
  ASSUME UNCHANGED <<netlist, chains, contained>>
  PROVE  Kept' = Kept /\ \A x : Founder(x)' = Founder(x)
<1>1. Kept' = Kept
  BY DEF Kept
<1>2. \A l, m : Loads(l, m)' = Loads(l, m)
  BY LoadsOfNetlist
<1>3. ASSUME NEW x PROVE Founder(x)' = Founder(x)
  <2>1. Kin(x)' = Kin(x)
    BY <1>1, <1>2 DEF Kin, Alike
  <2> QED
    BY <2>1 DEF Founder
<1> QED
  BY <1>1, <1>3

(* All chains hang under themselves or under their founder.                *)
LEMMA ForestIsFlat ==
  ASSUME LinkInv, stage = "link"
  PROVE  /\ Flat(root, DOMAIN chains)
         /\ \A x \in Kept : root[x] \in Kept /\ Founder(root[x]) = Founder(x)
<1>1. /\ chains \in Seq(Seq(Latch)) /\ root \in [DOMAIN chains -> DOMAIN chains] /\ UnderFounder
      /\ Kept \subseteq DOMAIN chains
  BY DEF LinkInv, ChainsInv, SearchInv, ChainsSound, ForestOfKin, Kept
<1>2. \A x \in Kept : Founder(x) \in Kept /\ Founder(Founder(x)) = Founder(x)
  BY <1>1, FounderFacts, FounderOfFounder
<1>3. \A x \in DOMAIN chains : root[root[x]] = root[x]
  BY <1>1, <1>2 DEF UnderFounder
<1> QED
  BY <1>1, <1>2, <1>3 DEF Flat, UnderFounder

(* link hangs a chain under its founder when it is compared with it, and   *)
(* changes nothing when it comes to two that hang together already.        *)
LEMMA LinkStep ==
  ASSUME LinkInv, LinkPair, UNCHANGED vars
  PROVE  ForestOfKin'
<1> DEFINE i == pair[1]
           j == pair[2]
           D == DOMAIN chains
           Then(x, y) == x < pair'[1] \/ (x = pair'[1] /\ y < pair'[2])
<1>1. /\ stage = "link" /\ chains \in Seq(Seq(Latch)) /\ Len(chains) \in Nat /\ D = 1..Len(chains)
      /\ UNCHANGED <<netlist, chains, contained, stage>>
      /\ PairInLoops /\ root \in [D -> D] /\ rank \in [D -> Nat] /\ UnderFounder
      /\ Kept \subseteq D
  BY DEF LinkPair, searchVars, resultVars, vars, LinkInv, ChainsInv, SearchInv, ChainsSound, ForestOfKin, Kept
<1>2. i \in D /\ j \in D /\ i \in Nat /\ j \in Nat
  BY <1>1 DEF LinkPair, PairInLoops
<1>3. pair' = IF j = Len(chains) THEN <<i + 1, 1>> ELSE <<i, j + 1>>
  BY DEF LinkPair
<1>4. PairInLoops'
  <2>1. Len(chains)' = Len(chains) /\ 1 \in 1..Len(chains) /\ i + 1 \in 1..(Len(chains) + 1)
    BY <1>1, <1>2
  <2>2. CASE j = Len(chains)
    <3>1. pair' = <<i + 1, 1>>
      BY <1>3, <2>2
    <3> QED
      BY <1>2, <2>1, <3>1 DEF PairInLoops
  <2>3. CASE j # Len(chains)
    <3>1. pair' = <<i, j + 1>>
      BY <1>3, <2>3
    <3>2. j \in 1..Len(chains) /\ i \in 1..Len(chains) /\ Len(chains) \in Nat
      BY <1>1, <1>2
    <3>3. j + 1 \in 1..Len(chains)
      BY <2>3, <3>2
    <3>4. i \in 1..(Len(chains) + 1)
      BY <3>2
    <3> QED
      BY <1>2, <2>1, <3>1, <3>3, <3>4 DEF PairInLoops
  <2> QED
    BY <2>2, <2>3
<1>5. \A x, y \in D : Then(x, y) <=> Compared(x, y) \/ (x = i /\ y = j)
  <2> SUFFICES ASSUME NEW x \in D, NEW y \in D
               PROVE  Then(x, y) <=> Compared(x, y) \/ (x = i /\ y = j)
    OBVIOUS
  <2>1. x \in Nat /\ y \in Nat /\ y <= Len(chains) /\ 1 <= y
    BY <1>1
  <2>2. CASE j = Len(chains)
    <3>1. pair'[1] = i + 1 /\ pair'[2] = 1
      BY <1>3, <2>2
    <3> QED
      BY <1>2, <2>1, <2>2, <3>1 DEF Compared
  <2>3. CASE j # Len(chains)
    <3>1. pair'[1] = i /\ pair'[2] = j + 1
      BY <1>3, <2>3
    <3> QED
      BY <1>2, <2>1, <3>1 DEF Compared
  <2> QED
    BY <2>2, <2>3
<1>6. Flat(root, D) /\ \A x \in Kept : root[x] \in Kept /\ Founder(root[x]) = Founder(x)
  BY <1>1, ForestIsFlat
<1>7. \A x \in Kept : /\ Founder(x) \in Kept /\ Founder(x) \in D /\ Founder(x) \in Nat /\ Founder(x) <= x
                      /\ Founder(Founder(x)) = Founder(x)
                      /\ Len(chains[Founder(x)]) = Len(chains[x]) /\ Alike(chains[Founder(x)], chains[x])
  BY <1>1, FounderFacts, FounderOfFounder
<1>8. Compressed(Compressed(root, i), j) = root
  <2> HIDE DEF i, j, D
  <2> QED
    BY <1>2, <1>6, CompressedFlat
<1>9. /\ Kept' = Kept /\ \A x : Founder(x)' = Founder(x)
  BY <1>1, FoundersStay
<1> DEFINE compared == {i, j} \cap contained = {} /\ i # j /\ Len(chains[i]) = Len(chains[j])
           linked == compared /\ (root[i] = root[j] \/ Alike(chains[i], chains[j]))
<1>10. IF linked
       THEN IF rank[i] < rank[j]
            THEN root' = [root EXCEPT ![i] = root[j]] /\ UNCHANGED rank
            ELSE /\ root' = [root EXCEPT ![j] = root[i]]
                 /\ rank' = IF rank[i] = rank[j] THEN [rank EXCEPT ![i] = @ + 1] ELSE rank
       ELSE root' = root /\ UNCHANGED rank
  <2> DEFINE r == IF compared THEN Compressed(Compressed(root, i), j) ELSE root
  <2>1. r = root
    BY <1>8
  <2>2. IF compared /\ (r[i] = r[j] \/ Alike(chains[i], chains[j]))
        THEN IF rank[i] < rank[j]
             THEN root' = [r EXCEPT ![i] = r[j]] /\ UNCHANGED rank
             ELSE /\ root' = [r EXCEPT ![j] = r[i]]
                  /\ rank' = IF rank[i] = rank[j] THEN [rank EXCEPT ![i] = @ + 1] ELSE rank
        ELSE root' = r /\ UNCHANGED rank
    BY DEF LinkPair
  <2> HIDE DEF r, i, j, compared
  <2> QED
    BY <2>1, <2>2
<1> HIDE DEF i, j, D, Then, compared, linked
<1>11. root' \in [D -> D] /\ rank' \in [D -> Nat]
  <2>1. root[i] \in D /\ root[j] \in D
    BY <1>1, <1>2
  <2>2. \/ root' = root
        \/ root' = [root EXCEPT ![i] = root[j]]
        \/ root' = [root EXCEPT ![j] = root[i]]
    BY <1>10
  <2>3. rank' = rank \/ rank' = [rank EXCEPT ![i] = @ + 1]
    BY <1>10
  <2>4. root \in [D -> D] /\ rank \in [D -> Nat] /\ i \in D /\ j \in D
    BY <1>1, <1>2
  <2>5. root' \in [D -> D]
    BY <2>1, <2>2, <2>4
  <2>6. rank' \in [D -> Nat]
    BY <2>3, <2>4
  <2> QED
    BY <2>5, <2>6
<1>12. ASSUME NEW x \in D
       PROVE  IF x \in Kept /\ Then(Founder(x), x) THEN root'[x] = Founder(x)
                                                         ELSE root'[x] = x /\ rank'[x] = 0
  <2>1. IF x \in Kept /\ Compared(Founder(x), x) THEN root[x] = Founder(x)
                                                 ELSE root[x] = x /\ rank[x] = 0
    BY <1>1 DEF UnderFounder, D
  <2>2. x \in Kept => (Then(Founder(x), x) <=> Compared(Founder(x), x) \/ (Founder(x) = i /\ x = j))
    BY <1>5, <1>7
  <2>3. CASE ~linked
    <3>1. root' = root /\ rank' = rank
      BY <1>10, <2>3
    <3>2. ASSUME x \in Kept, Founder(x) = i, x = j PROVE i = j
      <4>1. Len(chains[i]) = Len(chains[j]) /\ Alike(chains[i], chains[j]) /\ i \in Kept /\ j \in Kept
        BY <1>7, <3>2
      <4> QED
        BY <2>3, <4>1 DEF Kept, linked, compared
    <3> QED
      BY <2>1, <2>2, <3>1, <3>2
  <2>4. CASE linked
    <3>1. i \in Kept /\ j \in Kept /\ i # j
      BY <1>2, <2>4 DEF Kept, D, linked, compared
    <3>2. Founder(i) = Founder(j)
      <4>1. CASE Alike(chains[i], chains[j])
        BY <1>1, <2>4, <3>1, <4>1, FoundersMeet DEF linked, compared
      <4>2. CASE root[i] = root[j]
        BY <1>6, <3>1, <4>2
      <4> QED
        BY <2>4, <4>1, <4>2 DEF linked
    <3>3. CASE Founder(i) = i
      <4>1. i < j
        <5>1. i <= j
          BY <1>7, <3>1, <3>2, <3>3
        <5> QED
          BY <1>2, <3>1, <5>1
      <4>2. root[i] = i
        BY <1>1, <1>2, <3>3 DEF UnderFounder, D
      <4>3. ~Compared(Founder(j), j) /\ rank[j] = 0
        <5>1. ~Compared(i, j)
          BY <1>2, <4>1 DEF Compared, i, j
        <5> QED
          BY <1>1, <1>2, <3>2, <3>3, <5>1 DEF UnderFounder, D
      <4>4. /\ root' = [root EXCEPT ![j] = i]
            /\ rank' = rank \/ rank' = [rank EXCEPT ![i] = @ + 1]
        <5>1. ~(rank[i] < rank[j])
          <6>1. rank[i] \in Nat
            BY <1>1, <1>2
          <6> QED
            BY <4>3, <6>1
        <5> QED
          BY <1>10, <2>4, <4>2, <5>1, Zenon
      <4>5. CASE x = j
        <5>1. root'[j] = i
          BY <1>1, <1>2, <4>4
        <5>2. x \in Kept /\ Then(Founder(x), x) /\ Founder(x) = i
          BY <2>2, <3>1, <3>2, <3>3, <4>5
        <5> QED
          BY <4>5, <5>1, <5>2
      <4>6. CASE x = i
        <5>1. Compared(Founder(i), i)
          BY <1>2, <3>3, <4>1 DEF Compared, i, j
        <5> QED
          BY <1>1, <1>2, <2>1, <2>2, <3>1, <4>1, <4>4, <4>6, <5>1
      <4>7. CASE x # i /\ x # j
        <5>1. root'[x] = root[x] /\ rank'[x] = rank[x]
          BY <1>1, <4>4, <4>7
        <5> QED
          BY <2>1, <2>2, <4>7, <5>1
      <4> QED
        BY <4>5, <4>6, <4>7
    <3>4. CASE Founder(i) # i
      <4>1. Founder(i) < i
        BY <1>2, <1>7, <3>1, <3>4
      <4>2. Compared(Founder(i), i) /\ Compared(Founder(j), j)
        BY <1>2, <3>2, <4>1 DEF Compared, i
      <4>3. root[i] = Founder(i) /\ root[j] = Founder(i)
        BY <1>1, <1>2, <3>1, <3>2, <4>2 DEF UnderFounder, D
      <4>4. /\ root' = root
            /\ rank' = rank \/ rank' = [rank EXCEPT ![i] = @ + 1]
        <5>1. [root EXCEPT ![i] = root[j]] = root /\ [root EXCEPT ![j] = root[i]] = root
          BY <1>1, <1>2, <4>3
        <5> QED
          BY <1>10, <2>4, <5>1
      <4>5. x # i => rank'[x] = rank[x]
        BY <1>1, <4>4
      <4>6. x \in Kept => (Then(Founder(x), x) <=> Compared(Founder(x), x))
        BY <2>2, <3>2, <3>4
      <4>7. x = i => x \in Kept /\ Compared(Founder(x), x)
        BY <3>1, <4>2
      <4> QED
        BY <2>1, <4>4, <4>5, <4>6, <4>7
    <3> QED
      BY <3>3, <3>4
  <2> QED
    BY <2>3, <2>4
<1>13. UnderFounder'
  <2>1. \A x \in D : IF x \in Kept /\ Then(Founder(x), x) THEN root'[x] = Founder(x)
                                                              ELSE root'[x] = x /\ rank'[x] = 0
    BY <1>12
  <2>2. DOMAIN chains' = D
    BY <1>1 DEF D
  <2> QED
    BY <1>9, <2>1, <2>2 DEF UnderFounder, Compared, Then
<1> QED
  BY <1>1, <1>4, <1>11, <1>13 DEF ForestOfKin, D

LEMMA MarkStep ==
  ASSUME LinkInv, MarkContained, ChainsInv', UNCHANGED vars
  PROVE  LinkInv'
<1>1. /\ chains' = chains /\ stage' = "link" /\ pair' = <<1, 1>>
      /\ contained' = {j \in DOMAIN chains : \E i \in DOMAIN chains \ {j} : ContainsChain(chains[i], chains[j])}
      /\ root' = [i \in DOMAIN chains |-> i] /\ rank' = [i \in DOMAIN chains |-> 0]
  BY DEF MarkContained
<1>2. chains \in Seq(Seq(Latch)) /\ Len(chains) \in Nat /\ DOMAIN chains = 1..Len(chains)
  BY DEF LinkInv, ChainsInv, SearchInv, ChainsSound
<1>3. \A x \in Kept' : Founder(x)' \in Kept' /\ Kept' \subseteq 1..Len(chains)
  <2>1. ASSUME chains' \in Seq(Seq(Latch))' PROVE \A x \in Kept' : Founder(x)' \in Kept'
    <3>1. \A x \in Kept' : Kin(x)' \in SUBSET Nat /\ x \in Kin(x)'
      BY <2>1 DEF Kin, Kept, Alike
    <3>2. ASSUME NEW x \in Kept' PROVE Founder(x)' \in Kept'
      <4>1. \E m \in Kin(x)' : \A y \in Kin(x)' : m <= y
        BY <3>1, LeastNat
      <4>2. Founder(x)' \in Kin(x)'
        BY <4>1 DEF Founder
      <4> QED
        BY <4>2 DEF Kin
    <3> QED
      BY <3>2
  <2>2. chains' \in Seq(Seq(Latch))'
    BY DEF ChainsInv, SearchInv, ChainsSound
  <2>3. Kept' \subseteq 1..Len(chains)
    BY <1>1, <1>2 DEF Kept
  <2> QED
    BY <2>1, <2>2, <2>3
<1>4. UnderFounder'
  <2>1. ASSUME NEW x \in DOMAIN chains
        PROVE  root'[x] = x /\ rank'[x] = 0 /\ (x \in Kept' => ~Compared(Founder(x), x)')
    <3>1. root'[x] = x /\ rank'[x] = 0
      BY <1>1
    <3>2. ASSUME x \in Kept' PROVE ~Compared(Founder(x), x)'
      <4>1. Founder(x)' \in 1..Len(chains) /\ x \in 1..Len(chains)
        BY <1>2, <1>3, <3>2
      <4> DEFINE f == Founder(x)'
      <4>2. pair'[1] = 1 /\ pair'[2] = 1
        BY <1>1
      <4>3. ~(f < 1) /\ ~(x < 1)
        BY <1>2, <4>1
      <4> HIDE DEF f
      <4>4. ~(f < pair'[1] \/ (f = pair'[1] /\ x < pair'[2]))
        BY <4>2, <4>3
      <4> QED
        BY <4>4 DEF Compared, f
    <3> QED
      BY <3>1, <3>2
  <2>2. DOMAIN chains' = DOMAIN chains
    BY <1>1
  <2> QED
    BY <2>1, <2>2 DEF UnderFounder
<1>5. ForestOfKin'
  <2>1. PairInLoops'
    BY <1>1, <1>2 DEF PairInLoops
  <2>2. root' \in [DOMAIN chains' -> DOMAIN chains'] /\ rank' \in [DOMAIN chains' -> Nat]
    BY <1>1
  <2> QED
    BY <1>4, <2>1, <2>2 DEF ForestOfKin
<1>6. ContainedAreInside'
  BY <1>1 DEF ContainedAreInside
<1>7. KeptInRegisters'
  BY <1>1 DEF KeptInRegisters
<1> QED
  BY <1>5, <1>6, <1>7 DEF LinkInv

(* Each kept chain is in the module of its root.                           *)
LEMMA CreateStep ==
  ASSUME LinkInv, CreateRegisters, ChainsInv', UNCHANGED vars
  PROVE  LinkInv'
<1>1. /\ UNCHANGED <<chains, contained>> /\ stage = "link" /\ stage' = "count" /\ Kept' = Kept
      /\ registers' = [k \in {FindSet(root, i) : i \in Kept} |->
                        UNION {ToSet(chains[i]) : i \in {x \in Kept : FindSet(root, x) = k}}]
  BY DEF CreateRegisters, forestVars, Kept
<1>2. ForestOfKin'
  BY <1>1 DEF ForestOfKin
<1>3. ContainedAreInside'
  BY <1>1 DEF LinkInv, ContainedAreInside
<1>4. ASSUME NEW i \in Kept PROVE \E k \in DOMAIN registers' : ToSet(chains[i]) \subseteq registers'[k]
  <2>1. FindSet(root, i) \in DOMAIN registers'
    BY <1>1
  <2>2. ToSet(chains[i]) \subseteq registers'[FindSet(root, i)]
    BY <1>1
  <2> QED
    BY <2>1, <2>2
<1>5. KeptInRegisters'
  BY <1>1, <1>4 DEF KeptInRegisters
<1> QED
  BY <1>2, <1>3, <1>5 DEF LinkInv

LEMMA LinkStay ==
  ASSUME LinkInv, ChainsInv', UNCHANGED <<netlist, chains, forestVars, registers>>,
         stage' = stage \/ (stage \notin {"explore", "link"} /\ stage' \notin {"explore", "link"})
  PROVE  LinkInv'
<1>1. Kept' = Kept /\ \A x : Founder(x)' = Founder(x)
  BY FoundersStay DEF forestVars
<1>2. ForestOfKin'
  <2>1. SUFFICES ASSUME stage' = "link" PROVE ForestOfKin'
    BY DEF ForestOfKin
  <2>2. stage = "link" /\ UNCHANGED <<chains, pair, root, rank>>
    BY <2>1 DEF forestVars
  <2>3. PairInLoops' /\ root' \in [DOMAIN chains' -> DOMAIN chains'] /\ rank' \in [DOMAIN chains' -> Nat]
    BY <2>2 DEF LinkInv, ForestOfKin, PairInLoops
  <2>4. UnderFounder'
    BY <1>1, <2>2 DEF LinkInv, ForestOfKin, UnderFounder, Compared
  <2> QED
    BY <2>3, <2>4 DEF ForestOfKin
<1>3. ContainedAreInside'
  BY DEF LinkInv, ContainedAreInside, forestVars
<1>4. KeptInRegisters'
  BY <1>1 DEF LinkInv, KeptInRegisters, forestVars
<1> QED
  BY <1>2, <1>3, <1>4 DEF LinkInv

LEMMA ExploreStay ==
  ASSUME LinkInv, ChainsInv', stage' = "explore"
  PROVE  LinkInv'
BY DEF LinkInv, ForestOfKin, ContainedAreInside, KeptInRegisters

LEMMA LinkInvStep ==
  ASSUME LinkInv, ChainsInv', [AnalysesNext]_AnalysesVars
  PROVE  LinkInv'
<1>1. CASE Next /\ UNCHANGED <<shiftVars, counterVars>>
  <2>1. netlist' = netlist
    BY <1>1 DEF Next, UpdateDriven, UpdateDriving, ComputePaths, WalkAgain, EndWalk
  <2> QED
    BY <1>1, <2>1, LinkStay DEF shiftVars, searchVars, resultVars
<1>2. CASE ShiftNext /\ UNCHANGED <<vars, counterVars>>
  <2>1. CASE (\E l \in Node : StartAt(l)) \/ TryNext \/ Backtrack
    <3>1. stage' = "explore"
      BY <2>1 DEF StartAt, TryNext, Backtrack
    <3> QED
      BY <3>1, ExploreStay
  <2>2. CASE LinkPair
    <3>1. ForestOfKin'
      BY <1>2, <2>2, LinkStep
    <3>2. /\ UNCHANGED <<chains, contained, registers>>
          /\ Kept' = Kept /\ stage' = stage
      BY <2>2 DEF LinkPair, searchVars, resultVars, Kept
    <3>3. ContainedAreInside' /\ KeptInRegisters'
      BY <3>2 DEF LinkInv, ContainedAreInside, KeptInRegisters
    <3> QED
      BY <3>1, <3>3 DEF LinkInv
  <2> QED
    BY <1>2, <2>1, <2>2, MarkStep, CreateStep DEF ShiftNext
<1>3. CASE CountersNext /\ UNCHANGED vars
  <2>1. /\ UNCHANGED <<chains, forestVars, registers>>
        /\ stage \notin {"explore", "link"} /\ stage' \notin {"explore", "link"}
    BY <1>3 DEF CountersNext, CountFrom, Lengthen, Shorten, AddOverlaps, Merge, EndMerge, OutputCounters,
                shiftVars, searchVars, resultVars
  <2> QED
    BY <1>3, <2>1, LinkStay DEF vars
<1>4. CASE UNCHANGED AnalysesVars
  BY <1>4, LinkStay DEF AnalysesVars, vars, shiftVars, searchVars, resultVars
<1> QED
  BY <1>1, <1>2, <1>3, <1>4 DEF AnalysesNext

THEOREM LinkInductive == Analyses => []LinkInv
<1>1. CountersInit /\ ChainsInv => LinkInv
  BY DEF CountersInit, ShiftInit, LinkInv, ForestOfKin, ContainedAreInside, KeptInRegisters
<1> QED
  BY <1>1, LinkInvStep, ChainsInductive, PTL DEF Analyses
-----------------------------------------------------------------------------
(* For every netlist: a chain left out for being inside another            *)
(* (shiftreg.cpp:162) is inside one that is kept, and so in a register.    *)
THEOREM NoChainIsLost == Analyses => []EveryChainInARegister
<1>1. LinkInv => EveryChainInARegister
  <2> SUFFICES ASSUME LinkInv, stage = "count", NEW i \in DOMAIN chains
               PROVE  \E k \in DOMAIN registers : ToSet(chains[i]) \subseteq registers[k]
    BY DEF EveryChainInARegister
  <2>1. /\ chains \in Seq(Seq(Latch)) /\ \A k \in 1..Len(chains) : RunsForward(chains[k])
        /\ \A k, j \in 1..Len(chains) : chains[k] = chains[j] => k = j
    BY DEF LinkInv, ChainsInv, SearchInv, ChainsSound, FoundOnce
  <2>2. PICK j \in DOMAIN chains : /\ ToSet(chains[i]) \subseteq ToSet(chains[j])
                                   /\ \A k \in DOMAIN chains \ {j} : ~ContainsChain(chains[k], chains[j])
    BY <2>1, InsideAKeptOne
  <2>3. j \in Kept
    BY <2>2 DEF LinkInv, ContainedAreInside, Kept
  <2>4. PICK k \in DOMAIN registers : ToSet(chains[j]) \subseteq registers[k]
    BY <2>3 DEF LinkInv, KeptInRegisters
  <2> QED
    BY <2>2, <2>4
<1> QED
  BY LinkInductive, <1>1, PTL

(* For every netlist: the forest that link (shiftreg.cpp:202) leaves       *)
(* classes the kept chains by their length and by what all of their        *)
(* latches load.                                                           *)
THEOREM ForestClassesChains == Analyses => []RegistersAreClasses
<1>1. LinkInv => RegistersAreClasses
  <2> SUFFICES ASSUME LinkInv, stage = "link", pair[1] > Len(chains), NEW i \in Kept, NEW j \in Kept
               PROVE  FindSet(root, i) = FindSet(root, j) <=>
                        /\ Len(chains[i]) = Len(chains[j])
                        /\ \A k \in 2..Len(chains[i]) :
                             Loads(chains[i][k - 1], chains[i][k]) = Loads(chains[j][1], chains[j][2])
    BY DEF RegistersAreClasses
  <2>1. /\ chains \in Seq(Seq(Latch)) /\ Len(chains) \in Nat /\ DOMAIN chains = 1..Len(chains)
        /\ UnderFounder /\ PairInLoops /\ Kept \subseteq DOMAIN chains
        /\ \A k \in 1..Len(chains) : 3 <= Len(chains[k]) /\ AlikeAlong(chains[k]) /\ Len(chains[k]) \in Nat
    BY DEF LinkInv, ChainsInv, SearchInv, ChainsSound, RunsForward, AllAlike, ForestOfKin, Kept
  <2>2. FindSet(root, i) = root[i] /\ FindSet(root, j) = root[j]
    <3>1. Flat(root, DOMAIN chains) /\ i \in DOMAIN chains /\ j \in DOMAIN chains
      BY <2>1, ForestIsFlat
    <3> QED
      BY <3>1, FindSetFlat
  <2>3. root[i] = Founder(i) /\ root[j] = Founder(j)
    <3>1. Compared(Founder(i), i) /\ Compared(Founder(j), j)
      <4>1. Founder(i) \in 1..Len(chains) /\ Founder(j) \in 1..Len(chains)
        BY <2>1, FounderFacts
      <4>2. pair[1] \in Nat
        BY <2>1 DEF PairInLoops
      <4> QED
        BY <2>1, <4>1, <4>2 DEF Compared
    <3> QED
      BY <2>1, <3>1 DEF UnderFounder
  <2>4. root[i] = root[j] <=> Len(chains[i]) = Len(chains[j]) /\ Alike(chains[i], chains[j])
    BY <2>1, <2>3, FoundersMeet
  <2>5. Alike(chains[i], chains[j]) <=>
          \A k \in 2..Len(chains[i]) :
            Loads(chains[i][k - 1], chains[i][k]) = Loads(chains[j][1], chains[j][2])
    <3>1. 2 \in 2..Len(chains[i]) /\ AlikeAlong(chains[i])
      BY <2>1
    <3>2. \A k \in 2..Len(chains[i]) :
            Loads(chains[i][k - 1], chains[i][k]) = Loads(chains[i][1], chains[i][2])
      BY <3>1 DEF AlikeAlong
    <3> QED
      BY <3>1, <3>2 DEF Alike
  <2> QED
    BY <2>2, <2>4, <2>5
<1> QED
  BY LinkInductive, <1>1, PTL
-----------------------------------------------------------------------------
(* Lists hold each latch once, and none that an analysis before has taken. *)
Free == Latch \ (netlist.ram \cup netlist.ignored \cup UNION {registers[k] : k \in DOMAIN registers})
IsList(s) == s \in Seq(Free) /\ \A i, j \in 1..Len(s) : s[i] = s[j] => i = j

NotCounting ==
  stage \in {"explore", "link"} => list = <<>> /\ untried = <<>> /\ counters = <<>> /\ reported = <<>>
CoveredLatches ==
  /\ covered \subseteq Latch
  /\ netlist.ram \subseteq covered
  /\ stage \in {"count", "merge"} => \A k \in DOMAIN registers : registers[k] \subseteq covered
ListGrows ==
  /\ IsList(list)
  /\ untried \in Seq(SUBSET (Free \X {"up", "down"})) /\ Len(untried) = Len(list)
  /\ \A k \in 1..Len(list) : \A t \in untried[k] : \A j \in 1..k : t[1] # list[j]
AllLists ==
  /\ counters \in Seq(Seq(Free))
  /\ \A i \in 1..Len(counters) : counters[i] # <<>> /\ IsList(counters[i])
  /\ \A i \in DOMAIN reported : IsList(reported[i])
NextInRange ==
  /\ next \in [DOMAIN next -> 0..Len(counters)] /\ cursor \in 0..Len(counters)
  /\ stage \in {"explore", "link", "count"} => next = <<>> /\ cursor = 0
  /\ stage = "merge" => DOMAIN next = DOMAIN counters /\ at \in Nat \ {0}
CountInv == NotCounting /\ CoveredLatches /\ ListGrows /\ AllLists /\ NextInRange

ForestTypes ==
  /\ stage \in {"explore", "link", "count", "merge", "done"}
  /\ contained \subseteq DOMAIN chains
  /\ stage # "explore" => root \in [DOMAIN chains -> DOMAIN chains]
  /\ rank \in [DOMAIN root -> Nat]
  /\ pair \in (1..(Len(chains) + 1)) \X (1..(Len(chains) + 1))
  /\ stage = "explore" => pair = <<1, 1>> /\ contained = {}
  /\ stage \in {"explore", "link"} => registers = <<>>
  /\ registers \in [DOMAIN registers -> SUBSET Latch] /\ DOMAIN registers \subseteq DOMAIN chains
ResultInv == LinkInv /\ NetOK /\ ForestTypes /\ CountInv

LEMMA IgnoredLatches ==
  ASSUME NetOK
  PROVE  netlist.ram \subseteq Latch /\ netlist.ignored \subseteq Latch
BY DesignsAssumption, CounterAssumption DEF NetOK, IsDesign, Latch, OfKind

LEMMA ResultsStart == CountersInit /\ NetOK => ForestTypes /\ CountInv
<1> SUFFICES ASSUME CountersInit, NetOK PROVE ForestTypes /\ CountInv
  OBVIOUS
<1>1. /\ stage = "explore" /\ covered = netlist.ram /\ list = <<>> /\ untried = <<>> /\ counters = <<>>
      /\ next = <<>> /\ cursor = 0 /\ reported = <<>> /\ registers = <<>> /\ chains = <<>>
      /\ contained = {} /\ root = <<>> /\ rank = <<>> /\ pair = <<1, 1>>
  BY DEF CountersInit, ShiftInit
<1>2. ForestTypes
  BY <1>1 DEF ForestTypes
<1>3. NotCounting /\ CoveredLatches /\ NextInRange
  BY <1>1, IgnoredLatches DEF NotCounting, CoveredLatches, NextInRange
<1>4. ListGrows /\ AllLists
  BY <1>1 DEF ListGrows, AllLists, IsList
<1> QED
  BY <1>2, <1>3, <1>4 DEF CountInv

(* The search and the linking leave the counters alone.                    *)
LEMMA CountingWaits ==
  ASSUME ResultInv, UNCHANGED counterVars, stage \in {"explore", "link"},
         stage' \in {"explore", "link", "count"}, CoveredLatches'
  PROVE  CountInv'
<1>1. /\ list = <<>> /\ untried = <<>> /\ counters = <<>> /\ next = <<>> /\ cursor = 0 /\ reported = <<>>
      /\ UNCHANGED <<list, untried, counters, next, cursor, reported, at>>
  BY DEF counterVars, lengthenVars, overlapVars, ResultInv, CountInv, NotCounting, NextInRange
<1>2. NotCounting'
  BY <1>1 DEF NotCounting
<1>3. ListGrows' /\ AllLists'
  BY <1>1 DEF ListGrows, AllLists, IsList
<1>4. NextInRange'
  BY <1>1 DEF NextInRange
<1> QED
  BY <1>2, <1>3, <1>4 DEF CountInv

LEMMA FreeStays ==
  ASSUME UNCHANGED <<netlist, registers>>
  PROVE  Free' = Free /\ \A s : IsList(s)' <=> IsList(s)
BY DEF Free, IsList, Latch, OfKind

(* What may come next in a list is free and not in it.                     *)
LEMMA AvailableIsFree ==
  ASSUME ResultInv, stage = "count"
  PROVE  /\ \A l \in Latch : ~IgnoredLatch(l) => l \in Free
         /\ \A l \in Latch : \A m \in AvailableFirst(l) : m \in Free /\ m # l
         /\ \A s \in Seq(Latch) \ {<<>>} : \A m \in Available(s) : m \in Free /\ \A j \in 1..Len(s) : m # s[j]
<1>1. \A l \in Latch : ~IgnoredLatch(l) => l \in Free
  BY DEF ResultInv, CountInv, CoveredLatches, IgnoredLatch, Free
<1>2. \A l \in Latch : driven[l] \subseteq Latch
  BY DEF ResultInv, LinkInv, ChainsInv, SearchInv, TypeOK, Latch, OfKind
<1>3. \A l \in Latch : \A m \in AvailableFirst(l) : m \in Free /\ m # l
  BY <1>1, <1>2 DEF AvailableFirst, Neighbours
<1>4. ASSUME NEW s \in Seq(Latch) \ {<<>>}, NEW m \in Available(s)
      PROVE  m \in Free /\ \A j \in 1..Len(s) : m # s[j]
  <2>1. Last(s) \in Latch
    BY DEF Last
  <2>2. m \in Free
    BY <1>1, <1>2, <2>1 DEF Available, Neighbours
  <2>3. m \notin ToSet(s)
    BY DEF Available
  <2> QED
    BY <2>2, <2>3 DEF ToSet
<1> QED
  BY <1>1, <1>3, <1>4

LEMMA CountFromStep ==
  ASSUME ResultInv, NEW l \in Node, CountFrom(l), UNCHANGED vars
  PROVE  CountInv'
<1>1. /\ stage = "count" /\ UNCHANGED <<stage, netlist, registers, covered, counters, next, at, cursor, reported>>
      /\ l \in Latch
  BY DEF CountFrom, resultVars, overlapVars, vars, ResultInv, LinkInv, ChainsInv, SearchInv, NotBefore
<1>2. Free' = Free /\ \A s : IsList(s)' <=> IsList(s)
  BY <1>1, FreeStays
<1>3. NotCounting' /\ CoveredLatches' /\ AllLists' /\ NextInRange'
  <2>1. CoveredLatches'
    BY <1>1 DEF ResultInv, CountInv, CoveredLatches, Latch, OfKind
  <2>2. AllLists'
    BY <1>1, <1>2 DEF ResultInv, CountInv, AllLists
  <2> QED
    BY <1>1, <2>1, <2>2 DEF NotCounting, ResultInv, CountInv, NextInRange
<1>4. CASE UNCHANGED <<list, untried>>
  <2>1. ListGrows'
    BY <1>2, <1>4 DEF ResultInv, CountInv, ListGrows
  <2> QED
    BY <1>3, <2>1 DEF CountInv
<1>5. CASE l \in driven[l] /\ ~IgnoredLatch(l)
  <2> DEFINE u == Untried(<<l>>, AvailableFirst(l), {"up", "down"})
  <2>1. list' = <<l>> /\ untried' = <<u>>
    BY <1>5 DEF CountFrom
  <2>2. l \in Free /\ \A m \in AvailableFirst(l) : m \in Free /\ m # l
    BY <1>1, <1>5, AvailableIsFree
  <2>3. u \in SUBSET (Free \X {"up", "down"}) /\ \A t \in u : t[1] # l
    BY <2>2 DEF Untried
  <2> HIDE DEF u
  <2>4. IsList(<<l>>)
    BY <2>2 DEF IsList
  <2>5. ListGrows'
    BY <1>2, <2>1, <2>3, <2>4 DEF ListGrows
  <2> QED
    BY <1>3, <2>5 DEF CountInv
<1> QED
  BY <1>4, <1>5 DEF CountFrom

LEMMA LengthenStep ==
  ASSUME ResultInv, Lengthen, UNCHANGED vars
  PROVE  CountInv'
<1>1. /\ stage = "count" /\ UNCHANGED <<stage, netlist, registers, covered, next, at, cursor, reported>>
      /\ list # <<>>
  BY DEF Lengthen, shiftVars, searchVars, resultVars, overlapVars, vars
<1>2. Free' = Free /\ \A s : IsList(s)' <=> IsList(s)
  BY <1>1, FreeStays
<1>3. /\ IsList(list) /\ list \in Seq(Free) /\ Len(list) \in Nat \ {0}
      /\ untried \in Seq(SUBSET (Free \X {"up", "down"})) /\ Len(untried) = Len(list)
      /\ \A k \in 1..Len(list) : \A t \in untried[k] : \A j \in 1..k : t[1] # list[j]
      /\ counters \in Seq(Seq(Free)) /\ Len(counters) \in Nat
      /\ \A i \in 1..Len(counters) : counters[i] # <<>> /\ IsList(counters[i])
      /\ next = <<>> /\ cursor = 0
  BY <1>1 DEF ResultInv, CountInv, ListGrows, AllLists, NextInRange, IsList
<1>4. PICK m \in Latch, way \in {"up", "down"} :
       LET left_over == [untried EXCEPT ![Len(untried)] = @ \ {<<m, way>>}] IN
       /\ <<m, way>> \in untried[Len(untried)]
       /\ IF IsCounter(list, m, way)
          THEN /\ list' = Append(list, m)
               /\ untried' = Append(left_over, Untried(list', Available(list'), {way}))
               /\ counters' = Append(counters, list')
          ELSE untried' = left_over /\ UNCHANGED <<list, counters>>
  BY DEF Lengthen, IsFirstTry, Last
<1> DEFINE left_over == [untried EXCEPT ![Len(untried)] = @ \ {<<m, way>>}]
           l == Append(list, m)
<1>5. m \in Free /\ \A j \in 1..Len(list) : m # list[j]
  BY <1>3, <1>4
<1>6. /\ left_over \in Seq(SUBSET (Free \X {"up", "down"})) /\ Len(left_over) = Len(list)
      /\ \A k \in 1..Len(list) : left_over[k] \subseteq untried[k]
  BY <1>3
<1>7. l \in Seq(Free) /\ Len(l) = Len(list) + 1 /\ l[Len(list) + 1] = m /\ \A k \in 1..Len(list) : l[k] = list[k]
  BY <1>3, <1>5
<1> HIDE DEF left_over, l
<1>8. CoveredLatches' /\ NotCounting'
  BY <1>1 DEF ResultInv, CountInv, CoveredLatches, NotCounting, Latch, OfKind
<1>9. NextInRange'
  BY <1>1, <1>3, <1>4 DEF NextInRange
<1>10. \A i \in DOMAIN reported : IsList(reported[i])
  BY DEF ResultInv, CountInv, AllLists
<1>11. CASE ~IsCounter(list, m, way)
  <2>1. untried' = left_over /\ list' = list /\ counters' = counters
    BY <1>4, <1>11 DEF left_over
  <2>2. ListGrows'
    BY <1>2, <1>3, <1>6, <2>1 DEF ListGrows
  <2>3. AllLists'
    BY <1>1, <1>2, <1>3, <1>10, <2>1 DEF AllLists
  <2> QED
    BY <1>8, <1>9, <2>2, <2>3 DEF CountInv
<1>12. CASE IsCounter(list, m, way)
  <2> DEFINE u == Untried(l, Available(l), {way})
             r == Append(left_over, u)
  <2>1. list' = l /\ untried' = r /\ counters' = Append(counters, l)
    BY <1>4, <1>12 DEF left_over, l
  <2>2. l \in Seq(Latch) \ {<<>>}
    BY <1>3, <1>7 DEF Free
  <2>3. \A x \in Available(l) : x \in Free /\ \A j \in 1..Len(l) : x # l[j]
    BY <1>1, <2>2, AvailableIsFree
  <2>4. u \in SUBSET (Free \X {"up", "down"}) /\ \A t \in u : \A j \in 1..Len(l) : t[1] # l[j]
    BY <2>3 DEF Untried
  <2> HIDE DEF u
  <2>5. /\ r \in Seq(SUBSET (Free \X {"up", "down"})) /\ Len(r) = Len(l) /\ r[Len(l)] = u
        /\ \A k \in 1..Len(list) : r[k] = left_over[k]
    BY <1>3, <1>6, <1>7, <2>4
  <2> HIDE DEF r
  <2>6. \A k \in 1..Len(l) : \A t \in r[k] : \A j \in 1..k : t[1] # l[j]
    <3> TAKE k \in 1..Len(l)
    <3>1. CASE k = Len(l)
      BY <2>4, <2>5, <3>1
    <3>2. CASE k \in 1..Len(list)
      <4>1. r[k] \subseteq untried[k] /\ \A j \in 1..k : l[j] = list[j]
        BY <1>3, <1>6, <1>7, <2>5, <3>2
      <4> QED
        BY <1>3, <3>2, <4>1
    <3> QED
      BY <1>3, <1>7, <3>1, <3>2
  <2>7. IsList(l)
    <3>1. \A i, j \in 1..Len(l) : l[i] = l[j] => i = j
      BY <1>3, <1>5, <1>7 DEF IsList
    <3> QED
      BY <1>7, <3>1 DEF IsList
  <2>8. ListGrows'
    BY <1>2, <2>1, <2>5, <2>6, <2>7 DEF ListGrows
  <2>9. /\ counters' \in Seq(Seq(Free))
        /\ \A i \in 1..Len(counters') : counters'[i] # <<>> /\ IsList(counters'[i])
    <3> DEFINE c == Append(counters, l)
    <3>1. c \in Seq(Seq(Free)) /\ Len(c) = Len(counters) + 1 /\ c[Len(counters) + 1] = l
          /\ \A i \in 1..Len(counters) : c[i] = counters[i]
      BY <1>3, <1>7
    <3> HIDE DEF c
    <3>2. \A i \in 1..Len(c) : i \in 1..Len(counters) \/ i = Len(counters) + 1
      BY <1>3, <3>1
    <3>3. \A i \in 1..Len(c) : c[i] # <<>> /\ IsList(c[i])
      BY <1>3, <2>2, <2>7, <3>1, <3>2
    <3> QED
      BY <2>1, <3>1, <3>3 DEF c
  <2>10. AllLists'
    BY <1>1, <1>2, <1>10, <2>9 DEF AllLists
  <2> QED
    BY <1>8, <1>9, <2>8, <2>10 DEF CountInv
<1> QED
  BY <1>11, <1>12

LEMMA ShortenStep ==
  ASSUME ResultInv, Shorten, UNCHANGED vars
  PROVE  CountInv'
<1>1. /\ stage = "count" /\ UNCHANGED <<stage, netlist, registers, covered, counters, next, at, cursor, reported>>
      /\ list # <<>> /\ list' = Front(list) /\ untried' = Front(untried)
  BY DEF Shorten, shiftVars, searchVars, resultVars, overlapVars, vars
<1>2. Free' = Free /\ \A s : IsList(s)' <=> IsList(s)
  BY <1>1, FreeStays
<1>3. NotCounting' /\ CoveredLatches' /\ AllLists' /\ NextInRange'
  <2>1. CoveredLatches'
    BY <1>1 DEF ResultInv, CountInv, CoveredLatches, Latch, OfKind
  <2>2. AllLists'
    BY <1>1, <1>2 DEF ResultInv, CountInv, AllLists
  <2> QED
    BY <1>1, <2>1, <2>2 DEF NotCounting, ResultInv, CountInv, NextInRange
<1>4. /\ IsList(list) /\ list \in Seq(Free) /\ Len(list) \in Nat \ {0}
      /\ untried \in Seq(SUBSET (Free \X {"up", "down"})) /\ Len(untried) = Len(list)
      /\ \A k \in 1..Len(list) : \A t \in untried[k] : \A j \in 1..k : t[1] # list[j]
  BY <1>1 DEF ResultInv, CountInv, ListGrows, IsList
<1> DEFINE l == Front(list)
           r == Front(untried)
<1>5. l \in Seq(Free) /\ Len(l) = Len(list) - 1 /\ \A k \in 1..Len(l) : k \in 1..Len(list) /\ l[k] = list[k]
  BY <1>4 DEF Front
<1>6. /\ r \in Seq(SUBSET (Free \X {"up", "down"})) /\ Len(r) = Len(list) - 1
      /\ \A k \in 1..(Len(list) - 1) : r[k] = untried[k]
  BY <1>4 DEF Front
<1> HIDE DEF l, r
<1>7. IsList(l)
  <2>1. \A i, j \in 1..Len(l) : l[i] = l[j] => i = j
    BY <1>4, <1>5 DEF IsList
  <2> QED
    BY <1>5, <2>1 DEF IsList
<1>8. \A k \in 1..Len(l) : \A t \in r[k] : \A j \in 1..k : t[1] # l[j]
  <2> TAKE k \in 1..Len(l)
  <2>1. k \in 1..Len(list) /\ k \in 1..(Len(list) - 1)
    BY <1>4, <1>5
  <2>2. r[k] = untried[k]
    BY <1>6, <2>1
  <2>3. \A j \in 1..k : l[j] = list[j]
    <3>1. \A j \in 1..k : j \in 1..Len(l)
      BY <1>4, <1>5
    <3> QED
      BY <1>5, <3>1
  <2> QED
    BY <1>4, <2>1, <2>2, <2>3
<1>9. Len(r) = Len(l)
  BY <1>5, <1>6
<1>10. list' = l /\ untried' = r
  BY <1>1 DEF l, r
<1>11. ListGrows'
  BY <1>2, <1>6, <1>7, <1>8, <1>9, <1>10 DEF ListGrows
<1> QED
  BY <1>3, <1>11 DEF CountInv

(* The next counter is one of the list, or none.                           *)
LEMMA NextOfInRange ==
  ASSUME counters \in Seq(Seq(Free)), NEW i \in DOMAIN counters
  PROVE  NextOf(i) \in 0..Len(counters)
<1> DEFINE S == {j \in DOMAIN counters \ {i} : Overlaps(counters[i], counters[j])}
<1>1. Len(counters) \in Nat /\ S \subseteq 1..Len(counters)
  OBVIOUS
<1>2. NextOf(i) = IF S = {} THEN 0 ELSE Max(S)
  BY DEF NextOf
<1> HIDE DEF S
<1>3. CASE S # {}
  <2> DEFINE T == {Len(counters) - x : x \in S}
  <2>1. PICK t \in T : \A y \in T : t <= y
    <3>1. T \in SUBSET Nat
      <4>1. \A x \in S : x \in 1..Len(counters)
        BY <1>1
      <4> QED
        BY <1>1, <4>1
    <3>2. T # {}
      BY <1>3
    <3> HIDE DEF T
    <3> QED
      BY <3>1, <3>2, LeastNat
  <2>2. PICK m \in S : t = Len(counters) - m
    OBVIOUS
  <2>3. \A x \in S : m >= x
    <3> TAKE x \in S
    <3>1. Len(counters) - m <= Len(counters) - x
      BY <2>1, <2>2
    <3> QED
      BY <1>1, <3>1
  <2>4. Max(S) \in S
    BY <2>3 DEF Max
  <2>5. NextOf(i) = Max(S)
    BY <1>2, <1>3
  <2>6. NextOf(i) \in 1..Len(counters)
    BY <1>1, <2>4, <2>5
  <2> QED
    BY <1>1, <2>6
<1> QED
  BY <1>1, <1>2, <1>3

LEMMA AddOverlapsStep ==
  ASSUME ResultInv, AddOverlaps, UNCHANGED vars
  PROVE  CountInv'
<1>1. /\ stage = "count" /\ stage' = "merge" /\ at' = 1
      /\ UNCHANGED <<netlist, registers, covered, counters, list, untried, reported>>
      /\ next' = [i \in DOMAIN counters |-> NextOf(i)]
      /\ cursor' = IF counters = <<>> THEN 0 ELSE next'[1]
  BY DEF AddOverlaps, resultVars, lengthenVars, vars
<1>2. Free' = Free /\ \A s : IsList(s)' <=> IsList(s)
  BY <1>1, FreeStays
<1>3. CoveredLatches' /\ NotCounting'
  BY <1>1 DEF ResultInv, CountInv, CoveredLatches, NotCounting, Latch, OfKind
<1>4. AllLists'
  BY <1>1, <1>2 DEF ResultInv, CountInv, AllLists
<1>5. ListGrows'
  BY <1>1, <1>2 DEF ResultInv, CountInv, ListGrows
<1>6. counters \in Seq(Seq(Free)) /\ Len(counters) \in Nat /\ DOMAIN counters = 1..Len(counters)
  BY DEF ResultInv, CountInv, AllLists
<1>7. \A i \in DOMAIN counters : NextOf(i) \in 0..Len(counters)
  BY <1>6, NextOfInRange
<1>8. next' \in [DOMAIN counters -> 0..Len(counters)]
  BY <1>1, <1>7
<1>9. cursor' \in 0..Len(counters)
  <2>1. CASE counters = <<>>
    BY <1>1, <1>6, <2>1
  <2>2. CASE counters # <<>>
    <3>1. 1 \in DOMAIN counters
      BY <1>6, <2>2
    <3> QED
      BY <1>1, <1>8, <2>2, <3>1
  <2> QED
    BY <2>1, <2>2
<1>10. NextInRange'
  BY <1>1, <1>8, <1>9 DEF NextInRange
<1> QED
  BY <1>3, <1>4, <1>5, <1>10 DEF CountInv

LEMMA MergeStep ==
  ASSUME ResultInv, Merge, UNCHANGED vars
  PROVE  CountInv'
<1>1. /\ stage = "merge" /\ at <= Len(counters) /\ cursor # 0
      /\ UNCHANGED <<stage, netlist, registers, covered, list, untried, reported, next, at>>
      /\ counters' = IF Last(counters[cursor]) \in ToSet(counters[at]) THEN counters
                     ELSE [counters EXCEPT ![at] = Append(@, Last(counters[cursor]))]
      /\ cursor' = next[cursor]
  BY DEF Merge, shiftVars, searchVars, resultVars, vars
<1>2. Free' = Free /\ \A s : IsList(s)' <=> IsList(s)
  BY <1>1, FreeStays
<1>3. CoveredLatches' /\ NotCounting'
  BY <1>1 DEF ResultInv, CountInv, CoveredLatches, NotCounting, Latch, OfKind
<1>4. ListGrows'
  BY <1>1, <1>2 DEF ResultInv, CountInv, ListGrows
<1>5. /\ counters \in Seq(Seq(Free)) /\ Len(counters) \in Nat /\ DOMAIN counters = 1..Len(counters)
      /\ \A i \in 1..Len(counters) : counters[i] # <<>> /\ IsList(counters[i])
      /\ \A i \in DOMAIN reported : IsList(reported[i])
      /\ next \in [DOMAIN next -> 0..Len(counters)] /\ cursor \in 0..Len(counters)
      /\ DOMAIN next = DOMAIN counters /\ at \in Nat \ {0}
  BY <1>1 DEF ResultInv, CountInv, AllLists, NextInRange
<1>6. cursor \in 1..Len(counters) /\ at \in 1..Len(counters)
  BY <1>1, <1>5
<1> DEFINE l == Last(counters[cursor])
           c == Append(counters[at], l)
<1>7. l \in Free
  <2> DEFINE d == counters[cursor]
  <2>1. d \in Seq(Free) /\ d # <<>>
    BY <1>5, <1>6
  <2> HIDE DEF d
  <2>2. d[Len(d)] \in Free
    BY <2>1
  <2> QED
    BY <2>2 DEF Last, d
<1> HIDE DEF l
<1>8. CASE l \in ToSet(counters[at])
  <2>1. counters' = counters
    BY <1>1, <1>8 DEF l
  <2>2. AllLists'
    BY <1>1, <1>2, <1>5, <2>1 DEF AllLists
  <2>3. NextInRange'
    BY <1>1, <1>5, <1>6, <2>1 DEF NextInRange
  <2> QED
    BY <1>3, <1>4, <2>2, <2>3 DEF CountInv
<1>9. CASE l \notin ToSet(counters[at])
  <2>1. IsList(c) /\ c # <<>>
    <3> DEFINE d == counters[at]
    <3>1. d \in Seq(Free) /\ IsList(d) /\ Len(d) \in Nat /\ \A i \in 1..Len(d) : d[i] # l
      BY <1>5, <1>6, <1>9 DEF ToSet, IsList
    <3> HIDE DEF d
    <3>2. IsList(Append(d, l)) /\ Append(d, l) # <<>>
      <4> DEFINE e == Append(d, l)
      <4>1. e \in Seq(Free) /\ Len(e) = Len(d) + 1 /\ e[Len(d) + 1] = l /\ \A i \in 1..Len(d) : e[i] = d[i]
        BY <1>7, <3>1
      <4> HIDE DEF e
      <4>2. \A i, j \in 1..Len(e) : e[i] = e[j] => i = j
        BY <3>1, <4>1 DEF IsList
      <4>3. IsList(e) /\ e # <<>>
        BY <3>1, <4>1, <4>2 DEF IsList
      <4> QED
        BY <4>3 DEF e
    <3> QED
      BY <3>2 DEF d
  <2>2. counters' = [counters EXCEPT ![at] = c]
    BY <1>1, <1>9 DEF l
  <2> HIDE DEF c
  <2>3. /\ counters' \in Seq(Seq(Free)) /\ Len(counters') = Len(counters) /\ DOMAIN counters' = DOMAIN counters
        /\ \A i \in 1..Len(counters) : counters'[i] = IF i = at THEN c ELSE counters[i]
    <3>1. c \in Seq(Free)
      BY <2>1 DEF IsList
    <3> QED
      BY <1>5, <1>6, <2>2, <3>1
  <2>4. AllLists'
    BY <1>1, <1>2, <1>5, <2>1, <2>3 DEF AllLists
  <2>5. NextInRange'
    BY <1>1, <1>5, <1>6, <2>3 DEF NextInRange
  <2> QED
    BY <1>3, <1>4, <2>4, <2>5 DEF CountInv
<1> QED
  BY <1>8, <1>9

LEMMA EndMergeStep ==
  ASSUME ResultInv, EndMerge, UNCHANGED vars
  PROVE  CountInv'
<1>1. /\ stage = "merge" /\ at <= Len(counters) /\ cursor = 0
      /\ UNCHANGED <<stage, netlist, registers, covered, list, untried, counters, reported, next>>
      /\ at' = at + 1 /\ cursor' = IF at = Len(counters) THEN 0 ELSE next[at + 1]
  BY DEF EndMerge, shiftVars, searchVars, resultVars, lengthenVars, vars
<1>2. Free' = Free /\ \A s : IsList(s)' <=> IsList(s)
  BY <1>1, FreeStays
<1>3. CoveredLatches' /\ NotCounting'
  BY <1>1 DEF ResultInv, CountInv, CoveredLatches, NotCounting, Latch, OfKind
<1>4. ListGrows' /\ AllLists'
  BY <1>1, <1>2 DEF ResultInv, CountInv, ListGrows, AllLists
<1>5. /\ counters \in Seq(Seq(Free)) /\ Len(counters) \in Nat /\ DOMAIN counters = 1..Len(counters)
      /\ next \in [DOMAIN next -> 0..Len(counters)] /\ DOMAIN next = DOMAIN counters /\ at \in Nat \ {0}
  BY <1>1 DEF ResultInv, CountInv, AllLists, NextInRange
<1>6. at # Len(counters) => at + 1 \in DOMAIN counters
  BY <1>1, <1>5
<1>7. NextInRange'
  BY <1>1, <1>5, <1>6 DEF NextInRange
<1> QED
  BY <1>3, <1>4, <1>7 DEF CountInv

LEMMA OutputStep ==
  ASSUME ResultInv, OutputCounters, UNCHANGED vars
  PROVE  CountInv'
<1>1. /\ stage = "merge" /\ stage' = "done"
      /\ UNCHANGED <<netlist, registers, list, untried, counters, next, at, cursor>>
      /\ covered' = covered \cup UNION {ToSet(reported'[k]) : k \in DOMAIN reported'}
      /\ DOMAIN reported' \subseteq DOMAIN counters
      /\ \A i \in DOMAIN reported' : reported'[i] = counters[i]
  BY DEF OutputCounters, lengthenVars, overlapVars, vars, Distinct
<1>2. Free' = Free /\ \A s : IsList(s)' <=> IsList(s)
  BY <1>1, FreeStays
<1>3. /\ counters \in Seq(Seq(Free)) /\ DOMAIN counters = 1..Len(counters)
      /\ \A i \in 1..Len(counters) : counters[i] # <<>> /\ IsList(counters[i])
  BY DEF ResultInv, CountInv, AllLists
<1>4. AllLists'
  BY <1>1, <1>2, <1>3 DEF AllLists
<1>5. \A k \in DOMAIN reported' : ToSet(reported'[k]) \subseteq Latch
  <2> TAKE k \in DOMAIN reported'
  <2>1. reported'[k] \in Seq(Free)
    BY <1>1, <1>3
  <2> QED
    BY <2>1 DEF ToSet, Free
<1>6. CoveredLatches' /\ NotCounting' /\ NextInRange'
  <2>1. Latch' = Latch
    BY <1>1 DEF Latch, OfKind
  <2> QED
    BY <1>1, <1>5, <2>1 DEF ResultInv, CountInv, CoveredLatches, NotCounting, NextInRange
<1>7. ListGrows'
  BY <1>1, <1>2 DEF ResultInv, CountInv, ListGrows
<1> QED
  BY <1>4, <1>6, <1>7 DEF CountInv

(* Steps that leave the forest and the modules alone.                      *)
LEMMA ForestStay ==
  ASSUME ResultInv, UNCHANGED <<netlist, chains, forestVars, registers>>, stage # "explore",
         stage' \in {"link", "count", "merge", "done"}, stage' = "link" => stage = "link"
  PROVE  ForestTypes'
<1>1. Latch' = Latch /\ UNCHANGED <<chains, contained, root, rank, pair, registers>>
  BY DEF Latch, OfKind, forestVars
<1> QED
  BY <1>1 DEF ResultInv, ForestTypes

LEMMA ExploreTypes ==
  ASSUME ResultInv, ChainsSound', UNCHANGED <<netlist, forestVars, resultVars>>, stage = "explore", stage' = stage
  PROVE  ForestTypes' /\ CoveredLatches'
<1>1. /\ Latch' = Latch /\ UNCHANGED <<contained, root, rank, pair, registers, covered>>
      /\ chains' \in Seq(Seq(Latch)) /\ Len(chains') \in Nat
  BY DEF Latch, OfKind, forestVars, resultVars, ChainsSound
<1>2. pair = <<1, 1>> /\ contained = {} /\ registers = <<>> /\ rank \in [DOMAIN root -> Nat]
  BY DEF ResultInv, ForestTypes
<1>3. pair' \in (1..(Len(chains') + 1)) \X (1..(Len(chains') + 1))
  BY <1>1, <1>2
<1>4. ForestTypes'
  BY <1>1, <1>2, <1>3 DEF ForestTypes
<1>5. CoveredLatches'
  BY <1>1 DEF ResultInv, CountInv, CoveredLatches
<1> QED
  BY <1>4, <1>5

LEMMA MarkTypes ==
  ASSUME ResultInv, MarkContained, UNCHANGED vars
  PROVE  ForestTypes' /\ CoveredLatches'
<1>1. /\ stage = "explore" /\ stage' = "link" /\ UNCHANGED <<netlist, chains, registers, covered>>
      /\ contained' = {j \in DOMAIN chains : \E i \in DOMAIN chains \ {j} : ContainsChain(chains[i], chains[j])}
      /\ root' = [i \in DOMAIN chains |-> i] /\ rank' = [i \in DOMAIN chains |-> 0] /\ pair' = <<1, 1>>
      /\ Len(chains) \in Nat /\ Latch' = Latch /\ registers = <<>>
  BY DEF MarkContained, resultVars, vars, ResultInv, LinkInv, ChainsInv, SearchInv, ChainsSound, ForestTypes, Latch, OfKind
<1>2. root' \in [DOMAIN chains -> DOMAIN chains] /\ rank' \in [DOMAIN root' -> Nat]
  BY <1>1
<1>3. pair' \in (1..(Len(chains) + 1)) \X (1..(Len(chains) + 1))
  BY <1>1
<1>4. ForestTypes'
  BY <1>1, <1>2, <1>3 DEF ForestTypes
<1>5. CoveredLatches'
  BY <1>1 DEF ResultInv, CountInv, CoveredLatches
<1> QED
  BY <1>4, <1>5

LEMMA LinkTypes ==
  ASSUME ResultInv, LinkPair, ForestOfKin', UNCHANGED vars
  PROVE  ForestTypes' /\ CoveredLatches'
<1>1. /\ stage = "link" /\ stage' = "link" /\ UNCHANGED <<netlist, chains, contained, registers, covered>>
      /\ Len(chains) \in Nat /\ Latch' = Latch /\ registers = <<>>
      /\ pair' = IF pair[2] = Len(chains) THEN <<pair[1] + 1, 1>> ELSE <<pair[1], pair[2] + 1>>
      /\ pair[1] <= Len(chains)
  BY DEF LinkPair, searchVars, resultVars, vars, ResultInv, LinkInv, ChainsInv, SearchInv, ChainsSound, ForestTypes,
         Latch, OfKind
<1>2. root' \in [DOMAIN chains -> DOMAIN chains] /\ rank' \in [DOMAIN root' -> Nat]
  BY <1>1 DEF ForestOfKin
<1>3. pair' \in (1..(Len(chains) + 1)) \X (1..(Len(chains) + 1))
  <2>1. pair[1] \in 1..Len(chains) /\ pair[2] \in 1..Len(chains)
    BY <1>1 DEF ResultInv, LinkInv, ForestOfKin, PairInLoops
  <2> QED
    BY <1>1, <2>1
<1>4. ForestTypes'
  BY <1>1, <1>2, <1>3 DEF ResultInv, ForestTypes
<1>5. CoveredLatches'
  BY <1>1 DEF ResultInv, CountInv, CoveredLatches
<1> QED
  BY <1>4, <1>5

LEMMA CreateTypes ==
  ASSUME ResultInv, CreateRegisters, UNCHANGED vars
  PROVE  ForestTypes' /\ CoveredLatches'
<1>1. /\ stage = "link" /\ stage' = "count" /\ UNCHANGED <<netlist, chains, contained, root, rank, pair>>
      /\ Latch' = Latch
      /\ registers' = [k \in {FindSet(root, i) : i \in Kept} |->
                        UNION {ToSet(chains[i]) : i \in {x \in Kept : FindSet(root, x) = k}}]
      /\ covered' = covered \cup UNION {ToSet(chains[i]) : i \in Kept}
  BY DEF CreateRegisters, forestVars, vars, Latch, OfKind
<1>2. chains \in Seq(Seq(Latch)) /\ Kept \subseteq DOMAIN chains
  BY DEF ResultInv, LinkInv, ChainsInv, SearchInv, ChainsSound, Kept
<1>3. \A i \in Kept : ToSet(chains[i]) \subseteq Latch
  <2> TAKE i \in Kept
  <2>1. chains[i] \in Seq(Latch)
    BY <1>2
  <2> QED
    BY <2>1 DEF ToSet
<1>4. \A i \in Kept : FindSet(root, i) \in DOMAIN chains
  <2> TAKE i \in Kept
  <2>1. Flat(root, DOMAIN chains) /\ i \in DOMAIN chains
    BY <1>1, <1>2, ForestIsFlat DEF ResultInv
  <2>2. FindSet(root, i) = root[i]
    BY <2>1, FindSetFlat
  <2> QED
    BY <2>1, <2>2 DEF Flat
<1>5. registers' \in [DOMAIN registers' -> SUBSET Latch] /\ DOMAIN registers' \subseteq DOMAIN chains
  BY <1>1, <1>3, <1>4
<1>6. ForestTypes'
  BY <1>1, <1>5 DEF ResultInv, ForestTypes
<1>7. covered' \subseteq Latch /\ netlist.ram \subseteq covered'
  BY <1>1, <1>3 DEF ResultInv, CountInv, CoveredLatches
<1>8. \A k \in DOMAIN registers' : registers'[k] \subseteq covered'
  BY <1>1
<1>9. CoveredLatches'
  BY <1>1, <1>7, <1>8 DEF CoveredLatches
<1> QED
  BY <1>6, <1>9

LEMMA ResultStep ==
  ASSUME ResultInv, LinkInv', NetOK', [AnalysesNext]_AnalysesVars
  PROVE  ResultInv'
<1>1. ChainsSound' /\ ForestOfKin'
  BY DEF LinkInv, ChainsInv, SearchInv
<1>2. CASE Next /\ UNCHANGED <<shiftVars, counterVars>>
  <2>1. netlist' = netlist /\ phase # "done"
    BY <1>2 DEF Next, UpdateDriven, UpdateDriving, ComputePaths, WalkAgain, EndWalk, ToFixpoint
  <2>2. stage = "explore"
    BY <2>1 DEF ResultInv, LinkInv, ChainsInv, SearchInv, NotBefore
  <2>3. ForestTypes' /\ CoveredLatches'
    BY <1>1, <1>2, <2>1, <2>2, ExploreTypes DEF shiftVars, searchVars
  <2>4. CountInv'
    BY <1>2, <2>2, <2>3, CountingWaits DEF shiftVars, searchVars
  <2> QED
    BY <2>3, <2>4 DEF ResultInv
<1>3. CASE ShiftNext /\ UNCHANGED <<vars, counterVars>>
  <2>1. stage \in {"explore", "link"} /\ stage' \in {"explore", "link", "count"}
    BY <1>3 DEF ShiftNext, StartAt, TryNext, Backtrack, MarkContained, LinkPair, CreateRegisters, searchVars
  <2>2. ForestTypes' /\ CoveredLatches'
    <3>1. CASE (\E l \in Node : StartAt(l)) \/ TryNext \/ Backtrack
      <4>1. UNCHANGED <<netlist, forestVars, resultVars, stage>> /\ stage = "explore"
        BY <1>3, <3>1 DEF StartAt, TryNext, Backtrack, vars
      <4> QED
        BY <1>1, <4>1, ExploreTypes
    <3> QED
      BY <1>1, <1>3, <3>1, MarkTypes, LinkTypes, CreateTypes DEF ShiftNext
  <2>3. CountInv'
    BY <1>3, <2>1, <2>2, CountingWaits
  <2> QED
    BY <2>2, <2>3 DEF ResultInv
<1>4. CASE CountersNext /\ UNCHANGED vars
  <2>1. /\ stage \in {"count", "merge"} /\ stage' \in {"count", "merge", "done"}
        /\ UNCHANGED <<netlist, chains, forestVars, registers>>
    BY <1>4 DEF CountersNext, CountFrom, Lengthen, Shorten, AddOverlaps, Merge, EndMerge, OutputCounters,
                shiftVars, searchVars, resultVars, vars
  <2>2. ForestTypes'
    BY <2>1, ForestStay
  <2>3. CountInv'
    BY <1>4, CountFromStep, LengthenStep, ShortenStep, AddOverlapsStep, MergeStep, EndMergeStep, OutputStep
       DEF CountersNext
  <2> QED
    BY <2>2, <2>3 DEF ResultInv
<1>5. CASE UNCHANGED AnalysesVars
  <2>1. /\ Latch' = Latch /\ Free' = Free /\ \A s : IsList(s)' <=> IsList(s)
        /\ UNCHANGED <<netlist, chains, contained, root, rank, pair, registers, stage, covered, list, untried,
                       counters, next, at, cursor, reported>>
    BY <1>5, FreeStays DEF AnalysesVars, vars, shiftVars, searchVars, forestVars, resultVars, counterVars,
       lengthenVars, overlapVars, Latch, OfKind
  <2>2. ForestTypes' /\ NotCounting' /\ CoveredLatches' /\ NextInRange'
    BY <2>1 DEF ResultInv, ForestTypes, CountInv, NotCounting, CoveredLatches, NextInRange
  <2>3. ListGrows' /\ AllLists'
    BY <2>1 DEF ResultInv, CountInv, ListGrows, AllLists
  <2> QED
    BY <2>2, <2>3 DEF ResultInv, CountInv
<1> QED
  BY <1>2, <1>3, <1>4, <1>5 DEF AnalysesNext

THEOREM ResultInductive == Analyses => []ResultInv
<1>1. CountersInit /\ LinkInv /\ NetOK => ResultInv
  BY ResultsStart DEF ResultInv
<1>2. IInv => NetOK
  BY DEF IInv
<1> QED
  BY <1>1, <1>2, ResultStep, LinkInductive, ConnectionsUndisturbed, Inductive, PTL DEF Analyses
-----------------------------------------------------------------------------
(* A chain has no latch twice: it would be driven by one before it.        *)
LEMMA ForwardIsInjective ==
  ASSUME NEW p, RunsForward(p)
  PROVE  p \in Seq(Latch) /\ IsInjective(p)
<1>1. p \in Seq(Latch) /\ Len(p) \in Nat /\ DOMAIN p = 1..Len(p)
  BY DEF RunsForward
<1>2. ToSet(p) \subseteq ToSet(p)
  OBVIOUS
<1>3. \A k \in 1..Len(p) : \A i \in 1..Len(p) : p[i] = p[k] => k <= i
  BY <1>2, NoSooner
<1>4. \A k \in 1..Len(p) : \A i \in 1..Len(p) : p[i] = p[k] => k = i
  BY <1>1, <1>3
<1> QED
  BY <1>1, <1>4 DEF IsInjective

(* For every netlist: all variables of the three analyses keep their       *)
(* types, chains and counters hold no latch twice, although merge          *)
(* (counter.cpp:981) appends to lists that others are merged from, and the *)
(* next of a counter is always in the list (counter.cpp:1053).             *)
THEOREM AnalysesTypeCorrect == Analyses => []AnalysesTypeOK
<1>1. ResultInv => AnalysesTypeOK
  <2> SUFFICES ASSUME ResultInv PROVE AnalysesTypeOK
    OBVIOUS
  <2>1. SearchInv /\ ForestTypes /\ CountInv
    BY DEF ResultInv, LinkInv, ChainsInv
  <2>2. \A i \in DOMAIN chains : chains[i] \in Seq(Latch) /\ IsInjective(chains[i])
    <3>1. \A i \in 1..Len(chains) : RunsForward(chains[i])
      BY <2>1 DEF SearchInv, ChainsSound
    <3>2. DOMAIN chains = 1..Len(chains)
      BY <2>1 DEF SearchInv, ChainsSound
    <3> QED
      BY <3>1, <3>2, ForwardIsInjective
  <2>3. ASSUME NEW s, IsList(s) PROVE s \in Seq(Latch) /\ IsInjective(s)
    <3>1. s \in Seq(Free) /\ DOMAIN s = 1..Len(s) /\ \A i, j \in 1..Len(s) : s[i] = s[j] => i = j
      BY <2>3 DEF IsList
    <3>2. s \in Seq(Latch)
      BY <3>1 DEF Free
    <3> QED
      BY <3>1, <3>2 DEF IsInjective
  <2>4. \A i \in DOMAIN counters : counters[i] \in Seq(Latch) /\ IsInjective(counters[i])
    <3>1. DOMAIN counters = 1..Len(counters) /\ \A i \in 1..Len(counters) : IsList(counters[i])
      BY <2>1 DEF CountInv, AllLists
    <3> QED
      BY <2>3, <3>1
  <2>5. \A i \in DOMAIN reported : reported[i] \in Seq(Latch) /\ IsInjective(reported[i])
    BY <2>1, <2>3 DEF CountInv, AllLists
  <2>6. list \in Seq(Latch) /\ Len(untried) = Len(list)
    BY <2>1, <2>3 DEF CountInv, ListGrows
  <2>7. TypeOK /\ todo \subseteq Latch /\ covered \subseteq Latch /\ path \in Seq(Latch) /\ Len(rest) = Len(path)
    BY <2>1 DEF SearchInv, NotBefore, PathSound, RunsForward, CountInv, CoveredLatches
  <2>8. next \in [DOMAIN next -> 0..Len(counters)] /\ cursor \in 0..Len(counters)
    BY <2>1 DEF CountInv, NextInRange
  <2> QED
    BY <2>1, <2>2, <2>4, <2>5, <2>6, <2>7, <2>8 DEF AnalysesTypeOK, ForestTypes
<1> QED
  BY ResultInductive, <1>1, PTL

(* For every netlist: no latch that a memory or a shift register has       *)
(* taken, or that is to be ignored, is in a counter (counter.cpp:16).      *)
NothingTakenTwice ==
  \A k \in DOMAIN reported :
    ToSet(reported[k]) \cap (netlist.ram \cup netlist.ignored \cup UNION {registers[i] : i \in DOMAIN registers}) = {}
THEOREM CountersTakeFreeLatches == Analyses => []NothingTakenTwice
<1>1. ResultInv => NothingTakenTwice
  <2> SUFFICES ASSUME ResultInv, NEW k \in DOMAIN reported
               PROVE  ToSet(reported[k]) \subseteq Free
    BY DEF NothingTakenTwice, Free
  <2>1. reported[k] \in Seq(Free)
    BY DEF ResultInv, CountInv, AllLists, IsList
  <2> QED
    BY <2>1 DEF ToSet
<1> QED
  BY ResultInductive, <1>1, PTL

(* A list is reported, or inside one that is, or inside one in two orders. *)
EachInOne ==
  stage = "done" => \A i \in DOMAIN counters :
    InTwoOrders(i) \/ \E k \in DOMAIN reported : ContainsChain(reported[k], counters[i])

LEMMA OutputReportsEach ==
  ASSUME CountInv, OutputCounters PROVE EachInOne'
<1>1. counters' = counters
  BY DEF OutputCounters, lengthenVars
<1>2. counters \in Seq(Seq(Latch)) /\ Len(counters) \in Nat /\ DOMAIN counters = 1..Len(counters)
  BY DEF CountInv, AllLists, Free
<1>3. SUFFICES ASSUME NEW i \in DOMAIN counters, ~InTwoOrders(i)
               PROVE  \E k \in DOMAIN reported' : ContainsChain(reported'[k], counters[i])
  BY <1>1 DEF EachInOne, InTwoOrders, ContainsChain
<1>4. PICK j \in DOMAIN counters :
        /\ ToSet(counters[i]) \subseteq ToSet(counters[j])
        /\ \A k \in DOMAIN counters :
             ToSet(counters[j]) \subseteq ToSet(counters[k]) => ToSet(counters[k]) = ToSet(counters[j])
  BY <1>2, InsideALargestOne
<1> DEFINE Same == {x \in DOMAIN counters : counters[x] = counters[j]}
<1>5. PICK f \in Same : \A x \in Same : f <= x
  <2>1. Same \in SUBSET Nat /\ Same # {}
    BY <1>2, <1>4
  <2> HIDE DEF Same
  <2> QED
    BY <2>1, LeastNat
<1>6. f \in Distinct
  <2>1. ASSUME NEW x \in 1..(f - 1), counters[x] = counters[f] PROVE FALSE
    <3>1. x \in DOMAIN counters /\ x < f
      BY <1>2, <1>5
    <3>2. x \in Same
      BY <1>5, <2>1, <3>1
    <3> QED
      BY <1>2, <1>5, <3>1, <3>2
  <2> QED
    BY <1>5, <2>1 DEF Distinct
<1>7. ASSUME NEW k \in Distinct \ {f}, ContainsChain(counters[k], counters[f]) PROVE FALSE
  <2>1. ToSet(counters[k]) = ToSet(counters[f]) /\ k \in DOMAIN counters
    BY <1>4, <1>5, <1>7 DEF ContainsChain, Distinct
  <2>2. counters[k] # counters[f]
    <3>1. k < f \/ f < k
      BY <1>2, <1>5, <1>7, <2>1
    <3> QED
      BY <1>2, <1>5, <1>6, <1>7, <2>1, <3>1 DEF Distinct
  <2> QED
    BY <1>3, <1>4, <1>5, <2>1, <2>2 DEF InTwoOrders, ContainsChain
<1>8. f \in DOMAIN reported' /\ reported'[f] = counters[f]
  BY <1>6, <1>7 DEF OutputCounters
<1> QED
  BY <1>4, <1>5, <1>8 DEF ContainsChain

LEMMA OthersReportNothing ==
  ASSUME EachInOne, [AnalysesNext]_AnalysesVars, ~(OutputCounters /\ UNCHANGED vars) PROVE EachInOne'
<1>1. SUFFICES ASSUME stage' = "done" PROVE stage = "done" /\ UNCHANGED <<counters, reported>>
  BY DEF EachInOne, InTwoOrders
<1>2. CASE (Next /\ UNCHANGED <<shiftVars, counterVars>>) \/ UNCHANGED AnalysesVars
  BY <1>1, <1>2 DEF AnalysesVars, shiftVars, searchVars, counterVars, lengthenVars
<1>3. CASE ShiftNext /\ UNCHANGED <<vars, counterVars>>
  BY <1>1, <1>3 DEF ShiftNext, StartAt, TryNext, Backtrack, MarkContained, LinkPair, CreateRegisters,
                    searchVars, counterVars
<1>4. CASE CountersNext /\ UNCHANGED vars
  BY <1>1, <1>4 DEF CountersNext, CountFrom, Lengthen, Shorten, AddOverlaps, Merge, EndMerge,
                    shiftVars, searchVars
<1> QED
  BY <1>2, <1>3, <1>4 DEF AnalysesNext

(* For every netlist: of the lists that the search finds and the merges    *)
(* extend none is lost to elimDups or markContained (counter.cpp:1063,     *)
(* 1006), but inside lists of the same latches in two orders; and no latch *)
(* that a memory or register has taken is in a counter.                    *)
THEOREM CountersReported == Analyses => []EveryCounterReported
<1>1. CountersInit => EachInOne
  BY DEF CountersInit, ShiftInit, EachInOne
<1>2. ResultInv /\ EachInOne /\ [AnalysesNext]_AnalysesVars => EachInOne'
  BY OutputReportsEach, OthersReportNothing DEF ResultInv
<1>3. EachInOne /\ NothingTakenTwice => EveryCounterReported
  BY DEF EachInOne, NothingTakenTwice, EveryCounterReported
<1> QED
  BY <1>1, <1>2, <1>3, ResultInductive, CountersTakeFreeLatches, PTL DEF Analyses
=============================================================================
