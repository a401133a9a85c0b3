------------------------------ MODULE Counters ------------------------------
(***************************************************************************)
(* find_counters, after the shift registers: lists of latches in which     *)
(* each toggles when all before it are 1 (up) or 0 (down).  The search     *)
(* puts down every prefix.  Lists that overlap are merged, equal ones      *)
(* dropped, and those inside others left out of the modules.               *)
(***************************************************************************)
EXTENDS ShiftRegisters

CONSTANTS
  CounterDiff,     \* driving latches that neighbours must differ in less than, 16 in the code
  MaxCounterSize   \* options.caMaxCounterSize

ASSUME CounterAssumption ==
  /\ CounterDiff \in Nat /\ MaxCounterSize \in Nat
  /\ \A nl \in Netlists : nl.ignored \subseteq {n \in Node : nl.kind[n] = "latch"}

VARIABLES
  list,      \* counter_state_t::latches
  untried,   \* for each call of lengthen, the latches it has not tried, each with a way
  counters,  \* counterlist_t: the lists found
  next,      \* counter_t::next, 0 for -1
  at,        \* the counter that addOverlaps extends
  cursor,    \* the counter it has come to from there, 0 for -1
  reported   \* the lists that modules are made of, by place in the list of counters

lengthenVars == <<list, untried, counters>>
overlapVars == <<next, at, cursor>>
counterVars == <<lengthenVars, overlapVars, reported>>

(* should_ignore_latch                                                     *)
IgnoredLatch(l) == l \in netlist.ignored \/ l \in covered

(* What the latch after l must have in common with it.                     *)
Neighbours(l, m) == SameGroup(l, m) /\ CountDiff(l, m) < CounterDiff /\ ~IgnoredLatch(m)
AvailableFirst(l) == {m \in driven[l] \ {l} : Neighbours(l, m)}
(* The latches before a later one all drive it, and so does it itself.     *)
Available(s) ==
  {m \in driven[Last(s)] \ ToSet(s) :
     /\ \A l \in ToSet(s) : m \in driven[l]
     /\ m \in driven[m]
     /\ Neighbours(Last(s), m)}

(* lengthen tries both ways for the second latch and the way of the list   *)
(* for the others, unless the list is full.                                *)
Untried(s, S, ways) == IF Len(s) > MaxCounterSize THEN {} ELSE S \X ways
(* The latches come in their order, and up before down.                    *)
IsFirstTry(m, way, tries) ==
  /\ <<m, way>> \in tries /\ IsFirst(m, {t[1] : t \in tries})
  /\ way = "down" => <<m, "up">> \notin tries

(* Gates from which g is computed.                                         *)
Cone(g) ==
  LET fanin[n \in Node] == IF n \in Gate THEN {n} \cup UNION {fanin[i] : i \in In(n)} ELSE {}
  IN  fanin[g]

(* What the first latch loads when it is v, latch m loads when it is v and *)
(* all of the list are ready.                                              *)
LoadsLikeFirst(s, m, ready) ==
  \A on \in SUBSET Sources : \A v \in BOOLEAN :
    LET Put(latches, value) == IF value THEN latches ELSE {}
    IN  Value((on \ {s[1]}) \cup Put({s[1]}, v))[DInput(s[1])]
          = Value((on \ (ToSet(s) \cup {m})) \cup Put(ToSet(s), ready) \cup Put({m}, v))[DInput(m)]

(* While one that comes before is not ready, l and m load the same if they *)
(* are 1, whatever the latches before them are.  Latches before them are   *)
(* copied, and the D input; the gates between are not, and must agree.     *)
Waits(on, before, ready) == \E l \in before : (l \in on) # ready
LoadAlike(l, beforeL, m, beforeM, ready) ==
  \A a, b \in SUBSET Sources :
    /\ l \in a /\ Waits(a, beforeL, ready)
    /\ m \in b /\ Waits(b, beforeM, ready)
    /\ a \ (beforeL \cup {l}) = b \ (beforeL \cup {l})
    /\ \A g \in (Cone(DInput(l)) \cap Cone(DInput(m))) \ {DInput(l), DInput(m)} :
         Value(a)[g] = Value(b)[g]
    => Value(a)[DInput(l)] = Value(b)[DInput(m)]

(* is_counter of a list with latch m after it: the tests t0 to t3.         *)
IsCounter(s, m, way) ==
  LET ready == way = "up" IN
  /\ LoadsLikeFirst(s, m, ready)
  /\ LoadAlike(m, ToSet(s), m, ToSet(s), ready)
  /\ Len(s) >= 2 => LoadAlike(m, ToSet(s), Last(s), ToSet(Front(s)), ready)
-----------------------------------------------------------------------------
CountersInit ==
  /\ ShiftInit
  /\ list = <<>> /\ untried = <<>> /\ counters = <<>>
  /\ next = <<>> /\ at = 0 /\ cursor = 0
  /\ reported = <<>>

(* Only latches that drive themselves are counted from.                    *)
CountFrom(l) ==
  /\ stage = "count" /\ list = <<>>
  /\ l \in todo /\ \A m \in todo : l <= m
  /\ todo' = todo \ {l}
  /\ IF l \notin driven[l] \/ IgnoredLatch(l) THEN UNCHANGED <<list, untried>>
     ELSE /\ list' = <<l>>
          /\ untried' = <<Untried(<<l>>, AvailableFirst(l), {"up", "down"})>>
  /\ UNCHANGED <<stage, path, rest, chains, forestVars, resultVars, counters, overlapVars, reported>>

Lengthen ==
  /\ stage = "count" /\ list # <<>>
  /\ \E m \in Latch, way \in {"up", "down"} :
       LET left_over == [untried EXCEPT ![Len(untried)] = @ \ {<<m, way>>}] IN
       /\ IsFirstTry(m, way, Last(untried))
       /\ IF IsCounter(list, m, way)
          THEN /\ list' = Append(list, m)
               /\ untried' = Append(left_over, Untried(list', Available(list'), {way}))
               /\ counters' = Append(counters, list')
          ELSE untried' = left_over /\ UNCHANGED <<list, counters>>
  /\ UNCHANGED <<shiftVars, overlapVars, reported>>

Shorten ==
  /\ stage = "count" /\ list # <<>> /\ Last(untried) = {}
  /\ list' = Front(list) /\ untried' = Front(untried)
  /\ UNCHANGED <<shiftVars, counters, overlapVars, reported>>

(* The end of one is the other without its last latch.                     *)
Overlaps(c, d) ==
  /\ Len(d) <= Len(c)
  /\ \A k \in 1..(Len(d) - 1) : d[k] = c[k + 1 + Len(c) - Len(d)]
NextOf(i) ==
  LET overlapping == {j \in DOMAIN counters \ {i} : Overlaps(counters[i], counters[j])}
  IN  IF overlapping = {} THEN 0 ELSE Max(overlapping)

AddOverlaps ==
  /\ stage = "count" /\ list = <<>> /\ todo = {}
  /\ stage' = "merge"
  /\ next' = [i \in DOMAIN counters |-> NextOf(i)]
  /\ at' = 1
  /\ cursor' = IF counters = <<>> THEN 0 ELSE next'[1]
  /\ UNCHANGED <<todo, path, rest, chains, forestVars, resultVars, lengthenVars, reported>>

(* Mutant: a latch that is in the list is put there again.                 *)
MergeUnseen ==
  /\ stage = "merge" /\ at <= Len(counters) /\ cursor # 0
  /\ counters' = [counters EXCEPT ![at] = Append(@, Last(counters[cursor]))]
  /\ cursor' = next[cursor]
  /\ UNCHANGED <<shiftVars, list, untried, next, at, reported>>
(* counter_t::merge                                                        *)
Merge ==
  /\ stage = "merge" /\ at <= Len(counters) /\ cursor # 0
  /\ LET l == Last(counters[cursor])
     IN  counters' = IF l \in ToSet(counters[at]) THEN counters
                     ELSE [counters EXCEPT ![at] = Append(@, l)]
  /\ cursor' = next[cursor]
  /\ UNCHANGED <<shiftVars, list, untried, next, at, reported>>

EndMerge ==
  /\ stage = "merge" /\ at <= Len(counters) /\ cursor = 0
  /\ at' = at + 1
  /\ cursor' = IF at = Len(counters) THEN 0 ELSE next[at + 1]
  /\ UNCHANGED <<shiftVars, lengthenVars, next, reported>>

(* Mutant: equal lists are left in.                                        *)
DistinctAll == DOMAIN counters
(* elimDups: of equal lists the first stays.                               *)
Distinct == {i \in DOMAIN counters : \A j \in 1..(i - 1) : counters[j] # counters[i]}

OutputCounters ==
  /\ stage = "merge" /\ at > Len(counters)
  /\ stage' = "done"
  /\ reported' = [i \in {k \in Distinct : \A j \in Distinct \ {k} : ~ContainsChain(counters[j], counters[k])}
                    |-> counters[i]]
  /\ covered' = covered \cup UNION {ToSet(reported'[k]) : k \in DOMAIN reported'}
  /\ UNCHANGED <<todo, path, rest, chains, forestVars, registers, lengthenVars, overlapVars>>

CountersNext ==
  \/ \E l \in Node : CountFrom(l)
  \/ Lengthen \/ Shorten \/ AddOverlaps \/ Merge \/ EndMerge \/ OutputCounters

AnalysesNext ==
  \/ Next /\ UNCHANGED <<shiftVars, counterVars>>
  \/ ShiftNext /\ UNCHANGED <<vars, counterVars>>
  \/ CountersNext /\ UNCHANGED vars
AnalysesVars == <<vars, shiftVars, counterVars>>
Analyses == CountersInit /\ [][AnalysesNext]_AnalysesVars
FairAnalyses == Analyses /\ WF_AnalysesVars(AnalysesNext)
-----------------------------------------------------------------------------
(* Chains and lists are of different latches, and so are the modules.      *)
AnalysesTypeOK ==
  LET Lists(s) == \A k \in DOMAIN s : s[k] \in Seq(Latch) /\ IsInjective(s[k]) IN
  /\ TypeOK
  /\ stage \in {"explore", "link", "count", "merge", "done"}
  /\ todo \subseteq Latch /\ covered \subseteq Latch
  /\ path \in Seq(Latch) /\ list \in Seq(Latch)
  /\ Len(rest) = Len(path) /\ Len(untried) = Len(list)
  /\ Lists(chains) /\ Lists(counters) /\ Lists(reported)
  /\ contained \subseteq DOMAIN chains
  /\ stage \notin {"explore"} => root \in [DOMAIN chains -> DOMAIN chains]
  /\ rank \in [DOMAIN root -> Nat]
  /\ pair \in (1..(Len(chains) + 1)) \X (1..(Len(chains) + 1))
  /\ registers \in [DOMAIN registers -> SUBSET Latch] /\ DOMAIN registers \subseteq DOMAIN chains
  /\ next \in [DOMAIN next -> 0..Len(counters)] /\ cursor \in 0..Len(counters)

(* What a latch loads depends on every latch of its clock that it reads.   *)
EveryReadCounts ==
  \A l, m \in Latch :
    /\ l # m /\ netlist.clk[l] = netlist.clk[m]
    /\ \E g \in Cone(DInput(m)) : l \in In(g)
    => \E on \in SUBSET Sources : Value(on \cup {l})[DInput(m)] # Value(on \ {l})[DInput(m)]

(* A list that is merged, is equal to others or inside them is in a module *)
(* as a whole, but where a list around it is there in two orders: each is  *)
(* then left out for the other's sake.  What is reported has no latch of   *)
(* the memories and shift registers found before.                          *)
InTwoOrders(i) ==
  \E j, k \in DOMAIN counters :
    /\ counters[j] # counters[k]
    /\ ToSet(counters[j]) = ToSet(counters[k]) /\ ContainsChain(counters[j], counters[i])
EveryCounterReported ==
  /\ stage = "done" =>
       \A i \in DOMAIN counters :
         InTwoOrders(i) \/ \E k \in DOMAIN reported : ContainsChain(reported[k], counters[i])
  /\ \A k \in DOMAIN reported :
       ToSet(reported[k]) \cap (netlist.ram \cup netlist.ignored \cup UNION {registers[i] : i \in DOMAIN registers}) = {}

(* The next counters lead from the cursor back to it.                      *)
Circles ==
  /\ stage = "merge" /\ cursor # 0
  /\ LET ahead[k \in 0..Len(counters)] ==
            IF k = 0 THEN cursor ELSE IF ahead[k - 1] = 0 THEN 0 ELSE next[ahead[k - 1]]
     IN  ahead[Len(counters)] # 0
(* All searches and merges come to an end, but for counters that overlap   *)
(* in a circle: addOverlaps then goes round for ever.  For that, latches   *)
(* must be read in vain.                                                   *)
AnalysesEnd == <>(stage = "done" \/ (Circles /\ ~EveryReadCounts))
=============================================================================
