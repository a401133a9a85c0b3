----------------------------- MODULE WordClosure -----------------------------
(* What the growth of words promises, whatever order it works in: a word   *)
(* is entered only if a rule gives it from one that is there, only if the  *)
(* table has none like it, and nothing ends while a rule gives more.       *)
CONSTANTS
  Gives(_, _),  \* Gives(c, v): the words the rules read off v in the setting c
  Alike(_, _)   \* whether the table takes two words for the same

VARIABLES
  setting,      \* what the rules depend on; does not change
  given,        \* words one starts from that are not in the table
  old,          \* words of the table that nothing is read off
  table,        \* the words known
  ended

cvars == <<setting, given, old, table, ended>>

Known(v) == \E u \in table : Alike(u, v)
Missing == {v \in UNION {Gives(setting, u) : u \in (table \ old) \cup given} : ~Known(v)}

Init == ~ended

Learn ==
  /\ ~ended
  /\ \E v \in Missing : table' = table \cup {v}
  /\ UNCHANGED <<setting, given, old, ended>>

End ==
  /\ ~ended /\ Missing = {}
  /\ ended' = TRUE
  /\ UNCHANGED <<setting, given, old, table>>

Next == Learn \/ End
Spec == Init /\ [][Next]_cvars
=============================================================================
