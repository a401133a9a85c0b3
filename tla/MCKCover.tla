------------------------------ MODULE MCKCover ------------------------------
(* Small netlists for KCover: three sources, a gate that reads one or two  *)
(* of them (which ones is no matter), a gate that reads any one or two of  *)
(* the four, and a gate that reads that gate and one other.                *)
EXTENDS KCover

Pins(n) == {<<a>> : a \in 1..(n - 1)} \cup {<<a, b>> : a, b \in 1..(n - 1)}
Ordered(pins) == Len(pins) = 2 => pins[1] < pins[2]
SmallNetlists ==
  {<<<<>>, <<>>, <<>>, p, q, <<a, 5>>>> :
     p \in {<<1>>, <<1, 2>>}, q \in {x \in Pins(5) : Ordered(x)}, a \in 1..4}
=============================================================================
