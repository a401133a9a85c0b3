--------------------------- MODULE MCFunctionTable ---------------------------
(* Functions of three inputs for FunctionTable: the 2:1 mux, a & ~b and a  *)
(* alone under every order of the inputs, and the majority.                *)
EXTENDS FunctionTable

Mux(u) == IF u[2] THEN u[0] ELSE u[1]
AndNot(u) == u[0] /\ ~u[1]
Alone(u) == u[0]
Majority(u) == Cardinality({i \in Pos : u[i]}) >= 2
TableOf(Fn(_)) == {u \in Assignment : Fn(u)}
Orbit(f) == {Permuted(f, p) : p \in Perm}
SomeFunctions ==
  Orbit(TableOf(Mux)) \cup Orbit(TableOf(AndNot)) \cup Orbit(TableOf(Alone))
    \cup {TableOf(Majority)}
=============================================================================
