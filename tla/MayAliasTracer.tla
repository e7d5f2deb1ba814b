--------------------------- MODULE MayAliasTracer ---------------------------
(***************************************************************************)
(* easy::MayAliasTracer: which functions and variables the argument of a   *)
(* call may point to, or the memory that it points to may hold.            *)
(*                                                                         *)
(* ir maps each value of a unit to its kind, the values that flow into it  *)
(* (from: operands of a phi, sources of a cast or copy, the stored value,  *)
(* elements of an initializer) and all that it uses.                       *)
(***************************************************************************)
EXTENDS Integers, FiniteSets

Users(ir, v) == {user \in DOMAIN ir : v \in ir[user].uses}

\* mayAliasWithStoredValues(): what may be stored through v.  The users of a global
\* variable are not followed.
MayAliasWithStoredValues(ir, v) ==
  CASE ir[v].kind \in {"memcpy", "store"} -> {"loaded"} \X ir[v].from
    [] ir[v].kind \in {"alloca", "gep", "bitcast"} -> {"stored"} \X Users(ir, v)
    [] OTHER -> {}

\* What hands on the values that flow into it.  A load and a structure are not among them.
Passes == {"phi", "select", "gep", "bitcast", "constexpr", "array", "variable"}

\* mayAliasWithLoadedValues(): what v may be.
MayAliasWithLoadedValues(ir, v) ==
  (IF ir[v].kind \in Passes THEN {"loaded"} \X ir[v].from ELSE {})
    \cup (IF ir[v].kind \in {"alloca", "variable"} THEN {<<"stored", v>>} ELSE {})

\* One step from each member of Visited, a set of pairs of "loaded" or "stored" and a value.
Follow(ir, Visited) ==
  UNION {IF p[1] = "loaded" THEN MayAliasWithLoadedValues(ir, p[2])
                            ELSE MayAliasWithStoredValues(ir, p[2]) : p \in Visited}

\* The values that the tracer visits from v.
Traced(ir, v) ==
  LET visited[n \in 0..(2 * Cardinality(DOMAIN ir))] ==
                            IF n = 0 THEN {<<"loaded", v>>}
                            ELSE LET before == visited[n - 1] IN before \cup Follow(ir, before)
  IN  {p[2] : p \in visited[2 * Cardinality(DOMAIN ir)]}
=============================================================================
