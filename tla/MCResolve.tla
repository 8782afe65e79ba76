----------------------------- MODULE MCResolve -----------------------------
(* Four raw products of three stores: DINA sells two of them, so that its  *)
(* count can drop, and merges, splits and ties of votes all occur.         *)
EXTENDS Resolve

MCStoreOf == [r \in Raws |-> CASE r \in {"a", "b"} -> "DINA"
                               [] r = "c" -> "DANA"
                               [] r = "d" -> "FIX_PRICE"]

(* A snapshot in which two raw products have two mappings each.            *)
MCLegacy == {[r \in Raws |-> CASE r = "a" -> {1, 2} [] r = "b" -> {2} [] r = "c" -> {1, 3} [] r = "d" -> {3}]}

(* Every shape of grouping, with and without b, some in both orders, and a *)
(* bundle in which a store is missing.                                     *)
MCBundles ==
  { <<{"a"}, {"b"}, {"c"}, {"d"}>>,
    <<{"a", "b"}, {"c"}, {"d"}>>, <<{"d"}, {"c", "a"}, {"b"}>>, <<{"b"}, {"a"}, {"c", "d"}>>,
    <<{"a", "b"}, {"c", "d"}>>, <<{"c", "d"}, {"a", "b"}>>, <<{"a", "c"}, {"b", "d"}>>,
    <<{"a", "d"}, {"c", "b"}>>,
    <<{"a", "b", "c"}, {"d"}>>, <<{"a"}, {"b", "c", "d"}>>, <<{"b"}, {"a", "c", "d"}>>,
    <<{"a", "b", "c", "d"}>>,
    <<{"a"}, {"c"}, {"d"}>>, <<{"a", "c"}, {"d"}>>, <<{"c", "d"}, {"a"}>>, <<{"a", "c", "d"}>>,
    <<{"a"}, {"b"}, {"c"}>> }
=============================================================================
