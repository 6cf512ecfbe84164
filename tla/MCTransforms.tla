---------------------------- MODULE MCTransforms ----------------------------
(***************************************************************************)
(* Three files: a unit with a base function and a caller of it, a header   *)
(* under two configurations that may define the base and an override, and  *)
(* a unit with a definition of the override.                               *)
(***************************************************************************)
EXTENDS Transforms

Says(defines, called, overridden) ==
    [defines |-> defines, calls |-> called, overrides |-> overridden]

MCContents(f) ==
    CASE f = "f1" -> {Says({"base", "caller"}, {<<"caller", "base">>}, {})}
      [] f = "f2" -> {Says({"base", "over"}, {}, {<<"over", "base">>}), Says({}, {}, {})}
      [] f = "f3" -> {Says({"over"}, {}, {<<"over", "base">>})}

MCConfigs(f) == IF f = "f2" THEN {"k1", "k2"} ELSE {"k1"}
=============================================================================
