--------------------------- MODULE MCIndexUpdates ---------------------------
(* An instance of IndexUpdates for TLC: two units share a header, which opens *)
(* a second owned header and one outside every component, which may open the  *)
(* second one too; the first unit stops including it in one of its contents,  *)
(* the second, which forces the second header in, cannot be parsed in one of  *)
(* its own.                                                                   *)
EXTENDS IndexUpdates

CONSTANTS u1, u2, h, g, x

UnitOrder == <<u1, u2>>
IncludeTable ==
  [f \in Files |-> [c \in Contents |->
     CASE f = u1 /\ c = "c1" -> {h}
       [] f = u2 -> {h}
       [] f = h /\ c = "c1" -> {g, x}
       [] f = h /\ c = "c2" -> {x}
       [] f = x /\ c = "c2" -> {g}
       [] OTHER -> {}]]
ForcedTable == [u \in Units |-> IF u = u2 THEN {g} ELSE {}]
BrokenTable == {<<u2, "c2">>}
=============================================================================
