---------------------------- MODULE MCResidents ----------------------------
(* Small instances of Residents for TLC. *)
EXTENDS Residents, TLC

MCUnits == {"n1", "n2"}
MCSites == {"s1", "s2"}
MCSiteOf == [n \in MCUnits |-> IF n = "n1" THEN "s1" ELSE "s2"]
=============================================================================
