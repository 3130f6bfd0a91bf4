------------------------------ MODULE MCPondFs ------------------------------
(* PondFs for TLC. *)
EXTENDS PondFs, TLC
CONSTANTS n1, n2, n3, d1, d2

MCName1 == {n1}
MCName3 == {n1, n2, n3}
MCDatum1 == {d1}
MCDatum2 == {d1, d2}
MCSymmetry == Permutations(Name) \cup Permutations(Datum)

=============================================================================
