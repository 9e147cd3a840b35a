----------------------------- MODULE MCCallWave ------------------------------
(* Small instances of CallWave for TLC. *)
EXTENDS CallWave, TLC

UnitSymmetry == Permutations(Units)
=============================================================================
