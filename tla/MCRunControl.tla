---------------------------- MODULE MCRunControl -----------------------------
(* Two runs of one harness, and one or two requests at once. *)
EXTENDS RunControl, TLC

CONSTANTS r1, r2, q1, q2

(* Nothing tells two runs, or two requests, apart. *)
Alike == Permutations(Runs) \cup Permutations(Slots)
=============================================================================
