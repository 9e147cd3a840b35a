----------------------------- MODULE MCResearch ------------------------------
(* Small instances of Research for TLC. *)
EXTENDS Research

\* The scientist acts where the controller reads what he changes: the queue at
\* a boundary, the pool where a step reads it.
ScientistActsWhereRead ==
  /\ queue # queue' /\ queue' # {} => pc = "boundary"
  /\ archives # archives' => pc \in {"decide", "plan", "integrate", "report"}
=============================================================================
