---------------------------- MODULE MCRoundSteps -----------------------------
(* A small instance of RoundSteps for TLC. *)
EXTENDS RoundSteps

(***************************************************************************)
(* When the scientist acts matters only to the steps that read what he     *)
(* changes: a note given earlier commutes with everything up to the claim, *)
(* an idea set aside between two reads of the pool with everything up to   *)
(* the next.  The instance lets him act at some of these moments only.     *)
(***************************************************************************)
WhereNotesAreRead == {"boundary", "save"}
WhereIdeasAreRead == {"judge"}

\* Bound: the scientist acts once, with a note or on an idea.
ScientistActsOnce == given' = {} \/ archives' = 0
=============================================================================
