----------------------------- MODULE CallCeiling -----------------------------
(***************************************************************************)
(* What a run promises about its call ceiling, apart from how the engine   *)
(* keeps the promise: while the run is working it never books, nor commits *)
(* itself to, a call that would eat the calls held back for the report;    *)
(* only the report may use those; and nothing ever passes the ceiling.     *)
(*                                                                         *)
(* CallWave implements this specification (see CallWaveProofs).            *)
(***************************************************************************)
EXTENDS Integers

CONSTANT HeldBack        \* calls kept for the report

VARIABLES
  ceiling,               \* calls the run may make in all
  booked,                \* calls in its ledger
  promised,              \* calls admitted and not yet booked
  mode                   \* "work", "report" or "closed"

vars == <<ceiling, booked, promised, mode>>

Init ==
  /\ ceiling \in Nat \ {0}
  /\ booked = 0
  /\ promised = 0
  /\ mode = "work"

(* Committing to more calls while working leaves the report's untouched. *)
Promise ==
  /\ mode = "work"
  /\ promised' \in Nat /\ promised' > promised
  /\ booked + promised' + HeldBack <= ceiling
  /\ UNCHANGED <<ceiling, booked, mode>>

(* The report may use everything that is left. *)
PromiseReport ==
  /\ mode = "report"
  /\ promised' \in Nat /\ promised' > promised
  /\ booked + promised' <= ceiling
  /\ UNCHANGED <<ceiling, booked, mode>>

(* A call is booked only against an earlier promise. *)
Book ==
  /\ promised > 0
  /\ booked' = booked + 1
  /\ promised' = promised - 1
  /\ UNCHANGED <<ceiling, mode>>

(* A promise can be given back: a refused spawn, or a dead supervisor. *)
GiveBack ==
  /\ promised' \in 0 .. promised
  /\ UNCHANGED <<ceiling, booked, mode>>

(* Only a run with no promise outstanding turns to its report, and it may
   promise the report's first call in the same breath. *)
TurnToReport ==
  /\ mode = "work" /\ promised = 0
  /\ mode' = "report"
  /\ promised' \in 0 .. 1
  /\ booked + promised' <= ceiling
  /\ UNCHANGED <<ceiling, booked>>

Close ==
  /\ mode \in {"work", "report"} /\ promised = 0
  /\ mode' = "closed"
  /\ UNCHANGED <<ceiling, booked, promised>>

(* A closed run may be continued if its ceiling leaves room for one call of
   work on top of the calls held back. *)
Continue ==
  /\ mode = "closed"
  /\ ceiling' \in Nat /\ ceiling' >= ceiling
  /\ booked + HeldBack + 1 <= ceiling'
  /\ mode' = "work"
  /\ UNCHANGED <<booked, promised>>

(* A supervisor that died while reporting leaves the run to a new one, which
   takes it up as work again. *)
TakeUpAgain ==
  /\ mode = "report"
  /\ mode' = "work"
  /\ promised' = 0
  /\ UNCHANGED <<ceiling, booked>>

Next ==
  \/ Promise \/ PromiseReport \/ Book \/ GiveBack
  \/ TurnToReport \/ Close \/ Continue \/ TakeUpAgain

Spec == Init /\ [][Next]_vars

(* The ceiling holds, committed calls included. *)
WithinCeiling == booked + promised <= ceiling
=============================================================================
