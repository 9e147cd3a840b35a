----------------------------- MODULE Supervisor -----------------------------
(***************************************************************************)
(* One supervisor process around one run of the engine: the heartbeat that *)
(* is a dead man's switch, the interrupt that is a stop request, and the   *)
(* exit code and the row that say how it ended.  Three tasks share one     *)
(* event loop, so a task runs from one await to the next undisturbed; the  *)
(* database comes and goes between any two.  RunControl has the API's side *)
(* and many processes; here there is one, seen from the inside.            *)
(***************************************************************************)
EXTENDS Integers, Sequences

CONSTANTS
  MaxOutages,     \* bound: times the database goes away
  MaxAsks,        \* bound: controls the API flags
  EngineMayFail   \* the engine may raise by itself

ASSUME SupervisorAssumption == MaxOutages \in Nat /\ MaxAsks \in Nat /\ EngineMayFail \in BOOLEAN

MaxHeartbeatFailures == 2
ExitOk == 0
ExitFailed == 1
ExitHalted == 2
Running == 9            \* the process has not exited

VARIABLES
  db,          \* the database answers
  life,        \* lifecycle of the row
  flag,        \* control_requested
  rowDeleted,  \* deleted_at is set
  main,        \* _run and supervise: what they wait for or do next
  engine,      \* the engine task
  beat,        \* the heartbeat task and its count of failures
  signalled,   \* the stop event is set
  exit,        \* the exit code
  recorded,    \* times the failure was written to the row
  last2,       \* whether the last two heartbeats failed, oldest first
  outages, asks

supVars == <<db, life, flag, rowDeleted, main, engine, beat, signalled, exit, recorded, last2, outages, asks>>
world   == <<db, rowDeleted, outages, asks, signalled>>

Ended == {"completed", "stopped", "failed", "paused"}
Driven == {"queued", "running", "finishing", "stopping"}

SupervisorTypeOK ==
  /\ db \in BOOLEAN /\ rowDeleted \in BOOLEAN /\ signalled \in BOOLEAN
  /\ life \in Ended \cup Driven /\ flag \in {"none", "stop", "pause"}
  /\ main \in {"boot", "watch", "awaiting", "failing", "exited"}
  /\ engine \in {"unborn", "load", "work", "closing", "returned", "raised", "halted", "cancelled"}
  /\ beat \in [pc : {"unborn", "sleep", "gone", "lost", "cancelled"}, failures : 0 .. MaxHeartbeatFailures]
  /\ exit \in {Running, ExitOk, ExitFailed, ExitHalted}
  /\ recorded \in 0 .. 2
  /\ outages \in 0 .. MaxOutages /\ asks \in 0 .. MaxAsks

SupervisorInit ==
  /\ db = TRUE /\ life = "queued" /\ flag = "none" /\ rowDeleted = FALSE
  /\ main = "boot" /\ engine = "unborn" /\ beat = [pc |-> "unborn", failures |-> 0]
  /\ signalled = FALSE /\ exit = Running /\ recorded = 0 /\ last2 = <<FALSE, FALSE>>
  /\ outages = 0 /\ asks = 0

----------------------------------------------------------------------------
(* supervise: assembly *)

\* A boot that ends the process: nothing was started.
BootHalts ==
  /\ main = "boot" /\ db /\ rowDeleted
  /\ main' = "exited" /\ exit' = ExitHalted
  /\ UNCHANGED <<world, life, flag, engine, beat, recorded, last2>>

BootFails ==
  /\ main = "boot" /\ (~db \/ EngineMayFail)
  /\ main' = "failing"
  /\ UNCHANGED <<world, life, flag, engine, beat, exit, recorded, last2>>

Assemble ==
  /\ main = "boot" /\ db /\ ~rowDeleted
  /\ main' = "watch" /\ engine' = "load" /\ beat' = [beat EXCEPT !.pc = "sleep"]
  /\ UNCHANGED <<world, life, flag, exit, recorded, last2>>

----------------------------------------------------------------------------
(* The engine, as far as the supervisor sees it *)

EngineRuns == main \in {"watch", "awaiting"}

\* Load, the stale control cleared, the lifecycle to running: no await in between.
EngineStarts ==
  /\ EngineRuns /\ engine = "load" /\ db
  /\ flag' = "none" /\ life' = "running" /\ engine' = "work"
  /\ UNCHANGED <<world, main, beat, exit, recorded, last2>>

\* A boundary: a deleted row halts, a control is obeyed, the last round is over.
EngineHalts ==
  /\ EngineRuns /\ engine = "work" /\ db /\ rowDeleted
  /\ engine' = "halted"
  /\ UNCHANGED <<world, life, flag, main, beat, exit, recorded, last2>>

EnginePauses ==
  /\ EngineRuns /\ engine = "work" /\ db /\ ~rowDeleted /\ flag = "pause"
  /\ flag' = "none" /\ life' = "paused" /\ engine' = "returned"
  /\ UNCHANGED <<world, main, beat, exit, recorded, last2>>

\* The report is a call of the run; the flag is dropped after it.
EngineEnds ==
  /\ EngineRuns /\ engine = "work" /\ db /\ ~rowDeleted /\ flag # "pause"
  /\ life' = IF flag = "stop" THEN "stopping" ELSE "finishing"
  /\ engine' = "closing"
  /\ UNCHANGED <<world, flag, main, beat, exit, recorded, last2>>

EndingOf(l) == IF l = "stopping" THEN "stopped" ELSE "completed"

EngineReturns ==
  /\ EngineRuns /\ engine = "closing" /\ db
  /\ flag' = "none" /\ life' = EndingOf(life)
  /\ engine' = "returned"
  /\ UNCHANGED <<world, main, beat, exit, recorded, last2>>

(* Anything else: it records what it can and raises.  The write that fails may
   be the one after the ending was committed. *)
EngineRaises ==
  /\ EngineRuns /\ engine \in {"load", "work", "closing"} /\ (~db \/ EngineMayFail)
  /\ engine' = "raised"
  /\ IF db /\ engine # "load"
     THEN life' = "failed" /\ recorded' = recorded + 1
     ELSE UNCHANGED recorded /\ life' \in {life} \cup (IF engine = "closing" THEN {EndingOf(life)} ELSE {})
  /\ UNCHANGED <<world, flag, main, beat, exit, last2>>

----------------------------------------------------------------------------
(* _heartbeat *)

BeatForgives == 0

RowGone == rowDeleted

HeartbeatLands ==
  /\ EngineRuns /\ beat.pc = "sleep" /\ db
  /\ beat' = IF RowGone THEN [beat EXCEPT !.pc = "gone"] ELSE [beat EXCEPT !.failures = BeatForgives]
  /\ last2' = <<last2[2], FALSE>>
  /\ UNCHANGED <<world, life, flag, main, engine, exit, recorded>>

HeartbeatFails ==
  /\ EngineRuns /\ beat.pc = "sleep" /\ ~db
  /\ beat' = [beat EXCEPT !.failures = @ + 1,
                          !.pc = IF beat.failures + 1 >= MaxHeartbeatFailures THEN "lost" ELSE @]
  /\ last2' = <<last2[2], TRUE>>
  /\ UNCHANGED <<world, life, flag, main, engine, exit, recorded>>

----------------------------------------------------------------------------
(* The wait: first the engine, then the heartbeat; both tasks are cancelled *)

EngineDone == engine \in {"returned", "raised", "halted"}
BeatDone == beat.pc \in {"gone", "lost"}

\* Both are cancelled on the way out, and what is still running ends there.
Cancelled ==
  /\ engine' = IF engine \in {"load", "work", "closing"} THEN "cancelled" ELSE engine
  /\ beat' = IF beat.pc = "sleep" THEN [beat EXCEPT !.pc = "cancelled"] ELSE beat

(* Mutant: the heartbeat is asked first. *)
VerdictBeatFirst ==
  IF BeatDone THEN "halted" ELSE engine
Verdict ==
  IF EngineDone THEN engine ELSE "halted"

ExitOf(v) == IF v = "returned" THEN ExitOk ELSE ExitHalted

Concludes ==
  /\ EngineRuns /\ (EngineDone \/ BeatDone)
  /\ Cancelled
  /\ IF Verdict = "raised"
     THEN main' = "failing" /\ UNCHANGED exit
     ELSE main' = "exited" /\ exit' = ExitOf(Verdict)
  /\ UNCHANGED <<world, life, flag, recorded, last2>>

\* _run: an interrupt asks for a stop through the row, like anybody else.
Interrupted ==
  /\ main = "watch" /\ signalled /\ engine # "load"
  /\ IF db THEN flag' = "stop" /\ main' = "awaiting" ELSE main' = "failing" /\ UNCHANGED flag
  /\ UNCHANGED <<world, life, engine, beat, exit, recorded, last2>>

(* record_failure: read, and written unless the engine got there. *)
FailureUnwritten == db /\ life # "failed"

RecordFailure ==
  /\ main = "failing"
  /\ IF FailureUnwritten
     THEN life' = "failed" /\ recorded' = recorded + 1
     ELSE UNCHANGED <<life, recorded>>
  /\ main' = "exited" /\ exit' = ExitFailed
  /\ Cancelled
  /\ UNCHANGED <<world, flag, last2>>

----------------------------------------------------------------------------
(* The world *)

Up == main # "exited"

DbGoes == /\ Up /\ db /\ outages < MaxOutages /\ db' = FALSE /\ outages' = outages + 1
          /\ UNCHANGED <<life, flag, rowDeleted, main, engine, beat, signalled, exit, recorded, last2, asks>>
DbReturns == /\ Up /\ ~db /\ db' = TRUE
             /\ UNCHANGED <<life, flag, rowDeleted, main, engine, beat, signalled, exit, recorded, last2, outages, asks>>
SoftDelete == /\ Up /\ db /\ ~rowDeleted /\ rowDeleted' = TRUE
              /\ UNCHANGED <<db, life, flag, main, engine, beat, signalled, exit, recorded, last2, outages, asks>>
Signal == /\ Up /\ ~signalled /\ signalled' = TRUE
          /\ UNCHANGED <<db, life, flag, rowDeleted, main, engine, beat, exit, recorded, last2, outages, asks>>
ApiFlags == /\ Up /\ db /\ life = "running" /\ asks < MaxAsks /\ asks' = asks + 1
            /\ flag' \in {"stop", "pause"}
            /\ UNCHANGED <<db, life, rowDeleted, main, engine, beat, signalled, exit, recorded, last2, outages>>

EngineStep == EngineStarts \/ EngineHalts \/ EnginePauses \/ EngineEnds \/ EngineReturns \/ EngineRaises
BeatStep == HeartbeatLands \/ HeartbeatFails
MainStep == BootHalts \/ BootFails \/ Assemble \/ Concludes \/ Interrupted \/ RecordFailure

SupervisorNext == EngineStep \/ BeatStep \/ MainStep
                    \/ DbGoes \/ DbReturns \/ SoftDelete \/ Signal \/ ApiFlags

(* The event loop serves its tasks; a round may last for ever, so the engine
   is owed nothing. *)
SupervisorSpec == SupervisorInit /\ [][SupervisorNext]_supVars
                    /\ WF_supVars(MainStep) /\ WF_supVars(BeatStep)

----------------------------------------------------------------------------
(* Properties *)

(* The exit code and the row tell the same story: 0 is an ending the engine
   wrote, 1 a failure that is on the row unless the database was away when it
   was to be written, 2 neither. *)
ExitTellsTheRow ==
  /\ exit = ExitOk => engine = "returned" /\ life \in Ended \ {"failed"} /\ recorded = 0
  /\ exit = ExitFailed /\ db => life = "failed"
  /\ exit = ExitHalted => recorded = 0 /\ engine \in {"unborn", "halted", "cancelled"}
  /\ main = "exited" => engine \notin {"load", "work", "closing"} /\ beat.pc # "sleep"

(* A failure is put on the row once, though two layers try. *)
FailureRecordedOnce == recorded <= 1 /\ (recorded = 1 => life = "failed")

(* One failed write stops nobody: the engine is cancelled for a deleted row, for
   two failures in a row, or because an interrupt could not be passed on. *)
OneBlipIsForgiven ==
  engine = "cancelled" => rowDeleted \/ last2 = <<TRUE, TRUE>> \/ (signalled /\ exit = ExitFailed)

(* The kill switch: a run deleted, or a database that stays away, stops the
   process, whatever its engine is doing. *)
KillSwitchWorks == (rowDeleted \/ ~db) ~> (main = "exited" \/ (~rowDeleted /\ db))

(* What the process says of the run, and what stops it, is what happened. *)
SupervisorSafe == SupervisorTypeOK /\ ExitTellsTheRow /\ FailureRecordedOnce /\ OneBlipIsForgiven
=============================================================================
