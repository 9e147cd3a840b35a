------------------------------ MODULE CallWave -------------------------------
(***************************************************************************)
(* One run's model calls, as its supervisor makes and pays for them:       *)
(* Orchestrator._run_calls with the budget gates around it (_affordable,   *)
(* _may_retry, RunStore.check_budget and spend, the spawn gate), the       *)
(* rate-limit gate, the report's reserve, a supervisor that may die, and   *)
(* the continue action that raises the ceiling of an ended run.            *)
(*                                                                         *)
(* Between two awaits an asyncio task runs alone, so each action is one    *)
(* such stretch of a worker or of the drain loop.  Messages that only feed *)
(* the event log ("started", "repair") are left out.                       *)
(***************************************************************************)
EXTENDS Integers, FiniteSets

CONSTANTS
  Units,        \* the units of work a step may put into one wave
  Parallel,     \* PARALLEL_CALLS
  Costs,        \* what one call may cost, in whole dollars
  BudgetUsd,    \* the dollar ceiling; 0 means none
  MaxBudget,    \* bound: the largest call ceiling explored
  MaxSteps,     \* bound: steps with a wave, per supervisor
  MaxCrashes,   \* bound: supervisors that die
  MaxContinues  \* bound: times the scientist continues the run

ASSUME CallWaveAssumption ==
  /\ IsFiniteSet(Units)
  /\ Parallel \in Nat \ {0}
  /\ Costs \subseteq Nat
  /\ BudgetUsd \in Nat
  /\ MaxBudget \in Nat \ {0}
  /\ MaxSteps \in Nat
  /\ MaxCrashes \in Nat
  /\ MaxContinues \in Nat

Reserve == 2            \* OVERVIEW_RESERVED_CALLS
MaxCallAttempts == 2    \* MAX_CALL_ATTEMPTS

VARIABLES
  \* the run's row in the store
  calls_used, spend_usd, budget_calls,
  report,       \* "none", "fresh", or "stale" after a continue
  \* the supervisor
  phase,        \* "rounds", "report", "ended", or "down" with no supervisor
  steps,        \* steps with a wave it may still start
  exhausted,    \* _budget_exhausted
  ready,        \* the rate-limit gate, _ready
  \* the wave it has open
  live,         \* units whose "done" the drain loop has not seen: `pending`
  pc,           \* where each worker is
  attempt,      \* which attempt it is on
  inbox,        \* the queue the workers report over
  unsettled,    \* unsettled_calls
  overview_ok,  \* the last report's call came back with a payload
  \* history
  open,         \* the attempts `unsettled` stands for
  flying,       \* those the provider has been asked to run
  paid,         \* calls the provider was ever asked to run
  lost,         \* of those, the ones a dead supervisor never recorded
  reporting,    \* calls booked by reports since the run started or was continued
  refused,      \* the ceiling that refused the report: "no", "calls" or "usd"
  crashes, continues

store   == <<calls_used, spend_usd, budget_calls, report>>
wave    == <<live, pc, attempt, inbox, unsettled, open, flying>>
history == <<paid, lost, reporting, refused, crashes, continues>>
vars    == <<store, wave, phase, steps, exhausted, ready, overview_ok, history>>

Attempts == 1 .. MaxCallAttempts
Finished == [kind : {"finished"}, unit : Units, attempt : Attempts,
             cost : Costs \cup {0}, limited : BOOLEAN]
Done     == [kind : {"done"}, unit : Units, ok : BOOLEAN]
Budget   == [kind : {"budget"}, unit : Units]

TypeOK ==
  /\ calls_used \in Nat /\ spend_usd \in Nat /\ budget_calls \in Nat \ {0}
  /\ report \in {"none", "fresh", "stale"}
  /\ phase \in {"rounds", "report", "ended", "down"}
  /\ steps \in 0 .. MaxSteps
  /\ exhausted \in BOOLEAN /\ ready \in BOOLEAN /\ overview_ok \in BOOLEAN
  /\ live \subseteq Units
  /\ pc \in [Units -> {"off", "gate", "slot", "guard", "calling", "done"}]
  /\ attempt \in [Units -> Attempts]
  /\ inbox \subseteq Finished \cup Done \cup Budget
  /\ unsettled \in Nat
  /\ open \subseteq Units \X Attempts /\ flying \subseteq open
  /\ paid \in Nat /\ lost \in Nat /\ reporting \in Nat /\ refused \in {"no", "calls", "usd"}
  /\ crashes \in 0 .. MaxCrashes /\ continues \in 0 .. MaxContinues

-----------------------------------------------------------------------------
(* The dollar gate.  check_budget prices the reserve at the run's own rate,
   spend / calls_used per call; both sides are multiplied by calls_used. *)
OverUsd(reserve) ==
  /\ BudgetUsd > 0
  /\ IF reserve > 0 /\ calls_used > 0
     THEN spend_usd * (calls_used + reserve) >= BudgetUsd * calls_used
     ELSE spend_usd >= BudgetUsd

(* RunStore.check_budget: the step is refused. *)
Over(cost, reserve) ==
  \/ calls_used + cost + reserve > budget_calls
  \/ OverUsd(reserve)

(* _exhausted_reason, which spend raises after it has booked the call. *)
Exhausted(used, spend) ==
  \/ used >= budget_calls
  \/ BudgetUsd > 0 /\ spend >= BudgetUsd

MayRetryIgnoringWave(reserve) == ~Over(1, reserve)

(* Orchestrator._may_retry, as its caller asks it: on top of the reserve come
   the calls admitted and not yet in the ledger. *)
MayRetry(reserve) == ~Over(1, reserve + unsettled)

NoWaveReserve == 0

(* The reserve the open wave was priced with. *)
WaveReserve == IF phase = "report" THEN 0 ELSE Reserve

Waiting == {u \in Units : pc[u] = "slot"}

(* The semaphore: workers that want a slot, and how many are free.  An await
   that need not wait does not yield, so those it lets through go straight on. *)
Seated(first, wanting, free) ==
  /\ Cardinality(first) <= free
  /\ first = wanting \/ Cardinality(first) = free

(* Where a worker stops on the way to its next attempt: at a shut gate, or
   behind workers that already wait for a slot. *)
NextAttemptAt == IF ~ready THEN "gate" ELSE IF Waiting # {} THEN "slot" ELSE "guard"

(* u gives up its slot, which goes to a worker waiting for one, and moves on. *)
FreeSlot(u, next) ==
  IF Waiting = {}
  THEN pc' = [pc EXCEPT ![u] = next]
  ELSE \E v \in Waiting : pc' = [pc EXCEPT ![u] = next, ![v] = "guard"]

AffordableWithoutReserve(wanted, admitted, reserve) ==
  /\ admitted # {} => ~Over(Cardinality(admitted), 0)
  /\ admitted # wanted => Over(Cardinality(admitted) + 1, 0)

(* _affordable admits a prefix of the wanted units, up to the first the run
   cannot pay for; units are interchangeable here, so any subset that long. *)
Affordable(wanted, admitted, reserve) ==
  /\ admitted # {} => ~Over(Cardinality(admitted), reserve)
  /\ admitted # wanted => Over(Cardinality(admitted) + 1, reserve)

(* The head of _run_calls: one worker per admitted unit, each with its first
   call reserved. *)
Launch(admitted) ==
  /\ live' = admitted
  /\ \E first \in SUBSET admitted :
       /\ Seated(first, admitted, Parallel)
       /\ pc' = [u \in Units |-> IF u \notin admitted THEN "off"
                                ELSE IF ~ready THEN "gate"
                                ELSE IF u \in first THEN "guard" ELSE "slot"]
  /\ attempt' = [u \in Units |-> 1]
  /\ inbox' = {}
  /\ unsettled' = Cardinality(admitted)
  /\ open' = admitted \X {1}
  /\ flying' = {}

NoWave ==
  /\ live' = {} /\ inbox' = {} /\ unsettled' = 0 /\ open' = {} /\ flying' = {}
  /\ pc' = [u \in Units |-> "off"]
  /\ attempt' = [u \in Units |-> 1]

-----------------------------------------------------------------------------
Init ==
  /\ calls_used = 0 /\ spend_usd = 0
  /\ budget_calls \in 1 .. MaxBudget
  /\ report = "none"
  /\ phase = "rounds" /\ steps = MaxSteps
  /\ exhausted = FALSE /\ ready = TRUE /\ overview_ok = FALSE
  /\ live = {} /\ inbox = {} /\ unsettled = 0 /\ open = {} /\ flying = {}
  /\ pc = [u \in Units |-> "off"]
  /\ attempt = [u \in Units |-> 1]
  /\ paid = 0 /\ lost = 0 /\ reporting = 0 /\ refused = "no"
  /\ crashes = 0 /\ continues = 0

(* A step of the round starts its wave.  Every step is preceded by an
   _interrupted check, so none starts once the budget is flagged. *)
StartStep ==
  /\ phase = "rounds" /\ live = {} /\ ~exhausted /\ steps > 0
  /\ steps' = steps - 1
  /\ \E wanted \in SUBSET Units \ {{}} : \E admitted \in SUBSET wanted :
       /\ Affordable(wanted, admitted, Reserve)
       /\ exhausted' = (admitted # wanted)
       /\ Launch(admitted)
  /\ UNCHANGED <<store, phase, ready, overview_ok, history>>

(* The rounds are over: spent, interrupted, or done.  _finish writes the
   report unless a fresh one is there or not one call is left for it. *)
StartReport ==
  /\ phase = "rounds" /\ live = {}
  /\ report # "fresh" /\ ~Over(1, 0)
  /\ phase' = "report" /\ overview_ok' = FALSE
  /\ \E u \in Units : Launch({u})
  /\ UNCHANGED <<store, steps, exhausted, ready, history>>

SkipReport ==
  /\ phase = "rounds" /\ live = {}
  /\ report = "fresh" \/ Over(1, 0)
  /\ phase' = "ended"
  /\ refused' = IF report = "fresh" THEN "no"
                ELSE IF calls_used + 1 > budget_calls THEN "calls" ELSE "usd"
  /\ exhausted' = (exhausted \/ report # "fresh")
  /\ UNCHANGED <<store, wave, steps, ready, overview_ok, paid, lost, reporting,
                 crashes, continues>>

(* _write_overview after its wave: a payload becomes the report, a failure
   leaves whatever report there was. *)
EndReport ==
  /\ phase = "report" /\ live = {}
  /\ phase' = "ended"
  /\ report' = IF overview_ok THEN "fresh" ELSE report
  /\ UNCHANGED <<calls_used, spend_usd, budget_calls, wave, steps, exhausted, ready,
                 overview_ok, history>>

-----------------------------------------------------------------------------
(* The worker. *)

Holding == {u \in Units : pc[u] \in {"guard", "calling"}}

(* The spawn gate reads the ledger once more, on a thread, before the process
   is created; it knows nothing of the calls in flight. *)
SpawnRefused(u) ==
  /\ pc[u] = "guard" /\ Over(1, 0)
  /\ inbox' = inbox \cup {[kind |-> "budget", unit |-> u],
                          [kind |-> "done", unit |-> u, ok |-> FALSE]}
  /\ FreeSlot(u, "done")
  /\ UNCHANGED <<store, live, attempt, unsettled, open, flying, phase, steps,
                 exhausted, ready, overview_ok, history>>

Spawn(u) ==
  /\ pc[u] = "guard" /\ ~Over(1, 0)
  /\ pc' = [pc EXCEPT ![u] = "calling"]
  /\ flying' = flying \cup {<<u, attempt[u]>>}
  /\ paid' = paid + 1
  /\ UNCHANGED <<store, live, attempt, inbox, unsettled, open, phase, steps, exhausted,
                 ready, overview_ok, lost, reporting, refused, crashes, continues>>

(* A second attempt is reserved like the first. *)
ReserveAttempt(u) ==
  /\ open' = open \cup {<<u, attempt[u] + 1>>}
  /\ unsettled' = unsettled + 1

(* The loop over range(MAX_CALL_ATTEMPTS) has another turn for the unit. *)
AttemptsLeft(u) == attempt[u] < MaxCallAttempts

(* The call is over and its slot free.  The worker reports it and, if the
   verdict allows a second attempt and the budget does too, goes round again
   without waiting for the drain loop to book the first. *)
Return(u, verdict, cost, limited) ==
  LET fin   == [kind |-> "finished", unit |-> u, attempt |-> attempt[u],
                cost |-> cost, limited |-> limited]
      again == verdict = "again" /\ AttemptsLeft(u) /\ MayRetry(WaveReserve)
  IN /\ \/ pc[u] = "calling"
        \/ pc[u] = "guard" /\ verdict # "ok" /\ cost = 0 /\ ~limited  \* it never started
     /\ \/ /\ again
           /\ inbox' = inbox \cup {fin}
           /\ attempt' = [attempt EXCEPT ![u] = @ + 1]
           /\ ReserveAttempt(u)
           /\ FreeSlot(u, NextAttemptAt)
        \/ /\ ~again
           /\ inbox' = inbox \cup {fin, [kind |-> "done", unit |-> u, ok |-> verdict = "ok"]}
           /\ FreeSlot(u, "done")
           /\ UNCHANGED <<attempt, unsettled, open>>
     /\ UNCHANGED <<store, live, flying, phase, steps, exhausted, ready, overview_ok, history>>

-----------------------------------------------------------------------------
(* The drain loop, the run's only writer.  A worker's messages arrive in the
   order it sent them. *)

(* spend: one call against both ceilings, and whether one of them is reached. *)
Spend(cost) ==
  /\ calls_used' = calls_used + 1
  /\ spend_usd' = spend_usd + cost
  /\ exhausted' = (exhausted \/ Exhausted(calls_used', spend_usd'))

(* _record_call: book it, flag a spent budget, shut the gate on a rate limit. *)
DrainFinished(m) ==
  /\ m.kind = "finished"
  /\ m.attempt = 2 => \A n \in inbox : ~(n.kind = "finished" /\ n.unit = m.unit /\ n.attempt = 1)
  /\ inbox' = inbox \ {m}
  /\ Spend(m.cost)
  /\ ready' = (ready /\ ~m.limited)
  /\ unsettled' = unsettled - 1
  /\ open' = open \ {<<m.unit, m.attempt>>}
  /\ flying' = flying \ {<<m.unit, m.attempt>>}
  /\ reporting' = IF phase = "report" THEN reporting + 1 ELSE reporting
  /\ UNCHANGED <<budget_calls, report, live, pc, attempt, phase, steps, overview_ok,
                 paid, lost, refused, crashes, continues>>

DrainBudget(m) ==
  /\ m.kind = "budget"
  /\ \A n \in inbox : ~(n.kind = "finished" /\ n.unit = m.unit)
  /\ inbox' = inbox \ {m}
  /\ exhausted' = TRUE
  /\ UNCHANGED <<store, live, pc, attempt, unsettled, open, flying, phase, steps, ready,
                 overview_ok, history>>

(* The last "done" of the wave ends it. *)
DrainDone(m) ==
  /\ m.kind = "done"
  /\ \A n \in inbox : n.unit = m.unit => n = m
  /\ overview_ok' = (overview_ok \/ (phase = "report" /\ m.ok))
  /\ IF live = {m.unit}
     THEN NoWave
     ELSE /\ live' = live \ {m.unit}
          /\ inbox' = inbox \ {m}
          /\ pc' = [pc EXCEPT ![m.unit] = "off"]
          /\ UNCHANGED <<attempt, unsettled, open, flying>>
  /\ UNCHANGED <<store, phase, steps, exhausted, ready, history>>

Drain == \E m \in inbox : DrainFinished(m) \/ DrainBudget(m) \/ DrainDone(m)

ReleaseWakesNobody ==
  /\ ~ready
  /\ ready' = TRUE
  /\ UNCHANGED <<store, wave, phase, steps, exhausted, overview_ok, history>>

(* The cooldown is over: _release_backpressure wakes everyone at the gate. *)
Release ==
  /\ ~ready
  /\ ready' = TRUE
  /\ LET woken == {u \in Units : pc[u] = "gate"}
     IN \E first \in SUBSET woken :
          /\ Seated(first, woken, Parallel - Cardinality(Holding))
          /\ pc' = [u \in Units |-> IF u \notin woken THEN pc[u]
                                   ELSE IF u \in first THEN "guard" ELSE "slot"]
  /\ UNCHANGED <<store, live, attempt, inbox, unsettled, open, flying, phase, steps,
                 exhausted, overview_ok, history>>

-----------------------------------------------------------------------------
(* The supervisor dies: its memory goes, and with it every call it was asked
   to pay for and had not booked. *)
Crash ==
  /\ phase \in {"rounds", "report"} /\ crashes < MaxCrashes
  /\ crashes' = crashes + 1
  /\ phase' = "down"
  /\ lost' = lost + Cardinality(flying)
  /\ NoWave
  /\ exhausted' = FALSE /\ ready' = TRUE
  /\ UNCHANGED <<store, steps, overview_ok, paid, reporting, refused, continues>>

(* A new supervisor takes the run up. *)
Resume ==
  /\ phase = "down"
  /\ phase' = "rounds" /\ steps' = MaxSteps
  /\ UNCHANGED <<store, wave, exhausted, ready, overview_ok, history>>

(* controls._continue_run: the ceiling may only rise, and must leave one call
   of work above the report's reserve. *)
Continue ==
  /\ phase = "ended" /\ continues < MaxContinues
  /\ \E b \in budget_calls .. MaxBudget :
       /\ b >= calls_used + Reserve + 1
       /\ budget_calls' = b
  /\ BudgetUsd = 0 \/ spend_usd < BudgetUsd
  /\ report' = IF report = "none" THEN "none" ELSE "stale"
  /\ phase' = "rounds" /\ steps' = MaxSteps
  /\ exhausted' = FALSE /\ ready' = TRUE /\ overview_ok' = FALSE
  /\ continues' = continues + 1
  /\ reporting' = 0 /\ refused' = "no"
  /\ UNCHANGED <<calls_used, spend_usd, wave, paid, lost, crashes>>

(* The run is over and nobody continues it. *)
Closed ==
  /\ phase = "ended"
  /\ UNCHANGED vars

Worker(u) ==
  \/ SpawnRefused(u) \/ Spawn(u)
  \/ \E verdict \in {"ok", "again", "final"}, cost \in Costs \cup {0}, limited \in BOOLEAN :
       Return(u, verdict, cost, limited)

Next ==
  \/ StartStep \/ StartReport \/ SkipReport \/ EndReport
  \/ \E u \in Units : Worker(u)
  \/ Drain \/ Release
  \/ Crash \/ Resume \/ Continue
  \/ Closed

Fairness ==
  /\ \A u \in Units : WF_vars(Worker(u))
  /\ WF_vars(Drain) /\ WF_vars(Release) /\ WF_vars(Resume)
  /\ WF_vars(StartReport \/ SkipReport) /\ WF_vars(EndReport)

Spec     == Init /\ [][Next]_vars
FairSpec == Spec /\ Fairness

-----------------------------------------------------------------------------
(* The ledger and every call admitted and not yet booked fit under the        *)
(* ceiling, and while the run is working the report's calls stay free on top: *)
(* the sum _affordable prices once survives retries that start before the     *)
(* drain loop has booked the attempt they replace.                            *)
ReserveHeld ==
  /\ calls_used + unsettled <= budget_calls
  /\ phase = "rounds" /\ unsettled > 0 => calls_used + unsettled + Reserve <= budget_calls

(* The call ceiling denies a run its report only if the reserve already went  *)
(* on a report that a dead supervisor never saved.                            *)
ReportAffordable == refused = "calls" => reporting > 0

(* Every call a provider was asked to run is in the ledger, still counted in  *)
(* unsettled_calls, or was in flight when a supervisor died.                  *)
EveryCallAccounted ==
  /\ unsettled = Cardinality(open)
  /\ paid <= calls_used + unsettled + lost

(* The ledger, the open attempts and the calls promised agree at every moment. *)
LedgerHolds == TypeOK /\ ReserveHeld /\ EveryCallAccounted

(* A run with a supervisor ends or loses it, whatever the calls return and    *)
(* however often the rate-limit gate shuts: no worker is left at the gate, no *)
(* unit's "done" is missed, and the report is written or refused.             *)
RunEnds == phase \in {"rounds", "report"} ~> phase \in {"ended", "down"}

(* The promise the engine makes about its ceiling. *)
Ceiling == INSTANCE CallCeiling WITH
  HeldBack <- Reserve,
  ceiling <- budget_calls, booked <- calls_used, promised <- unsettled,
  mode <- CASE phase \in {"rounds", "down"} -> "work"
            [] phase = "report" -> "report"
            [] OTHER -> "closed"

KeepsCeiling == Ceiling!Spec
=============================================================================
