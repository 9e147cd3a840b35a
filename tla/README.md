# oracle-coscientist: specifications, checks and proofs

Oracle Co-Scientist runs a scientist's question through rounds of model calls
(generate, review, cluster, rank, evolve) and writes a report. The backend is a
FastAPI process that keeps everything in Postgres. Every run is driven by a
supervisor process of its own, started and signalled by the API, which shares
nothing with it but rows of the database. A React page watches runs over
server-sent events.

This directory holds TLA+ modules of that system, the TLC configurations that
check them on small instances, and the proofs TLAPS checks for every instance.

Reading order: `CallCeiling` and `CallWave` (how a run spends its calls),
`RunControl` (who may drive a run), `EventFeed` and `EventStream` (how its events
reach the page), `RoundSteps` (what a round repeats and what it does not), then
whatever part is of interest. A module's proofs are in `<module>Proofs` (those of
the wave of calls and of the small parts beside the engine in `ServicesProofs`, of
the estimates in `RankingProofs`, of the collapse detector in `RoundStepsProofs`),
its TLC constants in `MC<module>` (`MCSafety`, `MCProcesses` and `MCServices` each run several
parts) and the `.cfg` files. `PROJECT.json` maps every definition to the
lines it stands for and lists the hazards of the code at their lines.

To check: `tlc -config MCRunControl.cfg MCRunControl`; to prove:
`tlapm RunControlProofs.tla`.

## Inventory

Paths are below `src/backend/app` unless they start with `frontend`.

| Component | Code | State | Operations | Modules |
|---|---|---|---|---|
| Call waves, retries, ceilings | `engine/orchestrator.py` `_run_calls`, `_may_retry`, `_affordable`, `_record_call`, `_write_overview`; `engine/store.py` `check_budget`, `spend` | `calls_used`, `spend_usd`, `budget_calls`, `report_status`; in memory: workers, semaphore, queue, `unsettled_calls`, `_ready` | admit a wave, spawn, return, retry, book, cool down, report, continue | CallCeiling, CallWave |
| Run lifecycle and controls | `services/runs/controls.py`, `launcher.py`; `engine/store.py`; `engine/supervisor.py`; `orchestrator.py` `run`, `_drive`, `_boundary`, `_pause`, `_finish`, `_fail`; `main.py` | the run's row: `lifecycle`, `control_requested`, `supervisor_pid`, `heartbeat_at`, `deleted_at`; the processes | launch, pause, resume, stop, finish, force stop, continue, park, delete, reconcile, heartbeat | RunControl |
| Live event stream | `services/events/listener.py`, `stream.py`; `api/events.py`; the NOTIFY trigger of migration `20260801_0003` | `run_events`; LISTEN connection, subscriptions with bounded queues; `last_seq` | emit, notify, listen, resync, subscribe, replay, go live | EventFeed, EventStream |
| The page of a run | `frontend/src/store/runs.ts`; `store.snapshot` | entry, `lastSeq`, detail requests, refetch and drain timers, the poll beside it | open, frame, refetch, answer, hang up, leave | EventStream, RunPage |
| Round loop and resume | `orchestrator.py` `_round` and its steps; `store.py` marks, hypotheses, notes | `rounds.progress`, hypotheses, reviews, matches, clusters, pending notes, pending seed | one step of a round per role, each resumable from its mark | RoundSteps |
| Ranking and diversity | `engine/core.py`; `store.py` `plan_matches`, `record_match` | Elo, counters, the match plan; the collapse readings | pair, present, rate, settle, pick champions and parents, detect collapse, fire a graft | Ranking, Diversity |
| Adaptive research | `engine/research.py`, `research_contracts.py` | the workspace in `engine_state.research`: framing, recorded results, portfolio, assessments, synthesis, challenge | decide, explore, develop, verify, reframe, synthesize, challenge, report | Research |
| Provider runners | `engine/claude_runner.py`, `codex_runner.py`, `models.py` | one call: child, pipe, deadline, what was parsed | spawn, read, move the deadline, drain, kill, salvage, judge | RoleCall, Models |
| Killing a process tree | `engine/spawn.py` `terminate_pid_tree` | pidfds held, processes stopped | identify, freeze, walk, kill, await, thaw | KillTree |
| Model routing, settings | `engine/routing.py`, `runners.py`, `services/settings/models.py`, `launcher.py` | settings row, a run's config and frozen table | save, launch, clone, call, show | Models, RunModels |
| Question workshop | `services/workshop/service.py`, `api/workshops.py` | workshop rows, options, one thread per call | create, refine, choose, answer, fail | Workshop |
| Stream tickets | `services/events/tickets.py`, `core/auth.py` | dict of tickets with expiry | issue, purge, consume | Tickets |
| Supervisor process | `engine/supervisor.py` | two tasks, failures in a row, exit code | assemble, beat, interrupt, conclude, record a failure | Supervisor |
| Import of archived runs | `services/runs/importer.py`, `api/admin.py`, `main.py` | rows matched by natural keys, the owner's row as a lock | a pass: read, find, rebuild, commit | Imports |
| Projection | `engine/projection.py` | the run's directory | four reads, the writes one by one | Projection |
| Estimates | `engine/core.py`, `runners.py` | none | estimate, budget | Estimates |
| Prompts, schemas, reads, HTTP layer, identity, probes, rendering, migrations, archive | see `PROJECT.json` | derived or single-row | pure I/O, queries, validation | none |

How they interact. The API writes a run's row and forks a supervisor; the
supervisor polls `control_requested` at boundaries between its steps, writes the
lifecycle, beats, and emits events. Nobody holds a lock across two transactions:
each method of `RunStore` is one transaction, and what is decided on a row is
written in a later one. A partial unique index over the lane lifecycles is the
only arbiter between runs of one harness. Inside a supervisor everything runs on
one asyncio loop: tasks interleave at awaits, workers send results over a queue
to one drain loop which alone books them. Events travel by `NOTIFY` to one
listening thread of the API, from it to the event loop, and on to bounded queues
of doorbells; each stream reads the rows themselves.

What is hard, and not easily reached by tests:

- several workers deciding on a retry while earlier calls are not booked yet;
- a ceiling reached between admission and booking, with a report still to pay;
- two requests deciding on the same row; a request cut short by the API's death;
- a supervisor that dies before or after its pid was recorded, or just as a
  shutdown, a reconciler or a resume looks at it;
- events committed while a connection is being made, lost or replaced, and
  queues that overflow meanwhile; details answered out of order;
- work done twice, lost or applied to the wrong pool when a killed round or a
  killed checkpoint is resumed;
- a child that answers and hangs, dies and leaves its pipe open, forks while it
  is killed, or has its pid reused;
- a heartbeat, an interrupt and an engine that end in any order with the database
  away; two import passes at once; a directory read while it is written.

## The modules

### CallWave, against CallCeiling

`CallWave` is one run's money: `_run_calls` with its workers and drain loop, the
four gates (`_affordable` before a wave, `_may_retry` before a second attempt,
the spawn gate, the semaphore), the rate-limit gate, the report and its reserve
of two calls, a supervisor that dies and is replaced, and the continue that
raises the ceiling of an ended run. An action is one stretch between two awaits,
because that is what asyncio runs without interruption. A call's outcome (ok,
worth another attempt, final; rate limited or not; its cost) is a free choice.

| Model | Code |
|---|---|
| `calls_used`, `spend_usd`, `budget_calls`, `report` | the columns of the run's row |
| `unsettled` | `unsettled_calls`, calls a wave has committed to and not booked |
| `live`, `pc`, `attempt`, `inbox` | `pending`, each worker's place, its attempt, the queue |
| `ready` | `_ready`, the rate-limit gate; `Release` is the cooldown timer |
| `open`, `flying`, `paid`, `lost`, `reporting`, `refused` | history, for the properties |
| `StartStep`, `StartReport`, `SkipReport`, `EndReport` | a step's wave; `_write_overview` before, refused, and after its wave |
| `Spawn`, `SpawnRefused`, `Return`, `DrainFinished`, `DrainBudget`, `DrainDone` | the await-to-await stretches of a worker and of the drain loop |
| `Crash`, `Resume`, `Continue` | a dead supervisor, its successor, `_continue_run` |

`CallCeiling` is the promise alone: working never promises a call that would eat
the reserve, only the report uses it, nothing is booked unpromised, nothing
passes the ceiling. `CallWave` implements it under the mapping at the end of the
module (`promised <- unsettled`, `mode` from `phase`).

### RunControl

The runs of one harness: rows, supervisor processes, the requests being served,
the reconciler. One action is one transaction of one actor together with what
that actor does before its next one, so every check-then-write gap of the code is
open to everybody else.

| Model | Code |
|---|---|
| `lifecycle`, `control`, `pid`, `beat`, `deleted` | the columns of the run's row; `beat` is the age of `heartbeat_at` in the three classes the code tells apart |
| `sup[p]` | process `p`: its run, its place in `supervise`/`run`, the lifecycle it believes in (`mem`), the ending it is making |
| `req[q]` | a request being served: its kind, the row as it read it, its place |
| `swept` | the row the periodic reconciler read and has not judged yet |
| `Ask` ... `Park` | `apply_control`, `launch_run`, `_resume`, `_continue_run`, `_force_stop`, `quiesce_supervisors` |
| `Boot` ... `Leave`, `Fail` | `supervise`, `Orchestrator.run`, `_clear_stale_control`, `_drive`, `_boundary`, `_pause`, `_finish`, `_fail` |
| `Beat`, `Age`, `RecRead`, `RecMark` | the heartbeat task; the passing of time; the reconciler's read and mark |
| `Dies`, `Fails`, `SpawnFails`, `Abandon`, `Delete` | a killed process, an exception, a failed fork, the API dying in mid-request, `soft_delete` |

### EventStream, against EventFeed, and RunPage

One run and one watching page. A notification is a doorbell, never the event, so
the question is whether any loss of doorbells can leave an event unread.
`EventFeed` is what a reader is promised: the log grows at its end, and the page
shows it in order with nothing left out, from some point of it on.

| Model | Code |
|---|---|
| `next`, `draft`, `committed` | the sequence behind `run_events.seq`, open transactions, visible rows |
| `link`, `wire`, `loop` | the LISTEN connection, notifications not read yet, callbacks handed to the event loop |
| `pc`, `last`, `page`, `queue` | `run_event_stream`: its place, `last_seq`, the rows it has read and not sent, its subscription |
| `net`, `shown`, `detail` | frames under way, the page's `lastSeq`, a run detail under way |
| `Insert`, `Commit`, `Abort` | `RunStore.emit`: the number at INSERT, the row and its NOTIFY at COMMIT |
| `Listen`, `Announce`, `Hear`, `Dispatch` | `_listen_once`, `_resync_all`, the notifies loop, `_dispatch` with `offer` |
| `Open`, `Register`, `Fetch`, `Send`, `Take` | the page's request, `subscribe`, `fetch_events_after`, `_catch_up`, the live loop |
| `Receive`, `ReadDetail`, `ApplyDetail` | `handleStreamMessage`, `refreshRunDetail`, `applyDetail` |
| `LoseLink`, `LoseStream`, `RestartApi`, `Reload` | what can break, at any moment |

`Writers` is the set of transactions that may insert: the code's discipline is
that there is one, and everything here depends on it. With two, `Unbroken` fails
in eight steps, exactly as the docstring of `store.py` (lines 10-16) warns. That
is why `OneDriver` of RunControl matters.

`RunPage` is the page itself, given frames in order: its detail requests, of
which the newest answers, the debounced refetch, the drain that waits for the
closing event, the poll that learns the lifecycle from elsewhere, and a detail
assembled by several statements of one READ COMMITTED transaction, so that its
rows, events and times may be of different moments.

### RoundSteps

The seven steps of a round as a supervisor takes them, one action per transaction
or per wave (seen through its results), with the marks of `rounds.progress` that
make a round resumable. A supervisor pauses at a boundary or dies between any two
actions; its successor has only rows and marks.

| Model | Code |
|---|---|
| `idea`, `match`, `mark` | hypotheses (status, origin, duplicate, label, reviews), the plan of each round, `rounds.progress` |
| `queue`, `noted`, `at.hand` | interventions pending, saved against a round, claimed in memory |
| `seed` | the pending Cartographer seed and the last round that fired |
| `OpenRound` ... `CloseRound` | `_drain_interventions`, `_generate`, `_reflect`, `_cluster`, `_collapse`, `_tournament`, `_evolve`, `_meta_review` |
| `passes`, `torn`, `unheard`, `fed`, `given`, `dropped` | history, for the properties |

### Ranking and Diversity

`Ranking` has the arithmetic RoundSteps abstracts: `make_pairs` and its extension
for newcomers, presentation order, K factor, Elo in tenths with a table for the
logistic curve, champions of a cluster, parents. `Diversity` has the collapse
detector: readings per round, three votes, quorum, cooldown, across resumed and
reclustered rounds.

### Research

The adaptive workflow's checkpoint from framing to report, with results recorded
under unit keys, replayed after a death, and the scheduler's rules for what to do
next. Notes and archives arrive in between.

### RoleCall and Models; KillTree

`RoleCall` is one call of either runner against a child that writes lines, hangs,
exits, closes its output or leaves a helper on the pipe at any moment of a short
clock. `Models` has the policy both judge a reported model by. `KillTree` is
`terminate_pid_tree` with pidfds against processes that fork, exit, are reaped
and have their pids reused. What a walk finds is the least set of live processes
closed under parenthood. Its history variable `strayed` names what no walk can find:
descendants an ancestor's own exit cut off before they were frozen, a process pinned
but not yet stopped included, and what took the pid of a process already held.

### The parts beside the engine

`Supervisor` (the process from inside: two tasks, the kill switch, the exit code),
`Tickets`, `Workshop`, `RunModels` (settings, launch, clone, calls across a
release), `Imports`, `Projection`, `Estimates` (the estimate against the calls
the rounds make). Each has its own variables, and `MCServices` runs them one at a
time in one instance: they share nothing, so the product adds no behaviour. Two
more instances are of that kind: `MCSafety` (the races of RunControl, Ranking,
Diversity) and `MCProcesses` (RoleCall, KillTree).

## The runs

A property that has several sides is one definition whose conjuncts are named;
each part is stated and commented in its module.

| Run | Question | Instance | Distinct states |
|---|---|---|---|
| `call_wave` | do retries, crashes and continues keep the reserve and the books, does every run end, is the abstract promise kept? (`LedgerHolds`, `ReportAffordable`, `RunEnds`, `KeepsCeiling`) | three units for two slots, two attempts each, calls of a dollar under a ceiling of three, one crash, one continue | 673 000 |
| `run_control` | who drives a run through its whole life; is a lane given back, a stop that stands at work answered? (`OneDriver`, `PausedIsIdle`, `ShutdownParksTheDead`, `DesertedRunsAreBuried`, `StopEndsTheRun`) | one run, three processes, four requests of any kind, a deletion, one fault; `Patient` | 599 000 |
| `event_stream` | can a hole or a missed wake-up arise; does every event arrive; is the page's refresh owed and its closing event heard? (`NothingLost`, `FeedsInOrder`, `EveryEventArrives`, `PageSafe`) | three events, replay pages of two, queues of one, one fault; stories of two to five steps, two details under way | 338 000 |
| `round_steps` | what does a resumed round repeat, lose or apply to the wrong pool? (`NotesKept`, `WorkDoneOnce`, `MergedIntoOne`, `ClusteringCoversPool`, `SeedNamesOneWave`, `PlanReplayed`, `RunEnds`) | two rounds, three ideas, one fault, one note or one idea set aside | 1 131 000 |
| `research` | what does a resumed checkpoint pay again, repeat, forget? (`PaidOnce`, `ResultsHold`, `RunReports`) | one checkpoint and one more, three ideas, one fault, one note, one archive | 1 078 000 |
| `safety` | do concurrent requests share the lane; are ratings conserved and replayable, plans fair, grafts fired only on collapse? (`LaneSafe`, `RatingsHold`, `PlansHold`, `GraftsHold`) | two runs, two requests at once, three in all, one deletion; four ideas over two rounds and a resume; three ideas of two families over three rounds | 1 680 000 |
| `processes` | what is kept, trusted, left running; who is signalled, who survives; does it end? (`VerdictHolds`, `ChildHandled`, `OnlyTheTree`, `WholeTreeDies`, `ProcessesAnswer`) | three kinds of call, three lines, time to seven; four pids, five births, two passes, pids reused | 1 885 000 |
| `services` | each part beside the engine (`SupervisorSafe`, `ShelfSafe`, `EstimatesSafe`, `WorkshopSafe`, `TicketsSafe`, `ModelsSafe`, `ImportsSafe`, `PartsAnswer`) | the constants of `MCServices.cfg` | 243 000 |
| `run_control_two_resumes`, `run_control_lost_stop`, `round_steps_lost_notes`, `role_call_substitution` | known divergences, below (`OneDriver`, `StopsAreActedOn`, `NotesSurvive`, `SubstitutionFails`) | the least instance that shows each | violated |

Why the bounds are enough to be interesting. A race over the reserve needs one
worker retrying while another's result is unbooked and a third waits for a slot:
three units, two slots. A run's life has three kinds of process (the first, one
after a resume, one after a continue). A race over a lane needs two runs and two
requests; the third request lets one of them follow another's outcome. A replay
that takes several reads needs more events than a page; an overflow needs more
doorbells than a queue. A merge whose survivor is merged in turn needs three
ideas and two rounds. A resumed unit needs one death. A salvaged call needs a
line after its answer and time for a deadline to move. A pid is reused after one
death and one birth beyond the first forest. Bounds are constants named in the
modules; they appear in guards only, and the theorems hold for every value of
them. Symmetry is used in safety runs alone, over runs and request slots.

`MCRoundSteps` and `MCResearch` let the scientist act only where the program
reads what he changes (notes at a boundary, the pool where a step chooses from
it): earlier acts commute with everything up to that read. The theorems about
both modules have no such restriction.

`CHECK_DEADLOCK FALSE` where every bound may be used up with nothing left to do;
`call_wave` and `processes` check deadlock.

### Fairness, and what it assumes

- CallWave: weak fairness of every worker (a call returns or its timeout returns
  it), of the drain loop, of the cooldown timer, of starting and ending the
  report, and of `Resume`. A supervisor need not start another step or crash.
- RunControl: weak fairness of each request's next transaction, of each process's
  next step and boundary, of heartbeats, of time, of the reconciler's mark;
  strong fairness of its read, since a sweep visits every row periodically while
  a beating row is alternately eligible and not. `RoundsDone` is not fair: work
  may go on for ever, and a stop must end it all the same.
- EventStream: weak fairness of the listening thread, the event loop, the stream
  and the page's reconnect. Faults are bounded and never have to happen.
- RoundSteps, Research: somebody resumes a run that is off, and a supervisor goes
  on; faults are bounded.
- RoleCall: the runner's own steps and the clock, never the child's. KillTree: the
  killer's steps, whose waits time out.
- Workshop, Supervisor: the call thread and the clock; the event loop's tasks,
  not the engine.

Assumptions about the environment, each named in its module:

- `Patient` (RunControl): nobody sends a run a request while another is under way
  for it, a process of it is opening, failing or leaving, or the reconciler is
  judging it. The code does not enforce it. `run_control` runs under it;
  `PausedIsIdle` and `ShutdownParksTheDead` are proved under it. `OneDriver` is
  proved without it, for every request but a resume and a force stop, which break
  it; `LaneSafe` needs no assumption at all.
- `OneWriter` (EventStream): one transaction at a time inserts events of a run.
- `Age` (RunControl): a launch takes less than a minute between its row and its
  process's stamp.
- `budget_calls` is positive and at least the reserve plus one when a run is
  continued, as the API validates.

## What is proved

TLAPS checks every step of the proofs, with no bound on the constants. Each
module of proofs states one inductive invariant, as a conjunction of named parts,
shows that the first states have it and that every action keeps it, action by
action, and reads the theorems off it. TLC checked each of these invariants on a
small instance before it was proved.

`ServicesProofs`, of CallWave: `TypeCorrect`, `ReserveIsHeld`, `ReportIsAffordable`,
`LedgerIsKept`, and `CeilingIsKept` (CallWave implements CallCeiling).
`ReserveHeld` is not inductive: an admission says nothing of the attempts it may
grow into. The strengthening `IInv` ties `unsettled` to the set of open attempts,
each open attempt to the place of its worker and the message about it in the
queue, and says that a wave of the report and a wave of work are never open at
once. Then each gate's sum is the invariant's own sum, and a crash, which
forgets the wave, only lowers it.

`RunControlProofs`: `TypeCorrect`, `LaneIsExclusive` (from the unique index alone:
every write into a lane lifecycle goes through `LaneFree`), `ReplacementsAreSpared`
and both together, `LaneIsSafe`. The second needs an invariant about pids: a pid
recorded in a row or remembered by a request was once a process of that run
(`PidVouched`, `ReqVouched`), every process has a run with a row (`Manned`), and a
shutdown past its kill remembers a pid it saw dead (`Requested`). A row whose pid
is unchanged since then names a dead process; a row whose pid changed is refused
by the comparison in `park_for_shutdown`.
`OneDriverAtATime` asks nothing of the patience of those who ask: requests for one
run may overlap in any way, as long as none is a resume or a force stop. Its
invariant `ClaimInv` follows the claim to drive a run: a request that was granted the
run and is about to start a process, or a process that has not come to its last
events. There is one at a time (`OneClaim`), because a run that is claimed is not in a
lifecycle from which it could be granted (`Claimed`): a launch has its row to itself
until it is there (`Fresh`), `extend_run` takes a run out of its ending in the
transaction that grants it, and only the last word of a process or the failure of a
spawn puts it back. A resume has no such transaction, and a force stop writes an ending with
the claim still out: `run_control_two_resumes` is the counterexample of the first, and
C:544 below tells the second.
Under `Patient`, `PausedRunsAreIdle` and `ShutdownParksOnlyTheDead`. Their invariant
`PInv` is a table of who may be alive: which lifecycles a request in each of its
places may meet (`Course`), that there is one request and one process for a run
(`OneRequest`, `OneProcess`), that a request with a process beside it is one of the
few kinds that tolerate one (`Accompanied`), that a living process past its boot is
the one its row names (`Recorded`), that the reconciler judges nothing in between
(`Found`), and that a settled row has nobody (`SettledIsIdle`).

`EventStreamProofs`, with the hypothesis `OneWriter` where it is needed:
`TypeCorrect`, `NothingIsSkipped` (`Unbroken`), `NobodySleepsThrough`
(`NoLostDoorbell`), both as `NothingIsLost`, and `PageShowsTheLog` (EventStream
implements EventFeed). With one writer numbers become visible in the order of
their allocation (`Ordered`), and everything along the path came from the table,
with the stream's cursor at a row (`Sourced`); so a commit lands beyond every
cursor, and a hole cannot open behind one. For the doorbells it is enough to
follow the newest one (`Belled`): it answers for all events before it, a full
queue never drops it, and a stream that skips it has read as far. A replay page
that is not full is all there was (`ShortPageIsAll`), which is the step from
counting rows to knowing them. `PageIsSafe` is about the page that reads these
frames. `PageInv` follows what the newest detail request will say of each event:
one that has not been heard is in the log ahead of the page, answered for by a request
under way, or owed by the refetch timer (`Owed`), and a page that has hung up has
heard the closing event of its pass or owes the drain (`Heard`). It assumes that the
passes of a story do not overlap (`RunPageAssumption`), which leaves out the
continue that slips in before the last events (O:403 below).

`RoundStepsProofs`: `TypeCorrect`, `NotesAreKept`, `NoWorkTwice`,
`MergedIdeasStand`, `TournamentSeesItsPool`, `SeedsNameOneWave` and
`PlansAreReplayed` (an action property). The invariant says where everything may
be at each step: rows are numbered as they come and fresh ones are of this round
(`Pool`), a batch under review is of ideas not reviewed (`UnderReview`), the
supervisor has no note in hand outside the two transactions of the drain
(`HandEmpty`), the clustering a round works from covers the ideas it sees
(`Covers`), a seed under way is the one on record (`SeedInHand`), shards and
evolutions do not share slots (`Apart`), reviews and marks agree (`Reviewed`),
and steps behind the supervisor are marked (`Passed`).

The same module has the collapse detector of a round, `Diversity`. `DetectorIsKept`
holds for any quorum, window, threshold and cooldown: ideas are numbered as they are
made (`NumberedInTurn`), so the oldest of the pool was there whenever anybody looked
(`OldestSeen`), and a clustering with nobody to ask can only be the first; a round is
decided and closed on a reading of its newest map (`ReadBeforeDecided`); the
readings have one entry to a round, in order, because the insertion sorts a history
that is sorted (`KeyedIs`). `FiresAreGrounded` needs a quorum of two votes: one of them
looks over the window, so the window is full, and the coverage gate holds.
`GraftsAreHeld` needs all three and a threshold of one half: if every family were
smaller than half, the pairs of ideas that share one would be too few for the index
(`OneFamily`; the squares of the sizes are counted as pairs). Both ask for fewer
than 500 ideas: shares are kept to three digits, and from there on the digits
no longer tell one half from a little less.

`RoleCallProofs`: `VerdictIsTrue` and `ChildIsHandled`, from `CallInv`: what the
runner holds was said by the child (`Spoken`), a child it believes gone is gone
(`Gone`), and each way to a verdict leaves the evidence the verdict names.

The same module has the models of a run. `ModelsAreSafe` follows from `ModelsInv`: in
every release each tier is runnable (`Whole`), so a table that resolves names models
on offer and efforts of their ladders (`RowIs`; what is clamped to a ladder is on it,
`Clamped`); one body is stored, and reading it is total (`StoredIs`); a clone comes
after its source (`Origins`); a table of this release is still what its config
resolves to (`FrozenNow`), which is what lets a clone be compared with its source; and
the call followed is of a run there is (`CallIsKnown`). Ladders only lose rungs, so a
call made at an effort stays as good as its row. A run found in the database is taken
to say no overrides or to be of an earlier release (`RunModelsAssumption`).

`ServicesProofs`, of the parts beside the engine: `SupervisorIsSafe`, `TicketsAreSafe`, `ShelfIsSafe`,
`ImportsAreSafe`, `WorkshopIsSafe`. The tickets need to know what an issuer in
mid-purge has already looked at; the shelf that a projection's four reads are of
rows that only grow; an import that the owner's lock admits one pass (`OnePass`),
that what it carries is one reading of one directory (`Carries`) and that rows
already there are of one batch (`OneBatch`); the workshop that a call's thread
fits the row it was started for (`CallFits`), that turns come one after the other
(`Turns`), that a waiting row has its call or has lost it (`Awaits`), and that what
is on offer is the pair of the last good turn (`Standing`).

`RankingProofs` is about two computations. `RatingsAreHeld`: no points appear or
vanish and the rows replay from the record of the matches. `RecordInv` adds that a
match is of two ideas (`TwoSides`) and that a verdict is of a completed match and for
one of its two (`Judgements`); a fold over the ideas moves by what one match moves,
for any table of gains (`GainIsInt`: a gain is an integer).

`PlansAreFair`: the plan follows the code from its sort keys to the last slot. A
strict order of a finite set has one list (`PlacesAre`), so the ranking, the queue of
newcomers and the order of the parents are what a sort returns. The candidates grow
from one idea to the next (`CandidatesGrow`), so a newcomer with a legal opponent has
one (`NewcomersHaveCandidates`). The first phase gives each newcomer in its turn a
match or finds that an earlier one has it (`SlotsAreGiven`, `Accounted`), and a later
slot never undoes an earlier (`PlansContinue`); a newcomer that sits out was therefore
reached only after the plan was full, each match of it the first of somebody served no
later (`NewcomersAreServed`). Who reads first is by the parity of the meetings before:
`MeetInv` keeps that for every completed match, with the matches in the order of their
rounds (`RoundsInOrder`) and no pair twice in a round (`OncePerRound`), whatever plans
a resumed round adds.

`EstimatesAreSafe`: the price of a run, in total and by role, covers
every call it makes. `BillInv` relates the calls made so far to the rounds begun
(`RolesBilled`, `ReviewsBilled`), the pool to what was generated and evolved
(`PoolBilled`), and what is left to do to what is left of the price (`EndBilled`).

`ResearchProofs`: `PaidAtMostOnce` and `ResultsAreHeld`. A result recorded by a dead
supervisor is applied only if its successor asks for the same things again, so the
invariant says what is at hand at every step: which checkpoint and which units a
wave may be about (`Placed`), that the units on record are of the kind the checkpoint
was decided to do (`Kinds`), that rows are made of recorded results (`Pooled`), and
that an active candidate without a route is still at hand, or will be asked for again
(`Routed`). That last step needs the portfolio not to be empty while a candidate has
no verdict, which in turn needs its order to be one (`PrecedesIsAnOrder`,
`SelectedNotEmpty`). Checking the invariant showed the exception which `ResultsApplied` states: with the
portfolio emptied between death and resume, a checkpoint decided to develop explores
(`FellBack`), and only active candidates are promised a route. `Heard`, `Answered`
and `Guided` do the same for verdicts, answers and notes.

`KillTreeProofs`: `KillIsContained` and `KilledIsGone`. A signal through a pidfd is
about a birth, and the invariant follows births, not pids: what is held is of the
family and spares the killer's own tree (`HeldOK`), what was signalled is held by its
birth (`SignalledOK`), and everybody of the family who is not cut off is the target,
below it or frozen (`FoundOK`). The lemmas about the walk carry it: a fork adds one
process to what is found (`BelowAfterFork`), an exit loses only what was below it
(`BelowAfterEnd`), and the ancestors of the killer can only become fewer, so a check
made once at the start holds to the end.

Where a definition is a recursion over numbers its proof is a least counterexample by
`WFMin`: `Climb` and `Iterates` carry it for the folds of Ranking, Diversity and
Estimates.

What the theorems assume is in the `ASSUME` of each module, evaluated by TLC in the
runs, and the hypotheses `Patient`, `OneWriter` and `GainIsInt` where they are named.

## Only model-checked

- All liveness (`RunEnds`, `StopEndsTheRun`, `DesertedRunsAreBuried`,
  `EveryEventArrives`, `RunReports`, `ProcessesAnswer`, `PartsAnswer`), and with it the
  fairness of the refinements: the prover has no rule for `ENABLED` and the installed
  back ends do not chain leads-to over data.

## Known divergences

Four runs state what a comment, a docstring or a button's text says and show a
behaviour of the code that departs from it.

1. `run_control_two_resumes` (`services/runs/controls.py:334`): `_resume` checks the
   lane, sets a flag, spawns and stamps in four transactions and never claims the
   run, so two resumes of one paused run start two processes that both drive it,
   against "A paused run has no process" and the single-writer rule.
2. `role_call_substitution` (`engine/claude_runner.py:757`): a call killed at its
   deadline after its result line is salvaged before the substitution check, so an
   answer by a model below the floor is accepted, against the comments at 752 and 774.
3. `run_control_lost_stop` (`engine/orchestrator.py:393`): a stop is accepted while the
   run is `pausing` (`LEGAL_ACTIONS`), and `_pause` then clears the flag whatever it
   holds: the run comes to rest paused, without a report, against "The supervisor reads
   it at every step boundary and acts on it there" (controls.py:5-6) and "Stopping ends
   the run after the calls already in flight" (status.ts:300). `StopEndsTheRun` is the
   half that holds: a stop that stands while the process is at work ends the run, and
   coming to rest paused does not count as an end.
4. `round_steps_lost_notes` (`engine/orchestrator.py:512`): the notes are claimed in one
   transaction and saved in another, so a run killed between them loses guidance,
   against `_drain_interventions`' docstring (509-510). `NotesKept` says that nothing
   else loses a note.

Others were met while modelling. They are kept here and not as runs; each is a
property one can state over the present modules. `O` is `engine/orchestrator.py`,
`S` `engine/store.py`, `C` `services/runs/controls.py`.

Requests, supervisors and money:

- C:544: a launch commits its row before its process is started and stamped. A force
  stop that read the row in between finds no pid, kills nothing and writes `stopped`,
  against "kill the tree, then write the ending the process will never write"
  (controls.py:529); a continue then starts a second process beside the first. `OneDriver`
  fails with `Asked = {"launch", "force_stop", "continue"}`, three requests, two slots,
  two processes and no `Patient`.
- O:403: the terminal lifecycle is committed before the last events are emitted, so a
  continue is granted, and emits `run_extended`, while the process that ended the run is
  still emitting, against "there is no supervisor alive to race the single-writer
  discipline with" (controls.py:430-431).
- C:334 with O:2321: a stop accepted while paused is overwritten by the resume.
- C:719 with C:732: a continued run carries an old heartbeat and a dead pid until it
  is stamped, so the reconciler may mark it lost while its process boots.
- C:731: the reconciler's mark is judged on a row read before, and overwrites an
  ending written since.
- S:1076 with `launcher.py:270`: a run deleted while it holds the lane disappears from
  the queries that would free the lane and not from the index that guards it.
- After O:403 an engine that raises with its ending committed overwrites `completed`
  with `failed`.
- docs/architecture.md:129 says the reconciler parks a run whose supervisor died so that
  it can be resumed; it marks it `lost` (C:731), which is neither resumable nor
  continuable (C:110-120), and controls.py:34 says so.
- S:911 against S:883-886: the dollar reserve is priced from the mean cost so far,
  which is 0 before the first booking, so a first wave may use up the report's share.
- O:1870: the rate-limit gate is read before the wait for a slot and not after it.

Resumed work:

- O:604: the pending seed is cleared before the wave that would hear it has ended.
- O:1346: newcomers are lost to the plan when a death falls between the pool's mark
  and the plan.
- Reviews of a round resumed after its meta-review are never heard by one.
- O:988-990: a proximity map of unknown ids only, or of a later clustering that
  failed, replaces the one the tournament worked from.
- `engine/research.py`: a checkpoint decided to develop resumes by exploring when its
  portfolio was emptied meanwhile, and by developing when it was filled, and then
  does not apply what the other kind had recorded (`FellBack`). An answer of a lost
  supervisor is saved under the guidance of the next one's day
  (`ReadyHeardGuidance` excepts it).

Models, imports, workshop:

- `runners.py:655-658`: a frozen table of a known provider may be refused later, when
  the catalogue no longer has its model.
- `launcher.py:389-397`: the clone of a run older than `model_overrides` takes today's.
- `runners.py:153-158` and `settings/models.py:8` describe tiers otherwise than the
  code buckets them.
- `main.py:94` with `importer.py:394`: the pass at boot brings back runs that were
  renamed, archived or deleted; a directory that raises stops the rest of the pass.
- `services/workshop/service.py`, `_TIMEOUT_GRACE_S`: its comment promises a margin the
  moving deadline of the runner can exceed.

The page (`frontend/src/store/runs.ts`):

- A first detail whose events are newer than its rows (several statements under READ
  COMMITTED) is never fetched again; a newest request that fails is not retried;
  leaving the page with a refetch armed loses it.
- 424-432: a lifecycle that turns terminal through the list poll hangs up without the
  drain; and a detail of a continued run sees the closing event of the earlier pass
  and does not arm it.
- 714, "Cheap, always-correct patches only": an older event's lifecycle overwrites a
  newer detail's.

## Not modelled, and why

- Two places where the code takes two transactions and a module takes one step. In
  Research, `Answer` books a call and records its result, and `Drain` claims the notes
  and saves them: that an answer which arrived is kept is therefore not a claim of that
  module. CallWave has a call's return, its booking and a death between them, RoundSteps
  the claim and the save of the notes.
- A projection's file is written to a temporary and renamed (`projection.py:417`); that
  a rename is whole is assumed, so a torn write of Projection leaves the shelf alone.
- The kill without pidfds (`spawn.py:631-634`).

- Prompts, schemas, parsing, rendering: text. A call's result is a free choice among
  what the validation lets through.
- Wall-clock ceilings and call timeouts in CallWave: a timeout is one more outcome of a
  call, and a step may end before any wave. RoleCall has the clock inside a call.
- Reads, the HTTP layer, identity, capabilities, probes: a query or a decision per
  request over rows other parts own. What reads can tear is in RunPage.
- Several pages and several API processes: streams share nothing, and the ticket
  store and the listener are per process.
- The text of an imported run, calibration and prices: data without control.
- Migrations, containers, scripts, archived engines: deployment and reference; the
  constraints the migrations create are those of RunControl's guards.

## Plan

Every safety property the runs check has a theorem. What is left:

1. The four hazards listed without a property (`PROJECT.json`), once the code settles
   what it means to happen there; their lines are under the divergences above.
2. Liveness proofs, when the prover has a rule for `ENABLED`.
