----------------------------- MODULE RoundSteps ------------------------------
(***************************************************************************)
(* The seven steps of a round as a supervisor takes them: Orchestrator's   *)
(* _round and the steps it calls, with the RunStore transactions that make *)
(* a round resumable.  One action is one transaction, or one wave of calls *)
(* seen through the results it brings back (the wave itself is CallWave).  *)
(* A supervisor may pause at a boundary or die between any two actions;    *)
(* whoever resumes the run has only the rows and the marks.                *)
(*                                                                         *)
(* Elo is not kept: the order it induces is a free choice where it is      *)
(* used.  Ranking has the ratings and the pairing.                         *)
(***************************************************************************)
EXTENDS Naturals, FiniteSets

CONSTANTS
  MaxRounds,      \* bound: rounds a run may be extended to
  FirstTarget,    \* the rounds it is launched with
  Shards,         \* generation shards of a round, numbered from 1
  PerUnit,        \* bound: ideas one shard or one evolution call returns
  MaxIdeas,       \* bound: rows in the pool
  Labels,         \* cluster labels, positive numbers
  PerRound,       \* matches_per_round
  MaxTries,       \* MAX_EVOLUTION_ATTEMPTS
  Cooldown,       \* graft.cooldown
  Notes,          \* notes the scientist may give
  MaxFaults,      \* bound: pauses, stops, deaths and calls that fail
  MaxArchives,    \* bound: ideas the scientist sets aside
  NotesAt,        \* bound: the steps at which he gives notes ...
  ArchivesAt      \* ... and sets ideas aside

ASSUME RoundStepsAssumption ==
  /\ {MaxRounds, PerUnit, MaxIdeas, MaxTries} \subseteq Nat \ {0}
  /\ {PerRound, Cooldown, MaxFaults, MaxArchives} \subseteq Nat
  /\ FirstTarget \in 1 .. MaxRounds
  /\ Shards \subseteq Nat \ {0} /\ Shards # {} /\ IsFiniteSet(Shards)
  /\ Labels \subseteq Nat \ {0} /\ IsFiniteSet(Labels)
  /\ IsFiniteSet(Notes)

VARIABLES
  \* rows
  idea,        \* hypotheses by number: hid h001 is idea[1]
  match,       \* match[r]: the round's matches, by pair
  mark,        \* mark[r]: engine_state.steps[r]
  queue,       \* pending_interventions: the notes in it
  noted,       \* noted[r]: engine_state.round_notes[r]
  seed,        \* graft_state: the seed pending and the last round that fired
  fed,         \* feedback_history: what the meta-review of each round was shown
  closed,      \* last_completed_round
  target,      \* rounds_target
  overview,    \* "none", "fresh", or "stale" after a continue
  \* the supervisor
  pc,          \* its step; "off" without a supervisor, "over" after the end
  at,          \* its local variables
  \* history
  given,       \* notes the scientist gave
  dropped,     \* notes in the hands of a supervisor that died
  passes,      \* passes[r][u]: passes over a unit that added ideas
  torn,        \* deaths between a unit's first idea and its mark
  unheard,     \* reviews whose mark a death prevented
  faults, archives

rows  == <<idea, match, mark, queue, noted, seed, fed, closed, target, overview>>
history == <<given, dropped, passes, torn, unheard, archives>>
ghost == <<history, faults>>
vars  == <<rows, pc, at, ghost>>

Rounds == 1 .. MaxRounds
Ids    == 1 .. MaxIdeas
Pairs  == {p \in SUBSET Ids : Cardinality(p) = 2}
Units  == Shards \cup {0}     \* 0 is the round's evolution

----------------------------------------------------------------------------
(* Rows and what the steps read from them *)

Unborn == [status |-> "none", born |-> 0, unit |-> 0, dup |-> 0, label |-> 0,
           reviews |-> 0, seed |-> 0, played |-> FALSE]

Born   == {i \in Ids : idea[i].status # "none"}
Active == {i \in Ids : idea[i].status = "active"}

\* hid is the next number in the run
NextId == Cardinality(Born) + 1

NewIdea(r, u, s) ==
  [Unborn EXCEPT !.status = "active", !.born = r, !.unit = u, !.seed = s]

NoMarks == [shards |-> {}, reviewed |-> {}, prox |-> "no", covered |-> {},
            graft |-> FALSE, pool |-> {}, evo |-> FALSE, tries |-> 0]

Planned(r) == {p \in Pairs : match[r][p] = "planned"}
Plan(r)    == {p \in Pairs : match[r][p] # "none"}

\* A pair may meet unless the clustering called the two the same idea.
Legal(p) == \A i, j \in p : i = j \/ idea[i].label = 0 \/ idea[i].label # idea[j].label

\* make_pairs: at most PerRound legal pairs, and as many as there are to fill it
\* is not promised, but one is.
Pairings(pool) ==
  LET legal == {p \in Pairs : p \subseteq pool /\ Legal(p)}
  IN {s \in SUBSET legal : Cardinality(s) <= PerRound /\ (s = {} => legal = {} \/ PerRound = 0)}

\* Follow duplicate_of from i to a row that still stands.
Survivor(i, row, retiring) ==
  LET Next(c) == IF /\ row[c].status # "active" \/ c \in retiring
                    /\ row[c].dup \notin {0, c}
                   THEN row[c].dup ELSE c
      walk[n \in 0 .. MaxIdeas] == IF n = 0 THEN i ELSE Next(walk[n - 1])
  IN walk[MaxIdeas]

\* A label's champion: a judged member if it has one (which of them is a
\* matter of Elo), else the first, as all ratings are then equal.
Champions(members) ==
  LET judged == {i \in members : idea[i].played}
  IN IF judged # {} THEN judged
     ELSE {CHOOSE i \in members : \A j \in members : i <= j}

\* The maps from non-champions to champions a labelling allows.
Duplicates(label) ==
  LET groups   == {{i \in DOMAIN label : label[i] = l} : l \in Labels} \ {{}}
      Group(i) == {j \in DOMAIN label : label[j] = label[i]}
      choices  == {c \in SUBSET DOMAIN label :
                     \A g \in groups : \E i \in Champions(g) : c \cap g = {i}}
  IN {[i \in DOMAIN label \ c |-> CHOOSE j \in c : j \in Group(i)] : c \in choices}

\* Mutant: pointers are written once and never re-aimed.
ClusteredOnce(label, dups) ==
  [i \in Ids |->
     LET row == IF i \in DOMAIN label
                  THEN [idea[i] EXCEPT !.label = label[i]] ELSE idea[i]
     IN IF i \in DOMAIN dups
          THEN [row EXCEPT !.dup = dups[i], !.status = "archived"] ELSE row]

\* apply_clusters: label, archive the duplicates, re-aim what pointed at them.
Clustered(label, dups) ==
  LET to     == [i \in DOMAIN dups |-> Survivor(dups[i], idea, DOMAIN dups)]
      merged == [i \in Ids |->
        LET row == IF i \in DOMAIN label
                     THEN [idea[i] EXCEPT !.label = label[i]] ELSE idea[i]
        IN IF i \in DOMAIN to /\ to[i] # i
             THEN [row EXCEPT !.dup = to[i],
                              !.status = IF @ = "active" THEN "archived" ELSE @]
             ELSE row]
  IN [i \in Ids |->
        IF merged[i].dup \in DOMAIN to /\ to[merged[i].dup] # i
          THEN [merged[i] EXCEPT !.dup = to[merged[i].dup]] ELSE merged[i]]

\* archive_hypothesis: set i aside and re-aim what pointed at it.
SetAside(i) ==
  LET to == Survivor(i, [idea EXCEPT ![i].status = "archived"], {i})
  IN [j \in Ids |->
        IF j = i THEN [idea[i] EXCEPT !.status = "archived"]
        ELSE IF idea[j].dup = i /\ j # to
          THEN [idea[j] EXCEPT !.dup = IF to # i THEN to ELSE 0]
          ELSE idea[j]]

----------------------------------------------------------------------------
(* The supervisor's way through a round *)

Fault   == faults < MaxFaults /\ faults' = faults + 1
NoFault == UNCHANGED faults

Idle == [round |-> 0, hand |-> {}, seed |-> 0, work |-> {}, unit |-> 0,
         added |-> 0, pool |-> {}]

Goto(step) == pc' = step /\ at' = [at EXCEPT !.work = {}, !.pool = {}, !.added = 0]
Mark(key, value) == mark' = [mark EXCEPT ![at.round][key] = value]

Init ==
  /\ idea = [i \in Ids |-> Unborn]
  /\ match = [r \in Rounds |-> [p \in Pairs |-> "none"]]
  /\ mark = [r \in Rounds |-> NoMarks]
  /\ queue = {}
  /\ noted = [r \in Rounds |-> {}]
  /\ seed = [pending |-> 0, fired |-> 0]
  /\ fed = [r \in {} |-> {}]
  /\ closed = 0 /\ target = FirstTarget
  /\ overview = "none"
  /\ pc = "off" /\ at = Idle
  /\ given = {} /\ dropped = {} /\ unheard = {}
  /\ passes = [r \in Rounds |-> [u \in Units |-> 0]]
  /\ torn = 0
  /\ faults = 0 /\ archives = 0

\* _drive: the first round not completed, or the report
Boot ==
  /\ pc = "off"
  /\ at' = [Idle EXCEPT !.round = closed + 1]
  /\ pc' = IF closed < target THEN "boundary" ELSE "report"
  /\ UNCHANGED <<rows, ghost>>

\* _drain_interventions takes the notes off the queue in one transaction ...
Claim ==
  /\ pc = "boundary"
  /\ pc' = "save"
  /\ at' = [at EXCEPT !.hand = queue]
  /\ queue' = {}
  /\ UNCHANGED <<idea, match, mark, noted, seed, fed, closed, target, overview, ghost>>

\* Mutant: what an abandoned pass had claimed for the round is overwritten.
SaveNotesAnew ==
  /\ pc = "save"
  /\ pc' = "open"
  /\ noted' = [noted EXCEPT ![at.round] = at.hand]
  /\ at' = [at EXCEPT !.hand = {}]
  /\ UNCHANGED <<idea, match, mark, queue, seed, fed, closed, target, overview, ghost>>

\* ... and saves them against the round in the next.
SaveNotes ==
  /\ pc = "save"
  /\ pc' = "open"
  /\ noted' = [noted EXCEPT ![at.round] = @ \cup at.hand]
  /\ at' = [at EXCEPT !.hand = {}]
  /\ UNCHANGED <<idea, match, mark, queue, seed, fed, closed, target, overview, ghost>>

\* The round's context is built once: its seed is the one pending now.
Open ==
  /\ pc = "open"
  /\ pc' = "generate"
  /\ at' = [at EXCEPT !.seed = seed.pending]
  /\ UNCHANGED <<rows, ghost>>

\* Mutant: the early return of a finished generation leaves the seed standing.
GenerateReturns ==
  /\ pc = "generate"
  /\ LET due == Shards \ mark[at.round].shards
     IN /\ at' = [at EXCEPT !.work = due, !.added = 0]
        /\ pc' = IF due = {} THEN "reflect" ELSE "add"
  /\ NoFault
  /\ UNCHANGED <<rows, given, dropped, passes, torn, unheard, archives>>

\* 1. The shards not marked are asked again; some of them answer.
Generate ==
  /\ pc = "generate"
  /\ \E ok \in SUBSET (Shards \ mark[at.round].shards) :
       /\ at' = [at EXCEPT !.work = ok, !.added = 0]
       /\ pc' = IF ok = {} THEN "clear" ELSE "add"
       /\ IF ok = Shards \ mark[at.round].shards THEN NoFault ELSE Fault
  /\ UNCHANGED <<rows, given, dropped, passes, torn, unheard, archives>>

Room == Cardinality(Born) < MaxIdeas

\* The answers are taken in the order of the shards.
Shard == CHOOSE s \in at.work : \A t \in at.work : s <= t

\* add_hypothesis, one transaction for each idea of an answer
AddIdea(u, s) ==
  /\ Room /\ at.added < PerUnit
  /\ idea' = [idea EXCEPT ![NextId] = NewIdea(at.round, u, s)]
  /\ at' = [at EXCEPT !.added = @ + 1]
  /\ passes' = IF at.added = 0 THEN [passes EXCEPT ![at.round][u] = @ + 1] ELSE passes
  /\ UNCHANGED <<pc, match, mark, queue, noted, seed, fed, closed, target, overview,
                 given, dropped, torn, unheard, faults, archives>>

AddGenerated == pc = "add" /\ AddIdea(Shard, at.seed)

MarkShard ==
  /\ pc = "add"
  /\ at.added > 0 \/ ~Room
  /\ Mark("shards", mark[at.round].shards \cup {Shard})
  /\ at' = [at EXCEPT !.work = @ \ {Shard}, !.added = 0]
  /\ pc' = IF at.work = {Shard} THEN "clear" ELSE "add"
  /\ UNCHANGED <<idea, match, queue, noted, seed, fed, closed, target, overview, ghost>>

\* _clear_seed: once every shard of the round has been marked
ClearSeed ==
  /\ pc = "clear"
  /\ LET used == at.seed # 0 /\ mark[at.round].shards = Shards
     IN seed' = IF used THEN [seed EXCEPT !.pending = 0] ELSE seed
  /\ Goto("reflect")
  /\ UNCHANGED <<idea, match, mark, queue, noted, fed, closed, target, overview,
                 given, dropped, passes, torn, unheard, faults, archives>>

\* Mutant: the resume unit is the round's mark, not the missing review.
ReflectByMark ==
  /\ pc = "reflect"
  /\ pc' = "review"
  /\ at' = [at EXCEPT !.work = Active \ mark[at.round].reviewed]
  /\ UNCHANGED <<rows, ghost>>

\* 2. Every active idea nobody has reviewed goes to a reviewer.
Reflect ==
  /\ pc = "reflect"
  /\ pc' = "review"
  /\ at' = [at EXCEPT !.work = {i \in Active : idea[i].reviews = 0 /\ idea[i].dup = 0}]
  /\ UNCHANGED <<rows, ghost>>

\* record_review; a rejected idea is retired in the same transaction
RecordReview(i, verdict) ==
  /\ pc = "review" /\ i \in at.work
  /\ idea' = [idea EXCEPT ![i].reviews = @ + 1,
                          ![i].status = IF verdict = "reject" /\ @ = "active"
                                          THEN "rejected" ELSE @]
  /\ at' = [at EXCEPT !.unit = i, !.work = @ \ {i}]
  /\ pc' = "reviewed"
  /\ UNCHANGED <<match, mark, queue, noted, seed, fed, closed, target, overview, ghost>>

MarkReviewed ==
  /\ pc = "reviewed"
  /\ Mark("reviewed", mark[at.round].reviewed \cup {at.unit})
  /\ pc' = "review" /\ at' = [at EXCEPT !.unit = 0]
  /\ UNCHANGED <<idea, match, queue, noted, seed, fed, closed, target, overview, ghost>>

\* The reviews still out failed or were never affordable.
ReviewsEnd ==
  /\ pc = "review"
  /\ IF at.work = {} THEN NoFault ELSE Fault
  /\ Goto("cluster")
  /\ UNCHANGED <<rows, history>>

\* Mutant: the mark is a boolean, whatever pool it was set over.
ClusterDoneByRound ==
  /\ pc = "cluster"
  /\ mark[at.round].prox # "no"
  /\ Goto("collapse")
  /\ UNCHANGED <<rows, ghost>>

\* 3. The clustering's resume unit is the pool its mark covers.
ClusterDone ==
  /\ pc = "cluster"
  /\ mark[at.round].prox # "no"
  /\ mark[at.round].covered = {} \/ Active \subseteq mark[at.round].covered
  /\ Goto("collapse")
  /\ UNCHANGED <<rows, ghost>>

ClusterDue ==
  /\ pc = "cluster"
  /\ \/ mark[at.round].prox = "no"
     \/ mark[at.round].covered # {} /\ ~ Active \subseteq mark[at.round].covered

MarkCluster(result, pool) ==
  /\ mark' = [mark EXCEPT ![at.round].prox = result, ![at.round].covered = pool]
  /\ UNCHANGED <<idea, match, queue, noted, seed, fed, closed, target, overview, history>>

ClusterSmall ==
  /\ ClusterDue /\ Cardinality(Active) < 2
  /\ MarkCluster("ok", Active) /\ NoFault
  /\ Goto("collapse")

ClusterAsk ==
  /\ ClusterDue /\ Cardinality(Active) >= 2
  /\ pc' = "proximity" /\ at' = [at EXCEPT !.pool = Active]
  /\ UNCHANGED <<rows, ghost>>

ClusterFailed ==
  /\ pc = "proximity"
  /\ MarkCluster("failed", at.pool) /\ Fault
  /\ Goto("collapse")

\* The answer may leave ideas of the pool unlabelled.
ApplyClusters ==
  /\ pc = "proximity"
  /\ \E some \in SUBSET at.pool : \E label \in [some -> Labels] :
       \E dups \in Duplicates(label) : idea' = Clustered(label, dups)
  /\ pc' = "clustered"
  /\ UNCHANGED <<at, match, mark, queue, noted, seed, fed, closed, target, overview, ghost>>

\* A pool clustered again has its collapse reading taken again.
MarkClustered ==
  /\ pc = "clustered"
  /\ mark' = [mark EXCEPT ![at.round].prox = "ok", ![at.round].covered = at.pool,
                          ![at.round].graft = FALSE]
  /\ Goto("collapse")
  /\ UNCHANGED <<idea, match, queue, noted, seed, fed, closed, target, overview, ghost>>

\* 4. A collapsed pool parks a seed for the next round's generation.  Without
\* clusters there is nothing to measure.
CollapseDone ==
  /\ pc = "collapse" /\ mark[at.round].graft
  /\ Goto("tournament")
  /\ UNCHANGED <<rows, ghost>>

\* The clustering failed, the pool has not collapsed, or the call failed.
CollapseAbstain ==
  /\ pc = "collapse" /\ ~ mark[at.round].graft
  /\ Mark("graft", TRUE)
  /\ Goto("tournament")
  /\ UNCHANGED <<idea, match, queue, noted, seed, fed, closed, target, overview, ghost>>

Cooled(r) == seed.fired = 0 \/ r > seed.fired + Cooldown

RecordGraft ==
  /\ pc = "collapse" /\ ~ mark[at.round].graft
  /\ mark[at.round].prox # "failed" /\ Cooled(at.round)
  /\ \E i \in mark[at.round].covered : idea[i].label # 0
  /\ seed' = [pending |-> at.round, fired |-> at.round]
  /\ pc' = "grafted"
  /\ UNCHANGED <<at, idea, match, mark, queue, noted, fed, closed, target, overview, ghost>>

MarkGraft ==
  /\ pc = "grafted"
  /\ Mark("graft", TRUE)
  /\ Goto("tournament")
  /\ UNCHANGED <<idea, match, queue, noted, seed, fed, closed, target, overview, ghost>>

\* 5. The plan is replayed, and extended for ideas its pool did not hold.
Newcomers == Active \ mark[at.round].pool

\* Mutant: a resumed round pairs its ideas again from the standings.
AdditionsAnew == Pairings(Active)

Additions ==
  IF Plan(at.round) = {} THEN Pairings(Active)
  ELSE IF mark[at.round].pool = {} THEN {{}}
  ELSE {{p \in s : \A q \in Plan(at.round) : p \cap q = {}} : s \in Pairings(Newcomers)}

PlanDone ==
  /\ pc = "tournament" /\ {} \in Additions
  /\ pc' = "judge" /\ at' = [at EXCEPT !.work = Planned(at.round)]
  /\ UNCHANGED <<rows, ghost>>

MarkPool ==
  /\ pc = "tournament"
  /\ \E s \in Additions \ {{}} : at' = [at EXCEPT !.work = s]
  /\ Mark("pool", Active)
  /\ pc' = "plan"
  /\ UNCHANGED <<idea, match, queue, noted, seed, fed, closed, target, overview, ghost>>

PlanMatches ==
  /\ pc = "plan"
  /\ match' = [match EXCEPT ![at.round] =
                 [p \in Pairs |-> IF p \in at.work /\ @[p] = "none" THEN "planned" ELSE @[p]]]
  /\ at' = [at EXCEPT !.work = Planned(at.round) \cup at.work]
  /\ pc' = "judge"
  /\ UNCHANGED <<idea, mark, queue, noted, seed, fed, closed, target, overview, ghost>>

\* record_match; a call that failed closes the match as skipped
RecordMatch(p, result) ==
  /\ pc = "judge" /\ p \in at.work
  /\ match[at.round][p] = "planned"
  /\ IF result = "skipped" THEN Fault ELSE NoFault
  /\ match' = [match EXCEPT ![at.round][p] = result]
  /\ idea' = [i \in Ids |-> IF i \in p /\ result = "completed"
                              THEN [idea[i] EXCEPT !.played = TRUE] ELSE idea[i]]
  /\ at' = [at EXCEPT !.work = @ \ {p}]
  /\ UNCHANGED <<pc, mark, queue, noted, seed, fed, closed, target, overview, history>>

JudgeEnd ==
  /\ pc = "judge" /\ at.work = {}
  /\ Goto("evolve")
  /\ UNCHANGED <<rows, ghost>>

\* 6. One call breeds variants; a failed one is tried again by a later pass.
EvolveDone ==
  /\ pc = "evolve" /\ mark[at.round].evo
  /\ Goto("meta")
  /\ UNCHANGED <<rows, ghost>>

EvolveNothing ==
  /\ pc = "evolve" /\ ~ mark[at.round].evo /\ Active = {}
  /\ Mark("evo", TRUE)
  /\ Goto("meta")
  /\ UNCHANGED <<idea, match, queue, noted, seed, fed, closed, target, overview, ghost>>

EvolveFailed ==
  /\ pc = "evolve" /\ ~ mark[at.round].evo /\ Active # {}
  /\ Mark("tries", mark[at.round].tries + 1)
  /\ Goto(IF mark[at.round].tries + 1 >= MaxTries THEN "giveup" ELSE "meta")
  /\ Fault
  /\ UNCHANGED <<idea, match, queue, noted, seed, fed, closed, target, overview, history>>

Evolve ==
  /\ pc = "evolve" /\ ~ mark[at.round].evo /\ Active # {}
  /\ Goto("breed")
  /\ UNCHANGED <<rows, ghost>>

\* A variant has the seed its parents share, if they share one.
AddVariant ==
  /\ pc = "breed"
  /\ \E s \in {0} \cup {idea[i].seed : i \in Born} : AddIdea(0, s)

MarkEvolution ==
  /\ \/ pc = "giveup"
     \/ pc = "breed" /\ (at.added > 0 \/ ~Room)
  /\ Mark("evo", TRUE)
  /\ Goto("meta")
  /\ UNCHANGED <<idea, match, queue, noted, seed, fed, closed, target, overview, ghost>>

\* 7. The meta-review reads the reviews marked in this round, once.
MetaReview ==
  /\ pc = "meta" /\ at.round \notin DOMAIN fed
  /\ fed' = [r \in DOMAIN fed \cup {at.round} |->
               IF r = at.round THEN mark[r].reviewed ELSE fed[r]]
  /\ Goto("close")
  /\ UNCHANGED <<idea, match, mark, queue, noted, seed, closed, target, overview, ghost>>

\* There is one already, or the call failed.
NoMetaReview ==
  /\ pc = "meta"
  /\ IF at.round \in DOMAIN fed THEN NoFault ELSE Fault
  /\ Goto("close")
  /\ UNCHANGED <<rows, history>>

\* Mutant: the next round is computed from the mark before this one's.
CloseStale ==
  /\ pc = "close"
  /\ closed' = at.round
  /\ at' = [Idle EXCEPT !.round = IF closed = 0 THEN 1 ELSE closed]
  /\ pc' \in IF at.round < target THEN {"boundary", "report"} ELSE {"report"}
  /\ UNCHANGED <<idea, match, mark, queue, noted, seed, fed, target, overview, ghost>>

\* The round is complete; a finish request ends the run here.
Close ==
  /\ pc = "close"
  /\ closed' = at.round
  /\ at' = [Idle EXCEPT !.round = at.round + 1]
  /\ pc' \in IF at.round < target THEN {"boundary", "report"} ELSE {"report"}
  /\ UNCHANGED <<idea, match, mark, queue, noted, seed, fed, target, overview, ghost>>

\* _write_overview and the end of _finish
Report ==
  /\ pc = "report"
  /\ pc' = "over" /\ at' = Idle
  /\ \/ overview' = "fresh" /\ NoFault
     \/ overview # "fresh" /\ UNCHANGED overview /\ Fault
  /\ UNCHANGED <<idea, match, mark, queue, noted, seed, fed, closed, target, history>>

----------------------------------------------------------------------------
(* What cuts a round short, and the scientist *)

Boundaries == {"boundary", "reflect", "cluster", "collapse", "tournament", "evolve", "meta"}

\* _interrupted found a pause: the supervisor goes, the marks stay.
Pause ==
  /\ pc \in Boundaries /\ Fault
  /\ pc' = "off" /\ at' = Idle
  /\ UNCHANGED <<rows, history>>

\* A stop, a spent budget or a passed wall clock; matches may be left planned.
Stop ==
  /\ pc \in Boundaries \cup {"judge"} /\ Fault
  /\ pc' = "report" /\ at' = Idle
  /\ UNCHANGED <<rows, history>>

Die ==
  /\ pc \notin {"off", "over"} /\ Fault
  /\ pc' = "off" /\ at' = Idle
  /\ dropped' = dropped \cup at.hand
  /\ torn' = IF pc \in {"add", "breed"} /\ at.added > 0 THEN torn + 1 ELSE torn
  /\ unheard' = IF pc = "reviewed" THEN unheard \cup {at.unit} ELSE unheard
  /\ UNCHANGED <<rows, given, passes, archives>>

\* extend_run: more rounds, and a report that no longer describes the run
Continue ==
  /\ pc = "over"
  /\ target' \in closed + 1 .. MaxRounds
  /\ overview' = IF overview = "none" THEN "none" ELSE "stale"
  /\ pc' = "off"
  /\ UNCHANGED <<at, idea, match, mark, queue, noted, seed, fed, closed, ghost>>

GiveNote(n) ==
  /\ n \notin given /\ pc \in NotesAt
  /\ given' = given \cup {n} /\ queue' = queue \cup {n}
  /\ UNCHANGED <<idea, match, mark, noted, seed, fed, closed, target, overview, pc, at,
                 dropped, passes, torn, unheard, faults, archives>>

Archive(i) ==
  /\ pc \in ArchivesAt
  /\ archives < MaxArchives /\ archives' = archives + 1
  /\ i \in Born
  /\ idea' = SetAside(i)
  /\ UNCHANGED <<match, mark, queue, noted, seed, fed, closed, target, overview, pc, at,
                 given, dropped, passes, torn, unheard, faults>>

----------------------------------------------------------------------------

Prepare  == Claim \/ SaveNotes \/ Open
Produce  == Generate \/ AddGenerated \/ MarkShard \/ ClearSeed
Criticise ==
  \/ Reflect \/ MarkReviewed \/ ReviewsEnd
  \/ \E i \in Ids, v \in {"keep", "reject"} : RecordReview(i, v)
Group ==
  \/ ClusterDone \/ ClusterSmall \/ ClusterAsk \/ ClusterFailed
  \/ ApplyClusters \/ MarkClustered
Diverge  == CollapseDone \/ CollapseAbstain \/ RecordGraft \/ MarkGraft
Compete ==
  \/ PlanDone \/ MarkPool \/ PlanMatches \/ JudgeEnd
  \/ \E p \in Pairs, result \in {"completed", "skipped"} : RecordMatch(p, result)
Breed ==
  \/ EvolveDone \/ EvolveNothing \/ EvolveFailed \/ Evolve \/ AddVariant \/ MarkEvolution
Conclude == MetaReview \/ NoMetaReview \/ Close \/ Report

Supervise ==
  \/ Boot \/ Prepare \/ Produce \/ Criticise \/ Group
  \/ Diverge \/ Compete \/ Breed \/ Conclude

Next ==
  \/ Supervise
  \/ Pause \/ Stop \/ Die \/ Continue
  \/ \E n \in Notes : GiveNote(n)
  \/ \E i \in Ids : Archive(i)

Spec     == Init /\ [][Next]_vars
LiveSpec == Spec /\ WF_vars(Supervise)

----------------------------------------------------------------------------
(* Properties *)

Row == [status : {"none", "active", "rejected", "archived"}, born : 0 .. MaxRounds,
        unit : Units, dup : 0 .. MaxIdeas, label : Labels \cup {0}, reviews : Nat,
        seed : 0 .. MaxRounds, played : BOOLEAN]

MarkRow == [shards : SUBSET Shards, reviewed : SUBSET Ids, prox : {"no", "ok", "failed"},
            covered : SUBSET Ids, graft : BOOLEAN, pool : SUBSET Ids, evo : BOOLEAN,
            tries : Nat]

Steps == Boundaries \cup
  {"off", "save", "open", "generate", "add", "clear", "review", "reviewed", "proximity",
   "clustered", "grafted", "plan", "judge", "breed", "giveup", "close", "report", "over"}

\* Every row, mark and local variable has the shape the code gives it.
TypeOK ==
  /\ idea \in [Ids -> Row]
  /\ match \in [Rounds -> [Pairs -> {"none", "planned", "completed", "skipped"}]]
  /\ mark \in [Rounds -> MarkRow]
  /\ queue \subseteq Notes /\ given \subseteq Notes /\ dropped \subseteq Notes
  /\ noted \in [Rounds -> SUBSET Notes]
  /\ seed \in [pending : 0 .. MaxRounds, fired : 0 .. MaxRounds]
  /\ DOMAIN fed \subseteq Rounds /\ \A r \in DOMAIN fed : fed[r] \subseteq Ids
  /\ closed \in 0 .. MaxRounds /\ target \in Rounds
  /\ overview \in {"none", "fresh", "stale"}
  /\ pc \in Steps
  /\ at.round \in 0 .. MaxRounds + 1 /\ at.hand \subseteq Notes
  /\ at.seed \in 0 .. MaxRounds /\ at.added \in 0 .. PerUnit /\ at.pool \subseteq Ids
  /\ passes \in [Rounds -> [Units -> Nat]] /\ torn \in Nat
  /\ unheard \subseteq Ids
  /\ faults \in 0 .. MaxFaults /\ archives \in 0 .. MaxArchives

\* A note the scientist gave is queued, saved against a round, or in the hands
\* of a supervisor between the two.  A death there loses it, against what
\* _drain_interventions says of itself (NotesSurvive); nothing else does: no
\* resumed round, later claim, stop or continue.
NotesKept ==
  given = queue \cup at.hand \cup dropped \cup UNION {noted[r] : r \in Rounds}

\* _drain_interventions' docstring: "Notes are persisted against the round before
\* they are used, so a run killed after claiming them does not lose the guidance
\* it already took off the queue."
NotesSurvive ==
  given = queue \cup at.hand \cup UNION {noted[r] : r \in Rounds}

\* No idea is reviewed twice, whatever was killed and resumed, and its review
\* is in one round's mark unless a death fell between the two writes.
ReviewedOnce ==
  \A i \in Ids :
    /\ idea[i].reviews <= 1
    /\ Cardinality({r \in Rounds : i \in mark[r].reviewed}) =
         IF i \in unheard \/ (pc = "reviewed" /\ at.unit = i) THEN 0 ELSE idea[i].reviews

\* A shard or an evolution adds ideas twice only if a death cut it short
\* between its first idea and its mark.
UnitsOnce ==
  \A r \in Rounds, u \in Units : passes[r][u] <= 1 + torn

\* Work that was done is not done again by the supervisor that takes a round
\* up: every review and every unit of ideas once, a death in the middle apart.
WorkDoneOnce == TypeOK /\ ReviewedOnce /\ UnitsOnce

\* An idea merged into another is out of the pool, and points past every idea
\* that was merged in its turn: never at itself, never round a cycle.
MergedIntoOne ==
  \A i \in Ids : idea[i].dup # 0 =>
    /\ idea[i].status # "active"
    /\ idea[i].dup \in Born
    /\ idea[idea[i].dup].dup = 0

\* No tournament is held and no parents are chosen over ideas the round's
\* clustering never saw, if its mark names any idea at all: however often the
\* round was resumed, and whatever it bred or generated in between.
ClusteringCoversPool ==
  pc \in {"collapse", "tournament", "plan", "judge", "evolve"} =>
    mark[at.round].covered = {} \/ Active \subseteq mark[at.round].covered

\* Past a round's generation no older seed is pending unless the round lost a
\* shard: a seed left standing would be given to a second wave.
SeedNamesOneWave ==
  pc \in Steps \ {"off", "boundary", "save", "open", "generate", "add", "clear", "report", "over"}
    /\ seed.pending \in 1 .. at.round - 1
  => mark[at.round].shards # Shards

\* A round's plan only grows, and only by pairs of ideas it had not scheduled.
PlanReplayed ==
  [][\A r \in Rounds :
       /\ Plan(r) \subseteq Plan(r)'
       /\ \A p \in Plan(r)' \ Plan(r) : \A q \in Plan(r) : p \cap q = {}]_vars

\* While someone resumes it, a run ends: no mark makes it go round for ever.
RunEnds == []<>(pc = "over")
=============================================================================
