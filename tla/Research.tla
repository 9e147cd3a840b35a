------------------------------ MODULE Research -------------------------------
(***************************************************************************)
(* The adaptive workflow: ResearchController's checkpoint and report over  *)
(* the workspace it keeps in engine_state.research.  Every call's result   *)
(* is recorded under its unit key before anything is made of it, and a     *)
(* supervisor that resumes a checkpoint takes the recorded results for     *)
(* granted.  One action is one transaction or one recorded result; a       *)
(* supervisor may leave or die between any two.                            *)
(*                                                                         *)
(* Framing, hypotheses, claims and prose are abstract: an answer is known  *)
(* by what the controller reads from it.  Reflection changes nothing here  *)
(* (RoundSteps has it), and the wave that makes the calls is CallWave.     *)
(***************************************************************************)
EXTENDS Naturals, FiniteSets

CONSTANTS
  MaxRounds,    \* bound: checkpoints a run may be extended to
  FirstTarget,  \* the checkpoints it is launched with
  Approaches,   \* the routes of a framing, numbered from 1
  PerCall,      \* candidates a generation or evolution call returns
  MaxIdeas,     \* bound: rows
  Limit,        \* verification limit of a checkpoint and size of the portfolio
  Readiness,    \* what assess may make of a verification
  Grades,       \* the sum of a candidate's graded dimensions
  Notes,        \* notes the scientist may give
  MaxFaults,    \* bound: calls that fail or are refused, departures, deaths
  MaxArchives   \* bound: candidates the scientist sets aside

ASSUME ResearchAssumption ==
  /\ {MaxRounds, PerCall, MaxIdeas, Limit} \subseteq Nat \ {0}
  /\ {MaxFaults, MaxArchives} \subseteq Nat
  /\ FirstTarget \in 1 .. MaxRounds
  /\ Approaches \subseteq Nat \ {0} /\ Approaches # {} /\ IsFiniteSet(Approaches)
  /\ Readiness \subseteq {"source_supported", "provisional", "contradicted"}
  /\ Grades \subseteq Nat /\ Grades # {} /\ IsFiniteSet(Notes)

VARIABLES
  idea,        \* hypotheses by number: their status, round and identity
  unit,        \* research.units: results by key
  frame,       \* research.frame_key
  decision,    \* research.decisions, by checkpoint
  plan,        \* research.verification_plans, by checkpoint
  member,      \* research.membership: the route of a candidate
  assessed,    \* research.assessments
  synthesis,   \* research.synthesis
  challenge,   \* research.challenge
  digest,      \* research.guidance_digest: the notes it was taken over
  queue,       \* notes not claimed yet
  noted,       \* engine_state.round_notes, all rounds
  round,       \* runs.round
  closed,      \* last_completed_round
  target,      \* rounds_target
  overview,    \* "none", "fresh", or "stale" after a continue
  pc,          \* the supervisor's step; "off" without one, "over" at the end
  at,          \* its local variables
  answers,     \* history: results that arrived, by key
  faults, archives

workspace == <<unit, frame, decision, plan, member, assessed, synthesis, challenge, digest>>
run       == <<queue, noted, round, closed, target, overview>>
vars      == <<idea, workspace, run, pc, at, answers, faults, archives>>

Rounds == 1 .. MaxRounds
Ids    == 1 .. MaxIdeas

Key(role, n, i) == <<role, n, i>>
Keys == {"framing", "develop", "synthesis", "challenge"} \X Rounds \X {0}
        \cup {"explore"} \X Rounds \X Approaches
        \cup {"verification"} \X Rounds \X Ids

Nothing == [round |-> 0]

----------------------------------------------------------------------------
(* Rows and what the controller reads from them *)

Unborn == [status |-> "none", born |-> 0, slot |-> <<>>]
Born   == {i \in Ids : idea[i].status # "none"}
Active == {i \in Ids : idea[i].status = "active"}

\* A unit's result with data
Good(key) == key \in DOMAIN unit /\ unit[key].ok

Route(i)         == IF i \in DOMAIN member THEN member[i] ELSE <<>>
Contradicted(i)  == i \in DOMAIN assessed /\ assessed[i].readiness = "contradicted"
Supported(i)     == i \in DOMAIN assessed /\ assessed[i].readiness = "source_supported"

\* portfolio: nondominated, then the higher sum, the later round, the lower hid
Vector(i, seen) ==
  IF i \notin DOMAIN seen THEN <<0, 0>>
  ELSE <<IF seen[i].readiness = "source_supported" THEN 1 ELSE 0, seen[i].grade>>

Ahead(i, j, S, seen) ==
  LET v(k)  == Vector(k, seen)
      Sum(k) == v(k)[1] + v(k)[2]
      Dominated(k) == \E h \in S : v(h) # v(k) /\ v(h)[1] >= v(k)[1] /\ v(h)[2] >= v(k)[2]
  IN IF Dominated(i) # Dominated(j) THEN Dominated(j)
     ELSE IF Sum(i) # Sum(j) THEN Sum(i) > Sum(j)
     ELSE IF idea[i].born # idea[j].born THEN idea[i].born > idea[j].born
     ELSE i < j

\* One of each route first, then the rest, in that order.
Precedes(i, j, S, seen) ==
  LET First(k) == \A h \in S \ {k} : Route(h) = Route(k) => Ahead(k, h, S, seen)
  IN IF First(i) # First(j) THEN First(i) ELSE Ahead(i, j, S, seen)

Portfolio(candidates, seen, limit) ==
  LET S == {i \in candidates : ~(i \in DOMAIN seen /\ seen[i].readiness = "contradicted")}
  IN {i \in S : Cardinality({j \in S \ {i} : Precedes(j, i, S, seen)}) < limit}

Selected == Portfolio(Active, assessed, Limit)

\* next_action: the previous checkpoint's decision and the standing challenge
NextAction(n) ==
  LET previous == IF n - 1 \in DOMAIN decision THEN decision[n - 1] ELSE "none"
  IN IF DOMAIN member = {} THEN "explore"
     ELSE IF challenge # Nothing /\ challenge.next = "reframe" THEN "reframe"
     ELSE IF previous \in {"develop", "verify", "reframe"} THEN "explore"
     ELSE IF challenge # Nothing /\ challenge.next = "verify" THEN "verify"
     ELSE "develop"

----------------------------------------------------------------------------
(* Waves *)

Idle == [round |-> 0, notes |-> {}, jobs |-> {}, todo |-> {}, index |-> 0,
         selected |-> {}, fresh |-> {}]

Init ==
  /\ idea = [i \in Ids |-> Unborn]
  /\ unit = [k \in {} |-> Nothing] /\ frame = 0
  /\ decision = [n \in {} |-> "none"] /\ plan = [n \in {} |-> {}]
  /\ member = [i \in {} |-> <<>>] /\ assessed = [i \in {} |-> Nothing]
  /\ synthesis = Nothing /\ challenge = Nothing /\ digest = {}
  /\ queue = {} /\ noted = {} /\ round = 0 /\ closed = 0
  /\ target = FirstTarget /\ overview = "none"
  /\ pc = "off" /\ at = Idle
  /\ answers = [k \in Keys |-> 0] /\ faults = 0 /\ archives = 0

Waves == {"frame", "reframe", "explore", "develop", "verify", "synthesize", "challenge",
          "resynthesize", "rechallenge"}

\* Mutant: a resumed checkpoint asks for everything again.
AllJobs == at.jobs \ at.fresh

\* calls: the jobs without a recorded result
Due == at.jobs \ DOMAIN unit

\* The next jobs of the supervisor; fresh are those it answered itself.
Goto(step, jobs) ==
  /\ pc' = step
  /\ at' = [at EXCEPT !.jobs = jobs, !.fresh = {}, !.todo = {}, !.index = 0]

Failed == [ok |-> FALSE, word |-> "none", set |-> {}, grade |-> 0, saw |-> {}]
Reply(word, set, grade) == [ok |-> TRUE, word |-> word, set |-> set, grade |-> grade, saw |-> at.notes]

\* What a validated answer to a unit may say.  A synthesis uses some of the
\* selected candidates and may leave questions open; a challenge is clear or
\* asks for a next action, about some of them.
Replies(key) ==
  CASE key[1] \in {"framing", "explore", "develop"} -> {Reply("none", {}, 0)}
    [] key[1] = "verification" -> {Reply(w, {}, g) : w \in Readiness, g \in Grades}
    [] key[1] = "synthesis" -> {Reply(w, s, 0) : w \in {"clean", "open"}, s \in (SUBSET at.selected) \ {{}}}
    [] key[1] = "challenge" ->
         {Reply(w, s, 0) : w \in {"clear", "reframe", "develop", "verify"},
                           s \in {{}} \cup {{i} : i \in at.selected}}

\* A result arrives and is recorded, a failure too.  _record_call's booking and
\* on_result's record are one step: what a death between them leaves paid and
\* unknown is CallWave's to count (Return, DrainFinished, Crash).
Answer(key) ==
  /\ pc \in Waves /\ key \in Due
  /\ \/ \E reply \in Replies(key) :
          /\ unit' = [k \in DOMAIN unit \cup {key} |-> IF k = key THEN reply ELSE unit[k]]
          /\ UNCHANGED faults
     \/ /\ faults < MaxFaults /\ faults' = faults + 1
        /\ unit' = [k \in DOMAIN unit \cup {key} |-> IF k = key THEN Failed ELSE unit[k]]
  /\ answers' = [answers EXCEPT ![key] = @ + 1]
  /\ at' = [at EXCEPT !.fresh = @ \cup {key}]
  /\ UNCHANGED <<idea, frame, decision, plan, member, assessed, synthesis, challenge, digest,
                 run, pc, archives>>

\* A ceiling, a pause or a stop ends the wave: what was not asked is not recorded.
Refuse ==
  /\ pc \in Waves /\ Due # {}
  /\ faults < MaxFaults /\ faults' = faults + 1
  /\ at' = [at EXCEPT !.jobs = @ \ Due]
  /\ UNCHANGED <<idea, workspace, run, pc, answers, archives>>

WaveDone(step) == pc = step /\ Due = {}

\* Mutant: only what this supervisor asked itself counts as a result.
FreshResults == {k \in at.jobs : Good(k) /\ k \in at.fresh}

\* The jobs that have data, asked by whoever.
Results == {k \in at.jobs : Good(k)}

----------------------------------------------------------------------------
(* A checkpoint *)

Boot ==
  /\ pc = "off"
  /\ at' = [Idle EXCEPT !.round = closed + 1]
  /\ pc' = IF closed < target THEN "boundary" ELSE "report"
  /\ UNCHANGED <<idea, workspace, run, answers, faults, archives>>

\* _drain_interventions: all the notes up to this checkpoint.  Its claim and its save
\* are one step here, two in RoundSteps, where a death falls between them.
Drain ==
  /\ pc = "boundary"
  /\ noted' = noted \cup queue /\ queue' = {}
  /\ at' = [at EXCEPT !.notes = noted'] /\ pc' = "digest"
  /\ UNCHANGED <<idea, workspace, round, closed, target, overview, answers, faults, archives>>

\* The digest is saved, the round set and the problem framed if it never was.
SaveDigest ==
  /\ pc = "digest"
  /\ digest' = at.notes /\ round' = at.round
  /\ IF frame # 0 THEN Goto("decide", {}) ELSE Goto("frame", {Key("framing", at.round, 0)})
  /\ UNCHANGED <<idea, unit, frame, decision, plan, member, assessed, synthesis, challenge,
                 queue, noted, closed, target, overview, answers, faults, archives>>

SaveFrame ==
  /\ WaveDone("frame")
  /\ frame' = IF Results # {} THEN at.round ELSE frame
  /\ Goto("decide", {})
  /\ UNCHANGED <<idea, unit, decision, plan, member, assessed, synthesis, challenge, digest,
                 run, answers, faults, archives>>

\* explore: a generation call for each route of the frame, if there is one
Explore ==
  IF frame = 0 THEN Goto("plan", {})
  ELSE Goto("explore", {Key("explore", at.round, a) : a \in Approaches})

Act(action) ==
  CASE action = "reframe" -> Goto("reframe", {Key("framing", at.round, 0)})
    [] action = "verify"  -> Goto("plan", {})
    [] action = "develop" /\ Selected # {} -> Goto("develop", {Key("develop", at.round, 0)})
    [] OTHER -> Explore

\* A checkpoint is decided once.
Decide ==
  /\ pc = "decide"
  /\ decision' = IF at.round \in DOMAIN decision THEN decision
                 ELSE [n \in DOMAIN decision \cup {at.round} |->
                         IF n = at.round THEN NextAction(n) ELSE decision[n]]
  /\ Act(decision'[at.round])
  /\ UNCHANGED <<idea, unit, frame, plan, member, assessed, synthesis, challenge, digest,
                 run, answers, faults, archives>>

SaveReframe ==
  /\ WaveDone("reframe")
  /\ frame' = IF Results # {} THEN at.round ELSE frame
  /\ Explore
  /\ UNCHANGED <<idea, unit, decision, plan, member, assessed, synthesis, challenge, digest,
                 run, answers, faults, archives>>

\* The wave is over: its results are materialized one after the other.
Materialize ==
  /\ WaveDone("explore") \/ WaveDone("develop")
  /\ at' = [at EXCEPT !.todo = Results, !.index = 1, !.jobs = {}]
  /\ pc' = IF Results = {} THEN "plan" ELSE "add"
  /\ UNCHANGED <<idea, workspace, run, answers, faults, archives>>

Current == CHOOSE k \in at.todo : \A j \in at.todo : k[3] <= j[3]
Slot    == <<Current[1], Current[2], Current[3], at.index>>
Insert  == [status |-> "active", born |-> at.round, slot |-> Slot]

\* add_hypothesis under an identity made of the key and the index
AddCandidate ==
  /\ pc = "add" /\ at.index <= PerCall
  /\ \/ (\E i \in Born : idea[i].slot = Slot) /\ UNCHANGED idea
     \/ /\ \A i \in Born : idea[i].slot # Slot
        /\ \E i \in Ids : i = Cardinality(Born) + 1 /\ idea' = [idea EXCEPT ![i] = Insert]
  /\ at' = [at EXCEPT !.index = @ + 1]
  /\ UNCHANGED <<workspace, run, pc, answers, faults, archives>>

Mine == {i \in Born : <<idea[i].slot[1], idea[i].slot[2], idea[i].slot[3]>> = Current}

SaveMembership ==
  /\ pc = "add" /\ at.index > PerCall
  /\ member' = [i \in DOMAIN member \cup Mine |->
                  IF i \in DOMAIN member THEN member[i]
                  ELSE IF Current[1] = "explore" THEN <<frame, Current[3]>> ELSE <<at.round, 0>>]
  /\ at' = [at EXCEPT !.todo = @ \ {Current}, !.index = 1]
  /\ pc' = IF at.todo = {Current} THEN "plan" ELSE "add"
  /\ UNCHANGED <<idea, unit, frame, decision, plan, assessed, synthesis, challenge, digest,
                 run, answers, faults, archives>>

\* The candidates verify may plan for, and those it plans for first
Verifiable ==
  LET revisit  == decision[at.round] = "verify"
      targeted == IF challenge = Nothing THEN {} ELSE challenge.targets
      open     == {i \in Active : i \notin DOMAIN assessed
                                  \/ (revisit /\ (targeted = {} \/ i \in targeted))}
      unseen   == [i \in {} |-> Nothing]
      pending  == Portfolio(open, unseen, Limit)
      priority == Portfolio(open \cap targeted, unseen, Limit)
      rest     == pending \ targeted
  IN IF revisit /\ targeted # {}
       THEN priority \cup {i \in rest :
              Cardinality({j \in rest \ {i} : Precedes(j, i, open, unseen)})
                < Limit - Cardinality(priority)}
       ELSE pending

\* A checkpoint's plan is drawn once; who is not active any more is left out.
PlanVerification ==
  /\ pc = "plan"
  /\ plan' = IF at.round \in DOMAIN plan THEN plan
             ELSE [n \in DOMAIN plan \cup {at.round} |->
                     IF n = at.round THEN Verifiable ELSE plan[n]]
  /\ Goto("verify", {Key("verification", at.round, i) : i \in plan'[at.round] \cap Active})
  /\ UNCHANGED <<idea, unit, frame, decision, member, assessed, synthesis, challenge, digest,
                 run, answers, faults, archives>>

SaveAssessments ==
  /\ WaveDone("verify")
  /\ LET heard == {k[3] : k \in Results}
     IN assessed' = [i \in DOMAIN assessed \cup heard |->
          IF i \in heard
            THEN [readiness |-> unit[Key("verification", at.round, i)].word,
                  grade |-> unit[Key("verification", at.round, i)].grade, round |-> at.round]
            ELSE assessed[i]]
  /\ Goto("integrate", {})
  /\ UNCHANGED <<idea, unit, frame, decision, plan, member, synthesis, challenge, digest,
                 run, answers, faults, archives>>

\* integrate, on the portfolio of this moment; next is where it returns to
AskSynthesis(step, next) ==
  IF Selected = {} THEN Goto(next, {})
  ELSE /\ pc' = step
       /\ at' = [at EXCEPT !.jobs = {Key("synthesis", at.round, 0)}, !.fresh = {},
                           !.selected = Selected]

Integrate ==
  /\ pc = "integrate"
  /\ AskSynthesis("synthesize", "close")
  /\ UNCHANGED <<idea, workspace, run, answers, faults, archives>>

Synthesis(reply) ==
  [round |-> at.round, frame |-> frame, digest |-> digest, used |-> reply.set,
   clean |-> reply.word = "clean", saw |-> reply.saw]

\* The answer is saved and the challenge of the one before it dropped.
SaveSynthesis(step, challenged, next) ==
  /\ WaveDone(step)
  /\ IF Results = {}
       THEN UNCHANGED <<synthesis, challenge>> /\ Goto(next, {})
       ELSE /\ synthesis' = Synthesis(unit[Key("synthesis", at.round, 0)])
            /\ challenge' = Nothing
            /\ Goto(challenged, {Key("challenge", at.round, 0)})
  /\ UNCHANGED <<idea, unit, frame, decision, plan, member, assessed, digest,
                 run, answers, faults, archives>>

SaveChallenge(step, next) ==
  /\ WaveDone(step)
  /\ challenge' = IF Results = {} THEN challenge
       ELSE LET reply == unit[Key("challenge", at.round, 0)]
            IN [round |-> at.round, next |-> reply.word, targets |-> reply.set]
  /\ Goto(next, {})
  /\ UNCHANGED <<idea, unit, frame, decision, plan, member, assessed, synthesis, digest,
                 run, answers, faults, archives>>

\* Mutant: the boundary counts from the closed round it read at its start.
CloseAgain ==
  /\ pc = "close"
  /\ closed' = at.round - 1
  /\ at' = [Idle EXCEPT !.round = closed' + 1]
  /\ pc' = IF closed' < target THEN "boundary" ELSE "report"
  /\ UNCHANGED <<idea, workspace, queue, noted, round, target, overview, answers, faults, archives>>

Close ==
  /\ pc = "close"
  /\ closed' = at.round
  /\ at' = [Idle EXCEPT !.round = closed' + 1]
  /\ pc' = IF closed' < target THEN "boundary" ELSE "report"
  /\ UNCHANGED <<idea, workspace, queue, noted, round, target, overview, answers, faults, archives>>

----------------------------------------------------------------------------
(* The report *)

\* Without any answer yet, the report's reserve pays for one.
Report ==
  /\ pc = "report"
  /\ LET number == IF round = 0 THEN 1 ELSE round
     IN IF overview = "fresh" THEN Goto("over", {})
        ELSE IF synthesis # Nothing \/ Selected = {} THEN Goto("publish", {})
        ELSE /\ pc' = "resynthesize"
             /\ at' = [Idle EXCEPT !.round = number, !.notes = noted, !.selected = Selected,
                                   !.jobs = {Key("synthesis", number, 0)}]
  /\ UNCHANGED <<idea, workspace, run, answers, faults, archives>>

Publish ==
  /\ pc = "publish"
  /\ overview' = "fresh" /\ Goto("over", {})
  /\ UNCHANGED <<idea, workspace, queue, noted, round, closed, target, answers, faults, archives>>

----------------------------------------------------------------------------
(* Departures, deaths and the scientist *)

\* _interrupted: a stop or a ceiling goes to the report from these steps.
Stop ==
  /\ pc \in {"boundary", "decide", "plan", "integrate", "close"}
  /\ faults < MaxFaults /\ faults' = faults + 1
  /\ Goto("report", {})
  /\ UNCHANGED <<idea, workspace, run, answers, archives>>

\* A pause, or a death between any two actions.
Leave ==
  /\ pc \notin {"off", "over"}
  /\ faults < MaxFaults /\ faults' = faults + 1
  /\ pc' = "off" /\ at' = Idle
  /\ UNCHANGED <<idea, workspace, run, answers, archives>>

\* extend_run: more checkpoints, and the report is of a run that went on.
Continue ==
  /\ pc = "over" /\ target < MaxRounds
  /\ target' = target + 1
  /\ overview' = IF overview = "fresh" THEN "stale" ELSE overview
  /\ pc' = "off" /\ at' = Idle
  /\ UNCHANGED <<idea, workspace, queue, noted, round, closed, answers, faults, archives>>

GiveNote(x) ==
  /\ pc # "over" /\ x \notin queue \cup noted
  /\ queue' = queue \cup {x}
  /\ UNCHANGED <<idea, workspace, noted, round, closed, target, overview, pc, at, answers, faults, archives>>

Archive(i) ==
  /\ pc # "over" /\ i \in Active /\ archives < MaxArchives
  /\ archives' = archives + 1
  /\ idea' = [idea EXCEPT ![i] = [idea[i] EXCEPT !.status = "archived"]]
  /\ UNCHANGED <<workspace, run, pc, at, answers, faults>>

Step ==
  \/ Boot \/ Drain \/ SaveDigest \/ SaveFrame \/ Decide \/ SaveReframe
  \/ \E key \in Keys : Answer(key)
  \/ Materialize \/ AddCandidate \/ SaveMembership
  \/ PlanVerification \/ SaveAssessments
  \/ Integrate \/ SaveSynthesis("synthesize", "challenge", "close") \/ SaveChallenge("challenge", "close")
  \/ Close \/ Report
  \/ SaveSynthesis("resynthesize", "rechallenge", "publish") \/ SaveChallenge("rechallenge", "publish")
  \/ Publish

Next ==
  \/ Step \/ Refuse \/ Stop \/ Leave \/ Continue
  \/ \E x \in Notes : GiveNote(x)
  \/ \E i \in Ids : Archive(i)

Spec == Init /\ [][Next]_vars

\* Someone resumes a run that is off, and a supervisor goes on.
FairSpec == Spec /\ WF_vars(Step)

----------------------------------------------------------------------------
\* recommendation_ready, as the page and the report read it
Ready ==
  /\ synthesis # Nothing /\ challenge # Nothing
  /\ synthesis.round = challenge.round
  /\ synthesis.frame = frame /\ synthesis.digest = digest
  /\ synthesis.used \subseteq Active
  /\ challenge.next = "clear" /\ synthesis.clean
  /\ \A i \in synthesis.used : Supported(i)

Answers == [ok : BOOLEAN, set : SUBSET Ids, grade : Nat, saw : SUBSET Notes,
            word : {"none", "clean", "open", "clear", "reframe", "develop", "verify"} \cup Readiness]

Routes == (0 .. MaxRounds) \X (Approaches \cup {0})

TypeOK ==
  /\ \A i \in Ids : /\ idea[i].status \in {"none", "active", "archived"}
                    /\ idea[i].born \in 0 .. MaxRounds
  /\ DOMAIN unit \subseteq Keys /\ \A k \in DOMAIN unit : unit[k] \in Answers
  /\ frame \in 0 .. MaxRounds
  /\ DOMAIN decision \subseteq Rounds
  /\ \A n \in DOMAIN decision : decision[n] \in {"explore", "reframe", "develop", "verify"}
  /\ DOMAIN plan \subseteq Rounds /\ \A n \in DOMAIN plan : plan[n] \subseteq Born
  /\ DOMAIN member \subseteq Born /\ \A i \in DOMAIN member : member[i] \in Routes
  /\ DOMAIN assessed \subseteq Born
  /\ synthesis # Nothing => synthesis.used \subseteq Born
  /\ digest \subseteq noted /\ queue \subseteq Notes /\ noted \subseteq Notes
  /\ round \in 0 .. MaxRounds /\ closed \in 0 .. target /\ target \in Rounds
  /\ pc \in Waves \cup {"off", "over", "boundary", "digest", "decide", "add", "plan",
                        "integrate", "close", "report", "publish"}
  /\ at.round \in 0 .. MaxRounds + 1 /\ at.jobs \subseteq Keys

\* A result that was recorded is never asked for again, by whatever number of
\* supervisors (research.calls): of two answers one would have been paid in vain.
UnitPaidOnce == \A k \in Keys : answers[k] <= 1

\* However often a call's result is materialized, each of its candidates is in
\* the pool once (the module's docstring: a restart cannot duplicate work).
OneCandidatePerSlot ==
  \A i, j \in Born : idea[i].slot = idea[j].slot => i = j

\* A checkpoint decided to develop that found nothing selected and explored.
FellBack(n) ==
  n \in DOMAIN decision /\ decision[n] = "develop"
  /\ \E a \in Approaches : Key("explore", n, a) \in DOMAIN unit

\* A checkpoint that closes leaves no active candidate without its route and, of those
\* it planned to check, no recorded verdict unheard: what a dead supervisor
\* recorded, the next one applied.  One that fell back on exploring is not
\* resumed so.
ResultsApplied ==
  pc = "close" =>
    /\ \A i \in Active : FellBack(idea[i].born) \/ i \in DOMAIN member
    /\ \A i \in Active : Good(Key("verification", at.round, i))
         => i \in DOMAIN assessed /\ assessed[i].round = at.round

\* The challenge on the workspace is a challenge of the answer on it.
ChallengeOfAnswer ==
  challenge # Nothing =>
    /\ synthesis # Nothing /\ challenge.round = synthesis.round
    /\ Good(Key("synthesis", challenge.round, 0)) /\ Good(Key("challenge", challenge.round, 0))

\* A checkpoint does one kind of work, however often it is resumed: fresh
\* search follows targeted work, and a checkpoint decided to explore or
\* reframe never develops (rule 3 of the scheduler).
BreadthRecovered ==
  \A n \in DOMAIN decision :
    /\ n - 1 \in DOMAIN decision /\ decision[n - 1] \in {"develop", "verify", "reframe"}
         => decision[n] \in {"explore", "reframe"}
    /\ decision[n] \in {"explore", "reframe", "verify"} => Key("develop", n, 0) \notin DOMAIN unit
    /\ decision[n] = "verify" => \A a \in Approaches : Key("explore", n, a) \notin DOMAIN unit

\* A run that is resumed whenever it stops ends with a report that is current.
RunReports == <>[](pc = "over" /\ overview = "fresh")

\* docs/architecture.md: changed guidance prevents a stale answer from being
\* presented as ready: the ready answer's prompt had the notes of the digest.
\* (A supervisor that was lost may leave an answer which the next one saves under
\* the guidance of its own day.)
ReadyHeardGuidance == Ready => synthesis.saw = digest \/ faults > 0

\* A restart neither pays for a recorded answer again nor inserts it twice.
PaidOnce == TypeOK /\ UnitPaidOnce /\ OneCandidatePerSlot

\* What the workspace says follows from what its calls recorded: results are
\* applied, a challenge is of the answer beside it, and an answer called ready
\* had the scientist's notes.
ResultsHold == ResultsApplied /\ ChallengeOfAnswer /\ BreadthRecovered /\ ReadyHeardGuidance
=============================================================================
