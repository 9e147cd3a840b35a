----------------------------- MODULE Estimates ------------------------------
(***************************************************************************)
(* What a run of a given shape is said to cost, and what its rounds ask    *)
(* for.  The estimate is a formula in one file, the preset budget of a run *)
(* is that formula, and the rounds that must fit under it are two loops in *)
(* two others.  A call here is one that succeeds at the first attempt and  *)
(* returns no more than it was asked for: retries, and a failed review     *)
(* asked again a round later, are what the headroom is for.                *)
(***************************************************************************)
EXTENDS Integers

CONSTANTS
  RunShapes       \* the configs: workflow, rounds, batch, matches, evolved

ASSUME EstimatesAssumption ==
  \A c \in RunShapes :
    /\ c.workflow \in {"tournament", "adaptive"}
    /\ {c.rounds, c.batch, c.matches, c.evolved} \subseteq Nat

VARIABLES
  shape,       \* the run's config
  spentOn,     \* calls by role
  fresh,       \* ideas nobody has reviewed
  ideas,       \* ideas made
  asked,       \* the last call or wave: its calls and the reserve it left
  stage        \* round and step

estimateVars == <<shape, spentOn, fresh, ideas, asked, stage>>

TournamentRoles == {"generation", "reflection", "proximity", "ranking", "evolution", "meta_review", "overview"}
AdaptiveRoles == {"framing", "generation", "evolution", "reflection", "verification", "synthesis", "challenge"}
AllRoles == TournamentRoles \cup AdaptiveRoles

OverviewReserve == 2       \* OVERVIEW_RESERVED_CALLS
ShardSize == 3             \* GENERATION_SHARD_SIZE

Larger(a, b) == IF a > b THEN a ELSE b
Smaller(a, b) == IF a < b THEN a ELSE b
Shards(c) == (c.batch + ShardSize - 1) \div ShardSize

\* The sum over the roles, those a workflow does not have counting nothing.
Total(counts) ==
  LET In(role) == IF role \in DOMAIN counts THEN counts[role] ELSE 0
  IN In("framing") + In("generation") + In("evolution") + In("reflection") + In("verification")
     + In("synthesis") + In("challenge") + In("proximity") + In("ranking") + In("meta_review") + In("overview")

----------------------------------------------------------------------------
(* core.calls_by_role, core.estimate_calls *)

AdaptiveCalls(c) ==
  LET made   == Larger(4, c.batch)
      bred   == Larger(1, c.evolved)
      search == 4 + made >= 1 + bred
  IN [role \in AdaptiveRoles |->
        CASE role = "framing" -> c.rounds
          [] role = "generation" -> IF search THEN 4 * c.rounds ELSE 0
          [] role = "evolution" -> IF search THEN 0 ELSE c.rounds
          [] role = "reflection" -> c.rounds * (IF search THEN made ELSE bred)
          [] role = "verification" -> c.rounds * Larger(3, Smaller(c.matches, 6))
          [] OTHER -> c.rounds + 1]

TournamentCalls(c) ==
  [role \in TournamentRoles |->
     IF role = "overview" THEN OverviewReserve
     ELSE IF c.rounds = 0 THEN 0
     ELSE CASE role = "generation" -> c.rounds * Shards(c)
            [] role = "reflection" -> c.rounds * c.batch + (c.rounds - 1) * c.evolved
            [] role = "ranking" -> c.rounds * c.matches
            [] OTHER -> c.rounds]

CallsByRole(c) == IF c.workflow = "adaptive" THEN AdaptiveCalls(c) ELSE TournamentCalls(c)

EstimateCalls(c) ==
  IF c.workflow = "adaptive" THEN Total(AdaptiveCalls(c))
  ELSE IF c.rounds = 0 THEN OverviewReserve
  ELSE OverviewReserve + c.rounds * (Shards(c) + c.batch + c.matches + 3) + (c.rounds - 1) * c.evolved

\* The estimate and a quarter more, rounded up.
SuggestedBudget(c) == (5 * EstimateCalls(c) + 3) \div 4

----------------------------------------------------------------------------
(* The rounds *)

EstimatesTypeOK ==
  /\ shape \in RunShapes
  /\ spentOn \in [AllRoles -> Nat] /\ fresh \in 0 .. ideas /\ ideas \in Nat
  /\ asked \in [calls : Nat, reserve : {0, OverviewReserve}]
  /\ stage \in [round : 1 .. shape.rounds + 1, answered : BOOLEAN,
                step : {"open", "framed", "make", "review", "cluster", "rank", "evolve", "meta",
                        "verify", "integrate", "challenge", "report", "over"}]

EstimatesInit ==
  /\ shape \in RunShapes
  /\ spentOn = [role \in AllRoles |-> 0]
  /\ fresh = 0 /\ ideas = 0 /\ asked = [calls |-> 0, reserve |-> 0]
  /\ stage = [round |-> 1, step |-> "open", answered |-> FALSE]

To(step) == stage' = [stage EXCEPT !.step = step]
NextCheckpoint == stage' = [stage EXCEPT !.round = @ + 1, !.step = "open"]

Ask(role, calls, reserve) ==
  /\ spentOn' = [spentOn EXCEPT ![role] = @ + calls]
  /\ asked' = [calls |-> calls, reserve |-> reserve]

Made(n) == fresh' = fresh + n /\ ideas' = ideas + n
MadeNone == UNCHANGED <<fresh, ideas>>

Tournament(step) == shape.workflow = "tournament" /\ stage.step = step
Adaptive(step) == shape.workflow = "adaptive" /\ stage.step = step

OpenRound ==
  /\ stage.step = "open" /\ stage.round <= shape.rounds
  /\ To("make")
  /\ shape.workflow = "tournament"
  /\ UNCHANGED <<shape, spentOn, asked>> /\ MadeNone

\* Any boundary may be the last: a stop, or the rounds are over.
EndRounds ==
  /\ stage.step # "over" /\ stage.step # "report"
  /\ To("report")
  /\ UNCHANGED <<shape, spentOn, asked>> /\ MadeNone

GenerateRound ==
  /\ Tournament("make")
  /\ \E n \in 0 .. shape.batch : Made(n)
  /\ Ask("generation", Shards(shape), OverviewReserve)
  /\ To("review") /\ UNCHANGED shape

\* Both workflows: one call for each idea nobody has reviewed.
ReviewRound ==
  /\ stage.step = "review"
  /\ Ask("reflection", fresh, OverviewReserve)
  /\ fresh' = 0 /\ UNCHANGED ideas
  /\ To(IF shape.workflow = "adaptive" THEN "verify" ELSE "cluster") /\ UNCHANGED shape

ClusterRound ==
  /\ Tournament("cluster")
  /\ \E calls \in {0, 1} : Ask("proximity", calls, OverviewReserve)
  /\ To("rank") /\ MadeNone /\ UNCHANGED shape

RankRound ==
  /\ Tournament("rank")
  /\ \E calls \in 0 .. shape.matches : Ask("ranking", calls, OverviewReserve)
  /\ To("evolve") /\ MadeNone /\ UNCHANGED shape

EvolveRound ==
  /\ Tournament("evolve")
  /\ IF shape.evolved = 0 \/ ideas = 0
     THEN Ask("evolution", 0, OverviewReserve) /\ MadeNone
     ELSE Ask("evolution", 1, OverviewReserve) /\ \E n \in 0 .. shape.evolved : Made(n)
  /\ To("meta") /\ UNCHANGED shape

MetaRound ==
  /\ Tournament("meta")
  /\ Ask("meta_review", 1, OverviewReserve)
  /\ NextCheckpoint /\ MadeNone /\ UNCHANGED shape

\* One call, and its repair if the budget has one.
OverviewReport ==
  /\ Tournament("report")
  /\ Ask("overview", 1, 0)
  /\ To("over") /\ MadeNone /\ UNCHANGED shape

----------------------------------------------------------------------------
(* research.checkpoint *)

FrameRound ==
  /\ Adaptive("open") /\ stage.round <= shape.rounds
  /\ \E calls \in {0, 1} : Ask("framing", calls, OverviewReserve)
  /\ To("framed") /\ MadeNone /\ UNCHANGED shape

\* Three or four routes, one call each, and at least one idea each.
ExploreRound ==
  /\ Adaptive("framed")
  /\ \E routes \in {3, 4} :
       /\ Ask("generation", routes, OverviewReserve)
       /\ Made(Larger(routes, shape.batch))
  /\ To("review") /\ UNCHANGED shape

DevelopRound ==
  /\ Adaptive("framed") /\ ideas > 0
  /\ Ask("evolution", 1, OverviewReserve)
  /\ Made(Larger(1, shape.evolved))
  /\ To("review") /\ UNCHANGED shape

\* A round that verifies makes nothing new.
VerifyOnly ==
  /\ Adaptive("framed")
  /\ To("review")
  /\ MadeNone /\ UNCHANGED <<shape, spentOn, asked>>

\* Mutant: six is a floor like three.
VerifyLimitUncapped == Larger(3, shape.matches)
VerifyLimit == Larger(3, Smaller(shape.matches, 6))

VerifyRound ==
  /\ Adaptive("verify")
  /\ \E calls \in 0 .. Smaller(ideas, VerifyLimit) : Ask("verification", calls, OverviewReserve)
  /\ To("integrate") /\ MadeNone /\ UNCHANGED shape

IntegrateRound ==
  /\ Adaptive("integrate")
  /\ IF ideas = 0 THEN Ask("synthesis", 0, OverviewReserve) /\ NextCheckpoint
     ELSE Ask("synthesis", 1, OverviewReserve) /\ stage' = [stage EXCEPT !.step = "challenge", !.answered = TRUE]
  /\ MadeNone /\ UNCHANGED shape

ChallengeRound ==
  /\ Adaptive("challenge")
  /\ Ask("challenge", 1, OverviewReserve)
  /\ NextCheckpoint /\ MadeNone /\ UNCHANGED shape

\* The report makes an answer of its own only when no round did.
ResearchReport ==
  /\ Adaptive("report")
  /\ IF stage.answered \/ ideas = 0 THEN UNCHANGED <<spentOn, asked>>
     ELSE /\ spentOn' = [spentOn EXCEPT !["synthesis"] = @ + 1, !["challenge"] = @ + 1]
          /\ asked' = [calls |-> 2, reserve |-> 0]
  /\ To("over") /\ MadeNone /\ UNCHANGED shape

EstimatesNext ==
  \/ OpenRound \/ EndRounds \/ GenerateRound \/ ReviewRound \/ ClusterRound \/ RankRound \/ EvolveRound
  \/ MetaRound \/ OverviewReport \/ FrameRound \/ ExploreRound \/ DevelopRound \/ VerifyOnly
  \/ VerifyRound \/ IntegrateRound \/ ChallengeRound \/ ResearchReport

EstimatesSpec == EstimatesInit /\ [][EstimatesNext]_estimateVars

----------------------------------------------------------------------------
(* Properties *)

(* A run that retries nothing is never refused a call by its own estimate, the
   reserve it asks with included: check_budget lets every wave through on a
   ceiling of exactly estimate_calls, and the report after it. *)
EstimateCovers == Total(spentOn) + asked.reserve <= EstimateCalls(shape)

(* core.calls_by_role: "The two always sum to the same number"; and, role by
   role, a tournament makes no more calls than it is priced for. *)
RolesCovered ==
  /\ Total(CallsByRole(shape)) = EstimateCalls(shape)
  /\ EstimateCalls(shape) <= SuggestedBudget(shape)
  /\ shape.workflow = "tournament" =>
       \A role \in AllRoles :
         spentOn[role] <= IF role \in TournamentRoles THEN CallsByRole(shape)[role] ELSE 0

(* The price of a run covers every call it makes, in total and by role. *)
EstimatesSafe == EstimatesTypeOK /\ EstimateCovers /\ RolesCovered
=============================================================================
