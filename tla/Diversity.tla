------------------------------ MODULE Diversity ------------------------------
(***************************************************************************)
(* The collapse detector of a run: what the proximity call said of the     *)
(* pool in each round, the reading taken of it, the three votes over the   *)
(* readings so far, and the Cartographer they may send for a seed.  Each   *)
(* step is a transaction of its own and a supervisor may die between any   *)
(* two; a resumed round whose pool has grown is clustered, and read, again.*)
(* RoundSteps has the round around this, and the seed's way from here.     *)
(***************************************************************************)
EXTENDS Integers, Sequences, FiniteSets, Functions

CONSTANTS
  PoolIds,        \* bound: ideas ever
  Families,       \* cluster labels that occur
  LastRound,      \* bound: rounds
  GraftEnabled, QuorumK, Window, GraftCooldown,
  HhiThreshold,   \* hhi_threshold, in thousandths
  Slack0,         \* plateau_slack
  BirthRate,      \* birth_rate_threshold
  MaxDiverseFaults \* bound: deaths and calls lost

ASSUME DiversityAssumption ==
  /\ IsFiniteSet(PoolIds) /\ PoolIds = 1 .. Cardinality(PoolIds)
  /\ {"none", "unborn", "archived"} \cap Families = {}
  /\ Window \in Nat \ {0} /\ QuorumK \in Nat \ {0} /\ GraftCooldown \in Nat /\ GraftEnabled \in BOOLEAN
  /\ {LastRound, HhiThreshold, Slack0, BirthRate, MaxDiverseFaults} \subseteq Nat

MinClusterCoverage == 750      \* MIN_CLUSTER_COVERAGE, in thousandths

VARIABLES
  pool,       \* idea -> the label of its row while it is active
  roundAt,    \* round and step of the supervisor, and the map it holds
  clusterMark, \* what the marks of this round say; no later round reads them
  readings,   \* collapse_history
  lastFired,  \* graft_state.last_fired_round, 0 for none
  fires,      \* for the properties: what each fire was read from
  diverseFaults

diverseVars == <<pool, roundAt, clusterMark, readings, lastFired, fires, diverseFaults>>

Unlabelled == "none"
Labelling == Families \cup {Unlabelled}
Unmarked == [done |-> FALSE, failed |-> FALSE, seen |-> {}, map |-> <<>>, graft |-> FALSE]

Known == {i \in PoolIds : pool[i] # "unborn"}
LivePool == {i \in PoolIds : pool[i] \in Labelling}

DiversityTypeOK ==
  /\ pool \in [PoolIds -> Labelling \cup {"unborn", "archived"}]
  /\ roundAt.round \in 1 .. LastRound + 1
  /\ roundAt.step \in {"generate", "cluster", "clustered", "collapse", "decide", "fired"}
  /\ clusterMark.seen \subseteq PoolIds /\ DOMAIN clusterMark.map \subseteq PoolIds
  /\ \A k \in DOMAIN readings : readings[k] \in
       [round : 1 .. LastRound, n : Nat, labels : SUBSET Families, hhi : 0 .. 1000, labelled : Nat]
  /\ lastFired \in 0 .. LastRound /\ diverseFaults \in 0 .. MaxDiverseFaults

DiversityInit ==
  /\ pool = [i \in PoolIds |-> "unborn"]
  /\ roundAt = [round |-> 1, step |-> "generate", map |-> <<>>, seen |-> {}]
  /\ clusterMark = Unmarked
  /\ readings = <<>> /\ lastFired = 0 /\ fires = {} /\ diverseFaults = 0

ToStep(step) == roundAt' = [roundAt EXCEPT !.step = step]

----------------------------------------------------------------------------
(* core: the arithmetic *)

Thousandths(a, b) == (2000 * a + b) \div (2 * b)

Held(map, ids, label) == Cardinality({i \in ids : map[i] = label})

\* The squares of the cluster sizes add up to the pairs that share a cluster.
\* Unlabelled ideas count in the denominator and form no cluster.
SharedPairs(map, ids) == {p \in ids \X ids : map[p[1]] = map[p[2]] /\ map[p[1]] # Unlabelled}

Herfindahl(map, ids) ==
  IF ids = {} THEN 0
  ELSE Thousandths(Cardinality(SharedPairs(map, ids)), Cardinality(ids) * Cardinality(ids))

Coverage(s) == IF s.n = 0 THEN 0 ELSE Thousandths(s.labelled, s.n)

Snapshot(r, map, ids) ==
  [round |-> r, n |-> Cardinality(ids), labels |-> {map[i] : i \in ids} \ {Unlabelled},
   hhi |-> Herfindahl(map, ids), labelled |-> Cardinality({i \in ids : map[i] # Unlabelled})]

\* collapse_signals: the votes of one round over the earlier readings.
CollapseSignals(history, s) ==
  LET full   == Append(history, s)
      window == SubSeq(full, IF Len(full) > Window THEN Len(full) - Window ELSE 1, Len(full))
      counts == {Cardinality(window[k].labels) : k \in DOMAIN window}
      have   == Len(window) > Window
  IN [plateau |-> have /\ \A a, b \in counts : a - b <= Slack0,
      concentration |-> s.hhi >= HhiThreshold,
      birthRate |-> have /\ Cardinality(s.labels \ window[1].labels) <= BirthRate]

Votes(v) == Cardinality({name \in DOMAIN v : v[name]})

\* should_fire_graft
ShouldFireGraft(v, s, r) ==
  GraftEnabled /\ s.labels # {} /\ Coverage(s) >= MinClusterCoverage /\ Votes(v) >= QuorumK
    /\ (lastFired = 0 \/ r - lastFired > GraftCooldown)

----------------------------------------------------------------------------
(* The round, as far as the pool is concerned *)

\* Steps 1 and 2: new ideas, without a label; a resumed round may make more.
GenerateIdeas ==
  /\ roundAt.step = "generate" /\ roundAt.round <= LastRound
  /\ \E n \in 0 .. 2 :
       LET new == {i \in PoolIds : i > Cardinality(Known) /\ i <= Cardinality(Known) + n}
       IN pool' = [i \in PoolIds |-> IF i \in new THEN Unlabelled ELSE pool[i]]
  /\ ToStep("cluster")
  /\ UNCHANGED <<clusterMark, readings, lastFired, fires, diverseFaults>>

ClusteringDue == ~clusterMark.done \/ (clusterMark.seen # {} /\ ~LivePool \subseteq clusterMark.seen)

SkipClustering ==
  /\ roundAt.step = "cluster" /\ ~ClusteringDue
  /\ ToStep("collapse")
  /\ UNCHANGED <<pool, clusterMark, readings, lastFired, fires, diverseFaults>>

\* Fewer than two ideas are not shown to anybody.
ClusterFew ==
  /\ roundAt.step = "cluster" /\ ClusteringDue /\ Cardinality(LivePool) < 2
  /\ clusterMark' = [clusterMark EXCEPT !.done = TRUE, !.failed = FALSE, !.seen = LivePool]
  /\ ToStep("collapse")
  /\ UNCHANGED <<pool, readings, lastFired, fires, diverseFaults>>

LoseClustering ==
  /\ roundAt.step = "cluster" /\ ClusteringDue /\ Cardinality(LivePool) >= 2
  /\ diverseFaults < MaxDiverseFaults /\ diverseFaults' = diverseFaults + 1
  /\ clusterMark' = [clusterMark EXCEPT !.done = TRUE, !.failed = TRUE, !.seen = LivePool]
  /\ ToStep("collapse")
  /\ UNCHANGED <<pool, readings, lastFired, fires>>

\* apply_clusters: the answer labels some of the pool, and one idea of each
\* label stays active (RoundSteps: any; here the first, for their number alone
\* is read); the call's own words are kept for the mark.
ApplyMap ==
  /\ roundAt.step = "cluster" /\ ClusteringDue /\ Cardinality(LivePool) >= 2
  /\ \E some \in SUBSET LivePool : \E map \in [some -> Families] :
       /\ pool' = [i \in PoolIds |->
            IF i \notin some THEN pool[i]
            ELSE IF \E j \in some : j < i /\ map[j] = map[i] THEN "archived" ELSE map[i]]
       /\ roundAt' = [roundAt EXCEPT !.step = "clustered", !.map = map, !.seen = LivePool]
  /\ UNCHANGED <<clusterMark, readings, lastFired, fires, diverseFaults>>

MarkClustering(map, seen) ==
  [done |-> TRUE, failed |-> FALSE, seen |-> seen, map |-> map, graft |-> FALSE]

SaveClustering ==
  /\ roundAt.step = "clustered"
  /\ clusterMark' = MarkClustering(roundAt.map, roundAt.seen)
  /\ roundAt' = [roundAt EXCEPT !.step = "collapse", !.map = <<>>, !.seen = {}]
  /\ UNCHANGED <<pool, readings, lastFired, fires, diverseFaults>>

----------------------------------------------------------------------------
(* _collapse_check *)

\* Mutant: the pool that is left is read, its duplicates already archived.
PoolLeft == [ids |-> LivePool, map |-> [i \in LivePool |-> pool[i]]]
\* _measured_pool: what proximity said, before its duplicates were archived; the
\* rows themselves where it said nothing.
MeasuredPool ==
  IF DOMAIN clusterMark.map = {} THEN [ids |-> LivePool, map |-> [i \in LivePool |-> pool[i]]]
  ELSE LET ids == IF clusterMark.seen = {} THEN DOMAIN clusterMark.map ELSE clusterMark.seen
       IN [ids |-> ids, map |-> [i \in ids |-> IF i \in DOMAIN clusterMark.map THEN clusterMark.map[i] ELSE Unlabelled]]

NextRound ==
  /\ roundAt' = [round |-> roundAt.round + 1, step |-> "generate", map |-> <<>>, seen |-> {}]
  /\ clusterMark' = Unmarked

CollapseRead ==
  /\ roundAt.step = "collapse" /\ clusterMark.graft
  /\ NextRound
  /\ UNCHANGED <<pool, readings, lastFired, fires, diverseFaults>>

AbstainStale ==
  /\ roundAt.step = "collapse" /\ ~clusterMark.graft /\ clusterMark.failed
  /\ clusterMark' = [clusterMark EXCEPT !.graft = TRUE]
  /\ ToStep("collapse")
  /\ UNCHANGED <<pool, readings, lastFired, fires, diverseFaults>>

\* The history without one round.
OtherRounds(r) ==
  LET upto[k \in 0 .. Len(readings)] ==
        IF k = 0 THEN <<>>
        ELSE IF readings[k].round = r THEN upto[k - 1] ELSE Append(upto[k - 1], readings[k])
  IN upto[Len(readings)]

\* One reading to a round, in the order of rounds.
Sorting(q) ==
  CHOOSE p \in Bijection(DOMAIN q, DOMAIN q) : \A i, j \in DOMAIN q : i < j => q[p[i]].round <= q[p[j]].round

KeyedByRound(s) ==
  LET all == Append(OtherRounds(s.round), s)
  IN [i \in DOMAIN all |-> all[Sorting(all)[i]]]

TakeReading ==
  /\ roundAt.step = "collapse" /\ ~clusterMark.graft /\ ~clusterMark.failed
  /\ readings' = KeyedByRound(Snapshot(roundAt.round, MeasuredPool.map, MeasuredPool.ids))
  /\ ToStep("decide")
  /\ UNCHANGED <<pool, clusterMark, lastFired, fires, diverseFaults>>

Earlier == OtherRounds(roundAt.round)

Verdicts == LET s == Snapshot(roundAt.round, MeasuredPool.map, MeasuredPool.ids)
            IN [s |-> s, v |-> CollapseSignals(Earlier, s)]

\* No quorum, or the Cartographer's call failed: the event is recorded and the round marked.
Abstain ==
  /\ roundAt.step = "decide"
  /\ IF ShouldFireGraft(Verdicts.v, Verdicts.s, roundAt.round)
     THEN diverseFaults < MaxDiverseFaults /\ diverseFaults' = diverseFaults + 1
     ELSE UNCHANGED diverseFaults
  /\ clusterMark' = [clusterMark EXCEPT !.graft = TRUE]
  /\ ToStep("collapse")
  /\ UNCHANGED <<pool, readings, lastFired, fires>>

\* record_graft: the seed is parked and the round noted, in one transaction.
FireGraft ==
  /\ roundAt.step = "decide" /\ ShouldFireGraft(Verdicts.v, Verdicts.s, roundAt.round)
  /\ lastFired' = roundAt.round
  /\ fires' = fires \cup
       {[round |-> roundAt.round, n |-> Cardinality(MeasuredPool.ids),
         held |-> {Held(MeasuredPool.map, MeasuredPool.ids, l) : l \in Families},
         bare |-> Held(MeasuredPool.map, MeasuredPool.ids, Unlabelled),
         before |-> Cardinality({readings[k].round : k \in DOMAIN readings} \ {roundAt.round})]}
  /\ ToStep("fired")
  /\ UNCHANGED <<pool, clusterMark, readings, diverseFaults>>

MarkFired ==
  /\ roundAt.step = "fired"
  /\ clusterMark' = [clusterMark EXCEPT !.graft = TRUE]
  /\ ToStep("collapse")
  /\ UNCHANGED <<pool, readings, lastFired, fires, diverseFaults>>

\* The supervisor dies, and another takes the round up from its first step.
TakeUp ==
  /\ roundAt.round <= LastRound /\ roundAt.step # "generate"
  /\ diverseFaults < MaxDiverseFaults /\ diverseFaults' = diverseFaults + 1
  /\ roundAt' = [round |-> roundAt.round, step |-> "generate", map |-> <<>>, seen |-> {}]
  /\ UNCHANGED <<pool, clusterMark, readings, lastFired, fires>>

DiversityNext ==
  \/ GenerateIdeas \/ SkipClustering \/ ClusterFew \/ LoseClustering \/ ApplyMap \/ SaveClustering
  \/ CollapseRead \/ AbstainStale \/ TakeReading \/ Abstain \/ FireGraft \/ MarkFired \/ TakeUp

DiversitySpec == DiversityInit /\ [][DiversityNext]_diverseVars

----------------------------------------------------------------------------
(* Properties *)

(* One reading to a round, in order, whatever was resumed or clustered twice:
   the plateau is read off consecutive entries. *)
ReadingsInOrder == \A j, k \in DOMAIN readings : j < k => readings[j].round < readings[k].round

(* The Cartographer is sent for a pool that has collapsed: half the ideas the
   round held are one family's, labels were given to three in four, and a full
   window of earlier rounds was read.  For a quorum of all three votes. *)
FiresOnCollapse ==
  \A f \in fires :
    /\ \E h \in f.held : 2 * h >= f.n
    /\ 4 * f.bare <= f.n
    /\ f.before >= Window

(* ... and it is left alone for the cooldown, and never sent twice in a round,
   however often that round was resumed. *)
FiresCooled ==
  /\ \A f, g \in fires : f # g => f.round - g.round > GraftCooldown \/ g.round - f.round > GraftCooldown
  /\ \A f \in fires : f.round <= lastFired

(* A round is closed on the reading of its newest answer: a pool clustered
   again is read again.  (A clustering that had nobody to ask leaves the
   earlier answer standing beside its own ids.) *)
ReadingIsOfTheMap ==
  LET m == clusterMark
  IN m.graft /\ ~m.failed /\ DOMAIN m.map # {} /\ DOMAIN m.map \subseteq m.seen =>
       \E k \in DOMAIN readings :
         /\ readings[k].round = roundAt.round /\ readings[k].n = Cardinality(m.seen)
         /\ readings[k].labels = {m.map[i] : i \in DOMAIN m.map}

(* The Cartographer is sent when the pool has collapsed and left alone for a
   cooldown, off one reading a round, of the clustering that stands. *)
GraftsHold ==
  DiversityTypeOK /\ ReadingsInOrder /\ FiresOnCollapse /\ FiresCooled /\ ReadingIsOfTheMap
=============================================================================
