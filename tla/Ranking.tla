------------------------------- MODULE Ranking -------------------------------
(***************************************************************************)
(* The tournament's arithmetic: core.make_pairs, presentation_swap,        *)
(* winner_side, k_for and elo_update, with the transactions that apply     *)
(* them (RunStore.plan_matches and record_match), the orchestrator's       *)
(* champions of a cluster and the parents it evolves from.                 *)
(*                                                                         *)
(* A round is open to new ideas, clustered, planned, judged and bred from. *)
(* A supervisor that dies leaves its planned matches; whoever resumes the  *)
(* round may add ideas to it and extends the plan for them.  Which marks   *)
(* and rows make that possible is RoundSteps' matter.  Ratings are counted *)
(* in tenths, the unit elo_update rounds to.                               *)
(***************************************************************************)
EXTENDS Integers, FiniteSets, Sequences, SequencesExt

CONSTANTS
  MaxIdeas,          \* bound: ideas a run holds, hid h001 is 1
  Clusters,          \* cluster labels, positive numbers; 0 is None
  MaxRounds,         \* bound: rounds
  MaxResumes,        \* bound: supervisors that die in a round
  PerRound,          \* matches_per_round
  TopK,              \* evolve_top_k
  KSettleAfter,      \* K_SETTLE_AFTER
  NewcomerMatches,   \* NEWCOMER_MATCHES
  InitialElo,        \* INITIAL_ELO, in tenths
  Gain(_, _)         \* k, elo_a - elo_b: what a victory of a moves, in tenths

KInitial == 32
KSettled == 16

ASSUME RankingAssumption ==
  /\ {MaxIdeas, MaxRounds, KSettleAfter, NewcomerMatches} \subseteq Nat \ {0}
  /\ {MaxResumes, PerRound, TopK, InitialElo} \subseteq Nat
  /\ Clusters \subseteq Nat \ {0} /\ IsFiniteSet(Clusters)

VARIABLES
  idea,      \* hypotheses by number: rating, counters, label and status
  match,     \* the run's matches in the order they were planned
  drawn,     \* steps[round].tournament_pool
  round,
  step,      \* the step the round is at
  verdicts,  \* history: settled matches with the idea the judge preferred
  resumes    \* history

rankingVars == <<idea, match, drawn, round, step, verdicts, resumes>>

Ideas == 1 .. MaxIdeas
Born   == {i \in Ideas : idea[i].status # "none"}
Active == {i \in Ideas : idea[i].status = "active"}

Unborn == [elo |-> InitialElo, matches |-> 0, wins |-> 0, cluster |-> 0, status |-> "none"]

Planned == {n \in DOMAIN match : match[n].round = round}
Waiting == {n \in Planned : match[n].status = "planned"}

Of(m) == {m.a, m.b}
MeetingKey(a, b) == IF a <= b THEN <<a, b>> ELSE <<b, a>>

\* S in the order of Before: the n-th has n - 1 before it.
Sorted(S, Before(_, _)) ==
  [n \in 1 .. Cardinality(S) |-> CHOOSE i \in S : Cardinality({j \in S : Before(j, i)}) = n - 1]

----------------------------------------------------------------------------
(* make_pairs *)

\* The standings: by rating, then by hid.
Ahead(i, j) == idea[i].elo > idea[j].elo \/ (idea[i].elo = idea[j].elo /\ i < j)
Ranked(S)   == Sorted(S, Ahead)

Legal(i, j)  == idea[i].cluster = 0 \/ idea[i].cluster # idea[j].cluster
Newcomer(i)  == idea[i].matches < NewcomerMatches
Paired(i, C) == \E p \in C : i \in {p[1], p[2]}

Adjacent(ranked) ==
  {p \in {<<ranked[n], ranked[n + 1]>> : n \in 1 .. Len(ranked) - 1} : Legal(p[1], p[2])}

\* _nearest_legal_partner: outwards from position n, the side ahead first
NearestLegal(ranked, n) ==
  LET open == {k \in DOMAIN ranked \ {n} : Legal(ranked[n], ranked[k])}
      Far(k) == IF k < n THEN n - k ELSE k - n
  IN {k \in open : \A j \in open : Far(k) < Far(j) \/ (Far(k) = Far(j) /\ k <= j)}

\* A newcomer that is no neighbour's candidate reaches further out.
WithPartner(ranked, C, n) ==
  IF Newcomer(ranked[n]) /\ ~Paired(ranked[n], C)
    THEN C \cup {IF n < k THEN <<ranked[n], ranked[k]>> ELSE <<ranked[k], ranked[n]>>
                   : k \in NearestLegal(ranked, n)}
    ELSE C

Candidates(ranked) ==
  LET upto[n \in 0 .. Len(ranked)] ==
        IF n = 0 THEN Adjacent(ranked) ELSE WithPartner(ranked, upto[n - 1], n)
  IN upto[Len(ranked)]

\* least_played, over the counts at the round's start and the slots handed out
Played(i, taken) == idea[i].matches + Cardinality({n \in DOMAIN taken : i \in {taken[n][1], taken[n][2]}})
LessPlayed(p, q, taken) ==
  LET a == Played(p[1], taken)   b == Played(p[2], taken)
      c == Played(q[1], taken)   d == Played(q[2], taken)
      Low(x, y) == IF x <= y THEN x ELSE y
  IN Low(a, b) < Low(c, d) \/ (Low(a, b) = Low(c, d) /\ a + b < c + d)

\* What the seeded shuffle and the stable sort that follows it can produce.
OrderedPools(C) ==
  {s \in SetToSeqs(C) :
     \A m, n \in DOMAIN s : m < n => ~LessPlayed(s[n], s[m], <<>>)}

\* The least played of the options, in the pool's order where they tie.
LeastPlayed(pool, options, taken) ==
  pool[CHOOSE n \in options : \A m \in options :
         LessPlayed(pool[n], pool[m], taken) \/ (~LessPlayed(pool[m], pool[n], taken) /\ n <= m)]

\* One more slot, if the plan has one and some candidate in `among` is left.
Take(pool, taken, among) ==
  LET options == {n \in DOMAIN pool : pool[n] \in among /\ ~Contains(taken, pool[n])}
  IN IF Len(taken) < PerRound /\ options # {}
       THEN Append(taken, LeastPlayed(pool, options, taken)) ELSE taken

\* Phase 1 gives each newcomer a slot, the least played first ...
FirstSlot(pool, taken, i) ==
  IF Paired(i, ToSet(taken)) THEN taken
  ELSE Take(pool, taken, {p \in ToSet(pool) : i \in {p[1], p[2]}})

FirstSlots(ranked, pool) ==
  LET position(i) == CHOOSE n \in DOMAIN ranked : ranked[n] = i
      newcomers   == {i \in ToSet(ranked) : Newcomer(i)}
      order == Sorted(newcomers,
        LAMBDA i, j : \/ idea[i].matches < idea[j].matches
                      \/ idea[i].matches = idea[j].matches /\ position(i) < position(j))
      after[n \in 0 .. Cardinality(newcomers)] ==
        IF n = 0 THEN <<>> ELSE FirstSlot(pool, after[n - 1], order[n])
  IN after[Cardinality(newcomers)]

\* ... and phase 2 fills what is left.
Pairing(ranked, pool) ==
  LET after[n \in 0 .. PerRound] ==
        IF n = 0 THEN FirstSlots(ranked, pool) ELSE Take(pool, after[n - 1], ToSet(pool))
  IN after[PerRound]

\* Every plan make_pairs may return for the standings of S.
MakePairs(S) ==
  LET ranked == Ranked(S)
  IN {Pairing(ranked, pool) : pool \in OrderedPools(Candidates(ranked))}

----------------------------------------------------------------------------
(* Judging *)

\* _prior_meetings: completed, and in an earlier round
PriorMeetings(a, b) ==
  Cardinality({n \in DOMAIN match :
    match[n].round < round /\ match[n].status = "completed" /\ Of(match[n]) = {a, b}})

PresentationSwap(a, b, meetings) == MeetingKey(a, b)[1 + (meetings % 2)] # a

PresentationOrder(m) ==
  IF PresentationSwap(m.a, m.b, PriorMeetings(m.a, m.b)) THEN <<m.b, m.a>> ELSE <<m.a, m.b>>

\* Mutant: the judge's position is taken for the plan's.
PositionIsSide(m, position) == IF position = 1 THEN "a" ELSE "b"

WinnerSide(m, position) == IF PresentationOrder(m)[position] = m.a THEN "a" ELSE "b"

KFor(x, y) == IF x >= KSettleAfter /\ y >= KSettleAfter THEN KSettled ELSE KInitial

\* What a gains b loses: one rounded number moves both.
EloUpdate(x, y, winner, k) ==
  LET delta == IF winner = "a" THEN Gain(k, x - y) ELSE -Gain(k, y - x)
  IN <<x + delta, y - delta>>

----------------------------------------------------------------------------
(* Clusters and parents *)

\* Judged members first, then rating, then hid.
RankKeyBefore(i, j) ==
  IF (idea[i].matches > 0) # (idea[j].matches > 0) THEN idea[i].matches > 0
  ELSE idea[i].elo > idea[j].elo \/ (idea[i].elo = idea[j].elo /\ i < j)

\* Mutant: rating alone, which a newcomer starts with more of than a loser has.
ByRatingAlone(group) == CHOOSE i \in group : \A j \in group \ {i} :
  idea[i].elo > idea[j].elo \/ (idea[i].elo = idea[j].elo /\ i < j)

Champion(group) == CHOOSE i \in group : \A j \in group \ {i} : RankKeyBefore(i, j)

\* _parents: all but the last slot by rank, the last for another cluster
Group(i) == IF idea[i].cluster = 0 THEN <<"h", i>> ELSE <<"c", idea[i].cluster>>

Parents(ranked) ==
  IF TopK <= 1 \/ Len(ranked) <= TopK
    THEN SubSeq(ranked, 1, IF Len(ranked) < TopK THEN Len(ranked) ELSE TopK)
    ELSE LET head == SubSeq(ranked, 1, TopK - 1)
             outsiders == {n \in TopK .. Len(ranked) :
                             \A m \in 1 .. TopK - 1 : Group(ranked[m]) # Group(ranked[n])}
             last == IF outsiders = {} THEN TopK
                     ELSE CHOOSE n \in outsiders : \A k \in outsiders : n <= k
         IN Append(head, ranked[last])

EvolutionRanked == Sorted(Active, RankKeyBefore)

----------------------------------------------------------------------------
RankingInit ==
  /\ idea = [i \in Ideas |-> Unborn]
  /\ match = <<>> /\ drawn = {}
  /\ round = 1 /\ step = "open"
  /\ verdicts = <<>> /\ resumes = 0

\* add_hypothesis, by a generation shard
Join ==
  /\ step = "open"
  /\ \E i \in Ideas : i = Cardinality(Born) + 1
       /\ idea' = [idea EXCEPT ![i].status = "active"]
  /\ UNCHANGED <<match, drawn, round, step, verdicts, resumes>>

\* The proximity call labels some of the pool; a label's champion stands.
Cluster ==
  /\ step = "open" /\ Cardinality(Active) >= 2
  /\ \E known \in SUBSET Active : \E label \in [known -> Clusters] :
       LET champions == {Champion({j \in known : label[j] = label[i]}) : i \in known}
       IN idea' = [i \in Ideas |->
            IF i \notin known THEN idea[i]
            ELSE [idea[i] EXCEPT !.cluster = label[i],
                                !.status = IF i \in champions THEN @ ELSE "archived"]]
  /\ step' = "plan"
  /\ UNCHANGED <<match, drawn, round, verdicts, resumes>>

\* The call failed, or the pool has fewer than two ideas.
ClusterFailed ==
  /\ step = "open"
  /\ step' = "plan"
  /\ UNCHANGED <<idea, match, drawn, round, verdicts, resumes>>

Entries(pairs) ==
  [n \in DOMAIN pairs |-> [round |-> round, a |-> pairs[n][1], b |-> pairs[n][2],
     status |-> "planned", first |-> 0, before |-> <<0, 0>>, after |-> <<0, 0>>]]

\* The round has no plan: draw one from the active pool.
Plan ==
  /\ step = "plan" /\ Planned = {}
  /\ \E pairs \in MakePairs(Active) :
       /\ match' = match \o Entries(pairs)
       /\ drawn' = IF pairs = <<>> THEN drawn ELSE Active
  /\ step' = "judge"
  /\ UNCHANGED <<idea, round, verdicts, resumes>>

\* Of the pairs drawn from newcomers, those with nobody scheduled already.
Unscheduled(pairs) ==
  LET fresh == {k \in DOMAIN pairs : \A n \in Planned : {pairs[k][1], pairs[k][2]} \cap Of(match[n]) = {}}
      order == Sorted(fresh, LAMBDA k, l : k < l)
  IN [n \in DOMAIN order |-> pairs[order[n]]]

\* The ideas the round's plan could not have known about.
Newcomers == Active \ drawn

\* _extend_plan: the plan stands and grows for the ideas it was not drawn from.
ExtendPlan ==
  /\ step = "plan" /\ Planned # {}
  /\ \E pairs \in MakePairs(Newcomers) :
       LET additions == Unscheduled(pairs)
       IN /\ match' = match \o Entries(additions)
          /\ drawn' = IF additions = <<>> THEN drawn ELSE Active
  /\ step' = "judge"
  /\ UNCHANGED <<idea, round, verdicts, resumes>>

\* record_match, with a verdict on a position
Settle(n) ==
  /\ step = "judge" /\ n \in Waiting
  /\ \E position \in 1 .. 2 :
       LET m     == match[n]
           side  == WinnerSide(m, position)
           elo   == EloUpdate(idea[m.a].elo, idea[m.b].elo, side, KFor(idea[m.a].matches, idea[m.b].matches))
           Won(i, s) == [idea[i] EXCEPT !.elo = elo[IF s = "a" THEN 1 ELSE 2], !.matches = @ + 1,
                                       !.wins = IF side = s THEN @ + 1 ELSE @]
       IN /\ idea' = [idea EXCEPT ![m.a] = Won(m.a, "a"), ![m.b] = Won(m.b, "b")]
          /\ match' = [match EXCEPT ![n] = [@ EXCEPT !.status = "completed",
               !.first = PresentationOrder(m)[1],
               !.before = <<idea[m.a].elo, idea[m.b].elo>>, !.after = elo]]
          /\ verdicts' = Append(verdicts, [match |-> n, better |-> PresentationOrder(m)[position]])
  /\ UNCHANGED <<drawn, round, step, resumes>>

\* record_match(winner=None): nobody could judge it
Skip(n) ==
  /\ step = "judge" /\ n \in Waiting
  /\ match' = [match EXCEPT ![n].status = "skipped"]
  /\ UNCHANGED <<idea, drawn, round, step, verdicts, resumes>>

Judged ==
  /\ step = "judge" /\ Waiting = {}
  /\ step' = "breed"
  /\ UNCHANGED <<idea, match, drawn, round, verdicts, resumes>>

\* A variant of the parents joins, or the call failed; the round closes.
Breed ==
  /\ step = "breed" /\ round < MaxRounds
  /\ \/ UNCHANGED idea
     \/ /\ Parents(EvolutionRanked) # <<>>
        /\ \E i \in Ideas : i = Cardinality(Born) + 1
             /\ idea' = [idea EXCEPT ![i].status = "active"]
  /\ round' = round + 1 /\ step' = "open" /\ drawn' = {}
  /\ UNCHANGED <<match, verdicts, resumes>>

\* A supervisor that dies in the round leaves its rows to the next.
Resume ==
  /\ step \in {"plan", "judge", "breed"} /\ resumes < MaxResumes
  /\ step' = "open" /\ resumes' = resumes + 1
  /\ UNCHANGED <<idea, match, drawn, round, verdicts>>

RankingNext ==
  \/ Join \/ Cluster \/ ClusterFailed \/ Plan \/ ExtendPlan
  \/ \E n \in DOMAIN match : Settle(n) \/ Skip(n)
  \/ Judged \/ Breed \/ Resume

RankingSpec == RankingInit /\ [][RankingNext]_rankingVars

----------------------------------------------------------------------------
RankingTypeOK ==
  /\ idea \in [Ideas -> [elo : Int, matches : Nat, wins : Nat, cluster : Clusters \cup {0},
                        status : {"none", "active", "archived"}]]
  /\ match \in Seq([round : 1 .. MaxRounds, a : Ideas, b : Ideas,
                    status : {"planned", "completed", "skipped"}, first : Ideas \cup {0},
                    before : Int \X Int, after : Int \X Int])
  /\ drawn \subseteq Ideas /\ round \in 1 .. MaxRounds
  /\ step \in {"open", "plan", "judge", "breed"}
  /\ verdicts \in Seq([match : DOMAIN match, better : Ideas])
  /\ resumes \in 0 .. MaxResumes

\* The pool's total rating is conserved, however many matches a run plays and
\* in whatever order the judges answer (the docstring of elo_update).
Points(r) ==
  LET upto[n \in 0 .. MaxIdeas] == IF n = 0 THEN 0 ELSE upto[n - 1] + r[n].elo - InitialElo
  IN upto[MaxIdeas]

RatingsConserved == Points(idea) = 0

\* In a history v of verdicts on the matches s: those on an idea's matches,
\* what it had before one and after it, and the last of them before t, 0 when
\* there is none.
Turns(s, v, i)      == {t \in DOMAIN v : i \in Of(s[v[t].match])}
SideOf(m, i)        == IF m.a = i THEN 1 ELSE 2
Started(s, v, t, i) == s[v[t].match].before[SideOf(s[v[t].match], i)]
EndedAt(s, v, t, i) == IF t = 0 THEN InitialElo ELSE s[v[t].match].after[SideOf(s[v[t].match], i)]
Latest(turns, t)    == Max({0} \cup {u \in turns : u < t})

\* The ratings are what the record of matches replays to: settled in the order
\* of the transactions, each match starts for both sides where their last one
\* ended, and an idea's row holds the end of its last; the counters count the
\* matches it played and the verdicts in its favour.
Replays(r, s, v) ==
  \A i \in Ideas :
    LET turns == Turns(s, v, i)
    IN /\ \A t \in turns : Started(s, v, t, i) = EndedAt(s, v, Latest(turns, t), i)
       /\ r[i].elo = EndedAt(s, v, Latest(turns, Len(v) + 1), i)
       /\ r[i].matches = Cardinality(turns)
       /\ r[i].wins = Cardinality({t \in turns : v[t].better = i})

RecordReplays == Replays(idea, match, verdicts)

\* When two ideas meet again the judge reads them in the other order, whatever
\* the standings, the plan's sides or a resumed round did in between.
MeetingsAlternate ==
  \A m, n \in DOMAIN match :
    (/\ m < n /\ Of(match[m]) = Of(match[n])
     /\ match[m].status = "completed" /\ match[n].status = "completed"
     /\ \A k \in m + 1 .. n - 1 : Of(match[k]) = Of(match[m]) => match[k].status # "completed")
    => match[m].first # match[n].first

\* Two ideas meet at most once in a round, in all the plans the round had.
OncePerRound ==
  \A m, n \in DOMAIN match :
    (m < n /\ match[m].round = match[n].round) => Of(match[m]) # Of(match[n])

\* A newcomer with a legal opponent sits a plan out only if the plan is full
\* and each match in it was the first of an idea that played no more than it.
NewcomerServed ==
  [][(step = "plan" /\ step' = "judge" /\ Planned = {}) =>
       LET added     == Len(match) + 1 .. Len(match')
           First(j, n) == j \in Of(match'[n]) /\ \A k \in added : k < n => j \notin Of(match'[k])
       IN \A i \in Active :
            (/\ Newcomer(i) /\ \E j \in Active \ {i} : Legal(i, j)
             /\ \A n \in added : i \notin Of(match'[n]))
            => /\ Cardinality(added) = PerRound
               /\ \A n \in added : \E j \in Active : First(j, n) /\ idea[j].matches <= idea[i].matches]_rankingVars

\* Clustering never sets aside the idea that leads the judged ones, neither for
\* a newcomer that still has its starting rating nor for another of its label.
LeaderStands ==
  [][(step = "open" /\ step' = "plan") =>
       \A i \in Active :
         (/\ idea[i].matches > 0
          /\ \A j \in Active : idea[j].matches > 0 => idea[j].elo <= idea[i].elo
          /\ \A j \in Active : (idea[j].matches > 0 /\ idea[j].elo = idea[i].elo) => i <= j)
         => idea'[i].status = "active"]_rankingVars

\* Evolution breeds from two clusters whenever the pool holds two and it takes
\* at least two parents, whichever ideas the tournament put on top.
ParentsSpread ==
  LET parents == Parents(EvolutionRanked)
  IN (step = "breed" /\ TopK >= 2 /\ Cardinality({Group(i) : i \in Active}) >= 2)
     => Cardinality({Group(parents[n]) : n \in DOMAIN parents}) >= 2

\* The ratings are what the judges said, each verdict counted once: no points
\* appear or vanish, and the rows replay from the record of the matches.
RatingsHold == RankingTypeOK /\ RatingsConserved /\ RecordReplays

\* The plans are fair to the pool: newcomers meet someone, nobody meets the same
\* idea twice in a round or from the same side twice running, the leader is not
\* clustered away and the parents are not all of one cluster.
PlansHold ==
  [](MeetingsAlternate /\ OncePerRound /\ ParentsSpread) /\ NewcomerServed /\ LeaderStands
=============================================================================
