-------------------------- MODULE RoundStepsProofs ---------------------------
(***************************************************************************)
(* Proofs about RoundSteps, for any number of rounds, ideas, shards,       *)
(* labels, notes, faults and interventions; and about Diversity, the       *)
(* collapse detector of a round.  They share no state; each has its own    *)
(* invariant.                                                              *)
(***************************************************************************)
EXTENDS RoundSteps, Diversity, TLAPS, SequenceTheorems, FiniteSetTheorems, NaturalsInduction,
        WellFoundedInduction

-----------------------------------------------------------------------------
(* Types.  TypeOK by the kind of variable, with what each step of the
   supervisor holds in its hands. *)

IdeaOK  == idea \in [Ids -> Row]
MatchOK == match \in [Rounds -> [Pairs -> {"none", "planned", "completed", "skipped"}]]
MarkOK  == mark \in [Rounds -> MarkRow]
NotesOK ==
  /\ queue \subseteq Notes /\ given \subseteq Notes /\ dropped \subseteq Notes
  /\ noted \in [Rounds -> SUBSET Notes]
RunOK ==
  /\ seed \in [pending : 0 .. MaxRounds, fired : 0 .. MaxRounds]
  /\ DOMAIN fed \subseteq Rounds /\ \A r \in DOMAIN fed : fed[r] \subseteq Ids
  /\ closed \in 0 .. MaxRounds /\ target \in Rounds
  /\ overview \in {"none", "fresh", "stale"}
GhostOK ==
  /\ passes \in [Rounds -> [Units -> Nat]] /\ torn \in Nat
  /\ unheard \subseteq Ids
  /\ faults \in 0 .. MaxFaults /\ archives \in 0 .. MaxArchives

Works  == (SUBSET Shards) \cup (SUBSET Ids) \cup (SUBSET Pairs)
Locals == [round : 0 .. MaxRounds + 1, hand : SUBSET Notes, seed : 0 .. MaxRounds,
           work : Works,
           unit : 0 .. MaxIdeas, added : 0 .. PerUnit, pool : SUBSET Ids]

LocalOK ==
  /\ pc \in Steps /\ at \in Locals
  /\ pc \notin {"off", "report", "over"} => at.round \in Rounds
  /\ pc = "add" => at.work \subseteq Shards /\ at.work # {}
  /\ pc \in {"review", "reviewed"} => at.work \subseteq Ids
  /\ pc = "reviewed" => at.unit \in Ids
  /\ pc \in {"plan", "judge"} => at.work \subseteq Pairs

Typed == IdeaOK /\ MatchOK /\ MarkOK /\ NotesOK /\ RunOK /\ GhostOK /\ LocalOK

LEMMA TypedTypeOK == Typed => TypeOK
BY DEF Typed, IdeaOK, MatchOK, MarkOK, NotesOK, RunOK, GhostOK, LocalOK, Locals, TypeOK

LEMMA Numbers ==
  /\ MaxRounds \in Nat \ {0} /\ MaxIdeas \in Nat \ {0} /\ PerUnit \in Nat \ {0}
  /\ MaxTries \in Nat \ {0} /\ PerRound \in Nat /\ Cooldown \in Nat
  /\ MaxFaults \in Nat /\ MaxArchives \in Nat
  /\ FirstTarget \in Rounds /\ Rounds \subseteq 0 .. MaxRounds
  /\ Ids \subseteq 0 .. MaxIdeas /\ 0 \notin Ids
  /\ Shards \subseteq Nat \ {0} /\ Shards \subseteq Units /\ 0 \in Units /\ 0 \notin Shards
  /\ 0 \notin Labels
BY RoundStepsAssumption DEF Rounds, Ids, Units

(* What changes which rows. *)
LEMMA IdeaFrame ==
  ASSUME [Next]_vars
  PROVE  \/ UNCHANGED idea
         \/ AddGenerated \/ AddVariant \/ ApplyClusters
         \/ \E i \in Ids, v \in {"keep", "reject"} : RecordReview(i, v)
         \/ \E p \in Pairs, result \in {"completed", "skipped"} : RecordMatch(p, result)
         \/ \E i \in Ids : Archive(i)
BY DEF Next, Supervise, Prepare, Produce, Criticise, Group, Diverge, Compete, Breed, Conclude,
   vars, rows, ghost, history, MarkCluster,
   Boot, Claim, SaveNotes, Open, Generate, MarkShard, ClearSeed, Reflect, MarkReviewed, ReviewsEnd,
   ClusterDone, ClusterSmall, ClusterAsk, ClusterFailed, MarkClustered,
   CollapseDone, CollapseAbstain, RecordGraft, MarkGraft, PlanDone, MarkPool, PlanMatches, JudgeEnd,
   EvolveDone, EvolveNothing, EvolveFailed, Evolve, MarkEvolution, MetaReview, NoMetaReview, Close,
   Report, Pause, Stop, Die, Continue, GiveNote

LEMMA MarkFrame ==
  ASSUME [Next]_vars
  PROVE  \/ UNCHANGED mark
         \/ MarkShard \/ MarkReviewed \/ ClusterSmall \/ ClusterFailed \/ MarkClustered
         \/ CollapseAbstain \/ MarkGraft \/ MarkPool \/ EvolveNothing \/ EvolveFailed \/ MarkEvolution
BY DEF Next, Supervise, Prepare, Produce, Criticise, Group, Diverge, Compete, Breed, Conclude,
   vars, rows, ghost, history,
   Boot, Claim, SaveNotes, Open, Generate, AddGenerated, AddIdea, ClearSeed, Reflect, RecordReview,
   ReviewsEnd, ClusterDone, ClusterAsk, ApplyClusters, CollapseDone, RecordGraft, PlanDone, PlanMatches,
   RecordMatch, JudgeEnd, EvolveDone, Evolve, AddVariant, MetaReview, NoMetaReview, Close,
   Report, Pause, Stop, Die, Continue, GiveNote, Archive

LEMMA MatchFrame ==
  ASSUME [Next]_vars
  PROVE  \/ UNCHANGED match
         \/ PlanMatches
         \/ \E p \in Pairs, result \in {"completed", "skipped"} : RecordMatch(p, result)
BY DEF Next, Supervise, Prepare, Produce, Criticise, Group, Diverge, Compete, Breed, Conclude,
   vars, rows, ghost, history, MarkCluster,
   Boot, Claim, SaveNotes, Open, Generate, AddGenerated, AddIdea, MarkShard, ClearSeed, Reflect,
   RecordReview, MarkReviewed, ReviewsEnd, ClusterDone, ClusterSmall, ClusterAsk, ClusterFailed,
   ApplyClusters, MarkClustered, CollapseDone, CollapseAbstain, RecordGraft, MarkGraft, PlanDone,
   MarkPool, JudgeEnd, EvolveDone, EvolveNothing, EvolveFailed, Evolve, AddVariant, MarkEvolution,
   MetaReview, NoMetaReview, Close, Report, Pause, Stop, Die, Continue, GiveNote, Archive

LEMMA NotesFrame ==
  ASSUME [Next]_vars
  PROVE  \/ UNCHANGED <<queue, noted, given, dropped>>
         \/ Claim \/ SaveNotes \/ Die \/ \E n \in Notes : GiveNote(n)
BY DEF Next, Supervise, Prepare, Produce, Criticise, Group, Diverge, Compete, Breed, Conclude,
   vars, rows, ghost, history, MarkCluster,
   Boot, Open, Generate, AddGenerated, AddIdea, MarkShard, ClearSeed, Reflect,
   RecordReview, MarkReviewed, ReviewsEnd, ClusterDone, ClusterSmall, ClusterAsk, ClusterFailed,
   ApplyClusters, MarkClustered, CollapseDone, CollapseAbstain, RecordGraft, MarkGraft, PlanDone,
   MarkPool, PlanMatches, RecordMatch, JudgeEnd, EvolveDone, EvolveNothing, EvolveFailed, Evolve,
   AddVariant, MarkEvolution, MetaReview, NoMetaReview, Close, Report, Pause, Stop, Continue, Archive

LEMMA RunFrame ==
  ASSUME [Next]_vars
  PROVE  /\ UNCHANGED seed \/ ClearSeed \/ RecordGraft
         /\ UNCHANGED fed \/ MetaReview
         /\ UNCHANGED closed \/ Close
         /\ UNCHANGED target \/ Continue
         /\ UNCHANGED overview \/ Report \/ Continue
BY DEF Next, Supervise, Prepare, Produce, Criticise, Group, Diverge, Compete, Breed, Conclude,
   vars, rows, ghost, history, MarkCluster,
   Boot, Claim, SaveNotes, Open, Generate, AddGenerated, AddIdea, MarkShard, ClearSeed, Reflect,
   RecordReview, MarkReviewed, ReviewsEnd, ClusterDone, ClusterSmall, ClusterAsk, ClusterFailed,
   ApplyClusters, MarkClustered, CollapseDone, CollapseAbstain, RecordGraft, MarkGraft, PlanDone,
   MarkPool, PlanMatches, RecordMatch, JudgeEnd, EvolveDone, EvolveNothing, EvolveFailed, Evolve,
   AddVariant, MarkEvolution, MetaReview, NoMetaReview, Close, Report, Pause, Stop, Die, Continue,
   GiveNote, Archive

LEMMA GhostFrame ==
  ASSUME [Next]_vars
  PROVE  /\ UNCHANGED passes \/ AddGenerated \/ AddVariant
         /\ UNCHANGED <<torn, unheard>> \/ Die
         /\ UNCHANGED faults \/ Fault
         /\ UNCHANGED archives \/ \E i \in Ids : Archive(i)
BY DEF Next, Supervise, Prepare, Produce, Criticise, Group, Diverge, Compete, Breed, Conclude,
   vars, rows, ghost, history, MarkCluster, NoFault,
   Boot, Claim, SaveNotes, Open, Generate, AddGenerated, AddIdea, MarkShard, ClearSeed, Reflect,
   RecordReview, MarkReviewed, ReviewsEnd, ClusterDone, ClusterSmall, ClusterAsk, ClusterFailed,
   ApplyClusters, MarkClustered, CollapseDone, CollapseAbstain, RecordGraft, MarkGraft, PlanDone,
   MarkPool, PlanMatches, RecordMatch, JudgeEnd, EvolveDone, EvolveNothing, EvolveFailed, Evolve,
   AddVariant, MarkEvolution, MetaReview, NoMetaReview, Close, Report, Pause, Stop, Die, Continue,
   GiveNote, Archive

LEMMA TypedInit == Init => Typed
<1>. SUFFICES ASSUME Init PROVE Typed
  OBVIOUS
<1>. USE Numbers DEF Init
<1>1. IdeaOK
  BY DEF IdeaOK, Unborn, Row, Rounds
<1>2. MatchOK /\ MarkOK
  BY DEF MatchOK, MarkOK, NoMarks, MarkRow
<1>3. NotesOK /\ RunOK
  BY DEF NotesOK, RunOK
<1>4. GhostOK
  BY DEF GhostOK
<1>5. LocalOK
  BY DEF LocalOK, Steps, Locals, Works, Idle
<1>. QED
  BY <1>1, <1>2, <1>3, <1>4, <1>5 DEF Typed

(* Sets of the rows. *)
LEMMA BornFinite ==
  IsFiniteSet(Ids) /\ IsFiniteSet(Born) /\ Cardinality(Born) \in Nat /\ NextId \in Nat \ {0}
<1>1. IsFiniteSet(Ids)
  BY Numbers, FS_Interval DEF Ids
<1>2. IsFiniteSet(Born)
  BY <1>1, FS_Subset DEF Born
<1>. QED
  BY <1>1, <1>2, FS_CardinalityType DEF NextId

LEMMA LeastOf ==
  ASSUME NEW T \in SUBSET Nat, T # {}
  PROVE  \E m \in T : \A k \in T : m <= k
<1>. DEFINE less == OpToRel(<, Nat)
<1>1. IsWellFoundedOn(less, Nat)
  BY NatLessThanWellFounded
<1>2. \E m \in T : \A k \in T : ~(<<k, m>> \in less)
  <2>. HIDE DEF less
  <2>. QED
    BY <1>1, WFMin
<1>3. PICK m \in T : \A k \in T : ~(<<k, m>> \in less)
  BY <1>2
<1>4. ASSUME NEW k \in T PROVE m <= k
  <2>1. <<k, m>> \in Nat \X Nat /\ ~(<<k, m>> \in less)
    BY <1>3
  <2>2. ~(<<k, m>>[1] < <<k, m>>[2])
    BY <2>1, Zenon DEF OpToRel
  <2>. QED
    BY <2>2
<1>. QED
  BY <1>4

LEMMA ShardInHand ==
  ASSUME LocalOK, pc = "add"
  PROVE  Shard \in at.work /\ Shard \in Shards
<1>1. at.work \in SUBSET Nat /\ at.work # {} /\ at.work \subseteq Shards
  BY Numbers DEF LocalOK
<1>2. \E s \in at.work : \A t \in at.work : s <= t
  BY <1>1, LeastOf
<1>3. Shard \in at.work
  BY <1>2 DEF Shard
<1>. QED
  BY <1>1, <1>3

(* Ideas. *)
LEMMA AddIdeaType ==
  ASSUME IdeaOK, NEW r \in 0 .. MaxRounds, NEW u \in Units, NEW s \in 0 .. MaxRounds,
         idea' = [idea EXCEPT ![NextId] = NewIdea(r, u, s)]
  PROVE  IdeaOK'
<1>1. NewIdea(r, u, s) \in Row
  <2>1. Unborn \in Row
    BY Numbers DEF Unborn, Row
  <2>2. ASSUME NEW x \in Row
        PROVE  [x EXCEPT !.status = "active", !.born = r, !.unit = u, !.seed = s] \in Row
    BY <2>2 DEF Row
  <2>. QED
    BY <2>1, <2>2 DEF NewIdea
<1>. QED
  BY <1>1 DEF IdeaOK

(* What applying clusters and setting aside do to one row of the pool. *)
Touched(i) ==
  /\ idea'[i].status \in {idea[i].status, "archived"}
  /\ idea'[i].born = idea[i].born /\ idea'[i].unit = idea[i].unit
  /\ idea'[i].reviews = idea[i].reviews /\ idea'[i].seed = idea[i].seed
  /\ idea'[i].played = idea[i].played

LEMMA DuplicatesOf ==
  ASSUME NEW shown \in SUBSET Ids, NEW label \in [shown -> Labels], NEW dups \in Duplicates(label)
  PROVE  /\ DOMAIN dups \subseteq shown
         /\ \A i \in DOMAIN dups : dups[i] \in shown \ DOMAIN dups
         /\ dups = [i \in DOMAIN dups |-> dups[i]]
<1>. DEFINE groups == {{i \in DOMAIN label : label[i] = l} : l \in Labels} \ {{}}
            Peers(i) == {j \in DOMAIN label : label[j] = label[i]}
<1>0. DOMAIN label = shown
  OBVIOUS
<1>1. PICK c \in SUBSET DOMAIN label :
        /\ \A g \in groups : \E i \in Champions(g) : c \cap g = {i}
        /\ dups = [i \in DOMAIN label \ c |-> CHOOSE j \in c : j \in Peers(i)]
  BY Zenon DEF Duplicates
<1>2. ASSUME NEW i \in DOMAIN label PROVE \E j \in c : j \in Peers(i)
  <2>1. Peers(i) \in groups
    BY <1>2
  <2>. QED
    BY <1>1, <2>1
<1>. HIDE DEF groups, Peers
<1>3. DOMAIN dups = shown \ c
  BY <1>0, <1>1
<1>4. \A i \in DOMAIN dups : dups[i] \in c
  <2>. SUFFICES ASSUME NEW i \in DOMAIN label \ c PROVE dups[i] \in c
    BY <1>0, <1>3
  <2>1. dups[i] = CHOOSE j \in c : j \in Peers(i)
    BY <1>1
  <2>. QED
    BY <1>2, <2>1
<1>. QED
  BY <1>0, <1>1, <1>3, <1>4

-----------------------------------------------------------------------------
(* Duplicates and survivors. *)

(* One hop of Survivor. *)
Hop(c, row, retiring) ==
  IF /\ row[c].status # "active" \/ c \in retiring
     /\ row[c].dup \notin {0, c}
  THEN row[c].dup ELSE c

(* Where one hop ends, the walk ends. *)
LEMMA SurvivorOf ==
  ASSUME NEW i, NEW row, NEW retiring, NEW j,
         Hop(i, row, retiring) = j, Hop(j, row, retiring) = j
  PROVE  Survivor(i, row, retiring) = j
<1>. DEFINE N(c) == IF /\ row[c].status # "active" \/ c \in retiring
                       /\ row[c].dup \notin {0, c}
                    THEN row[c].dup ELSE c
            Walks(f) == f = [n \in 0 .. MaxIdeas |-> IF n = 0 THEN i ELSE N(f[n - 1])]
            g == [n \in 0 .. MaxIdeas |-> IF n = 0 THEN i ELSE j]
            walk == CHOOSE f : Walks(f)
<1>1. N(i) = j /\ N(j) = j
  BY DEF Hop
<1>2. Survivor(i, row, retiring) = walk[MaxIdeas]
  BY DEF Survivor
<1>. HIDE DEF N
<1>3. Walks(g)
  <2>1. ASSUME NEW n \in 0 .. MaxIdeas, n # 0 PROVE N(g[n - 1]) = j
    <3>1. n - 1 \in 0 .. MaxIdeas
      BY <2>1, Numbers
    <3>2. g[n - 1] = i \/ g[n - 1] = j
      BY <3>1
    <3>. QED
      BY <3>2, <1>1
  <2>. QED
    BY <2>1
<1>. HIDE DEF g
<1>4. Walks(walk)
  <2>1. \E f : Walks(f)
    BY <1>3
  <2>. HIDE DEF Walks
  <2>. QED
    BY <2>1
<1>. HIDE DEF walk
<1>5. walk[0] = i /\ \A n \in 1 .. MaxIdeas : walk[n] = N(walk[n - 1])
  BY <1>4, Numbers
<1>6. \A n \in 1 .. MaxIdeas : walk[n] = j
  <2>. SUFFICES ASSUME NEW o \in 1 .. MaxIdeas, walk[o] # j PROVE FALSE
    OBVIOUS
  <2>. DEFINE T == {n \in 1 .. MaxIdeas : walk[n] # j}
  <2>1. T \in SUBSET Nat /\ T # {}
    BY Numbers
  <2>2. PICK m \in T : \A k \in T : m <= k
    BY <2>1, LeastOf
  <2>3. CASE m = 1
    BY <2>2, <2>3, <1>1, <1>5
  <2>4. CASE m # 1
    <3>1. m - 1 \in 1 .. MaxIdeas /\ m - 1 < m
      BY <2>2, <2>4, Numbers
    <3>2. walk[m - 1] = j
      BY <2>2, <3>1
    <3>. QED
      BY <2>2, <3>2, <1>1, <1>5
  <2>. QED
    BY <2>3, <2>4
<1>. QED
  BY <1>2, <1>6, Numbers

(* The rows a clustering writes, once its champions are their own survivors. *)
Labelled(i, label) ==
  IF i \in DOMAIN label THEN [idea[i] EXCEPT !.label = label[i]] ELSE idea[i]
Merged(i, label, dups) ==
  IF i \in DOMAIN dups
  THEN [Labelled(i, label) EXCEPT !.dup = dups[i],
                                  !.status = IF @ = "active" THEN "archived" ELSE @]
  ELSE Labelled(i, label)
Reaimed(i, label, dups) ==
  LET m == Merged(i, label, dups)
  IN IF m.dup \in DOMAIN dups /\ dups[m.dup] # i THEN [m EXCEPT !.dup = dups[m.dup]] ELSE m

LEMMA ClusteredRows ==
  ASSUME NEW some \in SUBSET Ids, \A i \in some : idea[i].dup = 0,
         NEW label \in [some -> Labels], NEW dups \in Duplicates(label)
  PROVE  Clustered(label, dups) = [i \in Ids |-> Reaimed(i, label, dups)]
<1>. DEFINE D == DOMAIN dups
            to == [i \in D |-> Survivor(dups[i], idea, D)]
<1>1. /\ D \subseteq some /\ \A i \in D : dups[i] \in some \ D /\ dups[i] # i
      /\ dups = [i \in D |-> dups[i]]
  BY DuplicatesOf
<1>2. ASSUME NEW i \in D PROVE Survivor(dups[i], idea, D) = dups[i]
  <2>1. Hop(dups[i], idea, D) = dups[i]
    BY <1>1, <1>2 DEF Hop
  <2>. QED
    BY <2>1, SurvivorOf
<1>3. to = dups
  BY <1>1, <1>2
<1>. DEFINE row(i) == IF i \in DOMAIN label THEN [idea[i] EXCEPT !.label = label[i]] ELSE idea[i]
            merged == [i \in Ids |-> IF i \in DOMAIN to /\ to[i] # i
                                     THEN [row(i) EXCEPT !.dup = to[i],
                                             !.status = IF @ = "active" THEN "archived" ELSE @]
                                     ELSE row(i)]
<1>4. Clustered(label, dups) =
        [i \in Ids |-> IF merged[i].dup \in DOMAIN to /\ to[merged[i].dup] # i
                       THEN [merged[i] EXCEPT !.dup = to[merged[i].dup]] ELSE merged[i]]
  BY DEF Clustered
<1>. HIDE DEF to
<1>5. ASSUME NEW i \in Ids PROVE merged[i] = Merged(i, label, dups)
  BY <1>1, <1>3, <1>5 DEF Merged, Labelled
<1>. HIDE DEF merged
<1>6. ASSUME NEW i \in Ids
      PROVE  (IF merged[i].dup \in DOMAIN to /\ to[merged[i].dup] # i
              THEN [merged[i] EXCEPT !.dup = to[merged[i].dup]] ELSE merged[i])
             = Reaimed(i, label, dups)
  BY <1>3, <1>5, <1>6 DEF Reaimed
<1>. QED
  BY <1>4, <1>6

LEMMA LabelledRow ==
  ASSUME IdeaOK, NEW some \in SUBSET Ids, NEW label \in [some -> Labels], NEW i \in Ids
  PROVE  /\ Labelled(i, label) \in Row
         /\ \E l \in Labels \cup {0} : Labelled(i, label) = [idea[i] EXCEPT !.label = l]
<1>1. idea[i] \in Row
  BY DEF IdeaOK
<1>2. \A x \in Row, l \in Labels \cup {0} : [x EXCEPT !.label = l] \in Row
  BY DEF Row
<1>3. \A x \in Row : x = [x EXCEPT !.label = x.label] /\ x.label \in Labels \cup {0}
  BY DEF Row
<1>4. CASE i \in some
  BY <1>1, <1>2, <1>4 DEF Labelled
<1>5. CASE i \notin some
  BY <1>1, <1>3, <1>5 DEF Labelled
<1>. QED
  BY <1>4, <1>5

(* Applying clusters retires rows of the pool, and nothing else of any row but
   its label and its pointer changes; every pointer ends at a row that has
   none. *)
LEMMA ClusteredEffect ==
  ASSUME IdeaOK, MergedIntoOne, NEW some \in SUBSET Born, \A i \in some : idea[i].dup = 0,
         NEW label \in [some -> Labels], NEW dups \in Duplicates(label),
         idea' = Clustered(label, dups)
  PROVE  IdeaOK' /\ (\A i \in Ids : Touched(i)) /\ Born' = Born /\ MergedIntoOne'
<1>. DEFINE D == DOMAIN dups
<1>1. /\ some \subseteq Ids
      /\ D \subseteq some /\ \A i \in D : dups[i] \in some \ D
  BY DuplicatesOf DEF Born
<1>2. \A i \in Ids : idea'[i] = Reaimed(i, label, dups)
  BY <1>1, ClusteredRows
<1>3. ASSUME NEW i \in Ids
      PROVE  /\ Merged(i, label, dups) \in Row
             /\ Merged(i, label, dups).dup = IF i \in D THEN dups[i] ELSE idea[i].dup
             /\ Merged(i, label, dups).status = IF i \in D /\ idea[i].status = "active"
                                                THEN "archived" ELSE idea[i].status
             /\ Merged(i, label, dups).born = idea[i].born /\ Merged(i, label, dups).unit = idea[i].unit
             /\ Merged(i, label, dups).reviews = idea[i].reviews
             /\ Merged(i, label, dups).seed = idea[i].seed
             /\ Merged(i, label, dups).played = idea[i].played
  <2>1. PICK l \in Labels \cup {0} : Labelled(i, label) = [idea[i] EXCEPT !.label = l]
    BY <1>1, LabelledRow
  <2>2. Labelled(i, label) \in Row /\ idea[i] \in Row
    BY <1>1, LabelledRow DEF IdeaOK
  <2>3. i \in D => dups[i] \in 0 .. MaxIdeas
    BY <1>1, Numbers
  <2>. QED
    BY <2>1, <2>2, <2>3 DEF Merged, Row
<1>4. ASSUME NEW i \in Ids
      PROVE  /\ Reaimed(i, label, dups) \in Row
             /\ Reaimed(i, label, dups).dup =
                  IF Merged(i, label, dups).dup \in D THEN dups[Merged(i, label, dups).dup]
                  ELSE Merged(i, label, dups).dup
             /\ \A f \in {"status", "born", "unit", "reviews", "seed", "played"} :
                  Reaimed(i, label, dups)[f] = Merged(i, label, dups)[f]
  <2>. DEFINE m == Merged(i, label, dups)
  <2>1. m \in Row
    BY <1>3
  <2>2. CASE m.dup \in D /\ dups[m.dup] # i
    <3>1. dups[m.dup] \in 0 .. MaxIdeas
      BY <1>1, <2>2, Numbers
    <3>2. Reaimed(i, label, dups) = [m EXCEPT !.dup = dups[m.dup]]
      BY <2>2 DEF Reaimed
    <3>. HIDE DEF m
    <3>3. [m EXCEPT !.dup = dups[m.dup]] \in Row
      BY <2>1, <3>1 DEF Row
    <3>. QED
      BY <2>1, <2>2, <3>2, <3>3 DEF Row, m
  <2>3. CASE m.dup \in D /\ dups[m.dup] = i
    <3>1. i \in some /\ i \notin D
      BY <1>1, <2>3
    <3>2. m.dup = 0
      BY <1>1, <1>3, <3>1
    <3>. QED
      BY <1>1, <2>3, <3>2, Numbers
  <2>4. CASE m.dup \notin D
    BY <2>1, <2>4 DEF Reaimed
  <2>. QED
    BY <2>2, <2>3, <2>4
<1>5. ASSUME NEW i \in Ids
      PROVE  /\ idea'[i] \in Row /\ Touched(i)
             /\ idea[i].status # "active" => idea'[i].status = idea[i].status
             /\ idea'[i].dup = IF i \in D THEN dups[i]
                              ELSE IF idea[i].dup \in D THEN dups[idea[i].dup] ELSE idea[i].dup
             /\ i \in D => idea'[i].status # "active"
  BY <1>1, <1>2, <1>3, <1>4 DEF Touched
<1>6. IdeaOK'
  <2>1. idea' = [i \in Ids |-> Reaimed(i, label, dups)]
    BY <1>1, ClusteredRows
  <2>. QED
    BY <2>1, <1>4 DEF IdeaOK
<1>7. Born' = Born
  <2>1. \A i \in Ids : idea'[i].status # "none" <=> idea[i].status # "none"
    BY <1>1, <1>5 DEF Touched, Born
  <2>. QED
    BY <2>1 DEF Born
<1>8. MergedIntoOne'
  <2>. SUFFICES ASSUME NEW i \in Ids, idea'[i].dup # 0
                PROVE  /\ idea'[i].status # "active"
                       /\ idea'[i].dup \in Born
                       /\ idea'[idea'[i].dup].dup = 0
    BY <1>7 DEF MergedIntoOne
  <2>1. ASSUME NEW e \in D PROVE dups[e] \in Born /\ idea'[dups[e]].dup = 0
    BY <1>1, <1>5, <2>1, Numbers
  <2>2. CASE i \in D
    BY <1>5, <2>1, <2>2
  <2>3. CASE i \notin D /\ idea[i].dup \in D
    <3>1. idea[i].status # "active"
      BY <2>3, <1>1, Numbers DEF MergedIntoOne
    <3>. QED
      BY <1>5, <2>1, <2>3, <3>1
  <2>4. CASE i \notin D /\ idea[i].dup \notin D
    <3>1. idea'[i].dup = idea[i].dup /\ idea[i].dup # 0
      BY <1>5, <2>4
    <3>2. /\ idea[i].status # "active" /\ idea[i].dup \in Born
          /\ idea[idea[i].dup].dup = 0
      BY <3>1 DEF MergedIntoOne
    <3>3. idea[i].dup \in Ids
      BY <3>2 DEF Born
    <3>4. idea'[idea[i].dup].dup = 0
      BY <1>1, <1>5, <2>4, <3>2, <3>3, Numbers
    <3>. QED
      BY <1>5, <3>1, <3>2, <3>4
  <2>. QED
    BY <2>2, <2>3, <2>4
<1>. QED
  BY <1>5, <1>6, <1>7, <1>8

(* Setting an idea aside clears the pointers at it, or finds none. *)
LEMMA SetAsideEffect ==
  ASSUME IdeaOK, MergedIntoOne, NEW i \in Born, idea' = SetAside(i)
  PROVE  /\ IdeaOK' /\ Born' = Born /\ MergedIntoOne'
         /\ \A j \in Ids : Touched(j) /\ idea'[j].dup \in {0, idea[j].dup}
<1>. DEFINE row == [idea EXCEPT ![i].status = "archived"]
            to == Survivor(i, row, {i})
<1>1. i \in Ids
  BY DEF Born
<1>2. \A j \in Ids : row[j].dup = idea[j].dup
  BY DEF IdeaOK, Row
<1>3. to = IF idea[i].dup = 0 THEN i ELSE idea[i].dup
  <2>1. CASE idea[i].dup = 0
    <3>1. Hop(i, row, {i}) = i
      BY <1>1, <1>2, <2>1 DEF Hop
    <3>. QED
      BY <2>1, <3>1, SurvivorOf
  <2>2. CASE idea[i].dup # 0
    <3>. DEFINE e == idea[i].dup
    <3>1. e \in Ids /\ idea[e].dup = 0 /\ e # i
      BY <1>1, <2>2 DEF MergedIntoOne, Born
    <3>2. Hop(i, row, {i}) = e
      BY <1>1, <1>2, <2>2, <3>1 DEF Hop
    <3>3. Hop(e, row, {i}) = e
      BY <1>2, <3>1 DEF Hop
    <3>. HIDE DEF e, row
    <3>4. to = e
      BY <3>2, <3>3, SurvivorOf
    <3>. QED
      BY <2>2, <3>4 DEF e
  <2>. QED
    BY <2>1, <2>2
<1>4. \A j \in Ids : idea'[j] = IF j = i THEN [idea[i] EXCEPT !.status = "archived"]
                               ELSE IF idea[j].dup = i /\ j # to
                               THEN [idea[j] EXCEPT !.dup = IF to # i THEN to ELSE 0]
                               ELSE idea[j]
  BY DEF SetAside
<1>. HIDE DEF to, row
<1>5. ASSUME NEW j \in Ids, idea[j].dup = i PROVE to = i
  BY <1>1, <1>3, <1>5, Numbers DEF MergedIntoOne
<1>6. ASSUME NEW j \in Ids
      PROVE  /\ idea'[j] \in Row /\ Touched(j)
             /\ idea'[j].status = IF j = i THEN "archived" ELSE idea[j].status
             /\ idea'[j].dup = idea[j].dup \/ (idea'[j].dup = 0 /\ idea[j].dup # 0)
             /\ idea'[j].dup # i
  <2>1. idea[j] \in Row /\ idea[i] \in Row /\ 0 \in 0 .. MaxIdeas
    BY <1>1, Numbers DEF IdeaOK
  <2>2. CASE j = i
    <3>1. idea[i].dup # i
      BY <1>1, Numbers DEF MergedIntoOne
    <3>2. idea'[j] = [idea[j] EXCEPT !.status = "archived"]
      BY <1>4, <2>2
    <3>3. idea'[j] \in Row /\ idea'[j].status = "archived" /\ idea'[j].dup = idea[j].dup
      BY <2>1, <3>2 DEF Row
    <3>4. Touched(j)
      BY <2>1, <3>2 DEF Row, Touched
    <3>. QED
      BY <2>2, <3>1, <3>3, <3>4
  <2>3. CASE j # i /\ idea[j].dup = i
    <3>1. idea'[j] = idea[j] \/ idea'[j] = [idea[j] EXCEPT !.dup = 0]
      BY <1>4, <1>5, <2>3
    <3>2. to = i /\ idea'[j] = [idea[j] EXCEPT !.dup = 0]
      BY <1>4, <1>5, <2>3
    <3>3. idea'[j] \in Row /\ idea'[j].status = idea[j].status /\ idea'[j].dup = 0
      BY <2>1, <3>2 DEF Row
    <3>4. Touched(j)
      BY <2>1, <3>2 DEF Row, Touched
    <3>. QED
      BY <1>1, <2>3, <3>3, <3>4, Numbers
  <2>4. CASE j # i /\ idea[j].dup # i
    BY <1>4, <2>1, <2>4 DEF Touched
  <2>. QED
    BY <2>2, <2>3, <2>4
<1>7. IdeaOK'
  <2>1. DOMAIN idea' = Ids /\ idea' = [j \in Ids |-> idea'[j]]
    BY DEF SetAside
  <2>. QED
    BY <2>1, <1>6 DEF IdeaOK
<1>8. Born' = Born
  BY <1>6 DEF Born
<1>9. MergedIntoOne'
  BY <1>6, <1>8, <1>1 DEF MergedIntoOne, Born
<1>. QED
  BY <1>6, <1>7, <1>8, <1>9

-----------------------------------------------------------------------------
(* The pool.  Ideas are numbered in the order they are added, a number not yet
   given has no history, and the ideas a clustering call was asked about stand
   for themselves until its answer is applied. *)
Numbered ==
  /\ Born = 1 .. Cardinality(Born)
  /\ \A i \in Ids \ Born : idea[i].reviews = 0
PoolFresh == pc = "proximity" => at.pool \subseteq Born /\ \A i \in at.pool : idea[i].dup = 0
UnderReview == pc \in {"review", "reviewed"} => at.work \subseteq Born
Pool == Numbered /\ PoolFresh /\ UnderReview /\ MergedIntoOne

LEMMA AddIdeaEffect ==
  ASSUME IdeaOK, Numbered, MergedIntoOne, at.round \in Rounds,
         NEW u \in Units, NEW s \in 0 .. MaxRounds, AddIdea(u, s)
  PROVE  /\ IdeaOK' /\ Numbered' /\ MergedIntoOne'
         /\ NextId \in Ids \ Born /\ Born' = Born \cup {NextId} /\ Active' = Active \cup {NextId}
         /\ \A i \in Ids : idea'[i].reviews = idea[i].reviews /\ idea'[i].dup \in {0, idea[i].dup}
         /\ \A i \in Ids \ {NextId} : idea'[i] = idea[i]
<1>. DEFINE n == Cardinality(Born)
<1>1. n \in Nat /\ NextId = n + 1 /\ n < MaxIdeas /\ IsFiniteSet(Born)
  BY BornFinite DEF AddIdea, Room, NextId
<1>2. NextId \in Ids /\ NextId \notin Born
  BY <1>1, Numbers DEF Ids, Numbered
<1>3. idea' = [idea EXCEPT ![NextId] = NewIdea(at.round, u, s)]
  BY DEF AddIdea
<1>4. IdeaOK'
  BY <1>3, AddIdeaType, Numbers
<1>5. /\ NewIdea(at.round, u, s).status = "active" /\ NewIdea(at.round, u, s).dup = 0
      /\ NewIdea(at.round, u, s).reviews = 0
  BY DEF NewIdea, Unborn
<1>6. /\ idea'[NextId].status = "active" /\ idea'[NextId].dup = 0 /\ idea'[NextId].reviews = 0
      /\ \A i \in Ids \ {NextId} : idea'[i] = idea[i]
  BY <1>2, <1>3, <1>5 DEF IdeaOK
<1>7. Born' = Born \cup {NextId} /\ Active' = Active \cup {NextId}
  BY <1>2, <1>6 DEF Born, Active
<1>8. \A i \in Ids : idea'[i].reviews = idea[i].reviews /\ idea'[i].dup \in {0, idea[i].dup}
  BY <1>2, <1>6 DEF Numbered
<1>9. Numbered'
  <2>1. Cardinality(Born') = n + 1
    BY <1>1, <1>2, <1>7, FS_AddElement
  <2>2. Born' = 1 .. n + 1
    <3>1. Born = 1 .. n
      BY DEF Numbered
    <3>. HIDE DEF n
    <3>. QED
      BY <1>1, <1>7, <3>1
  <2>3. \A i \in Ids \ Born' : idea'[i].reviews = 0
    BY <1>6, <1>7 DEF Numbered
  <2>. QED
    BY <2>1, <2>2, <2>3 DEF Numbered
<1>10. MergedIntoOne'
  <2>. SUFFICES ASSUME NEW i \in Ids, idea'[i].dup # 0
                PROVE  /\ idea'[i].status # "active" /\ idea'[i].dup \in Born'
                       /\ idea'[idea'[i].dup].dup = 0
    BY DEF MergedIntoOne
  <2>1. i # NextId /\ idea'[i] = idea[i]
    BY <1>6
  <2>2. idea[i].status # "active" /\ idea[i].dup \in Born /\ idea[idea[i].dup].dup = 0
    BY <2>1 DEF MergedIntoOne
  <2>3. idea'[idea[i].dup] = idea[idea[i].dup]
    BY <1>2, <1>6, <2>2 DEF Born
  <2>. QED
    BY <1>7, <2>1, <2>2, <2>3
<1>. QED
  BY <1>2, <1>4, <1>6, <1>7, <1>8, <1>9, <1>10

LEMMA SeedOfBorn ==
  ASSUME IdeaOK, NEW s \in {0} \cup {idea[i].seed : i \in Born}
  PROVE  s \in 0 .. MaxRounds
BY Numbers DEF IdeaOK, Row, Born

LEMMA AddedEffect ==
  ASSUME Typed, Pool, AddGenerated \/ AddVariant
  PROVE  /\ \E u \in Units, s \in 0 .. MaxRounds :
              AddIdea(u, s) /\ u = IF pc = "add" THEN Shard ELSE 0
         /\ IdeaOK' /\ Numbered' /\ MergedIntoOne'
         /\ NextId \in Ids \ Born /\ Born' = Born \cup {NextId} /\ Active' = Active \cup {NextId}
         /\ \A i \in Ids : idea'[i].reviews = idea[i].reviews /\ idea'[i].dup \in {0, idea[i].dup}
         /\ \A i \in Ids \ {NextId} : idea'[i] = idea[i]
<1>1. at.round \in Rounds
  BY DEF Typed, LocalOK, AddGenerated, AddVariant
<1>2. \E u \in Units, s \in 0 .. MaxRounds : AddIdea(u, s) /\ u = IF pc = "add" THEN Shard ELSE 0
  <2>1. CASE AddGenerated
    <3>1. Shard \in Units /\ at.seed \in 0 .. MaxRounds
      BY <2>1, ShardInHand, Numbers DEF AddGenerated, Typed, LocalOK, Locals
    <3>. QED
      BY <2>1, <3>1 DEF AddGenerated
  <2>2. CASE AddVariant
    <3>1. PICK s \in {0} \cup {idea[i].seed : i \in Born} : AddIdea(0, s)
      BY <2>2 DEF AddVariant
    <3>2. s \in 0 .. MaxRounds
      BY SeedOfBorn DEF Typed
    <3>. QED
      BY <2>2, <3>1, <3>2, Numbers DEF AddVariant
  <2>. QED
    BY <2>1, <2>2
<1>3. PICK u \in Units, s \in 0 .. MaxRounds : AddIdea(u, s)
  BY <1>2
<1>. QED
  BY <1>1, <1>2, <1>3, AddIdeaEffect DEF Typed, Pool

LEMMA ApplyEffect ==
  ASSUME Typed, Pool, ApplyClusters
  PROVE  IdeaOK' /\ (\A i \in Ids : Touched(i)) /\ Born' = Born /\ MergedIntoOne'
<1>1. at.pool \subseteq Born /\ \A i \in at.pool : idea[i].dup = 0
  BY DEF ApplyClusters, Pool, PoolFresh
<1>2. PICK some \in SUBSET at.pool : \E label \in [some -> Labels] :
        \E dups \in Duplicates(label) : idea' = Clustered(label, dups)
  BY DEF ApplyClusters
<1>3. PICK label \in [some -> Labels] : \E dups \in Duplicates(label) : idea' = Clustered(label, dups)
  BY <1>2
<1>4. PICK dups \in Duplicates(label) : idea' = Clustered(label, dups)
  BY <1>3
<1>. QED
  BY <1>1, <1>4, ClusteredEffect DEF Typed, Pool

(* A review counts one, and rejects at most. *)
LEMMA ReviewEffect ==
  ASSUME Typed, Pool, NEW i \in Ids, NEW v \in {"keep", "reject"}, RecordReview(i, v)
  PROVE  /\ IdeaOK' /\ Born' = Born /\ MergedIntoOne'
         /\ \A j \in Ids \ {i} : idea'[j] = idea[j]
         /\ idea'[i].dup = idea[i].dup /\ idea'[i].reviews = idea[i].reviews + 1
         /\ idea'[i].status \in {idea[i].status, "rejected"}
<1>. DEFINE st == IF v = "reject" /\ idea[i].status = "active" THEN "rejected" ELSE idea[i].status
            n  == idea[i].reviews + 1
<1>0. i \in Born
  BY DEF RecordReview, Pool, UnderReview
<1>1. idea' = [idea EXCEPT ![i] = [idea[i] EXCEPT !.reviews = n, !.status = st]]
  BY DEF RecordReview, Typed, IdeaOK, Row
<1>2. /\ idea[i] \in Row /\ st \in {idea[i].status, "rejected"}
      /\ st \in {"none", "active", "rejected", "archived"} /\ n \in Nat
  BY DEF Typed, IdeaOK, Row
<1>3. n = idea[i].reviews + 1
  OBVIOUS
<1>. HIDE DEF st, n
<1>4. idea'[i] = [idea[i] EXCEPT !.reviews = n, !.status = st]
  BY <1>1 DEF Typed, IdeaOK
<1>5. /\ idea'[i] \in Row /\ idea'[i].dup = idea[i].dup /\ idea'[i].reviews = n
      /\ idea'[i].status \in {idea[i].status, "rejected"}
  <2>1. idea'[i] \in Row /\ idea'[i].dup = idea[i].dup /\ idea'[i].reviews = n /\ idea'[i].status = st
    BY <1>2, <1>4 DEF Row
  <2>. QED
    BY <1>2, <2>1
<1>6. IdeaOK' /\ \A j \in Ids \ {i} : idea'[j] = idea[j]
  <2>1. idea \in [Ids -> Row] /\ idea' = [idea EXCEPT ![i] = idea'[i]]
    BY <1>1, <1>4 DEF Typed, IdeaOK
  <2>. QED
    BY <1>5, <2>1 DEF IdeaOK
<1>7. Born' = Born
  BY <1>0, <1>5, <1>6 DEF Born
<1>8. MergedIntoOne'
  <2>. SUFFICES ASSUME NEW j \in Ids, idea'[j].dup # 0
                PROVE  /\ idea'[j].status # "active" /\ idea'[j].dup \in Born
                       /\ idea'[idea'[j].dup].dup = 0
    BY <1>7 DEF MergedIntoOne
  <2>1. idea'[j].dup = idea[j].dup /\ idea'[j].status \in {idea[j].status, "rejected"}
    BY <1>5, <1>6
  <2>2. idea[j].status # "active" /\ idea[j].dup \in Born /\ idea[idea[j].dup].dup = 0
    BY <2>1 DEF Pool, MergedIntoOne
  <2>3. idea'[idea[j].dup].dup = idea[idea[j].dup].dup
    BY <1>5, <1>6, <2>2 DEF Born
  <2>. QED
    BY <2>1, <2>2, <2>3
<1>. QED
  BY <1>3, <1>5, <1>6, <1>7, <1>8

LEMMA MatchedEffect ==
  ASSUME Typed, Pool, NEW p \in Pairs, NEW result \in {"completed", "skipped"}, RecordMatch(p, result)
  PROVE  /\ IdeaOK' /\ Born' = Born /\ MergedIntoOne'
         /\ \A j \in Ids : /\ idea'[j].dup = idea[j].dup /\ idea'[j].reviews = idea[j].reviews
                           /\ idea'[j].status = idea[j].status
<1>1. idea' = [i \in Ids |-> IF i \in p /\ result = "completed"
                              THEN [idea[i] EXCEPT !.played = TRUE] ELSE idea[i]]
  BY DEF RecordMatch
<1>2. \A x \in Row : /\ [x EXCEPT !.played = TRUE] \in Row /\ [x EXCEPT !.played = TRUE].dup = x.dup
                     /\ [x EXCEPT !.played = TRUE].reviews = x.reviews
                     /\ [x EXCEPT !.played = TRUE].status = x.status
  BY DEF Row
<1>3. ASSUME NEW j \in Ids
      PROVE /\ idea'[j] \in Row /\ idea'[j].dup = idea[j].dup /\ idea'[j].reviews = idea[j].reviews
            /\ idea'[j].status = idea[j].status
  BY <1>1, <1>2 DEF Typed, IdeaOK
<1>4. IdeaOK'
  BY <1>1, <1>3 DEF IdeaOK
<1>5. Born' = Born
  BY <1>3 DEF Born
<1>6. MergedIntoOne'
  BY <1>3, <1>5 DEF Pool, MergedIntoOne, Born
<1>. QED
  BY <1>3, <1>4, <1>5, <1>6

(* What a step does to the pool. *)
LEMMA PoolMoves ==
  ASSUME Typed, Pool, [Next]_vars
  PROVE  /\ IdeaOK' /\ Numbered' /\ MergedIntoOne'
         /\ Born \subseteq Born' /\ (Born' = Born \/ AddGenerated \/ AddVariant)
         /\ Active' \subseteq Active \/ ((AddGenerated \/ AddVariant) /\ Born' # Born)
         /\ \A i \in Ids : idea'[i].dup \in {0, idea[i].dup} \/ ApplyClusters
         /\ \A i \in Ids : \/ idea'[i].reviews = idea[i].reviews
                           \/ /\ idea'[i].reviews = idea[i].reviews + 1
                              /\ i \in Born /\ \E v \in {"keep", "reject"} : RecordReview(i, v)
         /\ \A i \in Ids, v \in {"keep", "reject"} : RecordReview(i, v) =>
              idea'[i].reviews = idea[i].reviews + 1
<1>0. ASSUME Born' = Born, \A i \in Ids : idea'[i].reviews = idea[i].reviews \/ i \in Born
      PROVE  Numbered'
  BY <1>0 DEF Pool, Numbered
<1>1. CASE UNCHANGED idea
  <2>1. ~ \E i \in Ids, v \in {"keep", "reject"} : RecordReview(i, v)
    <3>. SUFFICES ASSUME NEW i \in Ids, NEW v \in {"keep", "reject"}, RecordReview(i, v) PROVE FALSE
      OBVIOUS
    <3>1. idea'[i].reviews = idea[i].reviews + 1 /\ idea[i].reviews \in Nat
      BY ReviewEffect DEF Typed, IdeaOK, Row
    <3>. QED
      BY <1>1, <3>1
  <2>. QED
    BY <1>1, <2>1 DEF Typed, Pool, IdeaOK, Numbered, MergedIntoOne, Born, Active
<1>2. CASE AddGenerated \/ AddVariant
  <2>1. ~ \E i \in Ids, v \in {"keep", "reject"} : RecordReview(i, v)
    BY <1>2 DEF AddGenerated, AddVariant, RecordReview
  <2>. QED
    BY <1>2, <2>1, AddedEffect
<1>3. CASE ApplyClusters
  <2>1. ~ \E i \in Ids, v \in {"keep", "reject"} : RecordReview(i, v)
    BY <1>3 DEF ApplyClusters, RecordReview
  <2>2. IdeaOK' /\ (\A i \in Ids : Touched(i)) /\ Born' = Born /\ MergedIntoOne'
    BY <1>3, ApplyEffect
  <2>3. Active' \subseteq Active /\ \A i \in Ids : idea'[i].reviews = idea[i].reviews
    BY <2>2 DEF Touched, Active
  <2>. QED
    BY <1>0, <1>3, <2>1, <2>2, <2>3
<1>4. CASE \E i \in Ids, v \in {"keep", "reject"} : RecordReview(i, v)
  <2>1. PICK i \in Ids, v \in {"keep", "reject"} : RecordReview(i, v)
    BY <1>4
  <2>2. /\ IdeaOK' /\ Born' = Born /\ MergedIntoOne'
        /\ \A j \in Ids \ {i} : idea'[j] = idea[j]
        /\ idea'[i].dup = idea[i].dup /\ idea'[i].reviews = idea[i].reviews + 1
        /\ idea'[i].status \in {idea[i].status, "rejected"}
    BY <2>1, ReviewEffect
  <2>3. i \in Born
    BY <2>1 DEF RecordReview, Pool, UnderReview
  <2>4. Active' \subseteq Active
    BY <2>2 DEF Active
  <2>5. \A j \in Ids, w \in {"keep", "reject"} : RecordReview(j, w) =>
              idea'[j].reviews = idea[j].reviews + 1
    BY ReviewEffect
  <2>. QED
    BY <1>0, <2>1, <2>2, <2>3, <2>4, <2>5
<1>5. CASE \E p \in Pairs, result \in {"completed", "skipped"} : RecordMatch(p, result)
  <2>1. ~ \E i \in Ids, v \in {"keep", "reject"} : RecordReview(i, v)
    BY <1>5 DEF RecordMatch, RecordReview
  <2>2. /\ IdeaOK' /\ Born' = Born /\ MergedIntoOne'
        /\ \A j \in Ids : /\ idea'[j].dup = idea[j].dup /\ idea'[j].reviews = idea[j].reviews
                          /\ idea'[j].status = idea[j].status
    BY <1>5, MatchedEffect
  <2>3. Active' \subseteq Active
    BY <2>2 DEF Active
  <2>. QED
    BY <1>0, <2>1, <2>2, <2>3
<1>6. CASE \E i \in Ids : Archive(i)
  <2>1. PICK i \in Ids : Archive(i)
    BY <1>6
  <2>2. ~ \E j \in Ids, v \in {"keep", "reject"} : RecordReview(j, v)
    BY <2>1 DEF Archive, RecordReview
  <2>3. /\ IdeaOK' /\ Born' = Born /\ MergedIntoOne'
        /\ \A j \in Ids : Touched(j) /\ idea'[j].dup \in {0, idea[j].dup}
    BY <2>1, SetAsideEffect DEF Archive, Typed, Pool
  <2>4. Active' \subseteq Active /\ \A j \in Ids : idea'[j].reviews = idea[j].reviews
    BY <2>3 DEF Touched, Active
  <2>. QED
    BY <1>0, <2>2, <2>3, <2>4
<1>. QED
  BY <1>1, <1>2, <1>3, <1>4, <1>5, <1>6, IdeaFrame

-----------------------------------------------------------------------------
(* The marks.  A step writes one round's, and each field by the steps that own
   it. *)
OnlyAt == \A r \in Rounds \ {at.round} : mark'[r] = mark[r]
Kept(field) == mark'[at.round][field] = mark[at.round][field]

LEMMA MarkShardEffect ==
  ASSUME Typed, MarkShard
  PROVE  /\ MarkOK' /\ OnlyAt /\ at.round \in Rounds
         /\ mark'[at.round].shards = mark[at.round].shards \cup {Shard}
         /\ Kept("reviewed") /\ Kept("covered") /\ Kept("pool") /\ Kept("evo")
<1>. DEFINE v == mark[at.round].shards \cup {Shard}
<1>1. at.round \in Rounds /\ mark \in [Rounds -> MarkRow]
  BY DEF MarkShard, Typed, LocalOK, MarkOK
<1>2. v \in SUBSET Shards
  BY <1>1, ShardInHand DEF MarkShard, Typed, MarkRow
<1>3. Mark("shards", v)
  BY DEF MarkShard
<1>. HIDE DEF v
<1>4. /\ mark' \in [Rounds -> MarkRow] /\ mark'[at.round].shards = v
      /\ \A r \in Rounds \ {at.round} : mark'[r] = mark[r]
      /\ mark'[at.round].reviewed = mark[at.round].reviewed
      /\ mark'[at.round].covered = mark[at.round].covered
      /\ mark'[at.round].pool = mark[at.round].pool /\ mark'[at.round].evo = mark[at.round].evo
  BY <1>1, <1>2, <1>3 DEF MarkRow, Mark
<1>. QED
  BY <1>1, <1>4 DEF OnlyAt, Kept, MarkOK, v

LEMMA MarkReviewedEffect ==
  ASSUME Typed, MarkReviewed
  PROVE  /\ MarkOK' /\ OnlyAt /\ at.round \in Rounds
         /\ mark'[at.round].reviewed = mark[at.round].reviewed \cup {at.unit}
         /\ Kept("shards") /\ Kept("covered") /\ Kept("pool") /\ Kept("evo")
<1>. DEFINE v == mark[at.round].reviewed \cup {at.unit}
<1>1. at.round \in Rounds /\ mark \in [Rounds -> MarkRow] /\ at.unit \in Ids
  BY DEF MarkReviewed, Typed, LocalOK, MarkOK
<1>2. v \in SUBSET Ids
  BY <1>1 DEF MarkRow
<1>3. Mark("reviewed", v)
  BY DEF MarkReviewed
<1>. HIDE DEF v
<1>4. /\ mark' \in [Rounds -> MarkRow] /\ mark'[at.round].reviewed = v
      /\ \A r \in Rounds \ {at.round} : mark'[r] = mark[r]
      /\ mark'[at.round].shards = mark[at.round].shards
      /\ mark'[at.round].covered = mark[at.round].covered
      /\ mark'[at.round].pool = mark[at.round].pool /\ mark'[at.round].evo = mark[at.round].evo
  BY <1>1, <1>2, <1>3 DEF MarkRow, Mark
<1>. QED
  BY <1>1, <1>4 DEF OnlyAt, Kept, MarkOK, v

LEMMA MarkClusterEffect ==
  ASSUME Typed, ClusterSmall \/ ClusterFailed \/ MarkClustered
  PROVE  /\ MarkOK' /\ OnlyAt /\ at.round \in Rounds
         /\ mark'[at.round].covered = IF pc = "cluster" THEN Active ELSE at.pool
         /\ Kept("shards") /\ Kept("reviewed") /\ Kept("pool") /\ Kept("evo")
<1>1. at.round \in Rounds /\ mark \in [Rounds -> MarkRow] /\ Active \subseteq Ids /\ at.pool \subseteq Ids
  BY DEF ClusterSmall, ClusterDue, ClusterFailed, MarkClustered, Typed, LocalOK, Locals, MarkOK, Active
<1>2. ASSUME NEW shown \in SUBSET Ids, NEW result \in {"ok", "failed"}, MarkCluster(result, shown)
      PROVE  /\ mark' \in [Rounds -> MarkRow] /\ mark'[at.round].covered = shown
             /\ \A r \in Rounds \ {at.round} : mark'[r] = mark[r]
             /\ mark'[at.round].shards = mark[at.round].shards
             /\ mark'[at.round].reviewed = mark[at.round].reviewed
             /\ mark'[at.round].pool = mark[at.round].pool /\ mark'[at.round].evo = mark[at.round].evo
  BY <1>1, <1>2 DEF MarkRow, MarkCluster
<1>3. CASE ClusterSmall
  BY <1>1, <1>2, <1>3 DEF ClusterSmall, ClusterDue, OnlyAt, Kept, MarkOK
<1>4. CASE ClusterFailed
  BY <1>1, <1>2, <1>4 DEF ClusterFailed, OnlyAt, Kept, MarkOK
<1>5. CASE MarkClustered
  <2>1. /\ pc = "clustered" /\ at.pool \in SUBSET Ids
        /\ mark' = [mark EXCEPT ![at.round].prox = "ok", ![at.round].covered = at.pool,
                                ![at.round].graft = FALSE]
    BY <1>1, <1>5 DEF MarkClustered
  <2>. DEFINE x == mark[at.round]
             asked == at.pool
             row == [x EXCEPT !.prox = "ok", !.covered = asked, !.graft = FALSE]
  <2>2. mark' = [mark EXCEPT ![at.round] = row]
    BY <1>1, <2>1
  <2>3. x \in MarkRow /\ asked \in SUBSET Ids
    BY <1>1, <2>1
  <2>. HIDE DEF x, asked
  <2>4. /\ row \in MarkRow /\ row.covered = asked /\ row.shards = x.shards
        /\ row.reviewed = x.reviewed /\ row.pool = x.pool /\ row.evo = x.evo
    BY <2>3 DEF MarkRow
  <2>. HIDE DEF row
  <2>5. mark' \in [Rounds -> MarkRow] /\ mark'[at.round] = row /\ \A r \in Rounds \ {at.round} : mark'[r] = mark[r]
    BY <1>1, <2>2, <2>4
  <2>. QED
    BY <1>1, <2>1, <2>4, <2>5 DEF OnlyAt, Kept, MarkOK, x, asked
<1>. QED
  BY <1>3, <1>4, <1>5

LEMMA MarkPoolEffect ==
  ASSUME Typed, MarkPool
  PROVE  /\ MarkOK' /\ OnlyAt /\ at.round \in Rounds
         /\ Kept("shards") /\ Kept("reviewed") /\ Kept("covered") /\ Kept("evo")
<1>1. at.round \in Rounds /\ mark \in [Rounds -> MarkRow] /\ Active \in SUBSET Ids /\ Mark("pool", Active)
  BY DEF MarkPool, Typed, LocalOK, MarkOK, Active
<1>2. /\ mark' \in [Rounds -> MarkRow]
      /\ \A r \in Rounds \ {at.round} : mark'[r] = mark[r]
      /\ mark'[at.round].shards = mark[at.round].shards
      /\ mark'[at.round].reviewed = mark[at.round].reviewed
      /\ mark'[at.round].covered = mark[at.round].covered /\ mark'[at.round].evo = mark[at.round].evo
  BY <1>1 DEF MarkRow, Mark
<1>. QED
  BY <1>1, <1>2 DEF OnlyAt, Kept, MarkOK

LEMMA MarkGraftEffect ==
  ASSUME Typed, CollapseAbstain \/ MarkGraft
  PROVE  /\ MarkOK' /\ OnlyAt /\ at.round \in Rounds
         /\ Kept("shards") /\ Kept("reviewed") /\ Kept("covered") /\ Kept("pool") /\ Kept("evo")
<1>1. at.round \in Rounds /\ mark \in [Rounds -> MarkRow] /\ Mark("graft", TRUE)
  BY DEF CollapseAbstain, MarkGraft, Typed, LocalOK, MarkOK
<1>2. /\ mark' \in [Rounds -> MarkRow]
      /\ \A r \in Rounds \ {at.round} : mark'[r] = mark[r]
      /\ mark'[at.round].shards = mark[at.round].shards
      /\ mark'[at.round].reviewed = mark[at.round].reviewed
      /\ mark'[at.round].covered = mark[at.round].covered
      /\ mark'[at.round].pool = mark[at.round].pool /\ mark'[at.round].evo = mark[at.round].evo
  BY <1>1 DEF MarkRow, Mark
<1>. QED
  BY <1>1, <1>2 DEF OnlyAt, Kept, MarkOK

LEMMA MarkEvolvedEffect ==
  ASSUME Typed, EvolveNothing \/ EvolveFailed \/ MarkEvolution
  PROVE  /\ MarkOK' /\ OnlyAt /\ at.round \in Rounds
         /\ mark'[at.round].evo = TRUE \/ (EvolveFailed /\ Kept("evo"))
         /\ EvolveFailed => Kept("evo")
         /\ Kept("shards") /\ Kept("reviewed") /\ Kept("covered") /\ Kept("pool")
<1>1. at.round \in Rounds /\ mark \in [Rounds -> MarkRow]
  BY DEF EvolveNothing, EvolveFailed, MarkEvolution, Typed, LocalOK, MarkOK
<1>2. CASE EvolveNothing \/ MarkEvolution
  <2>1. Mark("evo", TRUE)
    BY <1>2 DEF EvolveNothing, MarkEvolution
  <2>2. /\ mark' \in [Rounds -> MarkRow] /\ mark'[at.round].evo = TRUE
        /\ \A r \in Rounds \ {at.round} : mark'[r] = mark[r]
        /\ mark'[at.round].shards = mark[at.round].shards
        /\ mark'[at.round].reviewed = mark[at.round].reviewed
        /\ mark'[at.round].covered = mark[at.round].covered
        /\ mark'[at.round].pool = mark[at.round].pool
    BY <1>1, <2>1 DEF MarkRow, Mark
  <2>3. ~EvolveFailed \/ ~mark[at.round].evo
    BY DEF EvolveFailed
  <2>4. ~EvolveFailed
    BY <1>2 DEF EvolveNothing, MarkEvolution, EvolveFailed
  <2>. QED
    BY <1>1, <2>2, <2>4 DEF OnlyAt, Kept, MarkOK
<1>3. CASE EvolveFailed
  <2>1. mark[at.round].tries + 1 \in Nat /\ Mark("tries", mark[at.round].tries + 1)
    BY <1>1, <1>3 DEF EvolveFailed, MarkRow
  <2>2. ASSUME NEW n \in Nat, Mark("tries", n)
        PROVE  /\ mark' \in [Rounds -> MarkRow] /\ mark'[at.round].evo = mark[at.round].evo
               /\ \A r \in Rounds \ {at.round} : mark'[r] = mark[r]
               /\ mark'[at.round].shards = mark[at.round].shards
               /\ mark'[at.round].reviewed = mark[at.round].reviewed
               /\ mark'[at.round].covered = mark[at.round].covered
               /\ mark'[at.round].pool = mark[at.round].pool
    BY <1>1, <2>2 DEF MarkRow, Mark
  <2>. QED
    BY <1>1, <1>3, <2>1, <2>2 DEF OnlyAt, Kept, MarkOK
<1>. QED
  BY <1>2, <1>3

LEMMA MarkType ==
  ASSUME Typed, [Next]_vars
  PROVE  MarkOK'
<1>1. UNCHANGED mark => MarkOK'
  BY DEF Typed, MarkOK
<1>. QED
  BY <1>1, MarkFrame, MarkShardEffect, MarkReviewedEffect, MarkClusterEffect, MarkPoolEffect,
     MarkGraftEffect, MarkEvolvedEffect

-----------------------------------------------------------------------------
(* The remaining variables. *)
LEMMA MatchMoves ==
  ASSUME Typed, [Next]_vars
  PROVE  /\ MatchOK'
         /\ \A r \in Rounds, p \in Pairs :
              match'[r][p] = "none" <=>
                match[r][p] = "none" /\ ~(PlanMatches /\ r = at.round /\ p \in at.work)
<1>. DEFINE States == {"none", "planned", "completed", "skipped"}
<1>1. match \in [Rounds -> [Pairs -> States]]
  BY DEF Typed, MatchOK
<1>2. CASE UNCHANGED match /\ ~PlanMatches
  BY <1>1, <1>2 DEF MatchOK
<1>3. CASE PlanMatches
  <2>. DEFINE row == [p \in Pairs |-> IF p \in at.work /\ match[at.round][p] = "none"
                                      THEN "planned" ELSE match[at.round][p]]
  <2>1. at.round \in Rounds /\ match' = [match EXCEPT ![at.round] = row]
    BY <1>3 DEF PlanMatches, Typed, LocalOK
  <2>2. row \in [Pairs -> States]
    BY <1>1, <2>1
  <2>3. \A p \in Pairs : row[p] = IF p \in at.work /\ match[at.round][p] = "none"
                                      THEN "planned" ELSE match[at.round][p]
    OBVIOUS
  <2>. HIDE DEF row
  <2>4. MatchOK'
    BY <1>1, <2>1, <2>2 DEF MatchOK
  <2>5. match'[at.round] = row /\ \A r \in Rounds \ {at.round} : match'[r] = match[r]
    BY <1>1, <2>1
  <2>. QED
    BY <1>3, <2>3, <2>4, <2>5
<1>4. ASSUME NEW q \in Pairs, NEW result \in {"completed", "skipped"}, RecordMatch(q, result)
      PROVE  /\ MatchOK'
             /\ \A r \in Rounds, p \in Pairs : match'[r][p] = "none" <=> match[r][p] = "none"
             /\ ~PlanMatches
  <2>1. /\ at.round \in Rounds /\ match[at.round][q] = "planned" /\ pc = "judge"
        /\ match' = [match EXCEPT ![at.round] = [match[at.round] EXCEPT ![q] = result]]
    BY <1>4 DEF RecordMatch, Typed, LocalOK
  <2>2. MatchOK' /\ \A r \in Rounds, p \in Pairs : match'[r][p] = "none" <=> match[r][p] = "none"
    <3>1. [match[at.round] EXCEPT ![q] = result] \in [Pairs -> States]
      BY <1>1, <2>1
    <3>. QED
      BY <1>1, <2>1, <3>1 DEF MatchOK
  <2>. QED
    BY <2>1, <2>2 DEF PlanMatches
<1>. QED
  BY <1>2, <1>3, <1>4, MatchFrame

LEMMA NotesType ==
  ASSUME Typed, [Next]_vars
  PROVE  NotesOK'
<1>1. NotesOK /\ at.hand \subseteq Notes
  BY DEF Typed, LocalOK, Locals
<1>2. CASE UNCHANGED <<queue, noted, given, dropped>>
  BY <1>1, <1>2 DEF NotesOK
<1>3. CASE Claim
  BY <1>1, <1>3 DEF NotesOK, Claim, ghost, history
<1>4. CASE SaveNotes
  BY <1>1, <1>4 DEF NotesOK, SaveNotes, ghost, history
<1>5. CASE Die
  BY <1>1, <1>5 DEF NotesOK, Die, rows
<1>6. CASE \E n \in Notes : GiveNote(n)
  BY <1>1, <1>6 DEF NotesOK, GiveNote
<1>. QED
  BY <1>2, <1>3, <1>4, <1>5, <1>6, NotesFrame

LEMMA RunType ==
  ASSUME Typed, [Next]_vars
  PROVE  RunOK'
<1>. USE Numbers DEF RunOK
<1>1. seed' \in [pending : 0 .. MaxRounds, fired : 0 .. MaxRounds]
  <2>1. RecordGraft => at.round \in Rounds
    BY DEF RecordGraft, Typed, LocalOK
  <2>. QED
    BY <2>1, RunFrame DEF Typed, ClearSeed, RecordGraft
<1>2. DOMAIN fed' \subseteq Rounds /\ \A r \in DOMAIN fed' : fed'[r] \subseteq Ids
  <2>1. CASE MetaReview
    <3>1. at.round \in Rounds /\ mark[at.round].reviewed \subseteq Ids
      BY <2>1 DEF MetaReview, Typed, LocalOK, MarkOK, MarkRow
    <3>. QED
      BY <2>1, <3>1 DEF MetaReview, Typed
  <2>. QED
    BY <2>1, RunFrame DEF Typed
<1>3. closed' \in 0 .. MaxRounds
  BY RunFrame DEF Close, Typed, LocalOK
<1>4. target' \in Rounds
  BY RunFrame DEF Continue, Typed, Rounds
<1>5. overview' \in {"none", "fresh", "stale"}
  BY RunFrame DEF Typed, Report, Continue
<1>. QED
  BY <1>1, <1>2, <1>3, <1>4, <1>5

LEMMA GhostMoves ==
  ASSUME Typed, Pool, [Next]_vars
  PROVE  /\ GhostOK'
         /\ \A r \in Rounds, u \in Units :
              \/ passes'[r][u] = passes[r][u]
              \/ /\ passes'[r][u] = passes[r][u] + 1 /\ r = at.round /\ at.added = 0
                 /\ AddGenerated \/ AddVariant
                 /\ u = IF pc = "add" THEN Shard ELSE 0
         /\ torn' \in {torn, torn + 1}
<1>. USE DEF GhostOK
<1>1. /\ passes' \in [Rounds -> [Units -> Nat]]
      /\ \A r \in Rounds, u \in Units :
              \/ passes'[r][u] = passes[r][u]
              \/ /\ passes'[r][u] = passes[r][u] + 1 /\ r = at.round /\ at.added = 0
                 /\ AddGenerated \/ AddVariant
                 /\ u = IF pc = "add" THEN Shard ELSE 0
  <2>1. CASE UNCHANGED passes
    BY <2>1 DEF Typed
  <2>2. CASE AddGenerated \/ AddVariant
    <3>1. PICK u \in Units, s \in 0 .. MaxRounds : AddIdea(u, s) /\ u = IF pc = "add" THEN Shard ELSE 0
      BY <2>2, AddedEffect
    <3>2. at.round \in Rounds
      BY <2>2 DEF AddGenerated, AddVariant, Typed, LocalOK
    <3>3. \/ UNCHANGED passes
          \/ /\ at.added = 0
             /\ passes' = [passes EXCEPT ![at.round] = [passes[at.round] EXCEPT ![u] = passes[at.round][u] + 1]]
      BY <3>1 DEF AddIdea
    <3>4. passes \in [Rounds -> [Units -> Nat]]
      BY DEF Typed
    <3>5. passes[at.round] \in [Units -> Nat] /\ passes[at.round][u] \in Nat
      BY <3>1, <3>2, <3>4
    <3>. QED
      BY <2>2, <3>1, <3>2, <3>3, <3>4, <3>5
  <2>. QED
    BY <2>1, <2>2, GhostFrame
<1>2. torn' \in Nat /\ torn' \in {torn, torn + 1}
  BY GhostFrame DEF Typed, Die
<1>3. unheard' \subseteq Ids
  BY GhostFrame DEF Typed, LocalOK, Die
<1>4. faults' \in 0 .. MaxFaults
  BY GhostFrame, Numbers DEF Typed, Fault
<1>5. archives' \in 0 .. MaxArchives
  BY GhostFrame, Numbers DEF Typed, Archive
<1>. QED
  BY <1>1, <1>2, <1>3, <1>4, <1>5

-----------------------------------------------------------------------------
(* What the supervisor holds. *)
LEMMA WorkLocals ==
  ASSUME at \in Locals, NEW w \in Works, NEW n \in 0 .. PerUnit,
         at' = [at EXCEPT !.work = w, !.added = n]
  PROVE  /\ at' \in Locals
         /\ at'.round = at.round /\ at'.hand = at.hand /\ at'.seed = at.seed /\ at'.unit = at.unit
         /\ at'.work = w /\ at'.pool = at.pool /\ at'.added = n
BY DEF Locals

LEMMA UnitLocals ==
  ASSUME at \in Locals, NEW w \in Works, NEW n \in 0 .. MaxIdeas,
         at' = [at EXCEPT !.unit = n, !.work = w]
  PROVE  /\ at' \in Locals
         /\ at'.round = at.round /\ at'.hand = at.hand /\ at'.seed = at.seed /\ at'.unit = n
         /\ at'.work = w /\ at'.pool = at.pool /\ at'.added = at.added
BY DEF Locals

LEMMA GotoLocals ==
  ASSUME at \in Locals, NEW step, Goto(step)
  PROVE  /\ at' \in Locals /\ pc' = step
         /\ at'.round = at.round /\ at'.hand = at.hand /\ at'.seed = at.seed /\ at'.unit = at.unit
         /\ at'.work = {} /\ at'.pool = {} /\ at'.added = 0
<1>1. ASSUME NEW w \in Works, NEW p \in SUBSET Ids, NEW n \in 0 .. PerUnit,
             at' = [at EXCEPT !.work = w, !.pool = p, !.added = n]
      PROVE  /\ at' \in Locals
             /\ at'.round = at.round /\ at'.hand = at.hand /\ at'.seed = at.seed /\ at'.unit = at.unit
             /\ at'.work = w /\ at'.pool = p /\ at'.added = n
  BY <1>1 DEF Locals
<1>2. {} \in Works /\ {} \in SUBSET Ids /\ 0 \in 0 .. PerUnit
  BY Numbers DEF Works
<1>. QED
  BY <1>1, <1>2 DEF Goto

LEMMA IdleLocals ==
  ASSUME NEW r \in 0 .. MaxRounds + 1, at' = [Idle EXCEPT !.round = r]
  PROVE  /\ at' \in Locals /\ at'.round = r /\ at'.hand = {} /\ at'.added = 0 /\ at'.work = {}
BY Numbers DEF Idle, Locals, Works

(* The actions that only move on. *)
Ahead == Steps \ {"off", "report", "over", "add", "save", "review", "reviewed", "proximity",
                  "clustered", "generate", "plan"}
Advance ==
  \E step \in Ahead :
    Goto(step) /\ pc \notin {"off", "report", "over", "save", "add"}

LEMMA Advances ==
  ASSUME \/ ClearSeed \/ ReviewsEnd \/ ClusterDone \/ ClusterSmall \/ ClusterFailed \/ MarkClustered
         \/ CollapseDone \/ CollapseAbstain \/ MarkGraft \/ JudgeEnd
         \/ EvolveDone \/ EvolveNothing \/ EvolveFailed \/ Evolve \/ MarkEvolution
         \/ MetaReview \/ NoMetaReview
  PROVE  Advance
BY DEF Advance, Ahead, Steps, Boundaries, ClearSeed, ReviewsEnd, ClusterDone, ClusterSmall, ClusterDue,
   ClusterFailed, MarkClustered, CollapseDone, CollapseAbstain, MarkGraft, JudgeEnd, EvolveDone,
   EvolveNothing, EvolveFailed, Evolve, MarkEvolution, MetaReview, NoMetaReview

LEMMA WhoMoves ==
  ASSUME [Next]_vars
  PROVE  \/ UNCHANGED <<pc, at>>
         \/ Boot \/ Claim \/ SaveNotes \/ Open \/ Generate \/ AddGenerated \/ MarkShard
         \/ Reflect \/ MarkReviewed \/ \E i \in Ids, v \in {"keep", "reject"} : RecordReview(i, v)
         \/ ClusterAsk \/ ApplyClusters \/ RecordGraft \/ PlanDone \/ MarkPool \/ PlanMatches
         \/ \E p \in Pairs, result \in {"completed", "skipped"} : RecordMatch(p, result)
         \/ AddVariant \/ Close \/ Report \/ Pause \/ Stop \/ Die \/ Continue
         \/ Advance
BY Advances DEF Next, Supervise, Prepare, Produce, Criticise, Group, Diverge, Compete, Breed,
   Conclude, vars, GiveNote, Archive

LEMMA LocalType ==
  ASSUME Typed, Pool, [Next]_vars
  PROVE  LocalOK'
<1>. USE Numbers
<1>0. LocalOK /\ RunOK /\ NotesOK
  BY DEF Typed
<1>1. CASE UNCHANGED <<pc, at>>
  BY <1>0, <1>1 DEF LocalOK
<1>2. CASE Boot
  BY <1>0, <1>2 DEF Boot, LocalOK, Locals, Works, Idle, RunOK, Steps, Boundaries, Rounds
<1>3. CASE Claim
  BY <1>0, <1>3 DEF Claim, LocalOK, Locals, Works, NotesOK, Steps
<1>4. CASE SaveNotes
  BY <1>0, <1>4 DEF SaveNotes, LocalOK, Locals, Works, Steps
<1>5. CASE Open
  BY <1>0, <1>5 DEF Open, LocalOK, Locals, Works, Steps, RunOK
<1>6. CASE Generate
  <2>1. PICK ok \in SUBSET Shards : /\ at' = [at EXCEPT !.work = ok, !.added = 0]
                                    /\ pc = "generate"
                                    /\ pc' = IF ok = {} THEN "clear" ELSE "add"
    BY <1>6 DEF Generate
  <2>2. at \in Locals /\ ok \in Works /\ 0 \in 0 .. PerUnit
    BY <1>0 DEF LocalOK, Works
  <2>3. at' \in Locals /\ at'.work = ok /\ at'.round = at.round
    BY <2>1, <2>2, WorkLocals
  <2>. QED
    BY <1>0, <2>1, <2>3 DEF LocalOK, Steps
<1>7. CASE AddGenerated \/ AddVariant
  <2>1. PICK u \in Units, s \in 0 .. MaxRounds : AddIdea(u, s)
    BY <1>7, AddedEffect
  <2>2. pc' = pc /\ at' = [at EXCEPT !.added = at.added + 1] /\ at.added < PerUnit
    BY <2>1 DEF AddIdea
  <2>. QED
    BY <1>0, <2>2 DEF LocalOK, Locals, Works
<1>8. CASE MarkShard
  <2>1. /\ pc = "add" /\ at' = [at EXCEPT !.work = at.work \ {Shard}, !.added = 0]
        /\ pc' = IF at.work = {Shard} THEN "clear" ELSE "add"
    BY <1>8 DEF MarkShard
  <2>2. at \in Locals /\ at.work \ {Shard} \in Works /\ 0 \in 0 .. PerUnit
    BY <1>0, <2>1 DEF LocalOK, Works
  <2>3. at' \in Locals /\ at'.work = at.work \ {Shard} /\ at'.round = at.round
    BY <2>1, <2>2, WorkLocals
  <2>4. Shard \in at.work
    BY <1>0, <2>1, ShardInHand
  <2>5. at.work # {Shard} => at.work \ {Shard} # {}
    BY <2>4
  <2>. QED
    BY <1>0, <2>1, <2>3, <2>5 DEF LocalOK, Steps
<1>9. CASE Reflect
  BY <1>0, <1>9 DEF Reflect, LocalOK, Locals, Works, Steps, Active
<1>10. CASE \E i \in Ids, v \in {"keep", "reject"} : RecordReview(i, v)
  <2>1. PICK i \in Ids : /\ pc = "review" /\ at' = [at EXCEPT !.unit = i, !.work = at.work \ {i}]
                         /\ pc' = "reviewed"
    BY <1>10 DEF RecordReview
  <2>2. at \in Locals /\ at.work \ {i} \in Works /\ i \in 0 .. MaxIdeas
    BY <1>0, <2>1 DEF LocalOK, Works
  <2>3. at' \in Locals /\ at'.work = at.work \ {i} /\ at'.unit = i /\ at'.round = at.round
    BY <2>1, <2>2, UnitLocals
  <2>. QED
    BY <1>0, <2>1, <2>3 DEF LocalOK, Steps
<1>11. CASE MarkReviewed
  BY <1>0, <1>11 DEF MarkReviewed, LocalOK, Locals, Works, Steps
<1>12. CASE ClusterAsk
  BY <1>0, <1>12 DEF ClusterAsk, ClusterDue, LocalOK, Locals, Works, Steps, Active
<1>13. CASE ApplyClusters \/ RecordGraft
  BY <1>0, <1>13 DEF ApplyClusters, RecordGraft, LocalOK, Locals, Works, Steps
<1>14. CASE PlanDone
  BY <1>0, <1>14 DEF PlanDone, Planned, LocalOK, Locals, Works, Steps
<1>15. CASE MarkPool
  <2>1. \A s \in Additions : s \subseteq Pairs
    BY DEF Additions, Pairings
  <2>. QED
    BY <1>0, <1>15, <2>1 DEF MarkPool, LocalOK, Locals, Works, Steps
<1>16. CASE PlanMatches
  BY <1>0, <1>16 DEF PlanMatches, Planned, LocalOK, Locals, Works, Steps
<1>17. CASE \E p \in Pairs, result \in {"completed", "skipped"} : RecordMatch(p, result)
  BY <1>0, <1>17 DEF RecordMatch, LocalOK, Locals, Works, Steps
<1>18. CASE Close
  BY <1>0, <1>18 DEF Close, LocalOK, Locals, Works, Idle, RunOK, Steps, Boundaries, Rounds
<1>19. CASE Report \/ Pause \/ Stop \/ Die
  BY <1>0, <1>19 DEF Report, Pause, Stop, Die, LocalOK, Locals, Works, Idle, Steps
<1>20. CASE Continue
  BY <1>0, <1>20 DEF Continue, LocalOK, Steps
<1>21. CASE Advance
  <2>1. PICK step \in Ahead :
          Goto(step) /\ pc \notin {"off", "report", "over", "save", "add"}
    BY <1>21 DEF Advance, Ahead
  <2>. QED
    BY <1>0, <2>1, GotoLocals DEF LocalOK, Ahead
<1>. QED
  BY <1>1, <1>2, <1>3, <1>4, <1>5, <1>6, <1>7, <1>8, <1>9, <1>10, <1>11, <1>12, <1>13, <1>14, <1>15,
     <1>16, <1>17, <1>18, <1>19, <1>20, <1>21, WhoMoves

-----------------------------------------------------------------------------
(* Which steps the supervisor takes where. *)
LEMMA RoundKept ==
  ASSUME Typed, Pool, [Next]_vars
  PROVE  \/ at'.round = at.round /\ at'.seed = at.seed
         \/ at'.round = at.round /\ at'.seed = seed.pending /\ Open
         \/ pc' \in {"off", "boundary", "report", "over"}
<1>. at \in Locals
  BY DEF Typed, LocalOK
<1>1. CASE UNCHANGED <<pc, at>>
  BY <1>1
<1>2. CASE Boot \/ Close \/ Report \/ Pause \/ Stop \/ Die \/ Continue
  BY <1>2 DEF Boot, Close, Report, Pause, Stop, Die, Continue
<1>3. CASE Claim \/ SaveNotes \/ Open
  BY <1>3 DEF Claim, SaveNotes, Open, Locals
<1>4. CASE Generate
  BY <1>4 DEF Generate, Locals
<1>5. CASE AddGenerated \/ AddVariant
  <2>1. PICK u \in Units, s \in 0 .. MaxRounds : AddIdea(u, s)
    BY <1>5, AddedEffect
  <2>. QED
    BY <2>1 DEF AddIdea, Locals
<1>6. CASE MarkShard
  BY <1>6 DEF MarkShard, Locals
<1>7. CASE Reflect \/ MarkReviewed \/ \E i \in Ids, v \in {"keep", "reject"} : RecordReview(i, v)
  BY <1>7 DEF Reflect, MarkReviewed, RecordReview, Locals
<1>8. CASE ClusterAsk \/ ApplyClusters \/ RecordGraft
  BY <1>8 DEF ClusterAsk, ApplyClusters, RecordGraft, Locals
<1>9. CASE PlanDone \/ MarkPool \/ PlanMatches
  BY <1>9 DEF PlanDone, MarkPool, PlanMatches, Locals
<1>10. CASE \E p \in Pairs, result \in {"completed", "skipped"} : RecordMatch(p, result)
  BY <1>10 DEF RecordMatch, Locals
<1>11. CASE Advance
  BY <1>11, GotoLocals DEF Advance, Ahead
<1>. QED
  BY <1>1, <1>2, <1>3, <1>4, <1>5, <1>6, <1>7, <1>8, <1>9, <1>10, <1>11, WhoMoves

Late == Steps \ {"off", "boundary", "save", "open", "generate", "add", "clear", "report", "over"}

LEMMA Arrivals ==
  ASSUME [Next]_vars
  PROVE  /\ pc' \in {"collapse", "grafted", "tournament", "plan", "judge", "evolve"} =>
              \/ pc \in {"collapse", "grafted", "tournament", "plan", "judge", "evolve"}
              \/ ClusterDone \/ ClusterSmall \/ ClusterFailed \/ MarkClustered
         /\ pc' \in {"generate", "add", "clear"} => pc \in {"generate", "add", "clear"} \/ Open
         /\ pc' \in Late => pc \in Late \/ ClearSeed
         /\ pc' = "breed" => pc = "breed" \/ Evolve
         /\ pc \in {"add", "breed"} =>
              \/ UNCHANGED <<pc, at>> \/ AddGenerated \/ AddVariant \/ MarkShard \/ MarkEvolution \/ Die
         /\ pc' = "add" => Generate \/ pc = "add"
         /\ pc = "reviewed" => UNCHANGED <<pc, at>> \/ MarkReviewed \/ Die
BY DEF Next, Supervise, Prepare, Produce, Criticise, Group, Diverge, Compete, Breed, Conclude,
   vars, Late, Steps, Goto, Boundaries, ClusterDue,
   Boot, Claim, SaveNotes, Open, Generate, AddGenerated, AddIdea, MarkShard, ClearSeed, Reflect,
   RecordReview, MarkReviewed, ReviewsEnd, ClusterDone, ClusterSmall, ClusterAsk, ClusterFailed,
   ApplyClusters, MarkClustered, CollapseDone, CollapseAbstain, RecordGraft, MarkGraft, PlanDone,
   MarkPool, PlanMatches, RecordMatch, JudgeEnd, EvolveDone, EvolveNothing, EvolveFailed, Evolve,
   AddVariant, MarkEvolution, MetaReview, NoMetaReview, Close, Report, Pause, Stop, Die, Continue,
   GiveNote, Archive

LEMMA MarkMoves ==
  ASSUME Typed, [Next]_vars, NEW r \in Rounds
  PROVE  /\ \/ mark'[r].shards = mark[r].shards
            \/ MarkShard /\ r = at.round /\ mark'[r].shards = mark[r].shards \cup {Shard}
         /\ \/ mark'[r].reviewed = mark[r].reviewed
            \/ MarkReviewed /\ r = at.round /\ mark'[r].reviewed = mark[r].reviewed \cup {at.unit}
         /\ \/ mark'[r].covered = mark[r].covered
            \/ ClusterSmall \/ ClusterFailed \/ MarkClustered
         /\ \/ mark'[r].evo = mark[r].evo
            \/ mark'[r].evo = TRUE /\ (EvolveNothing \/ MarkEvolution)
<1>1. CASE UNCHANGED mark
  BY <1>1
<1>2. CASE MarkShard
  BY <1>2, MarkShardEffect DEF OnlyAt, Kept
<1>3. CASE MarkReviewed
  BY <1>3, MarkReviewedEffect DEF OnlyAt, Kept
<1>4. CASE ClusterSmall \/ ClusterFailed \/ MarkClustered
  BY <1>4, MarkClusterEffect DEF OnlyAt, Kept
<1>5. CASE CollapseAbstain \/ MarkGraft
  BY <1>5, MarkGraftEffect DEF OnlyAt, Kept
<1>6. CASE MarkPool
  BY <1>6, MarkPoolEffect DEF OnlyAt, Kept
<1>7. CASE EvolveNothing \/ EvolveFailed \/ MarkEvolution
  <2>1. EvolveFailed \/ EvolveNothing \/ MarkEvolution
    BY <1>7
  <2>. QED
    BY <2>1, MarkEvolvedEffect DEF OnlyAt, Kept
<1>. QED
  BY <1>1, <1>2, <1>3, <1>4, <1>5, <1>6, <1>7, MarkFrame

-----------------------------------------------------------------------------
(* The pool invariant and the types hold together. *)
LEMMA PoolStep ==
  ASSUME Typed, Pool, [Next]_vars
  PROVE  Pool'
<1>1. /\ Numbered' /\ MergedIntoOne' /\ Born \subseteq Born'
      /\ \A i \in Ids : idea'[i].dup \in {0, idea[i].dup} \/ ApplyClusters
  BY PoolMoves
<1>2. at \in Locals
  BY DEF Typed, LocalOK
<1>3. PoolFresh'
  <2>. SUFFICES ASSUME pc' = "proximity"
                PROVE  at'.pool \subseteq Born' /\ \A i \in at'.pool : idea'[i].dup = 0
    BY DEF PoolFresh
  <2>1. \/ ClusterAsk
        \/ at' = at /\ pc = "proximity" /\ ~ApplyClusters
    BY WhoMoves DEF Boot, Claim, SaveNotes, Open, Generate, AddGenerated, AddIdea, MarkShard, Reflect,
       MarkReviewed, RecordReview, ApplyClusters, RecordGraft, PlanDone, MarkPool, PlanMatches, RecordMatch,
       AddVariant, Close, Report, Pause, Stop, Die, Continue, Advance, Ahead, Goto
  <2>2. CASE ClusterAsk
    <3>1. at'.pool = Active /\ idea' = idea
      BY <1>2, <2>2 DEF ClusterAsk, Locals, rows
    <3>2. \A i \in Active : idea[i].dup = 0
      BY DEF Active, Pool, MergedIntoOne
    <3>. QED
      BY <1>1, <3>1, <3>2 DEF Active, Born
  <2>3. CASE at' = at /\ pc = "proximity" /\ ~ApplyClusters
    BY <1>1, <2>3 DEF Pool, PoolFresh, Born
  <2>. QED
    BY <2>1, <2>2, <2>3
<1>4. UnderReview'
  <2>. SUFFICES ASSUME pc' \in {"review", "reviewed"}
                PROVE  at'.work \subseteq Born'
    BY DEF UnderReview
  <2>1. \/ Reflect \/ MarkReviewed \/ \E i \in Ids, v \in {"keep", "reject"} : RecordReview(i, v)
        \/ at' = at /\ pc \in {"review", "reviewed"}
    BY WhoMoves DEF Boot, Claim, SaveNotes, Open, Generate, AddGenerated, AddIdea, MarkShard,
       ClusterAsk, ApplyClusters, RecordGraft, PlanDone, MarkPool, PlanMatches, RecordMatch,
       AddVariant, Close, Report, Pause, Stop, Die, Continue, Advance, Ahead, Goto
  <2>2. CASE Reflect
    BY <1>1, <1>2, <2>2 DEF Reflect, Locals, Active, Born
  <2>3. CASE MarkReviewed \/ \E i \in Ids, v \in {"keep", "reject"} : RecordReview(i, v)
    <3>1. at'.work \subseteq at.work
      BY <1>2, <2>3 DEF MarkReviewed, RecordReview, Locals
    <3>. QED
      BY <1>1, <2>3, <3>1 DEF MarkReviewed, RecordReview, Pool, UnderReview
  <2>4. CASE at' = at /\ pc \in {"review", "reviewed"}
    BY <1>1, <2>4 DEF Pool, UnderReview
  <2>. QED
    BY <2>1, <2>2, <2>3, <2>4
<1>. QED
  BY <1>1, <1>3, <1>4 DEF Pool

LEMMA PoolInit == Init => Pool
<1>. SUFFICES ASSUME Init PROVE Pool
  OBVIOUS
<1>1. Born = {} /\ \A i \in Ids : idea[i].dup = 0 /\ idea[i].reviews = 0
  BY DEF Init, Born, Unborn
<1>2. Cardinality(Born) = 0
  BY <1>1, FS_EmptySet
<1>3. Born = 1 .. Cardinality(Born)
  BY <1>1, <1>2
<1>. QED
  BY <1>1, <1>3 DEF Pool, Numbered, PoolFresh, UnderReview, MergedIntoOne, Init

LEMMA TypedStep ==
  ASSUME Typed, Pool, [Next]_vars
  PROVE  Typed'
BY PoolMoves, MatchMoves, MarkType, NotesType, RunType, GhostMoves, LocalType DEF Typed

LEMMA TypedPool == Spec => [](Typed /\ Pool)
<1>1. Init => Typed /\ Pool
  BY TypedInit, PoolInit
<1>2. Typed /\ Pool /\ [Next]_vars => (Typed /\ Pool)'
  BY TypedStep, PoolStep
<1>. QED
  BY <1>1, <1>2, PTL DEF Spec

(* Every row, mark and local variable has the shape the code gives it, for any
   numbers of rounds, ideas, shards and labels. *)
THEOREM TypeCorrect == Spec => []TypeOK
BY TypedPool, TypedTypeOK, PTL

(* However the clusterings and the scientist's archiving overlap (_duplicates,
   apply_clusters, archive_hypothesis), an idea merged into another is out of
   the pool and points at one that stands: the pointers form no chain and no
   cycle. *)
THEOREM MergedIdeasStand == Spec => []MergedIntoOne
<1>1. Typed /\ Pool => MergedIntoOne
  BY DEF Pool
<1>. QED
  BY <1>1, TypedPool, PTL

-----------------------------------------------------------------------------
(* Notes.  A supervisor holds notes only between claiming and saving them. *)
HandEmpty == pc # "save" => at.hand = {}

LEMMA HandStep ==
  ASSUME Typed, Pool, HandEmpty, [Next]_vars
  PROVE  /\ HandEmpty'
         /\ at'.hand = at.hand \/ Claim \/ SaveNotes \/ Die
<1>. at \in Locals /\ Idle.hand = {}
  BY DEF Typed, LocalOK, Idle
<1>1. CASE UNCHANGED <<pc, at>>
  BY <1>1 DEF HandEmpty
<1>2. CASE Boot \/ Close \/ Report \/ Pause \/ Stop \/ Die \/ Continue
  <2>1. CASE Die
    BY <2>1 DEF Die, HandEmpty
  <2>2. CASE Continue
    BY <2>2 DEF Continue, HandEmpty
  <2>3. CASE Boot \/ Close
    BY <2>3 DEF Boot, Close, HandEmpty, Idle
  <2>4. CASE Report \/ Pause \/ Stop
    BY <2>4 DEF Report, Pause, Stop, HandEmpty, Boundaries
  <2>. QED
    BY <1>2, <2>1, <2>2, <2>3, <2>4
<1>3. CASE Claim \/ SaveNotes \/ Open
  BY <1>3 DEF Claim, SaveNotes, Open, Locals, HandEmpty
<1>4. CASE Generate
  BY <1>4 DEF Generate, Locals, HandEmpty
<1>5. CASE AddGenerated \/ AddVariant
  <2>1. PICK u \in Units, s \in 0 .. MaxRounds : AddIdea(u, s)
    BY <1>5, AddedEffect
  <2>. QED
    BY <1>5, <2>1 DEF AddIdea, Locals, HandEmpty
<1>6. CASE MarkShard
  BY <1>6 DEF MarkShard, Locals, HandEmpty
<1>7. CASE Reflect \/ MarkReviewed \/ \E i \in Ids, v \in {"keep", "reject"} : RecordReview(i, v)
  BY <1>7 DEF Reflect, MarkReviewed, RecordReview, Locals, HandEmpty
<1>8. CASE ClusterAsk \/ ApplyClusters \/ RecordGraft
  BY <1>8 DEF ClusterAsk, ClusterDue, ApplyClusters, RecordGraft, Locals, HandEmpty
<1>9. CASE PlanDone \/ MarkPool \/ PlanMatches
  BY <1>9 DEF PlanDone, MarkPool, PlanMatches, Locals, HandEmpty
<1>10. CASE \E p \in Pairs, result \in {"completed", "skipped"} : RecordMatch(p, result)
  BY <1>10 DEF RecordMatch, Locals, HandEmpty
<1>11. CASE Advance
  <2>1. at'.hand = at.hand /\ pc # "save" /\ pc' # "save"
    BY <1>11, GotoLocals DEF Advance, Ahead
  <2>. QED
    BY <2>1 DEF HandEmpty
<1>. QED
  BY <1>1, <1>2, <1>3, <1>4, <1>5, <1>6, <1>7, <1>8, <1>9, <1>10, <1>11, WhoMoves

(* _drain_interventions takes the notes off the queue and saves them against
   the round in two transactions: a note the scientist gave is queued, saved,
   or in the hands of the supervisor between the two.  Only a death between the
   two loses it, and that one does: NotesSurvive fails. *)
THEOREM NotesAreKept == Spec => []NotesKept
<1>. DEFINE Inv == HandEmpty /\ NotesKept
<1>1. Init => Inv
  BY DEF Init, Idle, HandEmpty, NotesKept
<1>2. Typed /\ Pool /\ Inv /\ [Next]_vars => Inv'
  <2>. SUFFICES ASSUME Typed, Pool, Inv, [Next]_vars PROVE Inv'
    OBVIOUS
  <2>0. HandEmpty' /\ (at'.hand = at.hand \/ Claim \/ SaveNotes \/ Die)
    BY HandStep
  <2>. at \in Locals /\ noted \in [Rounds -> SUBSET Notes]
    BY DEF Typed, LocalOK, NotesOK
  <2>. DEFINE saved == UNION {noted[r] : r \in Rounds}
  <2>1. CASE UNCHANGED <<queue, noted, given, dropped>> /\ at'.hand = at.hand
    BY <2>0, <2>1 DEF NotesKept
  <2>2. CASE Claim
    <3>1. at.hand = {} /\ at'.hand = queue /\ queue' = {} /\ noted' = noted
          /\ given' = given /\ dropped' = dropped
      BY <2>2 DEF Claim, HandEmpty, Locals, ghost, history
    <3>. QED
      BY <2>0, <3>1 DEF NotesKept
  <2>3. CASE SaveNotes
    <3>1. /\ at'.hand = {} /\ queue' = queue /\ given' = given /\ dropped' = dropped
          /\ at.round \in Rounds
          /\ noted' = [noted EXCEPT ![at.round] = noted[at.round] \cup at.hand]
      BY <2>3 DEF SaveNotes, Locals, ghost, history, Typed, LocalOK
    <3>2. noted'[at.round] = noted[at.round] \cup at.hand
          /\ \A r \in Rounds \ {at.round} : noted'[r] = noted[r]
      BY <3>1
    <3>3. UNION {noted'[r] : r \in Rounds} = saved \cup at.hand
      BY <3>1, <3>2
    <3>4. NotesKept'
      BY <3>1, <3>3 DEF NotesKept
    <3>. QED
      BY <2>0, <3>4
  <2>4. CASE Die
    <3>1. at'.hand = {} /\ dropped' = dropped \cup at.hand /\ UNCHANGED <<queue, noted, given>>
      BY <2>4 DEF Die, Idle, rows
    <3>. QED
      BY <2>0, <3>1 DEF NotesKept
  <2>5. CASE \E n \in Notes : GiveNote(n)
    <3>1. PICK n \in Notes : GiveNote(n)
      BY <2>5
    <3>2. given' = given \cup {n} /\ queue' = queue \cup {n} /\ UNCHANGED <<at, noted, dropped>>
      BY <3>1 DEF GiveNote
    <3>. QED
      BY <2>0, <3>2 DEF NotesKept
  <2>. QED
    BY <2>0, <2>1, <2>2, <2>3, <2>4, <2>5, NotesFrame
<1>3. Inv => NotesKept
  OBVIOUS
<1>. HIDE DEF Inv
<1>. QED
  BY <1>1, <1>2, <1>3, TypedPool, PTL DEF Spec

-----------------------------------------------------------------------------
(* Clustering.  From the clustering on, the round's mark covers the pool: a
   supervisor between the call and the mark holds the pool it asked about. *)
Covers ==
  /\ pc \in {"collapse", "grafted", "tournament", "plan", "judge", "evolve"} =>
       mark[at.round].covered = {} \/ Active \subseteq mark[at.round].covered
  /\ pc \in {"proximity", "clustered"} => Active \subseteq at.pool

(* _cluster's resume unit is the pool its mark covers: whatever the round
   generated, bred or was resumed with in between, no tournament is held and
   no parents are chosen over an idea its clustering never saw, unless the mark
   names none. *)
THEOREM TournamentSeesItsPool == Spec => []ClusteringCoversPool
<1>1. Init => Covers
  BY DEF Init, Covers
<1>2. Typed /\ Pool /\ Covers /\ [Next]_vars => Covers'
  <2>. SUFFICES ASSUME Typed, Pool, Covers, [Next]_vars PROVE Covers'
    OBVIOUS
  <2>. at \in Locals
    BY DEF Typed, LocalOK
  <2>1. ASSUME pc' \in {"collapse", "grafted", "tournament", "plan", "judge", "evolve"}
        PROVE  mark'[at'.round].covered = {} \/ Active' \subseteq mark'[at'.round].covered
    <3>1. Active' \subseteq Active
      <4>1. ~(AddGenerated \/ AddVariant)
        BY <2>1 DEF AddGenerated, AddVariant, AddIdea
      <4>. QED
        BY <4>1, PoolMoves
    <3>2. at'.round = at.round /\ at.round \in Rounds
      <4>1. at'.round = at.round
        BY <2>1, RoundKept
      <4>2. LocalOK'
        BY LocalType
      <4>. QED
        BY <2>1, <4>1, <4>2 DEF LocalOK
    <3>3. CASE ClusterDone
      BY <3>1, <3>2, <3>3 DEF ClusterDone, rows
    <3>4. CASE ClusterSmall \/ ClusterFailed \/ MarkClustered
      <4>1. mark'[at.round].covered = IF pc = "cluster" THEN Active ELSE at.pool
        BY <3>4, MarkClusterEffect
      <4>2. pc # "cluster" => Active \subseteq at.pool
        BY <3>4 DEF ClusterSmall, ClusterDue, ClusterFailed, MarkClustered, Covers
      <4>. QED
        BY <3>1, <3>2, <4>1, <4>2
    <3>5. CASE pc \in {"collapse", "grafted", "tournament", "plan", "judge", "evolve"}
      <4>1. mark'[at.round].covered = mark[at.round].covered
        BY <3>2, <3>5, MarkMoves DEF ClusterSmall, ClusterDue, ClusterFailed, MarkClustered
      <4>. QED
        BY <3>1, <3>2, <3>5, <4>1 DEF Covers
    <3>. QED
      BY <2>1, <3>3, <3>4, <3>5, Arrivals
  <2>2. ASSUME pc' \in {"proximity", "clustered"}
        PROVE  Active' \subseteq at'.pool
    <3>1. Active' \subseteq Active
      <4>1. ~(AddGenerated \/ AddVariant)
        BY <2>2 DEF AddGenerated, AddVariant, AddIdea
      <4>. QED
        BY <4>1, PoolMoves
    <3>2. \/ ClusterAsk
          \/ at' = at /\ pc \in {"proximity", "clustered"}
      BY <2>2, WhoMoves DEF Boot, Claim, SaveNotes, Open, Generate, AddGenerated, AddIdea,
         MarkShard, Reflect,
         MarkReviewed, RecordReview, ApplyClusters, RecordGraft, PlanDone, MarkPool, PlanMatches, RecordMatch,
         AddVariant, Close, Report, Pause, Stop, Die, Continue, Advance, Ahead, Goto
    <3>. QED
      BY <3>1, <3>2 DEF ClusterAsk, Locals, Covers
  <2>. QED
    BY <2>1, <2>2 DEF Covers
<1>3. Covers => ClusteringCoversPool
  BY DEF Covers, ClusteringCoversPool
<1>. QED
  BY <1>1, <1>2, <1>3, TypedPool, PTL DEF Spec

-----------------------------------------------------------------------------
(* Seeds.  The seed in the round's context is the one still pending. *)
SeedInHand == pc \in {"generate", "add", "clear"} => at.seed = seed.pending

(* _clear_seed and record_graft: past a round's generation an older seed is
   pending only when the round lost a shard, so no seed is given to a second
   wave of a round that finished its first. *)
THEOREM SeedsNameOneWave == Spec => []SeedNamesOneWave
<1>. DEFINE Inv == SeedInHand /\ SeedNamesOneWave
<1>1. Init => Inv
  BY DEF Init, SeedInHand, SeedNamesOneWave
<1>2. Typed /\ Pool /\ Inv /\ [Next]_vars => Inv'
  <2>. SUFFICES ASSUME Typed, Pool, Inv, [Next]_vars PROVE Inv'
    OBVIOUS
  <2>. at \in Locals /\ seed \in [pending : 0 .. MaxRounds, fired : 0 .. MaxRounds]
    BY DEF Typed, LocalOK, RunOK
  <2>1. SeedInHand'
    <3>. SUFFICES ASSUME pc' \in {"generate", "add", "clear"} PROVE at'.seed = seed'.pending
      BY DEF SeedInHand
    <3>1. seed' = seed
      BY RunFrame DEF ClearSeed, RecordGraft, Goto
    <3>2. \/ at'.seed = at.seed /\ pc \in {"generate", "add", "clear"}
          \/ at'.seed = seed.pending
      <4>1. CASE Open
        BY <4>1 DEF Open, Locals
      <4>2. CASE ~Open
        BY <4>2, RoundKept, Arrivals
      <4>. QED
        BY <4>1, <4>2
    <3>. QED
      BY <3>1, <3>2 DEF SeedInHand
  <2>2. SeedNamesOneWave'
    <3>. SUFFICES ASSUME pc' \in Late, seed'.pending \in 1 .. at'.round - 1
                  PROVE  mark'[at'.round].shards # Shards
      BY DEF SeedNamesOneWave, Late
    <3>1. at'.round = at.round /\ at.round \in Rounds
      <4>1. at'.round = at.round
        BY RoundKept DEF Late, Open
      <4>2. LocalOK'
        BY LocalType
      <4>. QED
        BY <4>1, <4>2 DEF LocalOK, Late
    <3>2. CASE ClearSeed
      <4>1. mark' = mark /\ at.seed = seed.pending
        BY <3>2 DEF ClearSeed, SeedInHand
      <4>2. ~(at.seed # 0 /\ mark[at.round].shards = Shards)
        BY <3>2 DEF ClearSeed
      <4>3. seed' = seed
        BY <3>2, <4>2 DEF ClearSeed
      <4>. QED
        BY <3>1, <4>1, <4>2, <4>3
    <3>3. CASE pc \in Late
      <4>1. mark'[at.round].shards = mark[at.round].shards
        BY <3>1, <3>3, MarkMoves DEF MarkShard, Late
      <4>2. ~RecordGraft
        BY <3>1 DEF RecordGraft, Rounds
      <4>3. seed' = seed
        BY <3>3, <4>2, RunFrame DEF ClearSeed, Late
      <4>. QED
        BY <3>1, <3>3, <4>1, <4>3 DEF SeedNamesOneWave, Late
    <3>. QED
      BY <3>2, <3>3, Arrivals
  <2>. QED
    BY <2>1, <2>2
<1>3. Inv => SeedNamesOneWave
  OBVIOUS
<1>. HIDE DEF Inv
<1>. QED
  BY <1>1, <1>2, <1>3, TypedPool, PTL DEF Spec

-----------------------------------------------------------------------------
(* Plans.  The pairs about to be planned share no idea with the plan. *)
Apart == pc = "plan" => \A p \in at.work, q \in Plan(at.round) : p \cap q = {}

LEMMA ApartStep ==
  ASSUME Typed, Pool, Apart, [Next]_vars
  PROVE  Apart'
<1>. SUFFICES ASSUME pc' = "plan"
              PROVE  \A p \in at'.work : \A q \in Pairs : match'[at'.round][q] # "none" => p \cap q = {}
  BY DEF Apart, Plan
<1>. at \in Locals
  BY DEF Typed, LocalOK
<1>1. \/ MarkPool
      \/ UNCHANGED <<pc, at>>
  BY WhoMoves DEF Boot, Claim, SaveNotes, Open, Generate, AddGenerated, AddIdea, MarkShard, Reflect,
     MarkReviewed, RecordReview, ClusterAsk, ApplyClusters, RecordGraft, PlanDone, PlanMatches,
     RecordMatch, AddVariant, Close, Report, Pause, Stop, Die, Continue, Advance, Ahead, Goto
<1>2. CASE MarkPool
  <2>1. PICK s \in Additions \ {{}} : at' = [at EXCEPT !.work = s]
    BY <1>2 DEF MarkPool
  <2>2. at'.work = s /\ at'.round = at.round /\ match' = match
    BY <1>2, <2>1 DEF MarkPool, Locals
  <2>3. CASE Plan(at.round) = {}
    BY <2>2, <2>3 DEF Plan
  <2>4. CASE Plan(at.round) # {}
    <3>1. s \in {{p \in t : \A q \in Plan(at.round) : p \cap q = {}} : t \in Pairings(Newcomers)}
      BY <2>1, <2>4 DEF Additions
    <3>2. \A p \in s : \A q \in Plan(at.round) : p \cap q = {}
      BY <3>1
    <3>. QED
      BY <2>2, <3>2 DEF Plan
  <2>. QED
    BY <2>3, <2>4
<1>3. CASE UNCHANGED <<pc, at>>
  <2>1. ~PlanMatches
    BY <1>3 DEF PlanMatches
  <2>2. at.round \in Rounds
    BY <1>3 DEF Typed, LocalOK
  <2>3. \A q \in Pairs : match'[at.round][q] = "none" <=> match[at.round][q] = "none"
    BY <2>1, <2>2, MatchMoves
  <2>. QED
    BY <1>3, <2>3 DEF Apart, Plan
<1>. QED
  BY <1>1, <1>2, <1>3

(* A round's plan is replayed by whoever resumes it (_extend_plan,
   plan_matches): no pair leaves it, and a pair joins it only when neither idea
   was in it. *)
THEOREM PlansAreReplayed == Spec => PlanReplayed
<1>1. Init => Apart
  BY DEF Init, Apart
<1>2. Typed /\ Pool /\ Apart /\ [Next]_vars => Apart'
  BY ApartStep
<1>3. Typed /\ Pool /\ Apart /\ [Next]_vars =>
        [\A r \in Rounds :
           /\ Plan(r) \subseteq Plan(r)'
           /\ \A p \in Plan(r)' \ Plan(r) : \A q \in Plan(r) : p \cap q = {}]_vars
  <2>. SUFFICES ASSUME Typed, Pool, Apart, [Next]_vars, NEW r \in Rounds
                PROVE  /\ Plan(r) \subseteq Plan(r)'
                       /\ \A p \in Plan(r)' \ Plan(r) : \A q \in Plan(r) : p \cap q = {}
    OBVIOUS
  <2>1. \A p \in Pairs : match'[r][p] = "none" <=>
          match[r][p] = "none" /\ ~(PlanMatches /\ r = at.round /\ p \in at.work)
    BY MatchMoves
  <2>2. Plan(r) \subseteq Plan(r)'
    BY <2>1 DEF Plan
  <2>3. ASSUME NEW p \in Plan(r)' \ Plan(r), NEW q \in Plan(r) PROVE p \cap q = {}
    <3>1. PlanMatches /\ r = at.round /\ p \in at.work
      BY <2>1 DEF Plan
    <3>. QED
      BY <3>1 DEF PlanMatches, Apart
  <2>. QED
    BY <2>2, <2>3
<1>. QED
  BY <1>1, <1>2, <1>3, TypedPool, PTL DEF Spec, PlanReplayed

-----------------------------------------------------------------------------
(* Reviews.  A review is on its row before it is in a round's mark; between the
   two writes the supervisor has it in hand, and a death there leaves it
   unheard. *)
Counted(i) == i \in unheard \/ (pc = "reviewed" /\ at.unit = i)
Marks(i) == {r \in Rounds : i \in mark[r].reviewed}

Reviewed ==
  /\ \A i \in Ids : /\ idea[i].reviews \in {0, 1}
                    /\ Counted(i) => idea[i].reviews = 1 /\ Marks(i) = {}
                    /\ ~Counted(i) /\ idea[i].reviews = 0 => Marks(i) = {}
                    /\ ~Counted(i) /\ idea[i].reviews = 1 => \E r \in Rounds : Marks(i) = {r}
  /\ pc \in {"review", "reviewed"} => \A i \in at.work : idea[i].reviews = 0
  /\ pc = "reviewed" => at.unit \notin unheard

LEMMA ReviewedOnceHolds == Reviewed => ReviewedOnce
<1>. SUFFICES ASSUME Reviewed, NEW i \in Ids
              PROVE  /\ idea[i].reviews <= 1
                     /\ Cardinality(Marks(i)) = IF Counted(i) THEN 0 ELSE idea[i].reviews
  BY DEF ReviewedOnce, Marks, Counted
<1>1. Cardinality({}) = 0 /\ \A r : Cardinality({r}) = 1
  BY FS_EmptySet, FS_Singleton
<1>2. CASE Counted(i)
  BY <1>1, <1>2 DEF Reviewed
<1>3. CASE ~Counted(i) /\ idea[i].reviews = 0
  BY <1>1, <1>3 DEF Reviewed
<1>4. CASE ~Counted(i) /\ idea[i].reviews = 1
  <2>1. PICK r \in Rounds : Marks(i) = {r}
    BY <1>4 DEF Reviewed
  <2>2. Cardinality(Marks(i)) = 1
    BY <1>1, <2>1, Zenon
  <2>. QED
    BY <1>4, <2>2
<1>. QED
  BY <1>2, <1>3, <1>4 DEF Reviewed

LEMMA ReviewedInit == Init => Reviewed
<1>. SUFFICES ASSUME Init PROVE Reviewed
  OBVIOUS
<1>1. \A i \in Ids : idea[i].reviews = 0
  BY DEF Init, Unborn
<1>2. \A i \in Ids : Marks(i) = {}
  BY DEF Init, NoMarks, Marks
<1>. QED
  BY <1>1, <1>2 DEF Reviewed, Counted, Init

LEMMA ReviewedStep ==
  ASSUME Typed, Pool, Reviewed, [Next]_vars
  PROVE  Reviewed'
<1>. at \in Locals /\ GhostOK
  BY DEF Typed, LocalOK
<1>1. CASE \E j \in Ids, v \in {"keep", "reject"} : RecordReview(j, v)
  <2>1. PICK j \in Ids, v \in {"keep", "reject"} : RecordReview(j, v)
    BY <1>1
  <2>2. /\ pc = "review" /\ j \in at.work /\ pc' = "reviewed" /\ unheard' = unheard /\ mark' = mark
        /\ at'.unit = j /\ at'.work = at.work \ {j}
    <3>1. at' = [at EXCEPT !.unit = j, !.work = at.work \ {j}]
      BY <2>1 DEF RecordReview
    <3>2. at.work \ {j} \in Works
      BY <2>1 DEF RecordReview, Typed, LocalOK, Works
    <3>3. at'.unit = j /\ at'.work = at.work \ {j}
      BY <3>1, <3>2, Numbers, UnitLocals
    <3>. QED
      BY <2>1, <3>3 DEF RecordReview, ghost, history
  <2>3. /\ idea'[j].reviews = idea[j].reviews + 1
        /\ \A i \in Ids \ {j} : idea'[i] = idea[i]
    BY <2>1, ReviewEffect
  <2>4. idea[j].reviews = 0 /\ ~Counted(j) /\ Marks(j) = {}
    BY <2>2 DEF Reviewed, Counted
  <2>5. \A i \in Ids : Marks(i)' = Marks(i)
    BY <2>2 DEF Marks
  <2>6. \A i \in Ids \ {j} : Counted(i)' <=> Counted(i)
    BY <2>2 DEF Counted
  <2>7. Counted(j)' /\ j \notin unheard
    BY <2>2, <2>4 DEF Counted
  <2>. QED
    BY <2>2, <2>3, <2>4, <2>5, <2>6, <2>7 DEF Reviewed, Typed, LocalOK
<1>2. CASE MarkReviewed
  <2>0. PICK j \in Ids : j = at.unit
    BY <1>2 DEF MarkReviewed, Typed, LocalOK
  <2>1. /\ pc = "reviewed" /\ pc' = "review" /\ j \in Ids /\ j \notin unheard /\ unheard' = unheard
        /\ at'.work = at.work /\ idea' = idea
    BY <1>2, <2>0 DEF MarkReviewed, ghost, history, Locals, Typed, LocalOK, Reviewed
  <2>2. /\ at.round \in Rounds /\ mark'[at.round].reviewed = mark[at.round].reviewed \cup {j}
        /\ \A r \in Rounds \ {at.round} : mark'[r] = mark[r]
    BY <1>2, <2>0, MarkReviewedEffect DEF OnlyAt
  <2>3. idea[j].reviews = 1 /\ Marks(j) = {}
    BY <2>0, <2>1 DEF Reviewed, Counted
  <2>4. Marks(j)' = {at.round}
    BY <2>2, <2>3 DEF Marks
  <2>5. \A i \in Ids \ {j} : Marks(i)' = Marks(i)
    BY <2>2 DEF Marks
  <2>6. (\A i \in Ids \ {j} : Counted(i)' <=> Counted(i)) /\ ~Counted(j)'
    BY <2>0, <2>1 DEF Counted
  <2>. QED
    BY <2>1, <2>2, <2>3, <2>4, <2>5, <2>6 DEF Reviewed, Typed, LocalOK
<1>3. CASE ~MarkReviewed /\ ~ \E j \in Ids, v \in {"keep", "reject"} : RecordReview(j, v)
  <2>1. \A i \in Ids : idea'[i].reviews = idea[i].reviews
    BY <1>3, PoolMoves
  <2>2. \A i \in Ids : Marks(i)' = Marks(i)
    BY <1>3, MarkMoves DEF Marks
  <2>3. \A i \in Ids : Counted(i)' <=> Counted(i)
    <3>1. CASE Die
      BY <3>1 DEF Die, Counted
    <3>2. CASE ~Die
      <4>1. unheard' = unheard
        BY <3>2, GhostFrame
      <4>2. pc = "reviewed" => UNCHANGED <<pc, at>>
        BY <1>3, <3>2, Arrivals
      <4>3. pc' = "reviewed" => UNCHANGED <<pc, at>>
        BY <1>3, WhoMoves DEF Boot, Claim, SaveNotes, Open, Generate, AddGenerated, AddIdea,
           MarkShard, Reflect,
           ClusterAsk, ApplyClusters, RecordGraft, PlanDone, MarkPool, PlanMatches,
           RecordMatch, AddVariant, Close, Report, Pause, Stop, Die, Continue, Advance, Ahead, Goto
      <4>. QED
        BY <4>1, <4>2, <4>3 DEF Counted
    <3>. QED
      BY <3>1, <3>2
  <2>4. ASSUME pc' \in {"review", "reviewed"}
        PROVE  /\ \A i \in at'.work : idea'[i].reviews = 0
               /\ pc' = "reviewed" => at'.unit \notin unheard'
    <3>1. Reflect \/ UNCHANGED <<pc, at>>
      BY <1>3, <2>4, WhoMoves DEF Boot, Claim, SaveNotes, Open, Generate, AddGenerated, AddIdea,
         MarkShard,
         ClusterAsk, ApplyClusters, RecordGraft, PlanDone, MarkPool, PlanMatches,
         RecordMatch, AddVariant, Close, Report, Pause, Stop, Die, Continue, Advance, Ahead, Goto
    <3>2. CASE Reflect
      BY <3>2 DEF Reflect, rows, Locals
    <3>3. CASE UNCHANGED <<pc, at>>
      <4>1. unheard' = unheard
        BY <2>4, <3>3, GhostFrame DEF Die
      <4>2. at.work \subseteq Ids
        BY <2>4, <3>3 DEF Typed, LocalOK
      <4>. QED
        BY <2>1, <2>4, <3>3, <4>1, <4>2 DEF Reviewed
    <3>. QED
      BY <3>1, <3>2, <3>3
  <2>. QED
    BY <2>1, <2>2, <2>3, <2>4 DEF Reviewed
<1>. QED
  BY <1>1, <1>2, <1>3

-----------------------------------------------------------------------------
(* Units.  A unit of ideas is done when its mark is set; a pass over it is
   under way from its first idea to that mark. *)
Done(r, u) == IF u = 0 THEN mark[r].evo ELSE u \in mark[r].shards
UnderWay(r, u) ==
  /\ r = at.round /\ at.added > 0
  /\ \/ pc = "add" /\ u = Shard
     \/ pc = "breed" /\ u = 0

Passed ==
  /\ \A r \in Rounds, u \in Units :
       passes[r][u] <= torn + (IF Done(r, u) \/ UnderWay(r, u) THEN 1 ELSE 0)
  /\ pc = "add" => at.work \cap mark[at.round].shards = {}
  /\ pc = "breed" => ~mark[at.round].evo

LEMMA UnitsOnceHolds == Typed /\ Passed => UnitsOnce
BY DEF Passed, UnitsOnce, Typed, GhostOK

LEMMA PassedInit == Init => Passed
BY DEF Init, Passed

(* A unit done stays done, and one under way is carried on, done, or torn. *)
LEMMA UnitMoves ==
  ASSUME Typed, Pool, [Next]_vars, NEW r \in Rounds, NEW u \in Units
  PROVE  /\ Done(r, u) => Done(r, u)'
         /\ UnderWay(r, u) => UnderWay(r, u)' \/ Done(r, u)' \/ torn' = torn + 1
<1>. at \in Locals
  BY DEF Typed, LocalOK
<1>1. Done(r, u) => Done(r, u)'
  BY MarkMoves DEF Done
<1>2. ASSUME UnderWay(r, u)
      PROVE  UnderWay(r, u)' \/ Done(r, u)' \/ torn' = torn + 1
  <2>1. pc \in {"add", "breed"} /\ r = at.round /\ at.added > 0
    BY <1>2 DEF UnderWay
  <2>2. CASE UNCHANGED <<pc, at>>
    BY <1>2, <2>2 DEF UnderWay, Shard
  <2>3. CASE AddGenerated \/ AddVariant
    <3>1. PICK v \in Units, s \in 0 .. MaxRounds : AddIdea(v, s)
      BY <2>3, AddedEffect
    <3>2. at' = [at EXCEPT !.added = at.added + 1] /\ pc' = pc
      BY <3>1 DEF AddIdea
    <3>3. at'.added = at.added + 1 /\ at'.round = at.round /\ at'.work = at.work /\ at.added \in Nat
      BY <3>2 DEF Locals
    <3>. QED
      BY <1>2, <3>2, <3>3 DEF UnderWay, Shard
  <2>4. CASE MarkShard
    <3>1. u = Shard /\ u # 0
      BY <1>2, <2>4, ShardInHand, Numbers DEF MarkShard, UnderWay, Typed
    <3>2. u \in mark'[r].shards
      BY <2>1, <2>4, <3>1, MarkShardEffect
    <3>. QED
      BY <3>1, <3>2 DEF Done
  <2>5. CASE MarkEvolution
    <3>1. u = 0
      BY <1>2, <2>5 DEF MarkEvolution, UnderWay
    <3>2. mark'[r].evo
      BY <2>1, <2>5, MarkEvolvedEffect DEF MarkEvolution, EvolveFailed
    <3>. QED
      BY <3>1, <3>2 DEF Done
  <2>6. CASE Die
    BY <2>1, <2>6 DEF Die
  <2>. QED
    BY <2>1, <2>2, <2>3, <2>4, <2>5, <2>6, Arrivals
<1>. QED
  BY <1>1, <1>2

LEMMA PassedStep ==
  ASSUME Typed, Pool, Passed, [Next]_vars
  PROVE  Passed'
<1>. at \in Locals /\ GhostOK
  BY DEF Typed, LocalOK
<1>1. ASSUME NEW r \in Rounds, NEW u \in Units
      PROVE  passes'[r][u] <= torn' + (IF Done(r, u)' \/ UnderWay(r, u)' THEN 1 ELSE 0)
  <2>0. passes[r][u] \in Nat /\ torn \in Nat /\ torn' \in {torn, torn + 1}
    BY GhostMoves DEF GhostOK
  <2>1. CASE passes'[r][u] = passes[r][u]
    <3>1. passes[r][u] <= torn + (IF Done(r, u) \/ UnderWay(r, u) THEN 1 ELSE 0)
      BY DEF Passed
    <3>2. Done(r, u) \/ UnderWay(r, u) => Done(r, u)' \/ UnderWay(r, u)' \/ torn' = torn + 1
      BY UnitMoves
    <3>. QED
      BY <2>0, <2>1, <3>1, <3>2
  <2>2. CASE passes'[r][u] # passes[r][u]
    <3>1. /\ passes'[r][u] = passes[r][u] + 1 /\ r = at.round /\ at.added = 0
          /\ AddGenerated \/ AddVariant
          /\ u = IF pc = "add" THEN Shard ELSE 0
      BY <2>2, GhostMoves
    <3>2. PICK v \in Units, s \in 0 .. MaxRounds : AddIdea(v, s)
      BY <3>1, AddedEffect
    <3>3. at' = [at EXCEPT !.added = at.added + 1] /\ pc' = pc
      BY <3>2 DEF AddIdea
    <3>4. at'.added = 1 /\ at'.round = at.round /\ at'.work = at.work
      BY <3>1, <3>3 DEF Locals
    <3>5. pc \in {"add", "breed"}
      BY <3>1 DEF AddGenerated, AddVariant
    <3>6. UnderWay(r, u)'
      BY <3>1, <3>3, <3>4, <3>5 DEF UnderWay, Shard
    <3>7. ~Done(r, u) /\ ~UnderWay(r, u)
      <4>1. CASE pc = "add"
        <5>1. Shard \in at.work /\ u = Shard /\ u # 0
          BY <3>1, <4>1, ShardInHand, Numbers DEF Typed
        <5>. QED
          BY <3>1, <4>1, <5>1 DEF Done, UnderWay, Passed
      <4>2. CASE pc = "breed"
        BY <3>1, <4>2 DEF Done, UnderWay, Passed
      <4>. QED
        BY <3>5, <4>1, <4>2
    <3>8. passes[r][u] <= torn
      BY <2>0, <3>7 DEF Passed
    <3>. QED
      BY <2>0, <3>1, <3>6, <3>8
  <2>. QED
    BY <2>1, <2>2
<1>2. ASSUME pc' = "add" PROVE at'.work \cap mark'[at'.round].shards = {}
  <2>1. CASE Generate
    <3>1. PICK ok \in SUBSET (Shards \ mark[at.round].shards) :
            at' = [at EXCEPT !.work = ok, !.added = 0]
      BY <2>1 DEF Generate
    <3>2. ok \in Works /\ 0 \in 0 .. PerUnit
      BY Numbers DEF Works
    <3>3. at'.work = ok /\ at'.round = at.round
      BY <3>1, <3>2, WorkLocals
    <3>. QED
      BY <2>1, <3>3 DEF Generate, rows
  <2>2. CASE pc = "add" /\ ~MarkShard /\ ~Generate
    <3>1. UNCHANGED <<pc, at>> \/ AddGenerated \/ AddVariant
      BY <1>2, <2>2, Arrivals DEF MarkEvolution, Die
    <3>2. at'.work = at.work /\ at'.round = at.round
      <4>1. CASE AddGenerated \/ AddVariant
        <5>1. PICK v \in Units, s \in 0 .. MaxRounds : AddIdea(v, s)
          BY <4>1, AddedEffect
        <5>. QED
          BY <5>1 DEF AddIdea, Locals
      <4>. QED
        BY <3>1, <4>1
    <3>3. at.round \in Rounds
      BY <2>2 DEF Typed, LocalOK
    <3>4. mark'[at.round].shards = mark[at.round].shards
      BY <2>2, <3>3, MarkMoves
    <3>. QED
      BY <2>2, <3>2, <3>4 DEF Passed
  <2>3. CASE MarkShard
    <3>1. /\ pc = "add" /\ at' = [at EXCEPT !.work = at.work \ {Shard}, !.added = 0]
      BY <2>3 DEF MarkShard
    <3>2. at.work \ {Shard} \in Works /\ 0 \in 0 .. PerUnit
      BY <3>1, Numbers DEF Works, Typed, LocalOK
    <3>3. at'.work = at.work \ {Shard} /\ at'.round = at.round
      BY <3>1, <3>2, WorkLocals
    <3>4. mark'[at.round].shards = mark[at.round].shards \cup {Shard}
      BY <2>3, MarkShardEffect
    <3>. QED
      BY <3>1, <3>3, <3>4 DEF Passed
  <2>. QED
    BY <1>2, <2>1, <2>2, <2>3, Arrivals
<1>3. ASSUME pc' = "breed" PROVE ~mark'[at'.round].evo
  <2>1. at'.round = at.round
    BY <1>3, RoundKept DEF Open
  <2>2. CASE Evolve
    BY <2>1, <2>2 DEF Evolve, rows
  <2>3. CASE pc = "breed"
    <3>1. at.round \in Rounds /\ ~EvolveNothing /\ ~MarkEvolution
      BY <1>3, <2>3 DEF Typed, LocalOK, EvolveNothing, MarkEvolution, Goto
    <3>2. mark'[at.round].evo = mark[at.round].evo
      BY <3>1, MarkMoves
    <3>. QED
      BY <2>1, <2>3, <3>2 DEF Passed
  <2>. QED
    BY <1>3, <2>2, <2>3, Arrivals
<1>. QED
  BY <1>1, <1>2, <1>3 DEF Passed

(* The marks of a round (_round_mark, _reflect, _evolve) say what is done:
   whoever takes a round up reviews no idea twice and asks no shard and no
   evolution for a second set of ideas, but where a death fell between a unit's
   first idea and its mark. *)
THEOREM NoWorkTwice == Spec => []WorkDoneOnce
<1>. DEFINE Inv == Reviewed /\ Passed
<1>1. Init => Inv
  BY ReviewedInit, PassedInit
<1>2. Typed /\ Pool /\ Inv /\ [Next]_vars => Inv'
  BY ReviewedStep, PassedStep
<1>3. Typed /\ Inv => WorkDoneOnce
  BY TypedTypeOK, ReviewedOnceHolds, UnitsOnceHolds DEF WorkDoneOnce
<1>. HIDE DEF Inv
<1>. QED
  BY <1>1, <1>2, <1>3, TypedPool, PTL DEF Spec

-----------------------------------------------------------------------------
(* The collapse detector.  First, what numbers and sequences give.          *)

LEMMA FunctionIsSeq ==
  ASSUME NEW S, NEW n \in Nat, NEW f \in [1 .. n -> S]
  PROVE  f \in Seq(S) /\ Len(f) = n
OBVIOUS

LEMMA OneMore ==
  ASSUME NEW S, NEW z, IsFiniteSet(S), z \notin S
  PROVE  Cardinality(S \cup {z}) = Cardinality(S) + 1
BY FS_AddElement

LEMMA Climb ==
  ASSUME NEW N \in Nat, NEW T, NEW g, g[0] \in T, \A k \in 1 .. N : g[k - 1] \in T => g[k] \in T
  PROVE  \A k \in 0 .. N : g[k] \in T
<1>. DEFINE Bad == {k \in 0 .. N : g[k] \notin T}
<1>. SUFFICES ASSUME Bad # {} PROVE FALSE
  OBVIOUS
<1>1. Bad \in SUBSET Nat
  OBVIOUS
<1>2. PICK m \in Bad : \A k \in Bad : m <= k
  BY <1>1, LeastOf
<1>3. m # 0 /\ m \in 1 .. N /\ g[m] \notin T
  OBVIOUS
<1>4. m - 1 \in 0 .. N /\ m - 1 \notin Bad
  BY <1>2, <1>3
<1>. QED
  BY <1>3, <1>4

Iterable(N, T, base, by) ==
  \E g \in [0 .. N -> T] : g[0] = base /\ \A k \in 1 .. N : g[k] = by[k][g[k - 1]]

LEMMA Iterates ==
  ASSUME NEW N \in Nat, NEW T, NEW base \in T, NEW by \in [1 .. N -> [T -> T]]
  PROVE  Iterable(N, T, base, by)
<1>. DEFINE Good(n) == Iterable(n, T, base, by)
            Bad == {n \in 0 .. N : ~Good(n)}
<1>. SUFFICES ASSUME Bad # {} PROVE FALSE
  <2>1. N \in 0 .. N
    OBVIOUS
  <2>. QED
    BY <2>1
<1>1. Bad \in SUBSET Nat
  OBVIOUS
<1>2. PICK m \in Bad : \A k \in Bad : m <= k
  <2>. HIDE DEF Bad
  <2>. QED
    BY <1>1, LeastOf
<1>. USE DEF Iterable
<1>3. Good(0)
  <2>. DEFINE g == [k \in 0 .. 0 |-> base]
  <2>1. g \in [0 .. 0 -> T] /\ g[0] = base
    OBVIOUS
  <2>2. \A k \in 1 .. 0 : g[k] = by[k][g[k - 1]]
    OBVIOUS
  <2>. QED
    BY <2>1, <2>2
<1>4. m \in 0 .. N /\ ~Good(m)
  OBVIOUS
<1>5. m \in 1 .. N /\ m - 1 \in 0 .. N
  <2>. HIDE DEF Good, Bad
  <2>1. m # 0
    BY <1>3, <1>4
  <2>. QED
    BY <1>4, <2>1
<1>6. Good(m - 1)
  <2>. HIDE DEF Good
  <2>1. m - 1 \notin Bad
    <3>. HIDE DEF Bad
    <3>. QED
      BY <1>2, <1>4, <1>5
  <2>. QED
    BY <1>5, <2>1
<1>7. PICK g \in [0 .. m - 1 -> T] : g[0] = base /\ \A k \in 1 .. m - 1 : g[k] = by[k][g[k - 1]]
  BY <1>6
<1>. DEFINE h == [k \in 0 .. m |-> IF k = m THEN by[m][g[m - 1]] ELSE g[k]]
<1>8. g[m - 1] \in T /\ by[m][g[m - 1]] \in T
  <2>1. g[m - 1] \in T
    BY <1>5
  <2>2. by[m] \in [T -> T]
    BY <1>5, <2>1
  <2>. QED
    BY <2>1, <2>2
<1>9. h \in [0 .. m -> T]
  BY <1>5, <1>8
<1>10. h[0] = base /\ \A k \in 1 .. m : h[k] = by[k][h[k - 1]]
  <2>1. h[0] = base
    BY <1>5, <1>7
  <2>2. ASSUME NEW k \in 1 .. m PROVE h[k] = by[k][h[k - 1]]
    <3>1. k - 1 \in 0 .. m /\ k - 1 # m /\ h[k - 1] = g[k - 1]
      BY <1>5, <2>2
    <3>2. CASE k = m
      BY <1>5, <3>1, <3>2
    <3>3. CASE k # m
      <4>1. k \in 1 .. m - 1 /\ h[k] = g[k]
        BY <1>5, <3>3
      <4>. QED
        BY <1>7, <3>1, <4>1
    <3>. QED
      BY <3>2, <3>3
  <2>. QED
    BY <2>1, <2>2
<1>. QED
  BY <1>4, <1>9, <1>10

-----------------------------------------------------------------------------
(* The collapse detector of a run.                                          *)

Maps == UNION {[S -> Families] : S \in SUBSET PoolIds}
Reading == [round : 1 .. LastRound, n : Nat, labels : SUBSET Families, hhi : 0 .. 1000, labelled : Nat]
RoundStates ==
  [round : 1 .. LastRound + 1, map : Maps, seen : SUBSET PoolIds,
   step : {"generate", "cluster", "clustered", "collapse", "decide", "fired"}]
MarkStates == [done : BOOLEAN, failed : BOOLEAN, seen : SUBSET PoolIds, map : Maps, graft : BOOLEAN]

DetectorTypes ==
  /\ pool \in [PoolIds -> Labelling \cup {"unborn", "archived"}]
  /\ roundAt \in RoundStates /\ (roundAt.step # "generate" => roundAt.round <= LastRound)
  /\ clusterMark \in MarkStates /\ readings \in Seq(Reading)
  /\ lastFired \in 0 .. LastRound /\ diverseFaults \in 0 .. MaxDiverseFaults
  /\ \A f \in fires : f.round \in 1 .. LastRound

\* Ideas are numbered as they are made, and the oldest of the pool was there
\* when anybody last looked.
NumberedInTurn == \E b \in 0 .. Cardinality(PoolIds) : Known = 1 .. b
Oldest == {i \in LivePool : \A j \in LivePool : i <= j}
SawOldest(ids) == ids # {} => LivePool # {} /\ Oldest \subseteq ids
OldestSeen == SawOldest(clusterMark.seen) /\ SawOldest(roundAt.seen)

NoMapUnasked == ~clusterMark.done => DOMAIN clusterMark.map = {}

ReadUpToNow == \A k \in DOMAIN readings : readings[k].round <= roundAt.round

\* The reading of the round is that of the mark's map.
Fits ==
  (DOMAIN clusterMark.map # {} /\ DOMAIN clusterMark.map \subseteq clusterMark.seen) =>
    \E k \in DOMAIN readings :
      /\ readings[k].round = roundAt.round /\ readings[k].n = Cardinality(clusterMark.seen)
      /\ readings[k].labels = {clusterMark.map[i] : i \in DOMAIN clusterMark.map}

ReadBeforeDecided ==
  /\ roundAt.step \in {"decide", "fired"} => ~clusterMark.graft /\ ~clusterMark.failed /\ Fits
  /\ clusterMark.graft /\ ~clusterMark.failed => Fits

DetectorInv ==
  /\ DetectorTypes /\ NumberedInTurn /\ OldestSeen /\ NoMapUnasked /\ ReadUpToNow /\ ReadBeforeDecided
  /\ ReadingsInOrder /\ FiresCooled

-----------------------------------------------------------------------------
(* The history without one round. *)

LEMMA OthersBy ==
  ASSUME readings \in Seq(Reading), NEW r
  PROVE  \E g \in [0 .. Len(readings) -> Seq(Reading)] :
           /\ g[0] = <<>>
           /\ \A k \in 1 .. Len(readings) :
                g[k] = IF readings[k].round = r THEN g[k - 1] ELSE Append(g[k - 1], readings[k])
           /\ OtherRounds(r) = g[Len(readings)]
<1>. DEFINE T == Seq(Reading)
            c == Len(readings)
            upto[k \in 0 .. c] ==
              IF k = 0 THEN <<>>
              ELSE IF readings[k].round = r THEN upto[k - 1] ELSE Append(upto[k - 1], readings[k])
            by == [k \in 1 .. c |-> [q \in T |-> IF readings[k].round = r THEN q ELSE Append(q, readings[k])]]
<1>0. c \in Nat /\ \A k \in 1 .. c : readings[k] \in Reading
  OBVIOUS
<1>1. <<>> \in T
  OBVIOUS
<1>2. OtherRounds(r) = upto[c]
  BY DEF OtherRounds
<1>3. \A k \in 1 .. c : \A q \in T : (IF readings[k].round = r THEN q ELSE Append(q, readings[k])) \in T
  BY <1>0
<1>4. by \in [1 .. c -> [T -> T]]
  <2>. HIDE DEF T, c
  <2>. QED
    BY <1>3
<1>5. Iterable(c, T, <<>>, by)
  <2>. HIDE DEF T, by, c
  <2>. QED
    BY <1>0, <1>1, <1>4, Iterates
<1>6. PICK g \in [0 .. c -> T] : g[0] = <<>> /\ \A k \in 1 .. c : g[k] = by[k][g[k - 1]]
  <2>. HIDE DEF T, by, c
  <2>. QED
    BY <1>5 DEF Iterable
<1>7. \A k \in 1 .. c : g[k] = IF readings[k].round = r THEN g[k - 1] ELSE Append(g[k - 1], readings[k])
  <2>. SUFFICES ASSUME NEW k \in 1 .. c
                PROVE  g[k] = IF readings[k].round = r THEN g[k - 1] ELSE Append(g[k - 1], readings[k])
    OBVIOUS
  <2>1. g[k - 1] \in T
    <3>. HIDE DEF T, c
    <3>1. k - 1 \in 0 .. c
      BY <1>0
    <3>. QED
      BY <3>1
  <2>2. g[k] = by[k][g[k - 1]]
    BY <1>6
  <2>. HIDE DEF T, c
  <2>. QED
    BY <2>1, <2>2
<1>8. g = [k \in 0 .. c |->
             IF k = 0 THEN <<>>
             ELSE IF readings[k].round = r THEN g[k - 1] ELSE Append(g[k - 1], readings[k])]
  <2>. HIDE DEF T, by, c
  <2>1. g = [k \in 0 .. c |-> g[k]]
    OBVIOUS
  <2>2. \A k \in 0 .. c : k = 0 \/ k \in 1 .. c
    BY <1>0
  <2>3. \A k \in 0 .. c :
          g[k] = IF k = 0 THEN <<>>
                 ELSE IF readings[k].round = r THEN g[k - 1] ELSE Append(g[k - 1], readings[k])
    BY <1>6, <1>7, <2>2
  <2>. HIDE <1>6, <1>7
  <2>. QED
    BY <2>1, <2>3
<1>9. upto = [k \in 0 .. c |->
                IF k = 0 THEN <<>>
                ELSE IF readings[k].round = r THEN upto[k - 1] ELSE Append(upto[k - 1], readings[k])]
  <2>. HIDE DEF T, by, c
  <2>. QED
    BY <1>8
<1>. HIDE DEF upto, T, by, c
<1>. DEFINE h == upto
<1>10. h[0] = <<>> /\ \A k \in 1 .. c :
         h[k] = IF readings[k].round = r THEN h[k - 1] ELSE Append(h[k - 1], readings[k])
  <2>1. \A k \in 0 .. c :
          upto[k] = IF k = 0 THEN <<>>
                    ELSE IF readings[k].round = r THEN upto[k - 1] ELSE Append(upto[k - 1], readings[k])
    BY <1>9, Zenon
  <2>2. 0 \in 0 .. c /\ \A k \in 1 .. c : k \in 0 .. c /\ k # 0
    BY <1>0
  <2>. QED
    BY <2>1, <2>2
<1>11. \A k \in 0 .. c : h[k] \in T
  <2>1. \A k \in 1 .. c : h[k - 1] \in T => h[k] \in T
    BY <1>3, <1>10
  <2>2. h[0] \in T
    BY <1>1, <1>10
  <2>. HIDE DEF h
  <2>. QED
    BY <1>0, <2>1, <2>2, Climb
<1>12. h \in [0 .. c -> T]
  BY <1>9, <1>11
<1>. QED
  BY <1>2, <1>10, <1>12 DEF T, c

(* What is kept is in the order of rounds and is what the history holds. *)
DrawnFrom(q, k, r) ==
  /\ \A i, j \in DOMAIN q : i < j => q[i].round < q[j].round
  /\ \A i \in DOMAIN q : \E m \in 1 .. k : q[i] = readings[m] /\ readings[m].round # r

LEMMA OthersAre ==
  ASSUME readings \in Seq(Reading), ReadingsInOrder, NEW r
  PROVE  OtherRounds(r) \in Seq(Reading) /\ DrawnFrom(OtherRounds(r), Len(readings), r)
<1>. DEFINE c == Len(readings)
<1>0. c \in Nat /\ DOMAIN readings = 1 .. c
  OBVIOUS
<1>1. PICK g \in [0 .. c -> Seq(Reading)] :
         /\ g[0] = <<>>
         /\ \A k \in 1 .. c :
              g[k] = IF readings[k].round = r THEN g[k - 1] ELSE Append(g[k - 1], readings[k])
         /\ OtherRounds(r) = g[c]
  BY OthersBy
<1>. DEFINE ok == [k \in 0 .. c |-> DrawnFrom(g[k], k, r)]
<1>. HIDE DEF c
<1>2. ok[0] \in {TRUE}
  <2>1. DrawnFrom(<<>>, 0, r)
    BY DEF DrawnFrom
  <2>2. ok[0] = DrawnFrom(g[0], 0, r)
    BY <1>0
  <2>. QED
    BY <1>1, <2>1, <2>2
<1>3. ASSUME NEW k \in 1 .. c, ok[k - 1] \in {TRUE} PROVE ok[k] \in {TRUE}
  <2>1. k \in 0 .. c /\ k - 1 \in 0 .. c
    BY <1>0
  <2>2. DrawnFrom(g[k - 1], k - 1, r)
    BY <1>3, <2>1
  <2>. DEFINE q == g[k - 1]
  <2>3. q \in Seq(Reading)
    BY <2>1
  <2>4. g[k] = IF readings[k].round = r THEN q ELSE Append(q, readings[k])
    BY <1>1
  <2>5. DrawnFrom(g[k], k, r)
    <3>1. CASE readings[k].round = r
      <4>1. g[k] = q
        BY <2>4, <3>1
      <4>2. 1 .. k - 1 \subseteq 1 .. k
        BY <1>0
      <4>. HIDE DEF q
      <4>3. DrawnFrom(q, k, r)
        BY <2>2, <4>2 DEF DrawnFrom, q
      <4>. QED
        BY <4>1, <4>3
    <3>2. CASE readings[k].round # r
      <4>1. g[k] = Append(q, readings[k])
        BY <2>4, <3>2
      <4>. DEFINE z == readings[k]
      <4>2. z \in Reading
        BY <1>0
      <4>3. \A i \in DOMAIN q : \E m \in 1 .. k - 1 : q[i] = readings[m] /\ readings[m].round # r
        BY <2>2 DEF DrawnFrom
      <4>4. \A m \in 1 .. k - 1 : readings[m].round < readings[k].round
        <5>1. \A m \in 1 .. k - 1 : m \in DOMAIN readings /\ m < k
          BY <1>0
        <5>2. k \in DOMAIN readings
          BY <1>0
        <5>. QED
          BY <5>1, <5>2 DEF ReadingsInOrder
      <4>5. \A i \in DOMAIN q : q[i].round < z.round
        BY <4>3, <4>4
      <4>6. \A i \in DOMAIN q : \E m \in 1 .. k : q[i] = readings[m] /\ readings[m].round # r
        <5>1. 1 .. k - 1 \subseteq 1 .. k
          BY <1>0
        <5>. QED
          BY <4>3, <5>1
      <4>7. \A i, j \in DOMAIN q : i < j => q[i].round < q[j].round
        BY <2>2 DEF DrawnFrom
      <4>8. z.round # r /\ k \in 1 .. k
        BY <1>0, <3>2
      <4>. HIDE DEF q
      <4>9. DOMAIN Append(q, z) = 1 .. Len(q) + 1 /\ DOMAIN q = 1 .. Len(q) /\ Len(q) \in Nat
        BY <2>3, <4>2
      <4>10. Append(q, z)[Len(q) + 1] = z /\ \A i \in 1 .. Len(q) : Append(q, z)[i] = q[i]
        BY <2>3, <4>2
      <4>11. \A i \in DOMAIN Append(q, z) : i = Len(q) + 1 \/ i \in DOMAIN q
        BY <4>9
      <4>12. \A i \in DOMAIN Append(q, z) : \E m \in 1 .. k : Append(q, z)[i] = readings[m] /\ readings[m].round # r
        BY <4>6, <4>8, <4>9, <4>10, <4>11
      <4>13. \A i, j \in DOMAIN Append(q, z) : i < j => Append(q, z)[i].round < Append(q, z)[j].round
        <5>. SUFFICES ASSUME NEW i \in DOMAIN Append(q, z), NEW j \in DOMAIN Append(q, z), i < j
                      PROVE  Append(q, z)[i].round < Append(q, z)[j].round
          OBVIOUS
        <5>1. i \in DOMAIN q /\ Append(q, z)[i] = q[i]
          BY <4>9, <4>10
        <5>2. CASE j = Len(q) + 1
          BY <4>5, <4>10, <5>1, <5>2
        <5>3. CASE j \in DOMAIN q
          BY <4>7, <4>9, <4>10, <5>1, <5>3
        <5>. QED
          BY <4>11, <5>2, <5>3
      <4>. QED
        BY <4>1, <4>12, <4>13 DEF DrawnFrom
    <3>. QED
      BY <3>1, <3>2
  <2>. QED
    BY <2>1, <2>5
<1>4. \A k \in 0 .. c : ok[k] \in {TRUE}
  <2>. DEFINE Z == {TRUE}
  <2>. HIDE DEF ok
  <2>1. ok[0] \in Z /\ \A k \in 1 .. c : ok[k - 1] \in Z => ok[k] \in Z
    BY <1>2, <1>3
  <2>. HIDE DEF Z
  <2>2. \A k \in 0 .. c : ok[k] \in Z
    BY <1>0, <2>1, Climb
  <2>. QED
    BY <2>2 DEF Z
<1>5. DrawnFrom(g[c], c, r) /\ c \in 0 .. c
  <2>1. c \in 0 .. c
    BY <1>0
  <2>. QED
    BY <1>4, <2>1
<1>. QED
  BY <1>1, <1>5 DEF c

(* A reading taken of a round is filed among the others, in order. *)
Filed(q, s) ==
  /\ q \in Seq(Reading)
  /\ \A i, j \in DOMAIN q : i < j => q[i].round < q[j].round
  /\ \E i \in DOMAIN q : q[i] = s
  /\ \A i \in DOMAIN q : q[i] = s \/ \E m \in DOMAIN readings : q[i] = readings[m]

LEMMA KeyedIs ==
  ASSUME readings \in Seq(Reading), ReadingsInOrder, NEW s \in Reading,
         \A k \in DOMAIN readings : readings[k].round <= s.round
  PROVE  Filed(KeyedByRound(s), s)
<1>. DEFINE q == OtherRounds(s.round)
            all == Append(q, s)
            p == Sorting(all)
            D == DOMAIN all
<1>1. q \in Seq(Reading) /\ DrawnFrom(q, Len(readings), s.round)
  BY OthersAre
<1>2. DOMAIN readings = 1 .. Len(readings)
  OBVIOUS
<1>3. KeyedByRound(s) = [i \in D |-> all[p[i]]]
  BY DEF KeyedByRound
<1>. HIDE DEF q
<1>4. all \in Seq(Reading) /\ D = 1 .. Len(q) + 1 /\ DOMAIN q = 1 .. Len(q) /\ Len(q) \in Nat
  BY <1>1
<1>5. all[Len(q) + 1] = s /\ \A i \in 1 .. Len(q) : all[i] = q[i]
  BY <1>1
<1>. HIDE DEF all
<1>6. \A i \in 1 .. Len(q) : \E m \in DOMAIN readings : all[i] = readings[m] /\ readings[m].round # s.round
  BY <1>1, <1>2, <1>4, <1>5 DEF DrawnFrom
<1>7. \A i \in 1 .. Len(q) : all[i].round < s.round
  <2>. SUFFICES ASSUME NEW i \in 1 .. Len(q) PROVE all[i].round < s.round
    OBVIOUS
  <2>1. PICK m \in DOMAIN readings : all[i] = readings[m] /\ readings[m].round # s.round
    BY <1>6
  <2>2. readings[m] \in Reading
    OBVIOUS
  <2>3. readings[m].round \in Int /\ s.round \in Int /\ readings[m].round <= s.round
    BY <2>2 DEF Reading
  <2>. QED
    BY <2>1, <2>3
<1>8. \A i, j \in D : i < j => all[i].round < all[j].round
  <2>. SUFFICES ASSUME NEW i \in D, NEW j \in D, i < j PROVE all[i].round < all[j].round
    OBVIOUS
  <2>1. i \in 1 .. Len(q)
    BY <1>4
  <2>2. CASE j = Len(q) + 1
    BY <1>5, <1>7, <2>1, <2>2
  <2>3. CASE j \in 1 .. Len(q)
    BY <1>1, <1>4, <1>5, <2>1, <2>3 DEF DrawnFrom
  <2>. QED
    BY <1>4, <2>2, <2>3
<1>9. \A i \in D : all[i] \in Reading /\ all[i].round \in Int
  <2>1. \A i \in D : all[i] \in Reading
    BY <1>4
  <2>2. \A x \in Reading : x.round \in Int
    BY DEF Reading
  <2>. QED
    BY <2>1, <2>2
<1>10. p \in Bijection(D, D) /\ \A i, j \in D : i < j => all[p[i]].round <= all[p[j]].round
  <2>. DEFINE e == [i \in D |-> i]
  <2>1. e \in Bijection(D, D)
    BY DEF Bijection, Injection, Surjection, IsInjective
  <2>2. \A i, j \in D : i < j => all[e[i]].round <= all[e[j]].round
    BY <1>8, <1>9
  <2>3. \E f \in Bijection(D, D) : \A i, j \in D : i < j => all[f[i]].round <= all[f[j]].round
    <3>. HIDE DEF e, D
    <3>. QED
      BY <2>1, <2>2
  <2>. QED
    BY <2>3 DEF Sorting
<1>. HIDE DEF p
<1>11. p \in [D -> D] /\ (\A i, j \in D : i # j => p[i] # p[j]) /\ \A i \in D : \E j \in D : p[j] = i
  BY <1>10 DEF Bijection, Injection, Surjection, IsInjective
<1>. DEFINE f == [i \in D |-> all[p[i]]]
<1>12. f \in Seq(Reading) /\ DOMAIN f = D
  <2>1. f \in [1 .. Len(q) + 1 -> Reading]
    BY <1>4, <1>9, <1>11
  <2>2. Len(q) + 1 \in Nat
    BY <1>4
  <2>. HIDE DEF f
  <2>. QED
    BY <1>4, <2>1, <2>2, FunctionIsSeq
<1>13. \A i, j \in D : i < j => f[i].round < f[j].round
  <2>. SUFFICES ASSUME NEW i \in D, NEW j \in D, i < j PROVE f[i].round < f[j].round
    OBVIOUS
  <2>1. p[i] \in D /\ p[j] \in D /\ i # j
    <3>1. i \in Int /\ j \in Int
      BY <1>4
    <3>. QED
      BY <1>11, <3>1
  <2>2. p[i] # p[j]
    BY <1>11, <2>1
  <2>3. all[p[i]].round <= all[p[j]].round
    BY <1>10
  <2>4. p[i] < p[j] \/ p[j] < p[i]
    BY <1>4, <2>1, <2>2
  <2>5. all[p[i]].round # all[p[j]].round
    BY <1>8, <1>9, <2>1, <2>4
  <2>. QED
    BY <1>9, <2>1, <2>3, <2>5
<1>14. \E i \in D : f[i] = s
  <2>1. Len(q) + 1 \in D
    BY <1>4
  <2>. QED
    BY <1>5, <1>11, <2>1
<1>15. \A i \in D : f[i] = s \/ \E m \in DOMAIN readings : f[i] = readings[m]
  <2>. SUFFICES ASSUME NEW i \in D PROVE f[i] = s \/ \E m \in DOMAIN readings : f[i] = readings[m]
    OBVIOUS
  <2>1. p[i] \in D /\ f[i] = all[p[i]]
    BY <1>11
  <2>2. p[i] = Len(q) + 1 \/ p[i] \in 1 .. Len(q)
    BY <1>4, <2>1
  <2>. HIDE DEF f
  <2>. QED
    BY <1>5, <1>6, <2>1, <2>2
<1>. HIDE DEF f
<1>16. Filed(f, s)
  BY <1>12, <1>13, <1>14, <1>15 DEF Filed
<1>. QED
  BY <1>3, <1>16 DEF f

-----------------------------------------------------------------------------
(* What the rounded fractions leave of the numbers. *)

LEMMA ThousandthsAre ==
  ASSUME NEW a \in Nat, NEW b \in Nat \ {0}
  PROVE  /\ Thousandths(a, b) \in Nat
         /\ 2 * b * Thousandths(a, b) <= 2000 * a + b
         /\ 2000 * a + b < 2 * b * Thousandths(a, b) + 2 * b
<1>. DEFINE x == 2000 * a + b
            d == 2 * b
            t == x \div d
<1>1. x \in Nat /\ d \in Nat \ {0}
  OBVIOUS
<1>2. Thousandths(a, b) = t
  BY DEF Thousandths
<1>3. t \in Nat /\ d * t <= x /\ x < d * t + d
  <2>. HIDE DEF x, d
  <2>. QED
    BY <1>1
<1>. QED
  BY <1>2, <1>3

LEMMA Scaled ==
  ASSUME NEW b \in Nat \ {0}, NEW t \in Nat, NEW k \in Nat
  PROVE  /\ t >= k => b * t >= k * b
         /\ b * t \in Nat
OBVIOUS

Proper(a, b) == a \in Nat /\ b \in Nat \ {0} /\ a <= b

LEMMA FractionBounded ==
  ASSUME NEW a, NEW b, Proper(a, b)
  PROVE  Thousandths(a, b) \in 0 .. 1000
<1>0. a \in Nat /\ b \in Nat \ {0} /\ a <= b
  BY DEF Proper
<1>. DEFINE t == Thousandths(a, b)
            y == b * t
<1>1. t \in Nat /\ 2 * b * t <= 2000 * a + b
  BY <1>0, ThousandthsAre
<1>2. 2 * b * t = 2 * y /\ y \in Nat
  BY <1>0, <1>1
<1>3. t >= 1001 => y >= 1001 * b
  BY <1>0, <1>1, Scaled
<1>. HIDE DEF t
<1>4. 2 * y <= 2000 * a + b
  BY <1>1, <1>2
<1>. HIDE DEF y
<1>5. ~(t >= 1001)
  BY <1>0, <1>2, <1>3, <1>4
<1>6. t \in 0 .. 1000
  BY <1>1, <1>5
<1>. QED
  BY <1>6 DEF t

LEMMA FractionAtLeast ==
  ASSUME NEW a \in Nat, NEW b \in Nat \ {0}, NEW k \in Nat, Thousandths(a, b) >= k
  PROVE  2 * k * b <= 2000 * a + b
<1>. DEFINE t == Thousandths(a, b)
            y == b * t
            z == k * b
<1>1. t \in Nat /\ 2 * b * t <= 2000 * a + b
  BY ThousandthsAre
<1>2. 2 * b * t = 2 * y /\ y \in Nat
  BY <1>1
<1>3. y >= z /\ z \in Nat /\ 2 * k * b = 2 * z
  BY <1>1, Scaled
<1>4. 2 * y <= 2000 * a + b
  BY <1>1, <1>2
<1>. HIDE DEF y, z, t
<1>. QED
  BY <1>2, <1>3, <1>4

(* Rows of at most q each. *)
LEMMA SmallRows ==
  ASSUME NEW S, IsFiniteSet(S), NEW P \in SUBSET (S \X S), NEW q \in Nat,
         \A i \in S : Cardinality({j \in S : <<i, j>> \in P}) <= q
  PROVE  IsFiniteSet(P) /\ Cardinality(P) \in Nat /\ Cardinality(P) <= Cardinality(S) * q
<1>. DEFINE across(i) == {j \in S : <<i, j>> \in P}
            T == S \X (1 .. q)
<1>1. IsFiniteSet(P) /\ Cardinality(P) \in Nat
  BY FS_Product, FS_Subset, FS_CardinalityType
<1>2. ASSUME NEW i \in S PROVE \E f \in [across(i) -> 1 .. q] : \A j, k \in across(i) : f[j] = f[k] => j = k
  <2>. DEFINE R == across(i)
              c == Cardinality(R)
  <2>1. IsFiniteSet(R)
    BY FS_Subset
  <2>2. c \in Nat /\ c <= q
    BY <2>1, FS_CardinalityType
  <2>3. IsFiniteSet(1 .. c) /\ Cardinality(1 .. c) = c
    BY <2>2, FS_Interval
  <2>4. ExistsBijection(R, 1 .. c)
    <3>. HIDE DEF R
    <3>. QED
      BY <2>1, <2>3, FS_SameCardinalityBij DEF c
  <2>. HIDE DEF R, c
  <2>5. PICK f \in Bijection(R, 1 .. c) : TRUE
    BY <2>4 DEF ExistsBijection
  <2>6. f \in [R -> 1 .. c] /\ \A j, k \in R : f[j] = f[k] => j = k
    BY <2>5 DEF Bijection, Injection, IsInjective
  <2>7. 1 .. c \subseteq 1 .. q
    BY <2>2
  <2>8. f \in [R -> 1 .. q]
    BY <2>6, <2>7
  <2>. QED
    BY <2>6, <2>8 DEF R
<1>. DEFINE places == [i \in S |-> CHOOSE f \in [across(i) -> 1 .. q] : \A j, k \in across(i) : f[j] = f[k] => j = k]
<1>3. \A i \in S : places[i] \in [across(i) -> 1 .. q] /\ \A j, k \in across(i) : places[i][j] = places[i][k] => j = k
  <2>. HIDE DEF across
  <2>. QED
    BY <1>2
<1>. HIDE DEF places
<1>. DEFINE g == [p \in P |-> <<p[1], places[p[1]][p[2]]>>]
<1>4. \A p \in P : p[1] \in S /\ p[2] \in across(p[1]) /\ p = <<p[1], p[2]>>
  OBVIOUS
<1>. HIDE DEF across
<1>5. \A p \in P : places[p[1]][p[2]] \in 1 .. q
  BY <1>3, <1>4
<1>6. g \in [P -> T]
  BY <1>4, <1>5
<1>7. ASSUME NEW p \in P, NEW r \in P, g[p] = g[r] PROVE p = r
  <2>1. p[1] = r[1] /\ places[p[1]][p[2]] = places[r[1]][r[2]]
    BY <1>7
  <2>2. p[2] = r[2]
    BY <1>3, <1>4, <2>1
  <2>. QED
    BY <1>4, <2>1, <2>2
<1>8. g \in Injection(P, T)
  <2>. HIDE DEF g, T
  <2>. QED
    BY <1>6, <1>7 DEF Injection, IsInjective
<1>9. IsFiniteSet(T) /\ Cardinality(T) = Cardinality(S) * q
  <2>1. IsFiniteSet(1 .. q) /\ Cardinality(1 .. q) = q
    BY FS_Interval
  <2>. QED
    BY <2>1, FS_Product
<1>10. Cardinality(P) <= Cardinality(T)
  <2>. HIDE DEF g, T
  <2>. QED
    BY <1>8, <1>9, FS_Injection
<1>. QED
  BY <1>1, <1>9, <1>10

LEMMA SquareIs ==
  ASSUME NEW n \in Nat, n # 0
  PROVE  n * n \in Nat \ {0}
OBVIOUS

LEMMA HerfindahlBounded ==
  ASSUME NEW ids \in SUBSET PoolIds, NEW map
  PROVE  IsFiniteSet(ids) /\ Cardinality(ids) \in Nat /\ Herfindahl(map, ids) \in 0 .. 1000
<1>. DEFINE n == Cardinality(ids)
            P == SharedPairs(map, ids)
<1>1. IsFiniteSet(ids) /\ n \in Nat
  BY DiversityAssumption, FS_Subset, FS_CardinalityType
<1>2. P \in SUBSET (ids \X ids)
  BY DEF SharedPairs
<1>3. Herfindahl(map, ids) \in 0 .. 1000
  <2>1. CASE ids = {}
    BY <2>1 DEF Herfindahl
  <2>2. CASE ids # {}
    <3>1. n # 0
      BY <1>1, <2>2, FS_EmptySet
    <3>2. n * n \in Nat \ {0}
      BY <1>1, <3>1, SquareIs
    <3>3. Cardinality(P) \in Nat /\ Cardinality(P) <= n * n
      <4>1. IsFiniteSet(ids \X ids) /\ Cardinality(ids \X ids) = n * n
        BY <1>1, FS_Product
      <4>. HIDE DEF P, n
      <4>. QED
        BY <1>2, <4>1, FS_Subset, FS_CardinalityType
    <3>4. Herfindahl(map, ids) = Thousandths(Cardinality(P), n * n)
      BY <2>2 DEF Herfindahl
    <3>. DEFINE b == n * n
                a == Cardinality(P)
    <3>. HIDE DEF P, n, b, a
    <3>5. Proper(a, b)
      BY <3>2, <3>3 DEF Proper, a, b
    <3>6. Thousandths(a, b) \in 0 .. 1000
      BY <3>5, FractionBounded
    <3>. QED
      BY <3>4, <3>6 DEF a, b
  <2>. QED
    BY <2>1, <2>2
<1>. QED
  BY <1>1, <1>3

(* No family larger than q, no more pairs than q to an idea. *)
LEMMA FewPairs ==
  ASSUME NEW ids \in SUBSET PoolIds, NEW map, \A i \in ids : map[i] \in Labelling,
         NEW q \in Nat, \A l \in Families : Held(map, ids, l) <= q
  PROVE  Cardinality(SharedPairs(map, ids)) \in Nat /\ Cardinality(SharedPairs(map, ids)) <= Cardinality(ids) * q
<1>. DEFINE P == SharedPairs(map, ids)
<1>1. IsFiniteSet(ids)
  BY DiversityAssumption, FS_Subset
<1>2. P \in SUBSET (ids \X ids)
  BY DEF SharedPairs
<1>3. ASSUME NEW i \in ids PROVE Cardinality({j \in ids : <<i, j>> \in P}) <= q
  <2>. DEFINE R == {j \in ids : <<i, j>> \in P}
  <2>1. CASE map[i] = Unlabelled
    <3>1. R = {}
      BY <2>1 DEF SharedPairs
    <3>2. Cardinality(R) = 0
      BY <3>1, FS_EmptySet
    <3>. HIDE DEF R
    <3>. QED
      BY <3>2 DEF R
  <2>2. CASE map[i] # Unlabelled
    <3>1. map[i] \in Families
      BY <2>2 DEF Labelling
    <3>2. R = {j \in ids : map[j] = map[i]}
      BY <2>2 DEF SharedPairs
    <3>. HIDE DEF R
    <3>. QED
      BY <3>1, <3>2 DEF Held, R
  <2>. QED
    BY <2>1, <2>2
<1>. HIDE DEF P
<1>. QED
  BY <1>1, <1>2, <1>3, SmallRows DEF P

LEMMA HalfOf ==
  ASSUME NEW n \in Nat, n # 0, n < 1000, NEW q \in Nat, 2 * q <= n - 1, NEW P \in Nat, P <= n * q,
         999 * (n * n) <= 2000 * P
  PROVE  FALSE
<1>. DEFINE s == n * n
            m == n * q
<1>1. s \in Nat /\ m \in Nat /\ s >= 1
  OBVIOUS
<1>2. 2 * m <= s - n
  <2>1. n * (2 * q) <= n * (n - 1)
    OBVIOUS
  <2>2. n * (2 * q) = 2 * m /\ n * (n - 1) = s - n
    OBVIOUS
  <2>. QED
    BY <2>1, <2>2
<1>3. s < 1000 * n
  OBVIOUS
<1>. HIDE DEF s, m
<1>4. P <= m /\ 999 * s <= 2000 * P
  BY DEF s, m
<1>. QED
  BY <1>1, <1>2, <1>3, <1>4

(* A pool read at one half is half one family's. *)
LEMMA OneFamily ==
  ASSUME NEW ids \in SUBSET PoolIds, ids # {}, NEW map, \A i \in ids : map[i] \in Labelling,
         Herfindahl(map, ids) >= 500, Cardinality(PoolIds) < 1000
  PROVE  \E l \in Families : 2 * Held(map, ids, l) >= Cardinality(ids)
<1>. DEFINE n == Cardinality(ids)
            P == SharedPairs(map, ids)
            q == (n - 1) \div 2
<1>1. n \in Nat /\ n # 0 /\ n < 1000 /\ IsFiniteSet(ids)
  BY DiversityAssumption, FS_Subset, FS_CardinalityType, FS_EmptySet
<1>2. q \in Nat /\ 2 * q <= n - 1 /\ n - 1 < 2 * q + 2
  <2>. HIDE DEF n
  <2>. QED
    BY <1>1
<1>. SUFFICES ASSUME \A l \in Families : ~(2 * Held(map, ids, l) >= n) PROVE FALSE
  OBVIOUS
<1>3. ASSUME NEW l \in Families PROVE Held(map, ids, l) <= q
  <2>1. Held(map, ids, l) \in Nat
    <3>. DEFINE R == {i \in ids : map[i] = l}
    <3>1. IsFiniteSet(R)
      BY <1>1, FS_Subset
    <3>. HIDE DEF R
    <3>. QED
      BY <3>1, FS_CardinalityType DEF Held, R
  <2>2. ~(2 * Held(map, ids, l) >= n)
    BY <1>3
  <2>. DEFINE h == Held(map, ids, l)
  <2>. HIDE DEF n, q, h
  <2>. QED
    BY <1>1, <1>2, <2>1, <2>2 DEF h
<1>4. Cardinality(P) \in Nat /\ Cardinality(P) <= n * q
  <2>. HIDE DEF q
  <2>. QED
    BY <1>2, <1>3, FewPairs
<1>5. n * n \in Nat \ {0}
  BY <1>1, SquareIs
<1>6. 999 * (n * n) <= 2000 * Cardinality(P)
  <2>1. Thousandths(Cardinality(P), n * n) >= 500
    BY DEF Herfindahl
  <2>. DEFINE b == n * n
              a == Cardinality(P)
  <2>. HIDE DEF n, P
  <2>2. 2 * 500 * b <= 2000 * a + b
    BY <1>4, <1>5, <2>1, FractionAtLeast
  <2>3. a \in Nat /\ b \in Nat
    BY <1>4, <1>5
  <2>. HIDE DEF a, b
  <2>4. 999 * b <= 2000 * a
    BY <2>2, <2>3
  <2>. QED
    BY <2>4 DEF a, b
<1>. HIDE DEF n, P, q
<1>. QED
  BY <1>1, <1>2, <1>4, <1>6, HalfOf

(* Three in four have a label. *)
LEMMA MostLabelled ==
  ASSUME NEW ids \in SUBSET PoolIds, ids # {}, NEW map, \A i \in ids : map[i] \in Labelling, NEW r,
         Coverage(Snapshot(r, map, ids)) >= 750, Cardinality(PoolIds) < 500
  PROVE  4 * Held(map, ids, Unlabelled) <= Cardinality(ids)
<1>. DEFINE n == Cardinality(ids)
            B == {i \in ids : map[i] = Unlabelled}
            L == {i \in ids : map[i] # Unlabelled}
<1>1. n \in Nat \ {0} /\ n < 500 /\ IsFiniteSet(ids)
  BY DiversityAssumption, FS_Subset, FS_CardinalityType, FS_EmptySet
<1>2. IsFiniteSet(B) /\ IsFiniteSet(L)
  BY <1>1, FS_Subset
<1>3. B \cup L = ids /\ B \cap L = {}
  OBVIOUS
<1>4. Thousandths(Cardinality(L), n) >= 750
  BY <1>1 DEF Coverage, Snapshot
<1>5. Cardinality(B) = Held(map, ids, Unlabelled)
  BY DEF Held
<1>. HIDE DEF n, B, L
<1>6. Cardinality(B) \in Nat /\ Cardinality(L) \in Nat
  BY <1>2, FS_CardinalityType
<1>7. n = Cardinality(B) + Cardinality(L)
  <2>1. Cardinality(B \cup L) = Cardinality(B) + Cardinality(L) - Cardinality(B \cap L)
    BY <1>2, FS_Union
  <2>2. Cardinality(B \cap L) = 0
    BY <1>3, FS_EmptySet
  <2>3. Cardinality(B \cup L) = n
    BY <1>3 DEF n
  <2>. QED
    BY <1>1, <1>6, <2>1, <2>2, <2>3
<1>8. 2 * 750 * n <= 2000 * Cardinality(L) + n
  BY <1>1, <1>4, <1>6, FractionAtLeast
<1>. DEFINE bare == Cardinality(B)
            rest == Cardinality(L)
<1>. HIDE DEF bare, rest
<1>9. 4 * bare <= n
  BY <1>1, <1>6, <1>7, <1>8 DEF bare, rest
<1>. QED
  BY <1>5, <1>9 DEF bare, n

-----------------------------------------------------------------------------
(* What a reading says, and what a fire takes.                              *)

LEMMA LabelsApart ==
  /\ Unlabelled \notin Families /\ "unborn" \notin Labelling /\ "archived" \notin Labelling
  /\ Unlabelled \in Labelling /\ Families \subseteq Labelling
BY DiversityAssumption DEF Labelling, Unlabelled

AllLabelled(map, ids) == \A i \in ids : map[i] \in Labelling

LEMMA RoundsAreFinite ==
  IsFiniteSet(1 .. LastRound)
<1>1. LastRound \in Int /\ 1 \in Int
  BY DiversityAssumption
<1>. QED
  BY <1>1, FS_Interval

LEMMA PoolMeasured ==
  ASSUME DetectorTypes
  PROVE  MeasuredPool.ids \in SUBSET PoolIds /\ AllLabelled(MeasuredPool.map, MeasuredPool.ids)
<1>. USE DEF AllLabelled
<1>. DEFINE map == clusterMark.map
            seen == clusterMark.seen
<1>1. map \in Maps /\ seen \in SUBSET PoolIds
  BY DEF DetectorTypes, MarkStates
<1>2. DOMAIN map \in SUBSET PoolIds /\ \A i \in DOMAIN map : map[i] \in Families
  BY <1>1 DEF Maps
<1>3. CASE DOMAIN map = {}
  <2>1. MeasuredPool = [ids |-> LivePool, map |-> [i \in LivePool |-> pool[i]]]
    BY <1>3 DEF MeasuredPool
  <2>2. LivePool \subseteq PoolIds /\ \A i \in LivePool : pool[i] \in Labelling
    BY DEF LivePool
  <2>. QED
    BY <2>1, <2>2
<1>4. CASE DOMAIN map # {}
  <2>. DEFINE ids == IF seen = {} THEN DOMAIN map ELSE seen
              w == [i \in ids |-> IF i \in DOMAIN map THEN map[i] ELSE Unlabelled]
  <2>1. MeasuredPool = [ids |-> ids, map |-> w]
    BY <1>4 DEF MeasuredPool
  <2>2. ids \in SUBSET PoolIds
    BY <1>1, <1>2
  <2>3. \A i \in ids : w[i] \in Labelling
    BY <1>2, LabelsApart
  <2>. HIDE DEF ids, w
  <2>. QED
    BY <2>1, <2>2, <2>3
<1>. QED
  BY <1>3, <1>4

LEMMA SnapshotIs ==
  ASSUME NEW ids \in SUBSET PoolIds, NEW map, AllLabelled(map, ids), NEW r \in 1 .. LastRound
  PROVE  /\ Snapshot(r, map, ids) \in Reading
         /\ Snapshot(r, map, ids).round = r
         /\ Snapshot(r, map, ids).n = Cardinality(ids)
         /\ Snapshot(r, map, ids).labels = {map[i] : i \in ids} \ {Unlabelled}
         /\ Snapshot(r, map, ids).hhi = Herfindahl(map, ids)
<1>1. IsFiniteSet(ids) /\ Cardinality(ids) \in Nat /\ Herfindahl(map, ids) \in 0 .. 1000
  BY HerfindahlBounded
<1>2. {map[i] : i \in ids} \ {Unlabelled} \in SUBSET Families
  BY DEF Labelling, AllLabelled
<1>. DEFINE L == {i \in ids : map[i] # Unlabelled}
<1>3. Cardinality(L) \in Nat
  <2>1. IsFiniteSet(L)
    BY <1>1, FS_Subset
  <2>. HIDE DEF L
  <2>. QED
    BY <2>1, FS_CardinalityType
<1>. QED
  BY <1>1, <1>2, <1>3 DEF Snapshot, Reading

LEMMA ThreeNames ==
  /\ IsFiniteSet({"plateau", "concentration", "birthRate"})
  /\ Cardinality({"plateau", "concentration", "birthRate"}) = 3
<1>. DEFINE D == {"plateau", "concentration", "birthRate"}
            E == {"concentration"}
<1>3. IsFiniteSet(E) /\ Cardinality(E) = 1
  BY FS_Singleton
<1>4. IsFiniteSet(D) /\ Cardinality(D) = 3
  <2>1. D = (E \cup {"plateau"}) \cup {"birthRate"}
    OBVIOUS
  <2>2. IsFiniteSet(E \cup {"plateau"}) /\ Cardinality(E \cup {"plateau"}) = 2
    <3>1. "plateau" \notin E
      OBVIOUS
    <3>. HIDE DEF E
    <3>. QED
      BY <1>3, <3>1, OneMore, FS_AddElement
  <2>. DEFINE F == E \cup {"plateau"}
  <2>3. "birthRate" \notin F
    OBVIOUS
  <2>. HIDE DEF F
  <2>4. IsFiniteSet(F) /\ Cardinality(F) = 2
    BY <2>2 DEF F
  <2>5. IsFiniteSet(F \cup {"birthRate"}) /\ Cardinality(F \cup {"birthRate"}) = 3
    BY <2>3, <2>4, OneMore, FS_AddElement
  <2>. QED
    BY <2>1, <2>5 DEF F
<1>. QED
  BY <1>4

Three(a, b, c) == [plateau |-> a, concentration |-> b, birthRate |-> c]

LEMMA VotesAre ==
  ASSUME NEW a \in BOOLEAN, NEW b \in BOOLEAN, NEW c \in BOOLEAN
  PROVE  /\ Votes(Three(a, b, c)) >= 3 => a /\ b /\ c
         /\ Votes(Three(a, b, c)) >= 2 => a \/ c
<1>. DEFINE v == Three(a, b, c)
            S == {name \in DOMAIN v : v[name]}
            D == {"plateau", "concentration", "birthRate"}
            E == {"concentration"}
<1>1. DOMAIN v = D /\ v["plateau"] = a /\ v["concentration"] = b /\ v["birthRate"] = c
  BY DEF Three
<1>2. Votes(v) = Cardinality(S)
  BY DEF Votes
<1>3. IsFiniteSet(E) /\ Cardinality(E) = 1
  BY FS_Singleton
<1>4. IsFiniteSet(D) /\ Cardinality(D) = 3
  BY ThreeNames
<1>5. S \in SUBSET D
  BY <1>1
<1>. HIDE DEF v
<1>6. Cardinality(S) >= 3 => S = D
  <2>. HIDE DEF S, D
  <2>1. Cardinality(S) <= Cardinality(D) /\ Cardinality(S) \in Nat
    BY <1>4, <1>5, FS_Subset, FS_CardinalityType
  <2>2. Cardinality(D) = Cardinality(S) => D = S
    BY <1>4, <1>5, FS_Subset
  <2>. QED
    BY <1>4, <2>1, <2>2
<1>7. S \in SUBSET E => Cardinality(S) <= 1 /\ Cardinality(S) \in Nat
  <2>. HIDE DEF S, E
  <2>. QED
    BY <1>3, FS_Subset, FS_CardinalityType
<1>8. S = D => a /\ b /\ c
  BY <1>1
<1>9. ~a /\ ~c => S \in SUBSET E
  BY <1>1
<1>10. Votes(v) >= 3 => a /\ b /\ c
  <2>. HIDE DEF S, D, E
  <2>. QED
    BY <1>2, <1>6, <1>8
<1>11. Votes(v) >= 2 => a \/ c
  <2>. SUFFICES ASSUME ~a /\ ~c PROVE ~(Votes(v) >= 2)
    OBVIOUS
  <2>. HIDE DEF S, D, E
  <2>1. Cardinality(S) <= 1 /\ Cardinality(S) \in Nat
    BY <1>7, <1>9
  <2>. QED
    BY <1>2, <2>1
<1>. QED
  BY <1>10, <1>11 DEF v

LEMMA SignalsAre ==
  ASSUME NEW past \in Seq(Reading), NEW s \in Reading
  PROVE  \E a, c \in BOOLEAN :
           /\ CollapseSignals(past, s) = Three(a, s.hhi >= HhiThreshold, c)
           /\ a \/ c => Len(past) >= Window
<1>. DEFINE full == Append(past, s)
            lo == IF Len(full) > Window THEN Len(full) - Window ELSE 1
            window == SubSeq(full, lo, Len(full))
            counts == {Cardinality(window[k].labels) : k \in DOMAIN window}
            have == Len(window) > Window
            a == have /\ \A x, y \in counts : x - y <= Slack0
            c == have /\ Cardinality(s.labels \ window[1].labels) <= BirthRate
<1>1. CollapseSignals(past, s) = Three(a, s.hhi >= HhiThreshold, c)
  BY DEF CollapseSignals, Three
<1>2. full \in Seq(Reading) /\ Len(full) = Len(past) + 1 /\ Len(past) \in Nat
  OBVIOUS
<1>3. have => Len(past) >= Window
  <2>1. Window \in Nat \ {0}
    BY DiversityAssumption
  <2>. HIDE DEF full
  <2>2. lo \in 1 .. Len(full)
    BY <1>2, <2>1
  <2>3. Len(window) = Len(full) - lo + 1
    <3>. HIDE DEF lo
    <3>. QED
      BY <1>2, <2>2
  <2>. HIDE DEF lo, window
  <2>. QED
    BY <1>2, <2>1, <2>2, <2>3
<1>4. a \in BOOLEAN /\ c \in BOOLEAN /\ (a \/ c => have)
  <2>. HIDE DEF have, counts
  <2>. QED
    OBVIOUS
<1>. HIDE DEF a, c, have
<1>. QED
  BY <1>1, <1>3, <1>4

(* Every other round of the history is a round. *)
LEMMA BeforeAre ==
  ASSUME readings \in Seq(Reading), ReadingsInOrder, NEW r
  PROVE  Len(OtherRounds(r)) <= Cardinality({readings[k].round : k \in DOMAIN readings} \ {r})
<1>. DEFINE q == OtherRounds(r)
            X == {readings[k].round : k \in DOMAIN readings} \ {r}
            f == [i \in 1 .. Len(q) |-> q[i].round]
<1>1. q \in Seq(Reading) /\ DrawnFrom(q, Len(readings), r)
  BY OthersAre
<1>2. DOMAIN readings = 1 .. Len(readings)
  OBVIOUS
<1>. HIDE DEF q
<1>3. Len(q) \in Nat /\ DOMAIN q = 1 .. Len(q) /\ \A i \in 1 .. Len(q) : q[i] \in Reading
  BY <1>1
<1>4. \A x \in Reading : x.round \in 1 .. LastRound
  BY DEF Reading
<1>5. \A k \in DOMAIN readings : readings[k].round \in 1 .. LastRound
  BY <1>4
<1>6. f \in [1 .. Len(q) -> X]
  <2>1. \A i \in 1 .. Len(q) : q[i].round \in X
    BY <1>1, <1>2, <1>3 DEF DrawnFrom
  <2>. QED
    BY <2>1
<1>7. \A i, j \in 1 .. Len(q) : f[i] = f[j] => i = j
  <2>1. \A i, j \in 1 .. Len(q) : i < j => q[i].round < q[j].round
    BY <1>1, <1>3 DEF DrawnFrom
  <2>2. \A i \in 1 .. Len(q) : q[i].round \in Int
    BY <1>3, <1>4
  <2>. QED
    BY <1>3, <2>1, <2>2
<1>8. IsFiniteSet(X)
  <2>1. X \in SUBSET (1 .. LastRound)
    BY <1>5
  <2>2. IsFiniteSet(1 .. LastRound)
    BY RoundsAreFinite
  <2>. HIDE DEF X
  <2>. QED
    BY <2>1, <2>2, FS_Subset
<1>9. f \in Injection(1 .. Len(q), X)
  <2>. HIDE DEF X, f
  <2>. QED
    BY <1>6, <1>7 DEF Injection, IsInjective
<1>10. Cardinality(1 .. Len(q)) <= Cardinality(X)
  <2>. HIDE DEF X, f
  <2>. QED
    BY <1>8, <1>9, FS_Injection
<1>11. \A n \in Nat : Cardinality(1 .. n) = n
  BY FS_Interval
<1>. QED
  BY <1>3, <1>10, <1>11 DEF q

(* What sends the Cartographer. *)
LEMMA SentFor ==
  ASSUME DetectorInv, FireGraft
  PROVE  /\ roundAt.round \in 1 .. LastRound
         /\ lastFired = 0 \/ roundAt.round - lastFired > GraftCooldown
         /\ MeasuredPool.ids # {}
         /\ Coverage(Snapshot(roundAt.round, MeasuredPool.map, MeasuredPool.ids)) >= 750
         /\ QuorumK >= 2 => Len(Earlier) >= Window
         /\ QuorumK >= 3 => Herfindahl(MeasuredPool.map, MeasuredPool.ids) >= HhiThreshold
<1>. DEFINE ids == MeasuredPool.ids
            map == MeasuredPool.map
            r == roundAt.round
            s == Snapshot(r, map, ids)
            v == CollapseSignals(Earlier, s)
<1>1. ids \in SUBSET PoolIds /\ AllLabelled(map, ids)
  BY PoolMeasured DEF DetectorInv
<1>2. r \in 1 .. LastRound
  BY DEF DetectorInv, DetectorTypes, RoundStates, FireGraft
<1>3. Verdicts.s = s /\ Verdicts.v = v
  BY DEF Verdicts
<1>4. ShouldFireGraft(v, s, r)
  BY <1>3 DEF FireGraft
<1>5. Earlier \in Seq(Reading)
  BY OthersAre DEF DetectorInv, DetectorTypes, Earlier
<1>. HIDE DEF ids, map, r
<1>6. /\ s \in Reading /\ s.round = r /\ s.n = Cardinality(ids)
      /\ s.labels = {map[i] : i \in ids} \ {Unlabelled} /\ s.hhi = Herfindahl(map, ids)
  BY <1>1, <1>2, SnapshotIs
<1>. HIDE DEF s
<1>7. s.labels # {} /\ Coverage(s) >= 750 /\ Votes(v) >= QuorumK /\ (lastFired = 0 \/ r - lastFired > GraftCooldown)
  BY <1>4 DEF ShouldFireGraft, MinClusterCoverage
<1>8. PICK a, c \in BOOLEAN : v = Three(a, s.hhi >= HhiThreshold, c) /\ (a \/ c => Len(Earlier) >= Window)
  BY <1>5, <1>6, SignalsAre
<1>9. QuorumK \in Nat /\ Votes(v) \in Int
  <2>. DEFINE S == {name \in DOMAIN v : v[name]}
  <2>1. DOMAIN v = {"plateau", "concentration", "birthRate"}
    BY <1>8 DEF Three
  <2>2. IsFiniteSet({"plateau", "concentration", "birthRate"})
    BY ThreeNames
  <2>3. IsFiniteSet(S)
    BY <2>1, <2>2, FS_Subset
  <2>. HIDE DEF S, v
  <2>4. Cardinality(S) \in Nat
    BY <2>3, FS_CardinalityType
  <2>. QED
    BY <2>4, DiversityAssumption DEF Votes, S
<1>. DEFINE b == s.hhi >= HhiThreshold
<1>10. b \in BOOLEAN
  <2>1. s.hhi \in Int
    BY <1>6 DEF Reading
  <2>2. HhiThreshold \in Int
    BY DiversityAssumption
  <2>. QED
    BY <2>1
<1>11. v = Three(a, b, c)
  BY <1>8
<1>. HIDE DEF v, b
<1>12. Votes(v) >= 3 => a /\ b /\ c
  BY <1>10, <1>11, VotesAre
<1>13. Votes(v) >= 2 => a \/ c
  BY <1>10, <1>11, VotesAre
<1>14. QuorumK >= 2 => Len(Earlier) >= Window
  BY <1>7, <1>8, <1>9, <1>13
<1>15. QuorumK >= 3 => Herfindahl(map, ids) >= HhiThreshold
  BY <1>6, <1>7, <1>9, <1>12 DEF b
<1>16. ids # {}
  BY <1>6, <1>7
<1>. QED
  BY <1>2, <1>7, <1>14, <1>15, <1>16 DEF ids, map, r, s

Fire ==
  [round |-> roundAt.round, n |-> Cardinality(MeasuredPool.ids),
   held |-> {Held(MeasuredPool.map, MeasuredPool.ids, l) : l \in Families},
   bare |-> Held(MeasuredPool.map, MeasuredPool.ids, Unlabelled),
   before |-> Cardinality({readings[k].round : k \in DOMAIN readings} \ {roundAt.round})]

Grounded(f) == 4 * f.bare <= f.n /\ f.before >= Window
Collapsed(f) == \E h \in f.held : 2 * h >= f.n

LEMMA FireIs ==
  ASSUME DetectorInv, FireGraft, QuorumK >= 2, Cardinality(PoolIds) < 500
  PROVE  /\ fires' = fires \cup {Fire} /\ Grounded(Fire)
         /\ QuorumK >= 3 /\ HhiThreshold >= 500 => Collapsed(Fire)
<1>. DEFINE ids == MeasuredPool.ids
            map == MeasuredPool.map
            r == roundAt.round
            B == {readings[k].round : k \in DOMAIN readings} \ {r}
<1>1. ids \in SUBSET PoolIds /\ AllLabelled(map, ids)
  BY PoolMeasured DEF DetectorInv
<1>2. r \in 1 .. LastRound /\ ids # {} /\ Coverage(Snapshot(r, map, ids)) >= 750 /\ Len(Earlier) >= Window
  BY SentFor
<1>3. QuorumK >= 3 => Herfindahl(map, ids) >= HhiThreshold
  BY SentFor
<1>4. readings \in Seq(Reading) /\ ReadingsInOrder
  BY DEF DetectorInv, DetectorTypes
<1>5. fires' = fires \cup {Fire}
  BY DEF FireGraft, Fire
<1>6. Cardinality(PoolIds) \in Nat
  BY DiversityAssumption, FS_CardinalityType
<1>7. Fire.n = Cardinality(ids) /\ Fire.bare = Held(map, ids, Unlabelled) /\ Fire.before = Cardinality(B)
      /\ Fire.held = {Held(map, ids, l) : l \in Families}
  BY DEF Fire
<1>8. Cardinality(B) >= Window
  <2>1. Len(Earlier) <= Cardinality(B)
    BY <1>4, BeforeAre DEF Earlier
  <2>2. B \in SUBSET (1 .. LastRound)
    <3>1. \A k \in DOMAIN readings : readings[k] \in Reading
      BY <1>4
    <3>. QED
      BY <3>1 DEF Reading
  <2>3. IsFiniteSet(1 .. LastRound)
    BY RoundsAreFinite
  <2>. HIDE DEF B
  <2>4. Cardinality(B) \in Nat
    BY <2>2, <2>3, FS_Subset, FS_CardinalityType
  <2>5. Len(Earlier) \in Nat
    BY <1>4, OthersAre DEF Earlier
  <2>6. Window \in Nat
    BY DiversityAssumption
  <2>. QED
    BY <1>2, <2>1, <2>4, <2>5, <2>6
<1>. HIDE DEF ids, map, r, B
<1>9. 4 * Held(map, ids, Unlabelled) <= Cardinality(ids)
  BY <1>1, <1>2, MostLabelled DEF AllLabelled
<1>10. QuorumK >= 3 /\ HhiThreshold >= 500 => \E l \in Families : 2 * Held(map, ids, l) >= Cardinality(ids)
  <2>. SUFFICES ASSUME QuorumK >= 3, HhiThreshold >= 500
                PROVE  \E l \in Families : 2 * Held(map, ids, l) >= Cardinality(ids)
    OBVIOUS
  <2>1. IsFiniteSet(ids) /\ Cardinality(ids) \in Nat /\ Herfindahl(map, ids) \in 0 .. 1000
    BY <1>1, HerfindahlBounded
  <2>2. HhiThreshold \in Nat
    BY DiversityAssumption
  <2>3. Herfindahl(map, ids) >= 500
    BY <1>3, <2>1, <2>2
  <2>4. Cardinality(PoolIds) < 1000
    BY <1>6
  <2>. QED
    BY <1>1, <1>2, <2>3, <2>4, OneFamily DEF AllLabelled
<1>. QED
  BY <1>5, <1>7, <1>8, <1>9, <1>10 DEF Grounded, Collapsed

(* The reading a round takes is filed, and is that of the mark's map. *)
LEMMA FiledIs ==
  ASSUME DetectorInv, TakeReading
  PROVE  /\ Filed(readings', Snapshot(roundAt.round, MeasuredPool.map, MeasuredPool.ids))
         /\ Snapshot(roundAt.round, MeasuredPool.map, MeasuredPool.ids).round = roundAt.round
<1>. DEFINE r == roundAt.round
            s == Snapshot(r, MeasuredPool.map, MeasuredPool.ids)
<1>1. MeasuredPool.ids \in SUBSET PoolIds /\ AllLabelled(MeasuredPool.map, MeasuredPool.ids)
  BY PoolMeasured DEF DetectorInv
<1>2. r \in 1 .. LastRound
  BY DEF DetectorInv, DetectorTypes, RoundStates, TakeReading
<1>3. readings' = KeyedByRound(s)
  BY DEF TakeReading
<1>4. readings \in Seq(Reading) /\ ReadingsInOrder /\ \A k \in DOMAIN readings : readings[k].round <= r
  BY DEF DetectorInv, DetectorTypes, ReadUpToNow
<1>. HIDE DEF r
<1>5. s \in Reading /\ s.round = r
  BY <1>1, <1>2, SnapshotIs
<1>. HIDE DEF s
<1>6. Filed(KeyedByRound(s), s)
  BY <1>4, <1>5, KeyedIs
<1>. QED
  BY <1>3, <1>5, <1>6 DEF r, s

-----------------------------------------------------------------------------
(* A step keeps the invariant. *)

LEMMA OneOldest ==
  ASSUME LivePool # {}
  PROVE  \E m \in LivePool : Oldest = {m} /\ \A i \in LivePool : m <= i
<1>1. LivePool \in SUBSET Nat
  BY DiversityAssumption, FS_CardinalityType DEF LivePool
<1>2. PICK m \in LivePool : \A i \in LivePool : m <= i
  BY <1>1, LeastOf
<1>3. Oldest = {m}
  <2>. DEFINE L == LivePool
  <2>1. \A i \in L : i \in Int
    BY <1>1
  <2>2. Oldest = {i \in L : \A j \in L : i <= j}
    BY DEF Oldest
  <2>3. m \in L /\ \A i \in L : m <= i
    BY <1>2
  <2>. HIDE DEF L
  <2>. QED
    BY <2>1, <2>2, <2>3
<1>. QED
  BY <1>2, <1>3

(* The answer is applied: labels given, duplicates archived. *)
Applied(some, map) ==
  /\ pool' = [i \in PoolIds |->
       IF i \notin some THEN pool[i]
       ELSE IF \E j \in some : j < i /\ map[j] = map[i] THEN "archived" ELSE map[i]]
  /\ roundAt' = [roundAt EXCEPT !.step = "clustered", !.map = map, !.seen = LivePool]

LEMMA TypesStay ==
  ASSUME DetectorInv, [DiversityNext]_diverseVars
  PROVE  DetectorTypes'
<1>. USE DEF DetectorTypes
<1>1. DetectorTypes
  BY DEF DetectorInv
<1>2. /\ roundAt.round \in 1 .. LastRound + 1 /\ roundAt.map \in Maps /\ roundAt.seen \in SUBSET PoolIds
      /\ clusterMark.map \in Maps /\ clusterMark.seen \in SUBSET PoolIds
  BY <1>1 DEF RoundStates, MarkStates
<1>3. LastRound \in Nat /\ MaxDiverseFaults \in Nat /\ <<>> \in Maps /\ LivePool \in SUBSET PoolIds
  <2>1. <<>> = [i \in {} |-> i]
    OBVIOUS
  <2>2. [i \in {} |-> i] \in [{} -> Families]
    OBVIOUS
  <2>3. {} \in SUBSET PoolIds
    OBVIOUS
  <2>4. <<>> \in Maps
    BY <2>1, <2>2, <2>3 DEF Maps
  <2>. QED
    BY <2>4, DiversityAssumption DEF LivePool
<1>4. CASE GenerateIdeas
  <2>1. PICK new \in SUBSET PoolIds : pool' = [i \in PoolIds |-> IF i \in new THEN Unlabelled ELSE pool[i]]
    BY <1>4 DEF GenerateIdeas
  <2>2. pool' \in [PoolIds -> Labelling \cup {"unborn", "archived"}]
    BY <1>1, <2>1, LabelsApart
  <2>3. roundAt' \in RoundStates /\ roundAt'.round <= LastRound
    BY <1>1, <1>4 DEF GenerateIdeas, ToStep, RoundStates
  <2>. QED
    BY <1>1, <1>4, <2>2, <2>3 DEF GenerateIdeas
<1>5. CASE SkipClustering
  BY <1>1, <1>5 DEF SkipClustering, ToStep, RoundStates
<1>6. CASE ClusterFew
  BY <1>1, <1>3, <1>6 DEF ClusterFew, ToStep, RoundStates, MarkStates
<1>7. CASE LoseClustering
  <2>1. diverseFaults' \in 0 .. MaxDiverseFaults
    BY <1>1, <1>3, <1>7 DEF LoseClustering
  <2>2. roundAt' \in RoundStates /\ roundAt'.round <= LastRound /\ clusterMark' \in MarkStates
    BY <1>1, <1>3, <1>7 DEF LoseClustering, ToStep, RoundStates, MarkStates
  <2>. QED
    BY <1>1, <1>7, <2>1, <2>2 DEF LoseClustering
<1>8. CASE ApplyMap
  <2>0. PICK some \in SUBSET LivePool : \E map \in [some -> Families] : Applied(some, map)
    BY <1>8 DEF ApplyMap, Applied
  <2>1. PICK map \in [some -> Families] : Applied(some, map)
    BY <2>0
  <2>2. map \in Maps
    BY <1>3 DEF Maps
  <2>3. roundAt' \in RoundStates /\ roundAt'.round <= LastRound
    BY <1>1, <1>3, <1>8, <2>1, <2>2 DEF ApplyMap, Applied, RoundStates
  <2>4. pool' \in [PoolIds -> Labelling \cup {"unborn", "archived"}]
    <3>. DEFINE z(i) == IF i \notin some THEN pool[i]
                        ELSE IF \E j \in some : j < i /\ map[j] = map[i] THEN "archived" ELSE map[i]
    <3>1. \A i \in PoolIds : z(i) \in Labelling \cup {"unborn", "archived"}
      BY <1>1, LabelsApart
    <3>2. pool' = [i \in PoolIds |-> z(i)]
      BY <2>1 DEF Applied
    <3>. HIDE DEF z
    <3>. QED
      BY <3>1, <3>2
  <2>. QED
    BY <1>1, <1>8, <2>3, <2>4 DEF ApplyMap
<1>9. CASE SaveClustering
  <2>1. roundAt' \in RoundStates /\ roundAt'.round <= LastRound
    BY <1>1, <1>3, <1>9 DEF SaveClustering, RoundStates
  <2>2. clusterMark' \in MarkStates
    BY <1>2, <1>9 DEF SaveClustering, MarkClustering, MarkStates
  <2>. QED
    BY <1>1, <1>9, <2>1, <2>2 DEF SaveClustering
<1>10. CASE CollapseRead
  <2>1. roundAt' \in RoundStates /\ roundAt'.step = "generate"
    BY <1>1, <1>2, <1>3, <1>10 DEF CollapseRead, NextRound, RoundStates
  <2>2. clusterMark' \in MarkStates
    BY <1>3, <1>10 DEF CollapseRead, NextRound, Unmarked, MarkStates
  <2>. QED
    BY <1>1, <1>10, <2>1, <2>2 DEF CollapseRead
<1>11. CASE AbstainStale
  BY <1>1, <1>11 DEF AbstainStale, ToStep, RoundStates, MarkStates
<1>12. CASE TakeReading
  <2>1. readings' \in Seq(Reading)
    BY <1>12, FiledIs DEF Filed
  <2>. QED
    BY <1>1, <1>12, <2>1 DEF TakeReading, ToStep, RoundStates
<1>13. CASE Abstain
  <2>1. diverseFaults' \in 0 .. MaxDiverseFaults
    BY <1>1, <1>3, <1>13 DEF Abstain
  <2>2. roundAt' \in RoundStates /\ roundAt'.round <= LastRound /\ clusterMark' \in MarkStates
    BY <1>1, <1>13 DEF Abstain, ToStep, RoundStates, MarkStates
  <2>. QED
    BY <1>1, <1>13, <2>1, <2>2 DEF Abstain
<1>14. CASE FireGraft
  <2>1. fires' = fires \cup {Fire} /\ Fire.round = roundAt.round
    BY <1>14 DEF FireGraft, Fire
  <2>2. roundAt.round \in 1 .. LastRound
    BY <1>14, SentFor
  <2>3. lastFired' = roundAt.round /\ roundAt' = [roundAt EXCEPT !.step = "fired"]
        /\ UNCHANGED <<pool, clusterMark, readings, diverseFaults>>
    BY <1>14 DEF FireGraft, ToStep
  <2>4. roundAt' \in RoundStates /\ roundAt'.round <= LastRound
    BY <1>1, <2>2, <2>3 DEF RoundStates
  <2>5. lastFired' \in 0 .. LastRound
    BY <1>3, <2>2, <2>3
  <2>. QED
    BY <1>1, <2>1, <2>2, <2>3, <2>4, <2>5
<1>15. CASE MarkFired
  BY <1>1, <1>15 DEF MarkFired, ToStep, RoundStates, MarkStates
<1>16. CASE TakeUp
  <2>1. roundAt' \in RoundStates /\ roundAt'.step = "generate"
    BY <1>2, <1>3, <1>16 DEF TakeUp, RoundStates
  <2>2. diverseFaults' \in 0 .. MaxDiverseFaults
    BY <1>1, <1>3, <1>16 DEF TakeUp
  <2>. QED
    BY <1>1, <1>16, <2>1, <2>2 DEF TakeUp
<1>17. CASE UNCHANGED diverseVars
  BY <1>1, <1>17 DEF diverseVars
<1>. QED
  BY <1>4, <1>5, <1>6, <1>7, <1>8, <1>9, <1>10, <1>11, <1>12, <1>13, <1>14, <1>15, <1>16, <1>17
  DEF DiversityNext

(* Ideas keep their numbers; the oldest of the pool stays, and stays the oldest. *)
LEMMA PoolStays ==
  ASSUME DetectorInv, [DiversityNext]_diverseVars
  PROVE  /\ Known' = Known \/ (\E b \in 0 .. Cardinality(PoolIds) : Known' = 1 .. b)
         /\ LivePool # {} => LivePool' # {} /\ Oldest' = Oldest
<1>1. DetectorTypes /\ NumberedInTurn
  BY DEF DetectorInv
<1>2. CASE GenerateIdeas
  <2>1. PICK n \in 0 .. 2 :
          pool' = [i \in PoolIds |-> IF i > Cardinality(Known) /\ i <= Cardinality(Known) + n THEN Unlabelled ELSE pool[i]]
    <3>1. PICK n \in 0 .. 2 :
            pool' = [i \in PoolIds |->
                       IF i \in {k \in PoolIds : k > Cardinality(Known) /\ k <= Cardinality(Known) + n}
                       THEN Unlabelled ELSE pool[i]]
      BY <1>2 DEF GenerateIdeas
    <3>2. \A i \in PoolIds : (i \in {k \in PoolIds : k > Cardinality(Known) /\ k <= Cardinality(Known) + n})
                               = (i > Cardinality(Known) /\ i <= Cardinality(Known) + n)
      OBVIOUS
    <3>. QED
      BY <3>1, <3>2
  <2>. DEFINE c == Cardinality(PoolIds)
  <2>2. c \in Nat /\ PoolIds = 1 .. c
    BY DiversityAssumption, FS_CardinalityType
  <2>. HIDE DEF c
  <2>3. PICK b \in 0 .. c : Known = 1 .. b
    BY <1>1 DEF NumberedInTurn, c
  <2>4. Cardinality(Known) = b
    <3>1. \A k \in Nat : Cardinality(1 .. k) = k
      BY FS_Interval
    <3>. QED
      BY <2>2, <2>3, <3>1
  <2>5. \A i \in PoolIds : pool'[i] = IF i > b /\ i <= b + n THEN Unlabelled ELSE pool[i]
    BY <2>1, <2>4
  <2>6. \A i \in PoolIds : i \in Int /\ (pool[i] # "unborn" <=> i <= b)
    <3>1. \A i \in PoolIds : (pool[i] # "unborn") = (i \in 1 .. b)
      BY <2>3 DEF Known
    <3>. QED
      BY <2>2, <2>3, <3>1
  <2>. DEFINE d == IF b + n > c THEN c ELSE b + n
  <2>7. d \in 0 .. c /\ \A i \in PoolIds : i <= d <=> i <= b + n
    BY <2>2, <2>3
  <2>8. Known' = 1 .. d
    <3>1. \A i \in PoolIds : pool'[i] # "unborn" <=> i <= d
      <4>1. Unlabelled # "unborn"
        BY LabelsApart
      <4>. HIDE DEF d
      <4>. QED
        BY <2>3, <2>5, <2>6, <2>7, <4>1
    <3>2. Known' = {i \in PoolIds : pool'[i] # "unborn"}
      BY DEF Known
    <3>3. 1 .. d = {i \in PoolIds : i <= d}
      BY <2>2, <2>7
    <3>. HIDE DEF d
    <3>. QED
      BY <3>1, <3>2, <3>3
  <2>9. LivePool = {i \in PoolIds : i <= b /\ pool[i] \in Labelling}
    <3>1. \A i \in PoolIds : pool[i] \in Labelling => i <= b
      BY <2>6, LabelsApart
    <3>. QED
      BY <3>1 DEF LivePool
  <2>10. LivePool' = {i \in PoolIds : pool'[i] \in Labelling}
    BY DEF LivePool
  <2>11. \A i \in PoolIds : i \in LivePool' => i \in LivePool \/ i > b
    BY <2>3, <2>5, <2>6, <2>9, <2>10
  <2>12. \A i \in LivePool : i \in LivePool' /\ i <= b /\ i \in PoolIds
    BY <2>3, <2>5, <2>6, <2>9, <2>10
  <2>13. ASSUME LivePool # {} PROVE LivePool' # {} /\ Oldest' = Oldest
    <3>1. PICK m \in LivePool : Oldest = {m} /\ \A i \in LivePool : m <= i
      BY <2>13, OneOldest
    <3>2. Oldest' = {i \in LivePool' : \A j \in LivePool' : i <= j}
      BY DEF Oldest
    <3>3. m \in LivePool' /\ \A i \in LivePool' : m <= i
      BY <2>3, <2>6, <2>10, <2>11, <2>12, <3>1
    <3>4. \A i \in LivePool' : i \in Int
      BY <2>6, <2>10
    <3>5. Oldest' = {m}
      BY <3>2, <3>3, <3>4
    <3>. QED
      BY <3>1, <3>3, <3>5
  <2>. QED
    BY <2>7, <2>8, <2>13 DEF c
<1>3. CASE ApplyMap
  <2>0. PICK some \in SUBSET LivePool : \E map \in [some -> Families] : Applied(some, map)
    BY <1>3 DEF ApplyMap, Applied
  <2>1. PICK map \in [some -> Families] : Applied(some, map)
    BY <2>0
  <2>2. \A i \in PoolIds : pool'[i] = IF i \notin some THEN pool[i]
                                      ELSE IF \E j \in some : j < i /\ map[j] = map[i] THEN "archived" ELSE map[i]
    BY <2>1 DEF Applied
  <2>3. LivePool = {i \in PoolIds : pool[i] \in Labelling} /\ LivePool' = {i \in PoolIds : pool'[i] \in Labelling}
    BY DEF LivePool
  <2>4. \A i \in some : pool[i] # "unborn" /\ pool'[i] # "unborn"
    <3>1. \A i \in some : map[i] # "unborn" /\ pool[i] # "unborn" /\ i \in PoolIds
      BY <2>3, LabelsApart
    <3>. QED
      BY <2>2, <3>1
  <2>5. Known' = Known
    <3>1. \A i \in PoolIds : pool[i] # "unborn" <=> pool'[i] # "unborn"
      BY <2>2, <2>4
    <3>. QED
      BY <3>1 DEF Known
  <2>6. LivePool' \subseteq LivePool
    <3>1. \A i \in PoolIds : pool'[i] \in Labelling => pool[i] \in Labelling
      BY <2>2, <2>3
    <3>. QED
      BY <2>3, <3>1
  <2>7. ASSUME LivePool # {} PROVE LivePool' # {} /\ Oldest' = Oldest
    <3>1. PICK m \in LivePool : Oldest = {m} /\ \A i \in LivePool : m <= i
      BY <2>7, OneOldest
    <3>2. Oldest' = {i \in LivePool' : \A j \in LivePool' : i <= j}
      BY DEF Oldest
    <3>3. \A i \in LivePool : i \in Int
      BY DiversityAssumption, FS_CardinalityType DEF LivePool
    <3>4. m \in LivePool'
      <4>1. ~\E j \in some : j < m /\ map[j] = map[m]
        BY <3>1, <3>3
      <4>2. pool'[m] = IF m \in some THEN map[m] ELSE pool[m]
        BY <2>2, <2>3, <4>1
      <4>3. pool'[m] \in Labelling
        <5>1. m \in some => map[m] \in Labelling
          BY LabelsApart
        <5>. QED
          BY <2>3, <4>2, <5>1
      <4>. QED
        BY <2>3, <4>3
    <3>5. Oldest' = {m}
      BY <2>6, <3>1, <3>2, <3>3, <3>4
    <3>. QED
      BY <3>1, <3>4, <3>5
  <2>. QED
    BY <2>5, <2>7
<1>4. CASE pool' = pool
  BY <1>4 DEF Known, LivePool, Oldest
<1>. QED
  BY <1>2, <1>3, <1>4 DEF DiversityNext, diverseVars, SkipClustering, ClusterFew, LoseClustering, SaveClustering,
     CollapseRead, AbstainStale, TakeReading, Abstain, FireGraft, MarkFired, TakeUp

(* What a step can make of the mark and of the round. *)
Handed ==
  /\ clusterMark'.seen \in {clusterMark.seen, {}, LivePool, roundAt.seen}
  /\ \/ clusterMark'.done = clusterMark.done /\ clusterMark'.map = clusterMark.map
     \/ clusterMark'.done \/ clusterMark'.map = <<>>
  /\ roundAt'.seen \in {roundAt.seen, {}, LivePool}
  /\ roundAt'.round \in {roundAt.round, roundAt.round + 1}

LEMMA StepHands ==
  ASSUME DetectorInv, [DiversityNext]_diverseVars
  PROVE  Handed
<1>. USE DEF Handed, ToStep, MarkClustering, NextRound, Unmarked
<1>1. /\ DOMAIN clusterMark = {"done", "failed", "seen", "map", "graft"}
      /\ DOMAIN roundAt = {"round", "map", "seen", "step"}
  BY DEF DetectorInv, DetectorTypes, MarkStates, RoundStates
<1>2. CASE GenerateIdeas
  BY <1>1, <1>2 DEF GenerateIdeas
<1>3. CASE SkipClustering
  BY <1>1, <1>3 DEF SkipClustering
<1>4. CASE ClusterFew
  BY <1>1, <1>4 DEF ClusterFew
<1>5. CASE LoseClustering
  BY <1>1, <1>5 DEF LoseClustering
<1>6. CASE ApplyMap
  BY <1>1, <1>6 DEF ApplyMap
<1>7. CASE SaveClustering
  BY <1>1, <1>7 DEF SaveClustering
<1>8. CASE CollapseRead
  BY <1>1, <1>8 DEF CollapseRead
<1>9. CASE AbstainStale
  BY <1>1, <1>9 DEF AbstainStale
<1>10. CASE TakeReading
  BY <1>1, <1>10 DEF TakeReading
<1>11. CASE Abstain
  BY <1>1, <1>11 DEF Abstain
<1>12. CASE FireGraft
  BY <1>1, <1>12 DEF FireGraft
<1>13. CASE MarkFired
  BY <1>1, <1>13 DEF MarkFired
<1>14. CASE TakeUp
  BY <1>1, <1>14 DEF TakeUp
<1>15. CASE UNCHANGED diverseVars
  BY <1>15 DEF diverseVars
<1>. QED
  BY <1>2, <1>3, <1>4, <1>5, <1>6, <1>7, <1>8, <1>9, <1>10, <1>11, <1>12, <1>13, <1>14, <1>15
  DEF DiversityNext

LEMMA SeenStays ==
  ASSUME DetectorInv, [DiversityNext]_diverseVars
  PROVE  OldestSeen'
<1>1. clusterMark \in MarkStates /\ roundAt \in RoundStates /\ OldestSeen
  BY DEF DetectorInv, DetectorTypes
<1>2. clusterMark'.seen \in {clusterMark.seen, {}, LivePool, roundAt.seen}
  BY StepHands DEF Handed
<1>3. roundAt'.seen \in {roundAt.seen, {}, LivePool}
  BY StepHands DEF Handed
<1>4. SawOldest(clusterMark.seen) /\ SawOldest(roundAt.seen) /\ SawOldest({}) /\ SawOldest(LivePool)
  BY <1>1 DEF OldestSeen, SawOldest, Oldest
<1>5. ASSUME NEW ids, SawOldest(ids) PROVE ids # {} => LivePool' # {} /\ Oldest' \subseteq ids
  BY <1>5, PoolStays DEF SawOldest
<1>6. clusterMark'.seen # {} => LivePool' # {} /\ Oldest' \subseteq clusterMark'.seen
  BY <1>2, <1>4, <1>5
<1>7. roundAt'.seen # {} => LivePool' # {} /\ Oldest' \subseteq roundAt'.seen
  BY <1>3, <1>4, <1>5
<1>. QED
  BY <1>6, <1>7 DEF OldestSeen, SawOldest

LEMMA UnaskedStays ==
  ASSUME DetectorInv, [DiversityNext]_diverseVars
  PROVE  NoMapUnasked'
<1>1. clusterMark \in MarkStates /\ NoMapUnasked
  BY DEF DetectorInv, DetectorTypes
<1>2. (clusterMark'.done = clusterMark.done /\ clusterMark'.map = clusterMark.map) \/ clusterMark'.done \/ clusterMark'.map = <<>>
  BY StepHands DEF Handed
<1>. QED
  BY <1>1, <1>2 DEF NoMapUnasked

LEMMA ReadingsStay ==
  ASSUME DetectorInv, [DiversityNext]_diverseVars
  PROVE  ReadUpToNow' /\ ReadingsInOrder'
<1>1. readings \in Seq(Reading) /\ ReadUpToNow /\ ReadingsInOrder /\ roundAt \in RoundStates
  BY DEF DetectorInv, DetectorTypes
<1>2. \A k \in DOMAIN readings : readings[k].round \in Int
  <2>1. \A k \in DOMAIN readings : readings[k] \in Reading
    BY <1>1
  <2>. QED
    BY <2>1 DEF Reading
<1>3. roundAt.round \in Int /\ roundAt'.round \in {roundAt.round, roundAt.round + 1}
  BY <1>1, StepHands DEF Handed, RoundStates
<1>4. CASE readings' = readings
  <2>1. ReadingsInOrder'
    BY <1>1, <1>4 DEF ReadingsInOrder
  <2>2. ReadUpToNow'
    BY <1>1, <1>2, <1>3, <1>4 DEF ReadUpToNow
  <2>. QED
    BY <2>1, <2>2
<1>5. CASE TakeReading
  <2>. DEFINE s == Snapshot(roundAt.round, MeasuredPool.map, MeasuredPool.ids)
  <2>1. Filed(readings', s) /\ s.round = roundAt.round
    BY <1>5, FiledIs
  <2>2. roundAt'.round = roundAt.round
    BY <1>1, <1>5 DEF TakeReading, ToStep, RoundStates
  <2>. HIDE DEF s
  <2>3. ReadingsInOrder'
    BY <2>1 DEF Filed, ReadingsInOrder
  <2>4. ASSUME NEW k \in DOMAIN readings' PROVE readings'[k].round <= roundAt.round
    <3>1. readings'[k] = s \/ \E m \in DOMAIN readings : readings'[k] = readings[m]
      BY <2>1 DEF Filed
    <3>. QED
      BY <1>1, <1>3, <2>1, <3>1 DEF ReadUpToNow
  <2>5. ReadUpToNow'
    BY <2>2, <2>4 DEF ReadUpToNow
  <2>. QED
    BY <2>3, <2>5
<1>. QED
  BY <1>4, <1>5 DEF DiversityNext, diverseVars, GenerateIdeas, SkipClustering, ClusterFew, LoseClustering, ApplyMap, SaveClustering,
     CollapseRead, AbstainStale, Abstain, FireGraft, MarkFired, TakeUp

(* The Cartographer rests. *)
LEMMA CooledStays ==
  ASSUME DetectorInv, [DiversityNext]_diverseVars
  PROVE  FiresCooled'
<1>1. FiresCooled /\ lastFired \in 0 .. LastRound /\ \A f \in fires : f.round \in 1 .. LastRound
  BY DEF DetectorInv, DetectorTypes
<1>2. CASE UNCHANGED <<lastFired, fires>>
  BY <1>1, <1>2 DEF FiresCooled
<1>3. CASE FireGraft
  <2>. DEFINE r == roundAt.round
  <2>1. fires' = fires \cup {Fire} /\ Fire.round = r /\ lastFired' = r
    BY <1>3 DEF FireGraft, Fire
  <2>2. r \in 1 .. LastRound /\ (lastFired = 0 \/ r - lastFired > GraftCooldown)
    BY <1>3, SentFor
  <2>3. GraftCooldown \in Nat
    BY DiversityAssumption
  <2>. HIDE DEF r
  <2>4. \A f \in fires : r - f.round > GraftCooldown /\ f.round <= r
    <3>1. \A f \in fires : f.round <= lastFired
      BY <1>1 DEF FiresCooled
    <3>. QED
      BY <1>1, <2>2, <2>3, <3>1
  <2>5. \A f \in fires' : f \in fires \/ f.round = r
    BY <2>1
  <2>6. \A f \in fires' : f.round <= lastFired'
    BY <2>1, <2>2, <2>4, <2>5
  <2>7. ASSUME NEW f \in fires', NEW g \in fires', f # g
        PROVE  f.round - g.round > GraftCooldown \/ g.round - f.round > GraftCooldown
    <3>1. CASE f \in fires /\ g \in fires
      BY <1>1, <2>7, <3>1 DEF FiresCooled
    <3>2. CASE f \notin fires
      <4>1. f = Fire /\ g \in fires
        BY <2>1, <2>7, <3>2
      <4>. QED
        BY <2>1, <2>4, <4>1
    <3>3. CASE g \notin fires
      <4>1. g = Fire /\ f \in fires
        BY <2>1, <2>7, <3>3
      <4>. QED
        BY <2>1, <2>4, <4>1
    <3>. QED
      BY <3>1, <3>2, <3>3
  <2>. QED
    BY <2>6, <2>7 DEF FiresCooled
<1>. QED
  BY <1>2, <1>3 DEF DiversityNext, diverseVars, GenerateIdeas, SkipClustering, ClusterFew, LoseClustering, ApplyMap, SaveClustering,
     CollapseRead, AbstainStale, TakeReading, Abstain, MarkFired, TakeUp

(* A round is not decided, and not closed, off a reading of another map. *)
LEMMA DecidedStays ==
  ASSUME DetectorInv, [DiversityNext]_diverseVars
  PROVE  ReadBeforeDecided'
<1>1. clusterMark \in MarkStates /\ roundAt \in RoundStates /\ ReadBeforeDecided /\ NoMapUnasked /\ OldestSeen
  BY DEF DetectorInv, DetectorTypes
<1>2. clusterMark.map \in Maps /\ clusterMark.seen \in SUBSET PoolIds
      /\ clusterMark.graft \in BOOLEAN /\ clusterMark.failed \in BOOLEAN
  BY <1>1 DEF MarkStates
<1>4. CASE (GenerateIdeas \/ SkipClustering \/ ApplyMap \/ TakeUp)
  <2>1. UNCHANGED <<clusterMark, readings>> /\ roundAt'.round = roundAt.round /\ roundAt'.step \notin {"decide", "fired"}
    <3>1. CASE GenerateIdeas
      BY <1>1, <3>1 DEF GenerateIdeas, ToStep, RoundStates
    <3>2. CASE SkipClustering
      BY <1>1, <3>2 DEF SkipClustering, ToStep, RoundStates
    <3>3. CASE ApplyMap
      BY <1>1, <3>3 DEF ApplyMap, RoundStates
    <3>4. CASE TakeUp
      BY <1>1, <3>4 DEF TakeUp, RoundStates
    <3>. QED
      BY <1>4, <3>1, <3>2, <3>3, <3>4
  <2>2. Fits' = Fits
    BY <2>1 DEF Fits
  <2>. QED
    BY <1>1, <2>1, <2>2 DEF ReadBeforeDecided
<1>5. CASE ClusterFew
  <2>1. /\ clusterMark'.graft = clusterMark.graft /\ clusterMark'.map = clusterMark.map /\ clusterMark'.seen = LivePool
        /\ readings' = readings /\ roundAt'.round = roundAt.round /\ roundAt'.step = "collapse"
    BY <1>1, <1>5 DEF ClusterFew, ToStep, RoundStates, MarkStates
  <2>2. DOMAIN clusterMark.map = {}
    <3>. SUFFICES ASSUME DOMAIN clusterMark.map # {} PROVE FALSE
      OBVIOUS
    <3>1. clusterMark.done
      BY <1>1 DEF NoMapUnasked
    <3>2. clusterMark.seen # {} /\ ~(LivePool \subseteq clusterMark.seen) /\ Cardinality(LivePool) < 2
      BY <1>5, <3>1 DEF ClusterFew, ClusteringDue
    <3>3. LivePool # {} /\ Oldest \subseteq clusterMark.seen
      BY <1>1, <3>2 DEF OldestSeen, SawOldest
    <3>4. PICK m \in LivePool : Oldest = {m}
      BY <3>3, OneOldest
    <3>5. PICK i \in LivePool : i \notin clusterMark.seen
      BY <3>2
    <3>6. i # m
      BY <3>3, <3>4, <3>5
    <3>7. Cardinality(LivePool) >= 2
      <4>1. LivePool \in SUBSET PoolIds
        BY DEF LivePool
      <4>2. IsFiniteSet(LivePool) /\ Cardinality(LivePool) \in Nat
        BY <4>1, DiversityAssumption, FS_Subset, FS_CardinalityType
      <4>3. IsFiniteSet({m}) /\ Cardinality({m}) = 1
        BY FS_Singleton
      <4>. DEFINE M == {m}
      <4>4. i \notin M
        BY <3>6
      <4>5. M \cup {i} \in SUBSET LivePool
        OBVIOUS
      <4>. HIDE DEF M
      <4>6. Cardinality(M \cup {i}) = 2
        <5>1. IsFiniteSet(M) /\ Cardinality(M) = 1
          BY <4>3 DEF M
        <5>. QED
          BY <4>4, <5>1, OneMore
      <4>7. Cardinality(M \cup {i}) <= Cardinality(LivePool)
        BY <4>2, <4>5, FS_Subset
      <4>. QED
        BY <4>2, <4>6, <4>7
    <3>8. Cardinality(LivePool) \in Nat
      BY DiversityAssumption, FS_Subset, FS_CardinalityType DEF LivePool
    <3>. QED
      BY <3>2, <3>7, <3>8
  <2>3. Fits'
    BY <2>1, <2>2 DEF Fits
  <2>. QED
    BY <2>1, <2>3 DEF ReadBeforeDecided
<1>6. CASE LoseClustering
  <2>1. clusterMark'.failed = TRUE /\ roundAt'.step = "collapse"
    BY <1>1, <1>6 DEF LoseClustering, ToStep, RoundStates, MarkStates
  <2>. QED
    BY <2>1 DEF ReadBeforeDecided
<1>7. CASE SaveClustering
  <2>1. clusterMark'.graft = FALSE /\ roundAt'.step = "collapse"
    BY <1>1, <1>7 DEF SaveClustering, MarkClustering, RoundStates
  <2>. QED
    BY <2>1 DEF ReadBeforeDecided
<1>8. CASE CollapseRead
  <2>1. clusterMark'.graft = FALSE /\ roundAt'.step = "generate"
    BY <1>8 DEF CollapseRead, NextRound, Unmarked
  <2>. QED
    BY <2>1 DEF ReadBeforeDecided
<1>9. CASE AbstainStale
  <2>1. clusterMark'.failed = TRUE /\ roundAt'.step = "collapse"
    BY <1>1, <1>2, <1>9 DEF AbstainStale, ToStep, RoundStates, MarkStates
  <2>. QED
    BY <2>1 DEF ReadBeforeDecided
<1>10. CASE TakeReading
  <2>. DEFINE s == Snapshot(roundAt.round, MeasuredPool.map, MeasuredPool.ids)
              map == clusterMark.map
              seen == clusterMark.seen
  <2>1. /\ ~clusterMark.graft /\ ~clusterMark.failed /\ clusterMark' = clusterMark
        /\ roundAt'.round = roundAt.round /\ roundAt'.step = "decide" /\ roundAt.round \in 1 .. LastRound
    BY <1>1, <1>10 DEF TakeReading, ToStep, RoundStates, DetectorInv, DetectorTypes
  <2>2. Filed(readings', s) /\ s.round = roundAt.round
    BY <1>10, FiledIs
  <2>3. MeasuredPool.ids \in SUBSET PoolIds /\ AllLabelled(MeasuredPool.map, MeasuredPool.ids)
    BY PoolMeasured DEF DetectorInv
  <2>4. s.n = Cardinality(MeasuredPool.ids)
        /\ s.labels = {MeasuredPool.map[i] : i \in MeasuredPool.ids} \ {Unlabelled}
    BY <2>1, <2>3, SnapshotIs
  <2>. HIDE DEF s
  <2>5. ASSUME DOMAIN map # {}, DOMAIN map \subseteq seen
        PROVE  s.n = Cardinality(seen) /\ s.labels = {map[i] : i \in DOMAIN map}
    <3>. DEFINE w == [i \in seen |-> IF i \in DOMAIN map THEN map[i] ELSE Unlabelled]
    <3>1. seen # {}
      BY <2>5
    <3>2. MeasuredPool = [ids |-> seen, map |-> w]
      BY <2>5, <3>1 DEF MeasuredPool
    <3>3. \A i \in DOMAIN map : map[i] # Unlabelled
      BY <1>2, LabelsApart DEF Maps
    <3>4. {w[i] : i \in seen} \ {Unlabelled} = {map[i] : i \in DOMAIN map}
      BY <2>5, <3>3
    <3>. HIDE DEF w
    <3>. QED
      BY <2>4, <3>2, <3>4
  <2>6. PICK k \in DOMAIN readings' : readings'[k] = s
    BY <2>2 DEF Filed
  <2>7. Fits'
    <3>1. (DOMAIN map # {} /\ DOMAIN map \subseteq seen) =>
            \E j \in DOMAIN readings' :
              /\ readings'[j].round = roundAt'.round /\ readings'[j].n = Cardinality(seen)
              /\ readings'[j].labels = {map[i] : i \in DOMAIN map}
      BY <2>1, <2>2, <2>5, <2>6
    <3>. QED
      BY <2>1, <3>1 DEF Fits
  <2>. QED
    BY <2>1, <2>7 DEF ReadBeforeDecided
<1>11. CASE (Abstain \/ MarkFired)
  <2>1. /\ roundAt.step \in {"decide", "fired"} /\ readings' = readings
        /\ clusterMark'.map = clusterMark.map /\ clusterMark'.seen = clusterMark.seen
        /\ roundAt'.round = roundAt.round /\ roundAt'.step = "collapse"
    BY <1>1, <1>11 DEF Abstain, MarkFired, ToStep, RoundStates, MarkStates
  <2>2. Fits
    BY <1>1, <2>1 DEF ReadBeforeDecided
  <2>3. Fits'
    BY <2>1, <2>2 DEF Fits
  <2>. QED
    BY <2>1, <2>3 DEF ReadBeforeDecided
<1>12. CASE FireGraft
  <2>1. UNCHANGED <<clusterMark, readings>> /\ roundAt.step = "decide" /\ roundAt'.round = roundAt.round
    BY <1>1, <1>12 DEF FireGraft, ToStep, RoundStates
  <2>2. Fits' = Fits
    BY <2>1 DEF Fits
  <2>. QED
    BY <1>1, <2>1, <2>2 DEF ReadBeforeDecided
<1>13. CASE UNCHANGED diverseVars
  BY <1>1, <1>13 DEF diverseVars, ReadBeforeDecided, Fits
<1>. QED
  BY <1>4, <1>5, <1>6, <1>7, <1>8, <1>9, <1>10, <1>11, <1>12, <1>13 DEF DiversityNext

(* The detector never loses its place: a reading to a round, of the newest
   answer before the round is decided, and a Cartographer left alone for the
   cooldown, through deaths, lost calls and rounds clustered twice
   (_collapse_check, _measured_pool, record_graft). *)
THEOREM DetectorIsKept == DiversitySpec => []DetectorInv
<1>1. DiversityInit => DetectorInv
  <2>. SUFFICES ASSUME DiversityInit PROVE DetectorInv
    OBVIOUS
  <2>. USE DEF DiversityInit
  <2>1. <<>> \in Maps /\ DOMAIN <<>> = {}
    <3>1. <<>> = [i \in {} |-> i]
      OBVIOUS
    <3>2. [i \in {} |-> i] \in [{} -> Families]
      OBVIOUS
    <3>3. {} \in SUBSET PoolIds
      OBVIOUS
    <3>. QED
      BY <3>1, <3>2, <3>3 DEF Maps
  <2>2. LastRound \in Nat /\ MaxDiverseFaults \in Nat /\ Cardinality(PoolIds) \in Nat
    BY DiversityAssumption, FS_CardinalityType
  <2>3. roundAt \in RoundStates
    BY <2>1, <2>2 DEF RoundStates
  <2>4. clusterMark \in MarkStates /\ clusterMark.map = <<>> /\ clusterMark.seen = {} /\ ~clusterMark.graft
    BY <2>1 DEF Unmarked, MarkStates
  <2>5. DetectorTypes
    BY <2>2, <2>3, <2>4 DEF DetectorTypes
  <2>6. NumberedInTurn
    <3>1. Known = 1 .. 0 /\ 0 \in 0 .. Cardinality(PoolIds)
      BY <2>2 DEF Known
    <3>. QED
      BY <3>1 DEF NumberedInTurn
  <2>7. OldestSeen /\ NoMapUnasked
    BY <2>1, <2>4 DEF OldestSeen, SawOldest, NoMapUnasked
  <2>8. ReadUpToNow /\ ReadingsInOrder /\ FiresCooled
    BY DEF ReadUpToNow, ReadingsInOrder, FiresCooled
  <2>9. ReadBeforeDecided
    BY <2>4 DEF ReadBeforeDecided
  <2>. QED
    BY <2>5, <2>6, <2>7, <2>8, <2>9 DEF DetectorInv
<1>2. DetectorInv /\ [DiversityNext]_diverseVars => DetectorInv'
  <2>. SUFFICES ASSUME DetectorInv, [DiversityNext]_diverseVars PROVE DetectorInv'
    OBVIOUS
  <2>1. DetectorTypes'
    BY TypesStay
  <2>2. NumberedInTurn'
    <3>1. Known' = Known \/ \E b \in 0 .. Cardinality(PoolIds) : Known' = 1 .. b
      BY PoolStays
    <3>2. NumberedInTurn
      BY DEF DetectorInv
    <3>. QED
      BY <3>1, <3>2 DEF NumberedInTurn
  <2>3. OldestSeen' /\ NoMapUnasked'
    BY SeenStays, UnaskedStays
  <2>4. ReadUpToNow' /\ ReadingsInOrder'
    BY ReadingsStay
  <2>5. ReadBeforeDecided' /\ FiresCooled'
    BY DecidedStays, CooledStays
  <2>. QED
    BY <2>1, <2>2, <2>3, <2>4, <2>5 DEF DetectorInv
<1>. QED
  BY <1>1, <1>2, PTL DEF DiversitySpec

LEMMA FiresStay ==
  ASSUME DetectorInv, [DiversityNext]_diverseVars, QuorumK >= 2, Cardinality(PoolIds) < 500
  PROVE  /\ (\A f \in fires : Grounded(f)) => \A f \in fires' : Grounded(f)
         /\ QuorumK >= 3 /\ HhiThreshold >= 500 =>
              ((\A f \in fires : Collapsed(f)) => \A f \in fires' : Collapsed(f))
<1>1. CASE FireGraft
  BY <1>1, FireIs
<1>2. CASE fires' = fires
  BY <1>2
<1>. QED
  BY <1>1, <1>2 DEF DiversityNext, diverseVars, GenerateIdeas, SkipClustering, ClusterFew, LoseClustering, ApplyMap, SaveClustering,
     CollapseRead, AbstainStale, TakeReading, Abstain, MarkFired, TakeUp

(* With a quorum of two votes or three, the Cartographer is sent only off a full
   window of earlier rounds and for a pool three quarters of which was labelled
   (collapse_signals, should_fire_graft, MIN_CLUSTER_COVERAGE). *)
THEOREM FiresAreGrounded ==
  ASSUME QuorumK >= 2, Cardinality(PoolIds) < 500
  PROVE  DiversitySpec => [](\A f \in fires : 4 * f.bare <= f.n /\ f.before >= Window)
<1>. DEFINE Inv == \A f \in fires : Grounded(f)
<1>1. DiversityInit => Inv
  BY DEF DiversityInit
<1>2. DetectorInv /\ Inv /\ [DiversityNext]_diverseVars => Inv'
  BY FiresStay
<1>3. Inv => \A f \in fires : 4 * f.bare <= f.n /\ f.before >= Window
  BY DEF Grounded
<1>. HIDE DEF Inv
<1>. QED
  BY <1>1, <1>2, <1>3, DetectorIsKept, PTL DEF DiversitySpec

(* The Cartographer is sent when half the pool is one family's and left alone
   for a cooldown, off one reading a round, of the clustering that stands: for
   the quorum of all three votes, a threshold of at least one half, and a pool
   small enough for the three digits kept of a share (calibration's defaults:
   quorum_k 3, hhi_threshold 0.5). *)
THEOREM GraftsAreHeld ==
  ASSUME QuorumK >= 3, HhiThreshold >= 500, Cardinality(PoolIds) < 500
  PROVE  DiversitySpec => []GraftsHold
<1>. DEFINE Inv == \A f \in fires : Grounded(f) /\ Collapsed(f)
<1>0. QuorumK >= 2
  BY DiversityAssumption
<1>1. DiversityInit => Inv
  BY DEF DiversityInit
<1>2. DetectorInv /\ Inv /\ [DiversityNext]_diverseVars => Inv'
  BY <1>0, FiresStay
<1>3. DetectorInv /\ Inv => GraftsHold
  <2>. SUFFICES ASSUME DetectorInv, Inv PROVE GraftsHold
    OBVIOUS
  <2>1. DetectorTypes /\ ReadingsInOrder /\ FiresCooled /\ ReadBeforeDecided
    BY DEF DetectorInv
  <2>2. DiversityTypeOK
    <3>1. /\ roundAt.round \in 1 .. LastRound + 1
          /\ roundAt.step \in {"generate", "cluster", "clustered", "collapse", "decide", "fired"}
          /\ clusterMark.seen \subseteq PoolIds /\ DOMAIN clusterMark.map \subseteq PoolIds
      BY <2>1 DEF DetectorTypes, RoundStates, MarkStates, Maps
    <3>2. \A k \in DOMAIN readings : readings[k] \in Reading
      BY <2>1 DEF DetectorTypes
    <3>. QED
      BY <2>1, <3>1, <3>2 DEF DetectorTypes, DiversityTypeOK, Reading
  <2>3. FiresOnCollapse
    BY DEF FiresOnCollapse, Grounded, Collapsed
  <2>4. ReadingIsOfTheMap
    BY <2>1 DEF ReadBeforeDecided, Fits, ReadingIsOfTheMap
  <2>. QED
    BY <2>1, <2>2, <2>3, <2>4 DEF GraftsHold
<1>. HIDE DEF Inv
<1>. QED
  BY <1>1, <1>2, <1>3, DetectorIsKept, PTL DEF DiversitySpec
=============================================================================
