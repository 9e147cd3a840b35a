--------------------------- MODULE ResearchProofs ---------------------------
(***************************************************************************)
(* Proofs about Research: what a checkpoint that is resumed any number of  *)
(* times pays, keeps and forgets.                                          *)
(***************************************************************************)
EXTENDS Research, Integers, FiniteSetTheorems, WellFoundedInduction, TLAPS

Slots == {"explore", "develop"} \X Rounds \X (Approaches \cup {0}) \X (1 .. PerCall)
KeyOf(i) == Key(idea[i].slot[1], idea[i].slot[2], idea[i].slot[3])

IdeaRows == [status : {"none", "active", "archived"}, born : 0 .. MaxRounds, slot : Slots \cup {<<>>}]
Verdicts == [readiness : {"none", "clean", "open", "clear", "reframe", "develop", "verify"} \cup Readiness,
             grade : Nat, round : Rounds]
Syntheses == [round : Rounds, frame : 0 .. MaxRounds, digest : SUBSET Notes, used : SUBSET Ids,
              clean : BOOLEAN, saw : SUBSET Notes]
Challenges == [round : Rounds, next : {"none", "clean", "open", "clear", "reframe", "develop", "verify"} \cup Readiness,
               targets : SUBSET Ids]
Places == [round : 0 .. MaxRounds + 1, notes : SUBSET Notes, jobs : SUBSET Keys, todo : SUBSET Keys,
           index : Nat, selected : SUBSET Ids, fresh : SUBSET Keys]

Steps == {"boundary", "digest", "frame", "decide", "reframe", "explore", "develop", "add", "plan",
          "verify", "integrate", "synthesize", "challenge", "close"}
Checked == {"integrate", "synthesize", "challenge", "close"}
Searched == {"plan", "verify"} \cup Checked
Decided == {"reframe", "explore", "develop", "add"} \cup Searched
Reporting == {"report", "resynthesize", "rechallenge", "publish", "over"}

\* Every variable has its type, and points at what is there.
Typed ==
  /\ idea \in [Ids -> IdeaRows]
  /\ DOMAIN unit \subseteq Keys
  /\ \A k \in DOMAIN unit : unit[k] \in Answers /\ unit[k].set \subseteq Born
  /\ frame \in 0 .. MaxRounds
  /\ DOMAIN decision \subseteq Rounds
  /\ \A n \in DOMAIN decision : n <= closed + 1 /\ decision[n] \in {"explore", "reframe", "develop", "verify"}
  /\ DOMAIN plan \subseteq DOMAIN decision
  /\ \A n \in DOMAIN plan : plan[n] \subseteq Born
  /\ DOMAIN member \subseteq Born /\ \A i \in DOMAIN member : member[i] \in Routes
  /\ DOMAIN assessed \subseteq Born /\ \A i \in DOMAIN assessed : assessed[i] \in Verdicts
  /\ synthesis \in Syntheses \cup {Nothing} /\ challenge \in Challenges \cup {Nothing}
  /\ synthesis # Nothing => synthesis.used \subseteq Born
  /\ queue \subseteq Notes /\ noted \subseteq Notes /\ digest \subseteq noted
  /\ round \in 0 .. MaxRounds /\ target \in Rounds /\ closed \in 0 .. target
  /\ at \in Places /\ at.notes \subseteq noted /\ at.selected \subseteq Born
  /\ faults \in Nat

\* Where the supervisor is says which checkpoint it is about and what it has asked for.
Placed ==
  /\ pc \in Steps \cup Reporting \cup {"off"}
  /\ pc \in Steps => at.round = closed + 1 /\ closed < target
  /\ pc \in {"resynthesize", "rechallenge"} => at.round \in Rounds
  /\ pc \in Decided => at.round \in DOMAIN decision
  /\ pc \in {"verify"} \cup Checked => at.round \in DOMAIN plan
  /\ pc = "reframe" => decision[at.round] = "reframe"
  /\ pc = "explore" => decision[at.round] # "verify" /\ frame # 0
  /\ pc = "develop" => decision[at.round] = "develop"
  /\ pc \in {"frame", "reframe"} => at.jobs \subseteq {Key("framing", at.round, 0)}
  /\ pc = "explore" => at.jobs \subseteq {Key("explore", at.round, a) : a \in Approaches}
  /\ pc = "develop" => at.jobs \subseteq {Key("develop", at.round, 0)}
  /\ pc = "verify" => at.jobs \subseteq {Key("verification", at.round, i) : i \in plan[at.round]}
  /\ pc \in {"synthesize", "resynthesize"} => at.jobs \subseteq {Key("synthesis", at.round, 0)}
  /\ pc \in {"challenge", "rechallenge"} => at.jobs \subseteq {Key("challenge", at.round, 0)}
  /\ pc = "add" => /\ at.todo # {} /\ at.index >= 1
                   /\ \A k \in at.todo : k[1] \in {"explore", "develop"} /\ k[2] = at.round /\ Good(k)

\* The units of a checkpoint are those of what it was decided to do.
Kinds ==
  \A k \in DOMAIN unit :
    /\ k[1] = "explore" => frame # 0 /\ k[2] \in DOMAIN decision /\ decision[k[2]] # "verify"
    /\ k[1] = "develop" => k[2] \in DOMAIN decision /\ decision[k[2]] = "develop"
    /\ k[1] = "verification" => k[2] \in DOMAIN plan /\ k[3] \in plan[k[2]]

\* Rows are numbered as they come, and each is what a recorded result was made into.
Pooled ==
  /\ \E n \in 0 .. MaxIdeas : Born = 1 .. n
  /\ \A i \in Born : idea[i].slot \in Slots /\ idea[i].born = idea[i].slot[2]
                     /\ idea[i].born <= closed + 1 /\ Good(KeyOf(i))
  /\ OneCandidatePerSlot

Paid == answers \in [Keys -> Nat] /\ \A k \in Keys : answers[k] = IF k \in DOMAIN unit THEN 1 ELSE 0

\* A candidate without a route is one this supervisor, or a later one, still has at hand.
AtHand(i) ==
  /\ idea[i].born = closed + 1
  /\ pc \notin Searched
  /\ pc \in {"explore", "develop"} => KeyOf(i) \in at.jobs
  /\ pc = "add" => KeyOf(i) \in at.todo
  /\ pc = "reframe" => idea[i].slot[1] = "explore"

Settled(i) == i \in DOMAIN member \/ FellBack(idea[i].born)

Routed ==
  /\ \A i \in Active : Settled(i) \/ AtHand(i)
  /\ \A n \in DOMAIN plan : \A i \in plan[n] : Settled(i)
  /\ \A i \in DOMAIN assessed : Settled(i)

\* A recorded verdict on a candidate that was planned for is at hand, then applied.
Heard ==
  /\ pc = "verify" => \A i \in Active :
       Good(Key("verification", at.round, i)) => Key("verification", at.round, i) \in at.jobs
  /\ pc \in Checked => \A i \in Active :
       Good(Key("verification", at.round, i)) => i \in DOMAIN assessed /\ assessed[i].round = at.round

\* The answer on the workspace is a recorded one, and so is the challenge, which is of it.
Answered ==
  /\ synthesis # Nothing => Good(Key("synthesis", synthesis.round, 0))
  /\ ChallengeOfAnswer
  /\ pc \in {"challenge", "rechallenge"} => synthesis # Nothing /\ synthesis.round = at.round

\* Targeted work is followed by fresh search.
Alternates ==
  \A n \in DOMAIN decision :
    n - 1 \in DOMAIN decision /\ decision[n - 1] \in {"develop", "verify", "reframe"}
      => decision[n] \in {"explore", "reframe"}

\* As long as no supervisor was lost, the notes of the digest are those every answer was given.
Guided ==
  faults = 0 =>
    /\ pc # "digest" => digest = noted
    /\ pc \in {"off", "boundary", "digest"} => round = closed
    /\ pc \in Steps \ {"boundary", "digest"} => round = at.round /\ at.notes = noted
    /\ pc = "digest" => at.notes = noted
    /\ pc \in Reporting => closed = round /\ round # 0
    /\ pc \in {"resynthesize", "rechallenge"} => at.notes = noted /\ at.round = round
    /\ \A n \in Rounds : Good(Key("synthesis", n, 0)) =>
         n <= round /\ (n = round => unit[Key("synthesis", n, 0)].saw = digest)
    /\ synthesis # Nothing => synthesis.saw = synthesis.digest

ResInv == Typed /\ Placed /\ Kinds /\ Pooled /\ Paid /\ Routed /\ Heard /\ Answered /\ Alternates /\ Guided

-----------------------------------------------------------------------------
(* Constants, keys and the least of some numbers. *)

LEMMA Numbers ==
  /\ MaxRounds \in Nat /\ MaxRounds >= 1 /\ PerCall \in Nat /\ PerCall >= 1
  /\ MaxIdeas \in Nat /\ MaxIdeas >= 1 /\ Limit \in Nat /\ Limit >= 1
  /\ MaxFaults \in Nat /\ FirstTarget \in Rounds
  /\ Approaches \subseteq Nat \ {0} /\ Grades \subseteq Nat
BY ResearchAssumption DEF Rounds

LEMMA KeyParts ==
  ASSUME NEW r, NEW n, NEW i
  PROVE  Key(r, n, i)[1] = r /\ Key(r, n, i)[2] = n /\ Key(r, n, i)[3] = i
BY DEF Key

LEMMA KeysAre ==
  ASSUME NEW k \in Keys
  PROVE  /\ k = Key(k[1], k[2], k[3]) /\ k[2] \in Rounds /\ k[3] \in Nat
         /\ k[1] \in {"framing", "explore", "develop", "verification", "synthesis", "challenge"}
         /\ k[1] = "explore" => k[3] \in Approaches
         /\ k[1] \in {"framing", "develop", "synthesis", "challenge"} => k[3] = 0
         /\ k[1] = "verification" => k[3] \in Ids
<1>1. CASE k \in {"framing", "develop", "synthesis", "challenge"} \X Rounds \X {0}
  BY <1>1 DEF Key
<1>2. CASE k \in {"explore"} \X Rounds \X Approaches
  <2>1. \A a \in Approaches : a \in Nat
    BY Numbers
  <2>2. k = <<k[1], k[2], k[3]>> /\ k[1] = "explore" /\ k[2] \in Rounds /\ k[3] \in Approaches
    BY <1>2
  <2>. QED
    BY <2>1, <2>2 DEF Key
<1>3. CASE k \in {"verification"} \X Rounds \X Ids
  BY <1>3, Numbers DEF Key, Ids
<1>. QED
  BY <1>1, <1>2, <1>3 DEF Keys

LEMMA KeysInclude ==
  ASSUME NEW n \in Rounds
  PROVE  /\ {Key("framing", n, 0), Key("develop", n, 0), Key("synthesis", n, 0), Key("challenge", n, 0)} \subseteq Keys
         /\ \A a \in Approaches : Key("explore", n, a) \in Keys
         /\ \A i \in Ids : Key("verification", n, i) \in Keys
BY DEF Keys, Key

Lesser == {p \in Nat \X Nat : p[1] < p[2]}

LEMMA LeastOf == ASSUME NEW S \in SUBSET Nat, S # {} PROVE \E m \in S : \A n \in S : m <= n
<1>1. IsWellFoundedOn(Lesser, Nat)
  BY NatLessThanWellFounded DEF OpToRel, Lesser
<1>2. \E m \in S : \A n \in S : ~(<<n, m>> \in Lesser)
  BY <1>1, WFMin
<1>3. \A n, m \in Nat : <<n, m>> \notin Lesser => m <= n
  BY DEF Lesser
<1>. QED
  BY <1>2, <1>3

(* The result that is made into candidates next is one of those at hand. *)
LEMMA CurrentIsAtHand == ASSUME at.todo \subseteq Keys, at.todo # {} PROVE Current \in at.todo
<1>. DEFINE S == {k[3] : k \in at.todo}
<1>1. S \in SUBSET Nat /\ S # {}
  BY KeysAre
<1>2. PICK m \in S : \A n \in S : m <= n
  BY <1>1, LeastOf
<1>3. PICK k \in at.todo : k[3] = m
  BY <1>2
<1>4. \A j \in at.todo : k[3] <= j[3]
  BY <1>2, <1>3
<1>. QED
  BY <1>3, <1>4 DEF Current

-----------------------------------------------------------------------------
(* The portfolio: who is in it comes from the candidates, and it is empty   *)
(* only when all of them were contradicted.                                 *)

LEMMA PortfolioInside ==
  ASSUME NEW candidates, NEW seen, NEW limit
  PROVE  Portfolio(candidates, seen, limit) \subseteq candidates
BY DEF Portfolio

(* Who is ahead of whom is one strict order of the candidates. *)
LEMMA AheadIsAnOrder ==
  ASSUME NEW S \in SUBSET Ids, NEW seen, \A i \in DOMAIN seen : seen[i].grade \in Nat,
         \A i \in Ids : idea[i].born \in Nat,
         NEW i \in S, NEW j \in S, NEW k \in S
  PROVE  /\ ~Ahead(i, i, S, seen)
         /\ Ahead(i, j, S, seen) /\ Ahead(j, k, S, seen) => Ahead(i, k, S, seen)
<1>. DEFINE v(x) == Vector(x, seen)
            Total(x) == v(x)[1] + v(x)[2]
            Dominated(x) == \E h \in S : v(h) # v(x) /\ v(h)[1] >= v(x)[1] /\ v(h)[2] >= v(x)[2]
<1>1. \A x \in S : Total(x) \in Nat
  BY DEF Vector
<1>2. \A x, y \in S : Ahead(x, y, S, seen) <=>
        IF Dominated(x) # Dominated(y) THEN Dominated(y)
        ELSE IF Total(x) # Total(y) THEN Total(x) > Total(y)
        ELSE IF idea[x].born # idea[y].born THEN idea[x].born > idea[y].born
        ELSE x < y
  BY DEF Ahead
<1>3. \A x \in S : Dominated(x) \in BOOLEAN
  OBVIOUS
<1>4. \A x \in S : x \in Nat /\ idea[x].born \in Nat
  BY Numbers DEF Ids
<1>. HIDE DEF Total, Dominated
<1>. QED
  BY <1>1, <1>2, <1>3, <1>4

LEMMA PrecedesIsAnOrder ==
  ASSUME NEW S \in SUBSET Ids, NEW seen, \A i \in DOMAIN seen : seen[i].grade \in Nat,
         \A i \in Ids : idea[i].born \in Nat,
         NEW i \in S, NEW j \in S, NEW k \in S
  PROVE  /\ ~Precedes(i, i, S, seen)
         /\ Precedes(i, j, S, seen) /\ Precedes(j, k, S, seen) => Precedes(i, k, S, seen)
<1>. DEFINE First(x) == \A h \in S \ {x} : Route(h) = Route(x) => Ahead(x, h, S, seen)
<1>1. \A x, y \in S : Precedes(x, y, S, seen) <=>
        IF First(x) # First(y) THEN First(x) ELSE Ahead(x, y, S, seen)
  BY DEF Precedes
<1>2. \A x \in S : First(x) \in BOOLEAN
  OBVIOUS
<1>. HIDE DEF First
<1>3. /\ ~Ahead(i, i, S, seen)
      /\ Ahead(i, j, S, seen) /\ Ahead(j, k, S, seen) => Ahead(i, k, S, seen)
  BY AheadIsAnOrder
<1>. QED
  BY <1>1, <1>2, <1>3

(* Of the candidates nobody contradicted, one is preceded by none. *)
LEMMA PortfolioNotEmpty ==
  ASSUME NEW S \in SUBSET Ids, S # {}, NEW seen, \A i \in DOMAIN seen : seen[i].grade \in Nat,
         \A i \in Ids : idea[i].born \in Nat,
         \A i \in S : ~(i \in DOMAIN seen /\ seen[i].readiness = "contradicted")
  PROVE  \E i \in S : Cardinality({j \in S \ {i} : Precedes(j, i, S, seen)}) = 0
<1>. DEFINE before(i) == {j \in S \ {i} : Precedes(j, i, S, seen)}
            counts == {Cardinality(before(i)) : i \in S}
<1>1. \A i \in S : IsFiniteSet(before(i)) /\ Cardinality(before(i)) \in Nat
  <2>1. IsFiniteSet(Ids)
    BY Numbers, FS_Interval DEF Ids
  <2>2. \A i \in S : before(i) \in SUBSET Ids
    OBVIOUS
  <2>3. \A i \in S : IsFiniteSet(before(i))
    BY <2>1, <2>2, FS_Subset
  <2>. QED
    BY <2>3, FS_CardinalityType
<1>2. counts \in SUBSET Nat /\ counts # {}
  BY <1>1
<1>3. PICK m \in counts : \A n \in counts : m <= n
  <2>. HIDE DEF counts
  <2>. QED
    BY <1>2, LeastOf
<1>4. PICK i \in S : Cardinality(before(i)) = m
  BY <1>3
<1>5. before(i) = {}
  <2>. SUFFICES ASSUME before(i) # {} PROVE FALSE
    OBVIOUS
  <2>1. PICK j \in S : j \in before(i)
    OBVIOUS
  <2>2. before(j) \subseteq before(i) /\ j \notin before(j)
    <3>1. ASSUME NEW k \in before(j) PROVE k \in before(i)
      <4>1. k \in S /\ Precedes(k, j, S, seen) /\ Precedes(j, i, S, seen)
        BY <2>1, <3>1
      <4>2. Precedes(k, i, S, seen) /\ ~Precedes(i, i, S, seen)
        BY <4>1, PrecedesIsAnOrder
      <4>. QED
        BY <4>1, <4>2
    <3>. QED
      BY <3>1
  <2>3. Cardinality(before(j)) <= Cardinality(before(i))
        /\ (Cardinality(before(i)) = Cardinality(before(j)) => before(i) = before(j))
    <3>1. before(j) \in SUBSET before(i) /\ IsFiniteSet(before(i))
      BY <1>1, <2>2
    <3>. HIDE DEF before
    <3>. QED
      BY <3>1, FS_Subset
  <2>4. Cardinality(before(i)) <= Cardinality(before(j))
    BY <1>3, <1>4, <2>1
  <2>5. Cardinality(before(i)) \in Nat /\ Cardinality(before(j)) \in Nat
    BY <1>1, <2>1
  <2>6. before(i) = before(j)
    <3>. HIDE DEF before
    <3>. QED
      BY <2>3, <2>4, <2>5
  <2>. QED
    BY <2>1, <2>2, <2>6
<1>. QED
  BY <1>4, <1>5, FS_EmptySet

LEMMA SelectedInside ==
  /\ Selected \subseteq Active /\ Active \subseteq Born /\ Born \subseteq Ids
  /\ Verifiable \subseteq Active
<1>1. Selected \subseteq Active /\ Active \subseteq Born /\ Born \subseteq Ids
  BY PortfolioInside DEF Selected, Active, Born
<1>2. Verifiable \subseteq Active
  <2>. DEFINE revisit  == decision[at.round] = "verify"
              targeted == IF challenge = Nothing THEN {} ELSE challenge.targets
              open     == {i \in Active : i \notin DOMAIN assessed
                                          \/ (revisit /\ (targeted = {} \/ i \in targeted))}
              unseen   == [i \in {} |-> Nothing]
              pending  == Portfolio(open, unseen, Limit)
              priority == Portfolio(open \cap targeted, unseen, Limit)
              rest     == pending \ targeted
              filled   == {i \in rest : Cardinality({j \in rest \ {i} : Precedes(j, i, open, unseen)})
                                          < Limit - Cardinality(priority)}
  <2>1. Verifiable = IF revisit /\ targeted # {} THEN priority \cup filled ELSE pending
    BY DEF Verifiable
  <2>2. pending \subseteq open /\ priority \subseteq open /\ open \subseteq Active
    <3>1. pending \subseteq open /\ priority \subseteq open \cap targeted
      BY PortfolioInside
    <3>. QED
      BY <3>1
  <2>. HIDE DEF pending, priority, open, revisit, targeted
  <2>3. filled \subseteq pending
    OBVIOUS
  <2>. QED
    BY <2>1, <2>2, <2>3
<1>. QED
  BY <1>1, <1>2

(* While an active candidate has no verdict, something is selected. *)
LEMMA SelectedNotEmpty ==
  ASSUME Typed, NEW i \in Active, i \notin DOMAIN assessed
  PROVE  Selected # {}
<1>. DEFINE S == {j \in Active : ~(j \in DOMAIN assessed /\ assessed[j].readiness = "contradicted")}
<1>1. S \in SUBSET Ids /\ i \in S
  BY DEF Active
<1>2. \A j \in DOMAIN assessed : assessed[j].grade \in Nat
  BY DEF Typed, Verdicts
<1>3. \A j \in Ids : idea[j].born \in Nat
  BY Numbers DEF Typed, IdeaRows
<1>4. PICK m \in S : Cardinality({j \in S \ {m} : Precedes(j, m, S, assessed)}) = 0
  <2>1. \A j \in S : ~(j \in DOMAIN assessed /\ assessed[j].readiness = "contradicted")
    OBVIOUS
  <2>2. S # {}
    BY <1>1
  <2>. HIDE DEF S
  <2>. QED
    BY <1>1, <1>2, <1>3, <2>1, <2>2, PortfolioNotEmpty
<1>5. 0 < Limit
  BY Numbers
<1>. QED
  BY <1>4, <1>5 DEF Selected, Portfolio

-----------------------------------------------------------------------------
(* The steps. *)

LEMMA StepCases ==
  ASSUME [Next]_vars
  PROVE  \/ Boot \/ Drain \/ SaveDigest \/ SaveFrame \/ Decide \/ SaveReframe
         \/ \E key \in Keys : Answer(key)
         \/ Materialize \/ AddCandidate \/ SaveMembership \/ PlanVerification \/ SaveAssessments
         \/ Integrate
         \/ SaveSynthesis("synthesize", "challenge", "close")
         \/ SaveSynthesis("resynthesize", "rechallenge", "publish")
         \/ SaveChallenge("challenge", "close") \/ SaveChallenge("rechallenge", "publish")
         \/ Close \/ Report \/ Publish \/ Refuse \/ Stop \/ Leave \/ Continue
         \/ \E x \in Notes : GiveNote(x)
         \/ \E i \in Ids : Archive(i)
         \/ UNCHANGED vars
BY Zenon DEF Next, Step

LEMMA GotoFacts ==
  ASSUME at \in Places, NEW step, NEW jobs \in SUBSET Keys, Goto(step, jobs)
  PROVE  /\ pc' = step /\ at' \in Places /\ at'.jobs = jobs /\ at'.todo = {} /\ at'.index = 0
         /\ at'.round = at.round /\ at'.notes = at.notes /\ at'.selected = at.selected
BY DEF Goto, Places

LEMMA ExploreFacts ==
  ASSUME at \in Places, at.round \in Rounds, Explore
  PROVE  /\ at' \in Places /\ at'.todo = {}
         /\ at'.round = at.round /\ at'.notes = at.notes /\ at'.selected = at.selected
         /\ \/ frame = 0 /\ pc' = "plan" /\ at'.jobs = {}
            \/ /\ frame # 0 /\ pc' = "explore"
               /\ at'.jobs = {Key("explore", at.round, a) : a \in Approaches}
<1>1. CASE frame = 0
  BY <1>1, GotoFacts DEF Explore
<1>2. CASE frame # 0
  <2>1. {Key("explore", at.round, a) : a \in Approaches} \in SUBSET Keys
    BY KeysInclude
  <2>. HIDE DEF Key
  <2>. QED
    BY <1>2, <2>1, GotoFacts DEF Explore
<1>. QED
  BY <1>1, <1>2

(* A checkpoint is decided once, and this is what follows. *)
LEMMA DecideFacts ==
  ASSUME Typed, Placed, Decide
  PROVE  /\ at.round \in Rounds /\ at.round = closed + 1
         /\ DOMAIN decision' = DOMAIN decision \cup {at.round}
         /\ \A n \in DOMAIN decision : decision'[n] = decision[n]
         /\ decision'[at.round] \in {"explore", "reframe", "develop", "verify"}
         /\ at.round \notin DOMAIN decision => decision'[at.round] = NextAction(at.round)
         /\ at' \in Places /\ at'.todo = {}
         /\ at'.round = at.round /\ at'.notes = at.notes /\ at'.selected = at.selected
         /\ \/ /\ decision'[at.round] = "reframe" /\ pc' = "reframe"
               /\ at'.jobs = {Key("framing", at.round, 0)}
            \/ decision'[at.round] = "verify" /\ pc' = "plan" /\ at'.jobs = {}
            \/ /\ decision'[at.round] = "develop" /\ Selected # {} /\ pc' = "develop"
               /\ at'.jobs = {Key("develop", at.round, 0)}
            \/ /\ decision'[at.round] = "explore" \/ (decision'[at.round] = "develop" /\ Selected = {})
               /\ frame = 0 /\ pc' = "plan" /\ at'.jobs = {}
            \/ /\ decision'[at.round] = "explore" \/ (decision'[at.round] = "develop" /\ Selected = {})
               /\ frame # 0 /\ pc' = "explore"
               /\ at'.jobs = {Key("explore", at.round, a) : a \in Approaches}
<1>1. at.round = closed + 1 /\ closed < target /\ closed \in Nat /\ target \in Rounds /\ at \in Places
  BY Numbers DEF Decide, Placed, Typed, Steps, Rounds
<1>2. at.round \in Rounds
  BY <1>1, Numbers DEF Rounds
<1>3. NextAction(at.round) \in {"explore", "reframe", "develop", "verify"}
  BY DEF NextAction
<1>4. /\ DOMAIN decision' = DOMAIN decision \cup {at.round}
      /\ \A n \in DOMAIN decision : decision'[n] = decision[n]
      /\ at.round \notin DOMAIN decision => decision'[at.round] = NextAction(at.round)
  <2>1. CASE at.round \in DOMAIN decision
    BY <2>1 DEF Decide
  <2>2. CASE at.round \notin DOMAIN decision
    BY <2>2 DEF Decide
  <2>. QED
    BY <2>1, <2>2
<1>5. decision'[at.round] \in {"explore", "reframe", "develop", "verify"}
  BY <1>3, <1>4 DEF Typed
<1>6. Act(decision'[at.round])
  BY DEF Decide
<1>. DEFINE d == decision'[at.round]
<1>7. CASE d = "reframe"
  <2>1. Goto("reframe", {Key("framing", at.round, 0)})
    BY <1>6, <1>7 DEF Act
  <2>2. {Key("framing", at.round, 0)} \in SUBSET Keys
    BY <1>2, KeysInclude
  <2>. QED
    BY <1>1, <1>2, <1>4, <1>5, <1>7, <2>1, <2>2, GotoFacts
<1>8. CASE d = "verify"
  <2>1. Goto("plan", {})
    BY <1>6, <1>8 DEF Act
  <2>. QED
    BY <1>1, <1>2, <1>4, <1>5, <1>8, <2>1, GotoFacts
<1>9. CASE d = "develop" /\ Selected # {}
  <2>1. Goto("develop", {Key("develop", at.round, 0)})
    BY <1>6, <1>9 DEF Act
  <2>2. {Key("develop", at.round, 0)} \in SUBSET Keys
    BY <1>2, KeysInclude
  <2>. QED
    BY <1>1, <1>2, <1>4, <1>5, <1>9, <2>1, <2>2, GotoFacts
<1>10. CASE d = "explore" \/ (d = "develop" /\ Selected = {})
  <2>1. Explore
    BY <1>6, <1>10 DEF Act
  <2>. QED
    BY <1>1, <1>2, <1>4, <1>5, <1>10, <2>1, ExploreFacts
<1>. QED
  BY <1>5, <1>7, <1>8, <1>9, <1>10

-----------------------------------------------------------------------------
(* Types. *)

LEMMA IdleIsAPlace == Idle \in Places
BY Numbers DEF Idle, Places

(* A reply says what its unit may say, about candidates that are there. *)
LEMMA RepliesAre ==
  ASSUME Typed, NEW key \in Keys, NEW reply \in Replies(key)
  PROVE  /\ reply \in Answers /\ reply.ok /\ reply.saw = at.notes /\ reply.set \subseteq Born
         /\ key[1] = "verification" => reply.word \in Readiness /\ reply.grade \in Grades
<1>1. at.notes \in SUBSET Notes /\ at.selected \subseteq Born /\ Born \subseteq Ids
  BY DEF Typed, Places, Born
<1>. DEFINE Words == {"none", "clean", "open", "clear", "reframe", "develop", "verify"} \cup Readiness
<1>2. PICK w \in Words, s \in SUBSET at.selected, g \in Nat :
        reply = Reply(w, s, g) /\ (key[1] = "verification" => w \in Readiness /\ g \in Grades)
  <2>0. key[1] \in {"framing", "explore", "develop", "verification", "synthesis", "challenge"} /\ \A g \in Grades : g \in Nat
    BY KeysAre, Numbers
  <2>1. CASE key[1] \in {"framing", "explore", "develop"}
    <3>1. Replies(key) = {Reply("none", {}, 0)}
      BY <2>1 DEF Replies
    <3>2. "none" \in Words /\ {} \in SUBSET at.selected /\ 0 \in Nat /\ reply = Reply("none", {}, 0)
      BY <3>1
    <3>. QED
      BY <2>1, <3>2
  <2>2. CASE key[1] = "verification"
    <3>1. Replies(key) = {Reply(w, {}, g) : w \in Readiness, g \in Grades}
      BY <2>2 DEF Replies
    <3>2. PICK w \in Readiness, g \in Grades : reply = Reply(w, {}, g)
      BY <3>1
    <3>3. w \in Words /\ {} \in SUBSET at.selected /\ g \in Nat
      BY <2>0
    <3>. QED
      BY <3>2, <3>3
  <2>3. CASE key[1] = "synthesis"
    <3>1. Replies(key) = {Reply(w, s, 0) : w \in {"clean", "open"}, s \in (SUBSET at.selected) \ {{}}}
      BY <2>3 DEF Replies
    <3>2. PICK w \in {"clean", "open"}, s \in SUBSET at.selected : reply = Reply(w, s, 0)
      BY <3>1
    <3>. QED
      BY <2>3, <3>2
  <2>4. CASE key[1] = "challenge"
    <3>1. Replies(key) = {Reply(w, s, 0) : w \in {"clear", "reframe", "develop", "verify"},
                                           s \in {{}} \cup {{i} : i \in at.selected}}
      BY <2>4 DEF Replies
    <3>2. PICK w \in {"clear", "reframe", "develop", "verify"}, s \in SUBSET at.selected : reply = Reply(w, s, 0)
      BY <3>1
    <3>. QED
      BY <2>4, <3>2
  <2>. QED
    BY <2>0, <2>1, <2>2, <2>3, <2>4
<1>. QED
  BY <1>1, <1>2 DEF Reply, Answers

(* Steps of the supervisor that write nothing. *)
LEMMA OnlyMoves ==
  ASSUME Typed, Placed, Boot \/ Materialize \/ Integrate \/ Report \/ Refuse \/ Stop \/ Leave
  PROVE  /\ at' \in Places /\ at'.notes \subseteq noted /\ at'.selected \subseteq Born /\ faults' \in Nat
         /\ UNCHANGED <<idea, workspace, run, answers>>
<1>0. /\ at \in Places /\ at.notes \subseteq noted /\ at.selected \subseteq Born /\ faults \in Nat
      /\ round \in 0 .. MaxRounds /\ closed \in 0 .. MaxRounds /\ noted \subseteq Notes
      /\ Selected \subseteq Born /\ Born \subseteq Ids /\ Idle \in Places /\ MaxRounds \in Nat
  BY Numbers, SelectedInside, IdleIsAPlace DEF Typed, Rounds
<1>1. CASE Boot
  <2>1. at' = [Idle EXCEPT !.round = closed + 1] /\ UNCHANGED <<idea, workspace, run, answers, faults>>
    BY <1>1 DEF Boot
  <2>. QED
    BY <1>0, <2>1 DEF Places, Idle
<1>2. CASE Materialize
  <2>1. /\ at' = [at EXCEPT !.todo = Results, !.index = 1, !.jobs = {}]
        /\ UNCHANGED <<idea, workspace, run, answers, faults>>
    BY <1>2 DEF Materialize
  <2>2. Results \subseteq Keys
    BY <1>0 DEF Results, Places
  <2>. QED
    BY <1>0, <2>1, <2>2 DEF Places
<1>3. CASE Integrate
  <2>0. UNCHANGED <<idea, workspace, run, answers, faults>> /\ AskSynthesis("synthesize", "close")
        /\ at.round = closed + 1 /\ closed < target
    BY <1>3 DEF Integrate, Placed, Steps
  <2>1. CASE Selected = {}
    BY <1>0, <2>0, <2>1, GotoFacts DEF AskSynthesis
  <2>2. CASE Selected # {}
    <3>1. at.round \in Rounds
      BY <1>0, <2>0 DEF Typed, Rounds
    <3>2. {Key("synthesis", at.round, 0)} \in SUBSET Keys
      BY <3>1, KeysInclude
    <3>. HIDE DEF Key
    <3>. QED
      BY <1>0, <2>0, <2>2, <3>2 DEF AskSynthesis, Places
  <2>. QED
    BY <2>1, <2>2
<1>4. CASE Report
  <2>. DEFINE number == IF round = 0 THEN 1 ELSE round
  <2>0. UNCHANGED <<idea, workspace, run, answers, faults>>
    BY <1>4 DEF Report
  <2>1. number \in Rounds
    BY <1>0, Numbers DEF Rounds
  <2>2. \/ Goto("over", {}) \/ Goto("publish", {})
        \/ at' = [Idle EXCEPT !.round = number, !.notes = noted, !.selected = Selected,
                              !.jobs = {Key("synthesis", number, 0)}]
    BY <1>4 DEF Report
  <2>3. {Key("synthesis", number, 0)} \in SUBSET Keys
    BY <2>1, KeysInclude
  <2>. HIDE DEF Key, number
  <2>4. CASE Goto("over", {}) \/ Goto("publish", {})
    BY <1>0, <2>0, <2>4, GotoFacts
  <2>5. CASE at' = [Idle EXCEPT !.round = number, !.notes = noted, !.selected = Selected,
                                !.jobs = {Key("synthesis", number, 0)}]
    <3>1. number \in 0 .. MaxRounds + 1 /\ noted \in SUBSET Notes /\ Selected \in SUBSET Ids
      BY <1>0, <2>1 DEF Rounds
    <3>. QED
      BY <1>0, <2>0, <2>3, <2>5, <3>1 DEF Idle, Places
  <2>. QED
    BY <2>2, <2>4, <2>5
<1>5. CASE Refuse
  BY <1>0, <1>5 DEF Refuse, Places
<1>6. CASE Stop
  BY <1>0, <1>6, GotoFacts DEF Stop
<1>7. CASE Leave
  BY <1>0, <1>7 DEF Leave, Idle
<1>. QED
  BY <1>1, <1>2, <1>3, <1>4, <1>5, <1>6, <1>7

LEMMA TypedByMoves ==
  ASSUME Typed, at' \in Places, at'.notes \subseteq noted, at'.selected \subseteq Born, faults' \in Nat,
         UNCHANGED <<idea, workspace, run>>
  PROVE  Typed'
<1>1. /\ idea' = idea /\ unit' = unit /\ frame' = frame /\ decision' = decision /\ plan' = plan
      /\ member' = member /\ assessed' = assessed /\ synthesis' = synthesis /\ challenge' = challenge
      /\ digest' = digest /\ queue' = queue /\ noted' = noted /\ round' = round /\ closed' = closed
      /\ target' = target
  BY DEF workspace, run
<1>. QED
  BY <1>1 DEF Typed, Born

LEMMA FailedIsAnAnswer == Failed \in Answers /\ Failed.set = {} /\ ~Failed.ok
BY DEF Failed, Answers

(* What a result that arrives is recorded as. *)
LEMMA AnswerFacts ==
  ASSUME Typed, NEW key \in Keys, Answer(key)
  PROVE  /\ pc \in Waves /\ key \in at.jobs /\ key \notin DOMAIN unit
         /\ DOMAIN unit' = DOMAIN unit \cup {key}
         /\ \A k \in DOMAIN unit : unit'[k] = unit[k]
         /\ unit'[key] \in Answers /\ unit'[key].set \subseteq Born
         /\ unit'[key].ok => unit'[key].saw = at.notes /\ faults' = faults
         /\ faults' \in {faults, faults + 1}
         /\ answers' = [answers EXCEPT ![key] = @ + 1]
         /\ at' = [at EXCEPT !.fresh = @ \cup {key}]
         /\ UNCHANGED <<idea, frame, decision, plan, member, assessed, synthesis, challenge, digest, run, pc>>
<1>1. /\ pc \in Waves /\ key \in at.jobs /\ key \notin DOMAIN unit
      /\ answers' = [answers EXCEPT ![key] = @ + 1]
      /\ at' = [at EXCEPT !.fresh = @ \cup {key}]
      /\ UNCHANGED <<idea, frame, decision, plan, member, assessed, synthesis, challenge, digest, run, pc>>
  BY DEF Answer, Due
<1>2. PICK reply :
        /\ reply \in Replies(key) \/ (reply = Failed /\ faults' = faults + 1)
        /\ reply \in Replies(key) => faults' = faults
        /\ unit' = [k \in DOMAIN unit \cup {key} |-> IF k = key THEN reply ELSE unit[k]]
  <2>1. CASE \E reply \in Replies(key) :
               /\ unit' = [k \in DOMAIN unit \cup {key} |-> IF k = key THEN reply ELSE unit[k]]
               /\ UNCHANGED faults
    BY <2>1
  <2>2. CASE /\ faults < MaxFaults /\ faults' = faults + 1
             /\ unit' = [k \in DOMAIN unit \cup {key} |-> IF k = key THEN Failed ELSE unit[k]]
    <3>1. CASE Failed \in Replies(key)
      <4>1. Failed.ok
        BY <3>1, RepliesAre
      <4>. QED
        BY <4>1, FailedIsAnAnswer
    <3>2. CASE Failed \notin Replies(key)
      BY <2>2, <3>2
    <3>. QED
      BY <3>1, <3>2
  <2>. QED
    BY <2>1, <2>2 DEF Answer
<1>3. /\ reply \in Answers /\ reply.set \subseteq Born
      /\ reply.ok => reply.saw = at.notes /\ faults' = faults
      /\ faults' \in {faults, faults + 1}
  BY <1>2, RepliesAre, FailedIsAnAnswer
<1>. QED
  BY <1>1, <1>2, <1>3

LEMMA TypedByAnswer ==
  ASSUME Typed, NEW key \in Keys, Answer(key)
  PROVE  Typed'
<1>1. at' \in Places /\ at'.notes = at.notes /\ at'.selected = at.selected /\ faults' \in Nat
  <2>1. at' = [at EXCEPT !.fresh = at.fresh \cup {key}] /\ at \in Places /\ faults' \in {faults, faults + 1} /\ faults \in Nat
    BY AnswerFacts DEF Typed
  <2>2. at.fresh \cup {key} \in SUBSET Keys
    BY <2>1 DEF Places
  <2>. QED
    BY <2>1, <2>2 DEF Places
<1>2. /\ idea' = idea /\ frame' = frame /\ decision' = decision /\ plan' = plan
      /\ member' = member /\ assessed' = assessed /\ synthesis' = synthesis /\ challenge' = challenge
      /\ digest' = digest /\ queue' = queue /\ noted' = noted /\ round' = round /\ closed' = closed
      /\ target' = target /\ Born' = Born
  BY AnswerFacts DEF run, Born
<1>3. DOMAIN unit' \subseteq Keys /\ \A k \in DOMAIN unit' : unit'[k] \in Answers /\ unit'[k].set \subseteq Born
  BY AnswerFacts DEF Typed
<1>. QED
  BY <1>1, <1>2, <1>3 DEF Typed

(* Rows come one after the other, each under a slot of its own. *)
LEMMA AddFacts ==
  ASSUME Typed, Placed, Pooled, AddCandidate
  PROVE  /\ pc = "add" /\ Current \in at.todo /\ Slot \in Slots /\ Slot[2] = at.round /\ at.round \in Rounds
         /\ Key(Slot[1], Slot[2], Slot[3]) = Current /\ Good(Current)
         /\ at' = [at EXCEPT !.index = @ + 1] /\ at' \in Places
         /\ UNCHANGED <<workspace, run, pc, answers, faults>>
         /\ \/ idea' = idea
            \/ \E i \in Ids : /\ i \notin Born
                              /\ idea' = [idea EXCEPT ![i] = [status |-> "active", born |-> at.round, slot |-> Slot]]
                              /\ idea' \in [Ids -> IdeaRows]
                              /\ \A j \in Born : idea[j].slot # Slot
                              /\ \E n \in 0 .. MaxIdeas : Born \cup {i} = 1 .. n
<1>1. /\ pc = "add" /\ at.index <= PerCall /\ at.index >= 1 /\ at.index \in Nat /\ at \in Places
      /\ at.todo \subseteq Keys /\ at.todo # {} /\ at.round = closed + 1 /\ closed < target
      /\ at' = [at EXCEPT !.index = @ + 1]
      /\ UNCHANGED <<workspace, run, pc, answers, faults>>
  BY DEF AddCandidate, Typed, Placed, Places, Steps
<1>2. Current \in at.todo /\ Current \in Keys
  BY <1>1, CurrentIsAtHand
<1>3. Current[1] \in {"explore", "develop"} /\ Current[2] = at.round /\ Good(Current)
  BY <1>1, <1>2 DEF Placed
<1>4. at.round \in Rounds
  BY <1>1, Numbers DEF Typed, Rounds
<1>5. at.index \in 1 .. PerCall /\ at' \in Places
  BY <1>1, Numbers DEF Places
<1>6. Current = <<Current[1], Current[2], Current[3]>> /\ Current[3] \in Approaches \cup {0}
  BY <1>2, <1>3, KeysAre DEF Key
<1>7. Slot = <<Current[1], Current[2], Current[3], at.index>>
  BY DEF Slot
<1>8. Slot \in Slots /\ Slot[1] = Current[1] /\ Slot[2] = Current[2] /\ Slot[3] = Current[3]
  BY <1>3, <1>4, <1>5, <1>6, <1>7 DEF Slots
<1>9. Key(Slot[1], Slot[2], Slot[3]) = Current
  BY <1>6, <1>8 DEF Key
<1>10. ASSUME idea' # idea
       PROVE  \E i \in Ids : /\ i \notin Born
                             /\ idea' = [idea EXCEPT ![i] = [status |-> "active", born |-> at.round, slot |-> Slot]]
                             /\ idea' \in [Ids -> IdeaRows]
                             /\ \A j \in Born : idea[j].slot # Slot
                             /\ \E n \in 0 .. MaxIdeas : Born \cup {i} = 1 .. n
  <2>1. PICK i \in Ids : i = Cardinality(Born) + 1 /\ idea' = [idea EXCEPT ![i] = Insert]
    BY <1>10 DEF AddCandidate
  <2>2. \A j \in Born : idea[j].slot # Slot
    BY <1>10 DEF AddCandidate
  <2>3. PICK n \in 0 .. MaxIdeas : Born = 1 .. n
    BY DEF Pooled
  <2>4. Cardinality(Born) = n
    <3>1. n \in Int /\ 1 \in Int /\ n >= 0
      BY <2>3, Numbers
    <3>. QED
      BY <2>3, <3>1, FS_Interval
  <2>5. i \notin Born /\ Born \cup {i} = 1 .. i /\ i \in 0 .. MaxIdeas
    <3>1. i = n + 1 /\ n \in Nat /\ i \in 1 .. MaxIdeas
      BY <2>1, <2>3, <2>4, Numbers DEF Ids
    <3>2. \A j \in Int : j \in 1 .. n + 1 <=> (j \in 1 .. n \/ j = n + 1)
      BY <3>1
    <3>. QED
      BY <2>3, <3>1, <3>2, Numbers
  <2>6. Insert = [status |-> "active", born |-> at.round, slot |-> Slot]
    BY DEF Insert
  <2>7. Insert \in IdeaRows
    BY <1>4, <1>8, <2>6, Numbers DEF IdeaRows, Rounds
  <2>8. idea' \in [Ids -> IdeaRows]
    BY <2>1, <2>7 DEF Typed
  <2>. QED
    BY <2>1, <2>2, <2>5, <2>6, <2>8
<1>. QED
  BY <1>1, <1>2, <1>3, <1>4, <1>5, <1>8, <1>9, <1>10

(* What a new row leaves as it was. *)
LEMMA RowAdded ==
  ASSUME Typed, NEW i \in Ids, i \notin Born, NEW r, r.status = "active", idea' = [idea EXCEPT ![i] = r]
  PROVE  /\ Born' = Born \cup {i} /\ Active' = Active \cup {i}
         /\ idea'[i] = r /\ \A j \in Born : idea'[j] = idea[j]
BY DEF Typed, Born, Active

LEMMA TypedByAdding ==
  ASSUME Typed, Placed, Pooled, AddCandidate
  PROVE  Typed'
<1>1. /\ idea' \in [Ids -> IdeaRows] /\ Born \subseteq Born'
  <2>1. CASE idea' = idea
    BY <2>1 DEF Typed, Born
  <2>2. CASE \E i \in Ids : /\ i \notin Born
                            /\ idea' = [idea EXCEPT ![i] = [status |-> "active", born |-> at.round, slot |-> Slot]]
                            /\ idea' \in [Ids -> IdeaRows]
    <3>1. PICK i \in Ids : /\ i \notin Born
                          /\ idea' = [idea EXCEPT ![i] = [status |-> "active", born |-> at.round, slot |-> Slot]]
                          /\ idea' \in [Ids -> IdeaRows]
      BY <2>2
    <3>. QED
      BY <3>1, RowAdded
  <2>. QED
    BY <2>1, <2>2, AddFacts
<1>2. at' \in Places /\ at'.notes = at.notes /\ at'.selected = at.selected
  BY AddFacts DEF Typed, Places
<1>3. /\ frame' = frame /\ decision' = decision /\ plan' = plan /\ unit' = unit
      /\ member' = member /\ assessed' = assessed /\ synthesis' = synthesis /\ challenge' = challenge
      /\ digest' = digest /\ queue' = queue /\ noted' = noted /\ round' = round /\ closed' = closed
      /\ target' = target /\ faults' = faults
  BY AddFacts DEF run, workspace
<1>. QED
  BY <1>1, <1>2, <1>3 DEF Typed

(* A candidate set aside stays a row. *)
LEMMA ArchiveFacts ==
  ASSUME Typed, NEW i \in Ids, Archive(i)
  PROVE  /\ idea' \in [Ids -> IdeaRows] /\ Born' = Born /\ Active' \subseteq Active
         /\ \A j \in Ids : idea'[j].born = idea[j].born /\ idea'[j].slot = idea[j].slot
         /\ UNCHANGED <<workspace, run, pc, at, answers, faults>>
<1>1. /\ i \in Active /\ idea' = [idea EXCEPT ![i] = [idea[i] EXCEPT !.status = "archived"]]
      /\ UNCHANGED <<workspace, run, pc, at, answers, faults>>
  BY DEF Archive
<1>2. /\ [idea[i] EXCEPT !.status = "archived"] \in IdeaRows
      /\ [idea[i] EXCEPT !.status = "archived"].status = "archived"
      /\ [idea[i] EXCEPT !.status = "archived"].born = idea[i].born
      /\ [idea[i] EXCEPT !.status = "archived"].slot = idea[i].slot
  BY <1>1 DEF Typed, IdeaRows
<1>. DEFINE r == [idea[i] EXCEPT !.status = "archived"]
<1>. HIDE DEF r
<1>3. \A j \in Ids : idea'[j] = IF j = i THEN r ELSE idea[j]
  BY <1>1 DEF r, Typed
<1>. QED
  BY <1>1, <1>2, <1>3 DEF r, Typed, Born, Active

(* The candidates of a result are put on its route. *)
LEMMA MembershipFacts ==
  ASSUME Typed, Placed, SaveMembership
  PROVE  /\ pc = "add" /\ Current \in at.todo /\ Current[2] = at.round /\ at.round \in Rounds
         /\ DOMAIN member' = DOMAIN member \cup Mine /\ Mine \subseteq Born
         /\ \A i \in DOMAIN member' : member'[i] \in Routes
         /\ at' = [at EXCEPT !.todo = at.todo \ {Current}, !.index = 1] /\ at' \in Places
         /\ IF at.todo = {Current} THEN pc' = "plan" ELSE pc' = "add"
         /\ UNCHANGED <<idea, unit, frame, decision, plan, assessed, synthesis, challenge, digest,
                        run, answers, faults>>
<1>1. /\ pc = "add" /\ at \in Places /\ at.todo \subseteq Keys /\ at.todo # {} /\ at.round = closed + 1 /\ closed < target
      /\ IF at.todo = {Current} THEN pc' = "plan" ELSE pc' = "add"
      /\ UNCHANGED <<idea, unit, frame, decision, plan, assessed, synthesis, challenge, digest,
                     run, answers, faults>>
      /\ member' = [i \in DOMAIN member \cup Mine |->
                      IF i \in DOMAIN member THEN member[i]
                      ELSE IF Current[1] = "explore" THEN <<frame, Current[3]>> ELSE <<at.round, 0>>]
  BY DEF SaveMembership, Typed, Placed, Places, Steps
<1>2. Current \in at.todo /\ Current \in Keys
  BY <1>1, CurrentIsAtHand
<1>3. Current[1] \in {"explore", "develop"} /\ Current[2] = at.round /\ at.round \in Rounds
  BY <1>1, <1>2, Numbers DEF Placed, Typed, Rounds
<1>4. <<frame, Current[3]>> \in Routes \/ Current[1] # "explore"
  BY <1>2, KeysAre DEF Routes, Typed
<1>5. <<at.round, 0>> \in Routes
  BY <1>3, Numbers DEF Routes, Rounds
<1>6. \A i \in DOMAIN member' : member'[i] \in Routes
  BY <1>1, <1>4, <1>5 DEF Typed
<1>7. at' = [at EXCEPT !.todo = at.todo \ {Current}, !.index = 1]
  BY DEF SaveMembership
<1>8. at' \in Places
  <2>1. at.todo \ {Current} \in SUBSET Keys
    BY <1>1
  <2>. QED
    BY <1>1, <1>7, <2>1 DEF Places
<1>9. Mine \subseteq Born
  BY DEF Mine
<1>. QED
  BY <1>1, <1>2, <1>3, <1>6, <1>7, <1>8, <1>9

(* Verdicts are of candidates the checkpoint planned for. *)
LEMMA AssessmentFacts ==
  ASSUME Typed, Placed, SaveAssessments
  PROVE  /\ pc = "verify" /\ pc' = "integrate" /\ at.round \in Rounds /\ at.round \in DOMAIN plan
         /\ \E heard \in SUBSET plan[at.round] :
              /\ \A i \in plan[at.round] : i \in heard <=> Key("verification", at.round, i) \in at.jobs
                                                          /\ Good(Key("verification", at.round, i))
              /\ DOMAIN assessed' = DOMAIN assessed \cup heard
              /\ \A i \in heard : assessed'[i].round = at.round
              /\ \A i \in DOMAIN assessed \ heard : assessed'[i] = assessed[i]
         /\ \A i \in DOMAIN assessed' : assessed'[i] \in Verdicts
         /\ at' \in Places /\ at'.notes = at.notes /\ at'.selected = at.selected /\ at'.round = at.round
         /\ UNCHANGED <<idea, unit, frame, decision, plan, member, synthesis, challenge, digest,
                        run, answers, faults>>
<1>1. /\ pc = "verify" /\ at \in Places /\ at.round = closed + 1 /\ closed < target /\ at.round \in DOMAIN plan
      /\ at.jobs \subseteq {Key("verification", at.round, i) : i \in plan[at.round]}
      /\ Goto("integrate", {})
      /\ UNCHANGED <<idea, unit, frame, decision, plan, member, synthesis, challenge, digest,
                     run, answers, faults>>
  BY DEF SaveAssessments, WaveDone, Typed, Placed, Steps
<1>2. at.round \in Rounds
  BY <1>1, Numbers DEF Typed, Rounds
<1>. DEFINE heard == {k[3] : k \in Results}
            v(i) == [readiness |-> unit[Key("verification", at.round, i)].word,
                     grade |-> unit[Key("verification", at.round, i)].grade, round |-> at.round]
<1>3. assessed' = [i \in DOMAIN assessed \cup heard |-> IF i \in heard THEN v(i) ELSE assessed[i]]
  BY DEF SaveAssessments
<1>4. heard \subseteq plan[at.round]
  BY <1>1, KeyParts DEF Results
<1>5. ASSUME NEW i \in plan[at.round]
      PROVE  i \in heard <=> Key("verification", at.round, i) \in at.jobs /\ Good(Key("verification", at.round, i))
  <2>1. ASSUME i \in heard
        PROVE  Key("verification", at.round, i) \in at.jobs /\ Good(Key("verification", at.round, i))
    <3>1. PICK k \in at.jobs : Good(k) /\ k[3] = i
      BY <2>1 DEF Results
    <3>2. PICK j \in plan[at.round] : k = Key("verification", at.round, j)
      BY <1>1, <3>1
    <3>3. j = i
      BY <3>1, <3>2, KeyParts
    <3>. QED
      BY <3>1, <3>2, <3>3
  <2>2. ASSUME Key("verification", at.round, i) \in at.jobs, Good(Key("verification", at.round, i))
        PROVE  i \in heard
    BY <2>2, KeyParts DEF Results
  <2>. QED
    BY <2>1, <2>2
<1>6. \A i \in heard : v(i) \in Verdicts /\ v(i).round = at.round
  <2>. SUFFICES ASSUME NEW i \in heard PROVE v(i) \in Verdicts /\ v(i).round = at.round
    OBVIOUS
  <2>1. unit[Key("verification", at.round, i)] \in Answers
    BY <1>4, <1>5 DEF Good, Typed
  <2>. QED
    BY <1>2, <2>1 DEF Answers, Verdicts
<1>. HIDE DEF heard, v
<1>7. \A i \in DOMAIN assessed' : assessed'[i] \in Verdicts
  BY <1>3, <1>6 DEF Typed
<1>8. /\ DOMAIN assessed' = DOMAIN assessed \cup heard
      /\ \A i \in heard : assessed'[i].round = at.round
      /\ \A i \in DOMAIN assessed \ heard : assessed'[i] = assessed[i]
  BY <1>3, <1>6
<1>9. /\ at' \in Places /\ at'.notes = at.notes /\ at'.selected = at.selected /\ at'.round = at.round
      /\ pc' = "integrate"
  BY <1>1, GotoFacts
<1>. QED
  BY <1>1, <1>2, <1>4, <1>5, <1>7, <1>8, <1>9

(* The answer that is saved is the one on record. *)
LEMMA SynthesisFacts ==
  ASSUME Typed, Placed, NEW step, NEW challenged, NEW next, SaveSynthesis(step, challenged, next),
         step \in {"synthesize", "resynthesize"}
  PROVE  /\ pc = step /\ at.round \in Rounds
         /\ at' \in Places /\ at'.round = at.round /\ at'.notes = at.notes /\ at'.selected = at.selected
         /\ UNCHANGED <<idea, unit, frame, decision, plan, member, assessed, digest, run, answers, faults>>
         /\ \/ UNCHANGED <<synthesis, challenge>> /\ pc' = next /\ at'.jobs = {}
            \/ /\ Good(Key("synthesis", at.round, 0)) /\ challenge' = Nothing
               /\ synthesis' \in Syntheses /\ synthesis'.used \subseteq Born /\ synthesis' # Nothing
               /\ synthesis'.round = at.round /\ synthesis'.digest = digest
               /\ synthesis'.saw = unit[Key("synthesis", at.round, 0)].saw
               /\ pc' = challenged /\ at'.jobs = {Key("challenge", at.round, 0)}
<1>1. /\ pc = step /\ at \in Places /\ at.jobs \subseteq {Key("synthesis", at.round, 0)}
      /\ UNCHANGED <<idea, unit, frame, decision, plan, member, assessed, digest, run, answers, faults>>
  BY DEF SaveSynthesis, WaveDone, Placed, Typed
<1>2. at.round \in Rounds
  <2>1. CASE step = "resynthesize"
    BY <1>1, <2>1 DEF Placed
  <2>2. CASE step = "synthesize"
    <3>1. at.round = closed + 1 /\ closed < target
      BY <1>1, <2>2 DEF Placed, Steps
    <3>. QED
      BY <3>1, Numbers DEF Typed, Rounds
  <2>. QED
    BY <2>1, <2>2
<1>3. CASE Results = {}
  <2>1. UNCHANGED <<synthesis, challenge>> /\ Goto(next, {})
    BY <1>3 DEF SaveSynthesis
  <2>. QED
    BY <1>1, <1>2, <2>1, GotoFacts
<1>4. CASE Results # {}
  <2>. DEFINE k == Key("synthesis", at.round, 0)
              u == unit[k]
  <2>1. Good(k) /\ u \in Answers /\ u.set \subseteq Born
    BY <1>1, <1>4 DEF Results, Typed, Good
  <2>2. synthesis' = Synthesis(u) /\ challenge' = Nothing /\ Goto(challenged, {Key("challenge", at.round, 0)})
    BY <1>4 DEF SaveSynthesis
  <2>3. {Key("challenge", at.round, 0)} \in SUBSET Keys
    BY <1>2, KeysInclude
  <2>4. digest \in SUBSET Notes /\ frame \in 0 .. MaxRounds /\ (u.word = "clean") \in BOOLEAN
    BY DEF Typed
  <2>. HIDE DEF u, k
  <2>5. Synthesis(u) = [round |-> at.round, frame |-> frame, digest |-> digest, used |-> u.set,
                        clean |-> u.word = "clean", saw |-> u.saw]
    BY DEF Synthesis
  <2>6. /\ Synthesis(u) \in Syntheses /\ Synthesis(u).used = u.set /\ Synthesis(u).round = at.round
        /\ Synthesis(u).digest = digest /\ Synthesis(u).saw = u.saw
    BY <1>2, <2>1, <2>4, <2>5 DEF Answers, Syntheses
  <2>7. Synthesis(u) # Nothing
    BY <1>2, <2>6, Numbers DEF Nothing, Rounds
  <2>8. /\ pc' = challenged /\ at' \in Places /\ at'.jobs = {Key("challenge", at.round, 0)}
        /\ at'.round = at.round /\ at'.notes = at.notes /\ at'.selected = at.selected
    BY <1>1, <2>2, <2>3, GotoFacts
  <2>. QED
    BY <1>1, <1>2, <2>1, <2>2, <2>6, <2>7, <2>8 DEF u, k
<1>. QED
  BY <1>3, <1>4

LEMMA ChallengeFacts ==
  ASSUME Typed, Placed, NEW step, NEW next, SaveChallenge(step, next),
         step \in {"challenge", "rechallenge"}
  PROVE  /\ pc = step /\ at.round \in Rounds
         /\ at' \in Places /\ at'.round = at.round /\ at'.notes = at.notes /\ at'.selected = at.selected
         /\ at'.jobs = {} /\ pc' = next
         /\ UNCHANGED <<idea, unit, frame, decision, plan, member, assessed, synthesis, digest, run, answers, faults>>
         /\ \/ UNCHANGED challenge
            \/ /\ Good(Key("challenge", at.round, 0)) /\ challenge' \in Challenges
               /\ challenge' # Nothing /\ challenge'.round = at.round
<1>1. /\ pc = step /\ at \in Places /\ at.jobs \subseteq {Key("challenge", at.round, 0)} /\ Goto(next, {})
      /\ UNCHANGED <<idea, unit, frame, decision, plan, member, assessed, synthesis, digest, run, answers, faults>>
  BY DEF SaveChallenge, WaveDone, Placed, Typed
<1>2. at.round \in Rounds
  <2>1. CASE step = "rechallenge"
    BY <1>1, <2>1 DEF Placed
  <2>2. CASE step = "challenge"
    <3>1. at.round = closed + 1 /\ closed < target
      BY <1>1, <2>2 DEF Placed, Steps
    <3>. QED
      BY <3>1, Numbers DEF Typed, Rounds
  <2>. QED
    BY <2>1, <2>2
<1>3. \/ UNCHANGED challenge
      \/ /\ Good(Key("challenge", at.round, 0)) /\ challenge' \in Challenges
         /\ challenge' # Nothing /\ challenge'.round = at.round
  <2>1. CASE Results = {}
    BY <2>1 DEF SaveChallenge
  <2>2. CASE Results # {}
    <3>. DEFINE u == unit[Key("challenge", at.round, 0)]
    <3>1. Good(Key("challenge", at.round, 0)) /\ u \in Answers
      BY <1>1, <2>2 DEF Results, Typed, Good
    <3>2. challenge' = [round |-> at.round, next |-> u.word, targets |-> u.set]
      BY <2>2 DEF SaveChallenge
    <3>. HIDE DEF u
    <3>3. challenge' \in Challenges /\ challenge'.round = at.round
      BY <1>2, <3>1, <3>2 DEF Answers, Challenges
    <3>4. challenge' # Nothing
      BY <1>2, <3>3, Numbers DEF Nothing, Rounds
    <3>. QED
      BY <3>1, <3>3, <3>4
  <2>. QED
    BY <2>1, <2>2
<1>. QED
  BY <1>1, <1>2, <1>3, GotoFacts

LEMMA TypedByWriting ==
  ASSUME Typed, Placed,
         \/ Drain \/ SaveDigest \/ SaveFrame \/ SaveReframe \/ Close \/ Publish \/ Continue
         \/ \E x \in Notes : GiveNote(x)
         \/ \E i \in Ids : Archive(i)
  PROVE  Typed'
<1>0. /\ at \in Places /\ at.notes \subseteq noted /\ at.selected \subseteq Born /\ Idle \in Places
      /\ queue \subseteq Notes /\ noted \subseteq Notes /\ digest \subseteq noted
      /\ closed \in 0 .. target /\ target \in Rounds /\ round \in 0 .. MaxRounds /\ MaxRounds \in Nat
      /\ frame \in 0 .. MaxRounds /\ faults \in Nat
      /\ pc \in Steps => at.round = closed + 1 /\ closed < target
  BY Numbers, IdleIsAPlace DEF Typed, Placed
<1>1. CASE Drain
  <2>1. /\ noted' = noted \cup queue /\ queue' = {} /\ at' = [at EXCEPT !.notes = noted']
        /\ UNCHANGED <<idea, workspace, round, closed, target, overview, answers, faults>>
    BY <1>1 DEF Drain
  <2>2. noted' \in SUBSET Notes
    BY <1>0, <2>1
  <2>3. at' \in Places /\ at'.notes = noted' /\ at'.selected = at.selected
    BY <1>0, <2>1, <2>2 DEF Places
  <2>. QED
    BY <1>0, <2>1, <2>2, <2>3 DEF Typed, Born, workspace
<1>2. CASE SaveDigest
  <2>1. /\ digest' = at.notes /\ round' = at.round /\ pc = "digest"
        /\ UNCHANGED <<idea, unit, frame, decision, plan, member, assessed, synthesis, challenge,
                       queue, noted, closed, target, overview, answers, faults>>
        /\ Goto("decide", {}) \/ Goto("frame", {Key("framing", at.round, 0)})
    BY <1>2 DEF SaveDigest
  <2>2. at.round \in Rounds /\ round' \in 0 .. MaxRounds
    BY <1>0, <2>1 DEF Steps, Rounds
  <2>3. {Key("framing", at.round, 0)} \in SUBSET Keys
    BY <2>2, KeysInclude
  <2>4. at' \in Places /\ at'.notes = at.notes /\ at'.selected = at.selected
    BY <1>0, <2>1, <2>3, GotoFacts
  <2>. QED
    BY <1>0, <2>1, <2>2, <2>4 DEF Typed, Born
<1>3. CASE SaveFrame
  <2>1. /\ frame' \in {at.round, frame} /\ pc = "frame" /\ Goto("decide", {})
        /\ UNCHANGED <<idea, unit, decision, plan, member, assessed, synthesis, challenge, digest,
                       run, answers, faults>>
    BY <1>3 DEF SaveFrame, WaveDone
  <2>2. frame' \in 0 .. MaxRounds
    BY <1>0, <2>1 DEF Steps, Rounds
  <2>3. at' \in Places /\ at'.notes = at.notes /\ at'.selected = at.selected
    BY <1>0, <2>1, GotoFacts
  <2>. QED
    BY <1>0, <2>1, <2>2, <2>3 DEF Typed, Born, run
<1>4. CASE SaveReframe
  <2>1. /\ frame' \in {at.round, frame} /\ pc = "reframe" /\ Explore
        /\ UNCHANGED <<idea, unit, decision, plan, member, assessed, synthesis, challenge, digest,
                       run, answers, faults>>
    BY <1>4 DEF SaveReframe, WaveDone
  <2>2. at.round \in Rounds /\ frame' \in 0 .. MaxRounds
    BY <1>0, <2>1 DEF Steps, Rounds
  <2>3. at' \in Places /\ at'.notes = at.notes /\ at'.selected = at.selected
    BY <1>0, <2>1, <2>2, ExploreFacts
  <2>. QED
    BY <1>0, <2>1, <2>2, <2>3 DEF Typed, Born, run
<1>5. CASE Close
  <2>1. /\ closed' = at.round /\ pc = "close" /\ at' = [Idle EXCEPT !.round = closed' + 1]
        /\ UNCHANGED <<idea, workspace, queue, noted, round, target, overview, answers, faults>>
    BY <1>5 DEF Close
  <2>2. closed' = closed + 1 /\ closed' \in 0 .. target /\ closed' \in 0 .. MaxRounds
    BY <1>0, <2>1 DEF Steps, Rounds
  <2>3. at' \in Places /\ at'.notes = {} /\ at'.selected = {}
    BY <1>0, <2>1, <2>2 DEF Places, Idle
  <2>4. \A n \in DOMAIN decision : n <= closed' + 1
    BY <1>0, <2>2 DEF Typed, Rounds
  <2>. QED
    BY <1>0, <2>1, <2>2, <2>3, <2>4 DEF Typed, Born, workspace
<1>6. CASE Publish
  <2>1. Goto("over", {}) /\ UNCHANGED <<idea, workspace, queue, noted, round, closed, target, answers, faults>>
    BY <1>6 DEF Publish
  <2>2. at' \in Places /\ at'.notes = at.notes /\ at'.selected = at.selected
    BY <1>0, <2>1, GotoFacts
  <2>. QED
    BY <1>0, <2>1, <2>2 DEF Typed, Born, workspace
<1>7. CASE Continue
  <2>1. /\ target' = target + 1 /\ target < MaxRounds /\ at' = Idle
        /\ UNCHANGED <<idea, workspace, queue, noted, round, closed, answers, faults>>
    BY <1>7 DEF Continue
  <2>2. target' \in Rounds /\ closed \in 0 .. target'
    BY <1>0, <2>1 DEF Rounds
  <2>3. at' \in Places /\ at'.notes = {} /\ at'.selected = {}
    BY <1>0, <2>1 DEF Idle
  <2>. QED
    BY <1>0, <2>1, <2>2, <2>3 DEF Typed, Born, workspace
<1>8. CASE \E x \in Notes : GiveNote(x)
  <2>1. /\ queue' \subseteq Notes
        /\ UNCHANGED <<idea, workspace, noted, round, closed, target, overview, pc, at, answers, faults>>
    BY <1>0, <1>8 DEF GiveNote
  <2>. QED
    BY <1>0, <2>1 DEF Typed, Born, workspace
<1>9. CASE \E i \in Ids : Archive(i)
  <2>1. /\ idea' \in [Ids -> IdeaRows] /\ Born' = Born
        /\ UNCHANGED <<workspace, run, pc, at, answers, faults>>
    BY <1>9, ArchiveFacts
  <2>. QED
    BY <1>0, <2>1 DEF Typed, workspace, run
<1>. QED
  BY <1>1, <1>2, <1>3, <1>4, <1>5, <1>6, <1>7, <1>8, <1>9

(* The plan of a checkpoint is of candidates that are active as it is drawn. *)
LEMMA PlanFacts ==
  ASSUME Typed, Placed, PlanVerification
  PROVE  /\ pc = "plan" /\ pc' = "verify" /\ at.round \in Rounds
         /\ DOMAIN plan' = DOMAIN plan \cup {at.round}
         /\ \A n \in DOMAIN plan : plan'[n] = plan[n]
         /\ at.round \notin DOMAIN plan => plan'[at.round] \subseteq Active
         /\ at' \in Places /\ at'.notes = at.notes /\ at'.selected = at.selected /\ at'.round = at.round
         /\ at'.jobs = {Key("verification", at.round, i) : i \in plan'[at.round] \cap Active}
         /\ UNCHANGED <<idea, unit, frame, decision, member, assessed, synthesis, challenge, digest,
                        run, answers, faults>>
<1>1. /\ pc = "plan" /\ at \in Places /\ at.round = closed + 1 /\ closed < target
      /\ UNCHANGED <<idea, unit, frame, decision, member, assessed, synthesis, challenge, digest,
                     run, answers, faults>>
      /\ Goto("verify", {Key("verification", at.round, i) : i \in plan'[at.round] \cap Active})
  BY DEF PlanVerification, Typed, Placed, Steps
<1>2. at.round \in Rounds
  BY <1>1, Numbers DEF Typed, Rounds
<1>3. /\ DOMAIN plan' = DOMAIN plan \cup {at.round}
      /\ \A n \in DOMAIN plan : plan'[n] = plan[n]
      /\ at.round \notin DOMAIN plan => plan'[at.round] = Verifiable
  <2>1. CASE at.round \in DOMAIN plan
    BY <2>1 DEF PlanVerification
  <2>2. CASE at.round \notin DOMAIN plan
    BY <2>2 DEF PlanVerification
  <2>. QED
    BY <2>1, <2>2
<1>4. {Key("verification", at.round, i) : i \in plan'[at.round] \cap Active} \in SUBSET Keys
  BY <1>2, KeysInclude DEF Active
<1>. QED
  BY <1>1, <1>2, <1>3, <1>4, SelectedInside, GotoFacts

LEMMA TypedMoves ==
  ASSUME ResInv, [Next]_vars
  PROVE  Typed'
<1>0. Typed /\ Placed /\ Pooled
  BY DEF ResInv
<1>1. CASE Boot \/ Materialize \/ Integrate \/ Report \/ Refuse \/ Stop \/ Leave
  BY <1>0, <1>1, OnlyMoves, TypedByMoves
<1>2. CASE \E key \in Keys : Answer(key)
  BY <1>0, <1>2, TypedByAnswer
<1>3. CASE AddCandidate
  BY <1>0, <1>3, TypedByAdding
<1>4. CASE \/ Drain \/ SaveDigest \/ SaveFrame \/ SaveReframe \/ Close \/ Publish \/ Continue
           \/ (\E x \in Notes : GiveNote(x))
           \/ (\E i \in Ids : Archive(i))
  BY <1>0, <1>4, TypedByWriting
<1>5. CASE Decide
  <2>1. /\ at.round \in Rounds /\ at.round = closed + 1
        /\ DOMAIN decision' = DOMAIN decision \cup {at.round}
        /\ \A n \in DOMAIN decision : decision'[n] = decision[n]
        /\ decision'[at.round] \in {"explore", "reframe", "develop", "verify"}
        /\ at' \in Places /\ at'.notes = at.notes /\ at'.selected = at.selected
    BY <1>0, <1>5, DecideFacts
  <2>2. UNCHANGED <<idea, unit, frame, plan, member, assessed, synthesis, challenge, digest, run, answers, faults>>
    BY <1>5 DEF Decide
  <2>3. \A n \in DOMAIN decision' : n <= closed + 1 /\ n \in Rounds
                                    /\ decision'[n] \in {"explore", "reframe", "develop", "verify"}
    BY <1>0, <2>1, Numbers DEF Typed, Rounds
  <2>. QED
    BY <1>0, <2>1, <2>2, <2>3 DEF Typed, Born, run
<1>6. CASE SaveMembership
  <2>1. at' \in Places /\ at'.notes = at.notes /\ at'.selected = at.selected
    BY <1>0, <1>6, MembershipFacts DEF Places
  <2>2. DOMAIN member' \subseteq Born /\ \A i \in DOMAIN member' : member'[i] \in Routes
    BY <1>0, <1>6, MembershipFacts DEF Typed
  <2>3. UNCHANGED <<idea, unit, frame, decision, plan, assessed, synthesis, challenge, digest, run, answers, faults>>
    BY <1>0, <1>6, MembershipFacts
  <2>. QED
    BY <1>0, <2>1, <2>2, <2>3 DEF Typed, Born, run
<1>7. CASE PlanVerification
  <2>1. /\ DOMAIN plan' = DOMAIN plan \cup {at.round}
        /\ \A n \in DOMAIN plan : plan'[n] = plan[n]
        /\ at.round \notin DOMAIN plan => plan'[at.round] \subseteq Active
        /\ at' \in Places /\ at'.notes = at.notes /\ at'.selected = at.selected
        /\ UNCHANGED <<idea, unit, frame, decision, member, assessed, synthesis, challenge, digest,
                       run, answers, faults>>
    BY <1>0, <1>7, PlanFacts
  <2>2. at.round \in DOMAIN decision /\ Active \subseteq Born
    BY <1>0, <1>7, SelectedInside DEF Placed, PlanVerification, Decided, Searched
  <2>3. DOMAIN plan' \subseteq DOMAIN decision /\ \A n \in DOMAIN plan' : plan'[n] \subseteq Born
    BY <1>0, <2>1, <2>2 DEF Typed
  <2>. QED
    BY <1>0, <2>1, <2>3 DEF Typed, Born, run
<1>8. CASE SaveAssessments
  <2>1. DOMAIN assessed' \subseteq Born
    BY <1>0, <1>8, AssessmentFacts DEF Typed
  <2>. QED
    BY <1>0, <1>8, <2>1, AssessmentFacts DEF Typed, Born, run
<1>9. ASSUME NEW step, NEW challenged, NEW next, SaveSynthesis(step, challenged, next),
             step \in {"synthesize", "resynthesize"}
      PROVE  Typed'
  <2>1. /\ at' \in Places /\ at'.notes = at.notes /\ at'.selected = at.selected
        /\ UNCHANGED <<idea, unit, frame, decision, plan, member, assessed, digest, run, answers, faults>>
        /\ \/ UNCHANGED <<synthesis, challenge>>
           \/ synthesis' \in Syntheses /\ synthesis'.used \subseteq Born /\ challenge' = Nothing
    BY <1>0, <1>9, SynthesisFacts
  <2>2. /\ synthesis' \in Syntheses \cup {Nothing} /\ challenge' \in Challenges \cup {Nothing}
        /\ synthesis' # Nothing => synthesis'.used \subseteq Born
    BY <1>0, <2>1 DEF Typed
  <2>. QED
    BY <1>0, <2>1, <2>2 DEF Typed, Born, run
<1>10. ASSUME NEW step, NEW next, SaveChallenge(step, next), step \in {"challenge", "rechallenge"}
       PROVE  Typed'
  <2>1. /\ at' \in Places /\ at'.notes = at.notes /\ at'.selected = at.selected
        /\ UNCHANGED <<idea, unit, frame, decision, plan, member, assessed, synthesis, digest, run, answers, faults>>
        /\ challenge' = challenge \/ challenge' \in Challenges
    BY <1>0, <1>10, ChallengeFacts
  <2>. QED
    BY <1>0, <2>1 DEF Typed, Born, run
<1>11. CASE UNCHANGED vars
  BY <1>0, <1>11 DEF Typed, Born, vars, workspace, run
<1>. QED
  BY <1>1, <1>2, <1>3, <1>4, <1>5, <1>6, <1>7, <1>8, <1>9, <1>10, <1>11, StepCases

-----------------------------------------------------------------------------
(* What only grows. *)

LEMMA OnlyAnswersRecord ==
  ASSUME [Next]_vars, ~(\E key \in Keys : Answer(key))
  PROVE  UNCHANGED <<unit, answers>>
<1>1. CASE Boot \/ Drain \/ SaveDigest \/ SaveFrame \/ Decide \/ SaveReframe \/ Materialize \/ AddCandidate
           \/ SaveMembership \/ PlanVerification
  BY <1>1 DEF Boot, Drain, SaveDigest, SaveFrame, Decide, SaveReframe, Materialize, AddCandidate,
              SaveMembership, PlanVerification, workspace
<1>2. CASE SaveAssessments \/ Integrate
           \/ SaveSynthesis("synthesize", "challenge", "close")
           \/ SaveSynthesis("resynthesize", "rechallenge", "publish")
           \/ SaveChallenge("challenge", "close") \/ SaveChallenge("rechallenge", "publish")
           \/ Close \/ Report \/ Publish
  BY <1>2 DEF SaveAssessments, Integrate, SaveSynthesis, SaveChallenge, Close, Report, Publish, workspace
<1>3. CASE Refuse \/ Stop \/ Leave \/ Continue \/ (\E x \in Notes : GiveNote(x)) \/ (\E i \in Ids : Archive(i))
           \/ UNCHANGED vars
  BY <1>3 DEF Refuse, Stop, Leave, Continue, GiveNote, Archive, vars, workspace
<1>. QED
  BY <1>1, <1>2, <1>3, StepCases

LEMMA UnitsGrow ==
  ASSUME Typed, [Next]_vars
  PROVE  \A k \in DOMAIN unit : k \in DOMAIN unit' /\ unit'[k] = unit[k]
BY AnswerFacts, OnlyAnswersRecord

LEMMA GoodStays ==
  ASSUME Typed, [Next]_vars, NEW k, Good(k)
  PROVE  Good(k)'
BY UnitsGrow DEF Good

LEMMA CheckpointsGrow ==
  ASSUME Typed, Placed, Pooled, [Next]_vars
  PROVE  /\ frame # 0 => frame' # 0
         /\ \A n \in DOMAIN decision : n \in DOMAIN decision' /\ decision'[n] = decision[n]
         /\ \A n \in DOMAIN plan : n \in DOMAIN plan' /\ plan'[n] = plan[n]
         /\ DOMAIN member \subseteq DOMAIN member'
         /\ closed' \in {closed, closed + 1}
<1>1. CASE Boot \/ Drain \/ SaveReframe \/ SaveDigest \/ SaveFrame \/ Materialize \/ Integrate \/ Report \/ Publish
  <2>1. UNCHANGED <<decision, plan, member, closed>> /\ frame' \in {frame, at.round}
    BY <1>1 DEF Boot, Drain, SaveReframe, SaveDigest, SaveFrame, Materialize, Integrate, Report, Publish, workspace, run
  <2>2. frame' = frame \/ at.round = closed + 1
    BY <1>1 DEF Boot, Drain, SaveReframe, SaveDigest, SaveFrame, Materialize, Integrate, Report, Publish, workspace, run,
                WaveDone, Placed, Steps
  <2>3. closed \in Nat
    BY Numbers DEF Typed, Rounds
  <2>. QED
    BY <2>1, <2>2, <2>3
<1>2. CASE Refuse \/ Stop \/ Leave \/ Continue \/ (\E x \in Notes : GiveNote(x)) \/ (\E i \in Ids : Archive(i))
           \/ UNCHANGED vars
  BY <1>2 DEF Refuse, Stop, Leave, Continue, GiveNote, Archive, vars, workspace, run
<1>3. CASE Decide
  BY <1>3, DecideFacts DEF Decide, run
<1>4. CASE \E key \in Keys : Answer(key)
  BY <1>4, AnswerFacts DEF run
<1>5. CASE AddCandidate
  BY <1>5, AddFacts DEF workspace, run
<1>6. CASE SaveMembership
  BY <1>6, MembershipFacts DEF run
<1>7. CASE PlanVerification
  BY <1>7, PlanFacts DEF run
<1>8. CASE SaveAssessments
  BY <1>8, AssessmentFacts DEF run
<1>9. CASE \/ SaveSynthesis("synthesize", "challenge", "close")
           \/ SaveSynthesis("resynthesize", "rechallenge", "publish")
           \/ SaveChallenge("challenge", "close") \/ SaveChallenge("rechallenge", "publish")
  BY <1>9 DEF SaveSynthesis, SaveChallenge, run
<1>10. CASE Close
  <2>1. UNCHANGED <<frame, decision, plan, member>> /\ closed' = closed + 1
    BY <1>10 DEF Close, workspace, Placed, Steps
  <2>. QED
    BY <2>1
<1>. QED
  BY <1>1, <1>2, <1>3, <1>4, <1>5, <1>6, <1>7, <1>8, <1>9, <1>10, StepCases

LEMMA PaidMoves ==
  ASSUME ResInv, [Next]_vars
  PROVE  Paid'
<1>0. Typed /\ Paid
  BY DEF ResInv
<1>1. CASE \E key \in Keys : Answer(key)
  <2>1. PICK key \in Keys : Answer(key)
    BY <1>1
  <2>2. /\ key \notin DOMAIN unit /\ DOMAIN unit' = DOMAIN unit \cup {key}
        /\ answers' = [answers EXCEPT ![key] = answers[key] + 1]
    BY <1>0, <2>1, AnswerFacts
  <2>3. answers[key] = 0
    BY <1>0, <2>2 DEF Paid
  <2>4. answers' = [answers EXCEPT ![key] = 1]
    BY <2>2, <2>3
  <2>. QED
    BY <1>0, <2>2, <2>4 DEF Paid
<1>2. CASE ~(\E key \in Keys : Answer(key))
  BY <1>0, <1>2, OnlyAnswersRecord DEF Paid
<1>. QED
  BY <1>1, <1>2

LEMMA KindsMoves ==
  ASSUME ResInv, [Next]_vars
  PROVE  Kinds'
<1>0. Typed /\ Placed /\ Kinds /\ Pooled
  BY DEF ResInv
<1>1. /\ frame # 0 => frame' # 0
      /\ \A n \in DOMAIN decision : n \in DOMAIN decision' /\ decision'[n] = decision[n]
      /\ \A n \in DOMAIN plan : n \in DOMAIN plan' /\ plan'[n] = plan[n]
  BY <1>0, CheckpointsGrow
<1>2. CASE \E key \in Keys : Answer(key)
  <2>1. PICK key \in Keys : Answer(key)
    BY <1>2
  <2>2. pc \in Waves /\ key \in at.jobs /\ DOMAIN unit' = DOMAIN unit \cup {key}
        /\ UNCHANGED <<frame, decision, plan>>
    BY <1>0, <2>1, AnswerFacts
  <2>3. /\ key[1] = "explore" => frame # 0 /\ key[2] \in DOMAIN decision /\ decision[key[2]] # "verify"
        /\ key[1] = "develop" => key[2] \in DOMAIN decision /\ decision[key[2]] = "develop"
        /\ key[1] = "verification" => key[2] \in DOMAIN plan /\ key[3] \in plan[key[2]]
    <3>. USE <1>0, <2>2, KeyParts
    <3>1. CASE pc \in {"frame", "reframe"}
      BY <3>1 DEF Placed
    <3>2. CASE pc = "explore"
      <4>1. frame # 0 /\ at.round \in DOMAIN decision /\ decision[at.round] # "verify"
            /\ at.jobs \subseteq {Key("explore", at.round, a) : a \in Approaches}
        BY <3>2 DEF Placed, Decided
      <4>. QED
        BY <4>1
    <3>3. CASE pc = "develop"
      <4>1. at.round \in DOMAIN decision /\ decision[at.round] = "develop"
            /\ at.jobs \subseteq {Key("develop", at.round, 0)}
        BY <3>3 DEF Placed, Decided
      <4>. QED
        BY <4>1
    <3>4. CASE pc = "verify"
      <4>1. at.round \in DOMAIN plan /\ at.jobs \subseteq {Key("verification", at.round, i) : i \in plan[at.round]}
        BY <3>4 DEF Placed
      <4>. QED
        BY <4>1
    <3>5. CASE pc \in {"synthesize", "resynthesize"}
      BY <3>5 DEF Placed
    <3>6. CASE pc \in {"challenge", "rechallenge"}
      BY <3>6 DEF Placed
    <3>. QED
      BY <3>1, <3>2, <3>3, <3>4, <3>5, <3>6 DEF Waves
  <2>. QED
    BY <1>0, <2>2, <2>3 DEF Kinds
<1>3. CASE ~(\E key \in Keys : Answer(key))
  <2>1. unit' = unit
    BY <1>3, OnlyAnswersRecord
  <2>. QED
    BY <1>0, <1>1, <2>1 DEF Kinds
<1>. QED
  BY <1>2, <1>3

(* Only one action decides. *)
LEMMA OnlyDecideDecides ==
  ASSUME Typed, Placed, Pooled, [Next]_vars, ~Decide
  PROVE  decision' = decision
<1>1. CASE Boot \/ Drain \/ SaveDigest \/ SaveFrame \/ SaveReframe \/ Materialize \/ AddCandidate
           \/ SaveMembership \/ PlanVerification \/ (\E key \in Keys : Answer(key))
  BY <1>1 DEF Boot, Drain, SaveDigest, SaveFrame, SaveReframe, Materialize, AddCandidate,
              SaveMembership, PlanVerification, Answer, workspace
<1>2. CASE SaveAssessments \/ Integrate
           \/ SaveSynthesis("synthesize", "challenge", "close")
           \/ SaveSynthesis("resynthesize", "rechallenge", "publish")
           \/ SaveChallenge("challenge", "close") \/ SaveChallenge("rechallenge", "publish")
           \/ Close \/ Report \/ Publish
  BY <1>2 DEF SaveAssessments, Integrate, SaveSynthesis, SaveChallenge, Close, Report, Publish, workspace
<1>3. CASE Refuse \/ Stop \/ Leave \/ Continue \/ (\E x \in Notes : GiveNote(x)) \/ (\E i \in Ids : Archive(i))
           \/ UNCHANGED vars
  BY <1>3 DEF Refuse, Stop, Leave, Continue, GiveNote, Archive, vars, workspace
<1>. QED
  BY <1>1, <1>2, <1>3, StepCases

LEMMA AlternatesMoves ==
  ASSUME ResInv, [Next]_vars
  PROVE  Alternates'
<1>0. Typed /\ Placed /\ Pooled /\ Alternates
  BY DEF ResInv
<1>1. CASE Decide
  <2>1. /\ at.round \in Rounds /\ at.round = closed + 1
        /\ DOMAIN decision' = DOMAIN decision \cup {at.round}
        /\ \A n \in DOMAIN decision : decision'[n] = decision[n]
        /\ at.round \notin DOMAIN decision => decision'[at.round] = NextAction(at.round)
    BY <1>0, <1>1, DecideFacts
  <2>. SUFFICES ASSUME NEW n \in DOMAIN decision', n - 1 \in DOMAIN decision',
                       decision'[n - 1] \in {"develop", "verify", "reframe"}
                PROVE  decision'[n] \in {"explore", "reframe"}
    BY DEF Alternates
  <2>2. \A m \in DOMAIN decision : m \in Nat /\ m <= closed + 1
    BY <1>0, Numbers DEF Typed, Rounds
  <2>3. n \in Nat /\ at.round \in Nat /\ n <= at.round /\ closed \in Nat
    BY <1>0, <2>1, <2>2, Numbers DEF Typed, Rounds
  <2>4. n - 1 # at.round
    BY <2>3
  <2>5. n - 1 \in DOMAIN decision /\ decision[n - 1] \in {"develop", "verify", "reframe"}
    BY <2>1, <2>4
  <2>6. CASE n \in DOMAIN decision
    BY <1>0, <2>1, <2>5, <2>6 DEF Alternates
  <2>7. CASE n \notin DOMAIN decision
    <3>1. n = at.round /\ decision'[n] = NextAction(n)
      BY <2>1, <2>7
    <3>2. NextAction(n) \in {"explore", "reframe"}
      BY <2>5 DEF NextAction
    <3>. QED
      BY <3>1, <3>2
  <2>. QED
    BY <2>6, <2>7
<1>2. CASE ~Decide
  BY <1>0, <1>2, OnlyDecideDecides DEF Alternates
<1>. QED
  BY <1>1, <1>2

(* Only two actions touch rows. *)
LEMMA OnlyTwoTouchRows ==
  ASSUME [Next]_vars, ~AddCandidate, ~(\E i \in Ids : Archive(i))
  PROVE  idea' = idea
<1>1. CASE Boot \/ Drain \/ SaveDigest \/ SaveFrame \/ Decide \/ SaveReframe \/ Materialize
           \/ SaveMembership \/ PlanVerification \/ (\E key \in Keys : Answer(key))
  BY <1>1 DEF Boot, Drain, SaveDigest, SaveFrame, Decide, SaveReframe, Materialize,
              SaveMembership, PlanVerification, Answer
<1>2. CASE SaveAssessments \/ Integrate
           \/ SaveSynthesis("synthesize", "challenge", "close")
           \/ SaveSynthesis("resynthesize", "rechallenge", "publish")
           \/ SaveChallenge("challenge", "close") \/ SaveChallenge("rechallenge", "publish")
           \/ Close \/ Report \/ Publish
  BY <1>2 DEF SaveAssessments, Integrate, SaveSynthesis, SaveChallenge, Close, Report, Publish
<1>3. CASE Refuse \/ Stop \/ Leave \/ Continue \/ (\E x \in Notes : GiveNote(x)) \/ UNCHANGED vars
  BY <1>3 DEF Refuse, Stop, Leave, Continue, GiveNote, vars
<1>. QED
  BY <1>1, <1>2, <1>3, StepCases

(* The row of a candidate keeps its slot and its round. *)
LEMMA RowsStay ==
  ASSUME Typed, Placed, Pooled, [Next]_vars
  PROVE  \A i \in Born : /\ i \in Born' /\ idea'[i].slot = idea[i].slot /\ idea'[i].born = idea[i].born
                         /\ KeyOf(i)' = KeyOf(i)
<1>1. \A i \in Born : i \in Born' /\ idea'[i].slot = idea[i].slot /\ idea'[i].born = idea[i].born
  <2>1. CASE AddCandidate
    <3>1. CASE idea' = idea
      BY <3>1 DEF Born
    <3>2. CASE \E i \in Ids : /\ i \notin Born
                              /\ idea' = [idea EXCEPT ![i] = [status |-> "active", born |-> at.round, slot |-> Slot]]
      BY <3>2, RowAdded
    <3>. QED
      BY <2>1, <3>1, <3>2, AddFacts
  <2>2. CASE \E i \in Ids : Archive(i)
    BY <2>2, ArchiveFacts DEF Born
  <2>3. CASE idea' = idea
    BY <2>3 DEF Born
  <2>. QED
    BY <2>1, <2>2, <2>3, OnlyTwoTouchRows
<1>. QED
  BY <1>1 DEF KeyOf, Key

LEMMA PooledMoves ==
  ASSUME ResInv, [Next]_vars
  PROVE  Pooled'
<1>0. Typed /\ Placed /\ Pooled
  BY DEF ResInv
<1>1. closed \in Nat /\ closed' \in {closed, closed + 1}
  BY <1>0, Numbers, CheckpointsGrow DEF Typed, Rounds
<1>2. \A i \in Born : i \in Born' /\ idea'[i].slot = idea[i].slot /\ idea'[i].born = idea[i].born
                      /\ KeyOf(i)' = KeyOf(i)
  BY <1>0, RowsStay
<1>3. ASSUME NEW i \in Born
      PROVE  idea'[i].slot \in Slots /\ idea'[i].born = idea'[i].slot[2]
             /\ idea'[i].born <= closed' + 1 /\ Good(KeyOf(i))'
  <2>1. /\ idea[i].slot \in Slots /\ idea[i].born = idea[i].slot[2]
        /\ idea[i].born <= closed + 1 /\ Good(KeyOf(i)) /\ idea[i].born \in Nat
    BY <1>0, Numbers DEF Pooled, Typed, IdeaRows, Born
  <2>2. \A k : Good(k) => Good(k)'
    BY <1>0, GoodStays
  <2>3. Good(KeyOf(i))'
    BY <1>2, <2>1, <2>2 DEF Good
  <2>. QED
    BY <1>1, <1>2, <2>1, <2>3
<1>4. CASE Born' = Born
  <2>1. \A i, j \in Born' : idea'[i].slot = idea'[j].slot => i = j
    BY <1>0, <1>2, <1>4 DEF Pooled, OneCandidatePerSlot
  <2>. QED
    BY <1>0, <1>3, <1>4, <2>1 DEF Pooled, OneCandidatePerSlot
<1>5. CASE Born' # Born
  <2>1. AddCandidate /\ idea' # idea
    <3>1. idea' # idea
      BY <1>5 DEF Born
    <3>2. ~(\E i \in Ids : Archive(i))
      BY <1>0, <1>5, ArchiveFacts
    <3>. QED
      BY <3>1, <3>2, OnlyTwoTouchRows
  <2>. DEFINE row == [status |-> "active", born |-> at.round, slot |-> Slot]
  <2>2. PICK i \in Ids : /\ i \notin Born
                         /\ idea' = [idea EXCEPT ![i] = row]
                         /\ \A j \in Born : idea[j].slot # Slot
                         /\ \E n \in 0 .. MaxIdeas : Born \cup {i} = 1 .. n
    BY <1>0, <2>1, AddFacts
  <2>3. /\ Slot \in Slots /\ Slot[2] = at.round /\ Key(Slot[1], Slot[2], Slot[3]) = Current /\ Good(Current)
        /\ unit' = unit /\ closed' = closed /\ pc = "add"
    BY <1>0, <2>1, AddFacts DEF workspace, run
  <2>4. at.round = closed + 1
    BY <1>0, <2>3 DEF Placed, Steps
  <2>5. Born' = Born \cup {i} /\ idea'[i] = row
    <3>1. row.status = "active"
      OBVIOUS
    <3>. HIDE DEF row
    <3>. QED
      BY <1>0, <2>2, <3>1, RowAdded
  <2>6. idea'[i].slot = Slot /\ idea'[i].born = at.round
    BY <2>5
  <2>7. KeyOf(i)' = Current
    BY <2>3, <2>6 DEF KeyOf, Key
  <2>8. Good(KeyOf(i))'
    BY <2>3, <2>7 DEF Good
  <2>9. idea'[i].slot \in Slots /\ idea'[i].born = idea'[i].slot[2] /\ idea'[i].born <= closed' + 1
    BY <1>1, <2>3, <2>4, <2>6
  <2>10. \A j, k \in Born' : idea'[j].slot = idea'[k].slot => j = k
    <3>1. \A j \in Born : idea'[j].slot # idea'[i].slot
      BY <1>2, <2>2, <2>6
    <3>2. \A j, k \in Born : idea'[j].slot = idea'[k].slot => j = k
      BY <1>0, <1>2 DEF Pooled, OneCandidatePerSlot
    <3>. QED
      BY <2>5, <3>1, <3>2
  <2>. QED
    BY <1>3, <2>2, <2>5, <2>8, <2>9, <2>10 DEF Pooled, OneCandidatePerSlot
<1>. QED
  BY <1>4, <1>5

(* A step that leaves the supervisor out of every checkpoint places it nowhere. *)
LEMMA PlacedOutside ==
  ASSUME pc' \in {"off", "report", "publish", "over"}
  PROVE  Placed'
BY DEF Placed, Steps, Reporting, Decided, Searched, Checked

LEMMA PlacedMoves ==
  ASSUME ResInv, [Next]_vars
  PROVE  Placed'
<1>0. Typed /\ Placed /\ Kinds /\ Pooled
  BY DEF ResInv
<1>1. CASE Boot
  <2>1. /\ at' = [Idle EXCEPT !.round = closed + 1] /\ closed' = closed /\ target' = target
        /\ pc' = IF closed < target THEN "boundary" ELSE "report"
    BY <1>1 DEF Boot, run
  <2>2. at'.round = closed + 1
    BY <2>1 DEF Idle
  <2>. QED
    BY <2>1, <2>2, PlacedOutside DEF Placed, Steps, Reporting, Decided, Searched, Checked
<1>2. CASE Drain \/ SaveDigest
  <2>1. /\ pc \in {"boundary", "digest"} /\ closed' = closed /\ target' = target
        /\ pc' \in {"digest", "decide", "frame"} /\ at'.round = at.round
        /\ pc' = "frame" => at'.jobs = {Key("framing", at.round, 0)}
    <3>1. CASE Drain
      BY <1>0, <3>1 DEF Drain, Typed, Places
    <3>2. CASE SaveDigest
      BY <1>0, <3>2 DEF SaveDigest, Goto, Typed, Places
    <3>. QED
      BY <1>2, <3>1, <3>2
  <2>2. at.round = closed + 1 /\ closed < target
    BY <1>0, <2>1 DEF Placed, Steps
  <2>. QED
    BY <2>1, <2>2 DEF Placed, Steps, Reporting, Decided, Searched, Checked
<1>3. CASE SaveFrame
  <2>1. /\ pc = "frame" /\ closed' = closed /\ target' = target /\ pc' = "decide" /\ at'.round = at.round
    BY <1>0, <1>3 DEF SaveFrame, WaveDone, Goto, Typed, Places, run
  <2>2. at.round = closed + 1 /\ closed < target
    BY <1>0, <2>1 DEF Placed, Steps
  <2>. QED
    BY <2>1, <2>2 DEF Placed, Steps, Reporting, Decided, Searched, Checked
<1>4. CASE Decide
  <2>1. /\ closed' = closed /\ target' = target /\ frame' = frame /\ closed < target
    BY <1>0, <1>4 DEF Decide, run, Placed, Steps
  <2>2. /\ at.round = closed + 1 /\ at.round \in DOMAIN decision' /\ at'.round = at.round
        /\ \/ /\ decision'[at.round] = "reframe" /\ pc' = "reframe"
              /\ at'.jobs = {Key("framing", at.round, 0)}
           \/ pc' = "plan"
           \/ /\ decision'[at.round] = "develop" /\ pc' = "develop"
              /\ at'.jobs = {Key("develop", at.round, 0)}
           \/ /\ decision'[at.round] # "verify"
              /\ frame # 0 /\ pc' = "explore"
              /\ at'.jobs = {Key("explore", at.round, a) : a \in Approaches}
    BY <1>0, <1>4, DecideFacts
  <2>. QED
    BY <2>1, <2>2 DEF Placed, Steps, Reporting, Decided, Searched, Checked
<1>5. CASE SaveReframe
  <2>1. /\ pc = "reframe" /\ closed' = closed /\ target' = target /\ decision' = decision /\ Explore
        /\ frame # 0 => frame' # 0
    BY <1>0, <1>5, CheckpointsGrow DEF SaveReframe, WaveDone, run
  <2>2. /\ at.round = closed + 1 /\ closed < target /\ at.round \in DOMAIN decision /\ decision[at.round] = "reframe"
    BY <1>0, <2>1 DEF Placed, Steps, Decided
  <2>3. at.round \in Rounds /\ at \in Places
    BY <1>0, <2>2 DEF Typed
  <2>4. /\ at'.round = at.round
        /\ \/ pc' = "plan"
           \/ /\ frame # 0 /\ pc' = "explore"
              /\ at'.jobs = {Key("explore", at.round, a) : a \in Approaches}
    BY <2>1, <2>3, ExploreFacts
  <2>. QED
    BY <2>1, <2>2, <2>4 DEF Placed, Steps, Reporting, Decided, Searched, Checked
<1>6. CASE \E key \in Keys : Answer(key)
  <2>1. PICK key \in Keys : Answer(key)
    BY <1>6
  <2>2. /\ pc' = pc /\ at' = [at EXCEPT !.fresh = at.fresh \cup {key}] /\ at \in Places
        /\ UNCHANGED <<frame, decision, plan, closed, target>>
    BY <1>0, <2>1, AnswerFacts DEF run, Typed
  <2>3. at'.round = at.round /\ at'.jobs = at.jobs /\ at'.todo = at.todo /\ at'.index = at.index
    BY <2>2 DEF Places
  <2>4. \A k \in at.todo : Good(k) => Good(k)'
    BY <1>0, GoodStays
  <2>. QED
    BY <1>0, <2>2, <2>3, <2>4 DEF Placed
<1>7. CASE Materialize
  <2>1. /\ pc \in {"explore", "develop"} /\ at' = [at EXCEPT !.todo = Results, !.index = 1, !.jobs = {}]
        /\ pc' = IF Results = {} THEN "plan" ELSE "add"
        /\ UNCHANGED <<unit, frame, decision, plan, closed, target>> /\ at \in Places
    BY <1>0, <1>7 DEF Materialize, WaveDone, workspace, run, Typed
  <2>2. at'.round = at.round /\ at'.todo = Results /\ at'.index = 1 /\ at'.jobs = {}
    BY <2>1 DEF Places
  <2>3. /\ at.round = closed + 1 /\ closed < target /\ at.round \in DOMAIN decision
        /\ \/ at.jobs \subseteq {Key("explore", at.round, a) : a \in Approaches}
           \/ at.jobs \subseteq {Key("develop", at.round, 0)}
    BY <1>0, <2>1 DEF Placed, Steps, Decided
  <2>4. \A k \in Results : k[1] \in {"explore", "develop"} /\ k[2] = at.round /\ Good(k)
    BY <2>3, KeyParts DEF Results
  <2>5. \A k \in Results : Good(k)'
    BY <2>1, <2>4 DEF Good
  <2>. HIDE DEF Results
  <2>. QED
    BY <2>1, <2>2, <2>3, <2>4, <2>5 DEF Placed, Steps, Reporting, Decided, Searched, Checked
<1>8. CASE AddCandidate
  <2>1. /\ pc = "add" /\ pc' = pc /\ at' = [at EXCEPT !.index = at.index + 1] /\ at \in Places
        /\ UNCHANGED <<unit, frame, decision, plan, closed, target>>
    BY <1>0, <1>8, AddFacts DEF workspace, run, Typed
  <2>2. at'.round = at.round /\ at'.jobs = at.jobs /\ at'.todo = at.todo /\ at'.index = at.index + 1 /\ at.index \in Nat
    BY <2>1 DEF Places
  <2>3. /\ at.round = closed + 1 /\ closed < target /\ at.round \in DOMAIN decision /\ at.todo # {} /\ at.index >= 1
        /\ \A k \in at.todo : k[1] \in {"explore", "develop"} /\ k[2] = at.round /\ Good(k)
    BY <1>0, <2>1 DEF Placed, Steps, Decided
  <2>4. \A k \in at.todo : Good(k)'
    BY <2>1, <2>3 DEF Good
  <2>. QED
    BY <2>1, <2>2, <2>3, <2>4 DEF Placed, Steps, Reporting, Decided, Searched, Checked
<1>9. CASE SaveMembership
  <2>1. /\ pc = "add" /\ at' = [at EXCEPT !.todo = at.todo \ {Current}, !.index = 1] /\ at \in Places
        /\ IF at.todo = {Current} THEN pc' = "plan" ELSE pc' = "add"
        /\ UNCHANGED <<unit, frame, decision, plan, closed, target>> /\ Current \in at.todo
    BY <1>0, <1>9, MembershipFacts DEF run, Typed
  <2>2. at'.round = at.round /\ at'.todo = at.todo \ {Current} /\ at'.index = 1
    BY <2>1 DEF Places
  <2>3. /\ at.round = closed + 1 /\ closed < target /\ at.round \in DOMAIN decision
        /\ \A k \in at.todo : k[1] \in {"explore", "develop"} /\ k[2] = at.round /\ Good(k)
    BY <1>0, <2>1 DEF Placed, Steps, Decided
  <2>4. \A k \in at.todo : Good(k)'
    BY <2>1, <2>3 DEF Good
  <2>5. pc' = "add" => at'.todo # {}
    BY <2>1, <2>2
  <2>. HIDE DEF Current
  <2>. QED
    BY <2>1, <2>2, <2>3, <2>4, <2>5 DEF Placed, Steps, Reporting, Decided, Searched, Checked
<1>10. CASE PlanVerification
  <2>1. /\ pc = "plan" /\ pc' = "verify" /\ at.round \in DOMAIN plan' /\ at'.round = at.round
        /\ at'.jobs = {Key("verification", at.round, i) : i \in plan'[at.round] \cap Active}
        /\ UNCHANGED <<decision, closed, target>>
    BY <1>0, <1>10, PlanFacts DEF run
  <2>2. /\ at.round = closed + 1 /\ closed < target /\ at.round \in DOMAIN decision
    BY <1>0, <2>1 DEF Placed, Steps, Decided, Searched
  <2>3. at'.jobs \subseteq {Key("verification", at'.round, i) : i \in plan'[at'.round]}
    BY <2>1
  <2>. QED
    BY <2>1, <2>2, <2>3 DEF Placed, Steps, Reporting, Decided, Searched, Checked
<1>11. CASE SaveAssessments \/ Integrate
  <2>1. /\ pc \in {"verify", "integrate"} /\ pc' \in {"integrate", "synthesize", "close"} /\ at'.round = at.round
        /\ pc' = "synthesize" => at'.jobs = {Key("synthesis", at.round, 0)}
        /\ UNCHANGED <<decision, plan, closed, target>>
    <3>1. CASE SaveAssessments
      BY <1>0, <3>1, AssessmentFacts DEF run
    <3>2. CASE Integrate
      BY <1>0, <3>2 DEF Integrate, AskSynthesis, Goto, Typed, Places, workspace, run
    <3>. QED
      BY <1>11, <3>1, <3>2
  <2>2. /\ at.round = closed + 1 /\ closed < target /\ at.round \in DOMAIN decision /\ at.round \in DOMAIN plan
    BY <1>0, <2>1 DEF Placed, Steps, Decided, Searched, Checked
  <2>. QED
    BY <2>1, <2>2 DEF Placed, Steps, Reporting, Decided, Searched, Checked
<1>12. CASE SaveSynthesis("synthesize", "challenge", "close") \/ SaveChallenge("challenge", "close")
  <2>1. /\ pc \in {"synthesize", "challenge"} /\ pc' \in {"challenge", "close"} /\ at'.round = at.round
        /\ pc' = "challenge" => at'.jobs = {Key("challenge", at.round, 0)}
        /\ UNCHANGED <<decision, plan, closed, target>>
    BY <1>0, <1>12, SynthesisFacts, ChallengeFacts DEF run
  <2>2. /\ at.round = closed + 1 /\ closed < target /\ at.round \in DOMAIN decision /\ at.round \in DOMAIN plan
    BY <1>0, <2>1 DEF Placed, Steps, Decided, Searched, Checked
  <2>. QED
    BY <2>1, <2>2 DEF Placed, Steps, Reporting, Decided, Searched, Checked
<1>13. CASE SaveSynthesis("resynthesize", "rechallenge", "publish") \/ SaveChallenge("rechallenge", "publish")
  <2>1. /\ pc' \in {"rechallenge", "publish"} /\ at'.round = at.round /\ at.round \in Rounds
        /\ pc' = "rechallenge" => at'.jobs = {Key("challenge", at.round, 0)}
    BY <1>0, <1>13, SynthesisFacts, ChallengeFacts
  <2>. QED
    BY <2>1 DEF Placed, Steps, Reporting, Decided, Searched, Checked
<1>14. CASE Close
  <2>1. /\ closed' = closed + 1 /\ at' = [Idle EXCEPT !.round = closed' + 1] /\ target' = target
        /\ pc' = IF closed' < target THEN "boundary" ELSE "report"
    BY <1>0, <1>14 DEF Close, Placed, Steps
  <2>2. at'.round = closed' + 1
    BY <2>1 DEF Idle
  <2>. QED
    BY <2>1, <2>2, PlacedOutside DEF Placed, Steps, Reporting, Decided, Searched, Checked
<1>15. CASE Report
  <2>. DEFINE number == IF round = 0 THEN 1 ELSE round
  <2>1. \/ pc' \in {"over", "publish"}
        \/ /\ pc' = "resynthesize"
           /\ at' = [Idle EXCEPT !.round = number, !.notes = noted, !.selected = Selected,
                                 !.jobs = {Key("synthesis", number, 0)}]
    BY <1>15 DEF Report, Goto
  <2>2. number \in Rounds
    BY <1>0, Numbers DEF Typed, Rounds
  <2>. HIDE DEF number
  <2>3. CASE pc' = "resynthesize" /\ at' = [Idle EXCEPT !.round = number, !.notes = noted, !.selected = Selected,
                                                        !.jobs = {Key("synthesis", number, 0)}]
    <3>1. at'.round = number /\ at'.jobs = {Key("synthesis", number, 0)}
      BY <2>3 DEF Idle
    <3>. QED
      BY <2>2, <2>3, <3>1 DEF Placed, Steps, Reporting, Decided, Searched, Checked
  <2>. QED
    BY <2>1, <2>3, PlacedOutside
<1>16. CASE Publish \/ Stop \/ Leave \/ Continue
  BY <1>16, PlacedOutside DEF Publish, Stop, Leave, Continue, Goto
<1>17. CASE Refuse
  <2>1. /\ at' = [at EXCEPT !.jobs = at.jobs \ Due] /\ at \in Places
        /\ UNCHANGED <<pc, unit, frame, decision, plan, closed, target>>
    BY <1>0, <1>17 DEF Refuse, workspace, run, Typed
  <2>2. at'.round = at.round /\ at'.jobs \subseteq at.jobs /\ at'.todo = at.todo /\ at'.index = at.index
    BY <2>1 DEF Places
  <2>3. \A k \in at.todo : Good(k) => Good(k)'
    BY <2>1 DEF Good
  <2>. QED
    BY <1>0, <2>1, <2>2, <2>3 DEF Placed
<1>18. CASE (\E x \in Notes : GiveNote(x)) \/ (\E i \in Ids : Archive(i)) \/ UNCHANGED vars
  <2>1. UNCHANGED <<pc, at, unit, frame, decision, plan, closed, target>>
    BY <1>18 DEF GiveNote, Archive, vars, workspace, run
  <2>. QED
    BY <1>0, <2>1 DEF Placed, Good
<1>. QED
  BY <1>1, <1>2, <1>3, <1>4, <1>5, <1>6, <1>7, <1>8, <1>9, <1>10, <1>11, <1>12, <1>13, <1>14, <1>15,
     <1>16, <1>17, <1>18, StepCases

-----------------------------------------------------------------------------
(* No candidate is forgotten. *)

LEMMA ActiveBefore ==
  ASSUME Typed, Placed, Pooled, [Next]_vars
  PROVE  \A i \in Active' : i \in Active \/ (i \notin Born /\ AddCandidate)
<1>1. CASE AddCandidate
  <2>1. CASE idea' = idea
    BY <2>1 DEF Active
  <2>2. CASE \E i \in Ids : /\ i \notin Born
                            /\ idea' = [idea EXCEPT ![i] = [status |-> "active", born |-> at.round, slot |-> Slot]]
    BY <1>1, <2>2, RowAdded
  <2>. QED
    BY <1>1, <2>1, <2>2, AddFacts
<1>2. CASE \E i \in Ids : Archive(i)
  BY <1>2, ArchiveFacts
<1>3. CASE idea' = idea
  BY <1>3 DEF Active
<1>. QED
  BY <1>1, <1>2, <1>3, OnlyTwoTouchRows

LEMMA SettledStays ==
  ASSUME Typed, Placed, Pooled, [Next]_vars, NEW i \in Born, Settled(i)
  PROVE  Settled(i)'
<1>1. idea'[i].born = idea[i].born
  BY RowsStay
<1>2. DOMAIN member \subseteq DOMAIN member'
  BY CheckpointsGrow
<1>3. ASSUME NEW n, FellBack(n) PROVE FellBack(n)'
  <2>1. n \in DOMAIN decision /\ decision[n] = "develop"
    BY <1>3 DEF FellBack
  <2>2. PICK a \in Approaches : Key("explore", n, a) \in DOMAIN unit
    BY <1>3 DEF FellBack
  <2>3. n \in DOMAIN decision' /\ decision'[n] = "develop"
    BY <2>1, CheckpointsGrow
  <2>4. Key("explore", n, a) \in DOMAIN unit'
    BY <2>2, UnitsGrow
  <2>. QED
    BY <2>3, <2>4 DEF FellBack
<1>4. ASSUME NEW n, FellBack(n), n = idea[i].born PROVE Settled(i)'
  BY <1>1, <1>3, <1>4 DEF Settled, FellBack
<1>. QED
  BY <1>2, <1>4 DEF Settled

(* What a candidate without a route says of its checkpoint. *)
LEMMA UnsettledFacts ==
  ASSUME ResInv, NEW i \in Active, ~Settled(i), pc \in Steps
  PROVE  /\ AtHand(i) /\ i \in Born /\ i \notin DOMAIN member /\ i \notin DOMAIN assessed
         /\ KeyOf(i) = Key(idea[i].slot[1], at.round, idea[i].slot[3]) /\ Good(KeyOf(i))
         /\ at.round \in DOMAIN decision
         /\ \/ /\ idea[i].slot[1] = "explore" /\ idea[i].slot[3] \in Approaches
               /\ decision[at.round] \in {"explore", "reframe"} /\ frame # 0
            \/ /\ idea[i].slot[1] = "develop" /\ idea[i].slot[3] = 0
               /\ decision[at.round] = "develop"
<1>1. AtHand(i) /\ i \in Born /\ i \notin DOMAIN member /\ i \notin DOMAIN assessed
  BY DEF ResInv, Routed, Settled, Active, Born
<1>2. /\ idea[i].slot \in Slots /\ idea[i].slot[2] = at.round /\ Good(KeyOf(i)) /\ idea[i].born = at.round
  BY <1>1 DEF ResInv, Pooled, Placed, AtHand
<1>3. idea[i].slot[1] \in {"explore", "develop"}
  BY <1>2 DEF Slots
<1>4. KeyOf(i) = Key(idea[i].slot[1], at.round, idea[i].slot[3])
  BY <1>2 DEF KeyOf
<1>. DEFINE k == KeyOf(i)
<1>5. k \in Keys /\ k[1] = idea[i].slot[1] /\ k[2] = at.round /\ k[3] = idea[i].slot[3] /\ k \in DOMAIN unit
  BY <1>2, <1>4, KeyParts DEF ResInv, Typed, Good
<1>6. /\ k[1] = "explore" => k[3] \in Approaches
      /\ k[1] = "develop" => k[3] = 0
  BY <1>5, KeysAre
<1>7. /\ k[1] = "explore" => frame # 0 /\ at.round \in DOMAIN decision /\ decision[at.round] # "verify"
      /\ k[1] = "develop" => at.round \in DOMAIN decision /\ decision[at.round] = "develop"
  BY <1>5 DEF ResInv, Kinds
<1>8. k[1] = "explore" => decision[at.round] # "develop"
  <2>. SUFFICES ASSUME k[1] = "explore", decision[at.round] = "develop" PROVE FALSE
    OBVIOUS
  <2>1. Key("explore", at.round, idea[i].slot[3]) \in DOMAIN unit /\ idea[i].slot[3] \in Approaches
    BY <1>4, <1>5, <1>6
  <2>2. FellBack(at.round)
    BY <1>5, <1>7, <2>1 DEF FellBack
  <2>. QED
    BY <1>2, <2>2 DEF Settled
<1>9. decision[at.round] \in {"explore", "reframe", "develop", "verify"}
  BY <1>3, <1>5, <1>7 DEF ResInv, Typed
<1>. HIDE DEF k
<1>. QED
  BY <1>1, <1>2, <1>3, <1>4, <1>5, <1>6, <1>7, <1>8, <1>9 DEF k

(* A decided checkpoint takes up again what its dead supervisor had begun to make. *)
LEMMA AtHandDecided ==
  ASSUME ResInv, Decide, NEW i \in Active, ~Settled(i)
  PROVE  AtHand(i)'
<1>0. Typed /\ Placed /\ pc = "decide" /\ pc \in Steps
  BY DEF ResInv, Decide, Steps
<1>1. /\ AtHand(i) /\ KeyOf(i) = Key(idea[i].slot[1], at.round, idea[i].slot[3]) /\ i \notin DOMAIN assessed
      /\ at.round \in DOMAIN decision
      /\ \/ /\ idea[i].slot[1] = "explore" /\ idea[i].slot[3] \in Approaches
            /\ decision[at.round] \in {"explore", "reframe"} /\ frame # 0
         \/ /\ idea[i].slot[1] = "develop" /\ idea[i].slot[3] = 0
            /\ decision[at.round] = "develop"
  BY <1>0, UnsettledFacts
<1>2. Selected # {}
  BY <1>0, <1>1, SelectedNotEmpty
<1>3. decision'[at.round] = decision[at.round] /\ idea' = idea /\ closed' = closed
  BY <1>0, <1>1, DecideFacts DEF Decide, run
<1>4. \/ /\ decision[at.round] = "reframe" /\ pc' = "reframe"
      \/ decision[at.round] = "verify"
      \/ /\ decision[at.round] = "develop" /\ pc' = "develop"
         /\ at'.jobs = {Key("develop", at.round, 0)}
      \/ /\ decision[at.round] = "explore" /\ (frame # 0 => pc' = "explore")
         /\ frame # 0 => at'.jobs = {Key("explore", at.round, a) : a \in Approaches}
  BY <1>0, <1>2, <1>3, DecideFacts
<1>5. KeyOf(i)' = KeyOf(i) /\ idea'[i].born = closed' + 1 /\ idea'[i].slot[1] = idea[i].slot[1]
  BY <1>1, <1>3 DEF AtHand, KeyOf
<1>6. CASE idea[i].slot[1] = "explore" /\ decision[at.round] = "reframe"
  BY <1>4, <1>5, <1>6 DEF AtHand, Searched, Checked
<1>7. CASE idea[i].slot[1] = "explore" /\ decision[at.round] = "explore"
  <2>1. pc' = "explore" /\ KeyOf(i)' \in at'.jobs
    BY <1>1, <1>4, <1>5, <1>7
  <2>. QED
    BY <1>5, <2>1 DEF AtHand, Searched, Checked
<1>8. CASE idea[i].slot[1] = "develop"
  <2>1. pc' = "develop" /\ KeyOf(i)' \in at'.jobs
    BY <1>1, <1>4, <1>5, <1>8
  <2>. QED
    BY <1>5, <2>1 DEF AtHand, Searched, Checked
<1>. QED
  BY <1>1, <1>6, <1>7, <1>8

LEMMA AtHandReframed ==
  ASSUME ResInv, SaveReframe, NEW i \in Active, ~Settled(i)
  PROVE  AtHand(i)'
<1>0. /\ Typed /\ Placed /\ pc = "reframe" /\ pc \in Steps /\ Explore
      /\ idea' = idea /\ closed' = closed
  BY DEF ResInv, SaveReframe, WaveDone, Steps, run
<1>1. /\ AtHand(i) /\ KeyOf(i) = Key(idea[i].slot[1], at.round, idea[i].slot[3])
      /\ at.round \in DOMAIN decision
      /\ idea[i].slot[1] = "explore" => idea[i].slot[3] \in Approaches /\ frame # 0
  BY <1>0, UnsettledFacts
<1>2. idea[i].slot[1] = "explore" /\ idea[i].born = closed + 1
  BY <1>0, <1>1 DEF AtHand
<1>3. at \in Places /\ at.round \in Rounds
  BY <1>0, <1>1 DEF Typed
<1>4. pc' = "explore" /\ at'.jobs = {Key("explore", at.round, a) : a \in Approaches}
  BY <1>0, <1>1, <1>2, <1>3, ExploreFacts
<1>5. KeyOf(i)' = KeyOf(i)
  BY <1>0 DEF KeyOf
<1>6. KeyOf(i)' \in at'.jobs
  BY <1>1, <1>2, <1>4, <1>5
<1>. QED
  BY <1>0, <1>2, <1>4, <1>6 DEF AtHand, Searched, Checked

(* Every other step keeps a candidate without a route at hand, or routes it. *)
LEMMA AtHandKept ==
  ASSUME ResInv, [Next]_vars, NEW i \in Active, ~Settled(i)
  PROVE  AtHand(i)' \/ Settled(i)'
<1>0. /\ Typed /\ Placed /\ Pooled /\ i \in Born /\ AtHand(i) /\ Good(KeyOf(i)) /\ i \notin DOMAIN member
      /\ closed \in Nat
  BY Numbers DEF ResInv, Routed, Settled, Active, Born, Pooled, Typed, Rounds
<1>1. KeyOf(i)' = KeyOf(i) /\ idea'[i].slot = idea[i].slot /\ idea'[i].born = idea[i].born
  BY <1>0, RowsStay
<1>2. idea[i].born = closed + 1 /\ pc \notin Searched
  BY <1>0 DEF AtHand
<1>3. CASE Decide
  BY <1>3, AtHandDecided
<1>4. CASE SaveReframe
  BY <1>4, AtHandReframed
<1>5. CASE Boot \/ Drain \/ SaveDigest \/ SaveFrame \/ Report \/ Publish \/ Stop \/ Leave \/ Continue
  <2>1. /\ closed' = closed
        /\ pc' \in {"boundary", "report", "digest", "decide", "frame", "over", "publish", "resynthesize", "off"}
    BY <1>5 DEF Boot, Drain, SaveDigest, SaveFrame, Report, Publish, Stop, Leave, Continue, Goto, run
  <2>. QED
    BY <1>1, <1>2, <2>1 DEF AtHand, Searched, Checked
<1>6. CASE \E key \in Keys : Answer(key)
  <2>1. /\ pc' = pc /\ closed' = closed /\ at'.jobs = at.jobs /\ at'.todo = at.todo
    BY <1>0, <1>6, AnswerFacts DEF Typed, Places, run
  <2>. QED
    BY <1>0, <1>1, <2>1 DEF AtHand
<1>7. CASE Refuse
  <2>1. /\ pc' = pc /\ closed' = closed /\ at'.jobs = at.jobs \ Due /\ at'.todo = at.todo
    BY <1>0, <1>7 DEF Refuse, Typed, Places, run
  <2>2. KeyOf(i) \notin Due
    BY <1>0 DEF Good, Due
  <2>. QED
    BY <1>0, <1>1, <2>1, <2>2 DEF AtHand
<1>8. CASE Materialize
  <2>1. /\ pc \in {"explore", "develop"} /\ closed' = closed /\ at'.todo = Results
        /\ pc' = IF Results = {} THEN "plan" ELSE "add"
    BY <1>0, <1>8 DEF Materialize, WaveDone, Typed, Places, run
  <2>2. KeyOf(i) \in Results
    BY <1>0, <2>1 DEF AtHand, Results
  <2>. HIDE DEF Results
  <2>. QED
    BY <1>1, <1>2, <2>1, <2>2 DEF AtHand, Searched, Checked
<1>9. CASE AddCandidate
  <2>1. /\ pc' = pc /\ closed' = closed /\ at'.jobs = at.jobs /\ at'.todo = at.todo
    BY <1>0, <1>9, AddFacts DEF Typed, Places, run
  <2>. QED
    BY <1>0, <1>1, <2>1 DEF AtHand
<1>10. CASE SaveMembership
  <2>1. /\ pc = "add" /\ closed' = closed /\ at'.todo = at.todo \ {Current} /\ DOMAIN member' = DOMAIN member \cup Mine
        /\ IF at.todo = {Current} THEN pc' = "plan" ELSE pc' = "add"
    BY <1>0, <1>10, MembershipFacts DEF Typed, Places, run
  <2>2. KeyOf(i) \in at.todo
    BY <1>0, <2>1 DEF AtHand
  <2>3. CASE KeyOf(i) = Current
    <3>1. i \in Mine
      BY <1>0, <2>3 DEF Mine, KeyOf, Key
    <3>. QED
      BY <2>1, <3>1 DEF Settled
  <2>4. CASE KeyOf(i) # Current
    <3>1. pc' = "add" /\ KeyOf(i) \in at'.todo
      BY <2>1, <2>2, <2>4
    <3>. QED
      BY <1>1, <1>2, <2>1, <3>1 DEF AtHand, Searched, Checked
  <2>. QED
    BY <2>3, <2>4
<1>11. CASE PlanVerification \/ SaveAssessments \/ Integrate \/ Close
            \/ SaveSynthesis("synthesize", "challenge", "close") \/ SaveChallenge("challenge", "close")
  BY <1>2, <1>11 DEF PlanVerification, SaveAssessments, Integrate, Close, SaveSynthesis, SaveChallenge, WaveDone,
                     Searched, Checked
<1>12. CASE SaveSynthesis("resynthesize", "rechallenge", "publish") \/ SaveChallenge("rechallenge", "publish")
  <2>1. closed' = closed /\ pc' \in {"rechallenge", "publish"}
    BY <1>0, <1>12, SynthesisFacts, ChallengeFacts DEF run
  <2>. QED
    BY <1>1, <1>2, <2>1 DEF AtHand, Searched, Checked
<1>13. CASE (\E x \in Notes : GiveNote(x)) \/ (\E j \in Ids : Archive(j)) \/ UNCHANGED vars
  <2>1. UNCHANGED <<pc, at, closed>>
    BY <1>13 DEF GiveNote, Archive, vars, run
  <2>. QED
    BY <1>0, <1>1, <2>1 DEF AtHand
<1>. QED
  BY <1>3, <1>4, <1>5, <1>6, <1>7, <1>8, <1>9, <1>10, <1>11, <1>12, <1>13, StepCases

LEMMA RoutedMoves ==
  ASSUME ResInv, [Next]_vars
  PROVE  Routed'
<1>0. Typed /\ Placed /\ Pooled /\ Routed
  BY DEF ResInv
<1>1. \A i \in Born : Settled(i) => Settled(i)'
  BY <1>0, SettledStays
<1>2. ASSUME NEW i \in Active'
      PROVE  Settled(i)' \/ AtHand(i)'
  <2>1. CASE i \in Active
    <3>1. i \in Born
      BY <2>1, SelectedInside
    <3>. QED
      BY <1>1, <2>1, <3>1, AtHandKept
  <2>2. CASE i \notin Born /\ AddCandidate
    <3>1. /\ pc = "add" /\ pc' = "add" /\ Current \in at.todo /\ Key(Slot[1], Slot[2], Slot[3]) = Current
          /\ at'.todo = at.todo /\ closed' = closed
      BY <1>0, <2>2, AddFacts DEF Typed, Places, run
    <3>2. PICK j \in Ids : /\ j \notin Born
                           /\ idea' = [idea EXCEPT ![j] = [status |-> "active", born |-> at.round, slot |-> Slot]]
      <4>1. idea' # idea
        BY <1>2, <2>2 DEF Active, Born
      <4>. QED
        BY <1>0, <2>2, <4>1, AddFacts
    <3>. DEFINE row == [status |-> "active", born |-> at.round, slot |-> Slot]
    <3>3. Active' = Active \cup {j} /\ idea'[j] = row
      <4>1. row.status = "active"
        OBVIOUS
      <4>. HIDE DEF row
      <4>. QED
        BY <1>0, <3>2, <4>1, RowAdded DEF row
    <3>4. i = j
      BY <1>2, <2>2, <3>3 DEF Active, Born
    <3>5. KeyOf(i)' = Current /\ idea'[i].born = at.round
      BY <3>1, <3>3, <3>4 DEF KeyOf, Key
    <3>6. at.round = closed + 1
      BY <1>0, <3>1 DEF Placed, Steps
    <3>. QED
      BY <3>1, <3>5, <3>6 DEF AtHand, Searched, Checked
  <2>. QED
    BY <1>0, <1>2, <2>1, <2>2, ActiveBefore
<1>3. ASSUME NEW n \in DOMAIN plan', NEW i \in plan'[n]
      PROVE  Settled(i)'
  <2>1. CASE n \in DOMAIN plan
    <3>1. i \in plan[n] /\ i \in Born /\ Settled(i)
      BY <1>0, <1>3, <2>1, CheckpointsGrow DEF Typed, Routed
    <3>. QED
      BY <1>1, <3>1
  <2>2. CASE n \notin DOMAIN plan
    <3>1. PlanVerification
      <4>1. CASE Boot \/ Drain \/ SaveDigest \/ SaveFrame \/ Decide \/ SaveReframe \/ Materialize \/ AddCandidate
                 \/ SaveMembership \/ (\E key \in Keys : Answer(key))
        BY <1>3, <2>2, <4>1 DEF Boot, Drain, SaveDigest, SaveFrame, Decide, SaveReframe, Materialize, AddCandidate,
                                SaveMembership, Answer, workspace
      <4>2. CASE SaveAssessments \/ Integrate
                 \/ SaveSynthesis("synthesize", "challenge", "close")
                 \/ SaveSynthesis("resynthesize", "rechallenge", "publish")
                 \/ SaveChallenge("challenge", "close") \/ SaveChallenge("rechallenge", "publish")
                 \/ Close \/ Report \/ Publish
        BY <1>3, <2>2, <4>2 DEF SaveAssessments, Integrate, SaveSynthesis, SaveChallenge, Close, Report, Publish, workspace
      <4>3. CASE Refuse \/ Stop \/ Leave \/ Continue \/ (\E x \in Notes : GiveNote(x)) \/ (\E j \in Ids : Archive(j))
                 \/ UNCHANGED vars
        BY <1>3, <2>2, <4>3 DEF Refuse, Stop, Leave, Continue, GiveNote, Archive, vars, workspace
      <4>. QED
        BY <4>1, <4>2, <4>3, StepCases
    <3>2. pc = "plan" /\ i \in Active
      BY <1>0, <1>3, <2>2, <3>1, PlanFacts
    <3>3. Settled(i)
      BY <1>0, <3>2 DEF Routed, AtHand, Searched
    <3>. QED
      BY <1>1, <3>2, <3>3, SelectedInside
  <2>. QED
    BY <2>1, <2>2
<1>4. ASSUME NEW i \in DOMAIN assessed'
      PROVE  Settled(i)'
  <2>1. CASE i \in DOMAIN assessed
    BY <1>0, <1>1, <2>1 DEF Typed, Routed
  <2>2. CASE i \notin DOMAIN assessed
    <3>1. SaveAssessments
      <4>1. CASE Boot \/ Drain \/ SaveDigest \/ SaveFrame \/ Decide \/ SaveReframe \/ Materialize \/ AddCandidate
                 \/ SaveMembership \/ PlanVerification \/ (\E key \in Keys : Answer(key))
        BY <1>4, <2>2, <4>1 DEF Boot, Drain, SaveDigest, SaveFrame, Decide, SaveReframe, Materialize, AddCandidate,
                                SaveMembership, PlanVerification, Answer, workspace
      <4>2. CASE Integrate
                 \/ SaveSynthesis("synthesize", "challenge", "close")
                 \/ SaveSynthesis("resynthesize", "rechallenge", "publish")
                 \/ SaveChallenge("challenge", "close") \/ SaveChallenge("rechallenge", "publish")
                 \/ Close \/ Report \/ Publish
        BY <1>4, <2>2, <4>2 DEF Integrate, SaveSynthesis, SaveChallenge, Close, Report, Publish, workspace
      <4>3. CASE Refuse \/ Stop \/ Leave \/ Continue \/ (\E x \in Notes : GiveNote(x)) \/ (\E j \in Ids : Archive(j))
                 \/ UNCHANGED vars
        BY <1>4, <2>2, <4>3 DEF Refuse, Stop, Leave, Continue, GiveNote, Archive, vars, workspace
      <4>. QED
        BY <4>1, <4>2, <4>3, StepCases
    <3>2. at.round \in DOMAIN plan /\ i \in plan[at.round]
      BY <1>0, <1>4, <2>2, <3>1, AssessmentFacts
    <3>3. Settled(i) /\ i \in Born
      BY <1>0, <3>2 DEF Routed, Typed
    <3>. QED
      BY <1>1, <3>3
  <2>. QED
    BY <2>1, <2>2
<1>. QED
  BY <1>2, <1>3, <1>4 DEF Routed

-----------------------------------------------------------------------------
(* Verdicts and answers. *)

LEMMA HeardMoves ==
  ASSUME ResInv, [Next]_vars
  PROVE  Heard'
<1>0. Typed /\ Placed /\ Kinds /\ Pooled /\ Heard
  BY DEF ResInv
<1>1. CASE PlanVerification
  <2>1. /\ pc' = "verify" /\ unit' = unit /\ Active' = Active /\ at'.round = at.round
        /\ at'.jobs = {Key("verification", at.round, i) : i \in plan'[at.round] \cap Active}
        /\ \A n \in DOMAIN plan : plan'[n] = plan[n]
    BY <1>0, <1>1, PlanFacts DEF Active
  <2>2. ASSUME NEW i \in Active', Good(Key("verification", at.round, i))'
        PROVE  Key("verification", at'.round, i) \in at'.jobs
    <3>1. Key("verification", at.round, i) \in DOMAIN unit
      BY <2>1, <2>2 DEF Good
    <3>2. at.round \in DOMAIN plan /\ i \in plan[at.round]
      BY <1>0, <3>1, KeyParts DEF Kinds
    <3>. QED
      BY <2>1, <2>2, <3>2
  <2>. QED
    BY <2>1, <2>2 DEF Heard, Checked
<1>2. CASE SaveAssessments
  <2>1. /\ pc = "verify" /\ pc' = "integrate" /\ unit' = unit /\ Active' = Active /\ at'.round = at.round
    BY <1>0, <1>2, AssessmentFacts DEF Active
  <2>2. PICK heard \in SUBSET plan[at.round] :
          /\ \A i \in plan[at.round] : i \in heard <=> Key("verification", at.round, i) \in at.jobs
                                                      /\ Good(Key("verification", at.round, i))
          /\ DOMAIN assessed' = DOMAIN assessed \cup heard
          /\ \A i \in heard : assessed'[i].round = at.round
    BY <1>0, <1>2, AssessmentFacts
  <2>3. ASSUME NEW i \in Active', Good(Key("verification", at.round, i))'
        PROVE  i \in DOMAIN assessed' /\ assessed'[i].round = at'.round
    <3>1. Good(Key("verification", at.round, i)) /\ i \in Active
      BY <2>1, <2>3 DEF Good
    <3>2. Key("verification", at.round, i) \in at.jobs
      BY <1>0, <2>1, <3>1 DEF Heard
    <3>3. i \in plan[at.round]
      BY <1>0, <3>1, KeyParts DEF Kinds, Good
    <3>. QED
      BY <2>1, <2>2, <3>1, <3>2, <3>3
  <2>. QED
    BY <2>1, <2>3 DEF Heard, Checked
<1>3. CASE \E key \in Keys : Answer(key)
  <2>1. PICK key \in Keys : Answer(key)
    BY <1>3
  <2>2. /\ pc' = pc /\ Active' = Active /\ assessed' = assessed /\ key \in at.jobs
        /\ at'.round = at.round /\ at'.jobs = at.jobs
        /\ DOMAIN unit' = DOMAIN unit \cup {key} /\ \A k \in DOMAIN unit : unit'[k] = unit[k]
    BY <1>0, <2>1, AnswerFacts DEF Active, Typed, Places
  <2>3. \A k : Good(k)' => Good(k) \/ k = key
    BY <2>2 DEF Good
  <2>4. pc \in Checked => key[1] # "verification"
    <3>1. CASE pc \in {"synthesize", "challenge"}
      <4>1. key \in {Key("synthesis", at.round, 0), Key("challenge", at.round, 0)}
        BY <1>0, <2>2, <3>1 DEF Placed
      <4>. QED
        BY <4>1, KeyParts
    <3>2. pc \in Waves
      BY <1>0, <2>1, AnswerFacts
    <3>. QED
      BY <3>1, <3>2 DEF Checked, Waves
  <2>5. ASSUME pc = "verify", NEW i \in Active, Good(Key("verification", at.round, i))'
        PROVE  Key("verification", at.round, i) \in at.jobs
    BY <1>0, <2>2, <2>3, <2>5 DEF Heard
  <2>6. ASSUME pc \in Checked, NEW i \in Active, Good(Key("verification", at.round, i))'
        PROVE  i \in DOMAIN assessed /\ assessed[i].round = at.round
    <3>1. Key("verification", at.round, i) # key
      BY <2>2, <2>4, <2>6, KeyParts
    <3>. QED
      BY <1>0, <2>2, <2>3, <2>6, <3>1 DEF Heard
  <2>. QED
    BY <2>2, <2>5, <2>6 DEF Heard, Good
<1>4. CASE Refuse
  <2>1. /\ pc' = pc /\ Active' = Active /\ UNCHANGED <<unit, assessed>>
        /\ at'.round = at.round /\ at'.jobs = at.jobs \ Due
    BY <1>0, <1>4 DEF Refuse, Active, Typed, Places, workspace
  <2>2. \A k : Good(k) => k \notin Due
    BY DEF Good, Due
  <2>. QED
    BY <1>0, <2>1, <2>2 DEF Heard, Good
<1>5. CASE \/ Integrate
           \/ SaveSynthesis("synthesize", "challenge", "close") \/ SaveChallenge("challenge", "close")
  <2>1. /\ pc \in Checked /\ pc' \in Checked /\ at'.round = at.round /\ UNCHANGED <<idea, unit, assessed>>
    <3>1. CASE Integrate
      BY <1>0, <3>1 DEF Integrate, AskSynthesis, Goto, Typed, Places, workspace, Checked
    <3>2. CASE SaveSynthesis("synthesize", "challenge", "close") \/ SaveChallenge("challenge", "close")
      BY <1>0, <3>2, SynthesisFacts, ChallengeFacts DEF Checked
    <3>. QED
      BY <1>5, <3>1, <3>2
  <2>2. Active' = Active /\ pc' # "verify"
    BY <2>1 DEF Active, Checked
  <2>. QED
    BY <1>0, <2>1, <2>2 DEF Heard, Good
<1>6. CASE (\E x \in Notes : GiveNote(x)) \/ (\E i \in Ids : Archive(i)) \/ UNCHANGED vars
  <2>1. UNCHANGED <<pc, at, unit, assessed>> /\ Active' \subseteq Active
    <3>1. CASE \E i \in Ids : Archive(i)
      BY <1>0, <3>1, ArchiveFacts DEF workspace
    <3>2. CASE (\E x \in Notes : GiveNote(x)) \/ UNCHANGED vars
      BY <3>2 DEF GiveNote, vars, workspace, Active
    <3>. QED
      BY <1>6, <3>1, <3>2
  <2>. QED
    BY <1>0, <2>1 DEF Heard, Good
<1>7. CASE \/ Boot \/ Drain \/ SaveDigest \/ SaveFrame \/ Report \/ Publish \/ Stop \/ Leave \/ Continue \/ Close
           \/ Materialize
  <2>1. pc' \notin {"verify"} \cup Checked
    BY <1>7 DEF Boot, Drain, SaveDigest, SaveFrame, Report, Publish, Stop, Leave, Continue, Close, Materialize, Goto, Checked
  <2>. QED
    BY <2>1 DEF Heard
<1>8. CASE Decide \/ SaveReframe \/ AddCandidate \/ SaveMembership
  <2>1. pc' \notin {"verify"} \cup Checked
    <3>1. CASE Decide
      BY <1>0, <3>1, DecideFacts DEF Checked
    <3>2. CASE SaveReframe
      BY <3>2 DEF SaveReframe, Explore, Goto, Checked
    <3>3. CASE AddCandidate \/ SaveMembership
      BY <1>0, <3>3, AddFacts, MembershipFacts DEF Checked
    <3>. QED
      BY <1>8, <3>1, <3>2, <3>3
  <2>. QED
    BY <2>1 DEF Heard
<1>9. CASE SaveSynthesis("resynthesize", "rechallenge", "publish") \/ SaveChallenge("rechallenge", "publish")
  <2>1. pc' \in {"rechallenge", "publish"}
    BY <1>0, <1>9, SynthesisFacts, ChallengeFacts
  <2>. QED
    BY <2>1 DEF Heard, Checked
<1>. QED
  BY <1>1, <1>2, <1>3, <1>4, <1>5, <1>6, <1>7, <1>8, <1>9, StepCases

LEMMA AnsweredMoves ==
  ASSUME ResInv, [Next]_vars
  PROVE  Answered'
<1>0. Typed /\ Placed /\ Answered /\ \A k : Good(k) => Good(k)'
  BY GoodStays DEF ResInv
<1>. DEFINE Saves == \/ SaveSynthesis("synthesize", "challenge", "close")
                     \/ SaveSynthesis("resynthesize", "rechallenge", "publish")
            Challenged == SaveChallenge("challenge", "close") \/ SaveChallenge("rechallenge", "publish")
<1>1. CASE Saves
  <2>1. /\ at'.round = at.round /\ unit' = unit
        /\ \/ UNCHANGED <<synthesis, challenge>> /\ pc' \in {"close", "publish"}
           \/ /\ Good(Key("synthesis", at.round, 0)) /\ synthesis' # Nothing /\ synthesis'.round = at.round
              /\ challenge' = Nothing
    BY <1>0, <1>1, SynthesisFacts
  <2>2. CASE UNCHANGED <<synthesis, challenge>> /\ pc' \in {"close", "publish"}
    BY <1>0, <2>1, <2>2 DEF Answered, ChallengeOfAnswer, Good
  <2>3. CASE /\ Good(Key("synthesis", at.round, 0)) /\ synthesis' # Nothing /\ synthesis'.round = at.round
             /\ challenge' = Nothing
    BY <2>1, <2>3 DEF Answered, ChallengeOfAnswer, Good
  <2>. QED
    BY <2>1, <2>2, <2>3
<1>2. CASE Challenged
  <2>1. /\ pc \in {"challenge", "rechallenge"} /\ pc' \in {"close", "publish"} /\ UNCHANGED <<unit, synthesis>>
        /\ \/ UNCHANGED challenge
           \/ /\ Good(Key("challenge", at.round, 0)) /\ challenge' # Nothing /\ challenge'.round = at.round
    BY <1>0, <1>2, ChallengeFacts
  <2>2. synthesis # Nothing /\ synthesis.round = at.round /\ Good(Key("synthesis", synthesis.round, 0))
    BY <1>0, <2>1 DEF Answered
  <2>. QED
    BY <1>0, <2>1, <2>2 DEF Answered, ChallengeOfAnswer, Good
<1>3. ASSUME UNCHANGED <<synthesis, challenge>>,
             pc' \in {"challenge", "rechallenge"} => pc' = pc /\ at'.round = at.round
      PROVE  Answered'
  <2>1. /\ synthesis # Nothing => Good(Key("synthesis", synthesis.round, 0))'
        /\ challenge # Nothing => /\ synthesis # Nothing /\ challenge.round = synthesis.round
                                  /\ Good(Key("synthesis", challenge.round, 0))' /\ Good(Key("challenge", challenge.round, 0))'
    BY <1>0, <1>3 DEF Answered, ChallengeOfAnswer
  <2>. QED
    BY <1>0, <1>3, <2>1 DEF Answered, ChallengeOfAnswer, Good
<1>4. CASE \E key \in Keys : Answer(key)
  BY <1>0, <1>3, <1>4, AnswerFacts DEF Typed, Places
<1>5. CASE Refuse \/ (\E x \in Notes : GiveNote(x)) \/ (\E i \in Ids : Archive(i)) \/ UNCHANGED vars
  BY <1>0, <1>3, <1>5 DEF Refuse, GiveNote, Archive, vars, workspace, Typed, Places
<1>6. CASE \/ Boot \/ Drain \/ SaveDigest \/ SaveFrame \/ Report \/ Publish \/ Stop \/ Leave \/ Continue \/ Close
           \/ Materialize \/ Integrate \/ PlanVerification \/ SaveAssessments
  <2>1. UNCHANGED <<synthesis, challenge>> /\ pc' \notin {"challenge", "rechallenge"}
    BY <1>6 DEF Boot, Drain, SaveDigest, SaveFrame, Report, Publish, Stop, Leave, Continue, Close, Materialize, Integrate,
                PlanVerification, SaveAssessments, AskSynthesis, Goto, workspace
  <2>. QED
    BY <1>3, <2>1
<1>7. CASE Decide \/ SaveReframe \/ AddCandidate \/ SaveMembership
  <2>0. Pooled
    BY DEF ResInv
  <2>1. UNCHANGED <<synthesis, challenge>> /\ pc' \notin {"challenge", "rechallenge"}
    <3>1. CASE Decide
      BY <1>0, <3>1, DecideFacts DEF Decide
    <3>2. CASE SaveReframe
      BY <3>2 DEF SaveReframe, Explore, Goto
    <3>3. CASE AddCandidate \/ SaveMembership
      BY <1>0, <2>0, <3>3, AddFacts, MembershipFacts DEF workspace
    <3>. QED
      BY <1>7, <3>1, <3>2, <3>3
  <2>. QED
    BY <1>3, <2>1
<1>. HIDE DEF Saves, Challenged
<1>. QED
  BY <1>1, <1>2, <1>4, <1>5, <1>6, <1>7, StepCases DEF Saves, Challenged

(* As long as nothing failed, what a step hears is what the digest was taken over. *)
LEMMA GuidedMoves ==
  ASSUME ResInv, [Next]_vars
  PROVE  Guided'
<1>0. Typed /\ Placed /\ Pooled /\ Guided /\ faults \in Nat
  BY DEF ResInv, Typed
<1>. SUFFICES ASSUME faults' = 0 PROVE Guided'
  BY DEF Guided
<1>1. CASE Refuse \/ Stop \/ Leave
  BY <1>0, <1>1 DEF Refuse, Stop, Leave
<1>2. faults = 0 \/ Refuse \/ Stop \/ Leave
  <2>1. CASE \E key \in Keys : Answer(key)
    <3>1. faults' \in {faults, faults + 1}
      BY <1>0, <2>1, AnswerFacts
    <3>. QED
      BY <1>0, <3>1
  <2>2. CASE Boot \/ Drain \/ SaveDigest \/ SaveFrame \/ Decide \/ SaveReframe \/ Materialize \/ AddCandidate
             \/ SaveMembership \/ PlanVerification
    BY <2>2 DEF Boot, Drain, SaveDigest, SaveFrame, Decide, SaveReframe, Materialize, AddCandidate,
                SaveMembership, PlanVerification
  <2>3. CASE SaveAssessments \/ Integrate
             \/ SaveSynthesis("synthesize", "challenge", "close")
             \/ SaveSynthesis("resynthesize", "rechallenge", "publish")
             \/ SaveChallenge("challenge", "close") \/ SaveChallenge("rechallenge", "publish")
             \/ Close \/ Report \/ Publish
    BY <2>3 DEF SaveAssessments, Integrate, SaveSynthesis, SaveChallenge, Close, Report, Publish
  <2>4. CASE Continue \/ (\E x \in Notes : GiveNote(x)) \/ (\E i \in Ids : Archive(i)) \/ UNCHANGED vars
    BY <2>4 DEF Continue, GiveNote, Archive, vars
  <2>. QED
    BY <2>1, <2>2, <2>3, <2>4, StepCases
<1>. DEFINE Told(k) == k \in DOMAIN unit /\ unit[k].ok
<1>3. ASSUME faults = 0
      PROVE  /\ pc # "digest" => digest = noted
             /\ pc \in {"off", "boundary", "digest"} => round = closed
             /\ pc \in Steps \ {"boundary", "digest"} => round = at.round /\ at.notes = noted
             /\ pc = "digest" => at.notes = noted
             /\ pc \in Reporting => closed = round /\ round # 0
             /\ pc \in {"resynthesize", "rechallenge"} => at.notes = noted /\ at.round = round
             /\ \A n \in Rounds : Good(Key("synthesis", n, 0)) =>
                  n <= round /\ (n = round => unit[Key("synthesis", n, 0)].saw = digest)
             /\ synthesis # Nothing => synthesis.saw = synthesis.digest
  BY <1>0, <1>3 DEF Guided
(* The steps that leave notes, rounds, answers and synthesis alone. *)
<1>4. ASSUME faults = 0, UNCHANGED <<unit, digest, noted, round, closed, synthesis>>,
             pc # "digest" /\ pc' # "digest",
             pc' \in {"off", "boundary"} => round = closed,
             pc' \in Steps \ {"boundary", "digest"} => round = at'.round /\ at'.notes = noted,
             pc' \in Reporting => closed = round /\ round # 0,
             pc' \in {"resynthesize", "rechallenge"} => at'.notes = noted /\ at'.round = round
      PROVE  Guided'
  BY <1>3, <1>4 DEF Guided, Good
<1>5. CASE faults = 0 /\ Boot
  <2>1. /\ pc = "off" /\ UNCHANGED <<unit, digest, noted, round, closed, synthesis>>
        /\ pc' = IF closed < target THEN "boundary" ELSE "report"
    BY <1>5 DEF Boot, workspace, run
  <2>2. closed \in Nat /\ target \in Nat \ {0}
    BY <1>0, Numbers DEF Typed, Rounds
  <2>3. pc' = "report" => closed # 0
    BY <2>1, <2>2
  <2>. QED
    BY <1>3, <1>4, <1>5, <2>1, <2>3 DEF Steps, Reporting
<1>6. CASE faults = 0 /\ Drain
  <2>1. /\ pc = "boundary" /\ pc' = "digest" /\ at' = [at EXCEPT !.notes = noted']
        /\ UNCHANGED <<unit, digest, round, closed, synthesis>> /\ at \in Places
    BY <1>0, <1>6 DEF Drain, workspace, Typed
  <2>2. at'.notes = noted'
    BY <2>1 DEF Places
  <2>. QED
    BY <1>3, <1>6, <2>1, <2>2 DEF Guided, Good, Steps, Reporting
<1>7. CASE faults = 0 /\ SaveDigest
  <2>1. /\ pc = "digest" /\ pc' \in {"decide", "frame"} /\ digest' = at.notes /\ round' = at.round
        /\ UNCHANGED <<unit, noted, closed, synthesis>>
        /\ at'.round = at.round /\ at'.notes = at.notes
    BY <1>0, <1>7 DEF SaveDigest, Goto, Typed, Places
  <2>2. at.round = closed + 1 /\ closed \in Nat
    BY <1>0, <2>1, Numbers DEF Placed, Steps, Typed, Rounds
  <2>3. round = closed /\ at.notes = noted
    BY <1>3, <1>7, <2>1
  <2>4. \A n \in Rounds : n \in Nat
    BY Numbers DEF Rounds
  <2>5. \A n \in Rounds : Good(Key("synthesis", n, 0)) => n <= round' /\ n # round'
    BY <1>3, <1>7, <2>1, <2>2, <2>3, <2>4
  <2>. QED
    BY <1>3, <1>7, <2>1, <2>2, <2>3, <2>5 DEF Guided, Good, Steps, Reporting
<1>8. CASE faults = 0 /\ (SaveFrame \/ Decide \/ SaveReframe \/ Materialize \/ AddCandidate
                          \/ SaveMembership \/ PlanVerification \/ SaveAssessments)
  <2>. DEFINE Inner == Steps \ {"boundary", "digest"}
  <2>1. /\ pc \in Inner /\ pc' \in Inner /\ UNCHANGED <<unit, digest, noted, round, closed, synthesis>>
        /\ at'.round = at.round /\ at'.notes = at.notes
    <3>1. CASE SaveFrame
      BY <1>0, <3>1 DEF SaveFrame, WaveDone, Goto, Typed, Places, run, Steps
    <3>2. CASE Decide
      BY <1>0, <3>2, DecideFacts DEF Decide, run, Steps
    <3>3. CASE SaveReframe
      BY <1>0, <3>3 DEF SaveReframe, Explore, WaveDone, Goto, Typed, Places, run, Steps
    <3>4. CASE Materialize
      BY <1>0, <3>4 DEF Materialize, WaveDone, Typed, Places, workspace, run, Steps
    <3>5. CASE AddCandidate
      BY <1>0, <3>5, AddFacts DEF Typed, Places, workspace, run, Steps
    <3>6. CASE SaveMembership
      <4>1. /\ pc = "add" /\ at' = [at EXCEPT !.todo = at.todo \ {Current}, !.index = 1] /\ at \in Places
            /\ pc' \in {"plan", "add"} /\ UNCHANGED <<unit, digest, noted, round, closed, synthesis>>
        BY <1>0, <3>6, MembershipFacts DEF run, Typed
      <4>. QED
        BY <4>1 DEF Places, Steps
    <3>7. CASE PlanVerification
      BY <1>0, <3>7, PlanFacts DEF run, Steps
    <3>8. CASE SaveAssessments
      BY <1>0, <3>8, AssessmentFacts DEF run, Steps
    <3>. QED
      BY <1>8, <3>1, <3>2, <3>3, <3>4, <3>5, <3>6, <3>7, <3>8
  <2>2. pc' \notin Reporting /\ pc' \notin {"off", "boundary", "digest", "resynthesize", "rechallenge"} /\ pc # "digest"
    BY <2>1 DEF Steps, Reporting
  <2>. QED
    BY <1>3, <1>4, <1>8, <2>1, <2>2
<1>9. CASE faults = 0 /\ Integrate
  <2>1. /\ pc = "integrate" /\ pc' \in {"synthesize", "close"}
        /\ UNCHANGED <<unit, digest, noted, round, closed, synthesis>>
        /\ at'.round = at.round /\ at'.notes = at.notes
    BY <1>0, <1>9 DEF Integrate, AskSynthesis, Goto, Typed, Places, workspace, run
  <2>. QED
    BY <1>3, <1>4, <1>9, <2>1 DEF Steps, Reporting
<1>10. CASE faults = 0 /\ \E key \in Keys : Answer(key)
  <2>1. PICK key \in Keys : Answer(key)
    BY <1>10
  <2>2. /\ pc' = pc /\ key \in at.jobs /\ pc \in Waves
        /\ at'.round = at.round /\ at'.notes = at.notes
        /\ DOMAIN unit' = DOMAIN unit \cup {key} /\ \A k \in DOMAIN unit : unit'[k] = unit[k]
        /\ unit'[key].ok => unit'[key].saw = at.notes
        /\ UNCHANGED <<digest, noted, round, closed, synthesis>>
    BY <1>0, <2>1, AnswerFacts DEF Typed, Places, run
  <2>3. key[1] = "synthesis" => key = Key("synthesis", round, 0) /\ at.notes = digest
    <3>. SUFFICES ASSUME key[1] = "synthesis"
                  PROVE  key = Key("synthesis", round, 0) /\ at.notes = digest
      OBVIOUS
    <3>1. pc \in {"synthesize", "resynthesize"}
      <4>1. CASE pc \in {"frame", "reframe", "explore", "develop", "verify", "challenge", "rechallenge"}
        BY <1>0, <2>2, <4>1, KeyParts DEF Placed
      <4>. QED
        BY <2>2, <4>1 DEF Waves
    <3>2. key = Key("synthesis", at.round, 0)
      BY <1>0, <2>2, <3>1 DEF Placed
    <3>3. at.round = round /\ at.notes = noted /\ digest = noted
      BY <1>3, <1>10, <3>1 DEF Steps
    <3>. QED
      BY <3>2, <3>3
  <2>4. round \in Nat
    BY <1>0, Numbers DEF Typed
  <2>5. ASSUME NEW n \in Rounds, Key("synthesis", n, 0) \in DOMAIN unit', unit'[Key("synthesis", n, 0)].ok
        PROVE  n <= round /\ (n = round => unit'[Key("synthesis", n, 0)].saw = digest)
    <3>1. CASE Key("synthesis", n, 0) = key
      <4>1. n = round /\ at.notes = digest
        BY <2>3, <3>1, KeyParts
      <4>. QED
        BY <2>2, <2>4, <2>5, <3>1, <4>1
    <3>2. CASE Key("synthesis", n, 0) # key
      <4>1. Good(Key("synthesis", n, 0)) /\ unit'[Key("synthesis", n, 0)] = unit[Key("synthesis", n, 0)]
        BY <2>2, <2>5, <3>2 DEF Good
      <4>. QED
        BY <1>3, <1>10, <4>1
    <3>. QED
      BY <3>1, <3>2
  <2>. QED
    BY <1>3, <1>10, <2>2, <2>5 DEF Guided, Good
<1>11. CASE faults = 0 /\ (SaveSynthesis("synthesize", "challenge", "close")
                           \/ SaveSynthesis("resynthesize", "rechallenge", "publish"))
  <2>1. /\ at'.round = at.round /\ at'.notes = at.notes /\ UNCHANGED <<unit, digest, noted, round, closed>>
        /\ \/ pc = "synthesize" /\ pc' \in {"challenge", "close"}
           \/ pc = "resynthesize" /\ pc' \in {"rechallenge", "publish"}
        /\ \/ UNCHANGED synthesis
           \/ /\ Good(Key("synthesis", at.round, 0)) /\ synthesis'.digest = digest
              /\ synthesis'.saw = unit[Key("synthesis", at.round, 0)].saw
        /\ at.round \in Rounds
    BY <1>0, <1>11, SynthesisFacts DEF run
  <2>2. at.round = round
    BY <1>3, <1>11, <2>1 DEF Steps
  <2>3. synthesis' # Nothing => synthesis'.saw = synthesis'.digest
    BY <1>3, <1>11, <2>1, <2>2
  <2>. QED
    BY <1>3, <1>11, <2>1, <2>2, <2>3 DEF Guided, Good, Steps, Reporting
<1>12. CASE faults = 0 /\ (SaveChallenge("challenge", "close") \/ SaveChallenge("rechallenge", "publish"))
  <2>1. /\ at'.round = at.round /\ at'.notes = at.notes /\ UNCHANGED <<unit, digest, noted, round, closed, synthesis>>
        /\ \/ pc = "challenge" /\ pc' = "close"
           \/ pc = "rechallenge" /\ pc' = "publish"
    BY <1>0, <1>12, ChallengeFacts DEF run
  <2>. QED
    BY <1>3, <1>4, <1>12, <2>1 DEF Steps, Reporting
<1>13. CASE faults = 0 /\ Close
  <2>1. /\ pc = "close" /\ closed' = at.round /\ at.round = closed + 1 /\ closed \in Nat
        /\ pc' \in {"boundary", "report"} /\ UNCHANGED <<unit, digest, noted, round, synthesis>>
    BY <1>0, <1>13, Numbers DEF Close, workspace, Placed, Steps, Typed, Rounds
  <2>2. round = at.round /\ digest = noted
    BY <1>3, <1>13, <2>1 DEF Steps
  <2>. QED
    BY <1>3, <1>13, <2>1, <2>2 DEF Guided, Good, Steps, Reporting
<1>14. CASE faults = 0 /\ (Report \/ Publish)
  <2>1. /\ pc \in {"report", "publish"} /\ UNCHANGED <<unit, digest, noted, round, closed, synthesis>>
        /\ pc' \in {"over", "publish", "resynthesize"}
        /\ pc' = "resynthesize" => at'.notes = noted /\ at'.round = (IF round = 0 THEN 1 ELSE round)
    BY <1>14 DEF Report, Publish, Goto, Idle, workspace, run
  <2>2. closed = round /\ round # 0
    BY <1>3, <1>14, <2>1 DEF Reporting
  <2>. QED
    BY <1>3, <1>4, <1>14, <2>1, <2>2 DEF Steps, Reporting
<1>15. CASE faults = 0 /\ Continue
  <2>1. pc = "over" /\ pc' = "off" /\ UNCHANGED <<unit, digest, noted, round, closed, synthesis>>
    BY <1>15 DEF Continue, workspace
  <2>. QED
    BY <1>3, <1>4, <1>15, <2>1 DEF Steps, Reporting
<1>16. CASE faults = 0 /\ ((\E x \in Notes : GiveNote(x)) \/ (\E i \in Ids : Archive(i)) \/ UNCHANGED vars)
  <2>1. UNCHANGED <<pc, at, unit, digest, noted, round, closed, synthesis>>
    BY <1>16 DEF GiveNote, Archive, vars, workspace, run
  <2>. QED
    BY <1>3, <1>16, <2>1 DEF Guided, Good
<1>. QED
  BY <1>1, <1>2, <1>5, <1>6, <1>7, <1>8, <1>9, <1>10, <1>11, <1>12, <1>13, <1>14, <1>15, <1>16, StepCases

-----------------------------------------------------------------------------

LEMMA ResInvAtFirst == Init => ResInv
<1>. SUFFICES ASSUME Init PROVE ResInv
  OBVIOUS
<1>1. /\ idea = [i \in Ids |-> Unborn] /\ DOMAIN unit = {} /\ frame = 0 /\ DOMAIN decision = {} /\ DOMAIN plan = {}
      /\ DOMAIN member = {} /\ DOMAIN assessed = {} /\ synthesis = Nothing /\ challenge = Nothing /\ digest = {}
      /\ queue = {} /\ noted = {} /\ round = 0 /\ closed = 0 /\ target = FirstTarget
      /\ pc = "off" /\ at = Idle /\ answers = [k \in Keys |-> 0] /\ faults = 0
  BY DEF Init
<1>2. Born = {} /\ Active = {}
  BY <1>1 DEF Born, Active, Unborn
<1>3. Typed
  <2>1. Unborn \in IdeaRows
    BY Numbers DEF Unborn, IdeaRows
  <2>2. idea \in [Ids -> IdeaRows]
    BY <1>1, <2>1
  <2>3. at \in Places /\ at.notes = {} /\ at.selected = {}
    BY <1>1, IdleIsAPlace DEF Idle
  <2>4. 0 \in 0 .. MaxRounds /\ target \in Rounds /\ closed \in 0 .. target
    BY <1>1, Numbers DEF Rounds
  <2>. QED
    BY <1>1, <1>2, <2>2, <2>3, <2>4 DEF Typed
<1>4. Placed
  BY <1>1 DEF Placed, Steps, Reporting, Decided, Searched, Checked
<1>5. Pooled
  <2>1. Born = 1 .. 0 /\ 0 \in 0 .. MaxIdeas
    BY <1>2, Numbers
  <2>. QED
    BY <1>2, <2>1 DEF Pooled, OneCandidatePerSlot
<1>6. Kinds /\ Paid /\ Routed /\ Heard /\ Alternates
  BY <1>1, <1>2 DEF Kinds, Paid, Routed, Heard, Alternates, Checked
<1>7. Answered /\ Guided
  BY <1>1 DEF Answered, ChallengeOfAnswer, Guided, Good, Steps, Reporting
<1>. QED
  BY <1>3, <1>4, <1>5, <1>6, <1>7 DEF ResInv

THEOREM ResInvAlways == Spec => []ResInv
<1>1. ASSUME ResInv, [Next]_vars PROVE ResInv'
  <2>1. Typed' /\ Placed' /\ Kinds' /\ Pooled'
    BY <1>1, TypedMoves, PlacedMoves, KindsMoves, PooledMoves
  <2>2. Paid' /\ Routed' /\ Heard' /\ Answered' /\ Alternates' /\ Guided'
    BY <1>1, PaidMoves, RoutedMoves, HeardMoves, AnsweredMoves, AlternatesMoves, GuidedMoves
  <2>. QED
    BY <2>1, <2>2 DEF ResInv
<1>. QED
  BY <1>1, ResInvAtFirst, PTL DEF Spec

(* However often a checkpoint is resumed, a recorded result is never asked for again *)
(* and none of its candidates enters the pool twice (calls, materialize).            *)
THEOREM PaidAtMostOnce == Spec => []PaidOnce
<1>1. ASSUME ResInv PROVE PaidOnce
  <2>0. Typed /\ Placed /\ Pooled /\ Paid
    BY <1>1 DEF ResInv
  <2>1. UnitPaidOnce
    BY <2>0 DEF Paid, UnitPaidOnce
  <2>2. OneCandidatePerSlot
    BY <2>0 DEF Pooled
  <2>3. TypeOK
    <3>1. \A i \in Ids : idea[i].status \in {"none", "active", "archived"} /\ idea[i].born \in 0 .. MaxRounds
      BY <2>0 DEF Typed, IdeaRows
    <3>2. pc \in Waves \cup {"off", "over", "boundary", "digest", "decide", "add", "plan",
                             "integrate", "close", "report", "publish"}
      BY <2>0 DEF Placed, Steps, Reporting, Waves
    <3>3. at.round \in 0 .. MaxRounds + 1 /\ at.jobs \subseteq Keys
      BY <2>0 DEF Typed, Places
    <3>. QED
      BY <2>0, <3>1, <3>2, <3>3 DEF Typed, TypeOK
  <2>. QED
    BY <2>1, <2>2, <2>3 DEF PaidOnce
<1>. QED
  BY <1>1, ResInvAlways, PTL

(* What the workspace says follows from what its calls recorded, whoever asked:     *)
(* nothing recorded is forgotten at the close of a checkpoint, a challenge is of the *)
(* answer beside it, fresh search follows targeted work, and an answer called ready  *)
(* had the notes of the digest (checkpoint, integrate, next_action).                 *)
THEOREM ResultsAreHeld == Spec => []ResultsHold
<1>1. ASSUME ResInv PROVE ResultsHold
  <2>1. ResultsApplied
    BY <1>1 DEF ResInv, Routed, Settled, AtHand, Heard, ResultsApplied, Searched, Checked
  <2>2. ChallengeOfAnswer
    BY <1>1 DEF ResInv, Answered
  <2>3. BreadthRecovered
    <3>. SUFFICES ASSUME NEW n \in DOMAIN decision
                  PROVE  /\ n - 1 \in DOMAIN decision /\ decision[n - 1] \in {"develop", "verify", "reframe"}
                              => decision[n] \in {"explore", "reframe"}
                         /\ decision[n] \in {"explore", "reframe", "verify"} => Key("develop", n, 0) \notin DOMAIN unit
                         /\ decision[n] = "verify" => \A a \in Approaches : Key("explore", n, a) \notin DOMAIN unit
      BY DEF BreadthRecovered
    <3>1. Key("develop", n, 0) \in DOMAIN unit => decision[n] = "develop"
      BY <1>1, KeyParts DEF ResInv, Kinds
    <3>2. \A a \in Approaches : Key("explore", n, a) \in DOMAIN unit => decision[n] # "verify"
      BY <1>1, KeyParts DEF ResInv, Kinds
    <3>. QED
      BY <1>1, <3>1, <3>2 DEF ResInv, Alternates
  <2>4. ReadyHeardGuidance
    <3>1. faults \in Nat
      BY <1>1 DEF ResInv, Typed
    <3>. QED
      BY <1>1, <3>1 DEF ResInv, Guided, Ready, ReadyHeardGuidance
  <2>. QED
    BY <2>1, <2>2, <2>3, <2>4 DEF ResultsHold
<1>. QED
  BY <1>1, ResInvAlways, PTL
=============================================================================
