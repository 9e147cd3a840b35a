--------------------------- MODULE KillTreeProofs ---------------------------
(***************************************************************************)
(* What a kill of a process tree does is proved for every table of         *)
(* processes, every number of forks, exits and reused pids, and every      *)
(* order of them.  The walk is the least set closed under parenthood; the  *)
(* lemmas about it say what a fork and an exit do to it, and the invariant *)
(* that everybody of the family who is not frozen is still found by it.    *)
(***************************************************************************)
EXTENDS KillTree, TLAPS

\* Where the killer is: before it holds anybody, while it looks, while it kills.
Looking == {"guard", "open", "stop", "look", "hold", "freeze"}
Killing == {"kill", "await"}
Early == {"start", "identify", "guard", "open"}

\* What there is is numbered, and a parent is somebody else who is still there.
WorldOK ==
  /\ proc[Self].state = "running"
  /\ \A p \in Pids :
       /\ proc[p].born <= births
       /\ proc[p].state # "none" => proc[p].born # NoOne
       /\ \A q \in Pids \ {p} : proc[p].born = proc[q].born => proc[p].born = NoOne
       /\ proc[p].state # "none" /\ proc[p].ppid # NoOne =>
            proc[p].ppid # p /\ Live(proc[p].ppid)

\* The history names processes that have been, and the family holds its children.
HistoryOK ==
  /\ family \cup strayed \cup signalled \subseteq 1 .. births
  /\ signalled \subseteq family
  /\ \A p, q \in Pids :
       Live(q) /\ proc[q].ppid = p /\ proc[p].born \in family => proc[q].born \in family
  /\ place \in Looking \cup Killing => root \in family
  /\ place \in Early \cup {"stop"} => signalled = {}
  /\ place \in Early => DOMAIN owned = {} /\ DOMAIN todo = {}

\* What the killer holds, or is about to, is of the family and none of its own tree.
Spares(p) == p # Self /\ ~AncestorOfSelf(p)

HeldOK ==
  /\ place \notin {"start", "done"} => target # Self
  /\ place \in {"open", "stop", "look", "hold", "freeze", "kill"} => Spares(target)
  /\ \A p \in DOMAIN owned : owned[p] \in family /\ Spares(p)
  /\ \A p \in DOMAIN todo : todo[p] \in family /\ Spares(p)
  /\ place \in {"stop", "look", "hold", "freeze"} => target \in DOMAIN owned /\ owned[target] = root
  /\ place \in {"hold", "freeze"} => DOMAIN todo \cap DOMAIN owned = {}
  /\ place = "freeze" => cur \in DOMAIN owned
  /\ place = "kill" => \A p \in DOMAIN todo : p \in DOMAIN owned /\ todo[p] = owned[p]

\* What was signalled is held by its birth and can be let go again.
SignalledOK ==
  \A p \in Pids : proc[p].born \in signalled =>
    /\ p \in DOMAIN owned /\ owned[p] = proc[p].born /\ ~proc[p].immune
    /\ Live(p) => Spares(p)

\* What is held has been stopped, except the one that is about to be.
StoppedOK ==
  /\ place \notin Killing \cup {"done"} => \A p \in Pids : proc[p].state # "dying"
  /\ place \in Looking => \A p \in DOMAIN owned :
       Live(p) /\ owned[p] = proc[p].born =>
         \/ proc[p].state # "running"
         \/ place = "freeze" /\ p = cur
         \/ place = "stop" /\ p = target

\* Who is of the family, and not cut off, is found below the target or frozen.
FoundOK ==
  /\ place \in Looking => \A p \in Pids : Live(p) /\ proc[p].born \in family \ strayed =>
       /\ p = target \/ p \in Descendants(target) \/ Frozen(p)
       /\ p \in DOMAIN owned => owned[p] = proc[p].born
  /\ FrozenBeforeKilled

\* An answer is given at the end, and is true.
AnswerOK == (verdict = "none" <=> place # "done") /\ TreeGone /\ NothingLeftFrozen

KInv ==
  KillTypeOK /\ WorldOK /\ HistoryOK /\ HeldOK /\ SignalledOK /\ StoppedOK /\ FoundOK /\ AnswerOK

(***************************************************************************)
(* What a walk finds, for a table of processes f.                          *)
(***************************************************************************)
LiveIn(f, p) == f[p].state \in {"running", "stopped", "dying"}

ClosedIn(f, S) == \A q \in Pids : LiveIn(f, q) /\ f[q].ppid \in S => q \in S

Below(f, r) ==
  {p \in Pids \ {r} : \A S \in SUBSET Pids : r \in S /\ ClosedIn(f, S) => p \in S}

\* The model's walk is the one over the present table, now and after a step.
LEMMA Walks ==
  /\ \A p : Live(p) <=> LiveIn(proc, p)
  /\ \A r : Descendants(r) = Below(proc, r)
  /\ \A p : Live(p)' <=> LiveIn(proc', p)
  /\ \A r : Descendants(r)' = Below(proc', r)
  BY DEF Live, LiveIn, Descendants, Below, Closed, ClosedIn

\* What is found below a process is a live child of it or of another one found.
LEMMA BelowIsClosed ==
  ASSUME NEW f, NEW r \in Pids
  PROVE  ClosedIn(f, {r} \cup Below(f, r)) /\ Below(f, r) \subseteq Pids
<1>1. SUFFICES ASSUME NEW q \in Pids, LiveIn(f, q), f[q].ppid \in {r} \cup Below(f, r), q # r
               PROVE  q \in Below(f, r)
  BY DEF ClosedIn, Below
<1>2. SUFFICES ASSUME NEW S \in SUBSET Pids, r \in S, ClosedIn(f, S) PROVE q \in S
  BY <1>1 DEF Below
<1>3. f[q].ppid \in S
  BY <1>1, <1>2 DEF Below
<1>4. QED
  BY <1>1, <1>2, <1>3 DEF ClosedIn

\* A set that is closed and holds r holds all that is below r.
LEMMA BelowIsLeast ==
  ASSUME NEW f, NEW r, NEW S \in SUBSET Pids, r \in S, ClosedIn(f, S)
  PROVE  Below(f, r) \subseteq S
  BY DEF Below

\* Nobody who has ended is found.
LEMMA BelowIsLive ==
  ASSUME NEW f, NEW r \in Pids, NEW p \in Below(f, r)
  PROVE  LiveIn(f, p) /\ p \in Pids /\ p # r
<1> DEFINE S == {r} \cup {q \in Below(f, r) : LiveIn(f, q)}
<1>1. S \in SUBSET Pids /\ r \in S
  BY BelowIsClosed
<1>2. ClosedIn(f, S)
  BY BelowIsClosed DEF ClosedIn
<1>3. p \in S
  BY <1>1, <1>2, BelowIsLeast
<1>4. p \in Pids /\ p # r
  BY DEF Below
<1>5. QED
  BY <1>3, <1>4

\* Below a process that is found there is nothing that is not found.
LEMMA BelowIsTransitive ==
  ASSUME NEW f, NEW r \in Pids, NEW p \in {r} \cup Below(f, r)
  PROVE  Below(f, p) \subseteq {r} \cup Below(f, r)
<1> DEFINE S == {r} \cup Below(f, r)
<1>1. S \in SUBSET Pids /\ p \in S /\ ClosedIn(f, S)
  BY BelowIsClosed
<1> HIDE DEF S
<1>2. Below(f, p) \subseteq S
  BY <1>1, BelowIsLeast
<1>3. QED
  BY <1>2 DEF S

\* Where there are no new children, nobody new is found.
LEMMA BelowShrinks ==
  ASSUME NEW f, NEW g, NEW r,
         \A q \in Pids : LiveIn(g, q) /\ g[q].ppid \in Pids => LiveIn(f, q) /\ g[q].ppid = f[q].ppid
  PROVE  Below(g, r) \subseteq Below(f, r)
<1>1. \A S \in SUBSET Pids : ClosedIn(f, S) => ClosedIn(g, S)
  BY DEF ClosedIn
<1>2. QED
  BY <1>1 DEF Below

\* A fork adds one process to what is found, and takes nothing away.
LEMMA BelowAfterFork ==
  ASSUME NEW f, NEW g, NEW p \in Pids, NEW q \in Pids, NEW r \in Pids,
         ~LiveIn(f, q), LiveIn(g, q), g[q].ppid = p,
         \A s \in Pids \ {q} : g[s] = f[s],
         \A s \in Pids : LiveIn(f, s) => f[s].ppid # q
  PROVE  /\ Below(g, r) \subseteq Below(f, r) \cup {q}
         /\ Below(f, r) \subseteq Below(g, r)
         /\ p \in {r} \cup Below(f, r) /\ q # r => q \in Below(g, r)
<1>1. Below(f, r) \subseteq Below(g, r)
  <2>1. \A s \in Pids : LiveIn(f, s) => LiveIn(g, s) /\ f[s].ppid = g[s].ppid
    BY DEF LiveIn
  <2>2. QED
    BY <2>1, BelowShrinks
<1>2. Below(g, r) \subseteq Below(f, r) \cup {q}
  <2> DEFINE S == {r, q} \cup Below(f, r)
  <2>1. S \in SUBSET Pids /\ r \in S
    BY BelowIsClosed
  <2>2. ASSUME NEW s \in Pids, LiveIn(g, s), g[s].ppid \in S, s # q PROVE s \in S
    <3>1. LiveIn(f, s) /\ f[s].ppid = g[s].ppid
      BY <2>2 DEF LiveIn
    <3>2. f[s].ppid \in {r} \cup Below(f, r)
      BY <3>1, <2>2
    <3>3. QED
      BY <3>1, <3>2, BelowIsClosed DEF ClosedIn
  <2>3. ClosedIn(g, S)
    BY <2>2 DEF ClosedIn
  <2>4. Below(g, r) \subseteq S
    <3> HIDE DEF S
    <3>1. QED
      BY <2>1, <2>3, BelowIsLeast
  <2>5. r \notin Below(g, r)
    BY DEF Below
  <2>6. QED
    BY <2>4, <2>5
<1>3. ASSUME p \in {r} \cup Below(f, r), q # r PROVE q \in Below(g, r)
  <2>1. p \in {r} \cup Below(g, r)
    BY <1>1, <1>3
  <2>2. QED
    BY <2>1, <1>3, BelowIsClosed DEF ClosedIn
<1>4. QED
  BY <1>1, <1>2, <1>3

\* When x ends, who was found without going through x is still found.
LEMMA BelowAfterEnd ==
  ASSUME NEW f, NEW g, NEW x \in Pids, NEW r \in Pids \ {x}, NEW p \in Below(f, r),
         p # x, p \notin Below(f, x),
         \A q \in Pids \ {x} : LiveIn(f, q) /\ f[q].ppid # x => LiveIn(g, q) /\ g[q].ppid = f[q].ppid
  PROVE  p \in Below(g, r)
<1>1. SUFFICES ASSUME NEW S \in SUBSET Pids, r \in S, ClosedIn(g, S) PROVE p \in S
  BY DEF Below
<1> DEFINE T == S \cup {x} \cup Below(f, x)
<1>2. T \in SUBSET Pids /\ r \in T
  BY <1>1, BelowIsClosed
<1>3. ASSUME NEW q \in Pids, LiveIn(f, q), f[q].ppid \in T PROVE q \in T
  <2>1. CASE f[q].ppid \in {x} \cup Below(f, x)
    BY <2>1, <1>3, BelowIsClosed DEF ClosedIn
  <2>2. CASE f[q].ppid \notin {x} \cup Below(f, x) /\ q # x
    <3>1. f[q].ppid \in S /\ LiveIn(g, q) /\ g[q].ppid = f[q].ppid
      BY <2>2, <1>3
    <3>2. QED
      BY <3>1, <1>1 DEF ClosedIn
  <2>3. QED
    BY <2>1, <2>2
<1>4. ClosedIn(f, T)
  BY <1>3 DEF ClosedIn
<1>5. p \in T
  <2> HIDE DEF T
  <2>1. QED
    BY <1>2, <1>4, BelowIsLeast
<1>6. QED
  BY <1>5

(***************************************************************************)
(* What the steps do to the table of processes.                            *)
(***************************************************************************)

\* What every step needs of the table.
LEMMA TableFacts ==
  ASSUME KillTypeOK, WorldOK
  PROVE  /\ Self \in Pids /\ NoOne \notin Pids /\ Pids \subseteq Nat
         /\ births \in Nat /\ MaxBirths \in Nat /\ target \in Pids
         /\ DOMAIN proc = Pids /\ \A p \in Pids : proc[p] \in Process
         /\ \A p \in Pids : proc[p].born \in Nat /\ proc[p].ppid \in Pids \cup {NoOne}
         /\ \A p \in Pids : Live(p) => proc[p].born \in 1 .. births
         /\ Live(Self)
  BY KillTreeAssumption DEF KillTypeOK, WorldOK, Process, NoOne, Live

\* The killer's steps, and a reap, leave everybody who they are, and the living alive.
Restates ==
  /\ proc' \in [Pids -> Process] /\ UNCHANGED <<births, strayed>>
  /\ \A p \in Pids :
       /\ proc'[p].born = proc[p].born /\ proc'[p].ppid = proc[p].ppid
       /\ proc'[p].immune = proc[p].immune
       /\ \/ proc'[p].state = proc[p].state
          \/ Live(p) /\ p # Self /\ proc'[p].state \in {"running", "stopped", "dying"}
          \/ proc[p].state = "zombie" /\ proc'[p].state = "none"

LEMMA QuietRestates ==
  ASSUME KillTypeOK, Quiet PROVE Restates
  BY DEF KillTypeOK, Quiet, world, Restates

LEMMA SignalRestates ==
  ASSUME KillTypeOK, NEW p \in Pids \ {Self}, NEW b, NEW state \in {"stopped", "dying"},
         SignalOwned(p, b, state)
  PROVE  Restates
<1>1. /\ proc' = After(p, state) /\ UNCHANGED <<births, strayed>>
      /\ proc \in [Pids -> Process]
  BY DEF SignalOwned, KillTypeOK
<1>2. CASE proc' = proc
  BY <1>1, <1>2 DEF Restates
<1>3. CASE Live(p) /\ proc' = [proc EXCEPT ![p].state = state]
  <2>1. proc' \in [Pids -> Process]
    BY <1>1, <1>3 DEF Process
  <2>2. \A q \in Pids \ {p} : proc'[q] = proc[q]
    BY <1>1, <1>3
  <2>3. /\ proc'[p].born = proc[p].born /\ proc'[p].ppid = proc[p].ppid
        /\ proc'[p].immune = proc[p].immune /\ proc'[p].state = state
    BY <1>1, <1>3 DEF Process
  <2>4. QED
    BY <1>1, <1>3, <2>1, <2>2, <2>3 DEF Restates
<1>4. QED
  BY <1>1, <1>2, <1>3 DEF After, Live

LEMMA ThawRestates ==
  ASSUME KillTypeOK, WorldOK, Thaw, UNCHANGED <<births, strayed>>
  PROVE  /\ Restates
         /\ \A p \in Pids :
              p \in DOMAIN owned /\ Reaches(p, owned[p]) => proc'[p].state # "stopped"
<1>1. proc \in [Pids -> Process] /\ proc[Self].state = "running"
  BY DEF KillTypeOK, WorldOK
<1>2. ASSUME NEW p \in Pids
      PROVE  /\ proc'[p] \in Process
             /\ proc'[p].born = proc[p].born /\ proc'[p].ppid = proc[p].ppid
             /\ proc'[p].immune = proc[p].immune
             /\ \/ proc'[p].state = proc[p].state
                \/ Live(p) /\ p # Self /\ proc'[p].state \in {"running", "stopped", "dying"}
             /\ p \in DOMAIN owned /\ Reaches(p, owned[p]) => proc'[p].state # "stopped"
  <2>1. CASE p \in DOMAIN owned /\ Reaches(p, owned[p]) /\ proc[p].state = "stopped"
    <3>1. proc'[p] = [proc[p] EXCEPT !.state = "running"]
      BY <2>1 DEF Thaw
    <3>2. QED
      BY <1>1, <2>1, <3>1 DEF Process, Live
  <2>2. CASE ~(p \in DOMAIN owned /\ Reaches(p, owned[p]) /\ proc[p].state = "stopped")
    <3>1. proc'[p] = proc[p]
      BY <2>2 DEF Thaw
    <3>2. QED
      BY <1>1, <2>2, <3>1
  <2>3. QED
    BY <2>1, <2>2
<1>3. proc' \in [Pids -> Process]
  <2>1. proc' = [p \in Pids |-> proc'[p]]
    BY DEF Thaw
  <2>2. QED
    BY <1>2, <2>1
<1>4. QED
  BY <1>2, <1>3 DEF Restates

\* After such a step the walks find what they found, and the table is in order.
LEMMA RestatesKeeps ==
  ASSUME KillTypeOK, WorldOK, Restates
  PROVE  /\ WorldOK'
         /\ \A p \in Pids : Live(p)' <=> Live(p)
         /\ \A r \in Pids : Descendants(r)' = Descendants(r)
         /\ \A p \in Pids : Spares(p)' <=> Spares(p)
         /\ \A p \in Pids : proc'[p].born = proc[p].born /\ proc'[p].immune = proc[p].immune
<1>1. \A p \in Pids : LiveIn(proc', p) <=> LiveIn(proc, p)
  BY DEF Restates, Live, LiveIn
<1>2. \A p \in Pids : proc'[p].ppid = proc[p].ppid /\ proc'[p].born = proc[p].born
                        /\ proc'[p].immune = proc[p].immune
  BY DEF Restates
<1>3. \A r : Below(proc', r) = Below(proc, r)
  <2>1. \A r : Below(proc', r) \subseteq Below(proc, r)
    BY <1>1, <1>2, BelowShrinks
  <2>2. \A r : Below(proc, r) \subseteq Below(proc', r)
    BY <1>1, <1>2, BelowShrinks
  <2>3. QED
    BY <2>1, <2>2
<1>4. \A p \in Pids : Live(p)' <=> Live(p)
  BY <1>1, Walks
<1>5. \A r \in Pids : Descendants(r)' = Descendants(r)
  BY <1>3, Walks
<1>6. \A p \in Pids : Spares(p)' <=> Spares(p)
  BY <1>5 DEF Spares, AncestorOfSelf
<1>7. WorldOK'
  <2>1. proc'[Self].state = "running"
    BY TableFacts DEF Restates, WorldOK
  <2>2. ASSUME NEW p \in Pids
        PROVE  /\ proc'[p].born <= births'
               /\ proc'[p].state # "none" => proc'[p].born # NoOne
               /\ \A q \in Pids \ {p} : proc'[p].born = proc'[q].born => proc'[p].born = NoOne
               /\ proc'[p].state # "none" /\ proc'[p].ppid # NoOne =>
                    proc'[p].ppid # p /\ Live(proc[p].ppid)
    <3>1. births' = births /\ (proc'[p].state # "none" => proc[p].state # "none")
      BY DEF Restates, Live
    <3>2. QED
      BY <1>2, <3>1 DEF WorldOK
  <2>3. \A p \in Pids : proc'[p].ppid # NoOne => proc'[p].ppid \in Pids
    BY <1>2, TableFacts
  <2>4. QED
    BY <1>2, <1>4, <2>1, <2>2, <2>3 DEF WorldOK
<1>8. QED
  BY <1>2, <1>4, <1>5, <1>6, <1>7

LEMMA ReapRestates ==
  ASSUME KillTypeOK, WorldOK, NEW p \in Pids, Reap(p)
  PROVE  /\ Restates
         /\ \A q \in Pids : proc'[q].state = proc[q].state \/ proc'[q].state = "none"
<1>1. /\ proc \in [Pids -> Process] /\ proc[p].state = "zombie"
      /\ proc' = [proc EXCEPT ![p].state = "none"] /\ UNCHANGED <<births, strayed>>
  BY DEF KillTypeOK, Reap
<1>2. proc' \in [Pids -> Process]
  BY <1>1 DEF Process
<1>3. \A q \in Pids \ {p} : proc'[q] = proc[q]
  BY <1>1
<1>4. /\ proc'[p].born = proc[p].born /\ proc'[p].ppid = proc[p].ppid
      /\ proc'[p].immune = proc[p].immune /\ proc'[p].state = "none"
  BY <1>1 DEF Process
<1>5. QED
  BY <1>1, <1>2, <1>3, <1>4 DEF Restates

\* A fork adds one running process with a birth of its own.
LEMMA ForkTable ==
  ASSUME KillTypeOK, WorldOK, NEW p \in Pids, NEW q \in Pids, Fork(p, q)
  PROVE  /\ births' = births + 1 /\ births' \in 1 .. MaxBirths
         /\ p # q /\ q # Self /\ proc[p].state = "running" /\ ~Live(q)
         /\ proc' \in [Pids -> Process]
         /\ \A s \in Pids \ {q} : proc'[s] = proc[s]
         /\ proc'[q].born = births' /\ proc'[q].ppid = p /\ proc'[q].state = "running"
<1>1. PICK immune \in BOOLEAN :
        proc' = [proc EXCEPT ![q] = [born |-> births', ppid |-> p, state |-> "running",
                                     image |-> proc[p].image, immune |-> immune]]
  BY DEF Fork
<1>2. /\ births' = births + 1 /\ births < MaxBirths /\ proc[p].state = "running"
      /\ proc[q].state = "none"
  BY DEF Fork
<1>3. births' \in 1 .. MaxBirths /\ births' \in 0 .. MaxBirths
  BY <1>2, TableFacts
<1>4. proc \in [Pids -> Process] /\ p \in Pids \cup {NoOne} /\ proc[p].image \in {"none", "ours", "other"}
  BY DEF KillTypeOK, Process
<1>5. [born |-> births', ppid |-> p, state |-> "running", image |-> proc[p].image,
       immune |-> immune] \in Process
  BY <1>3, <1>4 DEF Process
<1>6. proc' \in [Pids -> Process]
  BY <1>1, <1>4, <1>5
<1>7. \A s \in Pids \ {q} : proc'[s] = proc[s]
  BY <1>1, <1>4
<1>8. proc'[q].born = births' /\ proc'[q].ppid = p /\ proc'[q].state = "running"
  BY <1>1, <1>4
<1>9. p # q /\ q # Self /\ ~Live(q)
  BY <1>2 DEF WorldOK, Live
<1>10. QED
  BY <1>2, <1>3, <1>6, <1>7, <1>8, <1>9

LEMMA ForkWalks ==
  ASSUME KillTypeOK, WorldOK, NEW p \in Pids, NEW q \in Pids, Fork(p, q)
  PROVE  /\ WorldOK'
         /\ \A s \in Pids : Live(s)' <=> Live(s) \/ s = q
         /\ \A r \in Pids : Descendants(r) \subseteq Descendants(r)'
         /\ \A r \in Pids \ {q} : p \in {r} \cup Descendants(r) => q \in Descendants(r)'
         /\ \A r \in Pids : Spares(r) => Spares(r)'
<1>1. /\ births' = births + 1 /\ births' \in 1 .. MaxBirths
      /\ p # q /\ q # Self /\ proc[p].state = "running" /\ ~Live(q)
      /\ \A s \in Pids \ {q} : proc'[s] = proc[s]
      /\ proc'[q].born = births' /\ proc'[q].ppid = p /\ proc'[q].state = "running"
  BY ForkTable
<1>2. \A s \in Pids : Live(s)' <=> Live(s) \/ s = q
  BY <1>1 DEF Live
<1>3. \A s \in Pids : proc[s].state # "none" => proc[s].ppid # q
  BY <1>1, TableFacts DEF WorldOK
<1>4. /\ ~LiveIn(proc, q) /\ LiveIn(proc', q)
      /\ \A s \in Pids : LiveIn(proc, s) => proc[s].ppid # q
  BY <1>1, <1>3 DEF LiveIn, Live
<1>5. ASSUME NEW r \in Pids
      PROVE  /\ Below(proc', r) \subseteq Below(proc, r) \cup {q}
             /\ Below(proc, r) \subseteq Below(proc', r)
             /\ p \in {r} \cup Below(proc, r) /\ q # r => q \in Below(proc', r)
  BY <1>1, <1>4, BelowAfterFork
<1>6. ASSUME NEW r \in Pids, Spares(r) PROVE Spares(r)'
  <2>1. Self \notin Descendants(r)'
    BY <1>1, <1>5, <1>6, Walks DEF Spares, AncestorOfSelf
  <2>2. QED
    BY <1>6, <2>1 DEF Spares, AncestorOfSelf
<1>7. WorldOK'
  <2>1. proc'[Self].state = "running"
    BY <1>1, TableFacts DEF WorldOK
  <2>2. ASSUME NEW s \in Pids
        PROVE  /\ proc'[s].born <= births'
               /\ proc'[s].state # "none" => proc'[s].born # NoOne
               /\ \A t \in Pids \ {s} : proc'[s].born = proc'[t].born => proc'[s].born = NoOne
               /\ proc'[s].state # "none" /\ proc'[s].ppid # NoOne =>
                    proc'[s].ppid # s /\ Live(proc[s].ppid)'
    <3>1. births \in Nat /\ \A t \in Pids : proc[t].born <= births /\ proc[t].born \in Nat
      BY TableFacts DEF WorldOK
    <3>2. CASE s = q
      <4>1. Live(p)'
        BY <1>1, <1>2 DEF Live
      <4>2. \A t \in Pids \ {q} : proc'[t].born # births'
        BY <1>1, <3>1
      <4>3. births' # NoOne /\ births' <= births'
        BY <1>1, <3>1 DEF NoOne
      <4>4. QED
        BY <1>1, <3>2, <4>1, <4>2, <4>3
    <3>3. CASE s # q
      <4>1. proc'[s] = proc[s]
        BY <1>1, <3>3
      <4>2. proc'[s].born <= births' /\ proc'[s].born # births'
        BY <1>1, <3>1, <4>1
      <4>3. \A t \in Pids \ {s} : proc'[s].born = proc'[t].born => proc'[s].born = NoOne
        BY <1>1, <4>1, <4>2 DEF WorldOK
      <4>4. proc[s].ppid # NoOne => proc[s].ppid \in Pids
        BY TableFacts
      <4>5. QED
        BY <1>2, <4>1, <4>2, <4>3, <4>4 DEF WorldOK
    <3>4. QED
      BY <3>2, <3>3
  <2>3. QED
    BY <2>1, <2>2 DEF WorldOK
<1>8. QED
  BY <1>2, <1>5, <1>6, <1>7, Walks

\* The end of x takes x and its links to its children away, and nothing else.
LEMMA EndsTable ==
  ASSUME KillTypeOK, NEW x \in Pids, proc' = Ends(x)
  PROVE  /\ proc' \in [Pids -> Process]
         /\ proc'[x].state \in {"none", "zombie"}
         /\ proc'[x].state # "none" => proc[x].ppid # NoOne
         /\ proc'[x].ppid = proc[x].ppid
         /\ \A s \in Pids :
              /\ proc'[s].born = proc[s].born /\ proc'[s].immune = proc[s].immune
              /\ proc'[s].state # proc[s].state => proc'[s].state \in {"none", "zombie"}
         /\ \A s \in Pids \ {x} :
              /\ proc'[s].state = proc[s].state \/ (proc[s].state = "zombie" /\ proc'[s].state = "none")
              /\ proc'[s].ppid = proc[s].ppid \/ proc'[s].ppid = NoOne
              /\ proc[s].ppid # x => proc'[s] = proc[s]
              /\ proc'[s].state # "none" => proc'[s].ppid # x
<1>1. proc \in [Pids -> Process] /\ x # NoOne
  BY KillTreeAssumption DEF KillTypeOK, NoOne
<1>2. ASSUME NEW s \in Pids, s = x
      PROVE  /\ proc'[s] \in Process /\ proc'[s].state \in {"none", "zombie"}
             /\ proc'[s].state # "none" => proc[s].ppid # NoOne
             /\ proc'[s].born = proc[s].born /\ proc'[s].immune = proc[s].immune
             /\ proc'[s].ppid = proc[s].ppid
  <2>1. proc'[s] = [proc[s] EXCEPT !.state = IF proc[s].ppid = NoOne THEN "none" ELSE "zombie"]
    BY <1>2 DEF Ends
  <2>2. QED
    BY <1>1, <2>1 DEF Process
<1>3. ASSUME NEW s \in Pids \ {x}
      PROVE  /\ proc'[s] \in Process
             /\ proc'[s].born = proc[s].born /\ proc'[s].immune = proc[s].immune
             /\ proc'[s].state = proc[s].state \/ (proc[s].state = "zombie" /\ proc'[s].state = "none")
             /\ proc'[s].ppid = proc[s].ppid \/ proc'[s].ppid = NoOne
             /\ proc[s].ppid # x => proc'[s] = proc[s]
             /\ proc'[s].state # "none" => proc'[s].ppid # x
  <2>1. CASE proc[s].ppid # x \/ proc[s].state = "none"
    <3>1. proc'[s] = proc[s]
      BY <2>1 DEF Ends
    <3>2. QED
      BY <1>1, <2>1, <3>1
  <2>2. CASE proc[s].ppid = x /\ proc[s].state # "none"
    <3> DEFINE next == IF proc[s].state = "zombie" THEN "none" ELSE proc[s].state
    <3>1. proc'[s] = [proc[s] EXCEPT !.ppid = NoOne, !.state = next]
      BY <2>2 DEF Ends
    <3>2. /\ next \in {"none", "running", "stopped", "dying", "zombie"}
          /\ next = proc[s].state \/ (proc[s].state = "zombie" /\ next = "none")
      BY <1>1 DEF Process
    <3> HIDE DEF next
    <3>3. /\ proc[s] \in Process /\ NoOne \in Pids \cup {NoOne}
          /\ next \in {"none", "running", "stopped", "dying", "zombie"}
      BY <1>1, <3>2
    <3>4. proc'[s] \in Process
      BY <3>1, <3>3 DEF Process
    <3>5. /\ proc'[s].born = proc[s].born /\ proc'[s].immune = proc[s].immune
          /\ proc'[s].ppid = NoOne /\ proc'[s].state = next
      BY <3>1, <3>3 DEF Process
    <3>6. QED
      BY <1>1, <2>2, <3>2, <3>4, <3>5
  <2>3. QED
    BY <2>1, <2>2
<1>4. proc' \in [Pids -> Process]
  <2>1. proc' = [s \in Pids |-> proc'[s]]
    BY DEF Ends
  <2>2. QED
    BY <1>2, <1>3, <2>1
<1>5. QED
  BY <1>2, <1>3, <1>4

LEMMA EndsWalks ==
  ASSUME KillTypeOK, WorldOK, NEW x \in Pids, x # Self, Live(x), proc' = Ends(x), births' = births
  PROVE  /\ WorldOK'
         /\ \A s \in Pids : Live(s)' <=> Live(s) /\ s # x
         /\ \A s \in Pids : Live(s)' => proc'[s].state = proc[s].state
         /\ \A s \in Pids : Live(s)' /\ proc'[s].ppid \in Pids => proc'[s].ppid = proc[s].ppid
         /\ \A r \in Pids \ {x} : \A p \in Descendants(r) :
              p = x \/ p \in Descendants(x) \/ p \in Descendants(r)'
         /\ \A r \in Pids : Spares(r) => Spares(r)'
<1>1. /\ proc'[x].state \in {"none", "zombie"}
      /\ proc'[x].state # "none" => proc[x].ppid # NoOne
      /\ proc'[x].ppid = proc[x].ppid
      /\ \A s \in Pids : proc'[s].born = proc[s].born
      /\ \A s \in Pids \ {x} :
           /\ proc'[s].state = proc[s].state \/ (proc[s].state = "zombie" /\ proc'[s].state = "none")
           /\ proc'[s].ppid = proc[s].ppid \/ proc'[s].ppid = NoOne
           /\ proc[s].ppid # x => proc'[s] = proc[s]
           /\ proc'[s].state # "none" => proc'[s].ppid # x
  BY EndsTable
<1>2. \A s \in Pids : Live(s)' <=> Live(s) /\ s # x
  BY <1>1 DEF Live
<1>3. \A s \in Pids : Live(s)' => proc'[s].state = proc[s].state
  BY <1>1 DEF Live
<1>4. \A s \in Pids : Live(s)' /\ proc'[s].ppid \in Pids => proc'[s].ppid = proc[s].ppid
  BY <1>1, <1>2, TableFacts
<1>5. \A r : Below(proc', r) \subseteq Below(proc, r)
  BY <1>2, <1>4, Walks, BelowShrinks
<1>6. ASSUME NEW r \in Pids, Spares(r) PROVE Spares(r)'
  BY <1>5, <1>6, Walks DEF Spares, AncestorOfSelf
<1>7. ASSUME NEW r \in Pids \ {x}, NEW p \in Descendants(r), p # x, p \notin Descendants(x)
      PROVE  p \in Descendants(r)'
  <2>1. \A q \in Pids \ {x} : LiveIn(proc, q) /\ proc[q].ppid # x =>
           LiveIn(proc', q) /\ proc'[q].ppid = proc[q].ppid
    BY <1>1 DEF LiveIn
  <2>2. p \in Below(proc, r) /\ p \notin Below(proc, x)
    BY <1>7, Walks
  <2>3. p \in Below(proc', r)
    BY <1>7, <2>1, <2>2, BelowAfterEnd
  <2>4. QED
    BY <2>3, Walks
<1>8. WorldOK'
  <2>1. proc'[Self].state = "running"
    BY <1>1, TableFacts DEF WorldOK
  <2>2. ASSUME NEW s \in Pids
        PROVE  /\ proc'[s].born <= births'
               /\ proc'[s].state # "none" => proc'[s].born # NoOne
               /\ \A t \in Pids \ {s} : proc'[s].born = proc'[t].born => proc'[s].born = NoOne
    <3>1. proc'[s].state # "none" => proc[s].state # "none"
      BY <1>1 DEF Live
    <3>2. QED
      BY <1>1, <3>1 DEF WorldOK
  <2>3. ASSUME NEW s \in Pids, proc'[s].state # "none", proc'[s].ppid # NoOne
        PROVE  proc'[s].ppid # s /\ Live(proc[s].ppid)'
    <3>1. proc[s].state # "none" /\ proc'[s].ppid = proc[s].ppid
      BY <1>1, <2>3 DEF Live
    <3>2. proc[s].ppid # s /\ Live(proc[s].ppid) /\ proc[s].ppid \in Pids
      BY <2>3, <3>1, TableFacts DEF WorldOK
    <3>3. proc[s].ppid # x
      BY <1>1, <2>3, <3>1, <3>2
    <3>4. QED
      BY <1>2, <3>1, <3>2, <3>3
  <2>4. QED
    BY <2>1, <2>2, <2>3 DEF WorldOK
<1>9. QED
  BY <1>2, <1>3, <1>4, <1>6, <1>7, <1>8

(***************************************************************************)
(* The steps of everybody else.                                            *)
(***************************************************************************)
LEMMA ForkKeeps ==
  ASSUME KInv, place # "done", NEW p \in Pids, NEW q \in Pids, Fork(p, q)
  PROVE  KInv'
<1>1. KillTypeOK /\ WorldOK /\ HistoryOK /\ HeldOK /\ SignalledOK /\ StoppedOK /\ FoundOK /\ AnswerOK
  BY DEF KInv
<1>2. /\ births' = births + 1 /\ births' \in 1 .. MaxBirths
      /\ p # q /\ q # Self /\ proc[p].state = "running" /\ ~Live(q)
      /\ proc' \in [Pids -> Process]
      /\ \A s \in Pids \ {q} : proc'[s] = proc[s]
      /\ proc'[q].born = births' /\ proc'[q].ppid = p /\ proc'[q].state = "running"
  BY <1>1, ForkTable
<1>3. /\ WorldOK'
      /\ \A s \in Pids : Live(s)' <=> Live(s) \/ s = q
      /\ \A r \in Pids : Descendants(r) \subseteq Descendants(r)'
      /\ \A r \in Pids \ {q} : p \in {r} \cup Descendants(r) => q \in Descendants(r)'
      /\ \A r \in Pids : Spares(r) => Spares(r)'
  BY <1>1, ForkWalks
<1>4. /\ UNCHANGED <<place, target, root, owned, todo, cur, passes, verdict, signalled>>
      /\ family' = family \cup (IF proc[p].born \in family THEN {births'} ELSE {})
      /\ strayed' = strayed \cup
           (IF proc[p].born \in strayed \/ (proc[p].born \in family /\ q \in DOMAIN owned)
            THEN {births'} ELSE {})
  BY DEF Fork, killer
<1>5. /\ births \in Nat /\ MaxBirths \in Nat /\ Live(p) /\ target \in Pids
      /\ \A s \in Pids : proc[s].born <= births /\ proc[s].born \in Nat
      /\ DOMAIN owned \subseteq Pids /\ DOMAIN todo \subseteq Pids
      /\ \A s \in DOMAIN owned : owned[s] \in 1 .. births
      /\ births' \notin family \cup strayed \cup signalled
  BY <1>1, <1>2, TableFacts DEF WorldOK, KillTypeOK, HeldOK, HistoryOK, Live
<1>6. KillTypeOK'
  BY <1>1, <1>2, <1>4 DEF KillTypeOK
<1>7. HistoryOK'
  <2>1. ASSUME NEW s \in Pids, NEW t \in Pids,
               Live(t)', proc'[t].ppid = s, proc'[s].born \in family'
        PROVE  proc'[t].born \in family'
    <3>1. CASE t = q
      <4>1. s = p /\ proc'[s].born = proc[p].born /\ proc[p].born # births'
        BY <1>2, <1>5, <2>1, <3>1
      <4>2. proc[p].born \in family
        BY <1>4, <2>1, <4>1
      <4>3. QED
        BY <1>2, <1>4, <3>1, <4>2
    <3>2. CASE t # q
      <4>1. Live(t) /\ proc'[t] = proc[t] /\ proc[t].ppid = s
        BY <1>2, <1>3, <2>1, <3>2
      <4>2. Live(s)
        BY <1>1, <4>1, TableFacts DEF WorldOK, Live
      <4>3. s # q /\ proc'[s].born = proc[s].born /\ proc[s].born # births'
        BY <1>2, <1>5, <4>2
      <4>4. proc[s].born \in family
        BY <1>4, <2>1, <4>3
      <4>5. QED
        BY <1>1, <1>4, <4>1, <4>4 DEF HistoryOK
    <3>3. QED
      BY <3>1, <3>2
  <2>2. family' \cup strayed' \cup signalled' \subseteq 1 .. births'
    BY <1>1, <1>2, <1>4, <1>5 DEF HistoryOK
  <2>3. /\ place' \in Looking \cup Killing => root' \in family'
        /\ place' \in Early \cup {"stop"} => signalled' = {}
        /\ place' \in Early => DOMAIN owned' = {} /\ DOMAIN todo' = {}
        /\ signalled' \subseteq family'
    BY <1>1, <1>4 DEF HistoryOK
  <2>4. QED
    BY <2>1, <2>2, <2>3 DEF HistoryOK
<1>8. HeldOK'
  BY <1>1, <1>3, <1>4, <1>5 DEF HeldOK
<1>9. SignalledOK'
  <2>1. ASSUME NEW s \in Pids, proc'[s].born \in signalled'
        PROVE  /\ s \in DOMAIN owned' /\ owned'[s] = proc'[s].born /\ ~proc'[s].immune
               /\ Live(s)' => Spares(s)'
    <3>1. s # q
      BY <1>2, <1>4, <1>5, <2>1
    <3>2. QED
      BY <1>1, <1>2, <1>3, <1>4, <2>1, <3>1 DEF SignalledOK
  <2>2. QED
    BY <2>1 DEF SignalledOK
<1>10. StoppedOK'
  <2>1. place' \notin Killing \cup {"done"} => \A s \in Pids : proc'[s].state # "dying"
    BY <1>1, <1>2, <1>4 DEF StoppedOK
  <2>2. ASSUME place' \in Looking, NEW s \in DOMAIN owned', Live(s)', owned'[s] = proc'[s].born
        PROVE  \/ proc'[s].state # "running"
               \/ place' = "freeze" /\ s = cur'
               \/ place' = "stop" /\ s = target'
    <3>1. s \in Pids /\ s # q
      BY <1>2, <1>4, <1>5, <2>2
    <3>2. Live(s) /\ proc'[s] = proc[s]
      BY <1>2, <1>3, <2>2, <3>1
    <3>3. QED
      BY <1>1, <1>4, <2>2, <3>2 DEF StoppedOK
  <2>3. QED
    BY <2>1, <2>2 DEF StoppedOK
<1>11. FoundOK'
  <2>1. ASSUME NEW s \in Pids, s # q, Live(s)', proc'[s].born \in family' \ strayed'
        PROVE  /\ Live(s) /\ proc[s].born \in family \ strayed /\ proc'[s] = proc[s]
    BY <1>2, <1>3, <1>4, <1>5, <2>1
  <2>2. ASSUME proc'[q].born \in family' \ strayed'
        PROVE  proc[p].born \in family \ strayed /\ q \notin DOMAIN owned
    BY <1>2, <1>4, <1>5, <2>2
  <2>3. ASSUME place \in Looking, NEW s \in Pids, Live(s)', proc'[s].born \in family' \ strayed'
        PROVE  /\ s = target \/ s \in Descendants(target)' \/ Frozen(s)'
               /\ s \in DOMAIN owned => owned[s] = proc'[s].born
    <3>1. CASE s # q
      BY <1>1, <1>3, <1>4, <1>5, <2>1, <2>3, <3>1 DEF FoundOK, Frozen
    <3>2. CASE s = q
      <4>1. proc[p].born \in family \ strayed /\ q \notin DOMAIN owned
        BY <2>2, <2>3, <3>2
      <4>2. p = target \/ p \in Descendants(target)
        BY <1>1, <1>2, <1>5, <2>3, <4>1 DEF FoundOK, Frozen
      <4>3. QED
        BY <1>3, <1>4, <1>5, <3>2, <4>1, <4>2
    <3>3. QED
      BY <3>1, <3>2
  <2>4. ASSUME place \in Killing, NEW s \in Pids, Live(s)', proc'[s].born \in family' \ strayed'
        PROVE  Frozen(s)'
    <3>1. s # q
      BY <1>1, <1>2, <1>5, <2>2, <2>4 DEF FoundOK, FrozenBeforeKilled, Frozen, Killing
    <3>2. QED
      BY <1>1, <1>4, <2>1, <2>4, <3>1 DEF FoundOK, FrozenBeforeKilled, Frozen, Killing
  <2>5. place' = place /\ target' = target /\ owned' = owned
    BY <1>4
  <2>6. FrozenBeforeKilled'
    BY <2>4, <2>5 DEF FrozenBeforeKilled, Killing
  <2>7. QED
    BY <2>3, <2>5, <2>6 DEF FoundOK
<1>12. AnswerOK'
  BY <1>1, <1>4 DEF AnswerOK, TreeGone, NothingLeftFrozen
<1>13. QED
  BY <1>3, <1>6, <1>7, <1>8, <1>9, <1>10, <1>11, <1>12 DEF KInv

\* What the end of a process does to the parts that the strayed have no part in.
LEMMA EndsKeeps ==
  ASSUME KInv, place # "done", NEW x \in Pids, x # Self, Live(x), proc' = Ends(x),
         UNCHANGED <<place, target, root, owned, todo, cur, passes, verdict, births, family, signalled>>,
         strayed \subseteq strayed', strayed' \subseteq strayed \cup family
  PROVE  /\ KillTypeOK' /\ WorldOK' /\ HistoryOK' /\ HeldOK' /\ SignalledOK' /\ StoppedOK' /\ AnswerOK'
         /\ FrozenBeforeKilled'
<1>1. /\ KillTypeOK /\ WorldOK /\ HistoryOK /\ HeldOK /\ SignalledOK /\ StoppedOK /\ AnswerOK
      /\ FrozenBeforeKilled
  BY DEF KInv, FoundOK
<1>2. /\ proc' \in [Pids -> Process]
      /\ \A s \in Pids :
           /\ proc'[s].born = proc[s].born /\ proc'[s].immune = proc[s].immune
           /\ proc'[s].state # proc[s].state => proc'[s].state \in {"none", "zombie"}
  BY <1>1, EndsTable
<1>3. /\ WorldOK'
      /\ \A s \in Pids : Live(s)' <=> Live(s) /\ s # x
      /\ \A s \in Pids : Live(s)' => proc'[s].state = proc[s].state
      /\ \A s \in Pids : Live(s)' /\ proc'[s].ppid \in Pids => proc'[s].ppid = proc[s].ppid
      /\ \A r \in Pids : Spares(r) => Spares(r)'
  BY <1>1, EndsWalks
<1>4. DOMAIN owned \subseteq Pids /\ DOMAIN todo \subseteq Pids /\ target \in Pids
  BY <1>1 DEF KillTypeOK
<1>5. KillTypeOK'
  BY <1>1, <1>2 DEF KillTypeOK
<1>6. HistoryOK'
  <2>1. \A s, t \in Pids :
          Live(t)' /\ proc'[t].ppid = s /\ proc'[s].born \in family => proc'[t].born \in family
    BY <1>1, <1>2, <1>3 DEF HistoryOK
  <2>2. QED
    BY <1>1, <2>1 DEF HistoryOK
<1>7. HeldOK'
  BY <1>1, <1>3, <1>4 DEF HeldOK
<1>8. SignalledOK'
  BY <1>1, <1>2, <1>3 DEF SignalledOK
<1>9. StoppedOK'
  <2>1. place \notin Killing \cup {"done"} => \A s \in Pids : proc'[s].state # "dying"
    BY <1>1, <1>2 DEF StoppedOK
  <2>2. ASSUME place \in Looking, NEW s \in DOMAIN owned, Live(s)', owned[s] = proc'[s].born
        PROVE  \/ proc'[s].state # "running"
               \/ place = "freeze" /\ s = cur
               \/ place = "stop" /\ s = target
    BY <1>1, <1>2, <1>3, <1>4, <2>2 DEF StoppedOK
  <2>3. QED
    BY <2>1, <2>2 DEF StoppedOK
<1>10. AnswerOK'
  BY <1>1 DEF AnswerOK, TreeGone, NothingLeftFrozen
<1>11. FrozenBeforeKilled'
  BY <1>1, <1>2, <1>3 DEF FrozenBeforeKilled, Frozen
<1>12. QED
  BY <1>3, <1>5, <1>6, <1>7, <1>8, <1>9, <1>10, <1>11

LEMMA ExitKeeps ==
  ASSUME KInv, place # "done", NEW x \in Pids, Exits(x)
  PROVE  KInv'
<1>1. /\ x # Self /\ Live(x) /\ proc' = Ends(x)
      /\ UNCHANGED <<place, target, root, owned, todo, cur, passes, verdict, births, family, signalled>>
      /\ strayed' = strayed \cup (Births({q \in Descendants(x) : ~Frozen(q)}) \cap family)
  BY DEF Exits, killer, Live
<1>2. strayed \subseteq strayed' /\ strayed' \subseteq strayed \cup family
  BY <1>1
<1>3. /\ KillTypeOK' /\ WorldOK' /\ HistoryOK' /\ HeldOK' /\ SignalledOK' /\ StoppedOK' /\ AnswerOK'
      /\ FrozenBeforeKilled'
  BY <1>1, <1>2, EndsKeeps
<1>4. KillTypeOK /\ WorldOK /\ FoundOK
  BY DEF KInv
<1>5. /\ \A s \in Pids : Live(s)' <=> Live(s) /\ s # x
      /\ \A s \in Pids : Live(s)' => proc'[s].state = proc[s].state
      /\ \A r \in Pids \ {x} : \A p \in Descendants(r) :
           p = x \/ p \in Descendants(x) \/ p \in Descendants(r)'
  BY <1>1, <1>4, EndsWalks
<1>6. \A s \in Pids : proc'[s].born = proc[s].born
  BY <1>1, <1>4, EndsTable
<1>7. ASSUME place \in Looking, NEW s \in Pids, Live(s)', proc'[s].born \in family \ strayed'
      PROVE  /\ s = target \/ s \in Descendants(target)' \/ Frozen(s)'
             /\ s \in DOMAIN owned => owned[s] = proc'[s].born
  <2>1. Live(s) /\ s # x /\ proc[s].born \in family \ strayed /\ target \in Pids
    BY <1>2, <1>4, <1>5, <1>6, <1>7 DEF KillTypeOK
  <2>2. /\ s = target \/ s \in Descendants(target) \/ Frozen(s)
        /\ s \in DOMAIN owned => owned[s] = proc[s].born
    BY <1>4, <1>7, <2>1 DEF FoundOK
  <2>3. Frozen(s) => Frozen(s)'
    BY <1>1, <1>5, <1>6, <1>7 DEF Frozen
  <2>4. s \in Descendants(x) => Frozen(s)
    BY <1>1, <1>6, <1>7, <2>1 DEF Births
  <2>5. QED
    BY <1>1, <1>5, <1>6, <2>1, <2>2, <2>3, <2>4
<1>8. FoundOK'
  BY <1>1, <1>3, <1>7 DEF FoundOK
<1>9. QED
  BY <1>3, <1>8 DEF KInv

LEMMA DieKeeps ==
  ASSUME KInv, place # "done", NEW x \in Pids, Die(x)
  PROVE  KInv'
<1>1. /\ Live(x) /\ proc' = Ends(x) /\ proc[x].state = "dying"
      /\ UNCHANGED <<place, target, root, owned, todo, cur, passes, verdict, births, family, signalled>>
      /\ strayed' = strayed
  BY DEF Die, killer, Live
<1>2. x # Self /\ place \notin Looking
  BY <1>1 DEF KInv, WorldOK, StoppedOK, Looking, Killing
<1>3. /\ KillTypeOK' /\ WorldOK' /\ HistoryOK' /\ HeldOK' /\ SignalledOK' /\ StoppedOK' /\ AnswerOK'
      /\ FrozenBeforeKilled'
  BY <1>1, <1>2, EndsKeeps
<1>4. FoundOK'
  BY <1>1, <1>2, <1>3 DEF FoundOK
<1>5. QED
  BY <1>3, <1>4 DEF KInv

LEMMA ReapKeeps ==
  ASSUME KInv, place # "done", NEW x \in Pids, Reap(x)
  PROVE  KInv'
<1>1. KillTypeOK /\ WorldOK /\ HistoryOK /\ HeldOK /\ SignalledOK /\ StoppedOK /\ FoundOK /\ AnswerOK
  BY DEF KInv
<1>2. /\ Restates
      /\ \A q \in Pids : proc'[q].state = proc[q].state \/ proc'[q].state = "none"
      /\ UNCHANGED <<place, target, root, owned, todo, cur, passes, verdict, births, family, strayed,
                     signalled>>
  BY <1>1, ReapRestates DEF Reap, killer
<1>3. /\ WorldOK'
      /\ \A p \in Pids : Live(p)' <=> Live(p)
      /\ \A r \in Pids : Descendants(r)' = Descendants(r)
      /\ \A p \in Pids : Spares(p)' <=> Spares(p)
      /\ \A p \in Pids : proc'[p].born = proc[p].born /\ proc'[p].immune = proc[p].immune
      /\ \A p \in Pids : proc'[p].ppid = proc[p].ppid
  BY <1>1, <1>2, RestatesKeeps DEF Restates
<1>4. DOMAIN owned \subseteq Pids /\ DOMAIN todo \subseteq Pids /\ target \in Pids
  BY <1>1 DEF KillTypeOK
<1>5. KillTypeOK'
  BY <1>1, <1>2 DEF KillTypeOK, Restates
<1>6. HistoryOK'
  BY <1>1, <1>2, <1>3 DEF HistoryOK
<1>7. HeldOK'
  BY <1>1, <1>2, <1>3, <1>4 DEF HeldOK
<1>8. SignalledOK'
  BY <1>1, <1>2, <1>3 DEF SignalledOK
<1>9. StoppedOK'
  BY <1>1, <1>2, <1>3, <1>4 DEF StoppedOK
<1>10. FoundOK'
  <2>1. ASSUME NEW s \in Pids, Frozen(s) PROVE Frozen(s)'
    BY <1>2, <1>3, <2>1 DEF Frozen
  <2>2. FrozenBeforeKilled'
    BY <1>1, <1>2, <1>3, <2>1 DEF FoundOK, FrozenBeforeKilled
  <2>3. QED
    BY <1>1, <1>2, <1>3, <1>4, <2>1, <2>2 DEF FoundOK
<1>11. AnswerOK'
  BY <1>1, <1>2 DEF AnswerOK, TreeGone, NothingLeftFrozen
<1>12. QED
  BY <1>3, <1>5, <1>6, <1>7, <1>8, <1>9, <1>10, <1>11 DEF KInv

(***************************************************************************)
(* The killer's answers.                                                   *)
(***************************************************************************)
LEMMA AnswerKeeps ==
  ASSUME KInv, Restates, NEW v \in {"refused", "vanished", "killed"}, Answer(v),
         UNCHANGED <<family, signalled>>,
         v = "killed" => \A p \in Pids : Live(p) => proc[p].born \notin family \ strayed,
         v # "killed" => \A p \in Pids : proc[p].born \in signalled => proc'[p].state # "stopped"
  PROVE  KInv'
<1>1. KillTypeOK /\ WorldOK /\ HistoryOK /\ HeldOK /\ SignalledOK
  BY DEF KInv
<1>2. /\ place' = "done" /\ verdict' = v /\ UNCHANGED <<target, root, owned, todo, cur, passes>>
      /\ proc' \in [Pids -> Process] /\ UNCHANGED <<births, strayed, family, signalled>>
  BY DEF Answer, Restates
<1>3. /\ WorldOK'
      /\ \A p \in Pids : Live(p)' <=> Live(p)
      /\ \A p \in Pids : Spares(p)' <=> Spares(p)
      /\ \A p \in Pids : proc'[p].born = proc[p].born /\ proc'[p].immune = proc[p].immune
      /\ \A p \in Pids : proc'[p].ppid = proc[p].ppid
  BY <1>1, RestatesKeeps DEF Restates
<1>4. DOMAIN owned \subseteq Pids /\ DOMAIN todo \subseteq Pids
  BY <1>1 DEF KillTypeOK
<1>5. KillTypeOK'
  BY <1>1, <1>2 DEF KillTypeOK
<1>6. HistoryOK'
  BY <1>1, <1>2, <1>3 DEF HistoryOK, Looking, Killing, Early
<1>7. HeldOK'
  BY <1>1, <1>2, <1>3, <1>4 DEF HeldOK
<1>8. SignalledOK'
  BY <1>1, <1>2, <1>3 DEF SignalledOK
<1>9. StoppedOK' /\ FoundOK'
  BY <1>2 DEF StoppedOK, FoundOK, FrozenBeforeKilled, Looking, Killing
<1>10. AnswerOK'
  BY <1>2, <1>3 DEF AnswerOK, TreeGone, NothingLeftFrozen
<1>11. QED
  BY <1>3, <1>5, <1>6, <1>7, <1>8, <1>9, <1>10 DEF KInv

\* Before anything has been signalled there is nothing to let go.
LEMMA EarlyAnswerKeeps ==
  ASSUME KInv, place \in Early \cup {"stop"}, Quiet, NEW v \in {"refused", "vanished"}, Answer(v)
  PROVE  KInv'
<1>1. KillTypeOK /\ signalled = {}
  BY DEF KInv, HistoryOK
<1>2. Restates
  BY <1>1, QuietRestates
<1>3. UNCHANGED <<family, signalled>>
  BY DEF Quiet, world
<1>4. QED
  BY <1>1, <1>2, <1>3, AnswerKeeps

\* Later everything signalled is held, and is let go.
LEMMA RefuseKeeps ==
  ASSUME KInv, Refuse
  PROVE  KInv'
<1>1. KillTypeOK /\ WorldOK /\ SignalledOK
  BY DEF KInv
<1>2. Thaw /\ Answer("refused") /\ UNCHANGED <<births, family, strayed, signalled>>
  BY DEF Refuse
<1>3. /\ Restates
      /\ \A p \in Pids :
           p \in DOMAIN owned /\ Reaches(p, owned[p]) => proc'[p].state # "stopped"
  BY <1>1, <1>2, ThawRestates
<1>4. ASSUME NEW p \in Pids, proc[p].born \in signalled PROVE proc'[p].state # "stopped"
  <2>1. p \in DOMAIN owned /\ owned[p] = proc[p].born /\ ~proc[p].immune
    BY <1>1, <1>4 DEF SignalledOK
  <2>2. CASE proc[p].state # "none"
    BY <1>3, <2>1, <2>2 DEF Reaches
  <2>3. CASE proc[p].state = "none"
    BY <1>3, <2>3 DEF Restates, Live
  <2>4. QED
    BY <2>2, <2>3
<1>5. QED
  BY <1>2, <1>3, <1>4, AnswerKeeps

(***************************************************************************)
(* The killer's steps on the way.                                          *)
(***************************************************************************)

\* A step that only looks.
LEMMA QuietKeeps ==
  ASSUME KInv, Quiet, place # "done", place' # "done", UNCHANGED <<target, root, owned, verdict>>
  PROVE  /\ KillTypeOK /\ WorldOK /\ HistoryOK /\ HeldOK /\ StoppedOK /\ FoundOK
         /\ WorldOK' /\ SignalledOK' /\ AnswerOK'
         /\ UNCHANGED <<proc, births, family, strayed, signalled>>
         /\ DOMAIN owned \subseteq Pids /\ DOMAIN todo \subseteq Pids /\ target \in Pids
         /\ \A p \in Pids : Live(p)' <=> Live(p)
         /\ \A r \in Pids : Descendants(r)' = Descendants(r)
         /\ \A p \in Pids : Spares(p)' <=> Spares(p)
         /\ \A p \in Pids : Frozen(p)' <=> Frozen(p)
<1>1. KillTypeOK /\ WorldOK /\ HistoryOK /\ HeldOK /\ SignalledOK /\ StoppedOK /\ FoundOK /\ AnswerOK
  BY DEF KInv
<1>2. UNCHANGED <<proc, births, family, strayed, signalled>>
  BY DEF Quiet, world
<1>3. /\ WorldOK'
      /\ \A p \in Pids : Live(p)' <=> Live(p)
      /\ \A r \in Pids : Descendants(r)' = Descendants(r)
      /\ \A p \in Pids : Spares(p)' <=> Spares(p)
  BY <1>1, QuietRestates, RestatesKeeps
<1>4. DOMAIN owned \subseteq Pids /\ DOMAIN todo \subseteq Pids /\ target \in Pids
  BY <1>1 DEF KillTypeOK
<1>5. \A p \in Pids : Frozen(p)' <=> Frozen(p)
  BY <1>2 DEF Frozen
<1>6. SignalledOK'
  BY <1>1, <1>2, <1>3 DEF SignalledOK
<1>7. AnswerOK'
  BY <1>1, <1>2 DEF AnswerOK, TreeGone, NothingLeftFrozen
<1>8. QED
  BY <1>1, <1>2, <1>3, <1>4, <1>5, <1>6, <1>7

LEMMA TerminatePidTreeKeeps ==
  ASSUME KInv, TerminatePidTree
  PROVE  KInv'
<1>1. place = "start" /\ Quiet
  BY DEF TerminatePidTree
<1>2. ASSUME NEW v \in {"refused", "vanished"}, Answer(v) PROVE KInv'
  BY <1>1, <1>2, EarlyAnswerKeeps DEF Early
<1>3. CASE target # Self /\ place' = "identify" /\ UNCHANGED <<target, root, owned, todo, cur, passes, verdict>>
  <2>1. /\ KillTypeOK /\ WorldOK /\ HistoryOK /\ HeldOK /\ StoppedOK /\ FoundOK
        /\ WorldOK' /\ SignalledOK' /\ AnswerOK'
        /\ UNCHANGED <<proc, births, family, strayed, signalled>>
        /\ DOMAIN owned \subseteq Pids /\ DOMAIN todo \subseteq Pids /\ target \in Pids
        /\ \A p \in Pids : Live(p)' <=> Live(p)
        /\ \A p \in Pids : Spares(p)' <=> Spares(p)
    BY <1>1, <1>3, QuietKeeps
  <2>2. KillTypeOK'
    BY <1>3, <2>1 DEF KillTypeOK
  <2>3. HistoryOK'
    BY <1>1, <1>3, <2>1 DEF HistoryOK, Looking, Killing, Early
  <2>4. HeldOK'
    BY <1>1, <1>3, <2>1 DEF HeldOK
  <2>5. StoppedOK' /\ FoundOK'
    BY <1>1, <1>3, <2>1 DEF StoppedOK, FoundOK, FrozenBeforeKilled, Looking, Killing
  <2>6. QED
    BY <2>1, <2>2, <2>3, <2>4, <2>5 DEF KInv
<1>4. QED
  BY <1>2, <1>3 DEF TerminatePidTree

LEMMA ReadIdentityKeeps ==
  ASSUME KInv, ReadIdentity
  PROVE  KInv'
<1>1. place = "identify"
  BY DEF ReadIdentity
<1>2. CASE Answer("vanished") /\ Quiet
  BY <1>1, <1>2, EarlyAnswerKeeps DEF Early
<1>3. CASE /\ Live(target)
           /\ place' = "guard" /\ root' = proc[target].born
           /\ family' = Births({target} \cup Descendants(target))
           /\ UNCHANGED <<target, owned, todo, cur, passes, verdict, proc, births, strayed, signalled>>
  <2>1. KillTypeOK /\ WorldOK /\ HistoryOK /\ HeldOK /\ SignalledOK /\ StoppedOK /\ AnswerOK
    BY DEF KInv
  <2>2. Restates
    BY <1>3, <2>1 DEF Restates, KillTypeOK
  <2>3. /\ WorldOK'
        /\ \A p \in Pids : Live(p)' <=> Live(p)
        /\ \A r \in Pids : Descendants(r)' = Descendants(r)
        /\ \A p \in Pids : Spares(p)' <=> Spares(p)
    BY <2>1, <2>2, RestatesKeeps
  <2>4. /\ DOMAIN owned = {} /\ DOMAIN todo = {} /\ signalled = {} /\ target # Self /\ target \in Pids
        /\ births \in 0 .. MaxBirths /\ births \in Nat /\ MaxBirths \in Nat
    BY <1>1, <2>1, TableFacts DEF HistoryOK, HeldOK, KillTypeOK, Early
  <2> DEFINE tree == {target} \cup Descendants(target)
  <2>5. tree \subseteq Pids /\ \A p \in tree : Live(p) /\ proc[p].born \in 1 .. births
    BY <1>3, <2>1, <2>4, BelowIsLive, Walks, TableFacts
  <2>6. \A p, q \in Pids : Live(q) /\ proc[q].ppid = p /\ p \in tree => q \in tree
    BY <2>4, BelowIsClosed, Walks DEF ClosedIn
  <2> HIDE DEF tree
  <2>7. family' = {proc[p].born : p \in tree}
    BY <1>3 DEF Births, tree
  <2>8. \A p \in Pids : proc[p].born \in family' => p \in tree
    BY <2>1, <2>5, <2>7 DEF WorldOK, NoOne
  <2>9. family' \subseteq 1 .. births /\ root' \in family'
    BY <1>3, <2>5, <2>7 DEF tree
  <2>10. KillTypeOK'
    <3>1. family' \subseteq 1 .. MaxBirths /\ root' \in 0 .. MaxBirths
      BY <2>4, <2>9
    <3>2. QED
      BY <1>3, <2>1, <3>1 DEF KillTypeOK
  <2>11. HistoryOK'
    <3>1. ASSUME NEW p \in Pids, NEW q \in Pids,
                 Live(q), proc[q].ppid = p, proc[p].born \in family'
          PROVE  proc[q].born \in family'
      BY <2>6, <2>7, <2>8, <3>1
    <3>2. QED
      BY <1>3, <2>1, <2>3, <2>4, <2>9, <3>1 DEF HistoryOK
  <2>12. HeldOK'
    BY <1>3, <2>1, <2>3, <2>4 DEF HeldOK
  <2>13. SignalledOK'
    BY <1>3, <2>4 DEF SignalledOK
  <2>14. StoppedOK'
    BY <1>1, <1>3, <2>1, <2>4 DEF StoppedOK, Killing
  <2>15. FoundOK'
    <3>1. ASSUME NEW p \in Pids, proc[p].born \in family'
          PROVE  p = target \/ p \in Descendants(target)
      BY <2>8, <3>1 DEF tree
    <3>2. QED
      BY <1>3, <2>3, <2>4, <3>1 DEF FoundOK, FrozenBeforeKilled
  <2>16. AnswerOK'
    BY <1>1, <1>3, <2>1 DEF AnswerOK, TreeGone, NothingLeftFrozen
  <2>17. QED
    BY <2>3, <2>10, <2>11, <2>12, <2>13, <2>14, <2>15, <2>16 DEF KInv
<1>4. QED
  BY <1>2, <1>3 DEF ReadIdentity

LEMMA GuardKeeps ==
  ASSUME KInv, Guard
  PROVE  KInv'
<1>1. place = "guard" /\ Quiet
  BY DEF Guard
<1>2. CASE Answer("refused")
  BY <1>1, <1>2, EarlyAnswerKeeps DEF Early
<1>3. CASE Killable /\ place' = "open" /\ UNCHANGED <<target, root, owned, todo, cur, passes, verdict>>
  <2>1. /\ KillTypeOK /\ WorldOK /\ HistoryOK /\ HeldOK /\ StoppedOK /\ FoundOK
        /\ WorldOK' /\ SignalledOK' /\ AnswerOK'
        /\ UNCHANGED <<proc, births, family, strayed, signalled>>
        /\ DOMAIN owned \subseteq Pids /\ DOMAIN todo \subseteq Pids /\ target \in Pids
        /\ \A p \in Pids : Live(p)' <=> Live(p)
        /\ \A r \in Pids : Descendants(r)' = Descendants(r)
        /\ \A p \in Pids : Spares(p)' <=> Spares(p)
        /\ \A p \in Pids : Frozen(p)' <=> Frozen(p)
    BY <1>1, <1>3, QuietKeeps
  <2>2. KillTypeOK'
    BY <1>3, <2>1 DEF KillTypeOK
  <2>3. HistoryOK'
    BY <1>1, <1>3, <2>1 DEF HistoryOK, Looking, Killing, Early
  <2>4. Spares(target)
    BY <1>1, <1>3, <2>1 DEF HeldOK, Killable, Spares
  <2>5. HeldOK'
    BY <1>1, <1>3, <2>1, <2>4 DEF HeldOK
  <2>6. StoppedOK'
    BY <1>1, <1>3, <2>1 DEF StoppedOK, Looking, Killing
  <2>7. FoundOK'
    BY <1>1, <1>3, <2>1 DEF FoundOK, FrozenBeforeKilled, Looking
  <2>8. QED
    BY <2>1, <2>2, <2>3, <2>5, <2>6, <2>7 DEF KInv
<1>4. QED
  BY <1>2, <1>3 DEF Guard

LEMMA OpenRootKeeps ==
  ASSUME KInv, OpenRoot
  PROVE  KInv'
<1>1. place = "open" /\ Quiet
  BY DEF OpenRoot
<1>2. CASE Answer("vanished")
  BY <1>1, <1>2, EarlyAnswerKeeps DEF Early
<1>3. CASE /\ Same(target, root)
           /\ place' = "stop" /\ owned' = [p \in {target} |-> root]
           /\ UNCHANGED <<target, root, todo, cur, passes, verdict>>
  <2>1. KillTypeOK /\ WorldOK /\ HistoryOK /\ HeldOK /\ StoppedOK /\ FoundOK /\ AnswerOK
    BY DEF KInv
  <2>2. UNCHANGED <<proc, births, family, strayed, signalled>>
    BY <1>1 DEF Quiet, world
  <2>3. /\ WorldOK'
        /\ \A p \in Pids : Live(p)' <=> Live(p)
        /\ \A r \in Pids : Descendants(r)' = Descendants(r)
        /\ \A p \in Pids : Spares(p)' <=> Spares(p)
    BY <1>1, <2>1, QuietRestates, RestatesKeeps
  <2>4. /\ target \in Pids /\ DOMAIN owned' = {target} /\ owned'[target] = root
        /\ root \in family /\ signalled = {} /\ DOMAIN owned = {} /\ DOMAIN todo = {}
        /\ Spares(target) /\ target # Self
    BY <1>1, <1>3, <2>1 DEF KillTypeOK, HistoryOK, HeldOK, Looking, Early
  <2>5. proc[target].born = root
    <3>1. root # NoOne
      BY <2>1, <2>4 DEF KillTypeOK, NoOne
    <3>2. QED
      BY <1>3, <3>1 DEF Same, Identity
  <2>6. KillTypeOK'
    <3>1. \A f \in {owned', todo'} : DOMAIN f \subseteq Pids /\ \A p \in DOMAIN f : f[p] \in 1 .. MaxBirths
      BY <1>3, <2>1, <2>4 DEF KillTypeOK
    <3>2. QED
      BY <1>3, <2>1, <2>2, <3>1 DEF KillTypeOK
  <2>7. HistoryOK'
    BY <1>3, <2>1, <2>2, <2>3, <2>4 DEF HistoryOK, Early
  <2>8. HeldOK'
    BY <1>3, <2>2, <2>3, <2>4 DEF HeldOK
  <2>9. SignalledOK'
    BY <2>2, <2>4 DEF SignalledOK
  <2>10. StoppedOK'
    BY <1>1, <1>3, <2>1, <2>2, <2>3, <2>4 DEF StoppedOK, Looking, Killing
  <2>11. FoundOK'
    <3>1. ASSUME NEW p \in Pids, Live(p), proc[p].born \in family \ strayed
          PROVE  p = target \/ p \in Descendants(target)
      BY <1>1, <2>1, <2>4, <3>1 DEF FoundOK, Frozen, Looking
    <3>2. QED
      BY <1>3, <2>2, <2>3, <2>4, <2>5, <3>1 DEF FoundOK, FrozenBeforeKilled
  <2>12. AnswerOK'
    BY <1>1, <1>3, <2>1 DEF AnswerOK, TreeGone, NothingLeftFrozen
  <2>13. QED
    BY <2>3, <2>6, <2>7, <2>8, <2>9, <2>10, <2>11, <2>12 DEF KInv
<1>4. QED
  BY <1>2, <1>3 DEF OpenRoot

\* A signal to a process that is held: what it does to the table and to the history.
LEMMA SignalKeeps ==
  ASSUME KInv, place \notin {"done"}, NEW p \in DOMAIN owned, NEW state \in {"stopped", "dying"},
         SignalOwned(p, owned[p], state), UNCHANGED <<target, root, owned, verdict>>, place' # "done"
  PROVE  /\ KillTypeOK /\ WorldOK /\ HistoryOK /\ HeldOK /\ StoppedOK /\ FoundOK
         /\ WorldOK' /\ SignalledOK' /\ AnswerOK'
         /\ proc' \in [Pids -> Process] /\ UNCHANGED <<births, family, strayed>>
         /\ signalled' \subseteq family
         /\ p \in Pids /\ DOMAIN owned \subseteq Pids /\ DOMAIN todo \subseteq Pids /\ target \in Pids
         /\ \A q \in Pids : Live(q)' <=> Live(q)
         /\ \A r \in Pids : Descendants(r)' = Descendants(r)
         /\ \A q \in Pids : Spares(q)' <=> Spares(q)
         /\ \A q \in Pids : Frozen(q) => Frozen(q)'
         /\ \A q \in Pids : proc'[q].born = proc[q].born /\ proc'[q].ppid = proc[q].ppid
         /\ \A q \in Pids : proc'[q].state = proc[q].state \/ (q = p /\ proc'[q].state = state)
         /\ proc'[p].state # "running"
<1>1. KillTypeOK /\ WorldOK /\ HistoryOK /\ HeldOK /\ SignalledOK /\ StoppedOK /\ FoundOK /\ AnswerOK
  BY DEF KInv
<1>2. /\ DOMAIN owned \subseteq Pids /\ DOMAIN todo \subseteq Pids /\ target \in Pids /\ p \in Pids
      /\ owned[p] \in family /\ Spares(p) /\ p # Self /\ proc \in [Pids -> Process]
  BY <1>1 DEF KillTypeOK, HeldOK, Spares
<1>3. /\ Reaches(p, owned[p]) /\ proc' = After(p, state)
      /\ signalled' = signalled \cup {proc[p].born}
      /\ UNCHANGED <<births, family, strayed>>
  BY DEF SignalOwned, Births
<1>4. Restates
  BY <1>1, <1>2, SignalRestates
<1>5. /\ WorldOK'
      /\ \A q \in Pids : Live(q)' <=> Live(q)
      /\ \A r \in Pids : Descendants(r)' = Descendants(r)
      /\ \A q \in Pids : Spares(q)' <=> Spares(q)
      /\ \A q \in Pids : proc'[q].born = proc[q].born /\ proc'[q].immune = proc[q].immune
      /\ \A q \in Pids : proc'[q].ppid = proc[q].ppid
      /\ proc' \in [Pids -> Process]
  BY <1>1, <1>4, RestatesKeeps DEF Restates
<1>6. /\ \A q \in Pids : proc'[q].state = proc[q].state \/ (q = p /\ proc'[q].state = state)
      /\ proc'[p].state # "running"
  <2>1. CASE proc' = [proc EXCEPT ![p].state = state]
    <3>1. \A q \in Pids \ {p} : proc'[q] = proc[q]
      BY <1>2, <2>1
    <3>2. proc'[p].state = state
      BY <1>2, <2>1 DEF Process
    <3>3. QED
      BY <3>1, <3>2
  <2>2. CASE proc' = proc /\ proc[p].state # "running"
    BY <2>2
  <2>3. QED
    BY <1>3, <2>1, <2>2 DEF After
<1>7. \A q \in Pids : Frozen(q) => Frozen(q)'
  BY <1>5, <1>6 DEF Frozen
<1>8. proc[p].born = owned[p] /\ ~proc[p].immune /\ proc[p].state # "none"
  BY <1>3 DEF Reaches
<1>9. SignalledOK'
  <2>1. ASSUME NEW q \in Pids, proc[q].born = proc[p].born PROVE q = p
    BY <1>1, <1>2, <1>8, <2>1 DEF WorldOK
  <2>2. ASSUME NEW q \in Pids, proc[q].born \in signalled'
        PROVE  /\ q \in DOMAIN owned /\ owned[q] = proc[q].born /\ ~proc[q].immune
               /\ Live(q) => Spares(q)
    BY <1>1, <1>2, <1>3, <1>8, <2>1, <2>2 DEF SignalledOK
  <2>3. QED
    BY <1>5, <2>2 DEF SignalledOK
<1>10. AnswerOK'
  BY <1>1 DEF AnswerOK, TreeGone, NothingLeftFrozen
<1>11. signalled' \subseteq family
  BY <1>1, <1>2, <1>3, <1>8 DEF HistoryOK
<1>12. QED
  BY <1>1, <1>2, <1>3, <1>5, <1>6, <1>7, <1>9, <1>10, <1>11

LEMMA StopRootKeeps ==
  ASSUME KInv, StopRoot
  PROVE  KInv'
<1>1. place = "stop"
  BY DEF StopRoot
<1>2. CASE ~Reaches(target, root) /\ Quiet /\ Answer(IF Same(target, root) THEN "refused" ELSE "vanished")
  <2>1. PICK v \in {"refused", "vanished"} : Answer(v)
    BY <1>2
  <2>2. QED
    BY <1>1, <1>2, <2>1, EarlyAnswerKeeps
<1>3. CASE /\ SignalOwned(target, root, "stopped")
           /\ place' = "look" /\ UNCHANGED <<target, root, owned, todo, cur, passes, verdict>>
  <2>1. target \in DOMAIN owned /\ owned[target] = root
    BY <1>1 DEF KInv, HeldOK
  <2>2. /\ KillTypeOK /\ WorldOK /\ HistoryOK /\ HeldOK /\ StoppedOK /\ FoundOK
        /\ WorldOK' /\ SignalledOK' /\ AnswerOK'
        /\ proc' \in [Pids -> Process] /\ UNCHANGED <<births, family, strayed>>
        /\ signalled' \subseteq family
        /\ DOMAIN owned \subseteq Pids /\ DOMAIN todo \subseteq Pids /\ target \in Pids
        /\ \A q \in Pids : Live(q)' <=> Live(q)
        /\ \A r \in Pids : Descendants(r)' = Descendants(r)
        /\ \A q \in Pids : Spares(q)' <=> Spares(q)
        /\ \A q \in Pids : Frozen(q) => Frozen(q)'
        /\ \A q \in Pids : proc'[q].born = proc[q].born /\ proc'[q].ppid = proc[q].ppid
        /\ \A q \in Pids : proc'[q].state = proc[q].state \/ (q = target /\ proc'[q].state = "stopped")
        /\ proc'[target].state # "running"
    BY <1>1, <1>3, <2>1, SignalKeeps
  <2>3. KillTypeOK'
    BY <1>3, <2>2 DEF KillTypeOK, HistoryOK
  <2>4. HistoryOK'
    BY <1>1, <1>3, <2>2 DEF HistoryOK, Looking, Killing, Early
  <2>5. HeldOK'
    BY <1>1, <1>3, <2>2 DEF HeldOK
  <2>6. StoppedOK'
    BY <1>1, <1>3, <2>2 DEF StoppedOK, Looking, Killing
  <2>7. FoundOK'
    BY <1>1, <1>3, <2>2 DEF FoundOK, FrozenBeforeKilled, Looking
  <2>8. QED
    BY <2>2, <2>3, <2>4, <2>5, <2>6, <2>7 DEF KInv
<1>4. QED
  BY <1>2, <1>3 DEF StopRoot

LEMMA LookKeeps ==
  ASSUME KInv, Look
  PROVE  KInv'
<1>1. place = "look"
  BY DEF Look
<1>2. CASE Refuse
  BY <1>2, RefuseKeeps
<1>3. CASE /\ passes < MaxPasses /\ Same(target, root) /\ Quiet
           /\ passes' = passes + 1
           /\ \/ Unheld = {} /\ place' = "kill" /\ todo' = owned
              \/ Unheld # {} /\ place' = "hold" /\ todo' = Pin(Unheld)
           /\ UNCHANGED <<target, root, owned, cur, verdict>>
  <2>1. /\ KillTypeOK /\ WorldOK /\ HistoryOK /\ HeldOK /\ StoppedOK /\ FoundOK
        /\ WorldOK' /\ SignalledOK' /\ AnswerOK'
        /\ UNCHANGED <<proc, births, family, strayed, signalled>>
        /\ DOMAIN owned \subseteq Pids /\ target \in Pids
        /\ \A p \in Pids : Live(p)' <=> Live(p)
        /\ \A r \in Pids : Descendants(r)' = Descendants(r)
        /\ \A p \in Pids : Spares(p)' <=> Spares(p)
        /\ \A p \in Pids : Frozen(p)' <=> Frozen(p)
    BY <1>1, <1>3, QuietKeeps
  <2>2. /\ target \in DOMAIN owned /\ owned[target] = root /\ root \in family
        /\ Spares(target) /\ target # Self
    BY <1>1, <2>1 DEF HeldOK, HistoryOK, Looking
  <2>3. proc[target].born = root
    <3>1. root # NoOne
      BY <2>1, <2>2 DEF KillTypeOK, NoOne
    <3>2. QED
      BY <1>3, <3>1 DEF Same, Identity
  <2>4. ASSUME NEW p \in Descendants(target)
        PROVE  p \in Pids /\ Live(p) /\ proc[p].born \in family /\ Spares(p)
    <3>1. p \in Pids /\ Live(p)
      BY <2>1, <2>4, BelowIsLive, Walks
    <3>2. proc[p].born \in family
      <4> DEFINE S == {q \in Pids : proc[q].born \in family}
      <4>1. S \in SUBSET Pids /\ target \in S
        BY <2>1, <2>2, <2>3
      <4>2. ClosedIn(proc, S)
        BY <2>1, Walks DEF ClosedIn, HistoryOK
      <4> HIDE DEF S
      <4>3. p \in S
        BY <2>4, <4>1, <4>2, BelowIsLeast, Walks
      <4>4. QED
        BY <4>3 DEF S
    <3>3. Descendants(p) \subseteq {target} \cup Descendants(target)
      BY <2>1, <2>4, BelowIsTransitive, Walks
    <3>4. QED
      BY <2>2, <2>4, <3>1, <3>2, <3>3 DEF Spares, AncestorOfSelf
  <2>5. ASSUME NEW p \in DOMAIN todo'
        PROVE  /\ p \in Pids /\ todo'[p] \in family /\ todo'[p] \in 1 .. MaxBirths /\ Spares(p)
               /\ place' = "kill" => p \in DOMAIN owned /\ todo'[p] = owned[p]
               /\ place' = "hold" => p \notin DOMAIN owned
    <3>1. family \subseteq 1 .. MaxBirths
      BY <2>1 DEF KillTypeOK
    <3>2. CASE place' = "kill" /\ todo' = owned
      BY <2>1, <2>5, <3>1, <3>2 DEF HeldOK
    <3>3. CASE place' = "hold" /\ todo' = Pin(Unheld)
      <4>1. p \in Descendants(target) \ DOMAIN owned /\ todo'[p] = proc[p].born
        BY <2>5, <3>3 DEF Pin, Unheld
      <4>2. QED
        BY <2>4, <3>1, <3>3, <4>1
    <3>4. QED
      BY <1>3, <3>2, <3>3
  <2>6. KillTypeOK'
    <3>1. \A f \in {owned', todo'} : DOMAIN f \subseteq Pids /\ \A p \in DOMAIN f : f[p] \in 1 .. MaxBirths
      BY <1>3, <2>1, <2>5 DEF KillTypeOK
    <3>2. passes' \in 0 .. MaxPasses
      BY <1>3, <2>1, KillTreeAssumption DEF KillTypeOK
    <3>3. QED
      BY <1>3, <2>1, <3>1, <3>2 DEF KillTypeOK
  <2>7. HistoryOK'
    BY <1>1, <1>3, <2>1, <2>2 DEF HistoryOK, Early
  <2>8. HeldOK'
    <3>1. \A p \in DOMAIN owned' : owned'[p] \in family' /\ Spares(p)'
      BY <1>3, <2>1 DEF HeldOK
    <3>2. \A p \in DOMAIN todo' : todo'[p] \in family' /\ Spares(p)'
      BY <2>1, <2>5
    <3>3. Spares(target)' /\ target' # Self /\ target' \in DOMAIN owned' /\ owned'[target'] = root'
      BY <1>3, <2>1, <2>2
    <3>4. /\ place' \in {"hold", "freeze"} => DOMAIN todo' \cap DOMAIN owned' = {}
          /\ place' = "kill" => \A p \in DOMAIN todo' : p \in DOMAIN owned' /\ todo'[p] = owned'[p]
          /\ place' # "freeze"
      BY <1>3, <2>5
    <3>5. QED
      BY <3>1, <3>2, <3>3, <3>4 DEF HeldOK
  <2>9. StoppedOK'
    BY <1>1, <1>3, <2>1 DEF StoppedOK, Looking, Killing
  <2>10. FoundOK'
    <3>1. ASSUME NEW p \in Pids, Live(p), proc[p].born \in family \ strayed
          PROVE  /\ p = target \/ p \in Descendants(target) \/ Frozen(p)
                 /\ p \in DOMAIN owned => owned[p] = proc[p].born
      BY <1>1, <2>1, <3>1 DEF FoundOK, Looking
    <3>2. ASSUME Unheld = {}, NEW p \in Pids, Live(p), proc[p].born \in family \ strayed
          PROVE  Frozen(p)
      <4>1. Frozen(p) \/ p \in DOMAIN owned
        BY <2>2, <3>1, <3>2 DEF Unheld
      <4>2. p \in DOMAIN owned /\ owned[p] = proc[p].born => proc[p].state # "running"
        BY <1>1, <2>1, <3>2 DEF StoppedOK, Looking
      <4>3. QED
        BY <3>1, <3>2, <4>1, <4>2 DEF Frozen
    <3>3. QED
      BY <1>3, <2>1, <3>1, <3>2 DEF FoundOK, FrozenBeforeKilled
  <2>11. QED
    BY <2>1, <2>6, <2>7, <2>8, <2>9, <2>10 DEF KInv
<1>4. QED
  BY <1>2, <1>3 DEF Look

LEMMA HoldKeeps ==
  ASSUME KInv, Hold
  PROVE  KInv'
<1>1. place = "hold"
  BY DEF Hold
<1>2. CASE Refuse
  BY <1>2, RefuseKeeps
<1>3. CASE /\ DOMAIN todo = {} /\ place' = "look" /\ Quiet
           /\ UNCHANGED <<target, root, owned, todo, cur, passes, verdict>>
  <2>1. /\ KillTypeOK /\ WorldOK /\ HistoryOK /\ HeldOK /\ StoppedOK /\ FoundOK
        /\ WorldOK' /\ SignalledOK' /\ AnswerOK'
        /\ UNCHANGED <<proc, births, family, strayed, signalled>>
        /\ DOMAIN owned \subseteq Pids /\ DOMAIN todo \subseteq Pids /\ target \in Pids
        /\ \A p \in Pids : Live(p)' <=> Live(p)
        /\ \A r \in Pids : Descendants(r)' = Descendants(r)
        /\ \A p \in Pids : Spares(p)' <=> Spares(p)
        /\ \A p \in Pids : Frozen(p)' <=> Frozen(p)
    BY <1>1, <1>3, QuietKeeps
  <2>2. KillTypeOK'
    BY <1>3, <2>1 DEF KillTypeOK
  <2>3. HistoryOK'
    BY <1>1, <1>3, <2>1 DEF HistoryOK, Looking, Early
  <2>4. HeldOK'
    BY <1>1, <1>3, <2>1 DEF HeldOK
  <2>5. StoppedOK' /\ FoundOK'
    BY <1>1, <1>3, <2>1 DEF StoppedOK, FoundOK, FrozenBeforeKilled, Looking, Killing
  <2>6. QED
    BY <2>1, <2>2, <2>3, <2>4, <2>5 DEF KInv
<1>4. ASSUME NEW p \in DOMAIN todo \ {Self}, todo' = Without(p), Quiet,
             UNCHANGED <<target, root, passes, verdict>>,
             \/ /\ Same(p, todo[p])
                /\ owned' = [q \in DOMAIN owned \cup {p} |-> IF q = p THEN todo[p] ELSE owned[q]]
                /\ cur' = p /\ place' = "freeze"
             \/ UNCHANGED <<owned, cur, place>>
      PROVE  KInv'
  <2>1. KillTypeOK /\ WorldOK /\ HistoryOK /\ HeldOK /\ SignalledOK /\ StoppedOK /\ FoundOK /\ AnswerOK
    BY DEF KInv
  <2>2. UNCHANGED <<proc, births, family, strayed, signalled>>
    BY <1>4 DEF Quiet, world
  <2>3. /\ WorldOK'
        /\ \A q \in Pids : Live(q)' <=> Live(q)
        /\ \A r \in Pids : Descendants(r)' = Descendants(r)
        /\ \A q \in Pids : Spares(q)' <=> Spares(q)
    BY <1>4, <2>1, QuietRestates, RestatesKeeps
  <2>4. /\ DOMAIN owned \subseteq Pids /\ DOMAIN todo \subseteq Pids /\ target \in Pids /\ p \in Pids
        /\ p \notin DOMAIN owned /\ todo[p] \in family /\ Spares(p) /\ todo[p] \in 1 .. MaxBirths
        /\ DOMAIN todo \cap DOMAIN owned = {}
    BY <1>1, <1>4, <2>1 DEF KillTypeOK, HeldOK
  <2>5. DOMAIN todo' = DOMAIN todo \ {p} /\ \A q \in DOMAIN todo' : todo'[q] = todo[q]
    BY <1>4 DEF Without
  <2>6. /\ DOMAIN owned \subseteq DOMAIN owned' /\ DOMAIN owned' \subseteq DOMAIN owned \cup {p}
        /\ \A q \in DOMAIN owned : owned'[q] = owned[q]
        /\ p \in DOMAIN owned' => owned'[p] = todo[p] /\ Same(p, todo[p]) /\ place' = "freeze" /\ cur' = p
        /\ place' = "hold" \/ (place' = "freeze" /\ cur' = p /\ p \in DOMAIN owned')
        /\ cur' \in Pids \cup {NoOne}
    BY <1>1, <1>4, <2>1, <2>4 DEF KillTypeOK
  <2>7. p \in DOMAIN owned' => owned'[p] = proc[p].born
    <3>1. todo[p] # NoOne
      BY <2>4 DEF NoOne
    <3>2. QED
      BY <2>6, <3>1 DEF Same, Identity
  <2>8. KillTypeOK'
    <3>1. \A f \in {owned', todo'} : DOMAIN f \subseteq Pids /\ \A q \in DOMAIN f : f[q] \in 1 .. MaxBirths
      BY <2>1, <2>4, <2>5, <2>6 DEF KillTypeOK
    <3>2. QED
      BY <1>4, <2>1, <2>2, <2>6, <3>1 DEF KillTypeOK
  <2>9. HistoryOK'
    BY <1>1, <1>4, <2>1, <2>2, <2>3, <2>6 DEF HistoryOK, Looking, Early
  <2>10. HeldOK'
    <3>1. \A q \in DOMAIN owned' : owned'[q] \in family' /\ Spares(q)'
      BY <2>1, <2>2, <2>3, <2>4, <2>6 DEF HeldOK
    <3>2. \A q \in DOMAIN todo' : todo'[q] \in family' /\ Spares(q)'
      BY <2>1, <2>2, <2>3, <2>4, <2>5 DEF HeldOK
    <3>3. target # Self /\ Spares(target)' /\ target \in DOMAIN owned' /\ owned'[target] = root
      BY <1>1, <1>4, <2>1, <2>3, <2>4, <2>6 DEF HeldOK
    <3>4. DOMAIN todo' \cap DOMAIN owned' = {}
      BY <2>4, <2>5, <2>6
    <3>5. QED
      BY <1>4, <2>6, <3>1, <3>2, <3>3, <3>4 DEF HeldOK
  <2>11. SignalledOK'
    BY <2>1, <2>2, <2>3, <2>6 DEF SignalledOK
  <2>12. StoppedOK'
    <3>1. ASSUME NEW q \in DOMAIN owned', Live(q)', owned'[q] = proc'[q].born
          PROVE  proc'[q].state # "running" \/ (place' = "freeze" /\ q = cur')
      BY <1>1, <2>1, <2>2, <2>3, <2>4, <2>6, <3>1 DEF StoppedOK, Looking
    <3>2. \A q \in Pids : proc'[q].state # "dying"
      BY <1>1, <2>1, <2>2 DEF StoppedOK, Killing
    <3>3. QED
      BY <3>1, <3>2 DEF StoppedOK
  <2>13. FoundOK'
    <3>1. ASSUME NEW q \in Pids, Live(q), proc[q].born \in family \ strayed
          PROVE  /\ q = target \/ q \in Descendants(target) \/ Frozen(q)'
                 /\ q \in DOMAIN owned' => owned'[q] = proc[q].born
      BY <1>1, <2>1, <2>2, <2>6, <2>7, <3>1 DEF FoundOK, Frozen, Looking
    <3>2. QED
      BY <1>4, <2>2, <2>3, <2>4, <2>6, <3>1 DEF FoundOK, FrozenBeforeKilled
  <2>14. AnswerOK'
    BY <1>1, <1>4, <2>1, <2>6 DEF AnswerOK, TreeGone, NothingLeftFrozen
  <2>15. QED
    BY <2>3, <2>8, <2>9, <2>10, <2>11, <2>12, <2>13, <2>14 DEF KInv
<1>5. QED
  BY <1>2, <1>3, <1>4 DEF Hold

LEMMA FreezeKeeps ==
  ASSUME KInv, Freeze
  PROVE  KInv'
<1>1. place = "freeze" /\ cur \in DOMAIN owned
  BY DEF Freeze, KInv, HeldOK
<1>2. CASE Refuse
  BY <1>2, RefuseKeeps
<1>3. CASE /\ SignalOwned(cur, owned[cur], "stopped")
           /\ place' = "hold" /\ cur' = NoOne /\ UNCHANGED <<target, root, owned, todo, passes, verdict>>
  <2>1. /\ KillTypeOK /\ WorldOK /\ HistoryOK /\ HeldOK /\ StoppedOK /\ FoundOK
        /\ WorldOK' /\ SignalledOK' /\ AnswerOK'
        /\ proc' \in [Pids -> Process] /\ UNCHANGED <<births, family, strayed>>
        /\ signalled' \subseteq family
        /\ DOMAIN owned \subseteq Pids /\ DOMAIN todo \subseteq Pids /\ target \in Pids
        /\ \A q \in Pids : Live(q)' <=> Live(q)
        /\ \A r \in Pids : Descendants(r)' = Descendants(r)
        /\ \A q \in Pids : Spares(q)' <=> Spares(q)
        /\ \A q \in Pids : Frozen(q) => Frozen(q)'
        /\ \A q \in Pids : proc'[q].born = proc[q].born /\ proc'[q].ppid = proc[q].ppid
        /\ \A q \in Pids : proc'[q].state = proc[q].state \/ (q = cur /\ proc'[q].state = "stopped")
        /\ proc'[cur].state # "running"
    BY <1>1, <1>3, SignalKeeps
  <2>2. KillTypeOK'
    BY <1>3, <2>1 DEF KillTypeOK
  <2>3. HistoryOK'
    BY <1>1, <1>3, <2>1 DEF HistoryOK, Looking, Early
  <2>4. HeldOK'
    BY <1>1, <1>3, <2>1 DEF HeldOK
  <2>5. StoppedOK'
    BY <1>1, <1>3, <2>1 DEF StoppedOK, Looking, Killing
  <2>6. FoundOK'
    BY <1>1, <1>3, <2>1 DEF FoundOK, FrozenBeforeKilled, Looking
  <2>7. QED
    BY <2>1, <2>2, <2>3, <2>4, <2>5, <2>6 DEF KInv
<1>4. CASE /\ ~Same(cur, owned[cur]) /\ Quiet
           /\ place' = "hold" /\ cur' = NoOne /\ UNCHANGED <<target, root, owned, todo, passes, verdict>>
  <2>1. /\ KillTypeOK /\ WorldOK /\ HistoryOK /\ HeldOK /\ StoppedOK /\ FoundOK
        /\ WorldOK' /\ SignalledOK' /\ AnswerOK'
        /\ UNCHANGED <<proc, births, family, strayed, signalled>>
        /\ DOMAIN owned \subseteq Pids /\ DOMAIN todo \subseteq Pids /\ target \in Pids
        /\ \A p \in Pids : Live(p)' <=> Live(p)
        /\ \A r \in Pids : Descendants(r)' = Descendants(r)
        /\ \A p \in Pids : Spares(p)' <=> Spares(p)
        /\ \A p \in Pids : Frozen(p)' <=> Frozen(p)
    BY <1>1, <1>4, QuietKeeps
  <2>2. KillTypeOK'
    BY <1>4, <2>1 DEF KillTypeOK
  <2>3. HistoryOK'
    BY <1>1, <1>4, <2>1 DEF HistoryOK, Looking, Early
  <2>4. HeldOK'
    BY <1>1, <1>4, <2>1 DEF HeldOK
  <2>5. StoppedOK'
    <3>1. ~(Live(cur) /\ owned[cur] = proc[cur].born)
      BY <1>4 DEF Same, Identity
    <3>2. QED
      BY <1>1, <1>4, <2>1, <3>1 DEF StoppedOK, Looking, Killing
  <2>6. FoundOK'
    BY <1>1, <1>4, <2>1 DEF FoundOK, FrozenBeforeKilled, Looking
  <2>7. QED
    BY <2>1, <2>2, <2>3, <2>4, <2>5, <2>6 DEF KInv
<1>5. QED
  BY <1>2, <1>3, <1>4 DEF Freeze

LEMMA KillOwnedKeeps ==
  ASSUME KInv, KillOwned
  PROVE  KInv'
<1>1. place = "kill"
  BY DEF KillOwned
<1>2. CASE Refuse
  BY <1>2, RefuseKeeps
<1>3. CASE /\ Quiet /\ UNCHANGED <<target, root, owned, cur, passes, verdict>>
           /\ \/ place' = "await" /\ todo' = todo
              \/ place' = "kill" /\ \E p \in DOMAIN todo : todo' = Without(p)
  <2>1. /\ KillTypeOK /\ WorldOK /\ HistoryOK /\ HeldOK /\ StoppedOK /\ FoundOK
        /\ WorldOK' /\ SignalledOK' /\ AnswerOK'
        /\ UNCHANGED <<proc, births, family, strayed, signalled>>
        /\ DOMAIN owned \subseteq Pids /\ DOMAIN todo \subseteq Pids /\ target \in Pids
        /\ \A p \in Pids : Live(p)' <=> Live(p)
        /\ \A r \in Pids : Descendants(r)' = Descendants(r)
        /\ \A p \in Pids : Spares(p)' <=> Spares(p)
        /\ \A p \in Pids : Frozen(p)' <=> Frozen(p)
    BY <1>1, <1>3, QuietKeeps
  <2>2. DOMAIN todo' \subseteq DOMAIN todo /\ \A p \in DOMAIN todo' : todo'[p] = todo[p]
    BY <1>3 DEF Without
  <2>3. KillTypeOK'
    <3>1. \A f \in {owned', todo'} : DOMAIN f \subseteq Pids /\ \A p \in DOMAIN f : f[p] \in 1 .. MaxBirths
      BY <1>3, <2>1, <2>2 DEF KillTypeOK
    <3>2. QED
      BY <1>3, <2>1, <3>1 DEF KillTypeOK
  <2>4. HistoryOK'
    BY <1>1, <1>3, <2>1 DEF HistoryOK, Killing, Looking, Early
  <2>5. HeldOK'
    BY <1>1, <1>3, <2>1, <2>2 DEF HeldOK
  <2>6. StoppedOK' /\ FoundOK'
    BY <1>1, <1>3, <2>1 DEF StoppedOK, FoundOK, FrozenBeforeKilled, Looking, Killing
  <2>7. QED
    BY <2>1, <2>3, <2>4, <2>5, <2>6 DEF KInv
<1>4. ASSUME NEW p \in DOMAIN todo, SignalOwned(p, todo[p], "dying"), todo' = Without(p),
             UNCHANGED <<place, target, root, owned, cur, passes, verdict>>
      PROVE  KInv'
  <2>1. p \in DOMAIN owned /\ todo[p] = owned[p]
    BY <1>1, <1>4 DEF KInv, HeldOK
  <2>2. /\ KillTypeOK /\ WorldOK /\ HistoryOK /\ HeldOK /\ StoppedOK /\ FoundOK
        /\ WorldOK' /\ SignalledOK' /\ AnswerOK'
        /\ proc' \in [Pids -> Process] /\ UNCHANGED <<births, family, strayed>>
        /\ signalled' \subseteq family
        /\ DOMAIN owned \subseteq Pids /\ DOMAIN todo \subseteq Pids /\ target \in Pids
        /\ \A q \in Pids : Live(q)' <=> Live(q)
        /\ \A q \in Pids : Spares(q)' <=> Spares(q)
        /\ \A q \in Pids : Frozen(q) => Frozen(q)'
        /\ \A q \in Pids : proc'[q].born = proc[q].born /\ proc'[q].ppid = proc[q].ppid
    BY <1>1, <1>4, <2>1, SignalKeeps
  <2>3. DOMAIN todo' \subseteq DOMAIN todo /\ \A q \in DOMAIN todo' : todo'[q] = todo[q]
    BY <1>4 DEF Without
  <2>4. KillTypeOK'
    <3>1. \A f \in {owned', todo'} : DOMAIN f \subseteq Pids /\ \A q \in DOMAIN f : f[q] \in 1 .. MaxBirths
      BY <1>4, <2>2, <2>3 DEF KillTypeOK
    <3>2. QED
      BY <1>4, <2>2, <3>1 DEF KillTypeOK
  <2>5. HistoryOK'
    BY <1>1, <1>4, <2>2 DEF HistoryOK, Killing, Looking, Early
  <2>6. HeldOK'
    BY <1>1, <1>4, <2>2, <2>3 DEF HeldOK
  <2>7. StoppedOK' /\ FoundOK'
    BY <1>1, <1>4, <2>2 DEF StoppedOK, FoundOK, FrozenBeforeKilled, Looking, Killing
  <2>8. QED
    BY <2>2, <2>4, <2>5, <2>6, <2>7 DEF KInv
<1>5. QED
  BY <1>1, <1>2, <1>3, <1>4 DEF KillOwned

LEMMA AwaitDeathKeeps ==
  ASSUME KInv, AwaitDeath
  PROVE  KInv'
<1>1. CASE Refuse
  BY <1>1, RefuseKeeps
<1>2. CASE place = "await" /\ Gone /\ Answer("killed") /\ Quiet
  <2>1. ASSUME NEW p \in Pids, Live(p), proc[p].born \in family \ strayed PROVE FALSE
    <3>1. p \in DOMAIN owned /\ owned[p] = proc[p].born
      BY <1>2, <2>1 DEF KInv, FoundOK, FrozenBeforeKilled, Frozen
    <3>2. QED
      BY <1>2, <2>1, <3>1 DEF Gone, Same, Identity
  <2>2. Restates /\ UNCHANGED <<family, signalled>>
    BY <1>2, QuietRestates DEF KInv, Quiet, world
  <2>3. QED
    BY <1>2, <2>1, <2>2, AnswerKeeps
<1>3. QED
  BY <1>1, <1>2 DEF AwaitDeath

(***************************************************************************)
(* The theorems.                                                           *)
(***************************************************************************)
LEMMA KInvInit == KillInit => KInv
<1> SUFFICES ASSUME KillInit PROVE KInv
  OBVIOUS
<1>1. /\ proc \in [Pids -> Process] /\ proc[Self].state = "running"
      /\ births = Cardinality(Processes(proc)) /\ births \in 0 .. MaxBirths
      /\ \A p \in Pids :
           /\ proc[p].state \in {"none", "running"}
           /\ proc[p].state = "none" <=> proc[p].born = NoOne
           /\ proc[p].born <= births
           /\ \A q \in Pids \ {p} : proc[p].born = proc[q].born => proc[p].born = NoOne
           /\ proc[p].ppid # NoOne => proc[p].ppid \in Processes(proc) \ {p}
  BY KillTreeAssumption DEF KillInit, WellFormed
<1>2. /\ place = "start" /\ target \in Pids /\ root = NoOne
      /\ DOMAIN owned = {} /\ DOMAIN todo = {} /\ cur = NoOne /\ passes = 0 /\ verdict = "none"
      /\ family = {} /\ strayed = {} /\ signalled = {}
  BY DEF KillInit, Nothing
<1>3. KillTypeOK
  <2>1. 0 \in 0 .. MaxPasses /\ NoOne \in 0 .. MaxBirths
    BY KillTreeAssumption DEF NoOne
  <2>2. QED
    BY <1>1, <1>2, <2>1 DEF KillTypeOK
<1>4. WorldOK
  BY <1>1 DEF WorldOK, Processes, Live
<1>5. HistoryOK /\ HeldOK /\ SignalledOK
  BY <1>2 DEF HistoryOK, HeldOK, SignalledOK, Looking, Killing
<1>6. StoppedOK
  BY <1>1, <1>2 DEF StoppedOK
<1>7. FoundOK /\ AnswerOK
  BY <1>2 DEF FoundOK, AnswerOK, FrozenBeforeKilled, TreeGone, NothingLeftFrozen
<1>8. QED
  BY <1>3, <1>4, <1>5, <1>6, <1>7 DEF KInv

LEMMA KInvNext == KInv /\ [KillNext]_killVars => KInv'
<1> SUFFICES ASSUME KInv, [KillNext]_killVars PROVE KInv'
  OBVIOUS
<1>1. CASE place # "done" /\ Others
  BY <1>1, ForkKeeps, ExitKeeps, DieKeeps, ReapKeeps DEF Others
<1>2. CASE Killer
  BY <1>2, TerminatePidTreeKeeps, ReadIdentityKeeps, GuardKeeps, OpenRootKeeps, StopRootKeeps,
     LookKeeps, HoldKeeps, FreezeKeeps, KillOwnedKeeps, AwaitDeathKeeps DEF Killer
<1>3. CASE UNCHANGED killVars
  <2>1. KillTypeOK /\ WorldOK /\ HistoryOK /\ HeldOK /\ SignalledOK /\ StoppedOK /\ FoundOK /\ AnswerOK
    BY DEF KInv
  <2>2. UNCHANGED <<proc, births, place, target, root, owned, todo, cur, passes, verdict, family,
                    strayed, signalled>>
    BY <1>3 DEF killVars
  <2>3. Restates
    BY <2>1, <2>2 DEF Restates, KillTypeOK
  <2>4. /\ WorldOK'
        /\ \A p \in Pids : Live(p)' <=> Live(p)
        /\ \A r \in Pids : Descendants(r)' = Descendants(r)
        /\ \A p \in Pids : Spares(p)' <=> Spares(p)
    BY <2>1, <2>3, RestatesKeeps
  <2>5. DOMAIN owned \subseteq Pids /\ DOMAIN todo \subseteq Pids /\ target \in Pids
    BY <2>1 DEF KillTypeOK
  <2>6. KillTypeOK'
    BY <2>1, <2>2 DEF KillTypeOK
  <2>7. HistoryOK'
    BY <2>1, <2>2, <2>4 DEF HistoryOK
  <2>8. HeldOK'
    BY <2>1, <2>2, <2>4, <2>5 DEF HeldOK
  <2>9. SignalledOK'
    BY <2>1, <2>2, <2>4 DEF SignalledOK
  <2>10. StoppedOK'
    BY <2>1, <2>2, <2>4, <2>5 DEF StoppedOK
  <2>11. FoundOK'
    BY <2>1, <2>2, <2>4, <2>5 DEF FoundOK, FrozenBeforeKilled, Frozen
  <2>12. AnswerOK'
    BY <2>1, <2>2, <2>4 DEF AnswerOK, TreeGone, NothingLeftFrozen
  <2>13. QED
    BY <2>4, <2>6, <2>7, <2>8, <2>9, <2>10, <2>11, <2>12 DEF KInv
<1>4. QED
  BY <1>1, <1>2, <1>3 DEF KillNext, Answered

\* The invariant holds throughout: what is held, signalled and found hangs together
\* (terminate_pid_tree, _terminate_posix_tree).
THEOREM KillInvariant == KillSpec => []KInv
<1>1. KillInit => KInv
  BY KInvInit
<1>2. KInv /\ [KillNext]_killVars => KInv'
  BY KInvNext
<1>3. QED
  BY <1>1, <1>2, PTL DEF KillSpec

\* A kill touches the tree it was asked for and nobody else, and a refused one leaves nobody
\* stopped, whatever the table of processes and however pids are given out again
\* (terminate_pid_tree, _signal_owned, _is_ancestor_of_self, _thaw).
THEOREM KillIsContained == KillSpec => []OnlyTheTree
<1>1. KInv => OnlyTheTree
  BY DEF KInv, HistoryOK, SignalledOK, AnswerOK, Spares, OnlyTheTree, InnocentsSpared,
     OwnTreeSpared
<1>2. QED
  BY <1>1, KillInvariant, PTL

\* When the killing starts the tree is frozen, and a kill that says it succeeded has left
\* nothing of it, whatever forked, ended or took a pid meanwhile (_terminate_posix_tree).
THEOREM KilledIsGone == KillSpec => []WholeTreeDies
<1>1. KInv => WholeTreeDies
  BY DEF KInv, FoundOK, AnswerOK, WholeTreeDies, FrozenBeforeKilled
<1>2. QED
  BY <1>1, KillInvariant, PTL
=============================================================================
