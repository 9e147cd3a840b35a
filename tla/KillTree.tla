------------------------------ MODULE KillTree ------------------------------
(***************************************************************************)
(* spawn.terminate_pid_tree on Linux: prove what a pid is, freeze it,      *)
(* freeze its descendants pass by pass until no new one is found, kill     *)
(* them all and see them gone, or let everything go again.  Around it      *)
(* processes fork, exit, are reaped and have their pids reused.            *)
(*                                                                         *)
(* A process is a pid and a birth (its start time).  One look at /proc is  *)
(* one step: what it can miss while it is taken are children whose parent  *)
(* exits meanwhile, and those are lost to the walk in any case.            *)
(***************************************************************************)
EXTENDS Integers, FiniteSets

NoOne == 0   \* the parent of an orphan; the birth of a pid nobody has

CONSTANTS
  Pids,
  Self,       \* os.getpid()
  MaxBirths,  \* bound: processes started
  MaxPasses,  \* looks at /proc before the walk gives up (16 in the code)
  Reuse,      \* pids of processes that ended are given out again
  Forests     \* the processes there may be at first

Process == [born : 0 .. MaxBirths, ppid : Pids \cup {NoOne},
            state : {"none", "running", "stopped", "dying", "zombie"},
            image : {"none", "ours", "other"}, immune : BOOLEAN]

Processes(f) == {p \in Pids : f[p].state # "none"}

\* Everybody runs, this process too; births are numbered from one on, no two processes
\* share one, and a parent is another process.
WellFormed(f) ==
  /\ f \in [Pids -> Process] /\ f[Self].state = "running"
  /\ Cardinality(Processes(f)) \in 0 .. MaxBirths
  /\ \A p \in Pids :
       /\ f[p].state \in {"none", "running"}
       /\ f[p].state = "none" <=> f[p].born = NoOne
       /\ f[p].born <= Cardinality(Processes(f))
       /\ \A q \in Pids \ {p} : f[p].born = f[q].born => f[p].born = NoOne
       /\ f[p].ppid # NoOne => f[p].ppid \in Processes(f) \ {p}

ASSUME KillTreeAssumption ==
  /\ Pids \subseteq Nat \ {0} /\ IsFiniteSet(Pids) /\ Self \in Pids
  /\ {MaxBirths, MaxPasses} \subseteq Nat \ {0} /\ Reuse \in BOOLEAN
  /\ \A f \in Forests : WellFormed(f)

VARIABLES
  proc,       \* pid -> [born, ppid, state, image, immune]
  births,     \* processes started so far
  place,      \* where the killer is
  target,     \* the pid it was asked to kill
  root,       \* the identity it read for it: its birth
  owned,      \* pid -> birth of a process it holds a pidfd of
  todo,       \* pid -> birth: what the present pass or the killing has left
  cur,        \* the process being frozen
  passes,
  verdict,
  family,     \* history: births of root and of every descendant it had
  strayed,    \* history: of those, the ones an ancestor's own end cut off before they
              \* were frozen, or that took the pid of a process already held, and
              \* their descendants
  signalled   \* history: births a signal reached

killVars == <<proc, births, place, target, root, owned, todo, cur, passes, verdict,
          family, strayed, signalled>>
world  == <<proc, births, family, strayed>>
killer == <<place, target, root, owned, todo, cur, passes, verdict>>

Live(p) == proc[p].state \in {"running", "stopped", "dying"}

\* _read_proc_identity: a zombie counts as vanished.
Identity(p) == IF Live(p) THEN proc[p].born ELSE NoOne
Same(p, b)  == Identity(p) = b

\* Whoever is live and has its parent in S is in S.
Closed(S) == \A q \in Pids : Live(q) /\ proc[q].ppid \in S => q \in S

\* What a walk up the parents finds below r; a process that ends hands its children on.
Descendants(r) == {p \in Pids \ {r} : \A S \in SUBSET Pids : r \in S /\ Closed(S) => p \in S}

AncestorOfSelf(p) == Self \in Descendants(p)

Births(S) == {proc[p].born : p \in S}
Pin(S)    == [p \in S |-> proc[p].born]
Nothing   == [p \in {} |-> NoOne]

KillInit ==
  /\ proc \in Forests /\ births = Cardinality(Processes(proc))
  /\ place = "start" /\ target \in Pids /\ root = NoOne
  /\ owned = Nothing /\ todo = Nothing /\ cur = NoOne /\ passes = 0 /\ verdict = "none"
  /\ family = {} /\ strayed = {} /\ signalled = {}

----------------------------------------------------------------------------
(* Everybody else *)

Fork(p, q) ==
  /\ births < MaxBirths /\ proc[p].state = "running"
  /\ proc[q].state = "none" /\ (Reuse \/ proc[q].born = NoOne)
  /\ births' = births + 1
  /\ \E immune \in BOOLEAN :
       proc' = [proc EXCEPT ![q] = [born |-> births', ppid |-> p, state |-> "running",
                                    image |-> proc[p].image, immune |-> immune]]
  /\ family' = family \cup (IF proc[p].born \in family THEN {births'} ELSE {})
  /\ strayed' = strayed \cup
       (IF proc[p].born \in strayed \/ (proc[p].born \in family /\ q \in DOMAIN owned)
        THEN {births'} ELSE {})
  /\ UNCHANGED <<killer, signalled>>

\* A process ends: its children are orphans, and it stays a zombie until its parent, if it
\* has one, collects it.
Ends(p) ==
  [q \in Pids |->
     IF q = p
     THEN [proc[p] EXCEPT !.state = IF proc[p].ppid = NoOne THEN "none" ELSE "zombie"]
     ELSE IF proc[q].ppid # p \/ proc[q].state = "none" THEN proc[q]
     ELSE [proc[q] EXCEPT !.ppid = NoOne, !.state = IF @ = "zombie" THEN "none" ELSE @]]

\* The killer holds it and has stopped it.
Frozen(q) ==
  q \in DOMAIN owned /\ owned[q] = proc[q].born /\ proc[q].state # "running"

Exits(p) ==
  /\ p # Self /\ proc[p].state \in {"running", "stopped"}
  /\ proc' = Ends(p)
  /\ strayed' = strayed \cup
       (Births({q \in Descendants(p) : ~Frozen(q)}) \cap family)
  /\ UNCHANGED <<killer, births, family, signalled>>

Die(p) ==
  /\ proc[p].state = "dying" /\ proc' = Ends(p)
  /\ UNCHANGED <<killer, births, family, strayed, signalled>>

Reap(p) ==
  /\ proc[p].state = "zombie" /\ proc[proc[p].ppid].state = "running"
  /\ proc' = [proc EXCEPT ![p].state = "none"]
  /\ UNCHANGED <<killer, births, family, strayed, signalled>>

Others ==
  \/ \E p, q \in Pids : Fork(p, q)
  \/ \E p \in Pids : Exits(p) \/ Die(p) \/ Reap(p)

----------------------------------------------------------------------------
(* Signals through a pidfd *)

\* Mutant: whoever has the pid now.
ByPid(p, b) == proc[p].state # "none" /\ ~proc[p].immune

Reaches(p, b) == proc[p].born = b /\ proc[p].state # "none" /\ ~proc[p].immune

After(p, state) == IF proc[p].state = "running" \/ (state = "dying" /\ Live(p))
                   THEN [proc EXCEPT ![p].state = state] ELSE proc

\* _signal_owned: TRUE when the process was reached.
SignalOwned(p, b, state) ==
  /\ Reaches(p, b)
  /\ proc' = After(p, state)
  /\ signalled' = signalled \cup Births({p})
  /\ UNCHANGED <<births, family, strayed>>

Quiet == UNCHANGED <<world, signalled>>

\* The finally block: whatever was stopped goes on.
Thaw ==
  proc' = [p \in Pids |->
    IF p \in DOMAIN owned /\ Reaches(p, owned[p]) /\ proc[p].state = "stopped"
    THEN [proc[p] EXCEPT !.state = "running"] ELSE proc[p]]

Answer(v) == place' = "done" /\ verdict' = v /\ UNCHANGED <<target, root, owned, todo, cur, passes>>

Refuse == Answer("refused") /\ Thaw /\ UNCHANGED <<births, family, strayed, signalled>>

----------------------------------------------------------------------------
(* The killer *)

\* terminate_pid_tree: never this process, and only the image that was expected.
TerminatePidTree ==
  /\ place = "start" /\ Quiet
  /\ \/ target = Self /\ Answer("refused")
     \/ target # Self /\ ~Live(target) /\ Answer("vanished")
     \/ /\ target # Self /\ Live(target) /\ proc[target].image # "ours"
        /\ Answer("refused")
     \/ /\ target # Self /\ Live(target) /\ proc[target].image = "ours"
        /\ place' = "identify" /\ UNCHANGED <<target, root, owned, todo, cur, passes, verdict>>

ReadIdentity ==
  /\ place = "identify"
  /\ \/ ~Live(target) /\ Answer("vanished") /\ Quiet
     \/ /\ Live(target)
        /\ place' = "guard" /\ root' = proc[target].born
        /\ family' = Births({target} \cup Descendants(target))
        /\ UNCHANGED <<target, owned, todo, cur, passes, verdict, proc, births, strayed, signalled>>

\* The first look at /proc.
Killable == Same(target, root) /\ ~AncestorOfSelf(target)

Guard ==
  /\ place = "guard" /\ Quiet
  /\ IF Killable
     THEN place' = "open" /\ UNCHANGED <<target, root, owned, todo, cur, passes, verdict>>
     ELSE Answer("refused")

\* _open_owned_process pins the pid, then asks whether it is still the same process.
OpenRoot ==
  /\ place = "open" /\ Quiet
  /\ IF Same(target, root)
     THEN /\ place' = "stop" /\ owned' = [p \in {target} |-> root]
          /\ UNCHANGED <<target, root, todo, cur, passes, verdict>>
     ELSE Answer("vanished")

StopRoot ==
  /\ place = "stop"
  /\ \/ /\ SignalOwned(target, root, "stopped")
        /\ place' = "look" /\ UNCHANGED <<target, root, owned, todo, cur, passes, verdict>>
     \/ /\ ~Reaches(target, root) /\ Quiet
        /\ Answer(IF Same(target, root) THEN "refused" ELSE "vanished")

\* Mutant: one look is taken to be enough.
FirstLook == IF passes = 0 THEN Descendants(target) \ DOMAIN owned ELSE {}

\* Descendants by pid that no handle is held for.
Unheld == Descendants(target) \ DOMAIN owned

Look ==
  /\ place = "look"
  /\ \/ passes = MaxPasses /\ Refuse
     \/ passes < MaxPasses /\ ~Same(target, root) /\ Refuse
     \/ /\ passes < MaxPasses /\ Same(target, root) /\ Quiet
        /\ passes' = passes + 1
        /\ IF Unheld = {}
           THEN place' = "kill" /\ todo' = owned
           ELSE place' = "hold" /\ todo' = Pin(Unheld)
        /\ UNCHANGED <<target, root, owned, cur, verdict>>

Without(p) == [q \in DOMAIN todo \ {p} |-> todo[q]]

Hold ==
  /\ place = "hold"
  /\ \/ /\ DOMAIN todo = {} /\ place' = "look" /\ Quiet
        /\ UNCHANGED <<target, root, owned, todo, cur, passes, verdict>>
     \/ Self \in DOMAIN todo /\ Refuse
     \/ \E p \in DOMAIN todo \ {Self} :
          /\ todo' = Without(p) /\ Quiet
          /\ IF Same(p, todo[p])
             THEN /\ owned' = [q \in DOMAIN owned \cup {p} |->
                                 IF q = p THEN todo[p] ELSE owned[q]]
                  /\ cur' = p /\ place' = "freeze"
             ELSE UNCHANGED <<owned, cur, place>>
          /\ UNCHANGED <<target, root, passes, verdict>>

Freeze ==
  /\ place = "freeze"
  /\ \/ /\ SignalOwned(cur, owned[cur], "stopped")
        /\ place' = "hold" /\ cur' = NoOne /\ UNCHANGED <<target, root, owned, todo, passes, verdict>>
     \/ /\ ~Reaches(cur, owned[cur]) /\ ~Same(cur, owned[cur]) /\ Quiet
        /\ place' = "hold" /\ cur' = NoOne /\ UNCHANGED <<target, root, owned, todo, passes, verdict>>
     \/ ~Reaches(cur, owned[cur]) /\ Same(cur, owned[cur]) /\ Refuse

\* Descendants first; the root stays frozen until they are gone.
KillOwned ==
  /\ place = "kill"
  /\ \/ /\ DOMAIN todo = {} /\ place' = "await" /\ Quiet
        /\ UNCHANGED <<target, root, owned, todo, cur, passes, verdict>>
     \/ \E p \in DOMAIN todo :
          /\ p = target => DOMAIN todo = {target}
          /\ \/ /\ SignalOwned(p, todo[p], "dying") /\ todo' = Without(p)
                /\ UNCHANGED <<place, target, root, owned, cur, passes, verdict>>
             \/ /\ ~Reaches(p, todo[p]) /\ ~Same(p, todo[p]) /\ Quiet /\ todo' = Without(p)
                /\ UNCHANGED <<place, target, root, owned, cur, passes, verdict>>
             \/ ~Reaches(p, todo[p]) /\ Same(p, todo[p]) /\ Refuse

Gone == \A p \in DOMAIN owned : ~Same(p, owned[p])

AwaitDeath ==
  /\ place = "await"
  /\ \/ Gone /\ Answer("killed") /\ Quiet
     \/ ~Gone /\ Refuse   \* two seconds are over

Killer ==
  \/ TerminatePidTree \/ ReadIdentity \/ Guard \/ OpenRoot \/ StopRoot
  \/ Look \/ Hold \/ Freeze \/ KillOwned \/ AwaitDeath

Answered == place = "done" /\ UNCHANGED killVars

KillNext == (place # "done" /\ Others) \/ Killer \/ Answered

KillSpec == KillInit /\ [][KillNext]_killVars /\ WF_killVars(Killer)

----------------------------------------------------------------------------
(* Properties *)

KillTypeOK ==
  /\ proc \in [Pids -> Process]
  /\ births \in 0 .. MaxBirths
  /\ place \in {"start", "identify", "guard", "open", "stop", "look", "hold", "freeze",
             "kill", "await", "done"}
  /\ target \in Pids /\ root \in 0 .. MaxBirths /\ cur \in Pids \cup {NoOne}
  /\ \A f \in {owned, todo} : DOMAIN f \subseteq Pids /\ \A p \in DOMAIN f : f[p] \in 1 .. MaxBirths
  /\ passes \in 0 .. MaxPasses /\ verdict \in {"none", "refused", "vanished", "killed"}
  /\ \A S \in {family, strayed, signalled} : S \subseteq 1 .. MaxBirths

\* Only the process that was asked for and what descended from it ever gets a signal,
\* however pids are reused meanwhile (_signal_owned, _open_owned_process).
InnocentsSpared == signalled \subseteq family

\* Neither the killer nor a process it descends from is stopped, not even for a moment
\* (_is_ancestor_of_self, the getpid checks).
OwnTreeSpared ==
  \A p \in Pids : Live(p) /\ proc[p].born \in signalled => p # Self /\ ~AncestorOfSelf(p)

\* When the killing starts every descendant there is has been frozen, so none can start
\* another behind the killer's back (_terminate_posix_tree's passes).
FrozenBeforeKilled ==
  place \in {"kill", "await"} =>
    \A p \in Pids : Live(p) /\ proc[p].born \in family \ strayed => Frozen(p)

\* "killed" means that nothing of the tree is left, except what its own parent left behind
\* by ending before the walk saw it.
TreeGone ==
  verdict = "killed" => \A p \in Pids : Live(p) => proc[p].born \notin family \ strayed

\* A kill that is refused leaves nobody stopped (the finally block).
NothingLeftFrozen ==
  verdict \in {"refused", "vanished"} =>
    \A p \in Pids : proc[p].born \in signalled => proc[p].state # "stopped"

\* The kill comes to an end, however fast the tree forks.
Terminates == <>(place = "done")

\* A kill touches the tree it was asked for and nobody else, and one that is
\* refused leaves everybody as they were.
OnlyTheTree == KillTypeOK /\ InnocentsSpared /\ OwnTreeSpared /\ NothingLeftFrozen

\* A kill reported as done has killed the whole tree, frozen before any of it was hit.
WholeTreeDies == FrozenBeforeKilled /\ TreeGone
=============================================================================
