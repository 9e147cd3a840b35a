----------------------------- MODULE RunControl ------------------------------
(***************************************************************************)
(* The life of the runs of one harness: the requests that start, pause,    *)
(* stop and continue them, the supervisor processes that drive them, the   *)
(* reconciler that buries the dead, and the managed shutdown that parks    *)
(* the living.  They share nothing but rows of the runs table, and each    *)
(* method of RunStore is one transaction, so each action here is one       *)
(* transaction together with what its caller does before the next.         *)
(*                                                                         *)
(* What a supervisor does between two boundaries is CallWave's subject and *)
(* RoundSteps'; here it is "work".                                         *)
(***************************************************************************)
EXTENDS Integers, FiniteSets

CONSTANTS
  Runs,         \* the runs of the harness
  Slots,        \* requests the API may be serving at once
  Asked,        \* the requests people send: a subset of Kinds
  Patient,      \* TRUE: nobody sends a run a request while another is under way for it
  MaxProcs,     \* bound: processes ever started
  MaxRequests,  \* bound: requests ever sent
  MaxFaults,    \* bound: processes that die or fail, spawns that fail, requests cut short
  MaxDeletes    \* bound: runs deleted

Kinds == {"launch", "pause", "stop", "finish", "resume", "continue", "force_stop", "park"}

ASSUME RunControlAssumption ==
  /\ IsFiniteSet(Runs) /\ Asked \subseteq Kinds /\ Patient \in BOOLEAN
  /\ MaxProcs \in Nat /\ MaxRequests \in Nat /\ MaxFaults \in Nat /\ MaxDeletes \in Nat

VARIABLES
  \* the runs table
  lifecycle,    \* "none" before the row exists
  control,      \* control_requested
  pid,          \* supervisor_pid, 0 for none
  beat,         \* age of heartbeat_at: "fresh", "stale" past 60 s, "old" past 600 s
  deleted,      \* deleted_at is set
  \* the supervisor processes
  sup,
  \* the requests in progress, and the reconciler's
  req,
  swept,
  \* bounds
  asked, faults, deletes

row    == <<lifecycle, control, pid, beat, deleted>>
bounds == <<asked, faults, deletes>>
vars   == <<row, sup, req, swept, bounds>>

Lane      == {"queued", "running", "pausing", "stopping", "finishing"}
Live      == Lane \cup {"paused"}
Terminal  == {"completed", "stopped", "failed", "lost"}
Lifecycle == Live \cup Terminal \cup {"none"}
Endings   == {"completed", "stopped"}          \* CONTINUE_LIFECYCLES

Procs == 1 .. MaxProcs
Pids  == 0 .. MaxProcs
Ages  == {"fresh", "stale", "old"}

SupPc == {"unborn", "boot", "load", "clear", "wipe", "start", "work", "pausing", "unflag",
          "parking", "ending", "report", "closing", "closed", "failing", "leaving", "gone"}
ReqPc == {"idle", "flag", "sweep", "lane", "extend", "create", "spawn", "stamp", "kill",
          "end", "unflag", "grace", "park"}

Idle == [kind |-> "none", run |-> "none", pc |-> "idle", life |-> "none", pid |-> 0, beat |-> "fresh"]
Requests == [kind : Kinds \cup {"none"}, run : Runs \cup {"none"}, pc : ReqPc,
             life : Lifecycle, pid : Pids, beat : Ages]
Sups == [run : Runs \cup {"none"}, pc : SupPc, mem : Lifecycle, ending : Endings]

TypeOK ==
  /\ lifecycle \in [Runs -> Lifecycle]
  /\ control \in [Runs -> {"none", "pause", "resume", "stop", "finish", "force_stop"}]
  /\ pid \in [Runs -> Pids] /\ beat \in [Runs -> Ages] /\ deleted \in [Runs -> BOOLEAN]
  /\ sup \in [Procs -> Sups]
  /\ req \in [Slots -> Requests]
  /\ swept \in [run : Runs \cup {"none"}, pid : Pids]
  /\ asked \in 0 .. MaxRequests /\ faults \in 0 .. MaxFaults /\ deletes \in 0 .. MaxDeletes

Nobody == [run |-> "none", pid |-> 0]

-----------------------------------------------------------------------------
(* Mutant of LegalIn: resume is offered while the pause is still under way. *)
LegalInEarly ==
  [launch     |-> {"none"},
   pause      |-> {"running"},
   resume     |-> {"paused", "pausing"},
   continue   |-> Endings,
   stop       |-> {"running", "paused", "pausing"},
   finish     |-> {"running", "paused"},
   force_stop |-> Live,
   park       |-> Lane]

(* controls.LEGAL_ACTIONS; a launch makes the row, a park takes whatever      *)
(* holds a lane.                                                              *)
LegalIn ==
  [launch     |-> {"none"},
   pause      |-> {"running"},
   resume     |-> {"paused"},
   continue   |-> Endings,
   stop       |-> {"running", "paused", "pausing"},
   finish     |-> {"running", "paused"},
   force_stop |-> Live,
   park       |-> Lane]

Alive(p) == p \in Procs /\ sup[p].pc \notin {"unborn", "gone"}

(* Processes of r that exist, whatever its row says. *)
Supervisors(r) == {p \in Procs : Alive(p) /\ sup[p].run = r}

(* lane_holder, like every query of the API, does not see deleted rows. *)
LaneLooksFree(r) == \A s \in Runs \ {r} : ~deleted[s] => lifecycle[s] \notin Lane

(* The partial unique index: one row of the harness in a lane lifecycle,
   deleted or not. *)
LaneFree(r) == \A s \in Runs \ {r} : lifecycle[s] \notin Lane

Put(r, l) == lifecycle' = [lifecycle EXCEPT ![r] = l]
Flagged(r, action) == control' = [control EXCEPT ![r] = action]

(* RunStore.heartbeat: it does not touch a deleted row. *)
Heartbeat(r, p) ==
  IF deleted[r]
  THEN UNCHANGED <<pid, beat>>
  ELSE /\ pid' = [pid EXCEPT ![r] = p]
       /\ beat' = [beat EXCEPT ![r] = "fresh"]

At(p, pc) == sup[p].pc = pc
Goto(p, pc) == sup' = [sup EXCEPT ![p].pc = pc]

(* Orchestrator._set_lifecycle: nothing to do if the process believes the run
   is there already; else a write the lane index may refuse, which is a failure
   of the run like any other. *)
SetLifecycle(p, l, next) ==
  LET r == sup[p].run
  IN \/ /\ sup[p].mem = l
        /\ Goto(p, next)
        /\ UNCHANGED lifecycle
     \/ /\ sup[p].mem # l /\ (l \in Lane => LaneFree(r))
        /\ Put(r, l)
        /\ sup' = [sup EXCEPT ![p].pc = next, ![p].mem = l]
     \/ /\ sup[p].mem # l /\ l \in Lane /\ ~LaneFree(r)
        /\ Goto(p, "failing")
        /\ UNCHANGED lifecycle

Free(q) == req' = [req EXCEPT ![q] = Idle]
Step(q, pc) == req' = [req EXCEPT ![q].pc = pc]

(* Something is under way for r: a request, a process that does not drive yet
   or has not exited yet, or the reconciler's judgement of it. *)
Opening == {"boot", "load", "clear", "wipe", "start"}
Busy(r) ==
  \/ \E q \in Slots : req[q].run = r
  \/ \E p \in Supervisors(r) : sup[p].pc \in Opening \cup {"failing", "leaving"}
  \/ swept.run = r

-----------------------------------------------------------------------------
Init ==
  /\ lifecycle = [r \in Runs |-> "none"]
  /\ control = [r \in Runs |-> "none"]
  /\ pid = [r \in Runs |-> 0]
  /\ beat = [r \in Runs |-> "fresh"]
  /\ deleted = [r \in Runs |-> FALSE]
  /\ sup = [p \in Procs |-> [run |-> "none", pc |-> "unborn", mem |-> "none", ending |-> "completed"]]
  /\ req = [q \in Slots |-> Idle]
  /\ swept = Nobody
  /\ asked = 0 /\ faults = 0 /\ deletes = 0

-----------------------------------------------------------------------------
(* Requests. *)

(* apply_control, launch_run, quiesce_supervisors: the row is read once, and
   what follows acts on that reading. *)
Ask(q, kind, r) ==
  /\ req[q] = Idle /\ asked < MaxRequests
  /\ kind \in Asked
  /\ ~deleted[r] /\ lifecycle[r] \in LegalIn[kind]
  /\ kind = "launch" => \A o \in Slots : req[o].run # r     \* a launch is a new run
  /\ Patient => ~Busy(r)
  /\ asked' = asked + 1
  /\ req' = [req EXCEPT ![q] =
       [kind |-> kind, run |-> r, life |-> lifecycle[r], pid |-> pid[r], beat |-> beat[r],
        pc |-> CASE kind \in {"launch", "resume", "continue"} -> "sweep"
                 [] kind = "park" /\ control[r] \in {"stop", "finish"} -> "grace"
                 [] OTHER -> "flag"]]
  /\ UNCHANGED <<row, sup, swept, faults, deletes>>

(* set_control. *)
Flag(q) ==
  LET kind == req[q].kind  r == req[q].run
  IN /\ req[q].pc = "flag"
     /\ Flagged(r, IF kind = "park" THEN "pause" ELSE kind)
     /\ CASE kind = "resume" -> Step(q, "spawn")
          [] kind = "force_stop" -> Step(q, "kill")
          [] kind = "park" -> Step(q, "grace")
          [] OTHER -> Free(q)
     /\ UNCHANGED <<lifecycle, pid, beat, deleted, sup, swept, bounds>>

(* reconcile_runs, called before a lane is claimed. *)
Orphans == {r \in Runs : /\ ~deleted[r] /\ lifecycle[r] \in Lane
                         /\ beat[r] # "fresh" /\ ~Alive(pid[r])}

Sweep(q) ==
  /\ req[q].pc = "sweep"
  /\ lifecycle' = [r \in Runs |-> IF r \in Orphans THEN "lost" ELSE lifecycle[r]]
  /\ Step(q, IF req[q].kind = "launch" THEN "create" ELSE "lane")
  /\ UNCHANGED <<control, pid, beat, deleted, sup, swept, bounds>>

(* _assert_lane_is_free. *)
LaneCheck(q) ==
  /\ req[q].pc = "lane"
  /\ IF LaneLooksFree(req[q].run)
     THEN Step(q, IF req[q].kind = "resume" THEN "flag" ELSE "extend")
     ELSE Free(q)
  /\ UNCHANGED <<row, sup, swept, bounds>>

(* RunStore.create_run, refused by the index while the lane is held. *)
Create(q) ==
  LET r == req[q].run
  IN /\ req[q].pc = "create"
     /\ \/ /\ LaneFree(r)
           /\ Put(r, "queued")
           /\ Step(q, "spawn")
        \/ /\ ~LaneFree(r)
           /\ Free(q)
           /\ UNCHANGED lifecycle
     /\ UNCHANGED <<control, pid, beat, deleted, sup, swept, bounds>>

(* RunStore.extend_run: refused by the lifecycle it finds under the lock, or by
   the index.  The caller emits RUN_EXTENDED before it spawns. *)
Extend(q) ==
  LET r == req[q].run
      granted == lifecycle[r] \in Endings /\ LaneFree(r)
  IN /\ req[q].pc = "extend"
     /\ \/ /\ granted
           /\ Put(r, "queued") /\ Flagged(r, "none")
           /\ Step(q, "spawn")
        \/ /\ ~granted
           /\ Free(q)
           /\ UNCHANGED <<lifecycle, control>>
     /\ UNCHANGED <<pid, beat, deleted, sup, swept, bounds>>

(* spawn_supervisor. *)
Spawn(q) ==
  /\ req[q].pc = "spawn"
  /\ \E p \in Procs :
       /\ At(p, "unborn") /\ \A o \in Procs : At(o, "unborn") => p <= o
       /\ sup' = [sup EXCEPT ![p] = [@ EXCEPT !.run = req[q].run, !.pc = "boot"]]
       /\ req' = [req EXCEPT ![q].pc = "stamp", ![q].pid = p]
  /\ UNCHANGED <<row, swept, bounds>>

(* A spawn that fails: a launch fails the run, a continue puts it back where it
   found it, a resume leaves it paused. *)
SpawnFails(q) ==
  LET r == req[q].run
  IN /\ req[q].pc = "spawn" /\ faults < MaxFaults
     /\ faults' = faults + 1
     /\ CASE req[q].kind = "launch" -> Put(r, "failed")
          [] req[q].kind = "continue" -> Put(r, req[q].life)
          [] OTHER -> UNCHANGED lifecycle
     /\ Free(q)
     /\ UNCHANGED <<control, pid, beat, deleted, sup, swept, asked, deletes>>

(* The parent stamps the child's pid and a fresh heartbeat. *)
Stamp(q) ==
  /\ req[q].pc = "stamp"
  /\ Heartbeat(req[q].run, req[q].pid)
  /\ Free(q)
  /\ UNCHANGED <<lifecycle, control, deleted, sup, swept, bounds>>

(* _force_stop: kill what the row read at the start vouches for. *)
Kill(q) ==
  LET p == req[q].pid
  IN /\ req[q].pc = "kill"
     /\ \/ /\ Alive(p) /\ req[q].beat = "old"     \* refused
           /\ Free(q)
           /\ UNCHANGED sup
        \/ /\ Alive(p) /\ req[q].beat # "old"
           /\ Goto(p, "gone")
           /\ Step(q, "end")
        \/ /\ ~Alive(p)                           \* no pid, or vanished
           /\ Step(q, "end")
           /\ UNCHANGED sup
     /\ UNCHANGED <<row, swept, bounds>>

(* The ending the process will never write. *)
EndRun(q) ==
  /\ req[q].pc = "end"
  /\ Put(req[q].run, "stopped")
  /\ Step(q, "unflag")
  /\ UNCHANGED <<control, pid, beat, deleted, sup, swept, bounds>>

Unflag(q) ==
  /\ req[q].pc = "unflag"
  /\ Flagged(req[q].run, "none")
  /\ Free(q)
  /\ UNCHANGED <<lifecycle, pid, beat, deleted, sup, swept, bounds>>

(* Mutant of Grace: a process that cannot be vouched for is left, and its run
   parked all the same. *)
GraceParksRefused(q) ==
  LET r == req[q].run
  IN /\ req[q].pc = "grace"
     /\ \/ /\ lifecycle[r] \notin Lane
           /\ Free(q)
           /\ UNCHANGED sup
        \/ /\ lifecycle[r] \in Lane
           /\ IF Alive(pid[r]) /\ beat[r] # "old" THEN Goto(pid[r], "gone") ELSE UNCHANGED sup
           /\ req' = [req EXCEPT ![q].pc = "park", ![q].pid = pid[r]]
     /\ UNCHANGED <<row, swept, bounds>>

(* quiesce_supervisors: the grace period is over, or nothing works any more. *)
Grace(q) ==
  LET r == req[q].run
  IN /\ req[q].pc = "grace"
     /\ \/ /\ lifecycle[r] \notin Lane \/ (Alive(pid[r]) /\ beat[r] = "old")
           /\ Free(q)
           /\ UNCHANGED sup
        \/ /\ lifecycle[r] \in Lane /\ Alive(pid[r]) /\ beat[r] # "old"
           /\ Goto(pid[r], "gone")
           /\ req' = [req EXCEPT ![q].pc = "park", ![q].pid = pid[r]]
        \/ /\ lifecycle[r] \in Lane /\ ~Alive(pid[r])
           /\ req' = [req EXCEPT ![q].pc = "park", ![q].pid = pid[r]]
           /\ UNCHANGED sup
     /\ UNCHANGED <<row, swept, bounds>>

(* park_for_shutdown. *)
Park(q) ==
  LET r == req[q].run
      granted == lifecycle[r] \in Lane /\ pid[r] = req[q].pid
  IN /\ req[q].pc = "park"
     /\ \/ /\ granted
           /\ Put(r, "paused") /\ Flagged(r, "none")
           /\ pid' = [pid EXCEPT ![r] = 0]
           /\ beat' = [beat EXCEPT ![r] = "old"]
        \/ /\ ~granted
           /\ UNCHANGED <<lifecycle, control, pid, beat>>
     /\ Free(q)
     /\ UNCHANGED <<deleted, sup, swept, bounds>>

(* The API process dies in the middle of a request: nobody finishes it. *)
Abandon(q) ==
  /\ req[q] # Idle /\ faults < MaxFaults
  /\ faults' = faults + 1
  /\ Free(q)
  /\ UNCHANGED <<row, sup, swept, asked, deletes>>

(* delete_run asks nothing about the lifecycle. *)
Delete(r) ==
  /\ lifecycle[r] # "none" /\ ~deleted[r] /\ deletes < MaxDeletes
  /\ deletes' = deletes + 1
  /\ deleted' = [deleted EXCEPT ![r] = TRUE]
  /\ UNCHANGED <<lifecycle, control, pid, beat, sup, req, swept, asked, faults>>

-----------------------------------------------------------------------------
(* Supervisors. *)

(* supervise: a deleted run is not driven. *)
Boot(p) ==
  /\ At(p, "boot")
  /\ \/ /\ deleted[sup[p].run]
        /\ Goto(p, "gone")
     \/ /\ ~deleted[sup[p].run]
        /\ Goto(p, "load")
  /\ Heartbeat(sup[p].run, p)
  /\ UNCHANGED <<lifecycle, control, deleted, req, swept, bounds>>

(* Orchestrator.run: a finished run is not driven either. *)
Load(p) ==
  LET l == lifecycle[sup[p].run]
  IN /\ At(p, "load")
     /\ sup' = [sup EXCEPT ![p].mem = l, ![p].pc = IF l \in Terminal THEN "gone" ELSE "clear"]
     /\ UNCHANGED <<row, req, swept, bounds>>

(* _clear_stale_control reads in one transaction and wipes in another. *)
ClearStaleControl(p) ==
  /\ At(p, "clear")
  /\ Goto(p, IF control[sup[p].run] \in {"resume", "pause"} THEN "wipe" ELSE "start")
  /\ UNCHANGED <<row, req, swept, bounds>>

Wipe(p) ==
  /\ At(p, "wipe")
  /\ Flagged(sup[p].run, "none")
  /\ Goto(p, "start")
  /\ UNCHANGED <<lifecycle, pid, beat, deleted, req, swept, bounds>>

Start(p) ==
  /\ At(p, "start")
  /\ SetLifecycle(p, "running", "work")
  /\ UNCHANGED <<control, pid, beat, deleted, req, swept, bounds>>

(* Mutant of Boundary: only a pause and a force_stop are read mid-round. *)
BoundaryDeafToStop(p) ==
  LET r == sup[p].run
  IN /\ At(p, "work")
     /\ \/ /\ deleted[r]
           /\ Goto(p, "gone")
           /\ UNCHANGED beat
        \/ /\ ~deleted[r]
           /\ beat' = [beat EXCEPT ![r] = "fresh"]
           /\ \/ /\ control[r] = "pause"
                 /\ Goto(p, "pausing")
              \/ /\ control[r] = "force_stop"
                 /\ sup' = [sup EXCEPT ![p].pc = "ending", ![p].ending = "stopped"]
              \/ /\ control[r] \notin {"pause", "force_stop"}
                 /\ UNCHANGED sup
     /\ UNCHANGED <<lifecycle, control, pid, deleted, req, swept, bounds>>

(* _boundary: the heartbeat, then the flag.  A finish request changes nothing
   until the round is over. *)
Boundary(p) ==
  LET r == sup[p].run
  IN /\ At(p, "work")
     /\ \/ /\ deleted[r]
           /\ Goto(p, "gone")
           /\ UNCHANGED beat
        \/ /\ ~deleted[r]
           /\ beat' = [beat EXCEPT ![r] = "fresh"]
           /\ \/ /\ control[r] = "pause"
                 /\ Goto(p, "pausing")
              \/ /\ control[r] \in {"stop", "force_stop"}
                 /\ sup' = [sup EXCEPT ![p].pc = "ending", ![p].ending = "stopped"]
              \/ /\ control[r] \notin {"pause", "stop", "force_stop"}
                 /\ UNCHANGED sup
     /\ UNCHANGED <<lifecycle, control, pid, deleted, req, swept, bounds>>

(* The rounds are done, or a ceiling or a finish request ends them. *)
RoundsDone(p) ==
  /\ At(p, "work")
  /\ sup' = [sup EXCEPT ![p].pc = "ending", ![p].ending = "completed"]
  /\ UNCHANGED <<row, req, swept, bounds>>

(* Mutant of Pausing: the run is called paused before the process is done. *)
PausingAtOnce(p) ==
  /\ At(p, "pausing")
  /\ SetLifecycle(p, "paused", "unflag")
  /\ UNCHANGED <<control, pid, beat, deleted, req, swept, bounds>>

(* _pause. *)
Pausing(p) ==
  /\ At(p, "pausing")
  /\ SetLifecycle(p, "pausing", "unflag")
  /\ UNCHANGED <<control, pid, beat, deleted, req, swept, bounds>>

DropFlag(p) ==
  /\ At(p, "unflag") \/ At(p, "closing")
  /\ Flagged(sup[p].run, "none")
  /\ Goto(p, IF At(p, "unflag") THEN "parking" ELSE "closed")
  /\ UNCHANGED <<lifecycle, pid, beat, deleted, req, swept, bounds>>

Parking(p) ==
  /\ At(p, "parking")
  /\ SetLifecycle(p, "paused", "leaving")
  /\ UNCHANGED <<control, pid, beat, deleted, req, swept, bounds>>

(* _finish: announce the ending, write the report, drop the flag, end. *)
Ending(p) ==
  /\ At(p, "ending")
  /\ SetLifecycle(p, IF sup[p].ending = "stopped" THEN "stopping" ELSE "finishing", "report")
  /\ UNCHANGED <<control, pid, beat, deleted, req, swept, bounds>>

Report(p) ==
  /\ At(p, "report")
  /\ Goto(p, "closing")
  /\ UNCHANGED <<row, req, swept, bounds>>

Close(p) ==
  /\ At(p, "closed")
  /\ SetLifecycle(p, sup[p].ending, "leaving")
  /\ UNCHANGED <<control, pid, beat, deleted, req, swept, bounds>>

(* The last events are emitted, and the process exits. *)
Leave(p) ==
  /\ At(p, "leaving")
  /\ Goto(p, "gone")
  /\ UNCHANGED <<row, req, swept, bounds>>

(* The heartbeat task: it stamps its own pid, and halts the process when the
   row is gone. *)
Beat(p) ==
  LET r == sup[p].run
  IN /\ Alive(p) /\ ~At(p, "boot")
     /\ pid[r] # p \/ beat[r] # "fresh" \/ deleted[r]
     /\ Heartbeat(r, p)
     /\ IF deleted[r] THEN Goto(p, "gone") ELSE UNCHANGED sup
     /\ UNCHANGED <<lifecycle, control, deleted, req, swept, bounds>>

Dies(p) ==
  /\ Alive(p) /\ faults < MaxFaults
  /\ faults' = faults + 1
  /\ Goto(p, "gone")
  /\ UNCHANGED <<row, req, swept, asked, deletes>>

(* An exception anywhere, the last emits included: _fail, or record_failure
   before the engine is up. *)
Fails(p) ==
  /\ Alive(p) /\ ~At(p, "failing") /\ sup[p].mem # "failed" /\ faults < MaxFaults
  /\ faults' = faults + 1
  /\ Goto(p, "failing")
  /\ UNCHANGED <<row, req, swept, asked, deletes>>

Fail(p) ==
  /\ At(p, "failing")
  /\ Put(sup[p].run, "failed")
  /\ sup' = [sup EXCEPT ![p].pc = "leaving", ![p].mem = "failed"]
  /\ UNCHANGED <<control, pid, beat, deleted, req, swept, bounds>>

-----------------------------------------------------------------------------
(* The reconciler's periodic sweep reads the rows first and judges them after. *)
RecRead(r) ==
  /\ swept = Nobody
  /\ ~deleted[r] /\ lifecycle[r] \in Lane /\ beat[r] # "fresh"
  /\ swept' = [run |-> r, pid |-> pid[r]]
  /\ UNCHANGED <<row, sup, req, bounds>>

(* Mutant of RecMark: a run no process was ever recorded for is passed over. *)
RecMarkRecorded ==
  /\ swept # Nobody
  /\ IF swept.pid = 0 \/ Alive(swept.pid) THEN UNCHANGED lifecycle ELSE Put(swept.run, "lost")
  /\ swept' = Nobody
  /\ UNCHANGED <<control, pid, beat, deleted, sup, req, bounds>>

(* The judgement, and the mark of a run whose process is dead. *)
RecMark ==
  /\ swept # Nobody
  /\ IF Alive(swept.pid) THEN UNCHANGED lifecycle ELSE Put(swept.run, "lost")
  /\ swept' = Nobody
  /\ UNCHANGED <<control, pid, beat, deleted, sup, req, bounds>>

(* Time passes.  A launch is assumed to take less than a minute: its row is not
   stale before its process is stamped. *)
Age(r) ==
  /\ lifecycle[r] # "none" /\ beat[r] # "old"
  /\ \A q \in Slots : req[q].run = r /\ req[q].kind = "launch" => req[q].pc \notin {"spawn", "stamp"}
  /\ beat' = [beat EXCEPT ![r] = IF @ = "fresh" THEN "stale" ELSE "old"]
  /\ UNCHANGED <<lifecycle, control, pid, deleted, sup, req, swept, bounds>>

-----------------------------------------------------------------------------
Request(q) ==
  \/ Flag(q) \/ Sweep(q) \/ LaneCheck(q) \/ Create(q) \/ Extend(q) \/ Spawn(q) \/ Stamp(q)
  \/ Kill(q) \/ EndRun(q) \/ Unflag(q) \/ Grace(q) \/ Park(q)

Supervise(p) ==
  \/ Boot(p) \/ Load(p) \/ ClearStaleControl(p) \/ Wipe(p) \/ Start(p)
  \/ Pausing(p) \/ DropFlag(p) \/ Parking(p)
  \/ Ending(p) \/ Report(p) \/ Close(p) \/ Leave(p) \/ Fail(p)

Next ==
  \/ \E q \in Slots, kind \in Kinds, r \in Runs : Ask(q, kind, r)
  \/ \E q \in Slots : Request(q) \/ SpawnFails(q) \/ Abandon(q)
  \/ \E p \in Procs : Supervise(p) \/ Boundary(p) \/ RoundsDone(p) \/ Beat(p) \/ Dies(p) \/ Fails(p)
  \/ \E r \in Runs : Delete(r) \/ RecRead(r) \/ Age(r)
  \/ RecMark

Spec == Init /\ [][Next]_vars

(* The API serves what it accepted, a process takes its next step and beats,
   time passes, and every sweep visits every row.  Rounds need not ever be
   done. *)
Fairness ==
  /\ \A q \in Slots : WF_vars(Request(q))
  /\ \A p \in Procs : WF_vars(Supervise(p)) /\ WF_vars(Boundary(p)) /\ WF_vars(Beat(p))
  /\ \A r \in Runs : WF_vars(Age(r)) /\ SF_vars(RecRead(r))
  /\ WF_vars(RecMark)

FairSpec == Spec /\ Fairness

-----------------------------------------------------------------------------
(* At most one run holds the lane: the tables that claim it check it in one
   transaction and write it in another, and the index decides. *)
LaneExclusive == \A r, s \in Runs : lifecycle[r] \in Lane /\ lifecycle[s] \in Lane => r = s

(* store.py's single-writer discipline: two processes never drive one run,
   whatever its row says, through every resume and continue. *)
Drivers(r) == {p \in Supervisors(r) : sup[p].pc \notin Opening \cup {"failing", "leaving"}}
OneDriver == \A r \in Runs : \A p, o \in Drivers(r) : p = o

(* A paused run has no process (controls._resume): the only ones there are have
   nothing left to write, or are about to take it up again. *)
PausedIsIdle ==
  \A r \in Runs : lifecycle[r] = "paused" =>
    \A p \in Supervisors(r) : sup[p].pc \in Opening \cup {"leaving", "failing"}

(* A shutdown parks no run whose process it left alive. *)
Parks(r) == lifecycle[r] \in Lane /\ lifecycle'[r] = "paused" /\ UNCHANGED sup
ShutdownParksTheDead == [][\A r \in Runs : Parks(r) => Supervisors(r) = {}]_vars

(* park_for_shutdown's pid comparison: whatever happened since the shutdown
   looked, it does not park a run from under the process its row names. *)
ShutdownSparesReplacements == [][\A r \in Runs : Parks(r) => ~Alive(pid[r])]_vars

(* Who holds the lane, and who may take it away: whatever races for it, one run
   has it after every step, and it leaves no run under the process its row
   names. *)
LaneSafe == [][LaneExclusive' /\ \A r \in Runs : Parks(r) => ~Alive(pid[r])]_vars

(* A run that holds the lane with no process and no request to its name does
   not hold it for ever, unless it was deleted: nothing looks at those again. *)
Deserted(r) == lifecycle[r] \in Lane /\ ~deleted[r] /\ Supervisors(r) = {} /\ \A q \in Slots : req[q].run # r
DesertedRunsAreBuried == \A r \in Runs : Deserted(r) ~> ~Deserted(r)

(* A stop flagged while its process is at work ends the run, however long its
   rounds would go on: it is not enough that the run comes to rest paused.  A
   later pause or finish takes its place, a shutdown that cannot wait for it parks
   the run (park_for_shutdown alone takes the pid off a row), a deletion ends it. *)
StopStands(r) == control[r] = "stop" /\ \E p \in Supervisors(r) : At(p, "work")
ParkedByShutdown(r) == lifecycle[r] = "paused" /\ pid[r] = 0
StopEndsTheRun ==
  \A r \in Runs : StopStands(r) ~>
    (lifecycle[r] \in Terminal \/ control[r] \in {"pause", "finish"} \/ ParkedByShutdown(r) \/ deleted[r])

(* controls.py's docstring of the cooperative controls, "The supervisor reads it
   at every step boundary and acts on it there": a stop that was flagged, at work
   or while pausing, is dropped only by an ending or by a shutdown. *)
StopsAreActedOn ==
  [][\A r \in Runs : control[r] = "stop" /\ control'[r] = "none" =>
       lifecycle[r] \in {"stopping", "finishing"} \cup Terminal \/ Parks(r)]_vars
=============================================================================
