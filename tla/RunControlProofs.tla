--------------------------- MODULE RunControlProofs ---------------------------
(***************************************************************************)
(* Proofs about RunControl, for every set of runs, any number of requests  *)
(* at once, any mix of requests, and every bound.                          *)
(***************************************************************************)
EXTENDS RunControl, TLAPS

(* Pids are the processes and 0. *)
LEMMA PidsAreProcs == Procs \subseteq Pids /\ 0 \in Pids /\ Pids \ {0} \subseteq Procs
<1>. USE RunControlAssumption
<1>1. Procs \subseteq Pids
  BY DEF Procs, Pids
<1>2. 0 \in Pids /\ Pids \ {0} \subseteq Procs
  BY DEF Procs, Pids
<1>. QED
  BY <1>1, <1>2

THEOREM TypeInit == Init => TypeOK
<1>. SUFFICES ASSUME Init PROVE TypeOK
  OBVIOUS
<1>. USE DEF Init, Lifecycle, Live, Lane, Terminal, Ages
<1>1. /\ lifecycle \in [Runs -> Lifecycle]
      /\ control \in [Runs -> {"none", "pause", "resume", "stop", "finish", "force_stop"}]
      /\ pid \in [Runs -> Pids] /\ beat \in [Runs -> Ages] /\ deleted \in [Runs -> BOOLEAN]
  BY PidsAreProcs
<1>2. sup \in [Procs -> Sups]
  BY DEF Sups, SupPc, Endings
<1>3. req \in [Slots -> Requests]
  BY PidsAreProcs DEF Requests, Idle, ReqPc
<1>4. swept \in [run : Runs \cup {"none"}, pid : Pids]
  BY PidsAreProcs DEF Nobody
<1>5. asked \in 0 .. MaxRequests /\ faults \in 0 .. MaxFaults /\ deletes \in 0 .. MaxDeletes
  BY RunControlAssumption
<1>. QED
  BY <1>1, <1>2, <1>3, <1>4, <1>5 DEF TypeOK

(* TypeOK by the kind of variable. *)
RowOK ==
  /\ lifecycle \in [Runs -> Lifecycle]
  /\ control \in [Runs -> {"none", "pause", "resume", "stop", "finish", "force_stop"}]
  /\ pid \in [Runs -> Pids] /\ beat \in [Runs -> Ages] /\ deleted \in [Runs -> BOOLEAN]
SupOK    == sup \in [Procs -> Sups]
ReqOK    == req \in [Slots -> Requests]
SweptOK  == swept \in [run : Runs \cup {"none"}, pid : Pids]
BoundsOK == asked \in 0 .. MaxRequests /\ faults \in 0 .. MaxFaults /\ deletes \in 0 .. MaxDeletes

LEMMA TypeParts == TypeOK <=> RowOK /\ SupOK /\ ReqOK /\ SweptOK /\ BoundsOK
BY DEF TypeOK, RowOK, SupOK, ReqOK, SweptOK, BoundsOK

LEMMA GotoType ==
  ASSUME SupOK, NEW p, NEW pc \in SupPc, Goto(p, pc)
  PROVE  SupOK'
BY DEF SupOK, Goto, Sups

LEMMA StepType ==
  ASSUME ReqOK, NEW q, NEW pc \in ReqPc, Step(q, pc)
  PROVE  ReqOK'
BY DEF ReqOK, Step, Requests

LEMMA FreeType ==
  ASSUME ReqOK, NEW q, Free(q)
  PROVE  ReqOK'
<1>1. Idle \in Requests
  BY PidsAreProcs DEF Idle, Requests, ReqPc, Lifecycle, Ages
<1>. QED
  BY <1>1 DEF ReqOK, Free

LEMMA PidStepType ==
  ASSUME ReqOK, NEW q, NEW pc \in ReqPc, NEW i \in Pids,
         req' = [req EXCEPT ![q].pc = pc, ![q].pid = i]
  PROVE  ReqOK'
BY DEF ReqOK, Requests

LEMMA MemType ==
  ASSUME SupOK, NEW p, NEW pc \in SupPc, NEW l \in Lifecycle
  PROVE  /\ [sup EXCEPT ![p].mem = l, ![p].pc = pc] \in [Procs -> Sups]
         /\ [sup EXCEPT ![p].pc = pc, ![p].mem = l] \in [Procs -> Sups]
BY DEF SupOK, Sups

LEMMA EndingType ==
  ASSUME SupOK, NEW p, NEW pc \in SupPc, NEW e \in Endings
  PROVE  [sup EXCEPT ![p].pc = pc, ![p].ending = e] \in [Procs -> Sups]
BY DEF SupOK, Sups

LEMMA BornType ==
  ASSUME SupOK, NEW p, NEW pc \in SupPc, NEW r \in Runs \cup {"none"}
  PROVE  [sup EXCEPT ![p] = [@ EXCEPT !.run = r, !.pc = pc]] \in [Procs -> Sups]
BY DEF SupOK, Sups

(* What a request's kind says about its step and its reading. *)
Requested ==
  \A q \in Slots :
    /\ req[q].pc # "idle" => req[q].run \in Runs
    /\ req[q].pc = "flag" => req[q].kind \in {"pause", "stop", "finish", "resume", "force_stop", "park"}
    /\ req[q].kind = "continue" => req[q].life \in Endings

(* A process was started for a run. *)
Manned == \A p \in Procs : sup[p].pc # "unborn" => sup[p].run \in Runs

LEMMA PutType ==
  ASSUME NEW r, NEW l \in Lifecycle, lifecycle \in [Runs -> Lifecycle], Put(r, l)
  PROVE  lifecycle' \in [Runs -> Lifecycle]
BY DEF Put

LEMMA HeartbeatType ==
  ASSUME RowOK, NEW r, NEW p \in Pids, Heartbeat(r, p)
  PROVE  pid' \in [Runs -> Pids] /\ beat' \in [Runs -> Ages]
BY DEF RowOK, Heartbeat, Ages

LEMMA SetLifecycleType ==
  ASSUME RowOK, SupOK, NEW p \in Procs, NEW l \in Lifecycle, NEW next \in SupPc,
         SetLifecycle(p, l, next)
  PROVE  SupOK' /\ lifecycle' \in [Runs -> Lifecycle]
<1>1. "failing" \in SupPc
  BY DEF SupPc
<1>2. lifecycle' \in [Runs -> Lifecycle]
  BY PutType DEF RowOK, SetLifecycle
<1>3. SupOK'
  <2>1. CASE Goto(p, next)
    BY <2>1, GotoType
  <2>2. CASE Goto(p, "failing")
    BY <2>2, <1>1, GotoType
  <2>3. CASE sup' = [sup EXCEPT ![p].pc = next, ![p].mem = l]
    BY <2>3 DEF SupOK, Sups
  <2>. QED
    BY <2>1, <2>2, <2>3 DEF SetLifecycle
<1>. QED
  BY <1>2, <1>3

LEMMA TypeStep == TypeOK /\ Requested /\ Manned /\ [Next]_vars => TypeOK'
<1>. SUFFICES ASSUME RowOK, SupOK, ReqOK, SweptOK, BoundsOK, Requested, Manned, [Next]_vars
              PROVE  RowOK' /\ SupOK' /\ ReqOK' /\ SweptOK' /\ BoundsOK'
  BY DEF TypeOK, RowOK, SupOK, ReqOK, SweptOK, BoundsOK
<1>. USE RunControlAssumption, PidsAreProcs
<1>1. CASE UNCHANGED vars
  BY <1>1 DEF vars, row, bounds, RowOK, SupOK, ReqOK, SweptOK, BoundsOK
<1>2. ASSUME NEW q \in Slots, NEW kind \in Kinds, NEW r \in Runs, Ask(q, kind, r) PROVE RowOK' /\ SupOK' /\ ReqOK' /\ SweptOK' /\ BoundsOK'
  <2>1. RowOK'
    BY <1>2 DEF Ask, RowOK, row
  <2>2. SupOK'
    BY <1>2 DEF Ask, SupOK
  <2>3. ReqOK'
    BY <1>2 DEF Ask, ReqOK, Requests, RowOK, Kinds, ReqPc
  <2>4. SweptOK' /\ BoundsOK'
    BY <1>2 DEF Ask, SweptOK, BoundsOK, bounds
  <2>. QED
    BY <2>1, <2>2, <2>3, <2>4
<1>3. ASSUME NEW q \in Slots, Flag(q) PROVE RowOK' /\ SupOK' /\ ReqOK' /\ SweptOK' /\ BoundsOK'
  <2>1. RowOK'
    BY <1>3 DEF Flag, RowOK, Flagged, Requested
  <2>2. SupOK'
    BY <1>3 DEF Flag, SupOK
  <2>3. ReqOK'
    BY <1>3, StepType, FreeType DEF Flag, ReqPc
  <2>4. SweptOK' /\ BoundsOK'
    BY <1>3 DEF Flag, SweptOK, BoundsOK, bounds
  <2>. QED
    BY <2>1, <2>2, <2>3, <2>4
<1>4. ASSUME NEW q \in Slots, Sweep(q) PROVE RowOK' /\ SupOK' /\ ReqOK' /\ SweptOK' /\ BoundsOK'
  <2>1. RowOK'
    BY <1>4 DEF Sweep, RowOK, Lifecycle, Live, Lane, Terminal, Endings
  <2>2. SupOK'
    BY <1>4 DEF Sweep, SupOK
  <2>3. ReqOK'
    BY <1>4, StepType DEF Sweep, ReqPc
  <2>4. SweptOK' /\ BoundsOK'
    BY <1>4 DEF Sweep, SweptOK, BoundsOK, bounds
  <2>. QED
    BY <2>1, <2>2, <2>3, <2>4
<1>5. ASSUME NEW q \in Slots, LaneCheck(q) PROVE RowOK' /\ SupOK' /\ ReqOK' /\ SweptOK' /\ BoundsOK'
  <2>1. RowOK'
    BY <1>5 DEF LaneCheck, RowOK, row
  <2>2. SupOK'
    BY <1>5 DEF LaneCheck, SupOK
  <2>3. ReqOK'
    BY <1>5, StepType, FreeType DEF LaneCheck, ReqPc
  <2>4. SweptOK' /\ BoundsOK'
    BY <1>5 DEF LaneCheck, SweptOK, BoundsOK, bounds
  <2>. QED
    BY <2>1, <2>2, <2>3, <2>4
<1>6. ASSUME NEW q \in Slots, Create(q) PROVE RowOK' /\ SupOK' /\ ReqOK' /\ SweptOK' /\ BoundsOK'
  <2>1. RowOK'
    BY <1>6, PutType DEF Create, RowOK, Lifecycle, Live, Lane, Terminal, Endings
  <2>2. SupOK'
    BY <1>6 DEF Create, SupOK
  <2>3. ReqOK'
    BY <1>6, StepType, FreeType DEF Create, ReqPc
  <2>4. SweptOK' /\ BoundsOK'
    BY <1>6 DEF Create, SweptOK, BoundsOK, bounds
  <2>. QED
    BY <2>1, <2>2, <2>3, <2>4
<1>7. ASSUME NEW q \in Slots, Extend(q) PROVE RowOK' /\ SupOK' /\ ReqOK' /\ SweptOK' /\ BoundsOK'
  <2>1. RowOK'
    BY <1>7, PutType DEF Extend, RowOK, Flagged, Lifecycle, Live, Lane, Terminal, Endings
  <2>2. SupOK'
    BY <1>7 DEF Extend, SupOK
  <2>3. ReqOK'
    BY <1>7, StepType, FreeType DEF Extend, ReqPc
  <2>4. SweptOK' /\ BoundsOK'
    BY <1>7 DEF Extend, SweptOK, BoundsOK, bounds
  <2>. QED
    BY <2>1, <2>2, <2>3, <2>4
<1>8. ASSUME NEW q \in Slots, Spawn(q) PROVE RowOK' /\ SupOK' /\ ReqOK' /\ SweptOK' /\ BoundsOK'
  <2>1. RowOK'
    BY <1>8 DEF Spawn, RowOK, row
  <2>2. SupOK'
    <3>1. req[q].run \in Runs \cup {"none"} /\ "boot" \in SupPc
      BY DEF ReqOK, Requests, SupPc
    <3>2. PICK p \in Procs : sup' = [sup EXCEPT ![p] = [@ EXCEPT !.run = req[q].run, !.pc = "boot"]]
      BY <1>8 DEF Spawn
    <3>. QED
      BY <3>1, <3>2, BornType DEF SupOK
  <2>3. ReqOK'
    BY <1>8, PidStepType DEF Spawn, ReqPc
  <2>4. SweptOK' /\ BoundsOK'
    BY <1>8 DEF Spawn, SweptOK, BoundsOK, bounds
  <2>. QED
    BY <2>1, <2>2, <2>3, <2>4
<1>9. ASSUME NEW q \in Slots, SpawnFails(q) PROVE RowOK' /\ SupOK' /\ ReqOK' /\ SweptOK' /\ BoundsOK'
  <2>1. RowOK'
    BY <1>9, PutType DEF SpawnFails, RowOK, ReqOK, Requests, Lifecycle, Live, Lane, Terminal,
       Endings
  <2>2. SupOK'
    BY <1>9 DEF SpawnFails, SupOK
  <2>3. ReqOK'
    BY <1>9, FreeType DEF SpawnFails
  <2>4. SweptOK' /\ BoundsOK'
    BY <1>9 DEF SpawnFails, SweptOK, BoundsOK, bounds
  <2>. QED
    BY <2>1, <2>2, <2>3, <2>4
<1>10. ASSUME NEW q \in Slots, Stamp(q) PROVE RowOK' /\ SupOK' /\ ReqOK' /\ SweptOK' /\ BoundsOK'
  <2>1. RowOK'
    BY <1>10, HeartbeatType DEF Stamp, RowOK, ReqOK, Requests
  <2>2. SupOK'
    BY <1>10 DEF Stamp, SupOK
  <2>3. ReqOK'
    BY <1>10, FreeType DEF Stamp
  <2>4. SweptOK' /\ BoundsOK'
    BY <1>10 DEF Stamp, SweptOK, BoundsOK, bounds
  <2>. QED
    BY <2>1, <2>2, <2>3, <2>4
<1>11. ASSUME NEW q \in Slots, Kill(q) PROVE RowOK' /\ SupOK' /\ ReqOK' /\ SweptOK' /\ BoundsOK'
  <2>1. RowOK'
    BY <1>11 DEF Kill, RowOK, row
  <2>2. SupOK'
    BY <1>11, GotoType DEF Kill, SupPc, SupOK
  <2>3. ReqOK'
    BY <1>11, StepType, FreeType DEF Kill, ReqPc
  <2>4. SweptOK' /\ BoundsOK'
    BY <1>11 DEF Kill, SweptOK, BoundsOK, bounds
  <2>. QED
    BY <2>1, <2>2, <2>3, <2>4
<1>12. ASSUME NEW q \in Slots, EndRun(q) PROVE RowOK' /\ SupOK' /\ ReqOK' /\ SweptOK' /\ BoundsOK'
  <2>1. RowOK'
    BY <1>12, PutType DEF EndRun, RowOK, Lifecycle, Live, Lane, Terminal, Endings
  <2>2. SupOK'
    BY <1>12 DEF EndRun, SupOK
  <2>3. ReqOK'
    BY <1>12, StepType DEF EndRun, ReqPc
  <2>4. SweptOK' /\ BoundsOK'
    BY <1>12 DEF EndRun, SweptOK, BoundsOK, bounds
  <2>. QED
    BY <2>1, <2>2, <2>3, <2>4
<1>13. ASSUME NEW q \in Slots, Unflag(q) PROVE RowOK' /\ SupOK' /\ ReqOK' /\ SweptOK' /\ BoundsOK'
  <2>1. RowOK'
    BY <1>13 DEF Unflag, RowOK, Flagged
  <2>2. SupOK'
    BY <1>13 DEF Unflag, SupOK
  <2>3. ReqOK'
    BY <1>13, FreeType DEF Unflag
  <2>4. SweptOK' /\ BoundsOK'
    BY <1>13 DEF Unflag, SweptOK, BoundsOK, bounds
  <2>. QED
    BY <2>1, <2>2, <2>3, <2>4
<1>14. ASSUME NEW q \in Slots, Grace(q) PROVE RowOK' /\ SupOK' /\ ReqOK' /\ SweptOK' /\ BoundsOK'
  <2>1. RowOK'
    BY <1>14 DEF Grace, RowOK, row
  <2>2. SupOK'
    BY <1>14, GotoType DEF Grace, SupPc, SupOK
  <2>3. ReqOK'
    BY <1>14, PidStepType, FreeType DEF Grace, ReqPc, RowOK, Requested
  <2>4. SweptOK' /\ BoundsOK'
    BY <1>14 DEF Grace, SweptOK, BoundsOK, bounds
  <2>. QED
    BY <2>1, <2>2, <2>3, <2>4
<1>15. ASSUME NEW q \in Slots, Park(q) PROVE RowOK' /\ SupOK' /\ ReqOK' /\ SweptOK' /\ BoundsOK'
  <2>1. RowOK'
    BY <1>15, PutType DEF Park, RowOK, Flagged, Ages, Lifecycle, Live, Lane, Terminal, Endings
  <2>2. SupOK'
    BY <1>15 DEF Park, SupOK
  <2>3. ReqOK'
    BY <1>15, FreeType DEF Park
  <2>4. SweptOK' /\ BoundsOK'
    BY <1>15 DEF Park, SweptOK, BoundsOK, bounds
  <2>. QED
    BY <2>1, <2>2, <2>3, <2>4
<1>16. ASSUME NEW q \in Slots, Abandon(q) PROVE RowOK' /\ SupOK' /\ ReqOK' /\ SweptOK' /\ BoundsOK'
  <2>1. RowOK'
    BY <1>16 DEF Abandon, RowOK, row
  <2>2. SupOK'
    BY <1>16 DEF Abandon, SupOK
  <2>3. ReqOK'
    BY <1>16, FreeType DEF Abandon
  <2>4. SweptOK' /\ BoundsOK'
    BY <1>16 DEF Abandon, SweptOK, BoundsOK, bounds
  <2>. QED
    BY <2>1, <2>2, <2>3, <2>4
<1>17. ASSUME NEW p \in Procs, Boot(p) PROVE RowOK' /\ SupOK' /\ ReqOK' /\ SweptOK' /\ BoundsOK'
  <2>1. RowOK'
    BY <1>17, HeartbeatType DEF Boot, RowOK
  <2>2. SupOK'
    BY <1>17, GotoType DEF Boot, SupPc
  <2>3. ReqOK'
    BY <1>17 DEF Boot, ReqOK
  <2>4. SweptOK' /\ BoundsOK'
    BY <1>17 DEF Boot, SweptOK, BoundsOK, bounds
  <2>. QED
    BY <2>1, <2>2, <2>3, <2>4
<1>18. ASSUME NEW p \in Procs, Load(p) PROVE RowOK' /\ SupOK' /\ ReqOK' /\ SweptOK' /\ BoundsOK'
  <2>1. RowOK'
    BY <1>18 DEF Load, RowOK, row
  <2>2. SupOK'
    <3>1. lifecycle[sup[p].run] \in Lifecycle
      BY <1>18 DEF Load, At, Manned, RowOK
    <3>2. "gone" \in SupPc /\ "clear" \in SupPc
      BY DEF SupPc
    <3>. QED
      BY <1>18, <3>1, <3>2, MemType DEF Load, SupOK
  <2>3. ReqOK'
    BY <1>18 DEF Load, ReqOK
  <2>4. SweptOK' /\ BoundsOK'
    BY <1>18 DEF Load, SweptOK, BoundsOK, bounds
  <2>. QED
    BY <2>1, <2>2, <2>3, <2>4
<1>19. ASSUME NEW p \in Procs, ClearStaleControl(p) PROVE RowOK' /\ SupOK' /\ ReqOK' /\ SweptOK' /\ BoundsOK'
  <2>1. RowOK'
    BY <1>19 DEF ClearStaleControl, RowOK, row
  <2>2. SupOK'
    BY <1>19, GotoType DEF ClearStaleControl, SupPc
  <2>3. ReqOK'
    BY <1>19 DEF ClearStaleControl, ReqOK
  <2>4. SweptOK' /\ BoundsOK'
    BY <1>19 DEF ClearStaleControl, SweptOK, BoundsOK, bounds
  <2>. QED
    BY <2>1, <2>2, <2>3, <2>4
<1>20. ASSUME NEW p \in Procs, Wipe(p) PROVE RowOK' /\ SupOK' /\ ReqOK' /\ SweptOK' /\ BoundsOK'
  <2>1. RowOK'
    BY <1>20 DEF Wipe, RowOK, Flagged
  <2>2. SupOK'
    BY <1>20, GotoType DEF Wipe, SupPc
  <2>3. ReqOK'
    BY <1>20 DEF Wipe, ReqOK
  <2>4. SweptOK' /\ BoundsOK'
    BY <1>20 DEF Wipe, SweptOK, BoundsOK, bounds
  <2>. QED
    BY <2>1, <2>2, <2>3, <2>4
<1>21. ASSUME NEW p \in Procs, Start(p) PROVE RowOK' /\ SupOK' /\ ReqOK' /\ SweptOK' /\ BoundsOK'
  <2>1. SupOK' /\ lifecycle' \in [Runs -> Lifecycle]
    BY <1>21, SetLifecycleType DEF Start, SupPc, Lifecycle, Live, Lane, Terminal, Endings, SupOK,
       Sups
  <2>2. RowOK'
    BY <1>21, <2>1 DEF Start, RowOK
  <2>3. ReqOK'
    BY <1>21 DEF Start, ReqOK
  <2>4. SweptOK' /\ BoundsOK'
    BY <1>21 DEF Start, SweptOK, BoundsOK, bounds
  <2>. QED
    BY <2>1, <2>2, <2>3, <2>4
<1>22. ASSUME NEW p \in Procs, Pausing(p) PROVE RowOK' /\ SupOK' /\ ReqOK' /\ SweptOK' /\ BoundsOK'
  <2>1. SupOK' /\ lifecycle' \in [Runs -> Lifecycle]
    BY <1>22, SetLifecycleType DEF Pausing, SupPc, Lifecycle, Live, Lane, Terminal, Endings,
       SupOK, Sups
  <2>2. RowOK'
    BY <1>22, <2>1 DEF Pausing, RowOK
  <2>3. ReqOK'
    BY <1>22 DEF Pausing, ReqOK
  <2>4. SweptOK' /\ BoundsOK'
    BY <1>22 DEF Pausing, SweptOK, BoundsOK, bounds
  <2>. QED
    BY <2>1, <2>2, <2>3, <2>4
<1>23. ASSUME NEW p \in Procs, Parking(p) PROVE RowOK' /\ SupOK' /\ ReqOK' /\ SweptOK' /\ BoundsOK'
  <2>1. SupOK' /\ lifecycle' \in [Runs -> Lifecycle]
    BY <1>23, SetLifecycleType DEF Parking, SupPc, Lifecycle, Live, Lane, Terminal, Endings,
       SupOK, Sups
  <2>2. RowOK'
    BY <1>23, <2>1 DEF Parking, RowOK
  <2>3. ReqOK'
    BY <1>23 DEF Parking, ReqOK
  <2>4. SweptOK' /\ BoundsOK'
    BY <1>23 DEF Parking, SweptOK, BoundsOK, bounds
  <2>. QED
    BY <2>1, <2>2, <2>3, <2>4
<1>24. ASSUME NEW p \in Procs, Ending(p) PROVE RowOK' /\ SupOK' /\ ReqOK' /\ SweptOK' /\ BoundsOK'
  <2>1. SupOK' /\ lifecycle' \in [Runs -> Lifecycle]
    BY <1>24, SetLifecycleType DEF Ending, SupPc, Lifecycle, Live, Lane, Terminal, Endings, SupOK,
       Sups
  <2>2. RowOK'
    BY <1>24, <2>1 DEF Ending, RowOK
  <2>3. ReqOK'
    BY <1>24 DEF Ending, ReqOK
  <2>4. SweptOK' /\ BoundsOK'
    BY <1>24 DEF Ending, SweptOK, BoundsOK, bounds
  <2>. QED
    BY <2>1, <2>2, <2>3, <2>4
<1>25. ASSUME NEW p \in Procs, Close(p) PROVE RowOK' /\ SupOK' /\ ReqOK' /\ SweptOK' /\ BoundsOK'
  <2>1. SupOK' /\ lifecycle' \in [Runs -> Lifecycle]
    BY <1>25, SetLifecycleType DEF Close, SupPc, Lifecycle, Live, Lane, Terminal, Endings, SupOK,
       Sups
  <2>2. RowOK'
    BY <1>25, <2>1 DEF Close, RowOK
  <2>3. ReqOK'
    BY <1>25 DEF Close, ReqOK
  <2>4. SweptOK' /\ BoundsOK'
    BY <1>25 DEF Close, SweptOK, BoundsOK, bounds
  <2>. QED
    BY <2>1, <2>2, <2>3, <2>4
<1>26. ASSUME NEW p \in Procs, DropFlag(p) PROVE RowOK' /\ SupOK' /\ ReqOK' /\ SweptOK' /\ BoundsOK'
  <2>1. RowOK'
    BY <1>26 DEF DropFlag, RowOK, Flagged
  <2>2. SupOK'
    BY <1>26, GotoType DEF DropFlag, SupPc
  <2>3. ReqOK'
    BY <1>26 DEF DropFlag, ReqOK
  <2>4. SweptOK' /\ BoundsOK'
    BY <1>26 DEF DropFlag, SweptOK, BoundsOK, bounds
  <2>. QED
    BY <2>1, <2>2, <2>3, <2>4
<1>27. ASSUME NEW p \in Procs, Report(p) PROVE RowOK' /\ SupOK' /\ ReqOK' /\ SweptOK' /\ BoundsOK'
  <2>1. RowOK'
    BY <1>27 DEF Report, RowOK, row
  <2>2. SupOK'
    BY <1>27, GotoType DEF Report, SupPc
  <2>3. ReqOK'
    BY <1>27 DEF Report, ReqOK
  <2>4. SweptOK' /\ BoundsOK'
    BY <1>27 DEF Report, SweptOK, BoundsOK, bounds
  <2>. QED
    BY <2>1, <2>2, <2>3, <2>4
<1>28. ASSUME NEW p \in Procs, Leave(p) PROVE RowOK' /\ SupOK' /\ ReqOK' /\ SweptOK' /\ BoundsOK'
  <2>1. RowOK'
    BY <1>28 DEF Leave, RowOK, row
  <2>2. SupOK'
    BY <1>28, GotoType DEF Leave, SupPc
  <2>3. ReqOK'
    BY <1>28 DEF Leave, ReqOK
  <2>4. SweptOK' /\ BoundsOK'
    BY <1>28 DEF Leave, SweptOK, BoundsOK, bounds
  <2>. QED
    BY <2>1, <2>2, <2>3, <2>4
<1>29. ASSUME NEW p \in Procs, Fail(p) PROVE RowOK' /\ SupOK' /\ ReqOK' /\ SweptOK' /\ BoundsOK'
  <2>1. RowOK'
    BY <1>29, PutType DEF Fail, RowOK, Lifecycle, Live, Lane, Terminal, Endings
  <2>2. SupOK'
    BY <1>29, MemType DEF Fail, SupOK, SupPc, Lifecycle, Live, Lane, Terminal, Endings
  <2>3. ReqOK'
    BY <1>29 DEF Fail, ReqOK
  <2>4. SweptOK' /\ BoundsOK'
    BY <1>29 DEF Fail, SweptOK, BoundsOK, bounds
  <2>. QED
    BY <2>1, <2>2, <2>3, <2>4
<1>30. ASSUME NEW p \in Procs, Boundary(p) PROVE RowOK' /\ SupOK' /\ ReqOK' /\ SweptOK' /\ BoundsOK'
  <2>1. RowOK'
    BY <1>30 DEF Boundary, RowOK, Ages
  <2>2. SupOK'
    <3>1. "stopped" \in Endings /\ "ending" \in SupPc /\ "gone" \in SupPc /\ "pausing" \in SupPc
      BY DEF Endings, SupPc
    <3>. QED
      BY <1>30, <3>1, GotoType, EndingType DEF Boundary, SupOK
  <2>3. ReqOK'
    BY <1>30 DEF Boundary, ReqOK
  <2>4. SweptOK' /\ BoundsOK'
    BY <1>30 DEF Boundary, SweptOK, BoundsOK, bounds
  <2>. QED
    BY <2>1, <2>2, <2>3, <2>4
<1>31. ASSUME NEW p \in Procs, RoundsDone(p) PROVE RowOK' /\ SupOK' /\ ReqOK' /\ SweptOK' /\ BoundsOK'
  <2>1. RowOK'
    BY <1>31 DEF RoundsDone, RowOK, row
  <2>2. SupOK'
    BY <1>31, EndingType DEF RoundsDone, SupOK, SupPc, Endings
  <2>3. ReqOK'
    BY <1>31 DEF RoundsDone, ReqOK
  <2>4. SweptOK' /\ BoundsOK'
    BY <1>31 DEF RoundsDone, SweptOK, BoundsOK, bounds
  <2>. QED
    BY <2>1, <2>2, <2>3, <2>4
<1>32. ASSUME NEW p \in Procs, Beat(p) PROVE RowOK' /\ SupOK' /\ ReqOK' /\ SweptOK' /\ BoundsOK'
  <2>1. RowOK'
    BY <1>32, HeartbeatType DEF Beat, RowOK
  <2>2. SupOK'
    BY <1>32, GotoType DEF Beat, SupPc, SupOK
  <2>3. ReqOK'
    BY <1>32 DEF Beat, ReqOK
  <2>4. SweptOK' /\ BoundsOK'
    BY <1>32 DEF Beat, SweptOK, BoundsOK, bounds
  <2>. QED
    BY <2>1, <2>2, <2>3, <2>4
<1>33. ASSUME NEW p \in Procs, Dies(p) PROVE RowOK' /\ SupOK' /\ ReqOK' /\ SweptOK' /\ BoundsOK'
  <2>1. RowOK'
    BY <1>33 DEF Dies, RowOK, row
  <2>2. SupOK'
    BY <1>33, GotoType DEF Dies, SupPc
  <2>3. ReqOK'
    BY <1>33 DEF Dies, ReqOK
  <2>4. SweptOK' /\ BoundsOK'
    BY <1>33 DEF Dies, SweptOK, BoundsOK, bounds
  <2>. QED
    BY <2>1, <2>2, <2>3, <2>4
<1>34. ASSUME NEW p \in Procs, Fails(p) PROVE RowOK' /\ SupOK' /\ ReqOK' /\ SweptOK' /\ BoundsOK'
  <2>1. RowOK'
    BY <1>34 DEF Fails, RowOK, row
  <2>2. SupOK'
    BY <1>34, GotoType DEF Fails, SupPc
  <2>3. ReqOK'
    BY <1>34 DEF Fails, ReqOK
  <2>4. SweptOK' /\ BoundsOK'
    BY <1>34 DEF Fails, SweptOK, BoundsOK, bounds
  <2>. QED
    BY <2>1, <2>2, <2>3, <2>4
<1>35. ASSUME NEW r \in Runs, Delete(r) PROVE RowOK' /\ SupOK' /\ ReqOK' /\ SweptOK' /\ BoundsOK'
  <2>1. RowOK'
    BY <1>35 DEF Delete, RowOK
  <2>2. SupOK'
    BY <1>35 DEF Delete, SupOK
  <2>3. ReqOK'
    BY <1>35 DEF Delete, ReqOK
  <2>4. SweptOK' /\ BoundsOK'
    BY <1>35 DEF Delete, SweptOK, BoundsOK, bounds
  <2>. QED
    BY <2>1, <2>2, <2>3, <2>4
<1>36. ASSUME NEW r \in Runs, RecRead(r) PROVE RowOK' /\ SupOK' /\ ReqOK' /\ SweptOK' /\ BoundsOK'
  <2>1. RowOK'
    BY <1>36 DEF RecRead, RowOK, row
  <2>2. SupOK'
    BY <1>36 DEF RecRead, SupOK
  <2>3. ReqOK'
    BY <1>36 DEF RecRead, ReqOK
  <2>4. SweptOK' /\ BoundsOK'
    BY <1>36 DEF RecRead, SweptOK, BoundsOK, bounds, RowOK, Nobody
  <2>. QED
    BY <2>1, <2>2, <2>3, <2>4
<1>37. ASSUME NEW r \in Runs, Age(r) PROVE RowOK' /\ SupOK' /\ ReqOK' /\ SweptOK' /\ BoundsOK'
  <2>1. RowOK'
    BY <1>37 DEF Age, RowOK, Ages
  <2>2. SupOK'
    BY <1>37 DEF Age, SupOK
  <2>3. ReqOK'
    BY <1>37 DEF Age, ReqOK
  <2>4. SweptOK' /\ BoundsOK'
    BY <1>37 DEF Age, SweptOK, BoundsOK, bounds
  <2>. QED
    BY <2>1, <2>2, <2>3, <2>4
<1>38. CASE RecMark
  <2>1. RowOK'
    BY <1>38, PutType DEF RecMark, RowOK, Lifecycle, Live, Lane, Terminal, Endings
  <2>2. SupOK'
    BY <1>38 DEF RecMark, SupOK
  <2>3. ReqOK'
    BY <1>38 DEF RecMark, ReqOK
  <2>4. SweptOK' /\ BoundsOK'
    BY <1>38 DEF RecMark, SweptOK, BoundsOK, bounds, RowOK, Nobody
  <2>. QED
    BY <2>1, <2>2, <2>3, <2>4
<1>. QED
  BY <1>1, <1>2, <1>3, <1>4, <1>5, <1>6, <1>7, <1>8, <1>9, <1>10, <1>11, <1>12, <1>13, <1>14,
     <1>15, <1>16, <1>17, <1>18, <1>19, <1>20, <1>21, <1>22, <1>23, <1>24, <1>25, <1>26, <1>27,
     <1>28, <1>29, <1>30, <1>31, <1>32, <1>33, <1>34, <1>35, <1>36, <1>37, <1>38 DEF Next,
     Request, Supervise

(* What a process does to itself. *)
Supervised(p) ==
  Supervise(p) \/ Boundary(p) \/ RoundsDone(p) \/ Beat(p) \/ Dies(p) \/ Fails(p)

LEMMA SupervisedRequests ==
  ASSUME NEW p \in Procs, Supervised(p)
  PROVE  UNCHANGED <<req, swept>>
BY DEF Supervised, Supervise, Boot, Load, ClearStaleControl, Wipe, Start, Pausing, DropFlag,
   Parking, Ending, Report, Close, Leave, Fail, Boundary, RoundsDone, Beat, Dies, Fails

LEMMA StepRequested ==
  ASSUME ReqOK, Requested, NEW q \in Slots, req[q].pc # "idle", NEW pc \in ReqPc, Step(q, pc),
         pc = "flag" => req[q].kind = "resume"
  PROVE  Requested'
BY DEF ReqOK, Requests, Requested, Step

LEMMA FreeRequested ==
  ASSUME ReqOK, Requested, NEW q \in Slots, Free(q)
  PROVE  Requested'
BY DEF ReqOK, Requests, Requested, Free, Idle

LEMMA RequestedStep == TypeOK /\ Requested /\ [Next]_vars => Requested'
<1>. SUFFICES ASSUME ReqOK, Requested, [Next]_vars PROVE Requested'
  BY TypeParts
<1>1. ASSUME UNCHANGED req PROVE Requested'
  BY <1>1 DEF Requested
<1>2. ASSUME NEW q \in Slots, NEW kind \in Kinds, NEW r \in Runs, Ask(q, kind, r) PROVE Requested'
  BY <1>2 DEF Ask, Kinds, LegalIn, Requested, ReqOK
<1>3. ASSUME NEW q \in Slots, Request(q) \/ SpawnFails(q) \/ Abandon(q) PROVE Requested'
  <2>1. CASE Spawn(q)
    BY <2>1 DEF Spawn, Requested, ReqOK, Requests
  <2>2. CASE Grace(q)
    <3>1. CASE Free(q)
      BY <3>1, FreeRequested
    <3>2. CASE req' = [req EXCEPT ![q].pc = "park", ![q].pid = pid[req[q].run]]
      BY <2>2, <3>2 DEF Grace, Requested, ReqOK, Requests
    <3>. QED
      BY <2>2, <3>1, <3>2 DEF Grace
  <2>3. CASE Flag(q)
    BY <2>3, StepRequested, FreeRequested DEF Flag, ReqPc
  <2>4. CASE Sweep(q)
    BY <2>4, StepRequested, FreeRequested DEF Sweep, ReqPc
  <2>5. CASE LaneCheck(q)
    BY <2>5, StepRequested, FreeRequested DEF LaneCheck, ReqPc
  <2>6. CASE Create(q)
    BY <2>6, StepRequested, FreeRequested DEF Create, ReqPc
  <2>7. CASE Extend(q)
    BY <2>7, StepRequested, FreeRequested DEF Extend, ReqPc
  <2>8. CASE Stamp(q)
    BY <2>8, StepRequested, FreeRequested DEF Stamp, ReqPc
  <2>9. CASE Kill(q)
    BY <2>9, StepRequested, FreeRequested DEF Kill, ReqPc
  <2>10. CASE EndRun(q)
    BY <2>10, StepRequested, FreeRequested DEF EndRun, ReqPc
  <2>11. CASE Unflag(q)
    BY <2>11, StepRequested, FreeRequested DEF Unflag, ReqPc
  <2>12. CASE Park(q)
    BY <2>12, StepRequested, FreeRequested DEF Park, ReqPc
  <2>13. CASE SpawnFails(q)
    BY <2>13, StepRequested, FreeRequested DEF SpawnFails, ReqPc
  <2>14. CASE Abandon(q)
    BY <2>14, StepRequested, FreeRequested DEF Abandon, ReqPc
  <2>. QED
    BY <1>3, <2>1, <2>2, <2>3, <2>4, <2>5, <2>6, <2>7, <2>8, <2>9, <2>10, <2>11, <2>12, <2>13,
       <2>14 DEF Request
<1>4. ASSUME NEW p \in Procs, Supervised(p) PROVE Requested'
  BY <1>1, <1>4, SupervisedRequests
<1>5. ASSUME NEW r \in Runs, Delete(r) \/ RecRead(r) \/ Age(r) PROVE Requested'
  BY <1>1, <1>5 DEF Delete, RecRead, Age
<1>6. CASE RecMark
  BY <1>1, <1>6 DEF RecMark
<1>7. CASE UNCHANGED vars
  BY <1>1, <1>7 DEF vars
<1>. QED
  BY <1>2, <1>3, <1>4, <1>5, <1>6, <1>7 DEF Next, Supervised

(* Nobody is unborn twice or comes back, and nobody changes runs. *)
Lives ==
  \A p \in Procs : /\ sup'[p].run = sup[p].run
                   /\ sup[p].pc \in {"unborn", "gone"} => sup'[p].pc = sup[p].pc
                   /\ sup[p].pc # "unborn" => sup'[p].pc # "unborn"

LEMMA SameLives == UNCHANGED sup => Lives
BY DEF Lives

LEMMA GotoLives ==
  ASSUME SupOK, NEW p, Alive(p), NEW pc, pc # "unborn", Goto(p, pc)
  PROVE  Lives
BY DEF SupOK, Sups, Alive, Goto, Lives

LEMMA SetLifecycleLives ==
  ASSUME SupOK, NEW p \in Procs, Alive(p), NEW l, NEW next, next # "unborn", SetLifecycle(p, l, next)
  PROVE  Lives
<1>1. CASE Goto(p, next) \/ Goto(p, "failing")
  BY <1>1, GotoLives
<1>2. CASE sup' = [sup EXCEPT ![p].pc = next, ![p].mem = l]
  BY <1>2 DEF SupOK, Sups, Alive, Lives
<1>. QED
  BY <1>1, <1>2 DEF SetLifecycle

LEMMA SupervisedLives ==
  ASSUME SupOK, NEW p \in Procs, Supervised(p)
  PROVE  Lives
<1>1. CASE Boot(p)
  BY <1>1, GotoLives, SameLives DEF Boot, At, Alive
<1>2. CASE Load(p)
  BY <1>2 DEF Load, At, Alive, SupOK, Sups, Lives
<1>3. CASE ClearStaleControl(p)
  BY <1>3, GotoLives, SameLives DEF ClearStaleControl, At, Alive
<1>4. CASE Wipe(p)
  BY <1>4, GotoLives, SameLives DEF Wipe, At, Alive
<1>5. CASE Start(p)
  BY <1>5, SetLifecycleLives DEF Start, At, Alive
<1>6. CASE Pausing(p)
  BY <1>6, SetLifecycleLives DEF Pausing, At, Alive
<1>7. CASE DropFlag(p)
  BY <1>7, GotoLives, SameLives DEF DropFlag, At, Alive
<1>8. CASE Parking(p)
  BY <1>8, SetLifecycleLives DEF Parking, At, Alive
<1>9. CASE Ending(p)
  BY <1>9, SetLifecycleLives DEF Ending, At, Alive
<1>10. CASE Report(p)
  BY <1>10, GotoLives, SameLives DEF Report, At, Alive
<1>11. CASE Close(p)
  BY <1>11, SetLifecycleLives DEF Close, At, Alive
<1>12. CASE Leave(p)
  BY <1>12, GotoLives, SameLives DEF Leave, At, Alive
<1>13. CASE Fail(p)
  BY <1>13 DEF Fail, At, Alive, SupOK, Sups, Lives
<1>14. CASE Boundary(p)
  BY <1>14, GotoLives, SameLives DEF Boundary, At, Alive, SupOK, Sups, Lives
<1>15. CASE RoundsDone(p)
  BY <1>15 DEF RoundsDone, At, Alive, SupOK, Sups, Lives
<1>16. CASE Beat(p)
  BY <1>16, GotoLives, SameLives DEF Beat, At, Alive
<1>17. CASE Dies(p)
  BY <1>17, GotoLives, SameLives DEF Dies, At, Alive
<1>18. CASE Fails(p)
  BY <1>18, GotoLives, SameLives DEF Fails, At, Alive
<1>. QED
  BY <1>1, <1>2, <1>3, <1>4, <1>5, <1>6, <1>7, <1>8, <1>9, <1>10, <1>11, <1>12, <1>13, <1>14,
     <1>15, <1>16, <1>17, <1>18 DEF Supervised, Supervise

(* A process that was started stays started, and one that is gone stays gone. *)
Remains ==
  \A p \in Procs : /\ sup[p].pc # "unborn" => sup'[p].pc # "unborn"
                   /\ sup[p].pc = "gone" => sup'[p].pc = "gone"

LEMMA LivesRemains == Lives => Remains
BY DEF Lives, Remains

LEMMA RequestLives ==
  ASSUME SupOK, NEW q \in Slots, Request(q) \/ SpawnFails(q) \/ Abandon(q), ~Spawn(q)
  PROVE  Lives
<1>1. CASE Kill(q)
  BY <1>1, GotoLives, SameLives DEF Kill
<1>2. CASE Grace(q)
  BY <1>2, GotoLives, SameLives DEF Grace
<1>3. CASE UNCHANGED sup
  BY <1>3, SameLives
<1>. QED
  BY <1>1, <1>2, <1>3 DEF Request, Flag, Sweep, LaneCheck, Create, Extend, Stamp, EndRun,
     Unflag, Park, SpawnFails, Abandon

LEMMA SpawnEffect ==
  ASSUME SupOK, ReqOK, Requested, Manned, NEW q \in Slots, Spawn(q)
  PROVE  Remains /\ Manned'
<1>1. PICK p \in Procs : /\ At(p, "unborn")
                         /\ sup' = [sup EXCEPT ![p] = [@ EXCEPT !.run = req[q].run, !.pc = "boot"]]
  BY DEF Spawn
<1>2. req[q].run \in Runs
  BY DEF Spawn, Requested
<1>3. /\ sup'[p].pc = "boot" /\ sup'[p].run = req[q].run
      /\ \A o \in Procs \ {p} : sup'[o] = sup[o]
  BY <1>1 DEF SupOK, Sups
<1>. QED
  BY <1>1, <1>2, <1>3 DEF Remains, Manned, At

LEMMA ProcsStep ==
  ASSUME TypeOK, Requested, Manned, [Next]_vars
  PROVE  Remains /\ Manned'
<1>. USE TypeParts
<1>1. Lives => Remains /\ Manned'
  BY LivesRemains DEF Lives, Manned
<1>2. ASSUME NEW q \in Slots, Request(q) \/ SpawnFails(q) \/ Abandon(q) PROVE Remains /\ Manned'
  BY <1>1, <1>2, RequestLives, SpawnEffect
<1>3. ASSUME NEW p \in Procs, Supervised(p) PROVE Remains /\ Manned'
  BY <1>1, <1>3, SupervisedLives
<1>4. CASE UNCHANGED sup
  BY <1>1, <1>4, SameLives
<1>. QED
  BY <1>2, <1>3, <1>4 DEF Next, Supervised, Ask, Delete, RecRead, Age, RecMark, vars

-----------------------------------------------------------------------------
(* The lane. *)

LEMMA PutLane ==
  ASSUME lifecycle \in [Runs -> Lifecycle], LaneExclusive, NEW r, NEW l,
         l \in Lane => LaneFree(r), Put(r, l)
  PROVE  LaneExclusive'
BY DEF LaneExclusive, LaneFree, Put

LEMMA SetLifecycleLane ==
  ASSUME lifecycle \in [Runs -> Lifecycle], LaneExclusive, NEW p \in Procs, NEW l, NEW next,
         SetLifecycle(p, l, next)
  PROVE  LaneExclusive'
<1>1. CASE UNCHANGED lifecycle
  BY <1>1 DEF LaneExclusive
<1>2. CASE Put(sup[p].run, l) /\ (l \in Lane => LaneFree(sup[p].run))
  BY <1>2, PutLane
<1>. QED
  BY <1>1, <1>2 DEF SetLifecycle

LEMMA LaneStep == TypeOK /\ Requested /\ LaneExclusive /\ [Next]_vars => LaneExclusive'
<1>. SUFFICES ASSUME lifecycle \in [Runs -> Lifecycle], Requested, LaneExclusive, [Next]_vars
              PROVE  LaneExclusive'
  BY DEF TypeOK
<1>0. "lost" \notin Lane /\ "stopped" \notin Lane /\ "failed" \notin Lane /\ "paused" \notin Lane
      /\ "completed" \notin Lane
  BY DEF Lane
<1>1. ASSUME UNCHANGED lifecycle PROVE LaneExclusive'
  BY <1>1 DEF LaneExclusive
<1>2. ASSUME NEW q \in Slots, Request(q) \/ SpawnFails(q) \/ Abandon(q) PROVE LaneExclusive'
  <2>1. CASE Sweep(q)
    BY <2>1, <1>0 DEF Sweep, LaneExclusive
  <2>2. CASE Create(q)
    BY <2>2, <1>1, PutLane DEF Create
  <2>3. CASE Extend(q)
    BY <2>3, <1>1, PutLane DEF Extend
  <2>4. CASE EndRun(q)
    BY <2>4, <1>0, PutLane DEF EndRun
  <2>5. CASE Park(q)
    BY <2>5, <1>0, <1>1, PutLane DEF Park
  <2>6. CASE SpawnFails(q)
    BY <2>6, <1>0, <1>1, PutLane DEF SpawnFails, Requested, Endings
  <2>. QED
    BY <1>2, <1>1, <2>1, <2>2, <2>3, <2>4, <2>5, <2>6
       DEF Request, Flag, LaneCheck, Spawn, Stamp, Kill, Unflag, Grace, Abandon, row
<1>3. ASSUME NEW p \in Procs, Supervised(p) PROVE LaneExclusive'
  <2>1. CASE Fail(p)
    BY <2>1, <1>0, PutLane DEF Fail
  <2>2. CASE Start(p) \/ Pausing(p) \/ Parking(p) \/ Ending(p) \/ Close(p)
    BY <2>2, SetLifecycleLane DEF Start, Pausing, Parking, Ending, Close
  <2>. QED
    BY <1>3, <1>1, <2>1, <2>2
       DEF Supervised, Supervise, Boot, Load, ClearStaleControl, Wipe, DropFlag, Report, Leave,
           Boundary, RoundsDone, Beat, Dies, Fails, row
<1>4. CASE RecMark
  BY <1>4, <1>0, <1>1, PutLane DEF RecMark
<1>. QED
  BY <1>1, <1>2, <1>3, <1>4 DEF Next, Supervised, Ask, Delete, RecRead, Age, vars, row

-----------------------------------------------------------------------------
(* The pids a row, a stamp or a shutdown goes by. *)

PidVouched == \A r \in Runs : pid[r] \in Procs => sup[pid[r]].pc # "unborn"
ReqVouched ==
  \A q \in Slots :
    /\ req[q].pc = "stamp" /\ req[q].pid \in Procs => sup[req[q].pid].pc # "unborn"
    /\ req[q].pc = "park" /\ req[q].pid \in Procs => sup[req[q].pid].pc = "gone"

LEMMA HeartbeatVouched ==
  ASSUME RowOK, PidVouched, Remains, NEW r, NEW p \in Pids,
         p \in Procs => sup[p].pc # "unborn", Heartbeat(r, p)
  PROVE  PidVouched'
BY DEF RowOK, PidVouched, Remains, Heartbeat

LEMMA PidVouchedStep ==
  TypeOK /\ Requested /\ Manned /\ PidVouched /\ ReqVouched /\ [Next]_vars => PidVouched'
<1>. SUFFICES ASSUME RowOK, ReqOK, PidVouched, ReqVouched, Remains, [Next]_vars
              PROVE  PidVouched'
  BY TypeParts, ProcsStep
<1>1. ASSUME UNCHANGED pid PROVE PidVouched'
  BY <1>1 DEF PidVouched, Remains
<1>2. ASSUME NEW q \in Slots, Request(q) \/ SpawnFails(q) \/ Abandon(q) PROVE PidVouched'
  <2>1. CASE Stamp(q)
    <3>1. req[q].pid \in Pids /\ (req[q].pid \in Procs => sup[req[q].pid].pc # "unborn")
      BY <2>1 DEF Stamp, ReqVouched, ReqOK, Requests
    <3>. QED
      BY <2>1, <3>1, HeartbeatVouched DEF Stamp
  <2>2. CASE Park(q)
    <3>1. 0 \notin Procs
      BY RunControlAssumption DEF Procs
    <3>. QED
      BY <2>2, <3>1, <1>1 DEF Park, PidVouched, Remains, RowOK
  <2>. QED
    BY <1>2, <1>1, <2>1, <2>2
       DEF Request, Flag, Sweep, LaneCheck, Create, Extend, Spawn, Kill, EndRun, Unflag, Grace,
           SpawnFails, Abandon, row
<1>3. ASSUME NEW p \in Procs, Supervised(p) PROVE PidVouched'
  <2>1. CASE Boot(p) \/ Beat(p)
    BY <2>1, HeartbeatVouched, PidsAreProcs DEF Boot, Beat, At, Alive
  <2>. QED
    BY <1>3, <1>1, <2>1
       DEF Supervised, Supervise, Load, ClearStaleControl, Wipe, Start, Pausing, DropFlag,
           Parking, Ending, Report, Close, Leave, Fail, Boundary, RoundsDone, Dies, Fails, row
<1>. QED
  BY <1>1, <1>2, <1>3 DEF Next, Supervised, Ask, Delete, RecRead, Age, RecMark, vars, row

LEMMA ReqVouchedStep ==
  TypeOK /\ Requested /\ Manned /\ PidVouched /\ ReqVouched /\ [Next]_vars => ReqVouched'
<1>. SUFFICES ASSUME RowOK, SupOK, ReqOK, Requested, PidVouched, ReqVouched, Remains, [Next]_vars
              PROVE  ReqVouched'
  BY TypeParts, ProcsStep
<1>1. ASSUME UNCHANGED req PROVE ReqVouched'
  BY <1>1 DEF ReqVouched, Remains
<1>2. ASSUME NEW q \in Slots, Free(q) PROVE ReqVouched'
  BY <1>2 DEF Free, Idle, ReqVouched, Remains, ReqOK
<1>3. ASSUME NEW q \in Slots, NEW pc, pc \notin {"stamp", "park"}, Step(q, pc) PROVE ReqVouched'
  BY <1>3 DEF Step, ReqVouched, Remains, ReqOK, Requests
<1>4. ASSUME NEW q \in Slots, NEW kind \in Kinds, NEW r \in Runs, Ask(q, kind, r) PROVE ReqVouched'
  BY <1>4 DEF Ask, Kinds, ReqVouched, Remains, ReqOK
<1>5. ASSUME NEW q \in Slots, Spawn(q) PROVE ReqVouched'
  <2>1. PICK p \in Procs : /\ At(p, "unborn")
                           /\ sup' = [sup EXCEPT ![p] = [@ EXCEPT !.run = req[q].run, !.pc = "boot"]]
                           /\ req' = [req EXCEPT ![q].pc = "stamp", ![q].pid = p]
    BY <1>5 DEF Spawn
  <2>2. sup'[p].pc = "boot"
    BY <2>1 DEF SupOK, Sups
  <2>3. req'[q].pc = "stamp" /\ req'[q].pid = p /\ \A o \in Slots \ {q} : req'[o] = req[o]
    BY <2>1 DEF ReqOK, Requests
  <2>. QED
    BY <2>2, <2>3 DEF ReqVouched, Remains
<1>6. ASSUME NEW q \in Slots, Grace(q) PROVE ReqVouched'
  <2>1. CASE Free(q)
    BY <2>1, <1>2
  <2>2. CASE /\ req' = [req EXCEPT ![q].pc = "park", ![q].pid = pid[req[q].run]]
             /\ ~Free(q)
    <3>. DEFINE i == pid[req[q].run]
    <3>1. i \in Procs => sup'[i].pc = "gone"
      <4>1. CASE Alive(i)
        BY <1>6, <2>2, <4>1 DEF Grace, Goto, SupOK, Sups
      <4>2. CASE ~Alive(i)
        <5>1. i \in Procs => sup[i].pc \in {"unborn", "gone"}
          BY <4>2 DEF Alive
        <5>2. req[q].run \in Runs => (i \in Procs => sup[i].pc # "unborn")
          BY DEF PidVouched
        <5>3. req[q].run \in Runs
          BY <1>6 DEF Grace, Requested
        <5>. QED
          BY <5>1, <5>2, <5>3 DEF Remains
      <4>. QED
        BY <4>1, <4>2
    <3>2. req'[q].pc = "park" /\ req'[q].pid = i /\ \A o \in Slots \ {q} : req'[o] = req[o]
      BY <2>2 DEF ReqOK, Requests
    <3>. QED
      BY <3>1, <3>2 DEF ReqVouched, Remains
  <2>. QED
    BY <1>6, <2>1, <2>2 DEF Grace
<1>7. ASSUME NEW q \in Slots, Request(q) \/ SpawnFails(q) \/ Abandon(q) PROVE ReqVouched'
  BY <1>2, <1>3, <1>5, <1>6, <1>7
     DEF Request, Flag, Sweep, LaneCheck, Create, Extend, Stamp, Kill, EndRun, Unflag, Park,
         SpawnFails, Abandon
<1>8. ASSUME NEW p \in Procs, Supervised(p) PROVE ReqVouched'
  BY <1>1, <1>8, SupervisedRequests
<1>. QED
  BY <1>1, <1>4, <1>7, <1>8 DEF Next, Supervised, Delete, RecRead, Age, RecMark, vars

-----------------------------------------------------------------------------
(* The inductive invariant: the types, the lane, and what the records of the
   requests and of the rows say of the processes they name. *)
IInv == TypeOK /\ Requested /\ Manned /\ LaneExclusive /\ PidVouched /\ ReqVouched

LEMMA InitInv == Init => IInv
<1>. SUFFICES ASSUME Init PROVE IInv
  OBVIOUS
<1>1. Requested /\ Manned
  BY DEF Init, Requested, Manned, Idle
<1>2. LaneExclusive
  BY DEF Init, LaneExclusive, Lane
<1>3. PidVouched /\ ReqVouched
  BY RunControlAssumption DEF Init, PidVouched, ReqVouched, Idle, Procs
<1>. QED
  BY <1>1, <1>2, <1>3, TypeInit DEF IInv

LEMMA StepInv == IInv /\ [Next]_vars => IInv'
BY TypeStep, RequestedStep, ProcsStep, LaneStep, PidVouchedStep, ReqVouchedStep DEF IInv

(* Every behaviour keeps IInv. *)
THEOREM Invariant == Spec => []IInv
BY InitInv, StepInv, PTL DEF Spec

(* Every variable keeps its type. *)
THEOREM TypeCorrect == Spec => []TypeOK
<1>1. IInv => TypeOK
  BY DEF IInv
<1>. QED
  BY <1>1, Invariant, PTL

(* The lane of a harness holds at most one run, deleted ones included, however
   many launches, resumes, continues and shutdowns race for it and whichever
   processes die on the way. *)
THEOREM LaneIsExclusive == Spec => []LaneExclusive
<1>1. IInv => LaneExclusive
  BY DEF IInv
<1>. QED
  BY <1>1, Invariant, PTL

(* A process that does not move does not change its run's lifecycle. *)
LEMMA StillProcess ==
  ASSUME SupOK, NEW p \in Procs, Supervised(p), UNCHANGED sup
  PROVE  UNCHANGED lifecycle
<1>1. ASSUME NEW pc, NEW l, NEW next, At(p, pc), pc # next, pc # "failing", SetLifecycle(p, l, next)
      PROVE  UNCHANGED lifecycle
  BY <1>1 DEF SetLifecycle, At, Goto, SupOK, Sups
<1>2. CASE Fail(p)
  BY <1>2 DEF Fail, At, SupOK, Sups
<1>3. CASE Start(p)
  BY <1>3, <1>1 DEF Start
<1>4. CASE Pausing(p)
  BY <1>4, <1>1 DEF Pausing
<1>5. CASE Parking(p)
  BY <1>5, <1>1 DEF Parking
<1>6. CASE Ending(p)
  BY <1>6, <1>1 DEF Ending
<1>7. CASE Close(p)
  BY <1>7, <1>1 DEF Close
<1>. QED
  BY <1>2, <1>3, <1>4, <1>5, <1>6, <1>7
     DEF Supervised, Supervise, Boot, Load, ClearStaleControl, Wipe, DropFlag, Report, Leave,
         Boundary, RoundsDone, Beat, Dies, Fails, row

(* Only a shutdown's last step parks a run with no process moving. *)
LEMMA WhoParks ==
  ASSUME IInv, [Next]_vars, NEW r \in Runs, Parks(r)
  PROVE  \E q \in Slots : Park(q) /\ req[q].run = r /\ req[q].pid = pid[r]
<1>. USE DEF Parks
<1>0. /\ RowOK /\ SupOK /\ ReqOK
      /\ "paused" \notin Lane /\ lifecycle[r] \in Lane /\ lifecycle'[r] = "paused" /\ UNCHANGED sup
  BY TypeParts DEF IInv, Lane
<1>1. ~ UNCHANGED lifecycle
  BY <1>0
<1>2. ASSUME NEW q \in Slots, Request(q) \/ SpawnFails(q) \/ Abandon(q)
      PROVE  Park(q) /\ req[q].run = r /\ req[q].pid = pid[r]
  <2>1. CASE Park(q)
    <3>1. pid[req[q].run] = req[q].pid /\ Put(req[q].run, "paused")
      BY <2>1, <1>1 DEF Park
    <3>2. req[q].run = r
      BY <3>1, <1>0 DEF Put, RowOK
    <3>. QED
      BY <2>1, <3>1, <3>2
  <2>2. ~ Sweep(q)
    BY <1>0 DEF Sweep, RowOK, Lane
  <2>3. ~ Create(q) /\ ~ Extend(q) /\ ~ EndRun(q)
    BY <1>0, <1>1 DEF Create, Extend, EndRun, Put, RowOK
  <2>4. ~ SpawnFails(q)
    BY <1>0, <1>1 DEF SpawnFails, IInv, Requested, Endings, Put, RowOK
  <2>. QED
    BY <1>2, <1>1, <2>1, <2>2, <2>3, <2>4
       DEF Request, Flag, LaneCheck, Spawn, Stamp, Kill, Unflag, Grace, Abandon, row
<1>3. ASSUME NEW p \in Procs, Supervised(p) PROVE FALSE
  BY <1>0, <1>1, <1>3, StillProcess
<1>4. ~ RecMark
  BY <1>0, <1>1 DEF RecMark, Put, RowOK
<1>. QED
  BY <1>1, <1>2, <1>3, <1>4 DEF Next, Supervised, Ask, Delete, RecRead, Age, vars, row

(* A shutdown never parks a run from under the process its row names, whatever
   was started, resumed or continued since the shutdown looked. *)
THEOREM ReplacementsAreSpared == Spec => ShutdownSparesReplacements
<1>1. ASSUME IInv, [Next]_vars, NEW r \in Runs, Parks(r) PROVE ~Alive(pid[r])
  <2>1. PICK q \in Slots : Park(q) /\ req[q].run = r /\ req[q].pid = pid[r]
    BY <1>1, WhoParks
  <2>2. req[q].pid \in Procs => sup[req[q].pid].pc = "gone"
    BY <1>1, <2>1 DEF IInv, ReqVouched, Park
  <2>. QED
    BY <2>1, <2>2 DEF Alive
<1>2. IInv /\ [Next]_vars => [\A r \in Runs : Parks(r) => ~Alive(pid[r])]_vars
  BY <1>1
<1>. QED
  BY <1>2, Invariant, PTL DEF Spec, ShutdownSparesReplacements

(* Both at once, for any number of runs, requests and processes. *)
THEOREM LaneIsSafe == Spec => LaneSafe
<1>1. IInv /\ IInv' => LaneExclusive'
  BY DEF IInv
<1>. QED
  BY <1>1, Invariant, ReplacementsAreSpared, PTL DEF LaneSafe, ShutdownSparesReplacements

-----------------------------------------------------------------------------
(* One request at a time for a run, and then one process at a time too.        *)

Starting == {"launch", "resume", "continue"}     \* the requests that start a process
Aside    == Opening \cup {"failing", "leaving"}  \* where a process writes no lifecycle but failed
Settled  == Endings \cup {"paused"}              \* where a run may be started again

(* A request's steps are those of its kind, and only a launch finds no row. *)
Course ==
  \A q \in Slots :
    /\ req[q].pc \in {"sweep", "lane", "create", "extend", "spawn", "stamp"} => req[q].kind \in Starting
    /\ req[q].pc \in {"kill", "end", "unflag", "grace", "park"} => req[q].kind \notin Starting
    /\ req[q].pc = "create" => req[q].kind = "launch"
    /\ req[q].pc = "extend" => req[q].kind # "resume"
    /\ req[q].pc \notin {"idle", "sweep", "create"} => lifecycle[req[q].run] # "none"
    /\ req[q].pc = "sweep" /\ req[q].kind # "launch" => lifecycle[req[q].run] # "none"
    /\ req[q].kind = "resume" /\ req[q].pc \in {"sweep", "lane", "flag", "spawn"} =>
         lifecycle[req[q].run] \in {"paused", "lost"}
    /\ req[q].pc = "spawn" => lifecycle[req[q].run] \in {"queued", "paused", "lost"}

OneRequest ==
  \A q, o \in Slots : req[q].pc # "idle" /\ req[o].pc # "idle" /\ req[q].run = req[o].run => q = o

OneProcess ==
  \A p, o \in Procs : Alive(p) /\ Alive(o) /\ sup[p].run = sup[o].run => p = o

(* What a request under way implies of the processes of its run: none before
   the one it starts, none but that one until it is stamped; none but the one
   it was told to end, and none once it is ended. *)
Accompanied ==
  \A q \in Slots, p \in Procs : req[q].pc # "idle" /\ Alive(p) /\ sup[p].run = req[q].run =>
    /\ req[q].kind \in Starting => req[q].pc = "stamp" /\ p = req[q].pid
    /\ req[q].kind \notin Starting =>
         req[q].pc \in {"flag", "kill", "grace"} /\ p = req[q].pid /\ p = pid[req[q].run]

(* A process past its boot is the one its row names. *)
Recorded ==
  \A p \in Procs : Alive(p) /\ sup[p].pc \notin {"boot", "failing", "leaving"} => pid[sup[p].run] = p

(* What a process finds, and believes, before it drives. *)
Found ==
  \A p \in Procs :
    /\ sup[p].pc \in {"boot", "load"} => lifecycle[sup[p].run] \in {"queued", "paused", "lost"}
    /\ sup[p].pc \in {"clear", "wipe", "start"} => sup[p].mem \in {"queued", "paused"}

(* A run that may be started again has no process at work, and one that was
   never launched has none at all. *)
SettledIsIdle ==
  \A p \in Procs : Alive(p) =>
    /\ lifecycle[sup[p].run] # "none"
    /\ lifecycle[sup[p].run] \in Settled => sup[p].pc \in Aside

PInv == Course /\ OneRequest /\ OneProcess /\ Accompanied /\ Recorded /\ Found /\ SettledIsIdle

-----------------------------------------------------------------------------
(* The reconciler, the clock and a deletion disturb none of it: all they can
   write over a lifecycle is "lost". *)
Kept(r) == lifecycle'[r] = lifecycle[r] \/ lifecycle'[r] = "lost"

LEMMA KeptInv ==
  ASSUME PInv, Requested, Manned, UNCHANGED <<req, sup, pid>>, \A r \in Runs : Kept(r)
  PROVE  PInv'
<1>1. \A q \in Slots : req[q].pc # "idle" => Kept(req[q].run)
  BY DEF Requested
<1>2. \A p \in Procs : Alive(p) => Kept(sup[p].run)
  BY DEF Manned, Alive
<1>3. Course'
  BY <1>1 DEF PInv, Course, Kept
<1>4. OneRequest' /\ OneProcess' /\ Accompanied' /\ Recorded'
  BY DEF PInv, OneRequest, OneProcess, Accompanied, Recorded, Alive
<1>5. Found'
  BY <1>2 DEF PInv, Found, Kept, Alive
<1>6. SettledIsIdle'
  BY <1>2 DEF PInv, SettledIsIdle, Kept, Alive, Settled, Endings
<1>. QED
  BY <1>3, <1>4, <1>5, <1>6 DEF PInv

-----------------------------------------------------------------------------
(* What a step of a process does. *)
ProcEffect(p) ==
  LET r == sup[p].run
  IN /\ Alive(p) /\ UNCHANGED req
     /\ \A o \in Procs \ {p} : sup'[o] = sup[o]
     /\ sup'[p].run = r /\ sup'[p].pc \notin {"unborn", "boot"}
     /\ \A s \in Runs \ {r} : lifecycle'[s] = lifecycle[s] /\ pid'[s] = pid[s]
     /\ pid'[r] = pid[r] \/ pid'[r] = p
     /\ sup[p].pc = "boot" /\ sup'[p].pc \notin {"gone", "failing"} => pid'[r] = p
     /\ sup'[p].pc \notin {"gone", "failing", "leaving"} => sup[p].pc \notin {"failing", "leaving"}
     /\ lifecycle'[r] = lifecycle[r] \/ lifecycle'[r] \in Lane \cup {"failed"} \/ sup'[p].pc = "leaving"
     /\ lifecycle'[r] = lifecycle[r] \/ lifecycle'[r] # "none"
     /\ sup'[p].pc = "load" => sup[p].pc \in {"boot", "load"} /\ lifecycle'[r] = lifecycle[r]
     /\ sup'[p].pc \in {"clear", "wipe", "start"} =>
          \/ sup[p].pc \in {"clear", "wipe", "start"} /\ sup'[p].mem = sup[p].mem
          \/ sup[p].pc = "load" /\ sup'[p].mem = lifecycle[r] /\ lifecycle[r] \notin Terminal
     /\ sup[p].pc \in {"failing", "leaving"} => lifecycle'[r] \in {lifecycle[r], "failed"}
     /\ Found /\ sup[p].pc \in Aside /\ sup'[p].pc \notin Aside \cup {"gone"} => lifecycle'[r] = "running"

LEMMA GotoEffect ==
  ASSUME SupOK, NEW p \in Procs, NEW pc, Goto(p, pc)
  PROVE  /\ \A o \in Procs \ {p} : sup'[o] = sup[o]
         /\ sup'[p].run = sup[p].run /\ sup'[p].pc = pc /\ sup'[p].mem = sup[p].mem
BY DEF SupOK, Sups, Goto

LEMMA HeartbeatEffect ==
  ASSUME RowOK, NEW r \in Runs, NEW p, Heartbeat(r, p)
  PROVE  /\ \A s \in Runs \ {r} : pid'[s] = pid[s]
         /\ pid'[r] = pid[r] \/ pid'[r] = p
         /\ ~deleted[r] => pid'[r] = p
BY DEF RowOK, Heartbeat

LEMMA SetLifecycleEffect ==
  ASSUME RowOK, SupOK, NEW p \in Procs, sup[p].run \in Runs, NEW l, NEW next, SetLifecycle(p, l, next)
  PROVE  /\ \A o \in Procs \ {p} : sup'[o] = sup[o]
         /\ sup'[p].run = sup[p].run
         /\ \A s \in Runs \ {sup[p].run} : lifecycle'[s] = lifecycle[s]
         /\ \/ sup'[p].pc = next /\ sup[p].mem = l /\ lifecycle'[sup[p].run] = lifecycle[sup[p].run]
            \/ sup'[p].pc = next /\ lifecycle'[sup[p].run] = l
            \/ sup'[p].pc = "failing" /\ lifecycle'[sup[p].run] = lifecycle[sup[p].run]
<1>1. CASE Goto(p, next) /\ UNCHANGED lifecycle /\ sup[p].mem = l
  BY <1>1, GotoEffect
<1>2. CASE Goto(p, "failing") /\ UNCHANGED lifecycle
  BY <1>2, GotoEffect
<1>3. CASE Put(sup[p].run, l) /\ sup' = [sup EXCEPT ![p].pc = next, ![p].mem = l]
  BY <1>3 DEF Put, RowOK, SupOK, Sups
<1>. QED
  BY <1>1, <1>2, <1>3 DEF SetLifecycle

LEMMA SupervisedEffect ==
  ASSUME RowOK, SupOK, Manned, NEW p \in Procs, Supervised(p)
  PROVE  ProcEffect(p)
<1>. DEFINE r == sup[p].run
<1>0. UNCHANGED req
  BY SupervisedRequests
<1>1. Alive(p)
  BY DEF Supervised, Supervise, Boot, Load, ClearStaleControl, Wipe, Start, Pausing, DropFlag,
   Parking, Ending, Report, Close, Leave, Fail, Boundary, RoundsDone, Beat, Dies, Fails, At, Alive
<1>2. r \in Runs
  BY <1>1 DEF Manned, Alive
<1>. USE <1>0, <1>1, <1>2 DEF ProcEffect, At, Aside, Opening
<1>3. CASE Boot(p)
  BY <1>3, GotoEffect, HeartbeatEffect DEF Boot
<1>4. CASE Load(p)
  <2>1. /\ \A o \in Procs \ {p} : sup'[o] = sup[o]
        /\ sup'[p].run = r /\ sup'[p].mem = lifecycle[r]
        /\ sup'[p].pc = IF lifecycle[r] \in Terminal THEN "gone" ELSE "clear"
    BY <1>4 DEF Load, SupOK, Sups
  <2>2. sup[p].pc = "load" /\ UNCHANGED <<lifecycle, pid>>
    BY <1>4 DEF Load, row
  <2>3. CASE lifecycle[r] \in Terminal
    BY <2>1, <2>2, <2>3
  <2>4. CASE lifecycle[r] \notin Terminal
    BY <2>1, <2>2, <2>4
  <2>. QED
    BY <2>3, <2>4
<1>5. CASE ClearStaleControl(p) \/ Wipe(p) \/ Report(p) \/ Leave(p) \/ Dies(p) \/ Fails(p)
  BY <1>5, GotoEffect DEF ClearStaleControl, Wipe, Report, Leave, Dies, Fails, row
<1>6. CASE DropFlag(p)
  BY <1>6, GotoEffect DEF DropFlag
<1>7. CASE Start(p)
  <2>1. Found => sup[p].mem # "running"
    BY <1>7 DEF Start, Found
  <2>. QED
    BY <1>7, <2>1, SetLifecycleEffect DEF Start, Lane
<1>8. CASE Pausing(p)
  BY <1>8, SetLifecycleEffect DEF Pausing, Lane
<1>9. CASE Parking(p)
  BY <1>9, SetLifecycleEffect DEF Parking
<1>10. CASE Ending(p)
  <2>. DEFINE l == IF sup[p].ending = "stopped" THEN "stopping" ELSE "finishing"
  <2>1. l \in Lane
    BY DEF Lane
  <2>2. SetLifecycle(p, l, "report")
    BY <1>10 DEF Ending
  <2>. HIDE DEF l
  <2>3. l # "none"
    BY <2>1 DEF Lane
  <2>. QED
    BY <1>10, <2>1, <2>2, <2>3, SetLifecycleEffect DEF Ending
<1>11. CASE Close(p)
  <2>1. sup[p].ending # "none"
    BY DEF SupOK, Sups, Endings
  <2>. QED
    BY <1>11, <2>1, SetLifecycleEffect DEF Close
<1>12. CASE Fail(p)
  <2>1. /\ \A o \in Procs \ {p} : sup'[o] = sup[o]
        /\ sup'[p].run = r /\ sup'[p].pc = "leaving"
    BY <1>12 DEF Fail, SupOK, Sups
  <2>2. lifecycle'[r] = "failed" /\ \A s \in Runs \ {r} : lifecycle'[s] = lifecycle[s]
    BY <1>12 DEF Fail, Put, RowOK
  <2>. QED
    BY <1>12, <2>1, <2>2 DEF Fail
<1>13. CASE Boundary(p)
  <2>1. /\ \A o \in Procs \ {p} : sup'[o] = sup[o]
        /\ sup'[p].run = r /\ sup'[p].pc \in {"gone", "pausing", "ending", "work"}
    BY <1>13, GotoEffect DEF Boundary, SupOK, Sups
  <2>. QED
    BY <1>13, <2>1 DEF Boundary
<1>14. CASE RoundsDone(p)
  <2>1. /\ \A o \in Procs \ {p} : sup'[o] = sup[o]
        /\ sup'[p].run = r /\ sup'[p].pc = "ending"
    BY <1>14 DEF RoundsDone, SupOK, Sups
  <2>. QED
    BY <1>14, <2>1 DEF RoundsDone, row
<1>15. CASE Beat(p)
  BY <1>15, GotoEffect, HeartbeatEffect DEF Beat, Alive
<1>. QED
  BY <1>3, <1>4, <1>5, <1>6, <1>7, <1>8, <1>9, <1>10, <1>11, <1>12, <1>13, <1>14, <1>15
     DEF Supervised, Supervise

(* Whatever a process does, it does to its own run, and so to the only process
   of it. *)
LEMMA SupervisedInv ==
  ASSUME RowOK, SupOK, Requested, Manned, PInv, NEW p \in Procs, Supervised(p)
  PROVE  PInv'
<1>. DEFINE r == sup[p].run
<1>1. ProcEffect(p) /\ r \in Runs
  BY SupervisedEffect DEF PInv, ProcEffect, Manned, Alive
<1>2. \A o \in Procs : Alive(o)' => Alive(o) /\ sup'[o].run = sup[o].run
  BY <1>1 DEF ProcEffect, Alive
<1>3. \A o \in Procs : Alive(o) /\ sup[o].run = r => o = p
  BY <1>1 DEF ProcEffect, PInv, OneProcess
<1>4. \A q \in Slots : req[q].pc # "idle" => req[q].run \in Runs
  BY DEF Requested
<1>5. \A o \in Procs : Alive(o) => sup[o].run \in Runs
  BY DEF Manned, Alive
<1>6. Course'
  <2>. SUFFICES ASSUME NEW q \in Slots, req[q].pc # "idle", UNCHANGED req
                PROVE  /\ lifecycle[req[q].run] # "none" => lifecycle'[req[q].run] # "none"
                       /\ req[q].kind \in Starting /\ req[q].pc # "stamp" =>
                            lifecycle'[req[q].run] = lifecycle[req[q].run]
    BY <1>1 DEF PInv, Course, ProcEffect, Starting
  <2>1. CASE req[q].run = r
    BY <1>1, <2>1 DEF ProcEffect, PInv, Accompanied
  <2>2. CASE req[q].run # r
    BY <1>1, <1>4, <2>2 DEF ProcEffect
  <2>. QED
    BY <2>1, <2>2
<1>7. OneRequest'
  BY <1>1 DEF ProcEffect, PInv, OneRequest
<1>8. OneProcess'
  BY <1>2 DEF PInv, OneProcess
<1>9. Accompanied'
  <2>. SUFFICES ASSUME NEW q \in Slots, NEW o \in Procs, req[q].pc # "idle", UNCHANGED req,
                       Alive(o), sup[o].run = req[q].run, o = pid[req[q].run]
                PROVE  o = pid'[req[q].run]
    BY <1>1, <1>2 DEF PInv, Accompanied, ProcEffect
  <2>. QED
    BY <1>1, <1>3, <1>4 DEF ProcEffect
<1>10. Recorded'
  <2>. SUFFICES ASSUME NEW o \in Procs, Alive(o)', sup'[o].pc \notin {"boot", "failing", "leaving"}
                PROVE  pid'[sup'[o].run] = o
    BY DEF Recorded
  <2>1. CASE o = p
    BY <1>1, <2>1 DEF ProcEffect, PInv, Recorded, Alive
  <2>2. CASE o # p
    BY <1>1, <1>2, <1>3, <1>5, <2>2 DEF ProcEffect, PInv, Recorded
  <2>. QED
    BY <2>1, <2>2
<1>11. Found'
  <2>1. ASSUME NEW o \in Procs \ {p}, sup[o].pc \in {"boot", "load"}
        PROVE  lifecycle'[sup[o].run] = lifecycle[sup[o].run]
    BY <1>1, <1>3, <1>5, <2>1 DEF ProcEffect, Alive
  <2>2. sup'[p].pc \in {"boot", "load"} => lifecycle'[r] \in {"queued", "paused", "lost"}
    BY <1>1 DEF ProcEffect, PInv, Found
  <2>3. sup'[p].pc \in {"clear", "wipe", "start"} => sup'[p].mem \in {"queued", "paused"}
    BY <1>1 DEF ProcEffect, PInv, Found, Terminal
  <2>. QED
    BY <1>1, <2>1, <2>2, <2>3 DEF ProcEffect, PInv, Found
<1>12. SettledIsIdle'
  <2>. SUFFICES ASSUME NEW o \in Procs, Alive(o)'
                PROVE  /\ lifecycle'[sup'[o].run] # "none"
                       /\ lifecycle'[sup'[o].run] \in Settled => sup'[o].pc \in Aside
    BY DEF SettledIsIdle
  <2>1. CASE o # p
    BY <1>1, <1>2, <1>3, <1>5, <2>1 DEF ProcEffect, PInv, SettledIsIdle
  <2>2. CASE o = p
    <3>1. lifecycle'[r] # "none"
      BY <1>1 DEF ProcEffect, PInv, SettledIsIdle
    <3>2. lifecycle'[r] \in Settled /\ lifecycle'[r] # lifecycle[r] => sup'[p].pc = "leaving"
      BY <1>1 DEF ProcEffect, Settled, Endings, Lane
    <3>3. lifecycle'[r] \in Settled /\ lifecycle'[r] = lifecycle[r] => sup'[p].pc \in Aside \cup {"gone"}
      BY <1>1 DEF ProcEffect, PInv, SettledIsIdle, Settled, Endings
    <3>. QED
      BY <1>1, <2>2, <3>1, <3>2, <3>3 DEF ProcEffect, Aside, Alive
  <2>. QED
    BY <2>1, <2>2
<1>. QED
  BY <1>6, <1>7, <1>8, <1>9, <1>10, <1>11, <1>12 DEF PInv

-----------------------------------------------------------------------------
(* What a step of a request does, unless it starts a process. *)

(* A process is not alive after the step. *)
Dead(i) == i \in Procs => sup'[i].pc \in {"unborn", "gone"}

(* From where a request of the kind goes where. *)
Goes(q) ==
  LET from == req[q].pc  to == req'[q].pc  kind == req[q].kind
  IN \/ from = "flag" /\ to = "spawn" /\ kind = "resume"
     \/ from = "flag" /\ to = "kill" /\ kind = "force_stop"
     \/ from = "flag" /\ to = "grace" /\ kind = "park"
     \/ from = "sweep" /\ to = "create" /\ kind = "launch"
     \/ from = "sweep" /\ to = "lane" /\ kind # "launch"
     \/ from = "lane" /\ to = "flag" /\ kind = "resume"
     \/ from = "lane" /\ to = "extend" /\ kind # "resume"
     \/ from \in {"create", "extend"} /\ to = "spawn" /\ lifecycle'[req[q].run] = "queued"
     \/ from = "kill" /\ to = "end" /\ Dead(req[q].pid)
     \/ from = "end" /\ to = "unflag"
     \/ from = "grace" /\ to = "park" /\ Dead(pid[req[q].run])

(* It leaves the other requests alone, and its own keeps its kind and run. *)
RequestMoves(q) ==
  /\ \A o \in Slots \ {q} : req'[o] = req[o]
  /\ \/ req'[q] = Idle
     \/ /\ Goes(q) /\ req'[q].run = req[q].run /\ req'[q].kind = req[q].kind
        /\ req'[q].pid = req[q].pid \/ req[q].pc = "grace"

(* It kills or leaves alone, and writes the row of its run, except that a sweep
   marks the lost. *)
RequestWrites(q) ==
  LET r == req[q].run
  IN /\ \A p \in Procs : Alive(p)' => sup'[p] = sup[p]
     /\ \A s \in Runs \ {r} : pid'[s] = pid[s] /\ Kept(s)
     /\ \/ Kept(r)
        \/ lifecycle'[r] # "none" /\ req[q].pc \in {"create", "extend", "spawn", "end", "park"}
     /\ \/ pid'[r] = pid[r]
        \/ req[q].pc = "stamp" /\ pid'[r] = req[q].pid
        \/ req[q].pc = "park"

RequestEffect(q) == req[q].pc # "idle" /\ RequestMoves(q) /\ RequestWrites(q)

LEMMA StepEffect ==
  ASSUME ReqOK, NEW q \in Slots, NEW pc, Step(q, pc)
  PROVE  /\ \A o \in Slots \ {q} : req'[o] = req[o]
         /\ req'[q].pc = pc /\ req'[q].run = req[q].run /\ req'[q].kind = req[q].kind
         /\ req'[q].pid = req[q].pid
BY DEF ReqOK, Requests, Step

LEMMA FreeEffect ==
  ASSUME ReqOK, NEW q \in Slots, Free(q)
  PROVE  (\A o \in Slots \ {q} : req'[o] = req[o]) /\ req'[q] = Idle
BY DEF ReqOK, Free

LEMMA FreeMoves ==
  ASSUME ReqOK, NEW q \in Slots, Free(q)
  PROVE  RequestMoves(q)
BY FreeEffect DEF RequestMoves

LEMMA SameRows ==
  ASSUME NEW q \in Slots, req[q].run \in Runs, UNCHANGED <<lifecycle, pid>>,
         \A p \in Procs : Alive(p)' => sup'[p] = sup[p]
  PROVE  RequestWrites(q)
BY DEF Kept, RequestWrites, Alive

LEMMA PutEffect ==
  ASSUME RowOK, NEW r \in Runs, NEW l, Put(r, l)
  PROVE  lifecycle'[r] = l /\ \A s \in Runs \ {r} : Kept(s)
BY DEF RowOK, Put, Kept

LEMMA KillEffect ==
  ASSUME SupOK, NEW p, Goto(p, "gone")
  PROVE  Dead(p) /\ \A o \in Procs : Alive(o)' => sup'[o] = sup[o]
BY DEF SupOK, Sups, Goto, Alive, Dead

LEMMA StaysDead ==
  ASSUME NEW p, ~Alive(p), UNCHANGED sup
  PROVE  Dead(p)
BY DEF Alive, Dead

LEMMA ServedMoves ==
  ASSUME RowOK, SupOK, ReqOK, Requested, NEW q \in Slots,
         Request(q) \/ SpawnFails(q) \/ Abandon(q), ~Spawn(q)
  PROVE  RequestMoves(q)
<1>. DEFINE r == req[q].run
<1>1. ASSUME NEW pc, Step(q, pc), req'[q].pc = pc => Goes(q) PROVE RequestMoves(q)
  BY <1>1, StepEffect DEF RequestMoves
<1>3. CASE Flag(q)
  <2>1. ASSUME NEW pc, Step(q, pc), \/ pc = "spawn" /\ req[q].kind = "resume"
                                    \/ pc = "kill" /\ req[q].kind = "force_stop"
                                    \/ pc = "grace" /\ req[q].kind = "park"
        PROVE RequestMoves(q)
    BY <1>1, <1>3, <2>1 DEF Flag, Goes
  <2>. QED
    BY <1>3, <2>1, FreeMoves DEF Flag
<1>4. CASE Sweep(q)
  BY <1>1, <1>4 DEF Sweep, Goes
<1>5. CASE LaneCheck(q)
  <2>1. CASE Free(q)
    BY <2>1, FreeMoves
  <2>2. CASE Step(q, IF req[q].kind = "resume" THEN "flag" ELSE "extend")
    BY <1>1, <1>5, <2>2 DEF LaneCheck, Goes
  <2>. QED
    BY <1>5, <2>1, <2>2 DEF LaneCheck
<1>6. CASE Create(q) \/ Extend(q)
  <2>1. CASE Step(q, "spawn") /\ Put(r, "queued") /\ req[q].pc \in {"create", "extend"}
    BY <1>1, <2>1, PutEffect DEF Goes, Requested
  <2>. QED
    BY <1>6, <2>1, FreeMoves DEF Create, Extend
<1>7. CASE SpawnFails(q) \/ Stamp(q) \/ Unflag(q) \/ Park(q) \/ Abandon(q)
  BY <1>7, FreeMoves DEF SpawnFails, Stamp, Unflag, Park, Abandon
<1>8. CASE Kill(q)
  <2>1. CASE Step(q, "end") /\ Dead(req[q].pid)
    BY <1>1, <1>8, <2>1 DEF Kill, Goes
  <2>. QED
    BY <1>8, <2>1, FreeMoves, KillEffect, StaysDead DEF Kill
<1>9. CASE EndRun(q)
  BY <1>1, <1>9 DEF EndRun, Goes
<1>10. CASE Grace(q)
  <2>1. CASE req' = [req EXCEPT ![q].pc = "park", ![q].pid = pid[r]] /\ Dead(pid[r])
    <3>1. /\ \A o \in Slots \ {q} : req'[o] = req[o]
          /\ req'[q].pc = "park" /\ req'[q].run = r /\ req'[q].kind = req[q].kind
      BY <2>1 DEF ReqOK, Requests
    <3>. QED
      BY <1>10, <2>1, <3>1 DEF Grace, Goes, RequestMoves
  <2>. QED
    BY <1>10, <2>1, KillEffect, StaysDead, FreeMoves DEF Grace
<1>. QED
  BY <1>3, <1>4, <1>5, <1>6, <1>7, <1>8, <1>9, <1>10 DEF Request

LEMMA ServedWrites ==
  ASSUME RowOK, SupOK, Requested, NEW q \in Slots, req[q].pc # "idle",
         Request(q) \/ SpawnFails(q) \/ Abandon(q), ~Spawn(q)
  PROVE  RequestWrites(q)
<1>. DEFINE r == req[q].run
<1>1. r \in Runs
  BY DEF Requested
<1>2. ASSUME UNCHANGED <<sup, pid>>, NEW l, l # "none", Put(r, l),
             req[q].pc \in {"create", "extend", "spawn", "end"}
      PROVE  RequestWrites(q)
  BY <1>1, <1>2, PutEffect DEF RequestWrites, Alive
<1>3. CASE Flag(q) \/ LaneCheck(q) \/ Unflag(q) \/ Abandon(q)
  BY <1>1, <1>3, SameRows DEF Flag, LaneCheck, Unflag, Abandon, row
<1>4. CASE Sweep(q)
  BY <1>1, <1>4 DEF Sweep, Kept, RowOK, RequestWrites, Alive
<1>5. CASE Create(q) \/ Extend(q)
  BY <1>1, <1>2, <1>5, SameRows DEF Create, Extend
<1>6. CASE SpawnFails(q)
  <2>1. req[q].kind = "continue" => req[q].life # "none"
    BY DEF Requested, Endings
  <2>. QED
    BY <1>1, <1>2, <1>6, <2>1, SameRows DEF SpawnFails
<1>7. CASE Stamp(q)
  BY <1>1, <1>7, HeartbeatEffect DEF Stamp, Kept, RequestWrites, Alive
<1>8. CASE Kill(q)
  BY <1>1, <1>8, SameRows, KillEffect DEF Kill, row
<1>9. CASE EndRun(q)
  BY <1>1, <1>2, <1>9 DEF EndRun
<1>10. CASE Grace(q)
  BY <1>1, <1>10, SameRows, KillEffect DEF Grace, row
<1>11. CASE Park(q)
  <2>1. CASE Put(r, "paused") /\ pid' = [pid EXCEPT ![r] = 0]
    BY <1>1, <1>11, <2>1, PutEffect DEF Park, RowOK, RequestWrites
  <2>. QED
    BY <1>1, <1>11, <2>1, SameRows DEF Park
<1>. QED
  BY <1>3, <1>4, <1>5, <1>6, <1>7, <1>8, <1>9, <1>10, <1>11 DEF Request

LEMMA RequestInv ==
  ASSUME RowOK, SupOK, ReqOK, Requested, Manned, PInv, NEW q \in Slots, req[q].pc # "idle",
         Request(q) \/ SpawnFails(q) \/ Abandon(q), ~Spawn(q)
  PROVE  PInv'
<1>. DEFINE r == req[q].run
<1>1. RequestEffect(q) /\ r \in Runs
  BY ServedMoves, ServedWrites DEF Requested, RequestEffect
<1>2. \A o \in Procs : Alive(o)' => Alive(o) /\ sup'[o] = sup[o] /\ sup[o].run \in Runs
  BY <1>1 DEF RequestEffect, RequestMoves, RequestWrites, Alive, Manned
<1>3. \A o \in Slots \ {q} : req'[o] = req[o] /\ (req[o].pc # "idle" => req[o].run \in Runs /\ req[o].run # r)
  BY <1>1 DEF RequestEffect, RequestMoves, RequestWrites, PInv, OneRequest, Requested
<1>4. \/ req'[q] = Idle
      \/ /\ Goes(q) /\ req'[q].run = r /\ req'[q].kind = req[q].kind
         /\ req'[q].pid = req[q].pid \/ req[q].pc = "grace"
  BY <1>1 DEF RequestEffect, RequestMoves
<1>5. ASSUME req[q].pc \notin {"flag", "kill", "grace", "stamp"}, NEW o \in Procs, Alive(o)
      PROVE  sup[o].run # r
  BY <1>5, <1>1 DEF RequestEffect, RequestMoves, RequestWrites, PInv, Accompanied
<1>6. \A o \in Procs : Alive(o)' => Kept(sup[o].run)
  BY <1>1, <1>2, <1>5 DEF RequestEffect, RequestMoves, RequestWrites
<1>7. \A o \in Procs : Alive(o)' => pid'[sup[o].run] = pid[sup[o].run] \/ pid'[sup[o].run] = o
  <2>. SUFFICES ASSUME NEW o \in Procs, Alive(o)'
                PROVE  pid'[sup[o].run] = pid[sup[o].run] \/ pid'[sup[o].run] = o
    OBVIOUS
  <2>1. CASE sup[o].run # r
    BY <1>1, <1>2, <2>1 DEF RequestEffect, RequestMoves, RequestWrites
  <2>2. CASE sup[o].run = r
    <3>1. req[q].pc # "park"
      BY <1>2, <1>5, <2>2
    <3>2. req[q].pc = "stamp" => o = req[q].pid
      BY <1>2, <2>2 DEF PInv, Accompanied, Course
    <3>. QED
      BY <1>1, <2>2, <3>1, <3>2 DEF RequestEffect, RequestMoves, RequestWrites
  <2>. QED
    BY <2>1, <2>2
<1>8. Course'
  <2>1. ASSUME NEW o \in Slots \ {q}, req[o].pc # "idle" PROVE Kept(req[o].run)
    BY <1>1, <1>3, <2>1 DEF RequestEffect, RequestMoves, RequestWrites
  <2>2. CASE req'[q] = Idle
    BY <1>3, <2>1, <2>2 DEF PInv, Course, Kept, Idle
  <2>3. CASE Goes(q) /\ req'[q].run = r /\ req'[q].kind = req[q].kind
    <3>1. req'[q].pc # "create" => lifecycle'[r] # "none"
      <4>1. Kept(r) \/ lifecycle'[r] # "none"
        BY <1>1 DEF RequestEffect, RequestMoves, RequestWrites
      <4>. QED
        BY <1>1, <2>3, <4>1 DEF RequestEffect, RequestMoves, RequestWrites, Kept, Goes, PInv, Course
    <3>2. /\ req'[q].pc \in {"sweep", "lane", "create", "extend", "spawn", "stamp"} => req[q].kind \in Starting
          /\ req'[q].pc \in {"kill", "end", "unflag", "grace", "park"} => req[q].kind \notin Starting
          /\ req'[q].pc = "create" => req[q].kind = "launch"
          /\ req'[q].pc = "extend" => req[q].kind # "resume"
          /\ req'[q].pc # "sweep"
      BY <2>3 DEF Goes, PInv, Course, Starting
    <3>3. req[q].pc \in {"flag", "sweep", "lane"} => Kept(r)
      BY <1>1 DEF RequestEffect, RequestMoves, RequestWrites
    <3>4. req[q].kind = "resume" /\ req'[q].pc \in {"lane", "flag", "spawn"} =>
            lifecycle'[r] \in {"paused", "lost"} \/ req[q].pc \in {"create", "extend"}
      BY <2>3, <3>3 DEF Goes, PInv, Course, Kept
    <3>5. req[q].kind = "resume" => req[q].pc \notin {"create", "extend"}
      BY DEF PInv, Course
    <3>6. req'[q].pc = "spawn" => lifecycle'[r] \in {"queued", "paused", "lost"}
      BY <2>3, <3>4 DEF Goes
    <3>7. \A o \in Slots \ {q} : req[o].pc # "idle" => req'[o] = req[o] /\ Kept(req[o].run)
      BY <1>3, <2>1
    <3>. DEFINE Fits(kind, pc, life) ==
           /\ pc \in {"sweep", "lane", "create", "extend", "spawn", "stamp"} => kind \in Starting
           /\ pc \in {"kill", "end", "unflag", "grace", "park"} => kind \notin Starting
           /\ pc = "create" => kind = "launch"
           /\ pc = "extend" => kind # "resume"
           /\ pc \notin {"idle", "sweep", "create"} => life # "none"
           /\ pc = "sweep" /\ kind # "launch" => life # "none"
           /\ kind = "resume" /\ pc \in {"sweep", "lane", "flag", "spawn"} => life \in {"paused", "lost"}
           /\ pc = "spawn" => life \in {"queued", "paused", "lost"}
    <3>8. Fits(req'[q].kind, req'[q].pc, lifecycle'[req'[q].run])
      BY <2>3, <3>1, <3>2, <3>4, <3>5, <3>6
    <3>9. ASSUME NEW o \in Slots \ {q}
          PROVE  Fits(req'[o].kind, req'[o].pc, lifecycle'[req'[o].run])
      BY <1>3, <3>7, <3>9 DEF PInv, Course, Kept
    <3>. QED
      BY <3>8, <3>9 DEF Course
  <2>. QED
    BY <1>4, <2>2, <2>3
<1>9. OneRequest'
  BY <1>3, <1>4, <1>1 DEF PInv, OneRequest, Idle, RequestEffect, RequestMoves
<1>10. OneProcess'
  BY <1>2 DEF PInv, OneProcess
<1>11. Accompanied'
  <2>. SUFFICES ASSUME NEW o \in Slots, NEW p \in Procs, req'[o].pc # "idle", Alive(p)', sup[p].run = req'[o].run
                PROVE  /\ req'[o].kind \in Starting => req'[o].pc = "stamp" /\ p = req'[o].pid
                       /\ req'[o].kind \notin Starting =>
                            req'[o].pc \in {"flag", "kill", "grace"} /\ p = req'[o].pid /\ p = pid'[req'[o].run]
    BY <1>2 DEF Accompanied
  <2>1. CASE o # q
    BY <1>2, <1>3, <1>7, <2>1 DEF PInv, Accompanied
  <2>2. CASE o = q
    <3>1. Goes(q) /\ sup[p].run = r /\ req'[q].kind = req[q].kind
      BY <1>4, <2>2 DEF Idle
    <3>2. req[q].kind \notin Starting
      BY <1>1, <1>2, <3>1 DEF RequestEffect, RequestMoves, RequestWrites, Goes, PInv, Accompanied
    <3>3. p = req[q].pid /\ p = pid[r] /\ req[q].pc \in {"flag", "kill", "grace"}
      BY <1>1, <1>2, <3>1, <3>2 DEF RequestEffect, RequestMoves, RequestWrites, PInv, Accompanied
    <3>4. req'[q].pc \in {"kill", "grace"} /\ req[q].pc = "flag"
      BY <3>1, <3>2, <3>3 DEF Goes, Starting, Dead, Alive
    <3>. QED
      BY <1>2, <1>4, <1>7, <2>2, <3>1, <3>2, <3>3, <3>4 DEF Idle
  <2>. QED
    BY <2>1, <2>2
<1>12. Recorded'
  BY <1>2, <1>7 DEF PInv, Recorded
<1>13. Found'
  <2>. SUFFICES ASSUME NEW o \in Procs, sup'[o].pc \in {"boot", "load", "clear", "wipe", "start"}
                PROVE  /\ sup'[o].pc \in {"boot", "load"} => lifecycle'[sup'[o].run] \in {"queued", "paused", "lost"}
                       /\ sup'[o].pc \in {"clear", "wipe", "start"} => sup'[o].mem \in {"queued", "paused"}
    BY DEF Found
  <2>1. Alive(o)'
    BY DEF Alive
  <2>. QED
    BY <1>2, <1>6, <2>1 DEF PInv, Found, Kept
<1>14. SettledIsIdle'
  BY <1>2, <1>6 DEF PInv, SettledIsIdle, Kept, Settled, Endings
<1>. QED
  BY <1>8, <1>9, <1>10, <1>11, <1>12, <1>13, <1>14 DEF PInv

(* A request that starts a process finds its run without one. *)
LEMMA SpawnInv ==
  ASSUME RowOK, SupOK, ReqOK, Requested, Manned, PInv, NEW q \in Slots, Spawn(q)
  PROVE  PInv'
<1>. DEFINE r == req[q].run
<1>1. PICK p \in Procs : /\ At(p, "unborn")
                         /\ sup' = [sup EXCEPT ![p] = [@ EXCEPT !.run = req[q].run, !.pc = "boot"]]
                         /\ req' = [req EXCEPT ![q].pc = "stamp", ![q].pid = p]
  BY DEF Spawn
<1>2. /\ sup'[p].pc = "boot" /\ sup'[p].run = r
      /\ \A o \in Procs \ {p} : sup'[o] = sup[o]
  BY <1>1 DEF SupOK, Sups
<1>3. /\ req'[q].pc = "stamp" /\ req'[q].pid = p /\ req'[q].run = r /\ req'[q].kind = req[q].kind
      /\ \A o \in Slots \ {q} : req'[o] = req[o]
  BY <1>1 DEF ReqOK, Requests
<1>4. req[q].pc = "spawn" /\ req[q].kind \in Starting /\ r \in Runs
  BY DEF Spawn, PInv, Course, Requested
<1>5. UNCHANGED <<lifecycle, pid>>
  BY DEF Spawn, row
<1>6. \A o \in Procs : Alive(o) => sup[o].run # r
  BY <1>4 DEF PInv, Accompanied
<1>7. \A o \in Slots \ {q} : req[o].pc # "idle" => req[o].run # r
  BY <1>4 DEF PInv, OneRequest
<1>8. \A o \in Procs \ {p} : Alive(o)' <=> Alive(o)
  BY <1>2 DEF Alive
<1>9. Course'
  BY <1>3, <1>4, <1>5 DEF PInv, Course
<1>10. OneRequest'
  BY <1>3, <1>4 DEF PInv, OneRequest
<1>11. OneProcess'
  BY <1>2, <1>6, <1>8 DEF PInv, OneProcess
<1>12. Accompanied'
  <2>. SUFFICES ASSUME NEW o \in Slots, NEW s \in Procs, req'[o].pc # "idle", Alive(s)', sup'[s].run = req'[o].run
                PROVE  /\ req'[o].kind \in Starting => req'[o].pc = "stamp" /\ s = req'[o].pid
                       /\ req'[o].kind \notin Starting =>
                            req'[o].pc \in {"flag", "kill", "grace"} /\ s = req'[o].pid /\ s = pid[req'[o].run]
    BY <1>5 DEF Accompanied
  <2>1. CASE o = q
    BY <1>2, <1>3, <1>4, <1>6, <1>8, <2>1
  <2>2. CASE o # q
    BY <1>2, <1>3, <1>7, <1>8, <2>2 DEF PInv, Accompanied
  <2>. QED
    BY <2>1, <2>2
<1>13. Recorded'
  BY <1>2, <1>5, <1>8 DEF PInv, Recorded
<1>14. Found'
  BY <1>2, <1>4, <1>5 DEF PInv, Found, Course
<1>15. SettledIsIdle'
  BY <1>2, <1>4, <1>5, <1>8 DEF PInv, SettledIsIdle, Course, Aside, Opening
<1>. QED
  BY <1>9, <1>10, <1>11, <1>12, <1>13, <1>14, <1>15 DEF PInv

(* A patient caller finds no request under way and no process that does not
   drive; and what drives is what the row names. *)
LEMMA AskInv ==
  ASSUME Patient, RowOK, SupOK, ReqOK, Requested, Manned, PInv,
         NEW q \in Slots, NEW kind \in Kinds, NEW r \in Runs, Ask(q, kind, r)
  PROVE  PInv'
<1>1. /\ \A o \in Slots : req[o].run # r
      /\ \A p \in Procs : Alive(p) /\ sup[p].run = r => sup[p].pc \notin Aside
  BY DEF Ask, Busy, Supervisors, Aside
<1>2. /\ UNCHANGED <<lifecycle, pid, sup>>
      /\ lifecycle[r] \in LegalIn[kind]
      /\ \A o \in Slots \ {q} : req'[o] = req[o]
      /\ req'[q].run = r /\ req'[q].kind = kind /\ req'[q].pid = pid[r]
      /\ req'[q].pc = CASE kind \in {"launch", "resume", "continue"} -> "sweep"
                        [] kind = "park" /\ control[r] \in {"stop", "finish"} -> "grace"
                        [] OTHER -> "flag"
  BY DEF Ask, row, ReqOK
<1>3. /\ kind \in Starting => req'[q].pc = "sweep"
      /\ kind \notin Starting => req'[q].pc \in {"flag", "grace"}
      /\ req'[q].pc = "grace" => kind = "park"
  BY <1>2 DEF Starting
<1>4. /\ kind # "launch" => lifecycle[r] # "none"
      /\ kind = "resume" => lifecycle[r] = "paused"
      /\ kind = "launch" => lifecycle[r] = "none"
      /\ kind = "continue" => lifecycle[r] \in Endings
  BY <1>2 DEF Kinds, LegalIn, Endings, Live, Lane
<1>5. Course'
  BY <1>2, <1>3, <1>4 DEF PInv, Course, Starting
<1>6. OneRequest'
  BY <1>1, <1>2 DEF PInv, OneRequest
<1>7. Accompanied'
  <2>. SUFFICES ASSUME NEW p \in Procs, Alive(p), sup[p].run = r
                PROVE  kind \notin Starting /\ p = pid[r]
    BY <1>2, <1>3 DEF PInv, Accompanied, Alive
  <2>1. sup[p].pc \notin Aside
    BY <1>1
  <2>2. lifecycle[r] # "none" /\ lifecycle[r] \notin Settled
    BY <2>1 DEF PInv, SettledIsIdle
  <2>3. pid[r] = p
    BY <2>1 DEF PInv, Recorded, Aside, Opening
  <2>. QED
    BY <1>4, <2>2, <2>3 DEF Starting, Settled
<1>8. OneProcess' /\ Recorded' /\ Found' /\ SettledIsIdle'
  BY <1>2 DEF PInv, OneProcess, Recorded, Found, SettledIsIdle, Alive
<1>. QED
  BY <1>5, <1>6, <1>7, <1>8 DEF PInv

LEMMA PatientInit == Init => PInv
<1>. SUFFICES ASSUME Init PROVE PInv
  OBVIOUS
<1>1. Course /\ OneRequest
  BY DEF Init, Idle, Course, OneRequest
<1>2. OneProcess /\ Accompanied /\ Recorded /\ Found /\ SettledIsIdle
  BY DEF Init, Alive, OneProcess, Accompanied, Recorded, Found, SettledIsIdle
<1>. QED
  BY <1>1, <1>2 DEF PInv

LEMMA PatientStep == Patient /\ IInv /\ PInv /\ [Next]_vars => PInv'
<1>. SUFFICES ASSUME Patient, RowOK, SupOK, ReqOK, Requested, Manned, PInv, [Next]_vars PROVE PInv'
  BY TypeParts DEF IInv
<1>1. ASSUME NEW q \in Slots, NEW kind \in Kinds, NEW r \in Runs, Ask(q, kind, r) PROVE PInv'
  BY <1>1, AskInv
<1>2. ASSUME NEW q \in Slots, Request(q) \/ SpawnFails(q) \/ Abandon(q) PROVE PInv'
  <2>1. CASE req[q].pc = "idle"
    <3>1. Abandon(q)
      BY <1>2, <2>1 DEF Request, Flag, Sweep, LaneCheck, Create, Extend, Spawn, Stamp, Kill, EndRun,
         Unflag, Grace, Park, SpawnFails
    <3>2. UNCHANGED <<lifecycle, pid, sup>> /\ req'[q].pc = "idle" /\ \A o \in Slots \ {q} : req'[o] = req[o]
      BY <3>1, FreeEffect DEF Abandon, row, Idle
    <3>3. Course'
      BY <3>2 DEF PInv, Course, Idle
    <3>4. OneRequest' /\ OneProcess' /\ Accompanied' /\ Recorded' /\ Found' /\ SettledIsIdle'
      BY <3>2, <2>1 DEF PInv, OneRequest, OneProcess, Accompanied, Recorded, Found, SettledIsIdle, Alive
    <3>. QED
      BY <3>3, <3>4 DEF PInv
  <2>2. CASE req[q].pc # "idle"
    BY <1>2, <2>2, RequestInv, SpawnInv
  <2>. QED
    BY <2>1, <2>2
<1>3. ASSUME NEW p \in Procs, Supervised(p) PROVE PInv'
  BY <1>3, SupervisedInv
<1>4. ASSUME NEW r \in Runs, Delete(r) \/ RecRead(r) \/ Age(r) PROVE PInv'
  BY <1>4, KeptInv DEF Delete, RecRead, Age, Kept, row
<1>5. CASE RecMark
  BY <1>5, KeptInv DEF RecMark, Put, Kept, RowOK
<1>6. CASE UNCHANGED vars
  BY <1>6, KeptInv DEF vars, row, Kept
<1>. QED
  BY <1>1, <1>2, <1>3, <1>4, <1>5, <1>6 DEF Next, Supervised

(* While people send a run one request at a time, PInv holds whatever the
   processes, the reconciler, the clock and the faults do. *)
THEOREM PatientInvariant == ASSUME Patient PROVE Spec => [](IInv /\ PInv)
<1>1. Init => IInv /\ PInv
  BY InitInv, PatientInit
<1>2. IInv /\ PInv /\ [Next]_vars => (IInv /\ PInv)'
  BY StepInv, PatientStep
<1>. QED
  BY <1>1, <1>2, PTL DEF Spec

(* controls._resume may start a process: a paused run has none at work. *)
THEOREM PausedRunsAreIdle == ASSUME Patient PROVE Spec => []PausedIsIdle
<1>1. PInv => PausedIsIdle
  BY DEF PInv, SettledIsIdle, PausedIsIdle, Supervisors, Settled, Aside
<1>. QED
  BY <1>1, PatientInvariant, PTL

(* quiesce_supervisors parks no run that any process still belongs to, named by
   its row or not. *)
THEOREM ShutdownParksOnlyTheDead == ASSUME Patient PROVE Spec => ShutdownParksTheDead
<1>1. ASSUME IInv, PInv, [Next]_vars, NEW r \in Runs, Parks(r) PROVE Supervisors(r) = {}
  <2>1. PICK q \in Slots : Park(q) /\ req[q].run = r
    BY <1>1, WhoParks
  <2>2. req[q].pc = "park" /\ req[q].kind \notin Starting
    BY <1>1, <2>1 DEF Park, PInv, Course
  <2>3. \A p \in Procs : ~(Alive(p) /\ sup[p].run = r)
    BY <1>1, <2>1, <2>2 DEF PInv, Accompanied
  <2>. QED
    BY <2>3 DEF Supervisors
<1>2. IInv /\ PInv /\ [Next]_vars => [\A r \in Runs : Parks(r) => Supervisors(r) = {}]_vars
  BY <1>1
<1>. QED
  BY <1>2, PatientInvariant, PTL DEF Spec, ShutdownParksTheDead

-----------------------------------------------------------------------------
(* Nobody need be patient.  A launch and a continue write the lane's lifecycle
   in the transaction that grants them the run, so the grant is a claim: nobody
   is granted the run again before the claim, or the process it started, is
   through with it.  A resume leaves the run "paused" until its process says
   otherwise, and a force stop writes an ending over whatever it did not kill:
   the theorem leaves out these two, and nothing else. *)
Startable  == Endings \cup {"none"}
Working(p) == Alive(p) /\ sup[p].pc \notin {"failing", "leaving"}

ClaimKinds ==
  \A q \in Slots : /\ req[q].kind \notin {"resume", "force_stop"}
                   /\ req[q].pc \notin {"kill", "end", "unflag"}
                   /\ req[q].pc = "create" => req[q].kind = "launch"

(* A launch has its run to itself until the row is there. *)
Making(q) == req[q].kind = "launch" /\ req[q].pc \in {"sweep", "create"}
Fresh ==
  \A q \in Slots : Making(q) =>
    /\ lifecycle[req[q].run] \in {"none", "lost"}
    /\ \A o \in Slots \ {q} : req[o].pc # "idle" => req[o].run # req[q].run
    /\ \A p \in Procs : Alive(p) => sup[p].run # req[q].run

(* A run that was granted, or that a process may still drive, cannot be granted. *)
Claimed ==
  /\ \A q \in Slots : req[q].pc = "spawn" => lifecycle[req[q].run] \notin Startable
  /\ \A p \in Procs : Alive(p) => lifecycle[sup[p].run] # "none"
  /\ \A p \in Procs : Working(p) => lifecycle[sup[p].run] \notin Startable

OneClaim ==
  /\ \A q, o \in Slots : req[q].pc = "spawn" /\ req[o].pc = "spawn" /\ req[q].run = req[o].run => q = o
  /\ \A p, o \in Procs : Working(p) /\ Working(o) /\ sup[p].run = sup[o].run => p = o
  /\ \A q \in Slots, p \in Procs : req[q].pc = "spawn" /\ Working(p) => sup[p].run # req[q].run

ClaimInv == ClaimKinds /\ Fresh /\ Claimed /\ OneClaim

LEMMA LifecyclesApart ==
  /\ Startable = {"completed", "stopped", "none"}
  /\ \A l \in Lane \cup {"failed", "paused", "lost"} : l \notin Startable
BY DEF Startable, Endings, Lane

(* The reconciler, the clock and a deletion leave every claim alone. *)
LEMMA KeptClaim ==
  ASSUME ClaimInv, Requested, Manned, UNCHANGED <<req, sup>>, \A r \in Runs : Kept(r)
  PROVE  ClaimInv'
<1>1. \A q \in Slots : req[q].pc # "idle" => Kept(req[q].run)
  BY DEF Requested
<1>2. \A p \in Procs : Alive(p) => Kept(sup[p].run)
  BY DEF Manned, Alive
<1>3. ClaimKinds' /\ OneClaim'
  BY DEF ClaimInv, ClaimKinds, OneClaim, Working, Alive
<1>4. Fresh'
  BY <1>1 DEF ClaimInv, Fresh, Making, Kept, Alive
<1>5. Claimed'
  BY <1>1, <1>2, LifecyclesApart DEF ClaimInv, Claimed, Kept, Working, Alive
<1>. QED
  BY <1>3, <1>4, <1>5 DEF ClaimInv

(* A process writes its own run alone, and an ending only with its last word. *)
LEMMA SupervisedClaim ==
  ASSUME RowOK, SupOK, Requested, Manned, ClaimInv, NEW p \in Procs, Supervised(p)
  PROVE  ClaimInv'
<1>. DEFINE r == sup[p].run
<1>1. ProcEffect(p) /\ r \in Runs
  BY SupervisedEffect DEF ProcEffect, Manned, Alive
<1>2. \A o \in Procs : Alive(o)' => Alive(o) /\ sup'[o].run = sup[o].run /\ sup[o].run \in Runs
  BY <1>1 DEF ProcEffect, Alive, Manned
<1>3. \A o \in Procs : Working(o)' => Working(o) /\ sup'[o].run = sup[o].run /\ sup[o].run \in Runs
  BY <1>1, <1>2 DEF ProcEffect, Working, Alive
<1>4. \A q \in Slots : req[q].pc # "idle" => req[q].run \in Runs
  BY DEF Requested
<1>5. \A s \in Runs : s # r => lifecycle'[s] = lifecycle[s]
  BY <1>1 DEF ProcEffect
<1>6. Working(p) \/ lifecycle'[r] \in {lifecycle[r], "failed"}
  BY <1>1 DEF ProcEffect, Working
<1>7. ClaimKinds' /\ OneClaim'
  BY <1>1, <1>3 DEF ProcEffect, ClaimInv, ClaimKinds, OneClaim
<1>8. Fresh'
  <2>. SUFFICES ASSUME NEW q \in Slots, Making(q), UNCHANGED req
                PROVE  /\ lifecycle'[req[q].run] \in {"none", "lost"}
                       /\ \A o \in Procs : Alive(o)' => sup'[o].run # req[q].run
    BY <1>1 DEF ProcEffect, Fresh, Making, ClaimInv
  <2>1. req[q].run \in Runs /\ req[q].run # r
    BY <1>1, <1>4 DEF ProcEffect, Making, Fresh, ClaimInv
  <2>. QED
    BY <1>2, <1>5, <2>1 DEF Fresh, ClaimInv
<1>9. Claimed'
  <2>1. ASSUME NEW q \in Slots, req'[q].pc = "spawn" PROVE lifecycle'[req'[q].run] \notin Startable
    <3>1. req'[q] = req[q] /\ req[q].run \in Runs /\ lifecycle[req[q].run] \notin Startable
      BY <1>1, <1>4, <2>1 DEF ProcEffect, ClaimInv, Claimed
    <3>2. CASE req[q].run # r
      BY <1>5, <3>1, <3>2
    <3>3. CASE req[q].run = r
      <4>1. ~ Working(p)
        BY <2>1, <3>1, <3>3 DEF ClaimInv, OneClaim
      <4>. QED
        BY <1>6, <3>1, <3>3, <4>1, LifecyclesApart
    <3>. QED
      BY <3>2, <3>3
  <2>2. ASSUME NEW o \in Procs, Alive(o)' PROVE lifecycle'[sup'[o].run] # "none"
    BY <1>1, <1>2, <1>5, <2>2 DEF ProcEffect, ClaimInv, Claimed
  <2>3. ASSUME NEW o \in Procs, Working(o)' PROVE lifecycle'[sup'[o].run] \notin Startable
    <3>1. Working(o) /\ sup'[o].run = sup[o].run /\ sup[o].run \in Runs /\ lifecycle[sup[o].run] \notin Startable
      BY <1>3, <2>3 DEF ClaimInv, Claimed
    <3>2. CASE sup[o].run # r
      BY <1>5, <3>1, <3>2
    <3>3. CASE sup[o].run = r /\ ~ Working(p)
      BY <1>6, <3>1, <3>3, LifecyclesApart
    <3>4. CASE o = p
      <4>1. sup'[p].pc # "leaving"
        BY <2>3, <3>4 DEF Working
      <4>2. lifecycle'[r] = lifecycle[r] \/ lifecycle'[r] \in Lane \cup {"failed"}
        BY <1>1, <4>1 DEF ProcEffect
      <4>. QED
        BY <3>1, <3>4, <4>2, LifecyclesApart
    <3>. QED
      BY <3>1, <3>2, <3>3, <3>4 DEF ClaimInv, OneClaim
  <2>. QED
    BY <2>1, <2>2, <2>3 DEF Claimed
<1>. QED
  BY <1>7, <1>8, <1>9 DEF ClaimInv

(* Only a grant, and the failure of its spawn, can write an ending or end one. *)
LEMMA ClaimWrites ==
  ASSUME RowOK, ReqOK, NEW q \in Slots, req[q].run \in Runs, req[q].pc # "end",
         Request(q) \/ SpawnFails(q) \/ Abandon(q)
  PROVE  LET r == req[q].run
         IN /\ \/ Kept(r) \/ req[q].pc \in {"create", "spawn"}
               \/ lifecycle'[r] = "paused" \/ lifecycle[r] \in Endings
            /\ req[q].pc = "extend" /\ req'[q].pc = "spawn" => lifecycle[r] \in Endings
<1>. DEFINE r == req[q].run
<1>1. ASSUME UNCHANGED lifecycle, req[q].pc # "extend"
      PROVE  Kept(r) /\ req[q].pc # "extend"
  BY <1>1 DEF Kept
<1>2. CASE Extend(q)
  <2>1. CASE lifecycle[r] \in Endings
    BY <2>1
  <2>2. CASE lifecycle[r] \notin Endings
    <3>1. Free(q) /\ UNCHANGED lifecycle
      BY <1>2, <2>2 DEF Extend
    <3>2. req'[q].pc = "idle"
      BY <3>1, FreeEffect DEF Idle
    <3>. QED
      BY <3>1, <3>2 DEF Kept
  <2>. QED
    BY <2>1, <2>2
<1>3. CASE Sweep(q)
  BY <1>3 DEF Sweep, Kept, RowOK
<1>4. CASE Create(q) \/ Spawn(q) \/ SpawnFails(q)
  BY <1>4 DEF Create, Spawn, SpawnFails
<1>5. CASE Park(q)
  BY <1>5 DEF Park, Put, Kept, RowOK
<1>6. CASE Abandon(q)
  <2>1. req'[q].pc = "idle" /\ UNCHANGED lifecycle
    BY <1>6, FreeEffect DEF Abandon, Idle, row
  <2>. QED
    BY <2>1 DEF Kept
<1>7. CASE Flag(q) \/ LaneCheck(q) \/ Stamp(q) \/ Kill(q) \/ Unflag(q) \/ Grace(q)
  BY <1>1, <1>7 DEF Flag, LaneCheck, Stamp, Kill, Unflag, Grace, row
<1>8. ~ EndRun(q)
  BY DEF EndRun
<1>. QED
  BY <1>2, <1>3, <1>4, <1>5, <1>6, <1>7, <1>8 DEF Request

(* A request other than a spawn grants a run only when nothing claims it. *)
LEMMA RequestClaim ==
  ASSUME RowOK, SupOK, ReqOK, Requested, Manned, ClaimInv, NEW q \in Slots, req[q].pc # "idle",
         Request(q) \/ SpawnFails(q) \/ Abandon(q), ~Spawn(q)
  PROVE  ClaimInv'
<1>. DEFINE r == req[q].run
<1>1. RequestMoves(q) /\ RequestWrites(q) /\ r \in Runs
  BY ServedMoves, ServedWrites DEF Requested, RequestEffect
<1>2. \A o \in Procs : Alive(o)' => Alive(o) /\ sup'[o] = sup[o] /\ sup[o].run \in Runs
  BY <1>1 DEF RequestMoves, RequestWrites, Alive, Manned
<1>3. \A o \in Procs : Working(o)' => Working(o) /\ sup'[o] = sup[o] /\ sup[o].run \in Runs
  BY <1>2 DEF Working
<1>4. \A o \in Slots \ {q} : req'[o] = req[o] /\ (req[o].pc # "idle" => req[o].run \in Runs)
  BY <1>1 DEF RequestMoves, Requested
<1>5. req'[q] = Idle \/ (Goes(q) /\ req'[q].run = r /\ req'[q].kind = req[q].kind)
  BY <1>1 DEF RequestMoves
<1>6. \A s \in Runs : s # r => Kept(s)
  BY <1>1 DEF RequestWrites
<1>7. /\ \/ Kept(r) \/ req[q].pc \in {"create", "spawn"}
         \/ lifecycle'[r] = "paused" \/ lifecycle[r] \in Endings
      /\ req[q].pc = "extend" /\ req'[q].pc = "spawn" => lifecycle[r] \in Endings
  BY <1>1, ClaimWrites DEF ClaimInv, ClaimKinds
<1>8. req[q].kind \notin {"resume", "force_stop"} /\ (req[q].pc = "create" => Making(q))
  BY DEF ClaimInv, ClaimKinds, Making
<1>9. req'[q].pc = "spawn" => lifecycle'[r] = "queued" /\ (Making(q) \/ lifecycle[r] \in Endings)
  BY <1>5, <1>7, <1>8 DEF Goes, Idle
<1>10. Making(q)' => Making(q) /\ Kept(r) /\ req'[q].run = r
  BY <1>1, <1>5 DEF Making, Goes, Idle, RequestWrites
<1>11. ClaimKinds'
  <2>1. ClaimKinds!(q)'
    BY <1>5, <1>8 DEF Goes, Idle, ClaimInv, ClaimKinds
  <2>. QED
    BY <1>4, <2>1 DEF ClaimInv, ClaimKinds
<1>12. Fresh'
  <2>. SUFFICES ASSUME NEW o \in Slots, Making(o)'
                PROVE  /\ lifecycle'[req'[o].run] \in {"none", "lost"}
                       /\ \A s \in Slots \ {o} : req'[s].pc # "idle" => req'[s].run # req'[o].run
                       /\ \A p \in Procs : Alive(p)' => sup'[p].run # req'[o].run
    BY DEF Fresh
  <2>1. CASE o = q
    BY <1>2, <1>4, <1>10, <2>1 DEF Kept, ClaimInv, Fresh
  <2>2. CASE o # q
    <3>1. Making(o) /\ req'[o] = req[o] /\ req[o].run \in Runs /\ req[o].run # r
      BY <1>4, <2>2 DEF Making, ClaimInv, Fresh
    <3>2. \A s \in Slots : req'[s].pc # "idle" => req[s].pc # "idle" /\ req'[s].run = req[s].run
      BY <1>4, <1>5 DEF Idle
    <3>. QED
      BY <1>2, <1>6, <3>1, <3>2 DEF Kept, ClaimInv, Fresh
  <2>. QED
    BY <2>1, <2>2
<1>13. ASSUME NEW s \in Runs, lifecycle[s] \notin Startable,
              s = r => ~Making(q) /\ req[q].pc # "spawn"
       PROVE  lifecycle'[s] \notin Startable
  BY <1>6, <1>7, <1>8, <1>13, LifecyclesApart DEF Kept, Endings
<1>14. Claimed'
  <2>1. ASSUME NEW o \in Slots, req'[o].pc = "spawn" PROVE lifecycle'[req'[o].run] \notin Startable
    <3>1. CASE o = q
      BY <1>5, <1>9, <2>1, <3>1, LifecyclesApart DEF Idle, Lane
    <3>2. CASE o # q
      <4>1. req'[o] = req[o] /\ req[o].run \in Runs /\ lifecycle[req[o].run] \notin Startable
        BY <1>4, <2>1, <3>2 DEF ClaimInv, Claimed
      <4>2. req[o].run = r => ~Making(q) /\ req[q].pc # "spawn"
        BY <2>1, <3>2, <4>1 DEF ClaimInv, Fresh, OneClaim
      <4>. QED
        BY <1>13, <4>1, <4>2
    <3>. QED
      BY <3>1, <3>2
  <2>2. ASSUME NEW p \in Procs, Alive(p)' PROVE lifecycle'[sup'[p].run] # "none"
    BY <1>1, <1>2, <1>6, <2>2 DEF RequestWrites, Kept, ClaimInv, Claimed
  <2>3. ASSUME NEW p \in Procs, Working(p)' PROVE lifecycle'[sup'[p].run] \notin Startable
    <3>1. Working(p) /\ sup'[p] = sup[p] /\ sup[p].run \in Runs /\ lifecycle[sup[p].run] \notin Startable
      BY <1>3, <2>3 DEF ClaimInv, Claimed
    <3>2. sup[p].run = r => ~Making(q) /\ req[q].pc # "spawn"
      BY <3>1 DEF ClaimInv, Fresh, OneClaim, Working
    <3>. QED
      BY <1>13, <3>1, <3>2
  <2>. QED
    BY <2>1, <2>2, <2>3 DEF Claimed
<1>15. OneClaim'
  <2>1. ASSUME NEW o \in Slots, o # q, req'[o].pc = "spawn", req'[q].pc = "spawn" PROVE req'[o].run # req'[q].run
    BY <1>4, <1>5, <1>9, <2>1, LifecyclesApart DEF Idle, ClaimInv, Fresh, Claimed, Endings
  <2>2. ASSUME NEW p \in Procs, Working(p)', req'[q].pc = "spawn" PROVE sup'[p].run # req'[q].run
    BY <1>3, <1>5, <1>9, <2>2, LifecyclesApart DEF Idle, ClaimInv, Fresh, Claimed, Working, Endings
  <2>. QED
    BY <1>3, <1>4, <2>1, <2>2 DEF ClaimInv, OneClaim
<1>. QED
  BY <1>11, <1>12, <1>14, <1>15 DEF ClaimInv

(* The process a claim starts takes the claim over. *)
LEMMA SpawnClaim ==
  ASSUME RowOK, SupOK, ReqOK, Requested, Manned, ClaimInv, NEW q \in Slots, Spawn(q)
  PROVE  ClaimInv'
<1>. DEFINE r == req[q].run
<1>1. PICK p \in Procs : /\ At(p, "unborn")
                         /\ sup' = [sup EXCEPT ![p] = [@ EXCEPT !.run = req[q].run, !.pc = "boot"]]
                         /\ req' = [req EXCEPT ![q].pc = "stamp", ![q].pid = p]
  BY DEF Spawn
<1>2. /\ sup'[p].pc = "boot" /\ sup'[p].run = r
      /\ \A o \in Procs \ {p} : sup'[o] = sup[o]
  BY <1>1 DEF SupOK, Sups
<1>3. /\ req'[q].pc = "stamp" /\ req'[q].run = r /\ req'[q].kind = req[q].kind
      /\ \A o \in Slots \ {q} : req'[o] = req[o]
  BY <1>1 DEF ReqOK, Requests
<1>4. req[q].pc = "spawn" /\ r \in Runs /\ UNCHANGED lifecycle
  BY DEF Spawn, Requested, row
<1>5. \A o \in Procs \ {p} : (Alive(o)' <=> Alive(o)) /\ (Working(o)' <=> Working(o))
  BY <1>2 DEF Alive, Working
<1>6. lifecycle[r] \notin Startable
  BY <1>4 DEF ClaimInv, Claimed
<1>7. ClaimKinds'
  BY <1>3 DEF ClaimInv, ClaimKinds
<1>8. Fresh'
  <2>. SUFFICES ASSUME NEW o \in Slots, Making(o)'
                PROVE  /\ lifecycle'[req'[o].run] \in {"none", "lost"}
                       /\ \A s \in Slots \ {o} : req'[s].pc # "idle" => req'[s].run # req'[o].run
                       /\ \A s \in Procs : Alive(s)' => sup'[s].run # req'[o].run
    BY DEF Fresh
  <2>1. o # q /\ Making(o) /\ req'[o] = req[o]
    BY <1>3 DEF Making
  <2>2. req[o].run # r
    BY <1>4, <2>1 DEF ClaimInv, Fresh
  <2>. QED
    BY <1>2, <1>3, <1>4, <1>5, <2>1, <2>2 DEF ClaimInv, Fresh
<1>9. Claimed'
  BY <1>2, <1>3, <1>4, <1>5, <1>6, LifecyclesApart DEF ClaimInv, Claimed
<1>10. OneClaim'
  <2>1. \A o \in Slots \ {q} : req[o].pc = "spawn" => req[o].run # r
    BY <1>4 DEF ClaimInv, OneClaim
  <2>2. \A o \in Procs : Working(o) => sup[o].run # r
    BY <1>4 DEF ClaimInv, OneClaim
  <2>. QED
    BY <1>2, <1>3, <1>5, <2>1, <2>2 DEF ClaimInv, OneClaim
<1>. QED
  BY <1>7, <1>8, <1>9, <1>10 DEF ClaimInv

(* Accepting a request claims nothing. *)
LEMMA AskClaim ==
  ASSUME "resume" \notin Asked, "force_stop" \notin Asked, ReqOK, Requested, ClaimInv,
         NEW q \in Slots, NEW kind \in Kinds, NEW r \in Runs, Ask(q, kind, r)
  PROVE  ClaimInv'
<1>1. /\ UNCHANGED <<lifecycle, sup>> /\ kind \in Asked
      /\ lifecycle[r] \in LegalIn[kind]
      /\ kind = "launch" => \A o \in Slots : req[o].run # r
      /\ \A o \in Slots \ {q} : req'[o] = req[o]
      /\ req'[q].run = r /\ req'[q].kind = kind
      /\ req'[q].pc = CASE kind \in {"launch", "resume", "continue"} -> "sweep"
                        [] kind = "park" /\ control[r] \in {"stop", "finish"} -> "grace"
                        [] OTHER -> "flag"
  BY DEF Ask, row, ReqOK
<1>2. req'[q].pc \in {"sweep", "grace", "flag"} /\ kind \notin {"resume", "force_stop"}
  BY <1>1
<1>3. /\ kind = "launch" => lifecycle[r] = "none"
      /\ kind # "launch" => lifecycle[r] \notin {"none", "lost"}
  BY <1>1 DEF Kinds, LegalIn, Endings, Live, Lane
<1>4. ClaimKinds'
  BY <1>1, <1>2 DEF ClaimInv, ClaimKinds
<1>5. Fresh'
  <2>. SUFFICES ASSUME NEW o \in Slots, Making(o)'
                PROVE  /\ lifecycle[req'[o].run] \in {"none", "lost"}
                       /\ \A s \in Slots \ {o} : req'[s].pc # "idle" => req'[s].run # req'[o].run
                       /\ \A p \in Procs : Alive(p) => sup[p].run # req'[o].run
    BY <1>1 DEF Fresh, Alive
  <2>1. CASE o = q
    BY <1>1, <1>3, <2>1 DEF Making, ClaimInv, Claimed
  <2>2. CASE o # q
    <3>1. Making(o) /\ req'[o] = req[o] /\ req[o].run # r
      BY <1>1, <1>3, <2>2 DEF Making, ClaimInv, Fresh
    <3>. QED
      BY <1>1, <2>2, <3>1 DEF ClaimInv, Fresh
  <2>. QED
    BY <2>1, <2>2
<1>6. Claimed' /\ OneClaim'
  BY <1>1, <1>2 DEF ClaimInv, Claimed, OneClaim, Working, Alive
<1>. QED
  BY <1>4, <1>5, <1>6 DEF ClaimInv

LEMMA ClaimInit == Init => ClaimInv
<1>. SUFFICES ASSUME Init PROVE ClaimInv
  OBVIOUS
<1>1. ClaimKinds /\ Fresh
  BY DEF Init, Idle, ClaimKinds, Fresh, Making
<1>2. Claimed /\ OneClaim
  BY DEF Init, Idle, Claimed, OneClaim, Working, Alive
<1>. QED
  BY <1>1, <1>2 DEF ClaimInv

LEMMA ClaimStep ==
  ASSUME "resume" \notin Asked, "force_stop" \notin Asked, IInv, ClaimInv, [Next]_vars
  PROVE  ClaimInv'
<1>0. RowOK /\ SupOK /\ ReqOK /\ Requested /\ Manned
  BY TypeParts DEF IInv
<1>1. ASSUME NEW q \in Slots, NEW kind \in Kinds, NEW r \in Runs, Ask(q, kind, r) PROVE ClaimInv'
  BY <1>0, <1>1, AskClaim
<1>2. ASSUME NEW q \in Slots, Request(q) \/ SpawnFails(q) \/ Abandon(q) PROVE ClaimInv'
  <2>1. CASE req[q].pc = "idle"
    <3>1. Abandon(q)
      BY <1>2, <2>1 DEF Request, Flag, Sweep, LaneCheck, Create, Extend, Spawn, Stamp, Kill, EndRun,
         Unflag, Grace, Park, SpawnFails
    <3>2. /\ UNCHANGED <<lifecycle, sup>> /\ req'[q].pc = "idle" /\ req'[q].kind = "none"
          /\ \A o \in Slots \ {q} : req'[o] = req[o]
      BY <1>0, <3>1, FreeEffect DEF Abandon, row, Idle
    <3>3. ClaimKinds' /\ Fresh'
      BY <3>2 DEF ClaimInv, ClaimKinds, Fresh, Making, Alive
    <3>4. Claimed' /\ OneClaim'
      BY <3>2 DEF ClaimInv, Claimed, OneClaim, Working, Alive
    <3>. QED
      BY <3>3, <3>4 DEF ClaimInv
  <2>2. CASE req[q].pc # "idle"
    BY <1>0, <1>2, <2>2, RequestClaim, SpawnClaim
  <2>. QED
    BY <2>1, <2>2
<1>3. ASSUME NEW p \in Procs, Supervised(p) PROVE ClaimInv'
  BY <1>0, <1>3, SupervisedClaim
<1>4. ASSUME NEW r \in Runs, Delete(r) \/ RecRead(r) \/ Age(r) PROVE ClaimInv'
  BY <1>0, <1>4, KeptClaim DEF Delete, RecRead, Age, Kept, row
<1>5. CASE RecMark
  BY <1>0, <1>5, KeptClaim DEF RecMark, Put, Kept, RowOK
<1>6. CASE UNCHANGED vars
  BY <1>0, <1>6, KeptClaim DEF vars, row, Kept
<1>. QED
  BY <1>1, <1>2, <1>3, <1>4, <1>5, <1>6 DEF Next, Supervised

(* store.py's single-writer discipline, with requests racing as they like: no
   two processes ever drive one run while it is launched, paused, stopped,
   finished, continued before its last process has exited, swept, shut down and
   deleted, whoever dies on the way.  It takes a resume or a force stop to break
   it. *)
THEOREM OneDriverAtATime ==
  ASSUME "resume" \notin Asked, "force_stop" \notin Asked
  PROVE  Spec => []OneDriver
<1>1. Init => IInv /\ ClaimInv
  BY InitInv, ClaimInit
<1>2. IInv /\ ClaimInv /\ [Next]_vars => (IInv /\ ClaimInv)'
  BY StepInv, ClaimStep
<1>3. ClaimInv => OneDriver
  BY DEF ClaimInv, OneClaim, Working, OneDriver, Drivers, Supervisors
<1>. QED
  BY <1>1, <1>2, <1>3, PTL DEF Spec

=============================================================================
