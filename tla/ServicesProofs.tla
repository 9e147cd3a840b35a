--------------------------- MODULE ServicesProofs ---------------------------
(***************************************************************************)
(* Proofs about a wave of calls, for every set of units, every width, any  *)
(* ceiling and any number of deaths and continues: CallWave keeps its      *)
(* reserve, accounts for every call and implements CallCeiling; and about  *)
(* the parts that stand beside the engine: the supervisor process, the     *)
(* stream tickets, the projection on disk, the import of archived runs and *)
(* the question workshop.  They share no state; each has its own           *)
(* invariant.                                                              *)
(***************************************************************************)
EXTENDS CallWave, Supervisor, Tickets, Projection, Imports, Workshop,
        SequenceTheorems, FiniteSetTheorems, WellFoundedInduction, TLAPS

-----------------------------------------------------------------------------
(* A wave of calls. *)

PC     == {"off", "gate", "slot", "guard", "calling", "done"}
Active == {"gate", "slot", "guard", "calling"}

(* A worker between its first line and its last owns its current attempt:   *)
(* it is open, no result of it is queued, and no later attempt is open.     *)
WorkersOwnTheirAttempt ==
  \A u \in Units :
    /\ pc[u] \in Active =>
         /\ <<u, attempt[u]>> \in open
         /\ \A m \in inbox : m.unit = u =>
              /\ m.kind = "finished"
              /\ m.attempt < attempt[u]
    /\ pc[u] \in {"gate", "slot", "guard"} => <<u, attempt[u]>> \notin flying
    /\ \A a \in Attempts : <<u, a>> \in open => a <= attempt[u]

(* A queued result is the only one of its attempt, and the attempt is open. *)
ResultsAreOpen ==
  \A m \in inbox : m.kind = "finished" =>
    /\ <<m.unit, m.attempt>> \in open
    /\ \A n \in inbox : n.kind = "finished" /\ n.unit = m.unit /\ n.attempt = m.attempt => n = m

(* Nothing flies but a call its worker waits for or one whose result is     *)
(* queued.                                                                  *)
FlyingIsSeen ==
  \A u \in Units, a \in Attempts : <<u, a>> \in flying =>
    \/ pc[u] = "calling" /\ attempt[u] = a
    \/ \E m \in inbox : m.kind = "finished" /\ m.unit = u /\ m.attempt = a

(* Only the units of the open wave have a worker or a message, and a unit   *)
(* whose "done" is queued has no worker running.                            *)
WaveIsClosed ==
  /\ \A u \in Units : u \notin live => pc[u] = "off"
  /\ \A m \in inbox : m.unit \in live
  /\ \A m \in inbox : m.kind # "finished" => pc[m.unit] = "done"
  /\ live = {} => open = {}
  /\ live # {} => phase \in {"rounds", "report"}

(* What work has booked leaves the report its calls.                        *)
WorkLeavesReserve ==
  /\ reporting <= calls_used
  /\ \/ calls_used = reporting
     \/ calls_used - reporting + Reserve <= budget_calls

Accounted ==
  /\ unsettled = Cardinality(open)
  /\ paid <= calls_used + Cardinality(flying) + lost

IInv ==
  /\ TypeOK
  /\ WorkersOwnTheirAttempt
  /\ ResultsAreOpen
  /\ FlyingIsSeen
  /\ WaveIsClosed
  /\ ReserveHeld
  /\ WorkLeavesReserve
  /\ Accounted
  /\ ReportAffordable

WaveInv ==
  /\ WorkersOwnTheirAttempt
  /\ ResultsAreOpen
  /\ FlyingIsSeen
  /\ WaveIsClosed

-----------------------------------------------------------------------------
(* Sets of attempts are finite, so they can be counted.                     *)
LEMMA AttemptSets ==
  ASSUME NEW S \in SUBSET (Units \X Attempts)
  PROVE  IsFiniteSet(S) /\ Cardinality(S) \in Nat
<1>1. IsFiniteSet(Attempts)
  <2>1. IsFiniteSet({1} \cup {2})
    BY FS_Singleton, FS_AddElement
  <2>2. Attempts = {1} \cup {2}
    BY DEF Attempts, MaxCallAttempts
  <2>3. QED
    BY <2>1, <2>2
<1>2. IsFiniteSet(Units \X Attempts)
  BY <1>1, FS_Product, CallWaveAssumption
<1>3. QED
  BY <1>2, FS_Subset, FS_CardinalityType

(* One first attempt for each unit of a wave.                               *)
LEMMA FirstAttempts ==
  ASSUME NEW A \in SUBSET Units
  PROVE  /\ A \X {1} \in SUBSET (Units \X Attempts)
         /\ Cardinality(A \X {1}) = Cardinality(A)
         /\ Cardinality(A) \in Nat
         /\ A # {} => Cardinality(A) > 0
<1>1. IsFiniteSet(A)
  BY FS_Subset, CallWaveAssumption
<1>2. Cardinality(A) \in Nat /\ (A # {} => Cardinality(A) > 0)
  BY <1>1, FS_CardinalityType, FS_EmptySet
<1>3. Cardinality(A \X {1}) = Cardinality(A)
  <2>1. IsFiniteSet({1}) /\ Cardinality({1}) = 1
    BY FS_Singleton
  <2>2. Cardinality(A \X {1}) = Cardinality(A) * Cardinality({1})
    BY <1>1, <2>1, FS_Product
  <2>3. QED
    BY <1>2, <2>1, <2>2
<1>4. A \X {1} \in SUBSET (Units \X Attempts)
  BY DEF Attempts, MaxCallAttempts
<1>5. QED
  BY <1>2, <1>3, <1>4

(* Giving up a slot moves the worker itself, and perhaps one that waits.    *)
LEMMA FreeSlotEffect ==
  ASSUME TypeOK, NEW u \in Units, NEW next \in PC, pc[u] # "slot", FreeSlot(u, next)
  PROVE  /\ pc' \in [Units -> PC]
         /\ pc'[u] = next
         /\ \A v \in Units \ {u} : pc'[v] = pc[v] \/ (pc[v] = "slot" /\ pc'[v] = "guard")
<1>1. CASE Waiting = {}
  BY <1>1 DEF FreeSlot, TypeOK, PC
<1>2. CASE Waiting # {}
  <2>1. PICK v \in Waiting : pc' = [pc EXCEPT ![u] = next, ![v] = "guard"]
    BY <1>2 DEF FreeSlot
  <2>2. v \in Units /\ v # u /\ pc[v] = "slot"
    BY <2>1 DEF Waiting
  <2>3. QED
    BY <2>1, <2>2 DEF TypeOK, PC
<1>3. QED
  BY <1>1, <1>2

LEMMA NextAttemptAtType == NextAttemptAt \in {"gate", "slot", "guard"}
  BY DEF NextAttemptAt

(* A wave that has just been launched.                                      *)
LEMMA LaunchEffect ==
  ASSUME TypeOK, NEW A \in SUBSET Units, Launch(A)
  PROVE  /\ live' = A /\ inbox' = {} /\ flying' = {} /\ open' = A \X {1}
         /\ open' \in SUBSET (Units \X Attempts)
         /\ attempt' = [u \in Units |-> 1] /\ attempt' \in [Units -> Attempts]
         /\ unsettled' = Cardinality(A) /\ unsettled' \in Nat
         /\ unsettled' = Cardinality(open')
         /\ pc' \in [Units -> PC]
         /\ \A u \in A : pc'[u] \in {"gate", "slot", "guard"}
         /\ \A u \in Units \ A : pc'[u] = "off"
<1>1. PICK first \in SUBSET A :
        pc' = [u \in Units |-> IF u \notin A THEN "off"
                               ELSE IF ~ready THEN "gate"
                               ELSE IF u \in first THEN "guard" ELSE "slot"]
  BY DEF Launch
<1>2. QED
  BY <1>1, FirstAttempts DEF Launch, Attempts, MaxCallAttempts, PC

(* A launched wave satisfies the wave's invariant.                          *)
LEMMA LaunchedWave ==
  ASSUME TypeOK, NEW A \in SUBSET Units, Launch(A),
         A # {} => phase' \in {"rounds", "report"}
  PROVE  WaveInv'
<1>1. WorkersOwnTheirAttempt'
  BY LaunchEffect DEF WorkersOwnTheirAttempt, Active
<1>2. ResultsAreOpen' /\ FlyingIsSeen'
  BY LaunchEffect DEF ResultsAreOpen, FlyingIsSeen
<1>3. WaveIsClosed'
  BY LaunchEffect DEF WaveIsClosed
<1>4. QED
  BY <1>1, <1>2, <1>3 DEF WaveInv

(* So does no wave.                                                         *)
LEMMA ClosedWave ==
  ASSUME NoWave
  PROVE  WaveInv'
  BY DEF NoWave, WaveInv, WorkersOwnTheirAttempt, ResultsAreOpen, FlyingIsSeen,
         WaveIsClosed, Active

-----------------------------------------------------------------------------
LEMMA InitInv == Init => IInv
<1> SUFFICES ASSUME Init PROVE IInv
  OBVIOUS
<1>1. TypeOK
  <2>1. budget_calls \in Nat \ {0} /\ steps \in 0 .. MaxSteps
    BY CallWaveAssumption DEF Init
  <2>2. crashes \in 0 .. MaxCrashes /\ continues \in 0 .. MaxContinues
    BY CallWaveAssumption DEF Init
  <2>3. attempt \in [Units -> Attempts]
    BY DEF Init, Attempts, MaxCallAttempts
  <2>4. QED
    BY <2>1, <2>2, <2>3 DEF Init, TypeOK
<1>2. WorkersOwnTheirAttempt /\ ResultsAreOpen /\ FlyingIsSeen /\ WaveIsClosed
  BY DEF Init, WorkersOwnTheirAttempt, ResultsAreOpen, FlyingIsSeen, WaveIsClosed, Active
<1>3. ReserveHeld /\ WorkLeavesReserve /\ ReportAffordable
  BY CallWaveAssumption DEF Init, ReserveHeld, WorkLeavesReserve, ReportAffordable
<1>4. Accounted
  BY FS_EmptySet DEF Init, Accounted
<1>5. QED
  BY <1>1, <1>2, <1>3, <1>4 DEF IInv

-----------------------------------------------------------------------------
(* Type correctness of the steps.                                           *)
LEMMA ReturnType ==
  ASSUME IInv, NEW u \in Units, NEW verdict \in {"ok", "again", "final"},
         NEW cost \in Costs \cup {0}, NEW limited \in BOOLEAN,
         Return(u, verdict, cost, limited)
  PROVE  TypeOK'
<1> DEFINE fin == [kind |-> "finished", unit |-> u, attempt |-> attempt[u],
                   cost |-> cost, limited |-> limited]
           end == [kind |-> "done", unit |-> u, ok |-> verdict = "ok"]
<1> USE DEF IInv
<1>1. pc[u] # "slot" /\ attempt[u] \in Attempts
  BY DEF Return, TypeOK
<1>2. fin \in Finished
  BY <1>1 DEF Finished
<1>3. end \in Done
  BY DEF Done
<1>4. UNCHANGED <<store, live, flying, phase, steps, exhausted, ready, overview_ok, history>>
  BY DEF Return
<1>5. CASE /\ AttemptsLeft(u)
           /\ inbox' = inbox \cup {fin}
           /\ attempt' = [attempt EXCEPT ![u] = @ + 1]
           /\ ReserveAttempt(u)
           /\ FreeSlot(u, NextAttemptAt)
  <2>1. attempt[u] + 1 \in Attempts
    BY <1>1, <1>5 DEF AttemptsLeft, Attempts, MaxCallAttempts
  <2>2. attempt' \in [Units -> Attempts] /\ open' \subseteq Units \X Attempts /\ unsettled' \in Nat
    BY <2>1, <1>5 DEF TypeOK, ReserveAttempt
  <2>3. pc' \in [Units -> PC]
    BY <1>1, <1>5, FreeSlotEffect, NextAttemptAtType DEF PC
  <2>4. flying' \subseteq open' /\ inbox' \subseteq Finished \cup Done \cup Budget
    BY <1>2, <1>4, <1>5 DEF TypeOK, ReserveAttempt
  <2>5. QED
    BY <1>4, <2>2, <2>3, <2>4 DEF TypeOK, PC, store, history
<1>6. CASE /\ inbox' = inbox \cup {fin, end}
           /\ FreeSlot(u, "done")
           /\ UNCHANGED <<attempt, unsettled, open>>
  <2>1. pc' \in [Units -> PC]
    BY <1>1, <1>6, FreeSlotEffect DEF PC
  <2>2. inbox' \subseteq Finished \cup Done \cup Budget
    BY <1>2, <1>3, <1>6 DEF TypeOK
  <2>3. QED
    BY <1>4, <1>6, <2>1, <2>2 DEF TypeOK, PC, store, history
<1>7. QED
  BY <1>5, <1>6 DEF Return

(* A result in the queue stands for a call that is still open.              *)
LEMMA ResultOpen ==
  ASSUME IInv, NEW m \in inbox, m.kind = "finished"
  PROVE  /\ m \in Finished
         /\ <<m.unit, m.attempt>> \in open
         /\ unsettled > 0
<1>1. m \in Finished
  BY DEF IInv, TypeOK, Done, Budget
<1>2. <<m.unit, m.attempt>> \in open
  BY DEF IInv, ResultsAreOpen
<1>3. IsFiniteSet(open) /\ Cardinality(open) \in Nat
  BY AttemptSets DEF IInv, TypeOK
<1>4. Cardinality(open) # 0
  BY <1>2, <1>3, FS_EmptySet
<1>5. QED
  BY <1>1, <1>2, <1>3, <1>4 DEF IInv, Accounted

LEMMA DrainType ==
  ASSUME IInv, Drain
  PROVE  TypeOK'
<1> USE DEF IInv
<1>1. PICK m \in inbox : DrainFinished(m) \/ DrainBudget(m) \/ DrainDone(m)
  BY DEF Drain
<1>2. CASE DrainFinished(m)
  <2>1. m \in Finished /\ unsettled > 0
    BY <1>2, ResultOpen DEF DrainFinished, Spend
  <2>2. m.cost \in Nat
    <3>1. m.cost \in Costs \cup {0}
      BY <2>1 DEF Finished
    <3>2. \A c \in Costs \cup {0} : c \in Nat
      BY CallWaveAssumption
    <3>3. QED
      BY <3>1, <3>2
  <2>3. calls_used' \in Nat /\ spend_usd' \in Nat /\ unsettled' \in Nat /\ reporting' \in Nat
    BY <1>2, <2>1, <2>2 DEF DrainFinished, Spend, TypeOK
  <2>4. exhausted' \in BOOLEAN
    BY <1>2 DEF DrainFinished, Spend
  <2>5. ready' \in BOOLEAN
    BY <1>2 DEF DrainFinished, Spend
  <2>6. QED
    BY <1>2, <2>3, <2>4, <2>5 DEF DrainFinished, Spend, TypeOK
<1>3. CASE DrainBudget(m)
  BY <1>3 DEF DrainBudget, TypeOK, store, history
<1>4. CASE DrainDone(m)
  <2>1. m.unit \in live
    BY DEF WaveIsClosed
  <2>2. overview_ok' \in BOOLEAN
    BY <1>4 DEF DrainDone
  <2>3. CASE live = {m.unit}
    BY <1>4, <2>2, <2>3, CallWaveAssumption DEF DrainDone, NoWave, TypeOK, store, history,
       Attempts, MaxCallAttempts
  <2>4. CASE live # {m.unit}
    BY <1>4, <2>1, <2>2, <2>4 DEF DrainDone, TypeOK, store, history
  <2>5. QED
    BY <2>3, <2>4
<1>5. QED
  BY <1>1, <1>2, <1>3, <1>4

LEMMA TypeStep == IInv /\ [Next]_vars => TypeOK'
<1> SUFFICES ASSUME IInv, [Next]_vars PROVE TypeOK'
  OBVIOUS
<1>0. TypeOK
  BY DEF IInv
<1>1. CASE StartStep
  <2>1. PICK A \in SUBSET Units : Launch(A)
    BY <1>1 DEF StartStep
  <2>2. PICK wanted, taken : exhausted' = (taken # wanted)
    BY <1>1 DEF StartStep
  <2>3. steps' \in 0 .. MaxSteps
    BY <1>0, <1>1, CallWaveAssumption DEF StartStep, TypeOK
  <2>4. exhausted' \in BOOLEAN
    BY <2>2
  <2>5. QED
    BY <1>0, <1>1, <2>1, <2>3, <2>4, LaunchEffect DEF StartStep, TypeOK, PC, store, history
<1>2. CASE StartReport
  <2>1. PICK u \in Units : Launch({u})
    BY <1>2 DEF StartReport
  <2>2. {u} \in SUBSET Units
    OBVIOUS
  <2>3. /\ live' \subseteq Units /\ inbox' = {} /\ flying' = {}
        /\ open' \in SUBSET (Units \X Attempts)
        /\ attempt' \in [Units -> Attempts] /\ unsettled' \in Nat /\ pc' \in [Units -> PC]
    BY <1>0, <2>1, <2>2, LaunchEffect
  <2>4. QED
    BY <1>0, <1>2, <2>3 DEF StartReport, TypeOK, PC, store, history
<1>3. CASE SkipReport
  <2>1. exhausted' \in BOOLEAN
    BY <1>3 DEF SkipReport
  <2>2. QED
    BY <1>0, <1>3, <2>1 DEF SkipReport, TypeOK, store, wave
<1>4. CASE EndReport
  BY <1>0, <1>4 DEF EndReport, TypeOK, wave, history
<1>5. ASSUME NEW u \in Units, Worker(u) PROVE TypeOK'
  <2>1. CASE SpawnRefused(u)
    <3>1. pc' \in [Units -> PC]
      BY <1>0, <2>1, FreeSlotEffect DEF SpawnRefused, PC
    <3>2. inbox' \subseteq Finished \cup Done \cup Budget
      <4>1. [kind |-> "budget", unit |-> u] \in Budget
        BY DEF Budget
      <4>2. [kind |-> "done", unit |-> u, ok |-> FALSE] \in Done
        BY DEF Done
      <4>3. QED
        BY <1>0, <2>1, <4>1, <4>2 DEF SpawnRefused, TypeOK
    <3>3. QED
      BY <1>0, <2>1, <3>1, <3>2 DEF SpawnRefused, TypeOK, PC, store, history
  <2>2. CASE Spawn(u)
    <3>1. <<u, attempt[u]>> \in open
      BY <2>2 DEF Spawn, IInv, WorkersOwnTheirAttempt, Active
    <3>2. QED
      BY <1>0, <2>2, <3>1 DEF Spawn, TypeOK, store
  <2>3. QED
    BY <1>5, <2>1, <2>2, ReturnType DEF Worker
<1>6. CASE Drain
  BY <1>6, DrainType
<1>7. CASE Release
  <2>1. pc' \in [Units -> PC]
    BY <1>0, <1>7 DEF Release, TypeOK, PC
  <2>2. /\ ready' \in BOOLEAN
        /\ UNCHANGED <<store, live, attempt, inbox, unsettled, open, flying, phase, steps,
                       exhausted, overview_ok, history>>
    BY <1>7 DEF Release
  <2>3. QED
    BY <1>0, <2>1, <2>2 DEF TypeOK, PC, store, history
<1>8. CASE Crash
  <2>1. IsFiniteSet(flying) /\ Cardinality(flying) \in Nat
    BY <1>0, AttemptSets DEF TypeOK
  <2>2. crashes' \in 0 .. MaxCrashes /\ lost' \in Nat
    BY <1>0, <1>8, <2>1, CallWaveAssumption DEF Crash, TypeOK
  <2>3. attempt' \in [Units -> Attempts] /\ pc' \in [Units -> PC]
    BY <1>8 DEF Crash, NoWave, Attempts, MaxCallAttempts, PC
  <2>4. /\ live' = {} /\ inbox' = {} /\ unsettled' = 0 /\ open' = {} /\ flying' = {}
        /\ phase' = "down" /\ exhausted' \in BOOLEAN /\ ready' \in BOOLEAN
        /\ UNCHANGED <<store, steps, overview_ok, paid, reporting, refused, continues>>
    BY <1>8 DEF Crash, NoWave
  <2>5. QED
    BY <1>0, <2>2, <2>3, <2>4 DEF TypeOK, PC, store
<1>9. CASE Resume
  BY <1>0, <1>9, CallWaveAssumption DEF Resume, TypeOK, store, wave, history
<1>10. CASE Continue
  <2>1. PICK b \in budget_calls .. MaxBudget : budget_calls' = b
    BY <1>10 DEF Continue
  <2>2. budget_calls' \in Nat \ {0} /\ steps' \in 0 .. MaxSteps
    BY <1>0, <1>10, <2>1, CallWaveAssumption DEF Continue, TypeOK
  <2>3. continues' \in 0 .. MaxContinues
    BY <1>0, <1>10, CallWaveAssumption DEF Continue, TypeOK
  <2>4. QED
    BY <1>0, <1>10, <2>2, <2>3 DEF Continue, TypeOK, wave
<1>11. CASE UNCHANGED vars
  BY <1>0, <1>11 DEF TypeOK, vars, store, wave, history
<1>12. QED
  BY <1>1, <1>2, <1>3, <1>4, <1>5, <1>6, <1>7, <1>8, <1>9, <1>10, <1>11 DEF Next, Closed

-----------------------------------------------------------------------------
(* The wave's invariant under the steps of its workers and its drain loop.  *)
LEMMA UnchangedWave ==
  ASSUME IInv, UNCHANGED wave, phase' = phase \/ live = {}
  PROVE  WaveInv'
  BY DEF IInv, WaveInv, wave, WorkersOwnTheirAttempt, ResultsAreOpen, FlyingIsSeen, WaveIsClosed

LEMMA SpawnRefusedWave ==
  ASSUME IInv, NEW u \in Units, SpawnRefused(u)
  PROVE  WaveInv'
<1> USE DEF IInv
<1>1. /\ pc'[u] = "done"
      /\ \A v \in Units \ {u} : pc'[v] = pc[v] \/ (pc[v] = "slot" /\ pc'[v] = "guard")
  BY FreeSlotEffect DEF SpawnRefused, PC
<1>2. UNCHANGED <<live, attempt, open, flying, phase>>
  BY DEF SpawnRefused
<1>3. inbox \subseteq inbox' /\ \A m \in inbox' \ inbox : m.unit = u /\ m.kind # "finished"
  BY DEF SpawnRefused
<1>4. WorkersOwnTheirAttempt'
  BY <1>1, <1>2, <1>3 DEF WorkersOwnTheirAttempt, Active
<1>5. ResultsAreOpen'
  BY <1>2, <1>3 DEF ResultsAreOpen
<1>6. FlyingIsSeen'
  <2>1. <<u, attempt[u]>> \notin flying
    BY DEF SpawnRefused, WorkersOwnTheirAttempt
  <2>2. QED
    BY <1>1, <1>2, <1>3, <2>1 DEF FlyingIsSeen, SpawnRefused
<1>7. WaveIsClosed'
  <2>1. u \in live
    BY DEF SpawnRefused, WaveIsClosed
  <2>2. QED
    BY <1>1, <1>2, <1>3, <2>1 DEF WaveIsClosed, TypeOK
<1>8. QED
  BY <1>4, <1>5, <1>6, <1>7 DEF WaveInv

LEMMA SpawnWave ==
  ASSUME IInv, NEW u \in Units, Spawn(u)
  PROVE  WaveInv'
<1> USE DEF IInv, TypeOK
<1>1. /\ pc[u] = "guard" /\ pc'[u] = "calling"
      /\ \A v \in Units \ {u} : pc'[v] = pc[v]
      /\ flying' = flying \cup {<<u, attempt[u]>>}
      /\ UNCHANGED <<live, attempt, inbox, open, phase>>
  BY DEF Spawn
<1>2. WorkersOwnTheirAttempt'
  BY <1>1 DEF WorkersOwnTheirAttempt, Active
<1>3. ResultsAreOpen'
  BY <1>1 DEF ResultsAreOpen
<1>4. FlyingIsSeen'
  BY <1>1 DEF FlyingIsSeen
<1>5. WaveIsClosed'
  BY <1>1 DEF WaveIsClosed
<1>6. QED
  BY <1>2, <1>3, <1>4, <1>5 DEF WaveInv
LEMMA ReturnWave ==
  ASSUME IInv, NEW u \in Units, NEW verdict \in {"ok", "again", "final"},
         NEW cost \in Costs \cup {0}, NEW limited \in BOOLEAN,
         Return(u, verdict, cost, limited)
  PROVE  WaveInv'
<1> DEFINE fin == [kind |-> "finished", unit |-> u, attempt |-> attempt[u],
                   cost |-> cost, limited |-> limited]
           end == [kind |-> "done", unit |-> u, ok |-> verdict = "ok"]
<1> USE DEF IInv
<1>1. /\ pc[u] \in {"calling", "guard"} /\ attempt[u] \in Attempts
      /\ <<u, attempt[u]>> \in open /\ u \in live
      /\ \A m \in inbox : m.unit = u => m.kind = "finished" /\ m.attempt < attempt[u]
      /\ \A a \in Attempts : <<u, a>> \in open => a <= attempt[u]
  BY DEF Return, TypeOK, WorkersOwnTheirAttempt, WaveIsClosed, Active
<1>2. UNCHANGED <<live, flying, phase>>
  BY DEF Return
<1>3. /\ fin.kind = "finished" /\ fin.unit = u /\ fin.attempt = attempt[u]
      /\ end.kind = "done" /\ end.unit = u
  OBVIOUS
<1> HIDE DEF fin, end
<1>4. /\ live \subseteq Units
      /\ \A m \in inbox : m.unit \in Units /\ (m.kind = "finished" => m.attempt \in Attempts)
  BY DEF TypeOK, Finished, Done, Budget
<1>5. CASE /\ AttemptsLeft(u)
           /\ inbox' = inbox \cup {fin}
           /\ attempt' = [attempt EXCEPT ![u] = @ + 1]
           /\ ReserveAttempt(u)
           /\ FreeSlot(u, NextAttemptAt)
  <2>1. /\ attempt'[u] = attempt[u] + 1
        /\ \A v \in Units \ {u} : attempt'[v] = attempt[v]
        /\ open' = open \cup {<<u, attempt[u] + 1>>}
        /\ attempt[u] \in Nat
    BY <1>1, <1>5 DEF TypeOK, ReserveAttempt, Attempts
  <2>2. /\ pc'[u] \in {"gate", "slot", "guard"}
        /\ \A v \in Units \ {u} : pc'[v] = pc[v] \/ (pc[v] = "slot" /\ pc'[v] = "guard")
    BY <1>1, <1>5, FreeSlotEffect, NextAttemptAtType DEF PC
  <2>3. WorkersOwnTheirAttempt'
    <3>1. ASSUME NEW v \in Units \ {u}
          PROVE  /\ pc'[v] \in Active =>
                      /\ <<v, attempt'[v]>> \in open'
                      /\ \A m \in inbox' : m.unit = v => m.kind = "finished" /\ m.attempt < attempt'[v]
                 /\ pc'[v] \in {"gate", "slot", "guard"} => <<v, attempt'[v]>> \notin flying'
                 /\ \A a \in Attempts : <<v, a>> \in open' => a <= attempt'[v]
      BY <1>2, <1>3, <1>5, <2>1, <2>2 DEF WorkersOwnTheirAttempt, Active
    <3>2. \A m \in inbox' : m.unit = u => m.kind = "finished" /\ m.attempt < attempt'[u]
      BY <1>1, <1>3, <1>4, <1>5, <2>1 DEF Attempts
    <3>3. <<u, attempt'[u]>> \in open' /\ <<u, attempt'[u]>> \notin open
      BY <1>1, <2>1 DEF TypeOK
    <3>4. <<u, attempt'[u]>> \notin flying'
      BY <1>2, <3>3 DEF TypeOK
    <3>5. \A a \in Attempts : <<u, a>> \in open' => a <= attempt'[u]
      BY <1>1, <2>1 DEF Attempts
    <3>6. QED
      BY <3>1, <3>2, <3>3, <3>4, <3>5 DEF WorkersOwnTheirAttempt
  <2>4. ResultsAreOpen'
    BY <1>1, <1>3, <1>4, <1>5, <2>1 DEF ResultsAreOpen, Attempts
  <2>5. FlyingIsSeen'
    BY <1>1, <1>2, <1>3, <1>5, <2>2 DEF FlyingIsSeen
  <2>6. WaveIsClosed'
    BY <1>1, <1>2, <1>3, <1>4, <1>5, <2>2 DEF WaveIsClosed
  <2>7. QED
    BY <2>3, <2>4, <2>5, <2>6 DEF WaveInv
<1>6. CASE /\ inbox' = inbox \cup {fin, end}
           /\ FreeSlot(u, "done")
           /\ UNCHANGED <<attempt, unsettled, open>>
  <2>1. /\ pc'[u] = "done"
        /\ \A v \in Units \ {u} : pc'[v] = pc[v] \/ (pc[v] = "slot" /\ pc'[v] = "guard")
    BY <1>1, <1>6, FreeSlotEffect DEF PC
  <2>2. WorkersOwnTheirAttempt'
    BY <1>2, <1>3, <1>6, <2>1 DEF WorkersOwnTheirAttempt, Active
  <2>3. ResultsAreOpen'
    BY <1>1, <1>3, <1>4, <1>6 DEF ResultsAreOpen, Attempts
  <2>4. FlyingIsSeen'
    BY <1>1, <1>2, <1>3, <1>6, <2>1 DEF FlyingIsSeen
  <2>5. WaveIsClosed'
    BY <1>1, <1>2, <1>3, <1>4, <1>6, <2>1 DEF WaveIsClosed
  <2>6. QED
    BY <2>2, <2>3, <2>4, <2>5 DEF WaveInv
<1>7. QED
  BY <1>5, <1>6 DEF Return, fin, end

LEMMA DrainWave ==
  ASSUME IInv, Drain
  PROVE  WaveInv'
<1> USE DEF IInv
<1>1. PICK m \in inbox : DrainFinished(m) \/ DrainBudget(m) \/ DrainDone(m)
  BY DEF Drain
<1>2. CASE DrainFinished(m)
  <2>1. /\ m \in Finished /\ m.unit \in Units /\ m.attempt \in Attempts
        /\ <<m.unit, m.attempt>> \in open
    BY <1>2, ResultOpen DEF DrainFinished, Spend, Finished
  <2>2. /\ inbox' = inbox \ {m} /\ open' = open \ {<<m.unit, m.attempt>>}
        /\ flying' = flying \ {<<m.unit, m.attempt>>}
        /\ UNCHANGED <<live, pc, attempt, phase>> /\ m.kind = "finished"
    BY <1>2 DEF DrainFinished, Spend
  <2>3. WorkersOwnTheirAttempt'
    <3>1. \A u \in Units : pc[u] \in Active => <<u, attempt[u]>> # <<m.unit, m.attempt>>
      BY <2>1, <2>2 DEF WorkersOwnTheirAttempt, Attempts, TypeOK
    <3>2. QED
      BY <2>2, <3>1 DEF WorkersOwnTheirAttempt
  <2>4. ResultsAreOpen'
    BY <2>1, <2>2 DEF ResultsAreOpen
  <2>5. FlyingIsSeen'
    BY <2>1, <2>2 DEF FlyingIsSeen
  <2>6. WaveIsClosed'
    BY <2>2 DEF WaveIsClosed
  <2>7. QED
    BY <2>3, <2>4, <2>5, <2>6 DEF WaveInv
<1>3. CASE DrainBudget(m)
  BY <1>3 DEF DrainBudget, WaveInv, WorkersOwnTheirAttempt, ResultsAreOpen, FlyingIsSeen,
     WaveIsClosed
<1>4. CASE DrainDone(m) /\ live = {m.unit}
  BY <1>4, ClosedWave DEF DrainDone
<1>5. CASE DrainDone(m) /\ live # {m.unit}
  <2>1. /\ live' = live \ {m.unit} /\ inbox' = inbox \ {m}
        /\ pc' = [pc EXCEPT ![m.unit] = "off"]
        /\ UNCHANGED <<attempt, open, flying, phase>>
        /\ \A n \in inbox : n.unit = m.unit => n = m
        /\ m.kind = "done"
    BY <1>5 DEF DrainDone
  <2>2. m.unit \in live /\ live \subseteq Units
    BY DEF WaveIsClosed, TypeOK
  <2>3. /\ pc[m.unit] = "done" /\ pc'[m.unit] = "off"
        /\ \A v \in Units \ {m.unit} : pc'[v] = pc[v]
    BY <2>1, <2>2 DEF WaveIsClosed, TypeOK
  <2>4. WorkersOwnTheirAttempt'
    BY <2>1, <2>2, <2>3 DEF WorkersOwnTheirAttempt, Active
  <2>5. ResultsAreOpen'
    BY <2>1 DEF ResultsAreOpen
  <2>6. FlyingIsSeen'
    BY <2>1, <2>2, <2>3 DEF FlyingIsSeen
  <2>7. WaveIsClosed'
    BY <1>5, <2>1, <2>2, <2>3 DEF WaveIsClosed
  <2>8. QED
    BY <2>4, <2>5, <2>6, <2>7 DEF WaveInv
<1>6. QED
  BY <1>1, <1>2, <1>3, <1>4, <1>5

LEMMA ReleaseWave ==
  ASSUME IInv, Release
  PROVE  WaveInv'
<1> USE DEF IInv
<1>1. PICK first \in SUBSET {u \in Units : pc[u] = "gate"} :
        pc' = [u \in Units |-> IF u \notin {v \in Units : pc[v] = "gate"} THEN pc[u]
                               ELSE IF u \in first THEN "guard" ELSE "slot"]
  BY DEF Release
<1>2. \A u \in Units : pc'[u] = pc[u] \/ (pc[u] = "gate" /\ pc'[u] \in {"guard", "slot"})
  BY <1>1
<1>3. UNCHANGED <<live, attempt, inbox, open, flying, phase>>
  BY DEF Release
<1>4. WorkersOwnTheirAttempt'
  BY <1>2, <1>3 DEF WorkersOwnTheirAttempt, Active
<1>5. ResultsAreOpen'
  BY <1>3 DEF ResultsAreOpen
<1>6. FlyingIsSeen'
  BY <1>2, <1>3 DEF FlyingIsSeen
<1>7. WaveIsClosed'
  <2>1. \A m \in inbox : m.unit \in Units
    BY DEF WaveIsClosed, TypeOK
  <2>2. QED
    BY <1>2, <1>3, <2>1 DEF WaveIsClosed
<1>8. QED
  BY <1>4, <1>5, <1>6, <1>7 DEF WaveInv

LEMMA WaveStep == IInv /\ [Next]_vars => WaveInv'
<1> SUFFICES ASSUME IInv, [Next]_vars PROVE WaveInv'
  OBVIOUS
<1>0. TypeOK
  BY DEF IInv
<1>1. CASE StartStep
  <2>1. PICK A \in SUBSET Units : Launch(A)
    BY <1>1 DEF StartStep
  <2>2. QED
    BY <1>0, <1>1, <2>1, LaunchedWave DEF StartStep
<1>2. CASE StartReport
  <2>1. PICK u \in Units : Launch({u})
    BY <1>2 DEF StartReport
  <2>2. {u} \in SUBSET Units
    OBVIOUS
  <2>3. QED
    BY <1>0, <1>2, <2>1, <2>2, LaunchedWave DEF StartReport
<1>3. CASE SkipReport \/ EndReport
  BY <1>3, UnchangedWave DEF SkipReport, EndReport
<1>4. ASSUME NEW u \in Units, Worker(u) PROVE WaveInv'
  BY <1>4, SpawnRefusedWave, SpawnWave, ReturnWave DEF Worker
<1>5. CASE Drain
  BY <1>5, DrainWave
<1>6. CASE Release
  BY <1>6, ReleaseWave
<1>7. CASE Crash
  BY <1>7, ClosedWave DEF Crash
<1>8. CASE Resume \/ Continue
  <2>1. live = {}
    BY <1>8 DEF IInv, WaveIsClosed, Resume, Continue
  <2>2. QED
    BY <1>8, <2>1, UnchangedWave DEF Resume, Continue
<1>9. CASE UNCHANGED vars
  BY <1>9, UnchangedWave DEF vars
<1>10. QED
  BY <1>1, <1>2, <1>3, <1>4, <1>5, <1>6, <1>7, <1>8, <1>9 DEF Next, Closed
-----------------------------------------------------------------------------
(* The sums.                                                                *)
LEMMA NothingOpen ==
  ASSUME IInv, live = {}
  PROVE  unsettled = 0 /\ open = {} /\ flying = {} /\ inbox = {}
<1>1. open = {} /\ flying = {} /\ inbox = {}
  BY DEF IInv, TypeOK, WaveIsClosed
<1>2. unsettled = 0
  BY <1>1, FS_EmptySet DEF IInv, Accounted
<1>3. QED
  BY <1>1, <1>2

(* The last "done" finds nothing in flight.                                 *)
LEMMA LastDone ==
  ASSUME IInv, NEW m \in inbox, DrainDone(m), live = {m.unit}
  PROVE  flying = {}
<1> USE DEF IInv
<1>1. /\ m.kind = "done" /\ pc[m.unit] = "done" /\ \A n \in inbox : n.unit = m.unit => n = m
  BY DEF DrainDone, WaveIsClosed
<1>2. ASSUME NEW u \in Units, NEW a \in Attempts, <<u, a>> \in flying PROVE FALSE
  <2>1. pc[u] = "calling" \/ \E n \in inbox : n.kind = "finished" /\ n.unit = u
    BY <1>2 DEF FlyingIsSeen
  <2>2. u = m.unit
    BY <2>1 DEF WaveIsClosed
  <2>3. QED
    BY <1>1, <2>1, <2>2
<1>3. \A p \in flying : \E u \in Units, a \in Attempts : p = <<u, a>>
  BY DEF TypeOK
<1>4. QED
  BY <1>2, <1>3

Sums == ReserveHeld /\ WorkLeavesReserve /\ ReportAffordable

LEMMA SumsStep == IInv /\ [Next]_vars => Sums'
<1> SUFFICES ASSUME IInv, [Next]_vars PROVE Sums'
  OBVIOUS
<1> USE DEF Sums, ReserveHeld, WorkLeavesReserve, ReportAffordable
<1>0. /\ TypeOK /\ ReserveHeld /\ WorkLeavesReserve /\ ReportAffordable
      /\ calls_used \in Nat /\ budget_calls \in Nat \ {0} /\ unsettled \in Nat /\ reporting \in Nat
  BY DEF IInv, TypeOK
<1>1. CASE StartStep
  <2>1. PICK A \in SUBSET Units : (A # {} => ~Over(Cardinality(A), Reserve)) /\ Launch(A)
    BY <1>1 DEF StartStep, Affordable
  <2>2. unsettled' = Cardinality(A) /\ unsettled' \in Nat
    BY <1>0, <2>1, LaunchEffect
  <2>3. A # {} => calls_used + unsettled' + Reserve <= budget_calls
    BY <1>0, <2>1, <2>2 DEF Over, Reserve
  <2>4. A = {} => unsettled' = 0
    BY <2>2, FS_EmptySet
  <2>5. UNCHANGED <<calls_used, budget_calls, phase, reporting, refused>>
    BY <1>1 DEF StartStep, store, history
  <2>6. QED
    BY <1>0, <2>2, <2>3, <2>4, <2>5 DEF Reserve
<1>2. CASE StartReport
  <2>1. PICK u \in Units : Launch({u})
    BY <1>2 DEF StartReport
  <2>2. unsettled' = 1
    BY <2>1, FS_Singleton DEF Launch
  <2>3. calls_used + 1 <= budget_calls
    BY <1>0, <1>2 DEF StartReport, Over
  <2>4. QED
    BY <1>0, <1>2, <2>2, <2>3 DEF StartReport, store, history
<1>3. CASE SkipReport
  <2>1. refused' = "calls" => calls_used + 1 > budget_calls
    BY <1>3 DEF SkipReport
  <2>2. unsettled = 0
    BY <1>3, NothingOpen DEF SkipReport
  <2>3. QED
    BY <1>0, <1>3, <2>1, <2>2 DEF SkipReport, store, wave, Reserve
<1>4. CASE EndReport
  BY <1>0, <1>4 DEF EndReport, wave, history
<1>5. ASSUME NEW u \in Units, Worker(u) PROVE Sums'
  <2>1. CASE SpawnRefused(u) \/ Spawn(u)
    BY <1>0, <2>1 DEF SpawnRefused, Spawn, store, history
  <2>2. CASE \E verdict \in {"ok", "again", "final"}, cost \in Costs \cup {0}, limited \in BOOLEAN :
               Return(u, verdict, cost, limited)
    <3>1. UNCHANGED <<calls_used, budget_calls, phase, reporting, refused>>
      BY <2>2 DEF Return, store, history
    <3>2. \/ unsettled' = unsettled
          \/ unsettled' = unsettled + 1 /\ MayRetry(WaveReserve)
      BY <2>2 DEF Return, ReserveAttempt
    <3>3. phase \in {"rounds", "report"}
      BY <2>2 DEF Return, IInv, WaveIsClosed
    <3>4. MayRetry(WaveReserve) =>
            calls_used + 1 + (IF phase = "report" THEN 0 ELSE Reserve) + unsettled <= budget_calls
      BY <1>0 DEF MayRetry, WaveReserve, Over, Reserve
    <3>5. QED
      BY <1>0, <3>1, <3>2, <3>3, <3>4 DEF Reserve
  <2>3. QED
    BY <1>5, <2>1, <2>2 DEF Worker
<1>6. ASSUME NEW m \in inbox, DrainFinished(m) PROVE Sums'
  <2>1. unsettled > 0
    BY <1>6, ResultOpen DEF DrainFinished, Spend
  <2>2. phase \in {"rounds", "report"}
    BY DEF IInv, WaveIsClosed
  <2>3. /\ calls_used' = calls_used + 1 /\ unsettled' = unsettled - 1
        /\ reporting' = IF phase = "report" THEN reporting + 1 ELSE reporting
        /\ UNCHANGED <<budget_calls, phase, refused>>
    BY <1>6 DEF DrainFinished, Spend
  <2>4. QED
    BY <1>0, <2>1, <2>2, <2>3 DEF Reserve
<1>7. ASSUME NEW m \in inbox, DrainBudget(m) PROVE Sums'
  BY <1>0, <1>7 DEF DrainBudget, store, history
<1>8. ASSUME NEW m \in inbox, DrainDone(m) PROVE Sums'
  <2>1. unsettled' = 0 \/ unsettled' = unsettled
    BY <1>8 DEF DrainDone, NoWave
  <2>2. UNCHANGED <<calls_used, budget_calls, phase, reporting, refused>>
    BY <1>8 DEF DrainDone, store, history
  <2>3. QED
    BY <1>0, <2>1, <2>2 DEF Reserve
<1>9. CASE Release
  BY <1>0, <1>9 DEF Release, store, history
<1>10. CASE Crash
  BY <1>0, <1>10 DEF Crash, NoWave, store
<1>11. CASE Resume
  <2>1. unsettled = 0
    BY <1>11, NothingOpen DEF Resume, IInv, WaveIsClosed
  <2>2. QED
    BY <1>0, <1>11, <2>1 DEF Resume, store, wave, history
<1>12. CASE Continue
  <2>1. unsettled = 0
    BY <1>12, NothingOpen DEF Continue, IInv, WaveIsClosed
  <2>2. PICK b \in budget_calls .. MaxBudget : b >= calls_used + Reserve + 1 /\ budget_calls' = b
    BY <1>12 DEF Continue
  <2>3. QED
    BY <1>0, <1>12, <2>1, <2>2, CallWaveAssumption DEF Continue, wave, Reserve
<1>13. CASE UNCHANGED vars
  BY <1>0, <1>13 DEF vars, store, wave, history
<1>14. QED
  BY <1>1, <1>2, <1>3, <1>4, <1>5, <1>6, <1>7, <1>8, <1>9, <1>10, <1>11, <1>12, <1>13
     DEF Next, Closed, Drain

LEMMA AccountedStep == IInv /\ [Next]_vars => Accounted'
<1> SUFFICES ASSUME IInv, [Next]_vars PROVE Accounted'
  OBVIOUS
<1>0. /\ TypeOK /\ Accounted
      /\ calls_used \in Nat /\ paid \in Nat /\ lost \in Nat /\ unsettled \in Nat
      /\ IsFiniteSet(open) /\ Cardinality(open) \in Nat
      /\ IsFiniteSet(flying) /\ Cardinality(flying) \in Nat
  BY AttemptSets DEF IInv, TypeOK
<1>1. ASSUME NEW A \in SUBSET Units, Launch(A), live = {}, UNCHANGED <<store, history>>
      PROVE  Accounted'
  <2>1. unsettled' = Cardinality(open') /\ flying' = flying
    BY <1>0, <1>1, LaunchEffect, NothingOpen
  <2>2. QED
    BY <1>0, <1>1, <2>1 DEF Accounted, store, history
<1>2. CASE StartStep
  BY <1>1, <1>2 DEF StartStep
<1>3. CASE StartReport
  <2>1. PICK u \in Units : Launch({u})
    BY <1>3 DEF StartReport
  <2>2. {u} \in SUBSET Units
    OBVIOUS
  <2>3. QED
    BY <1>1, <1>3, <2>1, <2>2 DEF StartReport
<1>4. CASE SkipReport \/ EndReport \/ Resume \/ Continue
  BY <1>0, <1>4 DEF Accounted, SkipReport, EndReport, Resume, Continue, store, wave, history
<1>5. ASSUME NEW u \in Units, Worker(u) PROVE Accounted'
  <2>1. CASE SpawnRefused(u)
    BY <1>0, <2>1 DEF Accounted, SpawnRefused, store, history
  <2>2. CASE Spawn(u)
    <3>1. <<u, attempt[u]>> \notin flying
      BY <2>2 DEF Spawn, IInv, WorkersOwnTheirAttempt
    <3>2. Cardinality(flying') = Cardinality(flying) + 1
      BY <1>0, <2>2, <3>1, FS_AddElement DEF Spawn
    <3>3. QED
      BY <1>0, <2>2, <3>2 DEF Accounted, Spawn, store
  <2>3. CASE \E verdict \in {"ok", "again", "final"}, cost \in Costs \cup {0}, limited \in BOOLEAN :
               Return(u, verdict, cost, limited)
    <3>1. UNCHANGED <<calls_used, paid, lost, flying>>
      BY <2>3 DEF Return, store, history
    <3>2. \/ UNCHANGED <<open, unsettled>>
          \/ ReserveAttempt(u) /\ AttemptsLeft(u)
      BY <2>3 DEF Return
    <3>3. CASE UNCHANGED <<open, unsettled>>
      BY <1>0, <3>1, <3>3 DEF Accounted
    <3>4. CASE ReserveAttempt(u) /\ AttemptsLeft(u)
      <4>1. pc[u] \in Active
        BY <2>3 DEF Return, Active
      <4>2. attempt[u] + 1 \in Attempts
        BY <1>0, <3>4 DEF TypeOK, AttemptsLeft, Attempts, MaxCallAttempts
      <4>3. <<u, attempt[u] + 1>> \notin open
        <5>1. <<u, attempt[u] + 1>> \in open => attempt[u] + 1 <= attempt[u]
          BY <4>2 DEF IInv, WorkersOwnTheirAttempt
        <5>2. attempt[u] \in Nat
          BY <1>0 DEF TypeOK, Attempts
        <5>3. QED
          BY <5>1, <5>2
      <4>4. Cardinality(open') = Cardinality(open) + 1
        BY <1>0, <3>4, <4>3, FS_AddElement DEF ReserveAttempt
      <4>5. QED
        BY <1>0, <3>1, <3>4, <4>4 DEF Accounted, ReserveAttempt
    <3>5. QED
      BY <3>2, <3>3, <3>4
  <2>4. QED
    BY <1>5, <2>1, <2>2, <2>3 DEF Worker
<1>6. ASSUME NEW m \in inbox, DrainFinished(m) PROVE Accounted'
  <2>1. <<m.unit, m.attempt>> \in open /\ unsettled > 0
    BY <1>6, ResultOpen DEF DrainFinished, Spend
  <2> DEFINE call == <<m.unit, m.attempt>>
  <2>2. Cardinality(open') = Cardinality(open) - 1
    <3>1. open' = open \ {call}
      BY <1>6 DEF DrainFinished, Spend
    <3>2. QED
      BY <1>0, <2>1, <3>1, FS_RemoveElement
  <2>3. /\ Cardinality(flying') \in Nat
        /\ Cardinality(flying) <= Cardinality(flying') + 1
    <3>1. flying' = flying \ {call}
      BY <1>6 DEF DrainFinished, Spend
    <3>2. IsFiniteSet(flying') /\ Cardinality(flying') \in {Cardinality(flying), Cardinality(flying) - 1}
      BY <1>0, <3>1, FS_RemoveElement
    <3>3. QED
      BY <1>0, <3>2, FS_CardinalityType
  <2>4. QED
    BY <1>0, <1>6, <2>2, <2>3 DEF Accounted, DrainFinished, Spend
<1>7. ASSUME NEW m \in inbox, DrainBudget(m) PROVE Accounted'
  BY <1>0, <1>7 DEF Accounted, DrainBudget, store, history
<1>8. ASSUME NEW m \in inbox, DrainDone(m) PROVE Accounted'
  <2>1. UNCHANGED <<calls_used, paid, lost>>
    BY <1>8 DEF DrainDone, store, history
  <2>2. CASE live = {m.unit}
    <3>1. flying' = flying
      BY <1>8, <2>2, LastDone DEF DrainDone, NoWave
    <3>2. unsettled' = Cardinality(open')
      BY <1>8, <2>2, FS_EmptySet DEF DrainDone, NoWave
    <3>3. QED
      BY <1>0, <2>1, <3>1, <3>2 DEF Accounted
  <2>3. CASE live # {m.unit}
    BY <1>0, <1>8, <2>1, <2>3 DEF Accounted, DrainDone
  <2>4. QED
    BY <2>2, <2>3
<1>9. CASE Release
  BY <1>0, <1>9 DEF Accounted, Release, store, history
<1>10. CASE Crash
  <2>1. Cardinality(flying') = 0 /\ Cardinality(open') = 0 /\ unsettled' = 0
    BY <1>10, FS_EmptySet DEF Crash, NoWave
  <2>2. UNCHANGED <<calls_used, paid>> /\ lost' = lost + Cardinality(flying)
    BY <1>10 DEF Crash, store
  <2>3. QED
    BY <1>0, <2>1, <2>2 DEF Accounted
<1>11. CASE UNCHANGED vars
  BY <1>0, <1>11 DEF Accounted, vars, store, wave, history
<1>12. QED
  BY <1>2, <1>3, <1>4, <1>5, <1>6, <1>7, <1>8, <1>9, <1>10, <1>11 DEF Next, Closed, Drain

(* The inductive invariant is preserved by every step.                      *)
LEMMA StepInv == IInv /\ [Next]_vars => IInv'
  BY TypeStep, WaveStep, SumsStep, AccountedStep DEF IInv, WaveInv, Sums

THEOREM Invariant == Spec => []IInv
<1>1. Init => IInv
  BY InitInv
<1>2. IInv /\ [Next]_vars => IInv'
  BY StepInv
<1>3. QED
  BY <1>1, <1>2, PTL DEF Spec

-----------------------------------------------------------------------------
(* Every variable of a run stays in its type: in particular no unit ever    *)
(* makes a third attempt.                                                   *)
THEOREM TypeCorrect == Spec => []TypeOK
<1>1. IInv => TypeOK
  BY DEF IInv
<1>2. QED
  BY <1>1, Invariant, PTL

(* No order of retries, results and deaths takes the committed calls over   *)
(* the ceiling, or a working run's over the ceiling less the reserve.       *)
THEOREM ReserveIsHeld == Spec => []ReserveHeld
<1>1. IInv => ReserveHeld
  BY DEF IInv
<1>2. QED
  BY <1>1, Invariant, PTL

(* The call ceiling refuses the report only to a run whose reserve already  *)
(* went on one.                                                             *)
THEOREM ReportIsAffordable == Spec => []ReportAffordable
<1>1. IInv => ReportAffordable
  BY DEF IInv
<1>2. QED
  BY <1>1, Invariant, PTL

(* Every call paid for is booked, committed, or died with its supervisor.   *)
THEOREM EveryCallIsAccounted == Spec => []EveryCallAccounted
<1>1. IInv => EveryCallAccounted
  <2> SUFFICES ASSUME IInv PROVE EveryCallAccounted
    OBVIOUS
  <2>1. IsFiniteSet(open) /\ flying \subseteq open
    BY AttemptSets DEF IInv, TypeOK
  <2>2. Cardinality(flying) <= Cardinality(open) /\ Cardinality(flying) \in Nat /\ Cardinality(open) \in Nat
    BY <2>1, FS_Subset, FS_CardinalityType
  <2>3. QED
    BY <2>2 DEF EveryCallAccounted, IInv, Accounted, TypeOK
<1>2. QED
  BY <1>1, Invariant, PTL
-----------------------------------------------------------------------------
(* The engine implements the promise of CallCeiling: a step of CallWave is  *)
(* one of its steps, or does not touch the ceiling.                         *)

(* The three together: what a wave does to the ledger is never off. *)
THEOREM LedgerIsKept == Spec => []LedgerHolds
BY TypeCorrect, ReserveIsHeld, EveryCallIsAccounted, PTL DEF LedgerHolds

(* A step that changes neither the ledger nor the phase is a stutter.       *)
LEMMA CeilingStutter ==
  ASSUME UNCHANGED <<budget_calls, calls_used, unsettled, phase>>
  PROVE  UNCHANGED Ceiling!vars
  BY DEF Ceiling!vars

LEMMA CeilingStep == IInv /\ [Next]_vars => [Ceiling!Next]_(Ceiling!vars)
<1> SUFFICES ASSUME IInv, [Next]_vars PROVE [Ceiling!Next]_(Ceiling!vars)
  OBVIOUS
<1>0. /\ TypeOK /\ IInv' /\ TypeOK' /\ ReserveHeld'
      /\ calls_used \in Nat /\ budget_calls \in Nat \ {0} /\ unsettled \in Nat /\ unsettled' \in Nat
  BY StepInv DEF IInv, TypeOK
<1>1. CASE StartStep
  <2>1. unsettled = 0
    BY <1>1, NothingOpen DEF StartStep
  <2>2. phase = "rounds" /\ UNCHANGED <<budget_calls, calls_used, phase>>
    BY <1>1 DEF StartStep, store
  <2>3. CASE unsettled' = 0
    BY <2>1, <2>2, <2>3, CeilingStutter
  <2>4. CASE unsettled' # 0
    <3>1. Ceiling!Promise
      BY <1>0, <2>1, <2>2, <2>4 DEF Ceiling!Promise, ReserveHeld, Reserve
    <3>2. QED
      BY <3>1 DEF Ceiling!Next
  <2>5. QED
    BY <2>3, <2>4
<1>2. CASE StartReport
  <2>1. PICK u \in Units : Launch({u})
    BY <1>2 DEF StartReport
  <2>2. unsettled' = 1 /\ unsettled = 0
    BY <1>2, <2>1, FS_Singleton, NothingOpen DEF Launch, StartReport
  <2>3. phase = "rounds" /\ phase' = "report" /\ UNCHANGED <<budget_calls, calls_used>>
    BY <1>2 DEF StartReport, store
  <2>4. Ceiling!TurnToReport
    BY <1>0, <2>2, <2>3 DEF Ceiling!TurnToReport, ReserveHeld
  <2>5. QED
    BY <2>4 DEF Ceiling!Next
<1>3. CASE SkipReport \/ EndReport
  <2>1. unsettled = 0
    BY <1>3, NothingOpen DEF SkipReport, EndReport
  <2>2. /\ phase \in {"rounds", "report"} /\ phase' = "ended"
        /\ UNCHANGED <<budget_calls, calls_used, unsettled>>
    BY <1>3 DEF SkipReport, EndReport, store, wave
  <2>3. Ceiling!Close
    BY <2>1, <2>2 DEF Ceiling!Close
  <2>4. QED
    BY <2>3 DEF Ceiling!Next
<1>4. ASSUME NEW u \in Units, Worker(u) PROVE [Ceiling!Next]_(Ceiling!vars)
  <2>1. UNCHANGED <<budget_calls, calls_used, phase>>
    BY <1>4 DEF Worker, SpawnRefused, Spawn, Return, store
  <2>2. unsettled' = unsettled \/ unsettled' = unsettled + 1
    BY <1>4 DEF Worker, SpawnRefused, Spawn, Return, ReserveAttempt
  <2>3. CASE unsettled' = unsettled
    BY <2>1, <2>3, CeilingStutter
  <2>4. CASE unsettled' = unsettled + 1
    <3>1. pc[u] # "off"
      BY <1>4, <2>4, <1>0 DEF Worker, SpawnRefused, Spawn, Return
    <3>2. phase \in {"rounds", "report"}
      BY <3>1 DEF IInv, WaveIsClosed
    <3>3. phase = "rounds" => Ceiling!Promise
      BY <1>0, <2>1, <2>4 DEF Ceiling!Promise, ReserveHeld, Reserve
    <3>4. phase = "report" => Ceiling!PromiseReport
      BY <1>0, <2>1, <2>4 DEF Ceiling!PromiseReport, ReserveHeld
    <3>5. QED
      BY <3>2, <3>3, <3>4 DEF Ceiling!Next
  <2>5. QED
    BY <2>2, <2>3, <2>4
<1>5. ASSUME NEW m \in inbox, DrainFinished(m) PROVE [Ceiling!Next]_(Ceiling!vars)
  <2>1. unsettled > 0
    BY <1>5, ResultOpen DEF DrainFinished, Spend
  <2>2. /\ calls_used' = calls_used + 1 /\ unsettled' = unsettled - 1
        /\ UNCHANGED <<budget_calls, phase>>
    BY <1>5 DEF DrainFinished, Spend
  <2>3. Ceiling!Book
    BY <2>1, <2>2 DEF Ceiling!Book
  <2>4. QED
    BY <2>3 DEF Ceiling!Next
<1>6. ASSUME NEW m \in inbox, DrainBudget(m) \/ DrainDone(m)
      PROVE  [Ceiling!Next]_(Ceiling!vars)
  <2>1. UNCHANGED <<budget_calls, calls_used, phase>>
    BY <1>6 DEF DrainBudget, DrainDone, store
  <2>2. unsettled' = unsettled \/ unsettled' = 0
    BY <1>6 DEF DrainBudget, DrainDone, NoWave
  <2>3. CASE unsettled' = unsettled
    BY <2>1, <2>3, CeilingStutter
  <2>4. CASE unsettled' = 0
    <3>1. Ceiling!GiveBack
      BY <1>0, <2>1, <2>4 DEF Ceiling!GiveBack
    <3>2. QED
      BY <3>1 DEF Ceiling!Next
  <2>5. QED
    BY <2>2, <2>3, <2>4
<1>7. CASE Release
  BY <1>7, CeilingStutter DEF Release, store
<1>8. CASE Crash
  <2>1. /\ phase \in {"rounds", "report"} /\ phase' = "down" /\ unsettled' = 0
        /\ UNCHANGED <<budget_calls, calls_used>>
    BY <1>8 DEF Crash, NoWave, store
  <2>2. phase = "rounds" => Ceiling!GiveBack
    BY <1>0, <2>1 DEF Ceiling!GiveBack
  <2>3. phase = "report" => Ceiling!TakeUpAgain
    BY <2>1 DEF Ceiling!TakeUpAgain
  <2>4. QED
    BY <2>1, <2>2, <2>3 DEF Ceiling!Next
<1>9. CASE Resume
  BY <1>9 DEF Resume, store, wave, Ceiling!vars
<1>10. CASE Continue
  <2>1. PICK b \in budget_calls .. MaxBudget : b >= calls_used + Reserve + 1 /\ budget_calls' = b
    BY <1>10 DEF Continue
  <2>2. phase = "ended" /\ phase' = "rounds" /\ UNCHANGED <<calls_used, unsettled>>
    BY <1>10 DEF Continue, wave
  <2>3. Ceiling!Continue
    BY <1>0, <2>1, <2>2, CallWaveAssumption DEF Ceiling!Continue, Reserve
  <2>4. QED
    BY <2>3 DEF Ceiling!Next
<1>11. CASE UNCHANGED vars
  BY <1>11, CeilingStutter DEF vars, store, wave
<1>12. QED
  BY <1>1, <1>2, <1>3, <1>4, <1>5, <1>6, <1>7, <1>8, <1>9, <1>10, <1>11 DEF Next, Closed, Drain

(* Whatever the interleaving, the run keeps CallCeiling's promise: only the *)
(* report draws on the calls held back, nothing is booked unpromised, and   *)
(* the ceiling is never passed.                                             *)
THEOREM CeilingIsKept == Spec => KeepsCeiling
<1>1. Init => Ceiling!Init
  <2> SUFFICES ASSUME Init PROVE Ceiling!Init
    OBVIOUS
  <2>1. budget_calls \in Nat \ {0}
    BY InitInv DEF IInv, TypeOK
  <2>2. QED
    BY <2>1 DEF Init, Ceiling!Init
<1>2. IInv /\ [Next]_vars => [Ceiling!Next]_(Ceiling!vars)
  BY CeilingStep
<1>3. QED
  BY <1>1, <1>2, Invariant, PTL DEF Spec, KeepsCeiling, Ceiling!Spec

-----------------------------------------------------------------------------
(* The supervisor process. *)

EngineStates ==
  {"unborn", "load", "work", "closing", "returned", "raised", "halted", "cancelled"}
Beats == [pc : {"unborn", "sleep", "gone", "lost", "cancelled"}, failures : 0 .. MaxHeartbeatFailures]
AtWork == {"load", "work", "closing"}

(* Two failures in a row, as the heartbeat counts them, are the last two. *)
BeatCounts ==
  /\ \E a, b \in BOOLEAN : last2 = <<a, b>>
  /\ beat.pc = "sleep" => beat.failures < MaxHeartbeatFailures
  /\ beat.pc = "sleep" /\ beat.failures = 1 => last2[2]
  /\ beat.pc = "lost" => last2 = <<TRUE, TRUE>>
  /\ beat.pc = "gone" => rowDeleted

(* Where the process is says what its tasks can be. *)
TasksFit ==
  /\ main = "boot" => engine = "unborn" /\ beat = [pc |-> "unborn", failures |-> 0] /\ recorded = 0
  /\ EngineRuns => engine \notin {"unborn", "cancelled"} /\ beat.pc \notin {"unborn", "cancelled"}
  /\ exit = Running <=> main # "exited"
  /\ engine = "cancelled" => main = "exited"

(* The row is the engine's until a failure is recorded, which happens once. *)
RowFits ==
  /\ recorded # 0 => recorded = 1 /\ life = "failed" /\ (engine = "raised" \/ main = "exited")
  /\ EngineRuns /\ engine = "returned" => life \in Ended \ {"failed"}
  /\ main = "failing" /\ engine \in AtWork => signalled

SupInv ==
  SupervisorTypeOK /\ BeatCounts /\ TasksFit /\ RowFits
  /\ ExitTellsTheRow /\ FailureRecordedOnce /\ OneBlipIsForgiven

LEMMA SupInit == SupervisorInit => SupInv
<1>. SUFFICES ASSUME SupervisorInit PROVE SupInv
  OBVIOUS
<1>1. SupervisorTypeOK
  <2>1. beat \in Beats
    BY DEF SupervisorInit, Beats, MaxHeartbeatFailures
  <2>2. outages \in 0 .. MaxOutages /\ asks \in 0 .. MaxAsks /\ recorded \in 0 .. 2
    BY SupervisorAssumption DEF SupervisorInit
  <2>3. db \in BOOLEAN /\ rowDeleted \in BOOLEAN /\ signalled \in BOOLEAN
    BY DEF SupervisorInit
  <2>. QED
    BY <2>1, <2>2, <2>3 DEF SupervisorInit, SupervisorTypeOK, Beats, Ended, Driven
<1>2. BeatCounts
  BY DEF SupervisorInit, BeatCounts
<1>3. TasksFit /\ RowFits /\ ExitTellsTheRow /\ FailureRecordedOnce /\ OneBlipIsForgiven
  BY DEF SupervisorInit, TasksFit, RowFits, ExitTellsTheRow, FailureRecordedOnce, OneBlipIsForgiven, EngineRuns,
     Running, ExitOk, ExitFailed, ExitHalted
<1>. QED
  BY <1>1, <1>2, <1>3 DEF SupInv

LEMMA SupEngine == SupInv /\ EngineStep => SupInv'
<1>. SUFFICES ASSUME SupInv, EngineStep PROVE SupInv'
  OBVIOUS
<1>. USE DEF SupInv
<1>1. /\ UNCHANGED <<db, rowDeleted, outages, asks, signalled, main, beat, exit, last2>>
      /\ main \in {"watch", "awaiting"} /\ engine \in AtWork
      /\ engine' \in EngineStates \ {"unborn", "load", "cancelled"}
  BY DEF EngineStep, EngineStarts, EngineHalts, EnginePauses, EngineEnds, EngineReturns, EngineRaises, world,
     EngineRuns, AtWork, EngineStates
<1>2. /\ life' \in Ended \cup Driven /\ flag' \in {"none", "stop", "pause"} /\ recorded = 0 /\ recorded' \in {0, 1}
      /\ recorded' = 1 => life' = "failed" /\ engine' = "raised"
      /\ engine' = "returned" => life' \in Ended \ {"failed"}
  BY <1>1 DEF EngineStep, EngineStarts, EngineHalts, EnginePauses, EngineEnds, EngineReturns, EngineRaises,
     SupervisorTypeOK, Ended, Driven, EndingOf, AtWork, RowFits
<1>3. SupervisorTypeOK'
  BY <1>1, <1>2 DEF SupervisorTypeOK, EngineStates
<1>4. BeatCounts'
  BY <1>1 DEF BeatCounts
<1>5. TasksFit' /\ RowFits'
  BY <1>1, <1>2 DEF TasksFit, RowFits, EngineRuns, AtWork, EngineStates
<1>6. exit' = Running /\ engine' # "cancelled" /\ main' # "exited"
  BY <1>1 DEF TasksFit, EngineStates
<1>7. ExitTellsTheRow' /\ FailureRecordedOnce' /\ OneBlipIsForgiven'
  <2>1. ExitTellsTheRow'
    BY <1>6 DEF ExitTellsTheRow, Running, ExitOk, ExitFailed, ExitHalted
  <2>2. FailureRecordedOnce'
    BY <1>2 DEF FailureRecordedOnce
  <2>3. OneBlipIsForgiven'
    BY <1>6 DEF OneBlipIsForgiven
  <2>. QED
    BY <2>1, <2>2, <2>3
<1>. QED
  BY <1>3, <1>4, <1>5, <1>7

LEMMA SupBeat == SupInv /\ BeatStep => SupInv'
<1>. SUFFICES ASSUME SupInv, BeatStep PROVE SupInv'
  OBVIOUS
<1>. USE DEF SupInv
<1>1. /\ UNCHANGED <<db, rowDeleted, outages, asks, signalled, life, flag, main, engine, exit, recorded>>
      /\ EngineRuns /\ beat.pc = "sleep"
  BY DEF BeatStep, HeartbeatLands, HeartbeatFails, world
<1>2. beat \in Beats
  BY DEF SupervisorTypeOK, Beats
<1>3. PICK a \in BOOLEAN, b \in BOOLEAN : last2 = <<a, b>>
  BY DEF BeatCounts
<1>4. /\ beat' \in Beats /\ beat'.pc \notin {"unborn", "cancelled"} /\ BeatCounts'
  <2>1. CASE HeartbeatLands
    <3>1. last2' = <<b, FALSE>>
      BY <1>3, <2>1 DEF HeartbeatLands
    <3>2. CASE RowGone
      <4>1. beat' = [beat EXCEPT !.pc = "gone"]
        BY <2>1, <3>2 DEF HeartbeatLands
      <4>2. beat' \in Beats /\ beat'.pc = "gone"
        BY <1>2, <4>1 DEF Beats
      <4>. QED
        BY <1>1, <1>3, <3>1, <3>2, <4>2 DEF BeatCounts, RowGone
    <3>3. CASE ~RowGone
      <4>1. beat' = [beat EXCEPT !.failures = 0]
        BY <2>1, <3>3 DEF HeartbeatLands, BeatForgives
      <4>2. beat' \in Beats /\ beat'.pc = "sleep" /\ beat'.failures = 0
        BY <1>1, <1>2, <4>1 DEF Beats, MaxHeartbeatFailures
      <4>3. beat'.failures = 1 => last2'[2]
        BY <4>2
      <4>. QED
        <5>1. \E c, d \in BOOLEAN : last2' = <<c, d>>
          BY <3>1, Zenon
        <5>2. beat'.pc = "sleep" => beat'.failures < MaxHeartbeatFailures
          BY <4>2 DEF MaxHeartbeatFailures
        <5>3. beat'.pc = "sleep" /\ beat'.failures = 1 => last2'[2]
          BY <4>3, Zenon
        <5>. QED
          BY <4>2, <5>1, <5>2, <5>3 DEF BeatCounts
    <3>. QED
      BY <3>2, <3>3
  <2>2. CASE HeartbeatFails
    <3>1. last2' = <<b, TRUE>>
      BY <1>3, <2>2 DEF HeartbeatFails
    <3>2. beat.failures \in {0, 1} /\ (beat.failures = 1 => b)
      BY <1>1, <1>2, <1>3 DEF BeatCounts, Beats, MaxHeartbeatFailures
    <3>3. CASE beat.failures = 0
      <4>1. beat' = [beat EXCEPT !.failures = 1, !.pc = "sleep"]
        BY <1>1, <2>2, <3>3 DEF HeartbeatFails, MaxHeartbeatFailures
      <4>0. beat' = [pc |-> "sleep", failures |-> 1]
        BY <1>2, <4>1 DEF Beats
      <4>2. beat' \in Beats /\ beat'.pc = "sleep" /\ beat'.failures = 1
        BY <4>0 DEF Beats, MaxHeartbeatFailures
      <4>3. last2'[2]
        BY <3>1
      <4>. QED
        <5>1. \E c, d \in BOOLEAN : last2' = <<c, d>>
          BY <3>1, Zenon
        <5>2. beat'.pc = "sleep" => beat'.failures < MaxHeartbeatFailures
          BY <4>2 DEF MaxHeartbeatFailures
        <5>3. beat'.pc = "sleep" /\ beat'.failures = 1 => last2'[2]
          BY <4>3, Zenon
        <5>. QED
          BY <4>2, <5>1, <5>2, <5>3 DEF BeatCounts
    <3>4. CASE beat.failures = 1
      <4>1. beat' = [beat EXCEPT !.failures = 2, !.pc = "lost"]
        BY <1>1, <2>2, <3>4 DEF HeartbeatFails, MaxHeartbeatFailures
      <4>0. beat' = [pc |-> "lost", failures |-> 2]
        BY <1>2, <4>1 DEF Beats
      <4>2. beat' \in Beats /\ beat'.pc = "lost"
        BY <4>0 DEF Beats, MaxHeartbeatFailures
      <4>. QED
        BY <1>1, <1>3, <3>1, <3>2, <3>4, <4>2 DEF BeatCounts
    <3>. QED
      BY <3>2, <3>3, <3>4
  <2>. QED
    BY <2>1, <2>2 DEF BeatStep
<1>5. SupervisorTypeOK' /\ TasksFit' /\ RowFits'
  BY <1>1, <1>4 DEF SupervisorTypeOK, Beats, TasksFit, RowFits, EngineRuns
<1>6. ExitTellsTheRow' /\ FailureRecordedOnce' /\ OneBlipIsForgiven'
  BY <1>1 DEF TasksFit, ExitTellsTheRow, FailureRecordedOnce, OneBlipIsForgiven, Running, ExitOk,
     ExitFailed, ExitHalted, EngineRuns
<1>. QED
  BY <1>4, <1>5, <1>6

LEMMA CancelledFacts ==
  ASSUME SupInv, Cancelled
  PROVE  /\ beat' \in Beats /\ beat'.pc # "sleep" /\ engine' \in EngineStates \ AtWork
         /\ engine' = "cancelled" => engine \in AtWork \cup {"cancelled"}
         /\ engine \notin AtWork => engine' = engine
         /\ engine \in AtWork => engine' = "cancelled"
         /\ beat'.pc \in {"lost", "gone"} => beat' = beat
<1>1. beat \in Beats /\ engine \in EngineStates
  BY DEF SupInv, SupervisorTypeOK, Beats, EngineStates
<1>2. engine' \in EngineStates \ AtWork /\ (engine' = "cancelled" => engine \in AtWork \cup {"cancelled"})
      /\ (engine \notin AtWork => engine' = engine) /\ (engine \in AtWork => engine' = "cancelled")
  BY <1>1 DEF Cancelled, EngineStates, AtWork
<1>3. CASE beat.pc = "sleep"
  <2>1. beat' = [beat EXCEPT !.pc = "cancelled"]
    BY <1>3 DEF Cancelled
  <2>2. beat' \in Beats /\ beat'.pc = "cancelled"
    BY <1>1, <2>1 DEF Beats
  <2>. QED
    BY <1>2, <2>2
<1>4. CASE beat.pc # "sleep"
  BY <1>1, <1>2, <1>4 DEF Cancelled
<1>. QED
  BY <1>3, <1>4

LEMMA SupMain == SupInv /\ MainStep => SupInv'
<1>. SUFFICES ASSUME SupInv, MainStep PROVE SupInv'
  OBVIOUS
<1>. USE DEF SupInv
<1>0. /\ beat \in Beats /\ engine \in EngineStates /\ exit \in {Running, ExitOk, ExitFailed, ExitHalted}
      /\ recorded \in 0 .. 2 /\ main \in {"boot", "watch", "awaiting", "failing", "exited"}
      /\ life \in Ended \cup Driven
  BY DEF SupervisorTypeOK, Beats, EngineStates
<1>1. CASE BootHalts
  <2>1. /\ UNCHANGED <<db, rowDeleted, outages, asks, signalled, life, flag, engine, beat, recorded, last2>>
        /\ main = "boot" /\ main' = "exited" /\ exit' = ExitHalted
    BY <1>1 DEF BootHalts, world
  <2>2. SupervisorTypeOK' /\ BeatCounts'
    <3>1. SupervisorTypeOK'
      BY <2>1 DEF SupervisorTypeOK
    <3>2. BeatCounts'
      BY <2>1 DEF BeatCounts
    <3>. QED
      BY <3>1, <3>2
  <2>3. TasksFit' /\ RowFits' /\ ExitTellsTheRow' /\ FailureRecordedOnce' /\ OneBlipIsForgiven'
    BY <2>1 DEF TasksFit, RowFits, EngineRuns, ExitTellsTheRow, FailureRecordedOnce, OneBlipIsForgiven, Running,
       ExitOk, ExitFailed, ExitHalted, AtWork
  <2>. QED
    BY <2>2, <2>3
<1>2. CASE BootFails
  <2>1. /\ UNCHANGED <<db, rowDeleted, outages, asks, signalled, life, flag, engine, beat, exit, recorded, last2>>
        /\ main = "boot" /\ main' = "failing"
    BY <1>2 DEF BootFails, world
  <2>2. SupervisorTypeOK' /\ BeatCounts'
    <3>1. SupervisorTypeOK'
      BY <2>1 DEF SupervisorTypeOK
    <3>2. BeatCounts'
      BY <2>1 DEF BeatCounts
    <3>. QED
      BY <3>1, <3>2
  <2>3. TasksFit' /\ RowFits' /\ ExitTellsTheRow' /\ FailureRecordedOnce' /\ OneBlipIsForgiven'
    BY <2>1 DEF TasksFit, RowFits, EngineRuns, ExitTellsTheRow, FailureRecordedOnce, OneBlipIsForgiven, Running,
       ExitOk, ExitFailed, ExitHalted, AtWork
  <2>. QED
    BY <2>2, <2>3
<1>3. CASE Assemble
  <2>1. /\ UNCHANGED <<db, rowDeleted, outages, asks, signalled, life, flag, exit, recorded, last2>>
        /\ main = "boot" /\ main' = "watch" /\ engine' = "load" /\ beat' = [beat EXCEPT !.pc = "sleep"]
    BY <1>3 DEF Assemble, world
  <2>2. beat' = [pc |-> "sleep", failures |-> 0]
    BY <2>1 DEF TasksFit
  <2>3. beat' \in Beats
    BY <2>2 DEF Beats, MaxHeartbeatFailures
  <2>4. SupervisorTypeOK'
    BY <2>1, <2>3 DEF SupervisorTypeOK, Beats
  <2>5. BeatCounts'
    <3>1. beat'.pc = "sleep" /\ beat'.failures = 0
      BY <2>2
    <3>2. \E a, c \in BOOLEAN : last2' = <<a, c>>
      BY <2>1 DEF BeatCounts
    <3>. QED
      BY <3>1, <3>2 DEF BeatCounts, MaxHeartbeatFailures
  <2>6. TasksFit' /\ RowFits' /\ ExitTellsTheRow' /\ FailureRecordedOnce' /\ OneBlipIsForgiven'
    BY <2>1, <2>2 DEF TasksFit, RowFits, EngineRuns, ExitTellsTheRow, FailureRecordedOnce, OneBlipIsForgiven,
       Running, ExitOk, ExitFailed, ExitHalted, AtWork
  <2>. QED
    BY <2>4, <2>5, <2>6
<1>4. CASE Concludes
  <2>1. /\ UNCHANGED <<db, rowDeleted, outages, asks, signalled, life, flag, recorded, last2>>
        /\ EngineRuns /\ (EngineDone \/ BeatDone) /\ Cancelled
        /\ \/ engine = "raised" /\ main' = "failing" /\ exit' = exit
           \/ engine = "returned" /\ main' = "exited" /\ exit' = ExitOk
           \/ engine \notin {"raised", "returned"} /\ main' = "exited" /\ exit' = ExitHalted
    BY <1>4 DEF Concludes, world, Verdict, ExitOf, EngineDone
  <2>2. /\ beat' \in Beats /\ beat'.pc # "sleep" /\ engine' \in EngineStates \ AtWork
        /\ engine' = "cancelled" => engine \in AtWork
        /\ engine \notin AtWork => engine' = engine
        /\ engine \in AtWork => engine' = "cancelled"
        /\ beat'.pc \in {"lost", "gone"} => beat' = beat
    BY <2>1, CancelledFacts DEF TasksFit
  <2>3. SupervisorTypeOK'
    BY <1>0, <2>1, <2>2 DEF SupervisorTypeOK, Beats, EngineStates
  <2>4. BeatCounts'
    BY <2>1, <2>2 DEF BeatCounts
  <2>5. /\ engine \in EngineStates \ {"unborn", "cancelled"} /\ exit = Running
        /\ recorded # 0 => engine = "raised"
        /\ engine = "returned" => life \in Ended \ {"failed"}
    BY <1>0, <2>1 DEF TasksFit, RowFits, EngineRuns
  <2>6. TasksFit' /\ RowFits'
    BY <2>1, <2>2, <2>5 DEF TasksFit, RowFits, EngineRuns, Running, ExitOk, ExitHalted, AtWork, EngineStates
  <2>7. ExitTellsTheRow' /\ FailureRecordedOnce'
    <3>1. FailureRecordedOnce'
      BY <1>0, <2>1 DEF FailureRecordedOnce
    <3>2. CASE engine = "raised"
      BY <2>1, <2>2, <2>5, <3>1, <3>2 DEF ExitTellsTheRow, Running, ExitOk, ExitFailed, ExitHalted
    <3>3. CASE engine # "raised"
      <4>1. recorded' = 0
        BY <1>0, <2>1, <2>5, <3>3
      <4>2. exit' = ExitOk => engine' = "returned" /\ life' \in Ended \ {"failed"}
        BY <2>1, <2>2, <2>5, <3>3 DEF ExitOk, ExitHalted, AtWork
      <4>3. exit' = ExitHalted => engine' \in {"unborn", "halted", "cancelled"}
        BY <2>1, <2>2, <2>5, <3>3 DEF ExitOk, ExitHalted, AtWork, EngineStates
      <4>4. exit' # ExitFailed
        BY <2>1, <3>3 DEF ExitOk, ExitHalted, ExitFailed
      <4>. QED
        BY <2>2, <3>1, <4>1, <4>2, <4>3, <4>4 DEF ExitTellsTheRow, AtWork
    <3>. QED
      BY <3>2, <3>3
  <2>8. OneBlipIsForgiven'
    <3>1. CASE engine' = "cancelled"
      <4>1. beat.pc \in {"gone", "lost"}
        BY <2>1, <2>2, <3>1 DEF EngineDone, BeatDone, AtWork
      <4>2. rowDeleted \/ last2 = <<TRUE, TRUE>>
        BY <4>1 DEF BeatCounts
      <4>. QED
        BY <2>1, <4>2 DEF OneBlipIsForgiven
    <3>. QED
      BY <3>1 DEF OneBlipIsForgiven
  <2>. QED
    BY <2>3, <2>4, <2>6, <2>7, <2>8
<1>5. CASE Interrupted
  <2>1. /\ UNCHANGED <<db, rowDeleted, outages, asks, signalled, life, engine, beat, exit, recorded, last2>>
        /\ main = "watch" /\ main' \in {"awaiting", "failing"} /\ signalled /\ flag' \in {flag, "stop"}
    BY <1>5 DEF Interrupted, world
  <2>2. SupervisorTypeOK'
    BY <2>1 DEF SupervisorTypeOK
  <2>3. BeatCounts'
    BY <2>1 DEF BeatCounts
  <2>4. TasksFit' /\ RowFits'
    BY <2>1 DEF TasksFit, RowFits, EngineRuns
  <2>5. ExitTellsTheRow' /\ FailureRecordedOnce' /\ OneBlipIsForgiven'
    BY <2>1 DEF ExitTellsTheRow, FailureRecordedOnce, OneBlipIsForgiven
  <2>. QED
    BY <2>2, <2>3, <2>4, <2>5
<1>6. CASE RecordFailure
  <2>1. /\ UNCHANGED <<db, rowDeleted, outages, asks, signalled, flag, last2>>
        /\ main = "failing" /\ main' = "exited" /\ exit' = ExitFailed /\ Cancelled
        /\ \/ db /\ life # "failed" /\ life' = "failed" /\ recorded' = recorded + 1
           \/ ~(db /\ life # "failed") /\ life' = life /\ recorded' = recorded
    BY <1>6 DEF RecordFailure, FailureUnwritten, world
  <2>2. /\ beat' \in Beats /\ beat'.pc # "sleep" /\ engine' \in EngineStates \ AtWork
        /\ engine' = "cancelled" => engine \in AtWork
        /\ beat'.pc \in {"lost", "gone"} => beat' = beat
    BY <2>1, CancelledFacts DEF TasksFit
  <2>3. recorded' \in {0, 1} /\ (recorded' = 1 => life' = "failed") /\ life' \in Ended \cup Driven
    BY <1>0, <2>1 DEF RowFits, Ended
  <2>4. SupervisorTypeOK'
    BY <1>0, <2>1, <2>2, <2>3 DEF SupervisorTypeOK, Beats, EngineStates
  <2>5. BeatCounts'
    BY <2>1, <2>2 DEF BeatCounts
  <2>6. TasksFit' /\ RowFits'
    BY <2>1, <2>2, <2>3 DEF TasksFit, RowFits, EngineRuns, Running, ExitFailed, AtWork
  <2>7. ExitTellsTheRow' /\ FailureRecordedOnce'
    BY <2>1, <2>2, <2>3 DEF ExitTellsTheRow, FailureRecordedOnce, Running, ExitOk, ExitFailed, ExitHalted, AtWork
  <2>8. OneBlipIsForgiven'
    BY <2>1, <2>2 DEF OneBlipIsForgiven, RowFits
  <2>. QED
    BY <2>4, <2>5, <2>6, <2>7, <2>8
<1>. QED
  BY <1>1, <1>2, <1>3, <1>4, <1>5, <1>6 DEF MainStep

LEMMA SupWorld == SupInv /\ (DbGoes \/ DbReturns \/ SoftDelete \/ Signal \/ ApiFlags) => SupInv'
<1>. SUFFICES ASSUME SupInv, DbGoes \/ DbReturns \/ SoftDelete \/ Signal \/ ApiFlags PROVE SupInv'
  OBVIOUS
<1>. USE DEF SupInv
<1>1. /\ UNCHANGED <<life, main, engine, beat, exit, recorded, last2>> /\ main # "exited"
      /\ rowDeleted => rowDeleted'
      /\ signalled => signalled'
  BY DEF DbGoes, DbReturns, SoftDelete, Signal, ApiFlags, Up
<1>2. db' \in BOOLEAN /\ rowDeleted' \in BOOLEAN /\ signalled' \in BOOLEAN
  BY Zenon DEF DbGoes, DbReturns, SoftDelete, Signal, ApiFlags, SupervisorTypeOK
<1>3. flag' \in {"none", "stop", "pause"} /\ outages' \in 0 .. MaxOutages /\ asks' \in 0 .. MaxAsks
  BY SupervisorAssumption DEF DbGoes, DbReturns, SoftDelete, Signal, ApiFlags, SupervisorTypeOK
<1>4. SupervisorTypeOK'
  BY <1>1, <1>2, <1>3 DEF SupervisorTypeOK
<1>5. BeatCounts'
  BY <1>1 DEF BeatCounts
<1>6. TasksFit' /\ RowFits'
  BY <1>1 DEF TasksFit, RowFits, EngineRuns
<1>7. exit = Running /\ engine # "cancelled"
  BY <1>1 DEF TasksFit
<1>8. ExitTellsTheRow' /\ FailureRecordedOnce' /\ OneBlipIsForgiven'
  <2>1. ExitTellsTheRow'
    BY <1>1, <1>7 DEF ExitTellsTheRow, Running, ExitOk, ExitFailed, ExitHalted
  <2>2. FailureRecordedOnce'
    BY <1>1 DEF FailureRecordedOnce
  <2>3. OneBlipIsForgiven'
    BY <1>1, <1>7 DEF OneBlipIsForgiven
  <2>. QED
    BY <2>1, <2>2, <2>3
<1>. QED
  BY <1>4, <1>5, <1>6, <1>8

(* The exit code, the row and what stopped the engine tell one story, whatever
   the database does and whenever the heartbeat, an interrupt and the engine
   end (supervise, _run, _heartbeat, record_failure). *)
THEOREM SupervisorIsSafe == SupervisorSpec => []SupervisorSafe
<1>1. SupInv /\ [SupervisorNext]_supVars => SupInv'
  <2>. SUFFICES ASSUME SupInv, [SupervisorNext]_supVars PROVE SupInv'
    OBVIOUS
  <2>1. CASE UNCHANGED supVars
    <3>1. SupervisorTypeOK' /\ TasksFit' /\ RowFits'
      BY <2>1 DEF supVars, SupInv, SupervisorTypeOK, TasksFit, RowFits, EngineRuns
    <3>3. BeatCounts'
      BY <2>1 DEF supVars, SupInv, BeatCounts
    <3>2. ExitTellsTheRow' /\ FailureRecordedOnce' /\ OneBlipIsForgiven'
      BY <2>1 DEF supVars, SupInv, ExitTellsTheRow, FailureRecordedOnce, OneBlipIsForgiven
    <3>. QED
      BY <3>1, <3>2, <3>3 DEF SupInv
  <2>. QED
    BY <2>1, SupEngine, SupBeat, SupMain, SupWorld DEF SupervisorNext
<1>2. SupInv => SupervisorSafe
  BY DEF SupInv, SupervisorSafe
<1>. QED
  BY <1>1, <1>2, SupInit, PTL DEF SupervisorSpec

-----------------------------------------------------------------------------
(* The stream tickets. *)

Slips == [pc : {"idle", "walk", "purge", "insert"}, run : StreamRuns \cup {"none"},
          expired : SUBSET TicketIds, now : 0 .. TicketTime]

(* A ticket in the dictionary is as its scientist was told and opened nothing
   yet; one that was never drawn is nowhere. *)
SlipsHeld ==
  /\ admitted \in [TicketIds -> Seq(StreamRuns)]
  /\ \A t \in TicketIds :
       /\ issued[t] # Nothing => issued[t] = told[t] /\ admitted[t] = <<>>
       /\ told[t] = Nothing => issued[t] = Nothing /\ admitted[t] = <<>>
       /\ told[t] # Nothing => told[t] \in Grant

(* What an issuer is about to purge had its time. *)
PurgesTheOld ==
  \A i \in Issuers :
    /\ issuer[i].pc # "idle" => issuer[i].run \in StreamRuns
    /\ issuer[i].now <= clock
    /\ \A t \in issuer[i].expired : told[t] # Nothing /\ told[t].expires <= clock

TicketInv == TicketsTypeOK /\ SlipsHeld /\ PurgesTheOld /\ OneConnection

LEMMA TicketParts ==
  TicketInv => /\ issued \in [TicketIds -> Grant \cup {Nothing}] /\ told \in [TicketIds -> Grant \cup {Nothing}]
               /\ issuer \in [Issuers -> Slips] /\ clock \in 0 .. TicketTime /\ clock \in Nat
               /\ admitted \in [TicketIds -> Seq(StreamRuns)] /\ TicketTime \in Nat /\ Ttl \in Nat \ {0}
BY TicketsAssumption DEF TicketInv, TicketsTypeOK, SlipsHeld, Slips

LEMMA TicketsStart == TicketsInit => TicketInv
<1>. SUFFICES ASSUME TicketsInit PROVE TicketInv
  OBVIOUS
<1>1. IdleIssuer \in Slips
  BY TicketsAssumption DEF IdleIssuer, Slips
<1>2. TicketsTypeOK
  BY <1>1, TicketsAssumption DEF TicketsInit, TicketsTypeOK, Slips
<1>3. SlipsHeld /\ OneConnection
  BY DEF TicketsInit, SlipsHeld, OneConnection
<1>4. PurgesTheOld
  BY DEF TicketsInit, PurgesTheOld, IdleIssuer
<1>. QED
  BY <1>2, <1>3, <1>4 DEF TicketInv

(* What a step does to the dictionary and to the scientists. *)
LEMMA Redeemed ==
  ASSUME TicketInv, NEW u \in TicketIds, NEW r \in StreamRuns,
         Dispatch([path |-> "events", options |-> FALSE, header |-> FALSE, query |-> FALSE,
                   ticket |-> u, run |-> r])
  PROVE  /\ issued' = [issued EXCEPT ![u] = Nothing] /\ UNCHANGED <<issuer, clock, told>>
         /\ \/ admitted' = admitted
            \/ /\ issued[u] # Nothing /\ issued[u].expires > clock /\ issued[u].run = r
               /\ admitted' = [admitted EXCEPT ![u] = Append(admitted[u], r)]
BY DEF Dispatch, Spent, Consumable

LEMMA TicketsStep == TicketInv /\ [TicketsNext]_ticketVars => TicketInv'
<1>. SUFFICES ASSUME TicketInv, [TicketsNext]_ticketVars PROVE TicketInv'
  OBVIOUS
<1>0. /\ issued \in [TicketIds -> Grant \cup {Nothing}] /\ told \in [TicketIds -> Grant \cup {Nothing}]
      /\ issuer \in [Issuers -> Slips] /\ clock \in 0 .. TicketTime /\ clock \in Nat
      /\ admitted \in [TicketIds -> Seq(StreamRuns)] /\ TicketTime \in Nat /\ Ttl \in Nat \ {0}
      /\ SlipsHeld /\ PurgesTheOld /\ OneConnection
  BY TicketParts DEF TicketInv
<1>1. ASSUME issued' \in [TicketIds -> Grant \cup {Nothing}], told' \in [TicketIds -> Grant \cup {Nothing}],
             issuer' \in [Issuers -> Slips], clock' \in 0 .. TicketTime, SlipsHeld', PurgesTheOld', OneConnection'
      PROVE  TicketInv'
  BY <1>1 DEF TicketInv, TicketsTypeOK, SlipsHeld, Slips
<1>2. CASE UNCHANGED ticketVars
  <2>1. SlipsHeld' /\ PurgesTheOld' /\ OneConnection'
    BY <1>0, <1>2 DEF ticketVars, SlipsHeld, PurgesTheOld, OneConnection
  <2>. QED
    BY <1>0, <1>1, <1>2, <2>1 DEF ticketVars
<1>3. CASE TicketTick
  <2>1. UNCHANGED <<issued, issuer, told, admitted>> /\ clock' = clock + 1 /\ clock < TicketTime
    BY <1>3 DEF TicketTick
  <2>2. SlipsHeld' /\ OneConnection'
    BY <1>0, <2>1 DEF SlipsHeld, OneConnection
  <2>3. \A i \in Issuers : issuer[i].now \in Nat /\ \A t \in issuer[i].expired : t \in TicketIds
    BY <1>0 DEF Slips
  <2>4. PurgesTheOld'
    <3>. SUFFICES ASSUME NEW i \in Issuers
                  PROVE  /\ issuer[i].pc # "idle" => issuer[i].run \in StreamRuns
                         /\ issuer[i].now <= clock + 1
                         /\ \A t \in issuer[i].expired : told[t] # Nothing /\ told[t].expires <= clock + 1
      BY <2>1 DEF PurgesTheOld
    <3>1. issuer[i].now <= clock /\ issuer[i].now \in Nat
      BY <1>0, <2>3 DEF PurgesTheOld
    <3>2. ASSUME NEW t \in issuer[i].expired PROVE told[t].expires <= clock + 1
      <4>1. told[t] # Nothing /\ told[t].expires <= clock /\ t \in TicketIds
        BY <1>0, <2>3 DEF PurgesTheOld
      <4>2. told[t].expires \in Nat
        BY <1>0, <4>1 DEF SlipsHeld, Grant
      <4>. QED
        BY <1>0, <4>1, <4>2
    <3>. QED
      BY <1>0, <3>1, <3>2 DEF PurgesTheOld
  <2>. QED
    BY <1>0, <1>1, <2>1, <2>2, <2>4
<1>4. ASSUME NEW i \in Issuers, Walk(i) \/ Purge(i) \/ Issue(i) \/ \E r \in StreamRuns : AskForTicket(i, r)
      PROVE  TicketInv'
  <2>0. issuer[i] \in Slips /\ IdleIssuer \in Slips /\ IdleIssuer.pc = "idle" /\ IdleIssuer.expired = {}
        /\ IdleIssuer.now <= clock
    BY <1>0 DEF IdleIssuer, Slips
  <2>9. /\ IdleIssuer.pc # "idle" => IdleIssuer.run \in StreamRuns
        /\ \A t \in IdleIssuer.expired : told[t] # Nothing /\ told[t].expires <= clock
    BY <2>0
  <2>1. ASSUME NEW v \in Slips, issuer' = [issuer EXCEPT ![i] = v], clock' = clock,
               \A t \in TicketIds : told[t] # Nothing => told'[t] = told[t],
               v.pc # "idle" => v.run \in StreamRuns, v.now <= clock,
               \A t \in v.expired : told[t] # Nothing /\ told[t].expires <= clock
        PROVE  PurgesTheOld'
    <3>. SUFFICES ASSUME NEW j \in Issuers
                  PROVE  /\ issuer'[j].pc # "idle" => issuer'[j].run \in StreamRuns
                         /\ issuer'[j].now <= clock'
                         /\ \A t \in issuer'[j].expired : told'[t] # Nothing /\ told'[t].expires <= clock'
      BY DEF PurgesTheOld
    <3>1. issuer'[j] = IF j = i THEN v ELSE issuer[j]
      BY <1>0, <2>1
    <3>2. /\ issuer'[j].pc # "idle" => issuer'[j].run \in StreamRuns
          /\ issuer'[j].now <= clock
          /\ \A t \in issuer'[j].expired : t \in TicketIds /\ told[t] # Nothing /\ told[t].expires <= clock
      BY <1>0, <2>1, <3>1 DEF PurgesTheOld, Slips
    <3>. QED
      BY <2>1, <3>2
  <2>2. CASE \E r \in StreamRuns : AskForTicket(i, r)
    <3>1. PICK r \in StreamRuns : AskForTicket(i, r)
      BY <2>2
    <3>. DEFINE v == [pc |-> "walk", run |-> r, expired |-> {}, now |-> clock]
    <3>2. v \in Slips /\ v.run = r /\ v.now = clock /\ v.expired = {}
      BY <1>0 DEF Slips
    <3>3. issuer' = [issuer EXCEPT ![i] = v] /\ UNCHANGED <<issued, clock, told, admitted>>
      BY <3>1 DEF AskForTicket
    <3>. HIDE DEF v
    <3>4. PurgesTheOld'
      <4>1. v.now <= clock /\ (v.pc # "idle" => v.run \in StreamRuns) /\ \A t \in v.expired : FALSE
        BY <1>0, <3>2
      <4>2. \A t \in TicketIds : told[t] # Nothing => told'[t] = told[t]
        BY <3>3
      <4>. QED
        BY <2>1, <3>2, <3>3, <4>1, <4>2, Zenon
    <3>5. SlipsHeld' /\ OneConnection'
      BY <1>0, <3>3 DEF SlipsHeld, OneConnection
    <3>. QED
      BY <1>0, <1>1, <3>2, <3>3, <3>4, <3>5
  <2>3. CASE Walk(i)
    <3>1. UNCHANGED <<issued, clock, told, admitted>>
      BY <2>3 DEF Walk
    <3>2. SlipsHeld' /\ OneConnection'
      BY <1>0, <3>1 DEF SlipsHeld, OneConnection
    <3>3. \E v \in Slips : /\ issuer' = [issuer EXCEPT ![i] = v]
                           /\ v.pc # "idle" => v.run \in StreamRuns
                           /\ v.now <= clock
                           /\ \A t \in v.expired : told[t] # Nothing /\ told[t].expires <= clock
      <4>1. CASE Cardinality(Granted(issued)) # dictSize[i]
        <5>1. issuer' = [issuer EXCEPT ![i] = IdleIssuer]
          BY <2>3, <4>1 DEF Walk, Stopped
        <5>. QED
          BY <2>0, <2>9, <5>1, Zenon
      <4>2. CASE Cardinality(Granted(issued)) = dictSize[i]
        <5>. DEFINE gone == Expired(issuer[i].now)
                    v == [pc |-> "purge", run |-> issuer[i].run, expired |-> gone, now |-> issuer[i].now]
        <5>1. issuer' = [issuer EXCEPT ![i] = [issuer[i] EXCEPT !.pc = "purge", !.expired = gone]]
          BY <2>3, <4>2 DEF Walk
        <5>2. gone \subseteq TicketIds
          BY DEF Expired, Granted
        <5>3. issuer[i].run \in StreamRuns /\ issuer[i].now <= clock /\ issuer[i].now \in 0 .. TicketTime
          BY <1>0, <2>0, <2>3 DEF Walk, PurgesTheOld, Slips
        <5>4. \A t \in gone : told[t] # Nothing /\ told[t].expires <= issuer[i].now /\ told[t].expires \in Nat
          BY <1>0 DEF Expired, Granted, SlipsHeld, Grant
        <5>. HIDE DEF gone
        <5>5. v \in Slips /\ v.pc = "purge" /\ v.run = issuer[i].run /\ v.expired = gone /\ v.now = issuer[i].now
          BY <5>2, <5>3 DEF Slips
        <5>8. v = [issuer[i] EXCEPT !.pc = "purge", !.expired = gone]
          <6>1. ASSUME NEW s \in Slips, NEW w, w = [s EXCEPT !.pc = "purge", !.expired = gone]
                PROVE  w = [pc |-> "purge", run |-> s.run, expired |-> gone, now |-> s.now]
            BY <6>1 DEF Slips
          <6>. QED
            BY <2>0, <6>1
        <5>6. issuer' = [issuer EXCEPT ![i] = v]
          BY <5>1, <5>8
        <5>. HIDE DEF v
        <5>7. \A t \in gone : told[t] # Nothing /\ told[t].expires <= clock
          BY <1>0, <5>3, <5>4
        <5>. QED
          BY <5>3, <5>5, <5>6, <5>7
      <4>. QED
        BY <4>1, <4>2
    <3>4. PurgesTheOld'
      BY <2>1, <3>1, <3>3
    <3>. QED
      BY <1>0, <1>1, <3>1, <3>2, <3>3, <3>4
  <2>4. CASE Purge(i)
    <3>1. PICK u \in issuer[i].expired :
            \/ /\ issued[u] = Nothing /\ issued' = issued /\ issuer' = [issuer EXCEPT ![i] = IdleIssuer]
            \/ /\ issued[u] # Nothing /\ issued' = [issued EXCEPT ![u] = Nothing]
               /\ issuer' = [issuer EXCEPT ![i] = [issuer[i] EXCEPT !.expired = @ \ {u}]]
      BY <2>4 DEF Purge, Stopped
    <3>2. UNCHANGED <<clock, told, admitted>> /\ issuer[i].pc = "purge"
      BY <2>4 DEF Purge
    <3>3. issued' \in [TicketIds -> Grant \cup {Nothing}]
          /\ \A t \in TicketIds : issued'[t] = issued[t] \/ issued'[t] = Nothing
      BY <1>0, <3>1
    <3>4. SlipsHeld' /\ OneConnection'
      BY <1>0, <3>2, <3>3 DEF SlipsHeld, OneConnection
    <3>5. \E v \in Slips : /\ issuer' = [issuer EXCEPT ![i] = v]
                           /\ v.pc # "idle" => v.run \in StreamRuns
                           /\ v.now <= clock
                           /\ \A t \in v.expired : told[t] # Nothing /\ told[t].expires <= clock
      <4>1. CASE issuer' = [issuer EXCEPT ![i] = IdleIssuer]
        BY <2>0, <2>9, <4>1, Zenon
      <4>2. CASE issuer' = [issuer EXCEPT ![i] = [issuer[i] EXCEPT !.expired = @ \ {u}]]
        <5>. DEFINE rest == issuer[i].expired \ {u}
                    v == [pc |-> "purge", run |-> issuer[i].run, expired |-> rest, now |-> issuer[i].now]
        <5>1. rest \subseteq issuer[i].expired /\ issuer[i].expired \subseteq TicketIds
          BY <2>0 DEF Slips
        <5>2. /\ issuer[i].run \in StreamRuns /\ issuer[i].now <= clock /\ issuer[i].now \in 0 .. TicketTime
              /\ \A t \in issuer[i].expired : told[t] # Nothing /\ told[t].expires <= clock
          BY <1>0, <2>0, <3>2 DEF PurgesTheOld, Slips
        <5>3. v \in Slips /\ v.pc = "purge" /\ v.run = issuer[i].run /\ v.expired = rest /\ v.now = issuer[i].now
          BY <5>1, <5>2 DEF Slips
        <5>5. v = [issuer[i] EXCEPT !.expired = rest]
          BY <2>0, <3>2 DEF Slips
        <5>6. issuer' = [issuer EXCEPT ![i] = [issuer[i] EXCEPT !.expired = rest]]
          BY <4>2
        <5>4. issuer' = [issuer EXCEPT ![i] = v]
          BY <5>5, <5>6
        <5>. HIDE DEF v, rest
        <5>. QED
          BY <5>1, <5>2, <5>3, <5>4
      <4>. QED
        BY <3>1, <4>1, <4>2
    <3>6. PurgesTheOld'
      BY <2>1, <3>2, <3>5
    <3>. QED
      BY <1>0, <1>1, <3>2, <3>3, <3>4, <3>5, <3>6
  <2>5. CASE Issue(i)
    <3>. DEFINE grant == [run |-> issuer[i].run, expires |-> clock + Ttl]
    <3>1. PICK u \in TicketIds : /\ told[u] = Nothing /\ issued' = [issued EXCEPT ![u] = grant]
                                 /\ told' = [told EXCEPT ![u] = grant]
      BY <2>5 DEF Issue
    <3>2. issuer' = [issuer EXCEPT ![i] = IdleIssuer] /\ UNCHANGED <<clock, admitted>> /\ issuer[i].pc = "purge"
      BY <2>5 DEF Issue, Stopped
    <3>3. grant \in Grant /\ grant # Nothing
      <4>1. issuer[i].run \in StreamRuns
        BY <1>0, <3>2 DEF PurgesTheOld
      <4>2. clock + Ttl \in 0 .. (TicketTime + Ttl) /\ clock + Ttl # 0
        BY <1>0
      <4>. QED
        BY <4>1, <4>2 DEF Grant, Nothing
    <3>. HIDE DEF grant
    <3>4. SlipsHeld'
      BY <1>0, <3>1, <3>2, <3>3 DEF SlipsHeld
    <3>5. OneConnection'
      BY <1>0, <3>2 DEF OneConnection
    <3>6. PurgesTheOld'
      <4>1. \A t \in TicketIds : told[t] # Nothing => told'[t] = told[t]
        BY <1>0, <3>1
      <4>. QED
        BY <2>0, <2>1, <2>9, <3>2, <4>1, Zenon
    <3>. QED
      BY <1>0, <1>1, <2>0, <3>1, <3>2, <3>3, <3>4, <3>5, <3>6
  <2>. QED
    BY <1>4, <2>2, <2>3, <2>4, <2>5
<1>5. ASSUME NEW u \in TicketIds, NEW r \in StreamRuns,
             Dispatch([path |-> "events", options |-> FALSE, header |-> FALSE, query |-> FALSE,
                       ticket |-> u, run |-> r])
      PROVE  TicketInv'
  <2>1. /\ issued' = [issued EXCEPT ![u] = Nothing] /\ UNCHANGED <<issuer, clock, told>>
        /\ \/ admitted' = admitted
           \/ /\ issued[u] # Nothing /\ issued[u].expires > clock /\ issued[u].run = r
              /\ admitted' = [admitted EXCEPT ![u] = Append(admitted[u], r)]
    BY <1>5, Redeemed
  <2>2. PurgesTheOld'
    BY <1>0, <2>1 DEF PurgesTheOld
  <2>3. issued' \in [TicketIds -> Grant \cup {Nothing}]
    BY <1>0, <2>1
  <2>4. SlipsHeld' /\ OneConnection'
    <3>1. CASE admitted' = admitted
      BY <1>0, <2>1, <3>1 DEF SlipsHeld, OneConnection
    <3>2. CASE /\ issued[u] # Nothing
               /\ admitted' = [admitted EXCEPT ![u] = Append(admitted[u], r)]
      <4>1. admitted[u] = <<>> /\ issued[u] = told[u]
        BY <1>0, <3>2 DEF SlipsHeld
      <4>2. Append(admitted[u], r) \in Seq(StreamRuns) /\ Len(Append(admitted[u], r)) = 1
        BY <4>1, AppendProperties, EmptySeq
      <4>3. SlipsHeld'
        BY <1>0, <2>1, <3>2, <4>1, <4>2 DEF SlipsHeld
      <4>4. OneConnection'
        BY <1>0, <3>2, <4>2 DEF OneConnection
      <4>. QED
        BY <4>3, <4>4
    <3>. QED
      BY <2>1, <3>1, <3>2
  <2>. QED
    BY <1>0, <1>1, <2>1, <2>2, <2>3, <2>4
<1>. QED
  BY <1>2, <1>3, <1>4, <1>5 DEF TicketsNext

(* A ticket opens one stream, of the run it was issued for and in its time; it
   leaves the dictionary by being presented or by its time and does not come
   back, however issuers purge and the loop redeems between each other's
   bytecodes (TicketStore, OptionalTokenAuthMiddleware). *)
THEOREM TicketsAreSafe == TicketsSpec => TicketsSafe
<1>1. TicketInv => TicketsTypeOK /\ OneConnection
  BY DEF TicketInv
<1>2. TicketInv /\ [TicketsNext]_ticketVars =>
        [\A t \in TicketIds :
           /\ admitted'[t] # admitted[t] =>
                admitted'[t] = Append(admitted[t], told[t].run) /\ clock < told[t].expires
           /\ issued[t] = Nothing /\ told[t] # Nothing => issued'[t] = Nothing]_ticketVars
  <2>. SUFFICES ASSUME TicketInv, TicketsNext, NEW t \in TicketIds
                PROVE  /\ admitted'[t] # admitted[t] =>
                            admitted'[t] = Append(admitted[t], told[t].run) /\ clock < told[t].expires
                       /\ issued[t] = Nothing /\ told[t] # Nothing => issued'[t] = Nothing
    OBVIOUS
  <2>0. /\ issued \in [TicketIds -> Grant \cup {Nothing}] /\ admitted \in [TicketIds -> Seq(StreamRuns)]
        /\ clock \in Nat /\ SlipsHeld
    BY TicketParts DEF TicketInv
  <2>1. CASE \E i \in Issuers : Walk(i) \/ \E r \in StreamRuns : AskForTicket(i, r)
    BY <2>1 DEF Walk, AskForTicket
  <2>2. CASE \E i \in Issuers : Purge(i)
    BY <2>0, <2>2 DEF Purge
  <2>3. CASE \E i \in Issuers : Issue(i)
    BY <2>0, <2>3 DEF Issue
  <2>4. CASE TicketTick
    BY <2>4 DEF TicketTick
  <2>5. ASSUME NEW u \in TicketIds, NEW r \in StreamRuns,
               Dispatch([path |-> "events", options |-> FALSE, header |-> FALSE, query |-> FALSE,
                         ticket |-> u, run |-> r])
        PROVE  /\ admitted'[t] # admitted[t] =>
                    admitted'[t] = Append(admitted[t], told[t].run) /\ clock < told[t].expires
               /\ issued[t] = Nothing /\ told[t] # Nothing => issued'[t] = Nothing
    <3>1. /\ issued' = [issued EXCEPT ![u] = Nothing]
          /\ \/ admitted' = admitted
             \/ /\ issued[u] # Nothing /\ issued[u].expires > clock /\ issued[u].run = r
                /\ admitted' = [admitted EXCEPT ![u] = Append(admitted[u], r)]
      BY <2>5, Redeemed
    <3>2. issued[u] # Nothing => issued[u] = told[u] /\ told[u].expires \in Nat
      BY <2>0 DEF SlipsHeld, Grant
    <3>. QED
      BY <2>0, <3>1, <3>2
  <2>. QED
    BY <2>1, <2>2, <2>3, <2>4, <2>5 DEF TicketsNext
<1>3. TicketInv /\ [TicketsNext]_ticketVars =>
        [\A t \in TicketIds : issued[t] # Nothing /\ issued'[t] = Nothing /\ UNCHANGED admitted /\ issuer' # issuer
           => told[t].expires <= clock]_ticketVars
  <2>. SUFFICES ASSUME TicketInv, TicketsNext, NEW t \in TicketIds, issued[t] # Nothing, issued'[t] = Nothing,
                       issuer' # issuer
                PROVE  told[t].expires <= clock
    OBVIOUS
  <2>0. issued \in [TicketIds -> Grant \cup {Nothing}] /\ issuer \in [Issuers -> Slips]
        /\ clock \in Nat /\ Ttl \in Nat \ {0}
    BY TicketParts DEF TicketInv
  <2>1. CASE \E i \in Issuers : Purge(i)
    <3>1. PICK i \in Issuers : Purge(i)
      BY <2>1
    <3>2. t \in issuer[i].expired
      BY <2>0, <3>1 DEF Purge
    <3>. QED
      BY <3>2 DEF TicketInv, PurgesTheOld
  <2>2. CASE \E i \in Issuers : Issue(i)
    <3>1. PICK i \in Issuers, u \in TicketIds :
            issued' = [issued EXCEPT ![u] = [run |-> issuer[i].run, expires |-> clock + Ttl]]
      BY <2>2 DEF Issue
    <3>2. [run |-> issuer[i].run, expires |-> clock + Ttl] # Nothing
      BY <2>0 DEF Nothing
    <3>. QED
      BY <2>0, <3>1, <3>2
  <2>3. CASE \E i \in Issuers : Walk(i) \/ \E r \in StreamRuns : AskForTicket(i, r)
    BY <2>3 DEF Walk, AskForTicket
  <2>4. CASE TicketTick \/ \E u \in TicketIds, r \in StreamRuns :
               Dispatch([path |-> "events", options |-> FALSE, header |-> FALSE, query |-> FALSE,
                         ticket |-> u, run |-> r])
    BY <2>4 DEF TicketTick, Dispatch
  <2>. QED
    BY <2>1, <2>2, <2>3, <2>4 DEF TicketsNext
<1>. QED
  BY <1>1, <1>2, <1>3, TicketsStart, TicketsStep, PTL
     DEF TicketsSpec, TicketsSafe, TicketsAreBound, PurgeTakesTheExpired

-----------------------------------------------------------------------------
(* The projection on disk. *)

Docs == [ideas : SUBSET ShelfIds, active : SUBSET ShelfIds, games : SUBSET PairsOf(ShelfIds),
         there : BOOLEAN, whole : BOOLEAN]
Drafts == [step : {"idle", "run", "hypotheses", "matches", "write"}, rows : SUBSET ShelfIds,
           active : SUBSET ShelfIds, games : SUBSET PairsOf(ShelfIds), overview : BOOLEAN,
           todo : Seq(SUBSET ShelfFiles)]

ShelfRows ==
  /\ rowsNow \in [ShelfIds -> {"unborn", "active", "archived"}]
  /\ games \subseteq PairsOf(AliveRows) /\ overviewMd \in BOOLEAN
  /\ halfWritten \in BOOLEAN /\ projections \in 0 .. MaxProjections

(* Every document is of ideas and matches there are, its matches of its ideas. *)
Pages ==
  /\ shelf \in [ShelfFiles -> Docs]
  /\ \A f \in ShelfFiles :
       /\ shelf[f].whole /\ shelf[f].ideas \subseteq AliveRows /\ shelf[f].games \subseteq games
       /\ \A p \in shelf[f].games : p \subseteq shelf[f].ideas

(* The ideas of the draft have their files. *)
RowsThere == \A i \in writer.rows : shelf[i].there

(* Where the writing stands: what is left, and what is done before it. *)
Stage ==
  \/ \E R \in SUBSET writer.rows, O \in SUBSET {"overview"} :
       writer.todo = <<R, O, {"csv"}, {"state"}>> /\ \A i \in writer.rows \ R : shelf[i].there
  \/ \E O \in SUBSET {"overview"} : writer.todo = <<O, {"csv"}, {"state"}>> /\ RowsThere
  \/ \E C \in SUBSET {"csv"} : /\ writer.todo = <<C, {"state"}>> /\ RowsThere
                               /\ "csv" \notin C => shelf["csv"].ideas = writer.rows
  \/ \E S \in SUBSET {"state"} : /\ writer.todo = <<S>> /\ RowsThere /\ shelf["csv"].ideas = writer.rows
                                 /\ "state" \notin S => shelf["state"].ideas = writer.rows
  \/ writer.todo = <<>> /\ shelf["state"].ideas = writer.rows

(* The draft holds the ideas there are: none is born while it is written. *)
Draft ==
  /\ writer \in Drafts
  /\ writer.step \in {"matches", "write"} => writer.rows = AliveRows
  /\ writer.step = "write" => writer.games \subseteq games /\ Stage

ShelfInv == ShelfRows /\ Pages /\ Draft /\ IndexNeverDangles /\ ShelfKeepsUp

LEMMA ShelfFacts ==
  /\ AliveRows \subseteq ShelfIds /\ ActiveRows \subseteq AliveRows
  /\ PairsOf(ActiveRows) \subseteq PairsOf(AliveRows) /\ PairsOf(AliveRows) \subseteq PairsOf(ShelfIds)
  /\ \A p \in PairsOf(AliveRows) : p \subseteq AliveRows
  /\ ShelfIds \subseteq ShelfFiles /\ {"overview", "csv", "state"} \subseteq ShelfFiles
  /\ "overview" \notin ShelfIds /\ "csv" \notin ShelfIds /\ "state" \notin ShelfIds
<1>1. AliveRows \subseteq ShelfIds /\ ActiveRows \subseteq AliveRows
  BY DEF AliveRows, ActiveRows
<1>2. ASSUME NEW A, NEW B, A \subseteq B PROVE PairsOf(A) \subseteq PairsOf(B)
  BY <1>2 DEF PairsOf
<1>3. \A p \in PairsOf(AliveRows) : p \subseteq AliveRows
  BY DEF PairsOf
<1>4. PairsOf(ActiveRows) \subseteq PairsOf(AliveRows) /\ PairsOf(AliveRows) \subseteq PairsOf(ShelfIds)
  BY <1>1, <1>2
<1>5. /\ ShelfIds \subseteq ShelfFiles /\ {"overview", "csv", "state"} \subseteq ShelfFiles
      /\ "overview" \notin ShelfIds /\ "csv" \notin ShelfIds /\ "state" \notin ShelfIds
  BY ProjectionAssumption DEF ShelfFiles, Fixed
<1>. QED
  BY <1>1, <1>3, <1>4, <1>5

LEMMA ShelfStart == ProjectionInit => ShelfInv
<1>. SUFFICES ASSUME ProjectionInit PROVE ShelfInv
  OBVIOUS
<1>1. ShelfRows
  <2>1. rowsNow \in [ShelfIds -> {"unborn", "active", "archived"}] /\ games = {} /\ projections = 0
    BY DEF ProjectionInit
  <2>2. overviewMd \in BOOLEAN /\ halfWritten \in BOOLEAN
    BY Zenon DEF ProjectionInit
  <2>. QED
    BY <2>1, <2>2, ProjectionAssumption DEF ShelfRows
<1>2. Absent \in Docs /\ Absent.whole /\ Absent.ideas = {} /\ Absent.games = {} /\ ~Absent.there
  BY DEF Absent, Docs
<1>3. \A f \in ShelfFiles : shelf[f] = Absent
  BY DEF ProjectionInit
<1>4. Pages
  BY <1>2, <1>3 DEF ProjectionInit, Pages
<1>5. writer = ShelfIdle /\ lastWhole = {}
  BY DEF ProjectionInit
<1>6. ShelfIdle \in Drafts /\ ShelfIdle.step = "idle"
  BY EmptySeq DEF ShelfIdle, Drafts
<1>7. Draft
  BY <1>5, <1>6 DEF Draft
<1>8. IndexNeverDangles /\ ShelfKeepsUp
  BY <1>2, <1>3, <1>5, ShelfFacts DEF IndexNeverDangles, ShelfKeepsUp
<1>. QED
  BY <1>1, <1>4, <1>7, <1>8 DEF ShelfInv

(* Ideas and matches only come, and what is on the shelf stays true. *)
LEMMA ShelfQuiet ==
  ASSUME ShelfInv, UNCHANGED <<shelf, lastWhole>>, AliveRows \subseteq AliveRows', games \subseteq games'
  PROVE  Pages' /\ IndexNeverDangles' /\ ShelfKeepsUp'
<1>1. Pages'
  BY DEF ShelfInv, Pages
<1>2. IndexNeverDangles'
  BY DEF ShelfInv, IndexNeverDangles
<1>3. ShelfKeepsUp'
  BY DEF ShelfInv, ShelfKeepsUp
<1>. QED
  BY <1>1, <1>2, <1>3

LEMMA DraftQuiet ==
  ASSUME ShelfInv, UNCHANGED <<shelf, writer>>, AliveRows' = AliveRows, games \subseteq games'
  PROVE  Draft'
<1>1. Stage => Stage'
  BY DEF Stage, RowsThere
<1>. QED
  BY <1>1 DEF ShelfInv, Draft

LEMMA ShelfOthers ==
  ASSUME ShelfInv, EngineWorks \/ \E i \in ShelfIds : ArchiveIdea(i)
  PROVE  ShelfInv'
<1>0. ShelfRows /\ writer \in Drafts
  BY DEF ShelfInv, Draft
<1>1. CASE EngineWorks
  <2>1. writer.step = "idle" /\ UNCHANGED <<writer, shelf, halfWritten, projections, lastWhole>>
    BY <1>1 DEF EngineWorks
  <2>2. /\ rowsNow' \in [ShelfIds -> {"unborn", "active", "archived"}] /\ AliveRows \subseteq AliveRows'
        /\ games \subseteq games' /\ games' \subseteq PairsOf(AliveRows')
    <3>1. CASE \E i \in ShelfIds \ AliveRows : /\ rowsNow' = [rowsNow EXCEPT ![i] = "active"]
                                               /\ UNCHANGED <<games, overviewMd>>
      <4>1. PICK i \in ShelfIds \ AliveRows : rowsNow' = [rowsNow EXCEPT ![i] = "active"]
        BY <3>1
      <4>2. rowsNow' \in [ShelfIds -> {"unborn", "active", "archived"}]
        BY <1>0, <4>1 DEF ShelfRows
      <4>3. AliveRows \subseteq AliveRows'
        BY <1>0, <4>1 DEF ShelfRows, AliveRows
      <4>4. PairsOf(AliveRows) \subseteq PairsOf(AliveRows')
        BY <4>3 DEF PairsOf
      <4>. QED
        BY <1>0, <3>1, <4>2, <4>3, <4>4 DEF ShelfRows
    <3>2. CASE UNCHANGED rowsNow
      <4>1. AliveRows' = AliveRows
        BY <3>2 DEF AliveRows
      <4>2. games \subseteq games' /\ games' \subseteq PairsOf(AliveRows)
        BY <1>0, <1>1, ShelfFacts DEF EngineWorks, ShelfRows
      <4>. QED
        BY <1>0, <3>2, <4>1, <4>2 DEF ShelfRows
    <3>. QED
      BY <1>1, <3>1, <3>2 DEF EngineWorks
  <2>3. overviewMd' \in BOOLEAN
    BY <1>0, <1>1, Zenon DEF EngineWorks, ShelfRows
  <2>4. ShelfRows'
    BY <1>0, <2>1, <2>2, <2>3 DEF ShelfRows
  <2>5. Draft'
    BY <1>0, <2>1 DEF Draft
  <2>. QED
    BY <2>1, <2>2, <2>4, <2>5, ShelfQuiet DEF ShelfInv
<1>2. CASE \E i \in ShelfIds : ArchiveIdea(i)
  <2>1. PICK i \in ShelfIds : /\ rowsNow[i] = "active" /\ rowsNow' = [rowsNow EXCEPT ![i] = "archived"]
                              /\ UNCHANGED <<games, overviewMd, writer, shelf, halfWritten, projections, lastWhole>>
    BY <1>2 DEF ArchiveIdea
  <2>2. rowsNow' \in [ShelfIds -> {"unborn", "active", "archived"}]
    BY <1>0, <2>1 DEF ShelfRows
  <2>3. AliveRows' = AliveRows
    BY <1>0, <2>1 DEF ShelfRows, AliveRows
  <2>4. ShelfRows'
    BY <1>0, <2>1, <2>2, <2>3 DEF ShelfRows
  <2>. QED
    BY <2>1, <2>3, <2>4, ShelfQuiet, DraftQuiet DEF ShelfInv
<1>. QED
  BY <1>1, <1>2

(* The steps that read, end or fail leave the shelf as it is. *)
LEMMA ShelfReads ==
  ASSUME ShelfInv, ReadRun \/ ReadHypotheses \/ ReadMatches \/ EndProjection \/ ProjectionFails
  PROVE  ShelfInv'
<1>0. ShelfRows /\ writer \in Drafts /\ Draft /\ ShelfKeepsUp
  BY DEF ShelfInv, Draft
<1>1. /\ UNCHANGED <<rowsNow, games, overviewMd, shelf>> /\ AliveRows' = AliveRows /\ ActiveRows' = ActiveRows
  BY DEF ReadRun, ReadHypotheses, ReadMatches, EndProjection, ProjectionFails, TornWrite, AliveRows, ActiveRows
<1>2. ShelfIdle \in Drafts /\ ShelfIdle.step = "idle"
  BY EmptySeq DEF ShelfIdle, Drafts
<1>3. CASE ReadRun
  <2>1. /\ writer' = [ShelfIdle EXCEPT !.step = "hypotheses", !.overview = overviewMd]
        /\ UNCHANGED <<halfWritten, lastWhole>> /\ projections' \in 0 .. MaxProjections
    BY <1>0, <1>3, ProjectionAssumption DEF ReadRun, ShelfRows
  <2>2. writer' \in Drafts /\ writer'.step = "hypotheses"
    BY <1>0, <1>2, <2>1 DEF Drafts, ShelfRows
  <2>3. ShelfRows' /\ Draft'
    BY <1>0, <1>1, <2>1, <2>2 DEF ShelfRows, Draft
  <2>. QED
    BY <1>1, <2>1, <2>3, ShelfQuiet DEF ShelfInv
<1>4. CASE ReadHypotheses
  <2>1. /\ writer' = [writer EXCEPT !.step = "matches", !.rows = AliveRows, !.active = ActiveRows]
        /\ UNCHANGED <<halfWritten, lastWhole, projections>>
    BY <1>4 DEF ReadHypotheses
  <2>2. AliveRows \in SUBSET ShelfIds /\ ActiveRows \in SUBSET ShelfIds
    BY ShelfFacts
  <2>3. writer' \in Drafts /\ writer'.step = "matches" /\ writer'.rows = AliveRows
    BY <1>0, <2>1, <2>2 DEF Drafts
  <2>4. ShelfRows' /\ Draft'
    BY <1>0, <1>1, <2>1, <2>3 DEF ShelfRows, Draft
  <2>. QED
    BY <1>1, <2>1, <2>4, ShelfQuiet DEF ShelfInv
<1>5. CASE ReadMatches
  <2>. DEFINE O == IF writer.overview THEN {"overview"} ELSE {}
              T == <<writer.rows, O, {"csv"}, {"state"}>>
  <2>1. /\ writer' = [writer EXCEPT !.step = "write", !.games = games, !.todo = T]
        /\ UNCHANGED <<halfWritten, lastWhole, projections>> /\ writer.step = "matches"
    BY <1>5 DEF ReadMatches, WriteOrder
  <2>2. O \in SUBSET {"overview"}
    OBVIOUS
  <2>. HIDE DEF O
  <2>3. T \in Seq(SUBSET ShelfFiles) /\ games \in SUBSET PairsOf(ShelfIds)
    BY <1>0, <2>2, ShelfFacts DEF Drafts, ShelfRows
  <2>4. T = <<writer.rows, O, {"csv"}, {"state"}>>
    OBVIOUS
  <2>. HIDE DEF T
  <2>5. /\ writer' \in Drafts /\ writer'.step = "write" /\ writer'.rows = writer.rows /\ writer'.games = games
        /\ writer'.todo = T
    BY <1>0, <2>1, <2>3 DEF Drafts
  <2>6. Stage'
    BY <2>2, <2>4, <2>5 DEF Stage
  <2>7. ShelfRows' /\ Draft'
    BY <1>0, <1>1, <2>1, <2>5, <2>6 DEF ShelfRows, Draft
  <2>. QED
    BY <1>1, <2>1, <2>7, ShelfQuiet DEF ShelfInv
<1>6. CASE EndProjection
  <2>1. /\ writer' = ShelfIdle /\ lastWhole' = writer.rows /\ writer.step = "write" /\ writer.todo = <<>>
        /\ UNCHANGED <<halfWritten, projections>>
    BY <1>6 DEF EndProjection
  <2>2. shelf["state"].ideas = writer.rows
    <3>1. Stage
      BY <1>0, <2>1 DEF Draft
    <3>. QED
      BY <2>1, <3>1, EmptySeq DEF Stage
  <2>3. Pages' /\ IndexNeverDangles' /\ ShelfRows'
    BY <1>1, <2>1 DEF ShelfInv, Pages, IndexNeverDangles, ShelfRows
  <2>4. ShelfKeepsUp'
    BY <1>0, <1>1, <2>1, <2>2 DEF ShelfKeepsUp
  <2>5. Draft'
    BY <1>2, <2>1 DEF Draft
  <2>. QED
    BY <2>3, <2>4, <2>5 DEF ShelfInv
<1>7. CASE ProjectionFails
  <2>1. writer' = ShelfIdle /\ UNCHANGED <<projections, lastWhole>>
    BY <1>7 DEF ProjectionFails
  <2>2. halfWritten' \in BOOLEAN
    BY <1>0, <1>7, Zenon DEF ProjectionFails, ShelfRows
  <2>3. ShelfRows' /\ Draft'
    BY <1>0, <1>1, <1>2, <2>1, <2>2 DEF ShelfRows, Draft
  <2>. QED
    BY <1>1, <2>1, <2>3, ShelfQuiet DEF ShelfInv
<1>. QED
  BY <1>3, <1>4, <1>5, <1>6, <1>7

(* Writing a file: a document of the ideas there are, on the shelf. *)
LEMMA Written ==
  ASSUME ShelfInv, NEW f \in ShelfFiles, writer.step = "write", shelf' = [shelf EXCEPT ![f] = Document],
         UNCHANGED <<rowsNow, games, lastWhole>>
  PROVE  /\ Pages' /\ AliveRows' = AliveRows /\ writer.rows = AliveRows
         /\ shelf'[f].ideas = writer.rows /\ shelf'[f].there
         /\ \A g \in ShelfFiles : /\ g # f => shelf'[g] = shelf[g]
                                  /\ shelf[g].there => shelf'[g].there
                                  /\ shelf[g].ideas \subseteq shelf'[g].ideas
         /\ f = "state" => shelf'[f].games \subseteq games
<1>0. /\ ShelfRows /\ Pages /\ writer \in Drafts /\ writer.rows = AliveRows /\ writer.games \subseteq games
  BY DEF ShelfInv, Draft
<1>1. AliveRows' = AliveRows
  BY DEF AliveRows
<1>2. PICK d : d = Document
  OBVIOUS
<1>3. /\ d \in Docs /\ d.ideas = writer.rows /\ d.games = writer.games /\ d.there /\ d.whole
  <2>1. d = [ideas |-> writer.rows, active |-> writer.active, games |-> writer.games, there |-> TRUE, whole |-> TRUE]
    BY <1>2 DEF Document
  <2>. QED
    BY <1>0, <2>1 DEF Docs, Drafts
<1>4. shelf' = [shelf EXCEPT ![f] = d] /\ shelf \in [ShelfFiles -> Docs]
  BY <1>0, <1>2 DEF Pages
<1>5. \A g \in ShelfFiles : shelf'[g] = IF g = f THEN d ELSE shelf[g]
  BY <1>4
<1>6. shelf' \in [ShelfFiles -> Docs]
  BY <1>3, <1>4
<1>7. \A p \in d.games : p \subseteq d.ideas
  BY <1>0, <1>3, ShelfFacts DEF ShelfRows
<1>8. Pages'
  BY <1>0, <1>1, <1>3, <1>5, <1>6, <1>7 DEF Pages
<1>. QED
  BY <1>0, <1>1, <1>3, <1>5, <1>8 DEF Pages

LEMMA ShelfWrites == ShelfInv /\ WriteFile => ShelfInv'
<1>. SUFFICES ASSUME ShelfInv, WriteFile PROVE ShelfInv'
  OBVIOUS
<1>0. /\ ShelfRows /\ Pages /\ Draft /\ IndexNeverDangles /\ ShelfKeepsUp /\ Stage
      /\ writer \in Drafts /\ writer.step = "write" /\ writer.todo # <<>>
      /\ UNCHANGED <<rowsNow, games, overviewMd, halfWritten, projections, lastWhole>>
  BY DEF ShelfInv, Draft, WriteFile
<1>1. AliveRows' = AliveRows /\ writer.rows = AliveRows /\ ShelfRows'
  BY <1>0 DEF ShelfRows, AliveRows, Draft
<1>2. CASE Due = {}
  <2>1. writer' = [writer EXCEPT !.todo = Tail(writer.todo)] /\ shelf' = shelf
    BY <1>2 DEF WriteFile
  <2>2. PICK T \in Seq(SUBSET ShelfFiles) : T = Tail(writer.todo)
    BY <1>0, HeadTailProperties DEF Drafts
  <2>3. /\ writer' \in Drafts /\ writer'.step = "write" /\ writer'.rows = writer.rows
        /\ writer'.games = writer.games /\ writer'.todo = T
    BY <1>0, <2>1, <2>2 DEF Drafts
  <2>4. Head(writer.todo) = {}
    BY <1>2 DEF Due
  <2>5. RowsThere => RowsThere'
    BY <2>1, <2>3 DEF RowsThere
  <2>6. Stage'
    <3>1. CASE \E R \in SUBSET writer.rows, O \in SUBSET {"overview"} :
                 writer.todo = <<R, O, {"csv"}, {"state"}>> /\ \A i \in writer.rows \ R : shelf[i].there
      <4>1. PICK R \in SUBSET writer.rows, O \in SUBSET {"overview"} :
                 writer.todo = <<R, O, {"csv"}, {"state"}>> /\ \A i \in writer.rows \ R : shelf[i].there
        BY <3>1
      <4>2. R = {} /\ T = <<O, {"csv"}, {"state"}>>
        BY <2>2, <2>4, <4>1
      <4>3. RowsThere'
        BY <2>1, <2>3, <4>1, <4>2 DEF RowsThere
      <4>. QED
        BY <2>3, <4>2, <4>3 DEF Stage
    <3>2. CASE \E O \in SUBSET {"overview"} : writer.todo = <<O, {"csv"}, {"state"}>> /\ RowsThere
      <4>1. T = <<{"csv"}, {"state"}>>
        BY <2>2, <3>2
      <4>. QED
        BY <2>3, <2>5, <3>2, <4>1 DEF Stage
    <3>3. CASE \E C \in SUBSET {"csv"} : /\ writer.todo = <<C, {"state"}>> /\ RowsThere
                                         /\ "csv" \notin C => shelf["csv"].ideas = writer.rows
      <4>1. T = <<{"state"}>> /\ shelf["csv"].ideas = writer.rows
        BY <2>2, <2>4, <3>3
      <4>. QED
        BY <2>1, <2>3, <2>5, <3>3, <4>1 DEF Stage
    <3>4. CASE \E S \in SUBSET {"state"} : /\ writer.todo = <<S>> /\ RowsThere /\ shelf["csv"].ideas = writer.rows
                                           /\ "state" \notin S => shelf["state"].ideas = writer.rows
      <4>1. T = <<>> /\ shelf["state"].ideas = writer.rows
        BY <2>2, <2>4, <3>4
      <4>. QED
        BY <2>1, <2>3, <4>1 DEF Stage
    <3>. QED
      BY <1>0, <3>1, <3>2, <3>3, <3>4 DEF Stage
  <2>7. Draft'
    BY <1>0, <1>1, <2>3, <2>6 DEF Draft
  <2>8. Pages' /\ IndexNeverDangles' /\ ShelfKeepsUp'
    BY <1>0, <1>1, <2>1, ShelfQuiet
  <2>. QED
    BY <1>1, <2>7, <2>8 DEF ShelfInv
<1>3. CASE Due # {}
  <2>1. PICK f \in Head(writer.todo) : /\ shelf' = [shelf EXCEPT ![f] = Document]
                                       /\ writer' = [writer EXCEPT !.todo[1] = @ \ {f}]
    BY <1>3 DEF WriteFile, Due
  <2>0. /\ writer.todo \in Seq(SUBSET ShelfFiles) /\ Len(writer.todo) >= 1
        /\ writer.todo[1] \ {f} \in SUBSET ShelfFiles
    <3>1. writer.todo \in Seq(SUBSET ShelfFiles)
      BY <1>0 DEF Drafts
    <3>2. Len(writer.todo) >= 1
      BY <1>0, <3>1, EmptySeq, LenProperties
    <3>3. writer.todo[1] \in SUBSET ShelfFiles
      BY <3>1, <3>2, ElementOfSeq
    <3>. QED
      BY <3>1, <3>2, <3>3
  <2>2. PICK T \in Seq(SUBSET ShelfFiles) : T = [writer.todo EXCEPT ![1] = writer.todo[1] \ {f}]
    <3>1. 1 \in 1 .. Len(writer.todo)
      BY <2>0, LenProperties
    <3>2. [writer.todo EXCEPT ![1] = writer.todo[1] \ {f}] \in Seq(SUBSET ShelfFiles)
      BY <2>0, <3>1, ExceptSeq
    <3>. QED
      BY <3>2, Zenon
  <2>3. writer' = [writer EXCEPT !.todo = T]
    BY <2>1, <2>2
  <2>4. /\ writer' \in Drafts /\ writer'.step = "write" /\ writer'.rows = writer.rows
        /\ writer'.games = writer.games /\ writer'.todo = T
    BY <1>0, <2>2, <2>3 DEF Drafts
  <2>5. f \in ShelfFiles
    BY <1>0, <2>1, HeadTailProperties DEF Drafts
  <2>6. /\ Pages' /\ AliveRows' = AliveRows /\ writer.rows = AliveRows
        /\ shelf'[f].ideas = writer.rows /\ shelf'[f].there
        /\ \A g \in ShelfFiles : /\ g # f => shelf'[g] = shelf[g]
                                 /\ shelf[g].there => shelf'[g].there
                                 /\ shelf[g].ideas \subseteq shelf'[g].ideas
        /\ f = "state" => shelf'[f].games \subseteq games
    BY <1>0, <2>1, <2>5, Written
  <2>7. RowsThere => RowsThere'
    BY <2>4, <2>6, ShelfFacts DEF RowsThere
  <2>8. /\ Stage'
        /\ f = "state" => RowsThere /\ shelf["csv"].ideas = writer.rows
    <3>1. CASE \E R \in SUBSET writer.rows, O \in SUBSET {"overview"} :
                 writer.todo = <<R, O, {"csv"}, {"state"}>> /\ \A i \in writer.rows \ R : shelf[i].there
      <4>1. PICK R \in SUBSET writer.rows, O \in SUBSET {"overview"} :
                 writer.todo = <<R, O, {"csv"}, {"state"}>> /\ \A i \in writer.rows \ R : shelf[i].there
        BY <3>1
      <4>2. f \in R /\ T = <<R \ {f}, O, {"csv"}, {"state"}>> /\ f # "state"
        <5>1. f \in R
          BY <2>1, <4>1
        <5>2. T = <<R \ {f}, O, {"csv"}, {"state"}>>
          BY <2>2, <4>1
        <5>. QED
          BY <2>6, <4>1, <5>1, <5>2, ShelfFacts
      <4>3. \A i \in writer'.rows \ (R \ {f}) : shelf'[i].there
        BY <2>4, <2>6, <4>1, ShelfFacts
      <4>4. R \ {f} \in SUBSET writer'.rows
        BY <2>4, <4>1
      <4>. QED
        BY <2>4, <4>2, <4>3, <4>4 DEF Stage
    <3>2. CASE \E O \in SUBSET {"overview"} : writer.todo = <<O, {"csv"}, {"state"}>> /\ RowsThere
      <4>1. PICK O \in SUBSET {"overview"} : writer.todo = <<O, {"csv"}, {"state"}>>
        BY <3>2
      <4>2. f = "overview" /\ T = <<O \ {f}, {"csv"}, {"state"}>>
        BY <2>1, <2>2, <4>1
      <4>3. O \ {f} \in SUBSET {"overview"}
        OBVIOUS
      <4>. QED
        BY <2>4, <2>7, <3>2, <4>2, <4>3 DEF Stage
    <3>3. CASE \E C \in SUBSET {"csv"} : /\ writer.todo = <<C, {"state"}>> /\ RowsThere
                                         /\ "csv" \notin C => shelf["csv"].ideas = writer.rows
      <4>1. PICK C \in SUBSET {"csv"} : writer.todo = <<C, {"state"}>>
        BY <3>3
      <4>2. f = "csv" /\ T = <<C \ {f}, {"state"}>>
        BY <2>1, <2>2, <4>1
      <4>3. C \ {f} \in SUBSET {"csv"} /\ shelf'["csv"].ideas = writer'.rows
        BY <2>4, <2>6, <4>2
      <4>. QED
        BY <2>4, <2>7, <3>3, <4>2, <4>3 DEF Stage
    <3>4. CASE \E S \in SUBSET {"state"} : /\ writer.todo = <<S>> /\ RowsThere /\ shelf["csv"].ideas = writer.rows
                                           /\ "state" \notin S => shelf["state"].ideas = writer.rows
      <4>1. PICK S \in SUBSET {"state"} : writer.todo = <<S>>
        BY <3>4
      <4>2. f = "state" /\ T = <<S \ {f}>>
        BY <2>1, <2>2, <4>1
      <4>3. S \ {f} \in SUBSET {"state"} /\ shelf'["state"].ideas = writer'.rows
            /\ shelf'["csv"].ideas = writer'.rows
        BY <2>4, <2>6, <3>4, <4>2, ShelfFacts
      <4>. QED
        BY <2>4, <2>7, <3>4, <4>2, <4>3 DEF Stage
    <3>. QED
      BY <1>0, <3>1, <3>2, <3>3, <3>4 DEF Stage
  <2>9. Draft'
    BY <1>0, <2>4, <2>6, <2>8 DEF Draft
  <2>10. IndexNeverDangles'
    <3>1. CASE f = "state"
      <4>1. \A i \in shelf'["state"].ideas : i \in ShelfIds /\ shelf'[i].there
        BY <2>6, <2>8, <3>1, ShelfFacts DEF RowsThere
      <4>2. \A i \in ShelfFiles : shelf'[i].whole /\ \A p \in shelf'[i].games : p \subseteq shelf'[i].ideas
        BY <2>6 DEF Pages
      <4>. QED
        BY <4>1, <4>2, ShelfFacts DEF IndexNeverDangles
    <3>2. CASE f # "state"
      <4>1. shelf'["state"] = shelf["state"] /\ shelf["state"].ideas \subseteq ShelfIds
        BY <1>0, <2>6, <3>2, ShelfFacts DEF Pages
      <4>2. \A i \in ShelfFiles : shelf'[i].whole
        BY <2>6 DEF Pages
      <4>. QED
        BY <1>0, <2>6, <4>1, <4>2, ShelfFacts DEF IndexNeverDangles
    <3>. QED
      BY <3>1, <3>2
  <2>11. ShelfKeepsUp'
    <3>1. shelf["state"].ideas \subseteq shelf'["state"].ideas /\ shelf["csv"].ideas \subseteq shelf'["csv"].ideas
      BY <2>6, ShelfFacts
    <3>2. lastWhole' \subseteq shelf'["state"].ideas
      BY <1>0, <3>1 DEF ShelfKeepsUp
    <3>3. shelf'["state"].games \subseteq games'
      BY <1>0, <2>6, ShelfFacts DEF ShelfKeepsUp
    <3>4. shelf'["state"].ideas \subseteq shelf'["csv"].ideas
      <4>1. CASE f = "state"
        BY <2>6, <2>8, <4>1, ShelfFacts
      <4>2. CASE f # "state"
        BY <1>0, <2>6, <3>1, <4>2, ShelfFacts DEF ShelfKeepsUp
      <4>. QED
        BY <4>1, <4>2
    <3>. QED
      BY <3>2, <3>3, <3>4 DEF ShelfKeepsUp
  <2>. QED
    BY <1>1, <2>6, <2>9, <2>10, <2>11 DEF ShelfInv
<1>. QED
  BY <1>2, <1>3

(* The directory can be read at any moment: its index names only files that are
   there, its matches are of its ideas, and it does not go back, though ideas
   are archived between the reads and the process dies anywhere
   (project_run). *)
THEOREM ShelfIsSafe == ProjectionSpec => []ShelfSafe
<1>1. ShelfInv /\ [ProjectionNext]_shelfVars => ShelfInv'
  <2>. SUFFICES ASSUME ShelfInv, [ProjectionNext]_shelfVars PROVE ShelfInv'
    OBVIOUS
  <2>1. CASE UNCHANGED shelfVars
    <3>1. AliveRows' = AliveRows /\ UNCHANGED <<rowsNow, games, overviewMd, writer, shelf, halfWritten, projections, lastWhole>>
      BY <2>1 DEF shelfVars, AliveRows
    <3>2. ShelfRows'
      BY <3>1 DEF ShelfInv, ShelfRows
    <3>. QED
      BY <3>1, <3>2, ShelfQuiet, DraftQuiet DEF ShelfInv
  <2>. QED
    BY <2>1, ShelfOthers, ShelfReads, ShelfWrites DEF ProjectionNext
<1>2. ShelfInv => ShelfSafe
  <2>. SUFFICES ASSUME ShelfInv PROVE ShelfSafe
    OBVIOUS
  <2>1. ProjectionTypeOK
    <3>1. \A f \in ShelfFiles : shelf[f].ideas \subseteq ShelfIds /\ shelf[f].there \in BOOLEAN
      BY DEF ShelfInv, Pages, Docs
    <3>2. writer.step \in {"idle", "run", "hypotheses", "matches", "write"}
      BY DEF ShelfInv, Draft, Drafts
    <3>3. games \subseteq PairsOf(ShelfIds)
      BY ShelfFacts DEF ShelfInv, ShelfRows
    <3>. QED
      BY <3>1, <3>2, <3>3, Zenon DEF ShelfInv, ShelfRows, ProjectionTypeOK
  <2>. QED
    BY <2>1 DEF ShelfInv, ShelfSafe
<1>. QED
  BY <1>1, <1>2, ShelfStart, PTL DEF ProjectionSpec

-----------------------------------------------------------------------------
(* The import of archived runs. *)

ImportRows == [there : BOOLEAN, title : {"", "derived", "renamed"}, archived : BOOLEAN, deleted : BOOLEAN,
               dir : 0 .. Len(FirstArchive)]
Batches == [key : Nat, hids : SUBSET Hids]
PassRecs == [pc : {"idle", "next", "begin", "find", "children", "commit"}, at : 0 .. Len(FirstArchive) + 1,
             seen : SUBSET ArchiveIds, hids : SUBSET Hids, loaded : ImportRows, doomed : SUBSET Batches]
InTransaction == {"find", "children", "commit"}

(* The archive changes what its directories hold, not which there are. *)
Archive ==
  /\ archive \in Seq(Directories) /\ Len(archive) = Len(FirstArchive)
  /\ \A i \in 1 .. Len(archive) : archive[i].id = FirstArchive[i].id /\ archive[i].kind = FirstArchive[i].kind

Tables ==
  /\ imported \in [ArchiveIds -> ImportRows]
  /\ hyps \in [ArchiveIds -> [Hids -> Nat]]
  /\ rebuilt \in [ArchiveIds -> SUBSET Batches]
  /\ keysDrawn \in Nat
  /\ \A id \in ArchiveIds, h \in Hids : hyps[id][h] <= keysDrawn

(* The owner's row is a lock: one pass at a time is past it. *)
OnePass == \A p, o \in Passes : pass[p].pc \in InTransaction /\ pass[o].pc \in InTransaction => p = o

(* What a pass carries is true of the directories it has passed and, from the
   read of its run on, of the tables. *)
Walked(q) == \A j \in 1 .. Len(archive) : j < q.at /\ archive[j].kind = "good" => archive[j].id \in q.seen
FirstOfIts(q) ==
  /\ q.at \in 1 .. Len(archive) /\ archive[q.at].id \in q.seen /\ archive[q.at].kind # "unreadable"
  /\ \A j \in 1 .. Len(archive) : j < q.at /\ archive[j].kind = "good" => archive[j].id # archive[q.at].id
Carries(q) ==
  /\ q.pc # "idle" => q.at >= 1 /\ Walked(q)
  /\ q.pc \in InTransaction \cup {"begin"} => FirstOfIts(q)
  /\ q.pc \in {"children", "commit"} => q.loaded.there = imported[archive[q.at].id].there
  /\ q.pc = "commit" => archive[q.at].kind = "good" /\ q.doomed = rebuilt[archive[q.at].id]

(* A run is one batch of children, and its hypotheses are that batch's. *)
OneBatch(id) ==
  IF imported[id].there
  THEN \E b \in Batches : rebuilt[id] = {b} /\ {h \in Hids : hyps[id][h] # 0} = b.hids
  ELSE rebuilt[id] = {}

ImportInv ==
  /\ Archive /\ Tables /\ pass \in [Passes -> PassRecs]
  /\ OnePass
  /\ \A p \in Passes : Carries(pass[p])
  /\ \A id \in ArchiveIds : OneBatch(id)
  /\ FirstTwinWins

LEMMA ArchiveFacts ==
  /\ Len(FirstArchive) \in Nat /\ DOMAIN FirstArchive = 1 .. Len(FirstArchive)
  /\ NoRow \in ImportRows /\ IdlePass \in PassRecs
<1>1. Len(FirstArchive) \in Nat /\ DOMAIN FirstArchive = 1 .. Len(FirstArchive)
  BY ImportsAssumption, LenProperties
<1>2. NoRow \in ImportRows
  BY <1>1 DEF NoRow, ImportRows
<1>3. IdlePass \in PassRecs
  BY <1>1, <1>2 DEF IdlePass, PassRecs
<1>. QED
  BY <1>1, <1>2, <1>3

LEMMA DirectoryAt ==
  ASSUME Archive
  PROVE  /\ Len(archive) \in Nat /\ Len(archive) = Len(FirstArchive) /\ DOMAIN archive = 1 .. Len(archive)
         /\ \A i \in 1 .. Len(archive) : archive[i] \in Directories /\ archive[i].id \in ArchiveIds
                                         /\ archive[i].hids \in SUBSET Hids
<1>1. Len(archive) \in Nat /\ Len(archive) = Len(FirstArchive) /\ DOMAIN archive = 1 .. Len(archive)
  BY LenProperties DEF Archive
<1>2. \A i \in 1 .. Len(archive) : archive[i] \in Directories
  BY ElementOfSeq DEF Archive
<1>. QED
  BY <1>1, <1>2 DEF Directories

(* A batch per run is what the tables are said to hold. *)
LEMMA BatchesCount == ImportInv => ChildrenOfOneReading
<1>. SUFFICES ASSUME ImportInv, NEW id \in ArchiveIds
              PROVE  /\ Cardinality(rebuilt[id]) = IF imported[id].there THEN 1 ELSE 0
                     /\ \A b \in rebuilt[id] : {h \in Hids : hyps[id][h] # 0} = b.hids
  BY DEF ChildrenOfOneReading
<1>0. OneBatch(id)
  BY DEF ImportInv
<1>1. CASE imported[id].there
  <2>1. PICK b \in Batches : rebuilt[id] = {b} /\ {h \in Hids : hyps[id][h] # 0} = b.hids
    BY <1>0, <1>1 DEF OneBatch
  <2>2. Cardinality(rebuilt[id]) = 1
    BY <2>1, FS_Singleton
  <2>. QED
    BY <1>1, <2>1, <2>2
<1>2. CASE ~imported[id].there
  <2>1. rebuilt[id] = {}
    BY <1>0, <1>2 DEF OneBatch
  <2>2. Cardinality(rebuilt[id]) = 0
    BY <2>1, FS_EmptySet
  <2>. QED
    BY <1>2, <2>1, <2>2
<1>. QED
  BY <1>1, <1>2

LEMMA ImportStart == ImportsInit => ImportInv
<1>. SUFFICES ASSUME ImportsInit PROVE ImportInv
  OBVIOUS
<1>1. Archive
  BY ImportsAssumption, ArchiveFacts DEF ImportsInit, Archive
<1>2. Tables
  BY ArchiveFacts DEF ImportsInit, Tables
<1>3. pass \in [Passes -> PassRecs] /\ \A p \in Passes : pass[p].pc = "idle"
  BY ArchiveFacts DEF ImportsInit, IdlePass
<1>4. OnePass /\ \A p \in Passes : Carries(pass[p])
  BY <1>3 DEF OnePass, Carries, InTransaction
<1>5. \A id \in ArchiveIds : imported[id].there = FALSE /\ rebuilt[id] = {}
  BY DEF ImportsInit, NoRow
<1>6. (\A id \in ArchiveIds : OneBatch(id)) /\ FirstTwinWins
  BY <1>5 DEF OneBatch, FirstTwinWins
<1>. QED
  BY <1>1, <1>2, <1>3, <1>4, <1>6 DEF ImportInv

(* A pass goes on and leaves the tables alone. *)
LEMMA PassMoves ==
  ASSUME ImportInv, NEW p \in Passes, NEW q \in PassRecs, pass' = [pass EXCEPT ![p] = q], Carries(q),
         UNCHANGED <<archive, imported, hyps, rebuilt, keysDrawn>>,
         q.pc \in InTransaction => OwnerFree(p) \/ pass[p].pc \in InTransaction
  PROVE  ImportInv'
<1>1. pass' \in [Passes -> PassRecs] /\ pass'[p] = q /\ \A o \in Passes : o # p => pass'[o] = pass[o]
  BY DEF ImportInv
<1>2. Archive' /\ Tables' /\ FirstTwinWins' /\ \A id \in ArchiveIds : OneBatch(id)'
  BY DEF ImportInv, Archive, Tables, FirstTwinWins, OneBatch
<1>3. OnePass'
  BY <1>1 DEF ImportInv, OnePass, OwnerFree, InTransaction
<1>4. \A o \in Passes : Carries(pass[o])'
  BY <1>1 DEF ImportInv, Carries, Walked, FirstOfIts
<1>. QED
  BY <1>1, <1>2, <1>3, <1>4 DEF ImportInv

LEMMA PassSteps ==
  ASSUME ImportInv, NEW p \in Passes,
         StartPass(p) \/ NextDirectory(p) \/ UpsertOwner(p) \/ FindRun(p) \/ ImportChildren(p)
  PROVE  ImportInv'
<1>0. /\ pass \in [Passes -> PassRecs] /\ pass[p] \in PassRecs /\ Carries(pass[p]) /\ Archive /\ Tables
      /\ UNCHANGED <<archive, imported, hyps, rebuilt, keysDrawn>>
  BY DEF ImportInv, StartPass, NextDirectory, UpsertOwner, FindRun, ImportChildren, importBounds
<1>1. Carries(IdlePass) /\ IdlePass.pc = "idle" /\ IdlePass \in PassRecs
  BY ArchiveFacts DEF IdlePass, Carries, InTransaction
<1>2. CASE StartPass(p)
  <2>. DEFINE q == [IdlePass EXCEPT !.pc = "next", !.at = 1]
  <2>1. pass' = [pass EXCEPT ![p] = q]
    BY <1>2 DEF StartPass, At
  <2>2. q \in PassRecs /\ q.pc = "next" /\ q.at = 1
    <3>1. 1 \in 0 .. Len(FirstArchive) + 1 /\ IdlePass \in PassRecs
      BY ArchiveFacts
    <3>. QED
      BY <3>1 DEF PassRecs
  <2>3. Carries(q)
    BY <1>0, <2>2, DirectoryAt DEF Carries, Walked, InTransaction
  <2>. HIDE DEF q
  <2>. QED
    BY <1>0, <2>1, <2>2, <2>3, PassMoves DEF InTransaction
<1>3. CASE NextDirectory(p)
  <2>1. CASE pass[p].at > Len(archive)
    <3>1. pass' = [pass EXCEPT ![p] = IdlePass]
      BY <1>3, <2>1 DEF NextDirectory, At
    <3>. QED
      BY <1>0, <1>1, <3>1, PassMoves DEF InTransaction
  <2>2. CASE ~(pass[p].at > Len(archive))
    <3>0. /\ pass[p].pc = "next" /\ pass[p].at \in 1 .. Len(archive) /\ Walked(pass[p])
          /\ Here(p) = archive[pass[p].at] /\ archive[pass[p].at] \in Directories
          /\ archive[pass[p].at].id \in ArchiveIds /\ archive[pass[p].at].hids \in SUBSET Hids
      BY <1>0, <1>3, <2>2, DirectoryAt DEF NextDirectory, Here, Carries, PassRecs
    <3>1. CASE Here(p).kind = "unreadable" \/ SeenBefore(p)
      <4>. DEFINE q == [pass[p] EXCEPT !.at = @ + 1]
      <4>1. pass' = [pass EXCEPT ![p] = q]
        BY <1>3, <2>2, <3>1 DEF NextDirectory, At
      <4>2. q \in PassRecs /\ q.pc = "next" /\ q.at = pass[p].at + 1 /\ q.seen = pass[p].seen
        BY <1>0, <3>0, DirectoryAt DEF PassRecs
      <4>3. Walked(q)
        BY <1>0, <3>0, <3>1, <4>2, DirectoryAt DEF Walked, SeenBefore
      <4>4. Carries(q)
        BY <3>0, <4>2, <4>3, DirectoryAt DEF Carries, InTransaction
      <4>. HIDE DEF q
      <4>. QED
        BY <1>0, <4>1, <4>2, <4>4, PassMoves DEF InTransaction
    <3>2. CASE ~(Here(p).kind = "unreadable" \/ SeenBefore(p))
      <4>. DEFINE q == [pass[p] EXCEPT !.pc = "begin", !.seen = @ \cup {Here(p).id}, !.hids = Here(p).hids]
      <4>1. pass' = [pass EXCEPT ![p] = q]
        BY <1>3, <2>2, <3>2 DEF NextDirectory, At
      <4>2. /\ q \in PassRecs /\ q.pc = "begin" /\ q.at = pass[p].at
            /\ q.seen = pass[p].seen \cup {archive[pass[p].at].id}
        BY <1>0, <3>0 DEF PassRecs
      <4>3. Walked(q) /\ FirstOfIts(q)
        BY <3>0, <3>2, <4>2 DEF Walked, FirstOfIts, SeenBefore
      <4>4. Carries(q)
        BY <3>0, <4>2, <4>3, DirectoryAt DEF Carries, InTransaction
      <4>. HIDE DEF q
      <4>. QED
        BY <1>0, <4>1, <4>2, <4>4, PassMoves DEF InTransaction
    <3>. QED
      BY <3>1, <3>2
  <2>. QED
    BY <2>1, <2>2
<1>4. CASE UpsertOwner(p)
  <2>. DEFINE q == [pass[p] EXCEPT !.pc = "find"]
  <2>1. pass' = [pass EXCEPT ![p] = q] /\ pass[p].pc = "begin" /\ OwnerFree(p)
    BY <1>4 DEF UpsertOwner, Go, At
  <2>2. q \in PassRecs /\ q.pc = "find" /\ q.at = pass[p].at /\ q.seen = pass[p].seen
    BY <1>0 DEF PassRecs
  <2>3. Carries(q)
    BY <1>0, <2>1, <2>2 DEF Carries, Walked, FirstOfIts, InTransaction
  <2>. HIDE DEF q
  <2>. QED
    BY <1>0, <2>1, <2>2, <2>3, PassMoves
<1>5. CASE FindRun(p)
  <2>. DEFINE q == [pass[p] EXCEPT !.pc = "children", !.loaded = imported[Here(p).id]]
  <2>1. pass' = [pass EXCEPT ![p] = q] /\ pass[p].pc = "find"
    BY <1>5 DEF FindRun, At
  <2>2. FirstOfIts(pass[p]) /\ Here(p) = archive[pass[p].at]
    BY <1>0, <2>1 DEF Carries, InTransaction, Here
  <2>3. imported[Here(p).id] \in ImportRows
    BY <1>0, <2>2, DirectoryAt DEF FirstOfIts, Tables
  <2>4. /\ q \in PassRecs /\ q.pc = "children" /\ q.at = pass[p].at /\ q.seen = pass[p].seen
        /\ q.loaded = imported[archive[pass[p].at].id]
    BY <1>0, <2>2, <2>3 DEF PassRecs
  <2>5. Carries(q)
    BY <1>0, <2>1, <2>2, <2>4 DEF Carries, Walked, FirstOfIts, InTransaction
  <2>. HIDE DEF q
  <2>. QED
    BY <1>0, <2>1, <2>4, <2>5, PassMoves DEF InTransaction
<1>6. CASE ImportChildren(p)
  <2>0. pass[p].pc = "children" /\ FirstOfIts(pass[p]) /\ Here(p) = archive[pass[p].at]
    BY <1>0, <1>6 DEF ImportChildren, Carries, InTransaction, Here
  <2>1. CASE Here(p).kind = "raises"
    <3>1. pass' = [pass EXCEPT ![p] = IdlePass]
      BY <1>6, <2>1 DEF ImportChildren, At
    <3>. QED
      BY <1>0, <1>1, <3>1, PassMoves DEF InTransaction
  <2>2. CASE Here(p).kind # "raises"
    <3>. DEFINE q == [pass[p] EXCEPT !.pc = "commit", !.doomed = rebuilt[Here(p).id]]
    <3>1. pass' = [pass EXCEPT ![p] = q]
      BY <1>6, <2>2 DEF ImportChildren, At
    <3>2. rebuilt[Here(p).id] \in SUBSET Batches /\ archive[pass[p].at].kind = "good"
      BY <1>0, <2>0, <2>2, DirectoryAt DEF FirstOfIts, Tables, Directories
    <3>3. /\ q \in PassRecs /\ q.pc = "commit" /\ q.at = pass[p].at /\ q.seen = pass[p].seen
          /\ q.loaded = pass[p].loaded /\ q.doomed = rebuilt[archive[pass[p].at].id]
      BY <1>0, <2>0, <3>2 DEF PassRecs
    <3>4. Carries(q)
      BY <1>0, <2>0, <3>2, <3>3 DEF Carries, Walked, FirstOfIts, InTransaction
    <3>. HIDE DEF q
    <3>. QED
      BY <1>0, <2>0, <3>1, <3>3, <3>4, PassMoves DEF InTransaction
  <2>. QED
    BY <2>1, <2>2
<1>. QED
  BY <1>2, <1>3, <1>4, <1>5, <1>6

(* The one step that writes: the run, its hypotheses and its batch at once. *)
LEMMA Commits ==
  ASSUME ImportInv, NEW p \in Passes, CommitRun(p)
  PROVE  /\ ImportInv'
         /\ \A id \in ArchiveIds, h \in Hids :
              hyps[id][h] # 0 /\ hyps'[id][h] # 0 => hyps'[id][h] = hyps[id][h]
<1>. DEFINE id == Here(p).id
            kept == Reset(imported[id], pass[p].loaded, pass[p].at)
            keys == [h \in Hids |-> IF h \in pass[p].hids THEN KeyFor(id, h) ELSE 0]
            batch == [key |-> keysDrawn + 1, hids |-> pass[p].hids]
            q == [pass[p] EXCEPT !.pc = "next", !.at = @ + 1]
<1>0. /\ pass \in [Passes -> PassRecs] /\ pass[p] \in PassRecs /\ Carries(pass[p]) /\ Archive /\ Tables
      /\ pass[p].pc = "commit" /\ FirstOfIts(pass[p]) /\ Walked(pass[p]) /\ pass[p].at \in 1 .. Len(archive)
      /\ Here(p) = archive[pass[p].at] /\ archive[pass[p].at].kind = "good"
      /\ pass[p].loaded.there = imported[Here(p).id].there /\ pass[p].doomed = rebuilt[Here(p).id]
      /\ Here(p).id \in pass[p].seen
      /\ archive' = archive
  BY DEF ImportInv, CommitRun, Carries, InTransaction, FirstOfIts, Here
<1>1. id \in ArchiveIds /\ imported[id] \in ImportRows /\ Len(archive) = Len(FirstArchive) /\ Len(archive) \in Nat
  BY <1>0, DirectoryAt DEF Tables
<1>2. pass' = [pass EXCEPT ![p] = q]
  BY <1>0 DEF CommitRun, At
<1>3. imported' = [imported EXCEPT ![id] = kept]
  BY <1>0 DEF CommitRun
<1>4. hyps' = [hyps EXCEPT ![id] = keys]
  BY <1>0 DEF CommitRun
<1>5. rebuilt' = [rebuilt EXCEPT ![id] = {batch}]
  BY <1>0 DEF CommitRun, Rebuilt
<1>6. keysDrawn' = keysDrawn + 1
  BY <1>0 DEF CommitRun
<1>7. kept \in ImportRows /\ kept.there = TRUE /\ kept.dir = pass[p].at
  <2>0. pass[p].at \in 0 .. Len(FirstArchive)
    <3>1. pass[p].at \in 1 .. Len(archive)
      BY <1>0
    <3>2. Len(archive) = Len(FirstArchive) /\ Len(archive) \in Nat
      BY <1>1
    <3>. QED
      BY <3>1, <3>2
  <2>1. pass[p].loaded \in ImportRows
    BY <1>0 DEF PassRecs
  <2>2. PICK t \in {"", "derived", "renamed"} : kept.title = t
    BY <1>1 DEF Reset, ImportRows
  <2>3. PICK a \in BOOLEAN : a = (imported[id].archived /\ ~pass[p].loaded.archived)
    BY Zenon
  <2>4. PICK d \in BOOLEAN : d = (imported[id].deleted /\ ~pass[p].loaded.deleted)
    BY Zenon
  <2>6. kept = [there |-> TRUE, title |-> t, archived |-> a, deleted |-> d, dir |-> pass[p].at]
    BY <2>2, <2>3, <2>4, Zenon DEF Reset
  <2>. HIDE DEF kept
  <2>. QED
    BY <2>0, <2>6 DEF ImportRows
<1>8. /\ keys \in [Hids -> Nat] /\ \A h \in Hids : keys[h] <= keysDrawn + 1
      /\ \A h \in Hids : hyps[id][h] # 0 /\ keys[h] # 0 => keys[h] = hyps[id][h]
      /\ {h \in Hids : keys[h] # 0} = pass[p].hids
  <2>1. pass[p].hids \subseteq Hids /\ keysDrawn \in Nat
    BY <1>0 DEF PassRecs, Tables
  <2>2. hyps[id] \in [Hids -> Nat] /\ \A h \in Hids : hyps[id][h] <= keysDrawn
    BY <1>0, <1>1 DEF Tables
  <2>3. \A h \in Hids : keys[h] = IF h \in pass[p].hids THEN IF hyps[id][h] # 0 THEN hyps[id][h] ELSE keysDrawn + 1 ELSE 0
    BY DEF KeyFor
  <2>4. \A h \in Hids : keys[h] \in Nat /\ keys[h] <= keysDrawn + 1 /\ (h \in pass[p].hids <=> keys[h] # 0)
    BY <2>1, <2>2, <2>3
  <2>5. keys \in [Hids -> Nat]
    BY <2>4
  <2>. HIDE DEF keys
  <2>. QED
    BY <2>1, <2>2, <2>3, <2>4, <2>5
<1>9. batch \in Batches /\ batch.hids = pass[p].hids
  BY <1>0 DEF Batches, PassRecs, Tables
<1>10. /\ q \in PassRecs /\ q.pc = "next" /\ q.at = pass[p].at + 1 /\ q.seen = pass[p].seen
  <2>1. pass[p].at + 1 \in 0 .. Len(FirstArchive) + 1
    BY <1>0, <1>1
  <2>. QED
    BY <1>0, <2>1 DEF PassRecs
<1>. HIDE DEF kept, keys, batch, q
<1>11. pass' \in [Passes -> PassRecs] /\ pass'[p] = q /\ \A o \in Passes : o # p => pass'[o] = pass[o]
  BY <1>0, <1>2, <1>10
<1>12. /\ imported' \in [ArchiveIds -> ImportRows] /\ imported'[id] = kept
       /\ \A i \in ArchiveIds : i # id => imported'[i] = imported[i]
  BY <1>0, <1>1, <1>3, <1>7 DEF Tables
<1>13. /\ hyps' \in [ArchiveIds -> [Hids -> Nat]] /\ hyps'[id] = keys
       /\ \A i \in ArchiveIds : i # id => hyps'[i] = hyps[i]
  BY <1>0, <1>1, <1>4, <1>8 DEF Tables
<1>14. /\ rebuilt' \in [ArchiveIds -> SUBSET Batches] /\ rebuilt'[id] = {batch}
       /\ \A i \in ArchiveIds : i # id => rebuilt'[i] = rebuilt[i]
  BY <1>0, <1>1, <1>5, <1>9 DEF Tables
<1>. HIDE DEF id
<1>15. Archive' /\ Tables'
  <2>1. \A i \in ArchiveIds, h \in Hids : hyps'[i][h] <= keysDrawn'
    <3>. SUFFICES ASSUME NEW i \in ArchiveIds, NEW h \in Hids PROVE hyps'[i][h] <= keysDrawn'
      OBVIOUS
    <3>1. CASE i = id
      BY <1>6, <1>8, <1>13, <3>1
    <3>2. CASE i # id
      BY <1>0, <1>6, <1>13, <3>2 DEF Tables
    <3>. QED
      BY <3>1, <3>2
  <2>2. keysDrawn' \in Nat
    BY <1>0, <1>6 DEF Tables
  <2>. QED
    BY <1>0, <1>12, <1>13, <1>14, <2>1, <2>2 DEF Archive, Tables
<1>16. OnePass'
  BY <1>0, <1>10, <1>11 DEF ImportInv, OnePass, InTransaction
<1>17. \A o \in Passes : Carries(pass[o])'
  <2>. SUFFICES ASSUME NEW o \in Passes PROVE Carries(pass[o])'
    OBVIOUS
  <2>1. CASE o = p
    <3>1. Walked(q)
      <4>. SUFFICES ASSUME NEW j \in 1 .. Len(archive), j < q.at, archive[j].kind = "good"
                    PROVE  archive[j].id \in q.seen
        BY DEF Walked
      <4>1. j < pass[p].at \/ j = pass[p].at
        BY <1>0, <1>1, <1>10
      <4>. QED
        BY <1>0, <1>10, <4>1 DEF Walked
    <3>. QED
      BY <1>0, <1>10, <1>11, <2>1, <3>1 DEF Carries, Walked, InTransaction
  <2>2. CASE o # p
    <3>1. pass[o].pc \notin InTransaction /\ pass'[o] = pass[o] /\ Carries(pass[o])
      BY <1>0, <1>11, <2>2 DEF ImportInv, OnePass, InTransaction
    <3>. QED
      BY <1>0, <3>1 DEF Carries, Walked, FirstOfIts, InTransaction
  <2>. QED
    BY <2>1, <2>2
<1>18. \A i \in ArchiveIds : OneBatch(i)'
  <2>. SUFFICES ASSUME NEW i \in ArchiveIds PROVE OneBatch(i)'
    OBVIOUS
  <2>1. CASE i = id
    BY <1>7, <1>8, <1>9, <1>12, <1>13, <1>14, <2>1 DEF OneBatch
  <2>2. CASE i # id
    <3>1. imported'[i] = imported[i] /\ hyps'[i] = hyps[i] /\ rebuilt'[i] = rebuilt[i] /\ OneBatch(i)
      BY <1>12, <1>13, <1>14, <2>2 DEF ImportInv
    <3>. QED
      BY <3>1 DEF OneBatch
  <2>. QED
    BY <2>1, <2>2
<1>19. FirstTwinWins'
  <2>. SUFFICES ASSUME NEW i \in ArchiveIds, imported'[i].there, NEW j \in DOMAIN archive,
                       archive[j].id = i, archive[j].kind = "good"
                PROVE  imported'[i].dir <= j
    BY <1>0 DEF FirstTwinWins
  <2>0. j \in 1 .. Len(archive)
    BY <1>0, DirectoryAt
  <2>1. CASE i = id
    <3>1. ~(j < pass[p].at)
      BY <1>0, <2>0, <2>1 DEF FirstOfIts, id
    <3>. QED
      BY <1>0, <1>7, <1>12, <2>0, <2>1, <3>1
  <2>2. CASE i # id
    BY <1>12, <2>2 DEF ImportInv, FirstTwinWins
  <2>. QED
    BY <2>1, <2>2
<1>20. \A i \in ArchiveIds, h \in Hids :
         hyps[i][h] # 0 /\ hyps'[i][h] # 0 => hyps'[i][h] = hyps[i][h]
  BY <1>8, <1>13
<1>. QED
  BY <1>11, <1>15, <1>16, <1>17, <1>18, <1>19, <1>20 DEF ImportInv

(* People change a run, not what was imported with it. *)
LEMMA RunChanges ==
  ASSUME ImportInv, NEW id \in ArchiveIds, PatchRun(id) \/ DeleteRun(id)
  PROVE  ImportInv' /\ UNCHANGED hyps
<1>0. /\ UNCHANGED <<archive, hyps, rebuilt, pass, keysDrawn>>
      /\ Archive /\ Tables /\ imported[id] \in ImportRows
  BY DEF PatchRun, DeleteRun, ImportInv, Tables
<1>1. PICK kept \in ImportRows : /\ imported' = [imported EXCEPT ![id] = kept]
                                /\ kept.there = imported[id].there /\ kept.dir = imported[id].dir
  <2>1. CASE imported' = [imported EXCEPT ![id] = [imported[id] EXCEPT !.title = "renamed"]]
    <3>1. [imported[id] EXCEPT !.title = "renamed"] \in ImportRows
      BY <1>0 DEF ImportRows
    <3>. QED
      BY <1>0, <2>1, <3>1 DEF ImportRows
  <2>2. CASE imported' = [imported EXCEPT ![id] = [imported[id] EXCEPT !.archived = ~@]]
    <3>1. PICK a \in BOOLEAN : a = ~imported[id].archived
      BY Zenon
    <3>2. [imported[id] EXCEPT !.archived = a] \in ImportRows
      BY <1>0 DEF ImportRows
    <3>. QED
      BY <1>0, <2>2, <3>1, <3>2 DEF ImportRows
  <2>3. CASE imported' = [imported EXCEPT ![id] = [imported[id] EXCEPT !.deleted = TRUE]]
    <3>1. [imported[id] EXCEPT !.deleted = TRUE] \in ImportRows
      BY <1>0 DEF ImportRows
    <3>. QED
      BY <1>0, <2>3, <3>1 DEF ImportRows
  <2>. QED
    BY <2>1, <2>2, <2>3 DEF PatchRun, DeleteRun
<1>2. /\ imported' \in [ArchiveIds -> ImportRows]
      /\ \A i \in ArchiveIds : imported'[i].there = imported[i].there /\ imported'[i].dir = imported[i].dir
  BY <1>0, <1>1 DEF Tables
<1>3. Archive' /\ Tables' /\ OnePass'
  BY <1>0, <1>2 DEF Archive, Tables, ImportInv, OnePass
<1>4. \A i \in ArchiveIds : OneBatch(i)'
  BY <1>0, <1>2 DEF ImportInv, OneBatch
<1>5. FirstTwinWins'
  BY <1>0, <1>2 DEF ImportInv, FirstTwinWins
<1>6. \A o \in Passes : Carries(pass[o])'
  <2>. SUFFICES ASSUME NEW o \in Passes PROVE Carries(pass[o])'
    OBVIOUS
  <2>1. Carries(pass[o])
    BY DEF ImportInv
  <2>2. pass[o].pc \in {"children", "commit"} => archive[pass[o].at].id \in ArchiveIds
    BY <1>0, <2>1, DirectoryAt DEF Carries, FirstOfIts, InTransaction
  <2>. QED
    BY <1>0, <1>2, <2>1, <2>2 DEF Carries, Walked, FirstOfIts, InTransaction
<1>. QED
  BY <1>0, <1>2, <1>3, <1>4, <1>5, <1>6 DEF ImportInv

LEMMA DirectoryChanges ==
  ASSUME ImportInv, NEW i \in DOMAIN archive, ArchiveChanges(i)
  PROVE  ImportInv' /\ UNCHANGED hyps
<1>0. /\ UNCHANGED <<imported, hyps, rebuilt, pass, keysDrawn>> /\ Archive /\ i \in 1 .. Len(archive)
      /\ \A p \in Passes : pass[p].pc = "idle"
  BY DirectoryAt DEF ArchiveChanges, ImportInv
<1>1. PICK d \in Directories : /\ archive' = [archive EXCEPT ![i] = d]
                               /\ d.id = archive[i].id /\ d.kind = archive[i].kind
  <2>1. PICK hids \in SUBSET Hids : archive' = [archive EXCEPT ![i] = [archive[i] EXCEPT !.hids = hids]]
    BY DEF ArchiveChanges
  <2>2. archive[i] \in Directories
    BY <1>0, DirectoryAt
  <2>3. /\ [archive[i] EXCEPT !.hids = hids] \in Directories
        /\ [archive[i] EXCEPT !.hids = hids].id = archive[i].id
        /\ [archive[i] EXCEPT !.hids = hids].kind = archive[i].kind
    BY <2>2 DEF Directories
  <2>. QED
    BY <2>1, <2>3, Zenon
<1>2. /\ archive' \in Seq(Directories) /\ Len(archive') = Len(archive)
      /\ \A j \in 1 .. Len(archive) : archive'[j].id = archive[j].id /\ archive'[j].kind = archive[j].kind
  <2>1. archive \in Seq(Directories)
    BY <1>0 DEF Archive
  <2>2. /\ [archive EXCEPT ![i] = d] \in Seq(Directories) /\ Len([archive EXCEPT ![i] = d]) = Len(archive)
        /\ \A j \in 1 .. Len(archive) : [archive EXCEPT ![i] = d][j] = IF j = i THEN d ELSE archive[j]
    BY <1>0, <2>1, ExceptSeq
  <2>. QED
    BY <1>1, <2>2
<1>3. Archive' /\ Tables' /\ OnePass'
  BY <1>0, <1>2 DEF Archive, Tables, ImportInv, OnePass
<1>4. \A o \in Passes : Carries(pass[o])'
  BY <1>0 DEF Carries, InTransaction
<1>5. \A j \in ArchiveIds : OneBatch(j)'
  BY <1>0 DEF ImportInv, OneBatch
<1>6. FirstTwinWins'
  <2>1. DOMAIN archive' = DOMAIN archive /\ DOMAIN archive = 1 .. Len(archive)
    BY <1>0, <1>2, LenProperties DEF Archive
  <2>. QED
    BY <1>0, <1>2, <2>1 DEF ImportInv, FirstTwinWins
<1>. QED
  BY <1>0, <1>3, <1>4, <1>5, <1>6 DEF ImportInv

LEMMA ImportDies == ASSUME ImportInv, ApiDies PROVE ImportInv' /\ UNCHANGED hyps
<1>0. UNCHANGED <<archive, imported, hyps, rebuilt, keysDrawn>> /\ pass' = [p \in Passes |-> IdlePass]
  BY DEF ApiDies
<1>1. pass' \in [Passes -> PassRecs] /\ \A p \in Passes : pass'[p].pc = "idle"
  BY <1>0, ArchiveFacts DEF IdlePass
<1>2. OnePass' /\ \A o \in Passes : Carries(pass[o])'
  BY <1>1 DEF OnePass, Carries, InTransaction
<1>3. Archive' /\ Tables' /\ FirstTwinWins' /\ \A id \in ArchiveIds : OneBatch(id)'
  BY <1>0 DEF ImportInv, Archive, Tables, FirstTwinWins, OneBatch
<1>. QED
  BY <1>0, <1>1, <1>2, <1>3 DEF ImportInv

LEMMA ImportTypes == ImportInv => ImportsTypeOK
<1>. SUFFICES ASSUME ImportInv PROVE ImportsTypeOK
  OBVIOUS
<1>1. \A id \in ArchiveIds :
        /\ imported[id].title \in {"", "derived", "renamed"} /\ imported[id].dir \in 0 .. Len(archive)
        /\ \A h \in Hids : hyps[id][h] \in 0 .. keysDrawn
        /\ \A b \in rebuilt[id] : b.hids \subseteq Hids
  <2>. SUFFICES ASSUME NEW id \in ArchiveIds
                PROVE  /\ imported[id].title \in {"", "derived", "renamed"} /\ imported[id].dir \in 0 .. Len(archive)
                       /\ \A h \in Hids : hyps[id][h] \in 0 .. keysDrawn
                       /\ \A b \in rebuilt[id] : b.hids \subseteq Hids
    OBVIOUS
  <2>0. Tables /\ Len(archive) = Len(FirstArchive)
    BY DirectoryAt DEF ImportInv
  <2>1. imported[id].title \in {"", "derived", "renamed"} /\ imported[id].dir \in 0 .. Len(archive)
    BY <2>0 DEF Tables, ImportRows
  <2>2. \A h \in Hids : hyps[id][h] \in 0 .. keysDrawn
    BY <2>0 DEF Tables
  <2>3. \A b \in rebuilt[id] : b.hids \subseteq Hids
    BY <2>0 DEF Tables, Batches
  <2>. QED
    BY <2>1, <2>2, <2>3
<1>2. \A p \in Passes : /\ pass[p].pc \in {"idle", "next", "begin", "find", "children", "commit"}
                        /\ pass[p].at \in 0 .. Len(archive) + 1
  BY DirectoryAt DEF ImportInv, PassRecs
<1>. QED
  BY <1>1, <1>2 DEF ImportsTypeOK

(* The imported runs are what the archive says: however many passes run at once,
   die or raise, and whatever people change meanwhile, a run holds one whole
   reading of the first directory of its id, and a hypothesis keeps its key. *)
THEOREM ImportsAreSafe == ImportsSpec => ImportsSafe
<1>. DEFINE KeysStay == \A id \in ArchiveIds, h \in Hids :
                          hyps[id][h] # 0 /\ hyps'[id][h] # 0 => hyps'[id][h] = hyps[id][h]
<1>1. ImportInv /\ [ImportsNext]_importVars => ImportInv' /\ KeysStay
  <2>. SUFFICES ASSUME ImportInv, [ImportsNext]_importVars PROVE ImportInv' /\ KeysStay
    OBVIOUS
  <2>1. CASE UNCHANGED importVars
    BY <2>1 DEF importVars, ImportInv, Archive, Tables, OnePass, Carries, Walked, FirstOfIts, OneBatch, FirstTwinWins
  <2>2. ASSUME NEW p \in Passes, StartPass(p) \/ NextDirectory(p) \/ UpsertOwner(p) \/ FindRun(p) \/ ImportChildren(p)
        PROVE  ImportInv' /\ KeysStay
    <3>1. UNCHANGED hyps
      BY <2>2 DEF StartPass, NextDirectory, UpsertOwner, FindRun, ImportChildren
    <3>. QED
      BY <2>2, <3>1, PassSteps
  <2>3. ASSUME NEW p \in Passes, CommitRun(p) PROVE ImportInv' /\ KeysStay
    BY <2>3, Commits
  <2>4. ASSUME NEW id \in ArchiveIds, PatchRun(id) \/ DeleteRun(id) PROVE ImportInv' /\ KeysStay
    BY <2>4, RunChanges
  <2>5. ASSUME NEW i \in DOMAIN archive, ArchiveChanges(i) PROVE ImportInv' /\ KeysStay
    BY <2>5, DirectoryChanges
  <2>6. CASE ApiDies
    BY <2>6, ImportDies
  <2>. QED
    BY <2>1, <2>2, <2>3, <2>4, <2>5, <2>6 DEF ImportsNext
<1>2. ImportInv => ImportsTypeOK /\ ChildrenOfOneReading /\ FirstTwinWins
  BY ImportTypes, BatchesCount DEF ImportInv
<1>3. KeysStay => [KeysStay]_importVars
  OBVIOUS
<1>. QED
  BY <1>1, <1>2, ImportStart, PTL DEF ImportsSpec, ImportsSafe, AddressesSurvive

-----------------------------------------------------------------------------
(* The question workshop. *)

(* A call that came to its pair and is done with. *)
Served(n) == calls[n].pc = "over" /\ calls[n].result = "options" /\ calls[n].child = "gone"

(* How far a call is says what its child and its clock can be. *)
CallFits(c) ==
  /\ c.pc = "accepted" => c.child = "none" /\ c.age = 0
  /\ c.pc = "calling" => c.child = "works" /\ (c.answered = NotYet => c.age <= Timeout)
  /\ c.pc = "killing" => c.child = "gone"
  /\ c.pc \in {"accepted", "calling", "killing"} => c.result = "none"
  /\ c.pc = "writing" => c.result \in Results
  /\ c.pc \in {"writing", "over"} /\ c.result = "options" => c.child = "gone"
  /\ c.result = "timeout" /\ c.child = "works" => c.answered # NotYet

(* A workshop's calls follow each other: all but the newest have been served. *)
InTurn == \A m, n \in 1 .. Len(calls) : m < n /\ calls[m].w = calls[n].w => Served(m)

(* What a workshop's row says of its calls. *)
Awaits(n) ==
  /\ row[calls[n].w].state # "none"
  /\ Open(n) => row[calls[n].w].state = "refining"
  /\ row[calls[n].w].state \in {"options_ready", "chosen"} => Served(n)

(* What a workshop's row says of its options. *)
Standing(state, opts) ==
  /\ state \in {"options_ready", "chosen"} =>
       Len(opts) >= 2 /\ \A i \in 1 .. Len(opts) : opts[i].rejected <=> i < Len(opts) - 1
  /\ state \in {"none", "refining", "failed"} => \A i \in 1 .. Len(opts) : opts[i].rejected
  /\ state # "chosen" => \A i \in 1 .. Len(opts) : ~opts[i].chosen
  /\ state = "chosen" => \E i \in 1 .. Len(opts) : \A j \in 1 .. Len(opts) : opts[j].chosen <=> j = i

WorkInv ==
  /\ row \in [Workshops -> WorkshopRows] /\ options \in [Workshops -> Seq(OptionRows)]
  /\ calls \in Seq(CallRows) /\ Len(calls) <= MaxCalls /\ harm \in 0 .. MaxFaults
  /\ \A n \in 1 .. Len(calls) : CallFits(calls[n]) /\ Awaits(n)
  /\ InTurn
  /\ \A w \in Workshops : Standing(row[w].state, options[w])

LEMMA CallFacts ==
  ASSUME WorkInv
  PROVE  /\ Len(calls) \in Nat /\ DOMAIN calls = 1 .. Len(calls)
         /\ \A n \in 1 .. Len(calls) : calls[n] \in CallRows /\ calls[n].w \in Workshops /\ n \in Ids
<1>1. Len(calls) \in Nat /\ DOMAIN calls = 1 .. Len(calls)
  BY LenProperties DEF WorkInv
<1>2. \A n \in 1 .. Len(calls) : calls[n] \in CallRows
  BY ElementOfSeq DEF WorkInv
<1>3. \A n \in 1 .. Len(calls) : n \in Ids
  <2>1. MaxCalls \in Nat /\ Len(calls) <= MaxCalls
    BY WorkshopAssumption DEF WorkInv
  <2>. QED
    BY <1>1, <2>1 DEF Ids
<1>. QED
  BY <1>1, <1>2, <1>3 DEF CallRows

LEMMA OptionFacts ==
  ASSUME WorkInv, NEW w \in Workshops
  PROVE  /\ row[w] \in WorkshopRows /\ row[w].state \in States
         /\ options[w] \in Seq(OptionRows) /\ Len(options[w]) \in Nat /\ DOMAIN options[w] = 1 .. Len(options[w])
         /\ \A i \in 1 .. Len(options[w]) : options[w][i] \in OptionRows
<1>1. options[w] \in Seq(OptionRows) /\ row[w] \in WorkshopRows
  BY DEF WorkInv
<1>2. \A i \in 1 .. Len(options[w]) : options[w][i] \in OptionRows
  BY <1>1, ElementOfSeq
<1>. QED
  BY <1>1, <1>2, LenProperties DEF WorkshopRows

LEMMA WorkshopStart == WorkshopInit => WorkInv
<1>. SUFFICES ASSUME WorkshopInit PROVE WorkInv
  OBVIOUS
<1>1. row \in [Workshops -> WorkshopRows] /\ \A w \in Workshops : row[w].state = "none"
  BY DEF WorkshopInit, WorkshopRows, Unopened, States
<1>2. \A w \in Workshops : options[w] = <<>>
  BY DEF WorkshopInit
<1>3. options \in [Workshops -> Seq(OptionRows)] /\ calls \in Seq(CallRows) /\ Len(calls) = 0
  BY EmptySeq DEF WorkshopInit
<1>4. harm \in 0 .. MaxFaults /\ Len(calls) <= MaxCalls
  <2>1. MaxCalls \in Nat /\ MaxFaults \in Nat /\ harm = 0
    BY WorkshopAssumption DEF WorkshopInit
  <2>. QED
    BY <1>3, <2>1
<1>5. InTurn /\ \A n \in 1 .. Len(calls) : CallFits(calls[n]) /\ Awaits(n)
  BY <1>3 DEF InTurn
<1>6. \A w \in Workshops : Standing(row[w].state, options[w])
  <2>. SUFFICES ASSUME NEW w \in Workshops PROVE Standing(row[w].state, options[w])
    OBVIOUS
  <2>1. Len(options[w]) = 0
    BY <1>2, EmptySeq
  <2>. QED
    BY <1>1, <2>1 DEF Standing
<1>. QED
  BY <1>1, <1>3, <1>4, <1>5, <1>6 DEF WorkInv

(* What the invariant says is what the workshop promises. *)
LEMMA WorkshopHolds == WorkInv => WorkshopTypeOK /\ OneBoundedCall /\ PairOnOffer /\ AbandonedHoldsAnAnswer
<1>. SUFFICES ASSUME WorkInv PROVE WorkshopTypeOK /\ OneBoundedCall /\ PairOnOffer /\ AbandonedHoldsAnAnswer
  OBVIOUS
<1>1. WorkshopTypeOK
  BY CallFacts, OptionFacts DEF WorkInv, WorkshopTypeOK
<1>2. OneBoundedCall
  <2>1. \A n \in 1 .. Len(calls) : Open(n) => row[calls[n].w].state = "refining"
    BY DEF WorkInv, Awaits
  <2>2. ASSUME NEW m \in 1 .. Len(calls), NEW n \in 1 .. Len(calls), m # n, calls[m].w = calls[n].w
        PROVE  Served(m) \/ Served(n)
    BY <2>2, CallFacts DEF WorkInv, InTurn
  <2>3. \A n \in 1 .. Len(calls) : Served(n) => ~Open(n) /\ calls[n].child # "works"
    BY DEF Served, Open
  <2>. QED
    BY <2>1, <2>2, <2>3, CallFacts DEF OneBoundedCall
<1>3. PairOnOffer
  <2>. SUFFICES ASSUME NEW w \in Workshops
                PROVE  LET stands == {i \in DOMAIN options[w] : ~options[w][i].rejected}
                           total  == Len(options[w])
                       IN /\ row[w].state \in {"options_ready", "chosen"} => stands = {total - 1, total}
                          /\ row[w].state \in {"none", "refining", "failed"} => stands = {}
                          /\ Cardinality({i \in DOMAIN options[w] : options[w][i].chosen})
                               = IF row[w].state = "chosen" THEN 1 ELSE 0
    BY DEF PairOnOffer
  <2>0. /\ Standing(row[w].state, options[w]) /\ row[w].state \in States
        /\ Len(options[w]) \in Nat /\ DOMAIN options[w] = 1 .. Len(options[w])
    BY OptionFacts DEF WorkInv
  <2>. DEFINE stands == {i \in DOMAIN options[w] : ~options[w][i].rejected}
              total == Len(options[w])
              chosen == {i \in DOMAIN options[w] : options[w][i].chosen}
  <2>1. row[w].state \in {"options_ready", "chosen"} => stands = {total - 1, total}
    <3>. SUFFICES ASSUME row[w].state \in {"options_ready", "chosen"} PROVE stands = {total - 1, total}
      OBVIOUS
    <3>1. total >= 2 /\ \A i \in 1 .. total : options[w][i].rejected <=> i < total - 1
      BY <2>0 DEF Standing
    <3>2. \A i \in 1 .. total : i < total - 1 \/ i \in {total - 1, total}
      BY <2>0
    <3>3. total - 1 \in 1 .. total /\ total \in 1 .. total /\ ~(total - 1 < total - 1) /\ ~(total < total - 1)
      BY <2>0, <3>1
    <3>. QED
      BY <2>0, <3>1, <3>2, <3>3
  <2>2. row[w].state \in {"none", "refining", "failed"} => stands = {}
    BY <2>0 DEF Standing
  <2>3. Cardinality(chosen) = IF row[w].state = "chosen" THEN 1 ELSE 0
    <3>1. CASE row[w].state = "chosen"
      <4>1. PICK i \in 1 .. total : chosen = {i}
        BY <2>0, <3>1 DEF Standing
      <4>. QED
        BY <3>1, <4>1, FS_Singleton
    <3>2. CASE row[w].state # "chosen"
      <4>1. chosen = {}
        BY <2>0, <3>2 DEF Standing
      <4>. QED
        BY <3>2, <4>1, FS_EmptySet
    <3>. QED
      BY <3>1, <3>2
  <2>. QED
    BY <2>1, <2>2, <2>3
<1>4. AbandonedHoldsAnAnswer
  BY CallFacts DEF AbandonedHoldsAnAnswer, WorkInv, CallFits
<1>. QED
  BY <1>1, <1>2, <1>3, <1>4

LEMMA WorkshopClocks ==
  /\ Timeout \in Nat /\ Slack \in Nat /\ Slack >= 1 /\ AnswerGrace \in Nat
  /\ MaxCalls \in Nat /\ MaxFaults \in Nat
<1>1. /\ Slack \in Nat \ {0} /\ Timeout \in Nat /\ AnswerGrace \in Nat
      /\ MaxCalls \in Nat /\ MaxFaults \in Nat
  BY WorkshopAssumption, Zenon
<1>. QED
  BY <1>1

LEMMA SameLength == ASSUME NEW a \in Nat, NEW b \in Nat, 1 .. a = 1 .. b PROVE a = b
<1>1. \A i \in Int : i \in 1 .. a <=> i \in 1 .. b
  OBVIOUS
<1>2. ~(a < b)
  <2>. SUFFICES ASSUME a < b PROVE FALSE
    OBVIOUS
  <2>1. b \in 1 .. b /\ b \notin 1 .. a
    OBVIOUS
  <2>. QED
    BY <1>1, <2>1
<1>3. ~(b < a)
  <2>. SUFFICES ASSUME b < a PROVE FALSE
    OBVIOUS
  <2>1. a \in 1 .. a /\ a \notin 1 .. b
    OBVIOUS
  <2>. QED
    BY <1>1, <2>1
<1>. QED
  BY <1>2, <1>3

(* Calls go on; nothing is written on their workshops. *)
LEMMA CallsMove ==
  ASSUME WorkInv, UNCHANGED <<row, options>>, harm' \in 0 .. MaxFaults,
         calls' \in Seq(CallRows), Len(calls') = Len(calls),
         \A n \in 1 .. Len(calls) : /\ CallFits(calls'[n]) /\ calls'[n].w = calls[n].w
                                    /\ calls'[n].pc \notin {"over", "lost"} => Open(n)
                                    /\ Served(n) => calls'[n] = calls[n]
  PROVE  WorkInv'
<1>1. \A n \in 1 .. Len(calls) : Served(n) => Served(n)'
  BY DEF Served
<1>2. InTurn'
  BY <1>1 DEF WorkInv, InTurn
<1>3. \A n \in 1 .. Len(calls) : Awaits(n)'
  <2>. SUFFICES ASSUME NEW n \in 1 .. Len(calls) PROVE Awaits(n)'
    OBVIOUS
  <2>1. Awaits(n) /\ row' = row /\ calls'[n].w = calls[n].w
    BY DEF WorkInv
  <2>2. Open(n)' => Open(n)
    BY DEF Open
  <2>. QED
    BY <1>1, <2>1, <2>2 DEF Awaits
<1>. QED
  BY <1>2, <1>3 DEF WorkInv

LEMMA CallMoves ==
  ASSUME WorkInv, NEW n \in 1 .. Len(calls), NEW c \in CallRows, CallIs(n, c), ~Served(n),
         CallFits(c), c.w = calls[n].w, c.pc \notin {"over", "lost"} => Open(n),
         UNCHANGED <<row, options>>, harm' \in 0 .. MaxFaults
  PROVE  WorkInv'
<1>1. /\ calls' \in Seq(CallRows) /\ Len(calls') = Len(calls)
      /\ \A m \in 1 .. Len(calls) : calls'[m] = IF m = n THEN c ELSE calls[m]
  BY ExceptSeq DEF WorkInv, CallIs
<1>2. ASSUME NEW m \in 1 .. Len(calls)
      PROVE  /\ CallFits(calls'[m]) /\ calls'[m].w = calls[m].w
             /\ calls'[m].pc \notin {"over", "lost"} => Open(m)
             /\ Served(m) => calls'[m] = calls[m]
  <2>1. CASE m = n
    BY <1>1, <2>1
  <2>2. CASE m # n
    BY <1>1, <2>2 DEF WorkInv, Open
  <2>. QED
    BY <2>1, <2>2
<1>. QED
  BY <1>1, <1>2, CallsMove

(* The runner, the child and the service's own patience. *)
LEMMA CallSteps ==
  ASSUME WorkInv, NEW n \in 1 .. Len(calls),
         StartCall(n) \/ Submit(n) \/ RunnerReturns(n) \/ RunnerKills(n) \/ RunnerTimesOut(n) \/ GivesUp(n)
           \/ ChildEnds(n) \/ WriteLost(n)
  PROVE  WorkInv' /\ UNCHANGED <<row, options>>
<1>0. /\ UNCHANGED <<row, options>> /\ calls[n] \in CallRows /\ CallFits(calls[n])
      /\ harm' \in 0 .. MaxFaults /\ calls[n].age \in Ages
  <2>1. harm \in 0 .. MaxFaults /\ MaxFaults \in Nat
    BY WorkshopClocks DEF WorkInv
  <2>2. UNCHANGED <<row, options>> /\ (harm' = harm \/ (harm < MaxFaults /\ harm' = harm + 1))
    BY DEF StartCall, Submit, RunnerReturns, RunnerKills, RunnerTimesOut, GivesUp, ChildEnds, WriteLost, Hurt
  <2>3. calls[n] \in CallRows /\ CallFits(calls[n])
    BY CallFacts DEF WorkInv
  <2>. QED
    BY <2>1, <2>2, <2>3 DEF CallRows
<1>1. CASE StartCall(n)
  <2>. DEFINE c == [calls[n] EXCEPT !.pc = "calling", !.child = "works"]
  <2>1. calls[n].pc = "accepted" /\ CallIs(n, c)
    BY <1>1 DEF StartCall
  <2>2. /\ c \in CallRows /\ c.pc = "calling" /\ c.child = "works" /\ c.w = calls[n].w
        /\ c.result = calls[n].result /\ c.age = calls[n].age /\ c.answered = calls[n].answered
    BY <1>0 DEF CallRows
  <2>3. calls[n].age <= Timeout
    BY <1>0, <2>1, WorkshopClocks DEF CallFits
  <2>. QED
    BY <1>0, <2>1, <2>2, <2>3, CallMoves DEF CallFits, Open, Served
<1>2. CASE Submit(n)
  <2>. DEFINE c == [calls[n] EXCEPT !.answered = calls[n].age]
  <2>1. calls[n].pc = "calling" /\ CallIs(n, c)
    BY <1>2 DEF Submit
  <2>2. /\ c \in CallRows /\ c.pc = "calling" /\ c.child = calls[n].child /\ c.w = calls[n].w
        /\ c.result = calls[n].result /\ c.answered = calls[n].age
    BY <1>0, <2>1 DEF CallRows
  <2>3. calls[n].age # NotYet
    BY <1>0, WorkshopClocks DEF Ages, NotYet
  <2>. QED
    BY <1>0, <2>1, <2>2, <2>3, CallMoves DEF CallFits, Open, Served
<1>3. CASE RunnerReturns(n)
  <2>1. PICK result \in Results \ {"timeout"} :
          /\ calls[n].pc = "calling"
          /\ CallIs(n, [calls[n] EXCEPT !.pc = "writing", !.result = result, !.child = "gone"])
    BY <1>3 DEF RunnerReturns, Came
  <2>. DEFINE c == [calls[n] EXCEPT !.pc = "writing", !.result = result, !.child = "gone"]
  <2>2. c \in CallRows /\ c.pc = "writing" /\ c.child = "gone" /\ c.w = calls[n].w /\ c.result = result
    BY <1>0 DEF CallRows
  <2>. QED
    BY <1>0, <2>1, <2>2, CallMoves DEF CallFits, Open, Served
<1>4. CASE RunnerKills(n)
  <2>. DEFINE c == [calls[n] EXCEPT !.pc = "killing", !.child = "gone"]
  <2>1. calls[n].pc = "calling" /\ CallIs(n, c)
    BY <1>4 DEF RunnerKills
  <2>2. /\ c \in CallRows /\ c.pc = "killing" /\ c.child = "gone" /\ c.w = calls[n].w
        /\ c.result = calls[n].result
    BY <1>0 DEF CallRows
  <2>. QED
    BY <1>0, <2>1, <2>2, CallMoves DEF CallFits, Open, Served
<1>5. CASE RunnerTimesOut(n)
  <2>1. PICK result \in Results \ {"timeout"} :
          /\ calls[n].pc = "killing"
          /\ CallIs(n, [calls[n] EXCEPT !.pc = "writing", !.result = result, !.child = "gone"])
    BY <1>5 DEF RunnerTimesOut, Came, Results
  <2>. DEFINE c == [calls[n] EXCEPT !.pc = "writing", !.result = result, !.child = "gone"]
  <2>2. c \in CallRows /\ c.pc = "writing" /\ c.child = "gone" /\ c.w = calls[n].w /\ c.result = result
    BY <1>0 DEF CallRows
  <2>. QED
    BY <1>0, <2>1, <2>2, CallMoves DEF CallFits, Open, Served
<1>6. CASE GivesUp(n)
  <2>. DEFINE c == [calls[n] EXCEPT !.pc = "writing", !.result = "timeout", !.child = calls[n].child]
  <2>1. calls[n].pc \in {"calling", "killing"} /\ calls[n].age >= Timeout + Slack /\ CallIs(n, c)
    BY <1>6 DEF GivesUp, Came, ServiceDeadline
  <2>2. /\ c \in CallRows /\ c.pc = "writing" /\ c.child = calls[n].child /\ c.w = calls[n].w
        /\ c.result = "timeout" /\ c.answered = calls[n].answered
    BY <1>0 DEF CallRows, Results
  \* The runner's deadline had come before the service's, unless an answer moved it.
  <2>3. c.child = "works" => c.answered # NotYet
    <3>1. calls[n].age > Timeout
      BY <1>0, <2>1, WorkshopClocks DEF Ages
    <3>. QED
      BY <1>0, <2>1, <2>2, <3>1, WorkshopClocks DEF CallFits, Ages
  <2>. QED
    BY <1>0, <2>1, <2>2, <2>3, CallMoves DEF CallFits, Open, Served, Results
<1>7. CASE ChildEnds(n)
  <2>. DEFINE c == [calls[n] EXCEPT !.child = "gone"]
  <2>1. calls[n].pc \in {"writing", "over", "lost"} /\ calls[n].child = "works" /\ CallIs(n, c)
    BY <1>7 DEF ChildEnds
  <2>2. /\ c \in CallRows /\ c.pc = calls[n].pc /\ c.child = "gone" /\ c.w = calls[n].w
        /\ c.result = calls[n].result
    BY <1>0 DEF CallRows
  <2>. QED
    BY <1>0, <2>1, <2>2, CallMoves DEF CallFits, Open, Served
<1>8. CASE WriteLost(n)
  <2>. DEFINE c == [calls[n] EXCEPT !.pc = "lost"]
  <2>1. calls[n].pc \in {"accepted", "writing"} /\ CallIs(n, c)
    BY <1>8 DEF WriteLost
  <2>2. /\ c \in CallRows /\ c.pc = "lost" /\ c.child = calls[n].child /\ c.w = calls[n].w
        /\ c.result = calls[n].result /\ c.answered = calls[n].answered
    BY <1>0 DEF CallRows
  <2>. QED
    BY <1>0, <2>1, <2>2, CallMoves DEF CallFits, Open, Served
<1>. QED
  BY <1>0, <1>1, <1>2, <1>3, <1>4, <1>5, <1>6, <1>7, <1>8

(* A step of all calls at once: the clock, and the end of the process. *)
LEMMA AllCalls ==
  ASSUME WorkInv, WorkshopTick \/ ApiRestarts
  PROVE  WorkInv' /\ UNCHANGED <<row, options>>
<1>0. UNCHANGED <<row, options>> /\ harm' \in 0 .. MaxFaults /\ Len(calls) \in Nat /\ DOMAIN calls = 1 .. Len(calls)
  <2>1. harm \in 0 .. MaxFaults /\ MaxFaults \in Nat
    BY WorkshopClocks DEF WorkInv
  <2>2. UNCHANGED <<row, options>> /\ (harm' = harm \/ (harm < MaxFaults /\ harm' = harm + 1))
    BY DEF WorkshopTick, ApiRestarts, Hurt
  <2>. QED
    BY <2>1, <2>2, CallFacts
<1>1. \A n \in 1 .. Len(calls) :
        /\ DOMAIN calls' = 1 .. Len(calls) /\ calls'[n] \in CallRows
        /\ CallFits(calls'[n]) /\ calls'[n].w = calls[n].w
        /\ calls'[n].pc \notin {"over", "lost"} => Open(n)
        /\ Served(n) => calls'[n] = calls[n]
  <2>. SUFFICES ASSUME NEW n \in 1 .. Len(calls)
                PROVE  /\ calls'[n] \in CallRows
                       /\ CallFits(calls'[n]) /\ calls'[n].w = calls[n].w
                       /\ calls'[n].pc \notin {"over", "lost"} => Open(n)
                       /\ Served(n) => calls'[n] = calls[n]
    BY <1>0 DEF WorkshopTick, ApiRestarts
  <2>0. calls[n] \in CallRows /\ CallFits(calls[n])
    BY CallFacts DEF WorkInv
  <2>1. CASE WorkshopTick
    <3>1. CASE calls[n].pc \in {"calling", "killing"}
      <4>. DEFINE c == [calls[n] EXCEPT !.age = @ + 1]
      <4>1. /\ calls'[n] = c /\ calls[n].age < Timeout + Slack
            /\ calls[n].pc = "calling" => calls[n].age < RunnerDeadline(calls[n])
        BY <1>0, <2>1, <3>1 DEF WorkshopTick, ServiceDeadline
      <4>2. calls[n].age + 1 \in Ages /\ calls[n].age \in Nat
        BY <2>0, <4>1, WorkshopClocks DEF CallRows, Ages
      <4>3. /\ c \in CallRows /\ c.pc = calls[n].pc /\ c.child = calls[n].child /\ c.w = calls[n].w
            /\ c.result = calls[n].result /\ c.answered = calls[n].answered /\ c.age = calls[n].age + 1
        BY <2>0, <4>2 DEF CallRows
      <4>4. c.pc = "calling" /\ c.answered = NotYet => c.age <= Timeout
        BY <4>1, <4>2, <4>3, WorkshopClocks DEF RunnerDeadline
      <4>. QED
        BY <2>0, <3>1, <4>1, <4>3, <4>4 DEF CallFits, Open, Served
    <3>2. CASE calls[n].pc \notin {"calling", "killing"}
      <4>1. calls'[n] = calls[n]
        BY <1>0, <2>1, <3>2 DEF WorkshopTick
      <4>. QED
        BY <2>0, <4>1 DEF Open
    <3>. QED
      BY <3>1, <3>2
  <2>2. CASE ApiRestarts
    <3>1. CASE Open(n)
      <4>. DEFINE c == [calls[n] EXCEPT !.pc = "lost"]
      <4>1. calls'[n] = c
        BY <1>0, <2>2, <3>1 DEF ApiRestarts
      <4>2. /\ c \in CallRows /\ c.pc = "lost" /\ c.child = calls[n].child /\ c.w = calls[n].w
            /\ c.result = calls[n].result /\ c.answered = calls[n].answered
        BY <2>0 DEF CallRows
      <4>. QED
        BY <2>0, <3>1, <4>1, <4>2 DEF CallFits, Open, Served
    <3>2. CASE ~Open(n)
      <4>1. calls'[n] = calls[n]
        BY <1>0, <2>2, <3>2 DEF ApiRestarts
      <4>. QED
        BY <2>0, <3>2, <4>1 DEF Open
    <3>. QED
      BY <3>1, <3>2
  <2>. QED
    BY <2>1, <2>2
<1>2. calls' \in [1 .. Len(calls) -> CallRows]
  BY <1>0, <1>1 DEF WorkshopTick, ApiRestarts
<1>3. calls' \in Seq(CallRows)
  BY <1>0, <1>2, SeqDef
<1>4. Len(calls') = Len(calls)
  <2>1. Len(calls') \in Nat /\ DOMAIN calls' = 1 .. Len(calls') /\ DOMAIN calls' = 1 .. Len(calls)
    BY <1>2, <1>3, LenProperties
  <2>. QED
    BY <1>0, <2>1, SameLength
<1>. QED
  BY <1>0, <1>1, <1>3, <1>4, CallsMove

(* A workshop's row and options are written; those of the others are not. *)
LEMMA WorkshopMoves ==
  ASSUME WorkInv, NEW w \in Workshops, NEW r \in WorkshopRows, NEW o \in Seq(OptionRows),
         row' = [row EXCEPT ![w] = r], options' = [options EXCEPT ![w] = o], Standing(r.state, o),
         row[w].state \notin {"chosen", "failed"}, UNCHANGED harm,
         calls' \in Seq(CallRows), Len(calls') <= MaxCalls, InTurn',
         \A n \in 1 .. Len(calls') : CallFits(calls'[n]) /\ Awaits(n)'
  PROVE  /\ WorkInv'
         /\ \A v \in Workshops : row[v].state \in {"chosen", "failed"} =>
              row'[v] = row[v] /\ options'[v] = options[v]
<1>1. /\ row' \in [Workshops -> WorkshopRows] /\ row'[w] = r
      /\ \A v \in Workshops : v # w => row'[v] = row[v]
  BY DEF WorkInv
<1>2. /\ options' \in [Workshops -> Seq(OptionRows)] /\ options'[w] = o
      /\ \A v \in Workshops : v # w => options'[v] = options[v]
  BY DEF WorkInv
<1>3. \A v \in Workshops : Standing(row'[v].state, options'[v])
  <2>. SUFFICES ASSUME NEW v \in Workshops PROVE Standing(row'[v].state, options'[v])
    OBVIOUS
  <2>1. CASE v = w
    BY <1>1, <1>2, <2>1
  <2>2. CASE v # w
    BY <1>1, <1>2, <2>2 DEF WorkInv
  <2>. QED
    BY <2>1, <2>2
<1>4. WorkInv'
  BY <1>1, <1>2, <1>3 DEF WorkInv
<1>5. \A v \in Workshops : row[v].state \in {"chosen", "failed"} => row'[v] = row[v] /\ options'[v] = options[v]
  BY <1>1, <1>2
<1>. QED
  BY <1>4, <1>5

(* A request accepted puts one call behind those that were served. *)
LEMMA Accepts ==
  ASSUME WorkInv, NEW w \in Workshops, NEW base \in Nat, Accept(w, base),
         NEW r \in WorkshopRows, r.state = "refining", row' = [row EXCEPT ![w] = r],
         \A n \in 1 .. Len(calls) : calls[n].w = w => Served(n)
  PROVE  /\ calls' \in Seq(CallRows) /\ Len(calls') <= MaxCalls /\ InTurn'
         /\ \A n \in 1 .. Len(calls') : CallFits(calls'[n]) /\ Awaits(n)'
<1>. DEFINE c == NewCall(w, base)
<1>0. /\ Len(calls) \in Nat /\ MaxCalls \in Nat /\ Len(calls) < MaxCalls /\ calls' = Append(calls, c)
      /\ calls \in Seq(CallRows)
  BY CallFacts, WorkshopClocks DEF Accept, WorkInv
<1>1. /\ c \in CallRows /\ c.w = w /\ c.pc = "accepted" /\ c.child = "none" /\ c.age = 0 /\ c.result = "none"
  <2>1. 0 \in Ages /\ NotYet \in Ages \cup {NotYet}
    BY WorkshopClocks DEF Ages
  <2>. QED
    BY <2>1 DEF NewCall, CallRows
<1>. HIDE DEF c
<1>2. /\ calls' \in Seq(CallRows) /\ Len(calls') = Len(calls) + 1 /\ calls'[Len(calls) + 1] = c
      /\ \A n \in 1 .. Len(calls) : calls'[n] = calls[n]
  BY <1>0, <1>1, AppendProperties
<1>3. \A n \in 1 .. Len(calls) : Served(n) => Served(n)'
  BY <1>2 DEF Served
<1>4. \A n \in 1 .. Len(calls') : n \in 1 .. Len(calls) \/ n = Len(calls) + 1
  BY <1>0, <1>2
<1>5. InTurn'
  <2>. SUFFICES ASSUME NEW m \in 1 .. Len(calls'), NEW n \in 1 .. Len(calls'), m < n, calls'[m].w = calls'[n].w
                PROVE  Served(m)'
    BY DEF InTurn
  <2>1. m \in 1 .. Len(calls)
    BY <1>0, <1>4
  <2>2. CASE n \in 1 .. Len(calls)
    BY <1>2, <1>3, <2>1, <2>2 DEF WorkInv, InTurn
  <2>3. CASE n = Len(calls) + 1
    BY <1>1, <1>2, <1>3, <2>1, <2>3
  <2>. QED
    BY <1>4, <2>2, <2>3
<1>6. row' \in [Workshops -> WorkshopRows] /\ row'[w] = r /\ \A v \in Workshops : v # w => row'[v] = row[v]
  BY DEF WorkInv
<1>7. ASSUME NEW n \in 1 .. Len(calls')
      PROVE  CallFits(calls'[n]) /\ Awaits(n)'
  <2>1. CASE n \in 1 .. Len(calls)
    <3>1. calls'[n] = calls[n] /\ CallFits(calls[n]) /\ Awaits(n) /\ calls[n].w \in Workshops
      BY <1>2, <2>1, CallFacts DEF WorkInv
    <3>2. Open(n)' <=> Open(n)
      BY <3>1 DEF Open
    <3>3. Served(n) => ~Open(n)
      BY DEF Served, Open
    <3>4. CASE calls[n].w = w
      BY <1>6, <2>1, <3>1, <3>2, <3>3, <3>4 DEF Awaits
    <3>5. CASE calls[n].w # w
      BY <1>3, <1>6, <2>1, <3>1, <3>2, <3>5 DEF Awaits
    <3>. QED
      BY <3>1, <3>4, <3>5
  <2>2. CASE n = Len(calls) + 1
    <3>1. calls'[n] = c
      BY <1>2, <2>2
    <3>. QED
      BY <1>1, <1>6, <3>1 DEF CallFits, Awaits
  <2>. QED
    BY <1>4, <2>1, <2>2
<1>. QED
  BY <1>0, <1>2, <1>5, <1>7

(* A call that writes is its workshop's last, and the row is its own. *)
LEMMA Finishes ==
  ASSUME WorkInv, NEW n \in 1 .. Len(calls), calls[n].pc = "writing",
         CallIs(n, [calls[n] EXCEPT !.pc = "over"]),
         NEW r \in WorkshopRows, row' = [row EXCEPT ![calls[n].w] = r],
         r.state = "failed" \/ (r.state = "options_ready" /\ calls[n].result = "options")
  PROVE  /\ calls' \in Seq(CallRows) /\ Len(calls') <= MaxCalls /\ InTurn'
         /\ \A m \in 1 .. Len(calls') : CallFits(calls'[m]) /\ Awaits(m)'
<1>. DEFINE c == [calls[n] EXCEPT !.pc = "over"]
<1>0. /\ calls[n] \in CallRows /\ CallFits(calls[n]) /\ calls \in Seq(CallRows) /\ Len(calls) <= MaxCalls
      /\ calls[n].w \in Workshops /\ Len(calls) \in Nat
  BY CallFacts DEF WorkInv
<1>1. /\ c \in CallRows /\ c.pc = "over" /\ c.child = calls[n].child /\ c.w = calls[n].w
      /\ c.result = calls[n].result /\ c.answered = calls[n].answered
  BY <1>0 DEF CallRows
<1>2. /\ calls' \in Seq(CallRows) /\ Len(calls') = Len(calls)
      /\ \A m \in 1 .. Len(calls) : calls'[m] = IF m = n THEN c ELSE calls[m]
  BY <1>0, <1>1, ExceptSeq DEF CallIs
<1>. HIDE DEF c
<1>3. ~Served(n) /\ \A m \in 1 .. Len(calls) : Served(m) => Served(m)'
  BY <1>2 DEF Served
<1>4. \A m \in 1 .. Len(calls) : m # n /\ calls[m].w = calls[n].w => Served(m)
  <2>. SUFFICES ASSUME NEW m \in 1 .. Len(calls), m # n, calls[m].w = calls[n].w PROVE Served(m)
    OBVIOUS
  <2>1. m < n \/ n < m
    BY <1>0
  <2>2. CASE m < n
    BY <2>2 DEF WorkInv, InTurn
  <2>3. CASE n < m
    <3>1. Served(n)
      BY <2>3 DEF WorkInv, InTurn
    <3>. QED
      BY <1>3, <3>1
  <2>. QED
    BY <2>1, <2>2, <2>3
<1>5. InTurn'
  BY <1>1, <1>2, <1>3 DEF WorkInv, InTurn
<1>6. row' \in [Workshops -> WorkshopRows] /\ row'[calls[n].w] = r
      /\ \A v \in Workshops : v # calls[n].w => row'[v] = row[v]
  BY <1>0 DEF WorkInv
<1>7. ASSUME NEW m \in 1 .. Len(calls)
      PROVE  CallFits(calls'[m]) /\ Awaits(m)'
  <2>0. calls[m].w \in Workshops /\ CallFits(calls[m]) /\ Awaits(m)
    BY CallFacts DEF WorkInv
  <2>1. CASE m = n
    <3>1. calls'[m] = c
      BY <1>2, <2>1
    <3>2. CallFits(c)
      BY <1>0, <1>1 DEF CallFits
    <3>3. r.state = "options_ready" => Served(m)'
      BY <1>0, <1>1, <3>1 DEF CallFits, Served
    <3>. QED
      BY <1>1, <1>6, <2>0, <2>1, <3>1, <3>2, <3>3 DEF Awaits, Open
  <2>2. CASE m # n
    <3>1. calls'[m] = calls[m]
      BY <1>2, <2>2
    <3>2. Open(m)' <=> Open(m)
      BY <3>1 DEF Open
    <3>3. CASE calls[m].w = calls[n].w
      <4>1. Served(m)' /\ ~Open(m)'
        BY <1>3, <1>4, <2>2, <3>3 DEF Served, Open
      <4>. QED
        BY <1>6, <2>0, <3>1, <3>3, <4>1 DEF Awaits
    <3>4. CASE calls[m].w # calls[n].w
      BY <1>3, <1>6, <2>0, <3>1, <3>2, <3>4 DEF Awaits
    <3>. QED
      BY <3>3, <3>4
  <2>. QED
    BY <2>1, <2>2
<1>. QED
  BY <1>0, <1>2, <1>5, <1>7

(* What the row waits for has been served unless it is still refining. *)
LEMMA ReadyIsServed ==
  ASSUME WorkInv, NEW w \in Workshops, row[w].state \in {"none", "options_ready", "chosen"}
  PROVE  \A n \in 1 .. Len(calls) : calls[n].w = w => Served(n)
BY DEF WorkInv, Awaits

LEMMA CreateHolds ==
  ASSUME WorkInv, NEW w \in Workshops, NEW u \in Users, Create(w, u)
  PROVE  /\ WorkInv'
         /\ \A v \in Workshops : row[v].state \in {"chosen", "failed"} =>
              row'[v] = row[v] /\ options'[v] = options[v]
<1>. DEFINE r == [state |-> "refining", owner |-> u, error |-> "none"]
<1>1. r \in WorkshopRows /\ r.state = "refining" /\ row' = [row EXCEPT ![w] = r]
  BY DEF Create, WorkshopRows, States
<1>2. row[w].state = "none" /\ Accept(w, Merge) /\ UNCHANGED <<options, harm>> /\ Merge \in Nat
  BY DEF Create, Merge
<1>3. options' = [options EXCEPT ![w] = options[w]] /\ options[w] \in Seq(OptionRows)
  BY <1>2 DEF WorkInv
<1>4. Standing("refining", options[w])
  BY <1>2 DEF WorkInv, Standing
<1>. HIDE DEF r
<1>5. /\ calls' \in Seq(CallRows) /\ Len(calls') <= MaxCalls /\ InTurn'
      /\ \A n \in 1 .. Len(calls') : CallFits(calls'[n]) /\ Awaits(n)'
  BY <1>1, <1>2, ReadyIsServed, Accepts
<1>6. row[w].state \notin {"chosen", "failed"} /\ UNCHANGED harm /\ Standing(r.state, options[w])
  BY <1>1, <1>2, <1>4
<1>. QED
  BY <1>1, <1>3, <1>5, <1>6, WorkshopMoves

(* A refine turns down all that was on offer. *)
LEMMA RefineHolds ==
  ASSUME WorkInv, NEW w \in Workshops, NEW u \in Users,
         NEW base \in LiveOptions(w) \cup {Merge}, NEW note \in Notes, Refine(w, u, base, note)
  PROVE  /\ WorkInv'
         /\ \A v \in Workshops : row[v].state \in {"chosen", "failed"} =>
              row'[v] = row[v] /\ options'[v] = options[v]
<1>. DEFINE r == [row[w] EXCEPT !.state = "refining", !.error = "none"]
            opt(i) == IF i \in LiveOptions(w)
                      THEN [options[w][i] EXCEPT !.rejected = TRUE,
                                                 !.note = IF note # "" THEN note ELSE options[w][i].note]
                      ELSE options[w][i]
            o == [i \in DOMAIN options[w] |-> opt(i)]
<1>0. /\ row[w] \in WorkshopRows /\ Len(options[w]) \in Nat /\ DOMAIN options[w] = 1 .. Len(options[w])
      /\ \A i \in 1 .. Len(options[w]) : options[w][i] \in OptionRows
      /\ Standing(row[w].state, options[w])
  BY OptionFacts DEF WorkInv
<1>1. r \in WorkshopRows /\ r.state = "refining" /\ row' = [row EXCEPT ![w] = r]
  BY <1>0 DEF Refine, RowIs, WorkshopRows, States
<1>2. row[w].state = "options_ready" /\ Accept(w, base) /\ UNCHANGED harm
  BY DEF Refine, MayRefine
<1>3. base \in Nat
  BY <1>0 DEF LiveOptions, Merge
<1>4. options' = [options EXCEPT ![w] = o]
  BY DEF Refine, Reject
<1>5. \A i \in 1 .. Len(options[w]) : opt(i) \in OptionRows /\ opt(i).rejected /\ ~opt(i).chosen
  <2>. SUFFICES ASSUME NEW i \in 1 .. Len(options[w])
                PROVE  opt(i) \in OptionRows /\ opt(i).rejected /\ ~opt(i).chosen
    OBVIOUS
  <2>1. options[w][i] \in OptionRows /\ ~options[w][i].chosen
    BY <1>0, <1>2, Zenon DEF Standing
  <2>2. CASE i \in LiveOptions(w)
    <3>. DEFINE said == IF note # "" THEN note ELSE options[w][i].note
    <3>1. said \in Notes
      BY <2>1 DEF OptionRows
    <3>2. opt(i) = [options[w][i] EXCEPT !.rejected = TRUE, !.note = said]
      BY <2>2
    <3>. HIDE DEF said, opt
    <3>. QED
      BY <2>1, <3>1, <3>2 DEF OptionRows
  <2>3. CASE i \notin LiveOptions(w)
    <3>1. opt(i) = options[w][i]
      BY <2>3
    <3>2. options[w][i].rejected
      BY <1>0, <2>1, <2>3 DEF LiveOptions
    <3>. HIDE DEF opt
    <3>. QED
      BY <2>1, <3>1, <3>2
  <2>. QED
    BY <2>2, <2>3
<1>6. o \in Seq(OptionRows) /\ Len(o) = Len(options[w])
  <2>1. o \in [1 .. Len(options[w]) -> OptionRows]
    BY <1>0, <1>5
  <2>2. o \in Seq(OptionRows)
    BY <1>0, <2>1, SeqDef
  <2>3. Len(o) \in Nat /\ DOMAIN o = 1 .. Len(o) /\ DOMAIN o = 1 .. Len(options[w])
    BY <2>1, <2>2, LenProperties
  <2>. QED
    BY <1>0, <2>2, <2>3, SameLength
<1>7. \A i \in 1 .. Len(o) : o[i].rejected /\ ~o[i].chosen
  <2>1. \A i \in 1 .. Len(o) : o[i] = opt(i)
    BY <1>0, <1>6
  <2>. QED
    BY <1>5, <1>6, <2>1
<1>. HIDE DEF o, r, opt
<1>8. Standing("refining", o)
  BY <1>7 DEF Standing
<1>9. /\ calls' \in Seq(CallRows) /\ Len(calls') <= MaxCalls /\ InTurn'
      /\ \A n \in 1 .. Len(calls') : CallFits(calls'[n]) /\ Awaits(n)'
  BY <1>1, <1>2, <1>3, ReadyIsServed, Accepts
<1>10. row[w].state \notin {"chosen", "failed"} /\ Standing(r.state, o)
  BY <1>1, <1>2, <1>8
<1>. QED
  BY <1>1, <1>2, <1>4, <1>6, <1>9, <1>10, WorkshopMoves

(* One of the two on offer is chosen; the other stays as it was. *)
LEMMA ChooseHolds ==
  ASSUME WorkInv, NEW w \in Workshops, NEW u \in Users,
         NEW i \in DOMAIN options[w], NEW edited \in BOOLEAN, Choose(w, u, i, edited)
  PROVE  /\ WorkInv'
         /\ \A v \in Workshops : row[v].state \in {"chosen", "failed"} =>
              row'[v] = row[v] /\ options'[v] = options[v]
<1>. DEFINE r == [row[w] EXCEPT !.state = "chosen", !.error = row[w].error]
            opt == [options[w][i] EXCEPT !.chosen = TRUE, !.edited = edited]
            o == [options[w] EXCEPT ![i] = opt]
<1>0. /\ row[w] \in WorkshopRows /\ Len(options[w]) \in Nat /\ i \in 1 .. Len(options[w])
      /\ options[w] \in Seq(OptionRows) /\ options[w][i] \in OptionRows
      /\ Standing(row[w].state, options[w])
  BY OptionFacts DEF WorkInv
<1>1. r \in WorkshopRows /\ r.state = "chosen" /\ row' = [row EXCEPT ![w] = r]
  BY <1>0 DEF Choose, RowIs, WorkshopRows, States
<1>2. row[w].state = "options_ready" /\ UNCHANGED <<calls, harm>> /\ options' = [options EXCEPT ![w] = o]
  BY DEF Choose
<1>3. opt \in OptionRows /\ opt.chosen /\ opt.rejected = options[w][i].rejected
  BY <1>0 DEF OptionRows
<1>. HIDE DEF r, opt
<1>4. /\ o \in Seq(OptionRows) /\ Len(o) = Len(options[w])
      /\ \A j \in 1 .. Len(options[w]) : o[j] = IF j = i THEN opt ELSE options[w][j]
  BY <1>0, <1>3, ExceptSeq
<1>. HIDE DEF o
<1>5. Standing("chosen", o)
  <2>1. /\ Len(options[w]) >= 2
        /\ \A j \in 1 .. Len(options[w]) : options[w][j].rejected <=> j < Len(options[w]) - 1
        /\ \A j \in 1 .. Len(options[w]) : ~options[w][j].chosen
    BY <1>0, <1>2 DEF Standing
  <2>2. \A j \in 1 .. Len(o) : o[j].rejected <=> j < Len(o) - 1
    <3>1. \A j \in 1 .. Len(o) : o[j].rejected <=> options[w][j].rejected
      BY <1>3, <1>4
    <3>. QED
      BY <1>4, <2>1, <3>1
  <2>3. \A j \in 1 .. Len(o) : o[j].chosen <=> j = i
    BY <1>3, <1>4, <2>1
  <2>4. Len(o) >= 2 /\ i \in 1 .. Len(o)
    BY <1>0, <1>4, <2>1
  <2>. QED
    BY <2>2, <2>3, <2>4 DEF Standing
<1>6. \A n \in 1 .. Len(calls) : calls[n].w = w => Served(n)
  BY <1>2, ReadyIsServed
<1>7. row' \in [Workshops -> WorkshopRows] /\ row'[w] = r /\ \A v \in Workshops : v # w => row'[v] = row[v]
  BY <1>1 DEF WorkInv
<1>8. \A n \in 1 .. Len(calls) : Awaits(n)'
  <2>. SUFFICES ASSUME NEW n \in 1 .. Len(calls) PROVE Awaits(n)'
    OBVIOUS
  <2>1. calls' = calls /\ Awaits(n) /\ calls[n].w \in Workshops
    BY <1>2, CallFacts DEF WorkInv
  <2>2. (Open(n)' <=> Open(n)) /\ (Served(n)' <=> Served(n)) /\ (Served(n) => ~Open(n))
    BY <2>1 DEF Open, Served
  <2>3. CASE calls[n].w = w
    BY <1>1, <1>6, <1>7, <2>1, <2>2, <2>3 DEF Awaits
  <2>4. CASE calls[n].w # w
    BY <1>7, <2>1, <2>2, <2>4 DEF Awaits
  <2>. QED
    BY <2>3, <2>4
<1>9. InTurn'
  BY <1>2 DEF WorkInv, InTurn, Served
<1>10. /\ calls' \in Seq(CallRows) /\ Len(calls') <= MaxCalls
       /\ \A n \in 1 .. Len(calls') : CallFits(calls'[n]) /\ Awaits(n)'
  BY <1>2, <1>8 DEF WorkInv
<1>11. row[w].state \notin {"chosen", "failed"} /\ UNCHANGED harm /\ Standing(r.state, o)
  BY <1>1, <1>2, <1>5
<1>. QED
  BY <1>1, <1>2, <1>4, <1>9, <1>10, <1>11, WorkshopMoves

(* The pair is put behind all that was turned down before. *)
LEMMA StoreHolds ==
  ASSUME WorkInv, NEW n \in 1 .. Len(calls), Store(n)
  PROVE  /\ WorkInv'
         /\ \A v \in Workshops : row[v].state \in {"chosen", "failed"} =>
              row'[v] = row[v] /\ options'[v] = options[v]
<1>. DEFINE w == calls[n].w
            r == [row[w] EXCEPT !.state = "options_ready", !.error = "none"]
            o == options[w] \o Offer(n)
<1>0. w \in Workshops /\ n \in Ids
  BY CallFacts
<1>1. /\ calls[n].pc = "writing" /\ calls[n].result = "options" /\ UNCHANGED harm
      /\ CallIs(n, [calls[n] EXCEPT !.pc = "over"])
      /\ options' = [options EXCEPT ![w] = o] /\ row' = [row EXCEPT ![w] = r]
  BY DEF Store, RowIs
<1>2. row[w].state = "refining"
  BY <1>1 DEF WorkInv, Awaits, Open
<1>3. /\ row[w] \in WorkshopRows /\ Len(options[w]) \in Nat /\ options[w] \in Seq(OptionRows)
      /\ Standing(row[w].state, options[w])
  BY <1>0, OptionFacts DEF WorkInv
<1>4. r \in WorkshopRows /\ r.state = "options_ready"
  BY <1>3 DEF WorkshopRows, States
<1>5. /\ Offer(n) \in Seq(OptionRows) /\ Len(Offer(n)) = 2
      /\ \A i \in 1 .. 2 : ~Offer(n)[i].rejected /\ ~Offer(n)[i].chosen
  <2>. DEFINE p == [call |-> n, chosen |-> FALSE, rejected |-> FALSE, note |-> "", edited |-> FALSE]
  <2>1. p \in OptionRows /\ ~p.rejected /\ ~p.chosen
    <3>1. "" \in Notes
      BY WorkshopAssumption, Zenon
    <3>. QED
      BY <1>0, <3>1 DEF OptionRows
  <2>2. Offer(n) = [i \in 1 .. 2 |-> p]
    BY DEF Offer, OptionsPerRound
  <2>. HIDE DEF p
  <2>3. Offer(n) \in [1 .. 2 -> OptionRows]
    BY <2>1, <2>2
  <2>4. Offer(n) \in Seq(OptionRows)
    <3>1. \A k \in Nat : [1 .. k -> OptionRows] \subseteq Seq(OptionRows)
      BY SeqDef
    <3>2. [1 .. 2 -> OptionRows] \subseteq Seq(OptionRows)
      BY <3>1
    <3>. QED
      BY <2>3, <3>2
  <2>5. Len(Offer(n)) \in Nat /\ DOMAIN Offer(n) = 1 .. Len(Offer(n)) /\ DOMAIN Offer(n) = 1 .. 2
    BY <2>3, <2>4, LenProperties
  <2>6. Len(Offer(n)) = 2
    BY <2>5, SameLength
  <2>. QED
    BY <2>1, <2>2, <2>4, <2>6
<1>6. /\ o \in Seq(OptionRows) /\ Len(o) = Len(options[w]) + 2
      /\ \A i \in 1 .. Len(options[w]) + 2 :
           o[i] = IF i <= Len(options[w]) THEN options[w][i] ELSE Offer(n)[i - Len(options[w])]
  <2>. DEFINE s == options[w]
              t == Offer(n)
  <2>1. s \in Seq(OptionRows) /\ t \in Seq(OptionRows) /\ Len(s) \in Nat /\ Len(t) = 2
    BY <1>3, <1>5
  <2>2. o = s \o t
    OBVIOUS
  <2>. HIDE DEF s, t, w, o
  <2>3. /\ o \in Seq(OptionRows) /\ Len(o) = Len(s) + 2
        /\ \A i \in 1 .. Len(s) + 2 : o[i] = IF i <= Len(s) THEN s[i] ELSE t[i - Len(s)]
    <3>1. /\ s \o t \in Seq(OptionRows) /\ Len(s \o t) = Len(s) + Len(t)
          /\ \A i \in 1 .. Len(s) + Len(t) : (s \o t)[i] = IF i <= Len(s) THEN s[i] ELSE t[i - Len(s)]
      BY <2>1, ConcatProperties, Zenon
    <3>2. Len(s) + Len(t) = Len(s) + 2
      BY <2>1
    <3>. QED
      BY <2>2, <3>1, <3>2, Zenon
  <2>. QED
    BY <2>3 DEF s, t
<1>. HIDE DEF w, r, o
<1>7. Standing("options_ready", o)
  <2>1. \A i \in 1 .. Len(options[w]) : options[w][i].rejected /\ ~options[w][i].chosen
    BY <1>2, <1>3 DEF Standing
  <2>2. ASSUME NEW i \in 1 .. Len(o)
        PROVE  (o[i].rejected <=> i < Len(o) - 1) /\ ~o[i].chosen
    <3>1. CASE i <= Len(options[w])
      <4>1. o[i] = options[w][i] /\ i \in 1 .. Len(options[w]) /\ i < Len(o) - 1
        BY <1>3, <1>6, <3>1
      <4>. QED
        BY <2>1, <4>1
    <3>2. CASE i > Len(options[w])
      <4>1. i - Len(options[w]) \in 1 .. 2 /\ o[i] = Offer(n)[i - Len(options[w])] /\ ~(i < Len(o) - 1)
        BY <1>3, <1>6, <3>2
      <4>. QED
        BY <1>5, <4>1
    <3>. QED
      BY <1>3, <1>6, <3>1, <3>2
  <2>3. Len(o) >= 2
    BY <1>3, <1>6
  <2>. QED
    BY <2>2, <2>3 DEF Standing
<1>8. /\ calls' \in Seq(CallRows) /\ Len(calls') <= MaxCalls /\ InTurn'
      /\ \A m \in 1 .. Len(calls') : CallFits(calls'[m]) /\ Awaits(m)'
  BY <1>1, <1>4, Finishes DEF w
<1>9. row[w].state \notin {"chosen", "failed"} /\ UNCHANGED harm /\ Standing(r.state, o)
  BY <1>1, <1>2, <1>4, <1>7
<1>. QED
  BY <1>0, <1>1, <1>4, <1>6, <1>8, <1>9, WorkshopMoves

(* A call without a pair fails the workshop that waits for it. *)
LEMMA FailHolds ==
  ASSUME WorkInv, NEW n \in 1 .. Len(calls), Fail(n)
  PROVE  /\ WorkInv'
         /\ \A v \in Workshops : row[v].state \in {"chosen", "failed"} =>
              row'[v] = row[v] /\ options'[v] = options[v]
<1>. DEFINE w == calls[n].w
            r == [row[w] EXCEPT !.state = "failed", !.error = ErrorCode[calls[n].result]]
<1>0. w \in Workshops /\ CallFits(calls[n]) /\ calls[n].pc = "writing" /\ calls[n].result # "options"
  BY CallFacts DEF Fail, WorkInv
<1>1. row[w].state = "refining"
  BY <1>0 DEF WorkInv, Awaits, Open
<1>2. /\ UNCHANGED <<options, harm>> /\ CallIs(n, [calls[n] EXCEPT !.pc = "over"])
      /\ row' = [row EXCEPT ![w] = r]
  BY <1>1 DEF Fail, RowIs
<1>3. row[w] \in WorkshopRows /\ Standing(row[w].state, options[w]) /\ options[w] \in Seq(OptionRows)
  BY <1>0, OptionFacts DEF WorkInv
<1>4. r \in WorkshopRows /\ r.state = "failed"
  <2>1. ErrorCode[calls[n].result] \in Outcomes
    BY <1>0 DEF CallFits, Results, ErrorCode, Outcomes
  <2>. QED
    BY <1>3, <2>1 DEF WorkshopRows, States
<1>. HIDE DEF w, r
<1>5. options' = [options EXCEPT ![w] = options[w]] /\ Standing(r.state, options[w])
  <2>1. options' = [options EXCEPT ![w] = options[w]]
    BY <1>2 DEF WorkInv
  <2>2. Standing(r.state, options[w])
    BY <1>1, <1>3, <1>4 DEF Standing
  <2>. QED
    BY <2>1, <2>2
<1>6. /\ calls' \in Seq(CallRows) /\ Len(calls') <= MaxCalls /\ InTurn'
      /\ \A m \in 1 .. Len(calls') : CallFits(calls'[m]) /\ Awaits(m)'
  BY <1>0, <1>2, <1>4, Finishes DEF w
<1>7. row[w].state \notin {"chosen", "failed"} /\ UNCHANGED harm
  BY <1>1, <1>2
<1>. QED
  BY <1>0, <1>2, <1>3, <1>4, <1>5, <1>6, <1>7, WorkshopMoves

LEMMA WorkshopSteps ==
  ASSUME WorkInv, [WorkshopNext]_workshopVars
  PROVE  /\ WorkInv'
         /\ \A v \in Workshops : row[v].state \in {"chosen", "failed"} =>
              row'[v] = row[v] /\ options'[v] = options[v]
<1>0. DOMAIN calls = 1 .. Len(calls)
  BY CallFacts
<1>1. CASE \E w \in Workshops, u \in Users : Create(w, u)
  BY <1>1, CreateHolds
<1>2. CASE \E w \in Workshops, u \in Users :
             \E base \in LiveOptions(w) \cup {Merge}, note \in Notes : Refine(w, u, base, note)
  BY <1>2, RefineHolds
<1>3. CASE \E w \in Workshops, u \in Users :
             \E i \in DOMAIN options[w], edited \in BOOLEAN : Choose(w, u, i, edited)
  BY <1>3, ChooseHolds
<1>4. ASSUME NEW n \in 1 .. Len(calls), ThreadStep(n) \/ Submit(n) \/ ChildEnds(n) \/ WriteLost(n)
      PROVE  /\ WorkInv'
             /\ \A v \in Workshops : row[v].state \in {"chosen", "failed"} =>
                  row'[v] = row[v] /\ options'[v] = options[v]
  <2>1. CASE Store(n)
    BY <2>1, StoreHolds
  <2>2. CASE Fail(n)
    BY <2>2, FailHolds
  <2>3. CASE StartCall(n) \/ Submit(n) \/ RunnerReturns(n) \/ RunnerKills(n) \/ RunnerTimesOut(n) \/ GivesUp(n)
               \/ ChildEnds(n) \/ WriteLost(n)
    BY <2>3, CallSteps
  <2>. QED
    BY <1>4, <2>1, <2>2, <2>3, Zenon DEF ThreadStep
<1>5. CASE WorkshopTick \/ ApiRestarts
  BY <1>5, AllCalls
<1>6. CASE UNCHANGED workshopVars
  <2>1. /\ row' = row /\ options' = options /\ calls' = calls /\ harm' = harm
    BY <1>6 DEF workshopVars
  <2>2. WorkInv'
    BY <2>1 DEF WorkInv, InTurn, Awaits, Open, Served
  <2>. QED
    BY <2>1, <2>2
<1>. QED
  BY <1>0, <1>1, <1>2, <1>3, <1>4, <1>5, <1>6, Zenon DEF WorkshopNext

(* One bounded call and one pair on offer, and endings that stand, for any
   workshops, any people, any timeouts and any number of calls and faults
   (services/workshop/service.py): neither _store nor a second refine asks
   for more than the row's state. *)
THEOREM WorkshopIsSafe == WorkshopSpec => WorkshopSafe
<1>1. WorkshopInit => WorkInv
  BY WorkshopStart
<1>2. WorkInv /\ [WorkshopNext]_workshopVars => WorkInv'
  BY WorkshopSteps
<1>3. WorkInv => WorkshopTypeOK /\ OneBoundedCall /\ PairOnOffer /\ AbandonedHoldsAnAnswer
  BY WorkshopHolds
<1>4. WorkInv /\ [WorkshopNext]_workshopVars =>
        [\A w \in Workshops : row[w].state \in {"chosen", "failed"} =>
           row'[w] = row[w] /\ options'[w] = options[w]]_workshopVars
  BY WorkshopSteps
<1>. QED
  BY <1>1, <1>2, <1>3, <1>4, PTL DEF WorkshopSpec, WorkshopSafe, EndingStands
=============================================================================
