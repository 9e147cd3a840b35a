------------------------------ MODULE Workshop ------------------------------
(***************************************************************************)
(* The question workshop: a row, the options offered on it, and the call   *)
(* threads that answer it.  A scientist creates a workshop, refines its    *)
(* pair of options or chooses one; each create and each refine starts one  *)
(* thread with one bounded model call, and that thread alone writes how    *)
(* the call came out.  Nothing else looks after it: no request waits for   *)
(* it, no read repairs it, and a restart of the API takes it away.         *)
(*                                                                         *)
(* A call is followed from the transaction that accepted the request.  Its *)
(* age is its clock.  The runner has the same Timeout as the service, but  *)
(* an answer submitted moves the runner's deadline (RoleCall.Deadline) and *)
(* not the service's, which gives up Slack later and only cancels.         *)
(***************************************************************************)
EXTENDS Integers, Sequences, FiniteSets

CONSTANTS
  Workshops,      \* workshops that may be opened
  Users,          \* people who use them
  Admins,         \* those who see everybody's
  Notes,          \* what may be written to a refine; "" among them
  Timeout,        \* WORKSHOP_TIMEOUT_S
  Slack,          \* _TIMEOUT_GRACE_S, capped by a tenth of the timeout
  AnswerGrace,    \* what the runner allows a call after an answer
  MaxCalls,       \* bound: calls ever started
  MaxFaults       \* bound: restarts of the API and transactions lost

ASSUME WorkshopAssumption ==
  /\ Admins \subseteq Users /\ "" \in Notes
  /\ Slack \in Nat \ {0}    \* _deadline: a tenth of the timeout at most, and never nothing
  /\ Timeout \in Nat /\ AnswerGrace \in Nat /\ MaxCalls \in Nat /\ MaxFaults \in Nat

VARIABLES
  row,        \* workshop -> state, owner, error
  options,    \* workshop -> the options ever offered on it, by ordinal
  calls,      \* every call, in the order accepted
  harm        \* bound: faults so far

workshopVars == <<row, options, calls, harm>>

OptionsPerRound == 2
Merge == 0                   \* the base of a refine that merges both
Outcomes == {"workshop_timeout", "workshop_failed", "workshop_call_failed", "contract_violation"}
States == {"none", "refining", "options_ready", "chosen", "failed"}
Results == {"options", "not_ok", "malformed", "raised", "timeout"}

Unopened == [state |-> "none", owner |-> "nobody", error |-> "none"]
Ids == 1 .. MaxCalls
Ages == 0 .. (Timeout + Slack)
NotYet == -1

WorkshopRows == [state : States, owner : Users \cup {"nobody"}, error : Outcomes \cup {"none"}]
OptionRows == [call : Ids, chosen : BOOLEAN, rejected : BOOLEAN, note : Notes, edited : BOOLEAN]
CallRows ==
  [w : Workshops, base : Nat, age : Ages, answered : Ages \cup {NotYet},
   pc : {"accepted", "calling", "killing", "writing", "over", "lost"},
   result : Results \cup {"none"}, child : {"none", "works", "gone"}]

WorkshopTypeOK ==
  /\ row \in [Workshops -> WorkshopRows]
  /\ \A w \in Workshops : \A i \in DOMAIN options[w] : options[w][i] \in OptionRows
  /\ Len(calls) <= MaxCalls
  /\ \A n \in DOMAIN calls :
       calls[n] \in CallRows
  /\ harm \in 0 .. MaxFaults

----------------------------------------------------------------------------
(* Helpers *)

Visible(u, w) == row[w].state # "none" /\ (u \in Admins \/ row[w].owner = u)

\* A call that may yet write its workshop.
Open(n) == calls[n].pc \notin {"over", "lost"}

\* The options still on offer, by index.
LiveOptions(w) == {i \in DOMAIN options[w] : ~options[w][i].rejected /\ ~options[w][i].chosen}

\* The runner's deadline: its timeout, or a grace after the newest answer.
RunnerDeadline(c) ==
  IF c.answered = NotYet \/ c.answered + AnswerGrace < Timeout THEN Timeout ELSE c.answered + AnswerGrace

ServiceDeadline == Timeout + Slack

NewCall(w, base) ==
  [w |-> w, base |-> base, age |-> 0, answered |-> NotYet,
   pc |-> "accepted", result |-> "none", child |-> "none"]

RowIs(w, state, error) == row' = [row EXCEPT ![w] = [row[w] EXCEPT !.state = state, !.error = error]]
CallIs(n, c) == calls' = [calls EXCEPT ![n] = c]

Accept(w, base) ==
  /\ Len(calls) < MaxCalls
  /\ calls' = Append(calls, NewCall(w, base))

WorkshopInit ==
  /\ row = [w \in Workshops |-> Unopened]
  /\ options = [w \in Workshops |-> <<>>]
  /\ calls = <<>>
  /\ harm = 0

----------------------------------------------------------------------------
(* Commands: one transaction each, then the call's thread is started *)

Create(w, u) ==
  /\ row[w].state = "none"
  /\ row' = [row EXCEPT ![w] = [state |-> "refining", owner |-> u, error |-> "none"]]
  /\ Accept(w, Merge)
  /\ UNCHANGED <<options, harm>>

(* Mutant: a workshop still waiting for its pair may be asked again. *)
MayRefineEarly(w) == row[w].state \in {"refining", "options_ready"}
MayRefine(w) == row[w].state = "options_ready"

\* The live options are rejected, all of them, with the note given if one was.
Reject(w, base, note) ==
  [options EXCEPT ![w] = [i \in DOMAIN options[w] |->
     IF i \in LiveOptions(w)
     THEN [options[w][i] EXCEPT !.rejected = TRUE, !.note = IF note # "" THEN note ELSE options[w][i].note]
     ELSE options[w][i]]]

Refine(w, u, base, note) ==
  /\ Visible(u, w) /\ MayRefine(w)
  /\ base \in LiveOptions(w) \cup {Merge}
  /\ options' = Reject(w, base, note)
  /\ RowIs(w, "refining", "none")
  /\ Accept(w, base)
  /\ UNCHANGED harm

Choose(w, u, i, edited) ==
  /\ Visible(u, w) /\ row[w].state = "options_ready"
  /\ i \in DOMAIN options[w] /\ ~options[w][i].rejected
  /\ options' = [options EXCEPT ![w] = [options[w] EXCEPT ![i] =
                  [options[w][i] EXCEPT !.chosen = TRUE, !.edited = edited]]]
  /\ RowIs(w, "chosen", row[w].error)
  /\ UNCHANGED <<calls, harm>>

\* Between the commit and this, the answer to the request is read back.
StartCall(n) ==
  /\ calls[n].pc = "accepted"
  /\ CallIs(n, [calls[n] EXCEPT !.pc = "calling", !.child = "works"])
  /\ UNCHANGED <<row, options, harm>>

----------------------------------------------------------------------------
(* The call *)

\* The thread has something to write.
Came(n, result, child) ==
  CallIs(n, [calls[n] EXCEPT !.pc = "writing", !.result = result, !.child = child])

\* The model submits an answer; it may go on and submit another.
Submit(n) ==
  /\ calls[n].pc = "calling"
  /\ CallIs(n, [calls[n] EXCEPT !.answered = calls[n].age])
  /\ UNCHANGED <<row, options, harm>>

\* The child ends by itself, or could not be started: whatever it said.
RunnerReturns(n) ==
  /\ calls[n].pc = "calling"
  /\ \E result \in Results \ {"timeout"} :
       /\ result = "options" => calls[n].answered # NotYet
       /\ Came(n, result, "gone")
  /\ UNCHANGED <<row, options, harm>>

\* The runner's own deadline: it kills the tree, which takes a while.
RunnerKills(n) ==
  /\ calls[n].pc = "calling" /\ calls[n].age >= RunnerDeadline(calls[n])
  /\ CallIs(n, [calls[n] EXCEPT !.pc = "killing", !.child = "gone"])
  /\ UNCHANGED <<row, options, harm>>

\* ... and answers with what it salvaged.
RunnerTimesOut(n) ==
  /\ calls[n].pc = "killing"
  /\ \E result \in {"options", "malformed", "not_ok"} :
       /\ (result = "not_ok") = (calls[n].answered = NotYet)
       /\ Came(n, result, "gone")
  /\ UNCHANGED <<row, options, harm>>

(* asyncio.wait_for cancels run_role, and a runner that is cancelled does not
   kill its child: it ends by itself, or with the event loop's transport. *)
GivesUp(n) ==
  /\ calls[n].pc \in {"calling", "killing"} /\ calls[n].age >= ServiceDeadline
  /\ Came(n, "timeout", calls[n].child)
  /\ UNCHANGED <<row, options, harm>>

\* A child nobody reads ends some day.
ChildEnds(n) ==
  /\ calls[n].child = "works" /\ calls[n].pc \in {"writing", "over", "lost"}
  /\ CallIs(n, [calls[n] EXCEPT !.child = "gone"])
  /\ UNCHANGED <<row, options, harm>>

----------------------------------------------------------------------------
(* The outcome: one transaction of the thread *)

Offer(n) == [i \in 1 .. OptionsPerRound |->
  [call |-> n, chosen |-> FALSE, rejected |-> FALSE, note |-> "", edited |-> FALSE]]

\* _store: it asks for the row and not for its state.
Store(n) ==
  LET w == calls[n].w
  IN /\ calls[n].pc = "writing" /\ calls[n].result = "options"
     /\ options' = [options EXCEPT ![w] = @ \o Offer(n)]
     /\ RowIs(w, "options_ready", "none")
     /\ CallIs(n, [calls[n] EXCEPT !.pc = "over"])
     /\ UNCHANGED harm

\* What each result but a pair is recorded as.
ErrorCode ==
  [timeout |-> "workshop_timeout", raised |-> "workshop_failed",
   not_ok |-> "workshop_call_failed", malformed |-> "contract_violation"]

\* Mutant: nothing is written for a call that raised.
FailSilently(n) ==
  LET w == calls[n].w
  IN /\ calls[n].pc = "writing" /\ calls[n].result # "options"
     /\ IF row[w].state # "refining" \/ calls[n].result = "raised" THEN UNCHANGED row
        ELSE RowIs(w, "failed", ErrorCode[calls[n].result])
     /\ CallIs(n, [calls[n] EXCEPT !.pc = "over"])
     /\ UNCHANGED <<options, harm>>
\* _fail: only a workshop still refining.
Fail(n) ==
  LET w == calls[n].w
  IN /\ calls[n].pc = "writing" /\ calls[n].result # "options"
     /\ IF row[w].state # "refining" THEN UNCHANGED row
        ELSE RowIs(w, "failed", ErrorCode[calls[n].result])
     /\ CallIs(n, [calls[n] EXCEPT !.pc = "over"])
     /\ UNCHANGED <<options, harm>>

----------------------------------------------------------------------------
(* Faults *)

Hurt == harm < MaxFaults /\ harm' = harm + 1

\* The thread's transaction fails, or the request's read-back before the thread exists.
WriteLost(n) ==
  /\ Hurt /\ calls[n].pc \in {"accepted", "writing"}
  /\ CallIs(n, [calls[n] EXCEPT !.pc = "lost"])
  /\ UNCHANGED <<row, options>>

\* The API process ends; its threads are daemons, their children are not.
ApiRestarts ==
  /\ Hurt /\ \E n \in DOMAIN calls : Open(n)
  /\ calls' = [n \in DOMAIN calls |-> IF Open(n) THEN [calls[n] EXCEPT !.pc = "lost"] ELSE calls[n]]
  /\ UNCHANGED <<row, options>>

\* Time passes for every call under way, and stops for none at its deadline.
WorkshopTick ==
  LET clocked(n) == calls[n].pc \in {"calling", "killing"}
  IN /\ \E n \in DOMAIN calls : clocked(n)
     /\ \A n \in DOMAIN calls :
          clocked(n) => /\ calls[n].age < ServiceDeadline
                        /\ calls[n].pc = "calling" => calls[n].age < RunnerDeadline(calls[n])
     /\ calls' = [n \in DOMAIN calls |->
                    IF clocked(n) THEN [calls[n] EXCEPT !.age = @ + 1] ELSE calls[n]]
     /\ UNCHANGED <<row, options, harm>>

ThreadStep(n) == StartCall(n) \/ RunnerReturns(n) \/ RunnerKills(n) \/ RunnerTimesOut(n)
                   \/ GivesUp(n) \/ Store(n) \/ Fail(n)

WorkshopNext ==
  \/ \E w \in Workshops, u \in Users :
       \/ Create(w, u)
       \/ \E base \in LiveOptions(w) \cup {Merge}, note \in Notes : Refine(w, u, base, note)
       \/ \E i \in DOMAIN options[w], edited \in BOOLEAN : Choose(w, u, i, edited)
  \/ \E n \in DOMAIN calls : ThreadStep(n) \/ Submit(n) \/ ChildEnds(n) \/ WriteLost(n)
  \/ ApiRestarts
  \/ WorkshopTick

(* A thread runs, and its call's clock runs; the model may submit for ever,
   the service's deadline stands. *)
WorkshopFairness ==
  /\ \A n \in Ids : WF_workshopVars(n \in DOMAIN calls /\ ThreadStep(n))
  /\ WF_workshopVars(WorkshopTick)

WorkshopSpec == WorkshopInit /\ [][WorkshopNext]_workshopVars /\ WorkshopFairness

----------------------------------------------------------------------------
(* Properties *)

(* One bounded call at a time: a workshop with a call that may still write is
   waiting for it, has no other, and no child of an earlier call still spends
   beside it.  Neither Store nor a second refine asks for this; the state the
   row was left in is all that provides it. *)
OneBoundedCall ==
  \A n \in DOMAIN calls :
    /\ Open(n) => row[calls[n].w].state = "refining"
    /\ \A m \in DOMAIN calls \ {n} :
         calls[m].w = calls[n].w => /\ ~(Open(n) /\ Open(m))
                                    /\ ~(calls[n].child = "works" /\ calls[m].child = "works")

(* What is on offer is the pair of the newest answered call, whole, or the
   option chosen from it and the other; everything older was rejected. *)
PairOnOffer ==
  \A w \in Workshops :
    LET stands == {i \in DOMAIN options[w] : ~options[w][i].rejected}
        total  == Len(options[w])
    IN /\ row[w].state \in {"options_ready", "chosen"} => stands = {total - 1, total}
       /\ row[w].state \in {"none", "refining", "failed"} => stands = {}
       /\ Cardinality({i \in DOMAIN options[w] : options[w][i].chosen})
            = IF row[w].state = "chosen" THEN 1 ELSE 0

(* An ending stands: whatever a late thread writes, a workshop chosen from or
   failed is never changed again, nor are its options. *)
EndingStands ==
  [][\A w \in Workshops : row[w].state \in {"chosen", "failed"} =>
       row'[w] = row[w] /\ options'[w] = options[w]]_workshopVars

(* A call is given up with its child running only when the runner had moved
   its own deadline for an answer: the runner's kill comes first otherwise. *)
AbandonedHoldsAnAnswer ==
  \A n \in DOMAIN calls :
    calls[n].result = "timeout" /\ calls[n].child = "works" => calls[n].answered # NotYet

(* Every call is answered for, unless the API was restarted or a transaction
   lost: a workshop does not stay refining. *)
WorkshopAnswered ==
  \A w \in Workshops : row[w].state = "refining" ~> (row[w].state # "refining" \/ harm > 0)

(* One bounded call and one pair on offer, whatever threads, refines and
   restarts race for the row; and what is settled stays so. *)
WorkshopSafe ==
  [](WorkshopTypeOK /\ OneBoundedCall /\ PairOnOffer /\ AbandonedHoldsAnAnswer) /\ EndingStands
=============================================================================
