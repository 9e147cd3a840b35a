------------------------------- MODULE RunPage -------------------------------
(***************************************************************************)
(* The page of one run (store/runs.ts) and what it is built from: the      *)
(* detail, which the API reads in several statements of one READ COMMITTED *)
(* transaction (store.snapshot), the events of its stream, and the poll of *)
(* the top bar, which knows the run's lifecycle and nothing else.          *)
(*                                                                         *)
(* The engine writes a step's rows, then its event.  The page fetches the  *)
(* detail again after events, a second apart at most or at once; it closes *)
(* its stream when the lifecycle it shows is over, and first waits a while *)
(* for the closing event.  EventStream shows how frames arrive: here they  *)
(* come in order from where the page says it stands.  A snapshot is two    *)
(* reads, its rows and then its events; a step is its number.              *)
(***************************************************************************)
EXTENDS Integers, Sequences, FiniteSetsExt

CONSTANTS
  Stories,      \* what may become of the run: sequences of [event, life]
  MaxInFlight,  \* bound: requests of the detail on their way
  MaxVisits,    \* bound: times the page is opened
  MaxFailures   \* bound: requests that fail

\* The passes of a run do not overlap in its events: after its closing event a
\* run ends again only once it was set running (_finish, run_orchestrator).
ASSUME RunPageAssumption ==
  \A s \in Stories :
    /\ s \in Seq([event : STRING, life : STRING])
    /\ \A i \in DOMAIN s : s[i].event = "run_finished" => s[i].life \notin {"running", "paused"}
    /\ \A i, j \in DOMAIN s :
         /\ i < j /\ s[i].event = "run_finished"
         /\ s[j].event = "lifecycle_changed" /\ s[j].life \notin {"running", "paused"}
         => \E k \in (i + 1) .. (j - 1) : s[k].event = "lifecycle_changed" /\ s[k].life = "running"

Forced  == {"lifecycle_changed", "round_completed", "run_finished"}
Closing == {"run_finished"}
Active  == {"running", "paused"}

VARIABLES
  story,    \* this run's steps
  rows,     \* steps whose rows are committed
  said,     \* steps whose event is
  gets,     \* requests of the detail on their way: rows and events read, -1 for not yet
  entry,    \* the page's store: rows it shows, step of its lifecycle, lastSeq, -1 for none
  status,   \* entry.status
  viewing,  \* the page is open
  sub,      \* its stream is
  cursor,   \* the last event that stream has carried
  timer,    \* a refetch is scheduled
  drain,    \* the stream is held for the closing event
  poll,     \* step whose lifecycle the top bar's answer carries, -1 for none on its way
  missed,   \* history: how the page came to miss something
  visits, failures

server   == <<story, rows, said>>
bounds   == <<visits, failures>>
held     == <<sub, cursor, timer, drain>>
pageVars == <<server, gets, entry, status, viewing, held, poll, missed, bounds>>

Unloaded == [rows |-> -1, since |-> -1, seq |-> -1, elapsed |-> 0]

RunPageInit ==
  /\ story \in Stories /\ rows \in 0 .. Len(story) /\ said = rows
  /\ gets = {} /\ entry = Unloaded /\ status = "idle"
  /\ viewing = FALSE /\ sub = FALSE /\ cursor = 0 /\ timer = FALSE /\ drain = FALSE
  /\ poll = -1 /\ missed = {} /\ visits = 0 /\ failures \in 0 .. MaxFailures

\* The newest step up to k that set the lifecycle, 0 when none did.
LifeStep(k) == Max({0} \cup {i \in 1 .. k : story[i].event = "lifecycle_changed"})
Live(k)     == k = 0 \/ (k > 0 /\ story[k].life \in Active)
IsActive    == Live(entry.since)
Says(k, S)  == k > 0 /\ story[k].event \in S

\* elapsed_seconds over the events read: the finish it counts to, unless the
\* run went on after it or the row read says another lifecycle.
Elapsed(r, u) ==
  LET restarts == {i \in 1 .. u : story[i].event = "lifecycle_changed" /\ story[i].life = "running"}
      finish   == Max({0} \cup {i \in 1 .. u : Says(i, Closing)})
      life     == LifeStep(r)
  IN IF finish # 0 /\ (\A i \in restarts : i < finish)
          /\ life # 0 /\ story[life].life = story[finish].life
     THEN finish ELSE 0

-----------------------------------------------------------------------------
(* The engine *)

Write ==
  /\ rows = said /\ rows < Len(story)
  /\ rows' = rows + 1
  /\ UNCHANGED <<story, said, gets, entry, status, viewing, held, poll, missed, bounds>>

Say ==
  /\ said < rows
  /\ said' = said + 1
  /\ UNCHANGED <<story, rows, gets, entry, status, viewing, held, poll, missed, bounds>>

-----------------------------------------------------------------------------
(* The detail *)

Request == [current |-> TRUE, rows |-> -1, upto |-> -1]
Older(S) == {[q EXCEPT !.current = FALSE] : q \in S}
Stale   == {"torn", "failed", "left"}    \* what a newer request makes up for

\* refreshRunDetail: the newest request is the only one whose answer counts.
Refresh ==
  /\ Cardinality(gets) < MaxInFlight
  /\ gets' = Older(gets) \cup {Request}
  /\ missed' = missed \ Stale

ReadRows(q) ==
  /\ q.rows = -1
  /\ gets' = (gets \ {q}) \cup {[q EXCEPT !.rows = rows]}
  /\ UNCHANGED <<server, entry, status, viewing, held, poll, missed, bounds>>

ReadEvents(q) ==
  /\ q.rows # -1 /\ q.upto = -1
  /\ gets' = (gets \ {q}) \cup {[q EXCEPT !.upto = said]}
  /\ UNCHANGED <<server, entry, status, viewing, held, poll, missed, bounds>>

\* applyDetail: its events only place a page that has none, and a lifecycle that
\* ended holds the stream unless a closing event is already on the page.
ShowDetail(q) ==
  LET seq   == IF entry.seq = -1 /\ q.upto > 0 THEN q.upto ELSE entry.seq
      ended == LifeStep(q.rows) # entry.since /\ ~Live(LifeStep(q.rows))
      holds == IsActive /\ \A i \in 1 .. seq : ~Says(i, Closing)
  IN /\ entry' = [rows |-> q.rows, since |-> LifeStep(q.rows), seq |-> seq,
                  elapsed |-> Elapsed(q.rows, q.upto)]
     /\ status' = "ready"
     /\ drain' = (drain \/ (ended /\ holds))
     /\ missed' = (missed \cup (IF seq # entry.seq /\ seq > q.rows THEN {"torn"} ELSE {}))
                    \cup (IF sub /\ ended /\ ~holds THEN {"again"} ELSE {})

AnswerAnyRequest(q) ==
  /\ q.upto # -1
  /\ gets' = gets \ {q}
  /\ ShowDetail(q)
  /\ UNCHANGED <<server, viewing, sub, cursor, timer, poll, bounds>>

Answer(q) ==
  /\ q.upto # -1
  /\ gets' = gets \ {q}
  /\ IF q.current THEN ShowDetail(q) ELSE UNCHANGED <<entry, status, drain, missed>>
  /\ UNCHANGED <<server, viewing, sub, cursor, timer, poll, bounds>>

RequestFails(q) ==
  /\ failures < MaxFailures
  /\ failures' = failures + 1
  /\ gets' = gets \ {q}
  /\ IF q.current
     THEN /\ status' = IF entry.rows # -1 THEN "ready" ELSE "error"
          /\ missed' = missed \cup {"failed"}
     ELSE UNCHANGED <<status, missed>>
  /\ UNCHANGED <<server, entry, viewing, held, poll, visits>>

-----------------------------------------------------------------------------
(* The page *)

\* ensureRunDetail
Ensure ==
  IF status \in {"loading", "ready"}
  THEN UNCHANGED <<gets, status, missed>>
  ELSE /\ Refresh
       /\ status' = IF status = "idle" THEN "loading" ELSE status

Visit ==
  /\ ~viewing /\ visits < MaxVisits
  /\ viewing' = TRUE /\ visits' = visits + 1
  /\ Ensure
  /\ UNCHANGED <<server, entry, held, poll, failures>>

\* The button of the error page.
Retry ==
  /\ viewing /\ status = "error" /\ entry.since = -1
  /\ Refresh
  /\ UNCHANGED <<server, entry, status, viewing, held, poll, bounds>>

\* closeStream
Close ==
  /\ sub' = FALSE /\ cursor' = 0 /\ timer' = FALSE /\ drain' = FALSE
  /\ missed' = (missed \cap Stale) \cup (IF timer THEN {"left"} ELSE {})
  /\ UNCHANGED <<server, gets, entry, status, poll, bounds>>

Leave ==
  /\ viewing
  /\ viewing' = FALSE
  /\ IF sub THEN Close
     ELSE UNCHANGED <<server, gets, entry, status, held, poll, missed, bounds>>

\* RunDetailPage mounts the stream for a run that is live or owed its last word.
Listens == viewing /\ entry.since # -1 /\ (IsActive \/ drain)

Mount ==
  /\ Listens /\ ~sub
  /\ sub' = TRUE
  /\ cursor' = IF entry.seq = -1 THEN 0 ELSE entry.seq
  /\ UNCHANGED <<server, gets, entry, status, viewing, timer, drain, poll, missed, bounds>>

Unmount == viewing /\ sub /\ ~Listens /\ Close /\ UNCHANGED viewing

\* patchFromEvent: an event's lifecycle is the page's from then on.
Patched(k) == IF entry.since # -1 /\ Says(k, {"lifecycle_changed", "run_finished"})
              THEN LifeStep(k) ELSE entry.since

\* handleStreamMessage, for an event the page has not seen.
HandleMessage(k) ==
  /\ entry' = [entry EXCEPT !.seq = k, !.since = Patched(k)]
  /\ drain' = (~Says(k, Closing) /\ (drain \/ (IsActive /\ ~Live(Patched(k)))))
  /\ IF Says(k, Forced) THEN timer' = FALSE /\ Refresh
     ELSE timer' = TRUE /\ UNCHANGED <<gets, missed>>

Deliver ==
  /\ sub /\ cursor < said
  /\ cursor' = cursor + 1
  /\ IF cursor' <= entry.seq
     THEN UNCHANGED <<gets, entry, timer, drain, missed>>
     ELSE HandleMessage(cursor')
  /\ UNCHANGED <<server, status, viewing, sub, poll, bounds>>

\* The scheduled refetch.
Refetch ==
  /\ timer
  /\ timer' = FALSE
  /\ Refresh
  /\ UNCHANGED <<server, entry, status, viewing, sub, cursor, drain, poll, bounds>>

DrainExpires ==
  /\ drain
  /\ drain' = FALSE
  /\ missed' = missed \cup (IF sub THEN {"expired"} ELSE {})
  /\ UNCHANGED <<server, gets, entry, status, viewing, sub, cursor, timer, poll, bounds>>

-----------------------------------------------------------------------------
(* The top bar asks for the runs every half minute, and sets the summary. *)

PollReads ==
  /\ poll = -1
  /\ poll' = LifeStep(rows)
  /\ UNCHANGED <<server, gets, entry, status, viewing, held, missed, bounds>>

PollAnswers ==
  /\ poll # -1
  /\ poll' = -1
  /\ entry' = [entry EXCEPT !.since = poll]
  /\ missed' = missed \cup (IF sub /\ entry.since # poll /\ ~Live(poll) THEN {"polled"} ELSE {})
  /\ UNCHANGED <<server, gets, status, viewing, held, bounds>>

-----------------------------------------------------------------------------
RunPageNext ==
  \/ Write \/ Say
  \/ \E q \in gets : ReadRows(q) \/ ReadEvents(q) \/ Answer(q) \/ RequestFails(q)
  \/ Visit \/ Retry \/ Leave \/ Mount \/ Unmount
  \/ Deliver \/ Refetch \/ DrainExpires
  \/ PollReads \/ PollAnswers

RunPageSpec == RunPageInit /\ [][RunPageNext]_pageVars

-----------------------------------------------------------------------------
(* Properties *)

\* Every variable keeps the shape store/runs.ts and store.snapshot give it.
RunPageTypeOK ==
  /\ story \in Stories /\ rows \in 0 .. Len(story) /\ said \in {rows, rows - 1} /\ said >= 0
  /\ entry \in [rows : -1 .. rows, since : -1 .. rows, seq : -1 .. said, elapsed : 0 .. rows]
  /\ \A q \in gets : q.rows \in -1 .. rows /\ q.upto \in -1 .. said /\ q.current \in BOOLEAN
  /\ status \in {"idle", "loading", "ready", "error"}
  /\ {viewing, sub, timer, drain} \subseteq BOOLEAN
  /\ cursor \in 0 .. said /\ poll \in -1 .. rows
  /\ missed \subseteq Stale \cup {"expired", "polled", "again"}

\* A page never goes back to an older state of the run: two details on their
\* way may be answered in either order (refreshRunDetail's detailRequests).
PageNeverGoesBack == [][entry'.rows >= entry.rows]_pageVars

\* No refresh is lost: while a page listens and shows older rows than the run
\* has, an event is still to be said or carried, a refetch is armed, or the
\* newest request will bring the run as it is (scheduleDetailRefetch,
\* refetchDetailNow).  Except for a first detail that read events past its
\* rows, a newest request that failed, and a page left with a refetch armed.
RefreshIsOwed ==
  sub /\ missed \cap Stale = {} /\ entry.rows # rows =>
    \/ said < rows \/ cursor < said \/ timer
    \/ \E q \in gets : q.current /\ q.rows \in {-1, rows}

\* An open page hangs up on a run that ended only after the closing event of
\* that ending (armDrain: "long enough to hear it"), unless the hold ran out,
\* the poll said it first, or an earlier pass had closed on this page.
HearsTheClosing ==
  [][sub /\ ~sub' /\ viewing' /\ missed \subseteq Stale
       => \E k \in 1 .. entry.seq : k > entry.since /\ Says(k, Closing)]_pageVars

\* The time a page counts a run's work to is the end of the pass it shows, however
\* the snapshot's statements fell around a continue (elapsed_seconds).
ElapsedOfThisPass == entry.elapsed # 0 => entry.elapsed > LifeStep(entry.rows)

\* A page shows newer and newer states of the run, asks for the next one as long
\* as there is one, and stays for the last word.
PageSafe ==
  [](RunPageTypeOK /\ RefreshIsOwed /\ ElapsedOfThisPass) /\ PageNeverGoesBack /\ HearsTheClosing
=============================================================================
