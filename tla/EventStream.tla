----------------------------- MODULE EventStream -----------------------------
(***************************************************************************)
(* The path of a run's events from the transaction that writes them to the *)
(* page that shows them: the run_events table and its NOTIFY trigger, the  *)
(* API's one LISTEN connection and its fanout on the event loop            *)
(* (services/events/listener.py), the generator behind                     *)
(* GET /runs/{id}/events (services/events/stream.py) and the store of the  *)
(* page that reads it (frontend/src/store/runs.ts).                        *)
(*                                                                         *)
(* One run and one watching page.  A notification is only a doorbell: the  *)
(* event itself is always read from the table, so doorbells may be lost    *)
(* (the listener's connection drops, a slow stream's queue overflows) as   *)
(* long as another one rings later.  An event is its number; payloads,     *)
(* frames, heartbeats and tickets carry no state the properties see.       *)
(***************************************************************************)
EXTENDS Integers, Sequences, FiniteSets

CONSTANTS
  Writers,    \* transactions that may insert an event of this run
  MaxSeq,     \* bound: event numbers handed out
  Batch,      \* DEFAULT_BATCH_SIZE: rows a replay reads at once
  QueueSize,  \* DEFAULT_QUEUE_SIZE: doorbells a subscription holds
  MaxFaults   \* bound: lost connections, restarts, reloads

ASSUME EventStreamAssumption ==
  /\ MaxSeq \in Nat
  /\ Batch \in Nat \ {0}
  /\ QueueSize \in Nat \ {0}
  /\ MaxFaults \in Nat

\* The discipline store.py states: one writer of run_events per run.
OneWriter == \A v, w \in Writers : v = w

RESYNC == -1    \* rung instead of a number: re-read from where you are

VARIABLES
  next,       \* the sequence behind run_events.seq
  draft,      \* number each open transaction holds, 0 for none
  committed,  \* numbers of the rows anyone can read
  link,       \* the listening thread: "down", "listening" (LISTEN ran), "up"
  wire,       \* notifications sent to the connection, not yet read
  loop,       \* doorbells the thread handed to the event loop
  pc,         \* the stream: "none", "opening", "fetch", "more", "rest", "wait"
  last,       \* last_seq: the last event the stream sent
  page,       \* events it has read and not yet sent
  queue,      \* its subscription: doorbells in arrival order
  net,        \* frames on their way to the page
  shown,      \* entry.lastSeq, 0 for null
  detail,     \* newest event of a run detail on its way, 0 for none
  faults

database == <<next, draft, committed>>
listener == <<link, wire, loop>>
stream   == <<pc, last, page, queue>>
client   == <<net, shown, detail>>
vars     == <<database, listener, stream, client, faults>>

Seqs      == 1 .. MaxSeq
Doorbells == Seqs \cup {RESYNC}
StreamPc  == {"none", "opening", "fetch", "more", "rest", "wait"}

Init ==
  /\ next = 1 /\ draft = [w \in Writers |-> 0] /\ committed = {}
  /\ link = "down" /\ wire = <<>> /\ loop = <<>>
  /\ pc = "none" /\ last = 0 /\ page = {} /\ queue = <<>>
  /\ net = {} /\ shown = 0 /\ detail = 0
  /\ faults = 0

IsFirst(s, S) == s \in S /\ \A t \in S : s <= t
First(S, n)   == {s \in S : Cardinality({t \in S : t < s}) < n}

-----------------------------------------------------------------------------
(* The database.  The number is allocated at INSERT, the row is seen and   *)
(* its notification sent at COMMIT; a rolled-back number is never reused.  *)

Insert(w) ==
  /\ draft[w] = 0 /\ next <= MaxSeq
  /\ draft' = [draft EXCEPT ![w] = next]
  /\ next' = next + 1
  /\ UNCHANGED <<committed, listener, stream, client, faults>>

Commit(w) ==
  /\ draft[w] # 0
  /\ committed' = committed \cup {draft[w]}
  /\ wire' = IF link = "down" THEN wire ELSE Append(wire, draft[w])
  /\ draft' = [draft EXCEPT ![w] = 0]
  /\ UNCHANGED <<next, link, loop, stream, client, faults>>

Abort(w) ==
  /\ draft[w] # 0
  /\ draft' = [draft EXCEPT ![w] = 0]
  /\ UNCHANGED <<next, committed, listener, stream, client, faults>>

-----------------------------------------------------------------------------
(* The listening thread: connect and LISTEN, ask every subscriber to       *)
(* re-read, then hand each notification to the event loop.                 *)

Listen ==
  /\ link = "down"
  /\ link' = "listening"
  /\ UNCHANGED <<database, wire, loop, stream, client, faults>>

AnnounceSilently ==
  /\ link = "listening"
  /\ link' = "up"
  /\ UNCHANGED <<database, wire, loop, stream, client, faults>>

Announce ==
  /\ link = "listening"
  /\ link' = "up"
  /\ loop' = Append(loop, RESYNC)
  /\ UNCHANGED <<database, wire, stream, client, faults>>

Hear ==
  /\ link = "up" /\ wire # <<>>
  /\ loop' = Append(loop, Head(wire))
  /\ wire' = Tail(wire)
  /\ UNCHANGED <<database, link, stream, client, faults>>

RegisteredLate == pc = "wait"

(* The event loop: the doorbell goes to the subscription, if there is one. *)
Registered == pc \in {"fetch", "more", "rest", "wait"}

\* Subscription.offer: a full queue drops its oldest doorbell.
Offer(q, d) == IF Len(q) < QueueSize THEN Append(q, d) ELSE Append(Tail(q), d)

Dispatch ==
  /\ loop # <<>>
  /\ queue' = IF Registered THEN Offer(queue, Head(loop)) ELSE queue
  /\ loop' = Tail(loop)
  /\ UNCHANGED <<database, link, wire, pc, last, page, client, faults>>

-----------------------------------------------------------------------------
(* The stream: subscribe, replay from the number the page gave, go live.   *)

Open ==
  /\ pc = "none"
  /\ pc' = "opening"
  /\ last' = shown
  /\ UNCHANGED <<database, listener, page, queue, client, faults>>

Register ==
  /\ pc = "opening"
  /\ pc' = "fetch"
  /\ UNCHANGED <<database, listener, last, page, queue, client, faults>>

\* fetch_events_after: one page of what lies beyond `seq`, oldest first.
PageAfter(seq) == First({c \in committed : seq < c}, Batch)

\* _catch_up: a page read in full is followed by another, a short one by the
\* wait for a doorbell, once all of it is sent.
Turn(kind, left) ==
  IF left # {} THEN kind ELSE IF kind = "more" THEN "fetch" ELSE "wait"

Fetch ==
  /\ pc = "fetch"
  /\ page' = PageAfter(last)
  /\ pc' = Turn(IF Cardinality(page') < Batch THEN "rest" ELSE "more", page')
  /\ UNCHANGED <<database, listener, last, queue, client, faults>>

Send == \E s \in page :
  /\ IsFirst(s, page)
  /\ last' = s
  /\ page' = page \ {s}
  /\ pc' = Turn(pc, page')
  /\ net' = net \cup {s}
  /\ UNCHANGED <<database, listener, queue, shown, detail, faults>>

\* A doorbell the replay already covered is dropped; any other is answered.
Take ==
  /\ pc = "wait" /\ queue # <<>>
  /\ pc' = IF Head(queue) # RESYNC /\ Head(queue) <= last THEN "wait" ELSE "fetch"
  /\ queue' = Tail(queue)
  /\ UNCHANGED <<database, listener, last, page, client, faults>>

-----------------------------------------------------------------------------
(* The page.                                                               *)

ReceiveOverlap == \E s \in net :
  /\ IsFirst(s, net)
  /\ shown' = s
  /\ net' = net \ {s}
  /\ UNCHANGED <<database, listener, stream, detail, faults>>

\* handleStreamMessage: what is not beyond lastSeq is replay overlap.
Receive == \E s \in net :
  /\ IsFirst(s, net)
  /\ shown' = IF s <= shown THEN shown ELSE s
  /\ net' = net \ {s}
  /\ UNCHANGED <<database, listener, stream, detail, faults>>

\* GET /runs/{id} reads the recent events; applyDetail takes the newest as
\* lastSeq, but only while the page has none.  A detail read once the page
\* has one changes nothing, so only the others are modelled.
ReadDetail == \E d \in committed \ {detail} :
  /\ shown = 0
  /\ \A c \in committed : c <= d
  /\ detail' = d
  /\ UNCHANGED <<database, listener, stream, net, shown, faults>>

ApplyDetail ==
  /\ detail # 0
  /\ shown' = IF shown = 0 THEN detail ELSE shown
  /\ detail' = 0
  /\ UNCHANGED <<database, listener, stream, net, faults>>

-----------------------------------------------------------------------------
(* Faults: the database hangs up on the listener; the page loses its       *)
(* connection and what is on it; the API restarts; the page is reloaded.   *)

Hangup ==
  /\ pc' = "none" /\ last' = 0 /\ page' = {} /\ queue' = <<>>
  /\ net' = {}

LoseLink ==
  /\ faults < MaxFaults /\ link # "down"
  /\ link' = "down" /\ wire' = <<>>
  /\ faults' = faults + 1
  /\ UNCHANGED <<database, loop, stream, client>>

LoseStream ==
  /\ faults < MaxFaults /\ pc # "none"
  /\ Hangup
  /\ faults' = faults + 1
  /\ UNCHANGED <<database, listener, shown, detail>>

RestartApi ==
  /\ faults < MaxFaults
  /\ Hangup
  /\ link' = "down" /\ wire' = <<>> /\ loop' = <<>>
  /\ detail' = 0
  /\ faults' = faults + 1
  /\ UNCHANGED <<database, shown>>

Reload ==
  /\ faults < MaxFaults
  /\ Hangup
  /\ shown' = 0 /\ detail' = 0
  /\ faults' = faults + 1
  /\ UNCHANGED <<database, listener>>

-----------------------------------------------------------------------------
Next ==
  \/ \E w \in Writers : Insert(w) \/ Commit(w) \/ Abort(w)
  \/ Listen \/ Announce \/ Hear \/ Dispatch
  \/ Open \/ Register \/ Fetch \/ Send \/ Take
  \/ Receive \/ ReadDetail \/ ApplyDetail
  \/ LoseLink \/ LoseStream \/ RestartApi \/ Reload

Spec == Init /\ [][Next]_vars

\* Threads, the event loop and the page's reconnect timer keep running;
\* nobody has to write an event, and no fault has to happen.
FairSpec ==
  /\ Spec
  /\ WF_vars(Listen) /\ WF_vars(Announce) /\ WF_vars(Hear) /\ WF_vars(Dispatch)
  /\ WF_vars(Open) /\ WF_vars(Register) /\ WF_vars(Fetch) /\ WF_vars(Send)
  /\ WF_vars(Take) /\ WF_vars(Receive)

-----------------------------------------------------------------------------
TypeOK ==
  /\ next \in 1 .. (MaxSeq + 1)
  /\ draft \in [Writers -> 0 .. MaxSeq]
  /\ committed \subseteq Seqs
  /\ link \in {"down", "listening", "up"}
  /\ wire \in Seq(Seqs) /\ loop \in Seq(Doorbells)
  /\ pc \in StreamPc /\ last \in 0 .. MaxSeq /\ page \subseteq Seqs
  /\ queue \in Seq(Doorbells) /\ Len(queue) <= QueueSize
  /\ net \subseteq Seqs /\ shown \in 0 .. MaxSeq /\ detail \in 0 .. MaxSeq
  /\ faults \in 0 .. MaxFaults

\* Replay and live delivery leave no hole: every event the stream has passed
\* is with the page or on its way to it, and a page of the replay holds
\* everything the table had below its own newest row (run_event_stream, "with
\* nothing lost between"; it would break with two writers, as store.py says).
Unbroken ==
  /\ pc # "none" => \A c \in committed : shown < c /\ c <= last => c \in net
  /\ \A p \in page, c \in committed : last < c /\ c <= p => c \in page

\* A doorbell still on its way will make the stream read event c.
Rings(c) == \E bells \in {wire, loop, queue} : \E i \in DOMAIN bells :
              bells[i] = RESYNC \/ c <= bells[i]

\* No wake-up is lost: once the stream has done its last read, an event it
\* has not read has a doorbell on its way, or the listener has yet to come
\* back and ring for everybody (listener.subscribe: "a degraded listener
\* costs live latency, never an event"; offer may drop the oldest doorbell).
NoLostDoorbell ==
  pc \in {"rest", "wait"} /\ link = "up" =>
    \A c \in committed : last < c /\ c \notin page => Rings(c)

\* Neither an event nor a wake-up is lost on the way.
NothingLost == TypeOK /\ Unbroken /\ NoLostDoorbell

\* The page shows the log in order, without holes or repeats (EventFeed).
Feed == INSTANCE EventFeed WITH log <- committed
FeedsInOrder == Feed!Spec

\* Every event that was written is shown, however often the connections in
\* between were lost, once they stop being lost.
EveryEventArrives ==
  \A c \in Seqs : (c \in committed) ~> (c <= shown)
==============================================================================
