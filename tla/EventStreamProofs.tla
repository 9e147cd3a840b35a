-------------------------- MODULE EventStreamProofs --------------------------
(***************************************************************************)
(* Proofs about EventStream for any number of events, any size of replay   *)
(* page and of subscription queue, and any number of faults.  What depends *)
(* on the discipline of a single writer says so: OneWriter is a hypothesis *)
(* of those theorems and of nothing else.  Then about RunPage, for any     *)
(* story of a run and any number of requests, visits and failures.         *)
(***************************************************************************)
EXTENDS EventStream, RunPage, FiniteSetTheorems, SequenceTheorems,
        WellFoundedInduction, TLAPS

USE EventStreamAssumption

LEMMA AppendType == ASSUME NEW S, NEW q \in Seq(S), NEW d \in S
                    PROVE  Append(q, d) \in Seq(S) /\ Len(Append(q, d)) = Len(q) + 1
OBVIOUS

LEMMA TailType == ASSUME NEW S, NEW q \in Seq(S), q # <<>>
                  PROVE  /\ Head(q) \in S /\ Tail(q) \in Seq(S)
                         /\ Len(Tail(q)) = Len(q) - 1 /\ Len(q) \in Nat \ {0}
OBVIOUS

LEMMA OfferType ==
  ASSUME NEW q \in Seq(Doorbells), Len(q) <= QueueSize, NEW d \in Doorbells
  PROVE  Offer(q, d) \in Seq(Doorbells) /\ Len(Offer(q, d)) <= QueueSize
<1>1. CASE Len(q) < QueueSize
  BY <1>1, AppendType DEF Offer
<1>2. CASE ~(Len(q) < QueueSize)
  <2>1. q # <<>>
    BY <1>2
  <2>2. Tail(q) \in Seq(Doorbells) /\ Len(Tail(q)) = Len(q) - 1
    BY <2>1, TailType
  <2>3. Append(Tail(q), d) \in Seq(Doorbells) /\ Len(Append(Tail(q), d)) = Len(q)
    BY <2>2, AppendType
  <2>4. QED
    BY <1>2, <2>3 DEF Offer
<1>3. QED
  BY <1>1, <1>2

LEMMA TurnType ==
  ASSUME NEW kind \in {"more", "rest"}, NEW left
  PROVE  /\ Turn(kind, left) \in {"fetch", "more", "rest", "wait"}
         /\ left # {} <=> Turn(kind, left) \in {"more", "rest"}
BY DEF Turn

THEOREM TypeInit == Init => TypeOK
BY DEF Init, TypeOK, StreamPc, Seqs, Doorbells

-----------------------------------------------------------------------------
(* TypeOK, part by part: each action keeps the variables of its own part.  *)

DatabaseOK == /\ next \in 1 .. (MaxSeq + 1) /\ draft \in [Writers -> 0 .. MaxSeq]
              /\ committed \subseteq Seqs
ListenerOK == /\ link \in {"down", "listening", "up"}
              /\ wire \in Seq(Seqs) /\ loop \in Seq(Doorbells)
StreamOK   == /\ pc \in StreamPc /\ last \in 0 .. MaxSeq /\ page \subseteq Seqs
              /\ queue \in Seq(Doorbells) /\ Len(queue) <= QueueSize
ClientOK   == net \subseteq Seqs /\ shown \in 0 .. MaxSeq /\ detail \in 0 .. MaxSeq
FaultsOK   == faults \in 0 .. MaxFaults

LEMMA TypeParts ==
  TypeOK <=> DatabaseOK /\ ListenerOK /\ StreamOK /\ ClientOK /\ FaultsOK
BY DEF TypeOK, DatabaseOK, ListenerOK, StreamOK, ClientOK, FaultsOK

LEMMA Unmoved ==
  /\ DatabaseOK /\ UNCHANGED database => DatabaseOK'
  /\ ListenerOK /\ UNCHANGED listener => ListenerOK'
  /\ StreamOK /\ UNCHANGED stream => StreamOK'
  /\ ClientOK /\ UNCHANGED client => ClientOK'
  /\ FaultsOK /\ UNCHANGED faults => FaultsOK'
BY DEF DatabaseOK, ListenerOK, StreamOK, ClientOK, FaultsOK, database, listener,
       stream, client

LEMMA HangupType == ASSUME Hangup PROVE StreamOK'
BY DEF Hangup, StreamOK, StreamPc

Typed == DatabaseOK /\ ListenerOK /\ StreamOK /\ ClientOK /\ FaultsOK

LEMMA TypeStep == TypeOK /\ [Next]_vars => TypeOK'
<1>. SUFFICES ASSUME Typed, [Next]_vars PROVE Typed'
  BY DEF TypeOK, Typed, DatabaseOK, ListenerOK, StreamOK, ClientOK, FaultsOK
<1>. USE DEF Typed
<1>0. DatabaseOK /\ ListenerOK /\ StreamOK /\ ClientOK /\ FaultsOK
  OBVIOUS
<1>1. ASSUME NEW w \in Writers, Insert(w) \/ Commit(w) \/ Abort(w) PROVE Typed'
  <2>1. DatabaseOK'
    <3>1. CASE Insert(w)
      BY <1>0, <3>1 DEF Insert, DatabaseOK
    <3>2. CASE Commit(w)
      <4>1. draft[w] \in Seqs /\ 0 \in 0 .. MaxSeq
        BY <1>0, <3>2 DEF Commit, DatabaseOK, Seqs
      <4>2. draft' \in [Writers -> 0 .. MaxSeq]
        BY <1>0, <3>2, <4>1 DEF Commit, DatabaseOK
      <4>3. QED
        BY <1>0, <3>2, <4>1, <4>2 DEF Commit, DatabaseOK
    <3>3. CASE Abort(w)
      BY <1>0, <3>3 DEF Abort, DatabaseOK
    <3>4. QED
      BY <1>1, <3>1, <3>2, <3>3
  <2>2. ListenerOK'
    <3>1. CASE UNCHANGED listener
      BY <1>0, <3>1, Unmoved
    <3>2. CASE Commit(w)
      <4>1. draft[w] \in Seqs
        BY <1>0, <3>2 DEF Commit, DatabaseOK, Seqs
      <4>2. Append(wire, draft[w]) \in Seq(Seqs)
        BY <1>0, <4>1, AppendType DEF ListenerOK
      <4>3. QED
        BY <1>0, <3>2, <4>2 DEF Commit, ListenerOK
    <3>3. QED
      BY <1>1, <3>1, <3>2 DEF Insert, Abort
  <2>3. UNCHANGED <<stream, client, faults>>
    BY <1>1 DEF Insert, Commit, Abort
  <2>4. QED
    BY <1>0, <2>1, <2>2, <2>3, Unmoved
<1>2. CASE Listen \/ Announce \/ Hear
  <2>1. ListenerOK'
    <3>1. CASE Listen
      BY <1>0, <3>1 DEF Listen, ListenerOK
    <3>2. CASE Announce
      <4>1. Append(loop, RESYNC) \in Seq(Doorbells)
        BY <1>0, AppendType DEF ListenerOK, Doorbells
      <4>2. QED
        BY <1>0, <3>2, <4>1 DEF Announce, ListenerOK
    <3>3. CASE Hear
      <4>1. Head(wire) \in Doorbells /\ Tail(wire) \in Seq(Seqs)
        BY <1>0, <3>3, TailType DEF Hear, ListenerOK, Doorbells
      <4>2. Append(loop, Head(wire)) \in Seq(Doorbells)
        BY <1>0, <4>1, AppendType DEF ListenerOK
      <4>3. QED
        BY <1>0, <3>3, <4>1, <4>2 DEF Hear, ListenerOK
    <3>4. QED
      BY <1>2, <3>1, <3>2, <3>3
  <2>2. UNCHANGED <<database, stream, client, faults>>
    BY <1>2 DEF Listen, Announce, Hear
  <2>3. QED
    BY <1>0, <2>1, <2>2, Unmoved
<1>3. CASE Dispatch
  <2>1. Head(loop) \in Doorbells /\ Tail(loop) \in Seq(Doorbells)
    BY <1>0, <1>3, TailType DEF Dispatch, ListenerOK
  <2>2. ListenerOK'
    BY <1>0, <1>3, <2>1 DEF Dispatch, ListenerOK
  <2>3. Offer(queue, Head(loop)) \in Seq(Doorbells) /\ Len(Offer(queue, Head(loop))) <= QueueSize
    BY <1>0, <2>1, OfferType DEF StreamOK
  <2>4. StreamOK'
    BY <1>0, <1>3, <2>3 DEF Dispatch, StreamOK
  <2>5. UNCHANGED <<database, client, faults>>
    BY <1>3 DEF Dispatch
  <2>6. QED
    BY <1>0, <2>2, <2>4, <2>5, Unmoved
<1>4. CASE Open \/ Register \/ Fetch \/ Take
  <2>1. StreamOK'
    <3>1. CASE Open \/ Register
      BY <1>0, <3>1 DEF Open, Register, StreamOK, ClientOK, StreamPc
    <3>2. CASE Fetch
      <4>1. page' \subseteq Seqs
        BY <1>0, <3>2 DEF Fetch, PageAfter, First, DatabaseOK
      <4>2. pc' \in StreamPc
        BY <3>2, TurnType DEF Fetch, StreamPc
      <4>3. QED
        BY <1>0, <3>2, <4>1, <4>2 DEF Fetch, StreamOK
    <3>3. CASE Take
      <4>1. queue' \in Seq(Doorbells) /\ Len(queue') <= QueueSize
        BY <1>0, <3>3, TailType DEF Take, StreamOK
      <4>2. QED
        BY <1>0, <3>3, <4>1 DEF Take, StreamOK, StreamPc
    <3>4. QED
      BY <1>4, <3>1, <3>2, <3>3
  <2>2. UNCHANGED <<database, listener, client, faults>>
    BY <1>4 DEF Open, Register, Fetch, Take
  <2>3. QED
    BY <1>0, <2>1, <2>2, Unmoved
<1>5. CASE Send
  <2>0. PICK s \in page : /\ last' = s /\ page' = page \ {s} /\ pc' = Turn(pc, page')
                          /\ net' = net \cup {s}
                          /\ UNCHANGED <<database, listener, queue, shown, detail, faults>>
    BY <1>5 DEF Send
  <2>1. s \in Seqs
    BY <1>0, <2>0 DEF StreamOK
  <2>2. pc' \in StreamPc
    BY <1>0, <2>0 DEF Turn, StreamOK, StreamPc
  <2>3. StreamOK'
    BY <1>0, <2>0, <2>1, <2>2 DEF StreamOK, Seqs
  <2>4. ClientOK'
    BY <1>0, <2>0, <2>1 DEF ClientOK
  <2>5. QED
    BY <1>0, <2>0, <2>3, <2>4, Unmoved
<1>6. CASE Receive \/ ReadDetail \/ ApplyDetail
  <2>1. ClientOK'
    <3>1. CASE Receive
      BY <1>0, <3>1 DEF Receive, ClientOK, Seqs
    <3>2. CASE ReadDetail
      BY <1>0, <3>2 DEF ReadDetail, ClientOK, DatabaseOK, Seqs
    <3>3. CASE ApplyDetail
      BY <1>0, <3>3 DEF ApplyDetail, ClientOK
    <3>4. QED
      BY <1>6, <3>1, <3>2, <3>3
  <2>2. UNCHANGED <<database, listener, stream, faults>>
    BY <1>6 DEF Receive, ReadDetail, ApplyDetail
  <2>3. QED
    BY <1>0, <2>1, <2>2, Unmoved
<1>7. CASE LoseLink \/ LoseStream \/ RestartApi \/ Reload
  <2>1. FaultsOK'
    BY <1>0, <1>7 DEF LoseLink, LoseStream, RestartApi, Reload, FaultsOK
  <2>2. ListenerOK'
    <3>1. <<>> \in Seq(Seqs) /\ <<>> \in Seq(Doorbells)
      OBVIOUS
    <3>2. CASE UNCHANGED listener
      BY <1>0, <3>2, Unmoved
    <3>3. CASE LoseLink \/ RestartApi
      BY <1>0, <3>1, <3>3 DEF LoseLink, RestartApi, ListenerOK
    <3>4. QED
      BY <1>7, <3>2, <3>3 DEF LoseStream, Reload
  <2>3. StreamOK'
    BY <1>0, <1>7, HangupType, Unmoved DEF LoseLink, LoseStream, RestartApi, Reload
  <2>4. ClientOK'
    BY <1>0, <1>7 DEF LoseLink, LoseStream, RestartApi, Reload, Hangup, ClientOK, client
  <2>5. UNCHANGED database
    BY <1>7 DEF LoseLink, LoseStream, RestartApi, Reload
  <2>6. QED
    BY <1>0, <2>1, <2>2, <2>3, <2>4, <2>5, Unmoved
<1>8. CASE UNCHANGED vars
  BY <1>0, <1>8, Unmoved DEF vars
<1>9. QED
  BY <1>1, <1>2, <1>3, <1>4, <1>5, <1>6, <1>7, <1>8 DEF Next

(* Every variable keeps its type; in particular a subscription never holds *)
(* more doorbells than its queue has room for.                             *)
THEOREM TypeCorrect == Spec => []TypeOK
BY TypeInit, TypeStep, PTL DEF Spec

-----------------------------------------------------------------------------
(* With one writer the numbers become visible in the order they were       *)
(* allocated, and everything the path holds came from the table: that is   *)
(* what Unbroken needs to be inductive.                                    *)

Ordered ==
  /\ IsFiniteSet(committed)
  /\ \A c \in committed : c < next
  /\ \A w \in Writers : draft[w] < next
  /\ \A w \in Writers, c \in committed : draft[w] # 0 => c < draft[w]

Sourced ==
  /\ page \cup net \subseteq committed
  /\ {last, shown, detail} \subseteq committed \cup {0}
  /\ page # {} <=> pc \in {"more", "rest"}
  /\ pc = "none" => net = {}
  /\ \A p \in page : last < p
  /\ \A n \in net : n <= last

IInv == TypeOK /\ Ordered /\ Sourced /\ Unbroken

(* A page of the replay has no hole: what lies below one of its rows is on *)
(* it too.                                                                 *)
LEMMA FirstIsClosed ==
  ASSUME NEW S \in SUBSET Nat, IsFiniteSet(S), NEW n \in Nat,
         NEW p \in First(S, n), NEW c \in S, c <= p
  PROVE  c \in First(S, n)
<1>. DEFINE Below(x) == {t \in S : t < x}
<1>0. p \in S /\ p \in Nat /\ c \in Nat
  BY DEF First
<1>1. Below(c) \in SUBSET Below(p) /\ Below(p) \in SUBSET S
  <2>1. ASSUME NEW t \in S, t < c PROVE t < p
    BY <1>0, <2>1
  <2>2. QED
    BY <2>1
<1>2. IsFiniteSet(Below(p))
  BY <1>1, FS_Subset
<1>3. IsFiniteSet(Below(c)) /\ Cardinality(Below(c)) <= Cardinality(Below(p))
  BY <1>1, <1>2, FS_Subset
<1>4. Cardinality(Below(p)) \in Nat /\ Cardinality(Below(c)) \in Nat
  BY <1>2, <1>3, FS_CardinalityType
<1>5. Cardinality(Below(p)) < n
  BY DEF First
<1>. QED
  BY <1>3, <1>4, <1>5 DEF First

THEOREM InitInv == Init => IInv
<1>1. IsFiniteSet({})
  BY FS_EmptySet
<1>. QED
  BY <1>1, TypeInit DEF Init, IInv, Ordered, Sourced, Unbroken

LEMMA OrderedStep ==
  ASSUME OneWriter, TypeOK, Ordered, [Next]_vars
  PROVE  Ordered'
<1>1. CASE UNCHANGED database
  BY <1>1 DEF database, Ordered
<1>2. ASSUME NEW w \in Writers, Insert(w) PROVE Ordered'
  BY <1>2 DEF Insert, Ordered, OneWriter, TypeOK, Seqs
<1>3. ASSUME NEW w \in Writers, Commit(w) PROVE Ordered'
  <2>1. IsFiniteSet(committed')
    BY <1>3, FS_AddElement DEF Commit, Ordered
  <2>2. \A v \in Writers : draft'[v] = 0
    BY <1>3 DEF Commit, OneWriter, TypeOK
  <2>3. next \in Nat \ {0} /\ draft[w] < next
    BY DEF TypeOK, Ordered
  <2>4. QED
    BY <1>3, <2>1, <2>2, <2>3 DEF Commit, Ordered
<1>4. ASSUME NEW w \in Writers, Abort(w) PROVE Ordered'
  <2>1. \A v \in Writers : draft'[v] = draft[v] \/ draft'[v] = 0
    BY <1>4 DEF Abort, TypeOK
  <2>2. next \in Nat \ {0} /\ UNCHANGED <<next, committed>>
    BY <1>4 DEF TypeOK, Abort
  <2>3. QED
    BY <2>1, <2>2 DEF Ordered
<1>. QED
  BY <1>1, <1>2, <1>3, <1>4
     DEF Next, vars, Listen, Announce, Hear, Dispatch, Open, Register, Fetch, Send, Take,
         Receive, ReadDetail, ApplyDetail, LoseLink, LoseStream, RestartApi, Reload

Numbers ==
  /\ last \in Nat /\ shown \in Nat /\ detail \in Nat
  /\ committed \in SUBSET (Nat \ {0}) /\ page \in SUBSET Nat /\ net \in SUBSET Nat

LEMMA TypeNumbers == TypeOK => Numbers
BY DEF TypeOK, Numbers, Seqs

LEMMA PathStep ==
  ASSUME OneWriter, IInv, [Next]_vars
  PROVE  Sourced' /\ Unbroken'
<1>0. Numbers /\ Ordered /\ Sourced /\ Unbroken
  BY TypeNumbers DEF IInv
<1>. USE DEF Numbers
<1>1. CASE UNCHANGED <<committed, pc, last, page, net, shown, detail>>
  BY <1>0, <1>1 DEF Sourced, Unbroken
<1>2. ASSUME NEW w \in Writers, Commit(w) PROVE Sourced' /\ Unbroken'
  <2>1. /\ committed' = committed \cup {draft[w]} /\ \A c \in committed : c < draft[w]
        /\ draft[w] \in Nat \ {0}
        /\ UNCHANGED <<pc, last, page, net, shown, detail>>
    BY <1>0, <1>2 DEF Commit, Ordered, IInv, TypeOK, stream, client
  <2>2. Sourced'
    BY <1>0, <2>1 DEF Sourced
  <2>3. last < draft[w] /\ \A p \in page : p < draft[w]
    BY <1>0, <2>1 DEF Sourced
  <2>4. QED
    BY <1>0, <2>1, <2>2, <2>3 DEF Unbroken
<1>3. CASE Open
  BY <1>0, <1>3 DEF Open, database, client, Sourced, Unbroken
<1>4. CASE Register \/ Take
  <2>1. /\ UNCHANGED <<committed, last, page, net, shown, detail>>
        /\ pc \in {"opening", "wait"} /\ pc' \in {"fetch", "wait"}
    BY <1>4 DEF Register, Take, database, client
  <2>2. QED
    BY <1>0, <2>1 DEF Sourced, Unbroken
<1>5. CASE Fetch
  <2>0. DEFINE beyond == {c \in committed : last < c}
  <2>1. /\ pc = "fetch" /\ page' = First(beyond, Batch)
        /\ UNCHANGED <<committed, last, net, shown, detail>>
    BY <1>5 DEF Fetch, PageAfter, database, client
  <2>2. /\ pc' \in {"fetch", "more", "rest", "wait"}
        /\ page' # {} <=> pc' \in {"more", "rest"}
    BY <1>5, TurnType DEF Fetch
  <2>3. beyond \in SUBSET Nat /\ IsFiniteSet(beyond)
    BY <1>0, FS_Subset DEF Ordered
  <2>4. page' \subseteq beyond
    BY <2>1 DEF First
  <2>5. Sourced'
    BY <1>0, <2>1, <2>2, <2>4 DEF Sourced
  <2>6. \A p \in page', c \in committed : last < c /\ c <= p => c \in page'
    BY <2>1, <2>3, FirstIsClosed
  <2>7. QED
    BY <1>0, <2>1, <2>5, <2>6 DEF Unbroken
<1>6. CASE Send
  <2>1. PICK s \in page : /\ IsFirst(s, page) /\ last' = s /\ page' = page \ {s}
                          /\ pc' = Turn(pc, page') /\ net' = net \cup {s}
                          /\ UNCHANGED <<committed, shown, detail>>
    BY <1>6 DEF Send, database
  <2>2. /\ pc' \in {"fetch", "more", "rest", "wait"}
        /\ page' # {} <=> pc' \in {"more", "rest"}
    BY <1>0, <2>1, TurnType DEF Sourced
  <2>3. /\ last < s /\ s \in committed
        /\ \A p \in page' : s < p
    BY <1>0, <2>1 DEF Sourced, IsFirst
  <2>4. Sourced'
    BY <1>0, <2>1, <2>2, <2>3 DEF Sourced
  <2>5. ASSUME NEW c \in committed, shown < c, c <= s PROVE c \in net'
    BY <1>0, <2>1, <2>3, <2>5 DEF Unbroken, IsFirst, Sourced
  <2>6. ASSUME NEW p \in page', NEW c \in committed, s < c, c <= p PROVE c \in page'
    BY <1>0, <2>1, <2>3, <2>6 DEF Unbroken
  <2>7. QED
    BY <2>1, <2>4, <2>5, <2>6 DEF Unbroken
<1>7. CASE Receive
  <2>1. PICK s \in net : /\ IsFirst(s, net) /\ shown' = (IF s <= shown THEN shown ELSE s)
                         /\ net' = net \ {s}
                         /\ UNCHANGED <<committed, pc, last, page, detail>>
    BY <1>7 DEF Receive, database, stream
  <2>2. shown' \in {s, shown} /\ shown <= shown' /\ s <= shown'
    BY <1>0, <2>1
  <2>3. Sourced'
    BY <1>0, <2>1, <2>2 DEF Sourced
  <2>4. ASSUME pc # "none", NEW c \in committed, shown' < c, c <= last PROVE c \in net'
    <3>1. shown < c /\ c # s
      BY <1>0, <2>2, <2>4
    <3>2. QED
      BY <1>0, <2>1, <2>4, <3>1 DEF Unbroken
  <2>5. QED
    BY <1>0, <2>1, <2>3, <2>4 DEF Unbroken
<1>8. CASE ReadDetail \/ ApplyDetail
  <2>1. /\ UNCHANGED <<committed, pc, last, page, net>>
        /\ {shown', detail'} \subseteq committed \cup {0} /\ shown <= shown'
    BY <1>0, <1>8 DEF ReadDetail, ApplyDetail, database, stream, Sourced
  <2>2. shown' \in Nat
    <3>1. shown' \in committed \cup {0} /\ committed \subseteq Nat
      BY <1>0, <2>1
    <3>2. QED
      BY <3>1
  <2>3. Sourced'
    BY <1>0, <2>1 DEF Sourced
  <2>4. QED
    BY <1>0, <2>1, <2>2, <2>3 DEF Unbroken
<1>9. CASE LoseStream \/ RestartApi \/ Reload
  <2>1. /\ Hangup /\ UNCHANGED committed
        /\ shown' \in {shown, 0} /\ detail' \in {detail, 0}
    BY <1>9 DEF LoseStream, RestartApi, Reload, database
  <2>2. QED
    BY <1>0, <2>1 DEF Hangup, Sourced, Unbroken
<1>. QED
  BY <1>1, <1>2, <1>3, <1>4, <1>5, <1>6, <1>7, <1>8, <1>9
     DEF Next, vars, database, stream, client, Insert, Abort, Listen, Announce, Hear,
         Dispatch, LoseLink

LEMMA Invariant ==
  ASSUME OneWriter
  PROVE  Spec => []IInv
<1>1. Init => IInv
  BY InitInv
<1>2. IInv /\ [Next]_vars => IInv'
  BY TypeStep, OrderedStep, PathStep DEF IInv
<1>3. QED
  BY <1>1, <1>2, PTL DEF Spec

(* Replay and live delivery leave no hole, as long as the run has a single *)
(* writer: whatever the interleaving of commits, reads, frames and faults, *)
(* every event the stream has passed is with the page or on its way.       *)
THEOREM NothingIsSkipped ==
  ASSUME OneWriter
  PROVE  Spec => []Unbroken
<1>1. IInv => Unbroken
  BY DEF IInv
<1>2. QED
  BY <1>1, Invariant, PTL

LEMMA FeedStep ==
  ASSUME OneWriter, IInv, [Next]_vars
  PROVE  [Feed!Next]_(Feed!feed)
<1>0. Numbers /\ Ordered /\ Sourced /\ Unbroken
  BY TypeNumbers DEF IInv
<1>. USE DEF Numbers
<1>1. CASE UNCHANGED <<committed, shown>>
  BY <1>1 DEF Feed!feed
<1>2. ASSUME NEW w \in Writers, Commit(w) PROVE Feed!Write
  <2>1. draft[w] \in Nat \ {0} /\ \A c \in committed : c < draft[w]
    BY <1>0, <1>2 DEF Commit, Ordered, IInv, TypeOK
  <2>2. committed' = committed \cup {draft[w]} /\ UNCHANGED shown
    BY <1>2 DEF Commit, client
  <2>3. QED
    BY <2>1, <2>2 DEF Feed!Write
<1>3. CASE Receive
  <2>1. PICK s \in net : /\ IsFirst(s, net) /\ shown' = (IF s <= shown THEN shown ELSE s)
                         /\ UNCHANGED committed
    BY <1>3 DEF Receive, database
  <2>2. CASE s <= shown
    BY <2>1, <2>2 DEF Feed!feed
  <2>3. CASE ~(s <= shown)
    <3>1. s \in committed /\ s <= last /\ pc # "none" /\ shown < s /\ shown' = s
      BY <1>0, <2>1, <2>3 DEF Sourced
    <3>2. ASSUME NEW m \in committed, shown < m, m < s PROVE FALSE
      <4>1. m \in net
        BY <1>0, <3>1, <3>2 DEF Unbroken
      <4>2. QED
        BY <1>0, <2>1, <3>2, <4>1 DEF IsFirst
    <3>3. Feed!Show
      BY <2>1, <3>1, <3>2 DEF Feed!Show
    <3>4. QED
      BY <3>3 DEF Feed!Next
  <2>4. QED
    BY <2>2, <2>3
<1>4. CASE ApplyDetail
  <2>1. UNCHANGED committed /\ (shown' = shown \/ (shown = 0 /\ shown' \in committed))
    BY <1>0, <1>4 DEF ApplyDetail, database, Sourced
  <2>2. QED
    BY <2>1 DEF Feed!Next, Feed!Join, Feed!feed
<1>5. CASE Reload
  <2>1. Feed!Forget
    BY <1>5 DEF Reload, database, Feed!Forget
  <2>2. QED
    BY <2>1 DEF Feed!Next
<1>. QED
  BY <1>1, <1>2, <1>3, <1>4, <1>5
     DEF Next, vars, database, client, Insert, Abort, Listen, Announce, Hear, Dispatch,
         Open, Register, Fetch, Send, Take, ReadDetail, LoseLink, LoseStream, RestartApi,
         Feed!Next

(* With a single writer the page shows the log in order, one event after   *)
(* the other: the whole path implements EventFeed.                         *)
THEOREM PageShowsTheLog ==
  ASSUME OneWriter
  PROVE  Spec => FeedsInOrder
<1>1. Init => Feed!Init
  BY DEF Init, Feed!Init
<1>2. IInv /\ [Next]_vars => [Feed!Next]_(Feed!feed)
  BY FeedStep
<1>3. QED
  BY <1>1, <1>2, Invariant, PTL DEF Spec, FeedsInOrder, Feed!Spec

-----------------------------------------------------------------------------
(* No wake-up is lost.  The argument rests on the newest doorbell on its   *)
(* way alone: a full subscription drops its oldest, and with one writer    *)
(* the newest answers for all the others.                                  *)

LastOf(q) == q[Len(q)]

Answers(d) == d = RESYNC \/ \A c \in committed : c <= d

Unread == {c \in committed : last < c /\ c \notin page}

Belled ==
  /\ link = "down" => wire = <<>>
  /\ wire # <<>> => \A c \in committed : c <= LastOf(wire)
  /\ link = "up" /\ wire = <<>> /\ loop # <<>> => Answers(LastOf(loop))
  /\ link = "up" /\ wire = <<>> /\ loop = <<>> /\ pc \in {"rest", "wait"} =>
       \A c \in Unread : queue # <<>> /\ (LastOf(queue) = RESYNC \/ c <= LastOf(queue))

BInv == IInv /\ Belled

LEMMA LastAppend ==
  ASSUME NEW S, NEW q \in Seq(S), NEW d \in S
  PROVE  Append(q, d) # <<>> /\ LastOf(Append(q, d)) = d
BY DEF LastOf

LEMMA LastTail ==
  ASSUME NEW S, NEW q \in Seq(S), q # <<>>
  PROVE  /\ Tail(q) = <<>> => LastOf(q) = Head(q)
         /\ Tail(q) # <<>> => LastOf(Tail(q)) = LastOf(q)
<1>1. /\ Tail(q) \in Seq(S) /\ Len(Tail(q)) = Len(q) - 1 /\ Len(q) \in Nat \ {0}
      /\ Head(q) = q[1] /\ \A i \in 1 .. Len(q) - 1 : Tail(q)[i] = q[i + 1]
  BY HeadTailProperties
<1>2. ASSUME Tail(q) = <<>> PROVE Len(q) = 1
  <2>1. ASSUME Len(q) # 1 PROVE Len(Tail(q)) \in Nat \ {0}
    BY <1>1, <2>1
  <2>2. ASSUME Len(q) # 1 PROVE Tail(q) # <<>>
    <3>1. Len(<<>>) = 0
      BY EmptySeq, Zenon
    <3>2. Len(Tail(q)) # 0
      BY <2>1, <2>2
    <3>3. QED
      BY <3>1, <3>2, Zenon
  <2>3. QED
    BY <1>2, <2>2
<1>3. ASSUME Tail(q) # <<>> PROVE Len(Tail(q)) \in 1 .. Len(q) - 1
  <2>1. Len(Tail(q)) \in Nat \ {0}
    BY <1>1, <1>3, TailType
  <2>2. QED
    BY <1>1, <2>1
<1>. QED
  BY <1>1, <1>2, <1>3 DEF LastOf

LEMMA LastOffer ==
  ASSUME NEW q \in Seq(Doorbells), NEW d \in Doorbells
  PROVE  Offer(q, d) # <<>> /\ LastOf(Offer(q, d)) = d
<1>1. CASE Len(q) < QueueSize
  BY <1>1, LastAppend DEF Offer
<1>2. CASE ~(Len(q) < QueueSize)
  <2>1. q # <<>>
    BY <1>2
  <2>2. Tail(q) \in Seq(Doorbells)
    BY <2>1, TailType
  <2>3. QED
    BY <1>2, <2>2, LastAppend DEF Offer
<1>3. QED
  BY <1>1, <1>2

LEMMA LeastOf ==
  ASSUME NEW T \in SUBSET Nat, T # {}
  PROVE  \E m \in T : \A k \in T : m <= k
<1>. DEFINE less == OpToRel(<, Nat)
<1>1. IsWellFoundedOn(less, Nat)
  BY NatLessThanWellFounded
<1>2. \E m \in T : \A k \in T : ~(<<k, m>> \in less)
  <2>. HIDE DEF less
  <2>. QED
    BY <1>1, WFMin
<1>3. PICK m \in T : \A k \in T : ~(<<k, m>> \in less)
  BY <1>2
<1>4. ASSUME NEW k \in T PROVE m <= k
  <2>1. <<k, m>> \in Nat \X Nat /\ ~(<<k, m>> \in less)
    BY <1>3
  <2>2. ~(<<k, m>>[1] < <<k, m>>[2])
    BY <2>1, Zenon DEF OpToRel
  <2>3. QED
    BY <2>2
<1>. QED
  BY <1>4

(* A page that is not full leaves nothing behind. *)
LEMMA ShortPageIsAll ==
  ASSUME NEW S \in SUBSET Nat, IsFiniteSet(S), NEW n \in Nat,
         IsFiniteSet(First(S, n)), Cardinality(First(S, n)) < n
  PROVE  First(S, n) = S
<1>. DEFINE left == S \ First(S, n)
<1>1. SUFFICES ASSUME left # {} PROVE FALSE
  BY DEF First
<1>2. left \subseteq Nat
  OBVIOUS
<1>3. PICK m \in left : \A k \in left : m <= k
  BY <1>1, <1>2, LeastOf
<1>. DEFINE below == {t \in S : t < m}
<1>4. below \in SUBSET First(S, n)
  <2>1. ASSUME NEW t \in S, t < m PROVE t \notin left
    BY <1>2, <1>3, <2>1
  <2>2. QED
    BY <2>1
<1>5. IsFiniteSet(below) /\ Cardinality(below) <= Cardinality(First(S, n))
  BY <1>4, FS_Subset
<1>6. Cardinality(below) \in Nat /\ Cardinality(First(S, n)) \in Nat
  BY <1>5, FS_CardinalityType
<1>7. Cardinality(below) < n
  BY <1>5, <1>6
<1>. QED
  BY <1>3, <1>7 DEF First

LEMMA BInit == Init => BInv
BY InitInv DEF Init, BInv, Belled

LEMMA BelledStep ==
  ASSUME OneWriter, IInv, Belled, [Next]_vars
  PROVE  Belled'
<1>0. /\ Numbers /\ Ordered /\ Sourced
      /\ wire \in Seq(Seqs) /\ loop \in Seq(Doorbells) /\ queue \in Seq(Doorbells)
  BY TypeNumbers DEF IInv, TypeOK
<1>. USE DEF Numbers
<1>1. CASE UNCHANGED <<committed, link, wire, loop, pc, last, page, queue>>
  BY <1>1 DEF Belled, Answers, Unread, LastOf
<1>2. ASSUME NEW w \in Writers, Commit(w) PROVE Belled'
  <2>1. /\ draft[w] \in Seqs /\ \A c \in committed : c < draft[w]
        /\ committed' = committed \cup {draft[w]}
        /\ wire' = IF link = "down" THEN wire ELSE Append(wire, draft[w])
        /\ UNCHANGED <<link, loop, pc, last, page, queue>>
    BY <1>0, <1>2 DEF Commit, Ordered, IInv, TypeOK, Seqs, stream
  <2>2. CASE link = "down"
    BY <2>1, <2>2 DEF Belled
  <2>3. CASE link # "down"
    <3>1. wire' # <<>> /\ LastOf(wire') = draft[w]
      BY <1>0, <2>1, <2>3, LastAppend
    <3>2. \A c \in committed' : c <= draft[w]
      BY <1>0, <2>1 DEF Seqs
    <3>3. QED
      BY <2>1, <2>3, <3>1, <3>2 DEF Belled
  <2>4. QED
    BY <2>2, <2>3
<1>3. CASE Listen
  BY <1>3 DEF Listen, database, Belled
<1>4. CASE Announce
  <2>1. /\ link = "listening" /\ link' = "up" /\ loop' = Append(loop, RESYNC)
        /\ UNCHANGED <<committed, wire>>
    BY <1>4 DEF Announce, database
  <2>2. loop' # <<>> /\ LastOf(loop') = RESYNC
    BY <1>0, <2>1, LastAppend DEF Doorbells
  <2>3. QED
    BY <2>1, <2>2 DEF Belled, Answers, LastOf
<1>5. CASE Hear
  <2>1. /\ link = "up" /\ link' = "up" /\ wire # <<>> /\ wire' = Tail(wire)
        /\ loop' = Append(loop, Head(wire)) /\ UNCHANGED committed
    BY <1>5 DEF Hear, database
  <2>2. Head(wire) \in Doorbells
    BY <1>0, <2>1, TailType DEF Doorbells
  <2>3. loop' # <<>> /\ LastOf(loop') = Head(wire)
    BY <1>0, <2>1, <2>2, LastAppend
  <2>4. \A c \in committed : c <= LastOf(wire)
    BY <2>1 DEF Belled
  <2>5. wire' # <<>> => LastOf(wire') = LastOf(wire)
    BY <1>0, <2>1, LastTail
  <2>6. wire' = <<>> => LastOf(wire) = Head(wire)
    BY <1>0, <2>1, LastTail
  <2>7. wire' # <<>> => \A c \in committed' : c <= LastOf(wire')
    BY <2>1, <2>4, <2>5
  <2>8. wire' = <<>> => Answers(LastOf(loop))'
    <3>1. wire' = <<>> => \A c \in committed' : c <= LastOf(loop')
      BY <2>1, <2>3, <2>4, <2>6
    <3>2. QED
      BY <3>1 DEF Answers, LastOf
  <2>9. QED
    BY <2>1, <2>3, <2>7, <2>8 DEF Belled
<1>6. CASE Dispatch
  <2>1. /\ loop # <<>> /\ loop' = Tail(loop)
        /\ queue' = IF Registered THEN Offer(queue, Head(loop)) ELSE queue
        /\ UNCHANGED <<committed, link, wire, pc, last, page>>
    BY <1>6 DEF Dispatch, database
  <2>2. Head(loop) \in Doorbells
    BY <1>0, <2>1, TailType
  <2>3. Offer(queue, Head(loop)) # <<>> /\ LastOf(Offer(queue, Head(loop))) = Head(loop)
    BY <1>0, <2>2, LastOffer
  <2>4. loop' # <<>> => LastOf(loop') = LastOf(loop)
    BY <1>0, <2>1, LastTail
  <2>5. loop' = <<>> => LastOf(loop) = Head(loop)
    BY <1>0, <2>1, LastTail
  <2>6. link = "up" /\ wire = <<>> => Answers(LastOf(loop))
    BY <2>1 DEF Belled
  <2>7. link = "up" /\ wire = <<>> /\ loop' # <<>> => Answers(LastOf(loop))'
    <3>1. link = "up" /\ wire = <<>> /\ loop' # <<>> =>
            LastOf(loop') = RESYNC \/ \A c \in committed' : c <= LastOf(loop')
      BY <2>1, <2>4, <2>6 DEF Answers
    <3>2. QED
      BY <3>1 DEF Answers, LastOf
  <2>8. ASSUME link = "up", wire = <<>>, loop' = <<>>, pc \in {"rest", "wait"},
               NEW c \in Unread
        PROVE  queue' # <<>> /\ (LastOf(queue') = RESYNC \/ c <= LastOf(queue'))
    <3>1. queue' # <<>> /\ LastOf(queue') = Head(loop)
      BY <2>1, <2>3, <2>8 DEF Registered
    <3>2. Head(loop) = RESYNC \/ c <= Head(loop)
      BY <2>5, <2>6, <2>8 DEF Answers, Unread
    <3>3. QED
      BY <3>1, <3>2
  <2>9. Unread' = Unread
    BY <2>1 DEF Unread
  <2>10. QED
    BY <2>1, <2>7, <2>8, <2>9 DEF Belled, LastOf
<1>7. CASE Open \/ Register
  BY <1>7 DEF Open, Register, database, listener, Belled, Answers
<1>8. CASE Fetch
  <2>. DEFINE beyond == {c \in committed : last < c}
  <2>1. /\ page' = First(beyond, Batch)
        /\ pc' = Turn(IF Cardinality(page') < Batch THEN "rest" ELSE "more", page')
        /\ UNCHANGED <<committed, link, wire, loop, last, queue>>
    BY <1>8 DEF Fetch, PageAfter, database, listener
  <2>2. beyond \in SUBSET Nat /\ IsFiniteSet(beyond)
    BY <1>0, FS_Subset DEF Ordered
  <2>3. First(beyond, Batch) \in SUBSET beyond
    BY DEF First
  <2>4. IsFiniteSet(First(beyond, Batch))
    BY <2>2, <2>3, FS_Subset
  <2>5. pc' \in {"rest", "wait"} => Cardinality(First(beyond, Batch)) < Batch
    BY <2>1 DEF Turn
  <2>6. pc' \in {"rest", "wait"} => page' = beyond
    BY <2>1, <2>2, <2>4, <2>5, ShortPageIsAll
  <2>7. pc' \in {"rest", "wait"} => Unread' = {}
    BY <2>1, <2>6 DEF Unread
  <2>8. QED
    BY <2>1, <2>7 DEF Belled, Answers, LastOf
<1>9. CASE Send
  <2>1. PICK s \in page : /\ last' = s /\ page' = page \ {s} /\ pc' = Turn(pc, page')
                          /\ UNCHANGED <<committed, link, wire, loop, queue>>
    BY <1>9 DEF Send, database, listener
  <2>2. pc \in {"more", "rest"} /\ last < s /\ s \in Nat
    BY <1>0, <2>1 DEF Sourced
  <2>3. pc' \in {"rest", "wait"} => pc = "rest"
    BY <2>1, <2>2 DEF Turn
  <2>4. Unread' \subseteq Unread
    <3>1. ASSUME NEW c \in committed, s < c, c \notin page \ {s} PROVE last < c /\ c \notin page
      BY <1>0, <2>2, <3>1
    <3>2. QED
      BY <2>1, <3>1 DEF Unread
  <2>5. QED
    BY <2>1, <2>3, <2>4 DEF Belled, Answers, LastOf
<1>10. CASE Take
  <2>1. /\ pc = "wait" /\ queue # <<>> /\ queue' = Tail(queue)
        /\ pc' = "fetch" \/ (pc' = "wait" /\ Head(queue) # RESYNC /\ Head(queue) <= last)
        /\ UNCHANGED <<committed, link, wire, loop, last, page>>
    BY <1>10 DEF Take, database, listener
  <2>2. Head(queue) \in Int
    BY <1>0, <2>1, TailType DEF Doorbells, Seqs, RESYNC
  <2>3. queue' = <<>> => LastOf(queue) = Head(queue)
    BY <1>0, <2>1, LastTail
  <2>4. queue' # <<>> => LastOf(queue') = LastOf(queue)
    BY <1>0, <2>1, LastTail
  <2>5. ASSUME pc' = "wait", link = "up", wire = <<>>, loop = <<>>, NEW c \in Unread
        PROVE  queue' # <<>> /\ (LastOf(queue') = RESYNC \/ c <= LastOf(queue'))
    <3>1. LastOf(queue) = RESYNC \/ c <= LastOf(queue)
      BY <2>1, <2>5 DEF Belled
    <3>2. c \in Nat /\ last < c
      BY <1>0, <2>5 DEF Unread
    <3>3. queue' # <<>>
      BY <1>0, <2>1, <2>2, <2>3, <2>5, <3>1, <3>2
    <3>4. QED
      BY <2>4, <3>1, <3>3
  <2>6. Unread' = Unread
    BY <2>1 DEF Unread
  <2>7. QED
    BY <2>1, <2>5, <2>6 DEF Belled, Answers, LastOf
<1>11. CASE LoseLink \/ RestartApi
  BY <1>11 DEF LoseLink, RestartApi, Belled
<1>12. CASE LoseStream \/ Reload
  BY <1>12 DEF LoseStream, Reload, Hangup, database, listener, Belled, Answers
<1>. QED
  BY <1>1, <1>2, <1>3, <1>4, <1>5, <1>6, <1>7, <1>8, <1>9, <1>10, <1>11, <1>12
     DEF Next, vars, database, listener, stream, client, Insert, Abort, Receive, ReadDetail,
         ApplyDetail

LEMMA DoorbellsSuffice == BInv => NoLostDoorbell
<1>. SUFFICES ASSUME BInv, pc \in {"rest", "wait"}, link = "up",
                     NEW c \in committed, last < c, c \notin page
              PROVE  Rings(c)
  BY DEF NoLostDoorbell
<1>0. wire \in Seq(Seqs) /\ loop \in Seq(Doorbells) /\ queue \in Seq(Doorbells)
  BY DEF BInv, IInv, TypeOK
<1>1. ASSUME NEW S, NEW q \in Seq(S), q # <<>> PROVE Len(q) \in DOMAIN q
  <2>1. Len(q) \in Nat \ {0} /\ DOMAIN q = 1 .. Len(q)
    BY <1>1, TailType
  <2>2. QED
    BY <2>1
<1>2. CASE wire # <<>>
  BY <1>0, <1>1, <1>2 DEF BInv, Belled, Rings, LastOf
<1>3. CASE wire = <<>> /\ loop # <<>>
  <2>1. Answers(LastOf(loop))
    BY <1>3 DEF BInv, Belled
  <2>2. QED
    BY <1>0, <1>1, <1>3, <2>1 DEF Answers, Rings, LastOf
<1>4. CASE wire = <<>> /\ loop = <<>>
  <2>1. queue # <<>> /\ (LastOf(queue) = RESYNC \/ c <= LastOf(queue))
    BY <1>4 DEF BInv, Belled, Unread
  <2>2. QED
    BY <1>0, <1>1, <2>1 DEF Rings, LastOf
<1>. QED
  BY <1>2, <1>3, <1>4

(* With a single writer no wake-up is ever lost, whatever the size of the  *)
(* subscription's queue: an event the stream has not read has a doorbell   *)
(* on its way, unless the listener is about to ring for everybody.         *)
THEOREM NobodySleepsThrough ==
  ASSUME OneWriter
  PROVE  Spec => []NoLostDoorbell
<1>1. Init => BInv
  BY BInit
<1>2. BInv /\ [Next]_vars => BInv'
  <2>1. IInv /\ [Next]_vars => IInv'
    BY TypeStep, OrderedStep, PathStep DEF IInv
  <2>2. QED
    BY <2>1, BelledStep DEF BInv
<1>3. BInv => NoLostDoorbell
  BY DoorbellsSuffice
<1>4. QED
  BY <1>1, <1>2, <1>3, PTL DEF Spec

(* With a single writer neither an event nor a wake-up is lost. *)
THEOREM NothingIsLost ==
  ASSUME OneWriter
  PROVE  Spec => []NothingLost
BY TypeCorrect, NothingIsSkipped, NobodySleepsThrough, PTL DEF NothingLost

-----------------------------------------------------------------------------
(* The page of a run: its story first.                                      *)

USE RunPageAssumption

LEMMA MaxOf ==
  ASSUME NEW n \in Nat, NEW S \in SUBSET (0 .. n), S # {}
  PROVE  Max(S) \in S /\ \A x \in S : x <= Max(S)
<1>. DEFINE T == {n - x : x \in S}
<1>0. \A x \in S : n - x \in Nat
  OBVIOUS
<1>1. T \in SUBSET Nat /\ T # {}
  BY <1>0
<1>2. PICK m \in T : \A t \in T : m <= t
  BY <1>1, LeastOf
<1>3. PICK y \in S : m = n - y
  OBVIOUS
<1>4. \A x \in S : y >= x
  <2>. SUFFICES ASSUME NEW x \in S PROVE y >= x
    OBVIOUS
  <2>1. n - x \in T
    OBVIOUS
  <2>2. n - y <= n - x
    BY <1>2, <1>3, <2>1
  <2>. QED
    BY <2>2
<1>5. Max(S) \in S /\ \A x \in S : Max(S) >= x
  BY <1>4 DEF Max
<1>. QED
  BY <1>5

LEMMA StoryIs ==
  ASSUME story \in Stories
  PROVE  Len(story) \in Nat /\ DOMAIN story = 1 .. Len(story)
<1>1. story \in Seq([event : STRING, life : STRING])
  OBVIOUS
<1>. QED
  BY <1>1

(* The step that last set the lifecycle is the newest of its kind. *)
LEMMA LifeStepOf ==
  ASSUME story \in Stories, NEW k \in 0 .. Len(story)
  PROVE  /\ LifeStep(k) \in 0 .. k
         /\ LifeStep(k) # 0 => story[LifeStep(k)].event = "lifecycle_changed"
         /\ \A i \in 1 .. k : story[i].event = "lifecycle_changed" => i <= LifeStep(k)
<1>. DEFINE S == {0} \cup {i \in 1 .. k : story[i].event = "lifecycle_changed"}
<1>0. k \in Nat
  BY StoryIs
<1>1. S \in SUBSET (0 .. k) /\ S # {}
  BY <1>0
<1>2. Max(S) \in S /\ \A x \in S : x <= Max(S)
  BY <1>0, <1>1, MaxOf
<1>3. LifeStep(k) = Max(S)
  BY DEF LifeStep
<1>. QED
  BY <1>0, <1>1, <1>2, <1>3

(* One event more sets the lifecycle or leaves it. *)
LEMMA LifeStepNext ==
  ASSUME story \in Stories, NEW k \in 1 .. Len(story)
  PROVE  LifeStep(k) = IF story[k].event = "lifecycle_changed" THEN k ELSE LifeStep(k - 1)
<1>0. k \in Nat /\ k \in 0 .. Len(story) /\ k - 1 \in 0 .. Len(story)
  BY StoryIs
<1>1. CASE story[k].event = "lifecycle_changed"
  <2>1. k <= LifeStep(k) /\ LifeStep(k) \in 0 .. k
    BY <1>0, <1>1, LifeStepOf
  <2>. QED
    BY <1>0, <1>1, <2>1
<1>2. CASE story[k].event # "lifecycle_changed"
  <2>. DEFINE a == LifeStep(k)
              b == LifeStep(k - 1)
  <2>1. /\ a \in 0 .. k /\ (a # 0 => story[a].event = "lifecycle_changed")
        /\ \A i \in 1 .. k : story[i].event = "lifecycle_changed" => i <= a
    BY <1>0, LifeStepOf
  <2>2. /\ b \in 0 .. (k - 1) /\ (b # 0 => story[b].event = "lifecycle_changed")
        /\ \A i \in 1 .. (k - 1) : story[i].event = "lifecycle_changed" => i <= b
    BY <1>0, LifeStepOf
  <2>. HIDE DEF a, b
  <2>3. a # k
    BY <1>0, <1>2, <2>1
  <2>4. a <= b
    BY <1>0, <2>1, <2>2, <2>3
  <2>5. b <= a
    BY <1>0, <2>1, <2>2
  <2>6. a = b
    BY <1>0, <2>1, <2>2, <2>4, <2>5
  <2>. QED
    BY <1>2, <2>6 DEF a, b
<1>. QED
  BY <1>1, <1>2

(* What a snapshot counts to lies after the last change its rows show, since *)
(* its events were read after its rows.                                     *)
LEMMA ElapsedOf ==
  ASSUME story \in Stories, NEW r \in 0 .. Len(story), NEW u \in 0 .. Len(story), u >= r - 1
  PROVE  Elapsed(r, u) \in 0 .. u /\ (Elapsed(r, u) # 0 => Elapsed(r, u) > LifeStep(r))
<1>. DEFINE restarts == {i \in 1 .. u : story[i].event = "lifecycle_changed" /\ story[i].life = "running"}
            F == {0} \cup {i \in 1 .. u : Says(i, Closing)}
            f == Max(F)
            l == LifeStep(r)
            counts == f # 0 /\ (\A i \in restarts : i < f) /\ l # 0 /\ story[l].life = story[f].life
<1>0. r \in Nat /\ u \in Nat /\ DOMAIN story = 1 .. Len(story) /\ Len(story) \in Nat
  BY StoryIs
<1>1. F \in SUBSET (0 .. u) /\ F # {}
  BY <1>0
<1>2. f \in F
  BY <1>0, <1>1, MaxOf
<1>3. f \in 0 .. u
  BY <1>1, <1>2
<1>3a. f # 0 => f \in DOMAIN story /\ story[f].event = "run_finished"
  BY <1>0, <1>2, <1>3 DEF Says, Closing
<1>4. l \in 0 .. r /\ (l # 0 => story[l].event = "lifecycle_changed")
  BY LifeStepOf
<1>5. Elapsed(r, u) = IF counts THEN f ELSE 0
  BY Zenon DEF Elapsed
<1>. HIDE DEF f, l
<1>6. ASSUME counts PROVE f > l
  <2>. SUFFICES ASSUME l >= f PROVE FALSE
    BY <1>0, <1>3, <1>4
  <2>1. f \in DOMAIN story /\ story[f].event = "run_finished" /\ story[l].event = "lifecycle_changed"
    BY <1>3a, <1>4, <1>6
  <2>2. l # f
    BY <2>1
  <2>3. l \in DOMAIN story /\ f < l /\ f \in Nat /\ l \in Nat
    BY <1>0, <1>3, <1>4, <1>6, <2>2
  <2>4. story[l].life \notin {"running", "paused"}
    BY <2>1, <1>6
  <2>5. PICK k \in (f + 1) .. (l - 1) : story[k].event = "lifecycle_changed" /\ story[k].life = "running"
    BY <2>1, <2>3, <2>4
  <2>6. k \in 1 .. u /\ k > f
    BY <1>0, <1>3, <1>4, <2>3
  <2>7. k \in restarts
    BY <2>5, <2>6
  <2>. QED
    BY <1>6, <2>6, <2>7, <2>3
<1>. QED
  BY <1>0, <1>3, <1>5, <1>6 DEF f, l
-----------------------------------------------------------------------------
(* The page of a run.  The newest request is the only one that counts, and  *)
(* reads rows no older than those shown.                                    *)

\* The last event the page has.
Seen == IF entry.seq = -1 THEN 0 ELSE entry.seq

Kept ==
  /\ story \in Stories /\ rows \in 0 .. Len(story) /\ said \in {rows, rows - 1} /\ said >= 0
  /\ entry \in [rows : -1 .. rows, since : -1 .. rows, seq : -1 .. said, elapsed : 0 .. rows]
  /\ gets \in SUBSET [current : BOOLEAN, rows : -1 .. rows, upto : -1 .. said]
  /\ cursor \in 0 .. said /\ poll \in -1 .. rows

Shaped ==
  /\ status \in {"idle", "loading", "ready", "error"}
  /\ viewing \in BOOLEAN /\ sub \in BOOLEAN /\ timer \in BOOLEAN /\ drain \in BOOLEAN
  /\ missed \subseteq Stale \cup {"expired", "polled", "again"}

\* One request counts at most, and what it reads is no older than what is shown.
Newest ==
  /\ \A p, q \in gets : p.current /\ q.current => p = q
  /\ \A q \in gets : q.current /\ q.rows # -1 => q.rows >= entry.rows
  /\ \A q \in gets : q.upto # -1 => q.rows # -1 /\ q.upto >= q.rows - 1

Mounted ==
  /\ viewing \/ timer \/ gets # {} => status # "idle"
  /\ sub => viewing /\ entry.since # -1 /\ cursor <= Seen

\* RefreshIsOwed, whether or not the stream is open: closing it forgets neither.
Owed ==
  status # "idle" /\ missed \cap Stale = {} /\ entry.rows # rows =>
    \/ said < rows \/ Seen < said \/ timer
    \/ \E q \in gets : q.current /\ q.rows \in {-1, rows}

\* A page that still listens to a run that ended has heard its last word, and
\* no later change of the lifecycle.
Heard ==
  sub /\ missed \subseteq Stale /\ ~IsActive /\ ~drain =>
    /\ entry.since = LifeStep(Seen)
    /\ \E k \in 1 .. entry.seq : k > entry.since /\ Says(k, Closing)

PageInv == Kept /\ Shaped /\ Newest /\ Mounted /\ Owed /\ Heard /\ ElapsedOfThisPass

-----------------------------------------------------------------------------

LEMMA PageInit == RunPageInit => PageInv
<1>. SUFFICES ASSUME RunPageInit PROVE PageInv
  OBVIOUS
<1>0. story \in Stories /\ Len(story) \in Nat
  BY StoryIs DEF RunPageInit
<1>1. Kept
  BY <1>0 DEF RunPageInit, Kept, Unloaded
<1>2. Shaped /\ Newest /\ Mounted /\ Owed /\ Heard
  BY <1>0 DEF RunPageInit, Shaped, Newest, Mounted, Owed, Heard
<1>3. ElapsedOfThisPass
  BY <1>0 DEF RunPageInit, ElapsedOfThisPass, Unloaded
<1>. QED
  BY <1>1, <1>2, <1>3 DEF PageInv

(* Numbers, once. *)
LEMMA KeptNumbers ==
  ASSUME Kept
  PROVE  /\ story \in Stories /\ Len(story) \in Nat /\ rows \in Nat /\ said \in Nat
         /\ rows <= Len(story) /\ said <= rows /\ rows <= said + 1
         /\ cursor \in Nat /\ cursor <= said /\ Seen \in 0 .. said
         /\ entry.rows \in Int /\ entry.rows <= rows /\ entry.since \in -1 .. rows
         /\ entry.seq \in -1 .. said /\ Seen \in Nat
<1>1. story \in Stories /\ Len(story) \in Nat
  BY StoryIs DEF Kept
<1>2. rows \in Nat /\ said \in Nat /\ rows <= Len(story) /\ said <= rows /\ rows <= said + 1
  BY <1>1 DEF Kept
<1>3. /\ entry.rows \in -1 .. rows /\ entry.since \in -1 .. rows
      /\ entry.seq \in -1 .. said
  BY DEF Kept
<1>. QED
  BY <1>1, <1>2, <1>3 DEF Kept, Seen

(* Conjuncts that the variables they are about keep. *)
LEMMA HeardNext ==
  ASSUME UNCHANGED story
  PROVE  Heard' <=> (sub' /\ missed' \subseteq Stale /\ ~Live(entry'.since) /\ ~drain' =>
                       /\ entry'.since = LifeStep(IF entry'.seq = -1 THEN 0 ELSE entry'.seq)
                       /\ \E k \in 1 .. entry'.seq : k > entry'.since /\ Says(k, Closing))
BY DEF Heard, IsActive, Live, LifeStep, Says, Seen

LEMMA ElapsedNext ==
  ASSUME UNCHANGED story
  PROVE  ElapsedOfThisPass' <=> (entry'.elapsed # 0 => entry'.elapsed > LifeStep(entry'.rows))
BY DEF ElapsedOfThisPass, LifeStep

LEMMA EntryKept ==
  ASSUME ElapsedOfThisPass, UNCHANGED <<story, entry>>
  PROVE  ElapsedOfThisPass'
BY ElapsedNext DEF ElapsedOfThisPass

LEMMA HeardKept ==
  ASSUME Heard, UNCHANGED <<story, entry, drain>>, sub' => sub,
         missed' \subseteq Stale => missed \subseteq Stale
  PROVE  Heard'
BY HeardNext DEF Heard, IsActive, Seen

(* The rows and events go on; requests keep what they have read. *)
LEMMA GetsGrow ==
  ASSUME gets \in SUBSET [current : BOOLEAN, rows : -1 .. rows, upto : -1 .. said],
         rows \in Nat, said \in Nat, rows' \in Nat, said' \in Nat, rows <= rows', said <= said'
  PROVE  gets \in SUBSET [current : BOOLEAN, rows : -1 .. rows', upto : -1 .. said']
<1>1. (-1 .. rows) \subseteq (-1 .. rows') /\ (-1 .. said) \subseteq (-1 .. said')
  OBVIOUS
<1>. QED
  BY <1>1

(* A new request counts, and none before it. *)
LEMMA RefreshDoes ==
  ASSUME Kept, Newest, Refresh, UNCHANGED <<rows, said>>, entry'.rows = entry.rows
  PROVE  /\ gets' \in SUBSET [current : BOOLEAN, rows : -1 .. rows, upto : -1 .. said]
         /\ Newest'
         /\ \E q \in gets' : q.current /\ q.rows = -1
         /\ missed' = missed \ Stale
<1>. DEFINE R == [current : BOOLEAN, rows : -1 .. rows, upto : -1 .. said]
<1>0. rows \in Nat /\ said \in Nat /\ rows <= Len(story) /\ Len(story) \in Nat
  BY KeptNumbers
<1>1. gets' = Older(gets) \cup {Request} /\ missed' = missed \ Stale
  BY DEF Refresh
<1>2. Request \in R /\ Request.current /\ Request.rows = -1 /\ Request.upto = -1
  BY <1>0 DEF Request
<1>3. ASSUME NEW o \in Older(gets)
      PROVE  o \in R /\ ~o.current /\ (o.upto # -1 => o.rows # -1 /\ o.upto >= o.rows - 1)
  <2>1. PICK q \in gets : o = [q EXCEPT !.current = FALSE]
    BY <1>3 DEF Older
  <2>2. q \in R
    BY DEF Kept
  <2>3. o \in R /\ ~o.current /\ o.rows = q.rows /\ o.upto = q.upto
    BY <2>1, <2>2
  <2>. QED
    BY <2>3 DEF Newest
<1>4. \A p, q \in gets' : p.current /\ q.current => p = q
  BY <1>1, <1>3
<1>5. \A q \in gets' : q.current /\ q.rows # -1 => q.rows >= entry'.rows
  BY <1>1, <1>2, <1>3
<1>6. \A q \in gets' : q.upto # -1 => q.rows # -1 /\ q.upto >= q.rows - 1
  BY <1>1, <1>2, <1>3
<1>7. Newest'
  BY <1>4, <1>5, <1>6 DEF Newest
<1>8. gets' \in SUBSET R /\ \E q \in gets' : q.current /\ q.rows = -1
  BY <1>1, <1>2, <1>3
<1>. QED
  BY <1>1, <1>7, <1>8

(* With a new request under way a refresh is owed whatever the page shows. *)
LEMMA OwedByRequest == (\E q \in gets' : q.current /\ q.rows = -1) => Owed'
BY DEF Owed

-----------------------------------------------------------------------------
(* The engine and the requests of the detail *)

LEMMA WriteStep == PageInv /\ (Write \/ Say) => PageInv'
<1>. SUFFICES ASSUME PageInv, Write \/ Say PROVE PageInv'
  OBVIOUS
<1>0. /\ rows \in Nat /\ said \in Nat /\ rows <= Len(story) /\ Len(story) \in Nat
      /\ said \in {rows, rows - 1} /\ Seen \in Nat /\ Seen <= said
  BY KeptNumbers DEF PageInv, Kept
<1>1. UNCHANGED <<story, gets, entry, status, viewing, sub, cursor, timer, drain, poll, missed>>
  BY DEF Write, Say, held
<1>2. /\ rows' \in 0 .. Len(story) /\ said' \in {rows', rows' - 1} /\ said' >= 0
      /\ rows <= rows' /\ said <= said' /\ rows' \in Nat /\ said' \in Nat
  BY <1>0 DEF Write, Say
<1>3. Kept'
  <2>1. gets \in SUBSET [current : BOOLEAN, rows : -1 .. rows', upto : -1 .. said']
    BY <1>0, <1>2, GetsGrow DEF PageInv, Kept
  <2>2. (-1 .. rows) \subseteq (-1 .. rows') /\ (-1 .. said) \subseteq (-1 .. said')
        /\ (0 .. rows) \subseteq (0 .. rows') /\ (0 .. said) \subseteq (0 .. said')
    BY <1>0, <1>2
  <2>3. entry \in [rows : -1 .. rows', since : -1 .. rows', seq : -1 .. said', elapsed : 0 .. rows']
    BY <2>2 DEF PageInv, Kept
  <2>. QED
    BY <1>1, <1>2, <2>1, <2>2, <2>3 DEF PageInv, Kept
<1>4. Shaped' /\ Newest' /\ Mounted'
  BY <1>1 DEF PageInv, Shaped, Newest, Mounted, Seen
<1>5. Owed'
  <2>1. Seen' = Seen
    BY <1>1 DEF Seen
  <2>. QED
    BY <1>0, <1>1, <2>1 DEF Owed, Write, Say
<1>6. Heard' /\ ElapsedOfThisPass'
  BY <1>1, HeardKept, EntryKept DEF PageInv
<1>. QED
  BY <1>3, <1>4, <1>5, <1>6 DEF PageInv

LEMMA ReadStep == ASSUME PageInv, NEW q \in gets, ReadRows(q) \/ ReadEvents(q) PROVE PageInv'
<1>. DEFINE n == IF q.rows = -1 THEN [q EXCEPT !.rows = rows] ELSE [q EXCEPT !.upto = said]
            R == [current : BOOLEAN, rows : -1 .. rows, upto : -1 .. said]
<1>0. /\ rows \in Nat /\ said \in Nat /\ rows <= Len(story) /\ Len(story) \in Nat
      /\ said >= rows - 1 /\ entry.rows \in Int /\ entry.rows <= rows
  BY KeptNumbers DEF PageInv
<1>1. UNCHANGED <<story, rows, said, entry, status, viewing, sub, cursor, timer, drain, poll, missed>>
  BY DEF ReadRows, ReadEvents, held, server
<1>2. gets' = (gets \ {q}) \cup {n}
  BY DEF ReadRows, ReadEvents
<1>3. q \in R /\ q.rows \in -1 .. rows /\ q.upto \in -1 .. said
  BY DEF PageInv, Kept
<1>4. n \in R /\ n.current = q.current
  BY <1>0, <1>3
<1>5. CASE q.rows = -1
  <2>1. n.rows = rows /\ n.upto = q.upto /\ q.upto = -1
    BY <1>3, <1>5 DEF PageInv, Newest
  <2>. QED
    <3>1. Kept'
      BY <1>1, <1>2, <1>4 DEF PageInv, Kept
    <3>2. Shaped' /\ Mounted'
      BY <1>1 DEF PageInv, Shaped, Mounted, Seen
    <3>3. Newest'
      <4>1. \A x, y \in gets' : x.current /\ y.current => x = y
        BY <1>2, <1>4 DEF PageInv, Newest
      <4>2. \A x \in gets' : x.current /\ x.rows # -1 => x.rows >= entry'.rows
        BY <1>0, <1>1, <1>2, <2>1 DEF PageInv, Newest
      <4>3. \A x \in gets' : x.upto # -1 => x.rows # -1 /\ x.upto >= x.rows - 1
        BY <1>2, <2>1 DEF PageInv, Newest
      <4>. QED
        BY <4>1, <4>2, <4>3 DEF Newest
    <3>4. Owed'
      BY <1>1, <1>2, <1>4, <2>1 DEF PageInv, Owed, Seen
    <3>5. Heard' /\ ElapsedOfThisPass'
      BY <1>1, HeardKept, EntryKept DEF PageInv
    <3>. QED
      BY <3>1, <3>2, <3>3, <3>4, <3>5 DEF PageInv
<1>6. CASE q.rows # -1
  <2>1. n.rows = q.rows /\ n.upto = said
    BY <1>3, <1>6
  <2>. QED
    <3>1. Kept'
      BY <1>1, <1>2, <1>4 DEF PageInv, Kept
    <3>2. Shaped' /\ Mounted'
      BY <1>1 DEF PageInv, Shaped, Mounted, Seen
    <3>3. Newest'
      <4>1. \A x, y \in gets' : x.current /\ y.current => x = y
        BY <1>2, <1>4 DEF PageInv, Newest
      <4>2. \A x \in gets' : x.current /\ x.rows # -1 => x.rows >= entry'.rows
        BY <1>0, <1>1, <1>2, <1>4, <2>1 DEF PageInv, Newest
      <4>3. \A x \in gets' : x.upto # -1 => x.rows # -1 /\ x.upto >= x.rows - 1
        BY <1>0, <1>2, <1>3, <1>6, <2>1 DEF PageInv, Newest
      <4>. QED
        BY <4>1, <4>2, <4>3 DEF Newest
    <3>4. Owed'
      BY <1>1, <1>2, <1>4, <2>1 DEF PageInv, Owed, Seen
    <3>5. Heard' /\ ElapsedOfThisPass'
      BY <1>1, HeardKept, EntryKept DEF PageInv
    <3>. QED
      BY <3>1, <3>2, <3>3, <3>4, <3>5 DEF PageInv
<1>. QED
  BY <1>5, <1>6

(* What the page shows of an answer that counts. *)
LEMMA ShowStep ==
  ASSUME PageInv, NEW q \in gets, q.current, q.upto # -1, gets' = gets \ {q}, ShowDetail(q),
         UNCHANGED <<server, viewing, sub, cursor, timer, poll>>
  PROVE  PageInv'
<1>. DEFINE seq == IF entry.seq = -1 /\ q.upto > 0 THEN q.upto ELSE entry.seq
            life == LifeStep(q.rows)
            ended == life # entry.since /\ ~Live(life)
            holds == IsActive /\ \A i \in 1 .. seq : ~Says(i, Closing)
            time == Elapsed(q.rows, q.upto)
<1>0. /\ story \in Stories /\ rows \in Nat /\ said \in Nat /\ rows <= Len(story) /\ Len(story) \in Nat
      /\ said <= rows /\ entry.rows \in Int /\ entry.rows <= rows /\ Seen \in 0 .. said
      /\ entry.seq \in -1 .. said
  BY KeptNumbers DEF PageInv
<1>1. UNCHANGED <<story, rows, said, viewing, sub, cursor, timer, poll>>
  BY DEF server
<1>2. /\ q.rows \in 0 .. rows /\ q.upto \in 0 .. said /\ q.upto >= q.rows - 1
      /\ q.rows >= entry.rows
  BY <1>0 DEF PageInv, Kept, Newest
<1>3. entry' = [rows |-> q.rows, since |-> life, seq |-> seq, elapsed |-> time]
  BY DEF ShowDetail
<1>4. status' = "ready" /\ drain' = (drain \/ (ended /\ holds))
  BY DEF ShowDetail
<1>5. missed' = (missed \cup (IF seq # entry.seq /\ seq > q.rows THEN {"torn"} ELSE {}))
                  \cup (IF sub /\ ended /\ ~holds THEN {"again"} ELSE {})
  BY DEF ShowDetail
<1>6. life \in 0 .. q.rows
  BY <1>0, <1>2, LifeStepOf
<1>7. time \in 0 .. q.upto /\ (time # 0 => time > life)
  <2>1. q.rows \in 0 .. Len(story) /\ q.upto \in 0 .. Len(story)
    BY <1>0, <1>2
  <2>. QED
    BY <1>0, <1>2, <2>1, ElapsedOf
<1>8. seq \in -1 .. said
  BY <1>0, <1>2
<1>9. entry'.rows = q.rows /\ entry'.since = life /\ entry'.seq = seq /\ entry'.elapsed = time
  BY <1>3
<1>10. Kept'
  <2>1. entry' \in [rows : -1 .. rows, since : -1 .. rows, seq : -1 .. said, elapsed : 0 .. rows]
    BY <1>0, <1>2, <1>3, <1>6, <1>7, <1>8
  <2>. QED
    BY <1>1, <2>1 DEF PageInv, Kept
<1>11. Shaped'
  <2>1. drain' \in BOOLEAN
    BY <1>4
  <2>2. missed' \subseteq Stale \cup {"expired", "polled", "again"}
    BY <1>5 DEF PageInv, Shaped, Stale
  <2>. QED
    BY <1>1, <1>4, <2>1, <2>2 DEF PageInv, Shaped
<1>12. Newest'
  <2>1. \A x \in gets' : ~x.current
    BY DEF PageInv, Newest
  <2>. QED
    BY <2>1 DEF PageInv, Newest
<1>. HIDE DEF seq, life, time
<1>13. Mounted'
  <2>1. Seen <= IF seq = -1 THEN 0 ELSE seq
    BY <1>0, <1>2 DEF Seen, seq
  <2>2. Seen' = IF seq = -1 THEN 0 ELSE seq
    BY <1>9 DEF Seen
  <2>3. cursor \in 0 .. said
    BY DEF PageInv, Kept
  <2>. QED
    BY <1>0, <1>1, <1>4, <1>6, <1>8, <1>9, <2>1, <2>2, <2>3 DEF PageInv, Mounted
<1>14. Owed'
  <2>. SUFFICES ASSUME missed' \cap Stale = {}, q.rows # rows, ~(said < rows), ~timer
                PROVE  Seen' < said
    BY <1>1, <1>9 DEF Owed
  <2>1. missed \cap Stale = {} /\ ~(seq # entry.seq /\ seq > q.rows)
    BY <1>5 DEF Stale
  <2>2. said = rows /\ q.rows < rows /\ entry.rows # rows
    BY <1>0, <1>2
  <2>3. CASE seq = entry.seq
    <3>1. status # "idle" => Seen < said
      BY <2>1, <2>2 DEF PageInv, Owed, Newest
    <3>2. Seen' = Seen
      BY <1>9, <2>3 DEF Seen
    <3>3. status # "idle"
      BY DEF PageInv, Mounted
    <3>. QED
      BY <3>1, <3>2, <3>3
  <2>4. CASE seq # entry.seq
    <3>1. seq <= q.rows /\ seq > 0
      BY <1>2, <1>8, <2>1, <2>4 DEF seq
    <3>2. Seen' = seq
      BY <1>8, <1>9, <3>1 DEF Seen
    <3>. QED
      BY <1>0, <1>2, <1>8, <2>2, <3>1, <3>2
  <2>. QED
    BY <2>3, <2>4
<1>15. Heard'
  <2>. SUFFICES ASSUME sub, missed' \subseteq Stale, ~Live(life), ~drain'
                PROVE  /\ life = LifeStep(IF seq = -1 THEN 0 ELSE seq)
                       /\ \E k \in 1 .. seq : k > life /\ Says(k, Closing)
    BY <1>1, <1>9, HeardNext
  <2>1. ~ended /\ missed \subseteq Stale /\ ~drain
    BY <1>4, <1>5 DEF Stale
  <2>2. life = entry.since
    BY <2>1
  <2>3. /\ entry.since = LifeStep(Seen)
        /\ \E k \in 1 .. entry.seq : k > entry.since /\ Says(k, Closing)
    BY <2>1, <2>2 DEF PageInv, Heard, IsActive
  <2>4. entry.seq # -1 /\ seq = entry.seq
    BY <1>0, <2>3 DEF seq
  <2>. QED
    BY <2>2, <2>3, <2>4 DEF Seen
<1>16. ElapsedOfThisPass'
  <2>1. entry'.elapsed # 0 => entry'.elapsed > LifeStep(entry'.rows)
    BY <1>7, <1>9 DEF life
  <2>. QED
    BY <1>1, <2>1, ElapsedNext
<1>. QED
  BY <1>10, <1>11, <1>12, <1>13, <1>14, <1>15, <1>16 DEF PageInv

LEMMA AnswerStep == ASSUME PageInv, NEW q \in gets, Answer(q) PROVE PageInv'
<1>1. CASE q.current
  BY <1>1, ShowStep DEF Answer
<1>2. CASE ~q.current
  <2>1. gets' = gets \ {q} /\ UNCHANGED <<story, rows, said, entry, status, viewing, sub, cursor, timer, drain, poll, missed>>
    BY <1>2 DEF Answer, server
  <2>2. Kept' /\ Shaped' /\ Newest' /\ Mounted'
    BY <2>1 DEF PageInv, Kept, Shaped, Newest, Mounted, Seen
  <2>3. Owed'
    BY <1>2, <2>1 DEF PageInv, Owed, Seen
  <2>4. Heard' /\ ElapsedOfThisPass'
    BY <2>1, HeardKept, EntryKept DEF PageInv
  <2>. QED
    BY <2>2, <2>3, <2>4 DEF PageInv
<1>. QED
  BY <1>1, <1>2 DEF PageInv, Kept

LEMMA FailStep == ASSUME PageInv, NEW q \in gets, RequestFails(q) PROVE PageInv'
<1>1. gets' = gets \ {q} /\ UNCHANGED <<story, rows, said, entry, viewing, sub, cursor, timer, drain, poll>>
  BY DEF RequestFails, server, held
<1>2. \/ ~q.current /\ UNCHANGED <<status, missed>>
      \/ q.current /\ status' \in {"ready", "error"} /\ missed' = missed \cup {"failed"}
  BY DEF RequestFails, PageInv, Kept
<1>3. Kept' /\ Newest'
  BY <1>1 DEF PageInv, Kept, Newest
<1>4. Shaped' /\ Mounted'
  BY <1>1, <1>2 DEF PageInv, Shaped, Mounted, Seen, Stale
<1>5. Owed'
  <2>1. CASE ~q.current /\ UNCHANGED <<status, missed>>
    BY <1>1, <2>1 DEF PageInv, Owed, Seen
  <2>2. CASE missed' = missed \cup {"failed"}
    BY <2>2 DEF Owed, Stale
  <2>. QED
    BY <1>2, <2>1, <2>2
<1>6. Heard' /\ ElapsedOfThisPass'
  BY <1>1, <1>2, HeardKept, EntryKept DEF PageInv
<1>. QED
  BY <1>3, <1>4, <1>5, <1>6 DEF PageInv

-----------------------------------------------------------------------------
(* The page *)

(* A refresh that comes alone. *)
LEMMA RefreshStep ==
  ASSUME PageInv, Refresh, UNCHANGED <<story, rows, said, entry, sub, cursor, drain, poll>>,
         status' \in {"loading", "ready", "error"}, viewing' \in BOOLEAN, timer' \in BOOLEAN,
         sub => viewing'
  PROVE  PageInv'
<1>1. /\ gets' \in SUBSET [current : BOOLEAN, rows : -1 .. rows, upto : -1 .. said]
      /\ Newest'
      /\ \E q \in gets' : q.current /\ q.rows = -1
      /\ missed' = missed \ Stale
  BY RefreshDoes DEF PageInv
<1>2. Kept'
  BY <1>1 DEF PageInv, Kept
<1>3. Shaped' /\ Mounted'
  BY <1>1 DEF PageInv, Shaped, Mounted, Seen
<1>4. Owed'
  BY <1>1, OwedByRequest
<1>5. Heard' /\ ElapsedOfThisPass'
  BY <1>1, HeardKept, EntryKept DEF PageInv
<1>. QED
  BY <1>1, <1>2, <1>3, <1>4, <1>5 DEF PageInv

LEMMA VisitStep == PageInv /\ Visit => PageInv'
<1>. SUFFICES ASSUME PageInv, Visit PROVE PageInv'
  OBVIOUS
<1>0. /\ viewing' = TRUE
      /\ UNCHANGED <<story, rows, said, entry, sub, cursor, timer, drain, poll>>
  BY DEF Visit, server, held
<1>1. CASE status \in {"loading", "ready"}
  <2>1. UNCHANGED <<gets, status, missed>>
    BY <1>1 DEF Visit, Ensure
  <2>2. Kept' /\ Shaped' /\ Newest' /\ Mounted' /\ Owed'
    BY <1>0, <1>1, <2>1 DEF PageInv, Kept, Shaped, Newest, Mounted, Owed, Seen
  <2>3. Heard' /\ ElapsedOfThisPass'
    BY <1>0, <2>1, HeardKept, EntryKept DEF PageInv
  <2>. QED
    BY <2>2, <2>3 DEF PageInv
<1>2. CASE status \notin {"loading", "ready"}
  <2>1. Refresh /\ status' \in {"loading", "ready", "error"}
    BY <1>2 DEF Visit, Ensure, PageInv, Shaped
  <2>2. timer' \in BOOLEAN
    BY <1>0 DEF PageInv, Shaped
  <2>. QED
    BY <1>0, <2>1, <2>2, RefreshStep
<1>. QED
  BY <1>1, <1>2

LEMMA RetryStep == PageInv /\ (Retry \/ Refetch) => PageInv'
<1>. SUFFICES ASSUME PageInv, Retry \/ Refetch PROVE PageInv'
  OBVIOUS
<1>1. Refresh /\ UNCHANGED <<story, rows, said, entry, status, viewing, sub, cursor, drain, poll>>
  BY DEF Retry, Refetch, server, held
<1>2. timer' \in BOOLEAN /\ viewing' \in BOOLEAN /\ (sub => viewing')
  BY <1>1 DEF Retry, Refetch, held, PageInv, Shaped, Mounted
<1>3. status' \in {"loading", "ready", "error"}
  <2>1. CASE Retry
    BY <2>1 DEF Retry
  <2>2. CASE Refetch
    BY <1>1, <2>2 DEF PageInv, Shaped, Mounted, Refetch
  <2>. QED
    BY <2>1, <2>2
<1>. QED
  BY <1>1, <1>2, <1>3, RefreshStep

(* A stream that is closed loses the refetch that was armed, and says so. *)
LEMMA CloseStep == ASSUME PageInv, Close, viewing' \in BOOLEAN, viewing' => viewing PROVE PageInv'
<1>1. UNCHANGED <<story, rows, said, gets, entry, status, poll>>
  BY DEF Close, server
<1>2. /\ sub' = FALSE /\ cursor' = 0 /\ timer' = FALSE /\ drain' = FALSE
      /\ missed' = (missed \cap Stale) \cup (IF timer THEN {"left"} ELSE {})
  BY DEF Close
<1>3. Kept'
  <2>1. said \in Nat
    BY KeptNumbers DEF PageInv
  <2>. QED
    BY <1>1, <1>2, <2>1 DEF PageInv, Kept
<1>4. Shaped' /\ Newest' /\ Mounted'
  BY <1>1, <1>2 DEF PageInv, Shaped, Newest, Mounted, Stale
<1>5. Owed'
  <2>1. timer => "left" \in missed' \cap Stale
    BY <1>2 DEF Stale
  <2>2. missed \cap Stale \subseteq missed' \cap Stale
    BY <1>2
  <2>. QED
    BY <1>1, <2>1, <2>2 DEF PageInv, Owed, Seen
<1>6. Heard' /\ ElapsedOfThisPass'
  BY <1>1, <1>2, HeardNext, EntryKept DEF PageInv
<1>. QED
  BY <1>3, <1>4, <1>5, <1>6 DEF PageInv

LEMMA LeaveStep == PageInv /\ (Leave \/ Unmount) => PageInv'
<1>. SUFFICES ASSUME PageInv, Leave \/ Unmount PROVE PageInv'
  OBVIOUS
<1>1. CASE Close
  <2>1. viewing' \in BOOLEAN /\ (viewing' => viewing)
    BY DEF Leave, Unmount, PageInv, Shaped
  <2>. QED
    BY <1>1, <2>1, CloseStep
<1>2. CASE ~Close
  <2>1. /\ ~sub /\ viewing' = FALSE
        /\ UNCHANGED <<story, rows, said, gets, entry, status, sub, cursor, timer, drain, poll, missed>>
    BY <1>2 DEF Leave, Unmount, server, held
  <2>2. Kept' /\ Shaped' /\ Newest' /\ Mounted' /\ Owed'
    BY <2>1 DEF PageInv, Kept, Shaped, Newest, Mounted, Owed, Seen
  <2>3. Heard' /\ ElapsedOfThisPass'
    BY <2>1, HeardKept, EntryKept DEF PageInv
  <2>. QED
    BY <2>2, <2>3 DEF PageInv
<1>. QED
  BY <1>1, <1>2

LEMMA MountStep == PageInv /\ Mount => PageInv'
<1>. SUFFICES ASSUME PageInv, Mount PROVE PageInv'
  OBVIOUS
<1>1. /\ UNCHANGED <<story, rows, said, gets, entry, status, viewing, timer, drain, poll, missed>>
      /\ sub' = TRUE /\ cursor' = Seen /\ viewing /\ entry.since # -1 /\ (IsActive \/ drain)
  BY DEF Mount, Listens, server, Seen
<1>2. Seen \in 0 .. said /\ Seen \in Nat /\ Seen' = Seen
  BY <1>1, KeptNumbers DEF PageInv, Seen
<1>3. Kept' /\ Shaped' /\ Newest' /\ Mounted'
  BY <1>1, <1>2 DEF PageInv, Kept, Shaped, Newest, Mounted
<1>4. Owed'
  BY <1>1, <1>2 DEF PageInv, Owed
<1>5. Heard' /\ ElapsedOfThisPass'
  BY <1>1, HeardNext, EntryKept DEF PageInv, IsActive
<1>. QED
  BY <1>3, <1>4, <1>5 DEF PageInv

LEMMA DrainStep == PageInv /\ DrainExpires => PageInv'
<1>. SUFFICES ASSUME PageInv, DrainExpires PROVE PageInv'
  OBVIOUS
<1>1. /\ UNCHANGED <<story, rows, said, gets, entry, status, viewing, sub, cursor, timer, poll>>
      /\ drain' = FALSE /\ missed' = missed \cup (IF sub THEN {"expired"} ELSE {})
  BY DEF DrainExpires, server
<1>2. Kept' /\ Shaped' /\ Newest' /\ Mounted'
  BY <1>1 DEF PageInv, Kept, Shaped, Newest, Mounted, Seen
<1>3. Owed'
  BY <1>1 DEF PageInv, Owed, Seen
<1>4. Heard' /\ ElapsedOfThisPass'
  <2>1. sub => ~(missed' \subseteq Stale)
    BY <1>1 DEF Stale
  <2>. QED
    BY <1>1, <2>1, HeardNext, EntryKept DEF PageInv
<1>. QED
  BY <1>2, <1>3, <1>4 DEF PageInv

LEMMA PollStep == PageInv /\ (PollReads \/ PollAnswers) => PageInv'
<1>. SUFFICES ASSUME PageInv, PollReads \/ PollAnswers PROVE PageInv'
  OBVIOUS
<1>0. /\ story \in Stories /\ rows \in Nat /\ rows \in 0 .. Len(story)
      /\ UNCHANGED <<story, rows, said, gets, status, viewing, sub, cursor, timer, drain>>
  BY KeptNumbers DEF PageInv, Kept, PollReads, PollAnswers, server, held
<1>1. CASE PollReads
  <2>1. LifeStep(rows) \in -1 .. rows
    BY <1>0, LifeStepOf
  <2>2. poll' \in -1 .. rows /\ UNCHANGED <<entry, missed>>
    BY <1>1, <2>1 DEF PollReads
  <2>3. Kept' /\ Shaped' /\ Newest' /\ Mounted' /\ Owed'
    BY <1>0, <2>2 DEF PageInv, Kept, Shaped, Newest, Mounted, Owed, Seen
  <2>4. Heard' /\ ElapsedOfThisPass'
    BY <1>0, <2>2, HeardKept, EntryKept DEF PageInv
  <2>. QED
    BY <2>3, <2>4 DEF PageInv
<1>2. CASE PollAnswers
  <2>1. /\ poll # -1 /\ poll' = -1 /\ entry' = [entry EXCEPT !.since = poll]
        /\ missed' = missed \cup (IF sub /\ entry.since # poll /\ ~Live(poll) THEN {"polled"} ELSE {})
    BY <1>2 DEF PollAnswers
  <2>2. /\ entry' \in [rows : -1 .. rows, since : -1 .. rows, seq : -1 .. said, elapsed : 0 .. rows]
        /\ entry'.rows = entry.rows /\ entry'.seq = entry.seq /\ entry'.elapsed = entry.elapsed
        /\ entry'.since = poll
    BY <2>1 DEF PageInv, Kept
  <2>3. Kept'
    BY <1>0, <2>1, <2>2 DEF PageInv, Kept
  <2>4. Shaped' /\ Newest' /\ Mounted'
    BY <1>0, <2>1, <2>2 DEF PageInv, Shaped, Newest, Mounted, Seen
  <2>5. Owed'
    BY <1>0, <2>1, <2>2 DEF PageInv, Owed, Seen
  <2>6. ElapsedOfThisPass'
    BY <1>0, <2>2, ElapsedNext DEF PageInv, ElapsedOfThisPass
  <2>7. Heard'
    <3>1. CASE sub /\ entry.since # poll /\ ~Live(poll)
      BY <1>0, <2>1, <2>2, <3>1, HeardNext DEF Stale
    <3>2. CASE ~sub \/ entry.since = poll \/ Live(poll)
      BY <1>0, <2>1, <2>2, <3>2, HeardNext DEF PageInv, Heard, IsActive, Seen
    <3>. QED
      BY <3>1, <3>2
  <2>. QED
    BY <2>3, <2>4, <2>5, <2>6, <2>7 DEF PageInv
<1>. QED
  BY <1>1, <1>2

LEMMA DeliverStep == PageInv /\ Deliver => PageInv'
<1>. SUFFICES ASSUME PageInv, Deliver PROVE PageInv'
  OBVIOUS
<1>. DEFINE c == cursor + 1
            R == [current : BOOLEAN, rows : -1 .. rows, upto : -1 .. said]
<1>0. /\ story \in Stories /\ rows \in Nat /\ said \in Nat /\ rows <= Len(story) /\ Len(story) \in Nat
      /\ said <= rows /\ cursor \in Nat /\ Seen \in 0 .. said /\ Seen \in Nat
      /\ entry.seq \in -1 .. said /\ entry.since \in -1 .. rows
  BY KeptNumbers DEF PageInv
<1>1. /\ sub /\ cursor < said /\ cursor' = c
      /\ UNCHANGED <<story, rows, said, status, viewing, sub, poll>>
  BY DEF Deliver, server
<1>2. c \in 1 .. said /\ c \in Nat /\ c \in 1 .. Len(story)
  BY <1>0, <1>1
<1>3. viewing /\ entry.since # -1 /\ cursor <= Seen /\ status # "idle"
  BY <1>1 DEF PageInv, Mounted
<1>4. CASE c <= entry.seq
  <2>1. UNCHANGED <<gets, entry, timer, drain, missed>>
    BY <1>1, <1>4 DEF Deliver
  <2>2. c <= Seen /\ Seen' = Seen
    BY <1>4, <1>2, <2>1 DEF Seen
  <2>3. Kept' /\ Shaped' /\ Newest' /\ Mounted' /\ Owed'
    BY <1>1, <1>2, <2>1, <2>2 DEF PageInv, Kept, Shaped, Newest, Mounted, Owed
  <2>4. Heard' /\ ElapsedOfThisPass'
    BY <1>1, <2>1, HeardKept, EntryKept DEF PageInv
  <2>. QED
    BY <2>3, <2>4 DEF PageInv
<1>5. CASE ~(c <= entry.seq)
  <2>0. cursor = Seen
    BY <1>0, <1>3, <1>5 DEF Seen
  <2>1. /\ entry' = [entry EXCEPT !.seq = c, !.since = Patched(c)]
        /\ drain' = (~Says(c, Closing) /\ (drain \/ (IsActive /\ ~Live(Patched(c)))))
        /\ IF Says(c, Forced) THEN timer' = FALSE /\ Refresh
           ELSE timer' = TRUE /\ UNCHANGED <<gets, missed>>
    BY <1>1, <1>5 DEF Deliver, HandleMessage
  <2>2. Patched(c) \in 0 .. rows
    <3>1. LifeStep(c) \in 0 .. c
      BY <1>0, <1>2, LifeStepOf
    <3>. QED
      BY <1>0, <1>2, <1>3, <3>1 DEF Patched
  <2>3. /\ entry' \in [rows : -1 .. rows, since : -1 .. rows, seq : -1 .. said, elapsed : 0 .. rows]
        /\ entry'.rows = entry.rows /\ entry'.seq = c /\ entry'.elapsed = entry.elapsed
        /\ entry'.since = Patched(c)
    <3>. DEFINE p == Patched(c)
    <3>1. p \in -1 .. rows /\ c \in -1 .. said
      BY <1>0, <1>2, <2>2
    <3>2. entry' = [entry EXCEPT !.seq = c, !.since = p]
      BY <2>1
    <3>3. entry \in [rows : -1 .. rows, since : -1 .. rows, seq : -1 .. said, elapsed : 0 .. rows]
      BY DEF PageInv, Kept
    <3>. HIDE DEF c, p
    <3>4. entry' \in [rows : -1 .. rows, since : -1 .. rows, seq : -1 .. said, elapsed : 0 .. rows]
      BY <3>1, <3>2, <3>3
    <3>5. entry'.rows = entry.rows /\ entry'.seq = c /\ entry'.elapsed = entry.elapsed /\ entry'.since = p
      BY <3>2, <3>3
    <3>. QED
      BY <3>4, <3>5 DEF p
  <2>4. /\ gets' \in SUBSET R /\ Newest' /\ (missed' = missed \/ missed' = missed \ Stale)
        /\ timer' \in BOOLEAN /\ (timer' \/ \E q \in gets' : q.current /\ q.rows = -1)
    <3>1. CASE Says(c, Forced)
      <4>1. Refresh /\ timer' = FALSE
        BY <2>1, <3>1
      <4>. QED
        BY <1>1, <2>3, <4>1, RefreshDoes DEF PageInv
    <3>2. CASE ~Says(c, Forced)
      BY <2>1, <2>3, <3>2 DEF PageInv, Kept, Newest
    <3>. QED
      BY <3>1, <3>2
  <2>5. Kept'
    BY <1>1, <1>2, <2>3, <2>4 DEF PageInv, Kept
  <2>6. Shaped' /\ Mounted'
    <3>1. drain' \in BOOLEAN
      BY <2>1
    <3>2. Seen' = c
      BY <1>2, <2>3 DEF Seen
    <3>3. Shaped'
      BY <1>1, <2>4, <3>1 DEF PageInv, Shaped
    <3>. QED
      BY <1>1, <1>2, <1>3, <2>2, <2>3, <3>2, <3>3 DEF Mounted
  <2>7. Owed'
    BY <2>4 DEF Owed
  <2>8. ElapsedOfThisPass'
    BY <1>1, <2>3, ElapsedNext DEF PageInv, ElapsedOfThisPass
  <2>9. Heard'
    <3>. SUFFICES ASSUME missed' \subseteq Stale, ~Live(Patched(c)), ~drain'
                  PROVE  Patched(c) = LifeStep(c) /\ \E k \in 1 .. c : k > Patched(c) /\ Says(k, Closing)
      BY <1>1, <1>2, <2>3, HeardNext
    <3>0. /\ LifeStep(c) \in 0 .. c
          /\ LifeStep(c) = IF story[c].event = "lifecycle_changed" THEN c ELSE LifeStep(c - 1)
          /\ LifeStep(c) # 0 => story[LifeStep(c)].event = "lifecycle_changed"
      BY <1>0, <1>2, LifeStepOf, LifeStepNext
    <3>1. CASE Says(c, Closing)
      <4>1. story[c].event = "run_finished"
        BY <3>1 DEF Says, Closing
      <4>2. Patched(c) = LifeStep(c)
        BY <1>2, <1>3, <4>1 DEF Patched, Says
      <4>3. LifeStep(c) < c
        BY <1>2, <3>0, <4>1
      <4>. QED
        BY <1>2, <3>1, <4>2, <4>3
    <3>2. CASE ~Says(c, Closing)
      <4>1. ~drain /\ ~IsActive
        BY <2>1, <3>2
      <4>2. missed \subseteq Stale
        BY <2>4
      <4>3. /\ entry.since = LifeStep(Seen)
            /\ \E k \in 1 .. entry.seq : k > entry.since /\ Says(k, Closing)
        BY <1>1, <4>1, <4>2 DEF PageInv, Heard
      <4>4. PICK k \in 1 .. entry.seq : k > entry.since /\ Says(k, Closing)
        BY <4>3
      <4>5. entry.seq = Seen /\ c - 1 = Seen /\ k \in 1 .. c /\ k < c /\ k \in Nat
        BY <1>0, <1>2, <2>0, <4>4 DEF Seen
      <4>6. story[c].event # "lifecycle_changed"
        <5>. SUFFICES ASSUME story[c].event = "lifecycle_changed" PROVE FALSE
          OBVIOUS
        <5>1. Patched(c) = c
          BY <1>2, <1>3, <3>0 DEF Patched, Says
        <5>2. story[c].life \notin {"running", "paused"}
          BY <1>2, <5>1 DEF Live, Active
        <5>3. k \in DOMAIN story /\ c \in DOMAIN story /\ k < c /\ story[k].event = "run_finished"
          BY <1>0, <1>2, <4>4, <4>5, StoryIs DEF Says, Closing
        <5>4. PICK j \in (k + 1) .. (c - 1) : story[j].event = "lifecycle_changed"
          BY <1>0, <5>2, <5>3
        <5>5. j \in 1 .. Seen /\ Seen \in 0 .. Len(story)
          BY <1>0, <1>2, <4>5
        <5>6. j <= LifeStep(Seen)
          BY <1>0, <5>4, <5>5, LifeStepOf
        <5>. QED
          BY <1>0, <4>3, <4>4, <4>5, <5>5, <5>6
      <4>7. Patched(c) = entry.since
        BY <3>2, <4>6 DEF Patched, Says, Closing
      <4>8. LifeStep(c) = entry.since
        BY <3>0, <4>3, <4>5, <4>6
      <4>. QED
        BY <4>4, <4>5, <4>7, <4>8
    <3>. QED
      BY <3>1, <3>2
  <2>. QED
    BY <2>4, <2>5, <2>6, <2>7, <2>8, <2>9 DEF PageInv
<1>. QED
  BY <1>4, <1>5, <1>0

LEMMA PageStep == PageInv /\ [RunPageNext]_pageVars => PageInv'
<1>. SUFFICES ASSUME PageInv, [RunPageNext]_pageVars PROVE PageInv'
  OBVIOUS
<1>1. CASE Write \/ Say
  BY <1>1, WriteStep
<1>2. CASE \E q \in gets : ReadRows(q) \/ ReadEvents(q) \/ Answer(q) \/ RequestFails(q)
  BY <1>2, ReadStep, AnswerStep, FailStep
<1>3. CASE Visit \/ Retry \/ Leave \/ Mount \/ Unmount
  BY <1>3, VisitStep, RetryStep, LeaveStep, MountStep
<1>4. CASE Deliver \/ Refetch \/ DrainExpires \/ PollReads \/ PollAnswers
  BY <1>4, DeliverStep, RetryStep, DrainStep, PollStep
<1>5. CASE UNCHANGED pageVars
  <2>1. UNCHANGED <<story, rows, said, gets, entry, status, viewing, sub, cursor, timer, drain, poll, missed>>
    BY <1>5 DEF pageVars, server, held
  <2>2. Kept' /\ Shaped' /\ Newest' /\ Mounted' /\ Owed'
    BY <2>1 DEF PageInv, Kept, Shaped, Newest, Mounted, Owed, Seen
  <2>3. Heard' /\ ElapsedOfThisPass'
    BY <2>1, HeardKept, EntryKept DEF PageInv
  <2>. QED
    BY <2>2, <2>3 DEF PageInv
<1>. QED
  BY <1>1, <1>2, <1>3, <1>4, <1>5, Zenon DEF RunPageNext

-----------------------------------------------------------------------------

LEMMA PageShape == PageInv => RunPageTypeOK
<1>. SUFFICES ASSUME PageInv PROVE RunPageTypeOK
  OBVIOUS
<1>1. \A q \in gets : q.rows \in -1 .. rows /\ q.upto \in -1 .. said /\ q.current \in BOOLEAN
  BY DEF PageInv, Kept
<1>2. {viewing, sub, timer, drain} \subseteq BOOLEAN
  BY Zenon DEF PageInv, Shaped
<1>. QED
  BY <1>1, <1>2 DEF PageInv, Kept, Shaped, RunPageTypeOK

LEMMA PageOwes == PageInv => RefreshIsOwed
<1>. SUFFICES ASSUME PageInv, sub, missed \cap Stale = {}, entry.rows # rows
              PROVE  \/ said < rows \/ cursor < said \/ timer
                     \/ \E q \in gets : q.current /\ q.rows \in {-1, rows}
  BY DEF RefreshIsOwed
<1>1. status # "idle" /\ cursor <= Seen
  BY DEF PageInv, Mounted
<1>2. cursor \in Nat /\ Seen \in Nat /\ said \in Nat
  BY KeptNumbers DEF PageInv
<1>. QED
  BY <1>1, <1>2 DEF PageInv, Owed

LEMMA NeverBack == PageInv /\ [RunPageNext]_pageVars => [entry'.rows >= entry.rows]_pageVars
<1>. SUFFICES ASSUME PageInv, RunPageNext, ~UNCHANGED pageVars PROVE entry'.rows >= entry.rows
  OBVIOUS
<1>0. entry.rows \in Int /\ entry \in [rows : -1 .. rows, since : -1 .. rows, seq : -1 .. said, elapsed : 0 .. rows]
  BY KeptNumbers DEF PageInv, Kept
<1>1. CASE UNCHANGED entry
  BY <1>0, <1>1
<1>2. CASE \E q \in gets : Answer(q)
  <2>1. PICK q \in gets : Answer(q)
    BY <1>2
  <2>2. CASE q.current
    <3>1. entry'.rows = q.rows
      BY <2>1, <2>2 DEF Answer, ShowDetail
    <3>2. q.rows # -1 /\ q.rows >= entry.rows
      BY <2>1, <2>2 DEF Answer, PageInv, Newest
    <3>. QED
      BY <3>1, <3>2
  <2>3. CASE ~q.current
    BY <1>0, <2>1, <2>3 DEF Answer
  <2>. QED
    BY <2>2, <2>3
<1>3. CASE Deliver \/ PollAnswers
  <2>1. entry'.rows = entry.rows
    BY <1>0, <1>3 DEF Deliver, HandleMessage, PollAnswers
  <2>. QED
    BY <1>0, <2>1
<1>4. RunPageNext => UNCHANGED entry \/ (\E q \in gets : Answer(q)) \/ Deliver \/ PollAnswers
  BY DEF RunPageNext, Write, Say, ReadRows, ReadEvents, RequestFails, Visit, Retry, Leave, Mount, Unmount,
         Close, Refetch, DrainExpires, PollReads
<1>. QED
  BY <1>1, <1>2, <1>3, <1>4

LEMMA LastWord ==
  PageInv /\ [RunPageNext]_pageVars =>
    [sub /\ ~sub' /\ viewing' /\ missed \subseteq Stale
       => \E k \in 1 .. entry.seq : k > entry.since /\ Says(k, Closing)]_pageVars
<1>. SUFFICES ASSUME PageInv, RunPageNext, sub, ~sub', viewing', missed \subseteq Stale
              PROVE  \E k \in 1 .. entry.seq : k > entry.since /\ Says(k, Closing)
  OBVIOUS
<1>1. Unmount
  BY DEF RunPageNext, Write, Say, ReadRows, ReadEvents, Answer, RequestFails, Visit, Retry, Leave, Mount,
         Deliver, Refetch, DrainExpires, PollReads, PollAnswers, held
<1>2. ~IsActive /\ ~drain
  BY <1>1 DEF Unmount, Listens, PageInv, Mounted
<1>. QED
  BY <1>2 DEF PageInv, Heard

(* However requests, answers, failures and events fall, and for any story of *)
(* the run whose passes do not overlap: a refresh is owed while the page     *)
(* shows older rows than there are, the time it counts to is that of the    *)
(* pass it shows, two details answered in either order never take it back,  *)
(* and it hangs up on a run that ended only after the last word of that     *)
(* ending, but for the exceptions the properties name.                      *)
THEOREM PageIsSafe == RunPageSpec => PageSafe
<1>1. PageInv => RunPageTypeOK /\ RefreshIsOwed /\ ElapsedOfThisPass
  BY PageShape, PageOwes DEF PageInv
<1>. QED
  BY <1>1, PageInit, PageStep, NeverBack, LastWord, PTL
  DEF RunPageSpec, PageSafe, PageNeverGoesBack, HearsTheClosing
==============================================================================
