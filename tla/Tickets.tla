------------------------------ MODULE Tickets -------------------------------
(***************************************************************************)
(* Stream tickets and the token middleware that redeems them.  Tickets     *)
(* live in one dictionary of the API process.  They are issued by request  *)
(* handlers on worker threads, which purge the expired ones first, a walk  *)
(* over the dictionary and then a deletion each; they are consumed on the  *)
(* event loop, where one pop decides.  Between two bytecodes of an issuer  *)
(* anything may happen to the dictionary.                                  *)
(***************************************************************************)
EXTENDS Integers, Sequences, FiniteSets

CONSTANTS
  TicketIds,      \* bound: uuids ever drawn
  StreamRuns,     \* runs whose events may be watched
  Issuers,        \* worker threads
  Ttl,            \* TICKET_TTL_SECONDS
  TicketTime      \* bound: the clock

ASSUME TicketsAssumption == Ttl \in Nat \ {0} /\ TicketTime \in Nat

VARIABLES
  issued,     \* the dictionary: ticket -> run and expiry
  dictSize,   \* what the walk over it started from, per issuer
  issuer,     \* the issuers
  clock,      \* time.monotonic
  told,       \* ticket -> what its scientist was given: run and expiry
  admitted    \* ticket -> the runs whose stream it opened, in order

ticketVars == <<issued, dictSize, issuer, clock, told, admitted>>

Grant == [run : StreamRuns, expires : 0 .. (TicketTime + Ttl)]
Nothing == [run |-> "none", expires |-> 0]
Granted(f) == {t \in TicketIds : f[t] # Nothing}

IdleIssuer == [pc |-> "idle", run |-> "none", expired |-> {}, now |-> 0]

TicketsTypeOK ==
  /\ issued \in [TicketIds -> Grant \cup {Nothing}] /\ told \in [TicketIds -> Grant \cup {Nothing}]
  /\ issuer \in [Issuers -> [pc : {"idle", "walk", "purge", "insert"}, run : StreamRuns \cup {"none"},
                             expired : SUBSET TicketIds, now : 0 .. TicketTime]]
  /\ clock \in 0 .. TicketTime
  /\ \A t \in TicketIds : admitted[t] \in Seq(StreamRuns)

TicketsInit ==
  /\ issued = [t \in TicketIds |-> Nothing] /\ told = [t \in TicketIds |-> Nothing]
  /\ admitted = [t \in TicketIds |-> <<>>]
  /\ dictSize = [i \in Issuers |-> 0]
  /\ issuer = [i \in Issuers |-> IdleIssuer]
  /\ clock = 0

Stopped(i) == issuer' = [issuer EXCEPT ![i] = IdleIssuer]

----------------------------------------------------------------------------
(* issue: purge_expired, then the insertion *)

AskForTicket(i, r) ==
  /\ issuer[i].pc = "idle"
  /\ issuer' = [issuer EXCEPT ![i] = [pc |-> "walk", run |-> r, expired |-> {}, now |-> clock]]
  /\ dictSize' = [dictSize EXCEPT ![i] = Cardinality(Granted(issued))]
  /\ UNCHANGED <<issued, clock, told, admitted>>

Expired(now) == {t \in Granted(issued) : issued[t].expires <= now}

(* The walk raises when another thread changed the dictionary under it; the
   request answers 500 and no ticket was drawn. *)
Walk(i) ==
  /\ issuer[i].pc = "walk"
  /\ IF Cardinality(Granted(issued)) # dictSize[i]
     THEN Stopped(i)
     ELSE issuer' = [issuer EXCEPT ![i] = [issuer[i] EXCEPT !.pc = "purge", !.expired = Expired(issuer[i].now)]]
  /\ UNCHANGED <<issued, dictSize, clock, told, admitted>>

\* One deletion; a key another thread took first raises.
Purge(i) ==
  /\ issuer[i].pc = "purge" /\ issuer[i].expired # {}
  /\ \E t \in issuer[i].expired :
       IF issued[t] = Nothing
       THEN Stopped(i) /\ UNCHANGED issued
       ELSE /\ issued' = [issued EXCEPT ![t] = Nothing]
            /\ issuer' = [issuer EXCEPT ![i] = [issuer[i] EXCEPT !.expired = @ \ {t}]]
  /\ UNCHANGED <<dictSize, clock, told, admitted>>

Issue(i) ==
  /\ issuer[i].pc = "purge" /\ issuer[i].expired = {}
  /\ \E t \in TicketIds :
       LET grant == [run |-> issuer[i].run, expires |-> clock + Ttl]
       IN /\ told[t] = Nothing
          /\ issued' = [issued EXCEPT ![t] = grant]
          /\ told' = [told EXCEPT ![t] = grant]
  /\ Stopped(i)
  /\ UNCHANGED <<dictSize, clock, admitted>>

----------------------------------------------------------------------------
(* OptionalTokenAuthMiddleware: who gets past it, and at what price *)

Paths == {"health", "page", "docs", "events", "api"}

IsWebUiPath(path) == path = "page"

Waved(q) == q.options \/ q.path = "health" \/ IsWebUiPath(q.path)

\* Only then is the query looked at, and only on the stream's path.
Redeems(q) == ~Waved(q) /\ ~q.header /\ q.path = "events" /\ q.ticket # "none"

Consumable(t, r) == issued[t] # Nothing /\ issued[t].expires > clock /\ issued[t].run = r

(* Mutant: a ticket is looked up and kept. *)
Kept(t, r) == issued
\* pop: spent whether or not it was good.
Spent(t, r) == [issued EXCEPT ![t] = Nothing]

QueryCredentialOk(q) ==
  q.path = "events" /\ ((q.ticket # "none" /\ Consumable(q.ticket, q.run)) \/ q.query)

Dispatch(q) ==
  /\ Redeems(q)
  /\ issued' = Spent(q.ticket, q.run)
  /\ admitted' = IF Consumable(q.ticket, q.run) THEN [admitted EXCEPT ![q.ticket] = Append(@, q.run)] ELSE admitted
  /\ UNCHANGED <<dictSize, issuer, clock, told>>

\* What the middleware answers: the request goes on, or 401.
GoesOn(q) == Waved(q) \/ q.header \/ QueryCredentialOk(q)

TicketTick ==
  /\ clock < TicketTime /\ clock' = clock + 1
  /\ UNCHANGED <<issued, dictSize, issuer, told, admitted>>

TicketsNext ==
  \/ \E i \in Issuers : Walk(i) \/ Purge(i) \/ Issue(i) \/ \E r \in StreamRuns : AskForTicket(i, r)
  \/ \E t \in TicketIds, r \in StreamRuns :
       Dispatch([path |-> "events", options |-> FALSE, header |-> FALSE, query |-> FALSE,
                 ticket |-> t, run |-> r])
  \/ TicketTick

TicketsSpec == TicketsInit /\ [][TicketsNext]_ticketVars

----------------------------------------------------------------------------
(* Properties *)

(* A ticket opens one stream, once, whoever issues and purges meanwhile. *)
OneConnection == \A t \in TicketIds : Len(admitted[t]) <= 1

(* A stream opened on a ticket is the run's it was issued for, and before its
   time is up; and one taken out of the dictionary is never put back. *)
TicketsAreBound ==
  [][\A t \in TicketIds :
       /\ admitted'[t] # admitted[t] =>
            admitted'[t] = Append(admitted[t], told[t].run) /\ clock < told[t].expires
       /\ issued[t] = Nothing /\ told[t] # Nothing => issued'[t] = Nothing]_ticketVars

(* A ticket leaves the dictionary by being presented or by its time: a purge
   that walked on while others issued and redeemed takes no ticket still good. *)
PurgeTakesTheExpired ==
  [][\A t \in TicketIds : issued[t] # Nothing /\ issued'[t] = Nothing /\ UNCHANGED admitted /\ issuer' # issuer
       => told[t].expires <= clock]_ticketVars

(* A ticket opens one stream, of its own run and in its own time. *)
TicketsSafe ==
  [](TicketsTypeOK /\ OneConnection) /\ TicketsAreBound /\ PurgeTakesTheExpired
=============================================================================
