----------------------------- MODULE MCServices -----------------------------
(***************************************************************************)
(* The parts of the system that stand beside the engine, one at a time:    *)
(* the first state says which, and the others stay as they began.  Nothing *)
(* is shared between them, so each is checked as it would be alone; the    *)
(* fairness of each is owed where it runs.                                 *)
(***************************************************************************)
EXTENDS Workshop, Tickets, Supervisor, RunModels, Imports, Projection, Estimates

VARIABLE part        \* the part that runs

Parts == {"workshop", "tickets", "supervisor", "models", "imports", "projection", "estimates"}

svars == <<part, workshopVars, ticketVars, supVars, tableVars, importVars, shelfVars, estimateVars>>

ServicesInit ==
  /\ part \in Parts
  /\ WorkshopInit /\ TicketsInit /\ SupervisorInit /\ RunModelsInit
  /\ ImportsInit /\ ProjectionInit /\ EstimatesInit
  /\ part # "models" => stored = {} /\ modelRuns = <<>>
  /\ part # "estimates" => shape.rounds = 0 /\ shape.batch = 0 /\ shape.matches = 0 /\ shape.evolved = 0
                            /\ shape.workflow = "adaptive"

Alone(p) == part = p /\ UNCHANGED part

ServicesNext ==
  \/ /\ Alone("workshop") /\ WorkshopNext
     /\ UNCHANGED <<ticketVars, supVars, tableVars, importVars, shelfVars, estimateVars>>
  \/ /\ Alone("tickets") /\ TicketsNext
     /\ UNCHANGED <<workshopVars, supVars, tableVars, importVars, shelfVars, estimateVars>>
  \/ /\ Alone("supervisor") /\ SupervisorNext
     /\ UNCHANGED <<workshopVars, ticketVars, tableVars, importVars, shelfVars, estimateVars>>
  \/ /\ Alone("models") /\ RunModelsNext
     /\ UNCHANGED <<workshopVars, ticketVars, supVars, importVars, shelfVars, estimateVars>>
  \/ /\ Alone("imports") /\ ImportsNext
     /\ UNCHANGED <<workshopVars, ticketVars, supVars, tableVars, shelfVars, estimateVars>>
  \/ /\ Alone("projection") /\ ProjectionNext
     /\ UNCHANGED <<workshopVars, ticketVars, supVars, tableVars, importVars, estimateVars>>
  \/ /\ Alone("estimates") /\ EstimatesNext
     /\ UNCHANGED <<workshopVars, ticketVars, supVars, tableVars, importVars, shelfVars>>

ServicesSpec ==
  /\ ServicesInit /\ [][ServicesNext]_svars
  /\ \A n \in Ids : WF_svars(n \in DOMAIN calls /\ ThreadStep(n) /\ Alone("workshop")
       /\ UNCHANGED <<ticketVars, supVars, tableVars, importVars, shelfVars, estimateVars>>)
  /\ WF_svars(WorkshopTick /\ Alone("workshop")
       /\ UNCHANGED <<ticketVars, supVars, tableVars, importVars, shelfVars, estimateVars>>)
  /\ WF_svars(MainStep /\ Alone("supervisor")
       /\ UNCHANGED <<workshopVars, ticketVars, tableVars, importVars, shelfVars, estimateVars>>)
  /\ WF_svars(BeatStep /\ Alone("supervisor")
       /\ UNCHANGED <<workshopVars, ticketVars, tableVars, importVars, shelfVars, estimateVars>>)

\* A workshop's call and a supervisor's kill switch are answered for in the end.
PartsAnswer == WorkshopAnswered /\ KillSwitchWorks

----------------------------------------------------------------------------
(* Values *)

NoBody == [provider |-> Unsaid, tier |-> Unsaid, tiers |-> NoRows, overrides |-> NoRows]
Judge(m, e) == [ranking |-> [model |-> m, effort |-> e]]

MCSettingsBodies ==
  {[NoBody EXCEPT !.provider = "openai", !.tier = "med",
                  !.tiers = [med |-> Judge("gpt-6-astra", Unsaid), balanced |-> Judge(Unsaid, "max")]],
   [NoBody EXCEPT !.tier = "low", !.overrides = Judge("fable", "xhigh")],
   [NoBody EXCEPT !.tiers = [high |-> Judge("fable", Unsaid), standard |-> Judge(Unsaid, "low")]],
   [NoBody EXCEPT !.tier = "high", !.tiers = [high |-> Judge("fable", Unsaid)], !.overrides = Judge(Unsaid, "low")],
   NoBody}
MCRequests ==
  {Silent, [Silent EXCEPT !.tier = "quality"],
   [Silent EXCEPT !.provider = "openai", !.overrides = {NoRows}, !.runner = "demo"],
   [Silent EXCEPT !.tier = "med", !.overrides = {Judge("gpt-6-astra", "xhigh")}, !.workflow = "tournament"]}
MCOldSettings == {[NoBody EXCEPT !.tier = "balanced", !.overrides = Judge("gpt-6-astra", "max")]}
MCOldRuns ==
  {[config |-> [Silent EXCEPT !.tier = "balanced", !.runner = "claude"],
    table |-> [role \in Roles |-> [model |-> "claude-opus-5", effort |-> "high"]],
    lane |-> "claude", from |-> 0, silent |-> FALSE, release |-> 0]}
MCDrops == {[model |-> m, rung |-> "all"] : m \in {"fable", "gpt-5.6-sol", "gpt-6-astra"}}
             \cup {[model |-> "gpt-6-astra", rung |-> "max"], [model |-> "gpt-5.6-sol", rung |-> "xhigh"]}

MCArchive == <<[id |-> "a", kind |-> "good", hids |-> {"h1", "h2"}],
               [id |-> "b", kind |-> "unreadable", hids |-> {}],
               [id |-> "a", kind |-> "good", hids |-> {"h2"}],
               [id |-> "c", kind |-> "raises", hids |-> {"h1"}]>>

MCRunShapes == [workflow : {"tournament", "adaptive"}, rounds : {2}, batch : {7}, matches : {7}, evolved : {0, 2}]
          \cup [workflow : {"tournament", "adaptive"}, rounds : {0, 1}, batch : {0, 1}, matches : {0, 1},
                evolved : {0, 1}]
=============================================================================
