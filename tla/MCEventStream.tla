--------------------------- MODULE MCEventStream ----------------------------
(***************************************************************************)
(* The path of the events, with its one writer and one page watching, and  *)
(* the page of a run: one of the two at a time, as the first state says.   *)
(* EventStream shows how frames reach a page, and RunPage takes it from    *)
(* there.                                                                  *)
(***************************************************************************)
EXTENDS EventStream, RunPage

CONSTANTS supervisor

VARIABLE part        \* the part that runs

liveVars == <<part, vars, pageVars>>

\* A run watched from its first step, or taken up while its second pass runs.
PageOpensOn ==
  \/ Len(story) = 2 /\ rows = 0 /\ failures = 0
  \/ Len(story) = 3 /\ rows = 0 /\ failures = MaxFailures
  \/ Len(story) = 5 /\ rows = 3 /\ failures = MaxFailures

LiveInit ==
  /\ part \in {"stream", "page"}
  /\ Init /\ RunPageInit
  /\ IF part = "page" THEN PageOpensOn ELSE story = <<>> /\ failures = 0

Streams == part = "stream" /\ UNCHANGED <<part, pageVars>>

LiveNext ==
  \/ Streams /\ Next
  \/ part = "page" /\ RunPageNext /\ UNCHANGED <<part, vars>>

\* The fairness of EventStream, where it runs.
LiveSpec ==
  /\ LiveInit /\ [][LiveNext]_liveVars
  /\ WF_liveVars(Listen /\ Streams) /\ WF_liveVars(Announce /\ Streams)
  /\ WF_liveVars(Hear /\ Streams) /\ WF_liveVars(Dispatch /\ Streams)
  /\ WF_liveVars(Open /\ Streams) /\ WF_liveVars(Register /\ Streams)
  /\ WF_liveVars(Fetch /\ Streams) /\ WF_liveVars(Send /\ Streams)
  /\ WF_liveVars(Take /\ Streams) /\ WF_liveVars(Receive /\ Streams)

Step(e, l) == [event |-> e, life |-> l]
MCStories ==
  {<<>>,
   <<Step("idea", "running"), Step("lifecycle_changed", "failed")>>,
   <<Step("idea", "running"), Step("lifecycle_changed", "completed"), Step("run_finished", "completed")>>,
   <<Step("lifecycle_changed", "completed"), Step("run_finished", "completed"), Step("lifecycle_changed", "running"),
     Step("lifecycle_changed", "completed"), Step("run_finished", "completed")>>}
=============================================================================
