------------------------------ MODULE EventFeed ------------------------------
(***************************************************************************)
(* What the live view of a run promises its reader, with nothing said of   *)
(* how: a run's log only grows at its end, and a page shows the log in     *)
(* order, one event after the other, with none left out.  A page may       *)
(* begin in the middle, at an event of the log (the run's detail carries   *)
(* the most recent ones), and a page that is reloaded starts again.        *)
(* EventStream, the real path from the database to the page, is shown to   *)
(* implement it.                                                           *)
(***************************************************************************)
EXTENDS Integers

VARIABLES
  log,    \* the numbers of the events written so far
  shown   \* the number of the last event the page shows, 0 for none

feed == <<log, shown>>

Init == log = {} /\ shown = 0

\* The log grows, and only beyond everything in it.
Write == \E n \in log' :
  /\ n > 0 /\ \A m \in log : m < n
  /\ log' = log \cup {n}
  /\ UNCHANGED shown

\* The page shows the next event: nothing between the two is in the log.
Show == \E n \in log :
  /\ shown < n
  /\ \A m \in log : ~(shown < m /\ m < n)
  /\ shown' = n
  /\ UNCHANGED log

\* A page that shows nothing yet begins at some event of the log.
Join ==
  /\ shown = 0
  /\ shown' \in log
  /\ UNCHANGED log

Forget == shown' = 0 /\ UNCHANGED log

Next == Write \/ Show \/ Join \/ Forget

Spec == Init /\ [][Next]_feed
==============================================================================
