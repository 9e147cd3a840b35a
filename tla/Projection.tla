----------------------------- MODULE Projection -----------------------------
(***************************************************************************)
(* The run's directory: state.json, one file per idea, the overview and    *)
(* the spreadsheet, written from the database after every round and at the *)
(* end by the supervisor itself.  The rows are read in four transactions   *)
(* while the API archives ideas; the files are written one by one, each to *)
(* a temporary name and renamed, and the process may die anywhere; a       *)
(* projection that fails is left at what it had written.  Others read the  *)
(* directory at any moment and take state.json for its index.              *)
(***************************************************************************)
EXTENDS Integers, Sequences, FiniteSets

CONSTANTS
  ShelfIds,        \* bound: ideas
  MaxProjections   \* bound: projections started

\* The files there is one of.
Fixed == {"overview", "csv", "state"}

ASSUME ProjectionAssumption == MaxProjections \in Nat /\ ShelfIds \cap Fixed = {}

VARIABLES
  rowsNow,      \* idea -> "unborn", "active" or "archived"
  games,        \* pairs of ideas with a judged match
  overviewMd,   \* the report exists
  writer,       \* the projection under way: its step, what it read, what is left to write
  shelf,        \* file -> "absent", or what it holds
  halfWritten,  \* temporary files left behind by a death
  projections, lastWhole

shelfVars == <<rowsNow, games, overviewMd, writer, shelf, halfWritten, projections, lastWhole>>

ShelfIdle == [step |-> "idle", rows |-> {}, active |-> {}, games |-> {}, overview |-> FALSE, todo |-> <<>>]
Absent == [ideas |-> {}, active |-> {}, games |-> {}, there |-> FALSE, whole |-> TRUE]
ShelfFiles == Fixed \cup ShelfIds
AliveRows == {i \in ShelfIds : rowsNow[i] # "unborn"}
ActiveRows == {i \in ShelfIds : rowsNow[i] = "active"}
PairsOf(ids) == {p \in SUBSET ids : Cardinality(p) = 2}

ProjectionTypeOK ==
  /\ rowsNow \in [ShelfIds -> {"unborn", "active", "archived"}]
  /\ games \subseteq PairsOf(ShelfIds) /\ overviewMd \in BOOLEAN
  /\ writer.step \in {"idle", "run", "hypotheses", "matches", "write"}
  /\ \A f \in ShelfFiles : shelf[f].ideas \subseteq ShelfIds /\ shelf[f].there \in BOOLEAN
  /\ halfWritten \in BOOLEAN /\ projections \in 0 .. MaxProjections

ProjectionInit ==
  /\ rowsNow = [i \in ShelfIds |-> "unborn"]
  /\ games = {} /\ overviewMd = FALSE
  /\ writer = ShelfIdle
  /\ shelf = [f \in ShelfFiles |-> Absent]
  /\ halfWritten = FALSE /\ projections = 0 /\ lastWhole = {}

----------------------------------------------------------------------------
(* The run: its engine works between projections, people at any time *)

EngineWorks ==
  /\ writer.step = "idle" /\ ~overviewMd
  /\ \/ \E i \in ShelfIds \ AliveRows : rowsNow' = [rowsNow EXCEPT ![i] = "active"] /\ UNCHANGED <<games, overviewMd>>
     \/ \E p \in PairsOf(ActiveRows) \ games : games' = games \cup {p} /\ UNCHANGED <<rowsNow, overviewMd>>
     \/ AliveRows # {} /\ overviewMd' = TRUE /\ UNCHANGED <<rowsNow, games>>
  /\ UNCHANGED <<writer, shelf, halfWritten, projections, lastWhole>>

ArchiveIdea(i) ==
  /\ rowsNow[i] = "active" /\ rowsNow' = [rowsNow EXCEPT ![i] = "archived"]
  /\ UNCHANGED <<games, overviewMd, writer, shelf, halfWritten, projections, lastWhole>>

----------------------------------------------------------------------------
(* project_run *)

\* _project, after a round and at the end: it runs on the engine's own thread.
ReadRun ==
  /\ writer.step = "idle" /\ projections < MaxProjections /\ projections' = projections + 1
  /\ writer' = [ShelfIdle EXCEPT !.step = "hypotheses", !.overview = overviewMd]
  /\ UNCHANGED <<rowsNow, games, overviewMd, shelf, halfWritten, lastWhole>>

ReadHypotheses ==
  /\ writer.step = "hypotheses"
  /\ writer' = [writer EXCEPT !.step = "matches", !.rows = AliveRows, !.active = ActiveRows]
  /\ UNCHANGED <<rowsNow, games, overviewMd, shelf, halfWritten, projections, lastWhole>>

(* Mutant: the index is written first. *)
WriteOrderIndexFirst(w) == <<{"state"}, w.rows, IF w.overview THEN {"overview"} ELSE {}, {"csv"}>>
\* The ideas in the order they were read, the overview, the spreadsheet, the index.
WriteOrder(w) == <<w.rows, IF w.overview THEN {"overview"} ELSE {}, {"csv"}, {"state"}>>

\* The judged matches, and the reviews after them; the document is built here.
ReadMatches ==
  /\ writer.step = "matches"
  /\ writer' = [writer EXCEPT !.step = "write", !.games = games, !.todo = WriteOrder(writer)]
  /\ UNCHANGED <<rowsNow, games, overviewMd, shelf, halfWritten, projections, lastWhole>>

Document == [ideas |-> writer.rows, active |-> writer.active, games |-> writer.games, there |-> TRUE, whole |-> TRUE]

\* A death before the rename leaves the file that was there.
TornWrite(f) == UNCHANGED shelf

\* Files of one kind in any order; a name of the group at hand is next.
Due == IF Head(writer.todo) = {} THEN {} ELSE Head(writer.todo)

WriteFile ==
  /\ writer.step = "write" /\ writer.todo # <<>>
  /\ IF Due = {} THEN /\ writer' = [writer EXCEPT !.todo = Tail(@)]
                      /\ UNCHANGED shelf
     ELSE \E f \in Due :
            /\ shelf' = [shelf EXCEPT ![f] = Document]
            /\ writer' = [writer EXCEPT !.todo[1] = @ \ {f}]
  /\ UNCHANGED <<rowsNow, games, overviewMd, halfWritten, projections, lastWhole>>

EndProjection ==
  /\ writer.step = "write" /\ writer.todo = <<>>
  /\ writer' = ShelfIdle /\ lastWhole' = writer.rows
  /\ UNCHANGED <<rowsNow, games, overviewMd, shelf, halfWritten, projections>>

\* The process dies, or a write raises and the engine swallows it: the file at
\* hand may be half written under its temporary name.
ProjectionFails ==
  /\ writer.step # "idle"
  /\ writer' = ShelfIdle
  /\ IF writer.step = "write" /\ writer.todo # <<>> /\ Due # {}
     THEN \E f \in Due : TornWrite(f) /\ halfWritten' \in BOOLEAN /\ (halfWritten => halfWritten')
     ELSE UNCHANGED <<shelf, halfWritten>>
  /\ UNCHANGED <<rowsNow, games, overviewMd, projections, lastWhole>>

ProjectionNext ==
  \/ EngineWorks \/ ReadRun \/ ReadHypotheses \/ ReadMatches \/ WriteFile \/ EndProjection \/ ProjectionFails
  \/ \E i \in ShelfIds : ArchiveIdea(i)

ProjectionSpec == ProjectionInit /\ [][ProjectionNext]_shelfVars

----------------------------------------------------------------------------
(* Properties *)

(* Whenever somebody looks, the index is a whole document that names only what
   is on disk: a file for each idea, both sides of each match among its ideas. *)
IndexNeverDangles ==
  shelf["state"].there =>
    /\ shelf["state"].whole
    /\ \A i \in shelf["state"].ideas : shelf[i].there /\ shelf[i].whole
    /\ \A p \in shelf["state"].games : p \subseteq shelf["state"].ideas

(* The directory never goes back: the index holds every idea and match of the
   last projection that ended, and never more than the spreadsheet was given. *)
ShelfKeepsUp ==
  /\ lastWhole \subseteq shelf["state"].ideas
  /\ shelf["state"].ideas \subseteq shelf["csv"].ideas
  /\ shelf["state"].games \subseteq games

(* The directory can be read at any moment, and does not go back. *)
ShelfSafe == ProjectionTypeOK /\ IndexNeverDangles /\ ShelfKeepsUp
=============================================================================
