------------------------------- MODULE Imports -------------------------------
(***************************************************************************)
(* Bringing the archived runs into the database.  A pass walks the archive *)
(* in a fixed order and imports one directory per transaction; one runs at *)
(* every boot and one more whenever an administrator asks, two at once if  *)
(* two ask, while people rename, archive and delete what was imported.     *)
(* Runs match on their id and hypotheses on their hid; what has no natural *)
(* key (reviews, matches, graft events) is deleted and written anew.  The  *)
(* first statement of a transaction upserts the owner's row.               *)
(***************************************************************************)
EXTENDS Integers, Sequences, FiniteSets

CONSTANTS
  FirstArchive,   \* the directories in the order they are walked: [id, kind, hids]
  Passes,         \* bound: passes at a time
  Hids,           \* hypothesis ids that occur
  MaxPasses,      \* bound: passes ever started
  MaxChanges,     \* bound: changes people make to a run or to the archive
  MaxDeaths       \* bound: times the API dies

ArchiveIds == {FirstArchive[i].id : i \in DOMAIN FirstArchive}
Directories == [id : ArchiveIds, kind : {"good", "unreadable", "raises"}, hids : SUBSET Hids]

ASSUME ImportsAssumption ==
  /\ MaxPasses \in Nat /\ MaxChanges \in Nat /\ MaxDeaths \in Nat
  /\ FirstArchive \in Seq(Directories)

VARIABLES
  archive,    \* the directories
  imported,   \* run id -> the row
  hyps,       \* run id -> hid -> primary key, 0 for none
  rebuilt,    \* run id -> what was written by id of the transaction, with its hids
  pass,       \* the passes
  keysDrawn, passesRun, changes, deaths

importVars == <<archive, imported, hyps, rebuilt, pass, keysDrawn, passesRun, changes, deaths>>
importBounds == <<passesRun, changes, deaths>>

NoRow == [there |-> FALSE, title |-> "", archived |-> FALSE, deleted |-> FALSE, dir |-> 0]
IdlePass == [pc |-> "idle", at |-> 0, seen |-> {}, hids |-> {}, loaded |-> NoRow, doomed |-> {}]

ImportsTypeOK ==
  /\ \A id \in ArchiveIds :
       /\ imported[id].title \in {"", "derived", "renamed"} /\ imported[id].dir \in 0 .. Len(archive)
       /\ \A h \in Hids : hyps[id][h] \in 0 .. keysDrawn
       /\ \A b \in rebuilt[id] : b.hids \subseteq Hids
  /\ \A p \in Passes : pass[p].pc \in {"idle", "next", "begin", "find", "children", "commit"}
                       /\ pass[p].at \in 0 .. Len(archive) + 1

ImportsInit ==
  /\ archive = FirstArchive
  /\ imported = [id \in ArchiveIds |-> NoRow]
  /\ hyps = [id \in ArchiveIds |-> [h \in Hids |-> 0]]
  /\ rebuilt = [id \in ArchiveIds |-> {}]
  /\ pass = [p \in Passes |-> IdlePass]
  /\ keysDrawn = 0 /\ passesRun = 0 /\ changes = 0 /\ deaths = 0

Here(p) == archive[pass[p].at]
At(p, q) == [pass EXCEPT ![p] = q]
Go(p, pc) == At(p, [pass[p] EXCEPT !.pc = pc])

----------------------------------------------------------------------------
(* A pass: import_all *)

StartPass(p) ==
  /\ pass[p].pc = "idle" /\ passesRun < MaxPasses /\ passesRun' = passesRun + 1
  /\ pass' = At(p, [IdlePass EXCEPT !.pc = "next", !.at = 1])
  /\ UNCHANGED <<archive, imported, hyps, rebuilt, keysDrawn, changes, deaths>>

SeenBefore(p) == Here(p).id \in pass[p].seen

\* read_run_dir: what cannot be parsed is passed over, and so is a second of its id.
NextDirectory(p) ==
  /\ pass[p].pc = "next"
  /\ pass' = IF pass[p].at > Len(archive) THEN At(p, IdlePass)
             ELSE IF Here(p).kind = "unreadable" \/ SeenBefore(p) THEN At(p, [pass[p] EXCEPT !.at = @ + 1])
             ELSE At(p, [pass[p] EXCEPT !.pc = "begin", !.seen = @ \cup {Here(p).id}, !.hids = Here(p).hids])
  /\ UNCHANGED <<archive, imported, hyps, rebuilt, keysDrawn, importBounds>>

(* Mutant: the owner's row is read, or inserted, and not written. *)
OwnerRead(p) == TRUE
(* The upsert of the owner's row is held to the end of the transaction: a
   second pass waits for it, whatever directory either is at. *)
OwnerFree(p) == \A o \in Passes \ {p} : pass[o].pc \notin {"find", "children", "commit"}

UpsertOwner(p) ==
  /\ pass[p].pc = "begin" /\ OwnerFree(p)
  /\ pass' = Go(p, "find")
  /\ UNCHANGED <<archive, imported, hyps, rebuilt, keysDrawn, importBounds>>

FindRun(p) ==
  /\ pass[p].pc = "find"
  /\ pass' = At(p, [pass[p] EXCEPT !.pc = "children", !.loaded = imported[Here(p).id]])
  /\ UNCHANGED <<archive, imported, hyps, rebuilt, keysDrawn, importBounds>>

\* The deletes see what is committed when they run; a directory may raise here,
\* which ends the pass with its transaction, not with those before.
ImportChildren(p) ==
  /\ pass[p].pc = "children"
  /\ pass' = IF Here(p).kind = "raises" THEN At(p, IdlePass)
             ELSE At(p, [pass[p] EXCEPT !.pc = "commit", !.doomed = rebuilt[Here(p).id]])
  /\ UNCHANGED <<archive, imported, hyps, rebuilt, keysDrawn, importBounds>>

\* A hypothesis already there keeps its key.
KeyFor(id, h) == IF hyps[id][h] # 0 THEN hyps[id][h] ELSE keysDrawn + 1

\* What import_run_dir leaves of the row; a field equal to what was loaded is not written.
Reset(row, loaded, dir) ==
  [there    |-> TRUE,
   title    |-> IF loaded.title = "derived" THEN row.title ELSE "derived",
   archived |-> row.archived /\ ~loaded.archived,
   deleted  |-> row.deleted /\ ~loaded.deleted,
   dir      |-> dir]

Rebuilt(p) == (rebuilt[Here(p).id] \ pass[p].doomed) \cup {[key |-> keysDrawn + 1, hids |-> pass[p].hids]}

\* A run somebody else inserted meanwhile is a unique violation: the pass ends.
CommitRun(p) ==
  LET id == Here(p).id
  IN /\ pass[p].pc = "commit"
     /\ IF imported[id].there /\ ~pass[p].loaded.there
        THEN /\ pass' = At(p, IdlePass)
             /\ UNCHANGED <<imported, hyps, rebuilt, keysDrawn>>
        ELSE /\ imported' = [imported EXCEPT ![id] = Reset(imported[id], pass[p].loaded, pass[p].at)]
             /\ hyps' = [hyps EXCEPT ![id] = [h \in Hids |-> IF h \in pass[p].hids THEN KeyFor(id, h) ELSE 0]]
             /\ rebuilt' = [rebuilt EXCEPT ![id] = Rebuilt(p)]
             /\ keysDrawn' = keysDrawn + 1
             /\ pass' = At(p, [pass[p] EXCEPT !.pc = "next", !.at = @ + 1])
     /\ UNCHANGED <<archive, importBounds>>

----------------------------------------------------------------------------
(* Everybody else *)

Changes == changes < MaxChanges /\ changes' = changes + 1

\* PATCH and DELETE, on a run that is there and not deleted.
PatchRun(id) ==
  /\ Changes /\ imported[id].there /\ ~imported[id].deleted
  /\ \/ imported' = [imported EXCEPT ![id] = [imported[id] EXCEPT !.title = "renamed"]]
     \/ imported' = [imported EXCEPT ![id] = [imported[id] EXCEPT !.archived = ~@]]
  /\ UNCHANGED <<archive, hyps, rebuilt, pass, keysDrawn, passesRun, deaths>>

DeleteRun(id) ==
  /\ Changes /\ imported[id].there /\ ~imported[id].deleted
  /\ imported' = [imported EXCEPT ![id] = [imported[id] EXCEPT !.deleted = TRUE]]
  /\ UNCHANGED <<archive, hyps, rebuilt, pass, keysDrawn, passesRun, deaths>>

\* Somebody restores a directory from elsewhere, between passes.
ArchiveChanges(i) ==
  /\ Changes /\ \A p \in Passes : pass[p].pc = "idle"
  /\ \E hids \in SUBSET Hids : hids # archive[i].hids /\ archive' = [archive EXCEPT ![i] = [archive[i] EXCEPT !.hids = hids]]
  /\ UNCHANGED <<imported, hyps, rebuilt, pass, keysDrawn, passesRun, deaths>>

\* The process ends: what was not committed never was.
ApiDies ==
  /\ deaths < MaxDeaths /\ deaths' = deaths + 1
  /\ \E p \in Passes : pass[p].pc # "idle"
  /\ pass' = [p \in Passes |-> IdlePass]
  /\ UNCHANGED <<archive, imported, hyps, rebuilt, keysDrawn, passesRun, changes>>

ImportsNext ==
  \/ \E p \in Passes : StartPass(p) \/ NextDirectory(p) \/ UpsertOwner(p) \/ FindRun(p)
                         \/ ImportChildren(p) \/ CommitRun(p)
  \/ \E id \in ArchiveIds : PatchRun(id) \/ DeleteRun(id)
  \/ \E i \in DOMAIN archive : ArchiveChanges(i)
  \/ ApiDies

ImportsSpec == ImportsInit /\ [][ImportsNext]_importVars

----------------------------------------------------------------------------
(* Properties *)

(* What an imported run holds is one reading of one directory, whole and once:
   two passes at once do not double its matches, and a pass that died or raised
   leaves no half of one.  The code's only guard is the owner's row. *)
ChildrenOfOneReading ==
  \A id \in ArchiveIds :
    /\ Cardinality(rebuilt[id]) = IF imported[id].there THEN 1 ELSE 0
    /\ \A b \in rebuilt[id] : {h \in Hids : hyps[id][h] # 0} = b.hids

(* A hypothesis that stays in the archive keeps its key, which is in URLs. *)
AddressesSurvive ==
  [][\A id \in ArchiveIds, h \in Hids :
       hyps[id][h] # 0 /\ hyps'[id][h] # 0 => hyps'[id][h] = hyps[id][h]]_importVars

(* Of two directories with one run id the first in the walk is the run, however
   often and however concurrently the archive is read. *)
FirstTwinWins ==
  \A id \in ArchiveIds :
    imported[id].there =>
      \A i \in DOMAIN archive : archive[i].id = id /\ archive[i].kind = "good" => imported[id].dir <= i

(* The imported runs are what the archive says, once each, under the keys they
   first had. *)
ImportsSafe ==
  [](ImportsTypeOK /\ ChildrenOfOneReading /\ FirstTwinWins) /\ AddressesSurvive
=============================================================================
