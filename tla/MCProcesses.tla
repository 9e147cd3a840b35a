----------------------------- MODULE MCProcesses -----------------------------
(***************************************************************************)
(* The processes of the engine for TLC: one model call against its child   *)
(* (RoleCall), and one killing of a tree (KillTree).  They share no state: *)
(* the first state says which of the two runs, and the fairness of each is *)
(* owed where it runs.                                                     *)
(***************************************************************************)
EXTENDS MCRoleCall, KillTree

VARIABLE part        \* the part that runs

pvars == <<part, vars, killVars>>

ProcessesInit ==
  /\ part \in {"call", "kill"} /\ Init /\ KillInit
  /\ part = "call" => target = Self /\ proc = CHOOSE f \in Forests : TRUE
  /\ part = "kill" => cfg = CHOOSE c \in Calls : TRUE

InCall(A) == part = "call" /\ A /\ UNCHANGED <<part, killVars>>
InKill(A) == part = "kill" /\ A /\ UNCHANGED <<part, vars>>

ProcessesSpec ==
  /\ ProcessesInit /\ [][InCall(Next) \/ InKill(KillNext)]_pvars
  /\ WF_pvars(InCall(Runner)) /\ WF_pvars(InCall(Tick)) /\ WF_pvars(InKill(Killer))

\* Every call returns, whatever its child does, and every killing comes to an end,
\* however fast its tree forks.
ProcessesAnswer == (part = "call" => CallReturns) /\ (part = "kill" => Terminates)

----------------------------------------------------------------------------
(* Values: the killer (pid 1) with a parent, a child and a grandchild about it, *)
(* in several shapes; any pid may be the target.                                *)

P(born, ppid, image) ==
  [born |-> born, ppid |-> ppid, state |-> "running", image |-> image, immune |-> FALSE]
None == [born |-> NoOne, ppid |-> NoOne, state |-> "none", image |-> "none", immune |-> FALSE]

\* A child with a child; a parent with another child; two processes that are no relations.
MCForests ==
  {<<P(1, NoOne, "ours"), P(2, 1, "ours"), P(3, 2, "other"), None>>,
   <<P(2, 2, "ours"), P(1, NoOne, "ours"), P(3, 2, "ours"), None>>,
   <<P(1, NoOne, "ours"), P(2, NoOne, "ours"), None, P(3, NoOne, "other")>>}
=============================================================================
