------------------------------ MODULE RoleCall ------------------------------
(***************************************************************************)
(* One model call: ClaudeCliRunner.run_role and CodexCliRunner.run_role    *)
(* against the child process they start.  The child writes lines to a pipe *)
(* (and, for Codex, an answer file); a helper it starts may keep the pipe  *)
(* open after it; it may close its output, hang or exit whenever it likes. *)
(* The runner reads under a deadline that moves when an answer arrives,    *)
(* follows the child's exit past a pipe nobody closes, kills the tree at   *)
(* the deadline, and decides what the call was worth.                      *)
(*                                                                         *)
(* Lines that change nothing (unknown envelopes, text that is not JSON),   *)
(* the tail kept for display, rate-limit marks and the scratch directory   *)
(* are left out.  All engine roles have a schema, so the call without one  *)
(* is left out too, and Claude's CLI submits no empty object for one.      *)
(***************************************************************************)
EXTENDS Integers, Sequences, FiniteSets, Models

CONSTANTS
  Calls,         \* the calls: [provider, model, tools, grounded]
  Tools,         \* tools a CLI may offer
  Usages,        \* sets of model names a result line may report
  Timeout,       \* cfg.timeout_s
  Grace,         \* STRUCTURED_GRACE_S, ANSWER_GRACE_S
  SpawnTimeout,  \* SPAWN_TIMEOUT_S
  Drain,         \* EXIT_DRAIN_S
  MaxLines,      \* bound: lines a child writes
  PipeSize,      \* bound: lines the pipe holds
  MaxTime        \* bound: when the clock stops

StructuredOutput == "StructuredOutput"
Never == -1

ASSUME RoleCallAssumption ==
  /\ {Timeout, Grace, SpawnTimeout, Drain, MaxLines, PipeSize, MaxTime} \subseteq Nat
  /\ Calls \subseteq [provider : {"claude", "codex"}, model : AllowedModels,
                      tools : SUBSET Tools, grounded : BOOLEAN]
  /\ StructuredOutput \in Tools

VARIABLES
  cfg,      \* the call
  pc,       \* where run_role is
  clock,    \* time since `started`
  until,    \* when the wait of the present phase gives up
  child,    \* [alive, stdout, lines, gone]: the process, its end of the pipe, lines
            \* written and, for the properties, when it ended
  helper,   \* a process of the child's that holds the pipe
  pipe,     \* lines written and not read
  file,     \* codex: what the last-message file holds
  trace,    \* what the stream said
  outcome,  \* what kill_process_tree said
  ret       \* the RoleResult

vars == <<cfg, pc, clock, until, child, helper, pipe, file, trace, outcome, ret>>

Claude == cfg.provider = "claude"

Bodies == {"none", "bad", "empty", "good"}   \* text that parses to no object, {}, an answer

\* The lines a CLI writes.
Lines ==
  IF Claude
  THEN [kind : {"init"}, tools : SUBSET Tools, foreign : BOOLEAN]
       \cup [kind : {"turn"}, answer : {"none", "good"}]
       \cup [kind : {"result"}, is_error : BOOLEAN, denied : BOOLEAN,
             structured : {"none", "good"}, ran : Usages]
  ELSE [kind : {"agent_message"}, answer : {"bad", "empty", "good"}]
       \cup [kind : {"error", "turn.failed"}, refusal : BOOLEAN]
       \cup [kind : {"turn.completed"}]

NoResult == [kind |-> "none", is_error |-> FALSE, denied |-> FALSE,
             structured |-> "none", ran |-> {}]

EmptyTrace ==
  [init |-> "none", answer |-> "none", answer_at |-> Never, turns |-> 0, result |-> NoResult,
   errors |-> {}, completed |-> FALSE]

NoRet == [ok |-> FALSE, error |-> "none", data |-> "none", degraded |-> FALSE,
          tokens |-> 0]

Init ==
  /\ cfg \in Calls
  /\ pc = "spawn" /\ clock = 0 /\ until = SpawnTimeout
  /\ child = [alive |-> FALSE, stdout |-> FALSE, lines |-> 0, gone |-> Never]
  /\ helper = FALSE /\ pipe = <<>> /\ file = "none"
  /\ trace = EmptyTrace /\ outcome = "none" /\ ret = NoRet

----------------------------------------------------------------------------
(* The child and its helper *)

\* The CLI names itself before anything else and ends with its result.
Say ==
  /\ child.alive /\ child.stdout /\ child.lines < MaxLines /\ Len(pipe) < PipeSize
  /\ \E line \in Lines :
       /\ line.kind = "init" => child.lines = 0
       /\ pipe' = Append(pipe, line)
       /\ child' = [child EXCEPT !.lines = IF line.kind \in {"result", "turn.completed"}
                                           THEN MaxLines ELSE @ + 1]
  /\ UNCHANGED <<cfg, pc, clock, until, helper, file, trace, outcome, ret>>

WriteFile ==
  /\ child.alive /\ ~Claude /\ file = "none"
  /\ file' \in Bodies \ {"none"}
  /\ UNCHANGED <<cfg, pc, clock, until, child, helper, pipe, trace, outcome, ret>>

StartHelper ==
  /\ child.alive /\ child.stdout /\ child.lines < MaxLines /\ ~helper
  /\ helper' = TRUE
  /\ UNCHANGED <<cfg, pc, clock, until, child, pipe, file, trace, outcome, ret>>

HelperEnds ==
  /\ helper /\ helper' = FALSE
  /\ UNCHANGED <<cfg, pc, clock, until, child, pipe, file, trace, outcome, ret>>

CloseOutput ==
  /\ child.alive /\ child.stdout
  /\ child' = [child EXCEPT !.stdout = FALSE]
  /\ UNCHANGED <<cfg, pc, clock, until, helper, pipe, file, trace, outcome, ret>>

Exit ==
  /\ child.alive
  /\ child' = [child EXCEPT !.alive = FALSE, !.stdout = FALSE, !.gone = clock]
  /\ UNCHANGED <<cfg, pc, clock, until, helper, pipe, file, trace, outcome, ret>>

Child == Say \/ WriteFile \/ StartHelper \/ HelperEnds \/ CloseOutput \/ Exit

----------------------------------------------------------------------------
(* What a line says *)

Permitted == cfg.tools \cup {StructuredOutput}

\* _check_init: foreign stands for an MCP server, a slash command or a bypassed permission mode.
InitOk(line) == ~line.foreign /\ cfg.tools \subseteq line.tools /\ line.tools \subseteq Permitted

ReadAssistant(line) ==
  [trace EXCEPT !.turns = @ + 1,
                !.answer = IF line.answer = "none" THEN @ ELSE line.answer,
                !.answer_at = IF line.answer = "none" THEN @ ELSE clock]

ClaudeLine(line) ==
  CASE line.kind = "init"   -> [trace EXCEPT !.init = IF InitOk(line) THEN "ok" ELSE "refused"]
    [] line.kind = "turn"   -> ReadAssistant(line)
    [] line.kind = "result" -> [trace EXCEPT !.result = line]

\* The last message wins, whatever it holds.
HandleItem(line) == [trace EXCEPT !.answer = line.answer, !.answer_at = clock]

CodexLine(line) ==
  CASE line.kind = "turn.completed" -> [trace EXCEPT !.completed = TRUE, !.turns = 1]
    [] line.kind \in {"error", "turn.failed"} ->
         [trace EXCEPT !.errors = @ \cup {IF line.kind = "error" /\ line.refusal
                                          THEN "refusal" ELSE "failed"}]
    [] line.kind = "agent_message" -> HandleItem(line)

Refused == trace.init = "refused"

----------------------------------------------------------------------------
(* The runner *)

\* Mutant: once the answer is there, the grace is all that is left.
GraceOnly == IF trace.answer_at # Never THEN trace.answer_at + Grace ELSE Timeout

\* Mutant: a call that has its answer is left to finish.
LeftToFinish == IF trace.answer_at # Never THEN MaxTime + 1 ELSE Timeout

Deadline ==
  IF trace.answer_at # Never /\ trace.answer_at + Grace > Timeout
  THEN trace.answer_at + Grace ELSE Timeout

Consuming == pc \in {"reading", "draining", "stderr", "exit"}

Goto(phase) == pc' = phase /\ UNCHANGED <<cfg, clock, child, helper, pipe, file, trace, outcome, ret>>

SpawnRoleProcess ==
  /\ pc = "spawn"
  /\ pc' = "reading" /\ until' = 0 /\ child' = [child EXCEPT !.alive = TRUE, !.stdout = TRUE]
  /\ UNCHANGED <<cfg, clock, helper, pipe, file, trace, outcome, ret>>

\* The gate's checks and the budget guard raise before anything starts.
SpawnRefused ==
  /\ pc = "spawn"
  /\ Goto("raised") /\ UNCHANGED until

ReadLine ==
  /\ pc \in {"reading", "draining"} /\ pipe # <<>> /\ ~Refused
  /\ trace' = IF Claude THEN ClaudeLine(Head(pipe)) ELSE CodexLine(Head(pipe))
  /\ pipe' = Tail(pipe)
  /\ pc' = IF Claude /\ trace'.init = "refused" THEN "refuse" ELSE pc
  /\ UNCHANGED <<cfg, clock, until, child, helper, file, outcome, ret>>

PipeClosed == ~child.stdout /\ ~helper

EndOfStream ==
  /\ pc \in {"reading", "draining"} /\ pipe = <<>> /\ PipeClosed
  /\ Goto("stderr") /\ until' = clock + Drain

\* _exited: the exit status is known whatever the pipes are doing.
ExitSeen == ~child.alive

NoticeExit ==
  /\ pc = "reading" /\ ExitSeen
  /\ Goto("draining") /\ until' = clock + Drain

StopReading ==
  /\ pc = "draining" /\ clock >= until
  /\ Goto("stderr") /\ until' = clock + Drain

\* Then the exit status, which process.wait() gives only once every pipe is closed.
StderrOver ==
  /\ pc = "stderr" /\ (clock >= until \/ (~child.alive /\ ~helper))
  /\ Goto(IF child.alive THEN "exit" ELSE "conclude")
  /\ until' = IF child.alive THEN clock + Drain ELSE 0

ExitCode ==
  /\ pc = "exit" /\ (clock >= until \/ (~child.alive /\ ~helper))
  /\ Goto("conclude") /\ until' = 0

DeadlinePasses ==
  /\ Consuming /\ clock >= Deadline
  /\ Goto("kill") /\ until' = 0

\* kill_process_tree: a child that is gone is not killed, and one whose identity cannot be
\* proved, or that does not die, is left.
KillProcessTree ==
  /\ pc \in {"kill", "refuse"}
  /\ \/ /\ ~child.alive
        /\ outcome' \in {"exited", "vanished"} /\ UNCHANGED <<child, helper>>
     \/ /\ child.alive /\ outcome' = "killed"
        /\ child' = [child EXCEPT !.alive = FALSE, !.stdout = FALSE, !.gone = clock]
        /\ helper' = FALSE
     \/ /\ child.alive /\ outcome' = "refused" /\ UNCHANGED <<child, helper>>
  /\ pc' = IF pc = "kill" THEN "timed_out" ELSE "refused"
  /\ UNCHANGED <<cfg, clock, until, pipe, file, trace, ret>>

----------------------------------------------------------------------------
(* What the call was worth *)

\* _failure: salvaged excuses a missing result line, and nothing else.
ClaudeFailure(salvaged) ==
  IF trace.result = NoResult /\ ~salvaged THEN "no result"
  ELSE IF trace.init = "none" THEN "no init"
  ELSE IF trace.result.is_error THEN "is_error"
  ELSE IF trace.result.denied /\ cfg.grounded THEN "denied"
  ELSE "none"

\* The result's object, or else the transcript's.
Structured == IF trace.result.structured # "none" THEN trace.result.structured ELSE trace.answer

Swap == CheckSubstitution(cfg.model, IF Claude THEN trace.result.ran ELSE {})

Result(error, data, degraded, tokens) ==
  [ok |-> error = "none", error |-> error, data |-> IF error = "none" THEN data ELSE "none",
   degraded |-> degraded, tokens |-> tokens]

ClaudeTokens == trace.turns
CodexTokens  == IF trace.completed THEN trace.turns ELSE 0

ClaudeResult(error, salvaged) ==
  LET judged == IF error # "none" THEN error ELSE ClaudeFailure(salvaged)
      wrong  == IF judged = "none" /\ Fatal(Swap) THEN "substitution" ELSE judged
      final  == IF wrong = "none" /\ Structured = "none" THEN "no answer" ELSE wrong
  IN IF salvaged /\ judged = "none"
     THEN Result("none", trace.answer, TRUE, ClaudeTokens)
     ELSE Result(final, Structured, Swap.swapped, ClaudeTokens)

Parsed(body) == IF body = "bad" THEN "none" ELSE body

\* _salvage: {} on disk counts as something recovered.
Salvage ==
  IF Claude THEN trace.answer # "none"
  ELSE Parsed(file) # "none" \/ Parsed(trace.answer) # "none"

\* _result: {} on disk does not shadow an answer in the transcript.
CodexData ==
  IF Parsed(file) = "good" THEN "good"
  ELSE IF Parsed(trace.answer) = "good" THEN "good" ELSE Parsed(file)

CodexFailure(salvaged) ==
  IF "refusal" \in trace.errors THEN "metadata"
  ELSE IF trace.errors # {} THEN "turn failed"
  ELSE IF ~trace.completed /\ ~salvaged THEN "no turn.completed"
  ELSE IF CodexData \in {"none", "empty"} THEN "no answer"
  ELSE "none"

CodexResult(error, salvaged) ==
  LET judged == IF error # "none" THEN error ELSE CodexFailure(salvaged)
  IN Result(judged, CodexData, salvaged /\ judged = "none", CodexTokens)

\* Mutant: the kill excuses everything.
SalvageBlindly(error, salvaged) ==
  IF salvaged THEN Result("none", "good", TRUE, trace.turns)
  ELSE IF Claude THEN ClaudeResult(error, salvaged) ELSE CodexResult(error, salvaged)

Results(error, salvaged) ==
  IF Claude THEN ClaudeResult(error, salvaged) ELSE CodexResult(error, salvaged)

Return(error, salvaged) ==
  /\ pc' = "done" /\ ret' = Results(error, salvaged)
  /\ UNCHANGED <<cfg, clock, until, child, helper, pipe, file, trace, outcome>>

SpawnTimesOut == pc = "spawn" /\ clock >= until /\ Return("spawn timeout", FALSE)

Conclude == pc = "conclude" /\ Return("none", FALSE)

ConcludeTimeout ==
  pc = "timed_out" /\ IF Salvage THEN Return("none", TRUE) ELSE Return("timeout", FALSE)

ConcludeRefused == pc = "refused" /\ Return("init refused", FALSE)

----------------------------------------------------------------------------
\* Timers and the poll for the child's exit fire on time.
Due ==
  \/ pc \in {"spawn", "draining", "stderr", "exit"} /\ clock >= until
  \/ Consuming /\ clock >= Deadline
  \/ pc = "reading" /\ ExitSeen
  \/ pc \in {"conclude", "timed_out", "refused"}

Tick ==
  /\ clock < MaxTime /\ ~Due /\ pc \notin {"done", "raised"}
  /\ clock' = clock + 1
  /\ UNCHANGED <<cfg, pc, until, child, helper, pipe, file, trace, outcome, ret>>

Runner ==
  \/ SpawnRoleProcess \/ SpawnRefused \/ SpawnTimesOut
  \/ ReadLine \/ EndOfStream \/ NoticeExit \/ StopReading \/ StderrOver \/ ExitCode
  \/ DeadlinePasses \/ KillProcessTree
  \/ Conclude \/ ConcludeTimeout \/ ConcludeRefused

Returned == pc \in {"done", "raised"} /\ UNCHANGED vars

\* From the kill to the return nothing waits, so what the child does then is not seen.
Watched == Consuming \/ pc \in {"kill", "refuse"}

Next == (Watched /\ Child) \/ Runner \/ Tick \/ Returned

\* The event loop runs the runner and time passes; nothing is asked of the child.
Fairness == WF_vars(Runner) /\ WF_vars(Tick)

Spec == Init /\ [][Next]_vars /\ Fairness

----------------------------------------------------------------------------
(* Properties *)

Phases == {"spawn", "reading", "draining", "stderr", "exit", "kill", "refuse", "conclude",
           "timed_out", "refused", "done", "raised"}

Times == 0 .. MaxTime

Errors ==
  {"none", "spawn timeout", "timeout", "init refused", "no result", "no init", "is_error", "denied",
   "substitution", "metadata", "turn failed", "no turn.completed", "no answer"}

TypeOK ==
  /\ cfg \in Calls /\ pc \in Phases
  /\ clock \in Times /\ until \in Nat
  /\ child \in [alive : BOOLEAN, stdout : BOOLEAN, lines : 0 .. MaxLines,
                gone : Times \cup {Never}]
  /\ helper \in BOOLEAN /\ pipe \in Seq(Lines) /\ file \in Bodies
  /\ trace \in [init : {"none", "ok", "refused"}, answer : Bodies,
                answer_at : Times \cup {Never}, turns : 0 .. MaxLines,
                result : {NoResult} \cup Lines, errors : SUBSET {"refusal", "failed"},
                completed : BOOLEAN]
  /\ outcome \in {"none", "exited", "vanished", "killed", "refused"}
  /\ ret \in [ok : BOOLEAN, error : Errors, data : Bodies, degraded : BOOLEAN,
              tokens : 0 .. MaxLines + 1]

\* Whatever way a call ends, at the deadline included, it is a good answer only if the CLI
\* was checked and found as asked for, nothing it said makes the answer suspect, and there
\* is an answer (claude_runner._failure, codex_runner._failure).
OnlyTrusted ==
  ret.ok =>
    IF Claude
    THEN /\ trace.init = "ok" /\ ~trace.result.is_error
         /\ ~(trace.result.denied /\ cfg.grounded)
         /\ ret.data # "none"
    ELSE trace.errors = {} /\ ret.data = "good"

\* An answer that was read and that nothing speaks against is not lost when the process
\* has to be killed, nor when it ends on its own having said so (run_role, _salvage,
\* _structured: "throwing the answer away here is what left run c4566ed2 ...").
AnswerKept ==
  /\ pc = "done" /\ trace.answer = "good"
  /\ IF Claude THEN /\ trace.init = "ok" /\ ~trace.result.is_error
                   /\ ~trace.result.denied /\ ~Swap.swapped
     ELSE trace.errors = {}
  /\ outcome # "none" \/ trace.completed \/ trace.result # NoResult
  => ret.ok /\ ret.data = "good"

\* The runner does not sit on the pipe of a child that is gone: it gives the tail
\* EXIT_DRAIN_S and stops (_read_stdout_or_exit).
ReaderLetsGo ==
  pc \in {"reading", "draining"} /\ child.gone # Never => clock <= child.gone + Drain

\* A child still running when its call has been answered for either could not be proved
\* to be ours or had closed its own output; every other one is gone (run_role's kills).
NoneLeftRunning ==
  pc = "done" /\ child.alive => outcome = "refused" \/ ~child.stdout

\* A child is not killed before its full time is up, nor before the grace its latest
\* answer earned (_consume_within).
FullTimeAndGrace ==
  [][pc' = "kill" => /\ clock >= Timeout
                     /\ trace.answer_at # Never => clock >= trace.answer_at + Grace]_vars

\* Every call returns, whatever its child does.
CallReturns == <>(pc \in {"done", "raised"})

\* "A downgrade below the provider's floor fails the call even when everything else about
\* it succeeded" (claude_runner._result).
SubstitutionFails == ret.ok => ~Fatal(Swap)

\* What the runner says of a call is what the call did: no answer of a suspect
\* call is taken, no good one thrown away.
VerdictHolds == TypeOK /\ OnlyTrusted /\ AnswerKept

\* The runner neither waits on a child that is gone, nor leaves one running, nor
\* kills one before its time.
ChildHandled == [](ReaderLetsGo /\ NoneLeftRunning) /\ FullTimeAndGrace
=============================================================================
