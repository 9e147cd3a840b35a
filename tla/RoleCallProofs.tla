--------------------------- MODULE RoleCallProofs ----------------------------
(***************************************************************************)
(* Proofs about one call of a provider, for any calls, tools, times and    *)
(* pipe; and about the models of a run, for any settings, requests and     *)
(* releases.  They share the catalog and no state.                         *)
(***************************************************************************)
EXTENDS RoleCall, RunModels, SequenceTheorems, TLAPS

LEMMA Numbers ==
  /\ Timeout \in Nat /\ Grace \in Nat /\ SpawnTimeout \in Nat /\ Drain \in Nat
  /\ MaxLines \in Nat /\ PipeSize \in Nat /\ MaxTime \in Nat
  /\ \A c \in Calls : c.provider \in {"claude", "codex"}
BY RoleCallAssumption

-----------------------------------------------------------------------------
(* Types. *)

Traces ==
  [init : {"none", "ok", "refused"}, answer : Bodies, answer_at : Times \cup {Never},
   turns : 0 .. MaxLines, result : {NoResult} \cup Lines,
   errors : SUBSET {"refusal", "failed"}, completed : BOOLEAN]
Children == [alive : BOOLEAN, stdout : BOOLEAN, lines : 0 .. MaxLines, gone : Times \cup {Never}]
Rets == [ok : BOOLEAN, error : Errors, data : Bodies, degraded : BOOLEAN, tokens : 0 .. MaxLines + 1]
Outcomes == {"none", "exited", "vanished", "killed", "refused"}

(* Every turn read was a line the child wrote, and so is every line unread. *)
Read == trace.turns + Len(pipe) <= child.lines

(* The result line a call may have read. *)
ResultLines ==
  [kind : {"result"}, is_error : BOOLEAN, denied : BOOLEAN, structured : {"none", "good"},
   ran : Usages]
Reported == trace.result = NoResult \/ (Claude /\ trace.result \in ResultLines)

Typed == TypeOK /\ Read /\ Reported

(* What each provider's stream can say, and what is true of each phase. *)
Spoken ==
  /\ Claude => trace.errors = {} /\ ~trace.completed
  /\ ~Claude => /\ trace.init = "none" /\ trace.result = NoResult
                /\ ~trace.completed => trace.turns = 0
                /\ trace.completed => trace.turns = 1
  /\ trace.init = "refused" => pc \in {"refuse", "refused", "done"}
  /\ pc \in {"refuse", "refused"} => trace.init = "refused"
  /\ pc = "spawn" => trace = EmptyTrace /\ child.gone = Never /\ ~child.alive
  /\ outcome # "none" => pc \in {"timed_out", "refused", "done"}
  /\ pc \notin {"done", "raised"} => ret = NoRet
  /\ pc = "raised" => ret = NoRet

Gone ==
  /\ child.gone # Never => ~child.alive /\ child.gone <= clock
  /\ pc = "reading" /\ ~child.alive => child.gone = clock
  /\ pc = "reading" /\ child.gone # Never => clock = child.gone
  /\ pc = "draining" => clock <= until /\ until <= child.gone + Drain /\ ~child.alive
  /\ pc \in {"stderr", "exit", "conclude"} => ~child.alive \/ ~child.stdout
  /\ pc \in {"timed_out", "refused"} => ~child.alive \/ outcome = "refused"
  /\ pc = "done" /\ child.alive => outcome = "refused" \/ ~child.stdout
  /\ pc = "kill" => /\ clock >= Timeout
                    /\ trace.answer_at # Never => clock >= trace.answer_at + Grace

Verdict == OnlyTrusted /\ AnswerKept

LEMMA Init0 == Init => Typed /\ Spoken /\ Gone /\ Verdict
<1>. SUFFICES ASSUME Init PROVE Typed /\ Spoken /\ Gone /\ Verdict
  OBVIOUS
<1>1. pipe \in Seq(Lines) /\ Len(pipe) = 0
  BY DEF Init
<1>2. TypeOK
  <2>1. trace \in Traces
    <3>. HIDE DEF NoResult, Lines
    <3>. QED
      BY Numbers DEF Init, EmptyTrace, Traces, Bodies
  <2>2. child \in Children
    BY Numbers DEF Init, Children, Times
  <2>3. ret \in Rets
    BY Numbers DEF Init, NoRet, Rets, Bodies, Errors
  <2>4. /\ cfg \in Calls /\ pc \in Phases /\ clock \in Times /\ until \in Nat
        /\ file \in Bodies /\ outcome \in Outcomes
    BY Numbers DEF Init, Phases, Times, Bodies, Outcomes
  <2>5. helper \in BOOLEAN
    BY Zenon DEF Init
  <2>. QED
    BY <1>1, <2>1, <2>2, <2>3, <2>4, <2>5 DEF TypeOK, Traces, Children, Rets, Outcomes
<1>3. Read
  BY <1>1 DEF Init, Read, EmptyTrace
<1>4. Spoken
  BY DEF Init, Spoken, EmptyTrace, NoRet
<1>5. Gone
  BY DEF Init, Gone
<1>6. Verdict
  BY DEF Init, Verdict, OnlyTrusted, AnswerKept, NoRet
<1>7. Reported
  BY DEF Init, Reported, EmptyTrace
<1>. QED
  BY <1>2, <1>3, <1>4, <1>5, <1>6, <1>7 DEF Typed

-----------------------------------------------------------------------------
(* Reading a line. *)
LEMMA LineKinds ==
  ASSUME NEW line \in Lines
  PROVE  \/ Claude /\ line \in [kind : {"init"}, tools : SUBSET Tools, foreign : BOOLEAN]
         \/ Claude /\ line \in [kind : {"turn"}, answer : {"none", "good"}]
         \/ Claude /\ line \in ResultLines
         \/ ~Claude /\ line \in [kind : {"agent_message"}, answer : {"bad", "empty", "good"}]
         \/ ~Claude /\ line \in [kind : {"error", "turn.failed"}, refusal : BOOLEAN]
         \/ ~Claude /\ line \in [kind : {"turn.completed"}]
BY DEF Lines, ResultLines

LEMMA Taken ==
  ASSUME Typed, ReadLine
  PROVE  /\ Head(pipe) \in Lines /\ pipe' = Tail(pipe) /\ pipe' \in Seq(Lines)
         /\ Len(pipe') = Len(pipe) - 1 /\ Len(pipe) \in Nat /\ Len(pipe) > 0
<1>1. pipe \in Seq(Lines) /\ pipe # <<>> /\ pipe' = Tail(pipe)
  BY DEF Typed, TypeOK, ReadLine
<1>. QED
  BY <1>1, EmptySeq, HeadTailProperties, LenProperties

LEMMA TypedParts ==
  Typed <=> /\ cfg \in Calls /\ pc \in Phases /\ clock \in Times /\ until \in Nat
            /\ child \in Children /\ helper \in BOOLEAN /\ pipe \in Seq(Lines) /\ file \in Bodies
            /\ trace \in Traces /\ outcome \in Outcomes /\ ret \in Rets /\ Read /\ Reported
BY Zenon DEF Typed, TypeOK, Children, Traces, Outcomes, Rets

(* A line adds at most one turn, and what it says is of its provider. *)
LEMMA ReadEffect ==
  ASSUME Typed, Spoken, ReadLine
  PROVE  /\ trace' \in Traces
         /\ trace'.result = NoResult \/ (Claude /\ trace'.result \in ResultLines)
         /\ trace'.turns + Len(pipe') <= child.lines
         /\ Claude => trace'.errors = {} /\ ~trace'.completed
         /\ ~Claude => /\ trace'.init = "none" /\ trace'.result = NoResult
                       /\ ~trace'.completed => trace'.turns = 0
                       /\ trace'.completed => trace'.turns = 1
         /\ trace.init # "refused"
<1>. DEFINE line == Head(pipe)
<1>1. /\ line \in Lines /\ Len(pipe') = Len(pipe) - 1 /\ Len(pipe) \in Nat /\ Len(pipe) > 0
  BY Taken
<1>2. /\ trace \in Traces /\ trace.turns + Len(pipe) <= child.lines /\ child.lines \in 0 .. MaxLines
      /\ clock \in Times /\ MaxLines \in Nat
      /\ trace.result = NoResult \/ (Claude /\ trace.result \in ResultLines)
  BY TypedParts, Numbers DEF Read, Reported, Children
<1>3. /\ trace.init # "refused"
      /\ trace' = IF Claude THEN ClaudeLine(line) ELSE CodexLine(line)
  BY DEF ReadLine, Refused
<1>4. trace.turns + 1 \in 0 .. MaxLines /\ 1 \in 0 .. MaxLines
  BY <1>1, <1>2 DEF Traces
<1>. HIDE DEF line
<1>5. CASE Claude /\ line \in [kind : {"init"}, tools : SUBSET Tools, foreign : BOOLEAN]
  <2>1. PICK v \in {"ok", "refused"} : trace' = [trace EXCEPT !.init = v]
    BY <1>3, <1>5 DEF ClaudeLine
  <2>. QED
    BY <1>1, <1>2, <1>3, <1>5, <2>1 DEF Traces, Spoken
<1>6. CASE Claude /\ line \in [kind : {"turn"}, answer : {"none", "good"}]
  <2>1. trace' = ReadAssistant(line)
    BY <1>3, <1>6 DEF ClaudeLine
  <2>2. \E a \in Bodies, t \in Times \cup {Never} :
          trace' = [trace EXCEPT !.turns = trace.turns + 1, !.answer = a, !.answer_at = t]
    BY <1>2, <1>6, <2>1 DEF ReadAssistant, Traces, Bodies
  <2>3. PICK n \in 0 .. MaxLines, a \in Bodies, t \in Times \cup {Never} :
          /\ trace' = [trace EXCEPT !.turns = n, !.answer = a, !.answer_at = t]
          /\ n = trace.turns + 1
    BY <1>4, <2>2
  <2>4. /\ trace' \in Traces /\ trace'.turns = n /\ trace'.result = trace.result
        /\ trace'.errors = trace.errors /\ trace'.completed = trace.completed
    BY <1>2, <2>3 DEF Traces
  <2>. QED
    BY <1>1, <1>2, <1>3, <1>4, <1>6, <2>3, <2>4 DEF Traces, Spoken
<1>7. CASE Claude /\ line \in ResultLines
  <2>1. trace' = [trace EXCEPT !.result = line]
    BY <1>3, <1>7 DEF ClaudeLine, ResultLines
  <2>. QED
    BY <1>1, <1>2, <1>3, <1>7, <2>1 DEF Traces, Spoken
<1>8. CASE ~Claude /\ line \in [kind : {"agent_message"}, answer : {"bad", "empty", "good"}]
  <2>1. trace' = HandleItem(line)
    BY <1>3, <1>8 DEF CodexLine
  <2>2. trace' = [trace EXCEPT !.answer = line.answer, !.answer_at = clock] /\ line.answer \in Bodies
    BY <1>8, <2>1 DEF HandleItem, Bodies
  <2>3. /\ trace' \in Traces /\ trace'.turns = trace.turns /\ trace'.result = trace.result
        /\ trace'.init = trace.init /\ trace'.completed = trace.completed
    BY <1>2, <2>2 DEF Traces
  <2>. QED
    BY <1>1, <1>2, <1>3, <1>8, <2>3 DEF Traces, Spoken
<1>9. CASE ~Claude /\ line \in [kind : {"error", "turn.failed"}, refusal : BOOLEAN]
  <2>1. PICK e \in {"refusal", "failed"} : trace' = [trace EXCEPT !.errors = trace.errors \cup {e}]
    BY <1>3, <1>9 DEF CodexLine
  <2>. QED
    BY <1>1, <1>2, <1>3, <1>9, <2>1 DEF Traces, Spoken
<1>10. CASE ~Claude /\ line \in [kind : {"turn.completed"}]
  <2>1. trace' = [trace EXCEPT !.completed = TRUE, !.turns = 1]
    BY <1>3, <1>10 DEF CodexLine
  <2>2. /\ trace' \in Traces /\ trace'.turns = 1 /\ trace'.result = trace.result
        /\ trace'.init = trace.init /\ trace'.completed
    BY <1>2, <1>4, <2>1 DEF Traces
  <2>. QED
    BY <1>1, <1>2, <1>3, <1>10, <2>2 DEF Traces, Spoken
<1>. QED
  BY <1>1, <1>5, <1>6, <1>7, <1>8, <1>9, <1>10, LineKinds

-----------------------------------------------------------------------------
(* What a call is said to be worth. *)
LEMMA SwapFacts == Swap.swapped \in BOOLEAN /\ (Fatal(Swap) => Swap.swapped)
<1>. DEFINE usage == IF Claude THEN trace.result.ran ELSE {}
<1>1. \E s \in BOOLEAN, c \in BOOLEAN, f \in BOOLEAN, r \in BOOLEAN, u \in BOOLEAN :
        /\ CheckSubstitution(cfg.model, usage) =
             [swapped |-> s, cross |-> s /\ c, below_floor |-> s /\ f, below_request |-> s /\ r,
              unrecognised |-> s /\ u]
  <2>. DEFINE expected == CanonicalFamily(cfg.model)
              provider == ReportedProvider(expected)
              names    == ReportedModels(usage, provider)
              ours     == {n \in names : ReportedProvider(n) = provider}
              ranked   == {n \in ours : ModelRank(n) # Unranked}
              s == \E n \in names : ~(n.stem = expected.stem /\ n.rest \in {"", "-"})
              c == names # ours
              f == \E n \in ranked : ModelRank(n) < FloorRank[provider]
              r == \E n \in ranked : ModelRank(n) < ModelRank(expected)
              u == ranked # ours
  <2>1. CheckSubstitution(cfg.model, usage) =
             [swapped |-> s, cross |-> s /\ c, below_floor |-> s /\ f, below_request |-> s /\ r,
              unrecognised |-> s /\ u]
    BY DEF CheckSubstitution
  <2>2. s \in BOOLEAN /\ c \in BOOLEAN /\ f \in BOOLEAN /\ r \in BOOLEAN /\ u \in BOOLEAN
    BY Zenon
  <2>. HIDE DEF s, c, f, r, u
  <2>. QED
    BY <2>1, <2>2, Zenon
<1>. QED
  BY <1>1 DEF Swap, Fatal

LEMMA ResultType ==
  ASSUME NEW e \in Errors, NEW d \in Bodies, NEW g \in BOOLEAN, NEW t \in 0 .. MaxLines
  PROVE  /\ Result(e, d, g, t) \in Rets
         /\ Result(e, d, g, t).ok <=> e = "none"
         /\ e = "none" => Result(e, d, g, t).data = d
         /\ Result(e, d, g, t).tokens = t
<1>1. (e = "none") \in BOOLEAN /\ (IF e = "none" THEN d ELSE "none") \in Bodies
  BY Zenon DEF Bodies
<1>2. t \in 0 .. MaxLines + 1
  BY Numbers
<1>. QED
  BY <1>1, <1>2 DEF Result, Rets

LEMMA FailureTypes ==
  ASSUME NEW salvaged \in BOOLEAN
  PROVE  ClaudeFailure(salvaged) \in Errors /\ CodexFailure(salvaged) \in Errors
BY DEF ClaudeFailure, CodexFailure, Errors

LEMMA DataTypes ==
  ASSUME Typed
  PROVE  Structured \in Bodies /\ CodexData \in Bodies /\ ClaudeTokens \in 0 .. MaxLines
         /\ CodexTokens \in 0 .. MaxLines /\ trace.answer \in Bodies
<1>1. trace \in Traces /\ file \in Bodies /\ Reported
  BY TypedParts
<1>2. Structured \in Bodies
  BY <1>1 DEF Structured, Reported, NoResult, ResultLines, Traces, Bodies
<1>3. CodexData \in Bodies
  BY <1>1 DEF CodexData, Parsed, Bodies
<1>4. ClaudeTokens \in 0 .. MaxLines /\ CodexTokens \in 0 .. MaxLines /\ trace.answer \in Bodies
  BY <1>1, Numbers DEF ClaudeTokens, CodexTokens, Traces
<1>. QED
  BY <1>2, <1>3, <1>4

(* Claude's answer is good only from a checked CLI whose result, if there was
   one, is neither an error nor, for a grounded call, a denial. *)
LEMMA ClaudeVerdict ==
  ASSUME Typed, Claude, NEW error \in Errors, NEW salvaged \in BOOLEAN,
         salvaged => trace.answer # "none"
  PROVE  /\ ClaudeResult(error, salvaged) \in Rets
         /\ ClaudeResult(error, salvaged).tokens = trace.turns
         /\ ClaudeResult(error, salvaged).ok =>
              /\ error = "none" /\ trace.init # "none" /\ ~trace.result.is_error
              /\ ~(trace.result.denied /\ cfg.grounded)
              /\ ClaudeResult(error, salvaged).data # "none"
         /\ (/\ error = "none" /\ trace.answer = "good" /\ trace.init # "none"
             /\ ~trace.result.is_error /\ ~trace.result.denied /\ ~Swap.swapped
             /\ salvaged \/ trace.result # NoResult) =>
              ClaudeResult(error, salvaged).ok /\ ClaudeResult(error, salvaged).data = "good"
<1>. DEFINE judged == IF error # "none" THEN error ELSE ClaudeFailure(salvaged)
            wrong  == IF judged = "none" /\ Fatal(Swap) THEN "substitution" ELSE judged
            final  == IF wrong = "none" /\ Structured = "none" THEN "no answer" ELSE wrong
            res    == ClaudeResult(error, salvaged)
<1>1. judged \in Errors
  BY FailureTypes
<1>2. wrong \in Errors /\ final \in Errors
  BY <1>1 DEF Errors
<1>3. res = IF salvaged /\ judged = "none"
            THEN Result("none", trace.answer, TRUE, ClaudeTokens)
            ELSE Result(final, Structured, Swap.swapped, ClaudeTokens)
  BY DEF ClaudeResult
<1>4. judged = "none" => /\ error = "none" /\ trace.init # "none" /\ ~trace.result.is_error
                         /\ ~(trace.result.denied /\ cfg.grounded)
  BY DEF ClaudeFailure
<1>5. (/\ error = "none" /\ trace.init # "none"
       /\ ~trace.result.is_error /\ ~trace.result.denied
       /\ salvaged \/ trace.result # NoResult) => judged = "none"
  BY DEF ClaudeFailure
<1>6. final = "none" => judged = "none" /\ Structured # "none"
  OBVIOUS
<1>7. judged = "none" /\ ~Swap.swapped /\ Structured # "none" => final = "none"
  BY SwapFacts
<1>8. trace.answer = "good" => Structured = "good"
  <2>1. trace.result = NoResult \/ trace.result \in ResultLines
    BY TypedParts DEF Reported
  <2>. QED
    BY <2>1 DEF Structured, ResultLines, NoResult
<1>. HIDE DEF judged, wrong, final, res
<1>9. CASE salvaged /\ judged = "none"
  <2>1. PICK e \in Errors, g \in BOOLEAN : e = "none" /\ g = TRUE
    BY DEF Errors
  <2>2. /\ res = Result(e, trace.answer, g, ClaudeTokens)
        /\ trace.answer \in Bodies /\ ClaudeTokens \in 0 .. MaxLines
    BY <1>3, <1>9, <2>1, DataTypes
  <2>3. /\ res \in Rets /\ (res.ok <=> e = "none") /\ (e = "none" => res.data = trace.answer)
        /\ res.tokens = ClaudeTokens
    BY <2>2, ResultType
  <2>. QED
    BY <1>4, <1>9, <2>1, <2>3 DEF res, ClaudeTokens
<1>10. CASE ~(salvaged /\ judged = "none")
  <2>1. /\ res = Result(final, Structured, Swap.swapped, ClaudeTokens)
        /\ Structured \in Bodies /\ Swap.swapped \in BOOLEAN /\ ClaudeTokens \in 0 .. MaxLines
    BY <1>3, <1>10, DataTypes, SwapFacts
  <2>2. /\ res \in Rets /\ (res.ok <=> final = "none") /\ (final = "none" => res.data = Structured)
        /\ res.tokens = ClaudeTokens
    BY <1>2, <2>1, ResultType
  <2>. QED
    BY <1>4, <1>5, <1>6, <1>7, <1>8, <2>2 DEF res, ClaudeTokens
<1>. QED
  BY <1>9, <1>10

(* Codex's is good only when its stream reported no error and there is one. *)
LEMMA CodexVerdict ==
  ASSUME Typed, Spoken, ~Claude, NEW error \in Errors, NEW salvaged \in BOOLEAN
  PROVE  /\ CodexResult(error, salvaged) \in Rets
         /\ CodexResult(error, salvaged).tokens = trace.turns
         /\ CodexResult(error, salvaged).ok =>
              error = "none" /\ trace.errors = {} /\ CodexResult(error, salvaged).data = "good"
         /\ (/\ error = "none" /\ trace.answer = "good" /\ trace.errors = {}
             /\ salvaged \/ trace.completed) =>
              CodexResult(error, salvaged).ok /\ CodexResult(error, salvaged).data = "good"
<1>. DEFINE judged == IF error # "none" THEN error ELSE CodexFailure(salvaged)
            res    == CodexResult(error, salvaged)
            g      == salvaged /\ judged = "none"
<1>1. judged \in Errors
  BY FailureTypes
<1>2. res = Result(judged, CodexData, g, CodexTokens)
  BY DEF CodexResult
<1>3. judged = "none" => error = "none" /\ trace.errors = {} /\ CodexData \notin {"none", "empty"}
  BY DEF CodexFailure
<1>4. CodexData \in {"none", "empty", "good"} /\ (trace.answer = "good" => CodexData = "good")
  BY TypedParts DEF CodexData, Parsed, Bodies
<1>5. (/\ error = "none" /\ trace.errors = {} /\ CodexData = "good"
       /\ salvaged \/ trace.completed) => judged = "none"
  BY DEF CodexFailure
<1>6. CodexTokens = trace.turns
  BY TypedParts DEF CodexTokens, Spoken, Traces
<1>7. g \in BOOLEAN
  BY Zenon
<1>. HIDE DEF judged, res, g
<1>8. /\ res \in Rets /\ (res.ok <=> judged = "none") /\ (judged = "none" => res.data = CodexData)
      /\ res.tokens = CodexTokens
  BY <1>1, <1>2, <1>7, DataTypes, ResultType
<1>. QED
  BY <1>3, <1>4, <1>5, <1>6, <1>8 DEF res

-----------------------------------------------------------------------------
(* Steps. *)
Returns ==
  \/ SpawnTimesOut \/ Conclude \/ ConcludeTimeout \/ ConcludeRefused

LEMMA WhoSteps ==
  ASSUME [Next]_vars
  PROVE  \/ UNCHANGED vars
         \/ Watched /\ (Say \/ WriteFile \/ StartHelper \/ HelperEnds \/ CloseOutput \/ Exit)
         \/ SpawnRoleProcess \/ SpawnRefused \/ ReadLine \/ EndOfStream \/ NoticeExit \/ StopReading
         \/ StderrOver \/ ExitCode \/ DeadlinePasses \/ KillProcessTree \/ Tick
         \/ Returns
BY DEF Next, Child, Runner, Returned, Returns

LEMMA TypedStep ==
  ASSUME Typed, Spoken, [Next]_vars, ~Returns
  PROVE  Typed'
<1>0. /\ cfg \in Calls /\ pc \in Phases /\ clock \in Times /\ until \in Nat
      /\ child \in Children /\ helper \in BOOLEAN /\ pipe \in Seq(Lines) /\ file \in Bodies
      /\ trace \in Traces /\ outcome \in Outcomes /\ ret \in Rets /\ Read /\ Reported
      /\ Len(pipe) \in Nat
  BY TypedParts, LenProperties
<1>1. cfg' = cfg => Lines' = Lines /\ Traces' = Traces /\ (Claude' <=> Claude)
  BY DEF Lines, Traces, Claude
<1>2. ASSUME cfg' = cfg, pc' \in Phases, clock' \in Times, until' \in Nat, child' \in Children,
             helper' \in BOOLEAN, pipe' \in Seq(Lines), file' \in Bodies, trace' \in Traces,
             outcome' \in Outcomes, ret' \in Rets, trace'.turns + Len(pipe') <= child'.lines,
             trace'.result = NoResult \/ (Claude /\ trace'.result \in ResultLines)
      PROVE  Typed'
  <2>1. cfg' \in Calls /\ pipe' \in Seq(Lines)' /\ trace' \in Traces' /\ (Claude' <=> Claude)
    BY <1>0, <1>1, <1>2
  <2>2. Read' /\ Reported'
    BY <1>2, <2>1 DEF Read, Reported
  <2>. QED
    BY <1>2, <2>1, <2>2, Zenon DEF Typed, TypeOK, Children, Traces, Outcomes, Rets
<1>3. /\ trace.turns + Len(pipe) <= child.lines
      /\ trace.result = NoResult \/ (Claude /\ trace.result \in ResultLines)
  BY <1>0 DEF Read, Reported
<1>4. CASE UNCHANGED vars
  BY <1>0, <1>2, <1>3, <1>4 DEF vars
<1>5. CASE Say
  <2>1. PICK line \in Lines :
          /\ pipe' = Append(pipe, line)
          /\ child' = [child EXCEPT !.lines = IF line.kind \in {"result", "turn.completed"}
                                              THEN MaxLines ELSE child.lines + 1]
    BY <1>5 DEF Say
  <2>2. pipe' \in Seq(Lines) /\ Len(pipe') = Len(pipe) + 1
    BY <1>0, <2>1, AppendProperties
  <2>3. PICK n \in 0 .. MaxLines : /\ child' = [child EXCEPT !.lines = n]
                                   /\ n >= child.lines + 1
    <3>1. child.lines \in Nat /\ child.lines < MaxLines /\ MaxLines \in Nat
      BY <1>0, <1>5, Numbers DEF Say, Children
    <3>2. CASE line.kind \in {"result", "turn.completed"}
      BY <2>1, <3>1, <3>2
    <3>3. CASE line.kind \notin {"result", "turn.completed"}
      <4>1. child' = [child EXCEPT !.lines = child.lines + 1]
        BY <2>1, <3>3
      <4>2. child.lines + 1 \in 0 .. MaxLines /\ child.lines + 1 >= child.lines + 1
        BY <3>1
      <4>. QED
        BY <4>1, <4>2, Zenon
    <3>. QED
      BY <3>2, <3>3
  <2>4. child' \in Children /\ child'.lines >= child.lines + 1
    BY <1>0, <2>3 DEF Children
  <2>5. trace.turns \in Nat /\ child.lines \in Nat /\ child'.lines \in Nat
    BY <1>0, <2>4, Numbers DEF Traces, Children
  <2>. QED
    BY <1>0, <1>2, <1>3, <1>5, <2>2, <2>4, <2>5 DEF Say
<1>6. CASE WriteFile
  BY <1>0, <1>2, <1>3, <1>6 DEF WriteFile
<1>7. CASE StartHelper \/ HelperEnds
  BY <1>0, <1>2, <1>3, <1>7 DEF StartHelper, HelperEnds
<1>8. CASE CloseOutput \/ Exit
  <2>1. child' \in Children /\ child'.lines = child.lines
    BY <1>0, <1>8 DEF CloseOutput, Exit, Children
  <2>. QED
    BY <1>0, <1>2, <1>3, <1>8, <2>1 DEF CloseOutput, Exit
<1>9. CASE SpawnRoleProcess
  <2>1. child' \in Children /\ child'.lines = child.lines
    BY <1>0, <1>9 DEF SpawnRoleProcess, Children
  <2>. QED
    BY <1>0, <1>2, <1>3, <1>9, <2>1 DEF SpawnRoleProcess, Phases
<1>10. CASE ReadLine
  <2>1. pc' \in Phases
    BY <1>0, <1>10 DEF ReadLine, Phases
  <2>. QED
    BY <1>0, <1>2, <1>10, <2>1, Taken, ReadEffect DEF ReadLine
<1>11. CASE EndOfStream \/ NoticeExit \/ StopReading \/ StderrOver \/ ExitCode \/ DeadlinePasses \/ SpawnRefused
  <2>1. pc' \in Phases /\ until' \in Nat
    BY <1>0, <1>11, Numbers DEF EndOfStream, NoticeExit, StopReading, StderrOver, ExitCode, DeadlinePasses,
       SpawnRefused, Goto, Phases, Times
  <2>2. UNCHANGED <<cfg, clock, child, helper, pipe, file, trace, outcome, ret>>
    BY <1>11 DEF EndOfStream, NoticeExit, StopReading, StderrOver, ExitCode, DeadlinePasses,
       SpawnRefused, Goto
  <2>. QED
    BY <1>0, <1>2, <1>3, <2>1, <2>2
<1>12. CASE KillProcessTree
  <2>1. child' \in Children /\ child'.lines = child.lines /\ outcome' \in Outcomes
    BY <1>0, <1>12 DEF KillProcessTree, Children, Outcomes
  <2>2. helper' \in BOOLEAN
    BY <1>0, <1>12, Zenon DEF KillProcessTree
  <2>3. pc' \in Phases
    BY <1>12 DEF KillProcessTree, Phases
  <2>. QED
    BY <1>0, <1>2, <1>3, <1>12, <2>1, <2>2, <2>3 DEF KillProcessTree
<1>13. CASE Tick
  <2>1. clock' \in Times
    BY <1>0, <1>13, Numbers DEF Tick, Times
  <2>. QED
    BY <1>0, <1>2, <1>3, <1>13, <2>1 DEF Tick
<1>. QED
  BY <1>4, <1>5, <1>6, <1>7, <1>8, <1>9, <1>10, <1>11, <1>12, <1>13, WhoSteps

(* What the phases say survives every step but a return. *)
LEMMA SpokenStep ==
  ASSUME Typed, Spoken, [Next]_vars, ~Returns
  PROVE  Spoken'
<1>1. cfg' = cfg => (Claude' <=> Claude)
  BY DEF Claude
<1>2. CASE UNCHANGED vars
  BY <1>1, <1>2 DEF vars, Spoken
<1>3. CASE Watched /\ (Say \/ WriteFile \/ StartHelper \/ HelperEnds \/ CloseOutput \/ Exit)
  <2>1. UNCHANGED <<cfg, pc, trace, outcome, ret>> /\ pc # "spawn"
    BY <1>3 DEF Say, WriteFile, StartHelper, HelperEnds, CloseOutput, Exit, Watched, Consuming
  <2>. QED
    BY <1>1, <2>1 DEF Spoken
<1>4. CASE SpawnRoleProcess
  BY <1>1, <1>4 DEF SpawnRoleProcess, Spoken, EmptyTrace
<1>5. CASE ReadLine
  <2>1. UNCHANGED <<cfg, outcome, ret>> /\ pc \in {"reading", "draining"}
    BY <1>5 DEF ReadLine
  <2>2. pc' = IF Claude /\ trace'.init = "refused" THEN "refuse" ELSE pc
    BY <1>5 DEF ReadLine
  <2>3. outcome = "none" /\ ret = NoRet
    BY <2>1 DEF Spoken
  <2>. QED
    BY <1>1, <1>5, <2>1, <2>2, <2>3, ReadEffect DEF Spoken
<1>6. CASE EndOfStream \/ NoticeExit \/ StopReading \/ StderrOver \/ ExitCode \/ DeadlinePasses
  <2>1. /\ pc' \in {"draining", "stderr", "exit", "conclude", "kill"}
        /\ pc \in {"reading", "draining", "stderr", "exit"}
        /\ UNCHANGED <<cfg, child, trace, outcome, ret>>
    BY <1>6 DEF EndOfStream, NoticeExit, StopReading, StderrOver, ExitCode, DeadlinePasses, Consuming, Goto
  <2>. QED
    BY <1>1, <2>1 DEF Spoken
<1>7. CASE SpawnRefused
  BY <1>1, <1>7 DEF SpawnRefused, Goto, Spoken, EmptyTrace
<1>8. CASE KillProcessTree
  <2>1. /\ pc \in {"kill", "refuse"} /\ UNCHANGED <<cfg, trace, ret>>
        /\ pc' = IF pc = "kill" THEN "timed_out" ELSE "refused"
    BY <1>8 DEF KillProcessTree
  <2>. QED
    BY <1>1, <2>1 DEF Spoken
<1>9. CASE Tick
  BY <1>1, <1>9 DEF Tick, Spoken
<1>. QED
  BY <1>2, <1>3, <1>4, <1>5, <1>6, <1>7, <1>8, <1>9, WhoSteps

(* So do the facts about the child and the clock. *)
LEMMA GoneStep ==
  ASSUME Typed, Spoken, Gone, [Next]_vars, ~Returns
  PROVE  Gone'
<1>0. /\ clock \in Nat /\ until \in Nat /\ child \in Children
      /\ child.gone \in Nat \cup {Never} /\ Drain \in Nat /\ Grace \in Nat /\ Timeout \in Nat
      /\ trace \in Traces /\ trace.answer_at \in Nat \cup {Never}
  BY TypedParts, Numbers DEF Times, Children, Traces, Never
<1>1. CASE UNCHANGED vars
  BY <1>1 DEF vars, Gone
<1>2. CASE Watched /\ (Say \/ WriteFile \/ StartHelper \/ HelperEnds \/ CloseOutput)
  <2>1. UNCHANGED <<pc, clock, until, trace, outcome>> /\ pc \notin {"spawn", "done"}
    BY <1>2 DEF Say, WriteFile, StartHelper, HelperEnds, CloseOutput, Watched, Consuming
  <2>2. child'.alive = child.alive /\ child'.gone = child.gone /\ (child'.stdout => child.stdout)
    <3>1. CASE Say
      BY <1>0, <3>1 DEF Say, Children
    <3>2. CASE CloseOutput
      BY <1>0, <3>2 DEF CloseOutput, Children
    <3>3. CASE child' = child
      BY <3>3
    <3>. QED
      BY <1>2, <3>1, <3>2, <3>3 DEF WriteFile, StartHelper, HelperEnds
  <2>. QED
    BY <2>1, <2>2 DEF Gone
<1>3. CASE Watched /\ Exit
  <2>1. /\ UNCHANGED <<pc, clock, until, trace, outcome>> /\ pc \notin {"spawn", "done"}
        /\ child.alive
    BY <1>3 DEF Exit, Watched, Consuming
  <2>2. ~child'.alive /\ child'.gone = clock /\ ~child'.stdout
    BY <1>0, <1>3 DEF Exit, Children
  <2>. QED
    BY <1>0, <2>1, <2>2 DEF Gone
<1>4. CASE SpawnRoleProcess
  <2>1. pc' = "reading" /\ clock' = clock /\ trace' = trace /\ outcome' = outcome /\ pc = "spawn"
    BY <1>4 DEF SpawnRoleProcess
  <2>2. child'.alive /\ child'.gone = child.gone /\ child.gone = Never
    BY <1>0, <1>4 DEF SpawnRoleProcess, Children, Spoken
  <2>. QED
    BY <1>0, <2>1, <2>2 DEF Gone
<1>5. CASE SpawnRefused
  BY <1>5 DEF SpawnRefused, Goto, Gone
<1>6. CASE ReadLine
  <2>1. pc \in {"reading", "draining"} /\ UNCHANGED <<clock, until, child, outcome>>
    BY <1>6 DEF ReadLine
  <2>2. pc' = pc \/ pc' = "refuse"
    BY <1>6 DEF ReadLine
  <2>. QED
    BY <2>1, <2>2 DEF Gone
<1>7. CASE EndOfStream
  <2>1. /\ ~child.stdout /\ pc' = "stderr" /\ UNCHANGED <<clock, child, outcome, trace>>
    BY <1>7 DEF EndOfStream, PipeClosed, Goto
  <2>. QED
    BY <2>1 DEF Gone
<1>8. CASE NoticeExit
  <2>1. /\ pc = "reading" /\ ~child.alive /\ pc' = "draining" /\ until' = clock + Drain
        /\ UNCHANGED <<clock, child, outcome, trace>>
    BY <1>8 DEF NoticeExit, ExitSeen, Goto
  <2>. QED
    BY <1>0, <2>1 DEF Gone
<1>9. CASE StopReading
  <2>1. pc = "draining" /\ pc' = "stderr" /\ UNCHANGED <<clock, child, outcome, trace>>
    BY <1>9 DEF StopReading, Goto
  <2>. QED
    BY <2>1 DEF Gone
<1>10. CASE StderrOver \/ ExitCode
  <2>1. /\ pc \in {"stderr", "exit"} /\ pc' \in {"exit", "conclude"}
        /\ UNCHANGED <<clock, child, outcome, trace>>
    BY <1>10 DEF StderrOver, ExitCode, Goto
  <2>. QED
    BY <2>1 DEF Gone
<1>11. CASE DeadlinePasses
  <2>1. pc' = "kill" /\ UNCHANGED <<clock, child, outcome, trace>> /\ clock >= Deadline
    BY <1>11 DEF DeadlinePasses, Goto
  <2>2. /\ clock >= Timeout
        /\ trace.answer_at # Never => clock >= trace.answer_at + Grace
    <3>1. CASE trace.answer_at = Never
      BY <1>0, <2>1, <3>1 DEF Deadline
    <3>2. CASE trace.answer_at # Never
      BY <1>0, <2>1, <3>2 DEF Deadline
    <3>. QED
      BY <3>1, <3>2
  <2>. QED
    BY <2>1, <2>2 DEF Gone
<1>12. CASE KillProcessTree
  <2>1. clock' = clock /\ pc' \in {"timed_out", "refused"}
    BY <1>12 DEF KillProcessTree
  <2>2. \/ child' = child /\ ~child.alive
        \/ child'.gone = clock /\ ~child'.alive
        \/ child' = child /\ outcome' = "refused"
    BY <1>0, <1>12 DEF KillProcessTree, Children
  <2>. QED
    BY <1>0, <2>1, <2>2 DEF Gone
<1>13. CASE Tick
  <2>1. clock' = clock + 1 /\ UNCHANGED <<pc, until, child, trace, outcome>> /\ ~Due
    BY <1>13 DEF Tick
  <2>2. /\ pc = "reading" => child.alive
        /\ pc = "draining" => ~(clock >= until)
    BY <2>1 DEF Due, ExitSeen
  <2>. QED
    BY <1>0, <2>1, <2>2 DEF Gone
<1>. QED
  BY <1>1, <1>2, <1>3, <1>4, <1>5, <1>6, <1>7, <1>8, <1>9, <1>10, <1>11, <1>12, <1>13, WhoSteps

(* Until the return there is no verdict, and after it nothing moves. *)
LEMMA VerdictStep ==
  ASSUME Typed, Spoken, Verdict, [Next]_vars, ~Returns
  PROVE  Verdict'
<1>1. CASE UNCHANGED vars
  <2>1. (Claude' <=> Claude) /\ Swap' = Swap
    BY <1>1 DEF vars, Claude, Swap
  <2>. QED
    BY <1>1, <2>1 DEF vars, Verdict, OnlyTrusted, AnswerKept
<1>2. CASE ~UNCHANGED vars
  <2>1. pc' # "done"
    BY <1>2, WhoSteps DEF Say, WriteFile, StartHelper, HelperEnds, CloseOutput, Exit, Watched, Consuming,
       SpawnRoleProcess, SpawnRefused, ReadLine, EndOfStream, NoticeExit, StopReading, StderrOver,
       ExitCode, DeadlinePasses, KillProcessTree, Tick, Goto
  <2>2. ret' = NoRet
    BY <2>1, SpokenStep DEF Spoken
  <2>3. ~ret'.ok
    BY <2>2 DEF NoRet
  <2>. QED
    BY <2>1, <2>3 DEF Verdict, OnlyTrusted, AnswerKept
<1>. QED
  BY <1>1, <1>2

(* A return writes one result, and nothing else moves. *)
LEMMA Handed ==
  ASSUME Typed, Spoken, Returns
  PROVE  /\ pc' = "done"
         /\ UNCHANGED <<cfg, clock, until, child, helper, pipe, file, trace, outcome>>
         /\ \E error \in Errors, salvaged \in BOOLEAN :
              /\ ret' = Results(error, salvaged)
              /\ salvaged => Salvage
              /\ \/ pc = "spawn" /\ error = "spawn timeout" /\ trace = EmptyTrace
                 \/ pc = "conclude" /\ error = "none"
                 \/ pc = "timed_out" /\ error = "none" /\ salvaged
                 \/ pc = "timed_out" /\ error = "timeout" /\ ~Salvage
                 \/ pc = "refused" /\ error = "init refused" /\ trace.init = "refused"
<1>1. {"spawn timeout", "none", "timeout", "init refused"} \subseteq Errors
  BY DEF Errors
<1>2. CASE SpawnTimesOut
  BY <1>1, <1>2 DEF SpawnTimesOut, Return, Spoken
<1>3. CASE Conclude
  BY <1>1, <1>3 DEF Conclude, Return
<1>4. CASE ConcludeTimeout /\ Salvage
  BY <1>1, <1>4 DEF ConcludeTimeout, Return
<1>5. CASE ConcludeTimeout /\ ~Salvage
  BY <1>1, <1>5 DEF ConcludeTimeout, Return
<1>6. CASE ConcludeRefused
  BY <1>1, <1>6 DEF ConcludeRefused, Return, Spoken
<1>. QED
  BY <1>2, <1>3, <1>4, <1>5, <1>6 DEF Returns

LEMMA TypedReturn ==
  ASSUME Typed, Spoken, Returns
  PROVE  Typed'
<1>1. /\ pc' = "done"
      /\ UNCHANGED <<cfg, clock, until, child, helper, pipe, file, trace, outcome>>
  BY Handed
<1>2. PICK error \in Errors, salvaged \in BOOLEAN :
        ret' = Results(error, salvaged) /\ (salvaged => Salvage)
  BY Handed
<1>3. ret' \in Rets
  <2>1. CASE Claude
    <3>1. salvaged => trace.answer # "none"
      BY <1>2, <2>1 DEF Salvage
    <3>. QED
      BY <1>2, <2>1, <3>1, ClaudeVerdict DEF Results
  <2>2. CASE ~Claude
    BY <1>2, <2>2, CodexVerdict DEF Results
  <2>. QED
    BY <2>1, <2>2
<1>4. /\ cfg \in Calls /\ clock \in Times /\ until \in Nat /\ child \in Children /\ helper \in BOOLEAN
      /\ pipe \in Seq(Lines) /\ file \in Bodies /\ trace \in Traces /\ outcome \in Outcomes
      /\ Read /\ Reported
  BY TypedParts
<1>5. Lines' = Lines /\ Traces' = Traces /\ (Claude' <=> Claude)
  BY <1>1 DEF Lines, Traces, Claude
<1>6. pc' \in Phases
  BY <1>1 DEF Phases
<1>7. pipe' \in Seq(Lines)' /\ trace' \in Traces' /\ Read' /\ Reported'
  BY <1>1, <1>4, <1>5 DEF Read, Reported
<1>. QED
  BY <1>1, <1>3, <1>4, <1>6, <1>7, Zenon DEF Typed, TypeOK, Children, Traces, Outcomes, Rets

LEMMA SpokenReturn ==
  ASSUME Typed, Spoken, Returns
  PROVE  Spoken'
<1>1. pc' = "done" /\ UNCHANGED <<cfg, child, trace, outcome>> /\ (Claude' <=> Claude)
  BY Handed DEF Claude
<1>. QED
  BY <1>1 DEF Spoken

LEMMA GoneReturn ==
  ASSUME Typed, Spoken, Gone, Returns
  PROVE  Gone'
<1>1. /\ pc' = "done" /\ UNCHANGED <<clock, child, trace, outcome>>
      /\ pc \in {"spawn", "conclude", "timed_out", "refused"}
  BY Handed
<1>. QED
  BY <1>1 DEF Gone, Spoken

LEMMA VerdictReturn ==
  ASSUME Typed, Spoken, Returns
  PROVE  Verdict'
<1>1. pc' = "done" /\ UNCHANGED <<cfg, trace, outcome>>
  BY Handed
<1>2. (Claude' <=> Claude) /\ Swap' = Swap
  BY <1>1 DEF Claude, Swap
<1>3. PICK error \in Errors, salvaged \in BOOLEAN :
        /\ ret' = Results(error, salvaged)
        /\ salvaged => Salvage
        /\ \/ pc = "spawn" /\ error = "spawn timeout" /\ trace = EmptyTrace
           \/ pc = "conclude" /\ error = "none"
           \/ pc = "timed_out" /\ error = "none" /\ salvaged
           \/ pc = "timed_out" /\ error = "timeout" /\ ~Salvage
           \/ pc = "refused" /\ error = "init refused" /\ trace.init = "refused"
  BY Handed
<1>4. trace.init = "refused" => pc = "refused"
  BY <1>3 DEF Spoken, EmptyTrace
<1>5. outcome # "none" => pc \in {"timed_out", "refused"}
  BY <1>3 DEF Spoken
<1>6. trace \in Traces
  BY TypedParts
<1>7. CASE Claude
  <2>1. salvaged => trace.answer # "none"
    BY <1>3, <1>7 DEF Salvage
  <2>2. /\ ret'.tokens = trace.turns
        /\ ret'.ok => /\ error = "none" /\ trace.init # "none" /\ ~trace.result.is_error
                      /\ ~(trace.result.denied /\ cfg.grounded) /\ ret'.data # "none"
        /\ (/\ error = "none" /\ trace.answer = "good" /\ trace.init # "none"
            /\ ~trace.result.is_error /\ ~trace.result.denied /\ ~Swap.swapped
            /\ salvaged \/ trace.result # NoResult) => ret'.ok /\ ret'.data = "good"
    BY <1>3, <1>7, <2>1, ClaudeVerdict DEF Results
  <2>3. ret'.ok => trace.init = "ok"
    BY <1>3, <1>4, <1>6, <2>2 DEF Traces
  <2>4. OnlyTrusted'
    BY <1>1, <1>2, <1>7, <2>2, <2>3 DEF OnlyTrusted
  <2>5. AnswerKept'
    <3>1. ~trace.completed
      BY <1>7 DEF Spoken
    <3>2. trace.answer = "good" => Salvage
      BY <1>7 DEF Salvage
    <3>3. (/\ trace.answer = "good" /\ trace.init = "ok"
           /\ outcome # "none" \/ trace.result # NoResult) =>
            error = "none" /\ (salvaged \/ trace.result # NoResult)
      <4>1. pc = "spawn" => trace.answer = "none"
        <5>1. EmptyTrace.answer = "none"
          BY DEF EmptyTrace
        <5>. QED
          BY <5>1 DEF Spoken
      <4>. QED
        BY <1>3, <1>5, <3>2, <4>1
    <3>. QED
      BY <1>1, <1>2, <1>7, <2>2, <3>1, <3>3 DEF AnswerKept
  <2>. QED
    BY <1>1, <2>2, <2>4, <2>5 DEF Verdict
<1>8. CASE ~Claude
  <2>1. /\ ret'.tokens = trace.turns
        /\ ret'.ok => error = "none" /\ trace.errors = {} /\ ret'.data = "good"
        /\ (/\ error = "none" /\ trace.answer = "good" /\ trace.errors = {}
            /\ salvaged \/ trace.completed) => ret'.ok /\ ret'.data = "good"
    BY <1>3, <1>8, CodexVerdict DEF Results
  <2>2. OnlyTrusted'
    BY <1>1, <1>2, <1>8, <2>1 DEF OnlyTrusted
  <2>3. AnswerKept'
    <3>1. trace.init # "refused" /\ trace.result = NoResult
      BY <1>8 DEF Spoken
    <3>2. trace.answer = "good" => Salvage
      BY <1>8 DEF Salvage, Parsed
    <3>3. (/\ trace.answer = "good"
           /\ outcome # "none" \/ trace.completed) =>
            error = "none" /\ (salvaged \/ trace.completed)
      <4>1. pc = "spawn" => trace.answer = "none"
        <5>1. EmptyTrace.answer = "none"
          BY DEF EmptyTrace
        <5>. QED
          BY <5>1 DEF Spoken
      <4>. QED
        BY <1>3, <1>5, <3>1, <3>2, <4>1
    <3>. QED
      BY <1>1, <1>2, <1>8, <2>1, <3>1, <3>3 DEF AnswerKept
  <2>. QED
    BY <1>1, <2>1, <2>2, <2>3 DEF Verdict
<1>. QED
  BY <1>7, <1>8

-----------------------------------------------------------------------------
(* The theorems. *)
CallInv == Typed /\ Spoken /\ Gone /\ Verdict

LEMMA CallStep == CallInv /\ [Next]_vars => CallInv'
<1>. SUFFICES ASSUME CallInv, [Next]_vars PROVE CallInv'
  OBVIOUS
<1>1. Typed /\ Spoken /\ Gone /\ Verdict
  BY DEF CallInv
<1>2. CASE Returns
  BY <1>1, <1>2, TypedReturn, SpokenReturn, GoneReturn, VerdictReturn DEF CallInv
<1>3. CASE ~Returns
  BY <1>1, <1>3, TypedStep, SpokenStep, GoneStep, VerdictStep DEF CallInv
<1>. QED
  BY <1>2, <1>3

LEMMA CallInvariant == Spec => []CallInv
<1>1. Init => CallInv
  BY Init0 DEF CallInv
<1>. QED
  BY <1>1, CallStep, PTL DEF Spec

(* What the runner says a call was worth is what the call did: an answer only
   from a checked CLI that said nothing against it, no good answer thrown away
   at a kill or an end, and every turn paid for counted (run_role, _failure,
   _result, _salvage of both runners). *)
THEOREM VerdictIsTrue == Spec => []VerdictHolds
<1>1. CallInv => VerdictHolds
  BY DEF CallInv, Typed, Verdict, VerdictHolds
<1>. QED
  BY <1>1, CallInvariant, PTL

(* No call waits on the pipe of a child that is gone past the drain, none that
   has returned left a child it could still have killed, and none is killed before its time and the
   grace its latest answer earned (_read_stdout_or_exit, _consume_within). *)
THEOREM ChildIsHandled == Spec => ChildHandled
<1>1. CallInv => ReaderLetsGo /\ NoneLeftRunning
  <2>. SUFFICES ASSUME CallInv PROVE ReaderLetsGo /\ NoneLeftRunning
    OBVIOUS
  <2>1. /\ clock \in Nat /\ until \in Nat /\ Drain \in Nat /\ child.gone \in Nat \cup {Never}
    BY TypedParts, Numbers DEF CallInv, Times, Children, Never
  <2>. QED
    BY <2>1 DEF CallInv, Gone, ReaderLetsGo, NoneLeftRunning
<1>2. CallInv /\ [Next]_vars =>
        [pc' = "kill" => /\ clock >= Timeout
                         /\ trace.answer_at # Never => clock >= trace.answer_at + Grace]_vars
  <2>. SUFFICES ASSUME CallInv, [Next]_vars, pc' = "kill"
                PROVE  /\ clock >= Timeout
                       /\ trace.answer_at # Never => clock >= trace.answer_at + Grace
    OBVIOUS
  <2>1. Gone /\ Typed /\ Spoken
    BY DEF CallInv
  <2>2. ~Returns
    BY <2>1, Handed
  <2>3. CASE pc = "kill"
    BY <2>1, <2>3 DEF Gone
  <2>4. CASE pc # "kill"
    <3>1. DeadlinePasses
      BY <2>2, <2>4, WhoSteps DEF Say, WriteFile, StartHelper, HelperEnds, CloseOutput, Exit, vars,
         SpawnRoleProcess, SpawnRefused, ReadLine, EndOfStream, NoticeExit, StopReading, StderrOver,
         ExitCode, KillProcessTree, Tick, Goto
    <3>2. clock >= Deadline
      BY <3>1 DEF DeadlinePasses
    <3>3. /\ clock \in Nat /\ Timeout \in Nat /\ Grace \in Nat
          /\ trace.answer_at \in Nat \cup {Never}
      BY <2>1, TypedParts, Numbers DEF Times, Traces, Never
    <3>4. CASE trace.answer_at = Never
      BY <3>2, <3>3, <3>4 DEF Deadline
    <3>5. CASE trace.answer_at # Never
      BY <3>2, <3>3, <3>5 DEF Deadline
    <3>. QED
      BY <3>4, <3>5
  <2>. QED
    BY <2>3, <2>4
<1>. QED
  BY <1>1, <1>2, CallInvariant, PTL DEF Spec, ChildHandled, FullTimeAndGrace

-----------------------------------------------------------------------------
(* Which model answers for each role of a run.  Efforts are a ladder of      *)
(* five; what is clamped to a ladder is on it, and as strong as it can be.   *)

EffortNames == {Efforts[i] : i \in DOMAIN Efforts}

LEMMA EffortsAre ==
  /\ EffortNames = {"low", "medium", "high", "xhigh", "max"}
  /\ Strength("low") = 1 /\ Strength("medium") = 2 /\ Strength("high") = 3
  /\ Strength("xhigh") = 4 /\ Strength("max") = 5
<1>1. EffortNames = {"low", "medium", "high", "xhigh", "max"}
  BY DEF EffortNames, Efforts
<1>2. /\ Strength("low") = 1 /\ Strength("medium") = 2 /\ Strength("high") = 3
      /\ Strength("xhigh") = 4 /\ Strength("max") = 5
  BY DEF Strength, Efforts
<1>. QED
  BY <1>1, <1>2

LEMMA StrengthsDiffer ==
  /\ \A e \in EffortNames : Strength(e) \in 1 .. 5
  /\ \A e, f \in EffortNames : Strength(e) = Strength(f) => e = f
BY EffortsAre

\* A ladder has a strongest rung and a weakest.
LEMMA Rungs ==
  ASSUME NEW S \in SUBSET EffortNames, S # {}
  PROVE  /\ \E s \in S : \A t \in S : Strength(t) <= Strength(s)
         /\ \E s \in S : \A t \in S : Strength(s) <= Strength(t)
<1>1. /\ \A t \in S : t \in {"low", "medium", "high", "xhigh", "max"}
      /\ "low" \in S \/ "medium" \in S \/ "high" \in S \/ "xhigh" \in S \/ "max" \in S
  BY EffortsAre
<1>2. \E s \in S : \A t \in S : Strength(t) <= Strength(s)
  <2>1. CASE "max" \in S
    BY <1>1, <2>1, EffortsAre
  <2>2. CASE "max" \notin S /\ "xhigh" \in S
    BY <1>1, <2>2, EffortsAre
  <2>3. CASE "max" \notin S /\ "xhigh" \notin S /\ "high" \in S
    BY <1>1, <2>3, EffortsAre
  <2>4. CASE "max" \notin S /\ "xhigh" \notin S /\ "high" \notin S
    BY <1>1, <2>4, EffortsAre
  <2>. QED
    BY <2>1, <2>2, <2>3, <2>4
<1>3. \E s \in S : \A t \in S : Strength(s) <= Strength(t)
  <2>1. CASE "low" \in S
    BY <1>1, <2>1, EffortsAre
  <2>2. CASE "low" \notin S /\ "medium" \in S
    BY <1>1, <2>2, EffortsAre
  <2>3. CASE "low" \notin S /\ "medium" \notin S /\ "high" \in S
    BY <1>1, <2>3, EffortsAre
  <2>4. CASE "low" \notin S /\ "medium" \notin S /\ "high" \notin S
    BY <1>1, <2>4, EffortsAre
  <2>. QED
    BY <2>1, <2>2, <2>3, <2>4
<1>. QED
  BY <1>2, <1>3

LEMMA Clamped ==
  ASSUME NEW S \in SUBSET EffortNames, S # {}, NEW e \in EffortNames
  PROVE  /\ ClampEffort(e, S) \in S
         /\ \A s \in S : Strength(s) <= Strength(e) => Strength(s) <= Strength(ClampEffort(e, S))
         /\ e \in S => ClampEffort(e, S) = e
<1>. DEFINE below == {s \in S : Strength(s) <= Strength(e)}
<1>0. \A s \in S : s \in EffortNames
  OBVIOUS
<1>1. CASE below # {}
  <2>1. \E s \in below : \A t \in below : Strength(t) <= Strength(s)
    BY <1>1, Rungs
  <2>2. ClampEffort(e, S) = CHOOSE s \in below : \A t \in below : Strength(t) <= Strength(s)
    BY <1>1 DEF ClampEffort
  <2>3. ClampEffort(e, S) \in below /\ \A t \in below : Strength(t) <= Strength(ClampEffort(e, S))
    BY <2>1, <2>2
  <2>4. e \in S => ClampEffort(e, S) = e
    BY <1>0, <2>3, StrengthsDiffer
  <2>. QED
    BY <2>3, <2>4
<1>2. CASE below = {}
  <2>1. \E s \in S : \A t \in S : Strength(s) <= Strength(t)
    BY Rungs
  <2>2. ClampEffort(e, S) = CHOOSE s \in S : \A t \in S : Strength(s) <= Strength(t)
    BY <1>2 DEF ClampEffort
  <2>3. ClampEffort(e, S) \in S
    BY <2>1, <2>2
  <2>4. e \notin S
    BY <1>2, StrengthsDiffer
  <2>. QED
    BY <1>2, <2>3, <2>4
<1>. QED
  BY <1>1, <1>2

-----------------------------------------------------------------------------
(* The tables of a release in which every tier is runnable. *)

Whole(l) == l \in [AllowedModels -> SUBSET EffortNames] /\ EveryTierIsRunnable(l)

LEMMA TiersAre ==
  /\ Tiers = {"max", "high", "med", "low"}
  /\ Unsaid \notin Tiers /\ Unsaid \notin Providers /\ Unsaid \notin AllowedModels /\ Unsaid \notin EffortNames
  /\ \A tier \in Tiers : NormaliseTier(tier) = tier
  /\ NormaliseTier(Unsaid) \in Tiers
  /\ \A tier \in Tiers, role \in Roles : TierEffort(tier, role) \in EffortNames
<1>1. Tiers = {"max", "high", "med", "low"}
  BY DEF Tiers, ModelTiers
<1>2. Unsaid \notin Tiers /\ Unsaid \notin Providers /\ Unsaid \notin AllowedModels /\ Unsaid \notin EffortNames
  BY <1>1, EffortsAre DEF Unsaid, Providers, AllowedModels, ModelChoice
<1>3. \A tier \in Tiers : NormaliseTier(tier) = tier
  BY <1>1 DEF NormaliseTier, LegacyModelTiers, Unsaid
<1>4. NormaliseTier(Unsaid) \in Tiers
  BY <1>1 DEF NormaliseTier, DefaultTier
<1>5. \A tier \in Tiers, role \in Roles : TierEffort(tier, role) \in EffortNames
  BY <1>1, EffortsAre DEF TierEffort, TierEfforts, RoleClass
<1>. QED
  BY <1>1, <1>2, <1>3, <1>4, <1>5

\* What a table falls back on is a model of the catalog.
Default(l, provider, tier, role) ==
  IF TierModel(tier, role) # Unsaid THEN TierModel(tier, role) ELSE ModelFor(l, provider, RoleClass(role))

LEMMA ModelForIs ==
  ASSUME NEW l, NEW provider, NEW class, ModelFor(l, provider, class) # Unsaid
  PROVE  ModelFor(l, provider, class) \in AllowedModels
<1>. DEFINE fits == {n \in DOMAIN ChoiceOrder :
                       LET m == ChoiceOrder[n]
                       IN l[m] # {} /\ ModelChoice[m].provider = provider /\ ModelChoice[m].class = class}
<1>1. fits # {} /\ ModelFor(l, provider, class) = ChoiceOrder[CHOOSE n \in fits : \A k \in fits : n <= k]
  BY DEF ModelFor
<1>2. DOMAIN ChoiceOrder = 1 .. 5 /\ \A n \in 1 .. 5 : ChoiceOrder[n] \in AllowedModels
  BY DEF ChoiceOrder, AllowedModels, ModelChoice
<1>3. \E n \in fits : \A k \in fits : n <= k
  <2>1. fits \subseteq 1 .. 5
    BY <1>2
  <2>2. fits # {}
    BY <1>1
  <2>. HIDE DEF fits
  <2>3. CASE 1 \in fits
    BY <2>1, <2>3
  <2>4. CASE 1 \notin fits /\ 2 \in fits
    BY <2>1, <2>4
  <2>5. CASE 1 \notin fits /\ 2 \notin fits /\ 3 \in fits
    BY <2>1, <2>5
  <2>6. CASE 1 \notin fits /\ 2 \notin fits /\ 3 \notin fits /\ 4 \in fits
    BY <2>1, <2>6
  <2>7. CASE 1 \notin fits /\ 2 \notin fits /\ 3 \notin fits /\ 4 \notin fits
    <3>1. \A k \in fits : k = 5
      BY <2>1, <2>7
    <3>. QED
      BY <2>2, <3>1
  <2>. QED
    BY <2>3, <2>4, <2>5, <2>6, <2>7
<1>. QED
  BY <1>1, <1>2, <1>3

LEMMA DefaultIs ==
  ASSUME NEW l, Whole(l), NEW provider \in Providers, NEW tier \in Tiers, NEW role \in Roles
  PROVE  /\ Default(l, provider, tier, role) \in AllowedModels
         /\ Default(l, provider, tier, role) # Unsaid
         /\ TierEffort(tier, role) \in l[Default(l, provider, tier, role)]
<1>1. Default(l, provider, tier, role) # Unsaid /\ TierEffort(tier, role) \in l[Default(l, provider, tier, role)]
  BY DEF Whole, EveryTierIsRunnable, Default
<1>2. TierModel(tier, role) # Unsaid => TierModel(tier, role) \in AllowedModels
  BY DEF TierModel, AllowedModels, ModelChoice, Unsaid
<1>. QED
  BY <1>1, <1>2, ModelForIs DEF Default

LEMMA RowIs ==
  ASSUME Whole(ladder), NEW provider \in Providers, NEW tier \in Tiers, NEW rows, Resolvable(rows), NEW role \in Roles
  PROVE  LET row == ResolveModelTable(provider, tier, rows)[role]
         IN /\ row \in [model : AllowedModels, effort : EffortNames]
            /\ row.model \in Offered
            /\ row.effort \in ladder[row.model]
            /\ role \notin DOMAIN rows => row.effort = TierEffort(tier, role)
<1>. DEFINE said  == IF role \in DOMAIN rows THEN rows[role] ELSE [model |-> Unsaid, effort |-> Unsaid]
            model == IF said.model # Unsaid THEN said.model ELSE Default(ladder, provider, tier, role)
            asked == IF said.effort # Unsaid THEN said.effort ELSE TierEffort(tier, role)
            row == ResolveModelTable(provider, tier, rows)[role]
<1>1. row = [model |-> model, effort |-> ClampEffort(asked, ladder[model])]
  BY DEF ResolveModelTable, Default
<1>2. said.model \in Offered \cup {Unsaid} /\ said.effort \in EffortNames \cup {Unsaid}
  BY DEF Resolvable, EffortNames
<1>3. model \in AllowedModels /\ ladder[model] # {} /\ ladder[model] \in SUBSET EffortNames
  <2>1. model \in AllowedModels /\ ladder[model] # {}
    BY <1>2, DefaultIs DEF Offered
  <2>. QED
    BY <2>1 DEF Whole
<1>4. asked \in EffortNames
  BY <1>2, TiersAre
<1>5. ClampEffort(asked, ladder[model]) \in ladder[model]
  <2>. HIDE DEF model, asked
  <2>. QED
    BY <1>3, <1>4, Clamped
<1>6. ASSUME role \notin DOMAIN rows PROVE row.effort = TierEffort(tier, role)
  <2>1. model = Default(ladder, provider, tier, role) /\ asked = TierEffort(tier, role)
    BY <1>6
  <2>2. asked \in ladder[model]
    BY <2>1, DefaultIs
  <2>3. row.effort = ClampEffort(asked, ladder[model])
    BY <1>1
  <2>. HIDE DEF model, asked, row
  <2>4. ClampEffort(asked, ladder[model]) = asked
    BY <1>3, <1>4, <2>2, Clamped
  <2>. QED
    BY <2>1, <2>3, <2>4
<1>. QED
  BY <1>1, <1>3, <1>5, <1>6 DEF Offered

LEMMA TableIs ==
  ASSUME Whole(ladder), NEW provider \in Providers, NEW tier \in Tiers, NEW rows, Resolvable(rows)
  PROVE  ResolveModelTable(provider, tier, rows) \in Rows
<1>1. \A role \in Roles : ResolveModelTable(provider, tier, rows)[role] \in [model : AllowedModels, effort : EffortNames]
  BY RowIs
<1>2. ResolveModelTable(provider, tier, rows) =
        [role \in Roles |-> ResolveModelTable(provider, tier, rows)[role]]
  BY DEF ResolveModelTable
<1>. QED
  BY <1>1, <1>2 DEF Rows, EffortNames

-----------------------------------------------------------------------------
(* What is saved, and what a launch makes of it. *)

LEMMA NoRowsAre == Resolvable(NoRows) /\ Clean(NoRows) = NoRows
<1>1. DOMAIN NoRows = {}
  BY DEF NoRows
<1>. QED
  BY <1>1 DEF Resolvable, Clean

LEMMA Cleaned ==
  ASSUME NEW rows
  PROVE  /\ Resolvable(rows) => Resolvable(Clean(rows))
         /\ Clean(Clean(rows)) = Clean(rows)
<1>. DEFINE kept == {role \in DOMAIN rows : rows[role].model # Unsaid \/ rows[role].effort # Unsaid}
<1>1. CASE kept = {}
  <2>1. Clean(rows) = NoRows
    BY <1>1 DEF Clean
  <2>. QED
    BY <2>1, NoRowsAre
<1>2. CASE kept # {}
  <2>1. Clean(rows) = [role \in kept |-> rows[role]]
    BY <1>2 DEF Clean
  <2>2. DOMAIN Clean(rows) = kept /\ \A role \in kept : Clean(rows)[role] = rows[role]
    BY <2>1
  <2>3. Resolvable(rows) => Resolvable(Clean(rows))
    BY <2>2 DEF Resolvable
  <2>4. {role \in DOMAIN Clean(rows) : Clean(rows)[role].model # Unsaid \/ Clean(rows)[role].effort # Unsaid} = kept
    BY <2>2
  <2>5. Clean(Clean(rows)) = [role \in kept |-> Clean(rows)[role]]
    BY <1>2, <2>4 DEF Clean
  <2>. QED
    BY <2>1, <2>2, <2>3, <2>5
<1>. QED
  BY <1>1, <1>2

\* What can be launched on.
Sound(s) == s.provider \in Providers /\ s.tier \in Tiers /\ Resolvable(ActiveOverrides(s))

LEMMA SettingsAre ==
  ASSUME NEW body, ValidSettings(body)
  PROVE  Sound(Settings(body)) /\ DOMAIN Settings(body) = {"provider", "tier", "tiers", "overrides"}
<1>. DEFINE tier == NormaliseTier(body.tier)
            legacy == Clean(body.overrides)
            s == Settings(body)
<1>1. /\ s.provider = (IF body.provider = Unsaid THEN "anthropic" ELSE body.provider) /\ s.tier = tier
      /\ s.tiers = [t \in Tiers |-> IF t = tier /\ legacy # NoRows THEN legacy ELSE Bucket(body, t)]
      /\ DOMAIN s = {"provider", "tier", "tiers", "overrides"}
  BY DEF Settings
<1>2. /\ body.provider \in Providers \cup {Unsaid} /\ tier \in Tiers
      /\ \A name \in DOMAIN body.tiers : Resolvable(body.tiers[name])
      /\ Resolvable(body.overrides)
  BY DEF ValidSettings
<1>3. s.provider \in Providers
  BY <1>1, <1>2 DEF Providers
<1>4. Resolvable(legacy)
  BY <1>2, Cleaned
<1>5. Resolvable(Bucket(body, tier))
  <2>1. CASE Given(body, tier) = {}
    BY <2>1, NoRowsAre DEF Bucket
  <2>2. CASE Given(body, tier) # {}
    <3>. DEFINE name == CHOOSE n \in Given(body, tier) : TRUE
    <3>1. name \in DOMAIN body.tiers
      BY <2>2 DEF Given
    <3>2. Bucket(body, tier) = Clean(body.tiers[name])
      BY <2>2 DEF Bucket
    <3>. HIDE DEF name
    <3>. QED
      BY <1>2, <3>1, <3>2, Cleaned
  <2>. QED
    BY <2>1, <2>2
<1>6. ActiveOverrides(s) = IF legacy # NoRows THEN legacy ELSE Bucket(body, tier)
  BY <1>1, <1>2 DEF ActiveOverrides
<1>. QED
  BY <1>1, <1>2, <1>3, <1>4, <1>5, <1>6 DEF Sound

OneBody == \A a, b \in stored : a = b

LEMMA StoredIs ==
  ASSUME OneBody
  PROVE  Sound(StoredModelSettings)
<1>1. CASE \E body \in stored : ValidSettings(body)
  <2>1. PICK body \in stored : ValidSettings(body)
    BY <1>1
  <2>2. (CHOOSE b \in stored : TRUE) = body
    BY <2>1 DEF OneBody
  <2>3. StoredModelSettings = Settings(body)
    BY <1>1, <2>2 DEF StoredModelSettings
  <2>. QED
    BY <2>1, <2>3, SettingsAre
<1>2. CASE ~\E body \in stored : ValidSettings(body)
  <2>1. StoredModelSettings = BuiltIn
    BY <1>2 DEF StoredModelSettings
  <2>2. BuiltIn.provider \in Providers /\ BuiltIn.tier \in Tiers /\ ActiveOverrides(BuiltIn) = NoRows
    BY TiersAre DEF BuiltIn, Providers, ActiveOverrides, DefaultTier
  <2>. QED
    BY <2>1, <2>2, NoRowsAre DEF Sound
<1>. QED
  BY <1>1, <1>2

(* A saved preference cannot stop a launch. *)
LEMMA PreferenceHolds ==
  ASSUME Whole(ladder), OneBody
  PROVE  PreferenceNeverStopsALaunch
<1>. DEFINE s == StoredModelSettings
<1>1. s.provider \in Providers /\ s.tier \in Tiers /\ Resolvable(ActiveOverrides(s))
  BY StoredIs DEF Sound
<1>2. WorkshopRow.model \in Offered
  <2>1. "workshop" \in Roles
    BY DEF Roles, LightRoles
  <2>. HIDE DEF s
  <2>2. ResolveModelTable(s.provider, s.tier, ActiveOverrides(s))["workshop"].model \in Offered
    BY <1>1, <2>1, RowIs
  <2>. QED
    BY <2>2 DEF WorkshopRow, s
<1>3. ASSUME NEW provider \in Providers \cup {Unsaid}, NEW tier \in Tiers \cup {Unsaid}
      PROVE  Launchable([Silent EXCEPT !.provider = provider, !.tier = tier])
  <2>. DEFINE c == [Silent EXCEPT !.provider = provider, !.tier = tier]
              full == Inherited(c)
  <2>1. c.provider = provider /\ c.tier = tier /\ c.overrides = {}
    BY DEF Silent
  <2>2. /\ full.provider = (IF provider = Unsaid THEN s.provider ELSE provider)
        /\ full.tier = (IF tier = Unsaid THEN s.tier ELSE NormaliseTier(tier))
        /\ full.overrides = {Clean(ActiveOverrides(s))}
    <3>. HIDE DEF c
    <3>. QED
      BY <2>1 DEF Inherited, Block
  <2>. HIDE DEF c, full, s
  <2>3. full.provider \in Providers /\ full.tier \in Tiers
    BY <1>1, <2>2, TiersAre
  <2>4. Block(full, NoRows) = Clean(ActiveOverrides(s))
    BY <2>2 DEF Block
  <2>5. Resolvable(Block(full, NoRows))
    BY <1>1, <2>4, Cleaned
  <2>6. Launchable(c)
    BY <2>3, <2>5 DEF Launchable, full
  <2>. QED
    BY <2>6 DEF c
<1>. QED
  BY <1>2, <1>3 DEF PreferenceNeverStopsALaunch

\* A run whose table is what today's release makes of its config.
Resolved(run) ==
  /\ run.config.provider \in Providers /\ run.config.tier \in Tiers
  /\ \E rows : run.config.overrides = {rows} /\ Clean(rows) = rows /\ Resolvable(rows)
  /\ run.table = ResolveModelTable(run.config.provider, run.config.tier, Block(run.config, NoRows))

LEMMA LaunchIs ==
  ASSUME NEW c, Launchable(c), NEW harness, NEW from, NEW silent
  PROVE  LET run == NewRun(c, harness, from, silent)
         IN /\ Resolved(run) /\ run.lane \in Lanes
            /\ run.from = from /\ run.silent = silent /\ run.release = upgrades
            /\ run.config.provider = Inherited(c).provider /\ run.config.tier = Inherited(c).tier
            /\ run.config.overrides = Inherited(c).overrides /\ run.config.workflow = Inherited(c).workflow
<1>. DEFINE run == NewRun(c, harness, from, silent)
            full == Inherited(c)
            block == Clean(Block(c, ActiveOverrides(StoredModelSettings)))
            lane == AlignHarness(harness, full)
<1>1. full.overrides = {block} /\ DOMAIN full = {"provider", "tier", "overrides", "workflow", "runner"}
  BY DEF Inherited
<1>2. full.tier \in Tiers /\ full.provider \in Providers /\ Resolvable(Block(full, NoRows))
  BY DEF Launchable
<1>3. /\ run.from = from /\ run.silent = silent /\ run.release = upgrades /\ run.lane = lane
      /\ run.config = [full EXCEPT !.runner = lane]
      /\ run.table = ResolveModelTable(full.provider, full.tier, Block(full, NoRows))
  BY DEF NewRun
<1>. HIDE DEF full, block, lane, run
<1>4. /\ run.config.provider = full.provider /\ run.config.tier = full.tier
      /\ run.config.overrides = full.overrides /\ run.config.workflow = full.workflow
  BY <1>1, <1>3
<1>5. Block(full, NoRows) = block /\ Block(run.config, NoRows) = block
  BY <1>1, <1>4 DEF Block
<1>6. Clean(block) = block
  BY Cleaned DEF block
<1>7. lane \in Lanes
  BY <1>2 DEF lane, AlignHarness, Harness, Lanes, Providers
<1>8. Resolved(run)
  BY <1>1, <1>2, <1>3, <1>4, <1>5, <1>6 DEF Resolved
<1>. QED
  BY <1>3, <1>4, <1>7, <1>8 DEF full, run

(* Run again, with nothing said, is launched on what its source was. *)
LEMMA CloneIs ==
  ASSUME NEW source, NEW harness, NEW from, NEW silent, Launchable(Inherit(source.config, Silent))
  PROVE  LET run == NewRun(Inherit(source.config, Silent), harness, from, silent)
         IN /\ run.config.workflow = First(source.config.workflow, "tournament")
            /\ run.config.provider = First(source.config.provider, "anthropic")
            /\ Resolved(source) => run.table = source.table
<1>. DEFINE c == Inherit(source.config, Silent)
            run == NewRun(c, harness, from, silent)
            full == Inherited(c)
<1>1. /\ c.provider = First(source.config.provider, "anthropic") /\ c.tier = First(Unsaid, source.config.tier)
      /\ c.overrides = source.config.overrides /\ c.workflow = First(source.config.workflow, "tournament")
  BY DEF Inherit, Silent, First
<1>2. c.provider # Unsaid /\ c.workflow # Unsaid /\ c.tier = source.config.tier
  BY <1>1 DEF First, Unsaid
<1>3. full.provider = c.provider /\ full.workflow = c.workflow
  <2>. HIDE DEF c
  <2>. QED
    BY <1>2 DEF Inherited
<1>4. /\ Resolved(run) /\ run.config.provider = full.provider /\ run.config.tier = full.tier
      /\ run.config.overrides = full.overrides /\ run.config.workflow = full.workflow
  <2>1. Launchable(c)
    OBVIOUS
  <2>. HIDE DEF c
  <2>. QED
    BY <2>1, LaunchIs
<1>5. ASSUME Resolved(source) PROVE run.table = source.table
  <2>1. PICK rows : source.config.overrides = {rows} /\ Clean(rows) = rows
    BY <1>5 DEF Resolved
  <2>2. source.config.provider \in Providers /\ source.config.tier \in Tiers
    BY <1>5 DEF Resolved
  <2>3. c.provider = source.config.provider
    BY <1>1, <2>2, TiersAre DEF First
  <2>4. full.tier = source.config.tier
    <3>1. c.tier # Unsaid /\ NormaliseTier(c.tier) = c.tier
      BY <1>2, <2>2, TiersAre
    <3>. HIDE DEF c
    <3>. QED
      BY <1>2, <3>1 DEF Inherited
  <2>5. full.overrides = {rows}
    <3>1. Block(c, ActiveOverrides(StoredModelSettings)) = rows
      BY <1>1, <2>1 DEF Block
    <3>. HIDE DEF c
    <3>. QED
      BY <2>1, <3>1 DEF Inherited
  <2>. HIDE DEF c, run, full
  <2>6. Block(run.config, NoRows) = rows /\ Block(source.config, NoRows) = rows
    BY <1>4, <2>1, <2>5 DEF Block
  <2>. QED
    BY <1>3, <1>4, <1>5, <2>3, <2>4, <2>6 DEF Resolved
<1>. QED
  BY <1>1, <1>3, <1>4, <1>5

-----------------------------------------------------------------------------
(* The runs there are, and the call that is followed. *)

IsSequence == \E S : modelRuns \in Seq(S)

\* A clone comes after its source, and no run is of a release to come.
Origins ==
  \A n \in DOMAIN modelRuns :
    /\ modelRuns[n].from \in 0 .. n - 1
    /\ modelRuns[n].release \in Int /\ modelRuns[n].release <= upgrades

\* A table of this release is what its config resolves to, still.
FrozenNow ==
  \A n \in DOMAIN modelRuns :
    modelRuns[n].release = upgrades /\ modelRuns[n].config.overrides # {} => Resolved(modelRuns[n])

CallIsKnown ==
  called.lane \in Providers =>
    called.run \in DOMAIN modelRuns /\ called.role \in Roles /\ called.effort \in EffortNames

ModelsInv ==
  /\ RunModelsTypeOK /\ Whole(ladder) /\ OneBody /\ IsSequence
  /\ Origins /\ FrozenNow /\ CallIsKnown /\ CloneReproduces /\ EffortHolds

LEMMA RunsAre ==
  ASSUME IsSequence
  PROVE  Len(modelRuns) \in Nat /\ DOMAIN modelRuns = 1 .. Len(modelRuns)
BY DEF IsSequence

LEMMA FirstReleaseIsWhole ==
  ASSUME ladder = [m \in AllowedModels |-> ModelChoice[m].efforts]
  PROVE  Whole(ladder)
<1>1. /\ DOMAIN ChoiceOrder = 1 .. 5
      /\ \A n \in 1 .. 5 : ChoiceOrder[n] \in AllowedModels
  BY DEF ChoiceOrder, AllowedModels, ModelChoice
<1>2. \A m \in AllowedModels : ladder[m] = EffortNames
  BY DEF AllowedModels, ModelChoice, EffortNames
<1>3. EffortNames # {}
  BY EffortsAre
<1>4. ASSUME NEW provider \in Providers, NEW class \in {"heavy", "light"}
      PROVE  \E n \in 1 .. 5 : ModelChoice[ChoiceOrder[n]].provider = provider /\ ModelChoice[ChoiceOrder[n]].class = class
  <2>1. /\ ModelChoice[ChoiceOrder[1]].provider = "anthropic" /\ ModelChoice[ChoiceOrder[1]].class = "light"
        /\ ModelChoice[ChoiceOrder[2]].provider = "anthropic" /\ ModelChoice[ChoiceOrder[2]].class = "heavy"
        /\ ModelChoice[ChoiceOrder[3]].provider = "openai" /\ ModelChoice[ChoiceOrder[3]].class = "light"
        /\ ModelChoice[ChoiceOrder[4]].provider = "openai" /\ ModelChoice[ChoiceOrder[4]].class = "heavy"
    BY DEF ChoiceOrder, ModelChoice
  <2>. QED
    BY <2>1 DEF Providers
<1>5. ASSUME NEW provider \in Providers, NEW class \in {"heavy", "light"}
      PROVE  ModelFor(ladder, provider, class) \in AllowedModels
  <2>. DEFINE fits == {n \in DOMAIN ChoiceOrder :
                         LET m == ChoiceOrder[n]
                         IN ladder[m] # {} /\ ModelChoice[m].provider = provider /\ ModelChoice[m].class = class}
  <2>1. fits # {} /\ \A n \in fits : n \in 1 .. 5 /\ ChoiceOrder[n] \in AllowedModels
    <3>1. PICK n \in 1 .. 5 : /\ ModelChoice[ChoiceOrder[n]].provider = provider
                              /\ ModelChoice[ChoiceOrder[n]].class = class
      BY <1>4
    <3>2. ladder[ChoiceOrder[n]] # {} /\ n \in DOMAIN ChoiceOrder
      BY <1>1, <1>2, <1>3
    <3>3. n \in fits
      BY <3>1, <3>2
    <3>. QED
      BY <1>1, <3>3
  <2>2. \E n \in fits : \A k \in fits : n <= k
    <3>. HIDE DEF fits
    <3>1. CASE 1 \in fits
      BY <2>1, <3>1
    <3>2. CASE 1 \notin fits /\ 2 \in fits
      BY <2>1, <3>2
    <3>3. CASE 1 \notin fits /\ 2 \notin fits /\ 3 \in fits
      BY <2>1, <3>3
    <3>4. CASE 1 \notin fits /\ 2 \notin fits /\ 3 \notin fits /\ 4 \in fits
      BY <2>1, <3>4
    <3>5. CASE 1 \notin fits /\ 2 \notin fits /\ 3 \notin fits /\ 4 \notin fits
      <4>1. \A k \in fits : k = 5
        BY <2>1, <3>5
      <4>. QED
        BY <2>1, <4>1
    <3>. QED
      BY <3>1, <3>2, <3>3, <3>4, <3>5
  <2>3. ModelFor(ladder, provider, class) = ChoiceOrder[CHOOSE n \in fits : \A k \in fits : n <= k]
    BY <2>1 DEF ModelFor
  <2>. HIDE DEF fits
  <2>. QED
    BY <2>1, <2>2, <2>3
<1>6. ASSUME NEW provider \in Providers, NEW tier \in Tiers, NEW role \in Roles
      PROVE  /\ Default(ladder, provider, tier, role) # Unsaid
             /\ TierEffort(tier, role) \in ladder[Default(ladder, provider, tier, role)]
  <2>1. RoleClass(role) \in {"heavy", "light"}
    BY DEF RoleClass
  <2>2. Default(ladder, provider, tier, role) \in AllowedModels
    <3>1. TierModel(tier, role) # Unsaid => TierModel(tier, role) \in AllowedModels
      BY DEF TierModel, AllowedModels, ModelChoice
    <3>. QED
      BY <1>5, <2>1, <3>1 DEF Default
  <2>. QED
    BY <1>2, <2>2, TiersAre
<1>7. EveryTierIsRunnable(ladder)
  BY <1>6 DEF EveryTierIsRunnable, Default
<1>8. ladder \in [AllowedModels -> SUBSET EffortNames]
  BY <1>2
<1>. QED
  BY <1>7, <1>8 DEF Whole

LEMMA ModelsBegin == RunModelsInit => ModelsInv
<1>. SUFFICES ASSUME RunModelsInit PROVE ModelsInv
  OBVIOUS
<1>1. Whole(ladder)
  BY FirstReleaseIsWhole DEF RunModelsInit
<1>2. OneBody /\ \A body \in stored : DOMAIN body = {"provider", "tier", "tiers", "overrides"}
  BY RunModelsAssumption DEF RunModelsInit, OneBody
<1>3. called.lane = "none" /\ saves = 0 /\ upgrades = 0
  BY DEF RunModelsInit, NoCall
<1>4. called.lane \notin Providers
  BY <1>3 DEF Providers
<1>5. modelRuns = <<>> \/ \E r \in OldRuns : modelRuns = <<r>>
  BY DEF RunModelsInit
<1>6. IsSequence
  <2>1. ASSUME NEW r, modelRuns = <<r>> PROVE modelRuns \in Seq({r})
    BY <2>1
  <2>2. modelRuns = <<>> => modelRuns \in Seq({})
    OBVIOUS
  <2>. QED
    BY <1>5, <2>1, <2>2 DEF IsSequence
<1>7. ASSUME NEW n \in DOMAIN modelRuns PROVE n = 1 /\ modelRuns[n] \in OldRuns
  BY <1>5, <1>7
<1>8. \A n \in DOMAIN modelRuns :
        /\ n = 1 /\ modelRuns[n].table \in Rows /\ modelRuns[n].lane \in Lanes /\ modelRuns[n].from = 0
        /\ modelRuns[n].release \in {-1, 0} /\ (modelRuns[n].release = 0 => modelRuns[n].config.overrides = {})
  BY <1>7, RunModelsAssumption
<1>9. RunModelsTypeOK
  BY <1>1, <1>2, <1>3, <1>8, RunModelsAssumption DEF RunModelsTypeOK, Whole, EffortNames
<1>10. Origins /\ FrozenNow /\ CloneReproduces
  BY <1>3, <1>8 DEF Origins, FrozenNow, CloneReproduces
<1>11. CallIsKnown /\ EffortHolds
  BY <1>4 DEF CallIsKnown, EffortHolds
<1>. QED
  BY <1>1, <1>2, <1>6, <1>9, <1>10, <1>11 DEF ModelsInv

\* What a config resolves to depends on the release alone.
LEMMA SameRelease ==
  ASSUME ladder' = ladder
  PROVE  \A r : Resolved(r)' = Resolved(r)
<1>1. Offered' = Offered
  BY DEF Offered
<1>2. \A rows : Resolvable(rows)' = Resolvable(rows)
  BY <1>1 DEF Resolvable
<1>3. \A p, t, rows : ResolveModelTable(p, t, rows)' = ResolveModelTable(p, t, rows)
  BY DEF ResolveModelTable
<1>. QED
  BY <1>2, <1>3 DEF Resolved

LEMMA ModelsStore == ASSUME ModelsInv, NEW body, StoreModelSettings(body) PROVE ModelsInv'
<1>1. UNCHANGED <<ladder, modelRuns, called, upgrades>> /\ stored' = {Settings(body)} /\ ValidSettings(body)
      /\ saves < MaxSaves /\ saves' = saves + 1
  BY DEF StoreModelSettings
<1>2. OneBody' /\ \A b \in stored' : DOMAIN b = {"provider", "tier", "tiers", "overrides"}
  BY <1>1, SettingsAre DEF OneBody
<1>3. RunModelsTypeOK'
  BY <1>1, <1>2, RunModelsAssumption DEF ModelsInv, RunModelsTypeOK
<1>4. (Whole(ladder) /\ IsSequence /\ Origins /\ CallIsKnown /\ CloneReproduces /\ EffortHolds)'
  <2>1. Whole(ladder) /\ IsSequence /\ Origins /\ CallIsKnown /\ CloneReproduces /\ EffortHolds
    BY DEF ModelsInv
  <2>. QED
    BY <1>1, <2>1 DEF Whole, EveryTierIsRunnable, IsSequence, Origins, CallIsKnown, CloneReproduces, EffortHolds
<1>5. FrozenNow'
  <2>1. FrozenNow
    BY DEF ModelsInv
  <2>2. \A r : Resolved(r)' = Resolved(r)
    BY <1>1, SameRelease
  <2>. QED
    BY <1>1, <2>1, <2>2 DEF FrozenNow
<1>. QED
  BY <1>2, <1>3, <1>4, <1>5 DEF ModelsInv

\* A run is put behind those there are.
Appended(run) ==
  /\ Len(modelRuns') = Len(modelRuns) + 1
  /\ DOMAIN modelRuns' = 1 .. Len(modelRuns) + 1
  /\ \A n \in DOMAIN modelRuns : n \in 1 .. Len(modelRuns) /\ modelRuns'[n] = modelRuns[n]
  /\ modelRuns'[Len(modelRuns) + 1] = run

LEMMA RunIsAppended ==
  ASSUME IsSequence, NEW run, modelRuns' = Append(modelRuns, run)
  PROVE  IsSequence' /\ Appended(run)
<1>1. PICK S : modelRuns \in Seq(S)
  BY DEF IsSequence
<1>2. modelRuns \in Seq(S \cup {run}) /\ run \in S \cup {run}
  <2>1. Seq(S) \subseteq Seq(S \cup {run})
    OBVIOUS
  <2>. QED
    BY <1>1, <2>1
<1>3. modelRuns' \in Seq(S \cup {run})
  BY <1>2, AppendProperties
<1>4. /\ Len(modelRuns') = Len(modelRuns) + 1
      /\ \A n \in 1 .. Len(modelRuns) : modelRuns'[n] = modelRuns[n]
      /\ modelRuns'[Len(modelRuns) + 1] = run
  BY <1>2, AppendProperties
<1>5. DOMAIN modelRuns' = 1 .. Len(modelRuns')
  BY <1>3
<1>. QED
  BY <1>3, <1>4, <1>5, RunsAre DEF IsSequence, Appended

LEMMA ModelsLaunch ==
  ASSUME ModelsInv, NEW c, NEW harness, NEW from \in 0 .. Len(modelRuns), NEW silent,
         Launch(c, harness, from, silent),
         from # 0 /\ silent => c = Inherit(modelRuns[from].config, Silent)
  PROVE  ModelsInv'
<1>. DEFINE run == NewRun(c, harness, from, silent)
            last == Len(modelRuns) + 1
<1>0. /\ RunModelsTypeOK /\ Whole(ladder) /\ OneBody /\ IsSequence
      /\ Origins /\ FrozenNow /\ CallIsKnown /\ CloneReproduces /\ EffortHolds
  BY DEF ModelsInv
<1>1. /\ Launchable(c) /\ modelRuns' = Append(modelRuns, run)
      /\ UNCHANGED <<ladder, stored, called, saves, upgrades>>
  BY DEF Launch
<1>2. /\ Resolved(run) /\ run.lane \in Lanes
      /\ run.from = from /\ run.silent = silent /\ run.release = upgrades
  BY <1>1, LaunchIs
<1>3. run.table \in Rows
  <2>1. PICK rows : run.config.overrides = {rows} /\ Resolvable(rows)
    BY <1>2 DEF Resolved
  <2>2. Block(run.config, NoRows) = rows
    BY <2>1 DEF Block
  <2>3. /\ run.config.provider \in Providers /\ run.config.tier \in Tiers
        /\ run.table = ResolveModelTable(run.config.provider, run.config.tier, rows)
    BY <1>2, <2>2 DEF Resolved
  <2>. HIDE DEF run
  <2>. QED
    BY <1>0, <2>1, <2>3, TableIs
<1>4. from # 0 /\ silent =>
        LET source == modelRuns[from]
        IN /\ run.config.workflow = First(source.config.workflow, "tournament")
           /\ run.config.provider = First(source.config.provider, "anthropic")
           /\ Resolved(source) => run.table = source.table
  <2>. DEFINE source == modelRuns[from]
              clone == NewRun(Inherit(source.config, Silent), harness, from, silent)
  <2>1. Launchable(Inherit(source.config, Silent)) =>
          /\ clone.config.workflow = First(source.config.workflow, "tournament")
          /\ clone.config.provider = First(source.config.provider, "anthropic")
          /\ Resolved(source) => clone.table = source.table
    <3>. HIDE DEF source
    <3>. QED
      BY CloneIs
  <2>2. from # 0 /\ silent => run = clone /\ Launchable(Inherit(source.config, Silent))
    BY <1>1
  <2>. HIDE DEF run, clone
  <2>. QED
    BY <2>1, <2>2
<1>. HIDE DEF run
<1>5. IsSequence' /\ Appended(run)
  BY <1>0, <1>1, RunIsAppended
<1>6. Len(modelRuns) \in Nat /\ DOMAIN modelRuns = 1 .. Len(modelRuns) /\ last \in Nat /\ upgrades \in Int
  BY <1>0, RunsAre, RunModelsAssumption DEF RunModelsTypeOK
<1>7. /\ DOMAIN modelRuns' = 1 .. last /\ modelRuns'[last] = run
      /\ \A n \in DOMAIN modelRuns : n \in 1 .. Len(modelRuns) /\ n # last /\ modelRuns'[n] = modelRuns[n]
      /\ \A n \in DOMAIN modelRuns' : n # last => n \in DOMAIN modelRuns
  BY <1>5, <1>6 DEF Appended
<1>. HIDE DEF last
<1>8. \A r : Resolved(r)' = Resolved(r)
  BY <1>1, SameRelease
<1>9. RunModelsTypeOK'
  BY <1>0, <1>1, <1>2, <1>3, <1>7 DEF RunModelsTypeOK
<1>10. Origins'
  <2>1. run.from \in 0 .. last - 1 /\ run.release \in Int /\ run.release <= upgrades
    BY <1>2, <1>6 DEF last
  <2>. QED
    BY <1>0, <1>1, <1>7, <2>1 DEF Origins
<1>11. FrozenNow'
  BY <1>0, <1>1, <1>2, <1>7, <1>8 DEF FrozenNow
<1>12. CloneReproduces'
  <2>. SUFFICES ASSUME NEW n \in DOMAIN modelRuns', modelRuns'[n].from # 0, modelRuns'[n].silent
                PROVE  LET clone == modelRuns'[n]
                           source == modelRuns'[clone.from]
                       IN /\ clone.config.workflow = First(source.config.workflow, "tournament")
                          /\ clone.config.provider = First(source.config.provider, "anthropic")
                          /\ source.config.overrides # {} /\ clone.release = source.release =>
                               clone.table = source.table
    BY DEF CloneReproduces
  <2>1. CASE n = last
    <3>1. from \in DOMAIN modelRuns /\ from # 0 /\ silent
      BY <1>2, <1>6, <1>7, <2>1
    <3>2. modelRuns'[n] = run /\ modelRuns'[run.from] = modelRuns[from]
      BY <1>2, <1>7, <2>1, <3>1
    <3>3. modelRuns[from].config.overrides # {} /\ modelRuns[from].release = upgrades => Resolved(modelRuns[from])
      BY <1>0, <3>1 DEF FrozenNow
    <3>. QED
      BY <1>2, <1>4, <3>1, <3>2, <3>3
  <2>2. CASE n # last
    <3>1. n \in DOMAIN modelRuns /\ modelRuns'[n] = modelRuns[n] /\ n \in Nat
      BY <1>6, <1>7, <2>2
    <3>2. modelRuns[n].from \in 0 .. n - 1 /\ modelRuns[n].from # 0
      BY <1>0, <3>1 DEF Origins
    <3>3. modelRuns[n].from \in DOMAIN modelRuns
      BY <1>6, <3>1, <3>2
    <3>4. modelRuns'[modelRuns[n].from] = modelRuns[modelRuns[n].from]
      BY <1>7, <3>3
    <3>. QED
      BY <1>0, <3>1, <3>2, <3>4 DEF CloneReproduces
  <2>. QED
    BY <2>1, <2>2
<1>13. CallIsKnown' /\ EffortHolds'
  <2>1. called' = called /\ ladder' = ladder /\ CallIsKnown /\ EffortHolds
    BY <1>0, <1>1
  <2>2. called.lane \in Providers =>
          /\ called.run \in DOMAIN modelRuns /\ called.run \in DOMAIN modelRuns'
          /\ modelRuns'[called.run] = modelRuns[called.run]
    BY <1>5, <1>6, <2>1 DEF CallIsKnown, Appended
  <2>. QED
    BY <2>1, <2>2 DEF CallIsKnown, EffortHolds
<1>14. (Whole(ladder) /\ OneBody)'
  BY <1>0, <1>1 DEF Whole, EveryTierIsRunnable, OneBody
<1>. QED
  BY <1>5, <1>9, <1>10, <1>11, <1>12, <1>13, <1>14 DEF ModelsInv

LEMMA ModelsLaunchRun ==
  ASSUME ModelsInv, NEW said, NEW harness, LaunchRun(said, harness)
  PROVE  ModelsInv'
<1>. DEFINE silent == FALSE
<1>1. Launch(said, harness, 0, silent) /\ ~silent
  BY DEF LaunchRun
<1>2. 0 \in 0 .. Len(modelRuns)
  BY RunsAre DEF ModelsInv
<1>. HIDE DEF silent
<1>. QED
  BY <1>1, <1>2, ModelsLaunch

LEMMA ModelsRunAgain ==
  ASSUME ModelsInv, NEW n \in DOMAIN modelRuns, NEW said, NEW harness, RunAgain(n, said, harness)
  PROVE  ModelsInv'
<1>. DEFINE silent == said = Silent
            c == Inherit(modelRuns[n].config, said)
<1>1. Launch(c, harness, n, silent)
  BY DEF RunAgain
<1>2. silent => c = Inherit(modelRuns[n].config, Silent)
  OBVIOUS
<1>3. n \in 0 .. Len(modelRuns)
  BY RunsAre DEF ModelsInv
<1>. HIDE DEF silent, c
<1>. QED
  BY <1>1, <1>2, <1>3, ModelsLaunch

LEMMA ModelsUpgrade == ASSUME ModelsInv, Upgrade PROVE ModelsInv'
<1>0. /\ RunModelsTypeOK /\ Whole(ladder) /\ OneBody /\ IsSequence
      /\ Origins /\ FrozenNow /\ CallIsKnown /\ CloneReproduces /\ EffortHolds
  BY DEF ModelsInv
<1>1. /\ upgrades < MaxUpgrades /\ upgrades' = upgrades + 1 /\ EveryTierIsRunnable(ladder')
      /\ UNCHANGED <<stored, modelRuns, called, saves>>
  BY DEF Upgrade
<1>2. ladder' \in [AllowedModels -> SUBSET EffortNames] /\ \A m \in AllowedModels : ladder'[m] \subseteq ladder[m]
  <2>1. PICK drop \in Drops :
          /\ drop.model \in Offered
          /\ ladder' = [ladder EXCEPT ![drop.model] = IF drop.rung = "all" THEN {} ELSE @ \ {drop.rung}]
    BY DEF Upgrade
  <2>2. ladder \in [AllowedModels -> SUBSET EffortNames]
    BY <1>0 DEF Whole
  <2>. QED
    BY <2>1, <2>2
<1>3. upgrades \in 0 .. MaxUpgrades /\ MaxUpgrades \in Nat
  BY <1>0, RunModelsAssumption DEF RunModelsTypeOK
<1>4. RunModelsTypeOK'
  <2>1. ladder' \in [AllowedModels -> SUBSET {Efforts[i] : i \in DOMAIN Efforts}]
    BY <1>2 DEF EffortNames
  <2>. QED
    BY <1>0, <1>1, <1>3, <2>1 DEF RunModelsTypeOK
<1>5. Whole(ladder)'
  BY <1>1, <1>2 DEF Whole
<1>6. FrozenNow'
  BY <1>0, <1>1, <1>3 DEF Origins, FrozenNow
<1>7. Origins'
  BY <1>0, <1>1, <1>3 DEF Origins
<1>8. EffortHolds'
  <2>. SUFFICES ASSUME called.lane \in Providers
                PROVE  LET row == modelRuns[called.run].table[called.role]
                       IN /\ Strength(called.effort) >= Strength(row.effort) \/ row.effort \notin ladder'[row.model]
                          /\ called.escalated /\ "high" \in ladder'[row.model] =>
                               \/ Strength(called.effort) >= Strength("high")
                               \/ row.effort \notin ladder'[row.model]
    BY <1>1 DEF EffortHolds
  <2>1. called.run \in DOMAIN modelRuns /\ called.role \in Roles
    BY <1>0 DEF CallIsKnown
  <2>2. modelRuns[called.run].table[called.role].model \in AllowedModels
    BY <1>0, <2>1 DEF RunModelsTypeOK, Rows
  <2>. QED
    BY <1>0, <1>2, <2>2 DEF EffortHolds
<1>9. (OneBody /\ IsSequence /\ CallIsKnown /\ CloneReproduces)'
  BY <1>0, <1>1 DEF OneBody, IsSequence, CallIsKnown, CloneReproduces
<1>. QED
  BY <1>4, <1>5, <1>6, <1>7, <1>8, <1>9 DEF ModelsInv

LEMMA ModelsCall ==
  ASSUME ModelsInv, NEW n \in DOMAIN modelRuns, NEW role \in CalledRoles, NEW escalated \in BOOLEAN,
         Call(n, role, escalated)
  PROVE  ModelsInv'
<1>. DEFINE row == modelRuns[n].table[role]
            effort == Effort(row, escalated)
            lane == IF modelRuns[n].lane = "demo" THEN "demo"
                    ELSE IF row.model \notin Offered THEN "refused" ELSE ModelChoice[row.model].provider
            made == IF lane = "openai" THEN ClampEffort(effort, ladder[row.model]) ELSE effort
<1>0. /\ RunModelsTypeOK /\ Whole(ladder) /\ OneBody /\ IsSequence
      /\ Origins /\ FrozenNow /\ CallIsKnown /\ CloneReproduces /\ EffortHolds
  BY DEF ModelsInv
<1>1. /\ called' = [run |-> n, role |-> role, escalated |-> escalated, lane |-> lane, effort |-> made]
      /\ UNCHANGED <<ladder, stored, modelRuns, saves, upgrades>>
  BY DEF Call
<1>2. role \in Roles /\ row \in [model : AllowedModels, effort : EffortNames]
  BY <1>0, RunModelsAssumption DEF RunModelsTypeOK, Rows, EffortNames
<1>3. "high" \in EffortNames
  BY EffortsAre
<1>4. /\ effort \in EffortNames /\ Strength(effort) >= Strength(row.effort)
      /\ escalated => Strength(effort) >= Strength("high")
  <2>. HIDE DEF row
  <2>1. \A e \in EffortNames : Strength(e) \in Int
    BY StrengthsDiffer
  <2>. QED
    BY <1>2, <1>3, <2>1 DEF Effort, Escalate, EffortAtLeast
<1>5. lane \in Providers \cup {"none", "demo", "refused"} /\ (lane \in Providers => row.model \in Offered)
  <2>1. \A m \in AllowedModels : ModelChoice[m].provider \in Providers
    BY DEF AllowedModels, ModelChoice, Providers
  <2>. QED
    BY <1>2, <2>1 DEF Providers
<1>6. ladder[row.model] \in SUBSET EffortNames /\ (row.model \in Offered => ladder[row.model] # {})
  BY <1>0, <1>2 DEF Whole, Offered
<1>7. lane \in Providers =>
        /\ made \in EffortNames
        /\ Strength(made) >= Strength(row.effort) \/ row.effort \notin ladder[row.model]
        /\ escalated /\ "high" \in ladder[row.model] => Strength(made) >= Strength("high")
  <2>. SUFFICES ASSUME lane \in Providers
                PROVE  /\ made \in EffortNames
                       /\ Strength(made) >= Strength(row.effort) \/ row.effort \notin ladder[row.model]
                       /\ escalated /\ "high" \in ladder[row.model] => Strength(made) >= Strength("high")
    OBVIOUS
  <2>1. ladder[row.model] # {}
    BY <1>5, <1>6
  <2>2. made = ClampEffort(effort, ladder[row.model]) \/ made = effort
    OBVIOUS
  <2>. HIDE DEF row, effort, lane, made
  <2>3. /\ ClampEffort(effort, ladder[row.model]) \in ladder[row.model]
        /\ \A s \in ladder[row.model] :
             Strength(s) <= Strength(effort) => Strength(s) <= Strength(ClampEffort(effort, ladder[row.model]))
    BY <1>4, <1>6, <2>1, Clamped
  <2>4. \A e \in EffortNames : Strength(e) \in Int
    BY StrengthsDiffer
  <2>5. CASE made = effort
    BY <1>4, <2>5
  <2>6. CASE made = ClampEffort(effort, ladder[row.model])
    <3>1. made \in ladder[row.model] /\ made \in EffortNames
      BY <1>6, <2>3, <2>6
    <3>2. row.effort \in ladder[row.model] => Strength(made) >= Strength(row.effort)
      BY <1>2, <1>4, <2>3, <2>4, <2>6, <3>1
    <3>3. escalated /\ "high" \in ladder[row.model] => Strength(made) >= Strength("high")
      BY <1>3, <1>4, <2>3, <2>4, <2>6, <3>1
    <3>. QED
      BY <3>1, <3>2, <3>3
  <2>. QED
    BY <2>2, <2>5, <2>6
<1>. HIDE DEF effort, lane, made
<1>8. /\ called'.run = n /\ called'.role = role /\ called'.escalated = escalated
      /\ called'.lane = lane /\ called'.effort = made
  BY <1>1
<1>9. CallIsKnown' /\ EffortHolds'
  BY <1>1, <1>2, <1>7, <1>8 DEF CallIsKnown, EffortHolds
<1>10. RunModelsTypeOK'
  BY <1>0, <1>1, <1>5, <1>8 DEF RunModelsTypeOK
<1>11. (Whole(ladder) /\ OneBody /\ IsSequence /\ Origins /\ CloneReproduces)'
  BY <1>0, <1>1 DEF Whole, EveryTierIsRunnable, OneBody, IsSequence, Origins, CloneReproduces
<1>12. FrozenNow'
  <2>1. \A r : Resolved(r)' = Resolved(r)
    BY <1>1, SameRelease
  <2>. QED
    BY <1>0, <1>1, <2>1 DEF FrozenNow
<1>. QED
  BY <1>9, <1>10, <1>11, <1>12 DEF ModelsInv

LEMMA ModelsStep == ModelsInv /\ [RunModelsNext]_tableVars => ModelsInv'
<1>. SUFFICES ASSUME ModelsInv, [RunModelsNext]_tableVars PROVE ModelsInv'
  OBVIOUS
<1>1. CASE \E body \in SettingsBodies : StoreModelSettings(body)
  BY <1>1, ModelsStore
<1>2. CASE \E said \in Requests, harness \in Harnesses : LaunchRun(said, harness)
  BY <1>2, ModelsLaunchRun
<1>3. CASE \E said \in Requests, harness \in Harnesses, n \in DOMAIN modelRuns : RunAgain(n, said, harness)
  BY <1>3, ModelsRunAgain
<1>4. CASE \E n \in DOMAIN modelRuns, role \in CalledRoles, escalated \in BOOLEAN : Call(n, role, escalated)
  BY <1>4, ModelsCall
<1>5. CASE Upgrade
  BY <1>5, ModelsUpgrade
<1>6. CASE UNCHANGED tableVars
  <2>1. UNCHANGED <<ladder, stored, modelRuns, called, saves, upgrades>>
    BY <1>6 DEF tableVars
  <2>2. \A r : Resolved(r)' = Resolved(r)
    BY <2>1, SameRelease
  <2>3. (RunModelsTypeOK /\ Whole(ladder) /\ OneBody /\ IsSequence)'
    BY <2>1 DEF ModelsInv, RunModelsTypeOK, Whole, EveryTierIsRunnable, OneBody, IsSequence
  <2>4. (Origins /\ FrozenNow)'
    BY <2>1, <2>2 DEF ModelsInv, Origins, FrozenNow
  <2>5. (CallIsKnown /\ CloneReproduces /\ EffortHolds)'
    BY <2>1 DEF ModelsInv, CallIsKnown, CloneReproduces, EffortHolds
  <2>. QED
    BY <2>3, <2>4, <2>5 DEF ModelsInv
<1>. QED
  BY <1>1, <1>2, <1>3, <1>4, <1>5, <1>6 DEF RunModelsNext

LEMMA NewRunIsRunnable ==
  ASSUME ModelsInv, NEW c, NEW harness, NEW from, NEW silent, Launch(c, harness, from, silent),
         NEW n \in DOMAIN modelRuns', n \notin DOMAIN modelRuns, NEW role \in Roles
  PROVE  /\ modelRuns'[n].table[role].effort \in ladder[modelRuns'[n].table[role].model]
         /\ role \notin DOMAIN Block(modelRuns'[n].config, NoRows) =>
              modelRuns'[n].table[role].effort = TierEffort(modelRuns'[n].config.tier, role)
<1>. DEFINE run == NewRun(c, harness, from, silent)
<1>1. Launchable(c) /\ modelRuns' = Append(modelRuns, run) /\ IsSequence /\ Whole(ladder)
  BY DEF Launch, ModelsInv
<1>2. Resolved(run)
  BY <1>1, LaunchIs
<1>. HIDE DEF run
<1>3. modelRuns'[n] = run
  <2>1. Appended(run) /\ Len(modelRuns) \in Nat /\ DOMAIN modelRuns = 1 .. Len(modelRuns)
    BY <1>1, RunIsAppended, RunsAre
  <2>2. n = Len(modelRuns) + 1
    BY <2>1 DEF Appended
  <2>. QED
    BY <2>1, <2>2 DEF Appended
<1>4. PICK rows : run.config.overrides = {rows} /\ Resolvable(rows)
  BY <1>2 DEF Resolved
<1>5. Block(run.config, NoRows) = rows
  BY <1>4 DEF Block
<1>6. /\ run.config.provider \in Providers /\ run.config.tier \in Tiers
      /\ run.table = ResolveModelTable(run.config.provider, run.config.tier, rows)
  BY <1>2, <1>5 DEF Resolved
<1>7. /\ run.table[role].effort \in ladder[run.table[role].model]
      /\ role \notin DOMAIN rows => run.table[role].effort = TierEffort(run.config.tier, role)
  BY <1>1, <1>4, <1>6, RowIs
<1>. QED
  BY <1>3, <1>5, <1>7

\* A run is born of a launch.
LEMMA BirthIsALaunch ==
  ASSUME [RunModelsNext]_tableVars, modelRuns' # modelRuns
  PROVE  \E c, harness, from, silent : Launch(c, harness, from, silent)
<1>1. CASE \E said \in Requests, harness \in Harnesses : LaunchRun(said, harness)
  <2>1. PICK said \in Requests, harness \in Harnesses : LaunchRun(said, harness)
    BY <1>1
  <2>. DEFINE silent == FALSE
  <2>2. Launch(said, harness, 0, silent)
    BY <2>1 DEF LaunchRun
  <2>. HIDE DEF silent
  <2>. QED
    BY <2>2
<1>2. CASE \E said \in Requests, harness \in Harnesses, n \in DOMAIN modelRuns : RunAgain(n, said, harness)
  <2>1. PICK said \in Requests, harness \in Harnesses, n \in DOMAIN modelRuns : RunAgain(n, said, harness)
    BY <1>2
  <2>. DEFINE silent == said = Silent
  <2>2. Launch(Inherit(modelRuns[n].config, said), harness, n, silent)
    BY <2>1 DEF RunAgain
  <2>. HIDE DEF silent
  <2>. QED
    BY <2>2
<1>3. CASE \/ \E body \in SettingsBodies : StoreModelSettings(body)
           \/ \E n \in DOMAIN modelRuns, role \in CalledRoles, escalated \in BOOLEAN : Call(n, role, escalated)
           \/ Upgrade \/ UNCHANGED tableVars
  BY <1>3 DEF StoreModelSettings, Call, Upgrade, tableVars
<1>. QED
  BY <1>1, <1>2, <1>3 DEF RunModelsNext

LEMMA BornRunnableStep ==
  ASSUME ModelsInv, [RunModelsNext]_tableVars
  PROVE  \A n \in DOMAIN modelRuns' \ DOMAIN modelRuns :
           LET run == modelRuns'[n] IN
           \A role \in Roles :
             /\ run.table[role].effort \in ladder[run.table[role].model]
             /\ role \notin DOMAIN Block(run.config, NoRows)
                  => run.table[role].effort = TierEffort(run.config.tier, role)
<1>. SUFFICES ASSUME NEW n \in DOMAIN modelRuns', n \notin DOMAIN modelRuns, NEW role \in Roles
              PROVE  /\ modelRuns'[n].table[role].effort \in ladder[modelRuns'[n].table[role].model]
                     /\ role \notin DOMAIN Block(modelRuns'[n].config, NoRows) =>
                          modelRuns'[n].table[role].effort = TierEffort(modelRuns'[n].config.tier, role)
  OBVIOUS
<1>1. modelRuns' # modelRuns
  OBVIOUS
<1>2. PICK c, harness, from, silent : Launch(c, harness, from, silent)
  BY <1>1, BirthIsALaunch
<1>. QED
  BY <1>2, NewRunIsRunnable

\* A run of this release without overrides has its preset's table.
LEMMA CardsAgree ==
  ASSUME FrozenNow
  PROVE  CardsTellTheTable
<1>. SUFFICES ASSUME NEW n \in DOMAIN modelRuns,
                     modelRuns[n].release = upgrades, modelRuns[n].config.overrides # {}
              PROVE  ModelLevel(modelRuns[n]).custom <=>
                       modelRuns[n].table #
                         ResolveModelTable(modelRuns[n].config.provider, modelRuns[n].config.tier, NoRows)
  BY DEF CardsTellTheTable
<1>1. Resolved(modelRuns[n])
  BY DEF FrozenNow
<1>. DEFINE run == modelRuns[n]
            canonical == ResolveModelTable(run.config.provider, run.config.tier, NoRows)
<1>2. run.config.provider # Unsaid /\ NormaliseTier(run.config.tier) = run.config.tier
  BY <1>1, TiersAre DEF Resolved
<1>3. Block(run.config, NoRows) = NoRows => run.table = canonical
  BY <1>1 DEF Resolved
<1>. QED
  BY <1>2, <1>3 DEF ModelLevel

(* A run starts and goes on with the models it was given, whatever settings  *)
(* are saved, runs cloned and releases deployed around it: a preference      *)
(* never stops a launch (stored_model_settings), a clone of a run is what    *)
(* its source was (_inherit), a call is made at the effort frozen for its    *)
(* role unless the release dropped it, a table is born on ladders the        *)
(* release has (resolve_model_table), and a card says custom when the table  *)
(* is (model_level).                                                         *)
THEOREM ModelsAreSafe == RunModelsSpec => ModelsSafe
<1>1. RunModelsInit => ModelsInv
  BY ModelsBegin
<1>2. ModelsInv /\ [RunModelsNext]_tableVars => ModelsInv'
  BY ModelsStep
<1>3. ModelsInv => RunModelsTypeOK /\ PreferenceNeverStopsALaunch /\ CloneReproduces /\ EffortHolds /\ CardsTellTheTable
  BY PreferenceHolds, CardsAgree DEF ModelsInv
<1>4. ModelsInv /\ [RunModelsNext]_tableVars =>
        [\A n \in DOMAIN modelRuns' \ DOMAIN modelRuns :
           LET run == modelRuns'[n] IN
           \A role \in Roles :
             /\ run.table[role].effort \in ladder[run.table[role].model]
             /\ role \notin DOMAIN Block(run.config, NoRows)
                  => run.table[role].effort = TierEffort(run.config.tier, role)]_tableVars
  BY BornRunnableStep
<1>. QED
  BY <1>1, <1>2, <1>3, <1>4, PTL DEF RunModelsSpec, ModelsSafe, BornRunnable
=============================================================================
