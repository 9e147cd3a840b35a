----------------------------- MODULE MCRoleCall -----------------------------
(***************************************************************************)
(* TLC instance of RoleCall: a grounded and a tool-less call to Claude and *)
(* a call to Codex, three lines each.                                      *)
(***************************************************************************)
EXTENDS RoleCall

MCTools == {"WebSearch", StructuredOutput}

MCCalls ==
  {[provider |-> "claude", model |-> "claude-opus-5", tools |-> {"WebSearch"}, grounded |-> TRUE],
   [provider |-> "claude", model |-> "fable", tools |-> {}, grounded |-> FALSE],
   [provider |-> "codex", model |-> "gpt-5.6-sol", tools |-> {"WebSearch"}, grounded |-> TRUE]}

Opus     == [stem |-> "claude-opus-5", rest |-> "-"]
Sonnet   == [stem |-> "claude-sonnet", rest |-> "-"]
Haiku    == [stem |-> "claude-haiku-4-5", rest |-> "-"]

\* What a result line reports: its own housekeeping, the model asked for, a weaker one.
MCUsages == {{Opus, Haiku}, {Opus, Sonnet}}
=============================================================================
