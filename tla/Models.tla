------------------------------- MODULE Models -------------------------------
(***************************************************************************)
(* The model policy of engine/models.py: the closed list of models a call  *)
(* may ask for, the effort ladder, and the substitution guard that         *)
(* compares the models a call reports with the one it asked for.           *)
(*                                                                         *)
(* A reported name is [stem, rest]: the row of the family table it starts  *)
(* with (or the vendor's namespace, or "other"), and what follows it: ""   *)
(* (the stem itself), "-" (a dated or numbered version) or "+" (another    *)
(* word that happens to start alike).  A placeholder the CLI writes for a  *)
(* synthetic turn has the stem "<".  The two housekeeping names are rows   *)
(* of their own here; the code finds them under "claude-haiku".            *)
(***************************************************************************)
EXTENDS Integers, FiniteSets, Sequences

Efforts == <<"low", "medium", "high", "xhigh", "max">>
Providers == {"anthropic", "openai"}
ModelClasses == {"heavy", "light"}
Unranked == -1

ModelChoice ==
  [m \in {"claude-opus-5", "fable", "gpt-5.6-luna", "gpt-5.6-sol", "gpt-6-astra"} |->
     [provider |-> IF m \in {"claude-opus-5", "fable"} THEN "anthropic" ELSE "openai",
      class    |-> IF m \in {"claude-opus-5", "gpt-5.6-luna"} THEN "light" ELSE "heavy",
      efforts  |-> {Efforts[i] : i \in DOMAIN Efforts}]]
AllowedModels == DOMAIN ModelChoice

FamilyRank ==
  [anthropic |-> [n \in {"claude-fable-5-1", "claude-fable-5", "claude-mythos-5", "claude-opus-5",
                         "claude-opus-4", "claude-opus-3", "claude-sonnet", "claude-haiku-4-5",
                         "claude-haiku-3", "claude-haiku", "claude-3", "claude-2"} |->
                    CASE n = "claude-fable-5-1" -> 4
                      [] n \in {"claude-fable-5", "claude-mythos-5"} -> 3
                      [] n = "claude-opus-5" -> 2
                      [] n \in {"claude-opus-4", "claude-opus-3", "claude-sonnet"} -> 1
                      [] OTHER -> 0],
   openai    |-> [n \in {"gpt-6-astra", "gpt-5.6-sol", "gpt-5.6-terra", "gpt-5.6-luna",
                         "gpt-5.5", "gpt-5.4-mini", "gpt-5.4", "gpt-5.3"} |->
                    CASE n = "gpt-6-astra" -> 4
                      [] n = "gpt-5.6-sol" -> 3
                      [] n \in {"gpt-5.6-terra", "gpt-5.6-luna"} -> 2
                      [] n \in {"gpt-5.5", "gpt-5.4"} -> 1
                      [] OTHER -> 0]]
ProviderPrefix == [anthropic |-> "claude-", openai |-> "gpt-"]
FloorRank == [anthropic |-> 2, openai |-> 2]
Housekeeping == [anthropic |-> {"claude-haiku-4-5", "claude-haiku-3"}, openai |-> {}]

CanonicalFamily(m) == [stem |-> IF m = "fable" THEN "claude-fable-5-1" ELSE m, rest |-> ""]

\* _family: provider and rank are decided apart; "none" is no provider this engine knows.
Vendors(n)  == {p \in Providers : n.stem \in DOMAIN FamilyRank[p] \cup {ProviderPrefix[p]}}
ReportedProvider(n) == IF Vendors(n) = {} THEN "none" ELSE CHOOSE p \in Vendors(n) : TRUE
ModelRank(n) ==
  LET p == ReportedProvider(n)
  IN IF p \in Providers /\ n.stem \in DOMAIN FamilyRank[p] THEN FamilyRank[p][n.stem] ELSE Unranked

\* A CLI's own small turns; another provider's are not excused.
IsHousekeeping(n, provider) == n.stem \in Housekeeping[provider]
ReportedModels(usage, provider) ==
  {n \in usage : n.stem # "<" /\ ~IsHousekeeping(n, provider)}

\* check_substitution: what the models in usage say of a call that asked for m.
CheckSubstitution(m, usage) ==
  LET expected == CanonicalFamily(m)
      provider == ReportedProvider(expected)
      names    == ReportedModels(usage, provider)
      ours     == {n \in names : ReportedProvider(n) = provider}
      ranked   == {n \in ours : ModelRank(n) # Unranked}
      swapped  == \E n \in names : ~(n.stem = expected.stem /\ n.rest \in {"", "-"})
  IN [swapped       |-> swapped,
      cross         |-> swapped /\ names # ours,
      below_floor   |-> swapped /\ \E n \in ranked : ModelRank(n) < FloorRank[provider],
      below_request |-> swapped /\ \E n \in ranked : ModelRank(n) < ModelRank(expected),
      unrecognised  |-> swapped /\ ranked # ours]

Fatal(swap) == swap.below_floor \/ swap.cross

----------------------------------------------------------------------------
(* The effort ladder *)

Strength(e) == CHOOSE i \in DOMAIN Efforts : Efforts[i] = e

EffortAtLeast(e, minimum) == IF Strength(e) >= Strength(minimum) THEN e ELSE minimum

ClampEffort(e, supported) ==
  LET below == {s \in supported : Strength(s) <= Strength(e)}
  IN IF below # {} THEN CHOOSE s \in below : \A t \in below : Strength(t) <= Strength(s)
     ELSE CHOOSE s \in supported : \A t \in supported : Strength(s) <= Strength(t)

ResolveEffort(m, e) == ClampEffort(e, ModelChoice[m].efforts)
=============================================================================
