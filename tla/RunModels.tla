------------------------------ MODULE RunModels ------------------------------
(***************************************************************************)
(* Which model answers for each role of a run, and since when.  The system *)
(* default is saved by an administrator and inherited field by field by a  *)
(* launch; "run again" inherits from its source run instead; every run     *)
(* freezes the table it resolved to and is driven from it, also by a later *)
(* release whose catalog has moved.  The catalog is the ladder of efforts  *)
(* each model offers; a model dropped has none.                            *)
(*                                                                         *)
(* A config field that is absent, or null where null abstains, is Unsaid   *)
(* (for overrides: {}; a block stated is {block}).                         *)
(***************************************************************************)
EXTENDS Models

CONSTANTS
  SettingsBodies,   \* bound: bodies of PUT /settings/models
  Requests,         \* bound: config blocks of a launch
  OldSettings,      \* settings rows found in the database, by shape
  OldRuns,          \* runs found there, by shape
  CalledRoles,      \* bound: roles whose calls are followed, one call in all
  Harnesses,        \* bound: lanes a launch asks for
  Drops,            \* bound: what a release may drop: a model's rung, or "all" of it
  MaxRuns, MaxSaves, MaxUpgrades

VARIABLES
  ladder,     \* the release: model -> the efforts it offers
  stored,     \* the row models.default: {} or {body}
  modelRuns,  \* every run: config, table, lane, and where it came from
  called,     \* the call followed
  saves, upgrades

tableVars == <<ladder, stored, modelRuns, called, saves, upgrades>>

HeavyRoles == {"framing", "verification", "synthesis", "challenge", "generation", "reflection",
               "ranking", "meta_review", "overview"}
LightRoles == {"proximity", "evolution", "cartographer", "workshop"}
Roles == HeavyRoles \cup LightRoles
RoleClass(role) == IF role \in HeavyRoles THEN "heavy" ELSE "light"

ModelTiers == <<"max", "high", "med", "low">>
DefaultTier == "max"
Tiers == {ModelTiers[i] : i \in DOMAIN ModelTiers}
LegacyModelTiers == [balanced |-> "high", standard |-> "high", quality |-> "max", maximum |-> "max"]
TierEfforts == [max  |-> [heavy |-> "xhigh", light |-> "high"],
                high |-> [heavy |-> "high", light |-> "medium"],
                med  |-> [heavy |-> "low", light |-> "low"],
                low  |-> [heavy |-> "high", light |-> "high"]]
PinnedLowRoles == {"proximity"}
Harness == [anthropic |-> "claude", openai |-> "codex"]
Lanes == {"claude", "codex", "demo"}
ChoiceOrder == <<"claude-opus-5", "fable", "gpt-5.6-luna", "gpt-5.6-sol", "gpt-6-astra">>

Unsaid == "unsaid"
NoRows == <<>>             \* a block that overrides nothing
NoCall == [run |-> 0, role |-> Unsaid, effort |-> Unsaid, escalated |-> FALSE, lane |-> "none"]
Rows == [Roles -> [model : AllowedModels, effort : {Efforts[i] : i \in DOMAIN Efforts}]]

\* A run found in the database was not cloned from one followed here, and says
\* what it overrides only if an earlier release resolved it.
ASSUME RunModelsAssumption ==
  /\ MaxRuns \in Nat /\ MaxSaves \in Nat /\ MaxUpgrades \in Nat
  /\ CalledRoles \subseteq Roles
  /\ \A b \in SettingsBodies \cup OldSettings : DOMAIN b = {"provider", "tier", "tiers", "overrides"}
  /\ \A c \in Requests : DOMAIN c = {"provider", "tier", "overrides", "workflow", "runner"}
  /\ \A r \in OldRuns : /\ r.table \in Rows /\ r.lane \in Lanes /\ r.from = 0
                         /\ r.release \in {-1, 0} /\ (r.release = 0 => r.config.overrides = {})

----------------------------------------------------------------------------
(* The catalog as it is today *)

Offered == {m \in AllowedModels : ladder[m] # {}}

NormaliseTier(name) ==
  IF name = Unsaid THEN DefaultTier ELSE IF name \in DOMAIN LegacyModelTiers THEN LegacyModelTiers[name] ELSE name

TierEffort(tier, role) == IF role \in PinnedLowRoles THEN "low" ELSE TierEfforts[tier][RoleClass(role)]
\* Unsaid: the tier leaves the model to the provider.
TierModel(tier, role) == IF tier = "low" THEN "gpt-5.6-luna" ELSE Unsaid

\* The provider's first model of the class, if it has one.
ModelFor(l, provider, class) ==
  LET fits == {n \in DOMAIN ChoiceOrder :
                 LET m == ChoiceOrder[n]
                 IN l[m] # {} /\ ModelChoice[m].provider = provider /\ ModelChoice[m].class = class}
  IN IF fits = {} THEN Unsaid ELSE ChoiceOrder[CHOOSE n \in fits : \A k \in fits : n <= k]

\* _assert_every_tier_is_runnable: else the release does not start.
EveryTierIsRunnable(l) ==
  \A provider \in Providers, tier \in Tiers, role \in Roles :
    LET pinned == TierModel(tier, role)
        m == IF pinned # Unsaid THEN pinned ELSE ModelFor(l, provider, RoleClass(role))
    IN m # Unsaid /\ TierEffort(tier, role) \in l[m]

\* Whether a block of overrides can become a table.
Resolvable(rows) ==
  /\ DOMAIN rows \subseteq Roles
  /\ \A role \in DOMAIN rows : /\ rows[role].model \in Offered \cup {Unsaid}
                               /\ rows[role].effort \in {Efforts[i] : i \in DOMAIN Efforts} \cup {Unsaid}

ResolveModelTable(provider, tier, rows) ==
  [role \in Roles |->
     LET said  == IF role \in DOMAIN rows THEN rows[role] ELSE [model |-> Unsaid, effort |-> Unsaid]
         model == IF said.model # Unsaid THEN said.model
                  ELSE IF TierModel(tier, role) # Unsaid THEN TierModel(tier, role)
                  ELSE ModelFor(ladder, provider, RoleClass(role))
         asked == IF said.effort # Unsaid THEN said.effort ELSE TierEffort(tier, role)
     IN [model |-> model, effort |-> ClampEffort(asked, ladder[model])]]

----------------------------------------------------------------------------
(* services/settings/models.py *)

\* A role whose row states nothing is not in the block.
Clean(rows) ==
  LET kept == {role \in DOMAIN rows : rows[role].model # Unsaid \/ rows[role].effort # Unsaid}
  IN IF kept = {} THEN NoRows ELSE [role \in kept |-> rows[role]]

Given(body, tier) == {name \in DOMAIN body.tiers : NormaliseTier(name) = tier}

Bucket(body, tier) ==
  IF Given(body, tier) = {} THEN NoRows ELSE Clean(body.tiers[CHOOSE name \in Given(body, tier) : TRUE])

ValidSettings(body) ==
  LET tier == NormaliseTier(body.tier)
      legacy == Clean(body.overrides)
  IN /\ body.provider \in Providers \cup {Unsaid} /\ tier \in Tiers
     /\ \A name \in DOMAIN body.tiers : NormaliseTier(name) \in Tiers /\ Resolvable(body.tiers[name])
     /\ \A t \in Tiers : Cardinality(Given(body, t)) <= 1
     /\ Resolvable(body.overrides)
     /\ legacy = NoRows \/ Bucket(body, tier) \in {NoRows, legacy}

\* What a body becomes; the old single block is the selected tier's.
Settings(body) ==
  LET tier == NormaliseTier(body.tier)
      legacy == Clean(body.overrides)
  IN [provider  |-> IF body.provider = Unsaid THEN "anthropic" ELSE body.provider,
      tier      |-> tier,
      tiers     |-> [t \in Tiers |-> IF t = tier /\ legacy # NoRows THEN legacy ELSE Bucket(body, t)],
      overrides |-> NoRows]

BuiltIn == [provider |-> "anthropic", tier |-> DefaultTier, tiers |-> [t \in Tiers |-> NoRows], overrides |-> NoRows]

\* stored_model_settings: total, whatever the row says today.
StoredModelSettings ==
  IF \E body \in stored : ValidSettings(body) THEN Settings(CHOOSE body \in stored : TRUE) ELSE BuiltIn

ActiveOverrides(s) == s.tiers[s.tier]

StoreModelSettings(body) ==
  /\ saves < MaxSaves /\ saves' = saves + 1
  /\ ValidSettings(body)
  /\ stored' = {Settings(body)}
  /\ UNCHANGED <<ladder, modelRuns, called, upgrades>>

\* The workshop's line of the default's table.
WorkshopRow == LET s == StoredModelSettings
               IN ResolveModelTable(s.provider, s.tier, ActiveOverrides(s))["workshop"]

----------------------------------------------------------------------------
(* services/runs/launcher.py *)

Block(c, otherwise) == IF c.overrides = {} THEN otherwise ELSE CHOOSE rows \in c.overrides : TRUE

\* What resolve_config starts from: the three fields inherited, each by itself.
Inherited(c) ==
  LET s == StoredModelSettings
  IN [provider  |-> IF c.provider = Unsaid THEN s.provider ELSE c.provider,
      tier      |-> IF c.tier = Unsaid THEN s.tier ELSE NormaliseTier(c.tier),
      overrides |-> {Clean(Block(c, ActiveOverrides(s)))},
      workflow  |-> IF c.workflow = Unsaid THEN "adaptive" ELSE c.workflow,
      runner    |-> c.runner]

Launchable(c) ==
  LET full == Inherited(c)
  IN full.tier \in Tiers /\ full.provider \in Providers /\ Resolvable(Block(full, NoRows))

\* _align_harness: lane and runner tell one story.
AlignHarness(harness, full) ==
  IF harness = "demo" \/ full.runner = "demo" THEN "demo" ELSE Harness[full.provider]

NewRun(c, harness, from, silent) ==
  LET full == Inherited(c)
      lane == AlignHarness(harness, full)
  IN [config |-> [full EXCEPT !.runner = lane],
      table  |-> ResolveModelTable(full.provider, full.tier, Block(full, NoRows)),
      lane   |-> lane, from |-> from, silent |-> silent, release |-> upgrades]

Launch(c, harness, from, silent) ==
  /\ Len(modelRuns) < MaxRuns
  /\ Launchable(c)
  /\ modelRuns' = Append(modelRuns, NewRun(c, harness, from, silent))
  /\ UNCHANGED <<ladder, stored, called, saves, upgrades>>

LaunchRun(said, harness) == Launch(said, harness, 0, FALSE)

Silent == [provider |-> Unsaid, tier |-> Unsaid, overrides |-> {}, workflow |-> Unsaid, runner |-> Unsaid]
First(a, b) == IF a # Unsaid THEN a ELSE b

(* Mutant: a clone says what the wizard's draft says, nulls included. *)
InheritStatedNulls(source, said) ==
  [provider  |-> First(said.provider, First(source.provider, "anthropic")),
   tier      |-> First(said.tier, source.tier),
   overrides |-> said.overrides,
   workflow  |-> First(said.workflow, First(source.workflow, "tournament")),
   runner    |-> First(said.runner, source.runner)]
\* _inherit and _stated: the source's config, with what was said over it.
Inherit(source, said) ==
  [provider  |-> First(said.provider, First(source.provider, "anthropic")),
   tier      |-> First(said.tier, source.tier),
   overrides |-> IF said.overrides # {} THEN said.overrides ELSE source.overrides,
   workflow  |-> First(said.workflow, First(source.workflow, "tournament")),
   runner    |-> First(said.runner, source.runner)]

RunAgain(n, said, harness) ==
  Launch(Inherit(modelRuns[n].config, said), harness, n, said = Silent)

----------------------------------------------------------------------------
(* A call of a run: _role_cfg, role_config, the router and the runner's own check *)

Escalate(effort) == EffortAtLeast(effort, "high")

Effort(row, escalated) == IF escalated THEN Escalate(row.effort) ELSE row.effort

\* Codex clamps what it is asked for, Claude does not; a model dropped has no lane.
Call(n, role, escalated) ==
  LET row == modelRuns[n].table[role]
      effort == Effort(row, escalated)
      lane == IF modelRuns[n].lane = "demo" THEN "demo"
              ELSE IF row.model \notin Offered THEN "refused" ELSE ModelChoice[row.model].provider
  IN /\ called = NoCall
     /\ called' = [run |-> n, role |-> role, escalated |-> escalated, lane |-> lane,
                   effort |-> IF lane = "openai" THEN ClampEffort(effort, ladder[row.model]) ELSE effort]
     /\ UNCHANGED <<ladder, stored, modelRuns, saves, upgrades>>

----------------------------------------------------------------------------
(* Releases *)

\* A later release drops a model or a rung of its ladder.
Upgrade ==
  /\ upgrades < MaxUpgrades /\ upgrades' = upgrades + 1
  /\ \E drop \in Drops :
       /\ drop.model \in Offered
       /\ ladder' = [ladder EXCEPT ![drop.model] = IF drop.rung = "all" THEN {} ELSE @ \ {drop.rung}]
  /\ EveryTierIsRunnable(ladder')
  /\ UNCHANGED <<stored, modelRuns, called, saves>>

----------------------------------------------------------------------------
(* run_metadata.model_level: what a run's card says of its preset *)

Distance(a, b) == Cardinality({role \in Roles : a[role].model # b[role].model})
                    + Cardinality({role \in Roles : a[role].effort # b[role].effort})

Nearest(run, base) ==
  LET far(t) == Distance(run.table, ResolveModelTable(run.config.provider, t, NoRows))
      order  == <<base>> \o SelectSeq(ModelTiers, LAMBDA t : t # base)
      best   == {i \in DOMAIN order : \A j \in DOMAIN order : far(order[i]) <= far(order[j])}
  IN order[CHOOSE i \in best : \A j \in best : i <= j]

ModelLevel(run) ==
  LET base == NormaliseTier(run.config.tier)
      custom == Block(run.config, NoRows) # NoRows
  IN IF run.config.provider = Unsaid THEN [tier |-> base, custom |-> custom]
     ELSE IF run.table = ResolveModelTable(run.config.provider, base, NoRows) \/ ~custom
          THEN [tier |-> base, custom |-> FALSE]
          ELSE [tier |-> Nearest(run, base), custom |-> TRUE]

----------------------------------------------------------------------------
RunModelsInit ==
  /\ ladder = [m \in AllowedModels |-> ModelChoice[m].efforts]
  /\ stored \in {{}} \cup {{body} : body \in OldSettings}
  /\ modelRuns \in {<<>>} \cup {<<run>> : run \in OldRuns}
  /\ called = NoCall /\ saves = 0 /\ upgrades = 0

RunModelsNext ==
  \/ \E body \in SettingsBodies : StoreModelSettings(body)
  \/ \E said \in Requests, harness \in Harnesses :
       LaunchRun(said, harness) \/ \E n \in DOMAIN modelRuns : RunAgain(n, said, harness)
  \/ \E n \in DOMAIN modelRuns, role \in CalledRoles, escalated \in BOOLEAN : Call(n, role, escalated)
  \/ Upgrade

RunModelsSpec == RunModelsInit /\ [][RunModelsNext]_tableVars

----------------------------------------------------------------------------
(* Properties *)

RunModelsTypeOK ==
  /\ ladder \in [AllowedModels -> SUBSET {Efforts[i] : i \in DOMAIN Efforts}]
  /\ \A body \in stored : DOMAIN body = {"provider", "tier", "tiers", "overrides"}
  /\ \A n \in DOMAIN modelRuns : modelRuns[n].table \in Rows /\ modelRuns[n].lane \in Lanes
  /\ called.lane \in Providers \cup {"none", "demo", "refused"}
  /\ saves \in 0 .. MaxSaves /\ upgrades \in 0 .. MaxUpgrades

(* A saved preference cannot stop a run: whatever is stored and whatever the
   release has dropped since, a launch that states no model, in any tier and for
   any provider, resolves, and so does the workshop's row. *)
PreferenceNeverStopsALaunch ==
  /\ \A provider \in Providers \cup {Unsaid}, tier \in Tiers \cup {Unsaid} :
       Launchable([Silent EXCEPT !.provider = provider, !.tier = tier])
  /\ WorkshopRow.model \in Offered

(* A run is launched on models the release offers, each at an effort of its own
   ladder; and a tier's efforts are the ones it names, unless the row is overridden. *)
BornRunnable ==
  [][\A n \in DOMAIN modelRuns' \ DOMAIN modelRuns :
       LET run == modelRuns'[n] IN
       \A role \in Roles :
         /\ run.table[role].effort \in ladder[run.table[role].model]
         /\ role \notin DOMAIN Block(run.config, NoRows)
              => run.table[role].effort = TierEffort(run.config.tier, role)]_tableVars

(* Run again, with nothing said, reproduces its source: same workflow, same
   provider, and, in the same release, the same table, whatever was saved in
   between.  A config that states no overrides is a run from before the field. *)
CloneReproduces ==
  \A n \in DOMAIN modelRuns :
    LET run == modelRuns[n] IN
    run.from # 0 /\ run.silent =>
      LET source == modelRuns[run.from] IN
      /\ run.config.workflow = First(source.config.workflow, "tournament")
      /\ run.config.provider = First(source.config.provider, "anthropic")
      /\ source.config.overrides # {} /\ run.release = source.release => run.table = source.table

(* A call is made at the effort frozen for its row or more; less, only where the
   model's ladder has become shorter. *)
EffortHolds ==
  called.lane \in Providers =>
    LET row == modelRuns[called.run].table[called.role] IN
    /\ Strength(called.effort) >= Strength(row.effort) \/ row.effort \notin ladder[row.model]
    /\ called.escalated /\ "high" \in ladder[row.model] => Strength(called.effort) >= Strength("high")
                                                             \/ row.effort \notin ladder[row.model]

(* model_level's flag, "whether the effective table is custom": in the release a
   run was launched or cloned in, its card says custom exactly when the table the
   run is driven from departs from its preset, overrides or none: rows that were
   inherited, cleaned or clamped back to the preset do not make it so. *)
CardsTellTheTable ==
  \A n \in DOMAIN modelRuns :
    LET run == modelRuns[n] IN
    run.release = upgrades /\ run.config.overrides # {} =>
      (ModelLevel(run).custom <=>
         run.table # ResolveModelTable(run.config.provider, run.config.tier, NoRows))

(* A run starts and goes on with the models it was given, whatever is saved,
   cloned or released around it. *)
ModelsSafe ==
  [](RunModelsTypeOK /\ PreferenceNeverStopsALaunch /\ CloneReproduces /\ EffortHolds /\ CardsTellTheTable)
    /\ BornRunnable
=============================================================================
