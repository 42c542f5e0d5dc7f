----------------------------- MODULE ProjectFactory -----------------------------
(***************************************************************************)
(* The Project Bootstrap Factory: a page where an intent is edited,        *)
(* previewed as a plan and confirmed, and the server that recommends a     *)
(* blueprint level, resolves the foundation templates and lays out the     *)
(* roadmap.  Previews and confirmations are calls to the server: the page  *)
(* may be edited before their answers arrive.                              *)
(***************************************************************************)
EXTENDS BlueprintResolver

CONSTANTS MaxEdits,   \* bound of edits of the form
          MaxCreated  \* bound of projects confirmed

Module(id, depth, deps) ==
  [id |-> "module:" \o id, kind |-> "module", required |-> TRUE, depth |-> depth,
   dependsOn |-> {"module:" \o d : d \in deps}, constraint |-> NoConstraint]
Gate(id, depth, deps) ==
  [id |-> "gate:" \o id, kind |-> "gate", required |-> TRUE, depth |-> depth,
   dependsOn |-> {"module:" \o d : d \in deps}, constraint |-> NoConstraint]

\* Depths: 0 basic, 1 standard, 2 advanced, 3 critical.
UniversalModules ==
  << Module("product:purpose", 0, {}),
     Module("architecture:boundaries", 1, {"product:purpose"}),
     Module("data:source-of-truth", 1, {"architecture:boundaries"}),
     Module("security:authority", 1, {"architecture:boundaries"}),
     Module("ux:information-architecture", 1, {"product:purpose"}),
     Module("quality:evidence", 1, {"architecture:boundaries"}),
     Module("operations:release", 1, {"quality:evidence"}),
     Module("governance:evolution", 1, {"architecture:boundaries"}),
     Module("architecture:structural-capacity", 1, {"architecture:boundaries"}),
     Module("governance:architectural-longevity", 1,
            {"architecture:boundaries", "governance:evolution"}),
     Module("ux:product-elegance", 1, {"ux:information-architecture"}),
     Module("ux:premium-usability", 1,
            {"product:purpose", "ux:information-architecture"}),
     Module("maintenance:long-term-durability", 1,
            {"architecture:boundaries", "data:source-of-truth",
             "quality:evidence", "operations:release"}),
     Module("security:fortress-resilience", 1,
            {"security:authority", "data:source-of-truth", "operations:release"}),
     Module("architecture:operational-sovereignty", 1,
            {"architecture:boundaries", "data:source-of-truth",
             "operations:release"}) >>
UniversalGates ==
  << Gate("quality:evidence", 1, {"quality:evidence"}),
     Gate("security:authority", 1, {"security:authority"}),
     Gate("ux:human-acceptance", 1, {"ux:information-architecture"}),
     Gate("architecture:future-scale", 1, {"architecture:structural-capacity"}),
     Gate("ux:commercial-quality", 1,
          {"ux:product-elegance", "ux:premium-usability"}),
     Gate("durability:ageing-regression", 1, {"maintenance:long-term-durability"}),
     Gate("operations:dependency-sovereignty", 1,
          {"architecture:operational-sovereignty"}),
     Gate("security:resilience-containment", 1, {"security:fortress-resilience"}) >>

LevelTemplate(level, requirements) ==
  [id |-> level + 2, rank |-> 1, requirements |-> requirements,
   activation |-> {[operator |-> "equals", field |-> "blueprintLevel",
                    value |-> level]}]

\* Levels B0 to B5 are 0 to 5; the templates' ids are numbered in order.
FoundationTemplates ==
  {  [id |-> 1, rank |-> 0, activation |-> {},
      requirements |-> UniversalModules \o UniversalGates],
     LevelTemplate(0, << Module("micro:release-definition", 0, {"product:purpose"}) >>),
     LevelTemplate(1, << Module("small:regression", 0, {"quality:evidence"}) >>),
     LevelTemplate(2, << Module("product:domain-model", 1, {"architecture:boundaries"}) >>),
     LevelTemplate(3, << Module("system:integration", 2, {"architecture:boundaries"}),
                         Module("system:observability", 2, {"operations:release"}) >>),
     LevelTemplate(4, << Module("platform:extension-contract", 2, {"architecture:boundaries"}),
                         Module("platform:compatibility", 2, {"governance:evolution"}),
                         Gate("platform:compatibility", 2, {"platform:compatibility"}) >>),
     LevelTemplate(5, << Module("critical:threat-model", 3, {"security:authority"}),
                         Module("critical:disaster-recovery", 3, {"operations:release"}),
                         Gate("critical:independent-verification", 3, {"quality:evidence"}) >>) }

\* The ids of the foundation are among the ids there are.
ASSUME FactoryAssumption ==
  /\ MaxEdits \in Nat /\ MaxCreated \in Nat
  /\ \A t \in FoundationTemplates : IsTemplate(t)
-----------------------------------------------------------------------------
(* An intent: the signals the level is drawn from; "text" stands for the   *)
(* free texts, which may be blank; a minimum of 0 is none.                 *)

Signals ==
  [text |-> {"y", "z", "blank"},
   dataSensitivity |-> {"public", "internal", "confidential", "restricted"},
   persistence |-> {"none", "local", "server", "hybrid"},
   authentication |-> {"none", "optional", "required"},
   authorization |-> {"none", "simple", "role-based", "policy-based"},
   offlineRequirement |-> {"none", "read", "read-write"},
   externalIntegrations |-> {0, 1, 3},
   aiUse |-> {"none", "assistive", "core-feature", "agentic"},
   extensibilityRequirement |-> {"none", "configuration", "templates", "plugins"},
   expectedLifetime |-> {"temporary", "months", "years", "long-lived"},
   criticality |-> {"low", "standard", "high", "critical"},
   minimumBlueprintLevel |-> 0..5]

DefaultIntent ==
  [text |-> "y", dataSensitivity |-> "internal", persistence |-> "server",
   authentication |-> "required", authorization |-> "role-based",
   offlineRequirement |-> "none", externalIntegrations |-> 0,
   aiUse |-> "assistive", extensibilityRequirement |-> "configuration",
   expectedLifetime |-> "years", criticality |-> "standard",
   minimumBlueprintLevel |-> 0]

(* recommendBlueprintLevel: each group of signals raises to its level. *)
SignalledLevels(i) ==
  {0}
  \union (IF \/ i.persistence # "none" \/ i.authentication # "none"
             \/ i.expectedLifetime \in {"years", "long-lived"} THEN {1} ELSE {})
  \union (IF \/ i.persistence \in {"server", "hybrid"}
             \/ i.authentication = "required"
             \/ i.authorization \in {"role-based", "policy-based"}
             \/ i.dataSensitivity = "confidential" THEN {2} ELSE {})
  \union (IF \/ i.externalIntegrations > 0 \/ i.offlineRequirement = "read-write"
             \/ i.aiUse \in {"core-feature", "agentic"}
             \/ i.criticality = "high" THEN {3} ELSE {})
  \union (IF \/ i.extensibilityRequirement \in {"templates", "plugins"}
             \/ i.externalIntegrations >= 3 THEN {4} ELSE {})
  \union (IF \/ i.criticality = "critical"
             \/ i.dataSensitivity = "restricted" /\ i.authorization = "policy-based"
          THEN {5} ELSE {})

RecommendBlueprintLevel(i) == Max(SignalledLevels(i) \union {i.minimumBlueprintLevel})

ProfileFromIntent(i) == [intent |-> i, blueprintLevel |-> RecommendBlueprintLevel(i)]

Resolution(level) == ResolveBlueprint([blueprintLevel |-> level], FoundationTemplates)
\* One for each level: of the profile the foundation templates read only that.
Resolutions == [level \in 0..5 |-> Resolution(level)]

(* Seeded fault: dependencies are not turned into the ids of items. *)
RoadmapItemRaw(resolution, id) ==
  [id |-> "item:" \o id, dependsOn |-> resolution.requirements[id].dependsOn]

(* The roadmap item of a required module or gate: it waits for the modules *)
(* among its dependencies that the blueprint requires.                     *)
RoadmapItem(resolution, id) ==
  [id |-> id,
   dependsOn |-> resolution.requirements[id].dependsOn \intersect resolution.modules]

Roadmap(resolution) ==
  {RoadmapItem(resolution, id) : id \in resolution.modules \union resolution.gates}
Ready(roadmap) == {item \in roadmap : item.dependsOn = {}}

(* Seeded fault: texts are not looked at. *)
PlannableBlank(i) == Resolutions[RecommendBlueprintLevel(i)].status = "success"
(* createProjectBootstrapPlan throws on blank texts and on conflicts. *)
Plannable(i) ==
  i.text # "blank" /\ Resolutions[RecommendBlueprintLevel(i)].status = "success"
Plan(i) == ProfileFromIntent(i)
\* The roadmap of a plan is drawn from its profile's level alone.
Roadmaps == [level \in 0..5 |-> Roadmap(Resolutions[level])]
-----------------------------------------------------------------------------
VARIABLES intent,   \* the form
          plan,     \* the plan the page shows, or NoPlan
          pending,  \* the server call in flight, or NoPlan
          edits, created  \* edits done; projects created

factoryVars == <<intent, plan, pending, edits, created>>
NoPlan == [at |-> "none"]

InitFactory ==
  /\ intent = DefaultIntent /\ plan = NoPlan /\ pending = NoPlan
  /\ edits = 0 /\ created = <<>>

(* A field is edited, pending call or not: the plan is dropped. *)
Edit(s, value) ==
  /\ edits < MaxEdits /\ value # intent[s]
  /\ intent' = [intent EXCEPT ![s] = value]
  /\ edits' = edits + 1 /\ plan' = NoPlan
  /\ UNCHANGED <<pending, created>>

(* preview: the button is disabled while a call is pending. *)
Preview ==
  /\ pending = NoPlan
  /\ pending' = [at |-> "preview", intent |-> intent]
  /\ UNCHANGED <<intent, plan, edits, created>>

ShownOn(i, old) == IF Plannable(i) THEN Plan(i) ELSE NoPlan

(* The answer to a preview replaces the plan. *)
PreviewAnswer ==
  /\ pending.at = "preview"
  /\ plan' = ShownOn(pending.intent, plan)
  /\ pending' = NoPlan
  /\ UNCHANGED <<intent, edits, created>>

(* confirmCanonical: only with a plan; it sends the form's intent. *)
Confirm ==
  /\ plan # NoPlan /\ pending = NoPlan /\ Len(created) < MaxCreated
  /\ pending' = [at |-> "confirm", intent |-> intent, reviewed |-> plan]
  /\ UNCHANGED <<intent, plan, edits, created>>

(* createCanonicalProjectFromBootstrapAction: the plan is made again and a *)
(* project with fresh ids inserted; "reviewed" is what the page showed.    *)
CreateFromBootstrap ==
  /\ pending.at = "confirm" /\ Plannable(pending.intent)
  /\ created' = Append(created, [profile |-> Plan(pending.intent),
                                 reviewed |-> pending.reviewed])
  /\ pending' = NoPlan
  /\ UNCHANGED <<intent, plan, edits>>

(* The session, the authority or the plan refuses, or the insert fails. *)
ConfirmFails ==
  /\ pending.at = "confirm" /\ pending' = NoPlan
  /\ UNCHANGED <<intent, plan, edits, created>>

NextFactory ==
  \/ \E s \in DOMAIN Signals : \E value \in Signals[s] : Edit(s, value)
  \/ Preview \/ PreviewAnswer \/ Confirm \/ CreateFromBootstrap \/ ConfirmFails

SpecFactory == InitFactory /\ [][NextFactory]_factoryVars
-----------------------------------------------------------------------------
(* Properties.                                                             *)

\* A profile is of a full intent, with no text left blank.
ProfileType(profile) ==
  /\ profile.blueprintLevel \in 0..5
  /\ \A s \in DOMAIN Signals : profile.intent[s] \in Signals[s]
  /\ profile.intent.text # "blank"
TypeOKFactory ==
  /\ \A s \in DOMAIN Signals : intent[s] \in Signals[s]
  /\ plan = NoPlan \/ ProfileType(plan)
  /\ \A i \in DOMAIN created : ProfileType(created[i].profile)
  /\ edits \in 0..MaxEdits
  /\ pending.at \in {"none", "preview", "confirm"}
  /\ Len(created) \in 0..MaxCreated

(* What can be done of a roadmap, step after step. *)
Doable(roadmap) ==
  Repeat(LAMBDA done : {item.id : item \in {j \in roadmap : j.dependsOn \subseteq done}},
         {}, Cardinality(roadmap))
DoableAt == [level \in 0..5 |-> Doable(Roadmaps[level])]

(* Every plan the page shows can be carried out in the order of its        *)
(* roadmap: no item waits for work outside the plan or, through others,    *)
(* for itself, and some item is ready at the start.                        *)
PlansAreExecutable ==
  plan # NoPlan =>
    /\ {item.id : item \in Roadmaps[plan.blueprintLevel]}
         = DoableAt[plan.blueprintLevel]
    /\ Ready(Roadmaps[plan.blueprintLevel]) # {}

(* "Nothing here writes canonical project state until you explicitly       *)
(* confirm the reviewed Bootstrap Plan": a created project has the profile *)
(* of the plan its creator saw when confirming.                            *)
ConfirmedPlanWasReviewed ==
  \A n \in DOMAIN created : created[n].profile = created[n].reviewed

(* A minimum "may increase but never weaken derived engineering depth":    *)
(* what the plan requires without the minimum it requires with it.         *)
MinimumNeverWeakens ==
  plan # NoPlan =>
    LET derived == [plan.intent EXCEPT !.minimumBlueprintLevel = 0]
    IN {item.id : item \in Roadmaps[RecommendBlueprintLevel(derived)]}
         \subseteq {item.id : item \in Roadmaps[plan.blueprintLevel]}
=============================================================================
