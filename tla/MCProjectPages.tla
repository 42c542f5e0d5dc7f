---------------------------- MODULE MCProjectPages ----------------------------
(***************************************************************************)
(* Small instances of what the pages of a project run: the blueprint and   *)
(* the bootstrap, prompts, work, the studio, compliance, publication,      *)
(* amendments and acceptance.  They share no state, so each is explored on *)
(* its own.                                                                *)
(***************************************************************************)
EXTENDS ProjectPages, TLC

CONSTANTS y,
          Parts  \* the parts a run explores

VARIABLE part

Alike == Permutations(PromptCalls)  \* named q1 and q2, as windows and acceptances are

\* Keys by the profile first, then by the gates.
ToKeyRank == [r \in Revisions |-> 4 * r["profile"] + r["gates"]]

IdOrder ==
  << "gate:architecture:future-scale",
     "gate:critical:independent-verification",
     "gate:durability:ageing-regression",
     "gate:operations:dependency-sovereignty",
     "gate:platform:compatibility",
     "gate:quality:evidence",
     "gate:security:authority",
     "gate:security:resilience-containment",
     "gate:ux:commercial-quality",
     "gate:ux:human-acceptance",
     "module:architecture:boundaries",
     "module:architecture:operational-sovereignty",
     "module:architecture:structural-capacity",
     "module:critical:disaster-recovery",
     "module:critical:threat-model",
     "module:data:source-of-truth",
     "module:governance:architectural-longevity",
     "module:governance:evolution",
     "module:maintenance:long-term-durability",
     "module:micro:release-definition",
     "module:operations:release",
     "module:platform:compatibility",
     "module:platform:extension-contract",
     "module:product:domain-model",
     "module:product:purpose",
     "module:quality:evidence",
     "module:security:authority",
     "module:security:fortress-resilience",
     "module:small:regression",
     "module:system:integration",
     "module:system:observability",
     "module:ux:information-architecture",
     "module:ux:premium-usability",
     "module:ux:product-elegance" >>

Need(id, kind, required, depth, dependsOn, constraint) ==
  [id |-> id, kind |-> kind, required |-> required, depth |-> depth,
   dependsOn |-> dependsOn, constraint |-> constraint]
\* Three modules and a gate of the foundation.
A == "module:quality:evidence"
B == "module:architecture:boundaries"
P == "module:product:purpose"
G == "gate:quality:evidence"
Menu ==
  { Need(A, "module", TRUE, 1, {B}, NoConstraint),
    Need(B, "module", FALSE, 0, {P}, "node"),
    Need(B, "module", FALSE, 2, {}, "deno"),
    Need(P, "module", FALSE, 1, {}, NoConstraint),
    Need(P, "module", FALSE, 0, {A}, NoConstraint),
    Need(G, "gate", TRUE, 3, {A}, NoConstraint),
    Need(G, "module", TRUE, 0, {}, NoConstraint) }

ToIds == {IdOrder[n] : n \in DOMAIN IdOrder}
ToIdRank == [i \in ToIds |-> CHOOSE n \in DOMAIN IdOrder : IdOrder[n] = i]

Template(id, rank, requirements, activation) ==
  [id |-> id, rank |-> rank, requirements |-> requirements,
   activation |-> activation]
AtLevelOne == {[operator |-> "equals", field |-> "blueprintLevel", value |-> 1]}
ForGit == {[operator |-> "includes", field |-> "externalIntegrations", value |-> "git"]}

\* A constitution of two requirements and two templates in either order.
Catalog(level, rank, p, q, r, s) ==
  LET constitution == Template(1, 0, <<p, q>>, {})
      common == Template(3, rank, <<r>>, AtLevelOne)
      other == Template(2, 2, <<s>>, ForGit)
  IN [profile |-> [blueprintLevel |-> level, externalIntegrations |-> {"git"}],
      constitution |-> constitution,
      delegated |-> IF rank = 1 THEN <<common, other>>
                    ELSE <<other, constitution, common>>]
ToCatalogs ==
  {Catalog(level, rank, p, q, r, s) :
     level \in {0, 1}, rank \in {1, 3}, p \in Menu, q \in Menu, r \in Menu, s \in Menu}

Node(id, stage, dependsOn, humanGate) ==
  [id |-> id, stage |-> stage, dependsOn |-> dependsOn, humanGate |-> humanGate]
Workflow(id, project, status, nodes) ==
  [workflowId |-> id, project |-> project, status |-> status,
   constitutionMin |-> 1, nodes |-> nodes]
\* Authored out of order; with a human gate in between; with a cycle.
Chain == << Node(2, "TEST", <<3>>, FALSE), Node(3, "TEST", <<1>>, FALSE),
            Node(1, "DISCOVER", <<>>, FALSE), Node(4, "RELEASE", <<2, 3>>, TRUE) >>
Fork == << Node(1, "DISCOVER", <<>>, FALSE), Node(2, "REVIEW", <<1>>, TRUE),
           Node(3, "TEST", <<>>, FALSE), Node(4, "REVIEW", <<3, 2>>, FALSE) >>
Ring == << Node(1, "DISCOVER", <<>>, FALSE), Node(2, "TEST", <<3>>, FALSE),
           Node(3, "TEST", <<2>>, FALSE) >>
ToStudioManifests ==
  { << Workflow(1, "hub", "candidate", Chain), Workflow(2, "app", "candidate", Fork) >>,
    << Workflow(1, "hub", "candidate", Ring) >>,
    << Workflow(1, "hub", "approved", Fork) >> }

Manifest(version, pillars, weakened) ==
  [policyVersion |-> version, blueprintLevel |-> "B5", inheritedPillars |-> pillars,
   weakened |-> weakened]
ToLevels == [r \in {"hub", "app"} |-> "B5"]
ToCommits == [r \in {"hub", "app"} |-> IF r = "app" THEN 2 ELSE 1]
ToAdoptions ==
  { NoManifest, Manifest(2, Pillars, FALSE), Manifest(2, RequiredPillars(1), FALSE),
    Manifest(1, RequiredPillars(1), FALSE), Manifest(3, Pillars, FALSE),
    Manifest(2, Pillars, TRUE) }
\* Everything passes; evidence for the gate of two pillars is missing, or for
\* a gate of none, or a module is.
Elegance == "gate:ux:commercial-quality"
OfNoPillar == "gate:quality:evidence"
Passed == [status |-> "pass", evidenceIds |-> {1, 2}, linked |-> {1, 2}]
AllPass == [required |-> ConstitutionalGates \union UNION {PillarRequirements[q] : q \in Pillars},
            bundles |-> [h \in ConstitutionalGates |-> Passed]]
ToQualities == "hub" :> {AllPass} @@ "app" :>
  { AllPass, [AllPass EXCEPT !.bundles[Elegance].linked = {1}],
    [AllPass EXCEPT !.bundles[OfNoPillar].linked = {1}],
    [AllPass EXCEPT !.required = @ \ {"module:ux:product-elegance"}] }
ToDoubted ==
  "hub" :> {} @@ "app" :> {"state", "blockers", "product-elegance", Elegance, OfNoPillar}

\* The sealed revision; what the patch makes of it; the same but for a
\* projection, or for code the digest does not cover; another workflow.
ToGitRevisions == {"sealed", "law", "rewritten", "recoded", "reworked"}
LawFiles(version) == [path \in PublicationPaths |->
  [version |-> version, text |-> IF path \in AuthoritySetPaths THEN version ELSE 0]]
ToOriginals == [revision \in ToGitRevisions |->
  CASE revision \in {"sealed", "reworked"} -> LawFiles(1)
    [] revision = "law" -> LawFiles(2)
    [] revision = "rewritten" -> [LawFiles(2) EXCEPT !["ecosystem-snapshot"].text = 1]
    [] revision = "recoded" -> [LawFiles(2) EXCEPT !["policy-source"].text = 3]]
ToPatches == [revision \in ToGitRevisions |->
  [path \in PublicationPaths |-> [from |-> LawFiles(1)[path], to |-> LawFiles(2)[path]]]]
ToWorkflows == [revision \in ToGitRevisions |-> IF revision = "reworked" THEN 2 ELSE 1]
ToGateRevisions == << "sealed" >>
ToGateAttempts == << 2 >>

ToFinalRevisions == << 1, 1 >>
ToReviewed == << "sound", "severe" >>

ToEvidence == {[revision |-> 1, digest |-> 1], [revision |-> 1, digest |-> 2],
               [revision |-> 2, digest |-> 1]}

InitParts ==
  /\ part \in Parts /\ InitPages
  /\ part # "journey" => shown.form = y
  /\ part # "studio" => catalog[1].nodes = Fork
  /\ part # "acceptance" => compassRevision = 1 /\ ~constitutionOk

NextParts ==
  /\ UNCHANGED part
  /\ \/ part = "resolver" /\ ResolverRuns
     \/ part = "factory" /\ FactoryRuns
     \/ part = "prompts" /\ PromptsRun
     \/ part = "journey" /\ JourneyRuns
     \/ part = "studio" /\ StudioRuns
     \/ part = "ecosystem" /\ EcosystemRuns
     \/ part = "publication" /\ PublicationRuns
     \/ part = "acceptance" /\ AcceptanceRuns
     \/ part = "console" /\ ConsoleRuns

SpecParts == InitParts /\ [][NextParts]_<<part, pagesVars>>
=============================================================================
