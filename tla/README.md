# Blueprint OS: TLA+ models, checks and proofs

Blueprint OS keeps the governance of software projects: who may decide what,
which rules (the Constitution) bind every project, which work packages, quality
gates, releases and architecture decisions a project has, and a workflow engine
that may execute one node of an approved workflow under a signed, bounded
grant. This directory models the parts whose correctness depends on order,
concurrency and failure, checks the models with TLC on small instances and
proves the most important facts with TLAPS for all instances.

`PROJECT.json` lists the components, runs, theorems, seeded faults, hazards and
findings, and maps each definition to the lines it stands for.

## 1. The system

A TypeScript monorepo over PostgreSQL. Requests are served by several stateless
processes (`apps/web`), so two calls of one service may interleave at every
`await`; nothing but the database is shared. There is no queue and no retry
layer. A process may die at any await; a transaction commits whole or not at
all. Pages read several things one after the other and keep what they read
until they are refreshed.

| Component | State it keeps | Operations | What is hard | What makes it correct |
|---|---|---|---|---|
| Workflow execution gateway (`application/prompt-workflow-execution.ts`) | locals of one invocation | `executeEvidenceBoundWorkflowNode`, `executeBoundedWorkflowNode` | a dozen awaits between what is checked and what is done; replays; death after the claim | one executor per requestId, bounded attempts and tokens, no action without a fresh check, report = journal, every call ends |
| Execution journal (`runtime/workflow-execution-journal.ts`) | claims and observations, append only | `claim`, `append`, `read` | two claims at once, append that fails after the action | a claim of a requestId is exclusive and for ever |
| Execution authority (`runtime/workflow-execution-authority.ts`, repository) | two append-only decision logs | adopt, allow, rotate, revoke; two assertions | decisions commit out of the order of their stamps; key snapshot | a claim rests on decisions that held during the call |
| Inspection pipeline (`runtime/workflow-inspection-*.ts`, `workflow-scoped-github-executor.ts`) | verdicts, append only | run the gateway, read back, verify, journal the verdict | sources move between the phases, every request may fail | a verdict is for exactly the journalled attempt, over the whole scope, while it was live |
| Constitution amendment service (`application/constitution-authority.ts`, repository) | amendments with a version, revisions, evidence, decisions, publications | propose, impact, migration, open, approve, reject, publish, propagate, verify | concurrent decisions, stale copies, change of owner, two amendments for one version | each amendment follows the lifecycle; law is what was sealed and approved by the present owner |
| Amendment console (`apps/web/app/constitution`) | what each window shows | forms, prepare, publish | several windows, evidence read after the rows | a decision is about what its card showed |
| Constitution publication (`constitution-publication*.ts`, gate scripts) | runs, artifacts and evidence at GitHub | gate, preparation, verification | a run started again while it is read back, evidence that expires, main that moves | what is published was tested as it is, by a run that is whole |
| Propagation and compliance (`constitution-propagation.ts`, `constitution-compliance-matrix.ts`) | manifests in repositories, two snapshot files | record, audit, show | files written one row at a time, new policy versions | a green cell rests on an attestation of that commit |
| Authority and roles (`core/authority.ts`, repository) | System Owner, roles, audit trail | bootstrap, `require`, grant | roles change during a call, two bootstraps | one bootstrap, and the trail accounts for every role |
| Work packages, gates, evidence (`application/work-quality-service.ts`) | versioned rows | create, update, add evidence | check and write are separate and touch different rows | no dependency cycle, pass only with evidence |
| Releases (`application/release-service.ts`) | versioned rows | create, update | several reads before one compare and set, at a version that is an argument and not the one read | shipped only on passed gates of its revision; identity immutable |
| Governance records, lessons (`application/governance-service.ts`) | versioned rows | decisions, risks, debt, lessons | as releases | accepted decisions immutable, links point to something |
| Professional review | one decision per candidate | submit | concurrent reviewers, redeployment under open screens | one decision, by somebody entitled, over no blocking finding |
| Sign-on and identity link (`apps/web/app/api/sso`) | link rows with revocation, cookies | start, callback, finish, logout | concurrent enrolment, revocation, cookies of several tabs | one link, the owner's, never reassigned |
| System Compass and acceptance | gate, evidence and pass of a revision | accept, show | three writes that may each be the last, runs started again | accepted means reviewed, released and tested as that revision |
| Blueprint resolver (`blueprint-engine/src/resolver.ts`) | none (pure) | resolve | order, merge, closure and cycles | the answer meets the contract or names the conflict |
| Project bootstrap | the page of one project to be | edit, preview, confirm | answers that arrive late | what is created was reviewed, its roadmap can be done |
| Prompts and profile | versioned profile, prompt history | render, record, page | sources read one by one | a fresh prompt is of current records |
| Guided workspace | what the page shows | six server actions | late answers, inserts that fail half-way | "persisted" means stored |
| Workflow readiness and graph | workflow records, receipts | preview, readiness, graph | two passes over records that move | a node is shown ready or done only on evidence |
| Read models, portability, contracts, scripts | none | projections, validators | boundary cases | agree with their definition |

**Interactions.** The web actions call one service each. Every service asks
Authority first, reads through its repository, and writes once, in a
transaction, comparing the row with the version its caller names. That version
is an argument: work packages, gates, releases, decisions, risks, debt and lessons
are updated without comparing it with the row that was read and checked, so a call
may name a version that is stored only later. The amendment service does compare
the two. The release service also reads the gates and evidence of work and quality; so does acceptance, which
adds the review and what GitHub says of the release gate. The inspection
pipeline calls the gateway, which asks the readiness plan, the authority logs
and the freshness port (Git HEAD and canonical revision), then claims in the
journal and loops over the runner; the pipeline then verifies and writes the
verdict. Publishing an amendment reads the Full Gate back; a publication then
spreads to the repositories, whose manifests and attestations an operator
records for the compliance matrix.

## 2. Modules

| Module | Stands for |
|---|---|
| `WorkflowAuthority` | decision logs ordered by stamp and random id; `StampAdoption` / `CommitAdoption` (and `...Issuer`) are the two halves of a transaction, so a later stamp may commit first; `Adopted`, `MayExecute` are the assertions |
| `WorkflowJournal` | the contract of the journal: `Claim`, `Record` and nothing else, with the order of outcomes a grant may show |
| `WorkflowGateway` | every await of an invocation as one action, over the two modules above; a grant (`Grants`) is a payload with one text of its signature, `PayloadOf` says of which payload: readiness, `VerifyGrant`, `AssertAdopted`, `AssertMayExecute`, `AssertCurrent`, `ClaimGrant`, then the loop `NextAttempt`, `Recheck`, `StartRunner`, `RunnerSettles`, `AppendObservation`, `Settle`; `Abort` is death at any await; clock, HEAD, receipts and decisions move between any two steps |
| `WorkflowInspection` | the pipeline: claim and attempt (the gateway in two steps), read-back, verification, verdict, its read-back; GitHub and the database fail at any request |
| `AmendmentLifecycle` | the contract: `transitionConstitutionAmendment` as a state machine per amendment, one law per policy version |
| `ConstitutionAuthority` | concurrent calls of the service, one action per await: `Begin`, `CheckAuthority`, `ReadAmendment`, `CheckReviewer`, `VerifyAttestation`, `ReadAgain`, then `Create` or `Commit`, the transaction; `TransferOwnership` anywhere |
| `AmendmentConsole` | the Constitution Center in several windows: rows, then evidence, forms by the state shown, commands with the version shown |
| `ConstitutionPublication` | what `VerifyAttestation` stands for: the gate's jobs and uploads, and the readback request by request, for preparation and publication |
| `EcosystemCompliance` | repositories that commit and audit, an operator's two snapshot files, the matrix and the checks of CI |
| `ProjectRoles` | bootstrap, the two reads of `can`, grants and audit events; other modules EXTEND it for their authority |
| `WorkPackages` | edits of dependencies: `BeginEdit`, `Validate` (read and check all packages), `WritePackage` (compare and set of one row) |
| `ReleaseEvidence` | gates, evidence and releases: `BeginGate`, `ReadGateEvidence`, `WriteGate`, `AddEvidence`; `BeginRelease`, `ReadCurrent`, `CheckEvidence` (one piece and its gate per await), `CheckRollback`, `WriteRelease` |
| `GovernanceRecords` | decisions (`Deciding`) and linked notes - risks, debt, lessons - (`Noting`), one action per await |
| `ProfessionalReview` | submissions over `ProjectRoles`, from screens of any deployed candidate |
| `OwnerSignOn` | the four routes over cookies and the link table, over `ProjectRoles` |
| `CompassAcceptance` | the acceptance action await by await, GitHub's three answers, the three writes, and what the Compass shows |
| `RevisionAcceptance` | the contract: decisions, passed runs and uploads as the world gives them; `Settle` a revision that is fit, once; `Accept` it after that |
| `BlueprintResolver` | `resolveBlueprint` with its orders and its contract; each loop of it is a step repeated as often as it may go round (`Repeat`), so that it can be proved about |
| `ProjectFactory` | the bootstrap page, over the resolver and the real foundation templates |
| `PromptRecords` | prompts rendered and pages read while others write |
| `WorkspaceJourney` | the guided workspace and its server actions |
| `WorkflowStudio` | registry checks, previews, readiness under receipts, the graph, and the page's two passes |
| `ProjectQuality`, `ProjectServices`, `ProjectPages` | compositions: the modules of one area running together, any step of one between any two of another |
| `...Proofs` (seven modules), `FiniteSums` | theorems, section 5 |
| `MCWorkflowGateway`, `MCGatewayChecks`, `MCConstitutionAuthority`, `MCProjectQuality`, `MCProjectServices`, `MCProjectPages` | instances for TLC; the last four explore parts one at a time in one run; `MCProjectServices` extends `MCProjectQuality`, so that one run explores all the services |

**Composition.** `WorkflowGateway` extends authority and journal and adds the
invocations; `JournalContract` is `WorkflowJournal`'s specification over the
gateway's variables. `ConstitutionAuthority` instantiates `AmendmentLifecycle`
with `stage` the states of the rows and `laws` the published versions;
`LifecycleContract` says it implements it. Both of these contracts have a
second implementation: `InspectionContract` is the journal's specification over the
claim and attempts of `WorkflowInspection`, with the one grant it is given, and
`ConsoleContract` the lifecycle's over the rows of `AmendmentConsole`.
`AcceptanceContract` is `RevisionAcceptance` over the tables that `CompassAcceptance`
reads and writes: `AddGateEvidence` settles, `PassGate` accepts. `ProfessionalReview` and
`OwnerSignOn` run over the bootstrap and the grants of `ProjectRoles`
(`NextReview`, `NextSignOn`); `ProjectServices` runs both at once over the same
owner, roles and calls, beside governance and inspections. `ProjectQuality` and
`ProjectPages` run the modules of their areas together, which have no variable
in common; the releases' gates are part of `ReleaseEvidence`. Every step of a
part of an `MC` instance is a step of its composition. `ProjectFactory` calls `BlueprintResolver`.
`WorkflowInspection`, `AmendmentConsole` and `CompassAcceptance` each keep one
or two steps of a component that has a module of its own, so that the awaits of
both never multiply.

**Abstractions.** Ids, texts, digests and revisions are model values or small
numbers; a schema or format check is a set (`Exact`, well-formed values); a
digest is the content it was computed from; signatures hold or do not
(`IssuerOf`, `KeyOf`). The requestId is the digest of the grant with the text of
its signature, and base64 has 16 texts of 88 characters for 64 bytes, all of which
the pattern of the check accepts; so `Grants` are the requestIds and several of them
may have one payload, with its nonce, scope, validity and budgets. Generated ids never collide. What is append-only is read
in the step that needs it. A call that Authority refuses writes nothing: where
roles do not matter to a property it is not begun (`WorkPackages`,
`ReleaseEvidence`, `GovernanceRecords`).

**History variables** (`shipped`, `seen`, `stale`, `executed`, the gateway's
`seen` conditions and `runs`, `live` of a request or a verdict, `read` of a release
or decision call, `late` of the workspace, `acceptReceipts` and `acceptSettled`) are never read
by an action's guard.

**Seeded faults.** Operators whose comment begins "Seeded fault" are not part of
any specification: each is the wrong version of the definition that follows it,
and `PROJECT.json` says which property notices when it takes its place.

## 3. Runs

Bounds are named in the modules; each is chosen so that the race or boundary a
property is about happens.

| Run | Instance | Shows |
|---|---|---|
| `gateway_replay` | one payload of two attempts and two tokens, two invocations that present it as one grant or as two, owner decisions, death anywhere, under `ReplaySpec`, which is `FairSpec` for these calls and runners; the clock stands still there, expiry, and every fingerprint with every cost, are in `gateway_checks`; here the tokens of a failure tell its fingerprint (`ToldByCost`), which leaves failures that repeat and failures that do not | `OneExecutor` (of a requestId), `RunsAccounted` and `BudgetRespected` (for a requestId, and for a payload times its requestIds claimed), `ReportIsJournal`, `AbandonedStaysSpent` (of a requestId), that all the gateway does to the journal is `JournalContract`, and `InvocationsEnd`. Two invocations are enough to race: a third would race with the winner in the same way |
| `gateway_checks` | one invocation; up to the claim three decisions over two keys in any commit order, behind it three attempts, two tokens, two sources and validity that runs out (the constraint `Bounded` is the union of the two) | `ClaimJustified`: each of the five conditions behind a claim held at some instant of the call (three decisions allow allow / revoke / allow again out of order); `ActionsJustified`: at most one runner action starts on stale sources or after expiry. Three attempts give a first, a middle and a last one |
| `gateway_revocation` | violation | `RevocationFailsClosed`: a comment says every revocation fails closed; the loop does not ask again after the claim |
| `gateway_respelled` | violation | `PayloadHasOneExecutor`: the journal's interface asks that nonce and scope are claimed once; two texts of one signature are two claims |
| `amendments` | three parts: one amendment, two principals, two calls of any operation; two amendments for one policy version; one amendment with three candidates, two of one revision, one inexact. A call may expect the version after the stored one, no later one | `TrailReplays`, `DecisionBinds`, `PublishedUnderAuthority`, `LifecycleContract`: compare and set serialises whatever the calls do, and ownership is rechecked inside the publishing transaction; `OneLawPerVersion`, `PublishedAsSealed` |
| `package_cycle` | violation | `NoDependencyCycle`: two edits that each pass the check close a cycle |
| `release_identity` | violation | `ReleasedIdentityIsImmutable`: released, back to planned, other revision, released again |
| `accepted_content` | violation | `AcceptedContentIsImmutable`: an update that expects version 2 reads the open version 1, another call accepts it as version 2, the first writes over it |
| `project_services` | ten parts: `packages`, two edits of three packages that come to exist in the order of their names; `races`, two calls for one release while its gate passes and is reopened; `ahead`, two calls for one release behind a gate that stands, one of which may expect a version still to come; `rollbacks`, one call at a time over two releases and two revisions; decisions, notes, roles, review, sign-on, inspection, with two calls each | `CyclesNeedARace`, `PassIsBacked`, `ShippedOnPassedGates`, `RolledBackToShipped`, `IdentityKeptWhileShipped`, `GovernanceLinksExist`, `AcceptedContentKept`, `AuthorityIsAccounted`, `DecisionsAreAccountable`, `OwnerSignsOn`, `InspectionIsBacked`. Three versions of a release or a decision let a call that expects the second read the first and write the third. Three audit events give a bootstrap, a grant and the grant that takes it away; three files in two directories, any two of which fit the limits and not all three, give every scope that fits and that does not |
| `project_pages` | nine parts, one for each of the remaining modules | `ResolutionMeetsContract`, `PlansAreExecutable`, `HistoryIsFaithful`, `CanonicalWorkIsStored`, `StudioShowsEvidence`, `ComplianceIsEvidenced`, `PublicationIsBacked`, `AcceptanceIsBacked`, `DecidedAsShown` |
| `bootstrap_review` | violation | `ConfirmedPlanWasReviewed`: an answer that arrives after an edit shows the old plan beside the new form |
| `level_minimum` | violation | `MinimumNeverWeakens`: a raised level drops what only the derived level asks for |

Every passing run but `gateway_checks`, which shares its module with
`gateway_replay`, also checks the type invariant of its modules.

The restrictions of the parts are in `MCProjectQuality` and `MCConstitutionAuthority`.
What they leave out - a gate that moves while a call ahead of its release is under way
or during a rollback, calls two versions ahead of an amendment - is covered by the
theorems of section 5, which have no such bounds. `project_services` has 3.0
million distinct states, `amendments` 1.5 million, `project_pages` 1.1 million;
each takes from one to three minutes.

**Bounds of `project_pages`.** The resolver is given every small choice of
templates from a menu that has a missing dependency, two constraints that
contradict each other, a cycle and one id of two kinds. The factory sees every
intent the recommendation tells apart, edited twice around one confirmation.
Studio manifests are a chain authored out of order, a fork with a human gate and
a ring. Compliance has two repositories, two commits, an audit of each and
manifests of three policy versions, so that adoptions are behind, current and
ahead. Publication has a gate that runs twice and revisions that differ from the
law in one projection, in code or in the workflow. Acceptance has two calls, two
runs and two revisions; `MaxOutside = 3` bounds what happens beside a call
(runs, uploads, expiry, moves, and other clients that create, block, reopen or pass
the gate, also linked to the evidence on record). What is assumed of those clients is
that none records evidence that names itself the artifact of a final run: only the
action makes such a row. Prompts are ordered by any order of their keys;
the instance takes one. The console keeps one amendment: two windows race on it
alone, and a second amendment multiplies the states without meeting the first,
as every command names its row.

Deadlock is not checked: every run reaches its named bounds (versions,
decisions, clock) and stops there, as the model and not the system does.
Symmetry is used over concurrent calls, requests, subjects and interchangeable
amendments and decisions only, never in the run that checks liveness.

**Fairness.** `FairSpec` assumes weak fairness of the steps of each invocation
only: an awaited promise of a live process settles, and the code awaits nothing
that another invocation has to do. Nothing is assumed of the owner, the clock,
the sources or the beginning of an invocation, and `Abort` is never required.
No other component promises that something eventually happens: a call of a
service is a fixed number of awaits, and one that failed is repeated only when
somebody asks again.

## 4. Findings

1. *Revocation after the claim* (`gateway_revocation`). The comment on the
   authority says a revoke fails closed; adoption and permission are asserted
   before the claim only, so the remaining attempts of the loop still start.
2. *Dependency cycles* (`package_cycle`). The tests state that the dependency
   rules fail closed for a cycle; concurrent updates of two packages each
   validate against the old graph. `CyclesNeedARace` shows that this race is
   the only way.
3. *Identity of a release* (`release_identity`). The service says a released
   identity is immutable, but lets the record leave the released statuses. And the
   check is made on the row the update reads while the write compares the version
   the caller names: an update that expects version 2 and reads the planned version
   1 writes over the record another call ships as version 2.
   `IdentityKeptWhileShipped` shows that these two are the only ways: an update
   that names the version it has read, or an older one, never changes the identity
   of a shipped record, whatever races.
4. *The reviewed plan* (`bootstrap_review`). The page says nothing is written
   until the reviewed plan is confirmed; the answer of a preview replaces the
   plan although the form was edited meanwhile, and the confirmation sends the
   form.
5. *The level minimum* (`level_minimum`). A minimum may "never weaken derived
   engineering depth", but a template of a level is active at exactly that
   level.
6. *Accepted decisions* (`accepted_content`). The service says the content of an
   accepted decision is immutable; as for releases, an update that expects a version
   still to come is checked against the open decision and written over the accepted
   one. `AcceptedContentKept` shows that this is the only way.
7. *One payload, several requestIds* (`gateway_respelled`). The interface of the
   journal asks that nonce and scope are claimed once. The claimed key is the digest
   of the grant with the text of its signature, and 16 texts decode to one signature,
   so a payload that was signed once can be claimed and executed once for each text.
   `RunsAccounted` and `BudgetRespected` say what holds of a payload: its attempts and
   its tokens, times the requestIds of it that are claimed.

Smaller things seen on the way, with no run of their own:

- `createQualityGate` needs PROJECT_MUTATE while acceptance asks for
  PROJECT_REVIEW only, so a reviewer's acceptance stops at its first write.
- Evidence of an acceptance that stopped after its second write, and whose
  artifact expired or whose run was replaced since, conflicts for that revision
  ever after.
- `verifyFinalReleaseGateMetadata` compares runs, not attempts.
- Jobs carried over by "re-run failed jobs" keep the older attempt, so such a
  gate can never be published.
- `evaluateConstitutionalCompliance` writes policy version 1.2.0 while
  `CONSTITUTION_POLICY_VERSION` is 1.3.0, and `constitution/page.tsx` still
  speaks of six pillars.
- The workspace page says "Persisted" beside a name or a title that is not stored
  when the field was last edited while the call that stores it was pending: fields
  stay live, and the answer does not look at them. `CanonicalWorkIsStored` names
  the case. No page mounts the component (`BlueprintWorkspace`) at present.
- The audit trail of the model is in the order of its commits. The stored events have
  a `createdAt` and a random id, so their order may be lost between two of one instant;
  `AuthorityIsAccounted` is about the trail as it was committed.
- On the amendment card the check of the state alone implies the check of the
  version, since one path leads to each state. The impact and the migration form
  share their place on the card, so typed text may stay when a refresh turns one
  into the other (not modelled).

## 5. Proofs

Eight modules hold theorems, each about the components in the table; `FiniteSums`
holds lemmas only. For each component an inductive invariant is proved - `Init`
implies it, every step keeps it, with one lemma for each kind of step - and the
properties are derived from it. The theorems hold for any sets of the constants,
also infinite ones where nothing is counted, that satisfy the assumptions named in
the modules.

| Module | Theorem | Property |
|---|---|---|
| `WorkflowGatewayProofs` | `GatewayInvariant` | the inductive invariant `GatewayInv` |
| | `TypeCorrect` | `TypeOK` |
| | `AtMostOneExecutor` | `OneExecutor` |
| | `RunsAreAccounted` | `RunsAccounted` |
| | `ReportsAreDurable` | `ReportIsJournal` |
| | `ClaimsAreJustified` | `ClaimJustified` |
| | `ActionsAreJustified` | `ActionsJustified` |
| | `TokensStayInBudget` | `BudgetRespected` |
| | `SpentGrantsStaySpent` | `AbandonedStaysSpent` |
| | `GatewayImplementsJournal` | `JournalContract` |
| | `GatewayWorkIsBounded`, `GatewayCountsDown` | `WorkIsBounded`, `StepsCountDown`: the safety half of `InvocationsEnd` |
| `WorkflowEvidenceProofs` | `InspectionInvariant`, `InspectionsAreBacked` | `InspectionIsBacked` |
| | `InspectionImplementsJournal` | `InspectionContract` |
| | `StudioInvariant`, `StudioShowsItsEvidence` | `StudioShowsEvidence` |
| | `StudioIsTyped` | `TypeOKStudio` |
| `ConstitutionAuthorityProofs` | `RowInvariant`, `ConstitutionInvariant` | `RowInv`: what the rows are and what the calls know of them; the inductive invariant `ConstitutionInv` |
| | `AmendmentTypes` | `TypeOK`; so the bound 8 on versions is a fact, not a limit of the model |
| | `RevisionsReplay` | `TrailReplays` |
| | `DecisionsBind` | `DecisionBinds` |
| | `PublicationsAreSealed` | `PublishedAsSealed` |
| | `OneLaw` | `OneLawPerVersion` |
| | `PublishingIsTheOwners` | `PublishedUnderAuthority` |
| | `ServiceImplementsLifecycle` | `LifecycleContract` |
| `ConstitutionPagesProofs` | `ConsoleInvariant`, `DecisionsAreAsShown` | `DecidedAsShown` |
| | `AcceptanceInvariant`, `AcceptancesAreBacked` | `AcceptanceIsBacked` |
| | `AcceptanceImplementsRecord` | `AcceptanceContract` |
| | `PublicationInvariant`, `PublicationsAreBacked` | `PublicationIsBacked` |
| | `EcosystemInvariant`, `ComplianceIsAudited` | `ComplianceIsEvidenced` |
| | `ConsoleImplementsLifecycle` | `ConsoleContract` |
| | `ConsoleIsTyped`, `EcosystemIsTyped` | the types of console and compliance |
| `ProjectQualityProofs` | `ReleasesInvariant` | the inductive invariant `ReleasesInv` |
| | `PassesAreBacked` | `PassIsBacked` |
| | `RollbacksAreShipped` | `RolledBackToShipped` |
| | `ShippingIsGated` | `ShippedOnPassedGates` |
| | `ShippedIdentityIsKept` | `IdentityKeptWhileShipped` |
| | `PackagesInvariant`, `CyclesComeFromRaces` | `CyclesNeedARace` |
| | `OneEditorStoresNoCycle` | with one editor no cycle is ever stored |
| | `QualityIsTyped`, `QualityIsKept` | `TypeOKQuality` and all of these of `SpecQuality` |
| `ProjectAuthorityProofs` | `RolesInvariant`, `AuthorityAccounted` | `AuthorityIsAccounted` |
| | `ReviewInvariant`, `DecisionsAccountable` | `DecisionsAreAccountable` |
| | `SignOnInvariant`, `OnlyTheOwnerSignsOn` | `OwnerSignsOn` |
| | `GovernanceInvariant`, `LinksExist` | `GovernanceLinksExist` |
| | `AcceptedIsImmutable` | `AcceptedContentKept` |
| | `ServicesAreTyped`, `ServicesKeepTheirPromises` | `TypeOKServices` and all of these, with `InspectionIsBacked`, of `SpecServices` |
| | `OwnerSignsOnAmongServices` | `OwnerSignsOn` of `SpecServices` |
| `ProjectPagesProofs` | `ResolutionsMeetContract` | `ResolutionMeetsContract` |
| | `PlansCanBeCarriedOut` | `PlansAreExecutable` |
| | `JourneyInvariant`, `PersistedIsStored` | `CanonicalWorkIsStored` |
| | `PromptsInvariant`, `HistoriesAreFaithful` | `HistoryIsFaithful` |
| | `LayersNeverWeaken`, `PrecedenceDecidesNothing` | what more templates, and their order, can change |
| | `FactoryTypes`, `PromptsAreTyped` | the types of bootstrap and prompts |
| | `PagesAreTyped`, `PagesKeepTheirPromises` | `TypeOK` and the properties of `project_pages` of `SpecPages` |

**Assumptions.** Each module names its own, and TLC evaluates them on the
instances: bounds are numbers (`JourneyAssumption`, `AcceptanceAssumption`, ...),
the owner, the sealed revision and the Hub are among the things they are chosen
from, inputs are typed as the code's schemas type them (`StudioAssumption`: nodes
of a manifest; `EcosystemAssumption`: adoption manifests; `FactoryAssumption`: the
foundation templates, whose ids are among the ids there are). Four say more.
`InspectionAssumption`: a tree has finitely many files, and no directory is a
file. `PromptAssumption`: row keys are ordered and no two of them equal.
`EcosystemAssumption`: the registry is finite. `ResolverAssumption`: requirement ids
are finitely many and `localeCompare` orders them strictly, a catalog and a template
are finite.

**The gateway.** `OneExecutor` alone is not inductive: it must be known that an
invocation inside the loop has claimed its grant and that a claim is written
once (`Ownership`). What the loop may do next depends on what it has journalled,
so `LoopState` says that while attempt n is open the journal holds exactly the
attempts before it, all failed with distinct fingerprints, and that after an
append it holds one more. `AttemptState` and `RunState` bound the attempts and
count started actions against the journal. `SeenState` says which conditions an
invocation at each place has seen. `BudgetState` says that what an invocation has
counted as spent is the sum over the journal and the action not yet journalled; it
rests on `FiniteSums`. All this is about one requestId, and so are `AtMostOneExecutor`
and `SpentGrantsStaySpent`. For a payload the sums over its finitely many grants
follow: a grant nobody has claimed has no action and no row, so at most the claimed
ones count, each within the payload's terms. Each part has its own lemma for a step of an
invocation (`StepTypes`, `StepOwnership`, `StepAttempts`, `StepLoop`,
`StepRuns`, `StepSeen`, ...) and `WorldInv` covers everything outside. An abandoned
claim stays spent because only the claimant's program counter may reach the
loop. The refinement maps `ClaimGrant` to `Claim`, `AppendObservation` to
`Record` and every other step to a stutter.

That an invocation ends is liveness. What a proof can say of it is that nothing is
in its way: `StepsLeft` counts what an invocation has to do, six steps for each
attempt left and those to the end of the present one, and every step of its own
takes from it while nobody else's adds to it (`StepAdvances`, `OneStepLess`); the
attempts left are never below zero (`AttemptsLeft`), and the journal accepts the
row it comes to append. What is left to fairness is that the step it is at is
taken.

**Sums.** What a recursive function computes is reached here without induction
over an operator: `FiniteSums` shows that the recursion of a fold has a solution
on the subsets of a finite set, and that a family of subsets that is not empty
has a minimal member (`MinimalCounterexample`), which a smaller one contradicts.
A sum then has the same value in whatever order its elements are taken.

**Inspection.** Nobody passes the claim but the one who made it, so its one
attempt holds what the executor loaded. Executor and verifier count files and
bytes in code written apart; that both accept exactly the scopes within the
limits is a fact about sums of one function over the files in scope. The claim and
the attempt are the steps of the journal's contract (`InspectionStep`), where the
digest journalled stands for what the gateway journals; so the two steps of the
gateway that this module keeps do to the journal what the gateway may do.

**The studio.** That `validateWorkflow` found no cycle is used as an induction
principle (`DagInduction`: a set that takes every node whose dependencies it has,
has them all); it gives the existence of depths and makes `isAccepted` the largest
set of verified nodes that contains what they depend on. The loop over receipts is
taken apart by what it has computed after each one (`TallyValue`): a node is
verified by one receipt that counts and compromised by a second. Rows are ranks in
a strict order, so none is shared and none left empty; the order compares means by
cross multiplication. The page adds that head, records and receipts only move on
between its reads (`PageOK`).

**Amendments.** The transaction compares two numbers and then writes a record
computed from a copy read several awaits earlier. `RowState` ties the version of
a row to its state (one path leads to each state) and `CallState` says that a
call which has read holds either the row itself or a copy whose version the row
has left for good, because versions grow by one. `WritesOverItsSnapshot` is the
consequence everything uses: a commit overwrites exactly what its call read and
checked. The steps that write nothing preserve the invariant by one lemma
(`AdvanceKeepsRows`); `StepKinds` leaves `Create` and `Commits`, each with a
lemma for every part: revisions, decisions, publications. A seal survives the
moves after it because only the two reviews change the slots it looks at
(`IdsOfReviewsKept`) and evidence is never removed. The refinement maps
`Create` to `Propose`, `Commit` to `Move` and every other step to a stutter.

**The pages around the law.** A page is old as soon as it is shown. For the
console `PagesAge` and `CommandsAge` say what does not age: from version 3 on
(`Settled`) the evidence of an amendment is filed for good, and evidence is read
after the rows, so a card that shows a settled row shows its final candidate. A
command writes the row of its version or nothing, so however old its card it makes
a transition of the lifecycle (`ConsoleStep`). For
acceptance and publication `CallOK` and `RequestOK` say what each request holds
after each of its reads, and `NothingUndone` and `NothingTakenBack` that runs that
passed, uploads and filed evidence stay as they are while everything else moves. The
refinement of acceptance (`WorldRecords`, `CallRecords`) follows: what a call has read
several awaits ago and files its evidence on, an approval and a passed run, is still so,
so the revision is fit at the instant at which the contract settles it. When another
client passes the gate the receipt rests on the call that recorded the evidence
(`EvidenceIsSettled`). An
artifact is of the attempt that was checked because its evidence names the attempt,
and a candidate check that held is what writes evidence.

**Compliance.** An attestation may be wrong in one entry. Only a wrong verdict
changes the verdict, and then the entries contradict it, since the audit's verdict
is the one its entries give (`AuditAddsUp`, `WrongOnce`). Recorded rows name
revisions of a history that is only appended to (`AdoptionOf`), and every
attestation on file comes from an audit of the revision and the repository it names
(`Told`), copied or not. The proof corrected the property: a wrong entry for a gate
that belongs to no pillar leaves a row whose pillars and gates all pass and that is
not compliant; the reason is among the blockers the attestation lists, which the
row shows as well.

**Releases and packages.** Between its reads and its write a call collects facts
about rows other calls may change. `CallState` says what of them is left: evidence
stays on record (`EvidenceOK`), a revision that was shipped was shipped for good
(`RollbackOK`), and as long as its own row is where the call read it, shipped, the
call has compared the identity (`IdentityOK`). Of a row that has moved on nothing is
known: when the call names the version it has read, or an older one, its write then
does nothing; when it names a later one, that is the exception in
`IdentityKeptWhileShipped`. `ShippedOnPassedGates` can
only speak of gates that passed while the call looked; a gate reopened before the
write is in no call's sight. For packages: a cycle that one write closes can be
reached from the package it writes (`CycleIsReachable`), which the check, made on
current rows, would have seen; so some row had changed since (`CycleStep`).

**Governance.** The same shape: what a call knew when it looked still holds when
it writes, because targets are never removed and versions grow, so an update that
names the version at which it read a decision as open meets another one once the
decision is accepted (`KnowsDecision`, conditional on the version it has read).

**Roles, reviews, sign-on.** A call is admitted on a role that may be gone when it
writes. What remains is `Entitled`: the trail holds the event that admitted it.
Reviews and sign-on reuse `RolesInv` and its lemmas; the first adds that a
submission past the authority was admitted and one that inserts was validated,
the second (`RequestOK`) that a request which will link or sign in names the
owner and a subject whose link was live after the request began.

**The workspace and the prompts.** The buttons of the page exclude one another
only per button, so several answers may be under way; `PersistsAreOfThePage` and
`WorkIsOfThePage` say which of them still belong to the page when they arrive. A text
edited while the call that stores it is pending is marked (`late`) until it is edited
at rest; for the others the pending call carries the text the page shows. In
the history of prompts rows are only added, so the place of a prompt never moves
forward (`ReaderStays`): a reader who has seen all rows before a place, and turns
the page, can miss none. That a page which is not full has no next one is counted
by the places of its rows.

**The resolver and its plans.** A loop is a function of the number of rounds
(`Repeat`); that the function exists, that its values keep what a round keeps
(`LoopExists`) and that it has stopped once a measure is used up (`LoopEnds`) is
proved once and used for all four loops. Merging: after every round the
merged requirements are what the requirements taken so far say together
(`MergedOf`), and a conflict is on record if and only if two of them disagree; the
order they come in no longer appears. Closure: the modules required and not in the
queue have all their modules among the required ones (`ClosureStates`), and nothing
is required that some closed set leaves out, so at the end the required modules are
the least closed set. Cycles: the stack is a path (`VisitKeeps`), and
as long as no cycle is recorded the modules done contain their dependencies and no set
in which each depends on another (`NoCycleYet`), while a recorded cycle is such a set.
Every round enters, leaves or passes something (`Shrinks`), which bounds the rounds.
A roadmap is worked off in growing rounds; a set left over at the end would be such a
cycle, which the resolution excludes. The factory adds that whatever the page holds
went through the recommendation (`FactoryInv`).

The contract has two consequences a caller would like to rely on. A larger set of
templates for one profile, if both sets resolve, keeps all that the smaller one
asks for (`LayersNeverWeaken`, by `NeededGrows`: the least closed set grows with
what is required and with the dependencies). It does not contradict the finding on
the level minimum, where the profile changes and with it which templates are
active. And the precedence of templates, which the code sorts by, decides nothing
about the result (`PrecedenceDecidesNothing`): where an order could matter the
requirements disagree, and that is a conflict.

**The compositions.** Where the modules share no variable, a behaviour of all is
one of each (`QualityServices`, `ServicesApart`, `PagesApart`), so each keeps its
theorems. Sign-on shares the owner with reviews and grants: its invariant is kept
by any step that leaves the trail accounted for (`RolesInv`, which reviews keep) and
does not replace an owner (`OwnerComesMeanwhile`); that no step of a role call, a
bootstrap or a review does is `OwnerStays` and `ReviewsKeepOwner`.

**Types.** The type invariant of every run's module is proved: of the gateway and the
amendments directly, of the compositions from the types of their parts, each a
theorem of its own or a conjunct of an inductive invariant.

**Only model-checked.** `InvocationsEnd`: liveness under fairness, and ENABLED,
are out of the prover's reach. `StepsCountDown`, `WorkIsBounded`, the two contracts
of section 2 with a second implementation and the consequences for the resolver are
proved and not part of a run; nor is `AcceptanceContract`.

## 6. Not modelled

- *Read models and audits* (architecture compass, diagnostics, evidence graph,
  UX, capacity, threat and data audits, portfolio, knowledge library, pattern
  governance, imports): projections and validators of one document each, with
  no state and no interaction; unit tests reach what they do.
- *Portability and release orchestration*: pure planning over records given by
  the caller.
- *Contracts*: JSON schema validation. *Scripts and CI*: repository checks that
  run once per job, except those of the gate and of compliance, which are in
  `ConstitutionPublication` and `EcosystemCompliance`.
- Of modelled components: listings, the readiness report over a finished
  project, the inspection a visitor of the studio may ask for,
  `suggestDependencyEligibleNodes` (only a test calls it), wording, styles and
  what a page keeps unfolded. Pages that render one read have no behaviour of
  their own; their forms are the inputs of the service modules.
- The exchange of tokens with the identity provider and GitHub's own behaviour
  are external: they answer or fail.

The hazards in `PROJECT.json` are the ones at which a reader should look first,
not every line where something could go wrong. One has no property: the owner is
checked once, before the read, by every amendment operation but publication. The
code accepts that window and nothing in the repository claims otherwise.

## 7. State of the plan and what could follow

Done: gateway, journal and authority; inspection; amendments, their lifecycle,
console, publication and propagation; roles, review and sign-on; work packages,
gates, releases, governance records; acceptance; resolver, bootstrap, prompts,
workspace and studio; their compositions; the proofs above, which cover every
property of the passing runs but `InvocationsEnd`.

Worth doing next, in this order: an abstract specification of compliance that
`EcosystemCompliance` implements; one specification in which `WorkflowInspection` runs over the whole
gateway instead of the journal's contract; and a model of two operators who record
snapshots at once.
