------------------------- MODULE EcosystemCompliance -------------------------
(***************************************************************************)
(* The Constitution in the governed repositories: who has adopted which    *)
(* version, and who complies.  Repositories commit adoption manifests and  *)
(* run their compliance audit; an operator records, one repository and one *)
(* file at a time, a snapshot of the adoptions and one of the attestations *)
(* found; a publication raises the version in both.  The Constitution      *)
(* Center shows the matrix made of the two files, whenever it is asked.    *)
(* Revisions count commits, policy versions are numbers: 2 is 1.2.0, which *)
(* brought the seventh pillar.                                             *)
(***************************************************************************)
EXTENDS Integers, Sequences, FiniteSets, SequencesExt

CONSTANTS Repositories, \* the registry of governed repositories
          HubRepository, \* the one with the role authority-self
          LevelOf,      \* blueprint level the registry gives each
          Adoptions,    \* adoption manifests a repository may commit
          Qualities,    \* canonical blueprints and gates a project of r may have
          Doubted,      \* what an attestation of r may be wrong about
          MaxCommits,   \* bounds, for each repository: revisions,
          MaxAudits,    \* and outcomes of its audits
          MaxPolicy

VARIABLES activePolicy, \* CONSTITUTION_POLICY_VERSION and that of both files
          commits,      \* commits[r][i]: the manifest at the i-th revision
          audits,       \* the compliance audits made so far
          attested,     \* the standard attestation of r, if any
          adoption,     \* the ecosystem snapshot
          observations  \* the compliance snapshot

ecosystemVars == <<activePolicy, commits, audits, attested, adoption, observations>>

Pillars ==
  {"structural-capacity", "architectural-longevity", "product-elegance",
   "premium-usability", "long-term-durability", "fortress-security-disaster-resilience",
   "operational-sovereignty-dependency-minimization"}
PillarRequirements ==
  [p \in Pillars |->
     CASE p = "structural-capacity" ->
            {"module:architecture:structural-capacity", "gate:architecture:future-scale"}
       [] p = "architectural-longevity" -> {"module:governance:architectural-longevity"}
       [] p = "product-elegance" -> {"module:ux:product-elegance", "gate:ux:commercial-quality"}
       [] p = "premium-usability" -> {"module:ux:premium-usability", "gate:ux:commercial-quality"}
       [] p = "long-term-durability" ->
            {"module:maintenance:long-term-durability", "gate:durability:ageing-regression"}
       [] p = "fortress-security-disaster-resilience" ->
            {"module:security:fortress-resilience", "gate:security:resilience-containment"}
       [] OTHER ->
            {"module:architecture:operational-sovereignty",
             "gate:operations:dependency-sovereignty"}]
ConstitutionalGates ==
  {"gate:quality:evidence", "gate:security:authority", "gate:ux:human-acceptance",
   "gate:architecture:future-scale", "gate:ux:commercial-quality",
   "gate:durability:ageing-regression", "gate:security:resilience-containment",
   "gate:operations:dependency-sovereignty"}
RequiredPillars(version) ==
  IF version >= 2 THEN Pillars
  ELSE Pillars \ {"operational-sovereignty-dependency-minimization"}

NoManifest == [adopted |-> FALSE]
NoAttestation == [found |-> FALSE]
BlueprintLevels == {"B0", "B1", "B2", "B3", "B4", "B5"}
Manifests ==
  {NoManifest} \union [policyVersion : Nat, blueprintLevel : BlueprintLevels,
                       inheritedPillars : SUBSET (Pillars \union {"unknown"}),
                       weakened : BOOLEAN]

\* Manifests are typed; what they say is for the projections to judge.
ASSUME EcosystemAssumption ==
  /\ IsFiniteSet(Repositories) /\ HubRepository \in Repositories
  /\ LevelOf \in [Repositories -> BlueprintLevels] /\ Adoptions \subseteq Manifests
  /\ MaxCommits \in [Repositories -> Nat] /\ MaxPolicy \in Nat \ {0, 1}
-----------------------------------------------------------------------------
(* evaluateConstitutionalCompliance.  A bundle is the gate's status, the   *)
(* evidence it names and what of that is found with a source and revision. *)
GateAudit(q, gate) ==
  IF gate \notin q.required \intersect DOMAIN q.bundles
    THEN [state |-> "missing", status |-> "missing", evidenceIds |-> {}]
    ELSE LET b == q.bundles[gate]
             complete == b.linked # {} /\ b.linked = b.evidenceIds
         IN [state |-> IF b.status # "pass" THEN "not-pass"
                       ELSE IF complete THEN "pass" ELSE "evidence-missing",
             status |-> b.status, evidenceIds |-> b.linked]

PillarAudit(q, gates, pillar) ==
  LET missing == PillarRequirements[pillar] \ q.required
      blocking == {g \in PillarRequirements[pillar] \intersect ConstitutionalGates :
                     gates[g].state # "pass"}
  IN [state |-> IF missing \union blocking = {} THEN "compliant" ELSE "non-compliant",
      missing |-> missing, blocking |-> blocking]

EvaluateCompliance(q) ==
  LET gates == [g \in ConstitutionalGates |-> GateAudit(q, g)]
      pillars == [p \in Pillars |-> PillarAudit(q, gates, p)]
      blockers == {g \in ConstitutionalGates : gates[g].state # "pass"}
                    \union UNION {pillars[p].missing : p \in Pillars}
  IN [policyVersion |-> 2, state |-> IF blockers = {} THEN "compliant" ELSE "non-compliant",
      pillars |-> pillars, gates |-> gates, blockers |-> blockers]
-----------------------------------------------------------------------------
(* buildConstitutionPropagationProjection over the ecosystem snapshot. *)
ValidManifest(r, m) ==
  /\ m # NoManifest
  /\ m.blueprintLevel = LevelOf[r] /\ ~m.weakened
  /\ RequiredPillars(m.policyVersion) \subseteq m.inheritedPillars

PropagationState(r) ==
  LET m == adoption[r].manifest
  IN CASE r \notin DOMAIN adoption -> "unverified"
       [] r \in DOMAIN adoption /\ ~ValidManifest(r, m) -> "invalid-adoption"
       [] OTHER -> CASE m.policyVersion = activePolicy -> "current"
                     [] m.policyVersion < activePolicy -> "migration-required"
                     [] OTHER -> "policy-ahead"

CountOf(states, wanted) == Cardinality({r \in DOMAIN states : states[r] \in wanted})
Propagation ==
  LET states == [r \in Repositories |-> PropagationState(r)]
  IN [states |-> states, total |-> Cardinality(Repositories),
      current |-> CountOf(states, {"current"}),
      migrationRequired |-> CountOf(states, {"migration-required"}),
      blocked |-> CountOf(states, {"invalid-adoption", "policy-ahead", "unverified"})]
-----------------------------------------------------------------------------
(* buildConstitutionComplianceMatrix over the compliance snapshot. *)
ConsistentPillar(att, pillar) ==
  att.pillars[pillar].state = "compliant" =>
    \A q \in PillarRequirements[pillar] :
      /\ q \notin att.pillars[pillar].missing
      /\ q \in ConstitutionalGates =>
           att.gates[q].state = "pass" /\ q \notin att.pillars[pillar].blocking

CalculatedCompliant(att) ==
  /\ att.blockers = {}
  /\ \A p \in DOMAIN att.pillars : att.pillars[p].state = "compliant"
  /\ \A g \in DOMAIN att.gates : att.gates[g].state = "pass"

\* Everything the attestation says but whose it is.
Coherent(att) ==
  /\ DOMAIN att.pillars = Pillars /\ DOMAIN att.gates = ConstitutionalGates
  /\ \A g \in DOMAIN att.gates : att.gates[g].state = "pass" =>
       att.gates[g].status = "pass" /\ att.gates[g].evidenceIds # {}
  /\ \A p \in Pillars : ConsistentPillar(att, p)
  /\ (att.state = "compliant") <=> CalculatedCompliant(att)

(* Seeded fault: an attestation of an earlier revision is taken. *)
ValidAttestationStale(r, att) ==
  /\ att.repository = r /\ att.policyVersion = activePolicy
  /\ att.blueprintLevel = LevelOf[r]
  /\ Coherent(att)
(* validateAttestation without a blocker. *)
ValidAttestation(r, att) ==
  /\ att.repository = r /\ att.policyVersion = activePolicy
  /\ att.blueprintLevel = LevelOf[r] /\ att.sourceRevision = adoption[r].sourceRevision
  /\ Coherent(att)

ComplianceState(r) ==
  LET seen == observations[r]
  IN CASE PropagationState(r) = "migration-required" -> "migration-required"
       [] PropagationState(r) \notin {"migration-required", "current"} -> "blocked"
       [] OTHER ->
            CASE r \notin DOMAIN observations -> "unverified"
              [] r \in DOMAIN observations /\ seen.attestation = NoAttestation -> "unverified"
              [] OTHER -> IF /\ seen.sourceRevision = adoption[r].sourceRevision
                             /\ ValidAttestation(r, seen.attestation)
                            THEN seen.attestation.state ELSE "blocked"

ComplianceMatrix ==
  LET states == [r \in Repositories |-> ComplianceState(r)]
  IN [states |-> states, total |-> Cardinality(Repositories),
      compliant |-> CountOf(states, {"compliant"}),
      nonCompliant |-> CountOf(states, {"non-compliant"}),
      unverified |-> CountOf(states, {"unverified"}),
      migrationRequired |-> CountOf(states, {"migration-required"}),
      blocked |-> CountOf(states, {"blocked"})]
PillarStates(r) ==
  [p \in Pillars |-> IF ComplianceState(r) \in {"compliant", "non-compliant"}
                       THEN observations[r].attestation.pillars[p].state ELSE "unverified"]
BlockingGates(r) ==
  {g \in ConstitutionalGates : ComplianceState(r) \in {"compliant", "non-compliant"}
                                 => observations[r].attestation.gates[g].state # "pass"}

(* The two chips of the Constitution Center. *)
AllCurrent == Propagation.migrationRequired = 0 /\ Propagation.blocked = 0
AllCompliant ==
  ComplianceMatrix.compliant = ComplianceMatrix.total /\ ComplianceMatrix.total > 0

(* What the lifecycle service asks of the counts it is given. *)
PropagationCountsAccepted(c) ==
  c.total >= 1 /\ c.current + c.migrationRequired + c.blocked = c.total
VerificationCountsAccepted(c) ==
  /\ c.total >= 1
  /\ c.compliant + c.nonCompliant + c.unverified + c.migrationRequired + c.blocked = c.total
-----------------------------------------------------------------------------
(* The three checks CI makes of the Hub's files. *)
OwnAdoptionPasses ==
  LET m == Last(commits[HubRepository])
  IN /\ m # NoManifest
     /\ m.policyVersion = activePolicy /\ m.inheritedPillars = Pillars /\ ~m.weakened
EcosystemSnapshotPasses ==
  /\ DOMAIN adoption = Repositories
  /\ \A r \in Repositories : adoption[r].manifest # NoManifest =>
       adoption[r].manifest.blueprintLevel = LevelOf[r] /\ ~adoption[r].manifest.weakened
ComplianceSnapshotPasses ==
  /\ DOMAIN observations = DOMAIN adoption
  /\ \A r \in DOMAIN observations :
       LET att == observations[r].attestation
           m == adoption[r].manifest
       IN /\ observations[r].sourceRevision = adoption[r].sourceRevision
          /\ att # NoAttestation =>
               /\ att.policyVersion = activePolicy /\ att.repository = r
               /\ att.sourceRevision = adoption[r].sourceRevision
               /\ m # NoManifest /\ att.blueprintLevel = m.blueprintLevel
-----------------------------------------------------------------------------
(* What may be wrong in the file of an attestation: one thing. *)
Flip(state) == IF state = "compliant" THEN "non-compliant" ELSE "compliant"
Written(att, doubted) ==
  {att} \union {[att EXCEPT !.state = Flip(@)] : d \in doubted \intersect {"state"}}
    \union {[att EXCEPT !.blockers = {}] : d \in doubted \intersect {"blockers"}}
    \union {[att EXCEPT !.pillars[p].state = Flip(@)] : p \in doubted \intersect Pillars}
    \union {[att EXCEPT !.pillars = [h \in Pillars \ {p} |-> @[h]]] :
              p \in doubted \intersect Pillars}
    \union {[att EXCEPT !.gates[g].state = "pass"] : g \in doubted \intersect ConstitutionalGates}
    \union {[att EXCEPT !.gates = [h \in ConstitutionalGates \ {g} |-> @[h]]] :
              g \in doubted \intersect ConstitutionalGates}

InitEcosystem ==
  /\ activePolicy = 2
  /\ commits = [r \in Repositories |->
       <<[policyVersion |-> 2, blueprintLevel |-> LevelOf[r], inheritedPillars |-> Pillars,
          weakened |-> FALSE]>>]
  /\ audits = {}
  /\ attested = [r \in Repositories |-> NoAttestation]
  /\ adoption = [r \in Repositories |->
       [sourceRevision |-> 1, manifest |-> commits[r][1]]]
  /\ observations = [r \in Repositories |->
       [sourceRevision |-> 1, attestation |-> NoAttestation]]

CommitManifest(r, manifest) ==
  /\ Len(commits[r]) < MaxCommits[r]
  /\ commits' = [commits EXCEPT ![r] = Append(@, manifest)]
  /\ UNCHANGED <<activePolicy, audits, attested, adoption, observations>>

(* The compliance run of a repository: the audit of the canonical state it *)
(* finds, written to a file.  The audit calls its version 1.2.0 whatever   *)
(* is in force; the file may name the version adopted instead.             *)
AuditAndAttest(r, q) ==
  LET audit == EvaluateCompliance(q)
      m == Last(commits[r])
      file == [repository |-> r, sourceRevision |-> Len(commits[r]),
               blueprintLevel |-> m.blueprintLevel, policyVersion |-> audit.policyVersion,
               state |-> audit.state, pillars |-> audit.pillars, gates |-> audit.gates,
               blockers |-> audit.blockers]
  IN /\ m # NoManifest /\ Cardinality({a \in audits : a.repository = r}) < MaxAudits
     /\ audits' = audits \union {[repository |-> r, sourceRevision |-> Len(commits[r]),
                                 state |-> audit.state]}
     /\ \E att \in Written(file, Doubted[r])
                     \union {[file EXCEPT !.policyVersion = m.policyVersion]} :
          attested' = [attested EXCEPT ![r] = att]
     /\ UNCHANGED <<activePolicy, commits, adoption, observations>>

(* A repository is made of another, attestation and all. *)
CopyAttestation(r, s) ==
  /\ r # HubRepository /\ attested[s] # NoAttestation /\ attested[r] = NoAttestation
  /\ attested' = [attested EXCEPT ![r] = attested[s]]
  /\ UNCHANGED <<activePolicy, commits, audits, adoption, observations>>

(* The operator records what is on the default branch; or loses a row. *)
Recorded(file, r, row) ==
  [s \in DOMAIN file \union {r} |-> IF s = r THEN row ELSE file[s]]
RecordAdoption(r) ==
  /\ adoption' = Recorded(adoption, r, [sourceRevision |-> Len(commits[r]),
                                        manifest |-> Last(commits[r])])
  /\ UNCHANGED <<activePolicy, commits, audits, attested, observations>>
RecordObservation(r, found) ==
  /\ observations' =
       Recorded(observations, r, [sourceRevision |-> Len(commits[r]),
                                  attestation |-> IF found THEN attested[r] ELSE NoAttestation])
  /\ UNCHANGED <<activePolicy, commits, audits, attested, adoption>>
DropRow(r) ==
  /\ r # HubRepository
  /\ \/ adoption' = [s \in DOMAIN adoption \ {r} |-> adoption[s]] /\ UNCHANGED observations
     \/ observations' = [s \in DOMAIN observations \ {r} |-> observations[s]]
        /\ UNCHANGED adoption
  /\ UNCHANGED <<activePolicy, commits, audits, attested>>

(* The publication patch: the version in both files and in the Hub's own   *)
(* manifest, and not one recorded observation.                             *)
PublishVersion ==
  /\ activePolicy < MaxPolicy /\ activePolicy' = activePolicy + 1
  /\ commits' = [commits EXCEPT ![HubRepository] =
                   Append(@, [Last(@) EXCEPT !.policyVersion = activePolicy'])]
  /\ UNCHANGED <<audits, attested, adoption, observations>>

NextEcosystem ==
  \/ \E r \in Repositories :
       \/ \E m \in Adoptions : CommitManifest(r, m)
       \/ \E q \in Qualities[r] : AuditAndAttest(r, q)
       \/ RecordAdoption(r) \/ DropRow(r)
       \/ \E found \in BOOLEAN : RecordObservation(r, found)
       \/ \E s \in Repositories : CopyAttestation(r, s)
  \/ PublishVersion

SpecEcosystem == InitEcosystem /\ [][NextEcosystem]_ecosystemVars
-----------------------------------------------------------------------------
TypeOKEcosystem ==
  /\ activePolicy \in 2..MaxPolicy
  /\ \A r \in Repositories : Len(commits[r]) \in 1..MaxCommits[r] + MaxPolicy
  /\ DOMAIN adoption \subseteq Repositories /\ DOMAIN observations \subseteq Repositories

(* A row counted compliant, or not compliant, says what an audit of just   *)
(* that revision found, under a manifest that had adopted the law in force,*)
(* and a reason stands beside it exactly when it is not compliant.         *)
RowsAreAudited ==
  \A r \in Repositories : ComplianceState(r) \in {"compliant", "non-compliant"} =>
    LET revision == adoption[r].sourceRevision
    IN /\ \E a \in audits : /\ a.repository = r /\ a.sourceRevision = revision
                            /\ a.state = ComplianceState(r)
       /\ commits[r][revision].policyVersion = activePolicy
       /\ RequiredPillars(activePolicy) \subseteq commits[r][revision].inheritedPillars
       /\ ComplianceState(r) = "compliant" <=>
            /\ \A p \in Pillars : PillarStates(r)[p] = "compliant"
            /\ BlockingGates(r) = {} /\ observations[r].attestation.blockers = {}
\* The lifecycle service takes the counts, and a chip stands for every row.
CountsPartition ==
  /\ PropagationCountsAccepted(Propagation)
  /\ VerificationCountsAccepted(ComplianceMatrix)
  /\ AllCompliant => AllCurrent
\* What CI lets through is not blocked on the page for being of another
\* repository, revision or version; and the Hub is current when it is recorded.
ChecksAgreeWithCenter ==
  EcosystemSnapshotPasses /\ ComplianceSnapshotPasses =>
    /\ \A r \in Repositories : PropagationState(r) = "current" =>
         \/ ComplianceState(r) # "blocked"
         \/ ~Coherent(observations[r].attestation)
    /\ OwnAdoptionPasses /\ adoption[HubRepository].sourceRevision = Len(commits[HubRepository])
         => PropagationState(HubRepository) = "current"

(* The matrix of the Constitution Center rests on evidence: whatever was   *)
(* committed, audited, copied, recorded or published in between, and       *)
(* whatever single thing an attestation gets wrong, a repository is shown  *)
(* compliant only for an audit of the recorded revision (the two builders  *)
(* over files written one row at a time).                                  *)
ComplianceIsEvidenced == RowsAreAudited /\ CountsPartition /\ ChecksAgreeWithCenter
=============================================================================
