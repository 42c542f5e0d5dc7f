------------------------ MODULE ConstitutionPublication ------------------------
(***************************************************************************)
(* How a ratified Constitution is published: the Full Gate runs on the     *)
(* sealed revision and uploads what it found; GitHubConstitutionPublica-   *)
(* tionVerifier reads the run, its evidence and its archive back, one      *)
(* request after the other, while runs are started again, evidence         *)
(* expires, main moves and other revisions are deployed.  What surrounds   *)
(* it in the amendment service is ConstitutionAuthority's VerifyAttesta-   *)
(* tion.  A file is its version and its other text; a digest is the        *)
(* content it was computed from.                                           *)
(***************************************************************************)
EXTENDS Integers, Sequences, FiniteSets, SequencesExt

CONSTANTS GitRevisions,
          Originals,    \* the files of each revision
          PatchAt,      \* the publication patch each revision holds
          WorkflowAt,   \* its workflow file
          Sealed,       \* the revision that was reviewed and ratified
          TargetVersion,
          GateRuns, GateRevisionOf,
          Publishers,   \* requests of the console: prepare or publish
          MaxAttemptsOf \* bound, for each run

ASSUME PublicationAssumption == Sealed \in GitRevisions

VARIABLES gateRuns,   \* gateRuns[r][a]: the two jobs of the a-th attempt
          uploads,    \* artifacts, in the order in which they were created
          mainHead, liveRevision,
          publishing  \* the requests in progress

publicationVars == <<gateRuns, uploads, mainHead, liveRevision, publishing>>

AuthoritySetPaths == {"document", "contract", "template", "policy-source"}
Projections == {"adoption", "ecosystem-snapshot", "compliance-snapshot"}
PublicationPaths == AuthoritySetPaths \union Projections \union {"version-manifest"}

(* applyConstitutionPublicationPatch: every file once, in its own context, *)
(* and of the projections the version alone.                               *)
PatchApplies(files, patch) ==
  /\ DOMAIN patch = PublicationPaths
  /\ \A path \in PublicationPaths : files[path] = patch[path].from
  /\ \A path \in Projections : patch[path].to.text = patch[path].from.text
Patched(patch) == [path \in DOMAIN patch |-> patch[path].to]

(* attestConstitutionAuthoritySources.  Of the policy source the digest    *)
(* covers the version, of the others everything.                           *)
VersionsAgree(files) ==
  \A path \in AuthoritySetPaths : files[path].version = files["version-manifest"].version
AttestSources(files, revision, run) ==
  [policyVersion |-> files["version-manifest"].version, sourceRevision |-> revision,
   ciRunId |-> run,
   authoritySetDigest |->
     [path \in AuthoritySetPaths |->
        IF path = "policy-source" THEN [version |-> files[path].version] ELSE files[path]]]
SealedDigest ==
  AttestSources(Patched(PatchAt[Sealed]), Sealed, 0).authoritySetDigest
-----------------------------------------------------------------------------
(* The Full Gate.  Its candidate check rebuilds the patch from the baseline *)
(* or, where it has been applied already, the baseline from the patch; a   *)
(* file that does not change has no diff, and the check fails.             *)
Inactive(revision) == PatchApplies(Originals[revision], PatchAt[revision])
Active(revision) == Originals[revision] = Patched(PatchAt[revision])
CandidateChecks(revision) ==
  /\ VersionsAgree(Originals[revision]) /\ VersionsAgree(Patched(PatchAt[revision]))
  /\ Inactive(revision) \/ Active(revision)
  /\ \A path \in PublicationPaths : PatchAt[revision][path].from # PatchAt[revision][path].to

\* What a gate writes, if it gets as far; the upload is made in any case.
NoEvidence == [written |-> FALSE]
EvidenceOf(r, attempt) ==
  LET revision == GateRevisionOf[r]
  IN [written |-> TRUE, runAttempt |-> attempt,
      status |-> IF Inactive(revision) THEN "INACTIVE_CANDIDATE_VERIFIED"
                 ELSE "ACTIVE_AUTHORITY_SET_VERIFIED",
      authoritySet |-> AttestSources(Patched(PatchAt[revision]), revision, r),
      baseline |-> AttestSources(Originals[revision], revision, r),
      patch |-> PatchAt[revision]]

LastAttempt(r) == Last(gateRuns[r])
Completed(attempt) == attempt.gate # "running" /\ attempt.other # "running"
Succeeded(attempt) == attempt.gate = "success" /\ attempt.other = "success"
Upload(r, evidence) ==
  [run |-> r, revision |-> GateRevisionOf[r], evidence |-> evidence, expired |-> FALSE]

FinishGate(r, conclusion) ==
  /\ LastAttempt(r).gate = "running"
  /\ conclusion = "success" => CandidateChecks(GateRevisionOf[r])
  /\ gateRuns' = [gateRuns EXCEPT ![r][Len(gateRuns[r])].gate = conclusion]
  /\ uploads' = Append(uploads, Upload(r, IF conclusion = "success"
                                            THEN EvidenceOf(r, Len(gateRuns[r]))
                                            ELSE NoEvidence))
  /\ UNCHANGED <<mainHead, liveRevision, publishing>>

FinishOther(r, conclusion) ==
  /\ LastAttempt(r).other = "running"
  /\ gateRuns' = [gateRuns EXCEPT ![r][Len(gateRuns[r])].other = conclusion]
  /\ UNCHANGED <<uploads, mainHead, liveRevision, publishing>>

\* A job that is not run again keeps its result in the next attempt.
RunAgain(r, all) ==
  LET again(result) == IF all \/ result = "failure" THEN "running" ELSE result
      next == [gate |-> again(LastAttempt(r).gate), other |-> again(LastAttempt(r).other)]
  IN /\ Completed(LastAttempt(r)) /\ Len(gateRuns[r]) < MaxAttemptsOf[r]
     /\ all \/ ~Succeeded(LastAttempt(r))
     /\ gateRuns' = [gateRuns EXCEPT ![r] = Append(@, next)]
     /\ UNCHANGED <<uploads, mainHead, liveRevision, publishing>>

Expire14Days(i) ==
  /\ ~uploads[i].expired /\ uploads' = [uploads EXCEPT ![i].expired = TRUE]
  /\ UNCHANGED <<gateRuns, mainHead, liveRevision, publishing>>

(* main moves; a request in progress is there to see it. *)
MoveMain(revision) ==
  /\ mainHead' = revision /\ mainHead # revision
  /\ publishing' = [u \in Publishers |->
       IF publishing[u].at \in {"main", "active"}
         THEN [publishing[u] EXCEPT !.wasMain = @ \/ revision = publishing[u].runtime]
         ELSE publishing[u]]
  /\ UNCHANGED <<gateRuns, uploads, liveRevision>>
DeployMain ==
  /\ liveRevision' = mainHead /\ liveRevision # mainHead
  /\ UNCHANGED <<gateRuns, uploads, mainHead, publishing>>
-----------------------------------------------------------------------------
\* A request: the attempt and the artifact it goes by, once it has them.
NoPublication == [at |-> "idle"]
RefusedPublication == [at |-> "refused"]
Publications ==
  [at : {"run", "evidence", "archive", "main", "active", "prepared", "verified"},
   op : {"prepare", "publish"}, run : GateRuns, runtime : GitRevisions,
   verifying : BOOLEAN, wasMain : BOOLEAN, attempt : Nat, artifact : Nat]

PublisherAt(u, at) == publishing[u].at = at
Proceed(u, request) == publishing' = [publishing EXCEPT ![u] = request]
Refuse(u) == Proceed(u, RefusedPublication)
Reading == UNCHANGED <<gateRuns, uploads, mainHead, liveRevision>>

(* The two actions of the console.  Publishing prepares, and then verifies *)
(* by preparing once more.  A request stays with the revision it runs in.  *)
BeginPublication(u, op, r) ==
  /\ PublisherAt(u, "idle")
  /\ Proceed(u, [at |-> "run", op |-> op, run |-> r, runtime |-> liveRevision,
                 verifying |-> FALSE, wasMain |-> FALSE, attempt |-> 0, artifact |-> 0])
  /\ Reading

ReadRun(u) ==
  LET call == publishing[u]
      r == call.run
  IN /\ PublisherAt(u, "run") /\ Reading
     /\ IF GateRevisionOf[r] = Sealed /\ Succeeded(LastAttempt(r))
          THEN Proceed(u, [call EXCEPT !.at = "evidence", !.attempt = Len(gateRuns[r])])
          ELSE Refuse(u)

(* Jobs of that attempt, artifacts of the run and files, asked at once; of *)
(* these the artifacts alone can change.                                   *)
Available(r) ==
  {i \in DOMAIN uploads : uploads[i].run = r /\ uploads[i].revision = Sealed /\ ~uploads[i].expired}
Newest(s) == CHOOSE i \in s : \A j \in s : j <= i
ReadEvidence(u) ==
  LET call == publishing[u]
      gate == gateRuns[call.run][call.attempt].gate
  IN /\ PublisherAt(u, "evidence") /\ Reading
     /\ IF /\ WorkflowAt[Sealed] = WorkflowAt[call.runtime] /\ gate = "success"
           /\ Available(call.run) # {}
           /\ PatchApplies(Originals[Sealed], PatchAt[Sealed])
           /\ VersionsAgree(Patched(PatchAt[Sealed]))
          THEN Proceed(u, [call EXCEPT !.at = "archive", !.artifact = Newest(Available(call.run))])
          ELSE Refuse(u)

(* Seeded fault: the attempt that made the evidence is not compared. *)
SealHoldsAnyAttempt(e, r, attempt) ==
  /\ e.written
  /\ e.authoritySet = AttestSources(Patched(PatchAt[Sealed]), Sealed, r)
  /\ e.baseline = AttestSources(Originals[Sealed], Sealed, r)
  /\ e.status = "INACTIVE_CANDIDATE_VERIFIED" /\ e.patch = PatchAt[Sealed]
(* What the archive must say of the candidate, the revision and the run. *)
SealHolds(e, r, attempt) ==
  /\ e.written
  /\ e.authoritySet = AttestSources(Patched(PatchAt[Sealed]), Sealed, r)
  /\ e.baseline = AttestSources(Originals[Sealed], Sealed, r)
  /\ e.status = "INACTIVE_CANDIDATE_VERIFIED" /\ e.patch = PatchAt[Sealed]
  /\ e.runAttempt = attempt

(* The entries of the archive with the digest listed, while it is kept.    *)
(* Preparation compares the seal; verification the runtime, then main.     *)
Entries(i) == IF uploads[i].expired THEN NoEvidence ELSE uploads[i].evidence
ReadArchive(u) ==
  LET call == publishing[u]
      attestation == AttestSources(Patched(PatchAt[Sealed]), Sealed, call.run)
      matches == IF call.verifying
                   THEN Originals[call.runtime]["policy-source"].version = attestation.policyVersion
                   ELSE attestation.policyVersion = TargetVersion
  IN /\ PublisherAt(u, "archive") /\ Reading
     /\ IF SealHolds(Entries(call.artifact), call.run, call.attempt) /\ matches
          THEN CASE call.verifying ->
                      Proceed(u, [call EXCEPT !.at = "main", !.wasMain = (mainHead = call.runtime)])
                 [] ~call.verifying /\ call.op = "publish" ->
                      Proceed(u, [call EXCEPT !.at = "run", !.verifying = TRUE])
                 [] OTHER -> Proceed(u, [call EXCEPT !.at = "prepared"])
          ELSE Refuse(u)

ReadMain(u) ==
  /\ PublisherAt(u, "main") /\ Reading
  /\ IF mainHead = publishing[u].runtime
       THEN Proceed(u, [publishing[u] EXCEPT !.at = "active"]) ELSE Refuse(u)

ReadActive(u) ==
  LET files == Originals[publishing[u].runtime]
  IN /\ PublisherAt(u, "active") /\ Reading
     /\ IF files = Patched(PatchAt[Sealed])
          THEN Proceed(u, [publishing[u] EXCEPT !.at = "verified"]) ELSE Refuse(u)

\* GitHub does not answer, or not in time.
RequestFails(u) ==
  /\ publishing[u].at \in {"run", "evidence", "archive", "main", "active"} /\ Reading
  /\ Refuse(u)

InitPublication ==
  /\ gateRuns = [r \in GateRuns |-> <<[gate |-> "running", other |-> "running"]>>]
  /\ uploads = <<>>
  /\ mainHead = Sealed /\ liveRevision = Sealed
  /\ publishing = [u \in Publishers |-> NoPublication]

NextPublication ==
  \/ \E r \in GateRuns :
       \/ \E conclusion \in {"success", "failure"} :
            FinishGate(r, conclusion) \/ FinishOther(r, conclusion)
       \/ \E all \in BOOLEAN : RunAgain(r, all)
  \/ \E i \in DOMAIN uploads : Expire14Days(i)
  \/ \E revision \in GitRevisions : MoveMain(revision)
  \/ DeployMain
  \/ \E u \in Publishers :
       \/ \E op \in {"prepare", "publish"}, r \in GateRuns : BeginPublication(u, op, r)
       \/ ReadRun(u) \/ ReadEvidence(u) \/ ReadArchive(u)
       \/ ReadMain(u) \/ ReadActive(u) \/ RequestFails(u)

SpecPublication == InitPublication /\ [][NextPublication]_publicationVars
-----------------------------------------------------------------------------
TypeOKPublication ==
  /\ mainHead \in GitRevisions /\ liveRevision \in GitRevisions
  /\ publishing \in [Publishers -> Publications \union {NoPublication, RefusedPublication}]

(* A candidate is prepared, and an activation verified, on one whole       *)
(* attempt of the gate: the attempt succeeded, and the archive read was    *)
(* made by the gate of that very attempt, on the sealed revision, however  *)
(* runs were started again and evidence expired meanwhile (prepare reads   *)
(* run, jobs, artifacts and archive at different moments).                 *)
EvidenceIsWhole ==
  \A u \in Publishers : publishing[u].at \in {"prepared", "main", "active", "verified"} =>
    LET call == publishing[u]
        source == uploads[call.artifact]
    IN /\ Succeeded(gateRuns[call.run][call.attempt])
       /\ source.run = call.run /\ GateRevisionOf[source.run] = Sealed
       /\ source.evidence.runAttempt = call.attempt
       /\ source.evidence.authoritySet.authoritySetDigest = SealedDigest
(* And an activation is verified only if the revision that verifies it was *)
(* main at some moment of the verification, and holds what was ratified:   *)
(* the authority set by digest, and every other file to the letter.        *)
ActivationWasMain ==
  \A u \in Publishers : PublisherAt(u, "verified") =>
    LET files == Originals[publishing[u].runtime]
    IN /\ publishing[u].wasMain
       /\ publishing[u].runtime # Sealed
       /\ AttestSources(files, Sealed, 0).authoritySetDigest = SealedDigest
       /\ \A path \in PublicationPaths : files[path] = PatchAt[Sealed][path].to
PublicationIsBacked == EvidenceIsWhole /\ ActivationWasMain
=============================================================================
