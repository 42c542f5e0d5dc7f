--------------------------- MODULE CompassAcceptance ---------------------------
(***************************************************************************)
(* P9-020, the acceptance of a deployed revision: concurrent calls of      *)
(* recordCompassAcceptanceAction over the professional review, the quality *)
(* gates and the final Release Gate's runs at GitHub, and the System       *)
(* Compass that reads the same records.  Reads made together are read in   *)
(* any order; the gate, its evidence and the pass are three writes.        *)
(* The identifiers of gate and evidence are made of the revision, so there *)
(* is one row of each for a revision; a source is a run and an upload.     *)
(***************************************************************************)
EXTENDS Integers, FiniteSets

CONSTANTS AcceptedRevisions, \* revisions that may be deployed
          CandidateOf,       \* the review candidate each has in its code
          SevereFindings,    \* candidates with a blocking P0 or P1 finding
          FinalRuns, FinalRevisionOf,
          AcceptanceCalls,
          MaxFinalUploads, MaxAcceptVersion, MaxOutside \* bounds

ASSUME AcceptanceAssumption ==
  MaxAcceptVersion \in Nat \ {0} /\ MaxFinalUploads \in Nat /\ MaxOutside \in Nat

VARIABLES reviewOutcome,   \* the decision on each candidate, made once
          constitutionOk,  \* what the audit finds in the canonical state
          acceptGate, acceptEvidence,
          finalRuns, finalUploads,
          compassRevision, \* the deployed revision
          accepting,       \* calls of the action, and reads of the pages
          acceptReceipts,  \* history: what passed, by which call's reads
          acceptSettled,   \* history: what evidence was recorded, by whose
          outside          \* how often the rest of the world has moved

acceptanceVars == <<reviewOutcome, constitutionOk, acceptGate, acceptEvidence, finalRuns,
                    finalUploads, compassRevision, accepting, acceptReceipts, acceptSettled,
                    outside>>

ReviewCandidates == {CandidateOf[r] : r \in AcceptedRevisions}
NoGateRow == [version |-> 0]
NoSource == [run |-> 0, upload |-> 0]

(* buildCompassAcceptancePreflight is ready for final evidence. *)
PreflightReady(revision, outcome, compliant) ==
  compliant /\ outcome = "approve" /\ CandidateOf[revision] \notin SevereFindings

(* compassAcceptanceReceipt *)
ReceiptOf(gate, source) ==
  gate # NoGateRow /\ gate.status = "pass" /\ gate.linked /\ source # NoSource
-----------------------------------------------------------------------------
(* The rest of the world: reviewers, other work on the gates, GitHub,      *)
(* deployments.                                                            *)
Moves == outside < MaxOutside /\ outside' = outside + 1
Review(candidate, outcome) ==
  /\ Moves /\ reviewOutcome[candidate] = "none"
  /\ reviewOutcome' = [reviewOutcome EXCEPT ![candidate] = outcome]
  /\ UNCHANGED <<constitutionOk, acceptGate, acceptEvidence, finalRuns, finalUploads,
                 compassRevision, accepting, acceptReceipts, acceptSettled>>
Reassess ==
  /\ Moves /\ constitutionOk' = ~constitutionOk
  /\ UNCHANGED <<reviewOutcome, acceptGate, acceptEvidence, finalRuns, finalUploads,
                 compassRevision, accepting, acceptReceipts, acceptSettled>>
\* A client of the quality service creates the gate, reopens it, blocks it,
\* or passes it: on evidence of another kind, or linked to the evidence that
\* is recorded.  No client but the action records evidence that names itself
\* the artifact of a final run.
ReviseGate(r, status, linked) ==
  /\ Moves /\ acceptGate[r].version < MaxAcceptVersion
  /\ acceptGate[r] = NoGateRow => status # "pass"
  /\ linked => status = "pass" /\ acceptEvidence[r] # NoSource
  /\ acceptGate' = [acceptGate EXCEPT ![r] =
       [version |-> @.version + 1, status |-> status, linked |-> linked]]
  /\ acceptReceipts' =
       IF linked THEN acceptReceipts \union {a \in acceptSettled : a.revision = r}
       ELSE acceptReceipts
  /\ UNCHANGED <<reviewOutcome, constitutionOk, acceptEvidence, finalRuns, finalUploads,
                 compassRevision, accepting, acceptSettled>>
FinishRun(run, conclusion) ==
  /\ Moves /\ finalRuns[run].conclusion = "running"
  /\ finalRuns' = [finalRuns EXCEPT ![run] =
       [conclusion |-> conclusion, passed |-> @.passed \/ conclusion = "success"]]
  /\ finalUploads' = finalUploads \union
       {[id |-> Cardinality(finalUploads) + 1, run |-> run, expired |-> FALSE]}
  /\ UNCHANGED <<reviewOutcome, constitutionOk, acceptGate, acceptEvidence,
                 compassRevision, accepting, acceptReceipts, acceptSettled>>
RunFinalAgain(run) ==
  /\ Moves /\ finalRuns[run].conclusion # "running"
  /\ Cardinality(finalUploads) < MaxFinalUploads
  /\ finalRuns' = [finalRuns EXCEPT ![run].conclusion = "running"]
  /\ UNCHANGED <<reviewOutcome, constitutionOk, acceptGate, acceptEvidence, finalUploads,
                 compassRevision, accepting, acceptReceipts, acceptSettled>>
ExpireUpload(u) ==
  /\ Moves /\ ~u.expired
  /\ finalUploads' = (finalUploads \ {u}) \union {[u EXCEPT !.expired = TRUE]}
  /\ UNCHANGED <<reviewOutcome, constitutionOk, acceptGate, acceptEvidence, finalRuns,
                 compassRevision, accepting, acceptReceipts, acceptSettled>>
DeployCompass(r) ==
  /\ Moves /\ compassRevision # r /\ compassRevision' = r
  /\ UNCHANGED <<reviewOutcome, constitutionOk, acceptGate, acceptEvidence, finalRuns,
                 finalUploads, accepting, acceptReceipts, acceptSettled>>
-----------------------------------------------------------------------------
(* recordCompassAcceptanceAction. *)
Resting == [at |-> "resting"]
Accepting(c, at) == accepting[c].at = at
Become(c, k) == accepting' = [accepting EXCEPT ![c] = k]
World == UNCHANGED <<reviewOutcome, constitutionOk, finalRuns, finalUploads,
                     compassRevision, outside>>
NothingWritten ==
  World /\ UNCHANGED <<acceptGate, acceptEvidence, acceptReceipts, acceptSettled>>
\* Refused, the panel can be used again.
Refused(c) == Become(c, Resting)

Begun(at, run) ==
  [at |-> at, revision |-> compassRevision, run |-> run, todo |-> {"decision", "gates"},
   outcome |-> "none", compliant |-> FALSE, gate |-> NoGateRow, prior |-> NoSource,
   source |-> NoSource]
BeginAcceptance(c, run) ==
  /\ accepting[c] = Resting /\ NothingWritten
  /\ Become(c, Begun("canonical", run))

AcceptedOn(k, source) == [at |-> "accepted", revision |-> k.revision, source |-> source]
(* What follows when the canonical state has been read. *)
Preflighted(k) ==
  IF ~PreflightReady(k.revision, k.outcome, k.compliant) THEN Resting
  ELSE IF k.gate # NoGateRow /\ k.gate.status = "pass"
    THEN IF ReceiptOf(k.gate, k.prior)
           THEN AcceptedOn(k, k.prior)
           ELSE Resting
    ELSE [k EXCEPT !.at = "github", !.todo = {"run", "jobs", "artifacts"}]

\* The two reads, for an acceptance and for the page alike.
CanonicalRead(k, what) ==
  IF what = "decision"
    THEN [k EXCEPT !.todo = @ \ {what}, !.outcome = reviewOutcome[CandidateOf[k.revision]]]
    ELSE [k EXCEPT !.todo = @ \ {what}, !.compliant = constitutionOk,
                   !.gate = acceptGate[k.revision], !.prior = acceptEvidence[k.revision]]

ReadForAcceptance(c, what) ==
  /\ Accepting(c, "canonical") /\ what \in accepting[c].todo /\ NothingWritten
  /\ LET k == CanonicalRead(accepting[c], what)
     IN Become(c, IF k.todo = {} THEN Preflighted(k) ELSE k)

(* Seeded fault: evidence recorded before, of another run, will do. *)
VerifiedWithAnyPrior(k) ==
  IF k.gate = NoGateRow THEN [k EXCEPT !.at = "create"]
  ELSE IF k.gate.status # "not-ready" THEN Resting
    ELSE [k EXCEPT !.at = IF k.prior = NoSource THEN "evidence" ELSE "pass"]
(* What follows when the run, its jobs and an artifact have been verified: *)
(* a gate and evidence found earlier must be of this very source.          *)
Verified(k) ==
  IF k.gate = NoGateRow THEN [k EXCEPT !.at = "create"]
  ELSE IF k.gate.status # "not-ready" \/ k.prior \notin {NoSource, k.source}
    THEN Resting
    ELSE [k EXCEPT !.at = IF k.prior = NoSource THEN "evidence" ELSE "pass"]

(* verifyFinalReleaseGateMetadata over three answers, each of its moment:  *)
(* run and jobs of the latest attempt, some artifact that has not expired. *)
ReadGitHub(c, what) ==
  LET k == accepting[c]
      kept == {u \in finalUploads : u.run = k.run /\ ~u.expired}
      left == [k EXCEPT !.todo = @ \ {what}]
      Next(read) == Become(c, IF read.todo = {} THEN Verified(read) ELSE read)
  IN /\ Accepting(c, "github") /\ what \in k.todo /\ NothingWritten
     /\ IF what = "artifacts"
          THEN IF kept = {} THEN Refused(c)
               ELSE \E u \in kept :
                      Next([left EXCEPT !.source = [run |-> k.run, upload |-> u.id]])
          ELSE IF FinalRevisionOf[k.run] = k.revision /\ finalRuns[k.run].conclusion = "success"
                 THEN Next(left) ELSE Refused(c)

(* What a call goes by when it records evidence or passes the gate. *)
Vouched(k, source) ==
  [revision |-> k.revision, source |-> source, verified |-> k.source,
   outcome |-> k.outcome, compliant |-> k.compliant]

CreateGate(c) ==
  LET k == accepting[c]
      new == [version |-> 1, status |-> "not-ready", linked |-> FALSE]
  IN /\ Accepting(c, "create") /\ World
     /\ UNCHANGED <<acceptEvidence, acceptReceipts, acceptSettled>>
     /\ IF acceptGate[k.revision] = NoGateRow
          THEN /\ acceptGate' = [acceptGate EXCEPT ![k.revision] = new]
               /\ Become(c, [k EXCEPT !.at = "evidence", !.gate = new])
          ELSE Refused(c) /\ UNCHANGED acceptGate

AddGateEvidence(c) ==
  LET k == accepting[c]
  IN /\ Accepting(c, "evidence") /\ World /\ UNCHANGED <<acceptGate, acceptReceipts>>
     /\ IF acceptEvidence[k.revision] = NoSource
          THEN /\ acceptEvidence' = [acceptEvidence EXCEPT ![k.revision] = k.source]
               /\ acceptSettled' = acceptSettled \union {Vouched(k, k.source)}
               /\ Become(c, [k EXCEPT !.at = "pass"])
          ELSE Refused(c) /\ UNCHANGED <<acceptEvidence, acceptSettled>>

PassGate(c) ==
  LET k == accepting[c]
      r == k.revision
  IN /\ Accepting(c, "pass") /\ World /\ UNCHANGED <<acceptEvidence, acceptSettled>>
     /\ IF acceptGate[r].version = k.gate.version /\ acceptEvidence[r] # NoSource
          THEN /\ acceptGate' = [acceptGate EXCEPT ![r] =
                    [version |-> @.version + 1, status |-> "pass", linked |-> TRUE]]
               /\ acceptReceipts' = acceptReceipts \union {Vouched(k, acceptEvidence[r])}
               /\ Become(c, AcceptedOn(k, k.source))
          ELSE Refused(c) /\ UNCHANGED <<acceptGate, acceptReceipts>>

\* An await is rejected or the process dies; the panel is used again.
AbandonAcceptance(c) ==
  /\ accepting[c].at \in {"canonical", "github", "create", "evidence", "pass"}
  /\ NothingWritten
  /\ Become(c, Resting)
TryAgain(c) ==
  /\ accepting[c].at \in {"accepted", "shown"} /\ NothingWritten /\ Become(c, Resting)
-----------------------------------------------------------------------------
(* loadCompassProjection, the acceptance page and what they show: complete  *)
(* only when neither the prerequisites nor the receipt are missing.        *)
(* getBlueprintCompassProjection: the work package at work, and its state. *)
CompassShows(k) ==
  IF k.outcome # "approve" THEN [item |-> "P9-019", status |-> "active"]
  ELSE [item |-> "P9-020",
        status |-> IF /\ ReceiptOf(k.gate, k.prior)
                      /\ PreflightReady(k.revision, k.outcome, k.compliant)
                     THEN "complete" ELSE "active"]
(* The page of the acceptance: a receipt, the blockers, or the panel. *)
AcceptancePageShows(k) ==
  IF ~PreflightReady(k.revision, k.outcome, k.compliant) THEN "blockers"
  ELSE IF ReceiptOf(k.gate, k.prior) THEN "receipt" ELSE "panel"
OpenCompass(c) ==
  /\ accepting[c] = Resting /\ NothingWritten /\ Become(c, Begun("page", 0))
ReadForCompass(c, what) ==
  /\ Accepting(c, "page") /\ what \in accepting[c].todo /\ NothingWritten
  /\ LET k == CanonicalRead(accepting[c], what)
     IN Become(c, IF k.todo # {} THEN k
                  ELSE [at |-> "shown", revision |-> k.revision, source |-> k.prior,
                        compass |-> CompassShows(k).status, page |-> AcceptancePageShows(k)])
-----------------------------------------------------------------------------
InitAcceptance ==
  /\ reviewOutcome = [candidate \in ReviewCandidates |-> "none"]
  /\ constitutionOk \in BOOLEAN
  /\ acceptGate = [r \in AcceptedRevisions |-> NoGateRow]
  /\ acceptEvidence = [r \in AcceptedRevisions |-> NoSource]
  /\ finalRuns = [run \in FinalRuns |-> [conclusion |-> "running", passed |-> FALSE]]
  /\ finalUploads = {} /\ acceptReceipts = {} /\ acceptSettled = {} /\ outside = 0
  /\ compassRevision \in AcceptedRevisions
  /\ accepting = [c \in AcceptanceCalls |-> Resting]

NextAcceptance ==
  \/ \E candidate \in ReviewCandidates, outcome \in {"approve", "reject"} :
       Review(candidate, outcome)
  \/ Reassess
  \/ \E r \in AcceptedRevisions :
       \/ DeployCompass(r)
       \/ \E s \in {"not-ready", "blocked", "pass"}, linked \in BOOLEAN : ReviseGate(r, s, linked)
  \/ \E run \in FinalRuns :
       RunFinalAgain(run) \/ \E s \in {"success", "failure"} : FinishRun(run, s)
  \/ \E u \in finalUploads : ExpireUpload(u)
  \/ \E c \in AcceptanceCalls :
       \/ \E run \in FinalRuns : BeginAcceptance(c, run)
       \/ \E what \in {"decision", "gates"} : ReadForAcceptance(c, what)
       \/ \E what \in {"run", "jobs", "artifacts"} : ReadGitHub(c, what)
       \/ CreateGate(c) \/ AddGateEvidence(c) \/ PassGate(c)
       \/ AbandonAcceptance(c) \/ TryAgain(c) \/ OpenCompass(c)
       \/ \E what \in {"decision", "gates"} : ReadForCompass(c, what)

SpecAcceptance == InitAcceptance /\ [][NextAcceptance]_acceptanceVars
-----------------------------------------------------------------------------
TypeOKAcceptance ==
  /\ \A r \in AcceptedRevisions : acceptGate[r].version \in 0..MaxAcceptVersion + 1
  /\ \A r \in AcceptedRevisions : acceptEvidence[r].run \in FinalRuns \union {0}
  /\ \A c \in AcceptanceCalls : accepting[c].at \in
       {"resting", "canonical", "github", "create", "evidence", "pass", "accepted", "page",
        "shown"}

(* A revision has one receipt whoever races for it and whichever runs they *)
(* name: its source is the one verified by the call that passed the gate,  *)
(* or, when another client passed it, by the call that recorded the        *)
(* evidence: a run of the gate on just that revision which has succeeded,  *)
(* and an upload of that run; the candidate in that revision's code is     *)
(* approved and without severe findings, and the constitution was met when *)
(* that call read it.                                                      *)
ReceiptsAreBacked ==
  \A a \in acceptReceipts :
    /\ a.source = a.verified
    /\ FinalRevisionOf[a.source.run] = a.revision /\ finalRuns[a.source.run].passed
    /\ \E u \in finalUploads : u.id = a.source.upload /\ u.run = a.source.run
    /\ reviewOutcome[CandidateOf[a.revision]] = "approve" /\ a.compliant
    /\ CandidateOf[a.revision] \notin SevereFindings
    /\ \A b \in acceptReceipts : a.revision = b.revision => a.source = b.source
(* What a call reports as accepted, and what either page shows as such, is *)
(* such a receipt, for the revision that call or page runs in; gates that  *)
(* others passed on other evidence are not.                                *)
ReportsAreReceipts ==
  \A c \in AcceptanceCalls :
    LET k == accepting[c]
        Has(source) == \E a \in acceptReceipts : a.revision = k.revision /\ a.source = source
    IN /\ k.at = "accepted" => Has(k.source)
       /\ k.at = "shown" =>
            /\ k.compass = "complete" => Has(k.source)
            /\ (k.compass = "complete") <=> (k.page = "receipt")
AcceptanceIsBacked == ReceiptsAreBacked /\ ReportsAreReceipts

(* The record that stays of all this: decisions, passed runs, uploads      *)
(* whether expired or not, the evidence of each revision and the revisions *)
(* with a receipt.                                                         *)
RunsPassed == {run \in FinalRuns : finalRuns[run].passed}
UploadsMade == {[run |-> u.run, upload |-> u.id] : u \in finalUploads}
RevisionsAccepted == {a.revision : a \in acceptReceipts}

Acceptance == INSTANCE RevisionAcceptance WITH
  Revisions <- AcceptedRevisions, Runs <- FinalRuns, RevisionOf <- FinalRevisionOf,
  outcome <- reviewOutcome, passed <- RunsPassed, uploads <- UploadsMade,
  settled <- acceptEvidence, accepted <- RevisionsAccepted

(* Whichever calls race, die or are begun again between the three writes,  *)
(* a revision is settled once, on a source that is fit for it at that      *)
(* instant, is accepted after that, and neither is ever taken back.        *)
AcceptanceContract == Acceptance!RecordSpec
=============================================================================
