---------------------------- MODULE ReleaseEvidence ----------------------------
(***************************************************************************)
(* Quality gates, their evidence and the releases that rely on them:       *)
(* concurrent calls of WorkQualityApplicationService and                   *)
(* ReleaseLessonsApplicationService over the rows of one project.          *)
(*                                                                         *)
(* A gate passes on evidence recorded for it; a release ships on evidence  *)
(* its gates pass with.  Every call reads what it relies on await by await *)
(* and then compares and sets its own row only, at the version its caller  *)
(* names.  That version is an argument: no call compares it with the row   *)
(* it has read, and the row may have to reach it still.  Gates, evidence   *)
(* and releases are never deleted and evidence never changes.  A call the  *)
(* authority refuses writes nothing and is not begun.                      *)
(***************************************************************************)
EXTENDS Naturals

CONSTANTS Gates, Releases, Revisions,
          Evidence, GateOf, RevisionOf,  \* what each piece of evidence is for
          Calls,
          MaxGateVersion, MaxReleaseVersion  \* bounds: updates of one row

ASSUME EvidenceAssumption ==
  /\ GateOf \in [Evidence -> Gates]
  /\ RevisionOf \in [Evidence -> Revisions]
  /\ Revisions # {}
  /\ MaxGateVersion \in Nat /\ MaxReleaseVersion \in Nat

VARIABLES gate,      \* rows of QualityGate: version 0 before the row exists
          recorded,  \* rows of GateEvidence
          release,   \* rows of ReleaseRecord
          call,      \* calls in progress
          shipped    \* history: the release and revision pairs ever released

vars == <<gate, recorded, release, call, shipped>>

\* "open" is a gate not ready, candidate or failed; "planned" also stands for
\* candidate and "released" for superseded, which are treated alike.
GateStatuses == {"open", "pass"}
Shipping == {"released", "rolled-back"}
ReleaseStatuses == {"planned"} \union Shipping

GateValues(evidence) == [status : GateStatuses, links : SUBSET evidence]
ReleaseValues(evidence) == [status : ReleaseStatuses, revision : Revisions,
                            links : SUBSET evidence, rollback : Revisions]
GateValue == GateValues(Evidence)
ReleaseValue == ReleaseValues(Evidence)

Rows(versions, values) == [version : versions, value : values]

NoCall == [at |-> "idle"]

\* todo: evidence still to be looked up; seen: history, what its
\* gate has passed with at an instant since the call began; read: history,
\* the version of the record that "current" has read.
GateCall == [at : {"evidence", "write gate"}, on : Gates,
             expected : 0..MaxGateVersion, value : GateValue]
ReleaseCall == [at : {"current", "evidence of release", "rollback",
                      "write release"},
                on : Releases, expected : 0..MaxReleaseVersion,
                value : ReleaseValue, todo : SUBSET Evidence,
                seen : SUBSET Evidence, read : 0..MaxReleaseVersion]

AnyRevision == CHOOSE r \in Revisions : TRUE
NoRelease == [status |-> "planned", revision |-> AnyRevision, links |-> {},
              rollback |-> AnyRevision]
NoGate == [status |-> "open", links |-> {}]

TypeOKReleases ==
  /\ gate \in [Gates -> Rows(0..MaxGateVersion, GateValue)]
  /\ recorded \subseteq Evidence
  /\ release \in [Releases -> Rows(0..MaxReleaseVersion, ReleaseValue)]
  /\ call \in [Calls -> GateCall \union ReleaseCall \union {NoCall}]
  /\ shipped \subseteq Releases \X Revisions

InitReleases ==
  /\ gate = [g \in Gates |-> [version |-> 0, value |-> NoGate]]
  /\ recorded = {}
  /\ release = [r \in Releases |-> [version |-> 0, value |-> NoRelease]]
  /\ call = [c \in Calls |-> NoCall]
  /\ shipped = {}

(* Evidence e counts for a release: its gate passes and links it. *)
PassesWith(g, e) == g.value.status = "pass" /\ e \in g.value.links

PassingEvidence(gates) == {e \in Evidence : PassesWith(gates[GateOf[e]], e)}

IsReleaseCall(k) == k.at \in {"current", "evidence of release", "rollback",
                              "write release"}

(* Seeded fault: the version is stepped by the caller and the repository. *)
NextVersionTwice(v) == v + 2

(* assertNextVersion *)
NextVersion(v) == v + 1

Return(c) == call' = [call EXCEPT ![c] = NoCall]

Drop(c) ==
  call[c] # NoCall /\ Return(c) /\ UNCHANGED <<gate, recorded, release, shipped>>

-----------------------------------------------------------------------------
(* Gates and evidence.                                                     *)

AddEvidence(e) ==
  /\ e \notin recorded /\ gate[GateOf[e]].version > 0
  /\ recorded' = recorded \union {e}
  /\ UNCHANGED <<gate, release, call, shipped>>

(* Seeded fault: a new gate may already pass. *)
GateAcceptsAnyStatus(v, value) == TRUE

(* A gate is not created at pass. *)
GateAccepts(v, value) == v = 0 => value.status # "pass"

BeginGate(c, among) ==
  /\ call[c] = NoCall
  /\ \E g \in Gates, value \in GateValues(among) :
       \E v \in 0..(MaxGateVersion - 1) :
         /\ value.status # "pass" => value.links = {}  \* of no consequence
         /\ GateAccepts(v, value)
         /\ call' = [call EXCEPT ![c] =
                       [at |-> IF v > 0 /\ value.status = "pass"
                                 THEN "evidence" ELSE "write gate",
                        on |-> g, expected |-> v, value |-> value]]
  /\ UNCHANGED <<gate, recorded, release, shipped>>

(* assertQualityGateCanPass: some evidence, all of it recorded for g. *)
CanPass(g, links) ==
  links # {} /\ links \subseteq recorded /\ \A e \in links : GateOf[e] = g

ReadGateEvidence(c) ==
  /\ call[c].at = "evidence"
  /\ call' = [call EXCEPT ![c] =
                IF CanPass(@.on, @.value.links)
                  THEN [@ EXCEPT !.at = "write gate"] ELSE NoCall]
  /\ UNCHANGED <<gate, recorded, release, shipped>>

(* Every release call in progress sees what the gates now pass with. *)
Witness(calls, gates) ==
  [c \in Calls |-> IF IsReleaseCall(calls[c])
                     THEN [calls[c] EXCEPT !.seen =
                            @ \union (PassingEvidence(gates)
                                      \intersect calls[c].value.links)]
                     ELSE calls[c]]

WriteGate(c) ==
  LET k == call[c] IN
  /\ k.at = "write gate"
  /\ IF gate[k.on].version = k.expected
       THEN /\ gate' = [gate EXCEPT ![k.on] = [version |-> NextVersion(k.expected),
                                               value |-> k.value]]
            /\ call' = Witness([call EXCEPT ![c] = NoCall], gate')
       ELSE Return(c) /\ UNCHANGED gate
  /\ UNCHANGED <<recorded, release, shipped>>

-----------------------------------------------------------------------------
(* Releases.                                                               *)

\* v is 0 for a create, else the version an update expects.
BeginRelease(c, r, among) ==
  /\ call[c] = NoCall
  /\ \E value \in ReleaseValues(among) :
       \E v \in 0..(MaxReleaseVersion - 1) :
         /\ value.status # "rolled-back" => value.rollback = value.revision  \* ignored
         /\ call' = [call EXCEPT ![c] =
                       [at |-> IF v = 0 THEN "evidence of release" ELSE "current",
                        on |-> r, expected |-> v, value |-> value,
                        todo |-> IF value.status \in Shipping
                                   THEN value.links ELSE {},
                        seen |-> PassingEvidence(gate) \intersect value.links,
                        read |-> 0]]
  /\ UNCHANGED <<gate, recorded, release, shipped>>

(* The identity of a record: revision and evidence stand for all of it. *)
SameIdentity(old, new) == old.revision = new.revision /\ old.links = new.links

(* What updateRelease requires of the record it reads. *)
KeepsIdentity(old, new) == old.status \in Shipping => SameIdentity(old, new)

ReadCurrent(c) ==
  /\ call[c].at = "current"
  /\ call' = [call EXCEPT ![c] =
                IF /\ release[@.on].version > 0
                   /\ KeepsIdentity(release[@.on].value, @.value)
                  THEN [@ EXCEPT !.at = "evidence of release",
                                 !.read = release[call[c].on].version]
                  ELSE NoCall]
  /\ UNCHANGED <<gate, recorded, release, shipped>>

(* Seeded fault: the gate is not asked whether it passes. *)
EvidenceCountsUngated(e, value) ==
  e \in recorded /\ RevisionOf[e] = value.revision

(* One round of assertReleaseEvidence: the evidence, then its gate. *)
EvidenceCounts(e, value) ==
  /\ e \in recorded
  /\ PassesWith(gate[GateOf[e]], e)
  /\ RevisionOf[e] = value.revision

CheckEvidence(c) ==
  LET k == call[c] IN
  /\ k.at = "evidence of release"
  /\ IF k.value.status \in Shipping /\ k.value.links = {}
       THEN Return(c)
       ELSE \/ /\ k.todo = {}
               /\ call' = [call EXCEPT ![c].at = "rollback"]
            \/ \E e \in k.todo :
                 call' = [call EXCEPT ![c] =
                            IF EvidenceCounts(e, k.value)
                              THEN [k EXCEPT !.todo = @ \ {e}] ELSE NoCall]
  /\ UNCHANGED <<gate, recorded, release, shipped>>

(* Seeded fault: any record of the revision will do. *)
RollbackTargetPlanned(r, value) ==
  value.status = "rolled-back" =>
    /\ value.rollback # value.revision
    /\ \E x \in Releases \ {r} : /\ release[x].version > 0
                                 /\ release[x].value.revision = value.rollback

(* assertRollbackTarget: another release of that revision has shipped. *)
RollbackTarget(r, value) ==
  value.status = "rolled-back" =>
    /\ value.rollback # value.revision
    /\ \E x \in Releases \ {r} : /\ release[x].version > 0
                                 /\ release[x].value.revision = value.rollback
                                 /\ release[x].value.status \in Shipping

CheckRollback(c) ==
  /\ call[c].at = "rollback"
  /\ call' = [call EXCEPT ![c] =
                IF RollbackTarget(@.on, @.value)
                  THEN [@ EXCEPT !.at = "write release"] ELSE NoCall]
  /\ UNCHANGED <<gate, recorded, release, shipped>>

(* Seeded fault: the update goes through whatever version the row is at. *)
AtVersionOrLater(k) == release[k.on].version >= k.expected

(* Insert, or compare and set. *)
AtVersion(k) == release[k.on].version = k.expected

WriteRelease(c) ==
  LET k == call[c] IN
  /\ k.at = "write release"
  /\ Return(c)
  /\ IF AtVersion(k)
       THEN /\ release' = [release EXCEPT ![k.on] = [version |-> NextVersion(k.expected),
                                                     value |-> k.value]]
            /\ shipped' = IF k.value.status \in Shipping
                            THEN shipped \union {<<k.on, k.value.revision>>}
                            ELSE shipped
       ELSE UNCHANGED <<release, shipped>>
  /\ UNCHANGED <<gate, recorded>>

Proceed(c) ==
  \/ ReadGateEvidence(c) \/ WriteGate(c)
  \/ ReadCurrent(c) \/ CheckEvidence(c) \/ CheckRollback(c) \/ WriteRelease(c)
  \/ Drop(c)

(* What some callers may do with some releases and evidence. *)
NextAmong(callers, releases, among) ==
  \/ \E c \in callers :
       \/ BeginGate(c, among)
       \/ \E r \in releases : BeginRelease(c, r, among)
       \/ Proceed(c)
  \/ \E e \in among : AddEvidence(e)

NextReleases == NextAmong(Calls, Releases, Evidence)

SpecReleases == InitReleases /\ [][NextReleases]_vars
-----------------------------------------------------------------------------
(* Properties.                                                             *)

Shipped(r) == release[r].version > 0 /\ release[r].value.status \in Shipping

(* A gate only ever passes with evidence that exists, and is its own. *)
PassIsBacked ==
  \A g \in Gates : gate[g].value.status = "pass" => CanPass(g, gate[g].value.links)

(* A release is written as shipped only with evidence for its very         *)
(* revision, each piece of which a gate passed with at some instant of the *)
(* call, though never all of them at one instant.                          *)
ShippedOnPassedGates ==
  [][\A r \in Releases : release'[r] # release[r]
                         /\ release'[r].value.status \in Shipping =>
       \E c \in Calls :
         /\ call[c] # NoCall /\ call[c].at = "write release" /\ call[c].on = r
         /\ release'[r].value.links # {}
         /\ \A e \in release'[r].value.links :
              e \in call[c].seen /\ RevisionOf[e] = release'[r].value.revision]_vars

(* The revision a release is rolled back to has been shipped by another. *)
RolledBackToShipped ==
  \A r \in Releases :
    Shipped(r) /\ release[r].value.status = "rolled-back" =>
      \E x \in Releases \ {r} : <<x, release[r].value.rollback>> \in shipped

\* Call c writes r although it names a version r had not reached when c read it.
Overtakes(c, r) ==
  /\ call[c] # NoCall /\ call[c].at = "write release" /\ call[c].on = r
  /\ call[c].read < call[c].expected

(* The identity of a record changes while it is shipped only by an update  *)
(* that names a version not yet stored when it read the record: to an      *)
(* update that names the version it read, or an older one, no race does it. *)
IdentityKeptWhileShipped ==
  [][\A r \in Releases : Shipped(r) =>
       \/ SameIdentity(release[r].value, release'[r].value)
       \/ \E c \in Calls : Overtakes(c, r) /\ call'[c] = NoCall]_vars

(* What the service says of a released artifact: another revision needs    *)
(* another record.                                                         *)
ReleasedIdentityIsImmutable ==
  \A r \in Releases : \A p, q \in shipped : p[1] = r /\ q[1] = r => p = q
=============================================================================
