------------------------ MODULE ConstitutionAuthority ------------------------
(***************************************************************************)
(* The Constitution amendment service: concurrent calls of                 *)
(* ConstitutionAuthorityApplicationService, one step per await, over the   *)
(* tables of PostgresConstitutionAuthorityRepository.                      *)
(*                                                                         *)
(* A call checks that its actor is the System Owner, reads the amendment   *)
(* at the record version its caller saw, runs the checks of its operation  *)
(* and writes the next version in one transaction that compares that       *)
(* version again.  Between any two of its steps other calls commit and the *)
(* ownership of the system may pass on; it may die anywhere.               *)
(*                                                                         *)
(* Evidence, decisions and publications are appended with the record that  *)
(* refers to them and never change, so reading them is part of the step    *)
(* that follows the read of the record.  A generated id is the record      *)
(* version it is written with.                                             *)
(***************************************************************************)
EXTENDS Integers, Sequences

CONSTANTS Amendments, Policies, TargetOf,
          Principals, NoOwner,
          Candidates,      \* reviewed candidates: a Git revision and a digest
          RevisionOf,      \* the revision of each
          Exact,           \* those with a full commit SHA and a sha256 digest
          Calls            \* concurrent calls of the service

ASSUME ConstitutionAssumption ==
  /\ TargetOf \in [Amendments -> Policies]
  /\ NoOwner \notin Principals
  /\ Exact \subseteq Candidates

VARIABLES owner,         \* SystemBootstrap.ownerPrincipalId
          record,        \* rows of ConstitutionAmendment
          trail,         \* rows of ConstitutionAmendmentRevision: the states
          evidence,      \* rows of ConstitutionEvidence
          decisions,     \* rows of ConstitutionRatificationDecision
          publications,  \* rows of ConstitutionPublication
          call           \* the calls in progress

tables == <<record, trail, evidence, decisions, publications>>
vars == <<owner, tables, call>>

Stage == INSTANCE AmendmentLifecycle
           WITH stage <- [a \in Amendments |-> record[a].state],
                laws <- {p.policy : p \in publications}

Versions == 0..8
Slots == {"impact", "migration", "decision", "publication", "propagation",
          "verification"}
Evidential == {"impact", "migration", "publish", "propagate", "verify"}

Record == [state : Stage!Stages, version : Versions, ids : [Slots -> Versions]]
NoRecord == [state |-> "none", version |-> 0, ids |-> [s \in Slots |-> 0]]

Places == {"authority", "read", "reviewer", "attest", "authority again",
           "read again", "reviewer again", "commit"}
Call == [at : Places, op : Stage!Moves \union {"propose"}, actor : Principals,
         on : Amendments, expected : Versions, snap : Record,
         candidate : Candidates]
Idle == [at |-> "idle"]

Evidence == [on : Amendments, id : Versions, kind : Evidential,
             candidate : Candidates]
Decision == [on : Amendments, id : Versions, version : Versions,
             reviewer : Principals, decision : {"approve", "reject"}]
Publication == [on : Amendments, version : Versions, policy : Policies,
                publisher : Principals, candidate : Candidates]

TypeOK ==
  /\ owner \in Principals \union {NoOwner}
  /\ record \in [Amendments -> Record]
  /\ trail \in [Amendments -> Seq(Stage!Stages)]
  /\ evidence \subseteq Evidence
  /\ decisions \subseteq Decision
  /\ publications \subseteq Publication
  /\ call \in [Calls -> Call \union {Idle}]

Init ==
  /\ owner = NoOwner
  /\ record = [a \in Amendments |-> NoRecord]
  /\ trail = [a \in Amendments |-> <<>>]
  /\ evidence = {} /\ decisions = {} /\ publications = {}
  /\ call = [c \in Calls |-> Idle]

-----------------------------------------------------------------------------
(* The pure transition, and what the operations require of a record.       *)

SlotOf(op) ==
  CASE op \in {"approve", "reject"} -> "decision"
    [] op = "publish" -> "publication"
    [] op = "propagate" -> "propagation"
    [] op = "verify" -> "verification"
    [] OTHER -> op

(* Seeded fault: the version is stepped by the service and the repository. *)
TransitionTwice(r, op) ==
  LET v == r.version + 1 IN
  [state |-> Stage!To(op), version |-> v + 1,
   ids |-> [s \in Slots |-> IF s = SlotOf(op) THEN v ELSE r.ids[s]]]

Transition(r, op) ==
  LET v == r.version + 1 IN
  [state |-> Stage!To(op), version |-> v,
   ids |-> [s \in Slots |-> IF s = SlotOf(op) THEN v ELSE r.ids[s]]]

(* requireReviewedCandidate: impact and migration were reviewed at one     *)
(* exact revision; the migration evidence seals the candidate.             *)
Sealed(a, r, candidate) ==
  /\ candidate \in Exact
  /\ \E e \in evidence : /\ e.on = a /\ e.id = r.ids["migration"]
                         /\ e.kind = "migration" /\ e.candidate = candidate
  /\ \E e \in evidence : /\ e.on = a /\ e.id = r.ids["impact"]
                         /\ e.kind = "impact"
                         /\ RevisionOf[e.candidate] = RevisionOf[candidate]

Reviewed(a, r) == \E candidate \in Candidates : Sealed(a, r, candidate)

(* requireValidRatification, but for the authority of the reviewer. *)
Approval(a, r) ==
  {d \in decisions : /\ d.on = a /\ d.id = r.ids["decision"]
                     /\ d.decision = "approve" /\ d.version = r.version - 1}

ApprovedBy(a, r, p) == \E d \in Approval(a, r) : d.reviewer = p

PublicationOf(a) == {p \in publications : p.on = a}

(* Seeded fault: a rejection may follow the approval. *)
AcceptsLateReject(op, a, r, candidate) ==
  /\ r.state \in Stage!From(op) \union (IF op = "reject" THEN {"ratified"} ELSE {})
  /\ op = "reject" => r.state \in {"ratification-ready", "ratified"}
  /\ op \in {"open", "approve"} => Reviewed(a, r)
  /\ op = "publish" => Approval(a, r) # {} /\ Sealed(a, r, candidate)
  /\ op \in {"propagate", "verify"} => PublicationOf(a) # {}
  /\ op = "verify" => r.ids["propagation"] # 0

(* Seeded fault: what is published is not compared with the seal. *)
AcceptsUnsealed(op, a, r, candidate) ==
  /\ r.state \in Stage!From(op)
  /\ op = "reject" => r.state = "ratification-ready"
  /\ op \in {"open", "approve"} => Reviewed(a, r)
  /\ op = "publish" => Approval(a, r) # {} /\ Reviewed(a, r)
  /\ op \in {"propagate", "verify"} => PublicationOf(a) # {}
  /\ op = "verify" => r.ids["propagation"] # 0

(* What operation op, bringing a candidate, requires of the record it reads. *)
Accepts(op, a, r, candidate) ==
  /\ r.state \in Stage!From(op)
  /\ op = "reject" => r.state = "ratification-ready"
  /\ op \in {"open", "approve"} => Reviewed(a, r)
  /\ op = "publish" => Approval(a, r) # {} /\ Sealed(a, r, candidate)
  /\ op \in {"propagate", "verify"} => PublicationOf(a) # {}
  /\ op = "verify" => r.ids["propagation"] # 0

-----------------------------------------------------------------------------
(* Steps of call c.                                                        *)

Return(c) == call' = [call EXCEPT ![c] = Idle] /\ UNCHANGED <<owner, tables>>

Goto(c, place) ==
  /\ call' = [call EXCEPT ![c] = [@ EXCEPT !.at = place]]
  /\ UNCHANGED <<owner, tables>>

Check(c, ok, place) == IF ok THEN Goto(c, place) ELSE Return(c)

(* A new amendment gets a random id, so no two calls propose the same one. *)
(* Any other call may expect any version, one not yet stored included.     *)
Begin(c) ==
  /\ call[c] = Idle
  /\ \E op \in Stage!Moves \union {"propose"}, p \in Principals,
        a \in Amendments, v \in Versions, candidate \in Candidates :
       /\ IF op = "propose"
            THEN /\ v = 0 /\ record[a] = NoRecord
                 /\ \A d \in Calls : call[d] # Idle /\ call[d].op = "propose"
                                       => call[d].on # a
            ELSE v # 0
       /\ call' = [call EXCEPT ![c] =
                     [at |-> "authority", op |-> op, actor |-> p, on |-> a,
                      expected |-> v, snap |-> NoRecord,
                      candidate |-> candidate]]
  /\ UNCHANGED <<owner, tables>>

At(c, place) == call[c].at = place

CheckAuthority(c) ==
  \/ /\ At(c, "authority")
     /\ Check(c, call[c].actor = owner,
              IF call[c].op = "propose" THEN "commit" ELSE "read")
  \/ /\ At(c, "authority again")
     /\ Check(c, call[c].actor = owner, "read again")

(* requireExactAmendment and the checks that need no further await. *)
ReadAmendment(c) ==
  LET k == call[c]
      r == record[k.on]
      next == CASE k.op = "publish" -> "reviewer"
                [] k.op \in {"propagate", "verify"} -> "attest"
                [] OTHER -> "commit"
  IN /\ At(c, "read")
     /\ IF r.version = k.expected /\ Accepts(k.op, k.on, r, k.candidate)
          THEN /\ call' = [call EXCEPT ![c] = [k EXCEPT !.snap = r, !.at = next]]
               /\ UNCHANGED <<owner, tables>>
          ELSE Return(c)

ReadAgain(c) ==
  LET k == call[c]
      r == record[k.on]
  IN /\ At(c, "read again")
     /\ Check(c, r.version = k.expected /\ Approval(k.on, r) # {}, "reviewer again")

(* The human who ratified must still hold constitutional authority. *)
CheckReviewer(c) ==
  LET k == call[c] IN
  \/ /\ At(c, "reviewer")
     /\ Check(c, ApprovedBy(k.on, k.snap, owner), "attest")
  \/ /\ At(c, "reviewer again")
     /\ Check(c, ApprovedBy(k.on, k.snap, owner), "commit")

(* The attestation verifier, outside the system, says yes or no. *)
VerifyAttestation(c) ==
  /\ At(c, "attest")
  /\ \/ Goto(c, IF call[c].op = "publish" THEN "authority again" ELSE "commit")
     \/ Return(c)

(* The process dies, or an await of the call rejects. *)
Abort(c) == call[c] # Idle /\ Return(c)

-----------------------------------------------------------------------------
(* The transactions.                                                       *)

Create(c) ==
  LET a == call[c].on IN
  /\ At(c, "commit") /\ call[c].op = "propose"
  /\ record' = [record EXCEPT ![a] = [NoRecord EXCEPT !.state = "draft",
                                                      !.version = 1]]
  /\ trail' = [trail EXCEPT ![a] = <<"draft">>]
  /\ call' = [call EXCEPT ![c] = Idle]
  /\ UNCHANGED <<owner, evidence, decisions, publications>>

(* Seeded fault: the record is written without comparing versions. *)
CurrentOrNot(k) == record[k.on].state # "none"

(* Compare and set: the row is still at the version the call expects. *)
Current(k) == record[k.on].version = k.expected

(* Seeded fault: the authority checked before the transaction is trusted. *)
MayPublishUnlocked(k) ==
  /\ record[k.on].state = "ratified"
  /\ \A p \in publications : p.on # k.on /\ p.policy # TargetOf[k.on]

(* Seeded fault: a policy version may have several publications. *)
MayPublishAgain(k) ==
  /\ owner = k.actor
  /\ ApprovedBy(k.on, k.snap, owner)
  /\ record[k.on].state = "ratified"
  /\ \A p \in publications : p.on # k.on

(* The owner row is locked: owner, ratifier and publisher are one, the     *)
(* record is ratified, and neither the amendment nor its version has a     *)
(* publication.                                                            *)
MayPublish(k) ==
  /\ owner = k.actor
  /\ ApprovedBy(k.on, k.snap, owner)
  /\ record[k.on].state = "ratified"
  /\ \A p \in publications : p.on # k.on /\ p.policy # TargetOf[k.on]

Write(c) ==
  LET k == call[c]
      v == k.snap.version + 1
  IN /\ record' = [record EXCEPT ![k.on] = Transition(k.snap, k.op)]
     /\ trail' = [trail EXCEPT ![k.on] = Append(@, Stage!To(k.op))]
     /\ evidence' = IF k.op \in Evidential
                      THEN evidence \union {[on |-> k.on, id |-> v, kind |-> k.op,
                                             candidate |-> k.candidate]}
                      ELSE evidence
     /\ decisions' = IF k.op \in {"approve", "reject"}
                       THEN decisions \union {[on |-> k.on, id |-> v,
                                               version |-> k.expected,
                                               reviewer |-> k.actor,
                                               decision |-> k.op]}
                       ELSE decisions
     /\ publications' = IF k.op = "publish"
                          THEN publications
                               \union {[on |-> k.on, version |-> k.expected,
                                        policy |-> TargetOf[k.on],
                                        publisher |-> k.actor,
                                        candidate |-> k.candidate]}
                          ELSE publications
     /\ call' = [call EXCEPT ![c] = Idle]
     /\ UNCHANGED owner

Commit(c) ==
  LET k == call[c] IN
  /\ At(c, "commit") /\ k.op # "propose"
  /\ IF /\ Current(k)
        /\ k.op = "publish" => MayPublish(k)
        /\ k.op \in {"approve", "reject"} =>
             \A d \in decisions : <<d.on, d.version>> # <<k.on, k.expected>>
       THEN Write(c)
       ELSE Return(c)

Step(c) ==
  \/ CheckAuthority(c) \/ ReadAmendment(c) \/ CheckReviewer(c)
  \/ VerifyAttestation(c) \/ ReadAgain(c) \/ Create(c) \/ Commit(c)

-----------------------------------------------------------------------------
(* The owner.                                                              *)

BootstrapOwner(p) == owner = NoOwner /\ owner' = p /\ UNCHANGED <<tables, call>>

(* Ownership passes on by an administrative update of the owner row. *)
TransferOwnership(p) ==
  owner # NoOwner /\ p # owner /\ owner' = p /\ UNCHANGED <<tables, call>>

Next ==
  \/ \E c \in Calls : Begin(c) \/ Step(c) \/ Abort(c)
  \/ \E p \in Principals : BootstrapOwner(p) \/ TransferOwnership(p)

Spec == Init /\ [][Next]_vars
-----------------------------------------------------------------------------
(* Properties.                                                             *)

(* The revision rows of an amendment replay its life: as many as its       *)
(* version, each a transition of the one before, the last its state.       *)
TrailReplays ==
  \A a \in Amendments :
    /\ Len(trail[a]) = record[a].version
    /\ record[a] # NoRecord =>
         trail[a][1] = "draft" /\ trail[a][Len(trail[a])] = record[a].state
    /\ \A n \in 2..Len(trail[a]) :
         \E m \in Stage!Moves : /\ trail[a][n - 1] \in Stage!From(m)
                                /\ trail[a][n] = Stage!To(m)

(* An amendment has one human decision at most, bound to the revision it   *)
(* was made on, and its state agrees with it.                              *)
Ratified == {"ratified", "published", "propagating", "verified"}

DecisionBinds ==
  /\ \A d, e \in decisions : d.on = e.on => d = e
  /\ \A a \in Amendments :
       /\ record[a].state \in Ratified <=>
            \E d \in decisions : d.on = a /\ d.decision = "approve"
       /\ record[a].state = "rejected" <=>
            \E d \in decisions : d.on = a /\ d.decision = "reject"
  /\ \A d \in decisions : trail[d.on][d.version] = "ratification-ready"

(* A law on the books is the candidate that was reviewed for impact and    *)
(* sealed by the migration evidence before the human approval of the very  *)
(* revision it was published from.                                         *)
PublishedAsSealed ==
  \A p \in publications :
    /\ Sealed(p.on, record[p.on], p.candidate)
    /\ \E d \in decisions : /\ d.on = p.on /\ d.decision = "approve"
                            /\ d.version = p.version - 1
                            /\ d.reviewer = p.publisher

(* A policy version is published once, from one amendment. *)
OneLawPerVersion ==
  \A p, q \in publications : p.policy = q.policy \/ p.on = q.on => p = q

(* Whoever publishes is the owner at that very instant, and so is whoever  *)
(* ratified: an approval by a principal who has lost the ownership never   *)
(* becomes law while it is lost.                                           *)
PublishedUnderAuthority ==
  [][\A p \in publications' \ publications :
       /\ p.publisher = owner
       /\ \E d \in decisions : /\ d.on = p.on /\ d.decision = "approve"
                               /\ d.reviewer = owner]_vars

(* Every write is a step of the amendment lifecycle. *)
LifecycleContract == Stage!LifecycleSpec
=============================================================================
