--------------------------- MODULE ProfessionalReview ---------------------------
(***************************************************************************)
(* HumanProfessionalReviewApplicationService: a person decides on the      *)
(* candidate the running code carries.  A submission names the candidate   *)
(* its screen showed; the action compares it with the candidate of its own *)
(* code, asks the authority (ProjectRoles), looks for an earlier decision, *)
(* validates and inserts, each step an await of its own.  Deployments move *)
(* on while old screens and old server instances are still about.          *)
(***************************************************************************)
EXTENDS ProjectRoles

CONSTANTS Candidates,       \* 1..n: the candidates of successive deployments
          Findings, FindingsOf,
          BlockingSevere    \* findings that are blocking and P0 or P1

ASSUME ReviewAssumption ==
  /\ 1 \in Candidates /\ Candidates \subseteq Nat
  /\ \A n \in Candidates : 1..n \subseteq Candidates
  /\ FindingsOf \in [Candidates -> SUBSET Findings]

VARIABLES deployed,   \* the candidate of the newest code
          review,     \* submissions in progress, by call
          decisions   \* rows of HumanProfessionalReviewDecision, as inserted

reviewVars == <<deployed, review, decisions>>

\* "decline" stands for request-changes and reject.
DecisionKinds == {"approve", "decline"}
NoReview == [at |-> "none"]

ReviewType == [at : {"authority", "existing", "append"},
               screen : Candidates, decision : DecisionKinds,
               acknowledged : SUBSET Findings]
DecisionRows == [candidate : Candidates, decision : DecisionKinds,
                 reviewer : Principals, acknowledged : SUBSET Findings]

TypeOKReview ==
  /\ deployed \in Candidates
  /\ review \in [RoleCalls -> ReviewType \union {NoReview}]
  /\ decisions \in Seq(DecisionRows)

InitReview ==
  /\ deployed = 1 /\ decisions = <<>>
  /\ review = [c \in RoleCalls |-> NoReview]

(* The code is redeployed with the next candidate. *)
Deploy ==
  /\ deployed + 1 \in Candidates /\ deployed' = deployed + 1
  /\ UNCHANGED <<roleVars, review, decisions>>

(* submitProfessionalReviewAction on a running instance, current or older, *)
(* from the screen of any candidate shown so far; a screen that is not the *)
(* instance's own is refused at once.                                      *)
SubmitReview(c, p) ==
  \E screen \in 1..deployed :
   \E d \in DecisionKinds, acks \in SUBSET FindingsOf[screen] :
    /\ review[c] = NoReview
    /\ BeginGuarded(c, "PROJECT_REVIEW", p, p, "VIEWER")
    /\ review' = [review EXCEPT ![c] = [at |-> "authority", screen |-> screen,
                                        decision |-> d, acknowledged |-> acks]]
    /\ UNCHANGED <<deployed, decisions>>

(* The authority answered: go on, or the action reports the denial. *)
Authorised(c) ==
  /\ review[c].at = "authority"
  /\ \/ /\ Admitted(c, "PROJECT_REVIEW")
        /\ review' = [review EXCEPT ![c].at = "existing"]
     \/ /\ roleCall[c] = NoRoleCall
        /\ review' = [review EXCEPT ![c] = NoReview]
  /\ UNCHANGED <<roleVars, deployed, decisions>>

EndReview(c) == review' = [review EXCEPT ![c] = NoReview] /\ EndRoleCall(c)

DecidedOn(candidate) ==
  \E i \in DOMAIN decisions : decisions[i].candidate = candidate

(* recordHumanProfessionalReviewDecision; the candidate is the screen's. *)
Acceptable(candidate, d, acknowledged) ==
  /\ acknowledged \subseteq FindingsOf[candidate]
  /\ d = "approve" => /\ FindingsOf[candidate] \intersect BlockingSevere = {}
                      /\ FindingsOf[candidate] \subseteq acknowledged

(* record: findForCandidate, then the validation, without an await. *)
FindExisting(c) ==
  LET v == review[c] IN
  /\ v.at = "existing"
  /\ IF DecidedOn(v.screen) \/ ~Acceptable(v.screen, v.decision, v.acknowledged)
       THEN EndReview(c)
       ELSE review' = [review EXCEPT ![c].at = "append"] /\ UNCHANGED roleCall
  /\ UNCHANGED <<owner, role, audit, deployed, decisions>>

(* Seeded fault: the table has no unique key on the candidate. *)
NoUniqueKey(candidate) == TRUE

(* The unique key of project, revision and digest. *)
Insertable(candidate) == ~DecidedOn(candidate)

(* append: the insert, which the unique key may refuse. *)
AppendDecision(c) ==
  LET v == review[c] IN
  /\ v.at = "append"
  /\ decisions' = IF Insertable(v.screen)
                    THEN Append(decisions, [candidate |-> v.screen,
                                            decision |-> v.decision,
                                            reviewer |-> roleCall[c].actor,
                                            acknowledged |-> v.acknowledged])
                    ELSE decisions
  /\ EndReview(c)
  /\ UNCHANGED <<owner, role, audit, deployed>>

(* The process dies between two awaits. *)
DropReview(c) ==
  review[c] # NoReview /\ EndReview(c) /\ UNCHANGED <<owner, role, audit, deployed, decisions>>

Recording(c) ==
  Authorised(c) \/ FindExisting(c) \/ AppendDecision(c) \/ DropReview(c)

Reviewing ==
  \/ Deploy
  \/ \E c \in RoleCalls : \/ \E p \in Principals : SubmitReview(c, p)
                          \/ Recording(c)

(* Meanwhile the owner is bootstrapped and roles are granted, by calls that *)
(* are not submissions.                                                    *)
NextReview ==
  \/ Reviewing
  \/ /\ \E c \in RoleCalls :
          \/ ReadOwner(c) \/ ReadRole(c)
          \/ /\ review[c] = NoReview
             /\ \/ BootstrapBy(c) \/ SetProjectRole(c) \/ DropRoleCall(c)
                \/ \E p, to \in Principals, give \in Roles : BeginGrant(c, p, to, give)
     /\ UNCHANGED reviewVars

SpecReview == InitRoles /\ InitReview /\ [][NextReview]_<<roleVars, reviewVars>>
-----------------------------------------------------------------------------
(* Properties.                                                             *)

(* However many reviewers submit at once, on however many instances, a     *)
(* candidate gets one decision, never replaced, by somebody the audit      *)
(* trail made owner, project owner or reviewer before; a sign-off stands   *)
(* only on findings that were all acknowledged and none of which blocks.   *)
DecisionsAreAccountable ==
  /\ \A i, j \in DOMAIN decisions :
       decisions[i].candidate = decisions[j].candidate => i = j
  /\ \A i \in DOMAIN decisions :
       LET d == decisions[i] IN
       /\ d.decision = "approve" =>
            /\ d.acknowledged = FindingsOf[d.candidate]
            /\ d.acknowledged \intersect BlockingSevere = {}
       /\ \E j \in DOMAIN audit : \/ BootstrappedAs(j, d.reviewer)
                                  \/ Given(j, d.reviewer, {"OWNER", "REVIEWER"})
=============================================================================
