--------------------------- MODULE GovernanceRecords ---------------------------
(***************************************************************************)
(* Architecture decisions, risks, technical debt and lessons learned of a  *)
(* project: concurrent calls of GovernanceApplicationService and of the    *)
(* lesson operations of ReleaseLessonsApplicationService.  A call checks   *)
(* what its record refers to, or what the stored record still allows, one  *)
(* await after the other, and then inserts, or compares and sets its own   *)
(* row at the version its caller names, which it never compares with the   *)
(* record it has read.  Nothing is ever deleted.                           *)
(***************************************************************************)
EXTENDS Naturals

CONSTANTS Decisions,   \* ids of ArchitectureDecision
          Notes,       \* ids of Risk, TechnicalDebt and LessonLearned
          Lessons,     \* those of the notes that are lessons
          Targets,     \* work packages and releases
          ReleaseTargets,
          Contents,    \* title, context, decision and consequences
          GovCalls,
          MaxGovVersion  \* bound: updates of one row

ASSUME GovernanceAssumption == MaxGovVersion \in Nat

VARIABLES decision,  \* rows of ArchitectureDecision
          note,      \* rows of Risk, TechnicalDebt and LessonLearned
          targets,   \* work packages and releases that exist
          govCall    \* calls in progress

govVars == <<decision, note, targets, govCall>>

\* "other" stands for proposed, superseded and rejected.
\* What a decision supersedes is looked up once and never read again.
DecisionValues == [status : {"accepted", "other"}, content : Contents]
NoteValues == [links : SUBSET Targets]

NoGovCall == [at |-> "idle"]
DecisionCalls == [at : {"superseded", "current decision", "write decision"},
                  on : Decisions, supersedes : Decisions \union {"none"},
                  expected : 0..(MaxGovVersion - 1), value : DecisionValues,
                  read : 0..MaxGovVersion]  \* history: the version it has read
NoteCalls == [at : {"current lesson", "release link", "work links", "write note"},
              on : Notes, expected : 0..(MaxGovVersion - 1), value : NoteValues]

NoDecision == [version |-> 0]
NoNote == [version |-> 0, value |-> [links |-> {}]]

TypeOKGovernance ==
  /\ decision \in [Decisions -> {NoDecision} \union
                      [version : 1..MaxGovVersion, value : DecisionValues]]
  /\ note \in [Notes -> [version : 0..MaxGovVersion, value : NoteValues]]
  /\ targets \subseteq Targets
  /\ govCall \in [GovCalls -> DecisionCalls \union NoteCalls \union {NoGovCall}]

InitGovernance ==
  /\ decision = [d \in Decisions |-> NoDecision]
  /\ note = [n \in Notes |-> NoNote]
  /\ targets = {}
  /\ govCall = [c \in GovCalls |-> NoGovCall]

GovStep(c, ok, step) ==
  govCall' = [govCall EXCEPT ![c] = IF ok THEN [@ EXCEPT !.at = step] ELSE NoGovCall]

(* Work packages and releases are created by their own services. *)
AddTarget(t) ==
  t \notin targets /\ targets' = targets \union {t} /\ UNCHANGED <<decision, note, govCall>>
-----------------------------------------------------------------------------
(* Architecture decisions.                                                 *)

(* expected is 0 for a create, else the version an update names, stored or *)
(* not.  A new decision may not supersede itself; an update does not look  *)
(* at what it supersedes.                                                  *)
BeginDecision(c) ==
  \E d \in Decisions, v \in DecisionValues :
    \E expected \in 0..(MaxGovVersion - 1), s \in {"none"} \union Decisions :
      /\ govCall[c] = NoGovCall
      /\ IF expected = 0 THEN s # d ELSE s = "none"
      /\ govCall' = [govCall EXCEPT ![c] =
           [at |-> IF expected > 0 THEN "current decision"
                   ELSE IF s = "none" THEN "write decision" ELSE "superseded",
            on |-> d, supersedes |-> s, expected |-> expected, value |-> v,
            read |-> 0]]
      /\ UNCHANGED <<decision, note, targets>>

(* createArchitectureDecision: the superseded decision is of this project. *)
FindSuperseded(c) ==
  /\ govCall[c].at = "superseded"
  /\ GovStep(c, decision[govCall[c].supersedes].version > 0, "write decision")
  /\ UNCHANGED <<decision, note, targets>>

(* Seeded fault: content is protected by the new status, not the stored one. *)
ContentAllowedByNewStatus(current, value) ==
  value.status = "accepted" => current.content = value.content

(* The content of a decision stored as accepted is immutable. *)
ContentAllowed(current, value) ==
  current.status = "accepted" => current.content = value.content

(* updateArchitectureDecision, up to its write. *)
ReadDecision(c) ==
  LET k == govCall[c]
      row == decision[k.on] IN
  /\ k.at = "current decision"
  /\ govCall' = [govCall EXCEPT ![c] =
                   IF row.version > 0 /\ ContentAllowed(row.value, k.value)
                     THEN [k EXCEPT !.at = "write decision", !.read = row.version]
                     ELSE NoGovCall]
  /\ UNCHANGED <<decision, note, targets>>

(* Seeded fault: the row keeps the version its caller saw. *)
NextRowSameVersion(k) == [version |-> k.expected, value |-> k.value]

(* assertNextVersion and the write: a row carries the next version. *)
NextRow(k) == [version |-> k.expected + 1, value |-> k.value]

(* The insert, or updateMany at the expected version; one row or nothing. *)
WriteDecision(c) ==
  LET k == govCall[c] IN
  /\ k.at = "write decision"
  /\ decision' = IF decision[k.on].version = k.expected
                   THEN [decision EXCEPT ![k.on] = NextRow(k)]
                   ELSE decision
  /\ govCall' = [govCall EXCEPT ![c] = NoGovCall]
  /\ UNCHANGED <<note, targets>>
-----------------------------------------------------------------------------
(* Risks, technical debt and lessons.                                      *)

(* The first await of a call: a lesson to update must exist, then its      *)
(* release; a risk or debt goes straight to its work links.                *)
BeginNote(c) ==
  \E n \in Notes, v \in NoteValues :
    \E expected \in 0..(MaxGovVersion - 1) :
      /\ govCall[c] = NoGovCall
      /\ n \notin Lessons => v.links \intersect ReleaseTargets = {}
      /\ govCall' = [govCall EXCEPT ![c] =
           [at |-> IF n \notin Lessons THEN "work links"
                   ELSE IF expected > 0 THEN "current lesson" ELSE "release link",
            on |-> n, expected |-> expected, value |-> v]]
      /\ UNCHANGED <<decision, note, targets>>

ReadLesson(c) ==
  /\ govCall[c].at = "current lesson"
  /\ GovStep(c, note[govCall[c].on].version > 0, "release link")
  /\ UNCHANGED <<decision, note, targets>>

(* assertLessonLinks, first await: the release of the lesson. *)
CheckRelease(c) ==
  /\ govCall[c].at = "release link"
  /\ GovStep(c, govCall[c].value.links \intersect ReleaseTargets \subseteq targets,
             "work links")
  /\ UNCHANGED <<decision, note, targets>>

(* Seeded fault: links are only looked up when a record is created. *)
WorkLinksExistOnCreate(k) ==
  k.expected = 0 => k.value.links \ ReleaseTargets \subseteq targets

(* assertWorkLinks: every linked work package is one of the project's. *)
WorkLinksExist(k) == k.value.links \ ReleaseTargets \subseteq targets

CheckWorkLinks(c) ==
  /\ govCall[c].at = "work links"
  /\ GovStep(c, WorkLinksExist(govCall[c]), "write note")
  /\ UNCHANGED <<decision, note, targets>>

WriteNote(c) ==
  LET k == govCall[c] IN
  /\ k.at = "write note"
  /\ note' = IF note[k.on].version = k.expected
               THEN [note EXCEPT ![k.on] = NextRow(k)]
               ELSE note
  /\ govCall' = [govCall EXCEPT ![c] = NoGovCall]
  /\ UNCHANGED <<decision, targets>>

(* The process dies or an await is rejected. *)
DropGovCall(c) ==
  /\ govCall[c] # NoGovCall
  /\ govCall' = [govCall EXCEPT ![c] = NoGovCall]
  /\ UNCHANGED <<decision, note, targets>>

Deciding(c) == BeginDecision(c) \/ FindSuperseded(c) \/ ReadDecision(c) \/ WriteDecision(c)

Noting(c) == \/ BeginNote(c) \/ ReadLesson(c) \/ CheckRelease(c)
             \/ CheckWorkLinks(c) \/ WriteNote(c)

NextGovernance ==
  \/ \E t \in Targets : AddTarget(t)
  \/ \E c \in GovCalls : Deciding(c) \/ Noting(c) \/ DropGovCall(c)

SpecGovernance == InitGovernance /\ [][NextGovernance]_govVars
-----------------------------------------------------------------------------
(* Properties.                                                             *)

IsAccepted(d) == decision[d].version > 0 /\ decision[d].value.status = "accepted"
SameContent(d) == decision'[d].value.content = decision[d].value.content

\* Call c writes d although it names a version d had not reached when c read it.
WritesAhead(c, d) ==
  /\ govCall[c] # NoGovCall /\ govCall[c].at = "write decision" /\ govCall[c].on = d
  /\ govCall[c].read < govCall[c].expected

(* The content of a decision changes while it is accepted only by an update *)
(* that names a version not yet stored when it read the decision.  An       *)
(* update that names the version it read, or an older one, never does it,   *)
(* also when the decision is accepted after that read.                      *)
AcceptedContentKept ==
  [][\A d \in Decisions : IsAccepted(d) =>
       \/ SameContent(d)
       \/ \E c \in GovCalls : WritesAhead(c, d) /\ govCall'[c] = NoGovCall]_govVars

(* What the service says of an accepted decision: its content is immutable, *)
(* another content needs a superseding decision.                            *)
AcceptedContentIsImmutable ==
  [][\A d \in Decisions : IsAccepted(d) => SameContent(d)]_govVars

(* What a risk, a debt or a lesson links to exists, whenever it was looked *)
(* up and however often the record was rewritten.                          *)
GovernanceLinksExist == \A n \in Notes : note[n].value.links \subseteq targets
=============================================================================
