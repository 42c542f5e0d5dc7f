---------------------------- MODULE AmendmentConsole ----------------------------
(***************************************************************************)
(* The amendment workspace of the Constitution Center, open in several     *)
(* windows, and its server actions.  A page shows amendments and evidence  *)
(* read one after the other, offers the forms of the states it shows, and  *)
(* sends the record version it shows with every command; the service       *)
(* applies a command to exactly that version or refuses it (its awaits are *)
(* in ConstitutionAuthority).  Evidence is its Git revision and its        *)
(* digest; the text of a draft and of notes is not kept.                   *)
(***************************************************************************)
EXTENDS Naturals, Sequences

CONSTANTS ConsoleAmendments,  \* bound of the drafts
          Windows,
          EvidenceTexts       \* records of a revision and a digest

VARIABLES amendment,  \* ConstitutionAmendment rows
          filed,      \* the evidence rows of each amendment
          window,     \* what each window shows
          command,    \* the call a window waits for
          executed    \* history: the commands that changed a row

consoleVars == <<amendment, filed, window, command, executed>>

NoEvidenceText == [revision |-> 0, digest |-> 0]
Absent == [state |-> "absent", version |-> 0]
Blank == [at |-> "blank"]
NoCommand == [at |-> "none"]

(* The form of each command, the state whose card shows it and the state   *)
(* its transition leads to.                                                *)
FormIn == [impact |-> "draft", migration |-> "impact-reviewed", open |-> "migration-ready",
           approve |-> "ratification-ready", reject |-> "ratification-ready",
           prepare |-> "ratified", publish |-> "ratified"]
Commands == DOMAIN FormIn
LeadsTo == [impact |-> "impact-reviewed", migration |-> "migration-ready",
            open |-> "ratification-ready", approve |-> "ratified",
            reject |-> "rejected", prepare |-> "ratified", publish |-> "published"]

AmendmentRows == [state : {"absent", "draft"} \union {LeadsTo[k] : k \in Commands},
                  version : 0..6]
EvidenceRows == [impact : EvidenceTexts \union {NoEvidenceText},
                 migration : EvidenceTexts \union {NoEvidenceText}]

TypeOKConsole ==
  /\ amendment \in [ConsoleAmendments -> AmendmentRows]
  /\ filed \in [ConsoleAmendments -> EvidenceRows]
  /\ \A w \in Windows :
       /\ window[w].at \in {"blank", "rows", "shown"}
       /\ command[w].at \in {"none", "sent", "prepared"}
       /\ command[w].at # "none" => command[w].kind \in Commands \union {"create"}
  /\ \A i \in DOMAIN executed : executed[i].before \in AmendmentRows

InitConsole ==
  /\ amendment = [a \in ConsoleAmendments |-> Absent]
  /\ filed = [a \in ConsoleAmendments |->
                [impact |-> NoEvidenceText, migration |-> NoEvidenceText]]
  /\ window = [w \in Windows |-> Blank]
  /\ command = [w \in Windows |-> NoCommand]
  /\ executed = <<>>

(* ConstitutionCenterPage: list, then the evidence of each amendment; also *)
(* what router.refresh asks for.  A window that waits is not reloaded.     *)
LoadAmendments(w) ==
  /\ command[w] = NoCommand
  /\ window' = [window EXCEPT ![w] = [at |-> "rows", rows |-> amendment]]
  /\ UNCHANGED <<amendment, filed, command, executed>>

LoadEvidence(w) ==
  /\ window[w].at = "rows"
  /\ window' = [window EXCEPT ![w] = [at |-> "shown", rows |-> @.rows, evidence |-> filed]]
  /\ UNCHANGED <<amendment, filed, command, executed>>

(* Seeded fault: any evidence of the amendment, which is its first. *)
FirstEvidence(page, a) == page.evidence[a].impact
(* The migration evidence the amendment names; UNVERIFIED when there is    *)
(* none.                                                                   *)
ShownCandidate(page, a) ==
  IF page.rows[a].state \notin {"absent", "draft", "impact-reviewed"}
    THEN page.evidence[a].migration ELSE NoEvidenceText

Offered(page, a) == {k \in Commands : FormIn[k] = page.rows[a].state}

(* A button, disabled while a command of this window is pending.  `card`   *)
(* and `candidate` are the card it was pressed on.                         *)
Press(w, a, k, text) ==
  /\ window[w].at = "shown" /\ command[w] = NoCommand
  /\ k \in Offered(window[w], a)
  /\ (text # NoEvidenceText) <=> k \in {"impact", "migration"}
  /\ command' = [command EXCEPT ![w] =
       [at |-> "sent", kind |-> k, on |-> a, text |-> text,
        card |-> window[w].rows[a], candidate |-> ShownCandidate(window[w], a)]]
  /\ UNCHANGED <<amendment, filed, window, executed>>

PressCreate(w) ==
  /\ window[w].at = "shown" /\ command[w] = NoCommand
  /\ command' = [command EXCEPT ![w] = [at |-> "sent", kind |-> "create"]]
  /\ UNCHANGED <<amendment, filed, window, executed>>

(* createConstitutionAmendmentAction. *)
CreateDraft(w) ==
  /\ command[w].at = "sent" /\ command[w].kind = "create"
  /\ \E a \in ConsoleAmendments :
       /\ amendment[a] = Absent
       /\ amendment' = [amendment EXCEPT ![a] = [state |-> "draft", version |-> 1]]
  /\ command' = [command EXCEPT ![w] = NoCommand]
  /\ UNCHANGED <<filed, window, executed>>

(* expectedRecordVersion, as the card showed it. *)
ExpectedVersion(c) == c.card.version

(* requireReviewedCandidate, on opening, approval and publication. *)
Reviewed(a) ==
  /\ filed[a].impact # NoEvidenceText /\ filed[a].migration # NoEvidenceText
  /\ filed[a].impact.revision = filed[a].migration.revision

(* requireExactAmendment and the check of the state. *)
Executable(c) ==
  /\ amendment[c.on].version = ExpectedVersion(c)
  /\ amendment[c.on].state = FormIn[c.kind]
  /\ c.kind \in {"open", "approve", "prepare", "publish"} => Reviewed(c.on)

(* The server actions, by the service call each makes. *)
Execute(w) ==
  LET c == command[w] IN
  /\ c # NoCommand /\ c.kind \in Commands \ {"prepare"}
  /\ c.kind = "publish" => c.at = "prepared"
  /\ Executable(c)
  /\ amendment' = [amendment EXCEPT ![c.on] = [state |-> LeadsTo[c.kind],
                                                version |-> @.version + 1]]
  /\ filed' = IF c.kind \in {"impact", "migration"}
                THEN [filed EXCEPT ![c.on][c.kind] = c.text] ELSE filed
  /\ executed' = Append(executed, [kind |-> c.kind, on |-> c.on, card |-> c.card,
                                   candidate |-> c.candidate, before |-> amendment[c.on]])
  /\ command' = [command EXCEPT ![w] = NoCommand]
  /\ UNCHANGED window

(* preparePublication writes nothing; publishing repeats it first.  The    *)
(* gate and its readback are in ConstitutionPublication.                   *)
Prepare(w) ==
  LET c == command[w] IN
  /\ c.at = "sent" /\ c.kind \in {"prepare", "publish"} /\ Executable(c)
  /\ command' = [command EXCEPT ![w] =
       IF c.kind = "publish" THEN [c EXCEPT !.at = "prepared"] ELSE NoCommand]
  /\ UNCHANGED <<amendment, filed, window, executed>>

(* failure: no actor, no authority, a malformed field, a gate that does    *)
(* not hold, or a stale version; the page is not refreshed.                *)
FailCommand(w) ==
  /\ command[w] # NoCommand
  /\ command' = [command EXCEPT ![w] = NoCommand]
  /\ UNCHANGED <<amendment, filed, window, executed>>

NextConsole ==
  \E w \in Windows :
    \/ LoadAmendments(w) \/ LoadEvidence(w)
    \/ PressCreate(w) \/ CreateDraft(w) \/ Prepare(w) \/ Execute(w) \/ FailCommand(w)
    \/ \E a \in ConsoleAmendments, k \in Commands,
          text \in EvidenceTexts \union {NoEvidenceText} : Press(w, a, k, text)

SpecConsole == InitConsole /\ [][NextConsole]_consoleVars
-----------------------------------------------------------------------------
(* Properties.                                                             *)

(* However many windows the owner has open, a command changes only the     *)
(* record its card showed; an approval is of the candidate the card        *)
(* showed, and that candidate is the one that is published.                *)
DecidedAsShown ==
  /\ \A i \in DOMAIN executed :
       LET c == executed[i] IN
       /\ c.card = c.before
       /\ c.kind = "approve" => c.candidate = filed[c.on].migration
  /\ \A a \in ConsoleAmendments : amendment[a].state = "published" =>
       \E i \in DOMAIN executed : /\ executed[i].on = a /\ executed[i].kind = "approve"
                                  /\ executed[i].candidate.revision = filed[a].impact.revision

(* A row's state is its stage; every amendment has a version of the policy *)
(* of its own: that no version is reused is ConstitutionAuthority's.       *)
StageShown == [a \in ConsoleAmendments |->
  IF amendment[a].state = "absent" THEN "none" ELSE amendment[a].state]
LawsShown == {a \in ConsoleAmendments : amendment[a].state = "published"}

Lifecycle == INSTANCE AmendmentLifecycle WITH
  Amendments <- ConsoleAmendments, Policies <- ConsoleAmendments,
  TargetOf <- [a \in ConsoleAmendments |-> a],
  stage <- StageShown, laws <- LawsShown

(* However old the cards that commands are given on, an amendment is       *)
(* drafted once, moves one transition at a time and is published once.     *)
ConsoleContract == Lifecycle!LifecycleSpec
=============================================================================
