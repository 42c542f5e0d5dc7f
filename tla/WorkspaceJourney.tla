---------------------------- MODULE WorkspaceJourney ----------------------------
(***************************************************************************)
(* BlueprintWorkspace, the guided page from a profile to a prompt, with    *)
(* the server actions it calls.  Buttons are disabled while a call is      *)
(* pending; the inputs and the list of stages are not, so answers come to  *)
(* a page that has moved on.  A canonical project is known by the token of *)
(* its ids, a text by its value.                                           *)
(***************************************************************************)
EXTENDS Naturals, Sequences, FiniteSets

CONSTANTS Texts,       \* project names, types and levels; work titles
          MaxProjects,  \* bound of canonical projects
          MaxInputs    \* bound of edits

ASSUME JourneyAssumption == MaxProjects \in Nat /\ MaxInputs \in Nat

VARIABLES shown,   \* the state of the page
          asked,   \* calls in progress
          stored,  \* rows: projects by token, gates and work packages
          inputs,  \* edits done
          late     \* history: the fields last edited while a call was pending
                   \* that stores them

journeyVars == <<shown, asked, stored, inputs, late>>

Stages == <<"project", "blueprint", "work", "gate", "prompt">>
NoText == "none"
StageIndex(s) == CHOOSE i \in DOMAIN Stages : Stages[i] = s
NextStage(s) == Stages[IF s = "prompt" THEN 5 ELSE StageIndex(s) + 1]
PreviousStage(s) == Stages[IF s = "project" THEN 1 ELSE StageIndex(s) - 1]

\* Token 0 is the preview's "project:preview".
PreviewToken == 0
Tokens == 1..MaxProjects
NoWork == [project |-> PreviewToken, title |-> NoText]
NoResolution == [project |-> PreviewToken, form |-> NoText]

ShownType ==
  [stage : {Stages[i] : i \in DOMAIN Stages}, form : Texts, title : Texts,
   resolution : [project : PreviewToken..MaxProjects, form : Texts \union {NoText}],
   ids : PreviewToken..MaxProjects,
   work : [project : PreviewToken..MaxProjects, title : Texts \union {NoText}],
   projection : {NoText, "preview", "canonical"}]

TypeOKJourney ==
  /\ shown \in ShownType
  /\ \A c \in asked : c.kind \in {"resolve", "create", "persist", "prompt"}
  /\ stored \in [projects : Seq(Texts), gates : SUBSET Tokens,
                 work : SUBSET [project : Tokens, title : Texts]]
  /\ Len(stored.projects) <= MaxProjects
  /\ inputs \in 0..MaxInputs
  /\ late \subseteq {"form", "title"}

NotPending == asked = {}  \* isPending is false

InitJourney ==
  /\ \E t \in Texts :
       shown = [stage |-> "project", form |-> t, title |-> t, resolution |-> NoResolution,
                ids |-> PreviewToken, work |-> NoWork, projection |-> NoText]
  /\ asked = {} /\ inputs = 0 /\ late = {}
  /\ stored = [projects |-> << >>, gates |-> {}, work |-> {}]

Edited(field, storing) ==
  /\ inputs' = inputs + 1
  /\ late' = IF \E c \in asked : c.kind = storing THEN late \union {field}
                                                  ELSE late \ {field}
  /\ UNCHANGED <<asked, stored>>

(* invalidatePreview, on every edit of the profile's fields. *)
EditForm(t) ==
  /\ shown.stage = "project" /\ inputs < MaxInputs /\ t # shown.form
  /\ shown' = [shown EXCEPT !.form = t, !.resolution = NoResolution, !.ids = PreviewToken,
                            !.work = NoWork, !.projection = NoText]
  /\ Edited("form", "create")

EditTitle(t) ==
  /\ shown.stage = "work" /\ inputs < MaxInputs /\ t # shown.title
  /\ shown' = [shown EXCEPT !.title = t, !.work = NoWork, !.projection = NoText]
  /\ Edited("title", "persist")

Ask(call) == asked' = asked \union {call} /\ UNCHANGED <<stored, inputs, late>>
GoTo(stage) ==
  shown' = [shown EXCEPT !.stage = stage] /\ UNCHANGED <<asked, stored, inputs, late>>

(* resolvePreview and createCanonicalProject. *)
ResolvePreview ==
  /\ shown.stage = "project" /\ NotPending
  /\ Ask([kind |-> "resolve", form |-> shown.form]) /\ UNCHANGED shown
CreateCanonicalProject ==
  /\ shown.stage = "project" /\ NotPending /\ Len(stored.projects) < MaxProjects
  /\ Ask([kind |-> "create", form |-> shown.form, project |-> PreviewToken])
  /\ UNCHANGED shown

(* persistCanonicalWork, the Continue of the work stage. *)
PersistCanonicalWork ==
  /\ shown.stage = "work" /\ NotPending
  /\ IF shown.resolution = NoResolution \/ shown.ids = PreviewToken THEN GoTo("gate")
     ELSE /\ Ask([kind |-> "persist", at |-> "gate", ids |-> shown.ids,
                   project |-> shown.resolution.project, title |-> shown.title])
          /\ UNCHANGED shown

(* generatePrompt: from canonical state only with persisted work. *)
GeneratePrompt ==
  IF shown.resolution = NoResolution THEN GoTo("project")
  ELSE IF shown.ids # PreviewToken /\ shown.work = NoWork THEN GoTo("work")
  ELSE /\ Ask([kind |-> "prompt", project |-> shown.resolution.project,
                of |-> IF shown.ids = PreviewToken THEN "preview" ELSE "canonical"])
       /\ UNCHANGED shown

(* The Back and Continue buttons of the other stages. *)
GoBack == shown.stage # "project" /\ NotPending /\ GoTo(PreviousStage(shown.stage))
GoOn ==
  /\ NotPending
  /\ \/ shown.stage = "blueprint" /\ GoTo(NextStage(shown.stage))
     \/ shown.stage = "gate" /\ GeneratePrompt

(* openStage: the list of stages stays live while a call is pending. *)
OpenStage(target) ==
  IF target # "project" /\ shown.resolution = NoResolution THEN GoTo("project")
  ELSE IF /\ shown.ids # PreviewToken /\ shown.work = NoWork
          /\ target \in {"gate", "prompt"} THEN GoTo("work")
  ELSE IF target = "prompt" /\ shown.projection = NoText THEN GeneratePrompt
  ELSE GoTo(target)
-----------------------------------------------------------------------------
Answered(call) == asked' = asked \ {call} /\ UNCHANGED <<inputs, late>>

ResolveAnswer(call) ==
  /\ call.kind = "resolve"
  /\ shown' = [shown EXCEPT !.stage = "blueprint", !.projection = NoText,
                 !.resolution = [project |-> PreviewToken, form |-> call.form]]
  /\ Answered(call) /\ UNCHANGED stored

(* createCanonicalProjectAction inserts a project with fresh ids. *)
InsertProject(call) ==
  /\ call.kind = "create" /\ call.project = PreviewToken
  /\ stored' = [stored EXCEPT !.projects = Append(@, call.form)]
  /\ asked' = (asked \ {call})
                \union {[call EXCEPT !.project = Len(stored.projects) + 1]}
  /\ UNCHANGED <<shown, inputs, late>>

(* Seeded fault: the work of the project before is kept. *)
WorkAfterCreateKept == shown.work
WorkAfterCreate == NoWork

ProjectAnswer(call) ==
  /\ call.kind = "create" /\ call.project # PreviewToken
  /\ shown' = [shown EXCEPT !.stage = "blueprint", !.projection = NoText,
                 !.resolution = [project |-> call.project, form |-> call.form],
                 !.ids = call.project, !.work = WorkAfterCreate]
  /\ Answered(call) /\ UNCHANGED stored

(* createCanonicalWorkAndGate: two inserts, one after the other, of rows    *)
(* with the page's keys and the resolved profile's project.  A key that is *)
(* there already is refused, and so is a project that is not.              *)
InsertGate(call) ==
  /\ call.kind = "persist" /\ call.at = "gate"
  /\ call.ids \notin stored.gates /\ call.project # PreviewToken
  /\ stored' = [stored EXCEPT !.gates = @ \union {call.ids}]
  /\ asked' = (asked \ {call}) \union {[call EXCEPT !.at = "work"]}
  /\ UNCHANGED <<shown, inputs, late>>
InsertWork(call) ==
  /\ call.kind = "persist" /\ call.at = "work"
  /\ \A w \in stored.work : w.project # call.ids
  /\ stored' = [stored EXCEPT !.work =
                  @ \union {[project |-> call.ids, title |-> call.title]}]
  /\ asked' = (asked \ {call}) \union {[call EXCEPT !.at = "done"]}
  /\ UNCHANGED <<shown, inputs, late>>

PersistAnswer(call) ==
  /\ call.kind = "persist" /\ call.at = "done"
  /\ shown' = [shown EXCEPT !.stage = "gate", !.projection = NoText,
                 !.work = [project |-> call.ids, title |-> call.title]]
  /\ Answered(call) /\ UNCHANGED stored

(* generatePromptPreviewAction makes the prompt of a preview on the spot;  *)
(* generateCanonicalPromptAction needs the project to exist.               *)
PreviewPrompt(call) == call.of = "preview"
CanonicalPrompt(call) == call.of = "canonical" /\ call.project # PreviewToken

PromptAnswer(call) ==
  /\ call.kind = "prompt" /\ (PreviewPrompt(call) \/ CanonicalPrompt(call))
  /\ shown' = [shown EXCEPT !.stage = "prompt", !.projection = call.of]
  /\ Answered(call) /\ UNCHANGED stored

(* canonicalFailure: refused, in conflict or lost, before or after an      *)
(* insert; the page only says so, but a failed preview drops what it had.  *)
FailedAnswer(call) ==
  /\ shown' = [shown EXCEPT
       !.resolution = IF call.kind = "resolve" THEN NoResolution ELSE @,
       !.projection = IF call.kind \in {"resolve", "prompt"} THEN NoText ELSE @]
  /\ Answered(call) /\ UNCHANGED stored

NextJourney ==
  \/ \E t \in Texts : EditForm(t) \/ EditTitle(t)
  \/ ResolvePreview \/ CreateCanonicalProject \/ PersistCanonicalWork
  \/ GoBack \/ GoOn
  \/ \E i \in DOMAIN Stages : OpenStage(Stages[i])
  \/ \E call \in asked :
       \/ ResolveAnswer(call) \/ InsertProject(call) \/ ProjectAnswer(call)
       \/ InsertGate(call) \/ InsertWork(call) \/ PersistAnswer(call)
       \/ PromptAnswer(call) \/ FailedAnswer(call)

SpecJourney == InitJourney /\ [][NextJourney]_journeyVars
-----------------------------------------------------------------------------
(* Properties.                                                             *)

\* Where the page says "Persisted": of the project, of the work and its gate.
ProjectChip == shown.ids # PreviewToken
WorkChip == shown.work # NoWork
GateChip == WorkChip

(* Whatever is clicked and edited while calls are pending, and whichever   *)
(* of the inserts fails: the project and the work the page calls persisted *)
(* are stored, the work under the page's own project and never without the *)
(* gate it names; and the profile and the title beside those words are the *)
(* stored ones, unless they were last edited under the call that stored    *)
(* them.                                                                   *)
CanonicalWorkIsStored ==
  /\ \A w \in stored.work : w.project \in stored.gates
  /\ ProjectChip =>
       /\ shown.ids \in DOMAIN stored.projects
       /\ LET form == stored.projects[shown.ids] IN
            \/ shown.form = form /\ shown.resolution.form \in {form, NoText}
            \/ "form" \in late
  /\ WorkChip \/ GateChip =>
       /\ shown.work \in stored.work
       /\ shown.title = shown.work.title \/ "title" \in late
       /\ ProjectChip => shown.work.project = shown.ids
=============================================================================
