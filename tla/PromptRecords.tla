----------------------------- MODULE PromptRecords -----------------------------
(***************************************************************************)
(* PromptProjectionApplicationService, its history rows and the page that  *)
(* calls the latest prompt fresh or stale.  A prompt is rendered from the  *)
(* profile, the work packages and the gates of its project, read one by    *)
(* one while others write them; the page compares the source of the latest *)
(* prompt with what it reads itself.  A record set is its version, the     *)
(* text of a prompt its source.                                            *)
(***************************************************************************)
EXTENDS Naturals, FiniteSets

CONSTANTS Records,           \* "profile", "work", "gates"
          PromptCalls,       \* concurrent regenerations
          MaxPrompts,        \* bound of rows
          PageSize,
          MaxSourceVersion,  \* bound of writes to each record set
          MaxPromptTime,     \* bound of the clock
          KeyRank            \* how the database sorts the keys of a moment

Revisions == [Records -> 0..MaxSourceVersion]

\* Any order of the keys will do in which no two of them are equal.
ASSUME PromptAssumption ==
  /\ "profile" \in Records
  /\ PageSize \in Nat \ {0} /\ MaxSourceVersion \in Nat \ {0} /\ MaxPromptTime \in Nat \ {0}
  /\ KeyRank \in [Revisions -> Nat]
  /\ \A r, t \in Revisions : KeyRank[r] = KeyRank[t] => r = t

VARIABLES sources,    \* the version of each record set
          promptTime, \* the clock
          prompts,    \* rows of PromptProjectionSnapshot
          promptCall, \* regenerations in progress
          reader      \* a reader walking the pages of the history

promptVars == <<sources, promptTime, prompts, promptCall, reader>>

Unread == 0
NothingRead == [s \in Records |-> Unread]
NoPromptCall == [at |-> "none"]
NoReader == [at |-> "none"]

(* Seeded fault: only the profile counts. *)
SourceRevisionOfProfile(got) ==
  [s \in Records |-> IF s = "profile" THEN got[s] ELSE Unread]
(* promptSourceRevision: a digest of everything that was read. *)
SourceRevision(got) == got

PromptType == [source : [Records -> 1..MaxSourceVersion],
               revision : Revisions, generatedAt : 1..MaxPromptTime]

TypeOKPrompts ==
  /\ sources \in [Records -> 1..MaxSourceVersion]
  /\ promptTime \in 1..MaxPromptTime
  /\ prompts \subseteq PromptType
  /\ \A c \in PromptCalls : promptCall[c].at \in {"none", "collect", "record"}
  /\ reader.at \in {"none", "profile", "load", "shown"}

InitPrompts ==
  /\ sources = [s \in Records |-> 1] /\ promptTime = 1 /\ prompts = {}
  /\ promptCall = [c \in PromptCalls |-> NoPromptCall]
  /\ reader = NoReader

(* updateProfile, or a write of the work and quality services: each counts *)
(* the version of its record on.                                           *)
WriteSource(s) ==
  /\ sources[s] < MaxSourceVersion
  /\ sources' = [sources EXCEPT ![s] = @ + 1]
  /\ UNCHANGED <<promptTime, prompts, promptCall, reader>>

Tick ==
  /\ promptTime < MaxPromptTime /\ promptTime' = promptTime + 1
  /\ UNCHANGED <<sources, prompts, promptCall, reader>>

(* regeneratePromptAction. *)
Regenerate(c) ==
  /\ promptCall[c] = NoPromptCall /\ Cardinality(prompts) < MaxPrompts
  /\ promptCall' = [promptCall EXCEPT ![c] = [at |-> "collect", got |-> NothingRead]]
  /\ UNCHANGED <<sources, promptTime, prompts, reader>>

Projection(got) ==
  [source |-> got, revision |-> SourceRevision(got), generatedAt |-> promptTime]

(* collectSource: the three reads are sent at once and answered in any     *)
(* order; with the last the prompt is rendered and stamped.                *)
Collect(c, s) ==
  LET call == promptCall[c]
      got == [call.got EXCEPT ![s] = sources[s]]
  IN /\ call.at = "collect" /\ call.got[s] = Unread
     /\ promptCall' = [promptCall EXCEPT ![c] =
          IF \E t \in Records : got[t] = Unread THEN [call EXCEPT !.got = got]
          ELSE [at |-> "record", prompt |-> Projection(got)]]
     /\ UNCHANGED <<sources, promptTime, prompts, reader>>

SnapshotKey(prompt) == <<prompt.revision, prompt.generatedAt>>

(* record: the insert, which fails on a key that is taken. *)
Record(c) ==
  LET new == promptCall[c].prompt IN
  /\ promptCall[c].at = "record"
  /\ prompts' = IF \E row \in prompts : SnapshotKey(row) = SnapshotKey(new)
                  THEN prompts ELSE prompts \union {new}
  /\ promptCall' = [promptCall EXCEPT ![c] = NoPromptCall]
  /\ UNCHANGED <<sources, promptTime, reader>>

(* The process dies, or a read or the insert is rejected. *)
DropPromptCall(c) ==
  /\ promptCall[c] # NoPromptCall
  /\ promptCall' = [promptCall EXCEPT ![c] = NoPromptCall]
  /\ UNCHANGED <<sources, promptTime, prompts, reader>>
-----------------------------------------------------------------------------
\* Newest first, then by key.
NewerRow(p, q) ==
  \/ p.generatedAt > q.generatedAt
  \/ p.generatedAt = q.generatedAt /\ KeyRank[p.revision] > KeyRank[q.revision]
Place(p, rows) == Cardinality({q \in rows : NewerRow(q, p)})

(* listByProject with its limit and offset. *)
ListByProject(limit, offset) ==
  {p \in prompts : Place(p, prompts) >= offset /\ Place(p, prompts) < offset + limit}
Latest(rows) == {p \in rows : \A q \in rows : q = p \/ NewerRow(p, q)}

(* The page is opened: the workspace's profile is read first.  "since" is  *)
(* what was current then, "known" the rows at the start of the walk.       *)
OpenPage(number, known, seen) ==
  reader' = [at |-> "profile", page |-> number, known |-> known, seen |-> seen,
             since |-> sources, got |-> NothingRead,
             due |-> {"rows", "latest"}, rows |-> {}, latest |-> {}]

OpenHistory ==
  /\ reader = NoReader /\ OpenPage(1, prompts, {})
  /\ UNCHANGED <<sources, promptTime, prompts, promptCall>>

(* loadProjectWorkspace. *)
LoadProfile ==
  /\ reader.at = "profile"
  /\ reader' = [reader EXCEPT !.at = "load", !.got.profile = sources.profile]
  /\ UNCHANGED <<sources, promptTime, prompts, promptCall>>

(* currentSourceRevisionFromProfile: the profile is the one loaded before. *)
LoadSource(s) ==
  /\ reader.at = "load" /\ reader.got[s] = Unread
  /\ reader' = [reader EXCEPT !.got[s] = sources[s]]
  /\ UNCHANGED <<sources, promptTime, prompts, promptCall>>

(* historyPage asks for one row more than it shows. *)
PageLimit == PageSize + 1

LoadRows ==
  /\ reader.at = "load" /\ "rows" \in reader.due
  /\ reader' = [reader EXCEPT !.due = @ \ {"rows"},
       !.rows = ListByProject(PageLimit, (reader.page - 1) * PageSize)]
  /\ UNCHANGED <<sources, promptTime, prompts, promptCall>>

\* The rows shown: those loaded but the one beyond the page.
Items(rows) == {p \in rows : Place(p, rows) < PageSize}
HasNext(rows) == Cardinality(rows) > PageSize

(* On later pages the latest prompt is a query of its own. *)
LoadLatest ==
  /\ reader.at = "load" /\ "latest" \in reader.due
  /\ reader.page = 1 => "rows" \notin reader.due
  /\ reader' = [reader EXCEPT
       !.due = @ \ {"latest"},
       !.latest = IF reader.page = 1 THEN Latest(reader.rows) ELSE ListByProject(1, 0)]
  /\ UNCHANGED <<sources, promptTime, prompts, promptCall>>

(* The page is rendered. *)
Show ==
  /\ reader.at = "load" /\ reader.due = {}
  /\ \A s \in Records : reader.got[s] # Unread
  /\ reader' = [reader EXCEPT !.at = "shown", !.seen = @ \union Items(reader.rows)]
  /\ UNCHANGED <<sources, promptTime, prompts, promptCall>>

ShownAsFresh(p) == p \in reader.latest /\ p.revision = SourceRevision(reader.got)

(* The reader turns the page while there is a next one, or leaves. *)
TurnPage ==
  /\ reader.at = "shown"
  /\ IF HasNext(reader.rows) THEN OpenPage(reader.page + 1, reader.known, reader.seen)
     ELSE reader' = NoReader
  /\ UNCHANGED <<sources, promptTime, prompts, promptCall>>

NextPrompts ==
  \/ \E s \in Records : WriteSource(s) \/ LoadSource(s)
  \/ Tick
  \/ \E c \in PromptCalls : \/ Regenerate(c) \/ Record(c) \/ DropPromptCall(c)
                            \/ \E s \in Records : Collect(c, s)
  \/ OpenHistory \/ LoadProfile \/ LoadRows \/ LoadLatest \/ Show \/ TurnPage

SpecPrompts == InitPrompts /\ [][NextPrompts]_promptVars
-----------------------------------------------------------------------------
(* Properties.                                                             *)

(* A prompt the page calls fresh names no record older than what was       *)
(* current when the page was asked for, although both the prompt and the   *)
(* page read the records one by one between other people's writes.         *)
FreshPromptIsCurrent ==
  reader.at = "shown" =>
    \A p \in reader.latest : ShownAsFresh(p) =>
      \A s \in Records : p.source[s] >= reader.since[s]

(* A reader who turns the pages to the last one has seen every prompt that *)
(* was there when the walk began, whatever is recorded meanwhile.          *)
WalkShowsEveryPrompt ==
  reader.at = "shown" /\ ~HasNext(reader.rows) => reader.known \subseteq reader.seen

(* What the history says of its prompts, and that it shows all of them. *)
HistoryIsFaithful == FreshPromptIsCurrent /\ WalkShowsEveryPrompt
=============================================================================
