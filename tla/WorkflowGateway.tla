--------------------------- MODULE WorkflowGateway ---------------------------
(***************************************************************************)
(* The bounded execution gateway: concurrent invocations of                *)
(* executeEvidenceBoundWorkflowNode, one step per await.  An invocation    *)
(* presents a signed grant, checks it against the authority, the sources   *)
(* and the dependency readiness, claims it in the durable journal and then *)
(* runs at most its authorized number of attempts, each recorded before    *)
(* the next.  Several invocations may present the same grant, any of them  *)
(* may die at any await, and the owner, the repository HEAD, the receipts  *)
(* and the clock move between any two steps.                               *)
(*                                                                         *)
(* A grant is a payload with the text of a signature.  Its requestId is    *)
(* the digest of both, so a grant is its requestId.  The check decodes the *)
(* text, and several texts decode to one signature: a payload signed once  *)
(* can be presented as several grants, each of which passes every check.   *)
(* The static checks on the manifest, the node, the mode and the signed    *)
(* budgets are met by every grant of Grants (a grant that fails them is    *)
(* refused with no effect).                                                *)
(***************************************************************************)
EXTENDS WorkflowAuthority, WorkflowJournal, FiniteSetsExt

CONSTANTS Invocations,  \* calls of the gateway, in any process
          Sources,      \* pairs of application HEAD and canonical revision
          Payloads, PayloadOf,  \* what is signed, with its nonce and scope
          KeyOf,                \* the key that signed each grant
          IssuerOf, PolicyOf, SourceOf,  \* what its payload binds it to
          IssuedAt, ExpiresAt,           \* its validity
          MaxTokens,                     \* its token budget
          ClockSkew, MaxValidity                \* 60 s and one hour, in ticks

GrantsOf(p) == {g \in Grants : PayloadOf[g] = p}
Terms(g) == <<IssuerOf[g], PolicyOf[g], SourceOf[g], IssuedAt[g], ExpiresAt[g],
              MaxAttempts[g], MaxTokens[g]>>

\* A signature of 64 bytes has 16 texts of 88 characters.
ASSUME GatewayAssumption ==
  /\ PayloadOf \in [Grants -> Payloads]
  /\ \A p \in Payloads : IsFiniteSet(GrantsOf(p))
  /\ \A g, h \in Grants : PayloadOf[g] = PayloadOf[h] => Terms(g) = Terms(h)
  /\ IssuerOf \in [Grants -> Issuers]
  /\ KeyOf \in [Grants -> Keys]
  /\ PolicyOf \in [Grants -> Policies]
  /\ SourceOf \in [Grants -> Sources]
  /\ IssuedAt \in [Grants -> Nat] /\ ExpiresAt \in [Grants -> Nat]
  /\ MaxTokens \in [Grants -> 1..TokenBound]
  /\ ClockSkew \in Nat /\ MaxValidity \in Nat

VARIABLES source,        \* the live HEAD and canonical revision
          ready,         \* payloads whose node the receipts make available
          pc, grantOf,   \* each invocation: where it is, what it was given
          pinned,        \* its snapshot of the issuer's key
          planned,       \* the readiness it read
          attempt, spent, fingerprints,  \* its loop
          held,          \* the observation it is about to append
          reported,      \* the observations it has appended
          status,        \* how it ended
          seen,          \* history: conditions true at some instant since
                         \* it began or last appended
          runs           \* history: runner actions started, by grant

localVars == <<pinned, planned, attempt, spent, fingerprints, held, reported>>
worldVars == <<now, authorityVars, source, ready>>
vars == <<worldVars, journalVars, pc, grantOf, localVars, status, seen, runs>>

Journal == INSTANCE WorkflowJournal

Places == {"idle", "entry", "readiness", "verify", "assertAdopted",
           "assertMayExecute", "assertCurrent", "claim", "loop", "recheck",
           "execute", "running", "append", "settle", "done"}
Endings == {"submitted-for-verification", "stopped", "needs-new-evidence"}
Conditions == {"source", "unexpired", "ready", "adopted", "allowed"}

NoObservation == [attempt |-> 1, outcome |-> "runner-error",
                  digest |-> NoDigest, tokens |-> 0]

TypeOK ==
  /\ AuthorityTypeOK
  /\ JournalTypeOK
  /\ source \in Sources
  /\ ready \subseteq Payloads
  /\ pc \in [Invocations -> Places]
  /\ grantOf \in [Invocations -> Grants]
  /\ pinned \in [Invocations -> Keys \union {NoKey}]
  /\ planned \in [Invocations -> BOOLEAN]
  /\ attempt \in [Invocations -> 1..6]
  /\ spent \in [Invocations -> 0..TokenBound]
  /\ fingerprints \in [Invocations -> SUBSET Fingerprints]
  /\ held \in [Invocations -> Observation]
  /\ reported \in [Invocations -> SUBSET Observation]
  /\ status \in [Invocations -> Endings \union {"none", "threw"}]
  /\ seen \in [Invocations -> SUBSET Conditions]
  /\ runs \in [Grants -> Nat]

Init ==
  /\ AuthorityInit
  /\ JournalInit
  /\ source \in Sources
  /\ ready = {}
  /\ pc = [i \in Invocations |-> "idle"]
  /\ grantOf \in [Invocations -> Grants]
  /\ pinned = [i \in Invocations |-> NoKey]
  /\ planned = [i \in Invocations |-> FALSE]
  /\ attempt = [i \in Invocations |-> 1]
  /\ spent = [i \in Invocations |-> 0]
  /\ fingerprints = [i \in Invocations |-> {}]
  /\ held = [i \in Invocations |-> NoObservation]
  /\ reported = [i \in Invocations |-> {}]
  /\ status = [i \in Invocations |-> "none"]
  /\ seen = [i \in Invocations |-> {}]
  /\ runs = [g \in Grants |-> 0]

-----------------------------------------------------------------------------
(* What the gateway's checks ask of the world.                             *)

Current(g) == source = SourceOf[g]
Unexpired(g) == now < ExpiresAt[g]
AdoptedFor(g) == Adopted(PolicyOf[g])
AllowedFor(g) == MayExecute(IssuerOf[g], PolicyOf[g], KeyOf[g])

Holds(g) == {c \in Conditions :
               \/ c = "source" /\ Current(g)
               \/ c = "unexpired" /\ Unexpired(g)
               \/ c = "ready" /\ PayloadOf[g] \in ready
               \/ c = "adopted" /\ AdoptedFor(g)
               \/ c = "allowed" /\ AllowedFor(g)}

(* The validity window of verifyWorkflowExecutionGrant. *)
WithinValidity(g) ==
  /\ IssuedAt[g] <= now + ClockSkew
  /\ Unexpired(g)
  /\ IssuedAt[g] < ExpiresAt[g]
  /\ ExpiresAt[g] - IssuedAt[g] <= MaxValidity

-----------------------------------------------------------------------------
(* The world moves: the owner decides, HEAD or the canonical revision      *)
(* changes (and may come back), receipts arrive or are compromised, time   *)
(* passes.                                                                 *)

Witnessed == seen' = [i \in Invocations |-> seen[i] \union Holds(grantOf[i])']

RestOfWorld(moved) ==
  /\ moved # "authority" => UNCHANGED authorityVars
  /\ moved # "source" => UNCHANGED source
  /\ moved # "ready" => UNCHANGED ready
  /\ moved # "clock" => UNCHANGED now

World(moved) ==
  /\ RestOfWorld(moved)
  /\ UNCHANGED <<journalVars, pc, grantOf, localVars, status, runs>>
  /\ Witnessed

Decide == (RecordAdoption \/ RecordIssuer) /\ World("authority")

MoveSource == /\ \E s \in Sources \ {source} : source' = s
              /\ World("source")

ChangeReadiness == /\ \E p \in Payloads : ready' = IF p \in ready THEN ready \ {p}
                                                                  ELSE ready \union {p}
                   /\ World("ready")

PassTime == Tick /\ World("clock")

WorldNext == Decide \/ MoveSource \/ ChangeReadiness \/ PassTime

-----------------------------------------------------------------------------
(* Steps of invocation i.                                                  *)

Goto(i, from, to) ==
  /\ pc[i] = from
  /\ pc' = [pc EXCEPT ![i] = to]
  /\ UNCHANGED <<worldVars, grantOf>>

(* Leave with a report, or with an exception. *)
Finish(i, from, how) ==
  /\ Goto(i, from, "done")
  /\ status' = [status EXCEPT ![i] = how]
  /\ UNCHANGED <<localVars, seen, runs>>

Throw(i, from) == Finish(i, from, "threw") /\ UNCHANGED journalVars

(* A check that lets the call pass from one await to the next. *)
Check(i, from, ok, to) ==
  \/ /\ Goto(i, from, to)
     /\ ok
     /\ UNCHANGED <<journalVars, localVars, status, seen, runs>>
  \/ /\ Throw(i, from)
     /\ ~ok

(* The host loads the request-scoped authority snapshot and calls the      *)
(* evidence-bound entry point.                                             *)
Begin(i) ==
  LET g == grantOf[i] IN
  /\ Goto(i, "idle", "entry")
  /\ pinned' = [pinned EXCEPT ![i] = PinnedKey(IssuerOf[g], PolicyOf[g])]
  /\ seen' = [seen EXCEPT ![i] = Holds(g)]
  /\ UNCHANGED <<journalVars, planned, attempt, spent, fingerprints, held,
                 reported, status, runs>>

AssertCurrentAtEntry(i) == Check(i, "entry", Current(grantOf[i]), "readiness")

ReadReadiness(i) ==
  /\ Goto(i, "readiness", "verify")
  /\ planned' = [planned EXCEPT ![i] = PayloadOf[grantOf[i]] \in ready]
  /\ UNCHANGED <<journalVars, pinned, attempt, spent, fingerprints, held,
                 reported, status, seen, runs>>

(* The synchronous checks: validity, and the signature under the pinned    *)
(* key (only the key that signed the grant verifies it).                   *)
VerifyGrant(i) ==
  Check(i, "verify",
        WithinValidity(grantOf[i]) /\ pinned[i] = KeyOf[grantOf[i]],
        "assertAdopted")

AssertAdopted(i) ==
  Check(i, "assertAdopted", AdoptedFor(grantOf[i]), "assertMayExecute")

(* Seeded fault: the plan's row is not consulted. *)
AssertMayExecuteUnplanned(i) ==
  Check(i, "assertMayExecute",
        MayExecute(IssuerOf[grantOf[i]], PolicyOf[grantOf[i]], pinned[i]),
        "assertCurrent")

(* The latest decision allows the issuer with the pinned key; the node     *)
(* must be available in the plan read earlier.                             *)
AssertMayExecute(i) ==
  LET g == grantOf[i] IN
  Check(i, "assertMayExecute",
        MayExecute(IssuerOf[g], PolicyOf[g], pinned[i]) /\ planned[i],
        "assertCurrent")

AssertCurrent(i) == Check(i, "assertCurrent", Current(grantOf[i]), "claim")

(* Seeded faults: a claim that overwrites, one that lets a claim without   *)
(* an observation be taken over, one that waits for the holder.            *)
ClaimGrantIf(i, free) ==
  LET g == grantOf[i] IN
  \/ /\ Goto(i, "claim", "loop")
     /\ Unexpired(g) /\ free
     /\ claims' = claims \union {g}
     /\ UNCHANGED <<observations, localVars, status, seen, runs>>
  \/ /\ Throw(i, "claim")
     /\ ~Unexpired(g) \/ ~free

ClaimGrantUpsert(i) == ClaimGrantIf(i, TRUE)

ClaimGrantTakeover(i) ==
  ClaimGrantIf(i, grantOf[i] \notin claims \/ observations[grantOf[i]] = {})

ClaimGrantWaits(i) ==
  grantOf[i] \notin claims /\ ClaimGrantIf(i, TRUE)

(* One insert under the requestId: refused if there is one, whatever became *)
(* of it.                                                                  *)
ClaimGrant(i) ==
  LET g == grantOf[i] IN
  \/ /\ Goto(i, "claim", "loop")
     /\ Unexpired(g)
     /\ g \notin claims
     /\ claims' = claims \union {g}
     /\ UNCHANGED <<observations, localVars, status, seen, runs>>
  \/ /\ Throw(i, "claim")
     /\ ~Unexpired(g) \/ g \in claims

(* Seeded fault: one attempt too many. *)
NextAttemptOffByOne(i) ==
  LET g == grantOf[i] IN
  \/ /\ Goto(i, "loop", "recheck")
     /\ attempt[i] <= MaxAttempts[g] + 1 /\ Unexpired(g)
     /\ UNCHANGED <<journalVars, localVars, status, seen, runs>>
  \/ /\ Finish(i, "loop", "stopped")
     /\ attempt[i] > MaxAttempts[g] + 1 \/ ~Unexpired(g)
     /\ UNCHANGED journalVars

(* Head of the loop: attempts left, grant still valid. *)
NextAttempt(i) ==
  LET g == grantOf[i] IN
  \/ /\ Goto(i, "loop", "recheck")
     /\ attempt[i] <= MaxAttempts[g] /\ Unexpired(g)
     /\ UNCHANGED <<journalVars, localVars, status, seen, runs>>
  \/ /\ Finish(i, "loop", "stopped")
     /\ attempt[i] > MaxAttempts[g] \/ ~Unexpired(g)
     /\ UNCHANGED journalVars

(* Seeded fault: the sources are checked once, before the loop. *)
RecheckNever(i) ==
  /\ Goto(i, "recheck", "execute")
  /\ UNCHANGED <<journalVars, localVars, status, seen, runs>>

(* The freshness check before each action; a check that cannot be answered *)
(* stops the loop as a changed source does.                                *)
Recheck(i) ==
  \/ /\ Goto(i, "recheck", "execute")
     /\ Current(grantOf[i])
     /\ UNCHANGED <<journalVars, localVars, status, seen, runs>>
  \/ /\ Finish(i, "recheck", "stopped")
     /\ UNCHANGED journalVars

StartRunner(i) ==
  /\ Goto(i, "execute", "running")
  /\ runs' = [runs EXCEPT ![grantOf[i]] = @ + 1]
  /\ UNCHANGED <<journalVars, localVars, status, seen>>

Hold(i, r) ==
  /\ Goto(i, "running", "append")
  /\ held' = [held EXCEPT ![i] = r]
  /\ UNCHANGED <<journalVars, pinned, planned, attempt, fingerprints, reported,
                 status, seen, runs>>

RunnerThrows(i) ==
  /\ Hold(i, [attempt |-> attempt[i], outcome |-> "runner-error",
              digest |-> NoDigest, tokens |-> 0])
  /\ UNCHANGED spent

(* Seeded fault: the budget is compared with each result, not with the sum. *)
RunnerReturnsEach(i, outcome, digest, tokens, wellFormed) ==
  \/ /\ wellFormed /\ tokens <= MaxTokens[grantOf[i]]
     /\ Hold(i, [attempt |-> attempt[i], outcome |-> outcome,
                 digest |-> digest, tokens |-> tokens])
     /\ spent' = [spent EXCEPT ![i] = @ + tokens]
  \/ /\ ~wellFormed \/ tokens > MaxTokens[grantOf[i]]
     /\ Hold(i, [attempt |-> attempt[i], outcome |-> "invalid-result",
                 digest |-> NoDigest, tokens |-> 0])
     /\ UNCHANGED spent

(* The runner's report is refused whole when it breaks the path or         *)
(* evidence contract or exceeds what is left of the token budget.          *)
RunnerReturns(i, outcome, digest, tokens, wellFormed) ==
  \/ /\ wellFormed /\ spent[i] + tokens <= MaxTokens[grantOf[i]]
     /\ Hold(i, [attempt |-> attempt[i], outcome |-> outcome,
                 digest |-> digest, tokens |-> tokens])
     /\ spent' = [spent EXCEPT ![i] = @ + tokens]
  \/ /\ ~wellFormed \/ spent[i] + tokens > MaxTokens[grantOf[i]]
     /\ Hold(i, [attempt |-> attempt[i], outcome |-> "invalid-result",
                 digest |-> NoDigest, tokens |-> 0])
     /\ UNCHANGED spent

(* Seeded fault: the report grows although the write failed. *)
AppendObservationLossy(i) ==
  /\ Goto(i, "append", "settle")
  /\ reported' = [reported EXCEPT ![i] = @ \union {held[i]}]
  /\ seen' = [seen EXCEPT ![i] = Holds(grantOf[i])]
  /\ UNCHANGED <<journalVars, pinned, planned, attempt, spent, fingerprints, held,
                 status, runs>>

(* The primary key would refuse a second row for the same attempt, the     *)
(* foreign key a row without a claim: such an append rejects, as in Abort. *)
AppendObservation(i) ==
  LET g == grantOf[i] IN
  /\ Goto(i, "append", "settle")
  /\ g \in claims /\ held[i].attempt \notin AttemptsOf(g)
  /\ observations' = [observations EXCEPT ![g] = @ \union {held[i]}]
  /\ reported' = [reported EXCEPT ![i] = @ \union {held[i]}]
  /\ seen' = [seen EXCEPT ![i] = Holds(g)]
  /\ UNCHANGED <<claims, pinned, planned, attempt, spent, fingerprints, held,
                 status, runs>>

(* Seeded fault: a runner error is tried again. *)
VerdictRetriesErrors(i) ==
  IF held[i].outcome = "succeeded" THEN "submitted-for-verification" ELSE "none"

(* After the append: report, or go round the loop again. *)
Verdict(i) ==
  CASE held[i].outcome = "succeeded" -> "submitted-for-verification"
    [] held[i].outcome = "failed" /\ held[i].digest \in fingerprints[i] ->
         "needs-new-evidence"
    [] held[i].outcome = "failed" /\ held[i].digest \notin fingerprints[i]
       /\ spent[i] < MaxTokens[grantOf[i]] -> "none"
    [] OTHER -> "stopped"

Settle(i) ==
  /\ UNCHANGED journalVars
  /\ \/ /\ Finish(i, "settle", Verdict(i))
        /\ Verdict(i) # "none"
     \/ /\ Goto(i, "settle", "loop")
        /\ Verdict(i) = "none"
        /\ fingerprints' = [fingerprints EXCEPT ![i] = @ \union {held[i].digest}]
        /\ attempt' = [attempt EXCEPT ![i] = @ + 1]
        /\ UNCHANGED <<pinned, planned, spent, held, reported, status, seen, runs>>

(* The process dies, or the call the invocation waits for rejects. *)
Abort(i) == \E p \in Places \ {"idle", "done"} : Throw(i, p)

RunnerSettles(i) ==
  /\ pc[i] = "running"
  /\ \/ RunnerThrows(i)
     \/ \E o \in {"succeeded", "failed"}, d \in Fingerprints,
           t \in 0..TokenBound, w \in BOOLEAN : RunnerReturns(i, o, d, t, w)

Step(i) ==
  \/ AssertCurrentAtEntry(i) \/ ReadReadiness(i) \/ VerifyGrant(i)
  \/ AssertAdopted(i) \/ AssertMayExecute(i) \/ AssertCurrent(i)
  \/ ClaimGrant(i) \/ NextAttempt(i) \/ Recheck(i) \/ StartRunner(i)
  \/ RunnerSettles(i) \/ AppendObservation(i) \/ Settle(i)

Next ==
  \/ WorldNext
  \/ \E i \in Invocations : Begin(i) \/ Step(i) \/ Abort(i)

Spec == Init /\ [][Next]_vars

(* An invocation once begun goes on: its awaits settle (the GitHub calls   *)
(* carry an 8 s timeout) and the event loop resumes it.  Nothing else is   *)
(* fair: nobody need call the gateway, decide anything or move a source.   *)
FairSpec == Spec /\ \A i \in Invocations : WF_vars(Step(i))
-----------------------------------------------------------------------------
(* Properties.                                                             *)

Executing == {"loop", "recheck", "execute", "running", "append", "settle"}

\* If i executes or has executed, j does not and has not.
Excludes(i, j) ==
  /\ pc[i] \in Executing => pc[j] \notin Executing /\ reported[j] = {}
  /\ reported[i] # {} => reported[j] = {}

(* Two invocations never both execute under one requestId, at the same     *)
(* time or one after the other, whatever crashed in between.               *)
OneExecutor ==
  \A i, j \in Invocations : i # j /\ grantOf[i] = grantOf[j] => Excludes(i, j)

(* What the journal's interface asks of a claim: nonce and scope, which    *)
(* are the payload's, are claimed once, and a replay is halted before any  *)
(* action.                                                                 *)
PayloadHasOneExecutor ==
  \A i, j \in Invocations :
    i # j /\ PayloadOf[grantOf[i]] = PayloadOf[grantOf[j]] => Excludes(i, j)

\* The runner's actions and the tokens observed under one requestId.
ClaimAccounted(g) ==
  /\ runs[g] <= MaxAttempts[g]
  /\ 1..(runs[g] - 1) \subseteq AttemptsOf(g)
TokensIn(S) == MapThenSumSet(LAMBDA r : r.tokens, S)
TokensUnder(g) == TokensIn(observations[g])

\* The same of all requestIds of one payload, and those claimed.
RunsOf(p) == MapThenSumSet(LAMBDA g : runs[g], GrantsOf(p))
TokensOf(p) == MapThenSumSet(TokensUnder, GrantsOf(p))
ClaimsOf(p) == GrantsOf(p) \intersect claims

(* Under one requestId the runner is started no more often than the payload *)
(* authorizes, and every start but the latest has left its observation in   *)
(* the journal.  A payload is run as often again for each of its grants     *)
(* that is claimed, and no more.                                            *)
RunsAccounted ==
  \A g \in Grants :
    /\ ClaimAccounted(g)
    /\ RunsOf(PayloadOf[g]) <= MaxAttempts[g] * Cardinality(ClaimsOf(PayloadOf[g]))

(* A report that reaches the caller lists exactly what the journal holds   *)
(* under its requestId, so the pipeline's read-back comparison cannot fail. *)
ReportIsJournal ==
  \A i \in Invocations :
    status[i] \in Endings => reported[i] = observations[grantOf[i]]

(* The observations under one requestId never add up to more than the      *)
(* payload's tokens, those of all its grants to no more than that for each *)
(* one claimed.                                                            *)
BudgetRespected ==
  \A g \in Grants :
    /\ TokensUnder(g) <= MaxTokens[g]
    /\ TokensOf(PayloadOf[g]) <= MaxTokens[g] * Cardinality(ClaimsOf(PayloadOf[g]))

(* A grant is claimed only if, since the call began, there was an instant  *)
(* at which each of its five conditions held: a decision, HEAD or receipt  *)
(* that was withdrawn before the call began is never acted upon.           *)
ClaimJustified == \A i \in Invocations : pc[i] = "claim" => seen[i] = Conditions

(* Between two runner actions of a grant there was an instant at which its *)
(* sources were current and an instant at which it was unexpired: a drift  *)
(* or an expiry lets at most one more action start.                        *)
ActionsJustified ==
  \A i \in Invocations : pc[i] = "execute" => {"source", "unexpired"} \subseteq seen[i]

(* The same of the owner's decisions: a revocation lets at most one more   *)
(* action start.                                                           *)
RevocationFailsClosed ==
  \A i \in Invocations : pc[i] = "execute" => {"adopted", "allowed"} \subseteq seen[i]

(* A requestId that was claimed and whose executor has gone stays spent: no *)
(* later call starts an action under it or writes to its journal.  Its      *)
(* payload is spent only when that is so of all its grants.                 *)
Abandoned(g) ==
  g \in claims /\ \A i \in Invocations : grantOf[i] = g => pc[i] \notin Executing

AbandonedStaysSpent ==
  [][\A g \in Grants : Abandoned(g) =>
       /\ Abandoned(g)'
       /\ observations'[g] = observations[g] /\ runs'[g] = runs[g]]_vars

(* Every write to the journal is one the journal's own contract allows.    *)
JournalContract == Journal!JournalSpec

(* The awaits an invocation has left at most, itself counted: each place   *)
(* by its distance from the end of the attempt it is in.                   *)
Lead == [idle |-> 15, entry |-> 14, readiness |-> 13, verify |-> 12, assertAdopted |-> 11,
         assertMayExecute |-> 10, assertCurrent |-> 9, claim |-> 8, loop |-> 7,
         recheck |-> 6, execute |-> 5, running |-> 4, append |-> 3, settle |-> 2]
StepsLeft(i) ==
  IF pc[i] = "done" THEN 0 ELSE 6 * (MaxAttempts[grantOf[i]] - attempt[i]) + Lead[pc[i]]

(* Nothing makes an invocation go on for ever: it has at most nine steps   *)
(* and six for each attempt to take, and no key of the journal refuses the *)
(* observation it has to append.                                           *)
WorkIsBounded ==
  \A i \in Invocations :
    /\ StepsLeft(i) \in 0..6 * MaxAttempts[grantOf[i]] + 9
    /\ pc[i] = "append" => /\ grantOf[i] \in claims
                           /\ held[i].attempt \notin AttemptsOf(grantOf[i])

(* Each step an invocation takes leaves it fewer, through retries and      *)
(* rechecks, and no step of the world or of another adds to them.          *)
StepsCountDown ==
  [][\A i \in Invocations : IF pc'[i] = pc[i] THEN StepsLeft(i)' = StepsLeft(i)
                                              ELSE StepsLeft(i)' < StepsLeft(i)]_vars

(* An invocation that has begun ends, with a report or an exception.       *)
InvocationsEnd == \A i \in Invocations : pc[i] # "idle" ~> pc[i] = "done"
=============================================================================
