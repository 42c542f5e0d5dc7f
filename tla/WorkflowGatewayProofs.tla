------------------------ MODULE WorkflowGatewayProofs ------------------------
(***************************************************************************)
(* Proofs about the gateway for any number of grants, invocations,         *)
(* decisions, sources and clock ticks.                                     *)
(*                                                                         *)
(* The inductive invariant GatewayInv says who may write the journal of a  *)
(* grant (Ownership), what that journal looks like while its owner loops   *)
(* (LoopState), how many actions were started (RunState), and what each    *)
(* check passed so far has seen (SeenState).                               *)
(***************************************************************************)
EXTENDS WorkflowGateway, FiniteSums

(* Invocation i claimed its grant and is, or ended as, its executor. *)
Owns(i) == pc[i] \in Executing \/ reported[i] # {} \/ status[i] \in Endings

OwnersClaimed == \A i \in Invocations : Owns(i) => grantOf[i] \in claims
OneOwner ==
  \A i, j \in Invocations : i # j /\ grantOf[i] = grantOf[j] /\ Owns(i) => ~Owns(j)
OwnerHasAll ==
  \A i \in Invocations : pc[i] \in Executing \/ status[i] \in Endings
    => reported[i] = observations[grantOf[i]]
NotEnded == \A i \in Invocations : pc[i] # "done" => status[i] = "none"
NotStarted ==
  \A i \in Invocations : pc[i] \notin Executing \union {"done"} => reported[i] = {}
UnclaimedEmpty == \A g \in Grants \ claims : observations[g] = {} /\ runs[g] = 0

Ownership ==
  /\ OwnersClaimed /\ OneOwner /\ OwnerHasAll
  /\ NotEnded /\ NotStarted /\ UnclaimedEmpty

(* The places before the claim, where nothing has been written. *)
Before == Places \ (Executing \union {"done"})

(* Every attempt that started is authorized; the row held is for it. *)
AttemptState ==
  /\ \A i \in Invocations : pc[i] \in Executing \ {"loop"}
       => attempt[i] <= MaxAttempts[grantOf[i]]
  /\ \A i \in Invocations : pc[i] \in {"append", "settle"}
       => held[i].attempt = attempt[i]
  /\ \A i \in Invocations : pc[i] \in Before => attempt[i] = 1 /\ fingerprints[i] = {}

(* The journal of a grant between two appends, and right after one. *)
Unsettled == Executing \ {"settle"}

OpenHistory(i, g) ==
  /\ Retriable(g)
  /\ AttemptsOf(g) = 1..(attempt[i] - 1)
  /\ fingerprints[i] = {r.digest : r \in observations[g]}

JustAppended(i, g) ==
  LET before == observations[g] \ {held[i]} IN
  /\ held[i] \in observations[g]
  /\ AttemptsOf(g) = 1..attempt[i]
  /\ \A r \in before : r.outcome = "failed"
  /\ \A r, q \in before : r.digest = q.digest => r = q
  /\ fingerprints[i] = {r.digest : r \in before}

LoopState ==
  \A i \in Invocations :
    /\ pc[i] \in Unsettled => OpenHistory(i, grantOf[i])
    /\ pc[i] = "settle" => JustAppended(i, grantOf[i])

RunState ==
  /\ \A g \in Grants : ClaimAccounted(g)
  /\ \A i \in Invocations :
       /\ pc[i] \in {"loop", "recheck", "execute"} => runs[grantOf[i]] = attempt[i] - 1
       /\ pc[i] \in {"running", "append", "settle"} => runs[grantOf[i]] = attempt[i]

SeenAt(i) ==
  LET past(p) == pc[i] \in p IN
  /\ pc[i] # "idle" => Holds(grantOf[i]) \subseteq seen[i]
  /\ past({"readiness", "verify", "assertAdopted", "assertMayExecute",
           "assertCurrent", "claim"}) => "source" \in seen[i]
  /\ past({"verify", "assertAdopted", "assertMayExecute"}) /\ planned[i]
       => "ready" \in seen[i]
  /\ past({"assertAdopted", "assertMayExecute", "assertCurrent", "claim"})
       => "unexpired" \in seen[i] /\ pinned[i] = KeyOf[grantOf[i]]
  /\ past({"assertMayExecute", "assertCurrent", "claim"}) => "adopted" \in seen[i]
  /\ past({"assertCurrent", "claim"}) => {"allowed", "ready"} \subseteq seen[i]
  /\ past({"recheck", "execute"}) => "unexpired" \in seen[i]
  /\ past({"execute"}) => "source" \in seen[i]

SeenState == \A i \in Invocations : SeenAt(i)

(* The tokens of the report held but not yet appended. *)
Pending(i) == IF pc[i] = "append" THEN held[i].tokens ELSE 0

(* What an executor has spent is what its journal records and what it is   *)
(* about to append.                                                        *)
BudgetState ==
  /\ \A g \in Grants : IsFiniteSet(observations[g])
  /\ \A i \in Invocations :
       /\ pc[i] \in Before => spent[i] = 0
       /\ pc[i] \in Executing =>
            /\ spent[i] = TokensIn(observations[grantOf[i]]) + Pending(i)
            /\ spent[i] <= MaxTokens[grantOf[i]]
  /\ \A g \in Grants : TokensIn(observations[g]) <= MaxTokens[g]

GatewayInv ==
  /\ TypeOK /\ Ownership /\ AttemptState /\ LoopState /\ RunState /\ SeenState
  /\ BudgetState

-----------------------------------------------------------------------------
(* Type correctness.                                                       *)

LEMMA InitTypes == Init => TypeOK
  BY GatewayAssumption, JournalAssumption, AuthorityAssumption
  DEF Init, TypeOK, AuthorityInit, AuthorityTypeOK, JournalInit, JournalTypeOK,
      Times, Places, Endings, NoObservation, Observation, Unobserved

LEMMA AuthorityTypes ==
  ASSUME AuthorityTypeOK,
         \/ (RecordAdoption \/ RecordIssuer) /\ UNCHANGED now
         \/ Tick /\ UNCHANGED authorityVars
  PROVE  AuthorityTypeOK'
  BY AuthorityAssumption
  DEF AuthorityTypeOK, RecordAdoption, RecordIssuer, StampAdoption, StampIssuer,
      CommitAdoption, CommitIssuer, Tick, authorityVars, AdoptionRow, IssuerRow,
      Times, UnusedIds, Ids

LEMMA WorldTypes == TypeOK /\ WorldNext => TypeOK'
  <1> SUFFICES ASSUME TypeOK, WorldNext PROVE TypeOK'
    OBVIOUS
  <1>1. AuthorityTypeOK'
    <2>1. \/ (RecordAdoption \/ RecordIssuer) /\ UNCHANGED now
          \/ Tick /\ UNCHANGED authorityVars
          \/ UNCHANGED <<now, authorityVars>>
      BY DEF WorldNext, Decide, MoveSource, ChangeReadiness, PassTime, World,
             RestOfWorld
    <2>2. CASE UNCHANGED <<now, authorityVars>>
      BY <2>2 DEF TypeOK, AuthorityTypeOK, authorityVars
    <2> QED BY <2>1, <2>2, AuthorityTypes DEF TypeOK
  <1>2. source' \in Sources /\ ready' \subseteq Payloads
    BY DEF TypeOK, WorldNext, Decide, MoveSource, ChangeReadiness, PassTime,
           World, RestOfWorld
  <1>3. seen' \in [Invocations -> SUBSET Conditions]
    <2>1. Witnessed
      BY DEF WorldNext, Decide, MoveSource, ChangeReadiness, PassTime, World
    <2>2. \A g : Holds(g)' \subseteq Conditions
      BY DEF Holds
    <2> QED BY <2>1, <2>2 DEF TypeOK, Witnessed
  <1>4. UNCHANGED <<journalVars, pc, grantOf, localVars, status, runs>>
    BY DEF WorldNext, Decide, MoveSource, ChangeReadiness, PassTime, World
  <1> QED
    BY <1>1, <1>2, <1>3, <1>4 DEF TypeOK, JournalTypeOK, journalVars, localVars

(* A step of an invocation changes none of the world. *)
LEMMA StepKeepsWorld ==
  ASSUME NEW i \in Invocations, Begin(i) \/ Step(i) \/ Abort(i)
  PROVE  UNCHANGED <<worldVars, grantOf>>
  BY DEF Begin, Step, Abort, Goto, AssertCurrentAtEntry, ReadReadiness,
         VerifyGrant, AssertAdopted, AssertMayExecute, AssertCurrent, ClaimGrant,
         NextAttempt, Recheck, StartRunner, RunnerSettles, RunnerThrows,
         RunnerReturns, Hold, AppendObservation, Settle, Check, Throw, Finish

LEMMA ThrowTypes ==
  ASSUME TypeOK, NEW i \in Invocations, NEW p, Throw(i, p)
  PROVE  TypeOK'
  BY DEF TypeOK, AuthorityTypeOK, JournalTypeOK, Throw, Finish, Goto, worldVars,
         authorityVars, journalVars, localVars, Places, Endings

LEMMA CheckTypes ==
  ASSUME TypeOK, NEW i \in Invocations, NEW p, NEW ok, NEW q \in Places,
         Check(i, p, ok, q)
  PROVE  TypeOK'
  <1>1. CASE Throw(i, p) BY <1>1, ThrowTypes
  <1>2. CASE Goto(i, p, q) /\ UNCHANGED <<journalVars, localVars, status, seen, runs>>
    BY <1>2 DEF TypeOK, AuthorityTypeOK, JournalTypeOK, Goto, worldVars,
                authorityVars, journalVars, localVars
  <1> QED BY <1>1, <1>2 DEF Check

LEMMA BeginTypes ==
  ASSUME TypeOK, NEW i \in Invocations, Begin(i)
  PROVE  TypeOK'
  <1>1. Holds(grantOf[i]) \subseteq Conditions
    BY DEF Holds
  <1>2. PinnedKey(IssuerOf[grantOf[i]], PolicyOf[grantOf[i]]) \in Keys \union {NoKey}
    BY DEF PinnedKey, MayExecute
  <1> QED
    BY <1>1, <1>2
    DEF TypeOK, AuthorityTypeOK, JournalTypeOK, Begin, Goto, worldVars,
        authorityVars, journalVars, Places

LEMMA SettleTypes ==
  ASSUME TypeOK, AttemptState, NEW i \in Invocations, Settle(i)
  PROVE  TypeOK'
  <1>1. pc[i] = "settle" /\ attempt[i] <= MaxAttempts[grantOf[i]]
    BY DEF Settle, Finish, Goto, AttemptState, Executing
  <1>2. attempt[i] + 1 \in 1..6
    BY <1>1, JournalAssumption DEF TypeOK
  <1>3. CASE Verdict(i) # "none" /\ Finish(i, "settle", Verdict(i))
    <2>1. Verdict(i) \in Endings
      BY <1>3 DEF Verdict, Endings
    <2> QED BY <1>3, <2>1
      DEF TypeOK, AuthorityTypeOK, JournalTypeOK, Settle, Finish, Goto, worldVars,
          authorityVars, journalVars, localVars, Places
  <1>4. CASE Verdict(i) = "none"
    <2>1. held[i].outcome = "failed"
      BY <1>4 DEF Verdict
    <2>2. held[i].digest \in Fingerprints
      BY <2>1 DEF TypeOK, Observation, Observed, Unobserved
    <2> QED BY <1>4, <2>2, <1>2
      DEF TypeOK, AuthorityTypeOK, JournalTypeOK, Settle, Finish, Goto, worldVars,
          authorityVars, journalVars, localVars, Places
  <1> QED BY <1>3, <1>4 DEF Settle

LEMMA RunnerTypes ==
  ASSUME TypeOK, AttemptState, NEW i \in Invocations, RunnerSettles(i)
  PROVE  TypeOK'
  <1> USE DEF TypeOK, AuthorityTypeOK, JournalTypeOK, Goto, worldVars, authorityVars,
              journalVars, localVars, Places
  <1>1. pc[i] = "running"
    BY DEF RunnerSettles, RunnerThrows, RunnerReturns, Hold
  <1>2. attempt[i] \in 1..5
    BY <1>1, JournalAssumption DEF AttemptState, Executing
  <1>3. CASE RunnerThrows(i)
    BY <1>2, <1>3 DEF RunnerThrows, Hold, Observation, Unobserved
  <1>4. ASSUME NEW o \in {"succeeded", "failed"}, NEW d \in Fingerprints,
               NEW t \in 0..TokenBound, NEW w \in BOOLEAN, RunnerReturns(i, o, d, t, w)
        PROVE  TypeOK'
    <2>1. MaxTokens[grantOf[i]] \in 1..TokenBound
      BY GatewayAssumption
    <2>2. [attempt |-> attempt[i], outcome |-> o, digest |-> d, tokens |-> t] \in Observation
      BY <1>2 DEF Observation, Observed
    <2>3. [attempt |-> attempt[i], outcome |-> "invalid-result", digest |-> NoDigest,
           tokens |-> 0] \in Observation
      BY <1>2 DEF Observation, Unobserved
    <2>4. spent[i] \in 0..TokenBound /\ TokenBound \in Nat
      BY JournalAssumption
    <2>5. spent[i] + t <= MaxTokens[grantOf[i]] => spent[i] + t \in 0..TokenBound
      BY <2>1, <2>4
    <2> QED BY <1>4, <2>2, <2>3, <2>5 DEF RunnerReturns, Hold
  <1> QED BY <1>3, <1>4 DEF RunnerSettles

LEMMA StepTypes ==
  ASSUME TypeOK, AttemptState, NEW i \in Invocations, Begin(i) \/ Step(i) \/ Abort(i)
  PROVE  TypeOK'
  <1>1. CASE Begin(i) BY <1>1, BeginTypes
  <1>2. CASE Abort(i) BY <1>2, ThrowTypes DEF Abort
  <1>3. CASE AssertCurrentAtEntry(i) \/ VerifyGrant(i) \/ AssertAdopted(i)
             \/ AssertMayExecute(i) \/ AssertCurrent(i)
    BY <1>3, CheckTypes DEF AssertCurrentAtEntry, VerifyGrant, AssertAdopted,
                            AssertMayExecute, AssertCurrent, Places
  <1>4. CASE Settle(i) BY <1>4, SettleTypes
  <1>5. CASE RunnerSettles(i) BY <1>5, RunnerTypes
  <1>6. CASE ClaimGrant(i) \/ NextAttempt(i) \/ Recheck(i) \/ StartRunner(i)
    BY <1>6, ThrowTypes
    DEF TypeOK, AuthorityTypeOK, JournalTypeOK, ClaimGrant, NextAttempt,
        Recheck, StartRunner, Finish, Goto, worldVars, authorityVars, journalVars,
        localVars, Places, Endings
  <1>8. CASE ReadReadiness(i)
    <2>1. planned' \in [Invocations -> BOOLEAN]
      <3>1. planned' = [planned EXCEPT ![i] = PayloadOf[grantOf[i]] \in ready]
        BY <1>8 DEF ReadReadiness
      <3>2. CASE PayloadOf[grantOf[i]] \in ready
        <4>1. (PayloadOf[grantOf[i]] \in ready) = TRUE
          BY <3>2
        <4> QED BY <3>1, <4>1 DEF TypeOK
      <3>3. CASE PayloadOf[grantOf[i]] \notin ready
        <4>1. (PayloadOf[grantOf[i]] \in ready) = FALSE
          BY <3>3
        <4> QED BY <3>1, <4>1 DEF TypeOK
      <3> QED BY <3>2, <3>3
    <2> QED BY <2>1, <1>8
      DEF TypeOK, AuthorityTypeOK, JournalTypeOK, ReadReadiness, Goto, worldVars,
          authorityVars, journalVars, Places
  <1>7. CASE AppendObservation(i)
    <2>1. Holds(grantOf[i]) \subseteq Conditions
      BY DEF Holds
    <2> QED BY <2>1, <1>7, ThrowTypes
      DEF TypeOK, AuthorityTypeOK, JournalTypeOK, AppendObservation, Goto, worldVars,
          authorityVars, journalVars, localVars, Places
  <1> QED BY <1>1, <1>2, <1>3, <1>4, <1>5, <1>6, <1>7, <1>8 DEF Step

-----------------------------------------------------------------------------
(* Ownership of a grant's journal.                                         *)

(* The steps that write neither the journal nor the run counter: they move *)
(* on before the claim, or inside the loop, or end the call.               *)
Quiet(i) ==
  /\ UNCHANGED <<journalVars, reported, grantOf>>
  /\ \A g \in Grants : runs'[g] # runs[g] => pc[i] = "execute" /\ g = grantOf[i]
  /\ \/ /\ pc[i] \in Before
        /\ \E p \in Before : pc' = [pc EXCEPT ![i] = p]
        /\ UNCHANGED status
     \/ /\ pc[i] \in Executing
        /\ \E p \in Executing : pc' = [pc EXCEPT ![i] = p]
        /\ UNCHANGED status
     \/ /\ pc[i] \in Executing
        /\ pc' = [pc EXCEPT ![i] = "done"]
        /\ \E e \in Endings : status' = [status EXCEPT ![i] = e]
     \/ /\ pc[i] # "done"
        /\ pc' = [pc EXCEPT ![i] = "done"]
        /\ status' = [status EXCEPT ![i] = "threw"]

Claims(i) ==
  /\ pc[i] = "claim" /\ grantOf[i] \notin claims
  /\ pc' = [pc EXCEPT ![i] = "loop"]
  /\ claims' = claims \union {grantOf[i]}
  /\ UNCHANGED <<observations, reported, grantOf, status, runs, localVars>>

Appends(i) ==
  /\ pc[i] = "append"
  /\ grantOf[i] \in claims
  /\ held[i].attempt \notin AttemptsOf(grantOf[i])
  /\ pc' = [pc EXCEPT ![i] = "settle"]
  /\ observations' = [observations EXCEPT ![grantOf[i]] = @ \union {held[i]}]
  /\ reported' = [reported EXCEPT ![i] = @ \union {held[i]}]
  /\ UNCHANGED <<claims, grantOf, status, runs, held, attempt, fingerprints>>

LEMMA ThrowIsQuiet ==
  ASSUME TypeOK, NEW i \in Invocations, NEW p \in Places \ {"done"}, Throw(i, p)
  PROVE  Quiet(i)
  BY DEF Quiet, Throw, Finish, Goto, localVars, journalVars

LEMMA CheckIsQuiet ==
  ASSUME TypeOK, NEW i \in Invocations, NEW p \in Before, NEW ok, NEW q \in Before,
         Check(i, p, ok, q)
  PROVE  Quiet(i)
  <1>1. CASE Throw(i, p)
    BY <1>1, ThrowIsQuiet DEF Before
  <1>2. CASE Goto(i, p, q) /\ UNCHANGED <<journalVars, localVars, status, seen, runs>>
    BY <1>2 DEF Quiet, Goto, localVars
  <1> QED BY <1>1, <1>2 DEF Check

LEMMA StepShape ==
  ASSUME TypeOK, NEW i \in Invocations, Begin(i) \/ Step(i) \/ Abort(i)
  PROVE  Quiet(i) \/ Claims(i) \/ Appends(i)
  <1> USE DEF Executing, Before, Places
  <1>1. CASE Begin(i) \/ ReadReadiness(i)
    BY <1>1 DEF Begin, ReadReadiness, Goto, Quiet
  <1>2. CASE Abort(i)
    BY <1>2, ThrowIsQuiet DEF Abort
  <1>3. CASE AssertCurrentAtEntry(i) \/ VerifyGrant(i) \/ AssertAdopted(i)
             \/ AssertMayExecute(i) \/ AssertCurrent(i)
    BY <1>3, CheckIsQuiet DEF AssertCurrentAtEntry, VerifyGrant, AssertAdopted,
                              AssertMayExecute, AssertCurrent
  <1>4. CASE NextAttempt(i) \/ Recheck(i)
    BY <1>4 DEF NextAttempt, Recheck, Finish, Goto, Quiet, localVars, Endings
  <1>5. CASE StartRunner(i)
    BY <1>5 DEF StartRunner, Goto, Quiet, localVars, TypeOK
  <1>6. CASE RunnerSettles(i)
    <2>1. PICK r : Hold(i, r)
      BY <1>6 DEF RunnerSettles, RunnerThrows, RunnerReturns
    <2> QED BY <2>1 DEF Hold, Goto, Quiet
  <1>7. CASE Settle(i)
    <2>1. Verdict(i) \in Endings \union {"none"}
      BY DEF Verdict, Endings
    <2> QED BY <1>7, <2>1 DEF Settle, Finish, Goto, Quiet, localVars
  <1>8. CASE ClaimGrant(i)
    <2>1. CASE Throw(i, "claim")
      BY <2>1, ThrowIsQuiet
    <2> QED BY <1>8, <2>1 DEF ClaimGrant, Goto, Claims, localVars
  <1>9. CASE AppendObservation(i)
    <2>1. CASE Throw(i, "append")
      BY <2>1, ThrowIsQuiet
    <2> QED BY <1>9, <2>1 DEF AppendObservation, Goto, Appends
  <1> QED BY <1>1, <1>2, <1>3, <1>4, <1>5, <1>6, <1>7, <1>8, <1>9 DEF Step

LEMMA StepOwnership ==
  ASSUME TypeOK, Ownership, NEW i \in Invocations, Begin(i) \/ Step(i) \/ Abort(i)
  PROVE  Ownership'
  <1> USE DEF Ownership, OwnersClaimed, OneOwner, OwnerHasAll, NotEnded, NotStarted,
              UnclaimedEmpty, Owns, Executing, Endings, Before, Places, TypeOK
  <1>1. CASE Quiet(i)
    BY <1>1 DEF Quiet, journalVars
  <1>2. CASE Claims(i)
    <2> USE <1>2 DEF Claims
    <2>1. \A j \in Invocations \ {i} : /\ pc'[j] = pc[j] /\ status'[j] = status[j]
                                       /\ reported'[j] = reported[j]
                                       /\ grantOf'[j] = grantOf[j]
      OBVIOUS
    <2>2. \A j \in Invocations \ {i} : grantOf[j] = grantOf[i] => ~Owns(j)
      OBVIOUS
    <2>3. pc'[i] = "loop" /\ reported'[i] = {} /\ status'[i] = "none"
          /\ observations'[grantOf'[i]] = {} /\ grantOf'[i] = grantOf[i]
      OBVIOUS
    <2>4. \A g \in Grants \ claims' : observations'[g] = {} /\ runs'[g] = 0
      OBVIOUS
    <2>5. OwnersClaimed' BY <2>1, <2>3
    <2>6. OneOwner' BY <2>1, <2>2, <2>3
    <2>7. OwnerHasAll' BY <2>1, <2>2, <2>3, <2>4
    <2>8. NotEnded' /\ NotStarted' BY <2>1, <2>3
    <2>9. UnclaimedEmpty' BY <2>4
    <2> QED BY <2>5, <2>6, <2>7, <2>8, <2>9
  <1>3. CASE Appends(i)
    <2> USE <1>3 DEF Appends
    <2>1. \A j \in Invocations \ {i} : /\ pc'[j] = pc[j] /\ status'[j] = status[j]
                                       /\ reported'[j] = reported[j]
                                       /\ grantOf'[j] = grantOf[j]
      OBVIOUS
    <2>2. \A j \in Invocations \ {i} : grantOf[j] = grantOf[i] => ~Owns(j)
      OBVIOUS
    <2>3. /\ pc'[i] = "settle" /\ status'[i] = "none" /\ grantOf'[i] = grantOf[i]
          /\ reported'[i] = reported[i] \union {held[i]}
          /\ observations'[grantOf[i]] = observations[grantOf[i]] \union {held[i]}
          /\ reported[i] = observations[grantOf[i]]
      BY DEF JournalTypeOK
    <2>4. \A g \in Grants \ {grantOf[i]} : observations'[g] = observations[g]
      BY DEF JournalTypeOK
    <2>5. OwnersClaimed' BY <2>1, <2>3
    <2>6. OneOwner' BY <2>1, <2>2, <2>3
    <2>7. OwnerHasAll'
      <3>1. ASSUME NEW j \in Invocations \ {i}, pc[j] \in Executing \/ status[j] \in Endings
            PROVE  reported'[j] = observations'[grantOf'[j]]
        <4>1. Owns(j) /\ grantOf[j] # grantOf[i]
          BY <2>2, <3>1
        <4> QED BY <2>1, <2>4, <3>1, <4>1
      <3>2. reported'[i] = observations'[grantOf'[i]] BY <2>3
      <3>3. ASSUME NEW j \in Invocations, pc'[j] \in Executing \/ status'[j] \in Endings
            PROVE  reported'[j] = observations'[grantOf'[j]]
        <4>1. CASE j = i BY <3>2, <4>1
        <4>2. CASE j # i BY <2>1, <3>1, <3>3, <4>2
        <4> QED BY <4>1, <4>2
      <3> QED BY <3>3
    <2>8. NotEnded' /\ NotStarted' BY <2>1, <2>3
    <2>9. UnclaimedEmpty' BY <2>4
    <2> QED BY <2>5, <2>6, <2>7, <2>8, <2>9
  <1> QED BY <1>1, <1>2, <1>3, StepShape

-----------------------------------------------------------------------------
(* The loop of an executor and the journal it writes.                      *)

(* What a step does to the loop variables of its own invocation. *)
KeepsLoop(i) == UNCHANGED <<attempt, fingerprints, held>>

Holds1(i) ==
  /\ pc[i] = "running" /\ pc' = [pc EXCEPT ![i] = "append"]
  /\ \E r \in Observation : r.attempt = attempt[i] /\ held' = [held EXCEPT ![i] = r]
  /\ UNCHANGED <<attempt, fingerprints, journalVars, grantOf, runs>>

GoesRound(i) ==
  /\ pc[i] = "settle" /\ pc' = [pc EXCEPT ![i] = "loop"]
  /\ held[i].outcome = "failed" /\ held[i].digest \notin fingerprints[i]
  /\ attempt' = [attempt EXCEPT ![i] = @ + 1]
  /\ fingerprints' = [fingerprints EXCEPT ![i] = @ \union {held[i].digest}]
  /\ UNCHANGED <<held, journalVars, grantOf, runs>>

(* A step that keeps the loop variables moves on inside the loop or leaves. *)
MovesOn(i) ==
  /\ KeepsLoop(i)
  /\ UNCHANGED grantOf
  /\ \/ pc[i] \in Before /\ \E p \in Before : pc' = [pc EXCEPT ![i] = p]
     \/ pc' = [pc EXCEPT ![i] = "done"]
     \/ /\ pc[i] = "loop" /\ attempt[i] <= MaxAttempts[grantOf[i]]
        /\ pc' = [pc EXCEPT ![i] = "recheck"]
     \/ pc[i] = "recheck" /\ pc' = [pc EXCEPT ![i] = "execute"]
     \/ /\ pc[i] = "execute" /\ pc' = [pc EXCEPT ![i] = "running"]
        /\ runs' = [runs EXCEPT ![grantOf[i]] = @ + 1]
  /\ pc[i] # "execute" => UNCHANGED runs
  /\ pc' = [pc EXCEPT ![i] = "done"] => UNCHANGED runs
  /\ UNCHANGED journalVars

LEMMA ThrowMovesOn ==
  ASSUME NEW i \in Invocations, NEW p, Throw(i, p)
  PROVE  MovesOn(i)
  BY DEF MovesOn, KeepsLoop, Throw, Finish, Goto, localVars

LEMMA LoopShape ==
  ASSUME TypeOK, AttemptState, NEW i \in Invocations, Begin(i) \/ Step(i) \/ Abort(i)
  PROVE  MovesOn(i) \/ Claims(i) \/ Holds1(i) \/ Appends(i) \/ GoesRound(i)
  <1> USE DEF Executing, Before, Places
  <1>1. CASE Begin(i) \/ ReadReadiness(i)
    BY <1>1 DEF Begin, ReadReadiness, Goto, MovesOn, KeepsLoop
  <1>2. CASE Abort(i)
    BY <1>2, ThrowMovesOn DEF Abort
  <1>3. CASE AssertCurrentAtEntry(i) \/ VerifyGrant(i) \/ AssertAdopted(i)
             \/ AssertMayExecute(i) \/ AssertCurrent(i)
    BY <1>3, ThrowMovesOn
    DEF AssertCurrentAtEntry, VerifyGrant, AssertAdopted, AssertMayExecute,
        AssertCurrent, Check, Goto, localVars, MovesOn, KeepsLoop
  <1>4. CASE NextAttempt(i) \/ Recheck(i) \/ StartRunner(i)
    <2>1. CASE NextAttempt(i) \/ Recheck(i)
      BY <2>1 DEF NextAttempt, Recheck, Finish, Goto, MovesOn, KeepsLoop, localVars
    <2>2. CASE StartRunner(i)
      BY <2>2 DEF StartRunner, Goto, MovesOn, KeepsLoop, localVars, TypeOK
    <2> QED BY <1>4, <2>1, <2>2
  <1>5. CASE RunnerSettles(i)
    <2>1. PICK r : Hold(i, r) /\ r.attempt = attempt[i]
      <3>1. CASE RunnerThrows(i)
        BY <3>1 DEF RunnerThrows
      <3>2. ASSUME NEW o, NEW d, NEW t, NEW w, RunnerReturns(i, o, d, t, w)
            PROVE  \E r : Hold(i, r) /\ r.attempt = attempt[i]
        BY <3>2 DEF RunnerReturns
      <3> QED BY <1>5, <3>1, <3>2 DEF RunnerSettles
    <2>2. TypeOK'
      BY <1>5, RunnerTypes
    <2>3. held'[i] = r
      BY <2>1 DEF Hold, TypeOK
    <2>4. r \in Observation
      BY <2>2, <2>3 DEF TypeOK
    <2> QED BY <2>1, <2>4 DEF Hold, Goto, Holds1
  <1>6. CASE Settle(i)
    <2>1. CASE Verdict(i) # "none"
      BY <1>6, <2>1 DEF Settle, Finish, Goto, MovesOn, KeepsLoop, localVars
    <2>2. CASE Verdict(i) = "none"
      <3>1. held[i].outcome = "failed" /\ held[i].digest \notin fingerprints[i]
        BY <2>2 DEF Verdict
      <3> QED BY <1>6, <2>2, <3>1 DEF Settle, Finish, Goto, GoesRound
    <2> QED BY <2>1, <2>2
  <1>7. CASE ClaimGrant(i)
    BY <1>7, ThrowMovesOn DEF ClaimGrant, Goto, Claims, localVars
  <1>8. CASE AppendObservation(i)
    BY <1>8, ThrowMovesOn DEF AppendObservation, Goto, Appends
  <1> QED BY <1>1, <1>2, <1>3, <1>4, <1>5, <1>6, <1>7, <1>8 DEF Step

LEMMA StepAttempts ==
  ASSUME TypeOK, AttemptState, NEW i \in Invocations, Begin(i) \/ Step(i) \/ Abort(i)
  PROVE  AttemptState'
  <1> USE DEF TypeOK, AttemptState, Executing, Before, Places
  <1>1. CASE MovesOn(i)
    BY <1>1 DEF MovesOn, KeepsLoop
  <1>2. CASE Claims(i)
    BY <1>2 DEF Claims, localVars
  <1>3. CASE Holds1(i)
    BY <1>3 DEF Holds1
  <1>4. CASE Appends(i)
    BY <1>4 DEF Appends
  <1>5. CASE GoesRound(i)
    BY <1>5 DEF GoesRound
  <1> QED BY <1>1, <1>2, <1>3, <1>4, <1>5, LoopShape

LEMMA StepLoop ==
  ASSUME TypeOK, Ownership, AttemptState, LoopState,
         NEW i \in Invocations, Begin(i) \/ Step(i) \/ Abort(i)
  PROVE  LoopState'
  <1> USE DEF TypeOK, JournalTypeOK, Executing, Unsettled, Before, Places
  <1>0. SUFFICES ASSUME NEW j \in Invocations
                 PROVE  /\ pc'[j] \in Unsettled => OpenHistory(j, grantOf[j])'
                        /\ pc'[j] = "settle" => JustAppended(j, grantOf[j])'
    BY DEF LoopState
  <1>1. CASE MovesOn(i)
    <2>1. /\ attempt' = attempt /\ fingerprints' = fingerprints /\ held' = held
          /\ observations' = observations /\ grantOf' = grantOf
      BY <1>1 DEF MovesOn, KeepsLoop, journalVars
    <2>2. /\ pc'[j] \in Unsettled => pc[j] \in Unsettled
          /\ pc'[j] = "settle" => pc[j] = "settle"
      BY <1>1 DEF MovesOn
    <2> QED BY <2>1, <2>2 DEF LoopState, OpenHistory, JustAppended, Retriable, AttemptsOf
  <1>2. CASE Claims(i)
    <2>1. /\ attempt' = attempt /\ fingerprints' = fingerprints /\ held' = held
          /\ observations' = observations /\ grantOf' = grantOf
      BY <1>2 DEF Claims, localVars
    <2>2. CASE j = i
      <3>1. observations[grantOf[i]] = {} /\ attempt[i] = 1 /\ fingerprints[i] = {}
        BY <1>2 DEF Claims, Ownership, UnclaimedEmpty, AttemptState
      <3> QED BY <1>2, <2>1, <2>2, <3>1
        DEF Claims, OpenHistory, Retriable, AttemptsOf
    <2>3. CASE j # i
      <3>1. pc'[j] = pc[j]
        BY <1>2, <2>3 DEF Claims
      <3> QED BY <2>1, <3>1 DEF LoopState, OpenHistory, JustAppended, Retriable, AttemptsOf
    <2> QED BY <2>2, <2>3
  <1>3. CASE Holds1(i)
    <2>1. /\ attempt' = attempt /\ fingerprints' = fingerprints
          /\ observations' = observations /\ grantOf' = grantOf
          /\ j # i => held'[j] = held[j] /\ pc'[j] = pc[j]
          /\ pc[i] = "running" /\ pc'[i] = "append"
      BY <1>3 DEF Holds1, journalVars
    <2>2. CASE j = i
      BY <2>1, <2>2 DEF LoopState, OpenHistory, Retriable, AttemptsOf
    <2>3. CASE j # i
      BY <2>1, <2>3 DEF LoopState, OpenHistory, JustAppended, Retriable, AttemptsOf
    <2> QED BY <2>2, <2>3
  <1>4. CASE Appends(i)
    <2> DEFINE g == grantOf[i]
    <2>1. /\ attempt' = attempt /\ fingerprints' = fingerprints /\ held' = held
          /\ grantOf' = grantOf /\ g \in Grants
          /\ observations'[g] = observations[g] \union {held[i]}
          /\ held[i].attempt = attempt[i] /\ held[i] \notin observations[g]
          /\ OpenHistory(i, g) /\ attempt[i] \in Nat /\ attempt[i] >= 1
      BY <1>4 DEF Appends, LoopState, AttemptState, AttemptsOf
    <2>2. CASE j = i
      <3>1. observations'[g] \ {held'[i]} = observations[g]
        BY <2>1
      <3>2. AttemptsOf(g)' = 1..attempt'[i]
        BY <2>1 DEF OpenHistory, AttemptsOf
      <3>3. JustAppended(i, g)'
        BY <2>1, <3>1, <3>2 DEF JustAppended, OpenHistory, Retriable
      <3> QED BY <1>4, <2>1, <2>2, <3>3 DEF Appends
    <2>3. CASE j # i /\ pc[j] \in Executing
      <3>1. grantOf[j] # g
        BY <1>4, <2>3 DEF Appends, Ownership, OneOwner, Owns
      <3>2. pc'[j] = pc[j] /\ observations'[grantOf[j]] = observations[grantOf[j]]
        BY <1>4, <2>3, <3>1 DEF Appends
      <3> QED BY <2>1, <3>2 DEF LoopState, OpenHistory, JustAppended, Retriable, AttemptsOf
    <2>4. CASE j # i /\ pc[j] \notin Executing
      BY <1>4, <2>4 DEF Appends
    <2> QED BY <2>2, <2>3, <2>4
  <1>5. CASE GoesRound(i)
    <2>1. observations' = observations /\ grantOf' = grantOf /\ held' = held
      BY <1>5 DEF GoesRound, journalVars
    <2>2. CASE j = i
      <3> DEFINE g == grantOf[i]
      <3>1. JustAppended(i, g) /\ attempt[i] \in Nat
        BY <1>5 DEF GoesRound, LoopState
      <3>2. /\ held[i].outcome = "failed" /\ held[i].digest \notin fingerprints[i]
            /\ attempt'[i] = attempt[i] + 1
            /\ fingerprints'[i] = fingerprints[i] \union {held[i].digest}
        BY <1>5 DEF GoesRound
      <3>3. Retriable(g)
        <4>1. \A r \in observations[g] \ {held[i]} :
                r.outcome = "failed" /\ r.digest # held[i].digest
          BY <3>1, <3>2 DEF JustAppended
        <4>2. \A r, q \in observations[g] \ {held[i]} : r.digest = q.digest => r = q
          BY <3>1 DEF JustAppended
        <4> QED BY <3>2, <4>1, <4>2 DEF Retriable
      <3>4. fingerprints'[i] = {r.digest : r \in observations[g]}
        BY <3>1, <3>2 DEF JustAppended
      <3>5. AttemptsOf(g) = 1..(attempt'[i] - 1)
        BY <3>1, <3>2 DEF JustAppended
      <3>6. OpenHistory(i, g)'
        BY <2>1, <3>3, <3>4, <3>5 DEF OpenHistory, Retriable, AttemptsOf
      <3> QED BY <1>5, <2>1, <2>2, <3>6 DEF GoesRound
    <2>3. CASE j # i
      <3>1. /\ pc'[j] = pc[j] /\ attempt'[j] = attempt[j]
            /\ fingerprints'[j] = fingerprints[j]
        BY <1>5, <2>3 DEF GoesRound
      <3> QED BY <2>1, <3>1 DEF LoopState, OpenHistory, JustAppended, Retriable, AttemptsOf
    <2> QED BY <2>2, <2>3
  <1> QED BY <1>1, <1>2, <1>3, <1>4, <1>5, LoopShape

LEMMA StepRuns ==
  ASSUME TypeOK, Ownership, AttemptState, LoopState, RunState,
         NEW i \in Invocations, Begin(i) \/ Step(i) \/ Abort(i)
  PROVE  RunState'
  <1> USE DEF TypeOK, JournalTypeOK, Executing, Unsettled, Before, Places
  <1>1. CASE UNCHANGED runs
    <2>1. \A g \in Grants : ClaimAccounted(g)'
      <3>0. observations' = observations \/ Appends(i)
        BY LoopShape DEF MovesOn, Claims, Holds1, GoesRound, journalVars
      <3>1. \A g \in Grants : observations[g] \subseteq observations'[g]
        BY <3>0 DEF Appends
      <3>2. \A g \in Grants : AttemptsOf(g) \subseteq AttemptsOf(g)'
        BY <3>1 DEF AttemptsOf
      <3> QED BY <1>1, <3>2 DEF RunState, ClaimAccounted
    <2>2. ASSUME NEW j \in Invocations
          PROVE  /\ pc'[j] \in {"loop", "recheck", "execute"}
                      => runs[grantOf[j]] = attempt'[j] - 1
                 /\ pc'[j] \in {"running", "append", "settle"}
                      => runs[grantOf[j]] = attempt'[j]
      <3>1. CASE MovesOn(i)
        <4>1. pc[i] # "execute" \/ pc'[i] = "done"
          <5>1. CASE pc' = [pc EXCEPT ![i] = "running"] /\ pc[i] = "execute"
            BY <1>1, <5>1, <3>1 DEF MovesOn
          <5> QED BY <3>1, <5>1 DEF MovesOn
        <4> QED BY <3>1, <4>1 DEF MovesOn, KeepsLoop, RunState
      <3>2. CASE Claims(i)
        BY <3>2 DEF Claims, RunState, localVars, Ownership, UnclaimedEmpty, AttemptState
      <3>3. CASE Holds1(i)
        BY <3>3 DEF Holds1, RunState
      <3>4. CASE Appends(i)
        BY <3>4 DEF Appends, RunState
      <3>5. CASE GoesRound(i)
        BY <3>5 DEF GoesRound, RunState
      <3> QED BY <3>1, <3>2, <3>3, <3>4, <3>5, LoopShape
    <2>3. grantOf' = grantOf
      BY StepKeepsWorld
    <2> QED BY <1>1, <2>1, <2>2, <2>3 DEF RunState
  <1>2. CASE MovesOn(i) /\ pc[i] = "execute" /\ pc' = [pc EXCEPT ![i] = "running"]
             /\ runs' = [runs EXCEPT ![grantOf[i]] = @ + 1]
    <2> DEFINE g == grantOf[i]
    <2>1. /\ attempt' = attempt /\ observations' = observations /\ grantOf' = grantOf
          /\ runs'[g] = attempt[i] /\ attempt[i] <= MaxAttempts[g]
          /\ AttemptsOf(g) = 1..(attempt[i] - 1)
      <3>1. attempt' = attempt /\ observations' = observations /\ grantOf' = grantOf
        BY <1>2 DEF MovesOn, KeepsLoop, journalVars
      <3>2. g \in Grants /\ attempt[i] \in 1..6 /\ runs[g] = attempt[i] - 1
        BY <1>2 DEF RunState
      <3>3. attempt[i] <= MaxAttempts[g]
        BY <1>2 DEF AttemptState
      <3>4. AttemptsOf(g) = 1..(attempt[i] - 1)
        BY <1>2 DEF LoopState, OpenHistory
      <3>5. runs'[g] = attempt[i]
        BY <1>2, <3>2
      <3> QED BY <3>1, <3>3, <3>4, <3>5
    <2>2. \A h \in Grants : ClaimAccounted(h)'
      <3>1. \A h \in Grants \ {g} : runs'[h] = runs[h]
        BY <1>2
      <3>2. \A h \in Grants : AttemptsOf(h)' = AttemptsOf(h)
        BY <2>1 DEF AttemptsOf
      <3>3. runs'[g] <= MaxAttempts[g] /\ 1..(runs'[g] - 1) \subseteq AttemptsOf(g)
        BY <2>1
      <3> QED BY <3>1, <3>2, <3>3 DEF ClaimAccounted, RunState
    <2>3. \A j \in Invocations \ {i} : pc[j] \in Executing => grantOf[j] # g
      BY <1>2 DEF Ownership, OneOwner, Owns
    <2> QED BY <1>2, <2>1, <2>2, <2>3 DEF RunState
  <1> QED BY <1>1, <1>2, LoopShape
    DEF MovesOn, Claims, Holds1, Appends, GoesRound

-----------------------------------------------------------------------------
(* The sum of the tokens of a journal.                                     *)

LEMMA TokensAreSummed ==
  ASSUME NEW S, NEW U, S \subseteq U
  PROVE  TokensIn(S) = SumOf([r \in U |-> r.tokens], S)
  <1> DEFINE w == [r \in U |-> r.tokens]
             RecOf(f) == f = [s \in SUBSET S |->
                                IF s = {} THEN 0 ELSE Pick(s).tokens + f[s \ {Pick(s)}]]
  <1>1. TokensIn(S) = (CHOOSE f : RecOf(f))[S]
    BY DEF TokensIn, MapThenSumSet, MapThenFoldSet, Pick
  <1>2. \A s \in SUBSET S : s # {} => w[Pick(s)] = Pick(s).tokens
    BY PickIsMember
  <1>3. \A f : RecOf(f) <=> Rec(w, f, S)
    BY <1>2 DEF Rec, Unfold
  <1> HIDE DEF RecOf
  <1>4. (CHOOSE f : RecOf(f)) = (CHOOSE f : Rec(w, f, S))
    BY <1>3
  <1> QED BY <1>1, <1>4, SumIs

LEMMA TokensInNone == TokensIn({}) = 0
  BY TokensAreSummed, SumOfNone

LEMMA TokensType ==
  ASSUME NEW S, IsFiniteSet(S), \A r \in S : r.tokens \in Nat
  PROVE  TokensIn(S) \in Nat
  <1> DEFINE w == [r \in S |-> r.tokens]
  <1>1. \A r \in S : w[r] \in Nat
    OBVIOUS
  <1> HIDE DEF w
  <1>2. SumOf(w, S) \in Nat
    BY <1>1, SumType
  <1> QED BY <1>2, TokensAreSummed DEF w

(* The sum of a journal with one more row. *)
LEMMA TokensAdd ==
  ASSUME NEW S, IsFiniteSet(S), \A r \in S : r.tokens \in Nat,
         NEW x, x \notin S, x.tokens \in Nat
  PROVE  TokensIn(S \union {x}) = TokensIn(S) + x.tokens
  <1> DEFINE U == S \union {x}
             w == [r \in U |-> r.tokens]
  <1>1. \A r \in U : w[r] = r.tokens
    OBVIOUS
  <1> HIDE DEF w
  <1>2. SumOf(w, U) = SumOf(w, S) + w[x]
    BY <1>1, SumAdds
  <1> QED BY <1>1, <1>2, TokensAreSummed DEF w

-----------------------------------------------------------------------------
(* The token budget.                                                       *)

LEMMA ObservationTokens == \A r \in Observation : r.tokens \in Nat
  BY JournalAssumption DEF Observation, Observed, Unobserved

(* What a step does to the counter of the tokens spent. *)
LEMMA StepSpends ==
  ASSUME TypeOK, NEW i \in Invocations, Begin(i) \/ Step(i) \/ Abort(i)
  PROVE  /\ \A j \in Invocations \ {i} : spent'[j] = spent[j] /\ held'[j] = held[j]
                                            /\ pc'[j] = pc[j]
         /\ ~RunnerSettles(i) => spent' = spent /\ pc'[i] # "append"
  BY DEF TypeOK, Begin, Step, Abort, Goto, AssertCurrentAtEntry, ReadReadiness,
         VerifyGrant, AssertAdopted, AssertMayExecute, AssertCurrent, ClaimGrant,
         NextAttempt, Recheck, StartRunner, RunnerSettles, RunnerThrows,
         RunnerReturns, Hold, AppendObservation, Settle, Check, Throw, Finish,
         localVars

(* The runner's tokens are spent when its report is accepted, before its   *)
(* observation is appended.                                                *)
LEMMA RunnerSpends ==
  ASSUME TypeOK, NEW i \in Invocations, spent[i] <= MaxTokens[grantOf[i]],
         RunnerSettles(i)
  PROVE  /\ pc[i] = "running" /\ pc'[i] = "append"
         /\ UNCHANGED <<journalVars, grantOf>>
         /\ spent'[i] = spent[i] + held'[i].tokens
         /\ spent'[i] <= MaxTokens[grantOf[i]]
  <1> USE DEF TypeOK
  <1>1. CASE RunnerThrows(i)
    BY <1>1 DEF RunnerThrows, Hold, Goto
  <1>2. ASSUME NEW o, NEW d, NEW t \in 0..TokenBound, NEW w, RunnerReturns(i, o, d, t, w)
        PROVE  /\ pc[i] = "running" /\ pc'[i] = "append"
               /\ UNCHANGED <<journalVars, grantOf>>
               /\ spent'[i] = spent[i] + held'[i].tokens
               /\ spent'[i] <= MaxTokens[grantOf[i]]
    BY <1>2 DEF RunnerReturns, Hold, Goto
  <1> QED BY <1>1, <1>2 DEF RunnerSettles

LEMMA StepBudget ==
  ASSUME TypeOK, Ownership, AttemptState, BudgetState,
         NEW i \in Invocations, Begin(i) \/ Step(i) \/ Abort(i)
  PROVE  BudgetState'
  <1> DEFINE g == grantOf[i]
  <1> USE DEF TypeOK, Executing, Before, Places
  <1>0. grantOf' = grantOf /\ g \in Grants
    BY StepKeepsWorld
  <1>1. CASE Appends(i)
    <2>1. /\ pc[i] = "append" /\ pc'[i] = "settle" /\ held' = held /\ spent' = spent
          /\ observations'[g] = observations[g] \union {held[i]}
          /\ \A h \in Grants \ {g} : observations'[h] = observations[h]
          /\ held[i] \notin observations[g] /\ observations[g] \subseteq Observation
      <3>1. ~RunnerSettles(i)
        BY <1>1 DEF Appends, RunnerSettles, RunnerThrows, RunnerReturns, Hold, Goto
      <3> QED BY <1>1, <3>1, StepSpends DEF Appends, AttemptsOf, JournalTypeOK
    <2>2. /\ IsFiniteSet(observations'[g])
          /\ TokensIn(observations'[g]) = TokensIn(observations[g]) + held[i].tokens
      <3>1. IsFiniteSet(observations[g])
        BY <1>0 DEF BudgetState
      <3>2. held[i].tokens \in Nat /\ \A r \in observations[g] : r.tokens \in Nat
        BY <2>1, ObservationTokens
      <3> QED BY <2>1, <3>1, <3>2, FS_AddElement, TokensAdd
    <2>3. spent[i] = TokensIn(observations'[g]) /\ spent[i] <= MaxTokens[g]
      BY <2>1, <2>2 DEF BudgetState, Pending
    <2>4. ASSUME NEW j \in Invocations \ {i}, pc[j] \in Executing
          PROVE  grantOf[j] # g
      BY <1>1, <2>4 DEF Appends, Ownership, OneOwner, Owns
    <2>5. \A h \in Grants : TokensIn(observations'[h]) <= MaxTokens[h]
      BY <2>1, <2>2, <2>3 DEF BudgetState
    <2>6. \A h \in Grants : IsFiniteSet(observations'[h])
      BY <2>1, <2>2 DEF BudgetState
    <2>7. ASSUME NEW j \in Invocations
          PROVE  /\ pc'[j] \in Before => spent'[j] = 0
                 /\ pc'[j] \in Executing =>
                      /\ spent'[j] = TokensIn(observations'[grantOf'[j]]) + Pending(j)'
                      /\ spent'[j] <= MaxTokens[grantOf'[j]]
      <3>1. CASE j = i
        <4>1. Pending(i)' = 0 /\ spent[i] \in Nat
          BY <2>1, JournalAssumption DEF Pending
        <4>2. spent'[i] = TokensIn(observations'[g]) + Pending(i)'
          BY <2>1, <2>3, <4>1
        <4> QED BY <1>0, <2>1, <2>3, <3>1, <4>2
      <3>2. CASE j # i
        <4>1. pc'[j] = pc[j] /\ Pending(j)' = Pending(j) /\ spent'[j] = spent[j]
          BY <3>2, <2>1, StepSpends DEF Pending
        <4>2. pc[j] \in Executing => observations'[grantOf[j]] = observations[grantOf[j]]
          BY <2>1, <2>4, <3>2
        <4> QED BY <1>0, <4>1, <4>2 DEF BudgetState
      <3> QED BY <3>1, <3>2
    <2> QED BY <2>5, <2>6, <2>7 DEF BudgetState
  <1>2. CASE UNCHANGED observations
    <2>1. \A h \in Grants : /\ IsFiniteSet(observations'[h])
                            /\ TokensIn(observations'[h]) <= MaxTokens[h]
      BY <1>2 DEF BudgetState
    <2>2. ASSUME NEW j \in Invocations
          PROVE  /\ pc'[j] \in Before => spent'[j] = 0
                 /\ pc'[j] \in Executing =>
                      /\ spent'[j] = TokensIn(observations[grantOf[j]]) + Pending(j)'
                      /\ spent'[j] <= MaxTokens[grantOf[j]]
      <3>1. CASE j # i
        <4>1. pc'[j] = pc[j] /\ Pending(j)' = Pending(j) /\ spent'[j] = spent[j]
          BY <3>1, StepSpends DEF Pending
        <4> QED BY <4>1 DEF BudgetState
      <3>2. CASE j = i /\ RunnerSettles(i)
        <4>1. spent[i] <= MaxTokens[g] /\ spent[i] = TokensIn(observations[g]) + Pending(i)
              /\ pc[i] = "running"
          BY <3>2 DEF BudgetState, RunnerSettles, RunnerThrows, RunnerReturns, Hold, Goto
        <4>2. spent'[i] = spent[i] + held'[i].tokens /\ spent'[i] <= MaxTokens[g]
              /\ pc'[i] = "append"
          BY <3>2, <4>1, RunnerSpends
        <4>3. Pending(i) = 0 /\ Pending(i)' = held'[i].tokens
          BY <4>1, <4>2 DEF Pending
        <4>4. TokensIn(observations[g]) \in Nat
          <5>1. \A r \in observations[g] : r.tokens \in Nat
            BY <1>0, ObservationTokens DEF JournalTypeOK
          <5> QED BY <1>0, <5>1, TokensType DEF BudgetState
        <4> QED BY <3>2, <4>1, <4>2, <4>3, <4>4
      <3>3. CASE j = i /\ ~RunnerSettles(i)
        <4>1. spent' = spent
          BY <3>3, StepSpends
        <4>2. CASE Claims(i)
          <5>1. TokensIn({}) = 0
            BY TokensInNone
          <5>2. observations[g] = {} /\ spent[i] = 0 /\ MaxTokens[g] \in Nat
            BY <4>2, <1>0, GatewayAssumption, JournalAssumption
            DEF Claims, Ownership, UnclaimedEmpty, BudgetState
          <5> QED BY <3>3, <4>1, <4>2, <5>1, <5>2 DEF Claims, Pending
        <4>3. CASE GoesRound(i)
          BY <3>3, <4>1, <4>3 DEF GoesRound, BudgetState, Pending
        <4>4. CASE MovesOn(i)
          BY <3>3, <4>1, <4>4 DEF MovesOn, BudgetState, Pending
        <4>5. ~Holds1(i) /\ ~(Appends(i) /\ UNCHANGED observations)
          BY <3>3, StepSpends DEF Holds1, Appends, AttemptsOf, JournalTypeOK
        <4> QED BY <1>2, <4>2, <4>3, <4>4, <4>5, LoopShape
      <3> QED BY <3>1, <3>2, <3>3
    <2> QED BY <1>0, <1>2, <2>1, <2>2 DEF BudgetState
  <1>3. UNCHANGED observations \/ Appends(i)
    BY LoopShape DEF MovesOn, Claims, Holds1, GoesRound, journalVars
  <1> QED BY <1>1, <1>2, <1>3

-----------------------------------------------------------------------------
(* What an invocation has seen.                                            *)

LEMMA HoldsSame ==
  ASSUME UNCHANGED worldVars
  PROVE  \A g : Holds(g)' = Holds(g)
  <1>1. /\ now' = now /\ source' = source /\ ready' = ready
        /\ adoptions' = adoptions /\ issuerDecisions' = issuerDecisions
    BY DEF worldVars, authorityVars
  <1>2. \A i : DecisionsOn(i)' = DecisionsOn(i)
    BY <1>1 DEF DecisionsOn
  <1>3. \A g : AllowedFor(g)' <=> AllowedFor(g)
    BY <1>2 DEF AllowedFor, MayExecute
  <1>4. \A g : AdoptedFor(g)' <=> AdoptedFor(g)
    BY <1>1 DEF AdoptedFor, Adopted
  <1>5. \A g : (Current(g)' <=> Current(g)) /\ (Unexpired(g)' <=> Unexpired(g))
    BY <1>1 DEF Current, Unexpired
  <1> QED BY <1>1, <1>3, <1>4, <1>5 DEF Holds

(* A step of one invocation changes nothing another invocation has. *)
LEMMA StepFrame ==
  ASSUME NEW i \in Invocations, TypeOK, Begin(i) \/ Step(i) \/ Abort(i),
         NEW j \in Invocations \ {i}
  PROVE  /\ pc'[j] = pc[j] /\ seen'[j] = seen[j]
         /\ planned'[j] = planned[j] /\ pinned'[j] = pinned[j]
  BY DEF TypeOK, Begin, Step, Abort, Goto, AssertCurrentAtEntry, ReadReadiness,
         VerifyGrant, AssertAdopted, AssertMayExecute, AssertCurrent, ClaimGrant,
         NextAttempt, Recheck, StartRunner, RunnerSettles, RunnerThrows,
         RunnerReturns, Hold, AppendObservation, Settle, Check, Throw, Finish,
         localVars

(* A step that neither looks at the world nor moves to a checked place. *)
LEMMA WorldSeen ==
  ASSUME TypeOK, SeenState, WorldNext
  PROVE  SeenState'
  <1>1. UNCHANGED <<pc, grantOf, pinned, planned>> /\ Witnessed
    BY DEF WorldNext, Decide, MoveSource, ChangeReadiness, PassTime, World, localVars
  <1>2. \A i \in Invocations : /\ seen[i] \subseteq seen'[i]
                               /\ Holds(grantOf[i])' \subseteq seen'[i]
    BY <1>1 DEF Witnessed, TypeOK
  <1> QED BY <1>1, <1>2 DEF SeenState, SeenAt

LEMMA StepSeen ==
  ASSUME TypeOK, SeenState, NEW i \in Invocations, Begin(i) \/ Step(i) \/ Abort(i)
  PROVE  SeenState'
  <1> DEFINE g == grantOf[i]
             Ends == pc' = [pc EXCEPT ![i] = "done"] /\ pc[i] # "idle" /\ UNCHANGED seen
  <1>1. UNCHANGED worldVars /\ grantOf' = grantOf /\ Holds(g)' = Holds(g)
    BY StepKeepsWorld, HoldsSame
  <1>2. ASSUME NEW j \in Invocations \ {i} PROVE SeenAt(j)'
    <2>1. Holds(grantOf[j])' = Holds(grantOf[j])
      BY <1>1, HoldsSame
    <2> QED BY <2>1, <1>1, StepFrame DEF SeenState, SeenAt
  <1> USE DEF TypeOK, Places, SeenState
  <1>3. SUFFICES SeenAt(i)'
    BY <1>2
  <1>4. CASE Ends
    BY <1>1, <1>4 DEF SeenAt
  <1>5. ASSUME NEW p \in Places \ {"idle"}, NEW how, Finish(i, p, how)
        PROVE  SeenAt(i)'
    BY <1>4, <1>5 DEF Finish, Goto
  <1>6. CASE Begin(i)
    BY <1>1, <1>6 DEF Begin, Goto, SeenAt
  <1>7. CASE Abort(i)
    BY <1>5, <1>7 DEF Abort, Throw
  <1>8. CASE AssertCurrentAtEntry(i)
    <2>1. Current(g) => "source" \in Holds(g)
      BY DEF Holds, Conditions
    <2> QED BY <1>1, <1>5, <1>8, <2>1
      DEF AssertCurrentAtEntry, Check, Throw, Goto, localVars, SeenAt
  <1>9. CASE ReadReadiness(i)
    <2>1. PayloadOf[g] \in ready => "ready" \in Holds(g)
      BY DEF Holds, Conditions
    <2>2. planned'[i] => PayloadOf[g] \in ready
      BY <1>9 DEF ReadReadiness
    <2> QED BY <1>1, <1>9, <2>1, <2>2 DEF ReadReadiness, Goto, SeenAt
  <1>10. CASE VerifyGrant(i)
    <2>1. Unexpired(g) => "unexpired" \in Holds(g)
      BY DEF Holds, Conditions
    <2> QED BY <1>1, <1>5, <1>10, <2>1
      DEF VerifyGrant, Check, Throw, Goto, localVars, WithinValidity, SeenAt
  <1>11. CASE AssertAdopted(i)
    <2>1. AdoptedFor(g) => "adopted" \in Holds(g)
      BY DEF Holds, Conditions
    <2> QED BY <1>1, <1>5, <1>11, <2>1
      DEF AssertAdopted, Check, Throw, Goto, localVars, SeenAt
  <1>12. CASE AssertMayExecute(i)
    <2>1. AllowedFor(g) => "allowed" \in Holds(g)
      BY DEF Holds, Conditions
    <2>2. pc[i] = "assertMayExecute" /\ MayExecute(IssuerOf[g], PolicyOf[g], pinned[i])
            => AllowedFor(g)
      BY DEF SeenAt, AllowedFor
    <2> QED BY <1>1, <1>5, <1>12, <2>1, <2>2
      DEF AssertMayExecute, Check, Throw, Goto, localVars, SeenAt
  <1>13. CASE AssertCurrent(i)
    BY <1>1, <1>5, <1>13
    DEF AssertCurrent, Check, Throw, Goto, localVars, SeenAt
  <1>14. CASE ClaimGrant(i) \/ NextAttempt(i) \/ Recheck(i)
    <2>1. Unexpired(g) => "unexpired" \in Holds(g)
      BY DEF Holds, Conditions
    <2>2. Current(g) => "source" \in Holds(g)
      BY DEF Holds, Conditions
    <2> QED BY <1>1, <1>5, <1>14, <2>1, <2>2
      DEF ClaimGrant, NextAttempt, Recheck, Throw, Goto, localVars, SeenAt
  <1>15. CASE StartRunner(i) \/ RunnerSettles(i)
    BY <1>1, <1>15
    DEF StartRunner, RunnerSettles, RunnerThrows, RunnerReturns, Hold, Goto,
        localVars, SeenAt
  <1>16. CASE AppendObservation(i)
    BY <1>1, <1>5, <1>16 DEF AppendObservation, Throw, Goto, SeenAt
  <1>17. CASE Settle(i)
    BY <1>1, <1>5, <1>17 DEF Settle, Goto, SeenAt
  <1> QED BY <1>6, <1>7, <1>8, <1>9, <1>10, <1>11, <1>12, <1>13, <1>14, <1>15,
             <1>16, <1>17 DEF Step

-----------------------------------------------------------------------------
(* The inductive invariant.                                                *)

LEMMA InitInv == Init => GatewayInv
  <1> SUFFICES ASSUME Init PROVE GatewayInv
    OBVIOUS
  <1> USE DEF Init, JournalInit
  <1>1. TypeOK
    BY InitTypes
  <1>2. Ownership
    BY DEF Ownership, OwnersClaimed, OneOwner, OwnerHasAll, NotEnded, NotStarted,
           UnclaimedEmpty, Owns, Executing, Endings
  <1>3. AttemptState /\ LoopState /\ SeenState
    BY DEF AttemptState, LoopState, SeenState, SeenAt, Executing, Unsettled
  <1>4. RunState
    BY JournalAssumption DEF RunState, ClaimAccounted
  <1>5. BudgetState
    <2>1. TokensIn({}) = 0 /\ IsFiniteSet({})
      BY TokensInNone, FS_EmptySet
    <2> QED BY <2>1, GatewayAssumption, JournalAssumption DEF BudgetState, Executing
  <1> QED BY <1>1, <1>2, <1>3, <1>4, <1>5 DEF GatewayInv

LEMMA WorldInv ==
  ASSUME GatewayInv, UNCHANGED <<journalVars, pc, grantOf, localVars, status, runs>>
  PROVE  Ownership' /\ AttemptState' /\ LoopState' /\ RunState' /\ BudgetState'
  <1> USE DEF GatewayInv, journalVars, localVars
  <1>1. Ownership'
    BY DEF Ownership, OwnersClaimed, OneOwner, OwnerHasAll, NotEnded, NotStarted,
           UnclaimedEmpty, Owns
  <1>2. AttemptState'
    BY DEF AttemptState
  <1>3. LoopState'
    BY DEF LoopState, OpenHistory, JustAppended, Retriable, AttemptsOf
  <1>4. RunState'
    BY DEF RunState, ClaimAccounted, AttemptsOf
  <1>5. BudgetState'
    BY DEF BudgetState, Pending
  <1> QED BY <1>1, <1>2, <1>3, <1>4, <1>5

LEMMA NextInv == GatewayInv /\ [Next]_vars => GatewayInv'
  <1> SUFFICES ASSUME GatewayInv, [Next]_vars PROVE GatewayInv'
    OBVIOUS
  <1> USE DEF GatewayInv
  <1>1. CASE WorldNext
    <2>1. UNCHANGED <<journalVars, pc, grantOf, localVars, status, runs>>
      BY <1>1 DEF WorldNext, Decide, MoveSource, ChangeReadiness, PassTime, World
    <2> QED BY <1>1, <2>1, WorldTypes, WorldInv, WorldSeen
  <1>2. CASE \E i \in Invocations : Begin(i) \/ Step(i) \/ Abort(i)
    BY <1>2, StepTypes, StepOwnership, StepAttempts, StepLoop, StepRuns, StepSeen,
       StepBudget
  <1>3. CASE UNCHANGED vars
    <2>1. UNCHANGED <<journalVars, pc, grantOf, localVars, status, runs>>
      BY <1>3 DEF vars
    <2>2. TypeOK'
      BY <1>3 DEF vars, worldVars, authorityVars, journalVars, localVars, TypeOK,
                  AuthorityTypeOK, JournalTypeOK
    <2>3. \A g : Holds(g)' = Holds(g)
      BY <1>3, HoldsSame DEF vars
    <2>4. SeenState'
      BY <1>3, <2>3 DEF vars, localVars, SeenState, SeenAt
    <2> QED BY <2>1, <2>2, <2>4, WorldInv
  <1> QED BY <1>1, <1>2, <1>3 DEF Next

(* In every reachable state: types, who owns which journal, its history,   *)
(* the actions started and the conditions each executor has seen.          *)
THEOREM GatewayInvariant == Spec => []GatewayInv
  BY InitInv, NextInv, PTL DEF Spec

(* Every variable keeps its type; in particular an attempt number never    *)
(* leaves 1..6 and every row appended is a well-formed observation.        *)
THEOREM TypeCorrect == Spec => []TypeOK
  <1>1. GatewayInv => TypeOK
    BY DEF GatewayInv
  <1> QED BY <1>1, GatewayInvariant, PTL

(* The claim of a requestId: of all the invocations that present one text   *)
(* of a signed payload, in any process and however many died, at most one  *)
(* ever executes.  It says nothing of two texts of one signature, which    *)
(* are two requestIds.                                                     *)
THEOREM AtMostOneExecutor == Spec => []OneExecutor
  <1>1. GatewayInv => OneExecutor
    BY DEF GatewayInv, Ownership, OneOwner, Owns, OneExecutor, Excludes
  <1> QED BY <1>1, GatewayInvariant, PTL

(* A grant that is not claimed has done nothing. *)
LEMMA OnlyClaimsCount ==
  ASSUME GatewayInv, NEW g \in Grants, g \notin claims
  PROVE  runs[g] = 0 /\ TokensUnder(g) = 0
  BY TokensInNone DEF GatewayInv, Ownership, UnclaimedEmpty, TokensUnder

(* The loop of executeBounded starts no more runner actions under one      *)
(* requestId than the payload authorizes, and starts the next one only     *)
(* after the last is on record; under all the requestIds of a payload that *)
(* number is to be taken once for each of them that is claimed.            *)
THEOREM RunsAreAccounted == Spec => []RunsAccounted
  <1>1. ASSUME GatewayInv, NEW g \in Grants
        PROVE  /\ ClaimAccounted(g)
               /\ RunsOf(PayloadOf[g]) <= MaxAttempts[g] * Cardinality(ClaimsOf(PayloadOf[g]))
    <2> DEFINE S == GrantsOf(PayloadOf[g])
               T == ClaimsOf(PayloadOf[g])
    <2>1. IsFiniteSet(S) /\ T \subseteq S /\ S \subseteq Grants /\ T = S \intersect claims
      BY GatewayAssumption DEF GrantsOf, ClaimsOf
    <2>2. \A h \in S : runs[h] \in Nat /\ MaxAttempts[h] = MaxAttempts[g]
      BY <1>1, GatewayAssumption DEF GatewayInv, TypeOK, GrantsOf, Terms
    <2>3. \A h \in T : runs[h] <= MaxAttempts[g]
      BY <1>1, <2>1, <2>2 DEF GatewayInv, RunState, ClaimAccounted
    <2>4. \A h \in S \ T : runs[h] = 0
      BY <1>1, <2>1, OnlyClaimsCount
    <2>5. MaxAttempts[g] \in Nat
      BY JournalAssumption
    <2>6. SumOf(runs, S) <= MaxAttempts[g] * Cardinality(T)
      BY <2>1, <2>2, <2>3, <2>4, <2>5, SumIsAtMost
    <2> QED BY <1>1, <2>6 DEF GatewayInv, RunState, RunsOf, SumOf
  <1>2. GatewayInv => RunsAccounted
    BY <1>1 DEF RunsAccounted
  <1> QED BY <1>2, GatewayInvariant, PTL

LEMMA TokensOfPayload ==
  ASSUME NEW p
  PROVE  TokensOf(p) = SumOf([g \in GrantsOf(p) |-> TokensUnder(g)], GrantsOf(p))
  <1> DEFINE S == GrantsOf(p)
             w == [g \in S |-> TokensUnder(g)]
             RecOf(f) == f = [s \in SUBSET S |->
                                IF s = {} THEN 0 ELSE TokensUnder(Pick(s)) + f[s \ {Pick(s)}]]
  <1>1. TokensOf(p) = (CHOOSE f : RecOf(f))[S]
    BY DEF TokensOf, MapThenSumSet, MapThenFoldSet, Pick
  <1>2. \A s \in SUBSET S : s # {} => w[Pick(s)] = TokensUnder(Pick(s))
    BY PickIsMember
  <1>3. \A f : RecOf(f) <=> Rec(w, f, S)
    BY <1>2 DEF Rec, Unfold
  <1> HIDE DEF RecOf
  <1>4. (CHOOSE f : RecOf(f)) = (CHOOSE f : Rec(w, f, S))
    BY <1>3
  <1> QED BY <1>1, <1>4, SumIs

(* The observations under one requestId, summed over its whole journal and *)
(* in any order, stay within the tokens of the signed payload, however the *)
(* runner's reports are spread over the attempts; those under all its      *)
(* requestIds stay within that number for each of them that is claimed.    *)
THEOREM TokensStayInBudget == Spec => []BudgetRespected
  <1>1. ASSUME GatewayInv, NEW g \in Grants
        PROVE  /\ TokensUnder(g) <= MaxTokens[g]
               /\ TokensOf(PayloadOf[g]) <= MaxTokens[g] * Cardinality(ClaimsOf(PayloadOf[g]))
    <2> DEFINE S == GrantsOf(PayloadOf[g])
               T == ClaimsOf(PayloadOf[g])
               w == [h \in S |-> TokensUnder(h)]
    <2>1. IsFiniteSet(S) /\ T \subseteq S /\ S \subseteq Grants /\ T = S \intersect claims
      BY GatewayAssumption DEF GrantsOf, ClaimsOf
    <2>2. \A h \in Grants : TokensUnder(h) \in Nat /\ TokensUnder(h) <= MaxTokens[h]
      <3>1. \A h \in Grants : \A r \in observations[h] : r.tokens \in Nat
        BY <1>1, ObservationTokens DEF GatewayInv, TypeOK, JournalTypeOK
      <3> QED BY <1>1, <3>1, TokensType DEF GatewayInv, BudgetState, TokensUnder
    <2>3. \A h \in S : MaxTokens[h] = MaxTokens[g]
      BY GatewayAssumption DEF GrantsOf, Terms
    <2>4. /\ \A h \in S : w[h] \in Nat
          /\ \A h \in T : w[h] <= MaxTokens[g]
      BY <2>1, <2>2, <2>3
    <2>5. \A h \in S \ T : w[h] = 0
      BY <1>1, <2>1, OnlyClaimsCount
    <2>6. MaxTokens[g] \in Nat
      BY GatewayAssumption, JournalAssumption
    <2>7. SumOf(w, S) <= MaxTokens[g] * Cardinality(T)
      <3> HIDE DEF S, T, w
      <3> QED BY <2>1, <2>4, <2>5, <2>6, SumIsAtMost
    <2> QED BY <2>2, <2>7, TokensOfPayload
  <1>2. GatewayInv => BudgetRespected
    BY <1>1 DEF BudgetRespected
  <1> QED BY <1>2, GatewayInvariant, PTL

(* The report executeBounded returns is exactly the journal of its grant.  *)
THEOREM ReportsAreDurable == Spec => []ReportIsJournal
  <1>1. GatewayInv => ReportIsJournal
    BY DEF GatewayInv, Ownership, OwnerHasAll, ReportIsJournal
  <1> QED BY <1>1, GatewayInvariant, PTL

(* A claim was preceded, since its call began, by an instant at which each *)
(* of its conditions held, whatever the owner and the sources did between  *)
(* the awaits of the checks.                                               *)
THEOREM ClaimsAreJustified == Spec => []ClaimJustified
  <1>1. ASSUME GatewayInv PROVE ClaimJustified
    <2> SUFFICES ASSUME NEW i \in Invocations, pc[i] = "claim"
                 PROVE  seen[i] = Conditions
      BY DEF ClaimJustified
    <2>1. SeenAt(i) /\ seen[i] \subseteq Conditions
      BY <1>1 DEF GatewayInv, SeenState, TypeOK
    <2> QED BY <2>1 DEF SeenAt, Conditions
  <1> QED BY <1>1, GatewayInvariant, PTL

(* Between two runner actions the grant was once unexpired and its sources *)
(* were once current.                                                      *)
THEOREM ActionsAreJustified == Spec => []ActionsJustified
  <1>1. GatewayInv => ActionsJustified
    BY DEF GatewayInv, SeenState, SeenAt, ActionsJustified
  <1> QED BY <1>1, GatewayInvariant, PTL

-----------------------------------------------------------------------------
(* What steps may never do.                                                *)

LEMMA AbandonedStep ==
  ASSUME GatewayInv, [Next]_vars, NEW g \in Grants, Abandoned(g)
  PROVE  Abandoned(g)' /\ observations'[g] = observations[g] /\ runs'[g] = runs[g]
  <1>1. CASE UNCHANGED <<journalVars, pc, grantOf, runs>>
    BY <1>1 DEF Abandoned, journalVars
  <1>2. ASSUME NEW i \in Invocations, Begin(i) \/ Step(i) \/ Abort(i)
        PROVE  Abandoned(g)' /\ observations'[g] = observations[g] /\ runs'[g] = runs[g]
    <2> USE DEF GatewayInv, TypeOK, JournalTypeOK, Abandoned, Executing, Before, Places
    <2>1. CASE Quiet(i)
      BY <2>1 DEF Quiet, journalVars
    <2>2. CASE Claims(i)
      BY <2>2 DEF Claims
    <2>3. CASE Appends(i)
      BY <2>3 DEF Appends
    <2> QED BY <1>2, <2>1, <2>2, <2>3, StepShape
  <1>3. WorldNext \/ UNCHANGED vars => UNCHANGED <<journalVars, pc, grantOf, runs>>
    BY DEF WorldNext, Decide, MoveSource, ChangeReadiness, PassTime, World, vars
  <1> QED BY <1>1, <1>2, <1>3 DEF Next

(* A spent requestId is never recycled: once its executor has gone, no     *)
(* step starts an action under it or adds to its journal.                  *)
THEOREM SpentGrantsStaySpent == Spec => AbandonedStaysSpent
  <1>1. GatewayInv /\ [Next]_vars
          => [\A g \in Grants : Abandoned(g) =>
                /\ Abandoned(g)'
                /\ observations'[g] = observations[g] /\ runs'[g] = runs[g]]_vars
    BY AbandonedStep
  <1> QED BY <1>1, GatewayInvariant, PTL DEF Spec, AbandonedStaysSpent

LEMMA JournalStep ==
  ASSUME GatewayInv, [Next]_vars
  PROVE  [Journal!JournalNext]_(Journal!journalVars)
  <1> USE DEF Journal!journalVars
  <1>1. CASE UNCHANGED journalVars
    BY <1>1 DEF journalVars
  <1>2. WorldNext \/ UNCHANGED vars => UNCHANGED journalVars
    BY DEF WorldNext, Decide, MoveSource, ChangeReadiness, PassTime, World, vars
  <1>3. ASSUME NEW i \in Invocations, Begin(i) \/ Step(i) \/ Abort(i)
        PROVE  [Journal!JournalNext]_(Journal!journalVars)
    <2> DEFINE g == grantOf[i]
    <2>1. g \in Grants
      BY DEF GatewayInv, TypeOK
    <2>2. CASE Quiet(i)
      BY <1>1, <2>2 DEF Quiet
    <2>3. CASE Claims(i)
      BY <2>1, <2>3 DEF Claims, Journal!JournalNext, Journal!Claim
    <2>4. CASE Appends(i)
      <3>1. pc[i] = "append" /\ g \in claims /\ held[i] \in Observation
        BY <2>4 DEF Appends, GatewayInv, TypeOK
      <3>2. held[i].attempt = attempt[i] /\ attempt[i] <= MaxAttempts[g]
        BY <3>1 DEF GatewayInv, AttemptState, Executing
      <3>3. OpenHistory(i, g)
        BY <3>1 DEF GatewayInv, LoopState, Unsettled, Executing
      <3>4. Journal!Retriable(g)
        BY <3>3 DEF OpenHistory, Retriable, Journal!Retriable
      <3>5. Journal!AttemptsOf(g) = 1..(held[i].attempt - 1)
        BY <3>2, <3>3 DEF OpenHistory, AttemptsOf, Journal!AttemptsOf
      <3>6. Journal!Record(g, held[i])
        BY <2>4, <3>1, <3>2, <3>4, <3>5 DEF Appends, Journal!Record
      <3>7. held[i] \in Journal!Observation
        BY <3>1 DEF Observation, Observed, Unobserved, Journal!Observation,
                    Journal!Observed, Journal!Unobserved
      <3> QED BY <2>1, <3>6, <3>7 DEF Journal!JournalNext
    <2> QED BY <1>3, <2>2, <2>3, <2>4, StepShape DEF GatewayInv
  <1> QED BY <1>1, <1>2, <1>3 DEF Next

(* The gateway implements the journal's contract: its claims and appends   *)
(* are Claim and Record steps, every other step leaves the journal alone.  *)
THEOREM GatewayImplementsJournal == Spec => JournalContract
  <1>1. Init => Journal!JournalInit
    BY DEF Init, JournalInit, Journal!JournalInit
  <1>2. GatewayInv /\ [Next]_vars => [Journal!JournalNext]_(Journal!journalVars)
    BY JournalStep
  <1> QED BY <1>1, <1>2, GatewayInvariant, PTL
    DEF Spec, JournalContract, Journal!JournalSpec

-----------------------------------------------------------------------------
(* Invocations come to an end: what WF_vars(Step(i)) turns into            *)
(* InvocationsEnd is that no step of anybody lengthens what i has left.    *)

(* The await after each one. *)
Following ==
  [idle |-> "entry", entry |-> "readiness", readiness |-> "verify",
   verify |-> "assertAdopted", assertAdopted |-> "assertMayExecute",
   assertMayExecute |-> "assertCurrent", assertCurrent |-> "claim", claim |-> "loop",
   loop |-> "recheck", recheck |-> "execute", execute |-> "running",
   running |-> "append", append |-> "settle"]

Advances(i, place) == pc' = [pc EXCEPT ![i] = place]

(* One step leads to the next await, to the end or round the loop. *)
LEMMA StepAdvances ==
  ASSUME TypeOK, NEW i \in Invocations, Begin(i) \/ Step(i) \/ Abort(i)
  PROVE  /\ pc[i] # "done" /\ grantOf' = grantOf
         /\ \/ /\ attempt' = attempt
               /\ \/ pc[i] # "settle" /\ Advances(i, Following[pc[i]])
                  \/ Advances(i, "done")
            \/ /\ pc[i] = "settle" /\ Advances(i, "loop")
               /\ attempt' = [attempt EXCEPT ![i] = @ + 1]
  <1> USE DEF Advances, Following, Goto, localVars
  <1>1. ASSUME NEW p \in Places \ {"done"}, Finish(i, p, status'[i]) \/ Throw(i, p)
        PROVE  pc[i] # "done" /\ grantOf' = grantOf /\ attempt' = attempt /\ Advances(i, "done")
    BY <1>1 DEF Finish, Throw, Places
  <1>2. ASSUME NEW p \in Places \ {"settle", "done"}, NEW ok, Check(i, p, ok, Following[p])
        PROVE  /\ pc[i] # "done" /\ grantOf' = grantOf /\ attempt' = attempt
               /\ (pc[i] # "settle" /\ Advances(i, Following[pc[i]])) \/ Advances(i, "done")
    BY <1>1, <1>2 DEF Check
  <1>3. CASE Begin(i) \/ ReadReadiness(i) \/ StartRunner(i) \/ AppendObservation(i)
    BY <1>3 DEF Begin, ReadReadiness, StartRunner, AppendObservation
  <1>4. CASE Abort(i)
    BY <1>4 DEF Abort, Throw, Finish
  <1>5. CASE AssertCurrentAtEntry(i) \/ VerifyGrant(i) \/ AssertAdopted(i)
             \/ AssertMayExecute(i) \/ AssertCurrent(i)
    <2>1. PICK p \in {"entry", "verify", "assertAdopted", "assertMayExecute", "assertCurrent"},
               ok \in BOOLEAN : Check(i, p, ok, Following[p])
      <3> USE DEF Check
      <3>1. CASE AssertCurrentAtEntry(i)
        BY <3>1 DEF AssertCurrentAtEntry
      <3>2. CASE VerifyGrant(i)
        BY <3>2 DEF VerifyGrant
      <3>3. CASE AssertAdopted(i)
        BY <3>3 DEF AssertAdopted
      <3>4. CASE AssertMayExecute(i)
        BY <3>4 DEF AssertMayExecute
      <3>5. CASE AssertCurrent(i)
        BY <3>5 DEF AssertCurrent
      <3> QED BY <1>5, <3>1, <3>2, <3>3, <3>4, <3>5
    <2> QED BY <1>2, <2>1 DEF Places
  <1>6. CASE ClaimGrant(i) \/ NextAttempt(i) \/ Recheck(i)
    BY <1>6 DEF ClaimGrant, NextAttempt, Recheck, Finish, Throw
  <1>7. CASE RunnerSettles(i)
    <2>1. PICK r : Hold(i, r)
      BY <1>7 DEF RunnerSettles, RunnerThrows, RunnerReturns
    <2> QED BY <2>1 DEF Hold
  <1>8. CASE Settle(i)
    BY <1>8 DEF Settle, Finish
  <1> QED BY <1>3, <1>4, <1>5, <1>6, <1>7, <1>8 DEF Step

(* An executor at the head of its loop has made all its attempts at most. *)
LEMMA AttemptsLeft ==
  ASSUME GatewayInv, NEW i \in Invocations, pc[i] # "done"
  PROVE  /\ attempt[i] \in 1..MaxAttempts[grantOf[i]] + 1
         /\ pc[i] # "loop" => attempt[i] <= MaxAttempts[grantOf[i]]
         /\ MaxAttempts[grantOf[i]] \in 1..5 /\ pc[i] \in DOMAIN Lead
  <1> DEFINE g == grantOf[i]
  <1>1. /\ g \in Grants /\ attempt[i] \in 1..6 /\ MaxAttempts[g] \in 1..5
        /\ pc[i] \in Places
    BY JournalAssumption DEF GatewayInv, TypeOK
  <1>2. CASE pc[i] \in Before
    BY <1>1, <1>2 DEF GatewayInv, AttemptState, Lead, Before, Executing, Places
  <1>3. CASE pc[i] \in Executing \ {"loop"}
    BY <1>1, <1>3 DEF GatewayInv, AttemptState, Lead, Executing
  <1>4. CASE pc[i] = "loop"
    <2>1. runs[g] = attempt[i] - 1 /\ runs[g] <= MaxAttempts[g]
      BY <1>1, <1>4 DEF GatewayInv, RunState, ClaimAccounted
    <2> QED BY <1>1, <1>4, <2>1 DEF Lead
  <1> QED BY <1>1, <1>2, <1>3, <1>4 DEF Before

LEMMA OneStepLess ==
  ASSUME GatewayInv, NEW i \in Invocations, NEW j \in Invocations,
         Begin(i) \/ Step(i) \/ Abort(i)
  PROVE  IF pc'[j] = pc[j] THEN StepsLeft(j)' = StepsLeft(j)
                           ELSE StepsLeft(j)' < StepsLeft(j)
  <1>1. /\ pc[i] # "done" /\ grantOf' = grantOf
        /\ \/ /\ attempt' = attempt
              /\ \/ pc[i] # "settle" /\ Advances(i, Following[pc[i]])
                 \/ Advances(i, "done")
           \/ /\ pc[i] = "settle" /\ Advances(i, "loop")
              /\ attempt' = [attempt EXCEPT ![i] = @ + 1]
    BY StepAdvances DEF GatewayInv
  <1>2. CASE j # i
    BY <1>1, <1>2 DEF StepsLeft, GatewayInv, TypeOK, Advances
  <1>3. CASE j = i
    <2> USE DEF GatewayInv, TypeOK, Advances
    <2>1. /\ attempt[i] \in 1..MaxAttempts[grantOf[i]] + 1
          /\ pc[i] # "loop" => attempt[i] <= MaxAttempts[grantOf[i]]
          /\ MaxAttempts[grantOf[i]] \in 1..5 /\ pc[i] \in DOMAIN Lead
      BY <1>1, AttemptsLeft
    <2>2. Lead[pc[i]] \in 2..15 /\ (pc[i] = "loop" => Lead[pc[i]] = 7)
          /\ (pc[i] = "settle" => Lead[pc[i]] = 2) /\ Lead["loop"] = 7
      BY <2>1 DEF Lead
    <2>3. StepsLeft(i) = 6 * (MaxAttempts[grantOf[i]] - attempt[i]) + Lead[pc[i]]
          /\ StepsLeft(i) \in Nat \ {0}
      BY <1>1, <2>1, <2>2 DEF StepsLeft
    <2>4. CASE attempt' = attempt /\ pc[i] # "settle" /\ Advances(i, Following[pc[i]])
      <3>1. /\ Following[pc[i]] # pc[i] /\ Following[pc[i]] # "done"
            /\ Lead[Following[pc[i]]] = Lead[pc[i]] - 1
        BY <2>1, <2>4 DEF Lead, Following
      <3>2. pc'[i] = Following[pc[i]]
        BY <2>4
      <3>3. StepsLeft(i)' = 6 * (MaxAttempts[grantOf[i]] - attempt[i]) + Lead[pc[i]] - 1
        BY <1>1, <2>1, <2>2, <2>4, <3>1, <3>2 DEF StepsLeft
      <3> QED BY <1>3, <2>1, <2>2, <2>3, <3>1, <3>2, <3>3
    <2>5. CASE Advances(i, "done")
      <3>1. pc'[i] = "done" /\ StepsLeft(i)' = 0
        BY <2>5 DEF StepsLeft
      <3> QED BY <1>1, <1>3, <2>3, <3>1
    <2>6. CASE pc[i] = "settle" /\ Advances(i, "loop")
               /\ attempt' = [attempt EXCEPT ![i] = @ + 1]
      <3>1. pc'[i] = "loop" /\ attempt'[i] = attempt[i] + 1
        BY <2>6
      <3>2. StepsLeft(i)' = 6 * (MaxAttempts[grantOf[i]] - (attempt[i] + 1)) + 7
        BY <1>1, <2>2, <3>1 DEF StepsLeft
      <3> QED BY <1>3, <2>1, <2>2, <2>3, <2>6, <3>1, <3>2
    <2> QED BY <1>1, <2>4, <2>5, <2>6
  <1> QED BY <1>2, <1>3

(* executeBounded does a bounded amount of work: from its call an          *)
(* invocation takes at most nine steps and six for each authorized         *)
(* attempt, whatever the owner, the sources and the other invocations do,  *)
(* and the journal's keys never refuse the observation it has to append.   *)
THEOREM GatewayWorkIsBounded == Spec => []WorkIsBounded
  <1>1. ASSUME GatewayInv PROVE WorkIsBounded
    <2> SUFFICES ASSUME NEW i \in Invocations
                 PROVE  /\ StepsLeft(i) \in 0..6 * MaxAttempts[grantOf[i]] + 9
                        /\ pc[i] = "append" => /\ grantOf[i] \in claims
                                               /\ held[i].attempt \notin AttemptsOf(grantOf[i])
      BY DEF WorkIsBounded
    <2> DEFINE g == grantOf[i]
    <2>1. MaxAttempts[g] \in 1..5
      BY <1>1, JournalAssumption DEF GatewayInv, TypeOK
    <2>2. StepsLeft(i) \in 0..6 * MaxAttempts[g] + 9
      <3>1. CASE pc[i] = "done"
        BY <2>1, <3>1 DEF StepsLeft
      <3>2. CASE pc[i] # "done"
        <4>1. /\ attempt[i] \in 1..MaxAttempts[g] + 1
              /\ pc[i] # "loop" => attempt[i] <= MaxAttempts[g]
              /\ pc[i] \in DOMAIN Lead
          BY <1>1, <3>2, AttemptsLeft
        <4>2. Lead[pc[i]] \in 2..15 /\ (pc[i] = "loop" => Lead[pc[i]] = 7)
          BY <4>1 DEF Lead
        <4>3. \A m \in 1..5, a \in 1..6, l \in 2..15 :
                a <= m \/ (a = m + 1 /\ l = 7) => 6 * (m - a) + l \in 0..6 * m + 9
          OBVIOUS
        <4>4. attempt[i] \in 1..6 /\ (attempt[i] <= MaxAttempts[g] \/
                (attempt[i] = MaxAttempts[g] + 1 /\ Lead[pc[i]] = 7))
          BY <2>1, <4>1, <4>2
        <4>5. 6 * (MaxAttempts[g] - attempt[i]) + Lead[pc[i]] \in 0..6 * MaxAttempts[g] + 9
          BY <2>1, <4>2, <4>3, <4>4
        <4> QED BY <3>2, <4>5 DEF StepsLeft
      <3> QED BY <3>1, <3>2
    <2>3. ASSUME pc[i] = "append"
          PROVE  g \in claims /\ held[i].attempt \notin AttemptsOf(g)
      <3>1. g \in claims /\ OpenHistory(i, g) /\ held[i].attempt = attempt[i]
        BY <1>1, <2>3 DEF GatewayInv, Ownership, OwnersClaimed, Owns, LoopState, Unsettled,
                          Executing, AttemptState
      <3>2. attempt[i] \in 1..6 /\ AttemptsOf(g) = 1..(attempt[i] - 1)
        BY <1>1, <3>1 DEF GatewayInv, TypeOK, OpenHistory
      <3> QED BY <3>1, <3>2
    <2> QED BY <2>2, <2>3
  <1> QED BY <1>1, GatewayInvariant, PTL

(* Each step of an invocation is one less it has left, and nobody else's   *)
(* step, no decision and no tick gives it more: it cannot be kept going.   *)
THEOREM GatewayCountsDown == Spec => StepsCountDown
  <1>1. ASSUME GatewayInv, [Next]_vars, NEW i \in Invocations
        PROVE  IF pc'[i] = pc[i] THEN StepsLeft(i)' = StepsLeft(i)
                                 ELSE StepsLeft(i)' < StepsLeft(i)
    <2>1. CASE WorldNext \/ UNCHANGED vars
      <3>1. UNCHANGED <<pc, grantOf, attempt>>
        BY <2>1 DEF WorldNext, Decide, MoveSource, ChangeReadiness, PassTime, World, vars,
                    localVars
      <3> QED BY <3>1 DEF StepsLeft
    <2>2. CASE \E j \in Invocations : Begin(j) \/ Step(j) \/ Abort(j)
      BY <1>1, <2>2, OneStepLess
    <2> QED BY <1>1, <2>1, <2>2 DEF Next
  <1>2. GatewayInv /\ [Next]_vars
          => [\A i \in Invocations : IF pc'[i] = pc[i] THEN StepsLeft(i)' = StepsLeft(i)
                                     ELSE StepsLeft(i)' < StepsLeft(i)]_vars
    BY <1>1
  <1> QED BY <1>2, GatewayInvariant, PTL DEF Spec, StepsCountDown
=============================================================================
