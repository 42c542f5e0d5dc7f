--------------------------- MODULE WorkflowJournal ---------------------------
(***************************************************************************)
(* What the durable execution journal promises about a requestId, its key, *)
(* without saying which process writes it: it is claimed at most once      *)
(* and for ever, and its observations are numbered without a gap and only  *)
(* continue a history of failures that all look different.                 *)
(***************************************************************************)
EXTENDS Integers

CONSTANTS Grants,        \* grants as presented; a grant is its requestId
          Fingerprints,  \* observation digests
          MaxAttempts,   \* the attempts each grant authorizes
          TokenBound,    \* bound: tokens a runner may report
          NoDigest

ASSUME JournalAssumption ==
  /\ MaxAttempts \in [Grants -> 1..5]
  /\ TokenBound \in Nat
  /\ NoDigest \notin Fingerprints

VARIABLES claims,       \* rows of WorkflowExecutionClaim
          observations  \* rows of WorkflowExecutionObservation, by grant

journalVars == <<claims, observations>>

Observed == [attempt : 1..5, outcome : {"succeeded", "failed"},
             digest : Fingerprints, tokens : 0..TokenBound]
Unobserved == [attempt : 1..5, outcome : {"runner-error", "invalid-result"},
               digest : {NoDigest}, tokens : {0}]
Observation == Observed \union Unobserved

JournalTypeOK ==
  /\ claims \subseteq Grants
  /\ observations \in [Grants -> SUBSET Observation]

JournalInit ==
  /\ claims = {}
  /\ observations = [g \in Grants |-> {}]

AttemptsOf(g) == {r.attempt : r \in observations[g]}

(* A grant is open to one more attempt while all it has observed is        *)
(* failures with pairwise different fingerprints.                          *)
Retriable(g) ==
  /\ \A r \in observations[g] : r.outcome = "failed"
  /\ \A r, q \in observations[g] : r.digest = q.digest => r = q

Claim(g) ==
  /\ g \notin claims
  /\ claims' = claims \union {g}
  /\ UNCHANGED observations

Record(g, r) ==
  /\ g \in claims
  /\ Retriable(g)
  /\ r.attempt <= MaxAttempts[g]
  /\ AttemptsOf(g) = 1..(r.attempt - 1)
  /\ observations' = [observations EXCEPT ![g] = @ \union {r}]
  /\ UNCHANGED claims

JournalNext ==
  \E g \in Grants : Claim(g) \/ \E r \in Observation : Record(g, r)

JournalSpec == JournalInit /\ [][JournalNext]_journalVars
=============================================================================
