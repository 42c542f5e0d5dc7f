------------------------- MODULE RevisionAcceptance -------------------------
(***************************************************************************)
(* What the acceptance of a revision promises, without saying who calls,   *)
(* what is read when and in how many writes: a revision that is fit is     *)
(* settled once, on one upload of a run that passed on it, and only a      *)
(* settled revision is accepted.  Nothing of it is ever taken back.        *)
(***************************************************************************)
CONSTANTS Revisions, CandidateOf, SevereFindings,
          Runs, RevisionOf, NoSource

VARIABLES outcome,   \* the decision on each candidate
          passed,    \* runs of the gate that have succeeded
          uploads,   \* what the runs have uploaded
          settled,   \* the source of each revision
          accepted   \* revisions

recordVars == <<outcome, passed, uploads, settled, accepted>>

Candidates == {CandidateOf[r] : r \in Revisions}
Fit(r) ==
  outcome[CandidateOf[r]] = "approve" /\ CandidateOf[r] \notin SevereFindings

RecordInit ==
  /\ outcome = [c \in Candidates |-> "none"]
  /\ passed = {} /\ uploads = {} /\ accepted = {}
  /\ settled = [r \in Revisions |-> NoSource]

Decide(c) ==
  /\ outcome[c] = "none"
  /\ \E o \in {"approve", "reject"} : outcome' = [outcome EXCEPT ![c] = o]
  /\ UNCHANGED <<passed, uploads, settled, accepted>>

Finish(run) ==
  /\ passed' \in {passed, passed \union {run}} /\ uploads \subseteq uploads'
  /\ UNCHANGED <<outcome, settled, accepted>>

Settle(r, source) ==
  /\ settled[r] = NoSource /\ Fit(r)
  /\ source.run \in passed /\ RevisionOf[source.run] = r
  /\ settled' = [settled EXCEPT ![r] = source]
  /\ UNCHANGED <<outcome, passed, uploads, accepted>>

Accept(r) ==
  /\ settled[r] # NoSource /\ accepted' = accepted \union {r}
  /\ UNCHANGED <<outcome, passed, uploads, settled>>

RecordNext ==
  \/ \E c \in Candidates : Decide(c)
  \/ \E run \in Runs : Finish(run)
  \/ \E r \in Revisions : Accept(r) \/ \E source \in uploads : Settle(r, source)

RecordSpec == RecordInit /\ [][RecordNext]_recordVars
=============================================================================
