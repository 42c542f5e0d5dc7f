--------------------------- MODULE WorkflowInspection ---------------------------
(***************************************************************************)
(* executeAndVerifyScopedInspection: a signed read-only inspection is run  *)
(* through the gateway, its attempts are read back from the journal, an    *)
(* independent verifier fetches the same pinned files again, and only then *)
(* is a verdict inserted and read back.  Several invocations may present   *)
(* the grant, any may die at any await, GitHub and the database may fail   *)
(* at every request, and the live source moves meanwhile.                  *)
(*                                                                         *)
(* The gateway's own steps are WorkflowGateway's: here one action claims   *)
(* the grant and one makes an attempt.  The source is pinned by its SHA,   *)
(* so a path always holds the same bytes and a digest is the bag of files  *)
(* it was computed from.                                                   *)
(***************************************************************************)
EXTENDS FiniteSets, FiniteSetsExt, Naturals, Sequences

CONSTANTS Files, Dirs, DirOf,  \* the tree: a directory per file, or none
          Bytes,               \* size of each file
          MaxFileBytes, MaxTotalBytes, MaxFiles,
          Inspectors           \* invocations

\* A tree is finite, and no path is both a file and a directory.
ASSUME InspectionAssumption ==
  IsFiniteSet(Files) /\ MaxFiles \in Nat /\ \A f \in Files : DirOf[f] \notin Files

VARIABLES scopes,     \* allowedPaths of the grant
          live,       \* the repository is still at the grant's SHA
          claimed,    \* WorkflowExecutionClaim
          attempts,   \* WorkflowExecutionObservation of the grant
          verdicts,   \* WorkflowExecutionQaVerification
          inspector   \* invocations

inspectionVars == <<scopes, live, claimed, attempts, verdicts, inspector>>

Bags == [Files -> 0..2]
Nothing == [f \in Files |-> 0]
Outcomes == {"succeeded", "runner-error"}
Observations == [outcome : Outcomes, digest : Bags]
RunnerError == [outcome |-> "runner-error", digest |-> Nothing]

\* reported: the attempts of this run; since: history, the source was live
\* at some instant since the files were verified.
Inspector == [at : {"idle", "preflight", "claim", "attempt", "read back", "current",
                    "verify", "still current", "append", "read verdict", "verified",
                    "blocked", "threw", "disagreed"},
              reported : Seq(Observations), since : BOOLEAN]

TypeOKInspection ==
  /\ scopes \subseteq Files \union Dirs
  /\ live \in BOOLEAN /\ claimed \in BOOLEAN
  /\ attempts \in Seq(Observations)
  /\ verdicts \subseteq [attempt : {1}, digest : Bags, live : BOOLEAN]
  /\ inspector \in [Inspectors -> Inspector]

InitInspection ==
  /\ scopes \in {s \in SUBSET (Files \union Dirs) : Cardinality(s) \in 1..MaxFiles}
  /\ live = TRUE /\ claimed = FALSE /\ attempts = <<>> /\ verdicts = {}
  /\ inspector = [i \in Inspectors |-> [at |-> "idle", reported |-> <<>>, since |-> FALSE]]
-----------------------------------------------------------------------------
(* The executor and the verifier.                                          *)

\* A directory stands for the files directly in it.
FilesUnder(s) == IF s \in Files THEN {s} ELSE {f \in Files : DirOf[f] = s}
InScope(f) == f \in scopes \/ DirOf[f] \in scopes

Count(bag) == MapThenSumSet(LAMBDA f : bag[f], Files)
Total(bag) == MapThenSumSet(LAMBDA f : bag[f] * Bytes[f], Files)

(* loadFile for every file of every scope; those seen are not read again. *)
Loaded == [f \in Files |-> IF \E s \in scopes : f \in FilesUnder(s) THEN 1 ELSE 0]

Bounded(bag) ==
  /\ \A f \in Files : bag[f] > 0 => Bytes[f] <= MaxFileBytes
  /\ Total(bag) <= MaxTotalBytes

(* ScopedGitHubReadExecutor.execute, when GitHub answers every request. *)
ExecutorAccepts == Loaded # Nothing /\ Count(Loaded) <= MaxFiles /\ Bounded(Loaded)

(* PinnedInspectionQaVerifier.verify of an observation, likewise. *)
VerifierAccepts(o) ==
  /\ o.outcome = "succeeded"
  /\ Count(o.digest) \in 1..MaxFiles
  /\ \A f \in Files : o.digest[f] > 0 => InScope(f) /\ o.digest[f] = 1
  /\ Bounded(o.digest)
-----------------------------------------------------------------------------
(* The pipeline.                                                           *)

InspectorAt(i, place) == inspector[i].at = place
Move(i, place) == inspector' = [inspector EXCEPT ![i].at = place]

(* A check that throws when it fails. *)
MoveIf(i, ok, place) == Move(i, IF ok THEN place ELSE "threw")

StartInspection(i) ==
  InspectorAt(i, "idle") /\ Move(i, "preflight")
  /\ UNCHANGED <<scopes, live, claimed, attempts, verdicts>>

Preflight(i) ==
  InspectorAt(i, "preflight") /\ MoveIf(i, live, "claim")
  /\ UNCHANGED <<scopes, live, claimed, attempts, verdicts>>

(* The gateway claims the grant once and for all. *)
ClaimInspection(i) ==
  /\ InspectorAt(i, "claim")
  /\ MoveIf(i, live /\ ~claimed, "attempt")
  /\ claimed' = (claimed \/ live)
  /\ UNCHANGED <<scopes, live, attempts, verdicts>>

(* The loop for an inspection: it stops before the action when the source  *)
(* has moved or the grant has run out; a runner error ends it, and so does *)
(* a success.  The append may commit although its await is rejected.       *)
Attempt(i) ==
  /\ InspectorAt(i, "attempt")
  /\ \/ Move(i, "read back") /\ UNCHANGED attempts
     \/ \E o \in {RunnerError} \union {[outcome |-> "succeeded", digest |-> d] :
                                       d \in IF ExecutorAccepts THEN {Loaded} ELSE {}} :
          /\ live
          /\ attempts' = Append(attempts, o)
          /\ \E place \in {"read back", "threw"} :
               inspector' = [inspector EXCEPT ![i].at = place, ![i].reported = <<o>>]
  /\ UNCHANGED <<scopes, live, claimed, verdicts>>

(* The journal must hold what the gateway reported; a run that did not     *)
(* succeed ends here, blocked.                                             *)
ReadBack(i) ==
  /\ InspectorAt(i, "read back")
  /\ LET done == inspector[i].reported IN
     Move(i, IF attempts # done THEN "threw"
             ELSE IF \E n \in DOMAIN done : done[n].outcome = "succeeded"
               THEN "current" ELSE "blocked")
  /\ UNCHANGED <<scopes, live, claimed, attempts, verdicts>>

AssertCurrentSource(i) ==
  InspectorAt(i, "current") /\ MoveIf(i, live, "verify")
  /\ UNCHANGED <<scopes, live, claimed, attempts, verdicts>>

(* The verifier fetches every file again; GitHub may refuse. *)
Verify(i) ==
  /\ InspectorAt(i, "verify")
  /\ \/ Move(i, "threw")
     \/ inspector' = [inspector EXCEPT
          ![i].at = IF VerifierAccepts(attempts[Len(attempts)])
                      THEN "still current" ELSE "disagreed",
          ![i].since = live]
  /\ UNCHANGED <<scopes, live, claimed, attempts, verdicts>>

(* Seeded fault: what was current before the verification is taken to be. *)
StillCurrentUnchecked == TRUE

StillCurrent == live

AssertStillCurrent(i) ==
  InspectorAt(i, "still current") /\ MoveIf(i, StillCurrent, "append")
  /\ UNCHANGED <<scopes, live, claimed, attempts, verdicts>>

(* appendVerified: one row per attempt, which a trigger compares with the  *)
(* observation; the insert may also fail, before or after it committed.    *)
AppendVerdict(i) ==
  LET n == Len(attempts)
      row == [attempt |-> n, digest |-> attempts[n].digest, live |-> inspector[i].since]
  IN /\ InspectorAt(i, "append")
     /\ \/ /\ \A v \in verdicts : v.attempt # n
           /\ attempts[n].outcome = "succeeded"
           /\ verdicts' = verdicts \union {row}
           /\ \E place \in {"read verdict", "threw"} : Move(i, place)
        \/ Move(i, "threw") /\ UNCHANGED verdicts
     /\ UNCHANGED <<scopes, live, claimed, attempts>>

ReadVerdict(i) ==
  /\ InspectorAt(i, "read verdict")
  /\ MoveIf(i, \E v \in verdicts : /\ v.attempt = Len(attempts)
                                   /\ v.digest = attempts[v.attempt].digest, "verified")
  /\ UNCHANGED <<scopes, live, claimed, attempts, verdicts>>

(* The process dies or an await is rejected. *)
Die(i) ==
  inspector[i].at \notin {"idle", "verified", "blocked", "threw"} /\ Move(i, "threw")
  /\ UNCHANGED <<scopes, live, claimed, attempts, verdicts>>

(* The branch moves off the pinned SHA, or back to it. *)
MoveHead ==
  /\ live' = ~live
  /\ inspector' = [i \in Inspectors |-> [inspector[i] EXCEPT !.since = @ \/ live']]
  /\ UNCHANGED <<scopes, claimed, attempts, verdicts>>

NextInspection ==
  \/ MoveHead
  \/ \E i \in Inspectors :
       \/ StartInspection(i) \/ Preflight(i) \/ ClaimInspection(i) \/ Attempt(i)
       \/ ReadBack(i) \/ AssertCurrentSource(i) \/ Verify(i)
       \/ AssertStillCurrent(i) \/ AppendVerdict(i) \/ ReadVerdict(i) \/ Die(i)

SpecInspection == InitInspection /\ [][NextInspection]_inspectionVars
-----------------------------------------------------------------------------
(* Properties.                                                             *)

(* A verdict is about the one successful attempt of the grant, over all    *)
(* and only the files its scope holds, and the source was live at some     *)
(* instant after they were verified; an invocation says verified only when *)
(* the verdict is stored, whatever failed on the way.                      *)
VerdictIsBacked ==
  /\ \A v \in verdicts :
       /\ v.attempt = Len(attempts) /\ attempts[v.attempt].outcome = "succeeded"
       /\ v.digest = attempts[v.attempt].digest
       /\ \A f \in Files : v.digest[f] = IF InScope(f) THEN 1 ELSE 0
       /\ v.live
  /\ \A i \in Inspectors : InspectorAt(i, "verified") => verdicts # {}

(* Executor and verifier are written apart and bound files, bytes and      *)
(* scopes each in its own way: over the same bytes they never disagree.    *)
VerifierAgrees == \A i \in Inspectors : ~InspectorAt(i, "disagreed")

(* Both: what is verified was inspected whole, once, and while it was live, *)
(* and the two implementations that must say so cannot part.                *)
InspectionIsBacked == VerdictIsBacked /\ VerifierAgrees
-----------------------------------------------------------------------------
(* The journal of the one grant, as WorkflowJournal knows it: an           *)
(* inspection is authorized for one attempt and reports no tokens.         *)

AttemptRow(n) == [attempt |-> n, outcome |-> attempts[n].outcome,
                  digest |-> attempts[n].digest, tokens |-> 0]

Journalled == INSTANCE WorkflowJournal WITH
  Grants <- {"inspection"}, MaxAttempts <- [g \in {"inspection"} |-> 1],
  Fingerprints <- Bags \ {Nothing}, NoDigest <- Nothing, TokenBound <- 0,
  claims <- IF claimed THEN {"inspection"} ELSE {},
  observations <- [g \in {"inspection"} |-> {AttemptRow(n) : n \in DOMAIN attempts}]

(* Whichever invocation runs the inspection, dies or is refused, what      *)
(* reaches the journal is what the journal's contract allows.              *)
InspectionContract == Journalled!JournalSpec
=============================================================================
