------------------------- MODULE WorkflowEvidenceProofs -------------------------
(***************************************************************************)
(* Proofs about the evidence of workflows.  Scoped inspections, for any    *)
(* tree, scope and number of invocations, whichever of them dies and       *)
(* however the source moves: what a step of                                *)
(* executeAndVerifyScopedInspection may rely on is that nobody else has    *)
(* claimed the grant, and that executor and verifier, written apart, count *)
(* the same files is a fact about sums.  The workflow studio, for any      *)
(* valid workflows and receipts: its recursive functions are taken apart   *)
(* by the acyclicity that validateWorkflow checks, its loop over the       *)
(* receipts by what it has computed after each of them.                    *)
(***************************************************************************)
EXTENDS WorkflowInspection, WorkflowStudio, SequenceTheorems, FiniteSums

(* An invocation that holds the claim, and one that has read its success.  *)
Inspected == {"current", "verify", "still current", "append", "read verdict", "verified"}
Running == {"attempt", "read back", "blocked", "disagreed"} \union Inspected

(* The grant's one attempt has succeeded. *)
Success == attempts # <<>> /\ attempts[1].outcome = "succeeded"

AttemptsAreLoads ==
  attempts # <<>> =>
    /\ Len(attempts) = 1
    /\ Success => ExecutorAccepts /\ attempts[1].digest = Loaded

InspectorOK(i) ==
  LET k == inspector[i]
  IN /\ k.at \in Running => claimed
     /\ k.at = "attempt" => attempts = <<>>
     /\ k.at \in Inspected => Success
     /\ k.at = "still current" => (live => k.since)
     /\ k.at = "append" => k.since
     /\ k.at = "verified" => verdicts # {}
     /\ k.at # "disagreed"

VerdictsOK ==
  \A v \in verdicts : Success /\ v.digest = attempts[1].digest /\ v.live

OneRun ==
  \A i, j \in Inspectors : inspector[i].at \in Running /\ inspector[j].at \in Running => i = j

InspectionInv ==
  /\ TypeOKInspection /\ AttemptsAreLoads /\ VerdictsOK /\ OneRun
  /\ ~claimed => attempts = <<>>
  /\ \A i \in Inspectors : InspectorOK(i)

-----------------------------------------------------------------------------
(* What the executor loads is what the scope holds, once each. *)
LEMMA LoadedIsScope ==
  ASSUME scopes \subseteq Files \union Dirs, NEW f \in Files
  PROVE  Loaded[f] = IF InScope(f) THEN 1 ELSE 0
<1>1. (\E s \in scopes : f \in FilesUnder(s)) <=> InScope(f)
  <2>1. ASSUME NEW s \in scopes, f \in FilesUnder(s) PROVE InScope(f)
    BY <2>1 DEF FilesUnder, InScope
  <2>2. ASSUME f \in scopes PROVE \E s \in scopes : f \in FilesUnder(s)
    BY <2>2 DEF FilesUnder
  <2>3. ASSUME DirOf[f] \in scopes PROVE \E s \in scopes : f \in FilesUnder(s)
    BY <2>3, InspectionAssumption DEF FilesUnder
  <2> QED BY <2>1, <2>2, <2>3 DEF InScope
<1> QED BY <1>1 DEF Loaded

(* Executor and verifier agree on it. *)
LEMMA LoadsAreAccepted ==
  ASSUME InspectionInv, Success
  PROVE  VerifierAccepts(attempts[Len(attempts)])
<1> DEFINE o == attempts[1]
<1>1. /\ Len(attempts) = 1 /\ o.outcome = "succeeded" /\ o.digest = Loaded /\ Loaded # Nothing
      /\ Count(Loaded) <= MaxFiles /\ Bounded(Loaded) /\ scopes \subseteq Files \union Dirs
  BY DEF InspectionInv, TypeOKInspection, Success, AttemptsAreLoads, ExecutorAccepts
<1>2. \A f \in Files : Loaded[f] \in {0, 1} /\ (Loaded[f] > 0 => InScope(f))
  BY <1>1, LoadedIsScope
<1>3. Count(Loaded) \in 1..MaxFiles
  <2>1. Count(Loaded) = SumOf(Loaded, Files)
    BY DEF Count, SumOf
  <2>2. Loaded = [f \in Files |-> Loaded[f]] /\ Nothing = [f \in Files |-> 0]
    BY DEF Loaded, Nothing
  <2>3. PICK f \in Files : Loaded[f] = 1
    BY <1>1, <1>2, <2>2
  <2>4. Loaded[f] <= SumOf(Loaded, Files) /\ SumOf(Loaded, Files) \in Nat
    BY <1>2, InspectionAssumption, SumType, SumIsAtLeast
  <2> QED BY <1>1, <2>1, <2>3, <2>4, InspectionAssumption
<1> HIDE DEF o
<1> QED BY <1>1, <1>2, <1>3 DEF VerifierAccepts, o

LEMMA InspectionInit == InitInspection => InspectionInv
<1> SUFFICES ASSUME InitInspection PROVE InspectionInv
  OBVIOUS
<1>1. TypeOKInspection
  <2>1. [at |-> "idle", reported |-> <<>>, since |-> FALSE] \in Inspector
    BY DEF Inspector
  <2>2. scopes \subseteq Files \union Dirs /\ inspector \in [Inspectors -> Inspector]
    BY <2>1 DEF InitInspection
  <2>3. attempts \in Seq(Observations)
    BY DEF InitInspection
  <2> QED BY <2>2, <2>3 DEF InitInspection, TypeOKInspection
<1>2. \A i \in Inspectors : inspector[i].at = "idle"
  BY DEF InitInspection
<1> QED
  BY <1>1, <1>2
  DEF InitInspection, InspectionInv, AttemptsAreLoads, VerdictsOK, OneRun, InspectorOK, Running,
      Inspected

Places == {"idle", "preflight", "claim", "attempt", "read back", "current", "verify",
           "still current", "append", "read verdict", "verified", "blocked", "threw", "disagreed"}

(* An invocation moves on, and nothing else happens. *)
LEMMA MovesKeepInspection ==
  ASSUME InspectionInv, NEW i \in Inspectors, NEW k \in Inspector,
         inspector' = [inspector EXCEPT ![i] = k],
         UNCHANGED <<scopes, live, claimed, attempts, verdicts>>,
         k.at \in Running => inspector[i].at \in Running,
         k.at # "attempt", k.at # "disagreed", k.at \in Inspected => Success,
         k.at = "still current" => (live => k.since), k.at = "append" => k.since,
         k.at = "verified" => verdicts # {}
  PROVE  InspectionInv'
<1>1. \A j \in Inspectors : inspector'[j] = IF j = i THEN k ELSE inspector[j]
  BY DEF InspectionInv, TypeOKInspection
<1>2. TypeOKInspection'
  BY <1>1 DEF InspectionInv, TypeOKInspection
<1>3. OneRun'
  BY <1>1 DEF InspectionInv, OneRun
<1>4. AttemptsAreLoads' /\ VerdictsOK' /\ (~claimed' => attempts' = <<>>)
  BY DEF InspectionInv, AttemptsAreLoads, VerdictsOK, Success, ExecutorAccepts, Loaded
<1>5. ASSUME NEW j \in Inspectors PROVE InspectorOK(j)'
  <2>1. CASE j = i
    BY <1>1, <2>1 DEF InspectionInv, InspectorOK, Success
  <2>2. CASE j # i
    BY <1>1, <2>2 DEF InspectionInv, InspectorOK, Success
  <2> QED BY <2>1, <2>2
<1> QED BY <1>2, <1>3, <1>4, <1>5 DEF InspectionInv

(* An invocation as it is at another place. *)
LEMMA At ==
  ASSUME TypeOKInspection, NEW i \in Inspectors, NEW place \in Places
  PROVE  /\ [inspector[i] EXCEPT !.at = place] \in Inspector
         /\ [inspector[i] EXCEPT !.at = place].at = place
         /\ [inspector[i] EXCEPT !.at = place].since = inspector[i].since
         /\ Move(i, place) => inspector' = [inspector EXCEPT ![i] = [inspector[i] EXCEPT !.at = place]]
  BY DEF TypeOKInspection, Inspector, Places, Move

(* StartInspection up to ClaimInspection, and the steps that only look. *)
LEMMA LooksKeepInspection ==
  ASSUME InspectionInv, NEW i \in Inspectors,
         \/ StartInspection(i) \/ Preflight(i) \/ ReadBack(i) \/ AssertCurrentSource(i)
         \/ AssertStillCurrent(i) \/ ReadVerdict(i) \/ Die(i)
  PROVE  InspectionInv'
<1> USE DEF InspectorAt, MoveIf
<1>0. TypeOKInspection /\ InspectorOK(i)
  BY DEF InspectionInv
<1>1. ASSUME NEW place \in Places, Move(i, place),
             UNCHANGED <<scopes, live, claimed, attempts, verdicts>>,
             place \in Running => inspector[i].at \in Running,
             place # "attempt", place # "disagreed", place \in Inspected => Success,
             place = "still current" => (live => inspector[i].since),
             place = "append" => inspector[i].since,
             place = "verified" => verdicts # {}
      PROVE  InspectionInv'
  <2> DEFINE k == [inspector[i] EXCEPT !.at = place]
  <2>1. /\ k \in Inspector /\ k.at = place /\ k.since = inspector[i].since
        /\ inspector' = [inspector EXCEPT ![i] = k]
    BY <1>0, <1>1, At
  <2> HIDE DEF k
  <2> QED BY <1>1, <2>1, MovesKeepInspection
<1>2. ASSUME NEW place \in {"preflight", "claim", "threw"}, Move(i, place),
             UNCHANGED <<scopes, live, claimed, attempts, verdicts>>
      PROVE  InspectionInv'
  BY <1>1, <1>2 DEF Places, Running, Inspected
<1>3. CASE StartInspection(i) \/ Preflight(i) \/ Die(i)
  BY <1>2, <1>3 DEF StartInspection, Preflight, Die
<1>4. CASE ReadBack(i)
  <2> DEFINE done == inspector[i].reported
  <2>1. inspector[i].at \in Running
    BY <1>4 DEF ReadBack, Running
  <2>2. CASE Move(i, "threw")
    BY <1>2, <1>4, <2>2 DEF ReadBack
  <2>3. CASE Move(i, "blocked")
    BY <1>1, <1>4, <2>1, <2>3 DEF ReadBack, Places, Running, Inspected
  <2>4. CASE attempts = done /\ (\E n \in DOMAIN done : done[n].outcome = "succeeded")
               /\ Move(i, "current")
    <3>1. DOMAIN attempts = 1..Len(attempts)
      BY <1>0 DEF TypeOKInspection
    <3>2. attempts # <<>>
      BY <2>4, <3>1
    <3>3. Len(attempts) = 1
      BY <3>2 DEF InspectionInv, AttemptsAreLoads
    <3>4. Success
      BY <2>4, <3>1, <3>2, <3>3 DEF Success
    <3> QED BY <1>1, <1>4, <2>1, <2>4, <3>4 DEF ReadBack, Places
  <2> QED BY <1>4, <2>2, <2>3, <2>4 DEF ReadBack
<1>5. CASE AssertCurrentSource(i)
  BY <1>0, <1>1, <1>2, <1>5
  DEF AssertCurrentSource, InspectorOK, Places, Running, Inspected
<1>6. CASE AssertStillCurrent(i)
  BY <1>0, <1>1, <1>2, <1>6
  DEF AssertStillCurrent, StillCurrent, InspectorOK, Places, Running, Inspected
<1>7. CASE ReadVerdict(i)
  BY <1>0, <1>1, <1>2, <1>7 DEF ReadVerdict, InspectorOK, Places, Running, Inspected
<1> QED BY <1>3, <1>4, <1>5, <1>6, <1>7

LEMMA ClaimKeepsInspection ==
  ASSUME InspectionInv, NEW i \in Inspectors, ClaimInspection(i)
  PROVE  InspectionInv'
<1> USE DEF InspectorAt, MoveIf, ClaimInspection
<1> DEFINE to == IF live /\ ~claimed THEN "attempt" ELSE "threw"
           k == [inspector[i] EXCEPT !.at = to]
<1>0. to \in Places /\ Move(i, to) /\ TypeOKInspection
  BY DEF InspectionInv, Places
<1>1. /\ k \in Inspector /\ k.at = to /\ inspector' = [inspector EXCEPT ![i] = k]
  <2> HIDE DEF to
  <2> QED BY <1>0, At
<1> HIDE DEF k
<1>2. \A j \in Inspectors : inspector'[j] = IF j = i THEN k ELSE inspector[j]
  BY <1>1 DEF InspectionInv, TypeOKInspection
<1>3. TypeOKInspection'
  BY <1>1 DEF InspectionInv, TypeOKInspection
<1>4. OneRun'
  <2>1. ~claimed => \A j \in Inspectors : inspector[j].at \notin Running
    BY DEF InspectionInv, InspectorOK
  <2>2. claimed => k.at \notin Running
    BY <1>1 DEF Running, Inspected
  <2> QED BY <1>2, <2>1, <2>2 DEF InspectionInv, OneRun
<1>5. AttemptsAreLoads' /\ VerdictsOK' /\ (~claimed' => attempts' = <<>>)
  BY DEF InspectionInv, AttemptsAreLoads, VerdictsOK, Success, ExecutorAccepts, Loaded
<1>6. ASSUME NEW j \in Inspectors PROVE InspectorOK(j)'
  <2>1. CASE j = i
    BY <1>1, <1>2, <2>1 DEF InspectionInv, InspectorOK, Running, Inspected
  <2>2. CASE j # i
    BY <1>2, <2>2 DEF InspectionInv, InspectorOK, Success
  <2> QED BY <2>1, <2>2
<1> QED BY <1>3, <1>4, <1>5, <1>6 DEF InspectionInv

LEMMA OneIsASequence ==
  ASSUME NEW S, NEW x \in S
  PROVE  <<x>> \in Seq(S) /\ Append(<<>>, x) = <<x>>
<1>1. <<x>> \in Seq(S)
  OBVIOUS
<1>2. Append(<<>>, x) = <<x>>
  OBVIOUS
<1> QED BY <1>1, <1>2

(* The gateway runs the executor. *)
LEMMA AttemptKeepsInspection ==
  ASSUME InspectionInv, NEW i \in Inspectors, Attempt(i)
  PROVE  InspectionInv'
<1> USE DEF InspectorAt
<1>0. /\ TypeOKInspection /\ InspectorOK(i) /\ inspector[i].at = "attempt"
      /\ claimed /\ attempts = <<>>
  BY DEF InspectionInv, InspectorOK, Attempt, Running
<1>1. CASE Move(i, "read back") /\ UNCHANGED attempts
  <2> DEFINE k == [inspector[i] EXCEPT !.at = "read back"]
  <2>1. /\ k \in Inspector /\ k.at = "read back" /\ inspector' = [inspector EXCEPT ![i] = k]
    BY <1>0, <1>1, At DEF Places
  <2> HIDE DEF k
  <2> QED
    BY <1>0, <1>1, <2>1, MovesKeepInspection DEF Attempt, Running, Inspected
<1>2. ASSUME NEW o \in Observations, o.outcome = "succeeded" => ExecutorAccepts /\ o.digest = Loaded,
             NEW place \in {"read back", "threw"}, attempts' = Append(attempts, o),
             inspector' = [inspector EXCEPT ![i].at = place, ![i].reported = <<o>>],
             UNCHANGED <<scopes, live, claimed, verdicts>>
      PROVE  InspectionInv'
  <2> DEFINE k == [inspector[i] EXCEPT !.at = place, !.reported = <<o>>]
  <2>1. k \in Inspector /\ k.at = place
    <3>1. <<o>> \in Seq(Observations) /\ inspector[i] \in Inspector
      BY <1>0, OneIsASequence DEF TypeOKInspection
    <3> QED BY <3>1 DEF Inspector
  <2> HIDE DEF k
  <2>2. inspector' = [inspector EXCEPT ![i] = k]
    BY <1>0, <1>2 DEF TypeOKInspection, k
  <2>3. \A j \in Inspectors : inspector'[j] = IF j = i THEN k ELSE inspector[j]
    BY <1>0, <2>2 DEF TypeOKInspection
  <2>4. attempts' = <<o>> /\ attempts' \in Seq(Observations)
    <3>1. Append(<<>>, o) = <<o>> /\ <<o>> \in Seq(Observations)
      BY OneIsASequence
    <3> QED BY <1>0, <1>2, <3>1
  <2>5. TypeOKInspection'
    BY <1>0, <1>2, <2>1, <2>2, <2>4 DEF TypeOKInspection
  <2>6. OneRun'
    BY <1>0, <2>3 DEF InspectionInv, OneRun, Running
  <2>7. verdicts = {}
    BY <1>0 DEF InspectionInv, VerdictsOK, Success
  <2>8. AttemptsAreLoads' /\ VerdictsOK'
    <3>1. Len(<<o>>) = 1 /\ <<o>>[1] = o
      OBVIOUS
    <3>2. ExecutorAccepts' = ExecutorAccepts /\ Loaded' = Loaded
      BY <1>2 DEF ExecutorAccepts, Loaded
    <3> QED BY <1>2, <2>4, <2>7, <3>1, <3>2 DEF AttemptsAreLoads, VerdictsOK, Success
  <2>9. ASSUME NEW j \in Inspectors PROVE InspectorOK(j)'
    <3>1. CASE j = i
      BY <1>0, <1>2, <2>1, <2>3, <3>1 DEF InspectorOK, Running, Inspected
    <3>2. CASE j # i
      <4>1. inspector[j].at \notin Running /\ inspector'[j] = inspector[j]
        BY <1>0, <2>3, <3>2 DEF InspectionInv, OneRun, Running
      <4> QED BY <4>1 DEF InspectorOK, Running, Inspected
    <3> QED BY <3>1, <3>2
  <2> QED BY <1>0, <1>2, <2>5, <2>6, <2>8, <2>9 DEF InspectionInv
<1>3. RunnerError \in Observations /\ RunnerError.outcome # "succeeded"
  BY DEF RunnerError, Observations, Outcomes, Bags, Nothing
<1>4. [outcome |-> "succeeded", digest |-> Loaded] \in Observations
  BY DEF Observations, Outcomes, Bags, Loaded
<1> QED BY <1>1, <1>2, <1>3, <1>4 DEF Attempt

(* The verifier fetches every file again. *)
LEMMA VerifyKeepsInspection ==
  ASSUME InspectionInv, NEW i \in Inspectors, Verify(i)
  PROVE  InspectionInv'
<1> USE DEF InspectorAt
<1>0. /\ TypeOKInspection /\ inspector[i].at = "verify" /\ Success
      /\ UNCHANGED <<scopes, live, claimed, attempts, verdicts>>
  BY DEF InspectionInv, InspectorOK, Verify, Inspected
<1>1. CASE Move(i, "threw")
  <2> DEFINE k == [inspector[i] EXCEPT !.at = "threw"]
  <2>1. k \in Inspector /\ k.at = "threw" /\ inspector' = [inspector EXCEPT ![i] = k]
    BY <1>0, <1>1, At DEF Places
  <2> HIDE DEF k
  <2> QED BY <1>0, <2>1, MovesKeepInspection DEF Running, Inspected
<1>2. CASE inspector' = [inspector EXCEPT
             ![i].at = IF VerifierAccepts(attempts[Len(attempts)])
                         THEN "still current" ELSE "disagreed",
             ![i].since = live]
  <2> DEFINE k == [inspector[i] EXCEPT !.at = "still current", !.since = live]
  <2>1. VerifierAccepts(attempts[Len(attempts)])
    BY <1>0, LoadsAreAccepted
  <2>2. inspector' = [inspector EXCEPT ![i] = k]
    BY <1>0, <1>2, <2>1 DEF TypeOKInspection
  <2>3. k \in Inspector /\ k.at = "still current" /\ k.since = live
    BY <1>0 DEF TypeOKInspection, Inspector
  <2> HIDE DEF k
  <2> QED BY <1>0, <2>2, <2>3, MovesKeepInspection DEF Running, Inspected
<1> QED BY <1>1, <1>2 DEF Verify

(* The element of a sequence of one. *)
LEMMA HeadOfOne ==
  ASSUME NEW S, NEW s \in Seq(S), Len(s) = 1
  PROVE  s[1] \in S
  OBVIOUS

(* The verdict is inserted, or not, and the answer lost, or not. *)
LEMMA AppendKeepsInspection ==
  ASSUME InspectionInv, NEW i \in Inspectors, AppendVerdict(i)
  PROVE  InspectionInv'
<1> USE DEF InspectorAt
<1>0. /\ TypeOKInspection /\ inspector[i].at = "append" /\ Success /\ inspector[i].since
      /\ Len(attempts) = 1 /\ UNCHANGED <<scopes, live, claimed, attempts>>
  BY DEF InspectionInv, InspectorOK, AppendVerdict, Inspected, AttemptsAreLoads, Success
<1>1. ASSUME NEW place \in {"read verdict", "threw"}, Move(i, place),
             UNCHANGED <<scopes, live, claimed, attempts>>,
             verdicts \subseteq verdicts', TypeOKInspection', VerdictsOK'
      PROVE  InspectionInv'
  <2> DEFINE k == [inspector[i] EXCEPT !.at = place]
  <2>1. k \in Inspector /\ k.at = place /\ inspector' = [inspector EXCEPT ![i] = k]
    <3>1. place \in Places
      BY DEF Places
    <3> QED BY <1>0, <1>1, <3>1, At
  <2> HIDE DEF k
  <2>2. \A j \in Inspectors : inspector'[j] = IF j = i THEN k ELSE inspector[j]
    BY <1>0, <2>1 DEF TypeOKInspection
  <2>3. OneRun'
    <3>1. inspector[i].at \in Running
      BY <1>0 DEF Running, Inspected
    <3>2. \A j \in Inspectors : inspector'[j].at \in Running => inspector[j].at \in Running
      BY <2>2, <3>1
    <3> QED BY <3>2 DEF InspectionInv, OneRun
  <2>4. AttemptsAreLoads' /\ (~claimed' => attempts' = <<>>)
    BY <1>1 DEF InspectionInv, AttemptsAreLoads, Success, ExecutorAccepts, Loaded
  <2>5. ASSUME NEW j \in Inspectors PROVE InspectorOK(j)'
    <3>1. CASE j = i
      <4>1. inspector'[j] = k /\ k.at = place
        BY <2>1, <2>2, <3>1
      <4>2. claimed
        BY <1>0 DEF InspectionInv, InspectorOK, Running, Inspected
      <4> QED BY <1>0, <1>1, <4>1, <4>2 DEF InspectorOK, Success
    <3>2. CASE j # i
      BY <1>1, <2>2, <3>2 DEF InspectionInv, InspectorOK, Success
    <3> QED BY <3>1, <3>2
  <2> QED BY <1>1, <2>3, <2>4, <2>5 DEF InspectionInv
<1>2. CASE Move(i, "threw") /\ UNCHANGED verdicts
  <2>1. TypeOKInspection'
    <3> DEFINE k == [inspector[i] EXCEPT !.at = "threw"]
    <3>1. k \in Inspector /\ inspector' = [inspector EXCEPT ![i] = k]
      BY <1>0, <1>2, At DEF Places
    <3> HIDE DEF k
    <3> QED BY <1>0, <1>2, <3>1 DEF TypeOKInspection
  <2> QED BY <1>0, <1>1, <1>2, <2>1 DEF InspectionInv, VerdictsOK, Success
<1>3. ASSUME NEW place \in {"read verdict", "threw"}, Move(i, place),
             verdicts' = verdicts \union
               {[attempt |-> 1, digest |-> attempts[1].digest, live |-> inspector[i].since]}
      PROVE  InspectionInv'
  <2> DEFINE k == [inspector[i] EXCEPT !.at = place]
             row == [attempt |-> 1, digest |-> attempts[1].digest, live |-> inspector[i].since]
  <2>1. k \in Inspector /\ inspector' = [inspector EXCEPT ![i] = k]
    <3>1. place \in Places
      BY DEF Places
    <3> QED BY <1>0, <1>3, <3>1, At
  <2>2. row \in [attempt : {1}, digest : Bags, live : BOOLEAN]
    <3>1. attempts \in Seq(Observations) /\ Len(attempts) = 1
      BY <1>0 DEF TypeOKInspection
    <3>2. attempts[1] \in Observations
      BY <3>1, HeadOfOne
    <3>3. inspector[i] \in Inspector
      BY <1>0 DEF TypeOKInspection
    <3> QED BY <3>2, <3>3 DEF Observations, Inspector
  <2>3. /\ row.digest = attempts[1].digest /\ row.live
    BY <1>0
  <2> HIDE DEF k, row
  <2>4. verdicts' = verdicts \union {row}
    BY <1>3 DEF row
  <2>5. TypeOKInspection'
    BY <1>0, <2>1, <2>2, <2>4 DEF TypeOKInspection
  <2>6. VerdictsOK'
    BY <1>0, <2>3, <2>4 DEF InspectionInv, VerdictsOK, Success
  <2> QED BY <1>0, <1>1, <1>3, <2>4, <2>5, <2>6
<1> QED BY <1>0, <1>2, <1>3 DEF AppendVerdict

LEMMA MoveHeadKeepsInspection ==
  ASSUME InspectionInv, MoveHead
  PROVE  InspectionInv'
<1>1. ASSUME NEW i \in Inspectors
      PROVE  /\ inspector'[i] \in Inspector /\ inspector'[i].at = inspector[i].at
             /\ inspector'[i].since = (inspector[i].since \/ live')
  BY DEF InspectionInv, TypeOKInspection, Inspector, MoveHead
<1>2. TypeOKInspection'
  <2>1. inspector' \in [Inspectors -> Inspector] /\ live' \in BOOLEAN
    BY <1>1 DEF MoveHead, InspectionInv, TypeOKInspection
  <2> QED BY <2>1 DEF MoveHead, InspectionInv, TypeOKInspection
<1>3. OneRun'
  BY <1>1 DEF InspectionInv, OneRun
<1>4. AttemptsAreLoads' /\ VerdictsOK' /\ (~claimed' => attempts' = <<>>)
  BY DEF MoveHead, InspectionInv, AttemptsAreLoads, VerdictsOK, Success, ExecutorAccepts, Loaded
<1>5. ASSUME NEW i \in Inspectors PROVE InspectorOK(i)'
  BY <1>1 DEF MoveHead, InspectionInv, InspectorOK, Success
<1> QED BY <1>2, <1>3, <1>4, <1>5 DEF InspectionInv

(* The grant has one run, of one attempt, which loaded what is in scope.   *)
THEOREM InspectionInvariant == SpecInspection => []InspectionInv
<1>1. InspectionInv /\ [NextInspection]_inspectionVars => InspectionInv'
  <2> SUFFICES ASSUME InspectionInv, [NextInspection]_inspectionVars PROVE InspectionInv'
    OBVIOUS
  <2>1. CASE NextInspection
    BY <2>1, LooksKeepInspection, ClaimKeepsInspection, AttemptKeepsInspection,
       VerifyKeepsInspection, AppendKeepsInspection, MoveHeadKeepsInspection
    DEF NextInspection
  <2>2. CASE UNCHANGED inspectionVars
    BY <2>2
    DEF inspectionVars, InspectionInv, TypeOKInspection, AttemptsAreLoads, VerdictsOK, OneRun,
        InspectorOK, Success, ExecutorAccepts, Loaded
  <2> QED BY <2>1, <2>2
<1> QED BY <1>1, InspectionInit, PTL DEF SpecInspection

(* Whoever dies and however the source moves while                         *)
(* executeAndVerifyScopedInspection runs: a verdict is about the grant's   *)
(* one successful attempt, over all and only the files in scope, and live  *)
(* after they were verified; and the verifier never rejects what the       *)
(* executor has accepted, for any tree, sizes and limits.                  *)
THEOREM InspectionsAreBacked == SpecInspection => []InspectionIsBacked
<1>1. InspectionInv => VerdictIsBacked
  <2> SUFFICES ASSUME InspectionInv PROVE VerdictIsBacked
    OBVIOUS
  <2>1. ASSUME NEW v \in verdicts
        PROVE  /\ v.attempt = Len(attempts) /\ attempts[v.attempt].outcome = "succeeded"
               /\ v.digest = attempts[v.attempt].digest /\ v.digest = Loaded /\ v.live
    BY DEF InspectionInv, TypeOKInspection, VerdictsOK, Success, AttemptsAreLoads
  <2>2. \A f \in Files : Loaded[f] = IF InScope(f) THEN 1 ELSE 0
    BY LoadedIsScope DEF InspectionInv, TypeOKInspection
  <2>3. \A i \in Inspectors : InspectorAt(i, "verified") => verdicts # {}
    BY DEF InspectionInv, InspectorOK, InspectorAt
  <2> QED BY <2>1, <2>2, <2>3 DEF VerdictIsBacked
<1>2. InspectionInv => VerifierAgrees
  BY DEF InspectionInv, InspectorOK, VerifierAgrees, InspectorAt
<1> QED BY <1>1, <1>2, InspectionInvariant, PTL DEF InspectionIsBacked

(* The claim is WorkflowJournal's Claim, an attempt its Record. *)
LEMMA InspectionStep ==
  ASSUME InspectionInv, [NextInspection]_inspectionVars
  PROVE  [Journalled!JournalNext]_(Journalled!journalVars)
<1> USE DEF Journalled!journalVars, InspectorAt
<1>1. CASE UNCHANGED <<claimed, attempts>>
  BY <1>1 DEF AttemptRow
<1>2. ASSUME NEW i \in Inspectors, ClaimInspection(i)
      PROVE  [Journalled!JournalNext]_(Journalled!journalVars)
  <2>1. claimed \in BOOLEAN /\ claimed' \in BOOLEAN /\ attempts' = attempts
        /\ (claimed => claimed')
    BY <1>2 DEF ClaimInspection, InspectionInv, TypeOKInspection
  <2>2. CASE claimed' = claimed
    BY <1>1, <2>1, <2>2
  <2>3. CASE ~claimed /\ claimed'
    <3>1. Journalled!Claim("inspection")
      BY <2>1, <2>3 DEF Journalled!Claim, AttemptRow
    <3> QED BY <3>1 DEF Journalled!JournalNext
  <2> QED BY <2>1, <2>2, <2>3
<1>3. ASSUME NEW i \in Inspectors, Attempt(i)
      PROVE  [Journalled!JournalNext]_(Journalled!journalVars)
  <2>1. claimed /\ claimed' = claimed /\ attempts = <<>>
    BY <1>3 DEF Attempt, InspectionInv, InspectorOK, Running
  <2>2. CASE UNCHANGED attempts
    BY <1>1, <2>1, <2>2
  <2>3. ASSUME NEW o \in Observations, o.outcome = "succeeded" => o.digest # Nothing,
               o.outcome = "runner-error" => o.digest = Nothing,
               attempts' = Append(attempts, o)
        PROVE  Journalled!JournalNext
    <3> DEFINE r == [attempt |-> 1, outcome |-> o.outcome, digest |-> o.digest, tokens |-> 0]
               before == [h \in {"inspection"} |-> {AttemptRow(n) : n \in DOMAIN attempts}]
    <3>1. attempts' = <<o>> /\ DOMAIN attempts = {} /\ DOMAIN attempts' = {1}
      BY <2>1, <2>3, OneIsASequence
    <3>2. before = [h \in {"inspection"} |-> {}]
      BY <3>1
    <3>3. before' = [h \in {"inspection"} |-> {r}]
      BY <3>1 DEF AttemptRow
    <3>4. r \in Journalled!Observation
      BY <2>3 DEF Journalled!Observation, Journalled!Observed, Journalled!Unobserved,
                  Observations, Outcomes
    <3>5. Journalled!AttemptsOf("inspection") = 1..(r.attempt - 1)
      BY <3>1 DEF Journalled!AttemptsOf
    <3>6. Journalled!Retriable("inspection")
      BY <3>1 DEF Journalled!Retriable
    <3>7. before' = [before EXCEPT !["inspection"] = @ \union {r}]
      BY <3>2, <3>3
    <3>8. Journalled!Record("inspection", r)
      BY <2>1, <3>5, <3>6, <3>7 DEF Journalled!Record
    <3> QED BY <3>4, <3>8 DEF Journalled!JournalNext
  <2>4. RunnerError \in Observations
    BY DEF RunnerError, Observations, Outcomes, Bags, Nothing
  <2>5. [outcome |-> "succeeded", digest |-> Loaded] \in Observations
    BY DEF Observations, Outcomes, Bags, Loaded
  <2> QED BY <1>3, <2>2, <2>3, <2>4, <2>5 DEF Attempt, RunnerError, ExecutorAccepts
<1> QED BY <1>1, <1>2, <1>3
  DEF NextInspection, inspectionVars, StartInspection, Preflight, ReadBack, AssertCurrentSource,
      Verify, AssertStillCurrent, AppendVerdict, ReadVerdict, Die, MoveHead

(* WorkflowJournal, which the gateway implements for every grant, is       *)
(* implemented by executeAndVerifyScopedInspection for the grant it runs:  *)
(* no invocation, however it dies or is retried, claims a grant again or   *)
(* writes a second attempt.                                                *)
THEOREM InspectionImplementsJournal == SpecInspection => InspectionContract
<1>1. InitInspection => Journalled!JournalInit
  <2>1. DOMAIN <<>> = {}
    OBVIOUS
  <2> QED BY <2>1 DEF InitInspection, Journalled!JournalInit
<1>2. InspectionInv /\ [NextInspection]_inspectionVars
        => [Journalled!JournalNext]_(Journalled!journalVars)
  BY InspectionStep
<1> QED BY <1>1, <1>2, InspectionInvariant, PTL
  DEF SpecInspection, InspectionContract, Journalled!JournalSpec

-----------------------------------------------------------------------------
(* The graph of a workflow.  That it is acyclic is an induction principle: *)
(* a set that takes every node whose dependencies it has, has them all.    *)

Typed(wf) == wf.nodes \in Seq(StudioNodes)
Sound(wf) == Typed(wf) /\ ValidateWorkflow(wf)

LEMMA ImageIsFinite ==
  ASSUME NEW S, IsFiniteSet(S), NEW f
  PROVE  IsFiniteSet({f[x] : x \in S})
  <1> DEFINE g == [x \in S |-> f[x]]
  <1>1. g \in Surjection(S, {f[x] : x \in S})
    BY DEF Surjection
  <1> QED BY <1>1, FS_Surjection

LEMMA NodesAreFinite ==
  ASSUME NEW wf, Typed(wf)
  PROVE  /\ NodesOf(wf) = {wf.nodes[i] : i \in 1..Len(wf.nodes)}
         /\ NodesOf(wf) \subseteq StudioNodes
         /\ IsFiniteSet(IdsOf(wf)) /\ IdsOf(wf) \subseteq Nat
  <1>1. DOMAIN wf.nodes = 1..Len(wf.nodes) /\ Len(wf.nodes) \in Nat
    BY DEF Typed
  <1>2. NodesOf(wf) = {wf.nodes[i] : i \in 1..Len(wf.nodes)}
    BY <1>1 DEF NodesOf, ToSet
  <1>3. NodesOf(wf) \subseteq StudioNodes
    BY <1>1, <1>2 DEF Typed
  <1>4. IsFiniteSet(1..Len(wf.nodes))
    BY <1>1, FS_Interval
  <1>5. IsFiniteSet(NodesOf(wf))
    BY <1>2, <1>4, ImageIsFinite
  <1>6. IsFiniteSet({n.id : n \in NodesOf(wf)})
    <2> DEFINE f == [n \in NodesOf(wf) |-> n.id]
    <2>1. {n.id : n \in NodesOf(wf)} = {f[n] : n \in NodesOf(wf)}
      OBVIOUS
    <2> HIDE DEF f
    <2>2. IsFiniteSet({f[n] : n \in NodesOf(wf)})
      BY <1>5, ImageIsFinite
    <2> QED BY <2>1, <2>2
  <1>7. IdsOf(wf) \subseteq Nat
    BY <1>3 DEF IdsOf, StudioNodes
  <1> QED BY <1>2, <1>3, <1>6, <1>7 DEF IdsOf

LEMMA NodeIsOfItsId ==
  ASSUME NEW wf, NEW id \in IdsOf(wf)
  PROVE  NodeOf(wf, id) \in NodesOf(wf) /\ NodeOf(wf, id).id = id
  BY DEF NodeOf, IdsOf

LEMMA DependenciesAreKnown ==
  ASSUME NEW wf, Sound(wf), NEW id \in IdsOf(wf)
  PROVE  DependsOn(wf, id) \subseteq IdsOf(wf) /\ IsFiniteSet(DependsOn(wf, id))
  <1>1. DependsOn(wf, id) \subseteq IdsOf(wf)
    BY NodeIsOfItsId DEF Sound, ValidateWorkflow, KnownDependencies, DependsOn
  <1> QED BY <1>1, NodesAreFinite, FS_Subset DEF Sound

LEMMA DagInduction ==
  ASSUME NEW wf, Sound(wf), NEW P,
         \A id \in IdsOf(wf) : DependsOn(wf, id) \subseteq P => id \in P
  PROVE  IdsOf(wf) \subseteq P
  <1> DEFINE S == IdsOf(wf) \ P
  <1>1. SUFFICES ASSUME S # {} PROVE FALSE
    OBVIOUS
  <1>2. PICK id \in S : DependsOn(wf, id) \intersect S = {}
    <2>1. S \in (SUBSET IdsOf(wf)) \ {{}}
      BY <1>1
    <2> HIDE DEF S
    <2> QED BY <2>1 DEF Sound, ValidateWorkflow, Acyclic
  <1>3. DependsOn(wf, id) \subseteq IdsOf(wf)
    BY <1>2, DependenciesAreKnown
  <1> QED BY <1>2, <1>3

-----------------------------------------------------------------------------
(* isAccepted: the largest set of verified nodes with all they depend on.  *)

Rests(wf, verified) ==
  UNION {S \in SUBSET verified : \A id \in S : DependsOn(wf, id) \subseteq S}

AcceptedRec(wf, verified, f) ==
  f = [id \in IdsOf(wf) |-> id \in verified /\ \A d \in DependsOn(wf, id) : f[d]]

LEMMA AcceptedIs ==
  ASSUME NEW wf, NEW verified
  PROVE  Accepted(wf, verified)
           = {id \in IdsOf(wf) : (CHOOSE f : AcceptedRec(wf, verified, f))[id]}
  BY DEF Accepted, AcceptedRec

LEMMA RestsUnfolds ==
  ASSUME NEW wf, NEW verified
  PROVE  \A id : id \in Rests(wf, verified) <=>
                   id \in verified /\ DependsOn(wf, id) \subseteq Rests(wf, verified)
  <1> DEFINE R == Rests(wf, verified)
  <1>1. ASSUME NEW id \in R PROVE id \in verified /\ DependsOn(wf, id) \subseteq R
    <2>1. PICK S \in SUBSET verified :
                 id \in S /\ \A x \in S : DependsOn(wf, x) \subseteq S
      BY <1>1 DEF Rests
    <2>2. S \subseteq R
      BY <2>1 DEF Rests
    <2> QED BY <2>1, <2>2
  <1>2. ASSUME NEW id \in verified, DependsOn(wf, id) \subseteq R PROVE id \in R
    <2>1. R \union {id} \in SUBSET verified
      BY <1>1
    <2>2. \A x \in R \union {id} : DependsOn(wf, x) \subseteq R \union {id}
      BY <1>1, <1>2
    <2> HIDE DEF R
    <2>3. R \union {id} \in {S \in SUBSET verified : \A x \in S : DependsOn(wf, x) \subseteq S}
      BY <2>1, <2>2
    <2> QED BY <2>3 DEF R, Rests
  <1> HIDE DEF R
  <1>3. \A id : id \in R <=> id \in verified /\ DependsOn(wf, id) \subseteq R
    BY <1>1, <1>2
  <1> QED BY <1>3 DEF R

LEMMA AcceptedRests ==
  ASSUME NEW wf, Sound(wf), NEW verified, verified \subseteq IdsOf(wf)
  PROVE  Accepted(wf, verified) = Rests(wf, verified)
  <1> DEFINE R == Rests(wf, verified)
             g == [id \in IdsOf(wf) |-> id \in R]
             f == CHOOSE h : AcceptedRec(wf, verified, h)
  <1>1. R \subseteq IdsOf(wf)
    BY RestsUnfolds
  <1>2. \A id \in IdsOf(wf) : (id \in R) = (id \in verified /\ \A d \in DependsOn(wf, id) : g[d])
    <2> SUFFICES ASSUME NEW id \in IdsOf(wf)
                 PROVE  (id \in R) = (id \in verified /\ \A d \in DependsOn(wf, id) : g[d])
      OBVIOUS
    <2>1. DependsOn(wf, id) \subseteq IdsOf(wf)
      BY DependenciesAreKnown
    <2>2. \A d \in DependsOn(wf, id) : g[d] = (d \in R)
      BY <2>1
    <2>3. id \in R <=> id \in verified /\ DependsOn(wf, id) \subseteq R
      BY RestsUnfolds
    <2> HIDE DEF R, g
    <2>4. (\A d \in DependsOn(wf, id) : g[d]) <=> DependsOn(wf, id) \subseteq R
      BY <2>2
    <2> QED BY <2>3, <2>4
  <1>3. AcceptedRec(wf, verified, g)
    <2> HIDE DEF R
    <2> QED BY <1>2 DEF AcceptedRec
  <1>4. AcceptedRec(wf, verified, f)
    <2> HIDE DEF g
    <2> QED BY <1>3
  <1> DEFINE P == {id \in IdsOf(wf) : f[id] <=> id \in R}
  <1>5. ASSUME NEW id \in IdsOf(wf), DependsOn(wf, id) \subseteq P PROVE id \in P
    <2>1. f[id] = (id \in verified /\ \A d \in DependsOn(wf, id) : f[d])
      <3> HIDE DEF f
      <3> QED BY <1>4 DEF AcceptedRec
    <2>2. id \in R <=> id \in verified /\ DependsOn(wf, id) \subseteq R
      BY RestsUnfolds
    <2>3. \A d \in DependsOn(wf, id) : f[d] <=> d \in R
      BY <1>5
    <2> HIDE DEF f, R
    <2> QED BY <2>1, <2>2, <2>3
  <1>6. IdsOf(wf) \subseteq P
    <2> HIDE DEF P
    <2> QED BY <1>5, DagInduction
  <1>7. Accepted(wf, verified) = {id \in IdsOf(wf) : f[id]}
    BY AcceptedIs
  <1> HIDE DEF f, R
  <1>8. {id \in IdsOf(wf) : f[id]} = R
    BY <1>1, <1>6
  <1> QED BY <1>7, <1>8 DEF R

-----------------------------------------------------------------------------
(* The loop over the receipts: a node is verified by one receipt that      *)
(* counts and compromised by a second; every other receipt is rejected.    *)

Fresh == [verified |-> {}, compromised |-> {}, rejected |-> 0]
Take(wf, head, digest, read, tally, i) ==
  TakeReceipt(wf, head, digest, read[i].found, tally, read[i].receipt)
TallyRec(wf, head, digest, read, f) ==
  f = [s \in SUBSET DOMAIN read |->
         IF s = {} THEN Fresh
         ELSE Take(wf, head, digest, read, f[s \ {Max(s)}], Max(s))]
Tally(wf, head, digest, read) ==
  FoldLeft(LAMBDA t, x : TakeReceipt(wf, head, digest, x.found, t, x.receipt), Fresh, read)

LEMMA TallyIs ==
  ASSUME NEW wf, NEW head, NEW digest, NEW read
  PROVE  Tally(wf, head, digest, read)
           = (CHOOSE f : TallyRec(wf, head, digest, read, f))[DOMAIN read]
  BY DEF Tally, FoldLeft, MapThenFoldSet, TallyRec, Take

(* A set of numbers has a greatest. *)
LEMMA MaxIsGreatest ==
  ASSUME NEW S, IsFiniteSet(S), S \subseteq Nat, S # {}
  PROVE  Max(S) \in S /\ \A x \in S : x <= Max(S)
  <1> DEFINE T == {s \in SUBSET S : s # {} /\ ~ \E m \in s : \A x \in s : m >= x}
  <1>1. SUFFICES ASSUME T # {} PROVE FALSE
    BY DEF Max
  <1>0. T \subseteq SUBSET S
    OBVIOUS
  <1>2. PICK s \in T : \A t \in SUBSET s : t # s => t \notin T
    <2> HIDE DEF T
    <2> QED BY <1>0, <1>1, MinimalCounterexample
  <1>3. PICK y : y \in s
    BY <1>2
  <1>4. s \ {y} # {}
    <2>1. s \ {y} = {} => \A x \in s : y >= x
      BY <1>2, <1>3
    <2> QED BY <1>2, <1>3, <2>1
  <1>5. PICK m \in s \ {y} : \A x \in s \ {y} : m >= x
    BY <1>2, <1>3, <1>4
  <1>6. m \in Nat /\ y \in Nat /\ s \subseteq Nat
    BY <1>2, <1>3, <1>5
  <1>7. \E n \in s : \A x \in s : n >= x
    <2>1. CASE m >= y BY <1>5, <2>1
    <2>2. CASE y >= m BY <1>3, <1>5, <1>6, <2>2
    <2> QED BY <1>6, <2>1, <2>2
  <1> QED BY <1>2, <1>7

Good(wf, head, digest, read, i) == Counts(wf, head, digest, read[i].found, read[i].receipt)
Node(read, i) == read[i].receipt.nodeId
Once(wf, head, digest, read, s) ==
  {id \in IdsOf(wf) : \E i \in s :
     /\ Good(wf, head, digest, read, i) /\ Node(read, i) = id
     /\ \A j \in s : Good(wf, head, digest, read, j) /\ Node(read, j) = id => j = i}
Twice(wf, head, digest, read, s) ==
  {id \in IdsOf(wf) : \E i, j \in s :
     /\ i # j /\ Good(wf, head, digest, read, i) /\ Good(wf, head, digest, read, j)
     /\ Node(read, i) = id /\ Node(read, j) = id}
Tallied(once, twice, rejected) ==
  [verified |-> once, compromised |-> twice, rejected |-> rejected]
Value(wf, head, digest, read, s) ==
  LET once == Once(wf, head, digest, read, s)
      twice == Twice(wf, head, digest, read, s)
  IN Tallied(once, twice, Cardinality(s) - Cardinality(once \union twice))

LEMMA ValueSteps ==
  ASSUME NEW wf, Sound(wf), NEW head, NEW digest, NEW read,
         NEW s, IsFiniteSet(s), NEW x \in s
  PROVE  Value(wf, head, digest, read, s)
           = Take(wf, head, digest, read, Value(wf, head, digest, read, s \ {x}), x)
  <1> DEFINE r == s \ {x}
             n == Node(read, x)
             good == Good(wf, head, digest, read, x)
             O0 == Once(wf, head, digest, read, r)
             W0 == Twice(wf, head, digest, read, r)
             C0 == Cardinality(O0 \union W0)
             O1 == Once(wf, head, digest, read, s)
             W1 == Twice(wf, head, digest, read, s)
             C1 == Cardinality(O1 \union W1)
             u == Value(wf, head, digest, read, s)
  <1>1. /\ IsFiniteSet(r) /\ Cardinality(s) = Cardinality(r) + 1 /\ Cardinality(r) \in Nat
    <2>1. IsFiniteSet(r) /\ Cardinality(r) = Cardinality(s) - 1
      BY FS_RemoveElement
    <2> QED BY <2>1, FS_CardinalityType
  <1>2. /\ O0 \union W0 \subseteq IdsOf(wf) /\ O0 \intersect W0 = {}
        /\ O1 \union W1 \subseteq IdsOf(wf)
    BY DEF Once, Twice
  <1>3. IsFiniteSet(O0 \union W0) /\ C0 \in Nat /\ C1 \in Nat
    BY <1>2, NodesAreFinite, FS_Subset, FS_CardinalityType DEF Sound
  <1>4. good => n \in IdsOf(wf)
    BY DEF Good, Counts, Attests, Node
  <1>5. u = Tallied(O1, W1, Cardinality(s) - C1)
    BY DEF Value
  <1> DEFINE c == Cardinality(r) - C0
             v == Value(wf, head, digest, read, r)
             next == Take(wf, head, digest, read, v, x)
  <1>7. v = Tallied(O0, W0, c)
    BY DEF Value
  <1>8. ASSUME ~good PROVE u = next
    <2>1. O1 = O0 /\ W1 = W0
      BY <1>8 DEF Once, Twice
    <2>2. C1 = C0
      BY <2>1
    <2>3. Cardinality(s) - C1 = c + 1
      <3> HIDE DEF r, C0, C1
      <3> QED BY <1>1, <1>3, <2>2
    <2> HIDE DEF O0, W0, C0, O1, W1, C1, c, v, u
    <2> QED BY <1>5, <1>7, <1>8, <2>1, <2>3 DEF Take, TakeReceipt, Good, Node, Tallied
  <1>9. ASSUME good /\ n \in O0 PROVE u = next
    <2>1. O1 = O0 \ {n} /\ W1 = W0 \union {n}
      BY <1>9 DEF Once, Twice
    <2>2. O1 \union W1 = O0 \union W0
      BY <1>9, <2>1
    <2>3. C1 = C0
      BY <2>2
    <2>4. Cardinality(s) - C1 = c + 1
      <3> HIDE DEF r, C0, C1
      <3> QED BY <1>1, <1>3, <2>3
    <2>5. n \notin W0
      BY <1>2, <1>9
    <2> HIDE DEF O0, W0, C0, O1, W1, C1, c, v, u
    <2> QED BY <1>5, <1>7, <1>9, <2>1, <2>4, <2>5 DEF Take, TakeReceipt, Good, Node, Tallied
  <1>10. ASSUME good /\ n \in W0 PROVE u = next
    <2>1. O1 = O0 /\ W1 = W0
      BY <1>10 DEF Once, Twice
    <2>2. C1 = C0
      BY <2>1
    <2>3. n \notin O0
      BY <1>2, <1>10
    <2>4. Cardinality(s) - C1 = c + 1
      <3> HIDE DEF r, C0, C1
      <3> QED BY <1>1, <1>3, <2>2
    <2> HIDE DEF O0, W0, C0, O1, W1, C1, c, v, u
    <2> QED BY <1>5, <1>7, <1>10, <2>1, <2>3, <2>4 DEF Take, TakeReceipt, Good, Node, Tallied
  <1>11. ASSUME good /\ n \notin O0 /\ n \notin W0 PROVE u = next
    <2>1. O1 = O0 \union {n} /\ W1 = W0
      BY <1>4, <1>11 DEF Once, Twice
    <2>2. C1 = C0 + 1
      <3>1. O1 \union W1 = (O0 \union W0) \union {n}
        BY <2>1
      <3>2. n \notin O0 \union W0 /\ IsFiniteSet(O0 \union W0)
        BY <1>3, <1>11
      <3> HIDE DEF r, n, good, O0, W0, O1, W1
      <3> QED BY <3>1, <3>2, FS_AddElement
    <2>3. Cardinality(s) - C1 = c
      <3> HIDE DEF r, C0, C1
      <3> QED BY <1>1, <1>3, <2>2
    <2> HIDE DEF O0, W0, C0, O1, W1, C1, c, v, u
    <2> QED BY <1>5, <1>7, <1>11, <2>1, <2>3 DEF Take, TakeReceipt, Good, Node, Tallied
  <1>12. u = next
    <2> HIDE DEF n, good, O0, W0, u, next
    <2> QED BY <1>8, <1>9, <1>10, <1>11
  <1> QED BY <1>12

(* Whatever else could be computed, the loop computes this. *)
LEMMA TallyValue ==
  ASSUME NEW wf, Sound(wf), NEW head, NEW digest, NEW n \in Nat, NEW read, DOMAIN read = 1..n
  PROVE  Tally(wf, head, digest, read) = Value(wf, head, digest, read, 1..n)
  <1> DEFINE S == 1..n
             g == [s \in SUBSET S |-> Value(wf, head, digest, read, s)]
             f == CHOOSE h : TallyRec(wf, head, digest, read, h)
  <1>1. IsFiniteSet(S) /\ S \subseteq Nat
    BY FS_Interval
  <1>2. \A s \in SUBSET S : IsFiniteSet(s) /\ (s # {} => Max(s) \in s)
    <2> HIDE DEF S
    <2> QED BY <1>1, FS_Subset, MaxIsGreatest
  <1>3. Value(wf, head, digest, read, {}) = Fresh
    <2>1. Once(wf, head, digest, read, {}) = {} /\ Twice(wf, head, digest, read, {}) = {}
      BY DEF Once, Twice
    <2>2. Cardinality({}) - Cardinality({} \union {}) = 0
      BY FS_EmptySet
    <2> QED BY <2>1, <2>2 DEF Value, Fresh, Tallied
  <1>4. TallyRec(wf, head, digest, read, g)
    <2>1. ASSUME NEW s \in SUBSET S, s # {}
          PROVE  g[s] = Take(wf, head, digest, read, g[s \ {Max(s)}], Max(s))
      <3>1. s \ {Max(s)} \in SUBSET S
        OBVIOUS
      <3>2. Value(wf, head, digest, read, s)
              = Take(wf, head, digest, read, Value(wf, head, digest, read, s \ {Max(s)}), Max(s))
        BY <1>2, <2>1, ValueSteps
      <3> QED BY <3>1, <3>2
    <2>2. g[{}] = Fresh
      BY <1>3
    <2>3. g = [s \in SUBSET S |-> g[s]]
      OBVIOUS
    <2> HIDE DEF g
    <2>4. g = [s \in SUBSET S |-> IF s = {} THEN Fresh
                 ELSE Take(wf, head, digest, read, g[s \ {Max(s)}], Max(s))]
      BY <2>1, <2>2, <2>3
    <2> QED BY <2>4 DEF TallyRec
  <1>5. TallyRec(wf, head, digest, read, f)
    <2> HIDE DEF g
    <2> QED BY <1>4
  <1> HIDE DEF f
  <1>6. \A s \in SUBSET S : f[s] = g[s]
    <2> DEFINE T == {s \in SUBSET S : f[s] # g[s]}
    <2>1. SUFFICES ASSUME T # {} PROVE FALSE
      OBVIOUS
    <2>2. PICK s \in T : \A t \in SUBSET s : t # s => t \notin T
      <3>1. T \subseteq SUBSET S
        OBVIOUS
      <3> HIDE DEF T, S
      <3> QED BY <1>1, <2>1, <3>1, MinimalCounterexample
    <2>3. s \in SUBSET S /\ f[s] # g[s]
      BY <2>2
    <2> HIDE DEF g, S
    <2>4. DOMAIN read = S
      BY DEF S
    <2>5. s # {}
      BY <1>4, <1>5, <2>3, <2>4 DEF TallyRec
    <2>6. f[s \ {Max(s)}] = g[s \ {Max(s)}]
      BY <1>2, <2>2, <2>3, <2>5
    <2> QED BY <1>4, <1>5, <2>3, <2>4, <2>5, <2>6 DEF TallyRec
  <1>7. Tally(wf, head, digest, read) = f[S]
    BY TallyIs DEF f
  <1> QED BY <1>6, <1>7

-----------------------------------------------------------------------------
(* The plan: what the loop leaves, closed under dependencies, is Backed.   *)

Holding(file, plan, id) ==
  {i \in DOMAIN plan.found : /\ plan.found[i] /\ file[i].nodeId = id
                             /\ file[i].appHead = plan.appHead
                             /\ file[i].canonicalDigest = plan.canonicalDigest}
Single(wf, file, plan) == {id \in IdsOf(wf) : Cardinality(Holding(file, plan, id)) = 1}
Unattended(wf, file, plan) ==
  {id \in Single(wf, file, plan) : ~NodeOf(wf, id).humanGate}
BackedIn(wf, file, plan) ==
  UNION {S \in SUBSET Single(wf, file, plan) : \A id \in S :
           ~NodeOf(wf, id).humanGate /\ DependsOn(wf, id) \subseteq S}

LEMMA BackedIsIn ==
  ASSUME NEW wf, NEW plan
  PROVE  Backed(wf, plan) = BackedIn(wf, receipts[wf.workflowId], plan)
  BY DEF Backed, BackedIn, Single, Holding

LEMMA GateIsHuman ==
  ASSUME NEW wf, Sound(wf), NEW id \in IdsOf(wf)
  PROVE  /\ NodeOf(wf, id).humanGate \in BOOLEAN
         /\ IsGate(NodeOf(wf, id)) <=> NodeOf(wf, id).humanGate
  <1>1. NodeOf(wf, id) \in NodesOf(wf) /\ NodeOf(wf, id) \in StudioNodes
    BY NodeIsOfItsId, NodesAreFinite DEF Sound
  <1>2. NodeOf(wf, id).stage = "RELEASE" => NodeOf(wf, id).humanGate
    BY <1>1 DEF Sound, ValidateWorkflow
  <1>3. NodeOf(wf, id).humanGate \in BOOLEAN
    BY <1>1 DEF StudioNodes
  <1> QED BY <1>2, <1>3 DEF IsGate

LEMMA VerifiedIsSingle ==
  ASSUME NEW wf, Sound(wf), NEW file, NEW plan, NEW n \in Nat,
         plan.found \in [1..n -> BOOLEAN], NEW read,
         \A i \in 1..n : read[i].receipt = file[i] /\ read[i].found = plan.found[i]
  PROVE  Once(wf, plan.appHead, plan.canonicalDigest, read, 1..n)
           = Unattended(wf, file, plan)
  <1> DEFINE good(i) == Good(wf, plan.appHead, plan.canonicalDigest, read, i)
             once == Once(wf, plan.appHead, plan.canonicalDigest, read, 1..n)
  <1>1. SUFFICES ASSUME NEW id \in IdsOf(wf)
                 PROVE  id \in once <=> /\ Cardinality(Holding(file, plan, id)) = 1
                                        /\ ~NodeOf(wf, id).humanGate
    BY DEF Once, Single, Unattended
  <1> DEFINE H == Holding(file, plan, id)
  <1>2. DOMAIN plan.found = 1..n
    OBVIOUS
  <1>4. ASSUME NEW i \in 1..n
        PROVE  good(i) /\ Node(read, i) = id <=> i \in H /\ ~NodeOf(wf, id).humanGate
    BY <1>2, GateIsHuman DEF Good, Counts, Attests, Node, Holding
  <1>5. H \subseteq 1..n
    BY <1>2 DEF Holding
  <1>6. IsFiniteSet(H)
    BY <1>5, FS_Interval, FS_Subset
  <1>7. Cardinality(H) = 1 <=> \E i \in 1..n : i \in H /\ \A j \in 1..n : j \in H => j = i
    <2> HIDE DEF H
    <2>1. Cardinality(H) = 1 <=> \E i : H = {i}
      BY <1>6, FS_Singleton
    <2>2. ASSUME NEW i, H = {i} PROVE i \in 1..n /\ i \in H /\ \A j \in 1..n : j \in H => j = i
      BY <1>5, <2>2
    <2>3. ASSUME NEW i \in 1..n, i \in H, \A j \in 1..n : j \in H => j = i PROVE H = {i}
      BY <1>5, <2>3
    <2> QED BY <2>1, <2>2, <2>3
  <1>8. id \in once <=>
          \E i \in 1..n : /\ good(i) /\ Node(read, i) = id
                          /\ \A j \in 1..n : good(j) /\ Node(read, j) = id => j = i
    BY DEF Once
  <1> HIDE DEF H, good, once
  <1>9. id \in once <=> Cardinality(H) = 1 /\ ~NodeOf(wf, id).humanGate
    BY <1>4, <1>7, <1>8
  <1> QED BY <1>9 DEF H

LEMMA RestsIsBacked ==
  ASSUME NEW wf, NEW file, NEW plan
  PROVE  Rests(wf, Unattended(wf, file, plan))
           = BackedIn(wf, file, plan)
  <1> DEFINE V == Unattended(wf, file, plan)
  <1>1. {S \in SUBSET V : \A id \in S : DependsOn(wf, id) \subseteq S}
          = {S \in SUBSET Single(wf, file, plan) : \A id \in S :
               ~NodeOf(wf, id).humanGate /\ DependsOn(wf, id) \subseteq S}
    BY DEF Unattended
  <1> QED BY <1>1 DEF Rests, BackedIn

Receipts == [nodeId : Nat, appHead : Nat, canonicalDigest : Nat]
NodeStates(wf, accepted) == [id \in IdsOf(wf) |-> NodeState(wf, accepted, id)]

LEMMA ReadinessIsBacked ==
  ASSUME NEW wf, Sound(wf), NEW head, NEW digest, NEW found, NEW plan,
         receipts[wf.workflowId] \in Seq(Receipts),
         found \in [DOMAIN receipts[wf.workflowId] -> BOOLEAN],
         plan = Readiness(wf, head, digest, found)
  PROVE  /\ plan.appHead = head /\ plan.canonicalDigest = digest /\ plan.found = found
         /\ plan.nodes = NodeStates(wf, BackedIn(wf, receipts[wf.workflowId], plan))
  <1> DEFINE file == receipts[wf.workflowId]
             n == Len(file)
             read == [i \in DOMAIN found |-> [receipt |-> file[i], found |-> found[i]]]
             verified == Tally(wf, head, digest, read).verified
  <1>1. n \in Nat /\ DOMAIN file = 1..n /\ DOMAIN read = 1..n
    OBVIOUS
  <1>2. /\ plan.appHead = head /\ plan.canonicalDigest = digest /\ plan.found = found
        /\ plan.nodes = NodeStates(wf, Accepted(wf, verified))
    BY DEF Readiness, NodeStates, Tally, Fresh
  <1>3. verified = Once(wf, head, digest, read, 1..n)
    <2> HIDE DEF read, n
    <2>1. Tally(wf, head, digest, read) = Value(wf, head, digest, read, 1..n)
      BY <1>1, TallyValue
    <2> QED BY <2>1 DEF Value, Tallied
  <1>4. verified = Unattended(wf, file, plan)
    <2>1. plan.found \in [1..n -> BOOLEAN]
      BY <1>1, <1>2
    <2>2. \A i \in 1..n : read[i].receipt = file[i] /\ read[i].found = plan.found[i]
      BY <1>1, <1>2
    <2> HIDE DEF read, n, file, verified
    <2>3. Once(wf, plan.appHead, plan.canonicalDigest, read, 1..n)
            = Unattended(wf, file, plan)
      BY <1>1, <2>1, <2>2, VerifiedIsSingle
    <2> QED BY <1>2, <1>3, <2>3
  <1>5. verified \subseteq IdsOf(wf)
    BY <1>3 DEF Once
  <1>6. Accepted(wf, verified) = BackedIn(wf, file, plan)
    <2> HIDE DEF file, verified
    <2>1. Accepted(wf, verified) = Rests(wf, verified)
      BY <1>5, AcceptedRests
    <2> QED BY <1>4, <2>1, RestsIsBacked
  <1> QED BY <1>2, <1>6

LEMMA MarksFollow ==
  ASSUME NEW wf, Sound(wf), studio.workflow = wf, studio.plan # NothingShown,
         studio.plan.nodes = NodeStates(wf, BackedIn(wf, receipts[wf.workflowId], studio.plan))
  PROVE  MarksAreBacked
  <1> DEFINE B == Backed(wf, studio.plan)
  <1> SUFFICES ASSUME NEW id \in IdsOf(wf)
               PROVE  /\ ReviewState(id) = "verified" <=> id \in B
                      /\ ReviewState(id) = "candidate" <=>
                           /\ id \notin B /\ ~NodeOf(wf, id).humanGate
                           /\ DependsOn(wf, id) \subseteq B
    BY DEF MarksAreBacked
  <1>1. id \in B => ~NodeOf(wf, id).humanGate
    BY BackedIsIn DEF BackedIn
  <1> HIDE DEF B
  <1>2. studio.plan.nodes[id] = NodeState(wf, B, id)
    BY BackedIsIn DEF NodeStates, B
  <1>3. IsGate(NodeOf(wf, id)) <=> NodeOf(wf, id).humanGate
    BY GateIsHuman
  <1>4. CASE IsGate(NodeOf(wf, id))
    BY <1>1, <1>3, <1>4 DEF ReviewState
  <1>5. CASE ~IsGate(NodeOf(wf, id)) /\ id \in B
    <2>1. studio.plan.nodes[id] = "verified"
      BY <1>2, <1>5 DEF NodeState
    <2> QED BY <1>5, <2>1 DEF ReviewState
  <1>6. CASE ~IsGate(NodeOf(wf, id)) /\ id \notin B /\ DependsOn(wf, id) \subseteq B
    <2>1. studio.plan.nodes[id] = "available"
      BY <1>2, <1>6 DEF NodeState
    <2> QED BY <1>3, <1>6, <2>1 DEF ReviewState
  <1>7. CASE ~IsGate(NodeOf(wf, id)) /\ id \notin B /\ ~ DependsOn(wf, id) \subseteq B
    <2>1. studio.plan.nodes[id] = "waiting-evidence"
      BY <1>2, <1>7 DEF NodeState
    <2> QED BY <1>7, <2>1 DEF ReviewState
  <1> QED BY <1>4, <1>5, <1>6, <1>7

-----------------------------------------------------------------------------
(* The layout.  Columns are depths; the places in a column are the ranks   *)
(* of a strict order, so that none is shared and none is left empty.       *)

DepthStep(wf, f, id) == Max({0} \union {f[d] + 1 : d \in DependsOn(wf, id)})
DepthRec(wf, f) == f = [id \in IdsOf(wf) |-> DepthStep(wf, f, id)]

LEMMA DepthsIs ==
  ASSUME NEW wf
  PROVE  Depths(wf) = CHOOSE f : DepthRec(wf, f)
  BY DEF Depths, DepthRec, DepthStep

LEMMA DepthStepIs ==
  ASSUME NEW wf, Sound(wf), NEW id \in IdsOf(wf), NEW f, \A d \in DependsOn(wf, id) : f[d] \in Nat
  PROVE  /\ DepthStep(wf, f, id) \in Nat
         /\ \A d \in DependsOn(wf, id) : f[d] < DepthStep(wf, f, id)
         /\ \/ DepthStep(wf, f, id) = 0
            \/ \E d \in DependsOn(wf, id) : DepthStep(wf, f, id) = f[d] + 1
  <1> DEFINE D == DependsOn(wf, id)
             g == [d \in D |-> f[d] + 1]
             S == {0} \union {g[d] : d \in D}
  <1>1. S \subseteq Nat /\ S # {}
    OBVIOUS
  <1>2. IsFiniteSet(S)
    <2>1. IsFiniteSet(D)
      BY DependenciesAreKnown
    <2> HIDE DEF g
    <2>2. IsFiniteSet({g[d] : d \in D})
      BY <2>1, ImageIsFinite
    <2>3. IsFiniteSet({0})
      BY FS_Singleton
    <2> QED BY <2>2, <2>3, FS_Union
  <1>3. DepthStep(wf, f, id) = Max(S)
    BY DEF DepthStep
  <1>4. Max(S) \in S /\ \A x \in S : x <= Max(S)
    <2> HIDE DEF S
    <2> QED BY <1>1, <1>2, MaxIsGreatest
  <1>5. \A d \in D : f[d] + 1 \in S
    OBVIOUS
  <1>6. Max(S) = 0 \/ \E d \in D : Max(S) = f[d] + 1
    BY <1>4
  <1>7. Max(S) \in Nat
    BY <1>1, <1>4
  <1> HIDE DEF S
  <1>8. \A d \in D : f[d] < Max(S)
    BY <1>4, <1>5, <1>7
  <1> QED BY <1>3, <1>6, <1>7, <1>8

(* There is such a function: on the largest set of nodes that is closed    *)
(* under dependencies and has one.                                         *)
Depth(wf, f, T) ==
  /\ \A id \in T : DependsOn(wf, id) \subseteq T
  /\ \A id \in T : f[id] \in Nat /\ f[id] = DepthStep(wf, f, id)

LEMMA DepthStepAgrees ==
  ASSUME NEW wf, NEW id, NEW f, NEW g, \A d \in DependsOn(wf, id) : f[d] = g[d]
  PROVE  DepthStep(wf, f, id) = DepthStep(wf, g, id)
  <1>1. {f[d] + 1 : d \in DependsOn(wf, id)} = {g[d] + 1 : d \in DependsOn(wf, id)}
    OBVIOUS
  <1> QED BY <1>1 DEF DepthStep

LEMMA DepthExists ==
  ASSUME NEW wf, Sound(wf)
  PROVE  \E f : DepthRec(wf, f)
  <1> DEFINE T == {U \in SUBSET IdsOf(wf) : \E f : Depth(wf, f, IdsOf(wf) \ U)}
  <1>1. IdsOf(wf) \in T
    <2>1. Depth(wf, {}, IdsOf(wf) \ IdsOf(wf))
      BY DEF Depth
    <2> QED BY <2>1
  <1>2. PICK U \in T : \A V \in SUBSET U : V # U => V \notin T
    <2>1. T \subseteq SUBSET IdsOf(wf) /\ IsFiniteSet(IdsOf(wf))
      BY NodesAreFinite DEF Sound
    <2> HIDE DEF T
    <2> QED BY <1>1, <2>1, MinimalCounterexample
  <1>3. U \subseteq IdsOf(wf)
    BY <1>2
  <1>4. PICK f : Depth(wf, f, IdsOf(wf) \ U)
    BY <1>2
  <1> DEFINE R == IdsOf(wf) \ U
  <1>5. ASSUME NEW id \in IdsOf(wf), DependsOn(wf, id) \subseteq R PROVE id \in R
    <2> SUFFICES ASSUME id \in U PROVE FALSE
      OBVIOUS
    <2> DEFINE g == [x \in R \union {id} |-> IF x = id THEN DepthStep(wf, f, id) ELSE f[x]]
    <2>1. \A x \in R : g[x] = f[x]
      OBVIOUS
    <2>2. g[id] = DepthStep(wf, f, id)
      OBVIOUS
    <2>3. \A x \in R \union {id} : DependsOn(wf, x) \subseteq R
      BY <1>4, <1>5 DEF Depth
    <2> HIDE DEF g
    <2>4. \A x \in R \union {id} : DepthStep(wf, g, x) = DepthStep(wf, f, x)
      <3> SUFFICES ASSUME NEW x \in R \union {id} PROVE DepthStep(wf, g, x) = DepthStep(wf, f, x)
        OBVIOUS
      <3>1. \A d \in DependsOn(wf, x) : g[d] = f[d]
        BY <2>1, <2>3
      <3> QED BY <3>1, DepthStepAgrees
    <2>5. \A x \in R : f[x] \in Nat /\ f[x] = DepthStep(wf, f, x)
      BY <1>4 DEF Depth
    <2>6. g[id] \in Nat
      BY <1>5, <2>2, <2>5, DepthStepIs
    <2>7. Depth(wf, g, R \union {id})
      BY <2>1, <2>2, <2>3, <2>4, <2>5, <2>6 DEF Depth
    <2>8. IdsOf(wf) \ (U \ {id}) = R \union {id}
      BY <1>3
    <2>9. U \ {id} \in T
      BY <1>3, <2>7, <2>8
    <2> QED BY <1>2, <2>9
  <1>6. IdsOf(wf) \subseteq R
    <2> HIDE DEF R
    <2> QED BY <1>5, DagInduction
  <1>7. \A id \in IdsOf(wf) : f[id] = DepthStep(wf, f, id)
    BY <1>4, <1>6 DEF Depth
  <1> DEFINE h == [id \in IdsOf(wf) |-> f[id]]
  <1>8. ASSUME NEW id \in IdsOf(wf) PROVE h[id] = DepthStep(wf, h, id)
    <2>1. \A d \in DependsOn(wf, id) : h[d] = f[d]
      BY DependenciesAreKnown
    <2>2. h[id] = f[id]
      OBVIOUS
    <2> HIDE DEF h
    <2> QED BY <1>7, <2>1, <2>2, DepthStepAgrees
  <1>9. h = [id \in IdsOf(wf) |-> h[id]]
    OBVIOUS
  <1> HIDE DEF h
  <1>10. h = [id \in IdsOf(wf) |-> DepthStep(wf, h, id)]
    BY <1>8, <1>9
  <1> QED BY <1>10 DEF DepthRec

LEMMA DepthsAre ==
  ASSUME NEW wf, Sound(wf)
  PROVE  \A id \in IdsOf(wf) :
           /\ Depths(wf)[id] \in Nat
           /\ \A d \in DependsOn(wf, id) : Depths(wf)[d] < Depths(wf)[id]
           /\ \/ Depths(wf)[id] = 0
              \/ \E d \in DependsOn(wf, id) : Depths(wf)[id] = Depths(wf)[d] + 1
  <1> DEFINE f == Depths(wf)
  <1>1. DepthRec(wf, f)
    <2> DEFINE c == CHOOSE g : DepthRec(wf, g)
    <2>1. DepthRec(wf, c)
      BY DepthExists
    <2> HIDE DEF c
    <2> QED BY <2>1, DepthsIs DEF c
  <1> HIDE DEF f
  <1>2. \A id \in IdsOf(wf) : f[id] = DepthStep(wf, f, id)
    BY <1>1 DEF DepthRec
  <1> DEFINE P == {id \in IdsOf(wf) : f[id] \in Nat}
  <1>3. ASSUME NEW id \in IdsOf(wf), DependsOn(wf, id) \subseteq P PROVE id \in P
    BY <1>2, <1>3, DepthStepIs
  <1>4. IdsOf(wf) \subseteq P
    <2> HIDE DEF P
    <2> QED BY <1>3, DagInduction
  <1>5. ASSUME NEW id \in IdsOf(wf)
        PROVE  /\ f[id] \in Nat
               /\ \A d \in DependsOn(wf, id) : f[d] < f[id]
               /\ f[id] = 0 \/ \E d \in DependsOn(wf, id) : f[id] = f[d] + 1
    <2>1. \A d \in DependsOn(wf, id) : f[d] \in Nat
      BY <1>4, DependenciesAreKnown
    <2> QED BY <1>2, <2>1, DepthStepIs
  <1> QED BY <1>5 DEF f

(* Ranks: R is a strict order on S, and Rank counts what comes before.     *)
StrictOrder(S, R) ==
  /\ \A x \in S : <<x, x>> \notin R
  /\ \A x, y, z \in S : <<x, y>> \in R /\ <<y, z>> \in R => <<x, z>> \in R
  /\ \A x, y \in S : x # y => <<x, y>> \in R \/ <<y, x>> \in R
Precede(S, R, x) == {y \in S : <<y, x>> \in R}
Rank(S, R, x) == Cardinality(Precede(S, R, x))

LEMMA BeforeIsFinite ==
  ASSUME NEW S, IsFiniteSet(S), NEW R, NEW x
  PROVE  IsFiniteSet(Precede(S, R, x)) /\ Rank(S, R, x) \in Nat
  <1>1. Precede(S, R, x) \subseteq S
    BY DEF Precede
  <1> QED BY <1>1, FS_Subset, FS_CardinalityType DEF Rank

LEMMA RankGrows ==
  ASSUME NEW S, IsFiniteSet(S), NEW R, StrictOrder(S, R), NEW x \in S, NEW y \in S, <<x, y>> \in R
  PROVE  Rank(S, R, x) < Rank(S, R, y)
  <1>1. Precede(S, R, x) \subseteq Precede(S, R, y) /\ x \in Precede(S, R, y) \ Precede(S, R, x)
    BY DEF Precede, StrictOrder
  <1>2. /\ Cardinality(Precede(S, R, x)) <= Cardinality(Precede(S, R, y))
        /\ Cardinality(Precede(S, R, y)) # Cardinality(Precede(S, R, x))
    BY <1>1, BeforeIsFinite, FS_Subset
  <1> QED BY <1>2, BeforeIsFinite DEF Rank

(* What has something before it has something right before it. *)
LEMMA RankSteps ==
  ASSUME NEW S, IsFiniteSet(S), NEW R, StrictOrder(S, R), NEW x \in S, Rank(S, R, x) > 0
  PROVE  \E y \in S : Rank(S, R, x) = Rank(S, R, y) + 1
  <1> DEFINE B == Precede(S, R, x)
             T == {s \in SUBSET B : \E y \in B : s = {z \in B : <<y, z>> \in R}}
  <1>1. B # {} /\ IsFiniteSet(B) /\ B \subseteq S
    <2>1. B = {} => Rank(S, R, x) = 0
      BY FS_EmptySet DEF Rank
    <2> QED BY <2>1, BeforeIsFinite DEF Precede
  <1>2. T # {} /\ T \subseteq SUBSET B
    <2>1. PICK y \in B : TRUE
      BY <1>1
    <2>2. {z \in B : <<y, z>> \in R} \in T
      BY <2>1
    <2> QED BY <2>2
  <1>3. PICK s \in T : \A t \in SUBSET s : t # s => t \notin T
    <2> HIDE DEF T, B
    <2> QED BY <1>1, <1>2, MinimalCounterexample
  <1>4. PICK y \in B : s = {z \in B : <<y, z>> \in R}
    BY <1>3
  <1> HIDE DEF B
  <1>5. \A z \in B : <<y, z>> \notin R
    <2> SUFFICES ASSUME NEW z \in B, <<y, z>> \in R PROVE FALSE
      OBVIOUS
    <2> DEFINE t == {w \in B : <<z, w>> \in R}
    <2>1. t \subseteq s /\ z \in s /\ z \notin t
      BY <1>1, <1>4 DEF StrictOrder
    <2>2. t \in T
      OBVIOUS
    <2> HIDE DEF t, T
    <2> QED BY <1>3, <2>1, <2>2
  <1>6. B = Precede(S, R, y) \union {y}
    <2>1. y \in S /\ y \in B
      BY DEF B, Precede
    <2>2. \A z \in B : z \in S /\ (z = y \/ <<z, y>> \in R)
      BY <1>5, <2>1 DEF B, Precede, StrictOrder
    <2>3. \A z \in S : <<z, y>> \in R => z \in B
      BY <1>1, <2>1 DEF B, Precede, StrictOrder
    <2> QED BY <2>1, <2>2, <2>3 DEF Precede
  <1>7. y \notin Precede(S, R, y)
    BY <1>1 DEF Precede, StrictOrder
  <1>8. Cardinality(B) = Cardinality(Precede(S, R, y)) + 1
    BY <1>6, <1>7, BeforeIsFinite, FS_AddElement
  <1> QED BY <1>1, <1>8 DEF Rank, B

(* Numbers that step down to nought by ones leave none out: f is the rank  *)
(* of a card, or its column.                                               *)
LEMMA NoneLeftOut ==
  ASSUME NEW S, NEW f, \A x \in S : f[x] \in Nat,
         \A x \in S : f[x] > 0 => \E y \in S : f[x] = f[y] + 1,
         NEW x \in S
  PROVE  \A k \in 0..f[x] : \E y \in S : f[y] = k
  <1> DEFINE T == {k \in 0..f[x] : ~ \E y \in S : f[y] = k}
  <1> SUFFICES ASSUME T # {} PROVE FALSE
    OBVIOUS
  <1>1. IsFiniteSet(T) /\ T \subseteq Nat
    <2>1. IsFiniteSet(0..f[x])
      BY FS_Interval
    <2> QED BY <2>1, FS_Subset
  <1> DEFINE m == Max(T)
  <1>2. m \in T /\ \A k \in T : k <= m
    <2> HIDE DEF T
    <2> QED BY <1>1, MaxIsGreatest
  <1> HIDE DEF m
  <1>3. m \in 0..f[x] /\ ~ \E y \in S : f[y] = m
    BY <1>2
  <1>4. m < f[x] /\ m + 1 \in 0..f[x] /\ m \in Nat
    BY <1>3
  <1>5. m + 1 \notin T
    BY <1>2, <1>4
  <1>6. PICK y \in S : f[y] = m + 1
    BY <1>4, <1>5
  <1>7. PICK z \in S : f[y] = f[z] + 1
    BY <1>4, <1>6
  <1>8. f[z] = m
    BY <1>4, <1>6, <1>7
  <1> QED BY <1>3, <1>8

(* Means are compared by cross multiplication. *)
LEMMA TimesKeepsOrder ==
  ASSUME NEW x \in Nat, NEW y \in Nat, NEW z \in Nat
  PROVE  /\ x <= y => x * z <= y * z
         /\ x < y /\ z > 0 => x * z < y * z
         /\ x * z \in Nat
  OBVIOUS

LEMMA TimesCommutes ==
  ASSUME NEW x \in Nat, NEW y \in Nat, NEW z \in Nat
  PROVE  (x * y) * z = (x * z) * y
  OBVIOUS

LEMMA FractionsAreOrdered ==
  ASSUME NEW a \in Nat, NEW b \in Nat, NEW c \in Nat,
         NEW p \in Nat, NEW q \in Nat, NEW r \in Nat, p > 0, q > 0, r > 0,
         a * q <= b * p, b * r <= c * q
  PROVE  /\ a * r <= c * p
         /\ a * q < b * p \/ b * r < c * q => a * r < c * p
  <1> DEFINE aq == a * q
             bp == b * p
             br == b * r
             cq == c * q
             ar == a * r
             cp == c * p
  <1>1. /\ aq \in Nat /\ bp \in Nat /\ br \in Nat /\ cq \in Nat /\ ar \in Nat /\ cp \in Nat
        /\ aq <= bp /\ br <= cq
    BY TimesKeepsOrder
  <1>2. aq * r = ar * q /\ bp * r = br * p /\ cq * p = cp * q
    BY TimesCommutes
  <1> SUFFICES ar <= cp /\ (aq < bp \/ br < cq => ar < cp)
    OBVIOUS
  <1> HIDE DEF aq, bp, br, cq, ar, cp
  <1>3. aq * r <= bp * r /\ (aq < bp => aq * r < bp * r)
    BY <1>1, TimesKeepsOrder
  <1>4. br * p <= cq * p /\ (br < cq => br * p < cq * p)
    BY <1>1, TimesKeepsOrder
  <1>5. (cp < ar => cp * q < ar * q) /\ (cp <= ar => cp * q <= ar * q)
    BY <1>1, TimesKeepsOrder
  <1> DEFINE x == aq * r
             y == bp * r
             z == cq * p
             u == ar * q
             v == cp * q
  <1>6. x \in Nat /\ y \in Nat /\ z \in Nat /\ u \in Nat /\ v \in Nat
    BY <1>1, TimesKeepsOrder
  <1>7. /\ x <= y /\ (aq < bp => x < y) /\ y <= z /\ (br < cq => y < z)
        /\ x = u /\ z = v /\ (cp < ar => v < u) /\ (cp <= ar => v <= u)
    BY <1>2, <1>3, <1>4, <1>5
  <1> HIDE DEF x, y, z, u, v
  <1> QED BY <1>1, <1>6, <1>7

LEMMA PlacesAreDistinct ==
  ASSUME NEW wf, Sound(wf), NEW a \in IdsOf(wf)
  PROVE  /\ PlaceOf(wf, a) \in Nat
         /\ \A b \in IdsOf(wf) : PlaceOf(wf, a) = PlaceOf(wf, b) => a = b
  <1>1. \A x \in IdsOf(wf) : \E i \in DOMAIN wf.nodes : wf.nodes[i].id = x
    BY DEF IdsOf, NodesOf, ToSet
  <1>2. \A x \in IdsOf(wf) : /\ PlaceOf(wf, x) \in DOMAIN wf.nodes
                             /\ wf.nodes[PlaceOf(wf, x)].id = x
    BY <1>1 DEF PlaceOf
  <1>3. DOMAIN wf.nodes \subseteq Nat
    BY DEF Sound, Typed
  <1> QED BY <1>2, <1>3

LEMMA MeanIsFraction ==
  ASSUME NEW wf, Sound(wf), NEW a \in IdsOf(wf)
  PROVE  MeanOf(wf, a).sum \in Nat /\ MeanOf(wf, a).of \in Nat /\ MeanOf(wf, a).of > 0
  <1> DEFINE D == DependsOn(wf, a)
             w == [d \in IdsOf(wf) |-> PlaceOf(wf, d)]
  <1>1. CASE D = {}
    BY <1>1, PlacesAreDistinct DEF MeanOf
  <1>2. CASE D # {}
    <2>1. D \subseteq IdsOf(wf) /\ IsFiniteSet(D)
      BY DependenciesAreKnown
    <2>2. \A d \in D : w[d] = PlaceOf(wf, d) /\ w[d] \in Nat
      BY <2>1, PlacesAreDistinct
    <2> HIDE DEF w
    <2>3. MapThenSumSet(LAMBDA d : PlaceOf(wf, d), D) = SumOf(w, D)
      <3> DEFINE step(f, s) == IF s = {} THEN 0 ELSE PlaceOf(wf, Pick(s)) + f[s \ {Pick(s)}]
                 rec(f) == f = [s \in SUBSET D |-> step(f, s)]
      <3>1. MapThenSumSet(LAMBDA d : PlaceOf(wf, d), D) = (CHOOSE f : rec(f))[D]
        BY DEF MapThenSumSet, MapThenFoldSet, Pick
      <3>2. \A f : \A s \in SUBSET D : step(f, s) = Unfold(w, f, s)
        BY <2>2, PickIsMember DEF Unfold
      <3>3. \A f : rec(f) <=> Rec(w, f, D)
        BY <3>2 DEF Rec
      <3>4. (CHOOSE f : rec(f)) = (CHOOSE f : Rec(w, f, D))
        BY <3>3
      <3> QED BY <3>1, <3>4, SumIs
    <2>4. SumOf(w, D) \in Nat
      BY <2>1, <2>2, SumType
    <2>5. Cardinality(D) \in Nat /\ Cardinality(D) > 0
      <3>1. Cardinality(D) \in Nat /\ (Cardinality(D) = 0 <=> D = {})
        BY <2>1, FS_CardinalityType, FS_EmptySet
      <3> QED BY <1>2, <3>1
    <2>6. MeanOf(wf, a) = [sum |-> MapThenSumSet(LAMBDA d : PlaceOf(wf, d), D),
                           of |-> Cardinality(D)]
      BY <1>2 DEF MeanOf
    <2> HIDE DEF D
    <2> QED BY <2>3, <2>4, <2>5, <2>6
  <1> QED BY <1>1, <1>2

LEMMA AboveIsStrict ==
  ASSUME NEW wf, Sound(wf)
  PROVE  /\ \A a \in IdsOf(wf) : ~Above(wf, a, a)
         /\ \A a, b, c \in IdsOf(wf) : Above(wf, a, b) /\ Above(wf, b, c) => Above(wf, a, c)
         /\ \A a, b \in IdsOf(wf) : a # b => Above(wf, a, b) \/ Above(wf, b, a)
  <1> DEFINE s(a) == MeanOf(wf, a).sum
             o(a) == MeanOf(wf, a).of
             i(a) == PlaceOf(wf, a)
  <1>1. \A a \in IdsOf(wf) : s(a) \in Nat /\ o(a) \in Nat /\ o(a) > 0 /\ i(a) \in Nat
    BY MeanIsFraction, PlacesAreDistinct
  <1>2. \A a, b \in IdsOf(wf) : s(a) * o(b) \in Nat
    BY <1>1, TimesKeepsOrder
  <1>3. \A a, b : Above(wf, a, b) <=>
          \/ s(a) * o(b) < s(b) * o(a)
          \/ s(a) * o(b) = s(b) * o(a) /\ i(a) < i(b)
    BY DEF Above
  <1>4. \A a, b \in IdsOf(wf) : i(a) = i(b) => a = b
    BY PlacesAreDistinct
  <1>5. ASSUME NEW a \in IdsOf(wf), NEW b \in IdsOf(wf), NEW c \in IdsOf(wf),
               s(a) * o(b) <= s(b) * o(a), s(b) * o(c) <= s(c) * o(b)
        PROVE  /\ s(a) * o(c) <= s(c) * o(a)
               /\ s(a) * o(b) < s(b) * o(a) \/ s(b) * o(c) < s(c) * o(b)
                    => s(a) * o(c) < s(c) * o(a)
    <2> DEFINE sa == s(a)
               sb == s(b)
               sc == s(c)
               oa == o(a)
               ob == o(b)
               oc == o(c)
    <2>1. /\ sa \in Nat /\ sb \in Nat /\ sc \in Nat /\ oa \in Nat /\ ob \in Nat /\ oc \in Nat
          /\ oa > 0 /\ ob > 0 /\ oc > 0
      BY <1>1
    <2>2. sa * ob <= sb * oa /\ sb * oc <= sc * ob
      BY <1>5
    <2> SUFFICES /\ sa * oc <= sc * oa
                 /\ sa * ob < sb * oa \/ sb * oc < sc * ob => sa * oc < sc * oa
      OBVIOUS
    <2> HIDE DEF sa, sb, sc, oa, ob, oc
    <2> QED BY <2>1, <2>2, FractionsAreOrdered
  <1> HIDE DEF s, o, i
  <1>6. ASSUME NEW a \in IdsOf(wf) PROVE ~Above(wf, a, a)
    BY <1>1, <1>2, <1>3
  <1>7. ASSUME NEW a \in IdsOf(wf), NEW b \in IdsOf(wf), NEW c \in IdsOf(wf),
               Above(wf, a, b), Above(wf, b, c)
        PROVE  Above(wf, a, c)
    <2> DEFINE ab == s(a) * o(b)
               ba == s(b) * o(a)
               bc == s(b) * o(c)
               cb == s(c) * o(b)
               ac == s(a) * o(c)
               ca == s(c) * o(a)
    <2>1. ab \in Nat /\ ba \in Nat /\ bc \in Nat /\ cb \in Nat /\ ac \in Nat /\ ca \in Nat
      BY <1>2
    <2>2. i(a) \in Nat /\ i(b) \in Nat /\ i(c) \in Nat
      BY <1>1
    <2>3. ab < ba \/ (ab = ba /\ i(a) < i(b))
      BY <1>3, <1>7
    <2>4. bc < cb \/ (bc = cb /\ i(b) < i(c))
      BY <1>3, <1>7
    <2>5. ab <= ba /\ bc <= cb => ac <= ca /\ (ab < ba \/ bc < cb => ac < ca)
      BY <1>5
    <2>6. Above(wf, a, c) <=> ac < ca \/ (ac = ca /\ i(a) < i(c))
      BY <1>3
    <2> HIDE DEF ab, ba, bc, cb, ac, ca
    <2> QED BY <2>1, <2>2, <2>3, <2>4, <2>5, <2>6
  <1>8. ASSUME NEW a \in IdsOf(wf), NEW b \in IdsOf(wf), a # b
        PROVE  Above(wf, a, b) \/ Above(wf, b, a)
    <2> DEFINE ab == s(a) * o(b)
               ba == s(b) * o(a)
    <2>1. ab \in Nat /\ ba \in Nat /\ i(a) \in Nat /\ i(b) \in Nat /\ i(a) # i(b)
      BY <1>1, <1>2, <1>4, <1>8
    <2>2. /\ Above(wf, a, b) <=> ab < ba \/ (ab = ba /\ i(a) < i(b))
          /\ Above(wf, b, a) <=> ba < ab \/ (ba = ab /\ i(b) < i(a))
      BY <1>3
    <2> HIDE DEF ab, ba
    <2> QED BY <2>1, <2>2
  <1> QED BY <1>6, <1>7, <1>8

Column(wf, k) == {b \in IdsOf(wf) : Depths(wf)[b] = k}
Order(wf, k) == {w \in Column(wf, k) \X Column(wf, k) : Above(wf, w[1], w[2])}

LEMMA ColumnIsOrdered ==
  ASSUME NEW wf, Sound(wf), NEW k
  PROVE  IsFiniteSet(Column(wf, k)) /\ StrictOrder(Column(wf, k), Order(wf, k))
  <1> DEFINE S == Column(wf, k)
  <1>1. S \subseteq IdsOf(wf)
    BY DEF Column
  <1>2. IsFiniteSet(S)
    <2> HIDE DEF S
    <2> QED BY <1>1, NodesAreFinite, FS_Subset DEF Sound
  <1>3. \A a, b \in S : <<a, b>> \in Order(wf, k) <=> Above(wf, a, b)
    BY DEF Order
  <1> HIDE DEF S
  <1>4. StrictOrder(S, Order(wf, k))
    BY <1>1, <1>3, AboveIsStrict DEF StrictOrder
  <1> QED BY <1>2, <1>4 DEF S

LEMMA LayoutIs ==
  ASSUME NEW wf, Sound(wf), NEW id \in IdsOf(wf)
  PROVE  LET k == Depths(wf)[id]
         IN /\ Layout(wf)[id].column = k
            /\ Layout(wf)[id].row = Rank(Column(wf, k), Order(wf, k), id)
            /\ id \in Column(wf, k)
  <1> DEFINE k == Depths(wf)[id]
  <1>1. {b \in IdsOf(wf) : Depths(wf)[b] = Depths(wf)[id] /\ Above(wf, b, id)}
          = Precede(Column(wf, k), Order(wf, k), id)
    BY DEF Precede, Column, Order
  <1> QED BY <1>1 DEF Layout, Rank, Column

LEMMA LayoutIsInOrder ==
  ASSUME NEW wf, Sound(wf), studio.workflow = wf, studio.layout = Layout(wf)
  PROVE  DrawnInOrder
  <1> DEFINE at == Layout(wf)
             depth == Depths(wf)
             rank(id) == Rank(Column(wf, depth[id]), Order(wf, depth[id]), id)
  <1>1. \A id \in IdsOf(wf) : /\ at[id].column = depth[id] /\ at[id].row = rank(id)
                              /\ id \in Column(wf, depth[id])
    BY LayoutIs
  <1>2. DOMAIN at = IdsOf(wf)
    BY DEF Layout
  <1>3. \A id \in IdsOf(wf) : depth[id] \in Nat
    BY DepthsAre
  <1>4. ASSUME NEW id \in IdsOf(wf), NEW d \in DependsOn(wf, id)
        PROVE  at[d].column < at[id].column
    <2>1. d \in IdsOf(wf)
      BY DependenciesAreKnown
    <2> QED BY <1>1, <2>1, DepthsAre
  <1>5. ASSUME NEW a \in IdsOf(wf), NEW b \in IdsOf(wf), at[a] = at[b]
        PROVE  a = b
    <2> SUFFICES ASSUME a # b PROVE FALSE
      OBVIOUS
    <2> DEFINE k == depth[a]
               S == Column(wf, k)
               R == Order(wf, k)
    <2>1. depth[b] = k /\ Rank(S, R, a) = Rank(S, R, b) /\ a \in S /\ b \in S
      BY <1>1, <1>5
    <2>2. IsFiniteSet(S) /\ StrictOrder(S, R)
      BY ColumnIsOrdered
    <2> HIDE DEF k, S, R
    <2>3. <<a, b>> \in R \/ <<b, a>> \in R
      BY <2>1, <2>2 DEF StrictOrder
    <2>4. Rank(S, R, a) \in Nat /\ Rank(S, R, b) \in Nat
      BY <2>2, BeforeIsFinite
    <2>5. Rank(S, R, a) < Rank(S, R, b) \/ Rank(S, R, b) < Rank(S, R, a)
      BY <2>1, <2>2, <2>3, RankGrows
    <2> QED BY <2>1, <2>4, <2>5
  <1>6. ASSUME NEW id \in IdsOf(wf)
        PROVE  \A c \in 0..at[id].column : \E b \in IdsOf(wf) : at[b].column = c
    <2>1. \A x \in IdsOf(wf) : depth[x] > 0 => \E y \in IdsOf(wf) : depth[x] = depth[y] + 1
      <3> SUFFICES ASSUME NEW x \in IdsOf(wf), depth[x] > 0
                   PROVE  \E y \in IdsOf(wf) : depth[x] = depth[y] + 1
        OBVIOUS
      <3>1. \E d \in DependsOn(wf, x) : depth[x] = depth[d] + 1
        BY DepthsAre
      <3> QED BY <3>1, DependenciesAreKnown
    <2> HIDE DEF depth
    <2>2. \A c \in 0..depth[id] : \E b \in IdsOf(wf) : depth[b] = c
      BY <1>3, <2>1, NoneLeftOut
    <2> HIDE DEF at, rank
    <2> QED BY <1>1, <2>2
  <1>7. ASSUME NEW id \in IdsOf(wf)
        PROVE  \A r \in 0..at[id].row : \E b \in IdsOf(wf) :
                 at[b].column = at[id].column /\ at[b].row = r
    <2> DEFINE k == depth[id]
               S == Column(wf, k)
               R == Order(wf, k)
               f == [x \in S |-> Rank(S, R, x)]
    <2>1. IsFiniteSet(S) /\ StrictOrder(S, R)
      BY ColumnIsOrdered
    <2>2. \A x \in S : x \in IdsOf(wf) /\ at[x].column = k /\ at[x].row = f[x]
      BY <1>1 DEF Column
    <2>3. id \in S /\ at[id].column = k
      BY <1>1
    <2> HIDE DEF k, S, R
    <2>4. \A x \in S : f[x] \in Nat
      BY <2>1, BeforeIsFinite
    <2>5. \A x \in S : f[x] > 0 => \E y \in S : f[x] = f[y] + 1
      BY <2>1, RankSteps
    <2> HIDE DEF f
    <2>6. \A r \in 0..f[id] : \E y \in S : f[y] = r
      BY <2>3, <2>4, <2>5, NoneLeftOut
    <2> HIDE DEF at
    <2> QED BY <2>2, <2>3, <2>6
  <1> HIDE DEF at
  <1>8. IsInjective(at)
    BY <1>2, <1>5 DEF IsInjective
  <1>9. studio.layout = at /\ studio.workflow = wf
    BY DEF at
  <1> QED BY <1>4, <1>6, <1>7, <1>8, <1>9 DEF DrawnInOrder

-----------------------------------------------------------------------------
(* The page over its reads.  A plan is of one head and of records that     *)
(* were current since the page was asked for, and stays backed by the      *)
(* receipts it was made from, for their file only grows.                   *)

Fields == {"at", "workflow", "graphOnly", "head", "canon", "layout", "preview", "plan", "since"}

PreviewOK ==
  studio.preview # NothingShown =>
    /\ studio.preview.appHead \in studio.since.head..branchHead
    /\ studio.preview.canonicalRevision \in studio.since.canon..canon
    /\ studio.at = "receipts" => studio.preview.appHead <= studio.head
    /\ studio.at \in {"readiness-head", "receipts"}
         => studio.preview.canonicalRevision <= studio.canon

PlanOK ==
  LET file == receipts[studio.workflow.workflowId]
  IN studio.plan # NothingShown =>
       /\ studio.at = "shown" /\ PlanIsOfThisVisit
       /\ studio.workflow.workflowId \in DOMAIN receipts
       /\ DOMAIN studio.plan.found \subseteq DOMAIN file
       /\ studio.plan.nodes
            = NodeStates(studio.workflow, BackedIn(studio.workflow, file, studio.plan))

VisitOK ==
  /\ studio.since.head \in 1..branchHead /\ studio.since.canon \in 1..canon
  /\ studio.at \in {"preview-head", "readiness-head", "receipts"}
       => studio.canon \in studio.since.canon..canon
  /\ studio.at = "receipts" => studio.head \in studio.since.head..branchHead
  /\ studio.at \in {"preview", "preview-head"} => studio.preview = NothingShown

PageOK ==
  studio.at # "closed" =>
    /\ DOMAIN studio = Fields
    /\ studio.workflow \in ToSet(catalog) /\ studio.layout = Layout(studio.workflow)
    /\ studio.at # "shown" => studio.workflow.workflowId \in DOMAIN receipts
    /\ VisitOK /\ PreviewOK /\ PlanOK

CatalogOK ==
  /\ \A wf \in ToSet(catalog) : Sound(wf)
  /\ \A wf \in WorkflowsForProject(StudioProject) : wf.workflowId \in DOMAIN receipts
ReceiptsOK == \A id \in DOMAIN receipts : receipts[id] \in Seq(Receipts)

StudioInv ==
  /\ branchHead \in Nat \ {0} /\ canon \in Nat \ {0}
  /\ CatalogOK /\ ReceiptsOK /\ PageOK

LEMMA InitStudioInv == InitStudio => StudioInv
  <1> SUFFICES ASSUME InitStudio PROVE StudioInv
    OBVIOUS
  <1>1. branchHead \in Nat \ {0} /\ canon \in Nat \ {0}
    BY DEF InitStudio
  <1>2. catalog \in StudioManifests /\ Registered(catalog)
    BY DEF InitStudio
  <1>3. \A wf \in ToSet(catalog) : Sound(wf)
    BY <1>2, StudioAssumption DEF Registered, Sound, Typed
  <1>4. CatalogOK
    BY <1>3 DEF CatalogOK, InitStudio
  <1>5. ReceiptsOK
    BY DEF ReceiptsOK, InitStudio
  <1>6. PageOK
    BY DEF InitStudio, Closed, PageOK
  <1> QED BY <1>1, <1>4, <1>5, <1>6 DEF StudioInv

LEMMA BackedIsKept ==
  ASSUME NEW wf, NEW file, NEW longer, NEW plan,
         \A i \in DOMAIN plan.found : longer[i] = file[i]
  PROVE  BackedIn(wf, longer, plan) = BackedIn(wf, file, plan)
  <1>1. \A id : Holding(longer, plan, id) = Holding(file, plan, id)
    BY DEF Holding
  <1>2. Single(wf, longer, plan) = Single(wf, file, plan)
    BY <1>1 DEF Single
  <1> QED BY <1>2 DEF BackedIn

(* What others do: the head and the records only move on, and the receipt  *)
(* files only grow.                                                        *)
LEMMA OthersKeepStudio ==
  ASSUME StudioInv,
         \/ Push \/ ReviseRecords
         \/ \E wf \in WorkflowsForProject(StudioProject) : \E id \in IdsOf(wf) :
              PublishReceipt(wf.workflowId, id)
  PROVE  StudioInv'
  <1>1. CASE Push \/ ReviseRecords
    <2>1. /\ catalog' = catalog /\ receipts' = receipts /\ studio' = studio
          /\ branchHead' \in Nat \ {0} /\ branchHead <= branchHead'
          /\ canon' \in Nat \ {0} /\ canon <= canon'
      BY <1>1 DEF Push, ReviseRecords, StudioInv
    <2>2. CatalogOK' /\ ReceiptsOK'
      BY <2>1 DEF StudioInv, CatalogOK, ReceiptsOK, WorkflowsForProject
    <2>3. PageOK'
      <3> SUFFICES ASSUME studio.at # "closed" PROVE PageOK'
        BY <2>1 DEF PageOK
      <3>1. PageOK /\ VisitOK /\ PreviewOK /\ PlanOK
        BY DEF StudioInv, PageOK
      <3>2. VisitOK'
        BY <2>1, <3>1 DEF VisitOK, StudioInv
      <3>3. PreviewOK'
        BY <2>1, <3>1 DEF PreviewOK, VisitOK, StudioInv
      <3>4. PlanOK'
        <4>1. PlanIsOfThisVisit => PlanIsOfThisVisit'
          BY <2>1, <3>1 DEF PlanIsOfThisVisit, VisitOK, StudioInv
        <4> QED BY <2>1, <3>1, <4>1 DEF PlanOK
      <3> QED BY <2>1, <3>1, <3>2, <3>3, <3>4 DEF PageOK
    <2> QED BY <2>1, <2>2, <2>3 DEF StudioInv
  <1>2. ASSUME NEW wf \in WorkflowsForProject(StudioProject), NEW id \in IdsOf(wf),
               PublishReceipt(wf.workflowId, id)
        PROVE  StudioInv'
    <2> DEFINE w == wf.workflowId
               r == [nodeId |-> id, appHead |-> branchHead, canonicalDigest |-> canon]
    <2>1. /\ catalog' = catalog /\ branchHead' = branchHead /\ canon' = canon
          /\ studio' = studio /\ receipts' = [receipts EXCEPT ![w] = Append(receipts[w], r)]
      BY <1>2 DEF PublishReceipt
    <2>2. w \in DOMAIN receipts /\ r \in Receipts
      <3>1. wf \in ToSet(catalog)
        BY DEF WorkflowsForProject
      <3>2. id \in Nat
        BY <3>1, NodesAreFinite DEF StudioInv, CatalogOK, Sound
      <3> QED BY <3>2 DEF StudioInv, CatalogOK, Receipts
    <2>3. /\ DOMAIN receipts' = DOMAIN receipts
          /\ \A x \in DOMAIN receipts :
               /\ receipts'[x] \in Seq(Receipts)
               /\ DOMAIN receipts[x] \subseteq DOMAIN receipts'[x]
               /\ \A i \in DOMAIN receipts[x] : receipts'[x][i] = receipts[x][i]
      <3>1. \A s : s \in Seq(Receipts) =>
              /\ Append(s, r) \in Seq(Receipts) /\ DOMAIN s \subseteq DOMAIN Append(s, r)
              /\ \A i \in DOMAIN s : Append(s, r)[i] = s[i]
        <4> HIDE DEF r
        <4> QED BY <2>2
      <3> HIDE DEF r, w
      <3> QED BY <2>1, <2>2, <3>1 DEF StudioInv, ReceiptsOK
    <2> HIDE DEF w, r
    <2>4. CatalogOK' /\ ReceiptsOK'
      BY <2>1, <2>3 DEF StudioInv, CatalogOK, ReceiptsOK, WorkflowsForProject
    <2>5. PageOK'
      <3> SUFFICES ASSUME studio.at # "closed" PROVE PageOK'
        BY <2>1 DEF PageOK
      <3>1. PageOK /\ VisitOK /\ PreviewOK /\ PlanOK
        BY DEF StudioInv, PageOK
      <3>2. VisitOK' /\ PreviewOK'
        BY <2>1, <3>1 DEF VisitOK, PreviewOK
      <3>3. PlanOK'
        <4> SUFFICES ASSUME studio.plan # NothingShown PROVE PlanOK'
          BY <2>1 DEF PlanOK
        <4> DEFINE v == studio.workflow
                   file == receipts[v.workflowId]
                   longer == receipts'[v.workflowId]
        <4>1. PlanIsOfThisVisit'
          BY <2>1, <3>1 DEF PlanIsOfThisVisit, PlanOK
        <4>2. /\ v.workflowId \in DOMAIN receipts /\ DOMAIN studio.plan.found \subseteq DOMAIN file
              /\ studio.at = "shown"
              /\ studio.plan.nodes = NodeStates(v, BackedIn(v, file, studio.plan))
          BY <3>1 DEF PlanOK
        <4>3. /\ DOMAIN studio.plan.found \subseteq DOMAIN longer
              /\ \A i \in DOMAIN studio.plan.found : longer[i] = file[i]
          BY <2>3, <4>2
        <4>4. BackedIn(v, longer, studio.plan) = BackedIn(v, file, studio.plan)
          BY <4>3, BackedIsKept
        <4> QED BY <2>1, <2>3, <4>1, <4>2, <4>3, <4>4 DEF PlanOK
      <3> QED BY <2>1, <2>3, <3>1, <3>2, <3>3 DEF PageOK
    <2> QED BY <2>1, <2>4, <2>5 DEF StudioInv
  <1> QED BY <1>1, <1>2

(* What the page does. *)
OthersStand ==
  UNCHANGED <<catalog, branchHead, canon, receipts>>

LEMMA PageStepKeeps ==
  ASSUME StudioInv, OthersStand, PageOK'
  PROVE  StudioInv'
  BY DEF OthersStand, StudioInv, CatalogOK, ReceiptsOK, WorkflowsForProject

LEMMA OpenKeepsStudio ==
  ASSUME StudioInv, NEW owner \in BOOLEAN, OpenStudio(owner)
  PROVE  StudioInv'
  <1>1. OthersStand
    BY DEF OpenStudio, OthersStand
  <1>2. PICK wf \in ToSet(catalog) : studio' = Opened(wf, wf.project = StudioProject)
    BY DEF OpenStudio, WorkflowsForProject
  <1>3. /\ DOMAIN studio' = Fields
        /\ studio'.workflow = wf /\ studio'.layout = Layout(wf)
        /\ studio'.preview = NothingShown /\ studio'.plan = NothingShown
        /\ studio'.since = [head |-> branchHead, canon |-> canon]
        /\ studio'.at \in {"readiness", "preview", "shown"}
        /\ studio'.at # "shown" => wf.project = StudioProject
    BY <1>2 DEF Opened, Fields
  <1>4. studio'.at # "shown" => wf.workflowId \in DOMAIN receipts
    BY <1>3 DEF StudioInv, CatalogOK, WorkflowsForProject
  <1>5. VisitOK'
    BY <1>1, <1>3 DEF VisitOK, OthersStand, StudioInv
  <1>6. PreviewOK' /\ PlanOK'
    BY <1>3 DEF PreviewOK, PlanOK
  <1>7. PageOK'
    BY <1>1, <1>3, <1>4, <1>5, <1>6 DEF PageOK, OthersStand
  <1> QED BY <1>1, <1>7, PageStepKeeps

(* A step that reads: nothing of what the page holds is lost.              *)
LEMMA ReadKeepsStudio ==
  ASSUME StudioInv,
         \/ ReadCanonical("preview", "preview-head")
         \/ ReadCanonical("readiness", "readiness-head")
         \/ PreviewRoot \/ ReadHead
         \/ ReadFails
  PROVE  StudioInv'
  <1>1. /\ OthersStand
        /\ studio.at \in {"preview", "readiness", "preview-head", "readiness-head", "receipts"}
    BY DEF ReadCanonical, PreviewRoot, ReadHead, ReadFails, OthersStand
  <1>2. /\ DOMAIN studio = Fields /\ VisitOK /\ PreviewOK /\ studio.plan = NothingShown
        /\ studio.workflow \in ToSet(catalog) /\ studio.layout = Layout(studio.workflow)
        /\ studio.workflow.workflowId \in DOMAIN receipts
    BY <1>1 DEF StudioInv, PageOK, PlanOK
  <1>3. /\ DOMAIN studio' = Fields /\ studio'.at # "closed"
        /\ studio'.workflow = studio.workflow /\ studio'.layout = studio.layout
        /\ studio'.plan = studio.plan /\ studio'.since = studio.since
    BY <1>2 DEF ReadCanonical, PreviewRoot, ReadHead, ReadFails, Fields
  <1>4. /\ studio.since.head \in 1..branchHead /\ studio.since.canon \in 1..canon
        /\ branchHead \in Nat /\ canon \in Nat
    BY <1>2 DEF VisitOK, StudioInv
  <1>5. VisitOK' /\ PreviewOK'
    <2>1. CASE ReadCanonical("preview", "preview-head")
      <3>1. studio'.at = "preview-head" /\ studio'.canon = canon /\ studio'.preview = NothingShown
        BY <1>2, <2>1 DEF ReadCanonical, Fields, VisitOK
      <3> QED BY <1>1, <1>3, <1>4, <3>1 DEF VisitOK, PreviewOK, OthersStand
    <2>2. CASE ReadCanonical("readiness", "readiness-head")
      <3>1. /\ studio'.at = "readiness-head" /\ studio'.canon = canon
            /\ studio'.preview = studio.preview
        BY <1>2, <2>2 DEF ReadCanonical, Fields
      <3> QED BY <1>1, <1>2, <1>3, <1>4, <3>1 DEF VisitOK, PreviewOK, OthersStand
    <2>3. CASE PreviewRoot
      <3>1. /\ studio'.at = "readiness"
            /\ studio'.preview # NothingShown =>
                 /\ studio'.preview.appHead = branchHead
                 /\ studio'.preview.canonicalRevision = studio.canon
        BY <1>2, <2>3 DEF PreviewRoot, Fields
      <3>2. studio.canon \in studio.since.canon..canon
        BY <1>2, <2>3 DEF PreviewRoot, VisitOK
      <3> QED BY <1>1, <1>3, <1>4, <3>1, <3>2 DEF VisitOK, PreviewOK, OthersStand
    <2>4. CASE ReadHead
      <3>1. /\ studio'.at = "receipts" /\ studio'.head = branchHead
            /\ studio'.canon = studio.canon /\ studio'.preview = studio.preview
        BY <1>2, <2>4 DEF ReadHead, Fields
      <3>2. studio.at = "readiness-head"
        BY <2>4 DEF ReadHead
      <3> QED BY <1>1, <1>2, <1>3, <1>4, <3>1, <3>2 DEF VisitOK, PreviewOK, OthersStand
    <2>5. CASE ReadFails
      <3>1. studio'.at \in {"readiness", "shown"} /\ studio'.preview = studio.preview
        BY <1>2, <2>5 DEF ReadFails, Fields
      <3> QED BY <1>1, <1>2, <1>3, <1>4, <3>1 DEF VisitOK, PreviewOK, OthersStand
    <2> QED BY <2>1, <2>2, <2>3, <2>4, <2>5
  <1>6. PlanOK'
    BY <1>2, <1>3 DEF PlanOK
  <1>7. PageOK'
    BY <1>1, <1>2, <1>3, <1>5, <1>6 DEF PageOK, OthersStand
  <1> QED BY <1>1, <1>7, PageStepKeeps

LEMMA VerifyKeepsStudio ==
  ASSUME StudioInv, NEW found, found \in [DOMAIN found -> BOOLEAN], VerifyReceipts(found)
  PROVE  StudioInv'
  <1> DEFINE v == studio.workflow
             file == receipts[v.workflowId]
             plan == Readiness(v, studio.head, studio.canon, found)
  <1>1. OthersStand /\ studio.at = "receipts" /\ DOMAIN found = DOMAIN file
    BY DEF VerifyReceipts, OthersStand
  <1>2. /\ DOMAIN studio = Fields /\ VisitOK /\ PreviewOK
        /\ v \in ToSet(catalog) /\ studio.layout = Layout(v)
        /\ v.workflowId \in DOMAIN receipts
    BY <1>1 DEF StudioInv, PageOK
  <1>3. /\ DOMAIN studio' = Fields /\ studio'.at = "shown"
        /\ studio'.workflow = v /\ studio'.layout = studio.layout
        /\ studio'.preview = studio.preview /\ studio'.since = studio.since
        /\ studio'.plan \in {plan, NothingShown}
    <2> HIDE DEF plan
    <2>1. studio' = [studio EXCEPT !.at = "shown",
                       !.plan = IF MeetsPolicy(v) THEN plan ELSE NothingShown]
      BY DEF VerifyReceipts, plan
    <2> QED BY <1>2, <2>1 DEF Fields
  <1>4. /\ studio.since.head \in 1..branchHead /\ studio.since.canon \in 1..canon
        /\ studio.head \in studio.since.head..branchHead
        /\ studio.canon \in studio.since.canon..canon
        /\ branchHead \in Nat /\ canon \in Nat
    BY <1>1, <1>2 DEF VisitOK, StudioInv
  <1>5. VisitOK' /\ PreviewOK'
    BY <1>1, <1>2, <1>3, <1>4 DEF VisitOK, PreviewOK, OthersStand
  <1>6. /\ plan.appHead = studio.head /\ plan.canonicalDigest = studio.canon /\ plan.found = found
        /\ plan.nodes = NodeStates(v, BackedIn(v, file, plan))
    <2>1. Sound(v) /\ file \in Seq(Receipts)
      BY <1>2 DEF StudioInv, CatalogOK, ReceiptsOK
    <2>2. found \in [DOMAIN file -> BOOLEAN]
      BY <1>1
    <2> QED BY <2>1, <2>2, ReadinessIsBacked
  <1>7. PlanOK'
    <2> SUFFICES ASSUME studio'.plan # NothingShown PROVE PlanOK'
      BY DEF PlanOK
    <2>1. studio'.plan = plan
      BY <1>3
    <2> HIDE DEF plan
    <2>2. PlanIsOfThisVisit'
      BY <1>1, <1>2, <1>3, <1>4, <1>6, <2>1 DEF PlanIsOfThisVisit, PreviewOK, OthersStand
    <2> QED BY <1>1, <1>2, <1>3, <1>6, <2>1, <2>2 DEF PlanOK, OthersStand
  <1>8. PageOK'
    BY <1>1, <1>2, <1>3, <1>5, <1>7 DEF PageOK, OthersStand
  <1> QED BY <1>1, <1>8, PageStepKeeps

LEMMA NextKeepsStudio == StudioInv /\ [NextStudio]_studioVars => StudioInv'
  <1> SUFFICES ASSUME StudioInv, [NextStudio]_studioVars PROVE StudioInv'
    OBVIOUS
  <1>1. CASE Push \/ ReviseRecords
    BY <1>1, OthersKeepStudio
  <1>2. CASE \E wf \in WorkflowsForProject(StudioProject) : \E id \in IdsOf(wf) :
               PublishReceipt(wf.workflowId, id)
    BY <1>2, OthersKeepStudio
  <1>3. CASE \E owner \in BOOLEAN : OpenStudio(owner)
    BY <1>3, OpenKeepsStudio
  <1>4. CASE \/ ReadCanonical("preview", "preview-head")
             \/ ReadCanonical("readiness", "readiness-head")
             \/ PreviewRoot \/ ReadHead \/ ReadFails
    BY <1>4, ReadKeepsStudio
  <1>5. CASE \E found \in UNION {[DOMAIN receipts[id] -> BOOLEAN] : id \in DOMAIN receipts} :
               VerifyReceipts(found)
    <2>1. PICK found : /\ VerifyReceipts(found)
                       /\ \E id \in DOMAIN receipts : found \in [DOMAIN receipts[id] -> BOOLEAN]
      BY <1>5
    <2>2. found \in [DOMAIN found -> BOOLEAN]
      BY <2>1
    <2> QED BY <2>1, <2>2, VerifyKeepsStudio
  <1>6. CASE CloseStudio
    <2>1. OthersStand /\ PageOK'
      BY <1>6 DEF CloseStudio, OthersStand, PageOK, Closed
    <2> QED BY <2>1, PageStepKeeps
  <1>7. CASE UNCHANGED studioVars
    <2>1. OthersStand /\ studio' = studio
      BY <1>7 DEF studioVars, OthersStand
    <2>2. PageOK'
      BY <2>1 DEF StudioInv, PageOK, VisitOK, PreviewOK, PlanOK, PlanIsOfThisVisit, OthersStand
    <2> QED BY <2>1, <2>2, PageStepKeeps
  <1> QED BY <1>1, <1>2, <1>3, <1>4, <1>5, <1>6, <1>7 DEF NextStudio

(* StudioInv always holds: a page holds what it has read since it was      *)
(* asked for, and a plan what its receipts back (the studio's two reads of *)
(* records, head and receipts).                                            *)
THEOREM StudioInvariant == SpecStudio => []StudioInv
  BY InitStudioInv, NextKeepsStudio, PTL DEF SpecStudio

(* Heads, records and receipts stay within what was moved and published,    *)
(* and the page is at one of its reads.                                     *)
THEOREM StudioIsTyped == SpecStudio => []TypeOKStudio
  <1> USE DEF TypeOKStudio
  <1>1. InitStudio => TypeOKStudio
    <2> SUFFICES ASSUME InitStudio PROVE TypeOKStudio
      OBVIOUS
    <2>1. \A id \in DOMAIN receipts : Len(receipts[id]) = 0
      BY DEF InitStudio
    <2> QED BY <2>1, StudioAssumption DEF InitStudio, Closed
  <1>2. StudioInv /\ TypeOKStudio /\ [NextStudio]_studioVars => TypeOKStudio'
    <2> SUFFICES ASSUME StudioInv, TypeOKStudio, [NextStudio]_studioVars PROVE TypeOKStudio'
      OBVIOUS
    <2>1. CASE Push \/ ReviseRecords
      BY <2>1, StudioAssumption DEF Push, ReviseRecords
    <2>2. ASSUME NEW wf \in WorkflowsForProject(StudioProject), NEW id \in IdsOf(wf),
                 PublishReceipt(wf.workflowId, id)
          PROVE  TypeOKStudio'
      <3>1. ASSUME NEW f \in DOMAIN receipts PROVE Len(receipts'[f]) <= MaxReceipts
        <4>1. receipts[f] \in Seq(Receipts)
          BY DEF StudioInv, ReceiptsOK
        <4>2. CASE f = wf.workflowId
          <5> DEFINE new == [nodeId |-> id, appHead |-> branchHead, canonicalDigest |-> canon]
          <5>1. receipts'[f] = Append(receipts[f], new) /\ Len(receipts[f]) < MaxReceipts
            BY <2>2, <4>2 DEF PublishReceipt
          <5>2. Len(Append(receipts[f], new)) = Len(receipts[f]) + 1
            BY <4>1, AppendProperties
          <5>3. Len(receipts[f]) \in Nat
            BY <4>1, LenProperties
          <5> HIDE DEF new
          <5> QED BY <5>1, <5>2, <5>3, StudioAssumption
        <4>3. CASE f # wf.workflowId
          BY <2>2, <4>3 DEF PublishReceipt
        <4> QED BY <4>2, <4>3
      <3>2. DOMAIN receipts' = DOMAIN receipts
        BY <2>2 DEF PublishReceipt
      <3> QED BY <2>2, <3>1, <3>2 DEF PublishReceipt
    <2>3. ASSUME NEW owner \in BOOLEAN, OpenStudio(owner) PROVE TypeOKStudio'
      BY <2>3 DEF OpenStudio, Opened
    <2>4. ASSUME NEW at, NEW next, ReadCanonical(at, next), at # "closed",
                 next \in {"preview-head", "readiness-head"}
          PROVE  TypeOKStudio'
      BY <2>4 DEF ReadCanonical, StudioInv, PageOK, Fields
    <2>5. CASE PreviewRoot
      BY <2>5 DEF PreviewRoot, StudioInv, PageOK, Fields
    <2>6. CASE ReadHead
      BY <2>6 DEF ReadHead, StudioInv, PageOK, Fields
    <2>7. ASSUME NEW found, VerifyReceipts(found) PROVE TypeOKStudio'
      BY <2>7 DEF VerifyReceipts, StudioInv, PageOK, Fields
    <2>8. CASE ReadFails
      BY <2>8 DEF ReadFails, StudioInv, PageOK, Fields
    <2>9. CASE CloseStudio
      BY <2>9 DEF CloseStudio, Closed
    <2>10. CASE UNCHANGED studioVars
      BY <2>10 DEF studioVars
    <2> QED BY <2>1, <2>2, <2>3, <2>4, <2>5, <2>6, <2>7, <2>8, <2>9, <2>10 DEF NextStudio
  <1> QED BY <1>1, <1>2, StudioInvariant, PTL DEF SpecStudio

(* For any valid workflows, and any number of receipts, pushes and         *)
(* revisions between the reads of the page: the marks are those that the   *)
(* receipts back, the plan is of this visit and the graph is drawn in      *)
(* order (buildWorkflowReadiness, layoutWorkflowGraph and the page).       *)
THEOREM StudioShowsItsEvidence == SpecStudio => []StudioShowsEvidence
  <1>1. StudioInv => StudioShowsEvidence
    <2> SUFFICES ASSUME StudioInv, studio.at # "closed"
                 PROVE  /\ DrawnInOrder
                        /\ studio.at = "shown" /\ studio.plan # NothingShown
                             => MarksAreBacked /\ PlanIsOfThisVisit
      BY DEF StudioShowsEvidence
    <2>1. /\ Sound(studio.workflow) /\ studio.layout = Layout(studio.workflow) /\ PlanOK
      BY DEF StudioInv, PageOK, CatalogOK
    <2> QED BY <2>1, LayoutIsInOrder, MarksFollow DEF PlanOK
  <1> QED BY <1>1, StudioInvariant, PTL
================================================================================
