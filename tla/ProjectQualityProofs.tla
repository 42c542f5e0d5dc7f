-------------------------- MODULE ProjectQualityProofs -------------------------
(***************************************************************************)
(* Proofs about gates, evidence and releases, and about work packages, for *)
(* any number of rows and concurrent calls.  A call compares the version   *)
(* of its own row when it writes and nothing of what it has looked at      *)
(* before; CallState and ReadIsCurrent say what of that still holds then.  *)
(***************************************************************************)
EXTENDS ProjectQuality, TLAPS

-----------------------------------------------------------------------------
(* Gates, evidence and releases.                                           *)

(* A call about to pass a gate has found its evidence, which stays. *)
GateCallOK(k) ==
  /\ k \in GateCall /\ k.expected < MaxGateVersion
  /\ k.at = "write gate" /\ k.value.status = "pass" => CanPass(k.on, k.value.links)

(* The evidence a release call has looked up was seen to pass. *)
EvidenceOK(k) ==
  /\ PassingEvidence(gate) \intersect k.value.links \subseteq k.seen
  /\ k.value.status \in Shipping =>
       /\ \A e \in k.value.links \ k.todo : e \in k.seen /\ RevisionOf[e] = k.value.revision
       /\ k.at \in {"rollback", "write release"} => k.todo = {} /\ k.value.links # {}

(* While its row is where the call read it, shipped, it has the identity   *)
(* the call compared.  Of a row that has moved on nothing is known.        *)
IdentityOK(k) ==
  /\ k.expected < MaxReleaseVersion /\ k.read <= release[k.on].version
  /\ k.at # "current" /\ Shipped(k.on) /\ release[k.on].version = k.read
       => SameIdentity(release[k.on].value, k.value)

(* What it is rolled back to has been shipped, whatever became of it. *)
RollbackOK(k) ==
  k.at = "write release" /\ k.value.status = "rolled-back" =>
    \E x \in Releases \ {k.on} : <<x, k.value.rollback>> \in shipped

ReleaseCallOK(k) == k \in ReleaseCall /\ EvidenceOK(k) /\ IdentityOK(k) /\ RollbackOK(k)

CallOK(k) == k = NoCall \/ GateCallOK(k) \/ ReleaseCallOK(k)
CallState == \A c \in Calls : CallOK(call[c])

ShippedOnRecord ==
  \A r \in Releases : Shipped(r) => <<r, release[r].value.revision>> \in shipped

ReleasesInv ==
  TypeOKReleases /\ PassIsBacked /\ RolledBackToShipped /\ ShippedOnRecord /\ CallState

LEMMA CallKinds ==
  /\ ~IsReleaseCall(NoCall) /\ NoCall.at = "idle"
  /\ \A k \in GateCall : ~IsReleaseCall(k) /\ k.at \in {"evidence", "write gate"}
  /\ \A k \in ReleaseCall : IsReleaseCall(k) /\ k.at \notin {"evidence", "write gate", "idle"}
BY DEF NoCall, GateCall, ReleaseCall, IsReleaseCall

LEMMA GateCallFields ==
  ASSUME NEW k \in GateCall
  PROVE  /\ k.on \in Gates /\ k.value \in GateValue /\ k.expected \in 0..MaxGateVersion
         /\ k.value.status \in GateStatuses /\ k.value.links \subseteq Evidence
BY DEF GateCall, GateValue, GateValues

LEMMA ReleaseCallFields ==
  ASSUME NEW k \in ReleaseCall
  PROVE  /\ k.on \in Releases /\ k.value \in ReleaseValue
         /\ k.expected \in 0..MaxReleaseVersion
         /\ k.value.status \in ReleaseStatuses /\ k.value.revision \in Revisions
         /\ k.value.rollback \in Revisions /\ k.value.links \subseteq Evidence
         /\ k.todo \subseteq Evidence /\ k.seen \subseteq Evidence
         /\ k.read \in 0..MaxReleaseVersion
BY DEF ReleaseCall, ReleaseValue, ReleaseValues

LEMMA RowsAreTyped ==
  ASSUME TypeOKReleases
  PROVE  /\ \A g \in Gates : /\ gate[g].version \in 0..MaxGateVersion
                             /\ gate[g].value \in GateValue
         /\ \A r \in Releases : /\ release[r].version \in 0..MaxReleaseVersion
                                /\ release[r].value \in ReleaseValue
BY DEF TypeOKReleases, Rows

LEMMA InitOK == InitReleases => ReleasesInv
<1> SUFFICES ASSUME InitReleases PROVE ReleasesInv
  OBVIOUS
<1>1. TypeOKReleases
  <2>1. AnyRevision \in Revisions BY EvidenceAssumption DEF AnyRevision
  <2>2. NoRelease \in ReleaseValue /\ NoGate \in GateValue
    BY <2>1 DEF NoRelease, NoGate, ReleaseValue, ReleaseValues, GateValue, GateValues,
                ReleaseStatuses, GateStatuses
  <2> QED BY <2>2, EvidenceAssumption DEF InitReleases, TypeOKReleases, Rows
<1>2. PassIsBacked BY DEF InitReleases, PassIsBacked, NoGate
<1>3. RolledBackToShipped /\ ShippedOnRecord
  BY DEF InitReleases, RolledBackToShipped, ShippedOnRecord, Shipped
<1>4. CallState BY DEF InitReleases, CallState, CallOK
<1> QED BY <1>1, <1>2, <1>3, <1>4 DEF ReleasesInv

(* A step of one call that changes no row. *)
LEMMA StepOfACall ==
  ASSUME ReleasesInv, NEW c \in Calls, UNCHANGED <<gate, recorded, release, shipped>>,
         NEW k, call' = [call EXCEPT ![c] = k], CallOK(k)
  PROVE  ReleasesInv'
<1>1. TypeOKReleases'
  BY DEF ReleasesInv, TypeOKReleases, CallOK, GateCallOK, ReleaseCallOK
<1>2. PassIsBacked' /\ RolledBackToShipped' /\ ShippedOnRecord'
  BY DEF ReleasesInv, PassIsBacked, CanPass, RolledBackToShipped, ShippedOnRecord, Shipped
<1>3. \A x : CallOK(x) => CallOK(x)'
  BY DEF CallOK, GateCallOK, CanPass, ReleaseCallOK, EvidenceOK, PassingEvidence,
         IdentityOK, Shipped, RollbackOK
<1>4. CallState'
  <2> SUFFICES ASSUME NEW d \in Calls PROVE CallOK(call[d])'
    BY DEF CallState
  <2>1. call'[d] = IF d = c THEN k ELSE call[d] BY DEF ReleasesInv, TypeOKReleases
  <2>2. CallOK(call'[d]) BY <2>1 DEF ReleasesInv, CallState
  <2>3. PICK x : x = call'[d] OBVIOUS
  <2>4. CallOK(x)' BY <1>3, <2>2, <2>3
  <2> QED BY <2>3, <2>4 DEF CallOK, GateCallOK, CanPass, ReleaseCallOK, EvidenceOK,
                PassingEvidence, IdentityOK, Shipped, RollbackOK
<1> QED BY <1>1, <1>2, <1>4 DEF ReleasesInv

LEMMA EndOfACall ==
  ASSUME ReleasesInv, NEW c \in Calls, UNCHANGED <<gate, recorded, release, shipped>>,
         call' = [call EXCEPT ![c] = NoCall]
  PROVE  ReleasesInv'
BY StepOfACall DEF CallOK

(* Gates and evidence. *)
LEMMA AddEvidenceKeeps ==
  ASSUME ReleasesInv, NEW e \in Evidence, AddEvidence(e)
  PROVE  ReleasesInv'
<1>1. recorded \subseteq recorded' /\ recorded' \subseteq Evidence
        /\ UNCHANGED <<gate, release, call, shipped>>
  BY DEF AddEvidence, ReleasesInv, TypeOKReleases
<1>2. TypeOKReleases' BY <1>1 DEF ReleasesInv, TypeOKReleases
<1>3. PassIsBacked' /\ RolledBackToShipped' /\ ShippedOnRecord'
  BY <1>1 DEF ReleasesInv, PassIsBacked, CanPass, RolledBackToShipped, ShippedOnRecord, Shipped
<1>4. ASSUME NEW c \in Calls PROVE CallOK(call[c])'
  <2>1. CallOK(call[c]) /\ call'[c] = call[c]
    BY <1>1 DEF ReleasesInv, CallState
  <2>2. CASE GateCallOK(call[c])
    BY <1>1, <2>1, <2>2 DEF CallOK, GateCallOK, CanPass
  <2>3. CASE ReleaseCallOK(call[c])
    BY <1>1, <2>1, <2>3 DEF CallOK, ReleaseCallOK, EvidenceOK, PassingEvidence, IdentityOK,
                            Shipped, RollbackOK
  <2> QED BY <2>1, <2>2, <2>3 DEF CallOK
<1> QED BY <1>2, <1>3, <1>4 DEF ReleasesInv, CallState

LEMMA BeginGateKeeps ==
  ASSUME ReleasesInv, NEW c \in Calls, BeginGate(c, Evidence)
  PROVE  ReleasesInv'
<1>0. PICK g \in Gates, value \in GateValue :
       \E v \in 0..(MaxGateVersion - 1) :
         /\ GateAccepts(v, value)
         /\ call' = [call EXCEPT ![c] =
                       [at |-> IF v > 0 /\ value.status = "pass"
                                 THEN "evidence" ELSE "write gate",
                        on |-> g, expected |-> v, value |-> value]]
  BY DEF BeginGate, GateValue
<1>1. PICK v \in 0..(MaxGateVersion - 1) :
        /\ GateAccepts(v, value)
        /\ call' = [call EXCEPT ![c] =
                      [at |-> IF v > 0 /\ value.status = "pass"
                                THEN "evidence" ELSE "write gate",
                       on |-> g, expected |-> v, value |-> value]]
  BY <1>0
<1> DEFINE k == [at |-> IF v > 0 /\ value.status = "pass" THEN "evidence" ELSE "write gate",
                 on |-> g, expected |-> v, value |-> value]
<1>2. v \in 0..MaxGateVersion /\ v < MaxGateVersion
  BY EvidenceAssumption
<1>3. GateCallOK(k)
  <2>1. k.at = "write gate" => v = 0 \/ value.status # "pass"
    BY <1>2, EvidenceAssumption
  <2>2. k.at = "write gate" /\ value.status = "pass" => FALSE
    BY <1>1, <2>1 DEF GateAccepts
  <2>3. k \in GateCall BY <1>2 DEF GateCall
  <2> QED BY <1>2, <2>2, <2>3 DEF GateCallOK
<1> HIDE DEF k
<1> QED BY <1>1, <1>3, StepOfACall DEF BeginGate, CallOK, k

LEMMA ReadGateEvidenceKeeps ==
  ASSUME ReleasesInv, NEW c \in Calls, ReadGateEvidence(c)
  PROVE  ReleasesInv'
<1> DEFINE k == [call[c] EXCEPT !.at = "write gate"]
<1>1. GateCallOK(call[c])
  BY CallKinds DEF ReadGateEvidence, ReleasesInv, CallState, CallOK, ReleaseCallOK
<1>2. CASE CanPass(call[c].on, call[c].value.links)
  <2>1. k \in GateCall /\ k.expected = call[c].expected /\ k.value = call[c].value
          /\ k.on = call[c].on
    BY <1>1 DEF GateCallOK, GateCall
  <2>2. call' = [call EXCEPT ![c] = k] /\ UNCHANGED <<gate, recorded, release, shipped>>
    BY <1>2 DEF ReadGateEvidence, ReleasesInv, TypeOKReleases
  <2> HIDE DEF k
  <2>3. GateCallOK(k) BY <1>1, <1>2, <2>1 DEF GateCallOK
  <2> QED BY <2>2, <2>3, StepOfACall DEF CallOK
<1>3. CASE ~CanPass(call[c].on, call[c].value.links)
  BY <1>3, EndOfACall DEF ReadGateEvidence, ReleasesInv, TypeOKReleases
<1> QED BY <1>2, <1>3

(* What every release call has seen when the gates are gates. *)
LEMMA WitnessOK ==
  ASSUME ReleasesInv, NEW k \in ReleaseCall, ReleaseCallOK(k), UNCHANGED <<release, shipped>>,
         NEW n, n = [k EXCEPT !.seen = @ \union (PassingEvidence(gate') \intersect k.value.links)]
  PROVE  ReleaseCallOK(n)'
<1>1. n \in ReleaseCall /\ n.at = k.at /\ n.on = k.on /\ n.expected = k.expected
        /\ n.value = k.value /\ n.todo = k.todo /\ n.read = k.read
        /\ n.seen = k.seen \union (PassingEvidence(gate') \intersect k.value.links)
  BY ReleaseCallFields DEF ReleaseCall
<1>2. PassingEvidence(gate') = PassingEvidence(gate)' BY DEF PassingEvidence
<1>3. EvidenceOK(n)' BY <1>1, <1>2 DEF ReleaseCallOK, EvidenceOK
<1>4. IdentityOK(n)'
  BY <1>1 DEF ReleaseCallOK, IdentityOK, Shipped
<1>5. RollbackOK(n)'
  <2> SUFFICES ASSUME n.at = "write release", n.value.status = "rolled-back"
               PROVE  \E x \in Releases \ {n.on} : <<x, n.value.rollback>> \in shipped
    BY DEF RollbackOK
  <2> QED BY <1>1 DEF ReleaseCallOK, RollbackOK
<1> QED BY <1>1, <1>3, <1>4, <1>5 DEF ReleaseCallOK

LEMMA WriteGateKeeps ==
  ASSUME ReleasesInv, NEW c \in Calls, WriteGate(c)
  PROVE  ReleasesInv'
<1> DEFINE k == call[c]
           calls == [call EXCEPT ![c] = NoCall]
<1>1. GateCallOK(k)
  BY CallKinds DEF WriteGate, ReleasesInv, CallState, CallOK, ReleaseCallOK
<1>2. CASE gate[k.on].version # k.expected
  BY <1>2, EndOfACall DEF WriteGate, Return
<1>3. CASE gate[k.on].version = k.expected
  <2>1. /\ gate' = [gate EXCEPT ![k.on] = [version |-> k.expected + 1, value |-> k.value]]
        /\ call' = Witness(calls, gate') /\ UNCHANGED <<recorded, release, shipped>>
    BY <1>3 DEF WriteGate, NextVersion
  <2>2. k.on \in Gates /\ k.value \in GateValue /\ k.expected + 1 \in 0..MaxGateVersion
    <3>1. k \in GateCall /\ k.expected < MaxGateVersion BY <1>1 DEF GateCallOK
    <3>2. k.on \in Gates /\ k.value \in GateValue /\ k.expected \in 0..MaxGateVersion
      BY <3>1, GateCallFields
    <3> QED BY <3>1, <3>2, EvidenceAssumption
  <2>3. gate' \in [Gates -> Rows(0..MaxGateVersion, GateValue)]
    BY <2>1, <2>2 DEF ReleasesInv, TypeOKReleases, Rows
  <2>4. PassIsBacked'
    <3> SUFFICES ASSUME NEW g \in Gates, gate'[g].value.status = "pass"
                 PROVE  CanPass(g, gate[g].value.links)'
      BY DEF PassIsBacked
    <3>1. CASE g = k.on
      <4>1. gate'[g].value = k.value BY <2>1, <2>2, <3>1 DEF ReleasesInv, TypeOKReleases
      <4>2. CanPass(k.on, k.value.links) BY <1>1, <4>1 DEF GateCallOK, WriteGate
      <4> QED BY <2>1, <3>1, <4>1, <4>2 DEF CanPass
    <3>2. CASE g # k.on
      BY <2>1, <2>2, <3>2 DEF ReleasesInv, TypeOKReleases, PassIsBacked, CanPass
    <3> QED BY <3>1, <3>2
  <2>5. ASSUME NEW d \in Calls PROVE CallOK(call[d])'
    <3>1. calls[d] = IF d = c THEN NoCall ELSE call[d]
      BY DEF ReleasesInv, TypeOKReleases
    <3>2. CallOK(calls[d]) BY <3>1 DEF ReleasesInv, CallState, CallOK
    <3>3. call'[d] = IF IsReleaseCall(calls[d])
                       THEN [calls[d] EXCEPT !.seen =
                               @ \union (PassingEvidence(gate') \intersect calls[d].value.links)]
                       ELSE calls[d]
      BY <2>1 DEF Witness
    <3> HIDE DEF calls
    <3>4. CASE calls[d] = NoCall BY <3>3, <3>4, CallKinds DEF CallOK
    <3>5. CASE GateCallOK(calls[d])
      BY <2>1, <3>3, <3>5, CallKinds DEF CallOK, GateCallOK, CanPass
    <3>6. CASE ReleaseCallOK(calls[d])
      BY <2>1, <3>3, <3>6, CallKinds, WitnessOK DEF CallOK, ReleaseCallOK
    <3> QED BY <3>2, <3>4, <3>5, <3>6 DEF CallOK
  <2>6. TypeOKReleases'
    <3>1. \A d \in Calls : call'[d] \in GateCall \union ReleaseCall \union {NoCall}
      BY <2>5 DEF CallOK, GateCallOK, ReleaseCallOK
    <3>2. call' \in [Calls -> GateCall \union ReleaseCall \union {NoCall}]
      BY <2>1, <3>1 DEF Witness
    <3> QED BY <2>1, <2>3, <3>2 DEF ReleasesInv, TypeOKReleases
  <2>7. RolledBackToShipped' /\ ShippedOnRecord'
    BY <2>1 DEF ReleasesInv, RolledBackToShipped, ShippedOnRecord, Shipped
  <2>8. CallState' BY <2>5 DEF CallState
  <2> QED BY <2>4, <2>6, <2>7, <2>8 DEF ReleasesInv
<1> QED BY <1>2, <1>3

(* Releases. *)
LEMMA BeginReleaseKeeps ==
  ASSUME ReleasesInv, NEW c \in Calls, NEW r \in Releases, BeginRelease(c, r, Evidence)
  PROVE  ReleasesInv'
<1>0. PICK value \in ReleaseValue :
        \E v \in 0..(MaxReleaseVersion - 1) :
          call' = [call EXCEPT ![c] =
                     [at |-> IF v = 0 THEN "evidence of release" ELSE "current",
                      on |-> r, expected |-> v, value |-> value,
                      todo |-> IF value.status \in Shipping THEN value.links ELSE {},
                      seen |-> PassingEvidence(gate) \intersect value.links,
                      read |-> 0]]
  BY DEF BeginRelease, ReleaseValue
<1>1. PICK v \in 0..(MaxReleaseVersion - 1) :
        call' = [call EXCEPT ![c] =
                   [at |-> IF v = 0 THEN "evidence of release" ELSE "current",
                    on |-> r, expected |-> v, value |-> value,
                    todo |-> IF value.status \in Shipping THEN value.links ELSE {},
                    seen |-> PassingEvidence(gate) \intersect value.links,
                    read |-> 0]]
  BY <1>0
<1> DEFINE k == [at |-> IF v = 0 THEN "evidence of release" ELSE "current",
                 on |-> r, expected |-> v, value |-> value,
                 todo |-> IF value.status \in Shipping THEN value.links ELSE {},
                 seen |-> PassingEvidence(gate) \intersect value.links,
                 read |-> 0]
<1>2. /\ v \in 0..MaxReleaseVersion /\ v < MaxReleaseVersion
      /\ 0 \in 0..MaxReleaseVersion
  BY EvidenceAssumption
<1>3. k \in ReleaseCall
  <2>1. value.links \subseteq Evidence BY DEF ReleaseValue, ReleaseValues
  <2> QED BY <1>2, <2>1 DEF ReleaseCall
<1>4. EvidenceOK(k) BY DEF EvidenceOK
<1>5. IdentityOK(k)
  <2>1. k.read = 0 /\ k.expected = v /\ k.on = r OBVIOUS
  <2> HIDE DEF k
  <2>2. 0 <= release[r].version
    <3>1. release[r].version \in 0..MaxReleaseVersion BY RowsAreTyped DEF ReleasesInv
    <3> QED BY <3>1, EvidenceAssumption
  <2>3. release[r].version = 0 => ~Shipped(r) BY DEF Shipped
  <2> QED BY <1>2, <2>1, <2>2, <2>3 DEF IdentityOK
<1>6. RollbackOK(k) BY DEF RollbackOK
<1>7. CallOK(k) BY <1>3, <1>4, <1>5, <1>6 DEF CallOK, ReleaseCallOK
<1>8. call' = [call EXCEPT ![c] = k] BY <1>1
<1> HIDE DEF k
<1> QED BY <1>7, <1>8, StepOfACall DEF BeginRelease

LEMMA AtRelease ==
  ASSUME ReleasesInv, NEW c \in Calls,
         call[c].at \in {"current", "evidence of release", "rollback", "write release"}
  PROVE  ReleaseCallOK(call[c])
BY CallKinds DEF ReleasesInv, CallState, CallOK, GateCallOK

LEMMA ReadCurrentKeeps ==
  ASSUME ReleasesInv, NEW c \in Calls, ReadCurrent(c)
  PROVE  ReleasesInv'
<1> DEFINE k == call[c]
           n == [k EXCEPT !.at = "evidence of release", !.read = release[k.on].version]
<1>1. ReleaseCallOK(k) BY AtRelease DEF ReadCurrent
<1>2. CASE /\ release[k.on].version > 0
           /\ KeepsIdentity(release[k.on].value, k.value)
  <2>0. release[k.on].version \in 0..MaxReleaseVersion
    BY <1>1, RowsAreTyped, ReleaseCallFields DEF ReleasesInv, ReleaseCallOK
  <2>1. n \in ReleaseCall /\ n.at = "evidence of release" /\ n.on = k.on
          /\ n.expected = k.expected /\ n.value = k.value /\ n.todo = k.todo /\ n.seen = k.seen
          /\ n.read = release[k.on].version
    BY <1>1, <2>0 DEF ReleaseCallOK, ReleaseCall
  <2>2. call' = [call EXCEPT ![c] = n]
    BY <1>2 DEF ReadCurrent, ReleasesInv, TypeOKReleases
  <2> HIDE DEF n
  <2>3. EvidenceOK(n) BY <1>1, <2>1 DEF ReleaseCallOK, EvidenceOK
  <2>4. IdentityOK(n)
    <3>0. \A m \in 0..MaxReleaseVersion : m <= m BY EvidenceAssumption
    <3>1. n.read <= release[n.on].version BY <2>0, <2>1, <3>0
    <3> QED BY <1>1, <1>2, <2>1, <3>1 DEF ReleaseCallOK, IdentityOK, KeepsIdentity, Shipped
  <2>5. RollbackOK(n) BY <2>1 DEF RollbackOK
  <2> QED BY <2>1, <2>2, <2>3, <2>4, <2>5, StepOfACall DEF CallOK, ReleaseCallOK, ReadCurrent
<1>3. CASE ~(/\ release[k.on].version > 0
             /\ KeepsIdentity(release[k.on].value, k.value))
  BY <1>3, EndOfACall DEF ReadCurrent, ReleasesInv, TypeOKReleases
<1> QED BY <1>2, <1>3

LEMMA CheckEvidenceKeeps ==
  ASSUME ReleasesInv, NEW c \in Calls, CheckEvidence(c)
  PROVE  ReleasesInv'
<1> DEFINE k == call[c]
<1>1. ReleaseCallOK(k) BY AtRelease DEF CheckEvidence
<1>2. CASE k.value.status \in Shipping /\ k.value.links = {}
  BY <1>2, EndOfACall DEF CheckEvidence, Return
<1>3. CASE /\ ~(k.value.status \in Shipping /\ k.value.links = {})
           /\ k.todo = {} /\ call' = [call EXCEPT ![c].at = "rollback"]
  <2> DEFINE n == [k EXCEPT !.at = "rollback"]
  <2>1. n \in ReleaseCall /\ n.at = "rollback" /\ n.on = k.on /\ n.expected = k.expected
          /\ n.value = k.value /\ n.todo = k.todo /\ n.seen = k.seen /\ n.read = k.read
    BY <1>1 DEF ReleaseCallOK, ReleaseCall
  <2>2. call' = [call EXCEPT ![c] = n] BY <1>3
  <2> HIDE DEF n
  <2>3. EvidenceOK(n) BY <1>1, <1>3, <2>1 DEF ReleaseCallOK, EvidenceOK
  <2>4. IdentityOK(n) BY <1>1, <2>1 DEF ReleaseCallOK, IdentityOK, CheckEvidence
  <2>5. RollbackOK(n) BY <2>1 DEF RollbackOK
  <2> QED BY <2>1, <2>2, <2>3, <2>4, <2>5, StepOfACall DEF CallOK, ReleaseCallOK, CheckEvidence
<1>4. ASSUME NEW e \in k.todo,
             call' = [call EXCEPT ![c] = IF EvidenceCounts(e, k.value)
                                           THEN [k EXCEPT !.todo = @ \ {e}] ELSE NoCall]
      PROVE  ReleasesInv'
  <2>1. CASE ~EvidenceCounts(e, k.value)
    BY <1>4, <2>1, EndOfACall DEF CheckEvidence
  <2>2. CASE EvidenceCounts(e, k.value)
    <3> DEFINE n == [k EXCEPT !.todo = @ \ {e}]
    <3>1. n \in ReleaseCall /\ n.at = k.at /\ n.on = k.on /\ n.expected = k.expected
            /\ n.value = k.value /\ n.todo = k.todo \ {e} /\ n.seen = k.seen
            /\ n.read = k.read
      BY <1>1, ReleaseCallFields DEF ReleaseCallOK, ReleaseCall
    <3>2. call' = [call EXCEPT ![c] = n] BY <1>4, <2>2
    <3> HIDE DEF n
    <3>3. e \in Evidence BY <1>1, ReleaseCallFields DEF ReleaseCallOK
    <3>4. e \in k.value.links => e \in k.seen /\ RevisionOf[e] = k.value.revision
      BY <1>1, <2>2, <3>3 DEF ReleaseCallOK, EvidenceOK, EvidenceCounts, PassingEvidence
    <3>5. EvidenceOK(n)
      BY <1>1, <3>1, <3>4 DEF ReleaseCallOK, EvidenceOK, CheckEvidence
    <3>6. IdentityOK(n) BY <1>1, <3>1 DEF ReleaseCallOK, IdentityOK
    <3>7. RollbackOK(n) BY <1>1, <3>1 DEF ReleaseCallOK, RollbackOK
    <3> QED BY <3>1, <3>2, <3>5, <3>6, <3>7, StepOfACall DEF CallOK, ReleaseCallOK, CheckEvidence
  <2> QED BY <2>1, <2>2
<1> QED BY <1>2, <1>3, <1>4 DEF CheckEvidence

LEMMA CheckRollbackKeeps ==
  ASSUME ReleasesInv, NEW c \in Calls, CheckRollback(c)
  PROVE  ReleasesInv'
<1> DEFINE k == call[c]
           n == [k EXCEPT !.at = "write release"]
<1>1. ReleaseCallOK(k) BY AtRelease DEF CheckRollback
<1>2. CASE RollbackTarget(k.on, k.value)
  <2>1. n \in ReleaseCall /\ n.at = "write release" /\ n.on = k.on /\ n.expected = k.expected
          /\ n.value = k.value /\ n.todo = k.todo /\ n.seen = k.seen /\ n.read = k.read
    BY <1>1 DEF ReleaseCallOK, ReleaseCall
  <2>2. call' = [call EXCEPT ![c] = n]
    BY <1>2 DEF CheckRollback, ReleasesInv, TypeOKReleases
  <2> HIDE DEF n
  <2>3. EvidenceOK(n) BY <1>1, <2>1 DEF ReleaseCallOK, EvidenceOK, CheckRollback
  <2>4. IdentityOK(n) BY <1>1, <2>1 DEF ReleaseCallOK, IdentityOK, CheckRollback
  <2>5. RollbackOK(n)
    BY <1>2, <2>1 DEF RollbackOK, RollbackTarget, ReleasesInv, ShippedOnRecord, Shipped
  <2> QED BY <2>1, <2>2, <2>3, <2>4, <2>5, StepOfACall DEF CallOK, ReleaseCallOK, CheckRollback
<1>3. CASE ~RollbackTarget(k.on, k.value)
  BY <1>3, EndOfACall DEF CheckRollback, ReleasesInv, TypeOKReleases
<1> QED BY <1>2, <1>3

LEMMA WriteReleaseKeeps ==
  ASSUME ReleasesInv, NEW c \in Calls, WriteRelease(c)
  PROVE  ReleasesInv'
<1> DEFINE k == call[c]
<1>1. ReleaseCallOK(k) /\ k.at = "write release" BY AtRelease DEF WriteRelease
<1>2. CASE ~AtVersion(k) BY <1>2, EndOfACall DEF WriteRelease, Return
<1>3. CASE AtVersion(k)
  <2>1. /\ release' = [release EXCEPT ![k.on] = [version |-> k.expected + 1, value |-> k.value]]
        /\ shipped \subseteq shipped'
        /\ shipped' \subseteq shipped \union {<<k.on, k.value.revision>>}
        /\ k.value.status \in Shipping => <<k.on, k.value.revision>> \in shipped'
        /\ call' = [call EXCEPT ![c] = NoCall] /\ UNCHANGED <<gate, recorded>>
    BY <1>3 DEF WriteRelease, NextVersion, Return
  <2>2. k.on \in Releases /\ k.value \in ReleaseValue /\ k.value.revision \in Revisions
          /\ k.expected \in 0..MaxReleaseVersion /\ k.expected < MaxReleaseVersion
    BY <1>1, ReleaseCallFields DEF ReleaseCallOK, IdentityOK
  <2>3. k.expected + 1 \in 0..MaxReleaseVersion BY <2>2, EvidenceAssumption
  <2>4. TypeOKReleases'
    <3>1. release' \in [Releases -> Rows(0..MaxReleaseVersion, ReleaseValue)]
      BY <2>1, <2>2, <2>3 DEF ReleasesInv, TypeOKReleases, Rows
    <3>2. shipped' \subseteq Releases \X Revisions
      BY <2>1, <2>2 DEF ReleasesInv, TypeOKReleases
    <3> QED BY <2>1, <3>1, <3>2 DEF ReleasesInv, TypeOKReleases
  <2>5. \A r \in Releases :
          release'[r] = IF r = k.on THEN [version |-> k.expected + 1, value |-> k.value]
                                    ELSE release[r]
    BY <2>1 DEF ReleasesInv, TypeOKReleases
  <2>6. release'[k.on].value = k.value /\ release'[k.on].version = k.expected + 1
    BY <2>2, <2>5
  <2>7. PassIsBacked' BY <2>1 DEF ReleasesInv, PassIsBacked, CanPass
  <2>8. RolledBackToShipped'
    <3> SUFFICES ASSUME NEW r \in Releases, Shipped(r)',
                        release'[r].value.status = "rolled-back"
                 PROVE  \E x \in Releases \ {r} : <<x, release'[r].value.rollback>> \in shipped'
      BY DEF RolledBackToShipped
    <3>1. CASE r = k.on
      BY <1>1, <2>1, <2>6, <3>1 DEF ReleaseCallOK, RollbackOK
    <3>2. CASE r # k.on
      BY <2>1, <2>5, <3>2 DEF ReleasesInv, RolledBackToShipped, Shipped
    <3> QED BY <3>1, <3>2
  <2>9. ShippedOnRecord'
    <3> SUFFICES ASSUME NEW r \in Releases, Shipped(r)'
                 PROVE  <<r, release'[r].value.revision>> \in shipped'
      BY DEF ShippedOnRecord
    <3>1. CASE r = k.on BY <2>1, <2>6, <3>1 DEF Shipped
    <3>2. CASE r # k.on BY <2>1, <2>5, <3>2 DEF ReleasesInv, ShippedOnRecord, Shipped
    <3> QED BY <3>1, <3>2
  <2>10. CallState'
    <3> SUFFICES ASSUME NEW d \in Calls, d # c PROVE CallOK(call[d])'
      BY <2>1 DEF CallState, CallOK, ReleasesInv, TypeOKReleases
    <3> DEFINE m == call[d]
    <3>1. call'[d] = m BY <2>1 DEF ReleasesInv, TypeOKReleases
    <3>2. CASE m = NoCall BY <3>1, <3>2 DEF CallOK
    <3>3. CASE GateCallOK(m) BY <2>1, <3>1, <3>3 DEF CallOK, GateCallOK, CanPass
    <3>4. CASE ReleaseCallOK(m)
      <4>1. EvidenceOK(m)' BY <2>1, <3>1, <3>4 DEF ReleaseCallOK, EvidenceOK, PassingEvidence
      <4>2. RollbackOK(m)' BY <2>1, <3>1, <3>4 DEF ReleaseCallOK, RollbackOK
      <4>3. m.on \in Releases /\ m.read \in 0..MaxReleaseVersion
              /\ m.expected < MaxReleaseVersion /\ m.read <= release[m.on].version
        BY <3>4, ReleaseCallFields DEF ReleaseCallOK, IdentityOK
      <4>4. IdentityOK(m)'
        <5>1. CASE m.on = k.on
          <6>1. m.read < k.expected + 1
            BY <1>3, <2>2, <4>3, <5>1, EvidenceAssumption DEF AtVersion
          <6>2. release'[m.on].version = k.expected + 1 BY <2>6, <5>1
          <6>3. m.read <= release'[m.on].version /\ m.read # release'[m.on].version
            BY <2>2, <4>3, <6>1, <6>2, EvidenceAssumption
          <6> QED BY <3>1, <4>3, <6>3 DEF IdentityOK
        <5>2. CASE m.on # k.on
          BY <2>5, <3>1, <3>4, <4>3, <5>2 DEF ReleaseCallOK, IdentityOK, Shipped
        <5> QED BY <5>1, <5>2
      <4> QED BY <3>1, <3>4, <4>1, <4>2, <4>4 DEF CallOK, ReleaseCallOK
    <3> QED BY <3>2, <3>3, <3>4 DEF ReleasesInv, CallState, CallOK
  <2> QED BY <2>4, <2>7, <2>8, <2>9, <2>10 DEF ReleasesInv
<1> QED BY <1>2, <1>3

(* The inductive invariant: what a call has read so far bounds what it may *)
(* write, and passing gates and shipped releases have what they rest on.   *)
THEOREM ReleasesInvariant == SpecReleases => []ReleasesInv
<1>1. ReleasesInv /\ [NextReleases]_vars => ReleasesInv'
  <2> SUFFICES ASSUME ReleasesInv, [NextReleases]_vars PROVE ReleasesInv'
    OBVIOUS
  <2>1. ASSUME NEW c \in Calls, BeginGate(c, Evidence) PROVE ReleasesInv'
    BY <2>1, BeginGateKeeps
  <2>2. ASSUME NEW c \in Calls, NEW r \in Releases, BeginRelease(c, r, Evidence)
        PROVE  ReleasesInv'
    BY <2>2, BeginReleaseKeeps
  <2>3. ASSUME NEW c \in Calls, Proceed(c) PROVE ReleasesInv'
    <3>1. Drop(c) => ReleasesInv' BY EndOfACall DEF Drop, Return
    <3> QED BY <2>3, <3>1, ReadGateEvidenceKeeps, WriteGateKeeps, ReadCurrentKeeps,
               CheckEvidenceKeeps, CheckRollbackKeeps, WriteReleaseKeeps DEF Proceed
  <2>4. ASSUME NEW e \in Evidence, AddEvidence(e) PROVE ReleasesInv'
    BY <2>4, AddEvidenceKeeps
  <2>5. CASE UNCHANGED vars
    <3>1. (TypeOKReleases /\ PassIsBacked /\ RolledBackToShipped /\ ShippedOnRecord)'
      BY <2>5 DEF vars, ReleasesInv, TypeOKReleases, PassIsBacked, CanPass,
                  RolledBackToShipped, ShippedOnRecord, Shipped
    <3>2. ASSUME NEW c \in Calls PROVE CallOK(call[c])'
      <4>1. CallOK(call[c]) /\ call'[c] = call[c]
        BY <2>5 DEF vars, ReleasesInv, CallState
      <4>2. CASE GateCallOK(call[c])
        BY <2>5, <4>1, <4>2 DEF vars, CallOK, GateCallOK, CanPass
      <4>3. CASE ReleaseCallOK(call[c])
        BY <2>5, <4>1, <4>3 DEF vars, CallOK, ReleaseCallOK, EvidenceOK, PassingEvidence,
                                IdentityOK, Shipped, RollbackOK
      <4> QED BY <4>1, <4>2, <4>3 DEF CallOK
    <3> QED BY <3>1, <3>2 DEF ReleasesInv, CallState
  <2> QED BY <2>1, <2>2, <2>3, <2>4, <2>5 DEF NextReleases, NextAmong
<1> QED BY InitOK, <1>1, PTL DEF SpecReleases

(* A gate that passes has evidence, recorded and its own, whatever updates *)
(* of gates and new evidence overlap.                                      *)
THEOREM PassesAreBacked == SpecReleases => []PassIsBacked
<1>1. ReleasesInv => PassIsBacked BY DEF ReleasesInv
<1> QED BY ReleasesInvariant, <1>1, PTL

(* What a release is rolled back to had been shipped by another record,    *)
(* although that record may be edited between the look-up and the write.   *)
THEOREM RollbacksAreShipped == SpecReleases => []RolledBackToShipped
<1>1. ReleasesInv => RolledBackToShipped BY DEF ReleasesInv
<1> QED BY ReleasesInvariant, <1>1, PTL

(* The only step that changes a release is the write of a call at the      *)
(* version of its row, which ends the call.                                *)
LEMMA ReleasesChangeByWrites ==
  ASSUME ReleasesInv, [NextReleases]_vars, NEW r \in Releases, release'[r] # release[r]
  PROVE  \E c \in Calls :
           /\ ReleaseCallOK(call[c]) /\ call[c].at = "write release" /\ call[c].on = r
           /\ AtVersion(call[c]) /\ release'[r].value = call[c].value
           /\ call'[c] = NoCall
<1>1. PICK c \in Calls : WriteRelease(c) /\ AtVersion(call[c])
  BY DEF vars, NextReleases, NextAmong, Proceed, BeginGate, BeginRelease, ReadGateEvidence,
         WriteGate, ReadCurrent, CheckEvidence, CheckRollback, WriteRelease, Drop, AddEvidence
<1>2. ReleaseCallOK(call[c]) /\ call[c].at = "write release"
  BY <1>1, AtRelease DEF WriteRelease
<1>3. call[c].on \in Releases BY <1>2, ReleaseCallFields DEF ReleaseCallOK
<1>4. release' = [release EXCEPT ![call[c].on] = [version |-> NextVersion(call[c].expected),
                                                  value |-> call[c].value]]
  BY <1>1 DEF WriteRelease
<1>5. r = call[c].on BY <1>4 DEF ReleasesInv, TypeOKReleases
<1>6. release'[r].value = call[c].value BY <1>3, <1>4, <1>5 DEF ReleasesInv, TypeOKReleases
<1>7. call'[c] = NoCall BY <1>1 DEF WriteRelease, Return, ReleasesInv, TypeOKReleases
<1> QED BY <1>1, <1>2, <1>5, <1>6, <1>7

(* Nothing ships but on evidence of its revision that its gates passed     *)
(* with while the call looked.                                             *)
THEOREM ShippingIsGated == SpecReleases => ShippedOnPassedGates
<1> DEFINE A == \A r \in Releases : release'[r] # release[r]
                                    /\ release'[r].value.status \in Shipping =>
                  \E c \in Calls :
                    /\ call[c] # NoCall /\ call[c].at = "write release" /\ call[c].on = r
                    /\ release'[r].value.links # {}
                    /\ \A e \in release'[r].value.links :
                         e \in call[c].seen /\ RevisionOf[e] = release'[r].value.revision
<1>1. ReleasesInv /\ [NextReleases]_vars => A
  <2> SUFFICES ASSUME ReleasesInv, [NextReleases]_vars, NEW r \in Releases,
                      release'[r] # release[r], release'[r].value.status \in Shipping
               PROVE  \E c \in Calls :
                        /\ call[c] # NoCall /\ call[c].at = "write release" /\ call[c].on = r
                        /\ release'[r].value.links # {}
                        /\ \A e \in release'[r].value.links :
                             e \in call[c].seen /\ RevisionOf[e] = release'[r].value.revision
    OBVIOUS
  <2>1. PICK c \in Calls :
          /\ ReleaseCallOK(call[c]) /\ call[c].at = "write release" /\ call[c].on = r
          /\ AtVersion(call[c]) /\ release'[r].value = call[c].value
    BY ReleasesChangeByWrites
  <2>2. call[c] # NoCall BY <2>1, CallKinds
  <2> QED BY <2>1, <2>2 DEF ReleaseCallOK, EvidenceOK
<1>2. []ReleasesInv /\ [][NextReleases]_vars => [][A]_vars BY <1>1, PTL
<1> QED BY <1>2, ReleasesInvariant, PTL DEF SpecReleases, ShippedOnPassedGates

(* However the updates overlap, the identity of a shipped record is        *)
(* changed only by one that names a version the record had not reached     *)
(* when that update read it: updateRelease never compares the two.  An     *)
(* update at the version it read, or an older one, cannot.                 *)
THEOREM ShippedIdentityIsKept == SpecReleases => IdentityKeptWhileShipped
<1> DEFINE A == \A r \in Releases : Shipped(r) =>
                  \/ SameIdentity(release[r].value, release'[r].value)
                  \/ \E c \in Calls : Overtakes(c, r) /\ call'[c] = NoCall
<1>1. ReleasesInv /\ [NextReleases]_vars => A
  <2> SUFFICES ASSUME ReleasesInv, [NextReleases]_vars, NEW r \in Releases, Shipped(r),
                      ~\E c \in Calls : Overtakes(c, r) /\ call'[c] = NoCall
               PROVE  SameIdentity(release[r].value, release'[r].value)
    OBVIOUS
  <2>1. CASE release'[r] = release[r] BY <2>1 DEF SameIdentity
  <2>2. CASE release'[r] # release[r]
    <3>1. PICK c \in Calls :
            /\ ReleaseCallOK(call[c]) /\ call[c].at = "write release" /\ call[c].on = r
            /\ AtVersion(call[c]) /\ release'[r].value = call[c].value
            /\ call'[c] = NoCall
      BY <2>2, ReleasesChangeByWrites
    <3>2. ~(call[c].read < call[c].expected)
      <4>1. call[c] # NoCall BY <3>1, CallKinds
      <4> QED BY <3>1, <4>1 DEF Overtakes
    <3>3. /\ call[c].read \in 0..MaxReleaseVersion /\ call[c].expected \in 0..MaxReleaseVersion
          /\ call[c].read <= call[c].expected /\ release[r].version = call[c].expected
      BY <3>1, ReleaseCallFields DEF ReleaseCallOK, IdentityOK, AtVersion
    <3>4. release[r].version = call[c].read BY <3>2, <3>3, EvidenceAssumption
    <3> QED BY <3>1, <3>4 DEF ReleaseCallOK, IdentityOK
  <2> QED BY <2>1, <2>2
<1>2. []ReleasesInv /\ [][NextReleases]_vars => [][A]_vars BY <1>1, PTL
<1> QED BY <1>2, ReleasesInvariant, PTL DEF SpecReleases, IdentityKeptWhileShipped

-----------------------------------------------------------------------------
(* Work packages and their dependencies.                                   *)

(* What a call that is about to write knows: unless its read was overtaken *)
(* the graph is still the one it validated its dependencies against.       *)
ReadIsCurrent ==
  \A c \in Editors :
    edit[c].at = "write" /\ ~edit[c].stale
      => ValidDependencies(edit[c].on, edit[c].deps)

(* A call was made at a version that may still be counted on. *)
EditsInBound ==
  \A c \in Editors : edit[c].at # "idle" => edit[c].expected < MaxPackageVersion

PackagesInv == TypeOKPackages /\ EditsInBound /\ ReadIsCurrent

(* A cycle that a change of one package's dependencies closes can be       *)
(* reached from that package.                                              *)
LEMMA CycleIsReachable ==
  ASSUME NEW graph \in [Packages -> SUBSET Packages], NEW p \in Packages,
         NEW deps \in SUBSET Packages, ~Cyclic(graph, Packages),
         Cyclic([graph EXCEPT ![p] = deps], Packages)
  PROVE  Cyclic([graph EXCEPT ![p] = deps],
                ReachableFrom([graph EXCEPT ![p] = deps], p))
  <1> DEFINE new == [graph EXCEPT ![p] = deps]
             reach == ReachableFrom(new, p)
  <1>1. PICK S \in SUBSET Packages : S # {} /\ \A q \in S : new[q] \intersect S # {}
    BY DEF Cyclic
  <1>2. p \in S
    <2>1. SUFFICES ASSUME p \notin S PROVE FALSE
      OBVIOUS
    <2>2. \A q \in S : new[q] = graph[q]
      BY <2>1
    <2> QED BY <1>1, <2>2 DEF Cyclic
  <1>3. p \in reach /\ Closed(new, reach) /\ reach \subseteq Packages
    BY DEF ReachableFrom, Closed
  <1>4. \A q \in S \intersect reach : new[q] \intersect (S \intersect reach) # {}
    <2> HIDE DEF new, reach
    <2>1. ASSUME NEW q \in S \intersect reach PROVE new[q] \subseteq reach
      BY <1>3 DEF Closed
    <2> QED BY <1>1, <2>1
  <1>5. S \intersect reach \in SUBSET reach /\ S \intersect reach # {}
    BY <1>2, <1>3
  <1> HIDE DEF new, reach
  <1>6. Cyclic(new, reach)
    BY <1>4, <1>5 DEF Cyclic
  <1> QED BY <1>6 DEF new, reach

LEMMA PackageTypes ==
  ASSUME TypeOKPackages, EditsInBound, NEW c \in Editors,
         BeginEdit(c) \/ Validate(c) \/ WritePackage(c) \/ DropEdit(c)
  PROVE  TypeOKPackages' /\ EditsInBound'
  <1> USE PackagesAssumption DEF TypeOKPackages, Edit, NoEdit, EditsInBound
  <1>1. CASE BeginEdit(c)
    <2>1. PICK p \in Packages, deps \in SUBSET Packages, v \in 0..(MaxPackageVersion - 1) :
            edit' = [edit EXCEPT ![c] =
                       [at |-> "validate", on |-> p, deps |-> deps,
                        expected |-> v, stale |-> FALSE]]
      BY <1>1 DEF BeginEdit
    <2>2. v \in 0..MaxPackageVersion /\ v < MaxPackageVersion
      OBVIOUS
    <2> QED BY <1>1, <2>1, <2>2 DEF BeginEdit
  <1>2. CASE Validate(c)
    <2>1. edit[c] \in Edit /\ edit[c].expected < MaxPackageVersion
      BY <1>2 DEF Validate
    <2>2. [edit[c] EXCEPT !.at = "write"] \in Edit
      BY <2>1
    <2> QED BY <1>2, <2>1, <2>2 DEF Validate
  <1>3. CASE WritePackage(c)
    <2> DEFINE k == edit[c]
    <2>1. k \in Edit /\ k.expected + 1 \in 0..MaxPackageVersion
      BY <1>3 DEF WritePackage
    <2>2. CASE package[k.on].version = k.expected
      <3>1. package' \in [Packages -> [version : 0..MaxPackageVersion,
                                       deps : SUBSET Packages]]
        BY <1>3, <2>1, <2>2 DEF WritePackage
      <3>2. ASSUME NEW d \in Editors
            PROVE  /\ edit'[d] \in Edit \union {NoEdit}
                   /\ edit'[d].at # "idle" => edit'[d].expected < MaxPackageVersion
        <4>1. CASE d # c /\ edit[d].at = "write"
          <5>1. edit'[d] = [edit[d] EXCEPT !.stale = TRUE] /\ edit[d] \in Edit
            BY <1>3, <2>2, <4>1 DEF WritePackage
          <5>2. [edit[d] EXCEPT !.stale = TRUE] \in Edit
            BY <5>1
          <5> QED BY <5>1, <5>2
        <4>2. CASE ~(d # c /\ edit[d].at = "write")
          BY <1>3, <2>2, <4>2 DEF WritePackage
        <4> QED BY <4>1, <4>2
      <3>3. edit' = [d \in Editors |-> edit'[d]]
        BY <1>3, <2>2 DEF WritePackage
      <3>4. edit' \in [Editors -> Edit \union {NoEdit}]
        BY <3>2, <3>3
      <3> QED BY <3>1, <3>2, <3>4
    <2>3. CASE package[k.on].version # k.expected
      BY <1>3, <2>3 DEF WritePackage
    <2> QED BY <2>2, <2>3
  <1>4. CASE DropEdit(c)
    BY <1>4 DEF DropEdit
  <1> QED BY <1>1, <1>2, <1>3, <1>4

LEMMA PackageReads ==
  ASSUME TypeOKPackages, ReadIsCurrent, NEW c \in Editors,
         BeginEdit(c) \/ Validate(c) \/ WritePackage(c) \/ DropEdit(c)
  PROVE  ReadIsCurrent'
  <1> USE DEF TypeOKPackages
  <1>1. SUFFICES ASSUME NEW d \in Editors, edit'[d].at = "write", ~edit'[d].stale
                 PROVE  (ValidDependencies(edit[d].on, edit[d].deps))'
    BY DEF ReadIsCurrent
  <1>2. ASSUME UNCHANGED package, edit'[d].on = edit[d].on, edit'[d].deps = edit[d].deps,
               ValidDependencies(edit[d].on, edit[d].deps)
        PROVE  (ValidDependencies(edit[d].on, edit[d].deps))'
    BY <1>2 DEF ValidDependencies, Graph, Existing
  <1>3. CASE UNCHANGED package /\ edit'[d] = edit[d]
    BY <1>1, <1>2, <1>3 DEF ReadIsCurrent
  <1>4. CASE BeginEdit(c) \/ DropEdit(c)
    <2>1. d # c /\ edit'[d] = edit[d] /\ UNCHANGED package
      BY <1>1, <1>4 DEF BeginEdit, DropEdit, NoEdit
    <2> QED BY <1>3, <2>1
  <1>5. CASE Validate(c)
    <2>1. CASE d # c
      BY <1>3, <1>5, <2>1 DEF Validate
    <2>2. CASE d = c
      <3>1. ValidDependencies(edit[c].on, edit[c].deps)
        BY <1>1, <1>5, <2>2 DEF Validate, NoEdit
      <3>2. edit'[c].on = edit[c].on /\ edit'[c].deps = edit[c].deps
        BY <1>5, <3>1 DEF Validate, Edit, NoEdit
      <3>3. UNCHANGED package
        BY <1>5 DEF Validate
      <3> QED BY <1>2, <2>2, <3>1, <3>2, <3>3
    <2> QED BY <2>1, <2>2
  <1>6. CASE WritePackage(c)
    <2>1. CASE UNCHANGED package
      <3>1. d # c
        BY <1>1, <1>6 DEF WritePackage, NoEdit
      <3>2. edit'[d] = edit[d]
        <4>1. CASE edit' = [edit EXCEPT ![c] = NoEdit]
          BY <3>1, <4>1
        <4>2. CASE edit' # [edit EXCEPT ![c] = NoEdit]
          BY <1>1, <1>6, <3>1, <4>2 DEF WritePackage, Edit, NoEdit
        <4> QED BY <4>1, <4>2
      <3> QED BY <1>3, <2>1, <3>2
    <2>2. CASE package' # package
      <3>1. edit'[d] = IF d = c THEN NoEdit
                       ELSE IF edit[d].at = "write" THEN [edit[d] EXCEPT !.stale = TRUE]
                       ELSE edit[d]
        BY <1>6, <2>2 DEF WritePackage
      <3> QED BY <1>1, <3>1 DEF Edit, NoEdit
    <2> QED BY <2>1, <2>2
  <1> QED BY <1>4, <1>5, <1>6

LEMMA PackagesNextInv == PackagesInv /\ [NextPackages]_packageVars => PackagesInv'
  <1>1. PackagesInv /\ UNCHANGED packageVars => PackagesInv'
    BY DEF PackagesInv, packageVars, TypeOKPackages, EditsInBound, ReadIsCurrent,
           ValidDependencies, Graph, Existing
  <1> QED BY <1>1, PackageTypes, PackageReads DEF PackagesInv, NextPackages

(* Rows and calls are well formed, and a call about to write knows the     *)
(* graph it validated against unless it has been overtaken.                *)
THEOREM PackagesInvariant == SpecPackages => []PackagesInv
  <1>1. InitPackages => PackagesInv
    BY PackagesAssumption
    DEF InitPackages, PackagesInv, TypeOKPackages, EditsInBound, ReadIsCurrent, NoEdit
  <1> QED BY <1>1, PackagesNextInv, PTL DEF SpecPackages

LEMMA CycleStep ==
  ASSUME PackagesInv, [NextPackages]_packageVars,
         ~Cyclic(Graph, Packages), Cyclic(Graph, Packages)'
  PROVE  \E c \in Editors : /\ edit[c] # NoEdit /\ edit[c].at = "write"
                            /\ edit[c].stale /\ edit'[c] = NoEdit
  <1> USE DEF PackagesInv, TypeOKPackages
  <1>1. package' # package
    BY DEF Cyclic, Graph
  <1>2. PICK c \in Editors : WritePackage(c) /\ package[edit[c].on].version = edit[c].expected
    BY <1>1 DEF NextPackages, BeginEdit, Validate, WritePackage, DropEdit, packageVars
  <1> DEFINE k == edit[c]
  <1>3. k \in Edit /\ k.at = "write" /\ k # NoEdit /\ edit'[c] = NoEdit
    BY <1>2 DEF WritePackage, NoEdit
  <1>4. Graph' = [Graph EXCEPT ![k.on] = k.deps]
    <2>1. package' = [package EXCEPT ![k.on] =
                        [version |-> k.expected + 1, deps |-> k.deps]]
      BY <1>2 DEF WritePackage
    <2> QED BY <1>3, <2>1 DEF Graph, Edit
  <1>5. ASSUME ~k.stale PROVE FALSE
    <2>1. ~Cyclic([Graph EXCEPT ![k.on] = k.deps],
                  ReachableFrom([Graph EXCEPT ![k.on] = k.deps], k.on))
      BY <1>3, <1>5 DEF ReadIsCurrent, ValidDependencies
    <2>2. Graph \in [Packages -> SUBSET Packages] /\ k.on \in Packages
          /\ k.deps \in SUBSET Packages
      BY <1>3 DEF Graph, Edit
    <2>3. Cyclic([Graph EXCEPT ![k.on] = k.deps], Packages)
      BY <1>4 DEF Cyclic
    <2> QED BY <2>1, <2>2, <2>3, CycleIsReachable
  <1> QED BY <1>3, <1>5

(* However many calls race, validateWorkPackageDependencies lets a cycle   *)
(* in only through a call whose read of the packages was overtaken.        *)
THEOREM CyclesComeFromRaces == SpecPackages => CyclesNeedARace
  <1>1. PackagesInv /\ [NextPackages]_packageVars
          => [~ Cyclic(Graph, Packages) /\ Cyclic(Graph, Packages)'
                => \E c \in Editors : /\ edit[c] # NoEdit /\ edit[c].at = "write"
                                      /\ edit[c].stale /\ edit'[c] = NoEdit]_packageVars
    BY CycleStep
  <1> QED BY <1>1, PackagesInvariant, PTL DEF SpecPackages, CyclesNeedARace

(* The call of c, if any, was not overtaken. *)
NotOvertaken(c) == edit[c].at \in {"validate", "write"} => ~edit[c].stale

(* What the tests of the dependency rules state, where it is true: calls   *)
(* made one at a time never store a cycle.                                 *)
THEOREM OneEditorStoresNoCycle ==
  ASSUME NEW c, Editors = {c}
  PROVE  SpecPackages => []NoDependencyCycle
  <1>0. c \in Editors
    OBVIOUS
  <1>1. InitPackages => NoDependencyCycle /\ NotOvertaken(c)
    <2>1. InitPackages => \A p \in Packages : Graph[p] = {}
      <3> SUFFICES ASSUME InitPackages, NEW p \in Packages
                   PROVE  Graph[p] = {}
        OBVIOUS
      <3>1. package[p].deps = {}
        BY DEF InitPackages
      <3> QED BY <3>1 DEF Graph
    <2>2. InitPackages => NoDependencyCycle
      BY <2>1 DEF NoDependencyCycle, Cyclic
    <2>3. InitPackages => NotOvertaken(c)
      BY <1>0 DEF InitPackages, NotOvertaken, NoEdit
    <2> QED BY <2>2, <2>3
  <1>2. ASSUME PackagesInv, NoDependencyCycle, NotOvertaken(c), [NextPackages]_packageVars
        PROVE  NoDependencyCycle' /\ NotOvertaken(c)'
    <2>1. NoDependencyCycle'
      <3>1. ~(edit[c].at = "write" /\ edit[c].stale)
        BY <1>2 DEF NotOvertaken
      <3> QED BY <1>2, <3>1, CycleStep DEF NoDependencyCycle
    <2>2. NotOvertaken(c)'
      <3> USE <1>0, <1>2 DEF PackagesInv, TypeOKPackages, NotOvertaken
      <3>1. CASE BeginEdit(c)
        <4>1. edit'[c].at = "validate" /\ ~edit'[c].stale
          BY <3>1 DEF BeginEdit
        <4> QED BY <4>1
      <3>2. CASE Validate(c)
        <4>1. edit[c] \in Edit /\ ~edit[c].stale
          BY <3>2 DEF Validate, NoEdit
        <4>2. edit'[c] = NoEdit \/ edit'[c] = [edit[c] EXCEPT !.at = "write"]
          BY <3>2 DEF Validate
        <4> QED BY <4>1, <4>2 DEF Edit, NoEdit
      <3>3. CASE WritePackage(c) \/ DropEdit(c)
        <4>1. edit'[c] = NoEdit
          BY <3>3 DEF WritePackage, DropEdit
        <4> QED BY <4>1 DEF NoEdit
      <3>4. CASE UNCHANGED packageVars
        BY <3>4 DEF packageVars
      <3> QED BY <3>1, <3>2, <3>3, <3>4 DEF NextPackages
    <2> QED BY <2>1, <2>2
  <1>3. PackagesInv /\ NoDependencyCycle /\ NotOvertaken(c) /\ [NextPackages]_packageVars
          => NoDependencyCycle' /\ NotOvertaken(c)'
    BY <1>2
  <1> QED BY <1>1, <1>3, PackagesInvariant, PTL DEF SpecPackages

-----------------------------------------------------------------------------
(* Both together.                                                          *)

(* A behaviour of both services is one of each: what is proved of either   *)
(* alone holds whatever the other does meanwhile.                          *)
LEMMA QualityServices == SpecQuality => SpecPackages /\ SpecReleases
  <1>1. InitQuality => InitPackages /\ InitReleases
    BY DEF InitQuality
  <1>2. [NextQuality]_qualityVars => [NextPackages]_packageVars /\ [NextReleases]_vars
    BY DEF NextQuality, qualityVars
  <1> QED BY <1>1, <1>2, PTL DEF SpecQuality, SpecPackages, SpecReleases

(* The types of both services. *)
THEOREM QualityIsTyped == SpecQuality => []TypeOKQuality
  <1>1. PackagesInv /\ ReleasesInv => TypeOKQuality
    BY DEF PackagesInv, ReleasesInv, TypeOKQuality
  <1> QED BY <1>1, QualityServices, PackagesInvariant, ReleasesInvariant, PTL

(* What the services promise holds of both running together. *)
THEOREM QualityIsKept ==
  SpecQuality => /\ [](PassIsBacked /\ RolledBackToShipped)
                 /\ ShippedOnPassedGates /\ IdentityKeptWhileShipped /\ CyclesNeedARace
  BY QualityServices, PassesAreBacked, RollbacksAreShipped, ShippingIsGated,
     ShippedIdentityIsKept, CyclesComeFromRaces, PTL
=============================================================================
