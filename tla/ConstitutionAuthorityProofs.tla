--------------------- MODULE ConstitutionAuthorityProofs ---------------------
(***************************************************************************)
(* Proofs about the amendment service for any number of amendments,        *)
(* policy versions, principals, candidates and concurrent calls.           *)
(*                                                                         *)
(* The compare and set of Commit compares two numbers.  What makes it a    *)
(* comparison of two records is CallState: versions only grow, and one     *)
(* step at a time, so a call whose expected version is still the row's     *)
(* holds the row itself.                                                   *)
(***************************************************************************)
EXTENDS ConstitutionAuthority, TLAPS

(* The version an amendment has in each state: one path leads to it. *)
VersionAt(s) ==
  CASE s = "draft" -> 1
    [] s = "impact-reviewed" -> 2 [] s = "migration-ready" -> 3
    [] s = "ratification-ready" -> 4
    [] s \in {"ratified", "rejected"} -> 5
    [] s = "published" -> 6 [] s = "propagating" -> 7 [] s = "verified" -> 8
    [] OTHER -> 0

RowState ==
  \A a \in Amendments :
    /\ record[a].version = VersionAt(record[a].state)
    /\ record[a].state = "none" => record[a] = NoRecord

(* What a call that has read an amendment knows of the row it read. *)
Holds(k) ==
  /\ k.snap.version = k.expected
  /\ k.snap.state \in Stage!From(k.op)
  /\ k.op = "reject" => k.snap.state = "ratification-ready"
  /\ k.op = "publish" => Sealed(k.on, k.snap, k.candidate)
  /\ record[k.on].version = k.expected => record[k.on] = k.snap

CallOK(k) ==
  IF k.op = "propose"
    THEN k.at \in {"authority", "commit"} /\ record[k.on].state = "none"
    ELSE k.at \notin {"authority", "read"} =>
           k.expected \in 1..record[k.on].version /\ Holds(k)

(* No two calls propose the same amendment. *)
Rivals(k, l) == k.op = "propose" /\ l.op = "propose" /\ k.on = l.on

CallState ==
  /\ \A c \in Calls : call[c] \in Call => CallOK(call[c])
  /\ \A c, d \in Calls :
       c # d /\ call[c] \in Call /\ call[d] \in Call => ~Rivals(call[c], call[d])

RowInv == TypeOK /\ RowState /\ CallState

(* A decision is one of the revisions of its amendment. *)
DecisionState ==
  /\ DecisionBinds
  /\ \A d \in decisions : d.version \in 1..Len(trail[d.on])

PublicationState ==
  /\ PublishedAsSealed
  /\ \A p \in publications :
       record[p.on].state \in {"published", "propagating", "verified"}

ConstitutionInv ==
  RowInv /\ TrailReplays /\ DecisionState /\ PublicationState /\ OneLawPerVersion
-----------------------------------------------------------------------------
(* The lifecycle and the transition.                                       *)

LEMMA VersionsOfStages ==
  ASSUME NEW s \in Stage!Stages
  PROVE  /\ VersionAt(s) \in Versions
         /\ VersionAt(s) = 0 <=> s = "none"
  BY DEF Stage!Stages, VersionAt, Versions

LEMMA MovesAdvance ==
  ASSUME NEW m \in Stage!Moves, NEW s \in Stage!From(m),
         m = "reject" => s = "ratification-ready"
  PROVE  /\ s \in Stage!Stages /\ s # "none"
         /\ Stage!To(m) \in Stage!Stages /\ Stage!To(m) # "none"
         /\ VersionAt(Stage!To(m)) = VersionAt(s) + 1
  <1> USE DEF Stage!From, Stage!To, Stage!Stages, VersionAt
  <1>1. CASE m = "impact"
    BY <1>1
  <1>2. CASE m = "migration"
    BY <1>2
  <1>3. CASE m = "open"
    BY <1>3
  <1>4. CASE m = "approve"
    BY <1>4
  <1>5. CASE m = "reject"
    BY <1>5
  <1>6. CASE m = "publish"
    BY <1>6
  <1>7. CASE m = "propagate"
    BY <1>7
  <1>8. CASE m = "verify"
    BY <1>8
  <1> QED BY <1>1, <1>2, <1>3, <1>4, <1>5, <1>6, <1>7, <1>8 DEF Stage!Moves

LEMMA TransitionTypes ==
  ASSUME NEW r \in Record, NEW m \in Stage!Moves, r.state \in Stage!From(m),
         m = "reject" => r.state = "ratification-ready",
         r.version = VersionAt(r.state)
  PROVE  /\ Transition(r, m) \in Record
         /\ Transition(r, m).state = Stage!To(m)
         /\ Transition(r, m).version = r.version + 1
         /\ Transition(r, m).version = VersionAt(Stage!To(m))
  <1>1. /\ Stage!To(m) \in Stage!Stages
        /\ VersionAt(Stage!To(m)) = r.version + 1
    BY MovesAdvance
  <1>2. r.version + 1 \in Versions
    BY <1>1, VersionsOfStages
  <1>3. [s \in Slots |-> IF s = SlotOf(m) THEN r.version + 1 ELSE r.ids[s]]
          \in [Slots -> Versions]
    BY <1>2 DEF Record
  <1> QED BY <1>1, <1>2, <1>3 DEF Transition, Record
-----------------------------------------------------------------------------
(* The steps that write nothing.                                           *)

LEMMA IdleIsNoCall == Idle \notin Call
  BY DEF Idle, Call, Places

(* Call c becomes k, which is idle or in order, and no rival of another. *)
Becomes(c, k) ==
  /\ call' = [call EXCEPT ![c] = k]
  /\ k \in Call => /\ CallOK(k)
                   /\ \A d \in Calls \ {c} : call[d] \in Call => ~Rivals(k, call[d])

Advances(c) == \E k \in Call \union {Idle} : Becomes(c, k)

LEMMA AdvanceKeepsRows ==
  ASSUME RowInv, NEW c \in Calls, Advances(c), UNCHANGED tables,
         owner' \in Principals \union {NoOwner}
  PROVE  RowInv'
  <1>1. PICK k \in Call \union {Idle} : Becomes(c, k)
    BY DEF Advances
  <1>2. TypeOK'
    BY <1>1 DEF RowInv, TypeOK, Becomes, tables
  <1>3. RowState'
    BY DEF RowInv, RowState, tables
  <1>4. ASSUME NEW d \in Calls, call'[d] \in Call
        PROVE  CallOK(call'[d])
    BY <1>1, <1>4 DEF RowInv, TypeOK, Becomes, CallState
  <1>5. \A d \in Calls : call'[d] \in Call => CallOK(call[d])'
    BY <1>4 DEF CallOK, Holds, Sealed, tables
  <1>6. ASSUME NEW d \in Calls, NEW e \in Calls, d # e,
               call'[d] \in Call, call'[e] \in Call
        PROVE  ~Rivals(call'[d], call'[e])
    BY <1>1, <1>6 DEF RowInv, TypeOK, Becomes, CallState, Rivals
  <1> QED BY <1>2, <1>3, <1>5, <1>6 DEF RowInv, CallState, Rivals

LEMMA ReturnAdvances ==
  ASSUME RowInv, NEW c \in Calls, Return(c)
  PROVE  Advances(c)
  BY IdleIsNoCall DEF Return, Advances, Becomes

(* A call that only changes place keeps what it holds. *)
LEMMA GotoAdvances ==
  ASSUME RowInv, NEW c \in Calls, NEW place \in Places,
         call[c] \in Call, Goto(c, place),
         call[c].op = "propose" => place = "commit",
         call[c].op # "propose" /\ call[c].at \in {"authority", "read"}
           => place = "read"
  PROVE  Advances(c)
  <1> DEFINE k == [call[c] EXCEPT !.at = place]
  <1>1. /\ k \in Call /\ k.at = place
        /\ k.op = call[c].op /\ k.on = call[c].on /\ k.snap = call[c].snap
        /\ k.expected = call[c].expected /\ k.candidate = call[c].candidate
    BY DEF Call
  <1>2. CallOK(call[c])
    BY DEF RowInv, CallState
  <1>3. CallOK(k)
    BY <1>1, <1>2 DEF CallOK, Holds
  <1>4. \A d \in Calls \ {c} : call[d] \in Call => ~Rivals(k, call[d])
    BY <1>1 DEF RowInv, CallState, Rivals
  <1>5. call' = [call EXCEPT ![c] = k]
    BY DEF Goto
  <1> QED BY <1>1, <1>3, <1>4, <1>5 DEF Advances, Becomes

LEMMA BusyIsCall ==
  ASSUME TypeOK, NEW c \in Calls
  PROVE  /\ call[c] # Idle => call[c] \in Call
         /\ call[c].at # "idle" => call[c] \in Call
  BY DEF TypeOK, Idle

LEMMA BeginAdvances ==
  ASSUME RowInv, NEW c \in Calls, Begin(c)
  PROVE  Advances(c)
  <1>1. PICK op \in Stage!Moves \union {"propose"}, p \in Principals,
             a \in Amendments, v \in Versions, candidate \in Candidates :
          /\ IF op = "propose"
               THEN /\ v = 0 /\ record[a] = NoRecord
                    /\ \A d \in Calls : call[d] # Idle /\ call[d].op = "propose"
                                          => call[d].on # a
               ELSE v # 0
          /\ call' = [call EXCEPT ![c] =
                        [at |-> "authority", op |-> op, actor |-> p, on |-> a,
                         expected |-> v, snap |-> NoRecord,
                         candidate |-> candidate]]
    BY DEF Begin
  <1> DEFINE k == [at |-> "authority", op |-> op, actor |-> p, on |-> a,
                   expected |-> v, snap |-> NoRecord, candidate |-> candidate]
  <1>2. NoRecord \in Record /\ NoRecord.state = "none"
    BY DEF NoRecord, Record, Versions, Stage!Stages
  <1>3. k \in Call
    BY <1>2 DEF Call, Places
  <1>4. CallOK(k)
    BY <1>1, <1>2 DEF CallOK
  <1>5. \A d \in Calls \ {c} : call[d] \in Call => ~Rivals(k, call[d])
    BY <1>1, IdleIsNoCall DEF Rivals
  <1> QED BY <1>1, <1>3, <1>4, <1>5 DEF Advances, Becomes

LEMMA ReadAdvances ==
  ASSUME RowInv, NEW c \in Calls, ReadAmendment(c)
  PROVE  Advances(c)
  <1> DEFINE r == record[call[c].on]
  <1>1. call[c] \in Call /\ call[c].at = "read"
    BY BusyIsCall DEF ReadAmendment, At, RowInv
  <1>2. CallOK(call[c]) /\ call[c].op # "propose" /\ r \in Record
    BY <1>1 DEF RowInv, CallState, CallOK, TypeOK, Call
  <1>3. CASE r.version = call[c].expected
             /\ Accepts(call[c].op, call[c].on, r, call[c].candidate)
    <2>1. PICK next \in {"reviewer", "attest", "commit"} :
            call' = [call EXCEPT ![c] = [call[c] EXCEPT !.snap = r, !.at = next]]
      BY <1>3 DEF ReadAmendment
    <2> DEFINE k == [call[c] EXCEPT !.snap = r, !.at = next]
    <2>2. /\ k \in Call /\ k.at = next /\ k.op = call[c].op /\ k.on = call[c].on
          /\ k.snap = r /\ k.expected = call[c].expected
          /\ k.candidate = call[c].candidate
      BY <1>1, <1>2, <2>1 DEF Call, Places
    <2>3. r.version \in 1..r.version
      <3>1. r.state \in Stage!From(call[c].op) /\ r.version = VersionAt(r.state) /\ r.version \in Nat
        BY <1>1, <1>2, <1>3 DEF Accepts, RowInv, RowState, Record, Versions, Call
      <3>2. call[c].op \in Stage!Moves
        BY <1>1, <1>2 DEF Call
      <3>3. r.version # 0
        BY <3>1, <3>2 DEF Stage!From, VersionAt, Stage!Moves
      <3> QED BY <3>1, <3>3
    <2>5. CallOK(k)
      BY <1>2, <1>3, <2>1, <2>2, <2>3 DEF CallOK, Holds, Accepts
    <2>4. \A d \in Calls \ {c} : call[d] \in Call => ~Rivals(k, call[d])
      BY <1>2, <2>2 DEF Rivals
    <2> QED BY <2>1, <2>2, <2>4, <2>5 DEF Advances, Becomes
  <1>4. CASE ~(r.version = call[c].expected
               /\ Accepts(call[c].op, call[c].on, r, call[c].candidate))
    BY <1>4, ReturnAdvances DEF ReadAmendment
  <1> QED BY <1>3, <1>4

(* The other steps change place, or give up. *)
LEMMA MoveAdvances ==
  ASSUME RowInv, NEW c \in Calls,
         \/ CheckAuthority(c) \/ ReadAgain(c) \/ CheckReviewer(c)
         \/ VerifyAttestation(c)
  PROVE  Advances(c)
  <1>1. call[c] \in Call
    BY BusyIsCall DEF RowInv, CheckAuthority, ReadAgain, CheckReviewer,
         VerifyAttestation, At
  <1>2. CallOK(call[c])
    BY <1>1 DEF RowInv, CallState
  <1>3. PICK place \in Places :
          /\ Goto(c, place) \/ Return(c)
          /\ call[c].op = "propose" => place = "commit"
          /\ call[c].op # "propose" /\ call[c].at \in {"authority", "read"}
               => place = "read"
    BY <1>2 DEF CheckAuthority, ReadAgain, CheckReviewer, VerifyAttestation, At,
         Check, CallOK, Places
  <1> QED BY <1>1, <1>3, GotoAdvances, ReturnAdvances
-----------------------------------------------------------------------------
(* The transactions.                                                       *)

Commits(c) ==
  /\ At(c, "commit") /\ call[c].op # "propose" /\ Current(call[c]) /\ Write(c)
  /\ call[c].op = "publish" => MayPublish(call[c])

LEMMA CommitShape ==
  ASSUME NEW c \in Calls, Commit(c)
  PROVE  Commits(c) \/ Return(c)
  BY DEF Commit, Commits

LEMMA CreatesFromNothing ==
  ASSUME RowInv, NEW c \in Calls, Create(c)
  PROVE  /\ call[c] \in Call /\ call[c].op = "propose"
         /\ record[call[c].on] = NoRecord
  BY BusyIsCall DEF RowInv, Create, At, CallState, CallOK, RowState, Call

(* The compare and set: what is overwritten is the record the call holds. *)
LEMMA WritesOverItsSnapshot ==
  ASSUME RowInv, NEW c \in Calls, Commits(c)
  PROVE  /\ call[c] \in Call /\ call[c].op \in Stage!Moves
         /\ record[call[c].on] = call[c].snap
         /\ call[c].expected \in 1..record[call[c].on].version
         /\ CallOK(call[c]) /\ Holds(call[c])
  <1>1. call[c] \in Call /\ call[c].op \in Stage!Moves
    BY BusyIsCall DEF RowInv, Commits, At, Call
  <1>2. /\ CallOK(call[c]) /\ Holds(call[c])
        /\ call[c].expected \in 1..record[call[c].on].version
    BY <1>1 DEF RowInv, CallState, CallOK, Commits, At, Stage!Moves
  <1> QED BY <1>1, <1>2 DEF Holds, Commits, Current

LEMMA CreateKeepsRows ==
  ASSUME RowInv, NEW c \in Calls, Create(c)
  PROVE  RowInv'
  <1> DEFINE a == call[c].on
             draft == [NoRecord EXCEPT !.state = "draft", !.version = 1]
  <1>1. call[c] \in Call /\ call[c].op = "propose" /\ record[a] = NoRecord
    BY CreatesFromNothing
  <1>2. draft \in Record /\ draft.state = "draft" /\ draft.version = 1
    <2>1. NoRecord \in Record /\ 1 \in Versions /\ "draft" \in Stage!Stages
      BY DEF NoRecord, Record, Versions, Stage!Stages
    <2> QED BY <2>1 DEF Record
  <1>3. /\ record' = [record EXCEPT ![a] = draft]
        /\ trail' = [trail EXCEPT ![a] = <<"draft">>]
        /\ call' = [call EXCEPT ![c] = Idle]
    BY DEF Create
  <1>4. a \in Amendments /\ <<"draft">> \in Seq(Stage!Stages)
    BY <1>1 DEF Call, Stage!Stages
  <1>5. TypeOK'
    BY <1>2, <1>3, <1>4 DEF Create, RowInv, TypeOK
  <1>6. RowState'
    BY <1>2, <1>3, <1>4 DEF RowInv, TypeOK, RowState, VersionAt
  <1>7. ASSUME NEW d \in Calls, call'[d] \in Call
        PROVE  CallOK(call[d])'
    <2>1. d # c /\ call'[d] = call[d] /\ call[d] \in Call
      BY <1>3, <1>7, IdleIsNoCall DEF RowInv, TypeOK
    <2>2. CallOK(call[d]) /\ ~Rivals(call[c], call[d])
      BY <1>1, <2>1 DEF RowInv, CallState
    <2>3. CASE call[d].on = a
      <3>1. call[d].op # "propose" /\ call[d].at \in {"authority", "read"}
        BY <1>1, <2>2, <2>3 DEF CallOK, Rivals, NoRecord
      <3> QED BY <2>1, <3>1 DEF CallOK
    <2>4. CASE call[d].on # a
      <3>1. record'[call[d].on] = record[call[d].on]
        BY <1>3, <2>1, <2>4 DEF RowInv, TypeOK, Call
      <3>2. Holds(call[d]) => Holds(call[d])'
        BY <2>1, <3>1 DEF Holds, Sealed, Create
      <3> QED BY <2>1, <2>2, <3>1, <3>2 DEF CallOK
    <2> QED BY <2>3, <2>4
  <1>8. \A d, e \in Calls : d # e /\ call'[d] \in Call /\ call'[e] \in Call
                             => ~Rivals(call[d], call[e])'
    BY <1>3, IdleIsNoCall DEF RowInv, TypeOK, CallState, Rivals
  <1> QED BY <1>5, <1>6, <1>7, <1>8 DEF RowInv, CallState

LEMMA CommitKeepsTypes ==
  ASSUME RowInv, NEW c \in Calls, Commits(c)
  PROVE  /\ TypeOK'
         /\ record'[call[c].on].version = record[call[c].on].version + 1
         /\ record'[call[c].on].version = VersionAt(record'[call[c].on].state)
         /\ record'[call[c].on].state = Stage!To(call[c].op)
  <1> DEFINE k == call[c]
             v == k.snap.version + 1
             row == Transition(k.snap, k.op)
  <1>1. /\ k \in Call /\ k.op \in Stage!Moves /\ record[k.on] = k.snap
        /\ Holds(k) /\ k.on \in Amendments /\ k.snap \in Record
    BY WritesOverItsSnapshot DEF Call
  <1>2. k.snap.version = VersionAt(k.snap.state)
    BY <1>1 DEF RowInv, RowState
  <1>3. /\ row \in Record /\ row.state = Stage!To(k.op)
        /\ row.version = v /\ row.version = VersionAt(row.state)
    BY <1>1, <1>2, TransitionTypes DEF Holds
  <1>4. v \in Versions /\ k.expected \in Versions
    BY <1>1, <1>3 DEF Record, Call
  <1>5. record' = [record EXCEPT ![k.on] = row]
    BY DEF Commits, Write
  <1>6. record' \in [Amendments -> Record]
    BY <1>3, <1>5 DEF RowInv, TypeOK
  <1>7. trail' \in [Amendments -> Seq(Stage!Stages)]
    <2>1. trail' = [trail EXCEPT ![k.on] = Append(trail[k.on], Stage!To(k.op))]
      BY DEF Commits, Write
    <2>2. Append(trail[k.on], Stage!To(k.op)) \in Seq(Stage!Stages)
      BY <1>1, <1>3 DEF RowInv, TypeOK, Record
    <2> QED BY <2>1, <2>2 DEF RowInv, TypeOK
  <1>8. evidence' \subseteq Evidence
    BY <1>1, <1>4 DEF Commits, Write, RowInv, TypeOK, Evidence, Call
  <1>9. decisions' \subseteq Decision
    BY <1>1, <1>4 DEF Commits, Write, RowInv, TypeOK, Decision, Call
  <1>10. publications' \subseteq Publication
    <2>1. TargetOf[k.on] \in Policies
      BY <1>1, ConstitutionAssumption
    <2> QED BY <1>1, <2>1 DEF Commits, Write, RowInv, TypeOK, Publication, Call
  <1>11. call' \in [Calls -> Call \union {Idle}] /\ owner' = owner
    BY DEF Commits, Write, RowInv, TypeOK
  <1>12. TypeOK'
    BY <1>6, <1>7, <1>8, <1>9, <1>10, <1>11 DEF RowInv, TypeOK
  <1>13. record'[k.on] = row
    BY <1>1, <1>5 DEF RowInv, TypeOK
  <1> QED BY <1>1, <1>3, <1>12, <1>13

LEMMA CommitKeepsRows ==
  ASSUME RowInv, NEW c \in Calls, Commits(c)
  PROVE  RowInv'
  <1> DEFINE k == call[c]
  <1>1. /\ k \in Call /\ k.op \in Stage!Moves /\ record[k.on] = k.snap
        /\ CallOK(k) /\ Holds(k) /\ k.on \in Amendments
    BY WritesOverItsSnapshot DEF Call
  <1>2. /\ TypeOK'
        /\ record'[k.on].version = record[k.on].version + 1
        /\ record'[k.on].version = VersionAt(record'[k.on].state)
        /\ record'[k.on].state = Stage!To(k.op)
    BY CommitKeepsTypes
  <1>3. \A a \in Amendments : a # k.on => record'[a] = record[a]
    BY DEF Commits, Write, RowInv, TypeOK
  <1>4. Stage!To(k.op) # "none"
    BY <1>1, MovesAdvance DEF Holds
  <1>5. RowState'
    BY <1>2, <1>3, <1>4 DEF RowInv, RowState
  <1>6. evidence \subseteq evidence'
    BY DEF Commits, Write
  <1>7. call' = [call EXCEPT ![c] = Idle]
    BY DEF Commits, Write
  <1>8. ASSUME NEW d \in Calls, call'[d] \in Call
        PROVE  CallOK(call[d])'
    <2> DEFINE l == call[d]
    <2>1. d # c /\ call'[d] = l /\ l \in Call /\ l.on \in Amendments
      BY <1>7, <1>8, IdleIsNoCall DEF RowInv, TypeOK, Call
    <2>2. CallOK(l)
      BY <2>1 DEF RowInv, CallState
    <2>3. Sealed(l.on, l.snap, l.candidate) => Sealed(l.on, l.snap, l.candidate)'
      BY <1>6, <2>1 DEF Sealed
    <2>4. CASE l.on # k.on
      <3>1. record'[l.on] = record[l.on]
        BY <1>3, <2>1, <2>4
      <3> QED BY <2>1, <2>2, <2>3, <3>1 DEF CallOK, Holds
    <2>5. CASE l.on = k.on
      <3>1. record[k.on].version \in Nat /\ record[k.on].version >= 1
        <4>1. record[k.on].version \in Nat
          <5>1. record[k.on] \in Record
            BY <1>1 DEF RowInv, TypeOK
          <5> QED BY <5>1 DEF Record, Versions
        <4>2. k.expected \in 1..record[k.on].version
          BY WritesOverItsSnapshot
        <4> QED BY <4>1, <4>2
      <3>2. l.op # "propose"
        BY <2>2, <2>5, <3>1, <1>1 DEF RowInv, RowState, VersionAt, CallOK
      <3>5. CASE l.at \in {"authority", "read"}
        BY <2>1, <3>2, <3>5 DEF CallOK
      <3> SUFFICES ASSUME l.at \notin {"authority", "read"} PROVE CallOK(l)'
        BY <2>1, <3>5
      <3>3. l.expected \in 1..record[k.on].version
        BY <2>2, <2>5, <3>2 DEF CallOK
      <3>4. /\ l.expected \in 1..record'[k.on].version
            /\ l.expected # record'[k.on].version
        BY <1>2, <3>1, <3>3
      <3> QED BY <2>1, <2>2, <2>3, <2>5, <3>2, <3>4 DEF CallOK, Holds
    <2> QED BY <2>4, <2>5
  <1>9. \A d, e \in Calls : d # e /\ call'[d] \in Call /\ call'[e] \in Call
                             => ~Rivals(call[d], call[e])'
    BY <1>7, IdleIsNoCall DEF RowInv, TypeOK, CallState, Rivals
  <1> QED BY <1>2, <1>5, <1>8, <1>9 DEF RowInv, CallState
-----------------------------------------------------------------------------
(* Every step writes nothing, or is one of the two transactions.           *)

LEMMA OwnerIsApart ==
  ASSUME RowInv, UNCHANGED <<tables, call>>, owner' \in Principals \union {NoOwner}
  PROVE  RowInv'
  <1>1. /\ UNCHANGED <<record, trail, evidence>>
        /\ UNCHANGED <<decisions, publications, call>>
    BY DEF tables
  <1>2. TypeOK' /\ RowState'
    BY <1>1 DEF RowInv, TypeOK, RowState
  <1>3. CallState'
    BY <1>1 DEF RowInv, CallState, CallOK, Holds, Sealed, Rivals
  <1> QED BY <1>2, <1>3 DEF RowInv

LEMMA StepKinds ==
  ASSUME RowInv, [Next]_vars
  PROVE  \/ RowInv' /\ UNCHANGED tables
         \/ \E c \in Calls : Create(c) \/ Commits(c)
  <1>1. CASE UNCHANGED vars
    BY <1>1, OwnerIsApart DEF vars, RowInv, TypeOK
  <1>2. ASSUME NEW p \in Principals, BootstrapOwner(p) \/ TransferOwnership(p)
        PROVE  RowInv' /\ UNCHANGED tables
    BY <1>2, OwnerIsApart DEF BootstrapOwner, TransferOwnership
  <1>3. ASSUME NEW c \in Calls, Begin(c) \/ Step(c) \/ Abort(c)
        PROVE  \/ RowInv' /\ UNCHANGED tables
               \/ Create(c) \/ Commits(c)
    <2>1. CASE Create(c) \/ Commits(c)
      BY <2>1
    <2>2. CASE ~(Create(c) \/ Commits(c))
      <3>1. \/ Begin(c) \/ ReadAmendment(c) \/ Return(c)
            \/ CheckAuthority(c) \/ ReadAgain(c) \/ CheckReviewer(c)
            \/ VerifyAttestation(c)
        BY <1>3, <2>2, CommitShape DEF Step, Abort
      <3>2. Advances(c)
        BY <3>1, BeginAdvances, ReadAdvances, MoveAdvances, ReturnAdvances
      <3>3. UNCHANGED <<owner, tables>>
        BY <3>1 DEF Begin, ReadAmendment, Return, CheckAuthority, ReadAgain,
             CheckReviewer, VerifyAttestation, Check, Goto
      <3>4. owner' \in Principals \union {NoOwner}
        BY <3>3 DEF RowInv, TypeOK
      <3> QED BY <3>2, <3>3, <3>4, AdvanceKeepsRows
    <2> QED BY <2>1, <2>2
  <1> QED BY <1>1, <1>2, <1>3 DEF Next

LEMMA NextKeepsRows == RowInv /\ [Next]_vars => RowInv'
  BY StepKinds, CreateKeepsRows, CommitKeepsRows

LEMMA InitRows == Init => RowInv
  <1> SUFFICES ASSUME Init PROVE RowInv
    OBVIOUS
  <1>1. NoRecord \in Record /\ NoRecord.state = "none" /\ NoRecord.version = 0
    BY DEF NoRecord, Record, Versions, Stage!Stages
  <1>2. TypeOK
    BY <1>1 DEF Init, TypeOK
  <1>3. RowState
    BY <1>1 DEF Init, RowState, VersionAt
  <1>4. CallState
    BY IdleIsNoCall DEF Init, CallState
  <1> QED BY <1>2, <1>3, <1>4 DEF RowInv

(* What the records are at any time: the rows and the calls that hold them. *)
THEOREM RowInvariant == Spec => []RowInv
  BY InitRows, NextKeepsRows, PTL DEF Spec

(* The state is typed; in particular no version ever exceeds 8: one path   *)
(* through the lifecycle, one revision for each of its states.             *)
THEOREM AmendmentTypes == Spec => []TypeOK
  <1>1. RowInv => TypeOK
    BY DEF RowInv
  <1> QED BY <1>1, RowInvariant, PTL
-----------------------------------------------------------------------------
(* The lifecycle.                                                          *)

Laws == {p.policy : p \in publications}

LEMMA LifecycleStep ==
  ASSUME RowInv, [Next]_vars
  PROVE  [Stage!LifecycleNext]_<<[a \in Amendments |-> record[a].state], Laws>>
  <1> DEFINE stage == [a \in Amendments |-> record[a].state]
  <1>1. CASE UNCHANGED tables
    BY <1>1 DEF tables, Laws
  <1>2. ASSUME NEW c \in Calls, Create(c)
        PROVE  Stage!LifecycleNext
    <2> DEFINE a == call[c].on
    <2>1. a \in Amendments /\ record[a].state = "none"
      BY <1>2, CreatesFromNothing DEF Call, NoRecord
    <2>2. stage' = [stage EXCEPT ![a] = "draft"] /\ UNCHANGED Laws
      <3>1. record'[a].state = "draft" /\ record' \in [Amendments -> Record]
        BY <1>2, <2>1, CreateKeepsRows, CreatesFromNothing
           DEF RowInv, TypeOK, Create, NoRecord
      <3> QED BY <1>2, <2>1, <3>1 DEF Create, Laws, RowInv, TypeOK
    <2>3. stage[a] = "none"
      BY <2>1
    <2> QED BY <2>1, <2>2, <2>3 DEF Stage!Propose, Stage!LifecycleNext, Laws
  <1>3. ASSUME NEW c \in Calls, Commits(c)
        PROVE  Stage!LifecycleNext
    <2> DEFINE k == call[c]
    <2>1. /\ k \in Call /\ k.op \in Stage!Moves /\ record[k.on] = k.snap
          /\ Holds(k) /\ k.on \in Amendments
      BY <1>3, WritesOverItsSnapshot DEF Call
    <2>2. record'[k.on].state = Stage!To(k.op)
      BY <1>3, CommitKeepsTypes
    <2>3. stage' = [stage EXCEPT ![k.on] = Stage!To(k.op)]
      BY <1>3, <2>1, <2>2 DEF Commits, Write, RowInv, TypeOK
    <2>4. stage[k.on] \in Stage!From(k.op)
      BY <2>1 DEF Holds
    <2>5. CASE k.op = "publish"
      <3>1. TargetOf[k.on] \notin Laws
        <4>1. \A p \in publications : p.policy # TargetOf[k.on]
          BY <1>3, <2>5 DEF Commits, MayPublish
        <4> QED BY <4>1 DEF Laws
      <3>2. Laws' = Laws \union {TargetOf[k.on]}
        <4> DEFINE law == [on |-> k.on, version |-> k.expected,
                           policy |-> TargetOf[k.on], publisher |-> k.actor,
                           candidate |-> k.candidate]
        <4>1. publications' = publications \union {law}
          BY <1>3, <2>5 DEF Commits, Write
        <4>2. law.policy = TargetOf[k.on]
          OBVIOUS
        <4> HIDE DEF law
        <4> QED BY <4>1, <4>2 DEF Laws
      <3> QED BY <2>1, <2>3, <2>4, <2>5, <3>1, <3>2
              DEF Stage!Move, Stage!LifecycleNext, Laws
    <2>6. CASE k.op # "publish"
      <3>1. UNCHANGED Laws
        BY <1>3, <2>6 DEF Commits, Write, Laws
      <3> QED BY <2>1, <2>3, <2>4, <2>6, <3>1
              DEF Stage!Move, Stage!LifecycleNext, Laws
    <2> QED BY <2>5, <2>6
  <1> QED BY <1>1, <1>2, <1>3, StepKinds

(* The service implements the lifecycle: whatever the interleaving of the  *)
(* calls, an amendment moves as transitionConstitutionAmendment says and a *)
(* policy version becomes law once.                                        *)
THEOREM ServiceImplementsLifecycle == Spec => LifecycleContract
  <1>1. Init => Stage!LifecycleInit
    BY DEF Init, NoRecord, Stage!LifecycleInit
  <1>2. RowInv /\ [Next]_vars
          => [Stage!LifecycleNext]_<<[a \in Amendments |-> record[a].state],
                                     {p.policy : p \in publications}>>
    BY LifecycleStep DEF Laws
  <1> QED BY <1>1, <1>2, RowInvariant, PTL
      DEF Spec, LifecycleContract, Stage!LifecycleSpec
-----------------------------------------------------------------------------
(* The revisions.                                                          *)

(* Rows and revisions when k commits, t being the revisions so far. *)
Committed(k, t) ==
  /\ k \in Call /\ k.on \in Amendments /\ k.op \in Stage!Moves
  /\ record[k.on] = k.snap /\ Holds(k)
  /\ t = trail[k.on] /\ t \in Seq(Stage!Stages) /\ Len(t) = k.expected
  /\ Len(t) >= 1 /\ t[Len(t)] = record[k.on].state
  /\ record'[k.on].state = Stage!To(k.op)
  /\ record'[k.on].version = record[k.on].version + 1
  /\ trail'[k.on] = Append(t, Stage!To(k.op))
  /\ \A a \in Amendments \ {k.on} : trail'[a] = trail[a] /\ record'[a] = record[a]

(* One conjunct of TrailReplays: the revisions t replay the life of row r. *)
Replays(r, t) ==
  /\ Len(t) = r.version
  /\ r # NoRecord => t[1] = "draft" /\ t[Len(t)] = r.state
  /\ \A n \in 2..Len(t) : \E m \in Stage!Moves : /\ t[n - 1] \in Stage!From(m)
                                                  /\ t[n] = Stage!To(m)

LEMMA TrailByAmendment ==
  /\ TrailReplays <=> \A a \in Amendments : Replays(record[a], trail[a])
  /\ TrailReplays' <=> \A a \in Amendments : Replays(record'[a], trail'[a])
  BY DEF TrailReplays, Replays

LEMMA CommitShapes ==
  ASSUME RowInv, TrailReplays, NEW c \in Calls, Commits(c)
  PROVE  Committed(call[c], trail[call[c].on])
  <1> DEFINE k == call[c]
             t == trail[k.on]
  <1>1. /\ k \in Call /\ k.on \in Amendments /\ k.op \in Stage!Moves
        /\ record[k.on] = k.snap /\ Holds(k) /\ CallOK(k)
    BY WritesOverItsSnapshot DEF Call
  <1>2. t \in Seq(Stage!Stages) /\ Len(t) = record[k.on].version
    BY <1>1 DEF RowInv, TypeOK, TrailReplays
  <1>3. Len(t) = k.expected
    BY <1>1, <1>2 DEF Holds
  <1>4. k.expected \in 1..Len(t) /\ Len(t) \in Nat
    BY <1>2, WritesOverItsSnapshot
  <1>5. record[k.on] # NoRecord
    BY <1>2, <1>4 DEF NoRecord
  <1>6. t[Len(t)] = record[k.on].state
    BY <1>1, <1>5 DEF TrailReplays
  <1>7. /\ record'[k.on].state = Stage!To(k.op)
        /\ record'[k.on].version = record[k.on].version + 1
    BY CommitKeepsTypes
  <1>8. trail'[k.on] = Append(t, Stage!To(k.op))
    BY <1>1 DEF Commits, Write, RowInv, TypeOK
  <1>9. \A a \in Amendments \ {k.on} : trail'[a] = trail[a] /\ record'[a] = record[a]
    BY DEF Commits, Write, RowInv, TypeOK
  <1>10. Len(t) >= 1
    BY <1>3, <1>4
  <1> QED BY <1>1, <1>2, <1>3, <1>6, <1>7, <1>8, <1>9, <1>10 DEF Committed

LEMMA CommitKeepsTrail ==
  ASSUME RowInv, TrailReplays, NEW c \in Calls, Commits(c)
  PROVE  TrailReplays'
  <1> DEFINE k == call[c]
             t == trail[k.on]
             s == Stage!To(k.op)
  <1>1. Committed(k, t) /\ Len(t) \in Nat /\ Len(t) = record[k.on].version
    BY CommitShapes DEF Committed, Holds
  <1>2. /\ Len(Append(t, s)) = Len(t) + 1
        /\ Append(t, s)[Len(t) + 1] = s
        /\ \A n \in 1..Len(t) : Append(t, s)[n] = t[n]
    BY <1>1 DEF Committed
  <1>3. Replays(record[k.on], t) /\ record[k.on] # NoRecord
    BY <1>1, TrailByAmendment DEF Committed, NoRecord
  <1>4. t[Len(t)] \in Stage!From(k.op) /\ 1 \in 1..Len(t) /\ k.op \in Stage!Moves
    BY <1>1 DEF Committed, Holds
  <1> HIDE DEF t, s, k
  <1>5. \A n \in 2..(Len(t) + 1) :
          \E m \in Stage!Moves : /\ Append(t, s)[n - 1] \in Stage!From(m)
                                 /\ Append(t, s)[n] = Stage!To(m)
    <2> SUFFICES ASSUME NEW n \in 2..(Len(t) + 1)
                 PROVE  \E m \in Stage!Moves : /\ Append(t, s)[n - 1] \in Stage!From(m)
                                               /\ Append(t, s)[n] = Stage!To(m)
      OBVIOUS
    <2>1. CASE n = Len(t) + 1
      <3>1. /\ Append(t, s)[n - 1] \in Stage!From(k.op)
            /\ Append(t, s)[n] = Stage!To(k.op)
        BY <1>1, <1>2, <1>4, <2>1 DEF s
      <3> QED BY <1>4, <3>1
    <2>2. CASE n # Len(t) + 1
      <3>1. n \in 2..Len(t) /\ n \in 1..Len(t) /\ n - 1 \in 1..Len(t)
        BY <1>1, <2>2
      <3>2. Append(t, s)[n] = t[n] /\ Append(t, s)[n - 1] = t[n - 1]
        BY <1>2, <3>1
      <3> QED BY <1>3, <3>1, <3>2 DEF Replays
    <2> QED BY <2>1, <2>2
  <1>6. Replays(record'[k.on], trail'[k.on])
    <2>1. trail'[k.on] = Append(t, s) /\ record'[k.on].state = s
      BY <1>1 DEF Committed, s
    <2>2. Len(trail'[k.on]) = record'[k.on].version
      BY <1>1, <1>2, <2>1 DEF Committed
    <2>3. trail'[k.on][1] = "draft" /\ trail'[k.on][Len(trail'[k.on])] = s
      BY <1>2, <1>3, <1>4, <2>1 DEF Replays
    <2> QED BY <1>2, <1>5, <2>1, <2>2, <2>3 DEF Replays
  <1>7. ASSUME NEW a \in Amendments, a # k.on
        PROVE  Replays(record'[a], trail'[a])
    BY <1>1, <1>7, TrailByAmendment DEF Committed
  <1> QED BY <1>6, <1>7, TrailByAmendment

LEMMA CreateKeepsTrail ==
  ASSUME RowInv, TrailReplays, NEW c \in Calls, Create(c)
  PROVE  TrailReplays'
  <1> DEFINE a == call[c].on
             draft == [NoRecord EXCEPT !.state = "draft", !.version = 1]
  <1>1. a \in Amendments
    BY CreatesFromNothing DEF Call
  <1>2. draft.state = "draft" /\ draft.version = 1
    BY DEF NoRecord
  <1>3. record'[a] = draft /\ trail'[a] = <<"draft">>
    BY <1>1 DEF Create, RowInv, TypeOK
  <1>4. \A b \in Amendments \ {a} : trail'[b] = trail[b] /\ record'[b] = record[b]
    BY DEF Create, RowInv, TypeOK
  <1> HIDE DEF a, draft
  <1>5. Replays(draft, <<"draft">>)
    BY <1>2 DEF Replays
  <1> QED BY <1>3, <1>4, <1>5, TrailByAmendment
-----------------------------------------------------------------------------
(* The decisions.                                                          *)

(* The decisions on an amendment agree with its state. *)
Agrees(a, state) ==
  /\ state \in Ratified <=> \E d \in decisions : d.on = a /\ d.decision = "approve"
  /\ state = "rejected" <=> \E d \in decisions : d.on = a /\ d.decision = "reject"

LEMMA UndecidedBefore ==
  ASSUME RowInv, DecisionState, NEW d \in decisions
  PROVE  /\ d.on \in Amendments /\ Agrees(d.on, record[d.on].state)
         /\ record[d.on].state \in Ratified \union {"rejected"}
  <1>1. d.on \in Amendments /\ d.decision \in {"approve", "reject"}
    BY DEF RowInv, TypeOK, Decision
  <1>2. Agrees(d.on, record[d.on].state)
    BY <1>1 DEF DecisionState, DecisionBinds, Agrees
  <1> QED BY <1>1, <1>2 DEF Agrees

LEMMA CommitKeepsDecisions ==
  ASSUME RowInv, TrailReplays, DecisionState, NEW c \in Calls, Commits(c)
  PROVE  DecisionState'
  <1> DEFINE k == call[c]
             t == trail[k.on]
             s == Stage!To(k.op)
             d0 == [on |-> k.on, id |-> k.snap.version + 1, version |-> k.expected,
                    reviewer |-> k.actor, decision |-> k.op]
  <1>1. Committed(k, t) /\ Len(t) \in Nat /\ record[k.on].state \in Stage!From(k.op)
    BY CommitShapes DEF Committed, Holds
  <1>2. decisions' = IF k.op \in {"approve", "reject"} THEN decisions \union {d0}
                                                      ELSE decisions
    BY DEF Commits, Write
  <1>3. /\ d0.on = k.on /\ d0.version = k.expected /\ d0.decision = k.op
    OBVIOUS
  <1>4. k.op \in {"approve", "reject"} =>
          /\ record[k.on].state = "ratification-ready"
          /\ \A d \in decisions : d.on # k.on
    <2>1. k.op \in {"approve", "reject"} => record[k.on].state = "ratification-ready"
      BY <1>1 DEF Committed, Holds, Stage!From
    <2> QED BY <2>1, UndecidedBefore DEF Ratified
  <1>5. /\ k.op \notin {"approve", "reject"} =>
             /\ record[k.on].state \in Ratified <=> s \in Ratified
             /\ s # "rejected" /\ record[k.on].state # "rejected"
        /\ k.op = "approve" => s \in Ratified /\ s # "rejected"
        /\ k.op = "reject" => s \notin Ratified /\ s = "rejected"
    BY <1>1 DEF Committed, Stage!Moves, Stage!From, Stage!To, Ratified
  <1>6. /\ record'[k.on].state = s
        /\ \A n \in 1..Len(t) : trail'[k.on][n] = t[n]
        /\ Len(trail'[k.on]) = Len(t) + 1
        /\ k.expected = Len(t) /\ k.expected \in 1..Len(t)
        /\ t[Len(t)] = record[k.on].state
    BY <1>1 DEF Committed
  <1>7. \A a \in Amendments \ {k.on} : trail'[a] = trail[a] /\ record'[a] = record[a]
    BY <1>1 DEF Committed
  <1>8. k.on \in Amendments /\ t = trail[k.on]
    BY <1>1 DEF Committed
  <1>9. \A a \in Amendments : Agrees(a, record[a].state)
    BY DEF DecisionState, DecisionBinds, Agrees
  <1> HIDE DEF k, t, s, d0
  <1>10. \A d, e \in decisions' : d.on = e.on => d = e
    BY <1>2, <1>3, <1>4 DEF DecisionState, DecisionBinds
  <1>11. ASSUME NEW a \in Amendments
         PROVE  Agrees(a, record[a].state)'
    <2>1. CASE a # k.on
      BY <1>2, <1>3, <1>7, <1>9, <2>1 DEF Agrees
    <2>2. CASE a = k.on /\ k.op \in {"approve", "reject"}
      <3>1. \A d \in decisions' : d.on = k.on => d = d0
        BY <1>2, <1>4, <2>2
      <3>2. d0 \in decisions'
        BY <1>2, <2>2
      <3> QED BY <1>3, <1>5, <1>6, <2>2, <3>1, <3>2 DEF Agrees
    <2>3. CASE a = k.on /\ k.op \notin {"approve", "reject"}
      BY <1>2, <1>5, <1>6, <1>9, <2>3 DEF Agrees
    <2> QED BY <2>1, <2>2, <2>3
  <1>12. ASSUME NEW d \in decisions'
         PROVE  /\ trail'[d.on][d.version] = "ratification-ready"
                /\ d.version \in 1..Len(trail'[d.on])
    <2>1. CASE d \in decisions
      <3>1. /\ d.on \in Amendments /\ d.version \in 1..Len(trail[d.on])
            /\ trail[d.on][d.version] = "ratification-ready"
        BY <2>1, UndecidedBefore DEF DecisionState, DecisionBinds
      <3> QED BY <1>1, <1>6, <1>7, <1>8, <3>1
    <2>2. CASE d \notin decisions
      <3>1. d = d0 /\ k.op \in {"approve", "reject"}
        BY <1>2, <2>2
      <3>2. d.on = k.on /\ d.version = k.expected
        BY <1>3, <3>1
      <3> QED BY <1>1, <1>4, <1>6, <3>1, <3>2
    <2> QED BY <2>1, <2>2
  <1> QED BY <1>10, <1>11, <1>12 DEF DecisionState, DecisionBinds, Agrees

LEMMA CreateKeepsDecisions ==
  ASSUME RowInv, DecisionState, NEW c \in Calls, Create(c)
  PROVE  DecisionState'
  <1> DEFINE a == call[c].on
  <1>1. a \in Amendments /\ record[a].state = "none"
    BY CreatesFromNothing DEF Call, NoRecord
  <1>2. record'[a].state = "draft"
    BY <1>1, CreatesFromNothing, CreateKeepsRows DEF RowInv, TypeOK, Create, NoRecord
  <1>3. \A b \in Amendments \ {a} : trail'[b] = trail[b] /\ record'[b] = record[b]
    BY DEF Create, RowInv, TypeOK
  <1>4. decisions' = decisions
    BY DEF Create
  <1>5. \A d \in decisions : d.on \in Amendments \ {a}
    BY <1>1, UndecidedBefore DEF Ratified
  <1> HIDE DEF a
  <1>6. ASSUME NEW b \in Amendments
        PROVE  Agrees(b, record[b].state)'
    <2>1. Agrees(b, record[b].state)
      BY DEF DecisionState, DecisionBinds, Agrees
    <2> QED BY <1>1, <1>2, <1>3, <1>4, <2>1 DEF Agrees, Ratified
  <1> QED BY <1>3, <1>4, <1>5, <1>6 DEF DecisionState, DecisionBinds, Agrees
-----------------------------------------------------------------------------
(* The publications.                                                       *)

(* What PublicationState says of one publication. *)
Lawful(p) ==
  /\ Sealed(p.on, record[p.on], p.candidate)
  /\ record[p.on].state \in {"published", "propagating", "verified"}

Authorised(p) ==
  \E d \in decisions : /\ d.on = p.on /\ d.decision = "approve"
                       /\ d.version = p.version - 1 /\ d.reviewer = p.publisher

LEMMA SealSurvives ==
  ASSUME NEW a, NEW candidate, NEW r, NEW q,
         Sealed(a, r, candidate), evidence \subseteq evidence',
         q.ids["migration"] = r.ids["migration"], q.ids["impact"] = r.ids["impact"]
  PROVE  /\ candidate \in Exact
         /\ \E e \in evidence' : /\ e.on = a /\ e.id = q.ids["migration"]
                                 /\ e.kind = "migration" /\ e.candidate = candidate
         /\ \E e \in evidence' : /\ e.on = a /\ e.id = q.ids["impact"]
                                 /\ e.kind = "impact"
                                 /\ RevisionOf[e.candidate] = RevisionOf[candidate]
  BY DEF Sealed

(* Only the two reviews change what a seal looks at. *)
LEMMA IdsOfReviewsKept ==
  ASSUME RowInv, NEW c \in Calls, Commits(c),
         call[c].op \notin {"impact", "migration"}
  PROVE  /\ record'[call[c].on].ids["migration"] = call[c].snap.ids["migration"]
         /\ record'[call[c].on].ids["impact"] = call[c].snap.ids["impact"]
  <1> DEFINE k == call[c]
  <1>1. k.on \in Amendments /\ k.op \in Stage!Moves
    BY WritesOverItsSnapshot DEF Call
  <1>2. record'[k.on] = Transition(k.snap, k.op)
    BY <1>1 DEF Commits, Write, RowInv, TypeOK
  <1>3. SlotOf(k.op) \notin {"impact", "migration"}
    BY <1>1 DEF SlotOf, Stage!Moves
  <1> QED BY <1>2, <1>3 DEF Transition, Slots

LEMMA CommitKeepsPublications ==
  ASSUME RowInv, PublicationState, NEW c \in Calls, Commits(c)
  PROVE  PublicationState'
  <1> DEFINE k == call[c]
             p0 == [on |-> k.on, version |-> k.expected,
                    policy |-> TargetOf[k.on], publisher |-> k.actor,
                    candidate |-> k.candidate]
  <1>1. /\ k \in Call /\ k.on \in Amendments /\ k.op \in Stage!Moves
        /\ record[k.on] = k.snap /\ Holds(k)
    BY WritesOverItsSnapshot DEF Call
  <1>2. record'[k.on].state = Stage!To(k.op)
    BY CommitKeepsTypes
  <1>3. evidence \subseteq evidence' /\ decisions \subseteq decisions'
    BY DEF Commits, Write
  <1>4. publications' = IF k.op = "publish" THEN publications \union {p0}
                                            ELSE publications
    BY DEF Commits, Write
  <1>5. /\ p0.on = k.on /\ p0.version = k.expected
        /\ p0.publisher = k.actor /\ p0.candidate = k.candidate
    OBVIOUS
  <1>6. \A a \in Amendments \ {k.on} : record'[a] = record[a]
    BY DEF Commits, Write, RowInv, TypeOK
  <1>7. \A p \in publications : p.on \in Amendments /\ Lawful(p) /\ Authorised(p)
    BY DEF RowInv, TypeOK, Publication, PublicationState, PublishedAsSealed, Lawful,
         Authorised
  <1>8. ASSUME NEW p \in publications
        PROVE  Lawful(p)' /\ Authorised(p)'
    <2>1. Authorised(p)'
      BY <1>3, <1>7 DEF Authorised
    <2>2. CASE p.on # k.on
      <3>1. record'[p.on] = record[p.on]
        BY <1>6, <1>7, <2>2
      <3> QED BY <1>3, <1>7, <2>1, <3>1 DEF Lawful, Sealed
    <2>3. CASE p.on = k.on
      <3>1. Sealed(p.on, k.snap, p.candidate)
            /\ k.snap.state \in {"published", "propagating", "verified"}
        BY <1>1, <1>7, <2>3 DEF Lawful
      <3>2. k.op \in {"propagate", "verify"}
        BY <1>1, <3>1 DEF Holds, Stage!From, Stage!Moves
      <3>3. record'[p.on].state \in {"published", "propagating", "verified"}
        BY <1>2, <2>3, <3>2 DEF Stage!To
      <3>4. /\ record'[p.on].ids["migration"] = k.snap.ids["migration"]
            /\ record'[p.on].ids["impact"] = k.snap.ids["impact"]
        BY <2>3, <3>2, IdsOfReviewsKept
      <3>5. Sealed(p.on, record[p.on], p.candidate)'
        BY <1>3, <3>1, <3>4, SealSurvives DEF Sealed
      <3> QED BY <2>1, <3>3, <3>5 DEF Lawful
    <2> QED BY <2>2, <2>3
  <1>9. ASSUME k.op = "publish", NEW p, p = p0
        PROVE  Lawful(p)' /\ Authorised(p)'
    <2>1. /\ p.on = k.on /\ p.version = k.expected
          /\ p.publisher = k.actor /\ p.candidate = k.candidate
      BY <1>5, <1>9
    <2>2. Sealed(p.on, k.snap, p.candidate)
      BY <1>1, <1>9, <2>1 DEF Holds
    <2>3. /\ record'[p.on].ids["migration"] = k.snap.ids["migration"]
          /\ record'[p.on].ids["impact"] = k.snap.ids["impact"]
      BY <1>9, <2>1, IdsOfReviewsKept
    <2>4. Sealed(p.on, record[p.on], p.candidate)'
      BY <1>3, <2>2, <2>3, SealSurvives DEF Sealed
    <2>5. record'[p.on].state = "published"
      BY <1>2, <1>9, <2>1 DEF Stage!To
    <2>6. PICK d \in decisions : /\ d.on = k.on /\ d.decision = "approve"
                                 /\ d.version = k.expected - 1
                                 /\ d.reviewer = k.actor
      BY <1>1, <1>9 DEF Commits, MayPublish, ApprovedBy, Approval, Holds
    <2>7. Authorised(p)'
      BY <1>3, <2>1, <2>6 DEF Authorised
    <2> QED BY <2>4, <2>5, <2>7 DEF Lawful
  <1> HIDE DEF p0
  <1>10. \A p \in publications' : Lawful(p)' /\ Authorised(p)'
    BY <1>4, <1>8, <1>9
  <1> QED BY <1>10 DEF PublicationState, PublishedAsSealed, Lawful, Authorised

LEMMA CreateKeepsPublications ==
  ASSUME RowInv, PublicationState, NEW c \in Calls, Create(c)
  PROVE  PublicationState'
  <1>1. record[call[c].on].state = "none"
    BY CreatesFromNothing DEF NoRecord
  <1>2. \A p \in publications : p.on \in Amendments /\ p.on # call[c].on
    BY <1>1 DEF RowInv, TypeOK, Publication, PublicationState
  <1>3. \A a \in Amendments : a # call[c].on => record'[a] = record[a]
    BY DEF Create, RowInv, TypeOK
  <1>4. UNCHANGED <<evidence, decisions, publications>>
    BY DEF Create
  <1>5. \A p \in publications : record'[p.on] = record[p.on]
    BY <1>2, <1>3
  <1> QED BY <1>4, <1>5 DEF PublicationState, PublishedAsSealed, Sealed

LEMMA CommitKeepsOneLaw ==
  ASSUME OneLawPerVersion, NEW c \in Calls, Commits(c)
  PROVE  OneLawPerVersion'
  <1> DEFINE k == call[c]
             p0 == [on |-> k.on, version |-> k.expected,
                    policy |-> TargetOf[k.on], publisher |-> k.actor,
                    candidate |-> k.candidate]
  <1>1. publications' = IF k.op = "publish" THEN publications \union {p0}
                                            ELSE publications
    BY DEF Commits, Write
  <1>2. p0.on = k.on /\ p0.policy = TargetOf[k.on]
    OBVIOUS
  <1>3. k.op = "publish" =>
          \A p \in publications : p.on # k.on /\ p.policy # TargetOf[k.on]
    BY DEF Commits, MayPublish
  <1> HIDE DEF k, p0
  <1> QED BY <1>1, <1>2, <1>3 DEF OneLawPerVersion
-----------------------------------------------------------------------------
(* The invariant and what follows.                                         *)

LEMMA InitConstitution == Init => ConstitutionInv
  <1> SUFFICES ASSUME Init PROVE ConstitutionInv
    OBVIOUS
  <1>1. TrailReplays
    <2>1. Replays(NoRecord, <<>>)
      BY DEF Replays, NoRecord
    <2> QED BY <2>1, TrailByAmendment DEF Init
  <1>2. DecisionState
    BY DEF Init, DecisionState, DecisionBinds, NoRecord, Ratified
  <1>3. PublicationState /\ OneLawPerVersion
    BY DEF Init, PublicationState, PublishedAsSealed, OneLawPerVersion
  <1> QED BY <1>1, <1>2, <1>3, InitRows DEF ConstitutionInv

LEMMA NextConstitution == ConstitutionInv /\ [Next]_vars => ConstitutionInv'
  <1> SUFFICES ASSUME ConstitutionInv, [Next]_vars PROVE ConstitutionInv'
    OBVIOUS
  <1>1. RowInv'
    BY NextKeepsRows DEF ConstitutionInv
  <1>2. CASE UNCHANGED tables
    <2>1. UNCHANGED <<record, trail, evidence, decisions, publications>>
      BY <1>2 DEF tables
    <2>2. TrailReplays' /\ OneLawPerVersion'
      BY <2>1 DEF ConstitutionInv, TrailReplays, OneLawPerVersion
    <2>3. DecisionState' /\ PublicationState'
      BY <2>1 DEF ConstitutionInv, DecisionState, DecisionBinds, PublicationState,
           PublishedAsSealed, Sealed
    <2> QED BY <1>1, <2>2, <2>3 DEF ConstitutionInv
  <1>3. ASSUME NEW c \in Calls, Create(c)
        PROVE  ConstitutionInv'
    BY <1>1, <1>3, CreateKeepsTrail, CreateKeepsDecisions, CreateKeepsPublications
       DEF ConstitutionInv, OneLawPerVersion, Create
  <1>4. ASSUME NEW c \in Calls, Commits(c)
        PROVE  ConstitutionInv'
    BY <1>1, <1>4, CommitKeepsTrail, CommitKeepsDecisions, CommitKeepsPublications,
       CommitKeepsOneLaw DEF ConstitutionInv
  <1> QED BY <1>2, <1>3, <1>4, StepKinds DEF ConstitutionInv

THEOREM ConstitutionInvariant == Spec => []ConstitutionInv
  BY InitConstitution, NextConstitution, PTL DEF Spec

(* The revision rows replay the life of every amendment. *)
THEOREM RevisionsReplay == Spec => []TrailReplays
  <1>1. ConstitutionInv => TrailReplays
    BY DEF ConstitutionInv
  <1> QED BY <1>1, ConstitutionInvariant, PTL

(* One decision at most for each amendment, on the revision opened for it, *)
(* and the state agrees with it.                                           *)
THEOREM DecisionsBind == Spec => []DecisionBinds
  <1>1. ConstitutionInv => DecisionBinds
    BY DEF ConstitutionInv, DecisionState
  <1> QED BY <1>1, ConstitutionInvariant, PTL

(* What is published is what was reviewed, sealed and approved. *)
THEOREM PublicationsAreSealed == Spec => []PublishedAsSealed
  <1>1. ConstitutionInv => PublishedAsSealed
    BY DEF ConstitutionInv, PublicationState
  <1> QED BY <1>1, ConstitutionInvariant, PTL

(* A policy version and an amendment have one publication at most. *)
THEOREM OneLaw == Spec => []OneLawPerVersion
  <1>1. ConstitutionInv => OneLawPerVersion
    BY DEF ConstitutionInv
  <1> QED BY <1>1, ConstitutionInvariant, PTL

(* The lock on the owner row: the publisher is the owner when the law is   *)
(* written, and so is the principal who ratified it.                       *)
LEMMA PublicationStep ==
  ASSUME RowInv, [Next]_vars
  PROVE  \A p \in publications' \ publications :
           /\ p.publisher = owner
           /\ \E d \in decisions : /\ d.on = p.on /\ d.decision = "approve"
                                   /\ d.reviewer = owner
  <1>1. CASE UNCHANGED tables
    BY <1>1 DEF tables
  <1>2. ASSUME NEW c \in Calls, Create(c)
        PROVE  publications' = publications
    BY <1>2 DEF Create
  <1>3. ASSUME NEW c \in Calls, Commits(c), NEW p \in publications' \ publications
        PROVE  /\ p.publisher = owner
               /\ \E d \in decisions : /\ d.on = p.on /\ d.decision = "approve"
                                       /\ d.reviewer = owner
    <2>1. /\ call[c].op = "publish"
          /\ p.on = call[c].on /\ p.publisher = call[c].actor
      BY <1>3 DEF Commits, Write
    <2>2. owner = call[c].actor /\ ApprovedBy(call[c].on, call[c].snap, owner)
      BY <1>3, <2>1 DEF Commits, MayPublish
    <2> QED BY <2>1, <2>2 DEF ApprovedBy, Approval
  <1> QED BY <1>1, <1>2, <1>3, StepKinds

(* Every publication is an act of the owner on an approval of the owner. *)
THEOREM PublishingIsTheOwners == Spec => PublishedUnderAuthority
  <1>1. RowInv /\ [Next]_vars =>
          [\A p \in publications' \ publications :
             /\ p.publisher = owner
             /\ \E d \in decisions : /\ d.on = p.on /\ d.decision = "approve"
                                     /\ d.reviewer = owner]_vars
    BY PublicationStep
  <1> QED BY <1>1, RowInvariant, PTL DEF Spec, PublishedUnderAuthority
=============================================================================
