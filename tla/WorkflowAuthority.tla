-------------------------- MODULE WorkflowAuthority --------------------------
(***************************************************************************)
(* The append-only workflow authority: the adoption decisions and the      *)
(* issuer decisions of one exact workflow digest in one project, kept by   *)
(* PostgresWorkflowExecutionAuthorityRepository, and the three reads that  *)
(* PostgresWorkflowExecutionAuthority makes of them.                       *)
(*                                                                         *)
(* A decision is stamped (decidedAt, random id) inside its transaction and *)
(* becomes visible at commit, so two decisions may commit in the opposite  *)
(* order of their stamps, and two decisions of one clock tick are ordered  *)
(* by their random ids alone.                                              *)
(*                                                                         *)
(* Calls by anyone but the bootstrapped System Owner throw before any      *)
(* write and are left out: they change nothing.                            *)
(***************************************************************************)
EXTENDS Integers

CONSTANTS Issuers,      \* issuer ids
          Keys,         \* Ed25519 public keys
          Policies,     \* Constitution policy versions
          NoKey,        \* null: no pinned key
          MaxTime,      \* bound: last clock tick
          MaxDecisions  \* bound: decisions the owner makes, in both logs

ASSUME AuthorityAssumption ==
  /\ MaxTime \in Nat
  /\ MaxDecisions \in Nat
  /\ NoKey \notin Keys

VARIABLES now,              \* the clock
          adoptions,        \* committed rows of WorkflowExecutionAdoptionDecision
          issuerDecisions,  \* committed rows of WorkflowExecutionIssuerDecision
          openAdoptions,    \* rows stamped in a transaction not yet committed
          openIssuers

authorityVars == <<adoptions, issuerDecisions, openAdoptions, openIssuers>>

Times == 0..MaxTime
Ids == 1..MaxDecisions

AdoptionRow == [policy : Policies, decision : {"adopt", "revoke"},
                at : Times, id : Ids]
IssuerRow == [issuer : Issuers, key : Keys, policy : Policies,
              decision : {"allow", "revoke"}, at : Times, id : Ids]

AuthorityTypeOK ==
  /\ now \in Times
  /\ adoptions \subseteq AdoptionRow /\ openAdoptions \subseteq AdoptionRow
  /\ issuerDecisions \subseteq IssuerRow /\ openIssuers \subseteq IssuerRow

AuthorityInit ==
  /\ now = 0
  /\ adoptions = {} /\ openAdoptions = {}
  /\ issuerDecisions = {} /\ openIssuers = {}

-----------------------------------------------------------------------------
(* Reads.  orderBy: [{ decidedAt: "desc" }, { id: "desc" }], first row.    *)

NotAfter(q, r) == q.at < r.at \/ (q.at = r.at /\ q.id <= r.id)

LatestOf(rows) == CHOOSE r \in rows : \A q \in rows : NotAfter(q, r)

(* assertAdopted: the latest decision on this digest adopts it under policy p. *)
Adopted(p) ==
  /\ adoptions # {}
  /\ LatestOf(adoptions).decision = "adopt"
  /\ LatestOf(adoptions).policy = p

DecisionsOn(i) == {r \in issuerDecisions : r.issuer = i}

(* assertMayExecute: the latest decision on issuer i allows key k under p. *)
MayExecute(i, p, k) ==
  /\ DecisionsOn(i) # {}
  /\ LatestOf(DecisionsOn(i)).decision = "allow"
  /\ LatestOf(DecisionsOn(i)).policy = p
  /\ LatestOf(DecisionsOn(i)).key = k

(* load + publicKeyFor: the key pinned for issuer i in a snapshot taken now. *)
PinnedKey(i, p) ==
  IF \E k \in Keys : MayExecute(i, p, k)
    THEN LatestOf(DecisionsOn(i)).key
    ELSE NoKey

-----------------------------------------------------------------------------
(* The owner's decisions: one transaction each.                            *)

UnusedIds ==
  Ids \ ({r.id : r \in adoptions \union openAdoptions}
         \union {r.id : r \in issuerDecisions \union openIssuers})

StampAdoption(p, d) ==
  /\ \E u \in UnusedIds :
       openAdoptions' = openAdoptions
                        \union {[policy |-> p, decision |-> d, at |-> now, id |-> u]}
  /\ UNCHANGED <<adoptions, issuerDecisions, openIssuers>>

StampIssuer(i, k, p, d) ==
  /\ \E u \in UnusedIds :
       openIssuers' = openIssuers
                      \union {[issuer |-> i, key |-> k, policy |-> p,
                               decision |-> d, at |-> now, id |-> u]}
  /\ UNCHANGED <<adoptions, issuerDecisions, openAdoptions>>

CommitAdoption(r) ==
  /\ r \in openAdoptions
  /\ openAdoptions' = openAdoptions \ {r}
  /\ adoptions' = adoptions \union {r}
  /\ UNCHANGED <<issuerDecisions, openIssuers>>

CommitIssuer(r) ==
  /\ r \in openIssuers
  /\ openIssuers' = openIssuers \ {r}
  /\ issuerDecisions' = issuerDecisions \union {r}
  /\ UNCHANGED <<adoptions, openAdoptions>>

RecordAdoption ==
  \/ \E p \in Policies, d \in {"adopt", "revoke"} : StampAdoption(p, d)
  \/ \E r \in openAdoptions : CommitAdoption(r)

RecordIssuer ==
  \/ \E i \in Issuers, k \in Keys, p \in Policies, d \in {"allow", "revoke"} :
       StampIssuer(i, k, p, d)
  \/ \E r \in openIssuers : CommitIssuer(r)

Tick == now < MaxTime /\ now' = now + 1
=============================================================================
