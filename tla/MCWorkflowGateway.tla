-------------------------- MODULE MCWorkflowGateway --------------------------
(***************************************************************************)
(* Small instances of the gateway: one payload for policy p1 and source s1, *)
(* signed by issuer i1 with k1, and a grant for each text of its signature. *)
(***************************************************************************)
EXTENDS WorkflowGateway

CONSTANTS i1, k1, p1, s1, w1, Attempts, Tokens, Expiry

ToPayload == [g \in Grants |-> w1]
ToIssuer == [g \in Grants |-> i1]
ToKey == [g \in Grants |-> k1]
ToPolicy == [g \in Grants |-> p1]
ToSource == [g \in Grants |-> s1]
ToIssued == [g \in Grants |-> 1]
ToExpiry == [g \in Grants |-> Expiry]
ToAttempts == [g \in Grants |-> Attempts]
ToTokens == [g \in Grants |-> Tokens]

(* FairSpec for two calls, the second with the grant of the first or with  *)
(* the other one, and runners whose failures without cost have fingerprint *)
(* f2 and whose other results have f1: the tokens of two failures tell if   *)
(* the second repeats the first.                                           *)
CONSTANTS a, g1, f2
ToldByCost == \A i \in Invocations :
  held'[i].digest = f2 <=> held'[i].outcome = "failed" /\ held'[i].tokens = 0
ReplayInit == Init /\ grantOf[a] = g1
ReplayNext == Next /\ ToldByCost
ReplaySpec ==
  ReplayInit /\ [][ReplayNext]_vars /\ \A i \in Invocations : WF_vars(Step(i))
=============================================================================
