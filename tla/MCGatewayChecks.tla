---------------------------- MODULE MCGatewayChecks ----------------------------
(***************************************************************************)
(* One call and its checks, within two bounds: up to the claim, with three *)
(* decisions over two keys; and the loop behind the claim, with sources    *)
(* and clock on the move and two decisions to get in.                      *)
(***************************************************************************)
EXTENDS MCWorkflowGateway

CommittedOrOpen == adoptions \union openAdoptions
IssuerRows == issuerDecisions \union openIssuers

UpToTheClaim == now = 0 /\ \A i \in Invocations : pc[i] \notin Executing

IntoTheLoop ==
  /\ Cardinality(CommittedOrOpen) + Cardinality(IssuerRows) <= 2
  /\ \A r \in CommittedOrOpen \union IssuerRows : r.id <= 2
  /\ \A r \in IssuerRows : r.key = k1

Bounded == UpToTheClaim \/ IntoTheLoop
=============================================================================
