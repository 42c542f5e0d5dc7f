---------------------------- MODULE WorkflowStudio ----------------------------
(***************************************************************************)
(* The workflow studio: the registry of authored workflows, the preview of *)
(* a root, the readiness of the nodes under signed receipts and the graph  *)
(* that shows them.  The page reads the records, the head of the branch    *)
(* and the receipts one after the other, twice over, while others write    *)
(* them.  Nodes are numbers in the order of their names; heads, records    *)
(* and policies are versions; a receipt is what it attests.                *)
(***************************************************************************)
EXTENDS Integers, Sequences, FiniteSets, SequencesExt, FiniteSetsExt

CONSTANTS StudioManifests, \* authored workflows, a set of sequences
          Governed,        \* governed projects
          StudioProject,   \* the project whose page it is
          HubProject,      \* project:blueprint-os
          PolicyVersion,   \* CONSTITUTION_POLICY_VERSION
          MaxMoves,        \* bound of pushes and writes of records
          MaxReceipts

VARIABLES catalog,   \* the manifests of the registry
          branchHead,
          canon,     \* the version of the project's records
          receipts,  \* the receipt file of each workflow, in the Hub
          studio     \* the page

studioVars == <<catalog, branchHead, canon, receipts, studio>>

WorkflowStages == <<"DISCOVER", "SPECIFY", "DESIGN", "PLAN", "IMPLEMENT",
                    "TEST", "REVIEW", "RELEASE", "LEARN">>
StageRank(stage) == CHOOSE i \in 1..Len(WorkflowStages) : WorkflowStages[i] = stage
MaxNodes == 60
StudioNodes == [id : Nat, stage : ToSet(WorkflowStages), dependsOn : Seq(Nat),
                humanGate : BOOLEAN]

\* A manifest is typed; whether it makes sense is for the registry to say.
ASSUME StudioAssumption ==
  /\ \A manifests \in StudioManifests : \A wf \in ToSet(manifests) :
       wf.nodes \in Seq(StudioNodes)
  /\ MaxMoves \in Nat /\ MaxReceipts \in Nat

NodesOf(wf) == ToSet(wf.nodes)
IdsOf(wf) == {n.id : n \in NodesOf(wf)}
NodeOf(wf, id) == CHOOSE n \in NodesOf(wf) : n.id = id
DependsOn(wf, id) == ToSet(NodeOf(wf, id).dependsOn)
IsGate(n) == n.humanGate \/ n.stage = "RELEASE"

(* walk: every set of nodes has one that depends on none of them. *)
Acyclic(wf) ==
  \A S \in (SUBSET IdsOf(wf)) \ {{}} : \E id \in S : DependsOn(wf, id) \intersect S = {}

KnownDependencies(wf) ==
  \A n \in NodesOf(wf) :
    /\ ToSet(n.dependsOn) \subseteq IdsOf(wf) \ {n.id}
    /\ IsInjective(n.dependsOn)
    /\ \A d \in ToSet(n.dependsOn) :
         StageRank(NodeOf(wf, d).stage) <= StageRank(n.stage)

ValidateWorkflow(wf) ==
  /\ Len(wf.nodes) \in 1..MaxNodes
  /\ Cardinality(IdsOf(wf)) = Len(wf.nodes)
  /\ \A n \in NodesOf(wf) : n.stage = "RELEASE" => n.humanGate
  /\ KnownDependencies(wf) /\ Acyclic(wf)
  /\ \E n \in NodesOf(wf) : n.stage = "DISCOVER" /\ n.dependsOn = <<>>
  /\ \E n \in NodesOf(wf) : n.stage = "TEST"

(* The constructor of the registry: it throws, and the server does not     *)
(* start, on a manifest it cannot place.                                   *)
Registered(manifests) ==
  /\ \A wf \in ToSet(manifests) : ValidateWorkflow(wf) /\ wf.project \in Governed
  /\ \A i, j \in DOMAIN manifests :
       manifests[i].workflowId = manifests[j].workflowId => i = j
-----------------------------------------------------------------------------
(* The roots a catalog entry lists; the page previews the first. *)
RootNodeIds(wf) == {n.id : n \in {n \in NodesOf(wf) : n.dependsOn = <<>> /\ ~IsGate(n)}}
WorkflowsForProject(p) == {wf \in ToSet(catalog) : wf.project = p}
MeetsPolicy(wf) == wf.constitutionMin <= PolicyVersion

Attests(wf, head, digest, r) ==
  r.appHead = head /\ r.canonicalDigest = digest /\ r.nodeId \in IdsOf(wf)
(* A receipt that counts: it matches, is of no human gate, its issuer is   *)
(* trusted, its signature holds and its evidence was found.                *)
Counts(wf, head, digest, found, r) ==
  Attests(wf, head, digest, r) /\ ~IsGate(NodeOf(wf, r.nodeId)) /\ found

(* Seeded fault: what was found ambiguous is not remembered. *)
TakeReceiptForgetful(wf, head, digest, found, tally, r) ==
  LET n == r.nodeId
  IN CASE ~Counts(wf, head, digest, found, r) -> [tally EXCEPT !.rejected = @ + 1]
       [] Counts(wf, head, digest, found, r) /\ n \in tally.verified ->
            [tally EXCEPT !.verified = @ \ {n}, !.rejected = @ + 1]
       [] OTHER -> [tally EXCEPT !.verified = @ \union {n}]
(* One turn of the loop over the receipts; found tells whether its key,    *)
(* signature and every anchor were found good.                             *)
TakeReceipt(wf, head, digest, found, tally, r) ==
  LET n == r.nodeId
      rejected == [tally EXCEPT !.rejected = @ + 1]
  IN CASE ~Counts(wf, head, digest, found, r) -> rejected
       [] Counts(wf, head, digest, found, r) /\ n \in tally.verified ->
            [verified |-> tally.verified \ {n}, rejected |-> tally.rejected + 1,
             compromised |-> tally.compromised \union {n}]
       [] Counts(wf, head, digest, found, r) /\ n \in tally.compromised -> rejected
       [] OTHER -> [tally EXCEPT !.verified = @ \union {n}]

(* isAccepted, with its cache: a node and all it depends on. *)
Accepted(wf, verified) ==
  LET isAccepted[id \in IdsOf(wf)] ==
        id \in verified /\ \A d \in DependsOn(wf, id) : isAccepted[d]
  IN {id \in IdsOf(wf) : isAccepted[id]}

NodeState(wf, accepted, id) ==
  CASE IsGate(NodeOf(wf, id)) -> "human-gate"
    [] ~IsGate(NodeOf(wf, id)) /\ id \in accepted -> "verified"
    [] ~IsGate(NodeOf(wf, id)) /\ id \notin accepted
         /\ ~DependsOn(wf, id) \subseteq accepted -> "waiting-evidence"
    [] OTHER -> "available"

(* buildWorkflowReadiness over the receipts "found" tells of. *)
Readiness(wf, head, digest, found) ==
  LET read == [i \in DOMAIN found |-> [receipt |-> receipts[wf.workflowId][i], found |-> found[i]]]
      tally == FoldLeft(LAMBDA t, x :
                          TakeReceipt(wf, head, digest, x.found, t, x.receipt),
                        [verified |-> {}, compromised |-> {}, rejected |-> 0], read)
      accepted == Accepted(wf, tally.verified)
  IN [appHead |-> head, canonicalDigest |-> digest, found |-> found,
      acceptedReceipts |-> Cardinality(accepted),
      rejectedReceipts |-> tally.rejected + Cardinality(tally.verified)
                             - Cardinality(accepted),
      nodes |-> [id \in IdsOf(wf) |-> NodeState(wf, accepted, id)]]
-----------------------------------------------------------------------------
(* layoutWorkflowGraph: a node is one column past its last dependency; in  *)
(* a column by the mean place of its parents, then as authored.            *)
Depths(wf) ==
  LET depth[id \in IdsOf(wf)] == Max({0} \union {depth[d] + 1 : d \in DependsOn(wf, id)})
  IN depth
PlaceOf(wf, id) == CHOOSE i \in DOMAIN wf.nodes : wf.nodes[i].id = id
MeanOf(wf, id) ==
  LET deps == DependsOn(wf, id)
  IN IF deps = {} THEN [sum |-> PlaceOf(wf, id), of |-> 1]
     ELSE [sum |-> MapThenSumSet(LAMBDA d : PlaceOf(wf, d), deps), of |-> Cardinality(deps)]
Above(wf, a, b) ==
  LET p == MeanOf(wf, a)
      q == MeanOf(wf, b)
  IN \/ p.sum * q.of < q.sum * p.of
     \/ p.sum * q.of = q.sum * p.of /\ PlaceOf(wf, a) < PlaceOf(wf, b)
Layout(wf) ==
  LET depth == Depths(wf)
  IN [id \in IdsOf(wf) |->
        [column |-> depth[id],
         row |-> Cardinality({b \in IdsOf(wf) : depth[b] = depth[id] /\ Above(wf, b, id)})]]
-----------------------------------------------------------------------------
NothingShown == [shown |-> FALSE]
Closed == [at |-> "closed"]

InitStudio ==
  /\ catalog \in {ms \in StudioManifests : Registered(ms)}
  /\ branchHead = 1 /\ canon = 1
  /\ receipts = [id \in {wf.workflowId : wf \in WorkflowsForProject(StudioProject)} |-> <<>>]
  /\ studio = Closed

(* Others: a push to the branch, a write of the records, a receipt, of a   *)
(* trusted issuer or not.                                                  *)
Push ==
  /\ branchHead + canon < MaxMoves + 2 /\ branchHead' = branchHead + 1
  /\ UNCHANGED <<catalog, canon, receipts, studio>>
ReviseRecords ==
  /\ branchHead + canon < MaxMoves + 2 /\ canon' = canon + 1
  /\ UNCHANGED <<catalog, branchHead, receipts, studio>>
PublishReceipt(wf, id) ==
  /\ Len(receipts[wf]) < MaxReceipts
  /\ receipts' = [receipts EXCEPT ![wf] = Append(@,
       [nodeId |-> id, appHead |-> branchHead, canonicalDigest |-> canon])]
  /\ UNCHANGED <<catalog, branchHead, canon, studio>>

Opened(wf, own) ==
  [at |-> IF own THEN (IF RootNodeIds(wf) = {} THEN "readiness" ELSE "preview") ELSE "shown",
   workflow |-> wf, graphOnly |-> ~own, head |-> 0, canon |-> 0,
   layout |-> Layout(wf), preview |-> NothingShown, plan |-> NothingShown,
   since |-> [head |-> branchHead, canon |-> canon]]

(* The page is asked for; the System Owner sees every workflow on the page *)
(* of the Hub.  What is of another project is shown as a graph only.       *)
OpenStudio(systemOwner) ==
  LET wfs == IF StudioProject = HubProject /\ systemOwner THEN ToSet(catalog)
             ELSE WorkflowsForProject(StudioProject)
  IN /\ studio = Closed
     /\ \E wf \in wfs : studio' = Opened(wf, wf.project = StudioProject)
     /\ UNCHANGED <<catalog, branchHead, canon, receipts>>

\* The phase "at" reads the records; what comes next checks the workflow.
ReadCanonical(at, next) ==
  /\ studio.at = at
  /\ studio' = [studio EXCEPT !.at = next, !.canon = canon]
  /\ UNCHANGED <<catalog, branchHead, canon, receipts>>

Previewable(wf) == wf.status = "candidate" /\ MeetsPolicy(wf)
(* readHead and the projection of the first root. *)
PreviewRoot ==
  LET wf == studio.workflow IN
  /\ studio.at = "preview-head"
  /\ studio' = [studio EXCEPT !.at = "readiness",
       !.preview = IF Previewable(wf)
                     THEN [rootNodeId |-> Min(RootNodeIds(wf)), appHead |-> branchHead,
                           canonicalRevision |-> studio.canon]
                     ELSE NothingShown]
  /\ UNCHANGED <<catalog, branchHead, canon, receipts>>

ReadHead ==
  /\ studio.at = "readiness-head"
  /\ studio' = [studio EXCEPT !.at = "receipts", !.head = branchHead]
  /\ UNCHANGED <<catalog, branchHead, canon, receipts>>

(* The receipts are listed, the anchors of each looked up at the head.  An *)
(* artifact is not found, or cannot be fetched: found is FALSE for it.     *)
VerifyReceipts(found) ==
  LET wf == studio.workflow IN
  /\ studio.at = "receipts" /\ DOMAIN found = DOMAIN receipts[wf.workflowId]
  /\ studio' = [studio EXCEPT !.at = "shown",
       !.plan = IF MeetsPolicy(wf)
                  THEN Readiness(wf, studio.head, studio.canon, found) ELSE NothingShown]
  /\ UNCHANGED <<catalog, branchHead, canon, receipts>>

(* A read or a fetch is refused: the section it was for says so. *)
ReadFails ==
  /\ studio.at \in {"preview", "preview-head", "readiness", "readiness-head", "receipts"}
  /\ studio' = [studio EXCEPT !.at =
       IF studio.at \in {"preview", "preview-head"} THEN "readiness" ELSE "shown"]
  /\ UNCHANGED <<catalog, branchHead, canon, receipts>>

CloseStudio ==
  /\ studio.at = "shown" /\ studio' = Closed
  /\ UNCHANGED <<catalog, branchHead, canon, receipts>>

NextStudio ==
  \/ Push \/ ReviseRecords
  \/ \E wf \in WorkflowsForProject(StudioProject) : \E id \in IdsOf(wf) :
       PublishReceipt(wf.workflowId, id)
  \/ \E owner \in BOOLEAN : OpenStudio(owner)
  \/ ReadCanonical("preview", "preview-head")
  \/ ReadCanonical("readiness", "readiness-head")
  \/ PreviewRoot \/ ReadHead
  \/ \E found \in UNION {[DOMAIN receipts[id] -> BOOLEAN] : id \in DOMAIN receipts} :
       VerifyReceipts(found)
  \/ ReadFails \/ CloseStudio

SpecStudio == InitStudio /\ [][NextStudio]_studioVars
-----------------------------------------------------------------------------
(* reviewState: the mark of a node on the page; without a plan a root is   *)
(* marked as one.                                                          *)
ReviewState(id) ==
  LET wf == studio.workflow
      root == IF id \in RootNodeIds(wf) THEN "available" ELSE "waiting-evidence"
      state == IF studio.plan = NothingShown THEN root ELSE studio.plan.nodes[id]
      mark == [verified |-> "verified", available |-> "candidate"]
  IN CASE IsGate(NodeOf(wf, id)) -> "human"
       [] ~IsGate(NodeOf(wf, id)) /\ state \in DOMAIN mark -> mark[state]
       [] OTHER -> "blocked"

TypeOKStudio ==
  /\ branchHead \in 1..MaxMoves + 1 /\ canon \in 1..MaxMoves + 1
  /\ \A id \in DOMAIN receipts : Len(receipts[id]) <= MaxReceipts
  /\ studio.at \in {"closed", "preview", "preview-head", "readiness",
                    "readiness-head", "receipts", "shown"}

\* What a plan may rest on: one receipt of the node alone, for just the head
\* and the records of the plan; and so for all the node depends on.
Backed(wf, plan) ==
  LET file == receipts[wf.workflowId]
      holding(id) == {i \in DOMAIN plan.found :
        /\ plan.found[i] /\ file[i].nodeId = id
        /\ file[i].appHead = plan.appHead
        /\ file[i].canonicalDigest = plan.canonicalDigest}
      single == {id \in IdsOf(wf) : Cardinality(holding(id)) = 1}
  IN UNION {S \in SUBSET single : \A id \in S :
              ~NodeOf(wf, id).humanGate /\ DependsOn(wf, id) \subseteq S}

MarksAreBacked ==
  LET wf == studio.workflow
      backed == Backed(wf, studio.plan)
  IN \A id \in IdsOf(wf) :
       /\ ReviewState(id) = "verified" <=> id \in backed
       /\ ReviewState(id) = "candidate" <=>
            /\ id \notin backed /\ ~NodeOf(wf, id).humanGate
            /\ DependsOn(wf, id) \subseteq backed
PlanIsOfThisVisit ==
  /\ studio.plan.appHead \in studio.since.head..branchHead
  /\ studio.plan.canonicalDigest \in studio.since.canon..canon
  /\ studio.preview # NothingShown =>
       /\ studio.preview.appHead <= studio.plan.appHead
       /\ studio.preview.canonicalRevision <= studio.plan.canonicalDigest
\* Arrows point to the right, no two cards share a place, no column is empty.
DrawnInOrder ==
  LET wf == studio.workflow
      at == studio.layout
  IN /\ \A id \in IdsOf(wf) : \A d \in DependsOn(wf, id) : at[d].column < at[id].column
     /\ IsInjective(at)
     /\ \A id \in IdsOf(wf) : \A c \in 0..at[id].column, r \in 0..at[id].row :
          /\ \E b \in IdsOf(wf) : at[b].column = c
          /\ \E b \in IdsOf(wf) : at[b].column = at[id].column /\ at[b].row = r

(* What the studio shows is so: a node is marked verified exactly when it  *)
(* and everything it rests on have one receipt each that holds for the     *)
(* head and the records the plan names, whatever was pushed, written or    *)
(* attested between its reads; a second receipt of a node, or a third,     *)
(* takes the mark away and never gives it back; and a node is a candidate  *)
(* exactly when all before it is verified (buildWorkflowReadiness and      *)
(* layoutWorkflowGraph under the page that calls them).                    *)
StudioShowsEvidence ==
  /\ studio.at # "closed" => DrawnInOrder
  /\ studio.at = "shown" /\ studio.plan # NothingShown =>
       MarksAreBacked /\ PlanIsOfThisVisit
=============================================================================
