------------------------- MODULE AmendmentLifecycle -------------------------
(***************************************************************************)
(* What the Constitution promises about its amendments, without saying who *)
(* writes them or how: transitionConstitutionAmendment as a state machine  *)
(* for each amendment, and at most one published law for each policy       *)
(* version.                                                                *)
(***************************************************************************)
CONSTANTS Amendments,  \* amendment ids
          Policies,    \* policy versions above the active one
          TargetOf     \* the version each amendment proposes

VARIABLES stage,  \* the state of each amendment, "none" before its draft
          laws    \* policy versions with a publication

Stages == {"none", "draft", "impact-reviewed", "migration-ready",
           "ratification-ready", "ratified", "published", "propagating",
           "verified", "rejected"}

Moves == {"impact", "migration", "open", "approve", "reject", "publish",
          "propagate", "verify"}

(* The states each action may be taken from, and the one it leads to. *)
From(move) ==
  CASE move = "impact" -> {"draft"}
    [] move = "migration" -> {"impact-reviewed"}
    [] move = "open" -> {"migration-ready"}
    [] move = "approve" -> {"ratification-ready"}
    [] move = "reject" -> {"draft", "impact-reviewed", "migration-ready",
                           "ratification-ready"}
    [] move = "publish" -> {"ratified"}
    [] move = "propagate" -> {"published"}
    [] move = "verify" -> {"propagating"}

To(move) ==
  CASE move = "impact" -> "impact-reviewed"
    [] move = "migration" -> "migration-ready"
    [] move = "open" -> "ratification-ready"
    [] move = "approve" -> "ratified"
    [] move = "reject" -> "rejected"
    [] move = "publish" -> "published"
    [] move = "propagate" -> "propagating"
    [] move = "verify" -> "verified"

LifecycleInit ==
  /\ stage = [a \in Amendments |-> "none"]
  /\ laws = {}

Propose(a) ==
  /\ stage[a] = "none"
  /\ stage' = [stage EXCEPT ![a] = "draft"]
  /\ UNCHANGED laws

Move(a, move) ==
  /\ stage[a] \in From(move)
  /\ stage' = [stage EXCEPT ![a] = To(move)]
  /\ IF move = "publish"
       THEN TargetOf[a] \notin laws /\ laws' = laws \union {TargetOf[a]}
       ELSE UNCHANGED laws

LifecycleNext == \E a \in Amendments : Propose(a) \/ \E move \in Moves : Move(a, move)

LifecycleSpec == LifecycleInit /\ [][LifecycleNext]_<<stage, laws>>
=============================================================================
