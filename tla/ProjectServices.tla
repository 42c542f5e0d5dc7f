--------------------------- MODULE ProjectServices ---------------------------
(***************************************************************************)
(* The services around a project, side by side: decisions and notes, roles *)
(* and the reviews they admit, the owner's sign-on, and inspections.  Any  *)
(* step of one may come between any two awaits of another; the owner is    *)
(* bootstrapped, and roles are granted, under the sign-ons and reviews in  *)
(* progress.                                                               *)
(***************************************************************************)
EXTENDS GovernanceRecords, ProfessionalReview, OwnerSignOn, WorkflowInspection

authorityVars == <<roleVars, reviewVars>>
serviceVars == <<govVars, authorityVars, signOnVars, inspectionVars>>

InitServices ==
  InitGovernance /\ InitRoles /\ InitReview /\ InitSignOn /\ InitInspection

NextServices ==
  \/ NextGovernance /\ UNCHANGED <<authorityVars, signOnVars, inspectionVars>>
  \/ NextReview /\ UNCHANGED <<govVars, signOnVars, inspectionVars>>
  \/ SigningOn /\ UNCHANGED <<govVars, authorityVars, inspectionVars>>
  \/ NextInspection /\ UNCHANGED <<govVars, authorityVars, signOnVars>>

SpecServices == InitServices /\ [][NextServices]_serviceVars

(* The types of all: every row, cookie and call in progress is one of the  *)
(* tables', the browsers' and the services'.                               *)
TypeOKServices ==
  TypeOKGovernance /\ TypeOKRoles /\ TypeOKReview /\ TypeOKSignOn /\ TypeOKInspection
=============================================================================
