--------------------------- MODULE MCProjectServices ---------------------------
(***************************************************************************)
(* Small instances of the services of a project: those of its work and     *)
(* quality, and those around it.  The parts share no state but the         *)
(* authority, so each is explored on its own.                              *)
(***************************************************************************)
EXTENDS MCProjectQuality, ProjectServices

CONSTANTS o, p, f, g, c1, c2, n1, n2, w1, k1, k2, k3, t1, t2

ToDirs == [k \in Files |-> IF k = k3 THEN t2 ELSE t1]
ToBytes == [k \in Files |-> IF k = k1 THEN 1 ELSE 2]
ToFindings == <<{f}, {g}>>
\* Requests are also the decisions of another part.
AlikeAll == Permutations(Requests) \union Permutations(Subjects)

\* Each of two calls is one person's.
ReviewerOf(c) == IF c = c1 THEN o ELSE p

InitAll ==
  /\ InitParts /\ InitServices
  \* The other parts do not look at the scopes.
  /\ part # "inspection" => scopes = {k1}

NextAround ==
  /\ UNCHANGED <<part, qualityVars>>
  /\ \/ /\ part = "decisions"
        /\ \E c \in GovCalls : Deciding(c) \/ DropGovCall(c)
        /\ UNCHANGED <<roleVars, reviewVars, signOnVars, inspectionVars>>
     \/ /\ part = "notes"
        /\ \/ \E t \in Targets : AddTarget(t)
           \/ \E c \in GovCalls : Noting(c)
        /\ UNCHANGED <<roleVars, reviewVars, signOnVars, inspectionVars>>
     \/ /\ part = "roles" /\ NextRoles
        /\ UNCHANGED <<govVars, reviewVars, signOnVars, inspectionVars>>
     \/ /\ part = "review"
        /\ \/ Deploy
           \/ \E c \in RoleCalls : SubmitReview(c, ReviewerOf(c)) \/ Recording(c)
           \/ /\ \/ \E c \in RoleCalls : ReadOwner(c) \/ ReadRole(c)
                 \/ /\ review[c1] = NoReview
                    /\ \/ BootstrapBy(c1) \/ SetProjectRole(c1)
                       \/ \E give \in {"REVIEWER", "VIEWER"} : BeginGrant(c1, o, p, give)
              /\ UNCHANGED reviewVars
        /\ UNCHANGED <<govVars, signOnVars, inspectionVars>>
     \/ /\ part = "sign-on"
        /\ \/ SigningOn /\ UNCHANGED roleVars
           \/ BootstrapBy(c1) /\ UNCHANGED signOnVars
        /\ UNCHANGED <<govVars, reviewVars, inspectionVars>>
     \/ /\ part = "inspection" /\ NextInspection
        /\ UNCHANGED <<govVars, roleVars, reviewVars, signOnVars>>

NextAll == NextAround \/ (NextParts /\ UNCHANGED serviceVars)

SpecAll == InitAll /\ [][NextAll]_<<part, qualityVars, serviceVars>>
=============================================================================
