--------------------------- MODULE ProjectQuality ---------------------------
(***************************************************************************)
(* The services that keep a project's work and its quality, side by side:  *)
(* packages and their dependencies; gates, evidence and releases.  Any     *)
(* call of one may come between any two awaits of another.                 *)
(***************************************************************************)
EXTENDS WorkPackages, ReleaseEvidence

qualityVars == <<packageVars, vars>>

InitQuality == InitPackages /\ InitReleases

NextQuality ==
  \/ NextPackages /\ UNCHANGED vars
  \/ NextReleases /\ UNCHANGED packageVars

SpecQuality == InitQuality /\ [][NextQuality]_qualityVars

(* The types of both: every row and every call in progress is one of the   *)
(* tables' and of the service's.                                           *)
TypeOKQuality == TypeOKPackages /\ TypeOKReleases
=============================================================================
