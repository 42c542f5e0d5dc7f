----------------------------- MODULE ProjectPages -----------------------------
(***************************************************************************)
(* What the pages of a project run, side by side: the resolver and the     *)
(* bootstrap, prompts, work, the studio, compliance, publication,          *)
(* acceptance and amendments.  Any step of one may come between any two    *)
(* steps of another.  What two of them read of the same repository or      *)
(* database, each models for itself: they have no variable in common.      *)
(***************************************************************************)
EXTENDS ProjectFactory, PromptRecords, WorkspaceJourney, WorkflowStudio,
        EcosystemCompliance, ConstitutionPublication, CompassAcceptance,
        AmendmentConsole

pagesVars == <<resolverVars, factoryVars, promptVars, journeyVars, studioVars,
               ecosystemVars, publicationVars, acceptanceVars, consoleVars>>

InitPages ==
  /\ InitResolver /\ InitFactory /\ InitPrompts /\ InitJourney /\ InitStudio
  /\ InitEcosystem /\ InitPublication /\ InitAcceptance /\ InitConsole

(* A step of one of them. *)
ResolverRuns ==
  /\ ResolveAny
  /\ UNCHANGED <<factoryVars, promptVars, journeyVars, studioVars,
                 ecosystemVars, publicationVars, acceptanceVars, consoleVars>>

FactoryRuns ==
  /\ NextFactory
  /\ UNCHANGED <<resolverVars, promptVars, journeyVars, studioVars,
                 ecosystemVars, publicationVars, acceptanceVars, consoleVars>>

PromptsRun ==
  /\ NextPrompts
  /\ UNCHANGED <<resolverVars, factoryVars, journeyVars, studioVars,
                 ecosystemVars, publicationVars, acceptanceVars, consoleVars>>

JourneyRuns ==
  /\ NextJourney
  /\ UNCHANGED <<resolverVars, factoryVars, promptVars, studioVars,
                 ecosystemVars, publicationVars, acceptanceVars, consoleVars>>

StudioRuns ==
  /\ NextStudio
  /\ UNCHANGED <<resolverVars, factoryVars, promptVars, journeyVars,
                 ecosystemVars, publicationVars, acceptanceVars, consoleVars>>

EcosystemRuns ==
  /\ NextEcosystem
  /\ UNCHANGED <<resolverVars, factoryVars, promptVars, journeyVars,
                 studioVars, publicationVars, acceptanceVars, consoleVars>>

PublicationRuns ==
  /\ NextPublication
  /\ UNCHANGED <<resolverVars, factoryVars, promptVars, journeyVars,
                 studioVars, ecosystemVars, acceptanceVars, consoleVars>>

AcceptanceRuns ==
  /\ NextAcceptance
  /\ UNCHANGED <<resolverVars, factoryVars, promptVars, journeyVars,
                 studioVars, ecosystemVars, publicationVars, consoleVars>>

ConsoleRuns ==
  /\ NextConsole
  /\ UNCHANGED <<resolverVars, factoryVars, promptVars, journeyVars,
                 studioVars, ecosystemVars, publicationVars, acceptanceVars>>

NextPages ==
  \/ ResolverRuns \/ FactoryRuns \/ PromptsRun \/ JourneyRuns \/ StudioRuns
  \/ EcosystemRuns \/ PublicationRuns \/ AcceptanceRuns \/ ConsoleRuns

SpecPages == InitPages /\ [][NextPages]_pagesVars

(* The types of all: what every page shows, holds and waits for, and every *)
(* record behind it, is one of those the code can make.                    *)
TypeOK ==
  TypeOKFactory /\ TypeOKPrompts /\ TypeOKJourney /\ TypeOKStudio
  /\ TypeOKEcosystem /\ TypeOKPublication /\ TypeOKAcceptance /\ TypeOKConsole
=============================================================================
