CONSTANTS
  y = y
  Ids <- ToIds
  IdRank <- ToIdRank
  Catalogs <- ToCatalogs
  MaxEdits = 2
  MaxCreated = 1
  Records = {"profile", "gates"}
  PromptCalls = {q1, q2}
  MaxPrompts = 2
  PageSize = 1
  MaxSourceVersion = 2
  MaxPromptTime = 2
  KeyRank <- ToKeyRank
  Texts = {y, z}
  MaxProjects = 2
  MaxInputs = 2
  StudioManifests <- ToStudioManifests
  Governed = {"hub", "app"}
  StudioProject = "hub"
  HubProject = "hub"
  PolicyVersion = 1
  MaxMoves = 1
  MaxReceipts = 3
  Repositories = {"hub", "app"}
  HubRepository = "hub"
  LevelOf <- ToLevels
  Adoptions <- ToAdoptions
  Qualities <- ToQualities
  Doubted <- ToDoubted
  MaxCommits <- ToCommits
  MaxAudits = 1
  MaxPolicy = 2
  GitRevisions <- ToGitRevisions
  Originals <- ToOriginals
  PatchAt <- ToPatches
  WorkflowAt <- ToWorkflows
  Sealed = "sealed"
  TargetVersion = 2
  GateRuns = {1}
  GateRevisionOf <- ToGateRevisions
  Publishers = {"console"}
  MaxAttemptsOf <- ToGateAttempts
  AcceptedRevisions = {1, 2}
  CandidateOf <- ToReviewed
  SevereFindings = {"severe"}
  FinalRuns = {1, 2}
  FinalRevisionOf <- ToFinalRevisions
  AcceptanceCalls = {q1, q2}
  MaxFinalUploads = 2
  MaxAcceptVersion = 2
  MaxOutside = 3
  ConsoleAmendments = {a}
  Windows = {q1, q2}
  EvidenceTexts <- ToEvidence
  Parts = {"factory"}
SPECIFICATION SpecParts
INVARIANTS MinimumNeverWeakens
CHECK_DEADLOCK FALSE
