CONSTANTS
  v1 = v1
  c1 = c1
  c2 = c2
  c3 = c3
  o = o
  NoOwner = NoOwner
  Policies = {v1}
  Amendments = {a1, a2}
  Principals = {o, s}
  Candidates = {c1, c2, c3}
  Exact = {c1, c2}
  Calls = {x, y}
  Parts = {"race", "law", "seal"}
  TargetOf <- ToTarget
  RevisionOf <- ToRevision
SPECIFICATION SpecParts
SYMMETRY Interchangeable
INVARIANTS TypeOK TrailReplays DecisionBinds OneLawPerVersion PublishedAsSealed
PROPERTIES PublishedUnderAuthority LifecycleContract
CHECK_DEADLOCK FALSE
