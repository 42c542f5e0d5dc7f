CONSTANTS
  o = o
  p = p
  f = f
  g = g
  c1 = c1
  c2 = c2
  n1 = n1
  n2 = n2
  w1 = w1
  x1 = x1
  k1 = k1
  k2 = k2
  k3 = k3
  t1 = t1
  t2 = t2
  Files = {k1, k2, k3}
  Dirs = {t1, t2}
  DirOf <- ToDirs
  Bytes <- ToBytes
  MaxFileBytes = 2
  MaxTotalBytes = 4
  MaxFiles = 2
  Inspectors = {i1, i2}
  NoOwner = NoOwner
  NoSubject = NoSubject
  Decisions = {q1, q2}
  Notes = {n1, n2}
  Lessons = {n2}
  Targets = {w1, x1}
  ReleaseTargets = {x1}
  Contents = {y, z}
  GovCalls = {c1, c2}
  MaxGovVersion = 3
  Principals = {o, p}
  RoleCalls = {c1, c2}
  MaxAudit = 3
  Candidates = {1, 2}
  Findings = {f, g}
  FindingsOf <- ToFindings
  BlockingSevere = {g}
  Subjects = {s1, s2}
  Browsers = {b1}
  Requests = {q1, q2}
  g1 = g1
  p1 = p1
  p2 = p2
  p3 = p3
  e1 = e1
  e2 = e2
  r1 = r1
  r2 = r2
  Gates = {g1}
  Evidence = {e1, e2}
  Releases = {x1, x2}
  Revisions = {r1, r2}
  Calls = {q1, q2}
  MaxGateVersion = 3
  MaxReleaseVersion = 3
  Packages = {p1, p2, p3}
  Editors = {q1, q2}
  MaxPackageVersion = 2
  GateOf <- ToGate
  RevisionOf <- ToRevision
  Parts = {"decisions"}
SPECIFICATION SpecAll
SYMMETRY AlikeAll
PROPERTIES AcceptedContentIsImmutable
CHECK_DEADLOCK FALSE
