CONSTANTS
  g1 = g1
  p1 = p1
  p2 = p2
  p3 = p3
  e1 = e1
  e2 = e2
  r1 = r1
  r2 = r2
  x1 = x1
  Gates = {g1}
  Evidence = {e1, e2}
  Releases = {x1, x2}
  Revisions = {r1, r2}
  Calls = {q1, q2}
  MaxGateVersion = 2
  MaxReleaseVersion = 3
  Packages = {p1, p2, p3}
  Editors = {q1, q2}
  MaxPackageVersion = 2
  Parts = {"reuse"}
  GateOf <- ToGate
  RevisionOf <- ToRevision
SPECIFICATION SpecParts
SYMMETRY Alike
INVARIANTS ReleasedIdentityIsImmutable
CHECK_DEADLOCK FALSE
