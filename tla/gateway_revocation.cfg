CONSTANTS
  i1 = i1
  k1 = k1
  p1 = p1
  s1 = s1
  w1 = w1
  a = a
  g1 = g1
  f2 = f2
  NoKey = NoKey
  NoDigest = NoDigest
  Grants = {g1}
  Invocations = {a}
  MaxDecisions = 3
  Issuers = {i1}
  Keys = {k1}
  Policies = {p1}
  Sources = {s1}
  MaxTime = 0
  Expiry = 2
  Attempts = 2
  Tokens = 2
  TokenBound = 2
  Fingerprints = {f1, f2}
  ClockSkew = 1
  MaxValidity = 2
  Payloads = {w1}
  PayloadOf <- ToPayload
  IssuerOf <- ToIssuer
  KeyOf <- ToKey
  PolicyOf <- ToPolicy
  SourceOf <- ToSource
  IssuedAt <- ToIssued
  ExpiresAt <- ToExpiry
  MaxAttempts <- ToAttempts
  MaxTokens <- ToTokens
SPECIFICATION Spec
INVARIANTS RevocationFailsClosed
CHECK_DEADLOCK FALSE
