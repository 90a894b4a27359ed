CONSTANTS
  ZeroAddress = ZeroAddress
  Address = {uni}
  Admin = uni
  Receivers = {uni}
  Hash = {h1}
  Expiry = {0, 2}
  MaxBatch = 1
  MaxCertificates = 1
  MaxTime = 3
  Request = {r1}
  TTL = 2
  Skew = 1
SPECIFICATION VerificationSpec
INVARIANTS VerificationTypeOK LaterReadsDoNotRevert CacheIsYoungerThanTTL AnswerWasTrue FailureIsExplained
