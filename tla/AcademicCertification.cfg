CONSTANTS
  ZeroAddress = ZeroAddress
  Address = {admin, uni}
  Admin = admin
  Receivers = {admin, uni}
  Hash = {h1, h2}
  Expiry = {0, 2}
  MaxBatch = 2
  MaxCertificates = 2
  MaxTime = 3
SYMMETRY HashSymmetry
SPECIFICATION Spec
INVARIANTS TypeOK RegistryAgrees RevocationsAgree VerifiedIssuersAreAuthorized ListsAgree LogTellsTheState
PROPERTIES StatusNeverGoesBack ValidAgainOnlyByVerification ImplementsLedger
