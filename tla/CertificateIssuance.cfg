CONSTANTS
  Request = {r1, r2}
  Earlier = Earlier
  Elsewhere = Elsewhere
  NoHash = NoHash
  Signer = Signer
  Other = Other
  ZeroAddress = ZeroAddress
  MaxBatch = 2
  MaxRevoked = 1
SPECIFICATION FairSpec
INVARIANTS TypeOK DocumentsAreAnchored ReplacedMeansRevoked SuccessIsComplete
PROPERTIES RequestsAreAnswered SuccessorExists ContractIsTheLedger
CHECK_DEADLOCK FALSE
