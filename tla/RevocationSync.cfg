CONSTANTS
  Cert = {c1, c2}
  Expiry = {0, 3}
  Window = 1
  MaxBlock = 5
  NoTx = NoTx
SPECIFICATION FairSpec
INVARIANTS TypeOK DatabaseIsBackedByChain StaleOnlyWhenMissed
PROPERTIES NeverValidAgain AuditLogIsImmutable RevocationReachesDatabase
