CONSTANTS
  Cert = {c1}
  Expiry = {0, 4}
  Window = 1
  MaxBlock = 5
  NoTx = NoTx
SPECIFICATION FairSpec
PROPERTY EveryEventIsAudited
