CONSTANTS
  Certificate <- MCCertificate
  Null = Null
  Code = {d1, d2}
  NoCode = NoCode
  File <- MCFile
  NotJson = NotJson
  NoFile = NoFile
  NoResult = NoResult
  DiskSize = 2
  MaxCalls = 2
SPECIFICATION PageSpec
INVARIANT IssuedDocumentsAreRead
