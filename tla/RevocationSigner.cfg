CONSTANTS
  Account = {a, b}
  Network = {amoy}
  Tab = {here}
  Login = {l1, l2}
  Amoy = amoy
  NoAccount = NoAccount
  NoNetwork = NoNetwork
  Here = here
  Signer = a
  File = {}
  NoFile = NoFile
  Visited = {"revoke"}
SPECIFICATION PagesSpec
SYMMETRY LoginSymmetry
PROPERTY RevocationIsSignedByShownAccount
