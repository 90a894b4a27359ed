CONSTANTS
  Account = {a, b}
  Network = {amoy, other}
  Tab = {here}
  Login = {l1}
  Amoy = amoy
  NoAccount = NoAccount
  NoNetwork = NoNetwork
  Here = here
  Signer = a
  File <- MCFile
  NoFile = NoFile
  Visited = {"issue", "batch", "revoke", "history"}
SPECIFICATION PagesSpec
INVARIANT HistoryStaysShown
