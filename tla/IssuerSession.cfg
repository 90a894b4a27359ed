CONSTANTS
  Account = {a, b}
  Network = {amoy}
  Tab = {t1, t2}
  Login = {l1, l2}
  Amoy = amoy
  NoAccount = NoAccount
  NoNetwork = NoNetwork
SPECIFICATION SessionSpec
INVARIANTS SessionTypeOK TokensAreProven
PROPERTIES SessionIsOfShownAccount
SYMMETRY Interchangeable
