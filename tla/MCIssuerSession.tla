--------------------------- MODULE MCIssuerSession ---------------------------
(* IssuerSession for TLC: accounts, tabs and logins are interchangeable.   *)
EXTENDS IssuerSession, TLC

Interchangeable ==
  Permutations(Account) \cup Permutations(Tab) \cup Permutations(Login)
==============================================================================
