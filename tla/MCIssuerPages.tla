---------------------------- MODULE MCIssuerPages ----------------------------
(* IssuerPages for TLC: a file with a line of every kind, which is chosen,  *)
(* reset and chosen again; a failed read stands for one without a record.   *)
(* Logins are interchangeable.                                              *)
EXTENDS IssuerPages, TLC

MCFile == {<<"record", "short", "noName", "blank", "record">>}
LoginSymmetry == Permutations(Login)
==============================================================================
