-------------------------- MODULE CertificateLedger --------------------------
(***************************************************************************)
(* What the AcademicCertification contract promises to the rest of the     *)
(* platform, without ids, arrays or time: a certificate hash is anchored   *)
(* at most once, by an issuer that is authorized at that moment; only the  *)
(* issuer that anchored it may revoke it; and nothing ever undoes either.  *)
(* AcademicCertification implements this specification.                    *)
(***************************************************************************)

CONSTANTS
  Address,      (* accounts that may hold the issuer role *)
  Hash,         (* certificate hashes *)
  ZeroAddress   (* address(0): "nobody" *)

VARIABLES
  authorized,   (* the issuers the contract authorizes now *)
  phase,        (* lifecycle of a hash *)
  anchoredBy,   (* who anchored a hash *)
  revokedBy     (* who revoked it *)

ledgerVars == <<authorized, phase, anchoredBy, revokedBy>>

Phase == {"absent", "anchored", "revoked"}

LedgerInit ==
  /\ authorized = {}
  /\ phase = [h \in Hash |-> "absent"]
  /\ anchoredBy = [h \in Hash |-> ZeroAddress]
  /\ revokedBy = [h \in Hash |-> ZeroAddress]

(* The admin grants or withdraws an authorization. *)
Authorize(issuer) ==
  /\ authorized' = authorized \cup {issuer}
  /\ UNCHANGED <<phase, anchoredBy, revokedBy>>

Withdraw(issuer) ==
  /\ authorized' = authorized \ {issuer}
  /\ UNCHANGED <<phase, anchoredBy, revokedBy>>

(* One transaction anchors a whole set of fresh hashes, or none of them. *)
Anchor(issuer, hashes) ==
  /\ issuer \in authorized
  /\ \A h \in hashes : phase[h] = "absent"
  /\ phase' = [h \in Hash |-> IF h \in hashes THEN "anchored" ELSE phase[h]]
  /\ anchoredBy' = [h \in Hash |-> IF h \in hashes THEN issuer ELSE anchoredBy[h]]
  /\ UNCHANGED <<authorized, revokedBy>>

(* Revocation needs no current authorization: being the issuer is enough.  *)
Revoke(issuer, h) ==
  /\ phase[h] = "anchored"
  /\ anchoredBy[h] = issuer
  /\ phase' = [phase EXCEPT ![h] = "revoked"]
  /\ revokedBy' = [revokedBy EXCEPT ![h] = issuer]
  /\ UNCHANGED <<authorized, anchoredBy>>

LedgerNext ==
  \E issuer \in Address :
    \/ Authorize(issuer)
    \/ Withdraw(issuer)
    \/ \E hashes \in SUBSET Hash : Anchor(issuer, hashes)
    \/ \E h \in Hash : Revoke(issuer, h)

LedgerSpec == LedgerInit /\ [][LedgerNext]_ledgerVars
==============================================================================
