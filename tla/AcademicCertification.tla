------------------------ MODULE AcademicCertification ------------------------
(***************************************************************************)
(* contracts/contracts/AcademicCertification.sol: the ERC-721 contract in  *)
(* which issuers are registered and verified and certificates are issued,  *)
(* verified and revoked.                                                   *)
(*                                                                         *)
(* A transaction is one step: the EVM runs it alone and a failed `require` *)
(* undoes all of it, so a rejected call is no step.  The strings (names,   *)
(* programs, URIs, reasons) matter to the code only by being empty or not; *)
(* the calls modelled are those with the non-empty ones it requires.  An   *)
(* id array is modelled by the set of its elements.  Accounts are those of *)
(* wallets; a contract account that refuses an ERC-721 token is an address *)
(* outside Receivers.                                                      *)
(***************************************************************************)
EXTENDS Naturals, Sequences

CONSTANTS
  Address,          (* accounts *)
  Admin,            (* the deployer *)
  ZeroAddress,      (* address(0) *)
  Receivers,        (* accounts an ERC-721 token can be minted to *)
  Hash,             (* non-zero certificate hashes *)
  Expiry,           (* expiry dates asked for; 0 is "never" *)
  MaxBatch,         (* bound: certificates in one batch *)
  MaxCertificates,  (* bound: certificates ever issued *)
  MaxTime           (* bound: block timestamp *)

ASSUME ContractAssumption ==
  /\ Admin \in Address
  /\ ZeroAddress \notin Address
  /\ Receivers \subseteq Address
  /\ Expiry \subseteq Nat
  /\ MaxBatch \in Nat \ {0}
  /\ MaxCertificates \in Nat
  /\ MaxTime \in Nat

VARIABLES
  issuers,                (* issuer profiles by address *)
  nextCertificateId,
  usedHashes,
  certificatesById,
  certificateIdByHash,    (* 0 where the mapping was never written *)
  recipients,             (* recipient profiles by address *)
  revocations,
  issuerCertificates,
  recipientCertificates,
  tokens,                 (* ERC-721 tokens minted; nobody reads who holds them *)
  events,                 (* CertificateIssued and CertificateRevoked, as logged *)
  timestamp               (* of the block being built *)

issuerVars == <<issuers>>
certificateVars ==
  <<nextCertificateId, usedHashes, certificatesById, certificateIdByHash,
    recipients, issuerCertificates, recipientCertificates>>
vars == <<issuerVars, certificateVars, revocations, tokens, events, timestamp>>

IssuerStatus == {"Active", "Suspended", "Revoked"}
CertificateStatus == {"Valid", "Revoked", "Expired"}

Issuer == [registered : BOOLEAN, status : IssuerStatus, isVerified : BOOLEAN]
Recipient == [registered : BOOLEAN, certificateIds : SUBSET Nat]
Certificate ==
  [certificateHash : Hash, issuer : Address, recipient : Address,
   issuedDate : Nat, expiryDate : Nat, status : CertificateStatus]
Revocation == [revocationDate : Nat, revokedBy : Address]
Event == [name : {"CertificateIssued", "CertificateRevoked"}, certificateId : Nat]

(* One certificate asked of issueCertificate or batchIssueCertificates.    *)
Item ==
  [certificateHash : Hash, recipient : Address \cup {ZeroAddress}, expiryDate : Nat]

Init ==
  /\ issuers = [a \in Address |->
                 [registered |-> FALSE, status |-> "Active", isVerified |-> FALSE]]
  /\ nextCertificateId = 1
  /\ usedHashes = {}
  /\ certificatesById = <<>>
  /\ certificateIdByHash = [h \in Hash |-> 0]
  /\ recipients = [a \in Address |-> [registered |-> FALSE, certificateIds |-> {}]]
  /\ revocations = <<>>
  /\ issuerCertificates = [a \in Address |-> {}]
  /\ recipientCertificates = [a \in Address |-> {}]
  /\ tokens = {}
  /\ events = <<>>
  /\ timestamp = 1

------------------------------------------------------------------------------
(* Queries *)

certificateIds == DOMAIN certificatesById

isAuthorizedIssuer(a) ==
  /\ issuers[a].registered
  /\ issuers[a].isVerified
  /\ issuers[a].status = "Active"

(* Mutant: the expiry is looked at before the revocation.                  *)
_effectiveCertificateStatus_ExpiryFirst(id) ==
  LET certificate == certificatesById[id]
  IN IF certificate.expiryDate # 0 /\ timestamp > certificate.expiryDate
     THEN "Expired" ELSE certificate.status

_effectiveCertificateStatus(id) ==
  LET certificate == certificatesById[id]
  IN IF certificate.status = "Revoked" THEN "Revoked"
     ELSE IF certificate.expiryDate # 0 /\ timestamp > certificate.expiryDate
          THEN "Expired" ELSE "Valid"

_isCertificateValid(id) ==
  /\ id \in certificateIds
  /\ _effectiveCertificateStatus(id) = "Valid"
  /\ isAuthorizedIssuer(certificatesById[id].issuer)

certificateExists(h) == h \in usedHashes

verifyCertificate(h) ==
  LET id == certificateIdByHash[h]
  IN IF id = 0
     THEN [exists |-> FALSE, isValid |-> FALSE, status |-> "Valid",
           issuer |-> ZeroAddress, recipient |-> ZeroAddress]
     ELSE [exists |-> TRUE, isValid |-> _isCertificateValid(id),
           status |-> _effectiveCertificateStatus(id),
           issuer |-> certificatesById[id].issuer,
           recipient |-> certificatesById[id].recipient]

------------------------------------------------------------------------------
(* Issuer management *)

registerIssuer(sender) ==
  /\ ~issuers[sender].registered
  /\ issuers' = [issuers EXCEPT ![sender] =
                  [registered |-> TRUE, status |-> "Active", isVerified |-> FALSE]]
  /\ UNCHANGED <<certificateVars, revocations, tokens, events, timestamp>>

verifyIssuer(sender, a) ==
  /\ sender = Admin
  /\ issuers[a].registered
  /\ issuers[a].status = "Active"
  /\ issuers' = [issuers EXCEPT ![a].isVerified = TRUE]
  /\ UNCHANGED <<certificateVars, revocations, tokens, events, timestamp>>

(* Mutants: suspension keeps the flag; setting Active gives it back.       *)
staysVerified_Suspended(a, newStatus) == issuers[a].isVerified /\ newStatus # "Revoked"
staysVerified_Restored(a, newStatus) == newStatus = "Active"

staysVerified(a, newStatus) ==
  issuers[a].isVerified /\ newStatus \notin {"Suspended", "Revoked"}

updateIssuerStatus(sender, a, newStatus) ==
  /\ sender = Admin
  /\ issuers[a].registered
  /\ issuers' = [issuers EXCEPT ![a] =
                  [registered |-> TRUE, status |-> newStatus,
                   isVerified |-> staysVerified(a, newStatus)]]
  /\ UNCHANGED <<certificateVars, revocations, tokens, events, timestamp>>

------------------------------------------------------------------------------
(* Issuance *)

idOf(i) == nextCertificateId + i - 1
newIds(items) == {idOf(i) : i \in DOMAIN items}
indexIn(items, h) == CHOOSE i \in DOMAIN items : items[i].certificateHash = h

(* Mutant: the arrays are written once, after the loop of a batch.         *)
idsFor_LastOnly(items, a) ==
  {idOf(i) : i \in {j \in {Len(items)} : items[j].recipient = a}}

idsFor(items, a) == {idOf(i) : i \in {j \in DOMAIN items : items[j].recipient = a}}

(* The requires of every issueCertificate call of a transaction, the hash  *)
(* of an item being already used when an earlier item of the batch took it.*)
acceptable(item) ==
  /\ item.recipient \in Receivers
  /\ item.certificateHash \notin usedHashes
  /\ item.expiryDate = 0 \/ item.expiryDate > timestamp
distinctHashes(items) ==
  \A i, j \in DOMAIN items :
    items[i].certificateHash = items[j].certificateHash => i = j

(* Mutants: no check of the recipient, of the sender, of repeated hashes.  *)
issuable_AnyRecipient(sender, items) ==
  /\ isAuthorizedIssuer(sender)
  /\ \A i \in DOMAIN items : items[i].certificateHash \notin usedHashes
  /\ distinctHashes(items)
issuable_AnyIssuer(sender, items) ==
  /\ \A i \in DOMAIN items : acceptable(items[i])
  /\ distinctHashes(items)
issuable_RepeatedHash(sender, items) ==
  /\ isAuthorizedIssuer(sender)
  /\ \A i \in DOMAIN items : acceptable(items[i])

issuable(sender, items) ==
  /\ isAuthorizedIssuer(sender)
  /\ \A i \in DOMAIN items : acceptable(items[i])
  /\ distinctHashes(items)

newCertificate(sender, item) ==
  [certificateHash |-> item.certificateHash, issuer |-> sender,
   recipient |-> item.recipient, issuedDate |-> timestamp,
   expiryDate |-> item.expiryDate, status |-> "Valid"]

(* The writes of the issueCertificate calls of one transaction, in closed  *)
(* form: item i gets the id idOf(i).  _safeMint refuses an existing token. *)
issueAll(sender, items) ==
  /\ issuable(sender, items)
  /\ newIds(items) \cap tokens = {}
  /\ nextCertificateId + Len(items) <= MaxCertificates + 1
  /\ certificatesById' =
       [id \in certificateIds \cup newIds(items) |->
         IF id \in newIds(items)
         THEN newCertificate(sender, items[id - nextCertificateId + 1])
         ELSE certificatesById[id]]
  /\ usedHashes' = usedHashes \cup {items[i].certificateHash : i \in DOMAIN items}
  /\ certificateIdByHash' =
       [h \in Hash |->
         IF \E i \in DOMAIN items : items[i].certificateHash = h
         THEN idOf(indexIn(items, h))
         ELSE certificateIdByHash[h]]
  /\ tokens' = tokens \cup newIds(items)
  /\ issuerCertificates' =
       [issuerCertificates EXCEPT ![sender] = @ \cup newIds(items)]
  /\ recipientCertificates' =
       [a \in Address |-> recipientCertificates[a] \cup idsFor(items, a)]
  /\ recipients' =
       [a \in Address |->
         [registered |-> recipients[a].registered \/ idsFor(items, a) # {},
          certificateIds |-> recipients[a].certificateIds \cup idsFor(items, a)]]
  /\ nextCertificateId' = nextCertificateId + Len(items)
  /\ events' = events \o [i \in 1..Len(items) |->
                 [name |-> "CertificateIssued", certificateId |-> idOf(i)]]
  /\ UNCHANGED <<issuerVars, revocations, timestamp>>

issueCertificate(sender, h, recipient, expiryDate) ==
  issueAll(sender, <<[certificateHash |-> h, recipient |-> recipient,
                      expiryDate |-> expiryDate]>>)

(* A batch has no expiry parameter: every certificate gets 0.              *)
batchIssueCertificates(sender, hashes, to) ==
  /\ Len(hashes) > 0
  /\ issueAll(sender,
       [i \in 1..Len(hashes) |->
         [certificateHash |-> hashes[i], recipient |-> to[i], expiryDate |-> 0]])

------------------------------------------------------------------------------
(* Revocation *)

(* Mutants: anyone may revoke; a certificate may be revoked again.         *)
mayRevoke_Anyone(sender, id) ==
  id \in certificateIds /\ certificatesById[id].status # "Revoked"
mayRevoke_Again(sender, id) ==
  id \in certificateIds /\ sender = certificatesById[id].issuer

mayRevoke(sender, id) ==
  /\ id \in certificateIds
  /\ sender = certificatesById[id].issuer
  /\ certificatesById[id].status # "Revoked"

revokeCertificate(sender, id) ==
  /\ mayRevoke(sender, id)
  /\ certificatesById' = [certificatesById EXCEPT ![id].status = "Revoked"]
  /\ revocations' =
       [r \in DOMAIN revocations \cup {id} |->
         IF r = id THEN [revocationDate |-> timestamp, revokedBy |-> sender]
         ELSE revocations[r]]
  /\ events' = Append(events, [name |-> "CertificateRevoked", certificateId |-> id])
  /\ UNCHANGED <<issuerVars, nextCertificateId, usedHashes, certificateIdByHash,
                 recipients, issuerCertificates, recipientCertificates,
                 tokens, timestamp>>

revokeCertificateByHash(sender, h) ==
  /\ certificateIdByHash[h] # 0
  /\ revokeCertificate(sender, certificateIdByHash[h])

------------------------------------------------------------------------------
mineBlock ==
  /\ timestamp < MaxTime
  /\ timestamp' = timestamp + 1
  /\ UNCHANGED <<issuerVars, certificateVars, revocations, tokens, events>>

Next ==
  \/ \E sender \in Address :
       \/ registerIssuer(sender)
       \/ \E a \in Address : verifyIssuer(sender, a)
       \/ \E a \in Address, newStatus \in IssuerStatus :
            updateIssuerStatus(sender, a, newStatus)
       \/ \E h \in Hash, to \in Address \cup {ZeroAddress}, expiryDate \in Expiry :
            issueCertificate(sender, h, to, expiryDate)
       \/ \E n \in 1..MaxBatch :
            \E hashes \in [1..n -> Hash], to \in [1..n -> Address \cup {ZeroAddress}] :
              batchIssueCertificates(sender, hashes, to)
       \/ \E id \in certificateIds : revokeCertificate(sender, id)
       \/ \E h \in Hash : revokeCertificateByHash(sender, h)
  \/ mineBlock

Spec == Init /\ [][Next]_vars

------------------------------------------------------------------------------
(* Properties *)

(* Every variable holds a value of the type its Solidity declaration gives *)
(* it; a mapping that was never written reads as zero.                     *)
TypeOK ==
  /\ issuers \in [Address -> Issuer]
  /\ nextCertificateId \in Nat \ {0}
  /\ usedHashes \subseteq Hash
  /\ certificateIds \subseteq Nat
  /\ certificatesById \in [certificateIds -> Certificate]
  /\ certificateIdByHash \in [Hash -> Nat]
  /\ recipients \in [Address -> Recipient]
  /\ revocations \in [DOMAIN revocations -> Revocation]
  /\ issuerCertificates \in [Address -> SUBSET Nat]
  /\ recipientCertificates \in [Address -> SUBSET Nat]
  /\ tokens \subseteq Nat
  /\ events \in Seq(Event)
  /\ timestamp \in Nat \ {0}

(* The ids in use are exactly those below the counter, each with its token;*)
(* usedHashes, the hash index and the certificates are three copies of one *)
(* fact and agree.  So no issuance skips or overwrites an id, a hash names *)
(* one certificate and every certificate is found by its hash, also after  *)
(* a batch.                                                                *)
IdsAreDense ==
  /\ certificateIds = 1..(nextCertificateId - 1)
  /\ tokens = certificateIds
HashIndexAgrees ==
  /\ \A h \in Hash :
       /\ certificateExists(h) <=> certificateIdByHash[h] # 0
       /\ certificateExists(h) =>
            /\ certificateIdByHash[h] \in certificateIds
            /\ certificatesById[certificateIdByHash[h]].certificateHash = h
  /\ \A id \in certificateIds :
       certificateIdByHash[certificatesById[id].certificateHash] = id
RegistryAgrees == IdsAreDense /\ HashIndexAgrees

(* A certificate is stored as revoked exactly when it has a revocation     *)
(* record, made by its issuer and not before its issuance; the record's    *)
(* date is never 0, which getRevocation reads as "not revoked".            *)
RevocationsAgree ==
  /\ \A id \in certificateIds :
       certificatesById[id].status = "Revoked" <=> id \in DOMAIN revocations
  /\ \A id \in DOMAIN revocations :
       /\ id \in certificateIds
       /\ revocations[id].revokedBy = certificatesById[id].issuer
       /\ revocations[id].revocationDate \in certificatesById[id].issuedDate..timestamp
       /\ revocations[id].revocationDate # 0

(* The verified flag never survives the loss of Active status, whatever    *)
(* the order of verifyIssuer and updateIssuerStatus: isVerified alone      *)
(* already means authorized.                                               *)
VerifiedIssuersAreAuthorized ==
  \A a \in Address : issuers[a].isVerified => isAuthorizedIssuer(a)

(* The per-issuer and per-recipient arrays and the recipient profile list  *)
(* exactly the certificates that name the account, also after a batch.     *)
ListsAgree ==
  \A a \in Address :
    /\ issuerCertificates[a] = {id \in certificateIds : certificatesById[id].issuer = a}
    /\ recipientCertificates[a] = {id \in certificateIds : certificatesById[id].recipient = a}
    /\ recipients[a].certificateIds = recipientCertificates[a]
    /\ recipients[a].registered <=> recipientCertificates[a] # {}

(* A reader of the log alone sees each certificate issued once, and its    *)
(* revocation once, after its issuance, exactly when it is revoked.        *)
logged(name, id) == {k \in DOMAIN events : events[k] = [name |-> name, certificateId |-> id]}
LogTellsTheState ==
  /\ \A k \in DOMAIN events : events[k].certificateId \in certificateIds
  /\ \A id \in certificateIds :
       /\ \E k \in DOMAIN events : logged("CertificateIssued", id) = {k}
       /\ IF certificatesById[id].status = "Revoked"
          THEN \E k \in DOMAIN events :
                 /\ logged("CertificateRevoked", id) = {k}
                 /\ \A l \in logged("CertificateIssued", id) : l < k
          ELSE logged("CertificateRevoked", id) = {}

statusRank(status) == CASE status = "Valid" -> 1 [] status = "Expired" -> 2 [] status = "Revoked" -> 3

(* The effective status of a certificate only moves forward: an expired    *)
(* one is never valid again, a revoked one is revoked for good.            *)
StatusNeverGoesBack ==
  [][\A id \in certificateIds :
       statusRank(_effectiveCertificateStatus(id)) <= statusRank(_effectiveCertificateStatus(id)')]_vars

(* A certificate that verifies as invalid becomes valid again only when    *)
(* the admin re-verifies its issuer; setting the issuer back to Active     *)
(* does not do it, nor does any act of the issuer.                         *)
ValidAgainOnlyByVerification ==
  [][\A id \in certificateIds :
       (~_isCertificateValid(id) /\ _isCertificateValid(id)')
         => verifyIssuer(Admin, certificatesById[id].issuer)]_vars

(* The contract implements the abstract ledger.                            *)
phaseOf(h) ==
  IF ~certificateExists(h) THEN "absent"
  ELSE IF certificatesById[certificateIdByHash[h]].status = "Revoked"
       THEN "revoked" ELSE "anchored"

Ledger == INSTANCE CertificateLedger WITH
  authorized <- {a \in Address : isAuthorizedIssuer(a)},
  phase      <- [h \in Hash |-> phaseOf(h)],
  anchoredBy <- [h \in Hash |-> verifyCertificate(h).issuer],
  revokedBy  <- [h \in Hash |->
                  IF phaseOf(h) = "revoked"
                  THEN revocations[certificateIdByHash[h]].revokedBy ELSE ZeroAddress]

(* Every transaction is a step of CertificateLedger or invisible to it.    *)
ImplementsLedger == Ledger!LedgerSpec
==============================================================================
