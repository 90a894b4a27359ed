--------------------- MODULE AcademicCertificationProofs ---------------------
(***************************************************************************)
(* Proofs about AcademicCertification, for any accounts, hashes, expiry    *)
(* dates and bounds.                                                       *)
(***************************************************************************)
EXTENDS AcademicCertification, SequenceTheorems, TLAPS

(***************************************************************************)
(* Type correctness.  The two ways of issuing differ only in the items     *)
(* they hand to issueAll.                                                  *)
(***************************************************************************)

(* issueCertificate hands issueAll a sequence of one item.                 *)
LEMMA SingleItem ==
  ASSUME ContractAssumption, NEW h \in Hash, NEW to \in Address \cup {ZeroAddress},
         NEW expiryDate \in Expiry
  PROVE  <<[certificateHash |-> h, recipient |-> to, expiryDate |-> expiryDate]>> \in Seq(Item)
  BY DEF ContractAssumption, Item

(* batchIssueCertificates hands it one item for each of its hashes.        *)
LEMMA BatchItems ==
  ASSUME NEW n \in Nat, NEW hashes \in [1..n -> Hash],
         NEW to \in [1..n -> Address \cup {ZeroAddress}]
  PROVE  /\ Len(hashes) = n
         /\ [i \in 1..Len(hashes) |->
              [certificateHash |-> hashes[i], recipient |-> to[i], expiryDate |-> 0]]
            \in Seq(Item)
<1>1. Len(hashes) = n
  BY LenProperties
<1>2. \A i \in 1..n :
        [certificateHash |-> hashes[i], recipient |-> to[i], expiryDate |-> 0] \in Item
  BY DEF Item
<1> QED
  BY <1>1, <1>2

(* The items that pass the requires name real accounts.                    *)
LEMMA IssuableItems ==
  ASSUME ContractAssumption, NEW sender, NEW items \in Seq(Item), issuable(sender, items)
  PROVE  \A i \in DOMAIN items :
           /\ items[i] \in Item
           /\ items[i].certificateHash \in Hash
           /\ items[i].recipient \in Address
           /\ items[i].expiryDate \in Nat
<1>1. \A i \in DOMAIN items : items[i] \in Item
  OBVIOUS
<1>2. \A i \in DOMAIN items : items[i].recipient \in Receivers
  BY DEF issuable, acceptable
<1> QED
  BY <1>1, <1>2 DEF ContractAssumption, Item

(* The deployed contract is well typed: no mapping has been written yet.   *)
LEMMA InitType == ContractAssumption /\ Init => TypeOK
  BY DEF ContractAssumption, Init, TypeOK, Issuer, IssuerStatus, Recipient, certificateIds

(* An issuance, single or batch, keeps every type.                         *)
LEMMA IssueType ==
  ASSUME ContractAssumption, TypeOK, NEW sender \in Address, NEW items \in Seq(Item),
         issueAll(sender, items)
  PROVE  TypeOK'
<1> DEFINE ids == newIds(items)
<1>1. issuable(sender, items)
  BY DEF issueAll
<1>2. \A i \in DOMAIN items :
        /\ items[i] \in Item
        /\ items[i].certificateHash \in Hash
        /\ items[i].recipient \in Address
        /\ items[i].expiryDate \in Nat
  BY <1>1, IssuableItems
<1>3. Len(items) \in Nat /\ DOMAIN items = 1..Len(items) /\ nextCertificateId \in Nat \ {0}
  BY DEF TypeOK
<1>4. \A i \in DOMAIN items : idOf(i) \in Nat
  BY <1>3 DEF idOf
<1>5. ids \subseteq Nat /\ \A a : idsFor(items, a) \subseteq Nat
  BY <1>4 DEF newIds, idsFor
<1>6. \A id \in ids : id - nextCertificateId + 1 \in DOMAIN items
  BY <1>3 DEF newIds, idOf
<1>7. certificateIds' \subseteq Nat /\ certificatesById' \in [certificateIds' -> Certificate]
  <2>1. \A id \in ids : newCertificate(sender, items[id - nextCertificateId + 1]) \in Certificate
    BY <1>2, <1>6 DEF newCertificate, Certificate, CertificateStatus, TypeOK
  <2>2. \A id \in certificateIds : certificatesById[id] \in Certificate
    BY DEF TypeOK
  <2> QED
    BY <1>5, <2>1, <2>2 DEF issueAll, certificateIds, TypeOK
<1>8. usedHashes' \subseteq Hash
  BY <1>2 DEF issueAll, TypeOK
<1>9. certificateIdByHash' \in [Hash -> Nat]
  <2>1. \A h \in Hash :
          (\E i \in DOMAIN items : items[i].certificateHash = h)
            => indexIn(items, h) \in DOMAIN items
    BY DEF indexIn
  <2> QED
    BY <1>4, <2>1 DEF issueAll, TypeOK
<1>10. issuerCertificates' \in [Address -> SUBSET Nat]
  BY <1>5 DEF issueAll, TypeOK
<1>11. recipientCertificates' \in [Address -> SUBSET Nat]
  BY <1>5 DEF issueAll, TypeOK
<1>12. recipients' \in [Address -> Recipient]
  <2>1. \A a \in Address :
          /\ (recipients[a].registered \/ idsFor(items, a) # {}) \in BOOLEAN
          /\ recipients[a].certificateIds \cup idsFor(items, a) \in SUBSET Nat
    BY <1>5 DEF TypeOK, Recipient
  <2> QED
    BY <2>1 DEF issueAll, Recipient
<1>13. tokens' \subseteq Nat /\ nextCertificateId' \in Nat \ {0}
  BY <1>3, <1>5 DEF issueAll, TypeOK
<1>14. events' \in Seq(Event)
  <2>1. \A i \in 1..Len(items) :
          [name |-> "CertificateIssued", certificateId |-> idOf(i)] \in Event
    BY <1>3, <1>4 DEF Event
  <2>2. [i \in 1..Len(items) |->
          [name |-> "CertificateIssued", certificateId |-> idOf(i)]] \in Seq(Event)
    BY <1>3, <2>1
  <2> QED
    BY <2>2, ConcatProperties DEF issueAll, TypeOK
<1>15. /\ issuers' \in [Address -> Issuer]
       /\ revocations' \in [DOMAIN revocations' -> Revocation]
       /\ timestamp' \in Nat \ {0}
  BY DEF issueAll, issuerVars, TypeOK
<1> QED
  BY <1>7, <1>8, <1>9, <1>10, <1>11, <1>12, <1>13, <1>14, <1>15 DEF TypeOK

(* So does a revocation, by id or by hash.                                 *)
LEMMA RevokeType ==
  ASSUME TypeOK, NEW sender \in Address, NEW id, revokeCertificate(sender, id)
  PROVE  TypeOK'
<1>1. id \in certificateIds /\ id \in DOMAIN certificatesById
  BY DEF revokeCertificate, mayRevoke, certificateIds
<1>2. certificateIds' = certificateIds /\ certificatesById' \in [certificateIds' -> Certificate]
  BY <1>1 DEF revokeCertificate, TypeOK, certificateIds, Certificate, CertificateStatus
<1>3. revocations' \in [DOMAIN revocations' -> Revocation]
  BY DEF revokeCertificate, TypeOK, Revocation
<1>4. events' \in Seq(Event)
  BY <1>1 DEF revokeCertificate, TypeOK, Event
<1> QED
  BY <1>2, <1>3, <1>4 DEF revokeCertificate, TypeOK, issuerVars

(* One step of any kind keeps every type.                                  *)
LEMMA StepType == ContractAssumption /\ TypeOK /\ [Next]_vars => TypeOK'
<1> SUFFICES ASSUME ContractAssumption, TypeOK, [Next]_vars PROVE TypeOK'
  OBVIOUS
<1>1. ASSUME NEW sender \in Address, registerIssuer(sender) PROVE TypeOK'
  BY <1>1 DEF registerIssuer, TypeOK, Issuer, IssuerStatus, certificateVars, certificateIds
<1>2. ASSUME NEW sender \in Address, NEW a \in Address, verifyIssuer(sender, a) PROVE TypeOK'
  <2>1. issuers' \in [Address -> Issuer]
    BY <1>2 DEF verifyIssuer, TypeOK, Issuer
  <2> QED
    BY <1>2, <2>1 DEF verifyIssuer, TypeOK, certificateVars, certificateIds
<1>3. ASSUME NEW sender \in Address, NEW a \in Address, NEW newStatus \in IssuerStatus,
             updateIssuerStatus(sender, a, newStatus)
      PROVE  TypeOK'
  <2>1. staysVerified(a, newStatus) \in BOOLEAN
    BY DEF staysVerified
  <2> QED
    BY <1>3, <2>1 DEF updateIssuerStatus, TypeOK, Issuer, certificateVars, certificateIds
<1>4. ASSUME NEW sender \in Address, NEW h \in Hash, NEW to \in Address \cup {ZeroAddress},
             NEW expiryDate \in Expiry, issueCertificate(sender, h, to, expiryDate)
      PROVE  TypeOK'
  BY <1>4, SingleItem, IssueType DEF issueCertificate
<1>5. ASSUME NEW sender \in Address, NEW n \in 1..MaxBatch, NEW hashes \in [1..n -> Hash],
             NEW to \in [1..n -> Address \cup {ZeroAddress}],
             batchIssueCertificates(sender, hashes, to)
      PROVE  TypeOK'
  <2> DEFINE items == [i \in 1..Len(hashes) |->
                 [certificateHash |-> hashes[i], recipient |-> to[i], expiryDate |-> 0]]
  <2>1. items \in Seq(Item)
    BY BatchItems
  <2>2. issueAll(sender, items)
    BY <1>5 DEF batchIssueCertificates
  <2> HIDE DEF items
  <2> QED
    BY <2>1, <2>2, IssueType
<1>6. ASSUME NEW sender \in Address, NEW id, revokeCertificate(sender, id) PROVE TypeOK'
  BY <1>6, RevokeType
<1>7. ASSUME NEW sender \in Address, NEW h \in Hash, revokeCertificateByHash(sender, h)
      PROVE  TypeOK'
  BY <1>7, RevokeType DEF revokeCertificateByHash
<1>8. CASE mineBlock
  BY <1>8 DEF mineBlock, TypeOK, issuerVars, certificateVars, certificateIds
<1>9. CASE UNCHANGED vars
  BY <1>9 DEF vars, TypeOK, issuerVars, certificateVars, certificateIds
<1> QED
  BY <1>1, <1>2, <1>3, <1>4, <1>5, <1>6, <1>7, <1>8, <1>9 DEF Next

(* Every reachable state of the contract is well typed.                    *)
THEOREM TypeCorrect == Spec => []TypeOK
<1>1. Init => TypeOK
  BY ContractAssumption, InitType
<1>2. TypeOK /\ [Next]_vars => TypeOK'
  BY ContractAssumption, StepType
<1> QED
  BY <1>1, <1>2, PTL DEF Spec

(***************************************************************************)
(* The inductive invariant.  Each part needs others in the state before:   *)
(* the hash index is kept by an issuance because new ids are not in use    *)
(* (IdsAreDense), a certificate of an unused hash has no revocation        *)
(* because revocations name existing ids, and a revocation is dated after  *)
(* the issuance because no issuance lies in the future.                    *)
(***************************************************************************)
NotIssuedInTheFuture ==
  \A id \in certificateIds : certificatesById[id].issuedDate <= timestamp

IInv ==
  /\ TypeOK
  /\ RegistryAgrees
  /\ NotIssuedInTheFuture
  /\ RevocationsAgree
  /\ VerifiedIssuersAreAuthorized
  /\ ListsAgree

(* It satisfies the invariant: there are no certificates.                  *)
LEMMA InitInv == ContractAssumption /\ Init => IInv
<1> SUFFICES ASSUME ContractAssumption, Init PROVE IInv
  OBVIOUS
<1>1. TypeOK
  BY InitType
<1>2. certificateIds = {}
  BY DEF Init, certificateIds
<1>3. RegistryAgrees
  BY <1>2 DEF Init, RegistryAgrees, IdsAreDense, HashIndexAgrees, certificateExists
<1> QED
  BY <1>1, <1>2, <1>3
     DEF Init, IInv, NotIssuedInTheFuture, RevocationsAgree, VerifiedIssuersAreAuthorized,
         ListsAgree

(* The ids of an issuance are the next ones, in the order of the items,    *)
(* and none of them is in use.                                             *)
LEMMA NewIds ==
  ASSUME TypeOK, IdsAreDense, NEW items \in Seq(Item)
  PROVE  /\ newIds(items) = nextCertificateId..(nextCertificateId + Len(items) - 1)
         /\ newIds(items) \cap certificateIds = {}
         /\ certificateIds \cup newIds(items) = 1..(nextCertificateId + Len(items) - 1)
         /\ \A i \in DOMAIN items : idOf(i) - nextCertificateId + 1 = i
         /\ \A id \in newIds(items) :
              /\ id - nextCertificateId + 1 \in DOMAIN items
              /\ idOf(id - nextCertificateId + 1) = id
<1>1. Len(items) \in Nat /\ DOMAIN items = 1..Len(items) /\ nextCertificateId \in Nat \ {0}
  BY DEF TypeOK
<1>2. \A i \in DOMAIN items : idOf(i) \in Nat /\ idOf(i) - nextCertificateId + 1 = i
  BY <1>1 DEF idOf
<1>3. ASSUME NEW id \in nextCertificateId..(nextCertificateId + Len(items) - 1)
      PROVE  id \in newIds(items)
  <2>1. id - nextCertificateId + 1 \in DOMAIN items /\ idOf(id - nextCertificateId + 1) = id
    BY <1>1, <1>3 DEF idOf
  <2> QED
    BY <2>1 DEF newIds
<1>4. \A id \in newIds(items) :
        /\ id \in nextCertificateId..(nextCertificateId + Len(items) - 1)
        /\ id - nextCertificateId + 1 \in DOMAIN items
        /\ idOf(id - nextCertificateId + 1) = id
  BY <1>1 DEF newIds, idOf
<1>5. newIds(items) = nextCertificateId..(nextCertificateId + Len(items) - 1)
  BY <1>3, <1>4
<1>6. certificateIds = 1..(nextCertificateId - 1)
  BY DEF IdsAreDense
<1> QED
  BY <1>1, <1>2, <1>4, <1>5, <1>6

(* What an issuance writes for each certificate, and what it leaves.       *)
LEMMA IssueEffect ==
  ASSUME ContractAssumption, TypeOK, IdsAreDense, NEW sender \in Address,
         NEW items \in Seq(Item), issueAll(sender, items)
  PROVE  /\ certificateIds' = certificateIds \cup newIds(items)
         /\ \A id \in certificateIds : certificatesById'[id] = certificatesById[id]
         /\ \A id \in newIds(items) :
              certificatesById'[id] = newCertificate(sender, items[id - nextCertificateId + 1])
<1>1. newIds(items) \cap certificateIds = {}
  BY NewIds
<1> QED
  BY <1>1 DEF issueAll, certificateIds

(* An issuance keeps ids, tokens, hash index and certificates in agreement.*)
LEMMA IssueRegistry ==
  ASSUME ContractAssumption, TypeOK, RegistryAgrees, NEW sender \in Address,
         NEW items \in Seq(Item), issueAll(sender, items)
  PROVE  RegistryAgrees'
<1> DEFINE ids == newIds(items)
           inBatch(h) == \E i \in DOMAIN items : items[i].certificateHash = h
<1>1. IdsAreDense /\ HashIndexAgrees /\ issuable(sender, items)
  BY DEF RegistryAgrees, issueAll
<1>2. Len(items) \in Nat /\ DOMAIN items = 1..Len(items) /\ nextCertificateId \in Nat \ {0}
  BY DEF TypeOK
<1>3. IdsAreDense'
  BY <1>1, <1>2, NewIds, IssueEffect DEF issueAll, IdsAreDense, certificateIds
<1>4. \A i \in DOMAIN items :
        /\ items[i].certificateHash \in Hash \ usedHashes
        /\ idOf(i) \in ids
        /\ idOf(i) # 0
        /\ certificatesById'[idOf(i)].certificateHash = items[i].certificateHash
  <2> SUFFICES ASSUME NEW i \in DOMAIN items
               PROVE  /\ items[i].certificateHash \in Hash \ usedHashes
                      /\ idOf(i) \in ids
                      /\ idOf(i) # 0
                      /\ certificatesById'[idOf(i)].certificateHash = items[i].certificateHash
    OBVIOUS
  <2>1. items[i].certificateHash \in Hash \ usedHashes
    BY <1>1, IssuableItems DEF issuable, acceptable
  <2>2. idOf(i) \in ids /\ idOf(i) # 0
    BY <1>2 DEF newIds, idOf
  <2>3. certificatesById'[idOf(i)] = newCertificate(sender, items[i])
    BY <1>1, <2>2, NewIds, IssueEffect
  <2> QED
    BY <2>1, <2>2, <2>3 DEF newCertificate
<1>5. \A i \in DOMAIN items : certificateIdByHash'[items[i].certificateHash] = idOf(i)
  <2> SUFFICES ASSUME NEW i \in DOMAIN items
               PROVE  certificateIdByHash'[items[i].certificateHash] = idOf(i)
    OBVIOUS
  <2>1. indexIn(items, items[i].certificateHash) = i
    BY <1>1 DEF indexIn, issuable, distinctHashes
  <2> QED
    BY <1>4, <2>1 DEF issueAll
<1>6. \A h \in Hash : ~inBatch(h) => certificateIdByHash'[h] = certificateIdByHash[h]
  BY DEF issueAll
<1>7. \A h \in Hash : h \in usedHashes' <=> h \in usedHashes \/ inBatch(h)
  BY DEF issueAll
<1>8. ASSUME NEW h \in Hash
      PROVE  /\ certificateExists(h)' <=> certificateIdByHash'[h] # 0
             /\ certificateExists(h)' =>
                  /\ certificateIdByHash'[h] \in certificateIds'
                  /\ certificatesById'[certificateIdByHash'[h]].certificateHash = h
  <2>1. CASE inBatch(h)
    <3>1. PICK i \in DOMAIN items : items[i].certificateHash = h
      BY <2>1
    <3> QED
      BY <1>1, <1>4, <1>5, <1>7, <2>1, <3>1, IssueEffect DEF certificateExists
  <2>2. CASE ~inBatch(h)
    BY <1>1, <1>6, <1>7, <2>2, IssueEffect DEF certificateExists, HashIndexAgrees
  <2> QED
    BY <2>1, <2>2
<1>9. ASSUME NEW id \in certificateIds'
      PROVE  certificateIdByHash'[certificatesById'[id].certificateHash] = id
  <2>1. CASE id \in ids
    <3>1. PICK i \in DOMAIN items : id = idOf(i)
      BY <2>1 DEF newIds
    <3> QED
      BY <1>4, <1>5, <3>1
  <2>2. CASE id \notin ids
    <3>1. id \in certificateIds /\ certificatesById'[id] = certificatesById[id]
      BY <1>1, <2>2, IssueEffect
    <3>2. /\ certificatesById[id].certificateHash \in Hash
          /\ certificateIdByHash[certificatesById[id].certificateHash] = id
          /\ id # 0
      BY <1>1, <1>2, <3>1 DEF TypeOK, Certificate, HashIndexAgrees, IdsAreDense
    <3>3. ~inBatch(certificatesById[id].certificateHash)
      BY <1>1, <1>4, <3>2 DEF HashIndexAgrees, certificateExists
    <3> QED
      BY <1>6, <3>1, <3>2, <3>3
  <2> QED
    BY <2>1, <2>2
<1> QED
  BY <1>3, <1>8, <1>9 DEF RegistryAgrees, HashIndexAgrees

(* New certificates are neither revoked nor dated in the future.           *)
LEMMA IssueRevocations ==
  ASSUME ContractAssumption, TypeOK, RegistryAgrees, NotIssuedInTheFuture, RevocationsAgree,
         NEW sender \in Address, NEW items \in Seq(Item), issueAll(sender, items)
  PROVE  RevocationsAgree' /\ NotIssuedInTheFuture'
<1>1. IdsAreDense
  BY DEF RegistryAgrees
<1>2. /\ revocations' = revocations
      /\ timestamp' = timestamp
      /\ timestamp \in Nat
  BY DEF issueAll, TypeOK
<1>3. \A id \in newIds(items) :
        /\ certificatesById'[id].status = "Valid"
        /\ certificatesById'[id].issuedDate = timestamp
        /\ id \notin DOMAIN revocations
  <2>1. \A id \in newIds(items) :
          certificatesById'[id] = newCertificate(sender, items[id - nextCertificateId + 1])
    BY <1>1, IssueEffect
  <2>2. \A item : /\ newCertificate(sender, item).status = "Valid"
                  /\ newCertificate(sender, item).issuedDate = timestamp
    BY DEF newCertificate
  <2>3. \A id \in newIds(items) : id \notin DOMAIN revocations
    BY <1>1, NewIds DEF RevocationsAgree
  <2> QED
    BY <2>1, <2>2, <2>3
<1> QED
  BY <1>1, <1>2, <1>3, IssueEffect DEF RevocationsAgree, NotIssuedInTheFuture

(* The arrays get exactly the new ids of each account.                     *)
LEMMA IssueLists ==
  ASSUME ContractAssumption, TypeOK, RegistryAgrees, ListsAgree,
         NEW sender \in Address, NEW items \in Seq(Item), issueAll(sender, items)
  PROVE  ListsAgree'
<1>1. IdsAreDense
  BY DEF RegistryAgrees
<1>2. \A id \in newIds(items) :
        /\ certificatesById'[id].issuer = sender
        /\ certificatesById'[id].recipient = items[id - nextCertificateId + 1].recipient
  <2>1. \A id \in newIds(items) :
          certificatesById'[id] = newCertificate(sender, items[id - nextCertificateId + 1])
    BY <1>1, IssueEffect
  <2>2. \A item : /\ newCertificate(sender, item).issuer = sender
                  /\ newCertificate(sender, item).recipient = item.recipient
    BY DEF newCertificate
  <2> QED
    BY <2>1, <2>2
<1>3. \A a : idsFor(items, a) =
             {id \in newIds(items) : items[id - nextCertificateId + 1].recipient = a}
  BY <1>1, NewIds DEF idsFor, newIds
<1> SUFFICES ASSUME NEW a \in Address
             PROVE  /\ issuerCertificates'[a] =
                         {id \in certificateIds' : certificatesById'[id].issuer = a}
                    /\ recipientCertificates'[a] =
                         {id \in certificateIds' : certificatesById'[id].recipient = a}
                    /\ recipients'[a].certificateIds = recipientCertificates'[a]
                    /\ recipients'[a].registered <=> recipientCertificates'[a] # {}
  BY DEF ListsAgree
<1>4. issuerCertificates'[a] =
        IF a = sender THEN issuerCertificates[a] \cup newIds(items) ELSE issuerCertificates[a]
  BY DEF issueAll, TypeOK
<1>5. recipientCertificates'[a] = recipientCertificates[a] \cup idsFor(items, a)
  BY DEF issueAll
<1>6. issuerCertificates'[a] = {id \in certificateIds' : certificatesById'[id].issuer = a}
  BY <1>1, <1>2, <1>4, IssueEffect DEF ListsAgree
<1>7. recipientCertificates'[a] = {id \in certificateIds' : certificatesById'[id].recipient = a}
  BY <1>1, <1>2, <1>3, <1>5, IssueEffect DEF ListsAgree
<1>8. /\ recipients'[a].certificateIds = recipientCertificates'[a]
      /\ recipients'[a].registered <=> recipientCertificates'[a] # {}
  BY <1>5 DEF issueAll, ListsAgree
<1> QED
  BY <1>6, <1>7, <1>8

(* A revocation changes the status of one certificate and nothing else     *)
(* about any.                                                              *)
LEMMA RevokeEffect ==
  ASSUME TypeOK, NEW sender, NEW id, revokeCertificate(sender, id)
  PROVE  /\ id \in certificateIds
         /\ certificateIds' = certificateIds
         /\ certificatesById[id].issuer = sender
         /\ \A c \in certificateIds :
              /\ certificatesById'[c].certificateHash = certificatesById[c].certificateHash
              /\ certificatesById'[c].issuer = certificatesById[c].issuer
              /\ certificatesById'[c].recipient = certificatesById[c].recipient
              /\ certificatesById'[c].issuedDate = certificatesById[c].issuedDate
              /\ certificatesById'[c].expiryDate = certificatesById[c].expiryDate
              /\ certificatesById'[c].status =
                   IF c = id THEN "Revoked" ELSE certificatesById[c].status
<1>1. id \in certificateIds /\ certificatesById[id].issuer = sender
  BY DEF revokeCertificate, mayRevoke
<1>2. certificatesById' = [certificatesById EXCEPT ![id].status = "Revoked"]
  BY DEF revokeCertificate
<1>3. \A c \in certificateIds : certificatesById[c] \in Certificate
  BY DEF TypeOK
<1>4. certificateIds' = certificateIds
  BY <1>2 DEF certificateIds
<1>5. \A c \in certificateIds :
        certificatesById'[c] =
          IF c = id THEN [certificatesById[c] EXCEPT !.status = "Revoked"]
          ELSE certificatesById[c]
  BY <1>2 DEF certificateIds
<1> QED
  BY <1>1, <1>3, <1>4, <1>5 DEF Certificate

(* A revocation keeps the invariant.                                       *)
LEMMA RevokeInv ==
  ASSUME IInv, NEW sender \in Address, NEW id, revokeCertificate(sender, id)
  PROVE  IInv'
<1>1. TypeOK
  BY DEF IInv
<1>2. TypeOK'
  BY <1>1, RevokeType
<1>3. /\ certificateIds' = certificateIds
      /\ \A c \in certificateIds :
           /\ certificatesById'[c].certificateHash = certificatesById[c].certificateHash
           /\ certificatesById'[c].issuer = certificatesById[c].issuer
           /\ certificatesById'[c].recipient = certificatesById[c].recipient
           /\ certificatesById'[c].issuedDate = certificatesById[c].issuedDate
  BY <1>1, RevokeEffect
<1>4. /\ UNCHANGED <<nextCertificateId, usedHashes, certificateIdByHash, recipients>>
       /\ UNCHANGED <<issuerCertificates, recipientCertificates, tokens, timestamp>>
  BY DEF revokeCertificate
<1>5. RegistryAgrees'
  <2>1. IdsAreDense /\ HashIndexAgrees
    BY DEF IInv, RegistryAgrees
  <2>2. IdsAreDense'
    BY <1>3, <1>4, <2>1 DEF IdsAreDense
  <2>3. HashIndexAgrees'
    BY <1>3, <1>4, <2>1 DEF HashIndexAgrees, certificateExists
  <2> QED
    BY <2>2, <2>3 DEF RegistryAgrees
<1>6. NotIssuedInTheFuture'
  <2>1. NotIssuedInTheFuture
    BY DEF IInv
  <2> QED
    BY <1>3, <1>4, <2>1 DEF NotIssuedInTheFuture
<1>7. RevocationsAgree'
  <2>1. /\ timestamp \in Nat \ {0}
        /\ certificatesById[id].issuedDate \in Nat
        /\ certificatesById[id].issuedDate <= timestamp
    BY <1>1, RevokeEffect DEF IInv, NotIssuedInTheFuture, TypeOK, Certificate
  <2>2. /\ DOMAIN revocations' = DOMAIN revocations \cup {id}
        /\ revocations'[id] = [revocationDate |-> timestamp, revokedBy |-> sender]
        /\ \A r \in DOMAIN revocations : r # id => revocations'[r] = revocations[r]
        /\ timestamp' = timestamp
    BY DEF revokeCertificate
  <2>3. \A c \in certificateIds' :
          certificatesById'[c].status = "Revoked" <=> c \in DOMAIN revocations'
    BY <1>1, <2>2, RevokeEffect DEF IInv, RevocationsAgree
  <2>4. ASSUME NEW r \in DOMAIN revocations'
        PROVE  /\ r \in certificateIds'
               /\ revocations'[r].revokedBy = certificatesById'[r].issuer
               /\ revocations'[r].revocationDate
                    \in certificatesById'[r].issuedDate..timestamp'
               /\ revocations'[r].revocationDate # 0
    <3>1. CASE r = id
      BY <1>1, <2>1, <2>2, <3>1, RevokeEffect
    <3>2. CASE r # id
      BY <1>1, <2>2, <3>2, RevokeEffect DEF IInv, RevocationsAgree
    <3> QED
      BY <3>1, <3>2
  <2> QED
    BY <2>3, <2>4 DEF RevocationsAgree
<1>8. VerifiedIssuersAreAuthorized'
  BY DEF IInv, VerifiedIssuersAreAuthorized, isAuthorizedIssuer, revokeCertificate, issuerVars
<1>9. ListsAgree'
  <2>1. ListsAgree
    BY DEF IInv
  <2> QED
    BY <1>3, <1>4, <2>1 DEF ListsAgree
<1> QED
  BY <1>2, <1>5, <1>6, <1>7, <1>8, <1>9 DEF IInv

(* So does an issuance.                                                    *)
LEMMA IssueInv ==
  ASSUME ContractAssumption, IInv, NEW sender \in Address, NEW items \in Seq(Item),
         issueAll(sender, items)
  PROVE  IInv'
<1>1. VerifiedIssuersAreAuthorized'
  BY DEF IInv, VerifiedIssuersAreAuthorized, isAuthorizedIssuer, issueAll, issuerVars
<1> QED
  BY <1>1, IssueType, IssueRegistry, IssueRevocations, IssueLists DEF IInv

(* What speaks of the certificates only survives a step that touches none. *)
LEMMA UntouchedCertificates ==
  ASSUME TypeOK, RegistryAgrees, NotIssuedInTheFuture, RevocationsAgree, ListsAgree,
         UNCHANGED <<certificateVars, revocations, tokens>>,
         timestamp' \in {timestamp, timestamp + 1}
  PROVE  RegistryAgrees' /\ NotIssuedInTheFuture' /\ RevocationsAgree' /\ ListsAgree'
<1>1. /\ certificateIds' = certificateIds
      /\ timestamp \in Nat
      /\ \A id \in certificateIds : certificatesById[id].issuedDate \in Nat
  BY DEF certificateVars, certificateIds, TypeOK, Certificate
<1>2. RegistryAgrees'
  BY <1>1 DEF certificateVars, RegistryAgrees, IdsAreDense, HashIndexAgrees, certificateExists
<1>3. NotIssuedInTheFuture'
  BY <1>1 DEF certificateVars, NotIssuedInTheFuture
<1>4. RevocationsAgree'
  BY <1>1 DEF certificateVars, RevocationsAgree
<1>5. ListsAgree'
  BY <1>1 DEF certificateVars, ListsAgree
<1> QED
  BY <1>2, <1>3, <1>4, <1>5

(* Every step keeps the invariant.                                         *)
LEMMA StepInv == ContractAssumption /\ IInv /\ [Next]_vars => IInv'
<1> SUFFICES ASSUME ContractAssumption, IInv, [Next]_vars PROVE IInv'
  OBVIOUS
<1>1. TypeOK' /\ TypeOK
  BY StepType DEF IInv
<1>2. ASSUME NEW sender \in Address, registerIssuer(sender) PROVE IInv'
  <2>1. VerifiedIssuersAreAuthorized'
    BY <1>1, <1>2
       DEF IInv, TypeOK, VerifiedIssuersAreAuthorized, isAuthorizedIssuer, registerIssuer
  <2> QED
    BY <1>1, <1>2, <2>1, UntouchedCertificates DEF IInv, registerIssuer
<1>3. ASSUME NEW sender \in Address, NEW a \in Address, verifyIssuer(sender, a) PROVE IInv'
  <2>1. \A b \in Address :
          issuers'[b] = IF b = a THEN [issuers[b] EXCEPT !.isVerified = TRUE] ELSE issuers[b]
    BY <1>1, <1>3 DEF verifyIssuer, TypeOK
  <2>2. VerifiedIssuersAreAuthorized'
    BY <1>1, <1>3, <2>1
       DEF IInv, TypeOK, Issuer, VerifiedIssuersAreAuthorized, isAuthorizedIssuer, verifyIssuer
  <2> QED
    BY <1>1, <1>3, <2>2, UntouchedCertificates DEF IInv, verifyIssuer
<1>4. ASSUME NEW sender \in Address, NEW a \in Address, NEW newStatus \in IssuerStatus,
             updateIssuerStatus(sender, a, newStatus)
      PROVE  IInv'
  <2>1. staysVerified(a, newStatus) => newStatus = "Active"
    BY DEF staysVerified, IssuerStatus
  <2>2. VerifiedIssuersAreAuthorized'
    BY <1>1, <1>4, <2>1
       DEF IInv, TypeOK, VerifiedIssuersAreAuthorized, isAuthorizedIssuer, updateIssuerStatus
  <2> QED
    BY <1>1, <1>4, <2>2, UntouchedCertificates DEF IInv, updateIssuerStatus
<1>5. ASSUME NEW sender \in Address, NEW h \in Hash, NEW to \in Address \cup {ZeroAddress},
             NEW expiryDate \in Expiry, issueCertificate(sender, h, to, expiryDate)
      PROVE  IInv'
  BY <1>5, SingleItem, IssueInv DEF issueCertificate
<1>6. ASSUME NEW sender \in Address, NEW n \in 1..MaxBatch, NEW hashes \in [1..n -> Hash],
             NEW to \in [1..n -> Address \cup {ZeroAddress}],
             batchIssueCertificates(sender, hashes, to)
      PROVE  IInv'
  <2> DEFINE items == [i \in 1..Len(hashes) |->
                 [certificateHash |-> hashes[i], recipient |-> to[i], expiryDate |-> 0]]
  <2>1. items \in Seq(Item)
    BY BatchItems
  <2>2. issueAll(sender, items)
    BY <1>6 DEF batchIssueCertificates
  <2> HIDE DEF items
  <2> QED
    BY <2>1, <2>2, IssueInv
<1>7. ASSUME NEW sender \in Address, NEW id, revokeCertificate(sender, id) PROVE IInv'
  BY <1>7, RevokeInv
<1>8. ASSUME NEW sender \in Address, NEW h \in Hash, revokeCertificateByHash(sender, h)
      PROVE  IInv'
  BY <1>8, RevokeInv DEF revokeCertificateByHash
<1>9. CASE mineBlock
  <2>1. VerifiedIssuersAreAuthorized'
    BY <1>9 DEF IInv, VerifiedIssuersAreAuthorized, isAuthorizedIssuer, mineBlock, issuerVars
  <2> QED
    BY <1>1, <1>9, <2>1, UntouchedCertificates DEF IInv, mineBlock
<1>10. CASE UNCHANGED vars
  <2>1. VerifiedIssuersAreAuthorized'
    BY <1>10 DEF IInv, VerifiedIssuersAreAuthorized, isAuthorizedIssuer, vars, issuerVars
  <2> QED
    BY <1>1, <1>10, <2>1, UntouchedCertificates DEF IInv, vars
<1> QED
  BY <1>2, <1>3, <1>4, <1>5, <1>6, <1>7, <1>8, <1>9, <1>10 DEF Next

(* The invariant holds in every reachable state.                           *)
THEOREM Invariance == Spec => []IInv
<1>1. Init => IInv
  BY ContractAssumption, InitInv
<1>2. IInv /\ [Next]_vars => IInv'
  BY ContractAssumption, StepInv
<1> QED
  BY <1>1, <1>2, PTL DEF Spec

(* Ids are dense and never reused; hash index, used hashes and             *)
(* certificates agree, also after batches.                                 *)
THEOREM RegistryCorrect == Spec => []RegistryAgrees
<1>1. IInv => RegistryAgrees
  BY DEF IInv
<1> QED
  BY <1>1, Invariance, PTL

(* A certificate is revoked exactly when its issuer made a revocation      *)
(* record, dated between its issuance and now.                             *)
THEOREM RevocationsCorrect == Spec => []RevocationsAgree
<1>1. IInv => RevocationsAgree
  BY DEF IInv
<1> QED
  BY <1>1, Invariance, PTL

(* An issuer that is not registered and Active is never flagged verified.  *)
THEOREM VerifiedMeansAuthorized == Spec => []VerifiedIssuersAreAuthorized
<1>1. IInv => VerifiedIssuersAreAuthorized
  BY DEF IInv
<1> QED
  BY <1>1, Invariance, PTL

(* The arrays of an account list exactly its certificates.                 *)
THEOREM ListsCorrect == Spec => []ListsAgree
<1>1. IInv => ListsAgree
  BY DEF IInv
<1> QED
  BY <1>1, Invariance, PTL

(***************************************************************************)
(* The log.  It is told apart from the state by IdsAreDense: the events of *)
(* an issuance name new ids, which no event has named before.              *)
(***************************************************************************)

(* The places of a log at which it has this event.                         *)
placesIn(log, name, id) ==
  {k \in DOMAIN log : log[k] = [name |-> name, certificateId |-> id]}

(* What a log tells of one certificate with this status.                   *)
toldIn(log, id, status) ==
  /\ \E k \in DOMAIN log : placesIn(log, "CertificateIssued", id) = {k}
  /\ IF status = "Revoked"
     THEN \E k \in DOMAIN log :
            /\ placesIn(log, "CertificateRevoked", id) = {k}
            /\ \A l \in placesIn(log, "CertificateIssued", id) : l < k
     ELSE placesIn(log, "CertificateRevoked", id) = {}

(* More events say nothing new of a certificate they do not name.          *)
LEMMA PlacesKept ==
  ASSUME NEW log, NEW more, NEW name, NEW id, DOMAIN log \subseteq DOMAIN more,
         \A k \in DOMAIN log : more[k] = log[k],
         \A k \in DOMAIN more \ DOMAIN log : more[k] # [name |-> name, certificateId |-> id]
  PROVE  placesIn(more, name, id) = placesIn(log, name, id)
  BY DEF placesIn

(* So what a log tells of a certificate stays told.                         *)
LEMMA ToldStill ==
  ASSUME NEW log, NEW more, NEW id, NEW status, toldIn(log, id, status),
         DOMAIN log \subseteq DOMAIN more, \A k \in DOMAIN log : more[k] = log[k],
         \A k \in DOMAIN more \ DOMAIN log : more[k].certificateId # id
  PROVE  toldIn(more, id, status)
<1>1. ASSUME NEW name PROVE placesIn(more, name, id) = placesIn(log, name, id)
  <2>1. \A k \in DOMAIN more \ DOMAIN log : more[k] # [name |-> name, certificateId |-> id]
    OBVIOUS
  <2> QED
    BY <2>1, PlacesKept
<1> QED
  BY <1>1 DEF toldIn

(* An issuance logs the ids it gives, one event each.                      *)
LEMMA IssueTold ==
  ASSUME ContractAssumption, TypeOK, IdsAreDense, LogTellsTheState, NEW sender \in Address,
         NEW items \in Seq(Item), issueAll(sender, items)
  PROVE  LogTellsTheState'
<1> DEFINE E == Len(events)
           N == Len(items)
           first == nextCertificateId
<1>1. /\ N \in Nat /\ DOMAIN items = 1..N /\ first \in Nat \ {0} /\ E \in Nat
      /\ events \in Seq(Event) /\ DOMAIN events = 1..E
  BY DEF TypeOK
<1>2. /\ certificateIds' = certificateIds \cup newIds(items)
      /\ \A id \in certificateIds : certificatesById'[id] = certificatesById[id]
      /\ \A id \in newIds(items) : certificatesById'[id].status = "Valid"
  <2>1. ASSUME NEW id \in newIds(items) PROVE certificatesById'[id].status = "Valid"
    <3>1. certificatesById'[id] = newCertificate(sender, items[id - nextCertificateId + 1])
      BY IssueEffect
    <3> QED
      BY <3>1 DEF newCertificate
  <2> QED
    BY <2>1, IssueEffect
<1>3. /\ newIds(items) = first..(first + N - 1)
      /\ certificateIds = 1..(first - 1)
  BY NewIds DEF IdsAreDense
<1>4. events' = events \o [i \in 1..N |-> [name |-> "CertificateIssued",
                                           certificateId |-> first + i - 1]]
  BY DEF issueAll, idOf
<1>5. DOMAIN events' = 1..(E + N)
  BY <1>1, <1>4
<1>6. \A k \in 1..E : events'[k] = events[k]
  BY <1>1, <1>4
<1>7. \A k \in (E + 1)..(E + N) :
        events'[k] = [name |-> "CertificateIssued", certificateId |-> first + (k - E) - 1]
  BY <1>1, <1>4
<1>8. \A k \in DOMAIN events : events[k].certificateId \in certificateIds
  BY DEF LogTellsTheState
<1> HIDE DEF E, N, first
<1>9. newIds(items) \cap certificateIds = {}
  BY NewIds
<1>10. ASSUME NEW k \in DOMAIN events' \ DOMAIN events
      PROVE  /\ events'[k].name = "CertificateIssued"
             /\ events'[k].certificateId = first + (k - E) - 1
             /\ events'[k].certificateId \in newIds(items)
             /\ k \in (E + 1)..(E + N)
  <2>1. k \in (E + 1)..(E + N)
    BY <1>1, <1>5
  <2>2. events'[k] = [name |-> "CertificateIssued", certificateId |-> first + (k - E) - 1]
    BY <1>7, <2>1
  <2>3. first + (k - E) - 1 \in first..(first + N - 1)
    BY <1>1, <2>1
  <2> QED
    BY <1>3, <2>1, <2>2, <2>3
<1>11. \A k \in DOMAIN events' : events'[k].certificateId \in certificateIds'
  BY <1>1, <1>2, <1>6, <1>8, <1>10
<1>12. ASSUME NEW id \in certificateIds PROVE toldIn(events', id, certificatesById'[id].status)
  <2>1. toldIn(events, id, certificatesById[id].status)
    BY DEF LogTellsTheState, toldIn, placesIn, logged
  <2>2. \A k \in DOMAIN events' \ DOMAIN events : events'[k].certificateId # id
    BY <1>9, <1>10
  <2>3. DOMAIN events \subseteq DOMAIN events'
    BY <1>1, <1>5
  <2> QED
    BY <1>1, <1>2, <1>6, <2>1, <2>2, <2>3, ToldStill
<1>13. ASSUME NEW id \in newIds(items) PROVE toldIn(events', id, certificatesById'[id].status)
  <2> DEFINE k == E + (id - first) + 1
  <2>0. id \in first..(first + N - 1)
    BY <1>3
  <2>1. k \in (E + 1)..(E + N) /\ k \in DOMAIN events' /\ first + (k - E) - 1 = id
    BY <1>1, <1>5, <2>0
  <2>2. \A l \in DOMAIN events : events'[l].certificateId # id
    BY <1>1, <1>6, <1>8, <1>9
  <2>3. \A l \in DOMAIN events' \ DOMAIN events :
          events'[l].name = "CertificateIssued" /\ (events'[l].certificateId = id => l = k)
    <3> SUFFICES ASSUME NEW l \in DOMAIN events' \ DOMAIN events
                 PROVE  /\ events'[l].name = "CertificateIssued"
                        /\ events'[l].certificateId = id => l = k
      OBVIOUS
    <3>1. /\ events'[l].name = "CertificateIssued"
          /\ events'[l].certificateId = first + (l - E) - 1
          /\ l \in (E + 1)..(E + N)
      BY <1>10
    <3>2. l \in Int /\ E \in Int /\ first \in Int /\ id \in Int
      BY <1>1, <2>0, <3>1
    <3>3. first + (l - E) - 1 = id => l = E + (id - first) + 1
      BY <3>2
    <3> QED
      BY <3>1, <3>3
  <2>4. events'[k] = [name |-> "CertificateIssued", certificateId |-> id]
    BY <1>7, <2>1
  <2> HIDE DEF k
  <2>5. placesIn(events', "CertificateIssued", id) = {k}
    BY <2>1, <2>2, <2>3, <2>4 DEF placesIn
  <2>6. placesIn(events', "CertificateRevoked", id) = {}
    BY <2>2, <2>3 DEF placesIn
  <2> QED
    BY <1>2, <2>1, <2>5, <2>6 DEF toldIn
<1>14. \A id \in certificateIds' : toldIn(events', id, certificatesById'[id].status)
  BY <1>2, <1>12, <1>13
<1> QED
  BY <1>11, <1>14 DEF LogTellsTheState, toldIn, placesIn, logged

(* A revocation logs its id, which no earlier one has.                     *)
LEMMA RevokeTold ==
  ASSUME TypeOK, LogTellsTheState, NEW sender, NEW id, revokeCertificate(sender, id)
  PROVE  LogTellsTheState'
<1> DEFINE E == Len(events)
           event == [name |-> "CertificateRevoked", certificateId |-> id]
<1>1. E \in Nat /\ events \in Seq(Event) /\ DOMAIN events = 1..E
  BY DEF TypeOK
<1>2. /\ id \in certificateIds /\ certificateIds' = certificateIds
      /\ \A c \in certificateIds :
           certificatesById'[c].status = IF c = id THEN "Revoked" ELSE certificatesById[c].status
  BY RevokeEffect
<1>3. events' = Append(events, event) /\ certificatesById[id].status # "Revoked"
  BY DEF revokeCertificate, mayRevoke
<1>4. DOMAIN events' = 1..(E + 1) /\ \A k \in 1..E : events'[k] = events[k]
  BY <1>1, <1>3
<1>5. events'[E + 1] = event
  BY <1>1, <1>3
<1>6. /\ \A k \in DOMAIN events : events[k].certificateId \in certificateIds
      /\ \A c \in certificateIds : toldIn(events, c, certificatesById[c].status)
  BY DEF LogTellsTheState, toldIn, placesIn, logged
<1> HIDE DEF E
<1>7. \A k \in DOMAIN events' : events'[k].certificateId \in certificateIds'
  BY <1>1, <1>2, <1>4, <1>5, <1>6
<1>8. DOMAIN events \subseteq DOMAIN events' /\ DOMAIN events' \ DOMAIN events = {E + 1}
  BY <1>1, <1>4
<1>9. ASSUME NEW c \in certificateIds, c # id
      PROVE  toldIn(events', c, certificatesById'[c].status)
  BY <1>1, <1>2, <1>4, <1>5, <1>6, <1>8, <1>9, ToldStill
<1>10. toldIn(events', id, certificatesById'[id].status)
  <2>1. placesIn(events', "CertificateIssued", id) = placesIn(events, "CertificateIssued", id)
    BY <1>1, <1>4, <1>5, <1>8, PlacesKept
  <2>2. placesIn(events, "CertificateRevoked", id) = {}
    BY <1>2, <1>3, <1>6 DEF toldIn
  <2>3. placesIn(events', "CertificateRevoked", id) = {E + 1}
    BY <1>1, <1>4, <1>5, <2>2 DEF placesIn
  <2>4. \A l \in placesIn(events, "CertificateIssued", id) : l < E + 1
    BY <1>1 DEF placesIn
  <2>5. \E k \in DOMAIN events' : placesIn(events', "CertificateIssued", id) = {k}
    BY <1>2, <1>6, <1>8, <2>1 DEF toldIn
  <2>6. E + 1 \in DOMAIN events'
    BY <1>8
  <2> QED
    BY <1>2, <2>1, <2>3, <2>4, <2>5, <2>6 DEF toldIn
<1>11. \A c \in certificateIds' : toldIn(events', c, certificatesById'[c].status)
  BY <1>2, <1>9, <1>10
<1> QED
  BY <1>7, <1>11 DEF LogTellsTheState, toldIn, placesIn, logged

(* Each certificate has one event of its issuance in the log, and one of   *)
(* its revocation after it exactly if it is revoked: a reader of the log   *)
(* alone, like the listener, learns the state.                             *)
THEOREM LogIsTheState == Spec => []LogTellsTheState
<1>1. Init => LogTellsTheState
  BY DEF Init, LogTellsTheState, certificateIds
<1>2. ASSUME IInv, LogTellsTheState, [Next]_vars PROVE LogTellsTheState'
  <2>1. TypeOK /\ IdsAreDense
    BY <1>2 DEF IInv, RegistryAgrees
  <2>2. ASSUME NEW sender \in Address, NEW h \in Hash, NEW to \in Address \cup {ZeroAddress},
               NEW expiryDate \in Expiry, issueCertificate(sender, h, to, expiryDate)
        PROVE  LogTellsTheState'
    BY <1>2, <2>1, <2>2, ContractAssumption, SingleItem, IssueTold DEF issueCertificate
  <2>3. ASSUME NEW sender \in Address, NEW n \in 1..MaxBatch, NEW hashes \in [1..n -> Hash],
               NEW to \in [1..n -> Address \cup {ZeroAddress}],
               batchIssueCertificates(sender, hashes, to)
        PROVE  LogTellsTheState'
    <3> DEFINE items == [i \in 1..Len(hashes) |->
                   [certificateHash |-> hashes[i], recipient |-> to[i], expiryDate |-> 0]]
    <3>1. items \in Seq(Item)
      BY BatchItems
    <3>2. issueAll(sender, items)
      BY <2>3 DEF batchIssueCertificates
    <3> HIDE DEF items
    <3> QED
      BY <1>2, <2>1, <3>1, <3>2, ContractAssumption, IssueTold
  <2>4. ASSUME NEW sender \in Address, NEW id, revokeCertificate(sender, id)
        PROVE  LogTellsTheState'
    BY <1>2, <2>1, <2>4, RevokeTold
  <2>5. ASSUME NEW sender \in Address, NEW h \in Hash, revokeCertificateByHash(sender, h)
        PROVE  LogTellsTheState'
    BY <2>4, <2>5 DEF revokeCertificateByHash
  <2>6. ASSUME UNCHANGED <<certificatesById, events>> PROVE LogTellsTheState'
    BY <1>2, <2>6 DEF LogTellsTheState, logged, certificateIds
  <2>7. ASSUME NEW sender \in Address, NEW a \in Address, NEW newStatus \in IssuerStatus,
               \/ registerIssuer(sender) \/ verifyIssuer(sender, a)
               \/ updateIssuerStatus(sender, a, newStatus)
        PROVE  LogTellsTheState'
    BY <2>6, <2>7 DEF registerIssuer, verifyIssuer, updateIssuerStatus, certificateVars
  <2>8. CASE mineBlock
    BY <2>6, <2>8 DEF mineBlock, certificateVars
  <2>9. CASE UNCHANGED vars
    BY <2>6, <2>9 DEF vars, certificateVars
  <2>10. "Active" \in IssuerStatus
    BY DEF IssuerStatus
  <2> QED
    BY <1>2, <2>2, <2>3, <2>4, <2>5, <2>7, <2>8, <2>9, <2>10 DEF Next
<1> QED
  BY <1>1, <1>2, Invariance, PTL DEF Spec

(***************************************************************************)
(* What a step may never do.                                               *)
(***************************************************************************)

(* No step removes a certificate or changes its issuer or expiry; a status *)
(* only becomes Revoked, and time only passes.                             *)
LEMMA CertificatesStay ==
  ASSUME ContractAssumption, IInv, [Next]_vars
  PROVE  /\ timestamp \in Nat
         /\ timestamp' \in {timestamp, timestamp + 1}
         /\ \A c \in certificateIds :
              /\ c \in certificateIds'
              /\ certificatesById'[c].issuer = certificatesById[c].issuer
              /\ certificatesById'[c].expiryDate = certificatesById[c].expiryDate
              /\ certificatesById'[c].status \in {certificatesById[c].status, "Revoked"}
<1> DEFINE Stay ==
      /\ timestamp' \in {timestamp, timestamp + 1}
      /\ \A c \in certificateIds :
           /\ c \in certificateIds'
           /\ certificatesById'[c].issuer = certificatesById[c].issuer
           /\ certificatesById'[c].expiryDate = certificatesById[c].expiryDate
           /\ certificatesById'[c].status \in {certificatesById[c].status, "Revoked"}
<1>1. TypeOK /\ IdsAreDense
  BY DEF IInv, RegistryAgrees
<1>2. ASSUME certificatesById' = certificatesById, timestamp' \in {timestamp, timestamp + 1}
      PROVE  Stay
  BY <1>2 DEF certificateIds
<1>3. ASSUME NEW sender \in Address, NEW items \in Seq(Item), issueAll(sender, items)
      PROVE  Stay
  <2>1. timestamp' = timestamp
    BY <1>3 DEF issueAll
  <2> QED
    BY <1>1, <1>3, <2>1, IssueEffect
<1>4. ASSUME NEW sender \in Address, NEW id, revokeCertificate(sender, id) PROVE Stay
  <2>1. timestamp' = timestamp
    BY <1>4 DEF revokeCertificate
  <2> QED
    BY <1>1, <1>4, <2>1, RevokeEffect
<1>5. ASSUME NEW sender \in Address, NEW h \in Hash, NEW to \in Address \cup {ZeroAddress},
             NEW expiryDate \in Expiry, issueCertificate(sender, h, to, expiryDate)
      PROVE  Stay
  BY <1>3, <1>5, SingleItem DEF issueCertificate
<1>6. ASSUME NEW sender \in Address, NEW n \in 1..MaxBatch, NEW hashes \in [1..n -> Hash],
             NEW to \in [1..n -> Address \cup {ZeroAddress}],
             batchIssueCertificates(sender, hashes, to)
      PROVE  Stay
  <2> DEFINE items == [i \in 1..Len(hashes) |->
                 [certificateHash |-> hashes[i], recipient |-> to[i], expiryDate |-> 0]]
  <2>1. items \in Seq(Item)
    BY BatchItems
  <2>2. issueAll(sender, items)
    BY <1>6 DEF batchIssueCertificates
  <2> HIDE DEF items, Stay
  <2> QED
    BY <1>3, <2>1, <2>2
<1>7. ASSUME NEW sender \in Address, NEW h \in Hash, revokeCertificateByHash(sender, h)
      PROVE  Stay
  BY <1>4, <1>7 DEF revokeCertificateByHash
<1>8. timestamp \in Nat
  BY <1>1 DEF TypeOK
<1>9. ASSUME NEW sender \in Address, NEW a \in Address, NEW newStatus \in IssuerStatus,
             \/ registerIssuer(sender) \/ verifyIssuer(sender, a)
             \/ updateIssuerStatus(sender, a, newStatus)
      PROVE  Stay
  BY <1>2, <1>9 DEF registerIssuer, verifyIssuer, updateIssuerStatus, certificateVars
<1>10. ASSUME mineBlock PROVE Stay
  BY <1>2, <1>10 DEF mineBlock, certificateVars
<1>11. ASSUME UNCHANGED vars PROVE Stay
  BY <1>2, <1>11 DEF vars, certificateVars
<1>12. "Active" \in IssuerStatus
  BY DEF IssuerStatus
<1> HIDE DEF Stay
<1>13. Stay
  BY <1>4, <1>5, <1>6, <1>7, <1>9, <1>10, <1>11, <1>12 DEF Next
<1> QED
  BY <1>8, <1>13 DEF Stay

(* So the effective status of a certificate never goes back.               *)
LEMMA StatusStep ==
  ASSUME ContractAssumption, IInv, [Next]_vars, NEW id \in certificateIds
  PROVE  /\ statusRank(_effectiveCertificateStatus(id))
              <= statusRank(_effectiveCertificateStatus(id)')
         /\ _effectiveCertificateStatus(id)' = "Valid" => _effectiveCertificateStatus(id) = "Valid"
<1>1. /\ timestamp \in Nat
      /\ timestamp' \in {timestamp, timestamp + 1}
      /\ certificatesById'[id].expiryDate = certificatesById[id].expiryDate
      /\ certificatesById'[id].status \in {certificatesById[id].status, "Revoked"}
  BY CertificatesStay
<1>2. certificatesById[id].expiryDate \in Nat
  BY DEF IInv, TypeOK, Certificate
<1> DEFINE before == _effectiveCertificateStatus(id)
           after == _effectiveCertificateStatus(id)'
<1>3. before \in CertificateStatus /\ after \in CertificateStatus
  BY DEF _effectiveCertificateStatus, CertificateStatus
<1>4. before = "Revoked" => after = "Revoked"
  BY <1>1 DEF _effectiveCertificateStatus
<1>5. before = "Expired" => after \in {"Expired", "Revoked"}
  BY <1>1, <1>2 DEF _effectiveCertificateStatus
<1> HIDE DEF before, after
<1> QED
  BY <1>3, <1>4, <1>5 DEF statusRank, CertificateStatus, before, after

(* An expired certificate is never valid again; a revoked one stays so.    *)
THEOREM StatusIsMonotone == Spec => StatusNeverGoesBack
<1>1. IInv /\ [Next]_vars =>
        \A id \in certificateIds :
          statusRank(_effectiveCertificateStatus(id))
            <= statusRank(_effectiveCertificateStatus(id)')
  BY ContractAssumption, StatusStep
<1> QED
  BY <1>1, Invariance, PTL DEF Spec, StatusNeverGoesBack

(* Only verifyIssuer gives an account an authorization it did not have.    *)
LEMMA OnlyVerificationAuthorizes ==
  ASSUME ContractAssumption, IInv, [Next]_vars, NEW a \in Address,
         ~isAuthorizedIssuer(a), isAuthorizedIssuer(a)'
  PROVE  verifyIssuer(Admin, a)
<1>1. /\ TypeOK
      /\ ~issuers[a].isVerified
      /\ issuers'[a].isVerified
  BY DEF IInv, VerifiedIssuersAreAuthorized, isAuthorizedIssuer
<1>2. ASSUME NEW sender \in Address, registerIssuer(sender) PROVE FALSE
  BY <1>1, <1>2 DEF registerIssuer, TypeOK
<1>3. ASSUME NEW sender \in Address, NEW b \in Address, verifyIssuer(sender, b)
      PROVE  verifyIssuer(Admin, a)
  <2>1. sender = Admin /\ (b # a => issuers'[a] = issuers[a])
    BY <1>1, <1>3 DEF verifyIssuer, TypeOK
  <2> QED
    BY <1>1, <1>3, <2>1
<1>4. ASSUME NEW sender \in Address, NEW b \in Address, NEW newStatus \in IssuerStatus,
             updateIssuerStatus(sender, b, newStatus)
      PROVE  FALSE
  <2>1. staysVerified(b, newStatus) => issuers[b].isVerified
    BY DEF staysVerified
  <2> QED
    BY <1>1, <1>4, <2>1 DEF updateIssuerStatus, TypeOK
<1>5. issuers' # issuers
  BY <1>1
<1>6. ASSUME NEW sender, NEW items, issueAll(sender, items) PROVE FALSE
  BY <1>5, <1>6 DEF issueAll, issuerVars
<1>7. ASSUME NEW sender, NEW id, revokeCertificate(sender, id) PROVE FALSE
  BY <1>5, <1>7 DEF revokeCertificate, issuerVars
<1>8. ~mineBlock /\ ~UNCHANGED vars
  BY <1>5 DEF mineBlock, vars, issuerVars
<1> QED
  BY <1>2, <1>3, <1>4, <1>6, <1>7, <1>8
     DEF Next, issueCertificate, batchIssueCertificates, revokeCertificateByHash

(* A certificate becomes valid again only when the admin re-verifies its   *)
(* issuer.                                                                 *)
THEOREM OnlyVerificationRevives == Spec => ValidAgainOnlyByVerification
<1>1. IInv /\ [Next]_vars =>
        \A id \in certificateIds :
          (~_isCertificateValid(id) /\ _isCertificateValid(id)')
            => verifyIssuer(Admin, certificatesById[id].issuer)
  <2> SUFFICES ASSUME IInv, [Next]_vars, NEW id \in certificateIds,
                      ~_isCertificateValid(id), _isCertificateValid(id)'
               PROVE  verifyIssuer(Admin, certificatesById[id].issuer)
    OBVIOUS
  <2>1. /\ certificatesById[id].issuer \in Address
        /\ certificatesById'[id].issuer = certificatesById[id].issuer
    BY ContractAssumption, CertificatesStay DEF IInv, TypeOK, Certificate
  <2>2. _effectiveCertificateStatus(id) = "Valid"
    BY ContractAssumption, StatusStep DEF _isCertificateValid
  <2>3. ~isAuthorizedIssuer(certificatesById[id].issuer)
    BY <2>2 DEF _isCertificateValid
  <2>4. isAuthorizedIssuer(certificatesById[id].issuer)'
    BY DEF _isCertificateValid
  <2>5. PICK a \in Address : a = certificatesById[id].issuer
    BY <2>1
  <2>6. isAuthorizedIssuer(a)'
    BY <2>1, <2>4, <2>5 DEF isAuthorizedIssuer
  <2> QED
    BY <2>3, <2>5, <2>6, ContractAssumption, OnlyVerificationAuthorizes
<1> QED
  BY <1>1, Invariance, PTL DEF Spec, ValidAgainOnlyByVerification

(***************************************************************************)
(* The contract implements the ledger.  The ledger's variables are         *)
(* functions of the hash; what a step does to them follows from what it    *)
(* does to the certificate the hash index names.                           *)
(***************************************************************************)
ledgerAuthorized == {a \in Address : isAuthorizedIssuer(a)}
ledgerPhase == [h \in Hash |-> phaseOf(h)]
ledgerAnchoredBy == [h \in Hash |-> verifyCertificate(h).issuer]
ledgerRevokedBy ==
  [h \in Hash |-> IF phaseOf(h) = "revoked"
                  THEN revocations[certificateIdByHash[h]].revokedBy ELSE ZeroAddress]

(* Who anchored a hash, read from the certificate its index entry names.   *)
LEMMA AnchoredBy ==
  ASSUME HashIndexAgrees, NEW h \in Hash
  PROVE  verifyCertificate(h).issuer =
           IF certificateExists(h) THEN certificatesById[certificateIdByHash[h]].issuer
           ELSE ZeroAddress
<1>1. certificateExists(h) <=> certificateIdByHash[h] # 0
  BY DEF HashIndexAgrees
<1>2. CASE certificateIdByHash[h] = 0
  BY <1>1, <1>2 DEF verifyCertificate
<1>3. CASE certificateIdByHash[h] # 0
  BY <1>1, <1>3 DEF verifyCertificate
<1> QED
  BY <1>2, <1>3

(* The same, after a step.                                                 *)
LEMMA AnchoredByAfter ==
  ASSUME HashIndexAgrees', NEW h \in Hash
  PROVE  verifyCertificate(h).issuer' =
           IF certificateExists(h)' THEN certificatesById'[certificateIdByHash'[h]].issuer
           ELSE ZeroAddress
<1>1. certificateExists(h)' <=> certificateIdByHash'[h] # 0
  BY DEF HashIndexAgrees
<1>2. CASE certificateIdByHash'[h] = 0
  BY <1>1, <1>2 DEF verifyCertificate
<1>3. CASE certificateIdByHash'[h] # 0
  BY <1>1, <1>3 DEF verifyCertificate
<1> QED
  BY <1>2, <1>3

(* The ledger sees no certificate change when none does.                   *)
LEMMA LedgerUntouched ==
  ASSUME UNCHANGED <<certificateVars, revocations>>
  PROVE  UNCHANGED <<ledgerPhase, ledgerRevokedBy>>
  BY DEF certificateVars, ledgerPhase, ledgerRevokedBy, phaseOf, certificateExists

(* Nor does who anchored a hash change.                                    *)
LEMMA LedgerAnchorsUntouched ==
  ASSUME HashIndexAgrees, HashIndexAgrees', UNCHANGED certificateVars
  PROVE  UNCHANGED ledgerAnchoredBy
<1>1. \A h \in Hash : verifyCertificate(h).issuer' = verifyCertificate(h).issuer
  BY AnchoredBy DEF certificateVars, verifyCertificate
<1> QED
  BY <1>1 DEF ledgerAnchoredBy

(* An issuance anchors the hashes of its items, all fresh, for the sender. *)
LEMMA IssueAnchors ==
  ASSUME ContractAssumption, IInv, NEW sender \in Address, NEW items \in Seq(Item),
         issueAll(sender, items)
  PROVE  \E hashes \in SUBSET Hash : Ledger!Anchor(sender, hashes)
<1> DEFINE hashes == {items[i].certificateHash : i \in DOMAIN items}
<1>1. /\ TypeOK /\ RegistryAgrees /\ IdsAreDense /\ HashIndexAgrees
      /\ RegistryAgrees' /\ HashIndexAgrees'
  BY IssueInv DEF IInv, RegistryAgrees
<1>2. issuable(sender, items)
  BY DEF issueAll
<1>3. /\ isAuthorizedIssuer(sender)
      /\ hashes \subseteq Hash
      /\ \A h \in hashes : ~certificateExists(h)
  BY <1>2, IssuableItems DEF issuable, acceptable, certificateExists
<1>4. \A h \in Hash :
        /\ certificateExists(h)' <=> certificateExists(h) \/ h \in hashes
        /\ h \notin hashes => certificateIdByHash'[h] = certificateIdByHash[h]
  BY DEF issueAll, certificateExists
<1>5. ASSUME NEW h \in hashes
      PROVE  /\ certificateIdByHash'[h] \in newIds(items)
             /\ certificatesById'[certificateIdByHash'[h]].status = "Valid"
             /\ certificatesById'[certificateIdByHash'[h]].issuer = sender
  <2>1. h \in Hash /\ certificateExists(h)' /\ ~certificateExists(h)
    BY <1>3, <1>4
  <2>2. /\ certificateIdByHash'[h] \in certificateIds'
        /\ certificatesById'[certificateIdByHash'[h]].certificateHash = h
    BY <1>1, <2>1 DEF HashIndexAgrees
  <2>3. certificateIdByHash'[h] \notin certificateIds
    <3>1. \A id \in certificateIds :
            /\ certificatesById'[id].certificateHash = certificatesById[id].certificateHash
            /\ certificatesById[id].certificateHash \in Hash
            /\ certificateIdByHash[certificatesById[id].certificateHash] = id
            /\ id # 0
      BY <1>1, IssueEffect DEF TypeOK, Certificate, HashIndexAgrees, IdsAreDense
    <3>2. \A id \in certificateIds : certificateExists(certificatesById[id].certificateHash)
      BY <1>1, <3>1 DEF HashIndexAgrees
    <3> QED
      BY <2>1, <2>2, <3>1, <3>2
  <2>4. certificateIdByHash'[h] \in newIds(items)
    BY <1>1, <2>2, <2>3, IssueEffect
  <2>5. \A item : /\ newCertificate(sender, item).status = "Valid"
                  /\ newCertificate(sender, item).issuer = sender
    BY DEF newCertificate
  <2> QED
    BY <1>1, <2>4, <2>5, IssueEffect
<1>6. ASSUME NEW h \in Hash, h \notin hashes, certificateExists(h)
      PROVE  certificatesById'[certificateIdByHash'[h]] = certificatesById[certificateIdByHash[h]]
  <2>1. certificateIdByHash[h] \in certificateIds
    BY <1>1, <1>6 DEF HashIndexAgrees
  <2> QED
    BY <1>1, <1>4, <1>6, <2>1, IssueEffect
<1>7. \A h \in Hash : phaseOf(h)' = IF h \in hashes THEN "anchored" ELSE phaseOf(h)
  BY <1>4, <1>5, <1>6 DEF phaseOf
<1>8. \A h \in Hash :
        verifyCertificate(h).issuer' = IF h \in hashes THEN sender ELSE verifyCertificate(h).issuer
  <2> SUFFICES ASSUME NEW h \in Hash
               PROVE  verifyCertificate(h).issuer' =
                        IF h \in hashes THEN sender ELSE verifyCertificate(h).issuer
    OBVIOUS
  <2>1. verifyCertificate(h).issuer' =
          IF certificateExists(h)' THEN certificatesById'[certificateIdByHash'[h]].issuer
          ELSE ZeroAddress
    BY <1>1, AnchoredByAfter
  <2> QED
    BY <1>1, <1>4, <1>5, <1>6, <2>1, AnchoredBy
<1>9. \A h \in Hash : h \in hashes => phaseOf(h) = "absent"
  BY <1>3 DEF phaseOf
<1>10. \A h \in Hash : phaseOf(h)' = "revoked" <=> phaseOf(h) = "revoked"
  BY <1>7, <1>9
<1>11. \A h \in Hash :
         phaseOf(h) = "revoked" =>
           revocations'[certificateIdByHash'[h]] = revocations[certificateIdByHash[h]]
  BY <1>4, <1>9 DEF issueAll
<1>12. \A a \in Address : isAuthorizedIssuer(a)' <=> isAuthorizedIssuer(a)
  BY DEF isAuthorizedIssuer, issueAll, issuerVars
<1> HIDE DEF hashes
<1> QED
  BY <1>3, <1>7, <1>8, <1>9, <1>10, <1>11, <1>12 DEF Ledger!Anchor

(* A revocation revokes the hash of its certificate, for its issuer.       *)
LEMMA RevokeRevokes ==
  ASSUME IInv, NEW sender \in Address, NEW id, revokeCertificate(sender, id)
  PROVE  \E h \in Hash : Ledger!Revoke(sender, h)
<1>1. /\ TypeOK /\ RegistryAgrees /\ IdsAreDense /\ HashIndexAgrees
      /\ HashIndexAgrees'
  BY RevokeInv DEF IInv, RegistryAgrees
<1>2. PICK hash \in Hash : hash = certificatesById[id].certificateHash
  BY <1>1, RevokeEffect DEF TypeOK, Certificate
<1>3. /\ certificateIdByHash[hash] = id
      /\ certificateExists(hash)
      /\ id \in certificateIds
      /\ certificatesById[id].issuer = sender
      /\ certificatesById[id].status # "Revoked"
  <2>1. id \in certificateIds /\ id # 0 /\ certificatesById[id].issuer = sender
    BY <1>1, RevokeEffect DEF IdsAreDense, TypeOK
  <2>2. certificateIdByHash[hash] = id
    BY <1>1, <1>2, <2>1 DEF HashIndexAgrees
  <2> QED
    BY <1>1, <2>1, <2>2 DEF HashIndexAgrees, revokeCertificate, mayRevoke
<1>4. \A h \in Hash : certificateExists(h) /\ h # hash => certificateIdByHash[h] # id
  BY <1>1, <1>2 DEF HashIndexAgrees
<1>5. /\ UNCHANGED <<usedHashes, certificateIdByHash, issuers>>
      /\ \A h \in Hash : certificateExists(h)' <=> certificateExists(h)
  BY DEF revokeCertificate, certificateExists, issuerVars
<1>6. \A h \in Hash :
        certificateExists(h) =>
          /\ certificateIdByHash[h] \in certificateIds
          /\ certificatesById'[certificateIdByHash[h]].issuer =
               certificatesById[certificateIdByHash[h]].issuer
          /\ certificatesById'[certificateIdByHash[h]].status =
               IF h = hash THEN "Revoked" ELSE certificatesById[certificateIdByHash[h]].status
  BY <1>1, <1>3, <1>4, RevokeEffect DEF HashIndexAgrees
<1>7. \A h \in Hash : phaseOf(h)' = IF h = hash THEN "revoked" ELSE phaseOf(h)
  BY <1>3, <1>5, <1>6 DEF phaseOf
<1>8. \A h \in Hash : verifyCertificate(h).issuer' = verifyCertificate(h).issuer
  <2> SUFFICES ASSUME NEW h \in Hash
               PROVE  verifyCertificate(h).issuer' = verifyCertificate(h).issuer
    OBVIOUS
  <2>1. verifyCertificate(h).issuer' =
          IF certificateExists(h)' THEN certificatesById'[certificateIdByHash'[h]].issuer
          ELSE ZeroAddress
    BY <1>1, AnchoredByAfter
  <2> QED
    BY <1>1, <1>5, <1>6, <2>1, AnchoredBy
<1>9. phaseOf(hash) = "anchored" /\ verifyCertificate(hash).issuer = sender
  BY <1>1, <1>3, AnchoredBy DEF phaseOf
<1>10. /\ revocations'[id].revokedBy = sender
       /\ \A h \in Hash :
            phaseOf(h) = "revoked" /\ h # hash =>
              revocations'[certificateIdByHash[h]] = revocations[certificateIdByHash[h]]
  <2>1. /\ revocations'[id].revokedBy = sender
        /\ \A r \in DOMAIN revocations : r # id => revocations'[r] = revocations[r]
    BY DEF revokeCertificate
  <2>2. \A h \in Hash :
          phaseOf(h) = "revoked" =>
            certificateExists(h) /\ certificatesById[certificateIdByHash[h]].status = "Revoked"
    BY DEF phaseOf
  <2>3. \A h \in Hash : phaseOf(h) = "revoked" => certificateIdByHash[h] \in DOMAIN revocations
    BY <1>1, <1>6, <2>2 DEF IInv, RevocationsAgree
  <2> QED
    BY <1>4, <2>1, <2>2, <2>3
<1>11. \A a \in Address : isAuthorizedIssuer(a)' <=> isAuthorizedIssuer(a)
  BY <1>5 DEF isAuthorizedIssuer
<1>12. Ledger!Revoke(sender, hash)
  BY <1>3, <1>5, <1>7, <1>8, <1>9, <1>10, <1>11 DEF Ledger!Revoke
<1> QED
  BY <1>12

(* Every step of the contract is a step of the ledger or stutters it.      *)
LEMMA StepLedger ==
  ContractAssumption /\ IInv /\ [Next]_vars => [Ledger!LedgerNext]_Ledger!ledgerVars
<1> SUFFICES ASSUME ContractAssumption, IInv, [Next]_vars
             PROVE  [Ledger!LedgerNext]_Ledger!ledgerVars
  OBVIOUS
<1>1. TypeOK /\ HashIndexAgrees /\ HashIndexAgrees'
  BY StepInv DEF IInv, RegistryAgrees
<1>2. ASSUME UNCHANGED <<certificateVars, revocations>>
      PROVE  UNCHANGED <<ledgerPhase, ledgerAnchoredBy, ledgerRevokedBy>>
  BY <1>1, <1>2, LedgerUntouched, LedgerAnchorsUntouched
<1>3. ASSUME UNCHANGED <<certificateVars, revocations>>, UNCHANGED ledgerAuthorized
      PROVE  UNCHANGED Ledger!ledgerVars
  BY <1>2, <1>3
     DEF Ledger!ledgerVars, ledgerPhase, ledgerAnchoredBy, ledgerRevokedBy, ledgerAuthorized
<1>4. ASSUME NEW sender \in Address, registerIssuer(sender)
      PROVE  UNCHANGED Ledger!ledgerVars
  <2>1. UNCHANGED <<certificateVars, revocations>>
    BY <1>4 DEF registerIssuer
  <2>2. UNCHANGED ledgerAuthorized
    BY <1>1, <1>4 DEF registerIssuer, ledgerAuthorized, isAuthorizedIssuer, TypeOK
  <2> QED
    BY <1>3, <2>1, <2>2
<1>5. ASSUME NEW sender \in Address, NEW a \in Address, verifyIssuer(sender, a)
      PROVE  Ledger!Authorize(a)
  <2>1. UNCHANGED <<certificateVars, revocations>>
    BY <1>5 DEF verifyIssuer
  <2>2. \A b \in Address :
          issuers'[b] = IF b = a THEN [issuers[b] EXCEPT !.isVerified = TRUE] ELSE issuers[b]
    BY <1>1, <1>5 DEF verifyIssuer, TypeOK
  <2>3. ledgerAuthorized' = ledgerAuthorized \cup {a}
    BY <1>1, <1>5, <2>2
       DEF verifyIssuer, ledgerAuthorized, isAuthorizedIssuer, TypeOK, Issuer
  <2> QED
    BY <1>2, <2>1, <2>3
       DEF Ledger!Authorize, ledgerPhase, ledgerAnchoredBy, ledgerRevokedBy, ledgerAuthorized
<1>6. ASSUME NEW sender \in Address, NEW a \in Address, NEW newStatus \in IssuerStatus,
             updateIssuerStatus(sender, a, newStatus)
      PROVE  Ledger!Withdraw(a) \/ UNCHANGED Ledger!ledgerVars
  <2>1. UNCHANGED <<certificateVars, revocations>>
    BY <1>6 DEF updateIssuerStatus
  <2>2. \A b \in Address : b # a => (isAuthorizedIssuer(b)' <=> isAuthorizedIssuer(b))
    BY <1>1, <1>6 DEF updateIssuerStatus, isAuthorizedIssuer, TypeOK
  <2>3. isAuthorizedIssuer(a)' => isAuthorizedIssuer(a)
    <3>1. isAuthorizedIssuer(a)' => staysVerified(a, newStatus)
      BY <1>1, <1>6 DEF updateIssuerStatus, isAuthorizedIssuer, TypeOK
    <3> QED
      BY <3>1 DEF staysVerified, IInv, VerifiedIssuersAreAuthorized
  <2>4. CASE isAuthorizedIssuer(a)'
    <3>1. UNCHANGED ledgerAuthorized
      BY <2>2, <2>3, <2>4 DEF ledgerAuthorized
    <3> QED
      BY <1>3, <2>1, <3>1
  <2>5. CASE ~isAuthorizedIssuer(a)'
    <3>1. ledgerAuthorized' = ledgerAuthorized \ {a}
      BY <2>2, <2>5 DEF ledgerAuthorized
    <3> QED
      BY <1>2, <2>1, <3>1
         DEF Ledger!Withdraw, ledgerPhase, ledgerAnchoredBy, ledgerRevokedBy, ledgerAuthorized
  <2> QED
    BY <2>4, <2>5
<1>7. ASSUME NEW sender \in Address, NEW h \in Hash, NEW to \in Address \cup {ZeroAddress},
             NEW expiryDate \in Expiry, issueCertificate(sender, h, to, expiryDate)
      PROVE  \E hashes \in SUBSET Hash : Ledger!Anchor(sender, hashes)
  BY <1>7, SingleItem, IssueAnchors DEF issueCertificate
<1>8. ASSUME NEW sender \in Address, NEW n \in 1..MaxBatch, NEW hashes \in [1..n -> Hash],
             NEW to \in [1..n -> Address \cup {ZeroAddress}],
             batchIssueCertificates(sender, hashes, to)
      PROVE  \E set \in SUBSET Hash : Ledger!Anchor(sender, set)
  <2> DEFINE items == [i \in 1..Len(hashes) |->
                 [certificateHash |-> hashes[i], recipient |-> to[i], expiryDate |-> 0]]
  <2>1. items \in Seq(Item)
    BY BatchItems
  <2>2. issueAll(sender, items)
    BY <1>8 DEF batchIssueCertificates
  <2> HIDE DEF items
  <2> QED
    BY <2>1, <2>2, IssueAnchors
<1>9. ASSUME NEW sender \in Address, NEW id, revokeCertificate(sender, id)
      PROVE  \E h \in Hash : Ledger!Revoke(sender, h)
  BY <1>9, RevokeRevokes
<1>10. ASSUME mineBlock \/ UNCHANGED vars
       PROVE  UNCHANGED Ledger!ledgerVars
  <2>1. UNCHANGED <<certificateVars, revocations, issuers>>
    BY <1>10 DEF mineBlock, vars, issuerVars
  <2>2. UNCHANGED ledgerAuthorized
    BY <2>1 DEF ledgerAuthorized, isAuthorizedIssuer
  <2> QED
    BY <1>3, <2>1, <2>2
<1>11. \/ Ledger!LedgerNext
       \/ UNCHANGED Ledger!ledgerVars
  BY <1>4, <1>5, <1>6, <1>7, <1>8, <1>9, <1>10
     DEF Next, revokeCertificateByHash, Ledger!LedgerNext
<1> QED
  BY <1>11

(* The deployed contract is the empty ledger.                              *)
LEMMA InitLedger == ContractAssumption /\ Init => Ledger!LedgerInit
<1> SUFFICES ASSUME ContractAssumption, Init PROVE Ledger!LedgerInit
  OBVIOUS
<1>1. \A a \in Address : ~isAuthorizedIssuer(a)
  BY DEF Init, isAuthorizedIssuer
<1>2. \A h \in Hash : phaseOf(h) = "absent"
  BY DEF Init, phaseOf, certificateExists
<1>3. \A h \in Hash : verifyCertificate(h).issuer = ZeroAddress
  BY DEF Init, verifyCertificate
<1> QED
  BY <1>1, <1>2, <1>3 DEF Ledger!LedgerInit

(* The contract implements the ledger: a hash is anchored once, by an      *)
(* authorized issuer, and only that issuer revokes it, for good.           *)
THEOREM ContractImplementsLedger == Spec => ImplementsLedger
<1>1. Init => Ledger!LedgerInit
  BY ContractAssumption, InitLedger
<1>2. IInv /\ [Next]_vars => [Ledger!LedgerNext]_Ledger!ledgerVars
  BY ContractAssumption, StepLedger
<1> QED
  BY <1>1, <1>2, Invariance, PTL DEF Spec, ImplementsLedger, Ledger!LedgerSpec

==============================================================================
