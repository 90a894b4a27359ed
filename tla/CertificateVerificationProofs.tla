-------------------- MODULE CertificateVerificationProofs --------------------
(***************************************************************************)
(* Proofs about CertificateVerification, for any number of requests, any   *)
(* TTL and skew, and any contract that AcademicCertificationProofs speaks  *)
(* of.                                                                     *)
(***************************************************************************)
EXTENDS CertificateVerification, AcademicCertificationProofs

(***************************************************************************)
(* What the contract does to one hash between two reads.                   *)
(***************************************************************************)

(* Once found, a hash keeps its id, issuer and dates; one that appears is  *)
(* issued now; a revocation stays, and a new one is made now.              *)
LEMMA HashStep ==
  ASSUME ContractAssumption, IInv, [Next]_vars, NEW h \in Hash
  PROVE  /\ timestamp' \in {timestamp, timestamp + 1}
         /\ certificateIdByHash[h] # 0 =>
              /\ certificateIdByHash'[h] = certificateIdByHash[h]
              /\ certificatesById'[certificateIdByHash[h]].issuer
                   = certificatesById[certificateIdByHash[h]].issuer
              /\ certificatesById'[certificateIdByHash[h]].issuedDate
                   = certificatesById[certificateIdByHash[h]].issuedDate
              /\ certificatesById'[certificateIdByHash[h]].expiryDate
                   = certificatesById[certificateIdByHash[h]].expiryDate
         /\ certificateIdByHash[h] = 0 /\ certificateIdByHash'[h] # 0 =>
              certificatesById'[certificateIdByHash'[h]].issuedDate = timestamp
         /\ \A c \in DOMAIN revocations :
              c \in DOMAIN revocations' /\ revocations'[c] = revocations[c]
         /\ \A c \in DOMAIN revocations' \ DOMAIN revocations :
              revocations'[c].revocationDate = timestamp
<1> DEFINE
      Kept ==
        certificateIdByHash[h] # 0 =>
          /\ certificateIdByHash'[h] = certificateIdByHash[h]
          /\ certificatesById'[certificateIdByHash[h]].issuer
               = certificatesById[certificateIdByHash[h]].issuer
          /\ certificatesById'[certificateIdByHash[h]].issuedDate
               = certificatesById[certificateIdByHash[h]].issuedDate
          /\ certificatesById'[certificateIdByHash[h]].expiryDate
               = certificatesById[certificateIdByHash[h]].expiryDate
      New ==
        certificateIdByHash[h] = 0 /\ certificateIdByHash'[h] # 0 =>
          certificatesById'[certificateIdByHash'[h]].issuedDate = timestamp
      Revocations ==
        /\ \A c \in DOMAIN revocations :
             c \in DOMAIN revocations' /\ revocations'[c] = revocations[c]
        /\ \A c \in DOMAIN revocations' \ DOMAIN revocations :
             revocations'[c].revocationDate = timestamp
      Effect == timestamp' \in {timestamp, timestamp + 1} /\ Kept /\ New /\ Revocations
<1>1. /\ TypeOK
      /\ IdsAreDense
      /\ RevocationsAgree
      /\ certificateIdByHash[h] # 0 =>
           /\ certificateIdByHash[h] \in certificateIds
           /\ certificatesById[certificateIdByHash[h]].certificateHash = h
      /\ certificateIdByHash[h] # 0 <=> h \in usedHashes
  BY DEF IInv, RegistryAgrees, HashIndexAgrees, certificateExists
<1>2. ASSUME UNCHANGED <<certificatesById, certificateIdByHash, revocations>>,
             timestamp' \in {timestamp, timestamp + 1}
      PROVE  Effect
  BY <1>2
<1>3. ASSUME NEW sender \in Address, NEW items \in Seq(Item), issueAll(sender, items)
      PROVE  Effect
  <2>1. UNCHANGED <<revocations, timestamp>>
    BY <1>3 DEF issueAll
  <2>2. certificateIdByHash'[h] =
          IF \E i \in DOMAIN items : items[i].certificateHash = h
          THEN idOf(indexIn(items, h)) ELSE certificateIdByHash[h]
    BY <1>3 DEF issueAll
  <2>3. certificateIdByHash[h] # 0 => ~ \E i \in DOMAIN items : items[i].certificateHash = h
    BY <1>1, <1>3 DEF issueAll, issuable, acceptable
  <2>4. \A id \in certificateIds : certificatesById'[id] = certificatesById[id]
    BY <1>1, <1>3, IssueEffect
  <2>5. Kept
    BY <1>1, <2>2, <2>3, <2>4
  <2>6. ASSUME NEW i \in DOMAIN items
        PROVE  certificatesById'[idOf(i)].issuedDate = timestamp
    <3>1. idOf(i) \in newIds(items)
      BY DEF newIds
    <3>2. certificatesById'[idOf(i)]
            = newCertificate(sender, items[idOf(i) - nextCertificateId + 1])
      BY <1>1, <1>3, <3>1, IssueEffect
    <3> QED
      BY <3>2 DEF newCertificate
  <2>7. New
    BY <2>2, <2>6 DEF indexIn
  <2> QED
    BY <2>1, <2>5, <2>7
<1>4. ASSUME NEW sender \in Address, NEW id, revokeCertificate(sender, id) PROVE Effect
  <2>1. UNCHANGED <<certificateIdByHash, timestamp>>
    BY <1>4 DEF revokeCertificate
  <2>2. Kept /\ New
    BY <1>1, <1>4, <2>1, RevokeEffect
  <2>3. id \notin DOMAIN revocations
    BY <1>1, <1>4 DEF revokeCertificate, mayRevoke, RevocationsAgree
  <2>4. Revocations
    BY <1>4, <2>3 DEF revokeCertificate
  <2> QED
    BY <2>1, <2>2, <2>4
<1>5. ASSUME NEW sender \in Address, NEW g \in Hash, NEW to \in Address \cup {ZeroAddress},
             NEW expiryDate \in Expiry, issueCertificate(sender, g, to, expiryDate)
      PROVE  Effect
  BY <1>3, <1>5, SingleItem DEF issueCertificate
<1>6. ASSUME NEW sender \in Address, NEW n \in 1..MaxBatch, NEW hashes \in [1..n -> Hash],
             NEW to \in [1..n -> Address \cup {ZeroAddress}],
             batchIssueCertificates(sender, hashes, to)
      PROVE  Effect
  <2> DEFINE items == [i \in 1..Len(hashes) |->
                 [certificateHash |-> hashes[i], recipient |-> to[i], expiryDate |-> 0]]
  <2>1. items \in Seq(Item)
    BY BatchItems
  <2>2. issueAll(sender, items)
    BY <1>6 DEF batchIssueCertificates
  <2> HIDE DEF items, Effect
  <2> QED
    BY <1>3, <2>1, <2>2
<1>7. ASSUME NEW sender \in Address, NEW g \in Hash, revokeCertificateByHash(sender, g)
      PROVE  Effect
  BY <1>4, <1>7 DEF revokeCertificateByHash
<1>8. ASSUME NEW sender \in Address, NEW a \in Address, NEW newStatus \in IssuerStatus,
             \/ registerIssuer(sender) \/ verifyIssuer(sender, a)
             \/ updateIssuerStatus(sender, a, newStatus)
      PROVE  Effect
  BY <1>2, <1>8 DEF registerIssuer, verifyIssuer, updateIssuerStatus, certificateVars
<1>9. ASSUME mineBlock PROVE Effect
  BY <1>2, <1>9 DEF mineBlock, certificateVars
<1>10. ASSUME UNCHANGED vars PROVE Effect
  BY <1>2, <1>10 DEF vars, certificateVars
<1>11. "Active" \in IssuerStatus
  BY DEF IssuerStatus
<1> HIDE DEF Effect
<1>12. Effect
  BY <1>4, <1>5, <1>6, <1>7, <1>8, <1>9, <1>10, <1>11 DEF Next
<1> QED
  BY <1>12 DEF Effect

(* A read of the status tells the certificate's situation, which never says*)
(* valid of an unauthorized issuer nor unauthorized of an authorized one.  *)
Honest(s) ==
  /\ s.verdict = "Valid" => s.authorized
  /\ s.verdict = "Unauthorized" => ~s.authorized

LEMMA SituationIsHonest ==
  ASSUME IInv, NEW h \in Hash
  PROVE  situation(h) \in Situation /\ Honest(situation(h))
<1>1. /\ certificateIdByHash[h] # 0 => certificateIdByHash[h] \in certificateIds
      /\ certificateExists(h) <=> certificateIdByHash[h] # 0
  BY DEF IInv, RegistryAgrees, HashIndexAgrees
<1> DEFINE id == certificateIdByHash[h]
           authorized == isAuthorizedIssuer(certificatesById[id].issuer)
           status == _effectiveCertificateStatus(id)
<1>2. /\ authorized \in BOOLEAN
      /\ status \in {"Valid", "Revoked", "Expired"}
      /\ id # 0 => (_isCertificateValid(id) <=> status = "Valid" /\ authorized)
  BY <1>1 DEF isAuthorizedIssuer, _effectiveCertificateStatus, _isCertificateValid
<1>3. situation(h) =
        [verdict |-> IF id = 0 THEN "NotFound"
                     ELSE IF status # "Valid" THEN status
                     ELSE IF authorized THEN "Valid" ELSE "Unauthorized",
         authorized |-> id # 0 /\ authorized]
  <2> HIDE DEF status, authorized
  <2>1. CASE id = 0
    BY <1>1, <2>1 DEF situation, verdictOf, verifyCertificate
  <2>2. CASE id # 0
    <3>1. verifyCertificate(h).exists = TRUE
          /\ verifyCertificate(h).isValid = _isCertificateValid(id)
          /\ verifyCertificate(h).status = status
      BY <2>2 DEF verifyCertificate, status
    <3> QED
      BY <1>1, <1>2, <2>2, <3>1 DEF situation, verdictOf, issuerOf, authorized
  <2> QED
    BY <2>1, <2>2
<1> HIDE DEF id, status, authorized
<1> QED
  BY <1>2, <1>3 DEF Situation, Verdict, Honest

(* It is what couldHold says of now.                                       *)
LEMMA VerdictHolds ==
  ASSUME IInv, NEW h \in Hash, NEW verdict, verdict = situation(h).verdict
  PROVE  /\ verdict \in Verdict
         /\ verdict # "NotFound" <=> certificateIdByHash[h] # 0
         /\ isRevoked(verdict) => certificateIdByHash[h] \in DOMAIN revocations
         /\ ~isRevoked(verdict) => couldHold(verdict, h, timestamp)
<1> DEFINE id == certificateIdByHash[h]
<1>1. /\ id # 0 => id \in certificateIds
      /\ id # 0 => (certificatesById[id].status = "Revoked" <=> id \in DOMAIN revocations)
      /\ id # 0 => certificatesById[id].expiryDate \in Nat
      /\ timestamp \in Nat
  BY DEF IInv, TypeOK, Certificate, RegistryAgrees, HashIndexAgrees, RevocationsAgree
<1>2. verdict = verdictOf(verifyCertificate(h))
  BY DEF situation
<1>3. CASE id = 0
  <2>1. verdict = "NotFound"
    BY <1>2, <1>3 DEF verdictOf, verifyCertificate
  <2> QED
    BY <1>3, <2>1 DEF couldHold, Verdict, isRevoked
<1>4. CASE id # 0
  <2> DEFINE status == _effectiveCertificateStatus(id)
  <2>1. status = IF certificatesById[id].status = "Revoked" THEN "Revoked"
                 ELSE IF certificatesById[id].expiryDate # 0
                           /\ timestamp > certificatesById[id].expiryDate
                      THEN "Expired" ELSE "Valid"
    BY DEF _effectiveCertificateStatus
  <2> HIDE DEF status
  <2>2. verdict \in (IF status = "Valid" THEN {"Valid", "Unauthorized"} ELSE {status})
    BY <1>2, <1>4 DEF verdictOf, verifyCertificate, status
  <2> QED
    BY <1>1, <1>4, <2>1, <2>2 DEF couldHold, Verdict, isRevoked
<1> QED
  BY <1>3, <1>4

(* And it goes on to be what couldHold says, of that moment.               *)
LEMMA CouldHoldStays ==
  ASSUME ContractAssumption, IInv, [Next]_vars, NEW h \in Hash, NEW verdict,
         NEW moment \in Nat, moment <= timestamp, couldHold(verdict, h, moment)
  PROVE  couldHold(verdict, h, moment)'
<1> DEFINE id == certificateIdByHash[h]
<1>1. /\ timestamp \in Nat
      /\ timestamp' \in {timestamp, timestamp + 1}
  BY HashStep DEF IInv, TypeOK
<1>2. id # 0 =>
        /\ id \in certificateIds
        /\ certificatesById[id].expiryDate \in Nat
        /\ certificateIdByHash'[h] = id
        /\ certificatesById'[id].issuedDate = certificatesById[id].issuedDate
        /\ certificatesById'[id].expiryDate = certificatesById[id].expiryDate
  BY HashStep DEF IInv, TypeOK, Certificate, RegistryAgrees, HashIndexAgrees, certificateExists
<1>3. id = 0 /\ certificateIdByHash'[h] # 0 =>
        certificatesById'[certificateIdByHash'[h]].issuedDate = timestamp
  BY HashStep
<1>4. id \in DOMAIN revocations' =>
        \/ id \in DOMAIN revocations /\ revocations'[id] = revocations[id]
        \/ revocations'[id].revocationDate = timestamp
  BY HashStep
<1>5. CASE verdict = "NotFound"
  BY <1>1, <1>2, <1>3, <1>5 DEF couldHold
<1>6. CASE verdict # "NotFound"
  <2>1. id # 0 /\ certificateIdByHash'[h] = id
    BY <1>2, <1>6 DEF couldHold
  <2>2. id \in DOMAIN revocations' => revocations'[id].revocationDate >= moment
    BY <1>1, <1>4, <1>6 DEF couldHold
  <2>3. certificatesById'[id].expiryDate # 0 =>
          IF verdict = "Expired" THEN certificatesById'[id].expiryDate < timestamp'
          ELSE certificatesById'[id].expiryDate >= moment
    BY <1>1, <1>2, <1>6, <2>1 DEF couldHold
  <2> QED
    BY <1>6, <2>1, <2>2, <2>3 DEF couldHold
<1> QED
  BY <1>5, <1>6

(***************************************************************************)
(* The inductive invariant.  What a request has read stays true of the     *)
(* moment it was read, and the history holds the situations that prove it. *)
(***************************************************************************)

(* The history of a request: honest situations, the present one included.  *)
HistoryInv(r) ==
  /\ \A s \in held[r] : Honest(s)
  /\ \A h \in Hash : running(r) /\ local[r].certificateHash = h => situation(h) \in held[r]

saw(r, b) == \E s \in held[r] : s.authorized = b

(* What a request knows of h by what it has read.                          *)
knows(r, h, verdict, now) ==
  running(r) /\ local[r].certificateHash = h /\ local[r].verdict = verdict /\ local[r].now = now

ReadInv(r, h, verdict, now) ==
  knows(r, h, verdict, now) =>
    /\ now <= timestamp
    /\ pc[r] = "verifyCertificate" => local[r].issuedDate = 0
    /\ pc[r] # "verifyCertificate" =>
         /\ verdict \in verdictsHeld(r)
         /\ verdict # "NotFound" => certificateIdByHash[h] # 0
         /\ isRevoked(verdict) => certificateIdByHash[h] \in DOMAIN revocations
         /\ ~isRevoked(verdict) => couldHold(verdict, h, now)
    /\ pc[r] = "getRevocation" => isRevoked(verdict)
    /\ pc[r] \in {"getCertificateByHash", "getIssuer", "isAuthorizedIssuer"} =>
         verdict # "NotFound"
    /\ local[r].issuedDate # 0 =>
         /\ verdict # "NotFound"
         /\ local[r].issuedDate = certificatesById[certificateIdByHash[h]].issuedDate

(* What a document's request knows of the issuer.                          *)
IssuerInv(r) ==
  running(r) /\ local[r].kind \in DocumentKind /\ local[r].verdict # "NotFound" =>
    /\ pc[r] \in {"isAuthorizedIssuer", "getCertificateRecordByHash", "getRevocation", "answer"} =>
         saw(r, local[r].operational)
    /\ pc[r] \in {"getCertificateRecordByHash", "getRevocation", "answer"} =>
         saw(r, local[r].issuerAuthorized)

(* A cached answer is what a request knew when it came.                    *)
CacheInv ==
  \A h \in Hash, verdict \in Verdict, moment \in Nat :
    (/\ verifyCache[h].verdict = verdict
     /\ verifyCache[h].expiresAt = moment + TTL
     /\ verifyCache[h] # NoEntry) =>
      /\ ~isRevoked(verdict)
      /\ moment <= timestamp
      /\ couldHold(verdict, h, moment)
CacheLives == \A h \in Hash : verifyCache[h] # NoEntry => verifyCache[h].expiresAt >= TTL

RequestInv(r) ==
  /\ HistoryInv(r)
  /\ IssuerInv(r)
  /\ \A h \in Hash, verdict \in Verdict, now \in Nat : ReadInv(r, h, verdict, now)
RequestsInv == \A r \in Request : RequestInv(r)

VInv ==
  /\ IInv
  /\ VerificationTypeOK
  /\ CacheLives
  /\ CacheInv
  /\ RequestsInv

(* Nothing has been asked yet.                                             *)
LEMMA InitVInv == ContractAssumption /\ VerificationAssumption /\ VerificationInit => VInv
<1> SUFFICES ASSUME ContractAssumption, VerificationAssumption, VerificationInit PROVE VInv
  OBVIOUS
<1>1. IInv
  BY InitInv DEF VerificationInit
<1>2. VerificationTypeOK
  BY DEF VerificationInit, VerificationTypeOK, NoEntry, Entry, Verdict, Stage, running
<1>3. CacheLives /\ CacheInv
  BY DEF VerificationInit, CacheLives, CacheInv
<1>4. RequestsInv
  BY DEF VerificationInit, RequestsInv, RequestInv, HistoryInv, IssuerInv, ReadInv, knows, running
<1> QED
  BY <1>1, <1>2, <1>3, <1>4 DEF VInv

(* A step of the server alone leaves every situation as it is.             *)
LEMMA SameContract ==
  ASSUME UNCHANGED vars
  PROVE  /\ \A h \in Hash : situation(h)' = situation(h)
         /\ \A h \in Hash : \A verdict, moment :
              couldHold(verdict, h, moment)' <=> couldHold(verdict, h, moment)
<1>1. \A h \in Hash : situation(h)' = situation(h)
  BY DEF vars, issuerVars, certificateVars, situation, verdictOf, verifyCertificate,
         certificateExists, issuerOf, isAuthorizedIssuer, _isCertificateValid,
         _effectiveCertificateStatus, certificateIds
<1>2. ASSUME NEW h \in Hash, NEW verdict, NEW moment
      PROVE  couldHold(verdict, h, moment)' <=> couldHold(verdict, h, moment)
  BY DEF vars, certificateVars, couldHold
<1> QED
  BY <1>1, <1>2

(* A request that does not move keeps what it knows.                       *)
LEMMA Untouched ==
  ASSUME UNCHANGED vars, NEW r \in Request, RequestInv(r),
         UNCHANGED <<pc[r], local[r], held[r]>>
  PROVE  RequestInv(r)'
<1>1. HistoryInv(r)'
  BY SameContract DEF RequestInv, HistoryInv, Honest, running
<1>2. IssuerInv(r)'
  BY DEF RequestInv, IssuerInv, saw, running
<1>3. ASSUME NEW h \in Hash, NEW verdict \in Verdict, NEW now \in Nat
      PROVE  ReadInv(r, h, verdict, now)'
  <2>1. ReadInv(r, h, verdict, now)
    BY DEF RequestInv
  <2>2. couldHold(verdict, h, now)' <=> couldHold(verdict, h, now)
    BY SameContract
  <2> QED
    BY <2>1, <2>2 DEF ReadInv, knows, running, verdictsHeld, isRevoked, vars, certificateVars
<1> QED
  BY <1>1, <1>2, <1>3 DEF RequestInv

(* So a step of one request need only be proved for that request.          *)
LEMMA OneRequest ==
  ASSUME ContractAssumption, VInv, UNCHANGED vars, NEW r \in Request,
         NEW stage, NEW locals, NEW situations,
         pc' = [pc EXCEPT ![r] = stage],
         local' = [local EXCEPT ![r] = locals],
         held' = [held EXCEPT ![r] = situations],
         stage \in Stage, situations \subseteq Situation,
         IF stage = "idle" THEN locals = NoLocals /\ situations = {}
         ELSE locals \in Locals /\ situations # {},
         RequestInv(r)',
         verifyCache' \in [Hash -> Entry], CacheLives', CacheInv'
  PROVE  VInv'
<1>1. IInv'
  BY StepInv DEF VInv
<1>2. /\ pc \in [Request -> Stage]
      /\ local \in [Request -> Locals \cup {NoLocals}]
      /\ held \in [Request -> SUBSET Situation]
  BY DEF VInv, VerificationTypeOK
<1>3. \A q \in Request \ {r} : UNCHANGED <<pc[q], local[q], held[q]>>
  BY <1>2
<1>4. pc'[r] = stage /\ local'[r] = locals /\ held'[r] = situations
  BY <1>2
<1>5. VerificationTypeOK'
  <2>1. /\ pc' \in [Request -> Stage]
        /\ local' \in [Request -> Locals \cup {NoLocals}]
        /\ held' \in [Request -> SUBSET Situation]
    BY <1>2
  <2>2. \A q \in Request \ {r} :
          /\ IF running(q)' THEN local'[q] \in Locals ELSE local'[q] = NoLocals
          /\ running(q)' <=> held'[q] # {}
    BY <1>3 DEF VInv, VerificationTypeOK, running
  <2>3. /\ IF running(r)' THEN local'[r] \in Locals ELSE local'[r] = NoLocals
        /\ running(r)' <=> held'[r] # {}
    BY <1>4 DEF running
  <2> QED
    BY <2>1, <2>2, <2>3 DEF VerificationTypeOK
<1>6. RequestsInv'
  <2>1. ASSUME NEW q \in Request \ {r} PROVE RequestInv(q)'
    BY <1>3, Untouched DEF VInv, RequestsInv
  <2> QED
    BY <2>1 DEF RequestsInv
<1> QED
  BY <1>1, <1>5, <1>6 DEF VInv

(***************************************************************************)
(* The invariant is preserved: the contract first, then each step of a     *)
(* request, then a restart.                                                *)
(***************************************************************************)

(* Whatever the contract does, what was read stays true of its moment, and *)
(* the history of every request grows by the new situation.                *)
LEMMA ChainKeeps == ContractAssumption /\ VInv /\ chainStep => VInv'
<1> SUFFICES ASSUME ContractAssumption, VInv, chainStep PROVE VInv'
  OBVIOUS
<1>1. IInv /\ [Next]_vars /\ timestamp \in Nat /\ timestamp' \in Nat /\ timestamp' >= timestamp
  <2>1. IInv /\ [Next]_vars /\ timestamp \in Nat
    BY DEF VInv, chainStep, IInv, TypeOK
  <2>2. timestamp' = timestamp \/ timestamp' = timestamp + 1
    <3>1. ASSUME NEW sender \in Address, NEW items, issueAll(sender, items)
          PROVE  timestamp' = timestamp
      BY <3>1 DEF issueAll
    <3>2. ASSUME NEW sender \in Address, NEW id, revokeCertificate(sender, id)
          PROVE  timestamp' = timestamp
      BY <3>2 DEF revokeCertificate
    <3> QED
      BY <2>1, <3>1, <3>2 DEF Next, vars, registerIssuer, verifyIssuer, updateIssuerStatus,
         issueCertificate, batchIssueCertificates, revokeCertificateByHash, mineBlock
  <2> QED
    BY <2>1, <2>2
<1>2. IInv'
  BY <1>1, StepInv
<1>3. UNCHANGED <<verifyCache, pc, local>>
  BY DEF chainStep, serverVars
<1>4. ASSUME NEW h \in Hash, NEW verdict, NEW moment \in Nat, moment <= timestamp,
             couldHold(verdict, h, moment)
      PROVE  couldHold(verdict, h, moment)'
  BY <1>1, <1>4, CouldHoldStays
<1>5. ASSUME NEW r \in Request, NEW h \in Hash, running(r), local[r].certificateHash = h
      PROVE  held'[r] = held[r] \cup {situation(h)'}
  <2>1. situation(local[r].certificateHash)' = situation(h)'
    BY <1>3, <1>5 DEF situation, verdictOf, verifyCertificate, certificateExists, issuerOf,
         isAuthorizedIssuer, _isCertificateValid, _effectiveCertificateStatus, certificateIds
  <2> QED
    BY <1>5, <2>1 DEF chainStep
<1>6. \A r \in Request : running(r) => local[r].certificateHash \in Hash
  BY DEF VInv, VerificationTypeOK, Locals
<1>7. \A h \in Hash : situation(h)' \in Situation /\ Honest(situation(h))'
  <2>1. ASSUME NEW h \in Hash PROVE (situation(h) \in Situation /\ Honest(situation(h)))'
    BY <1>2, SituationIsHonest, PTL
  <2> QED
    BY <2>1
<1>8. VerificationTypeOK'
  <2>1. ASSUME NEW r \in Request
        PROVE  /\ held'[r] \in SUBSET Situation
               /\ running(r) <=> held'[r] # {}
    <3>1. CASE running(r)
      BY <1>5, <1>6, <1>7, <3>1 DEF VInv, VerificationTypeOK
    <3>2. CASE ~running(r)
      BY <3>2 DEF chainStep
    <3> QED
      BY <3>1, <3>2
  <2>2. held' = [r \in Request |-> held'[r]]
    BY DEF chainStep
  <2>3. held' \in [Request -> SUBSET Situation]
    BY <2>1, <2>2
  <2> QED
    BY <1>3, <2>1, <2>3 DEF VInv, VerificationTypeOK, running
<1>9. CacheLives' /\ CacheInv'
  BY <1>1, <1>3, <1>4 DEF VInv, CacheLives, CacheInv, isRevoked
<1>10. ASSUME NEW r \in Request PROVE RequestInv(r)'
  <2>1. RequestInv(r)
    BY DEF VInv, RequestsInv
  <2>2. running(r)' <=> running(r)
    BY <1>3 DEF running
  <2>3. CASE ~running(r)
    <3>1. held'[r] = {}
      BY <2>3 DEF chainStep
    <3> QED
      BY <2>2, <2>3, <3>1 DEF RequestInv, HistoryInv, IssuerInv, ReadInv, knows
  <2>4. CASE running(r)
    <3>1. PICK h \in Hash : local[r].certificateHash = h
      BY <1>6, <2>4
    <3>2. held'[r] = held[r] \cup {situation(h)'}
      BY <1>5, <2>4, <3>1
    <3>3. HistoryInv(r)'
      BY <1>3, <1>7, <2>1, <3>1, <3>2 DEF RequestInv, HistoryInv, Honest
    <3>4. IssuerInv(r)'
      BY <1>3, <2>1, <2>2, <3>2 DEF RequestInv, IssuerInv, saw
    <3>5. ASSUME NEW verdict \in Verdict, NEW now \in Nat, knows(r, h, verdict, now)
          PROVE  ReadInv(r, h, verdict, now)'
      <4>1. ReadInv(r, h, verdict, now)
        BY <2>1 DEF RequestInv
      <4>2. /\ certificateIdByHash[h] # 0 =>
                 /\ certificateIdByHash'[h] = certificateIdByHash[h]
                 /\ certificatesById'[certificateIdByHash[h]].issuedDate
                      = certificatesById[certificateIdByHash[h]].issuedDate
            /\ \A c \in DOMAIN revocations : c \in DOMAIN revocations'
        BY <1>1, HashStep
      <4>3. verdictsHeld(r) \subseteq verdictsHeld(r)'
        BY <3>2 DEF verdictsHeld
      <4>4. now <= timestamp /\ now <= timestamp'
        BY <1>1, <3>5, <4>1 DEF ReadInv
      <4>5. couldHold(verdict, h, now) => couldHold(verdict, h, now)'
        BY <1>4, <4>4
      <4>6. pc[r] \in Stage
        BY DEF VInv, VerificationTypeOK
      <4>7. /\ pc[r] = "verifyCertificate" => local[r].issuedDate = 0
            /\ pc[r] # "verifyCertificate" => (verdict # "NotFound" => certificateIdByHash[h] # 0)
        BY <3>5, <4>1 DEF ReadInv
      <4>8. local'[r].issuedDate # 0 =>
              /\ verdict # "NotFound"
              /\ local'[r].issuedDate = certificatesById'[certificateIdByHash'[h]].issuedDate
        BY <1>3, <3>5, <4>1, <4>2, <4>7 DEF ReadInv
      <4>9. pc[r] # "verifyCertificate" =>
              /\ verdict \in verdictsHeld(r)'
              /\ verdict # "NotFound" => certificateIdByHash'[h] # 0
              /\ isRevoked(verdict) => certificateIdByHash'[h] \in DOMAIN revocations'
              /\ ~isRevoked(verdict) => couldHold(verdict, h, now)'
        BY <3>5, <4>1, <4>2, <4>3, <4>5 DEF ReadInv, isRevoked
      <4> QED
        BY <1>3, <3>5, <4>1, <4>4, <4>8, <4>9 DEF ReadInv, isRevoked
    <3>6. ASSUME NEW g \in Hash, NEW verdict \in Verdict, NEW now \in Nat
          PROVE  ReadInv(r, g, verdict, now)'
      <4>1. CASE knows(r, g, verdict, now)
        BY <3>1, <3>5, <4>1 DEF knows
      <4>2. CASE ~knows(r, g, verdict, now)
        BY <1>3, <2>2, <4>2 DEF ReadInv, knows
      <4> QED
        BY <4>1, <4>2
    <3> QED
      BY <3>3, <3>4, <3>6 DEF RequestInv
  <2> QED
    BY <2>3, <2>4
<1> QED
  BY <1>2, <1>8, <1>9, <1>10 DEF VInv, RequestsInv

(* What is true of a request about to make a step.                         *)
LEMMA RunningRequest ==
  ASSUME VInv, NEW r \in Request, running(r)
  PROVE  /\ local[r] \in Locals
         /\ pc[r] \in Stage
         /\ RequestInv(r)
         /\ held[r] \subseteq Situation
         /\ held[r] # {}
         /\ \E h \in Hash, verdict \in Verdict, now \in Nat : knows(r, h, verdict, now)
<1>1. local[r] \in Locals /\ pc[r] \in Stage /\ held[r] \subseteq Situation /\ held[r] # {}
  BY DEF VInv, VerificationTypeOK
<1>2. RequestInv(r)
  BY DEF VInv, RequestsInv
<1>3. \E h \in Hash, verdict \in Verdict, now \in Nat : knows(r, h, verdict, now)
  BY <1>1 DEF knows, Locals
<1> QED
  BY <1>1, <1>2, <1>3

(* A read leaves the cache and the history alone: besides the types, what  *)
(* the request knows afterwards is left to prove.                          *)
LEMMA ReadStep ==
  ASSUME ContractAssumption, VInv, NEW r \in Request, running(r),
         NEW locals \in Locals, took(r, locals),
         locals.certificateHash = local[r].certificateHash,
         stageAfter(pc[r], locals.kind, locals.verdict) \in Stage \ {"idle"},
         IssuerInv(r)',
         \A h \in Hash, verdict \in Verdict, now \in Nat : ReadInv(r, h, verdict, now)'
  PROVE  VInv'
<1> DEFINE stage == stageAfter(pc[r], locals.kind, locals.verdict)
<1>1. /\ UNCHANGED vars
      /\ pc' = [pc EXCEPT ![r] = stage]
      /\ local' = [local EXCEPT ![r] = locals]
      /\ UNCHANGED <<verifyCache, held>>
  BY DEF took
<1>2. /\ local \in [Request -> Locals \cup {NoLocals}]
      /\ held \in [Request -> SUBSET Situation]
      /\ verifyCache \in [Hash -> Entry]
  BY DEF VInv, VerificationTypeOK
<1>3. held' = [held EXCEPT ![r] = held[r]]
  BY <1>1, <1>2
<1>4. HistoryInv(r)'
  <2>1. local'[r].certificateHash = local[r].certificateHash
    BY <1>1, <1>2
  <2>2. HistoryInv(r)
    BY RunningRequest DEF RequestInv
  <2> QED
    BY <1>1, <2>1, <2>2, SameContract DEF HistoryInv, Honest, running
<1>5. RequestInv(r)'
  BY <1>4 DEF RequestInv
<1>6. CacheLives' /\ CacheInv'
  <2>1. CacheLives'
    BY <1>1 DEF VInv, CacheLives
  <2>2. CacheInv'
    BY <1>1, SameContract DEF VInv, CacheInv, isRevoked, vars
  <2> QED
    BY <2>1, <2>2
<1>7. held[r] \subseteq Situation /\ held[r] # {}
  BY RunningRequest
<1>8. verifyCache' \in [Hash -> Entry]
  BY <1>1, <1>2
<1> HIDE DEF stage
<1>9. stage \in Stage /\ stage # "idle"
  BY DEF stage
<1> QED
  BY <1>1, <1>3, <1>5, <1>6, <1>7, <1>8, <1>9, OneRequest

(* A read that keeps what the request knows of the certificate.            *)
LEMMA KnowledgeKept ==
  ASSUME VInv, NEW r \in Request, running(r), pc[r] # "verifyCertificate",
         NEW locals \in Locals, took(r, locals),
         locals.certificateHash = local[r].certificateHash,
         locals.verdict = local[r].verdict, locals.now = local[r].now,
         locals.issuedDate = local[r].issuedDate,
         stageAfter(pc[r], locals.kind, locals.verdict) # "verifyCertificate",
         stageAfter(pc[r], locals.kind, locals.verdict) = "getRevocation"
           => isRevoked(locals.verdict),
         stageAfter(pc[r], locals.kind, locals.verdict)
           \in {"getCertificateByHash", "getIssuer", "isAuthorizedIssuer"}
           => locals.verdict # "NotFound"
  PROVE  \A h \in Hash, verdict \in Verdict, now \in Nat : ReadInv(r, h, verdict, now)'
<1> DEFINE stage == stageAfter(pc[r], locals.kind, locals.verdict)
<1> SUFFICES ASSUME NEW h \in Hash, NEW verdict \in Verdict, NEW now \in Nat,
                    knows(r, h, verdict, now)'
             PROVE  ReadInv(r, h, verdict, now)'
  BY DEF ReadInv
<1>1. /\ pc \in [Request -> Stage]
      /\ local \in [Request -> Locals \cup {NoLocals}]
  BY DEF VInv, VerificationTypeOK
<1>2. /\ UNCHANGED <<vars, held>>
      /\ pc'[r] = stage
      /\ local'[r] = locals
  BY <1>1 DEF took
<1>3. knows(r, h, verdict, now)
  BY <1>2 DEF knows
<1>4. ReadInv(r, h, verdict, now)
  BY RunningRequest DEF RequestInv
<1>5. couldHold(verdict, h, now)' <=> couldHold(verdict, h, now)
  BY <1>2, SameContract
<1>6. locals.verdict = verdict
  BY <1>3 DEF knows
<1> HIDE DEF stage
<1>7. /\ stage # "verifyCertificate"
      /\ stage = "getRevocation" => isRevoked(verdict)
      /\ stage \in {"getCertificateByHash", "getIssuer", "isAuthorizedIssuer"}
           => verdict # "NotFound"
  BY <1>6 DEF stage
<1> QED
  BY <1>2, <1>3, <1>4, <1>5, <1>7 DEF ReadInv, verdictsHeld, isRevoked, vars, certificateVars

(* What could hold since a moment could hold since an earlier one.         *)
LEMMA CouldHoldEarlier ==
  ASSUME IInv, NEW h \in Hash, NEW verdict, NEW moment \in Int, NEW earlier \in Int,
         earlier <= moment, couldHold(verdict, h, moment)
  PROVE  couldHold(verdict, h, earlier)
<1> DEFINE id == certificateIdByHash[h]
<1>1. /\ id # 0 => /\ certificatesById[id].issuedDate \in Nat
                   /\ certificatesById[id].expiryDate \in Nat
      /\ id \in DOMAIN revocations => revocations[id].revocationDate \in Nat
  BY DEF IInv, TypeOK, Certificate, Revocation, RegistryAgrees, HashIndexAgrees
<1> QED
  BY <1>1 DEF couldHold

(* The first read finds the present situation, which the history holds.    *)
LEMMA VerifyKeeps ==
  ASSUME ContractAssumption, VInv, NEW r \in Request, verifyCertificateOnChain(r)
  PROVE  VInv'
<1>1. running(r)
  BY DEF verifyCertificateOnChain, running
<1>2. PICK h \in Hash, old \in Verdict, now \in Nat : knows(r, h, old, now)
  BY <1>1, RunningRequest
<1>3. local[r] \in Locals /\ RequestInv(r) /\ held[r] \subseteq Situation
  BY <1>1, RunningRequest
<1>4. PICK verdict \in Verdict : verdict = situation(h).verdict
  BY VerdictHolds DEF VInv
<1> DEFINE locals == [local[r] EXCEPT !.verdict = verdict]
           stage == stageAfter(pc[r], locals.kind, locals.verdict)
<1>5. /\ verdict \in Verdict
      /\ verdict # "NotFound" <=> certificateIdByHash[h] # 0
      /\ isRevoked(verdict) => certificateIdByHash[h] \in DOMAIN revocations
      /\ ~isRevoked(verdict) => couldHold(verdict, h, timestamp)
  BY <1>4, VerdictHolds DEF VInv
<1>6. situation(h) \in held[r]
  BY <1>1, <1>2, <1>3 DEF RequestInv, HistoryInv, knows
<1>7. verdict \in verdictsHeld(r)
  BY <1>6, <1>4 DEF verdictsHeld
<1>8. ReadInv(r, h, old, now)
  BY <1>3 DEF RequestInv
<1>9. now <= timestamp /\ local[r].issuedDate = 0
  BY <1>2, <1>8 DEF ReadInv, verifyCertificateOnChain
<1>10. ~isRevoked(verdict) => couldHold(verdict, h, now)
  <2>1. timestamp \in Nat
    BY DEF VInv, IInv, TypeOK
  <2> QED
    BY <1>5, <1>9, <2>1, CouldHoldEarlier DEF VInv
<1>11. took(r, locals) /\ pc[r] = "verifyCertificate"
  BY <1>2, <1>4 DEF verifyCertificateOnChain, situation, knows
<1>12. locals \in Locals /\ locals.verdict = verdict /\ locals.kind = local[r].kind
  BY <1>3, <1>5 DEF Locals
<1>13. /\ stage = (IF verdict # "NotFound" THEN "getCertificateByHash"
                   ELSE IF local[r].kind \in ServedKind THEN "getCertificateRecordByHash"
                   ELSE "answer")
       /\ stage \in Stage \ {"idle"}
  BY <1>11, <1>12 DEF stageAfter, Stage
<1>14. /\ pc \in [Request -> Stage]
       /\ local \in [Request -> Locals \cup {NoLocals}]
  BY DEF VInv, VerificationTypeOK
<1>15. pc'[r] = stage /\ local'[r] = locals /\ UNCHANGED <<vars, held>>
  BY <1>11, <1>14 DEF took
<1>16. /\ local'[r].certificateHash = h /\ local'[r].now = now
       /\ local'[r].issuedDate = 0 /\ local'[r].verdict = verdict
  BY <1>2, <1>3, <1>9, <1>12, <1>15 DEF Locals, knows
<1> HIDE DEF locals, stage
<1>17. IssuerInv(r)'
  BY <1>13, <1>15, <1>16 DEF IssuerInv
<1>18. ReadInv(r, h, verdict, now)'
  <2>1. couldHold(verdict, h, now)' <=> couldHold(verdict, h, now)
    BY <1>15, SameContract
  <2> QED
    BY <1>5, <1>7, <1>9, <1>10, <1>13, <1>15, <1>16, <2>1
       DEF ReadInv, verdictsHeld, isRevoked, vars, certificateVars
<1>19. ASSUME NEW g \in Hash, NEW said \in Verdict, NEW then \in Nat
       PROVE  ReadInv(r, g, said, then)'
  <2>1. CASE knows(r, g, said, then)'
    <3>1. g = h /\ said = verdict /\ then = now
      BY <1>16, <2>1 DEF knows
    <3> QED
      BY <1>18, <3>1 DEF ReadInv
  <2>2. CASE ~knows(r, g, said, then)'
    BY <2>2 DEF ReadInv
  <2> QED
    BY <2>1, <2>2
<1>20. locals.certificateHash = local[r].certificateHash
  BY <1>2, <1>15, <1>16 DEF knows
<1> QED
  BY <1>1, <1>11, <1>12, <1>13, <1>17, <1>19, <1>20, ReadStep DEF stage

(* The second read takes the date of the certificate, which never changes. *)
LEMMA GetCertificateKeeps ==
  ASSUME ContractAssumption, VInv, NEW r \in Request, getCertificateByHash(r)
  PROVE  VInv'
<1>1. running(r) /\ pc[r] = "getCertificateByHash"
  BY DEF getCertificateByHash, running
<1>2. PICK h \in Hash, verdict \in Verdict, now \in Nat : knows(r, h, verdict, now)
  BY <1>1, RunningRequest
<1>3. local[r] \in Locals /\ RequestInv(r) /\ ReadInv(r, h, verdict, now)
  BY <1>1, RunningRequest DEF RequestInv
<1> DEFINE date == certificatesById[certificateIdByHash[h]].issuedDate
           locals == [local[r] EXCEPT !.issuedDate = date]
           stage == stageAfter(pc[r], locals.kind, locals.verdict)
<1>4. took(r, locals) /\ certificateIdByHash[h] # 0
  BY <1>2 DEF getCertificateByHash, knows
<1>5. date \in Nat
  BY <1>4 DEF VInv, IInv, TypeOK, Certificate, RegistryAgrees, HashIndexAgrees
<1> HIDE DEF date
<1>6. /\ locals \in Locals /\ locals.verdict = verdict /\ locals.kind = local[r].kind
      /\ locals.certificateHash = h /\ locals.now = now /\ locals.issuedDate = date
  BY <1>2, <1>3, <1>5 DEF Locals, knows
<1>7. stage = IF locals.kind = "hash" /\ isRevoked(verdict) THEN "getRevocation" ELSE "getIssuer"
  BY <1>1, <1>6 DEF stageAfter
<1>8. /\ pc \in [Request -> Stage]
      /\ local \in [Request -> Locals \cup {NoLocals}]
  BY DEF VInv, VerificationTypeOK
<1>9. pc'[r] = stage /\ local'[r] = locals /\ UNCHANGED <<vars, held>>
  BY <1>4, <1>8 DEF took
<1>10. stage \in Stage \ {"idle"} /\ stage \in {"getRevocation", "getIssuer"}
  BY <1>7 DEF Stage
<1> HIDE DEF locals, stage
<1>11. IssuerInv(r)'
  <2>1. locals.kind \in DocumentKind => stage = "getIssuer"
    BY <1>7 DEF DocumentKind
  <2> QED
    BY <1>9, <2>1 DEF IssuerInv
<1>12. ReadInv(r, h, verdict, now)'
  <2>1. couldHold(verdict, h, now)' <=> couldHold(verdict, h, now)
    BY <1>9, SameContract
  <2>2. date = certificatesById'[certificateIdByHash'[h]].issuedDate
    BY <1>9 DEF date, vars, certificateVars
  <2>3. stage = "getRevocation" => isRevoked(verdict)
    BY <1>7
  <2> QED
    BY <1>1, <1>2, <1>3, <1>6, <1>9, <1>10, <2>1, <2>2, <2>3
       DEF ReadInv, verdictsHeld, isRevoked, vars, certificateVars
<1>13. ASSUME NEW g \in Hash, NEW said \in Verdict, NEW then \in Nat
       PROVE  ReadInv(r, g, said, then)'
  <2>1. CASE knows(r, g, said, then)'
    <3>1. g = h /\ said = verdict /\ then = now
      BY <1>6, <1>9, <2>1 DEF knows
    <3> QED
      BY <1>12, <3>1 DEF ReadInv
  <2>2. CASE ~knows(r, g, said, then)'
    BY <2>2 DEF ReadInv
  <2> QED
    BY <2>1, <2>2
<1>14. locals.certificateHash = local[r].certificateHash
  BY <1>2, <1>6 DEF knows
<1> QED
  BY <1>1, <1>4, <1>6, <1>10, <1>11, <1>13, <1>14, ReadStep DEF stage

(* The reads of the issuer tell whether it is authorized now: isVerified   *)
(* and Active mean registered, too.                                        *)
LEMMA OperationalMeansAuthorized ==
  ASSUME IInv, NEW h \in Hash, certificateIdByHash[h] # 0
  PROVE  /\ situation(h).authorized = isAuthorizedIssuer(issuerOf(h))
         /\ situation(h).authorized = operational(issuers[issuerOf(h)])
         /\ situation(h).authorized \in BOOLEAN
<1>1. issuerOf(h) \in Address /\ certificateExists(h)
  BY DEF IInv, TypeOK, Certificate, RegistryAgrees, HashIndexAgrees, issuerOf
<1>2. /\ isAuthorizedIssuer(issuerOf(h)) \in BOOLEAN
      /\ operational(issuers[issuerOf(h)]) \in BOOLEAN
  BY DEF isAuthorizedIssuer, operational
<1>3. isAuthorizedIssuer(issuerOf(h)) <=> operational(issuers[issuerOf(h)])
  BY <1>1 DEF IInv, VerifiedIssuersAreAuthorized, isAuthorizedIssuer, operational
<1>4. situation(h).authorized = (certificateExists(h) /\ isAuthorizedIssuer(issuerOf(h)))
  BY DEF situation
<1> QED
  BY <1>1, <1>2, <1>3, <1>4

(* What a request reads of the issuer is in its history.                   *)
LEMMA IssuerIsSeen ==
  ASSUME VInv, NEW r \in Request, running(r),
         pc[r] \in {"getIssuer", "isAuthorizedIssuer"}
  PROVE  /\ saw(r, operational(issuers[issuerOf(local[r].certificateHash)]))
         /\ saw(r, isAuthorizedIssuer(issuerOf(local[r].certificateHash)))
         /\ operational(issuers[issuerOf(local[r].certificateHash)]) \in BOOLEAN
         /\ isAuthorizedIssuer(issuerOf(local[r].certificateHash)) \in BOOLEAN
<1>1. PICK h \in Hash, verdict \in Verdict, now \in Nat : knows(r, h, verdict, now)
  BY RunningRequest
<1>2. RequestInv(r)
  BY RunningRequest
<1>3. situation(h) \in held[r] /\ certificateIdByHash[h] # 0
  BY <1>1, <1>2 DEF RequestInv, HistoryInv, ReadInv, knows
<1>4. local[r].certificateHash = h
  BY <1>1 DEF knows
<1> QED
  BY <1>3, <1>4, OperationalMeansAuthorized DEF VInv, saw

(* So the profile read for a document is in its history,                   *)
LEMMA GetIssuerKeeps ==
  ASSUME ContractAssumption, VInv, NEW r \in Request, getIssuerByAddress(r)
  PROVE  VInv'
<1>1. running(r) /\ pc[r] = "getIssuer"
  BY DEF getIssuerByAddress, running
<1>2. PICK b \in BOOLEAN : b = operational(issuers[issuerOf(local[r].certificateHash)])
  BY <1>1, IssuerIsSeen
<1>3. local[r] \in Locals /\ RequestInv(r) /\ saw(r, b)
  BY <1>1, <1>2, RunningRequest, IssuerIsSeen
<1> DEFINE locals == [local[r] EXCEPT !.operational = b]
           stage == stageAfter(pc[r], locals.kind, locals.verdict)
<1>4. took(r, locals)
  BY <1>2 DEF getIssuerByAddress
<1>5. /\ locals \in Locals /\ locals.operational = b
      /\ locals.kind = local[r].kind /\ locals.verdict = local[r].verdict
      /\ locals.certificateHash = local[r].certificateHash
      /\ locals.now = local[r].now /\ locals.issuedDate = local[r].issuedDate
  BY <1>3 DEF Locals
<1>6. stage = IF locals.kind = "hash" THEN "getCertificateRecordByHash" ELSE "isAuthorizedIssuer"
  BY <1>1 DEF stageAfter
<1>7. /\ pc \in [Request -> Stage]
      /\ local \in [Request -> Locals \cup {NoLocals}]
  BY DEF VInv, VerificationTypeOK
<1>8. pc'[r] = stage /\ local'[r] = locals /\ UNCHANGED <<vars, held>>
  BY <1>4, <1>7 DEF took
<1> HIDE DEF locals, stage
<1>9. IssuerInv(r)'
  <2>1. locals.kind \in DocumentKind => stage = "isAuthorizedIssuer"
    BY <1>6 DEF DocumentKind
  <2> QED
    BY <1>3, <1>5, <1>8, <2>1 DEF IssuerInv, saw
<1>10. locals.verdict # "NotFound"
  <2>1. PICK h \in Hash, verdict \in Verdict, now \in Nat : knows(r, h, verdict, now)
    BY <1>1, RunningRequest
  <2> QED
    BY <1>1, <1>3, <1>5, <2>1 DEF RequestInv, ReadInv, knows
<1>11. \A h \in Hash, verdict \in Verdict, now \in Nat : ReadInv(r, h, verdict, now)'
  BY <1>1, <1>4, <1>5, <1>6, <1>10, KnowledgeKept DEF stage
<1>12. stage \in Stage \ {"idle"}
  BY <1>6 DEF Stage
<1> QED
  BY <1>1, <1>4, <1>5, <1>9, <1>11, <1>12, ReadStep DEF stage

(* and so is the authorization.                                            *)
LEMMA IsAuthorizedKeeps ==
  ASSUME ContractAssumption, VInv, NEW r \in Request, isIssuerAuthorizedOnChain(r)
  PROVE  VInv'
<1>1. running(r) /\ pc[r] = "isAuthorizedIssuer"
  BY DEF isIssuerAuthorizedOnChain, running
<1>2. PICK b \in BOOLEAN : b = isAuthorizedIssuer(issuerOf(local[r].certificateHash))
  BY <1>1, IssuerIsSeen
<1>3. local[r] \in Locals /\ RequestInv(r) /\ saw(r, b)
  BY <1>1, <1>2, RunningRequest, IssuerIsSeen
<1> DEFINE locals == [local[r] EXCEPT !.issuerAuthorized = b]
           stage == stageAfter(pc[r], locals.kind, locals.verdict)
<1>4. took(r, locals)
  BY <1>2 DEF isIssuerAuthorizedOnChain
<1>5. /\ locals \in Locals /\ locals.issuerAuthorized = b
      /\ locals.operational = local[r].operational
      /\ locals.kind = local[r].kind /\ locals.verdict = local[r].verdict
      /\ locals.certificateHash = local[r].certificateHash
      /\ locals.now = local[r].now /\ locals.issuedDate = local[r].issuedDate
  BY <1>3 DEF Locals
<1>6. stage = IF locals.kind \in ServedKind THEN "getCertificateRecordByHash"
              ELSE IF isRevoked(locals.verdict) THEN "getRevocation" ELSE "answer"
  BY <1>1 DEF stageAfter
<1>7. /\ pc \in [Request -> Stage]
      /\ local \in [Request -> Locals \cup {NoLocals}]
  BY DEF VInv, VerificationTypeOK
<1>8. pc'[r] = stage /\ local'[r] = locals /\ UNCHANGED <<vars, held>>
  BY <1>4, <1>7 DEF took
<1> HIDE DEF locals, stage
<1>9. IssuerInv(r)'
  BY <1>1, <1>3, <1>5, <1>8 DEF RequestInv, IssuerInv, saw, running
<1>10. /\ stage \in {"getCertificateRecordByHash", "getRevocation", "answer"}
       /\ stage = "getRevocation" => isRevoked(locals.verdict)
  BY <1>6
<1>11. \A h \in Hash, verdict \in Verdict, now \in Nat : ReadInv(r, h, verdict, now)'
  BY <1>1, <1>4, <1>5, <1>10, KnowledgeKept DEF stage
<1>12. stage \in Stage \ {"idle"}
  BY <1>10 DEF Stage
<1> QED
  BY <1>1, <1>4, <1>5, <1>9, <1>11, <1>12, ReadStep DEF stage

(* The reads for the answer's details change nothing of what is known.     *)
LEMMA DetailsKeep ==
  ASSUME ContractAssumption, VInv, NEW r \in Request,
         getCertificateRecordByHash(r) \/ getRevocationByCertificateId(r)
  PROVE  VInv'
<1> DEFINE stage == stageAfter(pc[r], local[r].kind, local[r].verdict)
<1>1. running(r) /\ pc[r] \in {"getCertificateRecordByHash", "getRevocation"}
  BY DEF getCertificateRecordByHash, getRevocationByCertificateId, running
<1>2. local[r] \in Locals /\ RequestInv(r)
  BY <1>1, RunningRequest
<1>3. took(r, local[r])
  BY DEF getCertificateRecordByHash, getRevocationByCertificateId
<1>4. /\ stage \in {"getCertificateRecordByHash", "getRevocation", "answer"}
      /\ stage = "getRevocation" => isRevoked(local[r].verdict)
      /\ stage # "answer" => stage \in {"getCertificateRecordByHash", "getRevocation"}
  BY <1>1 DEF stageAfter
<1>5. /\ pc \in [Request -> Stage]
      /\ local \in [Request -> Locals \cup {NoLocals}]
  BY DEF VInv, VerificationTypeOK
<1>6. pc'[r] = stage /\ local'[r] = local[r] /\ UNCHANGED <<vars, held>>
  BY <1>3, <1>5 DEF took
<1> HIDE DEF stage
<1>7. IssuerInv(r)'
  BY <1>1, <1>2, <1>4, <1>6 DEF RequestInv, IssuerInv, saw, running
<1>8. \A h \in Hash, verdict \in Verdict, now \in Nat : ReadInv(r, h, verdict, now)'
  BY <1>1, <1>2, <1>3, <1>4, KnowledgeKept DEF stage
<1>9. stage \in Stage \ {"idle"}
  BY <1>4 DEF Stage
<1> QED
  BY <1>1, <1>2, <1>3, <1>7, <1>8, <1>9, ReadStep DEF stage

(* A request that starts knows nothing but its hash and the moment.        *)
LEMMA StartKeeps ==
  ASSUME ContractAssumption, VInv, NEW r \in Request, NEW kind \in Kind, NEW h \in Hash,
         startRequest(r, kind, h)
  PROVE  VInv'
<1>1. PICK now \in Nat : now = timestamp
  BY DEF VInv, IInv, TypeOK
<1> DEFINE locals ==
      [kind |-> kind, certificateHash |-> h, now |-> now, verdict |-> "NotFound",
       issuedDate |-> 0, operational |-> FALSE, issuerAuthorized |-> FALSE]
<1>2. /\ UNCHANGED <<vars, verifyCache>>
      /\ pc' = [pc EXCEPT ![r] = "verifyCertificate"]
      /\ local' = [local EXCEPT ![r] = locals]
      /\ held' = [held EXCEPT ![r] = {situation(h)}]
  BY <1>1 DEF startRequest
<1>3. /\ locals \in Locals /\ locals.certificateHash = h /\ locals.now = now
      /\ locals.verdict = "NotFound" /\ locals.issuedDate = 0
  BY DEF Locals, Verdict
<1> HIDE DEF locals
<1>4. /\ pc \in [Request -> Stage]
      /\ local \in [Request -> Locals \cup {NoLocals}]
      /\ held \in [Request -> SUBSET Situation]
      /\ verifyCache \in [Hash -> Entry]
  BY DEF VInv, VerificationTypeOK
<1>5. pc'[r] = "verifyCertificate" /\ local'[r] = locals /\ held'[r] = {situation(h)}
  BY <1>2, <1>4
<1>6. situation(h) \in Situation /\ Honest(situation(h)) /\ situation(h)' = situation(h)
  BY <1>2, SituationIsHonest, SameContract DEF VInv
<1>7. HistoryInv(r)'
  BY <1>3, <1>5, <1>6 DEF HistoryInv, Honest
<1>8. IssuerInv(r)'
  BY <1>5 DEF IssuerInv
<1>9. ASSUME NEW g \in Hash, NEW verdict \in Verdict, NEW then \in Nat
      PROVE  ReadInv(r, g, verdict, then)'
  <2>1. timestamp' = timestamp /\ timestamp \in Nat
    BY <1>2 DEF vars, VInv, IInv, TypeOK
  <2> QED
    BY <1>1, <1>3, <1>5, <2>1 DEF ReadInv, knows
<1>10. CacheLives' /\ CacheInv'
  <2>1. CacheLives'
    BY <1>2 DEF VInv, CacheLives
  <2>2. CacheInv'
    BY <1>2, SameContract DEF VInv, CacheInv, isRevoked, vars
  <2> QED
    BY <2>1, <2>2
<1>11. RequestInv(r)'
  BY <1>7, <1>8, <1>9 DEF RequestInv
<1>12. verifyCache' \in [Hash -> Entry]
  BY <1>2, <1>4
<1>13. PICK situations \in SUBSET Situation : situations = {situation(h)}
  BY <1>6
<1>14. held' = [held EXCEPT ![r] = situations] /\ situations # {}
  BY <1>2, <1>13
<1>15. "verifyCertificate" \in Stage
  BY DEF Stage
<1> QED
  BY <1>2, <1>3, <1>10, <1>11, <1>12, <1>13, <1>14, <1>15, OneRequest

(* The end of a request forgets it; the cache is left to prove.            *)
LEMMA FinishStep ==
  ASSUME ContractAssumption, VInv, NEW r \in Request, finish(r),
         verifyCache' \in [Hash -> Entry], CacheLives', CacheInv'
  PROVE  VInv'
<1>1. /\ UNCHANGED vars
      /\ pc' = [pc EXCEPT ![r] = "idle"]
      /\ local' = [local EXCEPT ![r] = NoLocals]
      /\ held' = [held EXCEPT ![r] = {}]
  BY DEF finish
<1>2. pc'[r] = "idle" /\ held'[r] = {}
  BY <1>1 DEF VInv, VerificationTypeOK
<1>3. RequestInv(r)'
  BY <1>2 DEF RequestInv, HistoryInv, IssuerInv, ReadInv, knows, running
<1>4. "idle" \in Stage
  BY DEF Stage
<1> QED
  BY <1>1, <1>3, <1>4, OneRequest

(* An error, and an answer about a document, leave the cache alone.        *)
LEMMA CacheUntouched ==
  ASSUME VInv, UNCHANGED <<vars, verifyCache>>
  PROVE  verifyCache' \in [Hash -> Entry] /\ CacheLives' /\ CacheInv'
<1>1. verifyCache' \in [Hash -> Entry]
  BY DEF VInv, VerificationTypeOK
<1>2. CacheLives'
  BY DEF VInv, CacheLives
<1>3. CacheInv'
  BY SameContract DEF VInv, CacheInv, isRevoked, vars
<1> QED
  BY <1>1, <1>2, <1>3

(* An answer about a hash caches what the request knew when it came.       *)
LEMMA AnswerHashKeeps ==
  ASSUME ContractAssumption, VerificationAssumption, VInv, NEW r \in Request, answerHash(r)
  PROVE  VInv'
<1>1. running(r) /\ pc[r] = "answer" /\ finish(r) /\ UNCHANGED vars
  BY DEF answerHash, running, finish
<1>2. CASE UNCHANGED verifyCache
  BY <1>1, <1>2, CacheUntouched, FinishStep
<1>3. CASE /\ local[r].kind = "hash" /\ ~isRevoked(local[r].verdict)
           /\ verifyCache' = [verifyCache EXCEPT ![local[r].certificateHash] = entryFor(r)]
  <2>1. PICK h \in Hash, verdict \in Verdict, now \in Nat : knows(r, h, verdict, now)
    BY <1>1, RunningRequest
  <2>2. ReadInv(r, h, verdict, now)
    BY <1>1, RunningRequest DEF RequestInv
  <2> DEFINE entry == [expiresAt |-> now + TTL, verdict |-> verdict]
  <2>3. verifyCache' = [verifyCache EXCEPT ![h] = entry]
    BY <1>3, <2>1 DEF knows, entryFor
  <2>4. entry \in Entry
    BY DEF Entry, VerificationAssumption
  <2>5. verifyCache \in [Hash -> Entry]
    BY DEF VInv, VerificationTypeOK
  <2>6. verifyCache'[h] = entry /\ \A g \in Hash \ {h} : verifyCache'[g] = verifyCache[g]
    BY <2>3, <2>5
  <2>7. verifyCache' \in [Hash -> Entry]
    BY <2>3, <2>4, <2>5
  <2>8. CacheLives'
    BY <2>6 DEF VInv, CacheLives, VerificationAssumption
  <2>9. /\ ~isRevoked(verdict) /\ now <= timestamp
        /\ couldHold(verdict, h, now)
    BY <1>1, <1>3, <2>1, <2>2 DEF ReadInv, knows
  <2>10. ASSUME NEW g \in Hash, NEW said \in Verdict, NEW moment \in Nat,
                verifyCache'[g].verdict = said, verifyCache'[g].expiresAt = moment + TTL,
                verifyCache'[g] # NoEntry
         PROVE  /\ ~isRevoked(said) /\ moment <= timestamp
                /\ couldHold(said, g, moment)
    <3>1. CASE g = h
      <4>1. said = verdict /\ moment = now
        BY <2>6, <2>10, <3>1 DEF VerificationAssumption
      <4> QED
        BY <2>9, <3>1, <4>1
    <3>2. CASE g # h
      BY <2>6, <2>10, <3>2 DEF VInv, CacheInv
    <3> QED
      BY <3>1, <3>2
  <2>11. CacheInv'
    <3> HIDE DEF entry
    <3>1. timestamp' = timestamp
      BY <1>1 DEF vars
    <3>2. ASSUME NEW g \in Hash, NEW said \in Verdict, NEW moment \in Nat
          PROVE  couldHold(said, g, moment)' <=> couldHold(said, g, moment)
      BY <1>1, SameContract
    <3> QED
      BY <2>10, <3>1, <3>2 DEF CacheInv, isRevoked
  <2> QED
    BY <1>1, <2>7, <2>8, <2>11, FinishStep
<1> QED
  BY <1>2, <1>3 DEF answerHash

(* A restart empties the cache and ends the requests of the backend.       *)
LEMMA RestartKeeps == ContractAssumption /\ VInv /\ restart => VInv'
<1> SUFFICES ASSUME ContractAssumption, VInv, restart PROVE VInv'
  OBVIOUS
<1>1. IInv' /\ UNCHANGED vars
  BY StepInv DEF VInv, restart
<1>2. verifyCache' \in [Hash -> Entry] /\ CacheLives' /\ CacheInv'
  <2>1. \A h \in Hash : verifyCache'[h] = NoEntry
    BY DEF restart
  <2>2. verifyCache' \in [Hash -> Entry]
    BY DEF restart, NoEntry, Entry, Verdict
  <2> QED
    BY <2>1, <2>2 DEF CacheLives, CacheInv
<1>3. ASSUME NEW r \in Request
      PROVE  \/ UNCHANGED <<pc[r], local[r], held[r]>>
             \/ pc'[r] = "idle" /\ local'[r] = NoLocals /\ held'[r] = {}
  BY DEF restart
<1>4. VerificationTypeOK'
  <2>1. /\ pc' \in [Request -> Stage]
        /\ local' \in [Request -> Locals \cup {NoLocals}]
        /\ held' \in [Request -> SUBSET Situation]
    <3>1. "idle" \in Stage
      BY DEF Stage
    <3> QED
      BY <3>1 DEF VInv, VerificationTypeOK, restart
  <2>2. ASSUME NEW r \in Request
        PROVE  /\ IF running(r)' THEN local'[r] \in Locals ELSE local'[r] = NoLocals
               /\ running(r)' <=> held'[r] # {}
    <3>1. CASE UNCHANGED <<pc[r], local[r], held[r]>>
      BY <3>1 DEF VInv, VerificationTypeOK, running
    <3>2. CASE pc'[r] = "idle" /\ local'[r] = NoLocals /\ held'[r] = {}
      BY <3>2 DEF running
    <3> QED
      BY <1>3, <3>1, <3>2
  <2> QED
    BY <1>2, <2>1, <2>2 DEF VerificationTypeOK
<1>5. ASSUME NEW r \in Request PROVE RequestInv(r)'
  <2>1. CASE UNCHANGED <<pc[r], local[r], held[r]>>
    BY <1>1, <2>1, Untouched DEF VInv, RequestsInv
  <2>2. CASE pc'[r] = "idle" /\ held'[r] = {}
    BY <2>2 DEF RequestInv, HistoryInv, IssuerInv, ReadInv, knows, running
  <2> QED
    BY <1>3, <2>1, <2>2
<1> QED
  BY <1>1, <1>2, <1>4, <1>5 DEF VInv, RequestsInv

(* Every step keeps the invariant.                                         *)
LEMMA StepVInv ==
  ContractAssumption /\ VerificationAssumption /\ VInv /\ [VerificationNext]_allVars => VInv'
<1> SUFFICES ASSUME ContractAssumption, VerificationAssumption, VInv,
                    [VerificationNext]_allVars
             PROVE  VInv'
  OBVIOUS
<1>1. CASE chainStep
  BY <1>1, ChainKeeps
<1>2. CASE restart
  BY <1>2, RestartKeeps
<1>3. ASSUME NEW r \in Request, NEW kind \in Kind, NEW h \in Hash, startRequest(r, kind, h)
      PROVE  VInv'
  BY <1>3, StartKeeps
<1>4. ASSUME NEW r \in Request, verifyCertificateOnChain(r) PROVE VInv'
  BY <1>4, VerifyKeeps
<1>5. ASSUME NEW r \in Request, getCertificateByHash(r) PROVE VInv'
  BY <1>5, GetCertificateKeeps
<1>6. ASSUME NEW r \in Request, getIssuerByAddress(r) PROVE VInv'
  BY <1>6, GetIssuerKeeps
<1>7. ASSUME NEW r \in Request, isIssuerAuthorizedOnChain(r) PROVE VInv'
  BY <1>7, IsAuthorizedKeeps
<1>8. ASSUME NEW r \in Request, getCertificateRecordByHash(r) \/ getRevocationByCertificateId(r)
      PROVE  VInv'
  BY <1>8, DetailsKeep
<1>9. ASSUME NEW r \in Request, answerHash(r) PROVE VInv'
  BY <1>9, AnswerHashKeeps
<1>10. ASSUME NEW r \in Request, answerDocument(r) \/ failRequest(r) PROVE VInv'
  <2>1. finish(r) /\ UNCHANGED <<vars, verifyCache>>
    BY <1>10 DEF answerDocument, failRequest, finish
  <2> QED
    BY <2>1, CacheUntouched, FinishStep
<1>11. CASE UNCHANGED allVars
  <2>1. /\ UNCHANGED <<vars, verifyCache>>
        /\ UNCHANGED pc /\ UNCHANGED local /\ UNCHANGED held
    BY <1>11 DEF allVars, serverVars
  <2>2. IInv'
    BY <2>1, StepInv DEF VInv
  <2>3. VerificationTypeOK'
    BY <2>1 DEF VInv, VerificationTypeOK, running
  <2>4. RequestsInv'
    BY <2>1, Untouched DEF VInv, RequestsInv
  <2> QED
    BY <2>1, <2>2, <2>3, <2>4, CacheUntouched DEF VInv
<1> QED
  BY <1>1, <1>2, <1>3, <1>4, <1>5, <1>6, <1>7, <1>8, <1>9, <1>10, <1>11 DEF VerificationNext

(* The strengthened invariant holds of every behaviour.                    *)
THEOREM VerificationInvariance == VerificationSpec => []VInv
<1>1. VerificationInit => VInv
  BY ContractAssumption, VerificationAssumption, InitVInv
<1>2. VInv /\ [VerificationNext]_allVars => VInv'
  BY ContractAssumption, VerificationAssumption, StepVInv
<1> QED
  BY <1>1, <1>2, PTL DEF VerificationSpec

(***************************************************************************)
(* The theorems.                                                           *)
(***************************************************************************)

(* Seen from the chain, verification is invisible: what is proved of the   *)
(* contract holds while requests read it.                                  *)
THEOREM VerificationOnlyReads == VerificationSpec => Spec
<1>1. VerificationInit => Init
  BY DEF VerificationInit
<1>2. [VerificationNext]_allVars => [Next]_vars
  <2> SUFFICES ASSUME [VerificationNext]_allVars, ~chainStep PROVE UNCHANGED vars
    BY DEF chainStep
  <2> QED
    BY DEF VerificationNext, allVars, restart, startRequest, verifyCertificateOnChain,
       getCertificateByHash, getIssuerByAddress, isIssuerAuthorizedOnChain,
       getCertificateRecordByHash, getRevocationByCertificateId, took,
       answerHash, answerDocument, failRequest, finish
<1> QED
  BY <1>1, <1>2, PTL DEF VerificationSpec, Spec

(* The cache and every request are well typed: an idle request keeps       *)
(* neither local variables nor a history.                                  *)
THEOREM VerificationTypeCorrect == VerificationSpec => []VerificationTypeOK
<1>1. VInv => VerificationTypeOK
  BY DEF VInv
<1> QED
  BY <1>1, VerificationInvariance, PTL

(* No later read of a request reverts or contradicts the first, whatever   *)
(* the contract does in between.                                           *)
THEOREM LaterReadsSucceed == VerificationSpec => []LaterReadsDoNotRevert
<1>1. VInv => LaterReadsDoNotRevert
  <2> SUFFICES ASSUME VInv, NEW r \in Request, running(r)
               PROVE  LET id == certificateIdByHash[local[r].certificateHash]
                      IN /\ pc[r] = "getCertificateByHash" => id # 0
                         /\ pc[r] = "getRevocation" => id \in DOMAIN revocations
                         /\ local[r].issuedDate # 0 =>
                              local[r].issuedDate = certificatesById[id].issuedDate
    BY DEF LaterReadsDoNotRevert
  <2>1. PICK h \in Hash, verdict \in Verdict, now \in Nat : knows(r, h, verdict, now)
    BY RunningRequest
  <2>2. ReadInv(r, h, verdict, now)
    BY RunningRequest DEF RequestInv
  <2> QED
    BY <2>1, <2>2 DEF ReadInv, knows
<1> QED
  BY <1>1, VerificationInvariance, PTL

(* What the cache may still answer was true less than TTL ago.             *)
THEOREM CacheIsYoung == VerificationSpec => []CacheIsYoungerThanTTL
<1>1. VInv => CacheIsYoungerThanTTL
  <2> SUFFICES ASSUME VInv, NEW h \in Hash, fresh(h)
               PROVE  /\ verifyCache[h].verdict # "Revoked"
                      /\ couldHold(verifyCache[h].verdict, h, (timestamp + 1) - TTL)
    BY DEF CacheIsYoungerThanTTL
  <2>1. /\ timestamp \in Nat /\ TTL \in Nat
        /\ verifyCache[h].expiresAt \in Nat /\ verifyCache[h].verdict \in Verdict
        /\ verifyCache[h].expiresAt > timestamp
    BY VerificationAssumption
       DEF VerificationAssumption, VInv, IInv, TypeOK, VerificationTypeOK, Entry, fresh
  <2>2. verifyCache[h] # NoEntry
    BY <2>1 DEF NoEntry
  <2>3. PICK moment \in Nat : verifyCache[h].expiresAt = moment + TTL
    <3>1. verifyCache[h].expiresAt - TTL \in Nat
      BY <2>1, <2>2 DEF VInv, CacheLives
    <3> QED
      BY <2>1, <3>1
  <2>4. PICK verdict \in Verdict : verifyCache[h].verdict = verdict
    BY <2>1
  <2>5. ~isRevoked(verdict) /\ couldHold(verdict, h, moment)
    BY <2>2, <2>3, <2>4 DEF VInv, CacheInv
  <2>6. (timestamp + 1) - TTL \in Int /\ (timestamp + 1) - TTL <= moment
    BY <2>1, <2>3
  <2>7. couldHold(verdict, h, (timestamp + 1) - TTL)
    BY <2>5, <2>6, CouldHoldEarlier DEF VInv
  <2> QED
    BY <2>4, <2>5, <2>7 DEF isRevoked
<1> QED
  BY <1>1, VerificationInvariance, PTL

(* What an answer about a document rests on.                               *)
LEMMA AnswerRests ==
  ASSUME VInv, NEW r \in Request, pc[r] = "answer"
  PROVE  /\ local[r] \in Locals
         /\ local[r].verdict \in verdictsHeld(r)
         /\ held[r] \subseteq Situation
         /\ \A s \in held[r] : Honest(s)
         /\ local[r].kind \in DocumentKind /\ local[r].verdict # "NotFound" =>
              saw(r, local[r].operational) /\ saw(r, local[r].issuerAuthorized)
<1>1. running(r)
  BY DEF running
<1>2. PICK h \in Hash, verdict \in Verdict, now \in Nat : knows(r, h, verdict, now)
  BY <1>1, RunningRequest
<1>3. /\ ReadInv(r, h, verdict, now) /\ HistoryInv(r) /\ IssuerInv(r)
      /\ local[r] \in Locals /\ held[r] \subseteq Situation
  BY <1>1, RunningRequest DEF RequestInv
<1> QED
  BY <1>1, <1>2, <1>3 DEF ReadInv, HistoryInv, IssuerInv, knows

(* An answer from the chain was true at some moment of its request.        *)
THEOREM AnswersWereTrue == VerificationSpec => []AnswerWasTrue
<1>1. VInv => AnswerWasTrue
  <2> SUFFICES ASSUME VInv, NEW r \in Request, pc[r] = "answer"
               PROVE  /\ local[r].verdict \in verdictsHeld(r)
                      /\ local[r].kind \in DocumentKind =>
                         \A document \in Document :
                           /\ overallValid(r, document) => "Valid" \in verdictsHeld(r)
                           /\ validationErrorCode(r, document) = "ISSUER_NOT_AUTHORIZED" =>
                                \E s \in held[r] : ~s.authorized
    BY DEF AnswerWasTrue
  <2>1. local[r].verdict \in verdictsHeld(r) /\ local[r] \in Locals
    BY AnswerRests
  <2>2. ASSUME NEW document \in Document, overallValid(r, document)
        PROVE  "Valid" \in verdictsHeld(r)
    BY <2>1, <2>2 DEF overallValid
  <2>3. ASSUME NEW document \in Document, local[r].kind \in DocumentKind,
               validationErrorCode(r, document) = "ISSUER_NOT_AUTHORIZED"
        PROVE  \E s \in held[r] : ~s.authorized
    <3>1. local[r].verdict # "NotFound" /\ ~issuerOperationallyAuthorized(r)
      BY <2>3 DEF validationErrorCode
    <3>2. saw(r, local[r].operational) /\ saw(r, local[r].issuerAuthorized)
      BY <2>3, <3>1, AnswerRests
    <3>3. saw(r, FALSE)
      BY <2>1, <3>1, <3>2 DEF issuerOperationallyAuthorized, Locals
    <3> QED
      BY <3>3 DEF saw
  <2> QED
    BY <2>1, <2>2, <2>3
<1> QED
  BY <1>1, VerificationInvariance, PTL

(* A document that is refused gets a code, and one that is valid none,     *)
(* unless its issuer was verified while the request ran.                   *)
THEOREM FailuresAreExplained == VerificationSpec => []FailureIsExplained
<1>1. VInv => FailureIsExplained
  <2> SUFFICES ASSUME VInv, NEW r \in Request, pc[r] = "answer",
                      local[r].kind \in DocumentKind, NEW document \in Document
               PROVE  /\ overallValid(r, document) => validationErrorCode(r, document) = "none"
                      /\ /\ validationErrorCode(r, document) = "none"
                         /\ ~overallValid(r, document)
                         => {s.authorized : s \in held[r]} = BOOLEAN
    BY DEF FailureIsExplained
  <2>1. ASSUME overallValid(r, document) PROVE validationErrorCode(r, document) = "none"
    <3>1. issuerMatchesOnChain(r, document) => document.recoveredSigner # ZeroAddress
      BY DEF issuerMatchesOnChain
    <3> QED
      BY <2>1, <3>1 DEF overallValid, validationErrorCode
  <2>2. ASSUME validationErrorCode(r, document) = "none", ~overallValid(r, document)
        PROVE  {s.authorized : s \in held[r]} = BOOLEAN
    <3>1. /\ local[r].verdict \notin {"NotFound", "Revoked", "Expired", "Valid"}
          /\ issuerOperationallyAuthorized(r)
      BY <2>2 DEF validationErrorCode, overallValid
    <3>2. local[r].verdict = "Unauthorized"
      BY <3>1, AnswerRests DEF Locals, Verdict
    <3>3. \E s \in held[r] : s.authorized = FALSE
      <4>1. PICK s \in held[r] : s.verdict = "Unauthorized"
        BY <3>2, AnswerRests DEF verdictsHeld
      <4>2. s \in Situation /\ ~s.authorized
        BY <4>1, AnswerRests DEF Honest
      <4> QED
        BY <4>2 DEF Situation
    <3>4. \E s \in held[r] : s.authorized = TRUE
      <4>1. local[r].operational = TRUE
        BY <3>1, AnswerRests DEF issuerOperationallyAuthorized, Locals
      <4>2. saw(r, local[r].operational)
        BY <3>1, AnswerRests
      <4> QED
        BY <4>1, <4>2 DEF saw
    <3>5. \A s \in held[r] : s.authorized \in BOOLEAN
      BY AnswerRests DEF Situation
    <3> QED
      BY <3>3, <3>4, <3>5
  <2> QED
    BY <2>1, <2>2
<1> QED
  BY <1>1, VerificationInvariance, PTL
==============================================================================
