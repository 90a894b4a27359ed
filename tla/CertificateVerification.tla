----------------------- MODULE CertificateVerification -----------------------
(***************************************************************************)
(* Verification of certificates: by hash through the cache of              *)
(* verify.controller and verifyCertificate of verification.service, by     *)
(* document through verifyCertificateDocument, and both in the browser     *)
(* through universalVerification, which asks the chain itself.             *)
(*                                                                         *)
(* All of them read the contract several times, each read an await, and    *)
(* the contract goes on between the reads.  A request is a process whose   *)
(* steps are its reads; after the last it answers from what it read.  The  *)
(* contract is AcademicCertification itself: a step of it is a step here,  *)
(* and a read calls its queries.  The clock of the server and the          *)
(* timestamps of the blocks are one clock.                                 *)
(***************************************************************************)
EXTENDS AcademicCertification

CONSTANTS
  Request,   (* verification requests, each used again once it is answered *)
  TTL,       (* VERIFY_CACHE_TTL_MS *)
  Skew       (* MAX_ISSUED_AT_SKEW_SECONDS *)

ASSUME VerificationAssumption ==
  /\ TTL \in Nat
  /\ Skew \in Nat

VARIABLES
  verifyCache,  (* hash -> the answer kept for it, or NoEntry *)
  pc,           (* the read a request is at *)
  local,        (* its local variables *)
  held          (* history: the situations of its certificate since it came *)

serverVars == <<verifyCache, pc, local>>
allVars == <<vars, serverVars, held>>

(* The two routes of the backend and the two functions of the browser.     *)
Kind == {"hash", "document", "clientHash", "clientDocument"}
DocumentKind == {"document", "clientDocument"}
ServedKind == {"hash", "document"}
Stage == {"idle", "verifyCertificate", "getCertificateByHash", "getIssuer",
          "isAuthorizedIssuer", "getCertificateRecordByHash", "getRevocation", "answer"}

(* What verifyCertificate of the contract says, in a word.                 *)
Verdict == {"NotFound", "Valid", "Unauthorized", "Expired", "Revoked"}
verdictOf(result) ==
  IF ~result.exists THEN "NotFound"
  ELSE IF result.status # "Valid" THEN result.status
  ELSE IF result.isValid THEN "Valid" ELSE "Unauthorized"

Code == {"none", "NOT_FOUND", "REVOKED", "EXPIRED", "INTEGRITY_MISMATCH",
         "MALFORMED_SIGNATURE", "AUTHENTICITY_ERROR", "ISSUER_NOT_AUTHORIZED",
         "TIMESTAMP_MISMATCH", "RECIPIENT_IDENTITY_MISMATCH"}

Entry == [expiresAt : Nat, verdict : Verdict]
NoEntry == [expiresAt |-> 0, verdict |-> "NotFound"]

Locals ==
  [kind : Kind,
   certificateHash : Hash,
   now : Nat,                    (* when the request came *)
   verdict : Verdict,            (* onChainVerification *)
   issuedDate : Nat,             (* of onChainCertificate; 0 for NaN *)
   operational : BOOLEAN,        (* issuerProfile is Active and verified *)
   issuerAuthorized : BOOLEAN]
NoLocals == [kind |-> "none"]
running(r) == pc[r] # "idle"

issuerOf(h) == certificatesById[certificateIdByHash[h]].issuer

(* A certificate's situation: what the contract says of it, and whether its*)
(* issuer is authorized, which a status other than Valid hides.            *)
Situation == [verdict : Verdict, authorized : BOOLEAN]
situation(h) ==
  [verdict |-> verdictOf(verifyCertificate(h)),
   authorized |-> certificateExists(h) /\ isAuthorizedIssuer(issuerOf(h))]

VerificationInit ==
  /\ Init
  /\ verifyCache = [h \in Hash |-> NoEntry]
  /\ pc = [r \in Request |-> "idle"]
  /\ local = [r \in Request |-> NoLocals]
  /\ held = [r \in Request |-> {}]

------------------------------------------------------------------------------
(* The contract goes on, and every running request lives through it.       *)
chainStep ==
  /\ Next
  /\ UNCHANGED serverVars
  /\ held' = [r \in Request |->
       IF running(r) THEN held[r] \cup {situation(local[r].certificateHash)'} ELSE {}]

------------------------------------------------------------------------------
(* The start of a request *)

fresh(h) == verifyCache[h].expiresAt > timestamp

(* verifyCertificateByHash answers at once from an entry that is fresh: no *)
(* request starts.                                                         *)
startRequest(r, kind, h) ==
  /\ ~running(r)
  /\ kind = "hash" => ~fresh(h)
  /\ pc' = [pc EXCEPT ![r] = "verifyCertificate"]
  /\ local' = [local EXCEPT ![r] =
       [kind |-> kind, certificateHash |-> h, now |-> timestamp, verdict |-> "NotFound",
        issuedDate |-> 0, operational |-> FALSE, issuerAuthorized |-> FALSE]]
  /\ held' = [held EXCEPT ![r] = {situation(h)}]
  /\ UNCHANGED <<vars, verifyCache>>

------------------------------------------------------------------------------
(* The reads *)

(* Mutant: a certificate that is not Valid is asked for its revocation.    *)
isRevoked_NotValid(verdict) == verdict \notin {"NotFound", "Valid"}

isRevoked(verdict) == verdict = "Revoked"

(* The read after the one a request is at, once the contract has said      *)
(* verdict.  Only the backend asks MongoDB, for the hash of a successor.   *)
stageAfter(stage, kind, verdict) ==
  CASE stage = "verifyCertificate" ->
         IF verdict # "NotFound" THEN "getCertificateByHash"
         ELSE IF kind \in ServedKind THEN "getCertificateRecordByHash" ELSE "answer"
    [] stage = "getCertificateByHash" ->
         IF kind = "hash" /\ isRevoked(verdict) THEN "getRevocation" ELSE "getIssuer"
    [] stage = "getIssuer" ->
         IF kind = "hash" THEN "getCertificateRecordByHash" ELSE "isAuthorizedIssuer"
    [] stage = "isAuthorizedIssuer" ->
         IF kind \in ServedKind THEN "getCertificateRecordByHash"
         ELSE IF isRevoked(verdict) THEN "getRevocation" ELSE "answer"
    [] stage = "getCertificateRecordByHash" ->
         IF kind = "document" /\ isRevoked(verdict) THEN "getRevocation" ELSE "answer"
    [] stage = "getRevocation" ->
         IF kind = "hash" THEN "getCertificateRecordByHash" ELSE "answer"

(* A read that gives the request these locals.                             *)
took(r, locals) ==
  /\ pc' = [pc EXCEPT ![r] = stageAfter(pc[r], locals.kind, locals.verdict)]
  /\ local' = [local EXCEPT ![r] = locals]
  /\ UNCHANGED <<vars, verifyCache, held>>

verifyCertificateOnChain(r) ==
  /\ pc[r] = "verifyCertificate"
  /\ took(r, [local[r] EXCEPT
               !.verdict = verdictOf(verifyCertificate(local[r].certificateHash))])

(* A query of the contract that reverts fails the request.                 *)
getCertificateByHash(r) ==
  LET id == certificateIdByHash[local[r].certificateHash]
  IN /\ pc[r] = "getCertificateByHash"
     /\ id # 0
     /\ took(r, [local[r] EXCEPT !.issuedDate = certificatesById[id].issuedDate])

operational(issuer) == issuer.status = "Active" /\ issuer.isVerified

getIssuerByAddress(r) ==
  /\ pc[r] = "getIssuer"
  /\ took(r, [local[r] EXCEPT
               !.operational = operational(issuers[issuerOf(local[r].certificateHash)])])

isIssuerAuthorizedOnChain(r) ==
  /\ pc[r] = "isAuthorizedIssuer"
  /\ took(r, [local[r] EXCEPT
               !.issuerAuthorized = isAuthorizedIssuer(issuerOf(local[r].certificateHash))])

getCertificateRecordByHash(r) ==
  /\ pc[r] = "getCertificateRecordByHash"
  /\ took(r, local[r])

getRevocationByCertificateId(r) ==
  /\ pc[r] = "getRevocation"
  /\ certificateIdByHash[local[r].certificateHash] \in DOMAIN revocations
  /\ took(r, local[r])

------------------------------------------------------------------------------
(* The end of a request *)

(* Mutant: the variables of the request outlive it.                        *)
finish_LocalsStay(r) ==
  /\ pc' = [pc EXCEPT ![r] = "idle"]
  /\ held' = [held EXCEPT ![r] = {}]
  /\ UNCHANGED <<vars, local>>

finish(r) ==
  /\ pc' = [pc EXCEPT ![r] = "idle"]
  /\ local' = [local EXCEPT ![r] = NoLocals]
  /\ held' = [held EXCEPT ![r] = {}]
  /\ UNCHANGED vars

(* An await throws: the answer is an error.                                *)
failRequest(r) ==
  /\ pc[r] \notin {"idle", "answer"}
  /\ finish(r)
  /\ UNCHANGED verifyCache

(* Mutant: an entry lives for TTL from the moment it is stored.            *)
entryFor_FromNow(r) ==
  [expiresAt |-> timestamp + TTL, verdict |-> local[r].verdict]

entryFor(r) == [expiresAt |-> local[r].now + TTL, verdict |-> local[r].verdict]

(* verifyCertificate throws REVOKED, past the statement that caches answers*)
answerHash(r) ==
  /\ pc[r] = "answer"
  /\ local[r].kind \notin DocumentKind
  /\ verifyCache' =
       IF local[r].kind = "hash" /\ ~isRevoked(local[r].verdict)
       THEN [verifyCache EXCEPT ![local[r].certificateHash] = entryFor(r)]
       ELSE verifyCache
  /\ finish(r)

(* What a document is judged by besides the chain.  Its hash may differ    *)
(* from the one of its proof, its signature be of anybody or (ZeroAddress) *)
(* unreadable; without an email to compare recipientMatches is not FALSE.  *)
(* Only the decision at the end of the request looks at it, and a request  *)
(* that is ready may be about any document: no variable holds it.          *)
Document ==
  [hashMatches : BOOLEAN, recoveredSigner : Address \cup {ZeroAddress},
   issuedAt : 1..MaxTime, recipientMatches : BOOLEAN]

issuerMatchesOnChain(r, document) ==
  /\ document.recoveredSigner # ZeroAddress
  /\ local[r].verdict # "NotFound"
  /\ document.recoveredSigner = issuerOf(local[r].certificateHash)
issuerOperationallyAuthorized(r) == local[r].issuerAuthorized /\ local[r].operational
issuedAtConsistent(r, document) ==
  /\ local[r].issuedDate # 0
  /\ document.issuedAt <= local[r].issuedDate + Skew
  /\ local[r].issuedDate <= document.issuedAt + Skew

(* Mutant: an inconsistent date has no code.                               *)
validationErrorCode_NoTimestamp(r, document) ==
  CASE local[r].verdict = "NotFound" -> "NOT_FOUND"
    [] local[r].verdict = "Revoked" -> "REVOKED"
    [] local[r].verdict = "Expired" -> "EXPIRED"
    [] OTHER ->
       IF ~document.hashMatches THEN "INTEGRITY_MISMATCH"
       ELSE IF ~issuerMatchesOnChain(r, document) THEN "AUTHENTICITY_ERROR"
       ELSE IF ~issuerOperationallyAuthorized(r) THEN "ISSUER_NOT_AUTHORIZED"
       ELSE IF ~document.recipientMatches THEN "RECIPIENT_IDENTITY_MISMATCH"
       ELSE "none"

(* The first that applies.  Only the browser tells a malformed signature.  *)
validationErrorCode(r, document) ==
  CASE local[r].verdict = "NotFound" -> "NOT_FOUND"
    [] local[r].verdict = "Revoked" -> "REVOKED"
    [] local[r].verdict = "Expired" -> "EXPIRED"
    [] OTHER ->
       IF ~document.hashMatches THEN "INTEGRITY_MISMATCH"
       ELSE IF /\ local[r].kind = "clientDocument"
               /\ document.recoveredSigner = ZeroAddress THEN "MALFORMED_SIGNATURE"
       ELSE IF ~issuerMatchesOnChain(r, document) THEN "AUTHENTICITY_ERROR"
       ELSE IF ~issuerOperationallyAuthorized(r) THEN "ISSUER_NOT_AUTHORIZED"
       ELSE IF ~issuedAtConsistent(r, document) THEN "TIMESTAMP_MISMATCH"
       ELSE IF ~document.recipientMatches THEN "RECIPIENT_IDENTITY_MISMATCH"
       ELSE "none"

(* Mutant: isValid of the first read is not asked for.                     *)
overallValid_StatusOnly(r, document) ==
  /\ document.hashMatches
  /\ issuerMatchesOnChain(r, document)
  /\ issuerOperationallyAuthorized(r)
  /\ issuedAtConsistent(r, document)
  /\ document.recipientMatches
  /\ local[r].verdict \in {"Valid", "Unauthorized"}

overallValid(r, document) ==
  /\ document.hashMatches
  /\ issuerMatchesOnChain(r, document)
  /\ issuerOperationallyAuthorized(r)
  /\ issuedAtConsistent(r, document)
  /\ document.recipientMatches
  /\ local[r].verdict = "Valid"

answerDocument(r) ==
  /\ pc[r] = "answer"
  /\ local[r].kind \in DocumentKind
  /\ finish(r)
  /\ UNCHANGED verifyCache

------------------------------------------------------------------------------
(* The backend restarts: the cache is a Map of the process.  Requests of   *)
(* the browser go on.                                                      *)
served(r) == local[r].kind \in ServedKind
restart ==
  /\ verifyCache' = [h \in Hash |-> NoEntry]
  /\ pc' = [r \in Request |-> IF served(r) THEN "idle" ELSE pc[r]]
  /\ local' = [r \in Request |-> IF served(r) THEN NoLocals ELSE local[r]]
  /\ held' = [r \in Request |-> IF served(r) THEN {} ELSE held[r]]
  /\ UNCHANGED vars

VerificationNext ==
  \/ chainStep
  \/ restart
  \/ \E r \in Request :
       \/ \E kind \in Kind, h \in Hash : startRequest(r, kind, h)
       \/ verifyCertificateOnChain(r)
       \/ getCertificateByHash(r)
       \/ getIssuerByAddress(r)
       \/ isIssuerAuthorizedOnChain(r)
       \/ getCertificateRecordByHash(r)
       \/ getRevocationByCertificateId(r)
       \/ answerHash(r)
       \/ answerDocument(r)
       \/ failRequest(r)

VerificationSpec == VerificationInit /\ [][VerificationNext]_allVars

------------------------------------------------------------------------------
(* Properties *)

VerificationTypeOK ==
  /\ verifyCache \in [Hash -> Entry]
  /\ pc \in [Request -> Stage]
  /\ local \in [Request -> Locals \cup {NoLocals}]
  /\ held \in [Request -> SUBSET Situation]
  /\ \A r \in Request :
       /\ IF running(r) THEN local[r] \in Locals ELSE local[r] = NoLocals
       /\ running(r) <=> held[r] # {}

(* The reads that follow the first rely on what it said, although the      *)
(* contract has gone on: a certificate that existed is still found, with   *)
(* the same date, and one that was revoked still has its revocation.       *)
LaterReadsDoNotRevert ==
  \A r \in Request :
    running(r) =>
      LET id == certificateIdByHash[local[r].certificateHash]
      IN /\ pc[r] = "getCertificateByHash" => id # 0
         /\ pc[r] = "getRevocation" => id \in DOMAIN revocations
         /\ local[r].issuedDate # 0 => local[r].issuedDate = certificatesById[id].issuedDate

(* What the contract would have said at some time not before the moment,   *)
(* by what it says now.                                                    *)
couldHold(verdict, h, moment) ==
  LET id == certificateIdByHash[h]
      certificate == certificatesById[id]
  IN IF verdict = "NotFound"
     THEN id # 0 => certificate.issuedDate >= moment
     ELSE /\ id # 0
          /\ id \in DOMAIN revocations => revocations[id].revocationDate >= moment
          /\ certificate.expiryDate # 0 =>
               IF verdict = "Expired" THEN certificate.expiryDate < timestamp
               ELSE certificate.expiryDate >= moment

(* A cached answer that may still be given was read less than TTL ago,     *)
(* however long the request that stored it took: it is never Revoked, and  *)
(* an issuance, revocation or expiry it misses is younger than TTL.        *)
CacheIsYoungerThanTTL ==
  \A h \in Hash :
    fresh(h) =>
      /\ verifyCache[h].verdict # "Revoked"
      /\ couldHold(verifyCache[h].verdict, h, (timestamp + 1) - TTL)

verdictsHeld(r) == {s.verdict : s \in held[r]}

(* An answer from the chain was true at some moment of its request: the    *)
(* status; that a document is valid; and, if the code blames the issuer,   *)
(* that it was not authorized.                                             *)
AnswerWasTrue ==
  \A r \in Request :
    pc[r] = "answer" =>
      /\ local[r].verdict \in verdictsHeld(r)
      /\ local[r].kind \in DocumentKind =>
         \A document \in Document :
           /\ overallValid(r, document) => "Valid" \in verdictsHeld(r)
           /\ validationErrorCode(r, document) = "ISSUER_NOT_AUTHORIZED" =>
                \E s \in held[r] : ~s.authorized

(* "Return aggregated result with overallValid and semantic error codes":  *)
(* a document that is not valid gets a code, and one that is gets none.  No*)
(* code is given only to one whose issuer was verified during the request. *)
FailureIsExplained ==
  \A r \in Request :
    pc[r] = "answer" /\ local[r].kind \in DocumentKind =>
      \A document \in Document :
        /\ overallValid(r, document) => validationErrorCode(r, document) = "none"
        /\ /\ validationErrorCode(r, document) = "none"
           /\ ~overallValid(r, document)
           => {s.authorized : s \in held[r]} = BOOLEAN
==============================================================================
