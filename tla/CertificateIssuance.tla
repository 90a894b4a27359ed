------------------------- MODULE CertificateIssuance -------------------------
(***************************************************************************)
(* The requests that issue certificates: issueCertificate of               *)
(* certificate.service, with or without a certificate to replace, and      *)
(* batchIssueCertificates of batchCertificate.service, down to the calls   *)
(* of blockchain.service and certificatePersistence.service.  A request is *)
(* a process whose steps are its awaits; each may fail, transactions wait  *)
(* in the mempool, other accounts use the contract meanwhile, and the      *)
(* backend may die.                                                        *)
(*                                                                         *)
(* A certificate hash contains a random uuid and a random salt: a hash is  *)
(* named by the request and the position in its batch that made it.  The   *)
(* contract is the part of AcademicCertification the requests use: who     *)
(* anchored and revoked a hash, and the ids, handed out in order.          *)
(***************************************************************************)
EXTENDS Naturals, Sequences, FiniteSets

CONSTANTS
  Request,      (* requests *)
  Earlier,      (* a certificate the backend issued before, with its document *)
  Elsewhere,    (* a certificate another account issues without the backend *)
  NoHash,       (* null *)
  Signer,       (* the account of the backend's private key *)
  Other,        (* another issuer *)
  ZeroAddress,
  MaxBatch,     (* bound: certificates in a batch; 500 in the code *)
  MaxRevoked    (* bound: certificates revoked when a wallet revokes another *)

Account == {Signer, Other}
Hash == (Request \X (1..MaxBatch)) \cup {Earlier, Elsewhere}

ASSUME IssuanceAssumption ==
  /\ Signer # Other
  /\ ZeroAddress \notin Account
  /\ NoHash \notin Hash
  /\ {Earlier, Elsewhere} \cap (Request \X (1..MaxBatch)) = {}
  /\ Earlier # Elsewhere
  /\ MaxBatch \in Nat \ {0}
  /\ MaxRevoked \in Nat

VARIABLES
  (* the contract *)
  authorized,     (* accounts for which isAuthorizedIssuer holds *)
  anchoredBy,     (* hash -> its issuer *)
  revokedBy,      (* hash -> who revoked it *)
  certificateId,  (* hash -> its id, 0 if it has none *)
  nextCertificateId,
  (* transactions of a request *)
  issueTx,
  revokeTx,
  (* MongoDB *)
  docs,           (* hash -> its document, or NoDoc *)
  (* the requests *)
  pc,             (* the await a request is at *)
  local,          (* its local variables, gone when it ends *)
  replaces,       (* replacesCertificateHash *)
  uploaded,       (* its items uploaded, in order *)
  previousCertificateRevoked

chainVars == <<authorized, anchoredBy, revokedBy, certificateId, nextCertificateId>>
txVars == <<issueTx, revokeTx>>
outputVars == <<replaces, uploaded, previousCertificateRevoked>>
requestVars == <<pc, local, outputVars>>
vars == <<chainVars, txVars, docs, requestVars>>

Stage == {"idle", "checkChain", "checkDb", "upload", "predict", "broadcast", "confirm",
          "persist", "revoke", "confirmRevoke", "mark", "done", "failed"}
Running == Stage \ {"idle", "done", "failed"}
Locals ==
  [size : 0..MaxBatch,        (* certificates asked for *)
   batch : BOOLEAN,           (* which of the two services runs *)
   handled : 0..MaxBatch,     (* items uploaded or given up *)
   predicted : Nat,           (* first id the staticCall returned *)
   persisted : 0..MaxBatch]   (* documents created *)
asked(n, isBatch) ==
  [size |-> n, batch |-> isBatch, handled |-> 0, predicted |-> 0, persisted |-> 0]
NoLocals == asked(0, FALSE)
Replacing == {"revoke", "confirmRevoke", "mark"}
TxState == {"none", "pending", "succeeded", "reverted"}

NoDoc == [certificateId |-> 0, replaces |-> NoHash, replacedBy |-> NoHash]
Document ==
  [certificateId : Nat, replaces : Hash \cup {NoHash}, replacedBy : Hash \cup {NoHash}]
stored(h) == docs[h] # NoDoc

anchored(h) == anchoredBy[h] # ZeroAddress
revoked(h) == revokedBy[h] # ZeroAddress

Init ==
  /\ authorized = Account
  /\ anchoredBy = [h \in Hash |-> IF h = Earlier THEN Signer ELSE ZeroAddress]
  /\ revokedBy = [h \in Hash |-> ZeroAddress]
  /\ certificateId = [h \in Hash |-> IF h = Earlier THEN 1 ELSE 0]
  /\ nextCertificateId = 2
  /\ issueTx = [r \in Request |-> "none"]
  /\ revokeTx = [r \in Request |-> "none"]
  /\ docs = [h \in Hash |-> IF h = Earlier THEN [NoDoc EXCEPT !.certificateId = 1] ELSE NoDoc]
  /\ pc = [r \in Request |-> "idle"]
  /\ local = [r \in Request |-> NoLocals]
  /\ replaces = [r \in Request |-> NoHash]
  /\ uploaded = [r \in Request |-> <<>>]
  /\ previousCertificateRevoked = [r \in Request |-> FALSE]

------------------------------------------------------------------------------
(* The contract, as AcademicCertification has it. *)

(* issueAll: every hash of the transaction is anchored, with the next ids. *)
anchorAll(account, hashes) ==
  /\ anchoredBy' = [h \in Hash |->
       IF \E i \in DOMAIN hashes : hashes[i] = h THEN account ELSE anchoredBy[h]]
  /\ certificateId' = [h \in Hash |->
       IF \E i \in DOMAIN hashes : hashes[i] = h
       THEN nextCertificateId + (CHOOSE i \in DOMAIN hashes : hashes[i] = h) - 1
       ELSE certificateId[h]]
  /\ nextCertificateId' = nextCertificateId + Len(hashes)
  /\ UNCHANGED <<authorized, revokedBy>>

(* Mutant: onlyVerifiedIssuer is left out.                                 *)
issuable_AnyAccount(account, hashes) ==
  \A i \in DOMAIN hashes : ~anchored(hashes[i])

issuable(account, hashes) ==
  account \in authorized /\ \A i \in DOMAIN hashes : ~anchored(hashes[i])

revocable(account, h) == anchoredBy[h] = account /\ ~revoked(h)

(* The admin, another issuer, and issuers revoking from their own wallets. *)
(* (Whether Other is authorized only decides if issueElsewhere may happen, *)
(* and nothing makes it happen.)                                           *)
verifyIssuer ==
  /\ Signer \notin authorized
  /\ authorized' = authorized \cup {Signer}
  /\ UNCHANGED <<anchoredBy, revokedBy, certificateId, nextCertificateId,
                 txVars, docs, requestVars>>

suspendIssuer ==
  /\ Signer \in authorized
  /\ authorized' = authorized \ {Signer}
  /\ UNCHANGED <<anchoredBy, revokedBy, certificateId, nextCertificateId,
                 txVars, docs, requestVars>>

issueElsewhere ==
  /\ issuable(Other, <<Elsewhere>>)
  /\ anchorAll(Other, <<Elsewhere>>)
  /\ UNCHANGED <<txVars, docs, requestVars>>

revokeFromWallet(h) ==
  /\ Cardinality({g \in Hash : revoked(g)}) < MaxRevoked
  /\ anchored(h)
  /\ ~revoked(h)
  /\ revokedBy' = [revokedBy EXCEPT ![h] = anchoredBy[h]]
  /\ UNCHANGED <<authorized, anchoredBy, certificateId, nextCertificateId,
                 txVars, docs, requestVars>>

(* A transaction of the mempool is executed, whatever became of the request*)
(* that sent it.                                                           *)
mineIssue(r) ==
  /\ issueTx[r] = "pending"
  /\ IF issuable(Signer, uploaded[r])
     THEN /\ anchorAll(Signer, uploaded[r])
          /\ issueTx' = [issueTx EXCEPT ![r] = "succeeded"]
     ELSE /\ issueTx' = [issueTx EXCEPT ![r] = "reverted"]
          /\ UNCHANGED chainVars
  /\ UNCHANGED <<revokeTx, docs, requestVars>>

mineRevoke(r) ==
  /\ revokeTx[r] = "pending"
  /\ IF revocable(Signer, replaces[r])
     THEN /\ revokedBy' = [revokedBy EXCEPT ![replaces[r]] = Signer]
          /\ revokeTx' = [revokeTx EXCEPT ![r] = "succeeded"]
     ELSE /\ revokeTx' = [revokeTx EXCEPT ![r] = "reverted"]
          /\ UNCHANGED revokedBy
  /\ UNCHANGED <<authorized, anchoredBy, certificateId, nextCertificateId,
                 issueTx, docs, requestVars>>

------------------------------------------------------------------------------
(* A request.  Both routes need a session of an issuer that is authorized  *)
(* now and is the account of the backend.                                  *)

goWith(r, stage, locals) ==
  /\ pc' = [pc EXCEPT ![r] = stage]
  /\ local' = [local EXCEPT ![r] = IF stage \in {"done", "failed"} THEN NoLocals ELSE locals]
goTo(r, stage) == goWith(r, stage, local[r])

issueCertificate(r, old) ==
  /\ pc[r] = "idle"
  /\ Signer \in authorized
  /\ replaces' = [replaces EXCEPT ![r] = old]
  /\ goWith(r, IF old = NoHash THEN "upload" ELSE "checkChain", asked(1, FALSE))
  /\ UNCHANGED <<chainVars, txVars, docs, uploaded, previousCertificateRevoked>>

batchIssueCertificates(r, n) ==
  /\ pc[r] = "idle"
  /\ Signer \in authorized
  /\ goWith(r, "upload", asked(n, TRUE))
  /\ UNCHANGED <<chainVars, txVars, docs, outputVars>>

(* verifyCertificateOnChain: the certificate to replace exists and is Valid*)
checkChain(r) ==
  /\ pc[r] = "checkChain"
  /\ goTo(r, IF anchored(replaces[r]) /\ ~revoked(replaces[r]) THEN "checkDb" ELSE "failed")
  /\ UNCHANGED <<chainVars, txVars, docs, outputVars>>

(* Mutant: the old certificate is revoked before the new one is made.      *)
checkDb_RevokeFirst(r) ==
  /\ pc[r] = "checkDb"
  /\ goTo(r, IF docs[replaces[r]].replacedBy = NoHash THEN "revoke" ELSE "failed")
  /\ UNCHANGED <<chainVars, txVars, docs, outputVars>>

(* getCertificateRecordByHash: no other certificate replaces it yet.       *)
checkDb(r) ==
  /\ pc[r] = "checkDb"
  /\ goTo(r, IF docs[replaces[r]].replacedBy = NoHash THEN "upload" ELSE "failed")
  /\ UNCHANGED <<chainVars, txVars, docs, outputVars>>

(* Where the loop of uploads goes on once the item after local[r].handled is done*)
afterUpload(r, uploads) ==
  IF local[r].handled + 1 < local[r].size THEN "upload"
  ELSE IF uploads = <<>> THEN "failed" ELSE "predict"
oneHandled(r) == [local[r] EXCEPT !.handled = @ + 1]

(* Mutant: an upload whose answer is late is made again and counted twice. *)
uploadItem_Retried(r) ==
  /\ pc[r] = "upload"
  /\ uploaded' = [uploaded EXCEPT ![r] = Append(@, <<r, local[r].handled + 1>>)]
  /\ goWith(r, afterUpload(r, uploaded'[r]), oneHandled(r)) \/ UNCHANGED <<pc, local>>
  /\ UNCHANGED <<chainVars, txVars, docs, replaces, previousCertificateRevoked>>

(* uploadJsonToIpfs.  A batch goes on without the items that fail.         *)
uploadItem(r) ==
  /\ pc[r] = "upload"
  /\ \/ uploaded' = [uploaded EXCEPT ![r] = Append(@, <<r, local[r].handled + 1>>)]
     \/ local[r].batch /\ UNCHANGED uploaded
  /\ goWith(r, afterUpload(r, uploaded'[r]), oneHandled(r))
  /\ UNCHANGED <<chainVars, txVars, docs, replaces, previousCertificateRevoked>>

(* The staticCall: the ids the transaction would get if it ran now.        *)
predict(r) ==
  /\ pc[r] = "predict"
  /\ IF issuable(Signer, uploaded[r])
     THEN goWith(r, "broadcast", [local[r] EXCEPT !.predicted = nextCertificateId])
     ELSE goTo(r, "failed")
  /\ UNCHANGED <<chainVars, txVars, docs, outputVars>>

(* The transaction is sent; estimating its gas refuses one that reverts.   *)
broadcast(r) ==
  /\ pc[r] = "broadcast"
  /\ IF issuable(Signer, uploaded[r])
     THEN issueTx' = [issueTx EXCEPT ![r] = "pending"] /\ goTo(r, "confirm")
     ELSE goTo(r, "failed") /\ UNCHANGED issueTx
  /\ UNCHANGED <<chainVars, revokeTx, docs, outputVars>>

(* Mutants: wait() is not awaited; a receipt is waited for until it is good*)
confirm_NotAwaited(r) ==
  /\ pc[r] = "confirm"
  /\ goTo(r, IF issueTx[r] # "reverted" THEN "persist" ELSE "failed")
  /\ UNCHANGED <<chainVars, txVars, docs, outputVars>>
confirm_OnlyGood(r) ==
  /\ pc[r] = "confirm"
  /\ issueTx[r] = "succeeded"
  /\ goTo(r, "persist")
  /\ UNCHANGED <<chainVars, txVars, docs, outputVars>>

(* transaction.wait() *)
confirm(r) ==
  /\ pc[r] = "confirm"
  /\ issueTx[r] \in {"succeeded", "reverted"}
  /\ goTo(r, IF issueTx[r] = "succeeded" THEN "persist" ELSE "failed")
  /\ UNCHANGED <<chainVars, txVars, docs, outputVars>>

document(r, k) ==
  [certificateId |-> local[r].predicted + k - 1, replaces |-> replaces[r], replacedBy |-> NoHash]
afterDocument(r, k) ==
  IF k < Len(uploaded[r]) THEN "persist" ELSE IF replaces[r] = NoHash THEN "done" ELSE "revoke"

(* Mutant: a document that cannot be created is passed over.               *)
persistItem_ErrorIgnored(r) ==
  LET k == local[r].persisted + 1
  IN /\ pc[r] = "persist"
     /\ docs' \in {docs, [docs EXCEPT ![uploaded[r][k]] = document(r, k)]}
     /\ goWith(r, afterDocument(r, k), [local[r] EXCEPT !.persisted = k])
     /\ UNCHANGED <<chainVars, txVars, outputVars>>

(* persistCertificateRecord, with the id of the staticCall.                *)
persistItem(r) ==
  LET k == local[r].persisted + 1
  IN /\ pc[r] = "persist"
     /\ docs' = [docs EXCEPT ![uploaded[r][k]] = document(r, k)]
     /\ goWith(r, afterDocument(r, k), [local[r] EXCEPT !.persisted = k])
     /\ UNCHANGED <<chainVars, txVars, outputVars>>

(* revokeCertificateOnChain of the replaced certificate.                   *)
sendRevocation(r) ==
  /\ pc[r] = "revoke"
  /\ IF revocable(Signer, replaces[r])
     THEN revokeTx' = [revokeTx EXCEPT ![r] = "pending"] /\ goTo(r, "confirmRevoke")
     ELSE goTo(r, "done") /\ UNCHANGED revokeTx
  /\ UNCHANGED <<chainVars, issueTx, docs, outputVars>>

(* Mutant: wait() is not awaited.                                          *)
confirmRevocation_NotAwaited(r) ==
  /\ pc[r] = "confirmRevoke"
  /\ goTo(r, IF revokeTx[r] # "reverted" THEN "mark" ELSE "done")
  /\ UNCHANGED <<chainVars, txVars, docs, outputVars>>

confirmRevocation(r) ==
  /\ pc[r] = "confirmRevoke"
  /\ revokeTx[r] \in {"succeeded", "reverted"}
  /\ goTo(r, IF revokeTx[r] = "succeeded" THEN "mark" ELSE "done")
  /\ UNCHANGED <<chainVars, txVars, docs, outputVars>>

(* An updateOne: a certificate without a document is not marked.           *)
markCertificateAsReplaced(r) ==
  /\ pc[r] = "mark"
  /\ docs' = IF stored(replaces[r])
             THEN [docs EXCEPT ![replaces[r]].replacedBy = uploaded[r][1]] ELSE docs
  /\ previousCertificateRevoked' = [previousCertificateRevoked EXCEPT ![r] = TRUE]
  /\ goTo(r, "done")
  /\ UNCHANGED <<chainVars, txVars, replaces, uploaded>>

(* A call throws: the request answers with the error.                      *)
failRequest(r) ==
  /\ pc[r] \in Running \ Replacing
  /\ goTo(r, "failed")
  /\ UNCHANGED <<chainVars, txVars, docs, outputVars>>

(* After the new certificate is stored, an error is only logged, and the   *)
(* answer is 201 with previousCertificateRevoked false.                    *)
failReplacing(r) ==
  /\ pc[r] \in Replacing
  /\ goTo(r, "done")
  /\ UNCHANGED <<chainVars, txVars, docs, outputVars>>

(* The backend dies with the requests it is serving.                       *)
crash ==
  /\ \E r \in Request : pc[r] \in Running
  /\ pc' = [r \in Request |-> IF pc[r] \in Running THEN "failed" ELSE pc[r]]
  /\ local' = [r \in Request |-> IF pc[r] \in Running THEN NoLocals ELSE local[r]]
  /\ UNCHANGED <<chainVars, txVars, docs, outputVars>>

(* The message of the answer to a re-issuance, whatever became of the old  *)
(* certificate: "The previous certificate has been revoked."               *)
saysRevoked(r) == pc[r] = "done" /\ replaces[r] # NoHash

step(r) ==
  \/ checkChain(r) \/ checkDb(r) \/ uploadItem(r)
  \/ predict(r) \/ broadcast(r) \/ confirm(r) \/ persistItem(r)
  \/ sendRevocation(r) \/ confirmRevocation(r) \/ markCertificateAsReplaced(r)

Next ==
  \/ verifyIssuer
  \/ suspendIssuer
  \/ issueElsewhere
  \/ \E h \in Hash : revokeFromWallet(h)
  \/ crash
  \/ \E r \in Request :
       \/ \E old \in Hash \cup {NoHash} : issueCertificate(r, old)
       \/ \E n \in 1..MaxBatch : batchIssueCertificates(r, n)
       \/ step(r)
       \/ failRequest(r)
       \/ failReplacing(r)
       \/ mineIssue(r)
       \/ mineRevoke(r)

(* A call that is awaited settles, and the network mines what it accepted. *)
(* A request has finitely many steps and two transactions, so fairness to  *)
(* all of them together is fairness to each.  Requests, failures, crashes  *)
(* and other accounts are not forced.                                      *)
Fairness ==
  WF_vars(\E r \in Request : step(r) \/ mineIssue(r) \/ mineRevoke(r))

Spec == Init /\ [][Next]_vars
FairSpec == Spec /\ Fairness

------------------------------------------------------------------------------
(* Properties *)

(* No more is uploaded than was handled, nor stored than was uploaded.     *)
countsAgree(r) ==
  /\ local[r].persisted <= Len(uploaded[r])
  /\ local[r].handled <= local[r].size
  /\ Len(uploaded[r]) <= IF pc[r] \in Running THEN local[r].handled ELSE MaxBatch

TypeOK ==
  /\ authorized \subseteq Account
  /\ anchoredBy \in [Hash -> Account \cup {ZeroAddress}]
  /\ revokedBy \in [Hash -> Account \cup {ZeroAddress}]
  /\ certificateId \in [Hash -> Nat]
  /\ nextCertificateId \in Nat \ {0}
  /\ issueTx \in [Request -> TxState]
  /\ revokeTx \in [Request -> TxState]
  /\ docs \in [Hash -> Document]
  /\ pc \in [Request -> Stage]
  /\ local \in [Request -> Locals]
  /\ replaces \in [Request -> Hash \cup {NoHash}]
  /\ uploaded \in [Request -> Seq(Hash)]
  /\ previousCertificateRevoked \in [Request -> BOOLEAN]
  /\ \A r \in Request : countsAgree(r)

(* MongoDB never knows a certificate that the chain does not, whatever     *)
(* fails; the id it stores, which docs/certificate-schema.md calls the     *)
(* on-chain identifier, is the certificate's own or a smaller one, that of *)
(* one mined between the staticCall that predicts it and the transaction.  *)
DocumentsAreAnchored ==
  \A h \in Hash :
    stored(h) =>
      /\ anchoredBy[h] = Signer
      /\ docs[h].certificateId <= certificateId[h]
      /\ \E g \in Hash : certificateId[g] = docs[h].certificateId

(* A document marked as replaced is of a revoked certificate, and names an *)
(* anchored and stored certificate that names it in turn.                  *)
ReplacedMeansRevoked ==
  \A h \in Hash :
    docs[h].replacedBy # NoHash =>
      /\ revokedBy[h] = Signer
      /\ anchored(docs[h].replacedBy)
      /\ docs[docs[h].replacedBy].replaces = h

(* A request that answers 201 has anchored and stored every certificate it *)
(* reports as successful.  If the field previousCertificateRevoked of the  *)
(* answer is true, which is what the web form shows, the previous one was  *)
(* revoked and no other certificate is marked as its successor.  The       *)
(* message of a re-issuance says that it was revoked in any case           *)
(* (certificate.service 293): it was, or its revocation was never sent, as *)
(* it is another account's certificate or a call failed, or is not mined   *)
(* yet, as wait() failed (253-257 only log); but never did it revert.      *)
SuccessIsComplete ==
  \A r \in Request :
    pc[r] = "done" =>
      /\ uploaded[r] # <<>>
      /\ \A i \in DOMAIN uploaded[r] : anchored(uploaded[r][i]) /\ stored(uploaded[r][i])
      /\ saysRevoked(r) => revoked(replaces[r]) \/ revokeTx[r] \in {"none", "pending"}
      /\ previousCertificateRevoked[r] =>
           /\ revokedBy[replaces[r]] = Signer
           /\ docs[replaces[r]].replacedBy \in {NoHash, uploaded[r][1]}

(* "Runs AFTER the new certificate is anchored so the new one is guaranteed*)
(* to exist": no re-issuance sends or executes the revocation of the old   *)
(* certificate before its successor is anchored and stored.                *)
SuccessorExists ==
  [][\A r \in Request :
       revokeTx'[r] # revokeTx[r] =>
         /\ Len(uploaded[r]) = 1
         /\ anchored(uploaded[r][1])
         /\ stored(uploaded[r][1])]_revokeTx

(* The contract this module assumes only takes steps of CertificateLedger, *)
(* the specification AcademicCertification is shown to implement.          *)
phaseOf(h) ==
  IF revoked(h) THEN "revoked" ELSE IF anchored(h) THEN "anchored" ELSE "absent"
Ledger == INSTANCE CertificateLedger WITH
  Address <- Account, phase <- [h \in Hash |-> phaseOf(h)]
fresh == {h \in Hash : ~anchored(h) /\ anchoredBy'[h] # ZeroAddress}
ContractIsTheLedger ==
  [][\E a \in Account :
       \/ Ledger!Authorize(a) \/ Ledger!Withdraw(a)
       \/ Ledger!Anchor(a, fresh)
       \/ \E h \in Hash : Ledger!Revoke(a, h)]_chainVars

(* Every request is answered, also one whose transaction reverts or whose  *)
(* batch lost an item: there is no moment after which one runs for ever    *)
(* (certificate.service, batchCertificate.service, tx.wait()).             *)
RequestsAreAnswered == []<>(\A r \in Request : pc[r] \notin Running)
==============================================================================
