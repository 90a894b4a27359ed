---------------------------- MODULE RevocationSync ----------------------------
(***************************************************************************)
(* How the status of a certificate travels from the chain to MongoDB:      *)
(* blockchainListener.service (back-fill at start, then a subscription),   *)
(* certificatePersistence.service, auditLog.service, the expiration cron,  *)
(* and the requests that issue certificates, in the order server.ts starts *)
(* them.  One event-loop turn is a step: whatever runs between two awaits  *)
(* is atomic, everything else interleaves.                                 *)
(*                                                                         *)
(* A certificate of the model is one that the backend issues; the contract *)
(* keeps its id and its hash in bijection (RegistryAgrees in               *)
(* AcademicCertification), so both are the certificate itself here.  Block *)
(* numbers and time are one clock, and a transaction has a block of its    *)
(* own.                                                                    *)
(*                                                                         *)
(* lastProcessedBlockForRevocation is not a variable: it lives in memory,  *)
(* server.ts calls the start once per process, and so it is 0 whenever     *)
(* startBlockchainRevocationListener reads it.                             *)
(***************************************************************************)
EXTENDS Integers, FiniteSets

CONSTANTS
  Cert,       (* certificates *)
  Expiry,     (* expiration dates asked for; 0 is none *)
  Window,     (* blocks the back-fill looks back: 10_000 in the code *)
  MaxBlock,   (* bound: last block of the model *)
  NoTx        (* the empty transaction hash "" *)

ASSUME SyncAssumption ==
  /\ Expiry \subseteq Nat
  /\ Window \in Nat
  /\ MaxBlock \in Nat \ {0}
  /\ NoTx \notin Cert

VARIABLES
  (* the chain *)
  head,          (* current block, and its time *)
  chainExpiry,   (* certificate -> expiryDate stored by the contract *)
  revokedAt,     (* certificate -> block of its CertificateRevoked; 0 if none *)
  (* MongoDB *)
  docs,          (* certificate -> status of its document, or "none" *)
  docExpiry,     (* certificate -> expirationDate of its document; 0 for null *)
  auditLog,      (* transaction hash -> audit entry *)
  (* the backend process *)
  phase,         (* where server.ts bootstrap is *)
  fromBlock,
  currentBlock,  (* head as the listener read it at start *)
  subscribedAt,  (* head when contract.on was called; Never if it was not *)
  backlog,       (* revocations the back-fill query returned, not yet handled *)
  heard,         (* revocations delivered to the subscription *)
  handler,       (* certificate -> stage of its running handleRevocationEvent *)
  unsaved,       (* issued by a running request, not yet persisted *)
  cronQueue,     (* certificates the running cron job will still mark *)
  (* history *)
  missed         (* certificate -> why its revocation may be missing in MongoDB *)

chainVars == <<head, chainExpiry, revokedAt>>
dbVars == <<docs, docExpiry, auditLog>>
startVars == <<fromBlock, currentBlock, subscribedAt>>
listenerVars == <<backlog, heard, handler>>
vars == <<chainVars, dbVars, phase, startVars, listenerVars, unsaved, cronQueue, missed>>

DocStatus == {"none", "Valid", "Revoked", "Expired"}
Phase == {"down", "connected", "querying", "backfilling", "serving"}
Stage == {"idle", "lookup", "update", "audit"}
Cause == {"no", "outside window", "query failed", "gap", "handler failed", "late document",
          "cron"}
AuditEntry == [certificate : Cert, blockNumber : Nat]

(* A certificate is on chain from the moment its transaction is mined.     *)
NotIssued == -1
issued(c) == chainExpiry[c] # NotIssued
revoked(c) == revokedAt[c] # 0

Never == MaxBlock + 1
listening == phase = "serving" /\ subscribedAt # Never

Init ==
  /\ head = 1
  /\ chainExpiry = [c \in Cert |-> NotIssued]
  /\ revokedAt = [c \in Cert |-> 0]
  /\ docs = [c \in Cert |-> "none"]
  /\ docExpiry = [c \in Cert |-> 0]
  /\ auditLog = [tx \in {} |-> 0]
  /\ phase = "connected"
  /\ fromBlock = 0
  /\ currentBlock = 0
  /\ subscribedAt = 0
  /\ backlog = {}
  /\ heard = {}
  /\ handler = [c \in Cert |-> "idle"]
  /\ unsaved = {}
  /\ cronQueue = {}
  /\ missed = [c \in Cert |-> "no"]

(* Record a cause for every certificate of lost whose document, if it has  *)
(* one, does not say Revoked yet.                                          *)
noteMissed(lost, cause) ==
  missed' = [c \in Cert |-> IF c \in lost /\ docs[c] # "Revoked" THEN cause ELSE missed[c]]

------------------------------------------------------------------------------
(* The chain: blocks, and issuers who revoke from their own wallets. *)

mineBlock ==
  /\ head < MaxBlock
  /\ head' = head + 1
  /\ UNCHANGED <<chainExpiry, revokedAt, dbVars, phase, startVars, listenerVars,
                 unsaved, cronQueue, missed>>

revokeOnChain(c) ==
  /\ head < MaxBlock
  /\ issued(c)
  /\ ~revoked(c)
  /\ head' = head + 1
  /\ revokedAt' = [revokedAt EXCEPT ![c] = head']
  /\ UNCHANGED <<chainExpiry, dbVars, phase, startVars, listenerVars,
                 unsaved, cronQueue, missed>>

chainStatus(c) ==
  IF revoked(c) THEN "Revoked"
  ELSE IF chainExpiry[c] # 0 /\ head > chainExpiry[c] THEN "Expired" ELSE "Valid"

------------------------------------------------------------------------------
(* startBlockchainRevocationListener *)

(* getBlockNumber: the range of the back-fill is fixed here.               *)
readHead ==
  /\ phase = "connected"
  /\ phase' = "querying"
  /\ currentBlock' = head
  /\ fromBlock' = IF head > Window THEN head - Window ELSE 0
  /\ noteMissed({c \in Cert : revoked(c) /\ revokedAt[c] < fromBlock'}, "outside window")
  /\ UNCHANGED <<chainVars, dbVars, subscribedAt, listenerVars, unsaved, cronQueue>>

(* getBlockNumber fails: the start throws, and server.ts goes on without.  *)
failStart ==
  /\ phase = "connected"
  /\ phase' = "serving"
  /\ subscribedAt' = Never
  /\ UNCHANGED <<chainVars, dbVars, fromBlock, currentBlock, listenerVars, unsaved,
                 cronQueue, missed>>

(* Mutants: every certificate is taken for revoked; the head is excluded.  *)
inRange_Zero(c) == revokedAt[c] \in 0..currentBlock
inRange_HeadExcluded(c) ==
  revokedAt[c] \in fromBlock..currentBlock /\ revoked(c) /\ revokedAt[c] # currentBlock

inRange(c) == revokedAt[c] \in fromBlock..currentBlock /\ revoked(c)

queryHistory ==
  /\ phase = "querying"
  /\ phase' = "backfilling"
  /\ \/ /\ backlog' = {c \in Cert : inRange(c)}
        /\ UNCHANGED missed
     \/ /\ backlog' = {}                       \* "Back-fill failed (non-fatal)"
        /\ noteMissed({c \in Cert : inRange(c)}, "query failed")
  /\ UNCHANGED <<chainVars, dbVars, startVars, heard, handler, unsaved, cronQueue>>

(* The loop over the historical events, one at a time in block order.      *)
nextHistorical(c) ==
  /\ phase = "backfilling"
  /\ \A d \in Cert : handler[d] = "idle"
  /\ c \in backlog
  /\ \A d \in backlog : revokedAt[c] <= revokedAt[d]
  /\ backlog' = backlog \ {c}
  /\ handler' = [handler EXCEPT ![c] = "lookup"]
  /\ UNCHANGED <<chainVars, dbVars, phase, startVars, heard, unsaved, cronQueue, missed>>

(* contract.on, after which the cron starts and requests are served.       *)
subscribe ==
  /\ phase = "backfilling"
  /\ backlog = {}
  /\ \A c \in Cert : handler[c] = "idle"
  /\ phase' = "serving"
  /\ subscribedAt' = head
  /\ noteMissed({c \in Cert : revokedAt[c] > currentBlock}, "gap")
  /\ UNCHANGED <<chainVars, dbVars, fromBlock, currentBlock, listenerVars,
                 unsaved, cronQueue>>

(* ethers calls the subscribed function; the calls do not wait for one     *)
(* another.                                                                *)
deliverEvent(c) ==
  /\ listening
  /\ revokedAt[c] > subscribedAt
  /\ c \notin heard
  /\ heard' = heard \cup {c}
  /\ handler' = [handler EXCEPT ![c] = "lookup"]
  /\ UNCHANGED <<chainVars, dbVars, phase, startVars, backlog, unsaved, cronQueue, missed>>

------------------------------------------------------------------------------
(* handleRevocationEvent: three awaited calls, each of which may fail; the *)
(* failure is caught by the caller, logged, and the event is not retried.  *)

lookupCertificate(c) ==
  /\ handler[c] = "lookup"
  /\ handler' = [handler EXCEPT ![c] = "update"]
  /\ UNCHANGED <<chainVars, dbVars, phase, startVars, backlog, heard, unsaved,
                 cronQueue, missed>>

(* Mutant: the filter has the hash as the event spells it and matches none.*)
setStatus_NoMatch(c, status) == docs' = docs

(* updateOne: no document, no effect.                                      *)
setStatus(c, status) ==
  docs' = IF docs[c] = "none" THEN docs ELSE [docs EXCEPT ![c] = status]

markRevoked(c) ==
  /\ handler[c] = "update"
  /\ setStatus(c, "Revoked")
  /\ handler' = [handler EXCEPT ![c] = "audit"]
  /\ missed' = [missed EXCEPT ![c] =
                 IF docs[c] # "none" THEN "no"
                 ELSE IF c \in unsaved THEN "late document" ELSE @]
  /\ UNCHANGED <<chainVars, docExpiry, auditLog, phase, startVars, backlog, heard,
                 unsaved, cronQueue>>

(* The back-fill holds EventLogs.  ethers passes a subscribed function a   *)
(* ContractEventPayload, whose log is a field: `?? 0` and `?? ""` apply.   *)
(* Mutant: the hash of the event of a live subscription is left undefined. *)
transactionHash_Undefined(c) == IF phase = "serving" THEN "undefined" ELSE c

transactionHash(c) == IF phase = "serving" THEN NoTx ELSE c
blockNumber(c) == IF phase = "serving" THEN 0 ELSE revokedAt[c]

(* Mutant: $set in place of $setOnInsert.                                  *)
writeAuditLog_Set(c) ==
  /\ handler[c] = "audit"
  /\ auditLog' =
       [tx \in DOMAIN auditLog \cup {transactionHash(c)} |->
         IF tx = transactionHash(c)
         THEN [certificate |-> c, blockNumber |-> blockNumber(c)] ELSE auditLog[tx]]
  /\ handler' = [handler EXCEPT ![c] = "idle"]
  /\ UNCHANGED <<chainVars, docs, docExpiry, phase, startVars, backlog, heard, unsaved,
                 cronQueue, missed>>

(* The upsert of createAuditLog: $setOnInsert, keyed on the transaction.   *)
writeAuditLog(c) ==
  /\ handler[c] = "audit"
  /\ auditLog' =
       [tx \in DOMAIN auditLog \cup {transactionHash(c)} |->
         IF tx \in DOMAIN auditLog THEN auditLog[tx]
         ELSE [certificate |-> c, blockNumber |-> blockNumber(c)]]
  /\ handler' = [handler EXCEPT ![c] = "idle"]
  /\ UNCHANGED <<chainVars, docs, docExpiry, phase, startVars, backlog, heard, unsaved,
                 cronQueue, missed>>

failHandler(c) ==
  /\ handler[c] # "idle"
  /\ handler' = [handler EXCEPT ![c] = "idle"]
  /\ IF handler[c] \in {"lookup", "update"}
     THEN noteMissed({c}, "handler failed") ELSE UNCHANGED missed
  /\ UNCHANGED <<chainVars, dbVars, phase, startVars, backlog, heard, unsaved, cronQueue>>

------------------------------------------------------------------------------
(* Requests: the transaction is mined, then the document is created.  A    *)
(* batch sends no expiry to the chain, where it would have to be in the    *)
(* future, and keeps it in the document.  (CertificateIssuance has the     *)
(* steps of a request; here a batch is one certificate.)                   *)

anchorCertificate(c, expiry, batch) ==
  /\ phase = "serving"
  /\ head < MaxBlock
  /\ ~issued(c)
  /\ head' = head + 1
  /\ batch \/ expiry = 0 \/ expiry > head'
  /\ chainExpiry' = [chainExpiry EXCEPT ![c] = IF batch THEN 0 ELSE expiry]
  /\ docExpiry' = [docExpiry EXCEPT ![c] = expiry]
  /\ unsaved' = unsaved \cup {c}
  /\ UNCHANGED <<revokedAt, docs, auditLog, phase, startVars, listenerVars,
                 cronQueue, missed>>

(* Mutant: the document is saved again when the first answer is late.      *)
persistCertificate_Retried(c) ==
  /\ c \in unsaved
  /\ unsaved' \in {unsaved, unsaved \ {c}}
  /\ docs' \in {docs, [docs EXCEPT ![c] = "Valid"]}
  /\ UNCHANGED <<chainVars, docExpiry, auditLog, phase, startVars, listenerVars,
                 cronQueue, missed>>

(* CertificateModel.create, which may fail: the request answers 500.       *)
persistCertificate(c) ==
  /\ c \in unsaved
  /\ unsaved' = unsaved \ {c}
  /\ docs' \in {docs, [docs EXCEPT ![c] = "Valid"]}
  /\ UNCHANGED <<chainVars, docExpiry, auditLog, phase, startVars, listenerVars,
                 cronQueue, missed>>

------------------------------------------------------------------------------
(* runExpirationCheck: what is due is chosen from one query and written    *)
(* document by document.                                                   *)

due(c) == docs[c] = "Valid" /\ docExpiry[c] # 0 /\ docExpiry[c] <= head

startCron ==
  /\ phase = "serving"
  /\ cronQueue = {}
  /\ cronQueue' = {c \in Cert : due(c)}
  /\ cronQueue' # {}
  /\ UNCHANGED <<chainVars, dbVars, phase, startVars, listenerVars, unsaved, missed>>

markExpired(c) ==
  /\ c \in cronQueue
  /\ cronQueue' = cronQueue \ {c}
  /\ setStatus(c, "Expired")
  /\ missed' = [missed EXCEPT ![c] = IF docs[c] = "Revoked" THEN "cron" ELSE @]
  /\ UNCHANGED <<chainVars, docExpiry, auditLog, phase, startVars, listenerVars, unsaved>>

failExpiry(c) ==
  /\ c \in cronQueue
  /\ cronQueue' = cronQueue \ {c}
  /\ UNCHANGED <<chainVars, dbVars, phase, startVars, listenerVars, unsaved, missed>>

------------------------------------------------------------------------------
(* The process dies and is started again. *)

crash ==
  /\ phase # "down"
  /\ phase' = "down"
  /\ fromBlock' = 0
  /\ currentBlock' = 0
  /\ subscribedAt' = 0
  /\ backlog' = {}
  /\ heard' = {}
  /\ handler' = [c \in Cert |-> "idle"]
  /\ unsaved' = {}
  /\ cronQueue' = {}
  /\ UNCHANGED <<chainVars, dbVars, missed>>

(* bootstrap: connectDatabase, then the listener.                          *)
restart ==
  /\ phase = "down"
  /\ phase' = "connected"
  /\ UNCHANGED <<chainVars, dbVars, startVars, listenerVars, unsaved, cronQueue, missed>>

handlerStep(c) == lookupCertificate(c) \/ markRevoked(c) \/ writeAuditLog(c)

Next ==
  \/ mineBlock
  \/ readHead
  \/ failStart
  \/ queryHistory
  \/ subscribe
  \/ startCron
  \/ crash
  \/ restart
  \/ \E c \in Cert :
       \/ revokeOnChain(c)
       \/ nextHistorical(c)
       \/ deliverEvent(c)
       \/ lookupCertificate(c)
       \/ markRevoked(c)
       \/ writeAuditLog(c)
       \/ failHandler(c)
       \/ \E expiry \in Expiry, batch \in BOOLEAN : anchorCertificate(c, expiry, batch)
       \/ persistCertificate(c)
       \/ markExpired(c)
       \/ failExpiry(c)

(* The event loop runs what is ready: the node delivers events to a live   *)
(* subscription, a started handler goes on, and so does the bootstrap.     *)
(* Nothing makes blocks, requests, crashes or restarts happen.             *)
Fairness ==
  /\ WF_vars(readHead \/ failStart) /\ WF_vars(queryHistory) /\ WF_vars(subscribe)
  /\ \A c \in Cert :
       /\ WF_vars(nextHistorical(c))
       /\ WF_vars(deliverEvent(c))
       /\ WF_vars(handlerStep(c))

Spec == Init /\ [][Next]_vars
FairSpec == Spec /\ Fairness

------------------------------------------------------------------------------
(* Properties *)

TypeOK ==
  /\ head \in 1..MaxBlock
  /\ chainExpiry \in [Cert -> Expiry \cup {0, NotIssued}]
  /\ revokedAt \in [Cert -> 0..MaxBlock]
  /\ docs \in [Cert -> DocStatus]
  /\ docExpiry \in [Cert -> Expiry \cup {0}]
  /\ DOMAIN auditLog \subseteq Cert \cup {NoTx}
  /\ \A tx \in DOMAIN auditLog : auditLog[tx] \in AuditEntry
  /\ phase \in Phase
  /\ {fromBlock, currentBlock} \subseteq 0..MaxBlock
  /\ subscribedAt \in 0..MaxBlock \cup {Never}
  /\ backlog \subseteq Cert
  /\ heard \subseteq Cert
  /\ handler \in [Cert -> Stage]
  /\ unsaved \subseteq Cert
  /\ cronQueue \subseteq Cert
  /\ missed \in [Cert -> Cause]

(* A document that says Revoked, and an audit entry about a certificate,   *)
(* are always backed by a revocation on chain (an entry that names a block *)
(* names the right one); and a document that says Expired by a certificate *)
(* the contract does not call Valid, but for a batch, whose expiry is in   *)
(* MongoDB alone, and for the very block of the expiry, where the cron     *)
(* compares with <= and the contract with >.                               *)
RevokedOnlyIfOnChain ==
  /\ \A c \in Cert : docs[c] = "Revoked" => revoked(c)
  /\ \A tx \in DOMAIN auditLog :
       /\ revoked(auditLog[tx].certificate)
       /\ auditLog[tx].blockNumber \in {0, revokedAt[auditLog[tx].certificate]}

ExpiredOnlyIfOnChain ==
  \A c \in Cert :
    docs[c] = "Expired" =>
      chainStatus(c) # "Valid" \/ chainExpiry[c] # docExpiry[c] \/ head = docExpiry[c]
DatabaseIsBackedByChain == RevokedOnlyIfOnChain /\ ExpiredOnlyIfOnChain

(* While the listener runs, the document of a revoked certificate says     *)
(* something else only if its event is still on its way, or for one of the *)
(* named causes: there is no other hole in the synchronisation.  (Those of *)
(* a start - window, failed query, gap - are exceptions to the listener's  *)
(* comment: "it back-fills historical events from the last 10,000 blocks so*)
(* no revocation is missed after a server restart", 10-11.)                *)
onItsWay(c) ==
  \/ revokedAt[c] > subscribedAt /\ c \notin heard
  \/ handler[c] \in {"lookup", "update"}
StaleOnlyWhenMissed ==
  listening =>
    \A c \in Cert :
      revoked(c) /\ docs[c] \in {"Valid", "Expired"} => onItsWay(c) \/ missed[c] # "no"

(* Only the first document a request creates says Valid: neither the       *)
(* listener nor the cron, in any order, gives a status back.               *)
NeverValidAgain ==
  [][\A c \in Cert : docs[c] \in {"Revoked", "Expired"} => docs'[c] # "Valid"]_docs

(* An audit entry is immutable, also when its event is handled again after *)
(* a restart.                                                              *)
AuditLogIsImmutable ==
  [][\A tx \in DOMAIN auditLog :
       tx \in DOMAIN auditLog' /\ auditLog'[tx] = auditLog[tx]]_auditLog

(* When no call fails and the process does not die, every revocation ends  *)
(* up in the document of its certificate, except for the causes that no    *)
(* retry repairs.                                                          *)
RevocationReachesDatabase ==
  \A c \in Cert :
    (listening /\ revoked(c) /\ docs[c] # "none")
      ~> (docs[c] = "Revoked" \/ missed[c] # "no" \/ ~listening)

(* "For every event received the service writes an immutable audit-log     *)
(* entry with the block number": a handler that came to its end left an    *)
(* entry with the block of its event.                                      *)
EveryEventIsAudited ==
  [][\A c \in Cert :
       writeAuditLog(c) =>
         \E tx \in DOMAIN auditLog' :
           auditLog'[tx] = [certificate |-> c, blockNumber |-> revokedAt[c]]]_vars
==============================================================================
