------------------------- MODULE RevocationSyncProofs -------------------------
(***************************************************************************)
(* Proofs about RevocationSync, for any certificates, expiry dates, window *)
(* and number of blocks.                                                   *)
(***************************************************************************)
EXTENDS RevocationSync, TLAPS

(***************************************************************************)
(* The inductive invariant                                                 *)
(***************************************************************************)

(* Everything that names a revocation names one that is on chain, in a     *)
(* block that has been mined; and the listener looks at mined blocks.      *)
EventsAreReal ==
  /\ \A c \in Cert : revokedAt[c] <= head
  /\ \A c \in Cert : c \in backlog \/ c \in heard \/ handler[c] # "idle" => revoked(c)
  /\ currentBlock <= head /\ fromBlock <= currentBlock
  /\ subscribedAt <= head \/ subscribedAt = Never

(* A document has its certificate on chain; one that is to be created is   *)
(* not there yet; and what the cron chose, or wrote, is due.               *)
DocumentsAreIssued ==
  /\ \A c \in Cert : docs[c] # "none" \/ c \in unsaved \/ revoked(c) => issued(c)
  /\ \A c \in unsaved : docs[c] = "none"
  /\ \A c \in Cert : c \in cronQueue \/ docs[c] = "Expired" =>
       docs[c] # "none" /\ docExpiry[c] # 0 /\ docExpiry[c] <= head

(* Where the bootstrap is, the revocation of c can still be found.         *)
canStillArrive(c) ==
  CASE phase \in {"down", "connected"} -> TRUE
    [] phase = "querying" -> revokedAt[c] >= fromBlock
    [] phase = "backfilling" ->
         \/ c \in backlog \/ handler[c] \in {"lookup", "update"}
         \/ revokedAt[c] > currentBlock
    [] phase = "serving" -> ~listening \/ onItsWay(c)

(* A revoked certificate whose document exists, or is about to, says so,   *)
(* can still be told, or was missed for a cause.                           *)
NothingLostSilently ==
  \A c \in Cert :
    revoked(c) /\ docs[c] # "Revoked" /\ (docs[c] # "none" \/ c \in unsaved) =>
      canStillArrive(c) \/ missed[c] # "no"

SInv ==
  /\ TypeOK /\ RevokedOnlyIfOnChain
  /\ EventsAreReal /\ DocumentsAreIssued /\ NothingLostSilently

(***************************************************************************)
(* Type correctness                                                        *)
(***************************************************************************)

(* At the start the chain and MongoDB are empty.                           *)
LEMMA InitType == SyncAssumption /\ Init => TypeOK
  BY DEF SyncAssumption, Init, TypeOK, NotIssued, Never, DocStatus, Phase, Stage, Cause

(* What is written as a block number is one.                               *)
LEMMA BlockNumbers ==
  ASSUME SyncAssumption, TypeOK
  PROVE  /\ head \in Nat /\ 0 \in 0..MaxBlock /\ head \in 0..MaxBlock
         /\ head < MaxBlock => head + 1 \in 1..MaxBlock /\ head + 1 \in 0..MaxBlock
         /\ (IF head > Window THEN head - Window ELSE 0) \in 0..MaxBlock
         /\ \A c \in Cert : revokedAt[c] \in Nat
  BY DEF SyncAssumption, TypeOK

(* What lies before the head lies before the next one.                     *)
BlocksAreOrdered ==
  /\ \A c \in Cert : revokedAt[c] <= head => revokedAt[c] <= head + 1
  /\ \A c \in Cert : docExpiry[c] <= head => docExpiry[c] <= head + 1
  /\ currentBlock <= head => currentBlock <= head + 1 /\ head + 1 > currentBlock
  /\ subscribedAt <= head => subscribedAt <= head + 1 /\ head + 1 > subscribedAt
  /\ fromBlock <= currentBlock /\ currentBlock <= head => head + 1 >= fromBlock
  /\ head <= head /\ head <= head + 1 /\ head + 1 <= head + 1 /\ head + 1 # 0
  /\ (IF head > Window THEN head - Window ELSE 0) <= head

LEMMA BlockOrder ==
  ASSUME SyncAssumption, TypeOK
  PROVE  BlocksAreOrdered
<1>1. /\ head \in Nat /\ Window \in Nat /\ fromBlock \in Nat /\ currentBlock \in Nat
      /\ subscribedAt \in Nat /\ \A c \in Cert : revokedAt[c] \in Nat
  BY DEF SyncAssumption, TypeOK, Never
<1>2. \A c \in Cert : docExpiry[c] \in Nat
  <2>1. Expiry \cup {0} \subseteq Nat
    BY DEF SyncAssumption
  <2> QED
    BY <2>1 DEF TypeOK
<1> QED
  BY <1>1, <1>2 DEF BlocksAreOrdered

(* Each step keeps every variable in its type.                             *)
LEMMA StepType == SyncAssumption /\ TypeOK /\ [Next]_vars => TypeOK'
<1> SUFFICES ASSUME SyncAssumption, TypeOK, [Next]_vars PROVE TypeOK'
  OBVIOUS
<1>0. /\ head \in Nat /\ 0 \in 0..MaxBlock /\ head \in 0..MaxBlock
      /\ head < MaxBlock => head + 1 \in 1..MaxBlock /\ head + 1 \in 0..MaxBlock
      /\ (IF head > Window THEN head - Window ELSE 0) \in 0..MaxBlock
      /\ \A c \in Cert : revokedAt[c] \in Nat
  BY BlockNumbers
<1> USE <1>0 DEF TypeOK, chainVars, dbVars, startVars, listenerVars, DocStatus, Phase,
                 Stage,
                 Cause
<1>1. ASSUME mineBlock
      PROVE  TypeOK'
  BY <1>1 DEF mineBlock
<1>2. ASSUME readHead
      PROVE  TypeOK'
  BY <1>2 DEF readHead, noteMissed
<1>3. ASSUME failStart
      PROVE  TypeOK'
  BY <1>3 DEF failStart, Never
<1>4. ASSUME queryHistory
      PROVE  TypeOK'
  BY <1>4 DEF queryHistory, noteMissed, inRange
<1>5. ASSUME subscribe
      PROVE  TypeOK'
  BY <1>5 DEF subscribe, noteMissed, Never
<1>6. ASSUME startCron
      PROVE  TypeOK'
  BY <1>6 DEF startCron, due
<1>7. ASSUME crash
      PROVE  TypeOK'
  BY <1>7 DEF crash
<1>8. ASSUME restart
      PROVE  TypeOK'
  BY <1>8 DEF restart
<1>9. ASSUME NEW c \in Cert, revokeOnChain(c)
      PROVE  TypeOK'
  BY <1>9 DEF revokeOnChain, issued, revoked
<1>10. ASSUME NEW c \in Cert, nextHistorical(c)
       PROVE  TypeOK'
  BY <1>10 DEF nextHistorical
<1>11. ASSUME NEW c \in Cert, deliverEvent(c)
       PROVE  TypeOK'
  BY <1>11 DEF deliverEvent, listening
<1>12. ASSUME NEW c \in Cert, lookupCertificate(c)
       PROVE  TypeOK'
  BY <1>12 DEF lookupCertificate
<1>13. ASSUME NEW c \in Cert, markRevoked(c)
       PROVE  TypeOK'
  BY <1>13 DEF markRevoked, setStatus
<1>14. ASSUME NEW c \in Cert, writeAuditLog(c)
       PROVE  TypeOK'
  <2>1. transactionHash(c) \in Cert \cup {NoTx} /\ blockNumber(c) \in Nat
    BY DEF transactionHash, blockNumber
  <2>2. /\ DOMAIN auditLog' = DOMAIN auditLog \cup {transactionHash(c)}
        /\ \A tx \in DOMAIN auditLog' : auditLog'[tx] \in AuditEntry
    BY <1>14, <2>1 DEF writeAuditLog, AuditEntry
  <2>3. handler' \in [Cert -> Stage]
    BY <1>14 DEF writeAuditLog
  <2> QED
    BY <1>14, <2>1, <2>2, <2>3 DEF writeAuditLog
<1>15. ASSUME NEW c \in Cert, failHandler(c)
       PROVE  TypeOK'
  BY <1>15 DEF failHandler, noteMissed
<1>16. ASSUME NEW c \in Cert, NEW expiry \in Expiry, NEW batch \in BOOLEAN,
              anchorCertificate(c, expiry, batch)
       PROVE  TypeOK'
  BY <1>16 DEF anchorCertificate, issued
<1>17. ASSUME NEW c \in Cert, persistCertificate(c)
       PROVE  TypeOK'
  BY <1>17 DEF persistCertificate
<1>18. ASSUME NEW c \in Cert, markExpired(c)
       PROVE  TypeOK'
  BY <1>18 DEF markExpired, setStatus
<1>19. ASSUME NEW c \in Cert, failExpiry(c)
       PROVE  TypeOK'
  BY <1>19 DEF failExpiry
<1>20. ASSUME UNCHANGED vars
      PROVE  TypeOK'
  BY <1>20 DEF vars
<1> HIDE DEF TypeOK
<1> QED
  BY <1>1, <1>2, <1>3, <1>4, <1>5, <1>6, <1>7, <1>8, <1>9, <1>10, <1>11, <1>12, <1>13,
     <1>14, <1>15, <1>16, <1>17, <1>18, <1>19, <1>20 DEF Next

(***************************************************************************)
(* Each step keeps the invariant                                           *)
(***************************************************************************)

(* Events are taken from the chain, and the chain takes nothing back.      *)
LEMMA StepEvents ==
  ASSUME SyncAssumption, SInv, TypeOK', [Next]_vars
  PROVE  EventsAreReal'
<1>0. TypeOK /\ TypeOK' /\ EventsAreReal /\ DocumentsAreIssued /\ RevokedOnlyIfOnChain
      /\ NothingLostSilently /\ SyncAssumption
  BY DEF SInv
<1>a. BlocksAreOrdered
  BY <1>0, BlockOrder
<1> USE <1>0, <1>a DEF BlocksAreOrdered, EventsAreReal, TypeOK, revoked, Never,
                       chainVars, dbVars, startVars, listenerVars
<1>1. ASSUME mineBlock PROVE EventsAreReal'
  BY <1>1 DEF mineBlock
<1>2. ASSUME readHead PROVE EventsAreReal'
  BY <1>2 DEF readHead, noteMissed
<1>3. ASSUME failStart PROVE EventsAreReal'
  BY <1>3 DEF failStart
<1>4. ASSUME queryHistory PROVE EventsAreReal'
  BY <1>4 DEF queryHistory, noteMissed, inRange
<1>5. ASSUME subscribe PROVE EventsAreReal'
  BY <1>5 DEF subscribe, noteMissed
<1>6. ASSUME startCron PROVE EventsAreReal'
  BY <1>6 DEF startCron, due
<1>7. ASSUME crash PROVE EventsAreReal'
  BY <1>7 DEF crash
<1>8. ASSUME restart PROVE EventsAreReal'
  BY <1>8 DEF restart
<1>9. ASSUME NEW c \in Cert, revokeOnChain(c) PROVE EventsAreReal'
  BY <1>9 DEF revokeOnChain
<1>10. ASSUME NEW c \in Cert, nextHistorical(c) PROVE EventsAreReal'
  BY <1>10 DEF nextHistorical
<1>11. ASSUME NEW c \in Cert, deliverEvent(c) PROVE EventsAreReal'
  BY <1>11 DEF deliverEvent, listening
<1>12. ASSUME NEW c \in Cert, lookupCertificate(c) PROVE EventsAreReal'
  BY <1>12 DEF lookupCertificate
<1>13. ASSUME NEW c \in Cert, markRevoked(c) PROVE EventsAreReal'
  BY <1>13 DEF markRevoked, setStatus
<1>14. ASSUME NEW c \in Cert, writeAuditLog(c) PROVE EventsAreReal'
  BY <1>14 DEF writeAuditLog, transactionHash, blockNumber
<1>15. ASSUME NEW c \in Cert, failHandler(c) PROVE EventsAreReal'
  BY <1>15 DEF failHandler, noteMissed
<1>16. ASSUME NEW c \in Cert, NEW expiry \in Expiry, NEW batch \in BOOLEAN,
              anchorCertificate(c, expiry, batch)
       PROVE  EventsAreReal'
  BY <1>16 DEF anchorCertificate, SyncAssumption, NotIssued
<1>17. ASSUME NEW c \in Cert, persistCertificate(c) PROVE EventsAreReal'
  BY <1>17 DEF persistCertificate
<1>18. ASSUME NEW c \in Cert, markExpired(c) PROVE EventsAreReal'
  BY <1>18 DEF markExpired, setStatus
<1>19. ASSUME NEW c \in Cert, failExpiry(c) PROVE EventsAreReal'
  BY <1>19 DEF failExpiry
<1>20. ASSUME UNCHANGED vars PROVE EventsAreReal'
  BY <1>20 DEF vars
<1> HIDE DEF EventsAreReal
<1> QED
  BY <1>1, <1>2, <1>3, <1>4, <1>5, <1>6, <1>7, <1>8, <1>9, <1>10, <1>11, <1>12, <1>13,
     <1>14, <1>15, <1>16, <1>17, <1>18, <1>19, <1>20 DEF Next

(* A document is of a certificate that was issued.                         *)
LEMMA StepDocuments ==
  ASSUME SyncAssumption, SInv, TypeOK', [Next]_vars
  PROVE  DocumentsAreIssued'
<1>0. TypeOK /\ TypeOK' /\ EventsAreReal /\ DocumentsAreIssued /\ RevokedOnlyIfOnChain
      /\ NothingLostSilently /\ SyncAssumption
  BY DEF SInv
<1>a. BlocksAreOrdered
  BY <1>0, BlockOrder
<1> USE <1>0, <1>a DEF BlocksAreOrdered, DocumentsAreIssued, EventsAreReal, TypeOK,
                       issued, revoked, chainVars, dbVars, startVars, listenerVars
<1>1. ASSUME mineBlock PROVE DocumentsAreIssued'
  BY <1>1 DEF mineBlock
<1>2. ASSUME readHead PROVE DocumentsAreIssued'
  BY <1>2 DEF readHead, noteMissed
<1>3. ASSUME failStart PROVE DocumentsAreIssued'
  BY <1>3 DEF failStart
<1>4. ASSUME queryHistory PROVE DocumentsAreIssued'
  BY <1>4 DEF queryHistory, noteMissed, inRange
<1>5. ASSUME subscribe PROVE DocumentsAreIssued'
  BY <1>5 DEF subscribe, noteMissed
<1>6. ASSUME startCron PROVE DocumentsAreIssued'
  BY <1>6 DEF startCron, due
<1>7. ASSUME crash PROVE DocumentsAreIssued'
  BY <1>7 DEF crash
<1>8. ASSUME restart PROVE DocumentsAreIssued'
  BY <1>8 DEF restart
<1>9. ASSUME NEW c \in Cert, revokeOnChain(c) PROVE DocumentsAreIssued'
  BY <1>9 DEF revokeOnChain
<1>10. ASSUME NEW c \in Cert, nextHistorical(c) PROVE DocumentsAreIssued'
  BY <1>10 DEF nextHistorical
<1>11. ASSUME NEW c \in Cert, deliverEvent(c) PROVE DocumentsAreIssued'
  BY <1>11 DEF deliverEvent, listening
<1>12. ASSUME NEW c \in Cert, lookupCertificate(c) PROVE DocumentsAreIssued'
  BY <1>12 DEF lookupCertificate
<1>13. ASSUME NEW c \in Cert, markRevoked(c) PROVE DocumentsAreIssued'
  BY <1>13 DEF markRevoked, setStatus
<1>14. ASSUME NEW c \in Cert, writeAuditLog(c) PROVE DocumentsAreIssued'
  BY <1>14 DEF writeAuditLog, transactionHash, blockNumber
<1>15. ASSUME NEW c \in Cert, failHandler(c) PROVE DocumentsAreIssued'
  BY <1>15 DEF failHandler, noteMissed
<1>16. ASSUME NEW c \in Cert, NEW expiry \in Expiry, NEW batch \in BOOLEAN,
              anchorCertificate(c, expiry, batch)
       PROVE  DocumentsAreIssued'
  BY <1>16 DEF anchorCertificate, SyncAssumption, NotIssued
<1>17. ASSUME NEW c \in Cert, persistCertificate(c) PROVE DocumentsAreIssued'
  BY <1>17 DEF persistCertificate
<1>18. ASSUME NEW c \in Cert, markExpired(c) PROVE DocumentsAreIssued'
  BY <1>18 DEF markExpired, setStatus
<1>19. ASSUME NEW c \in Cert, failExpiry(c) PROVE DocumentsAreIssued'
  BY <1>19 DEF failExpiry
<1>20. ASSUME UNCHANGED vars PROVE DocumentsAreIssued'
  BY <1>20 DEF vars
<1> HIDE DEF DocumentsAreIssued
<1> QED
  BY <1>1, <1>2, <1>3, <1>4, <1>5, <1>6, <1>7, <1>8, <1>9, <1>10, <1>11, <1>12, <1>13,
     <1>14, <1>15, <1>16, <1>17, <1>18, <1>19, <1>20 DEF Next

(* A document is marked, and an audit entry made, of revocations only.     *)
LEMMA StepAudit ==
  ASSUME SyncAssumption, SInv, TypeOK', [Next]_vars
  PROVE  RevokedOnlyIfOnChain'
<1>0. TypeOK /\ TypeOK' /\ EventsAreReal /\ DocumentsAreIssued /\ RevokedOnlyIfOnChain
      /\ NothingLostSilently /\ SyncAssumption
  BY DEF SInv
<1>a. BlocksAreOrdered
  BY <1>0, BlockOrder
<1> USE <1>0, <1>a DEF BlocksAreOrdered, RevokedOnlyIfOnChain, EventsAreReal, TypeOK,
                       AuditEntry, revoked, chainVars, dbVars, startVars, listenerVars
<1>1. ASSUME mineBlock PROVE RevokedOnlyIfOnChain'
  BY <1>1 DEF mineBlock
<1>2. ASSUME readHead PROVE RevokedOnlyIfOnChain'
  BY <1>2 DEF readHead, noteMissed
<1>3. ASSUME failStart PROVE RevokedOnlyIfOnChain'
  BY <1>3 DEF failStart
<1>4. ASSUME queryHistory PROVE RevokedOnlyIfOnChain'
  BY <1>4 DEF queryHistory, noteMissed, inRange
<1>5. ASSUME subscribe PROVE RevokedOnlyIfOnChain'
  BY <1>5 DEF subscribe, noteMissed
<1>6. ASSUME startCron PROVE RevokedOnlyIfOnChain'
  BY <1>6 DEF startCron, due
<1>7. ASSUME crash PROVE RevokedOnlyIfOnChain'
  BY <1>7 DEF crash
<1>8. ASSUME restart PROVE RevokedOnlyIfOnChain'
  BY <1>8 DEF restart
<1>9. ASSUME NEW c \in Cert, revokeOnChain(c) PROVE RevokedOnlyIfOnChain'
  BY <1>9 DEF revokeOnChain
<1>10. ASSUME NEW c \in Cert, nextHistorical(c) PROVE RevokedOnlyIfOnChain'
  BY <1>10 DEF nextHistorical
<1>11. ASSUME NEW c \in Cert, deliverEvent(c) PROVE RevokedOnlyIfOnChain'
  BY <1>11 DEF deliverEvent, listening
<1>12. ASSUME NEW c \in Cert, lookupCertificate(c) PROVE RevokedOnlyIfOnChain'
  BY <1>12 DEF lookupCertificate
<1>13. ASSUME NEW c \in Cert, markRevoked(c) PROVE RevokedOnlyIfOnChain'
  BY <1>13 DEF markRevoked, setStatus
<1>14. ASSUME NEW c \in Cert, writeAuditLog(c) PROVE RevokedOnlyIfOnChain'
  BY <1>14 DEF writeAuditLog, transactionHash, blockNumber
<1>15. ASSUME NEW c \in Cert, failHandler(c) PROVE RevokedOnlyIfOnChain'
  BY <1>15 DEF failHandler, noteMissed
<1>16. ASSUME NEW c \in Cert, NEW expiry \in Expiry, NEW batch \in BOOLEAN,
              anchorCertificate(c, expiry, batch)
       PROVE  RevokedOnlyIfOnChain'
  BY <1>16 DEF anchorCertificate, SyncAssumption, NotIssued
<1>17. ASSUME NEW c \in Cert, persistCertificate(c) PROVE RevokedOnlyIfOnChain'
  BY <1>17 DEF persistCertificate
<1>18. ASSUME NEW c \in Cert, markExpired(c) PROVE RevokedOnlyIfOnChain'
  BY <1>18 DEF markExpired, setStatus
<1>19. ASSUME NEW c \in Cert, failExpiry(c) PROVE RevokedOnlyIfOnChain'
  BY <1>19 DEF failExpiry
<1>20. ASSUME UNCHANGED vars PROVE RevokedOnlyIfOnChain'
  BY <1>20 DEF vars
<1> HIDE DEF RevokedOnlyIfOnChain
<1> QED
  BY <1>1, <1>2, <1>3, <1>4, <1>5, <1>6, <1>7, <1>8, <1>9, <1>10, <1>11, <1>12, <1>13,
     <1>14, <1>15, <1>16, <1>17, <1>18, <1>19, <1>20 DEF Next

(* A revocation that no scan will reach any more was counted as missed.    *)
LEMMA StepLost ==
  ASSUME SyncAssumption, SInv, TypeOK', [Next]_vars
  PROVE  NothingLostSilently'
<1>0. TypeOK /\ TypeOK' /\ EventsAreReal /\ DocumentsAreIssued /\ RevokedOnlyIfOnChain
      /\ NothingLostSilently /\ SyncAssumption
  BY DEF SInv
<1>a. BlocksAreOrdered
  BY <1>0, BlockOrder
<1> USE <1>0, <1>a DEF BlocksAreOrdered, NothingLostSilently, canStillArrive, onItsWay,
                       listening, EventsAreReal, DocumentsAreIssued, TypeOK, issued,
                       revoked, Never, chainVars, dbVars, startVars, listenerVars
<1>1. ASSUME mineBlock PROVE NothingLostSilently'
  BY <1>1 DEF mineBlock
<1>2. ASSUME readHead PROVE NothingLostSilently'
  <2>1. phase' = "querying" /\ docs' = docs /\ unsaved' = unsaved /\ revokedAt' = revokedAt
    BY <1>2 DEF readHead
  <2>2. ASSUME NEW c \in Cert, revoked(c), docs[c] # "Revoked", ~(revokedAt[c] >= fromBlock')
        PROVE  missed'[c] = "outside window"
    <3>1. fromBlock' \in Nat /\ revokedAt[c] \in Nat
      OBVIOUS
    <3>2. revokedAt[c] < fromBlock'
      BY <2>2, <3>1
    <3> QED
      BY <1>2, <2>2, <3>2 DEF readHead, noteMissed
  <2> QED
    BY <2>1, <2>2
<1>3. ASSUME failStart PROVE NothingLostSilently'
  BY <1>3 DEF failStart
<1>4. ASSUME queryHistory PROVE NothingLostSilently'
  <2>1. /\ phase = "querying" /\ phase' = "backfilling"
        /\ UNCHANGED <<docs, unsaved, revokedAt, fromBlock, currentBlock, handler>>
    BY <1>4 DEF queryHistory
  <2>2. \A c \in Cert : revoked(c) /\ revokedAt[c] >= fromBlock =>
          inRange(c) \/ revokedAt[c] > currentBlock
    <3>1. \A c \in Cert : revokedAt[c] \in Nat /\ fromBlock \in Nat /\ currentBlock \in Nat
      OBVIOUS
    <3> QED
      BY <3>1 DEF inRange
  <2>3. \A c \in Cert : inRange(c) /\ docs[c] # "Revoked" => c \in backlog' \/ missed'[c] # "no"
    BY <1>4 DEF queryHistory, noteMissed
  <2>4. \A c \in Cert : missed[c] # "no" => missed'[c] # "no"
    BY <1>4 DEF queryHistory, noteMissed
  <2> QED
    BY <2>1, <2>2, <2>3, <2>4
<1>5. ASSUME subscribe PROVE NothingLostSilently'
  BY <1>5 DEF subscribe, noteMissed
<1>6. ASSUME startCron PROVE NothingLostSilently'
  BY <1>6 DEF startCron, due
<1>7. ASSUME crash PROVE NothingLostSilently'
  BY <1>7 DEF crash
<1>8. ASSUME restart PROVE NothingLostSilently'
  BY <1>8 DEF restart
<1>9. ASSUME NEW c \in Cert, revokeOnChain(c) PROVE NothingLostSilently'
  <2>1. /\ ~revoked(c) /\ revokedAt'[c] = head + 1
        /\ \A d \in Cert \ {c} : revokedAt'[d] = revokedAt[d]
        /\ UNCHANGED <<docs, phase, startVars, listenerVars, unsaved, missed>>
    BY <1>9 DEF revokeOnChain
  <2>2. \A d \in Cert \ {c} : canStillArrive(d) => canStillArrive(d)'
    BY <2>1
  <2>3. canStillArrive(c)'
    <3>0. phase' = phase /\ fromBlock' = fromBlock /\ currentBlock' = currentBlock
          /\ subscribedAt' = subscribedAt /\ heard' = heard
      BY <2>1
    <3>1. CASE phase \in {"down", "connected"}
      BY <3>0, <3>1
    <3>2. CASE phase = "querying"
      BY <2>1, <3>0, <3>2
    <3>3. CASE phase = "backfilling"
      BY <2>1, <3>0, <3>3
    <3>4. CASE phase = "serving"
      BY <2>1, <3>0, <3>4
    <3> QED
      BY <3>1, <3>2, <3>3, <3>4 DEF Phase
  <2> QED
    BY <2>1, <2>2, <2>3
<1>10. ASSUME NEW c \in Cert, nextHistorical(c) PROVE NothingLostSilently'
  BY <1>10 DEF nextHistorical
<1>11. ASSUME NEW c \in Cert, deliverEvent(c) PROVE NothingLostSilently'
  BY <1>11 DEF deliverEvent, listening
<1>12. ASSUME NEW c \in Cert, lookupCertificate(c) PROVE NothingLostSilently'
  BY <1>12 DEF lookupCertificate
<1>13. ASSUME NEW c \in Cert, markRevoked(c) PROVE NothingLostSilently'
  BY <1>13 DEF markRevoked, setStatus
<1>14. ASSUME NEW c \in Cert, writeAuditLog(c) PROVE NothingLostSilently'
  BY <1>14 DEF writeAuditLog, transactionHash, blockNumber
<1>15. ASSUME NEW c \in Cert, failHandler(c) PROVE NothingLostSilently'
  BY <1>15 DEF failHandler, noteMissed
<1>16. ASSUME NEW c \in Cert, NEW expiry \in Expiry, NEW batch \in BOOLEAN,
              anchorCertificate(c, expiry, batch)
       PROVE  NothingLostSilently'
  BY <1>16 DEF anchorCertificate, SyncAssumption, NotIssued
<1>17. ASSUME NEW c \in Cert, persistCertificate(c) PROVE NothingLostSilently'
  <2>1. /\ c \in unsaved /\ unsaved' \subseteq unsaved /\ docs[c] = "none"
        /\ \A d \in Cert \ {c} : docs'[d] = docs[d]
        /\ UNCHANGED <<revokedAt, phase, startVars, listenerVars, missed>>
    BY <1>17 DEF persistCertificate
  <2>2. \A d \in Cert : canStillArrive(d) => canStillArrive(d)'
    BY <2>1
  <2> QED
    BY <2>1, <2>2
<1>18. ASSUME NEW c \in Cert, markExpired(c) PROVE NothingLostSilently'
  BY <1>18 DEF markExpired, setStatus
<1>19. ASSUME NEW c \in Cert, failExpiry(c) PROVE NothingLostSilently'
  BY <1>19 DEF failExpiry
<1>20. ASSUME UNCHANGED vars PROVE NothingLostSilently'
  BY <1>20 DEF vars
<1> HIDE DEF NothingLostSilently
<1> QED
  BY <1>1, <1>2, <1>3, <1>4, <1>5, <1>6, <1>7, <1>8, <1>9, <1>10, <1>11, <1>12, <1>13,
     <1>14, <1>15, <1>16, <1>17, <1>18, <1>19, <1>20 DEF Next

(***************************************************************************)
(* The theorems                                                            *)
(***************************************************************************)

(* The backend starts with nothing to tell and nothing lost.               *)
LEMMA InitInv == SyncAssumption /\ Init => SInv
<1> SUFFICES ASSUME SyncAssumption, Init PROVE SInv
  OBVIOUS
<1>1. TypeOK
  BY InitType
<1>2. RevokedOnlyIfOnChain /\ EventsAreReal /\ DocumentsAreIssued /\ NothingLostSilently
  BY DEF SyncAssumption, Init, RevokedOnlyIfOnChain, EventsAreReal, DocumentsAreIssued,
         NothingLostSilently, issued, revoked, NotIssued
<1> QED
  BY <1>1, <1>2 DEF SInv

(* Every step of the chain, the listener and the database keeps it.        *)
LEMMA StepInv == SyncAssumption /\ SInv /\ [Next]_vars => SInv'
<1> SUFFICES ASSUME SyncAssumption, SInv, [Next]_vars PROVE SInv'
  OBVIOUS
<1>1. TypeOK'
  BY StepType DEF SInv
<1> QED
  BY <1>1, StepEvents, StepDocuments, StepAudit, StepLost DEF SInv

(* The inductive invariant of the copy of revocations.                     *)
THEOREM SyncInvariance == Spec => []SInv
<1>1. Init => SInv
  BY SyncAssumption, InitInv
<1>2. SInv /\ [Next]_vars => SInv'
  BY SyncAssumption, StepInv
<1> QED
  BY <1>1, <1>2, PTL DEF Spec

(* However back-fill, subscription, cron, requests, failures and restarts  *)
(* interleave, every variable stays in its type.                           *)
THEOREM SyncTypeCorrect == Spec => []TypeOK
<1>1. SInv => TypeOK
  BY DEF SInv
<1> QED
  BY <1>1, SyncInvariance, PTL

(* MongoDB says Revoked, and the audit log has an entry, only of what the  *)
(* chain has revoked, and Expired of nothing the chain calls valid but     *)
(* for the two named exceptions.                                           *)
THEOREM DatabaseBackedByChain == Spec => []DatabaseIsBackedByChain
<1>1. SInv => DatabaseIsBackedByChain
  <2> SUFFICES ASSUME SInv, NEW c \in Cert, docs[c] = "Expired", ~revoked(c),
                      chainExpiry[c] = docExpiry[c], head # docExpiry[c]
               PROVE  chainStatus(c) = "Expired"
    BY DEF SInv, DatabaseIsBackedByChain, ExpiredOnlyIfOnChain, chainStatus
  <2>1. docExpiry[c] # 0 /\ docExpiry[c] <= head
    BY DEF SInv, DocumentsAreIssued
  <2>2. docExpiry[c] \in Nat /\ head \in Nat
    <3>1. Expiry \cup {0} \subseteq Nat /\ 1..MaxBlock \subseteq Nat
      BY SyncAssumption DEF SyncAssumption
    <3> QED
      BY <3>1 DEF SInv, TypeOK
  <2> QED
    BY <2>1, <2>2 DEF chainStatus
<1> QED
  BY <1>1, SyncInvariance, PTL

(* A document lags behind a revocation only while its event is on its way  *)
(* or for one of the six named causes.                                     *)
THEOREM StaleOnlyForACause == Spec => []StaleOnlyWhenMissed
<1>1. SInv => StaleOnlyWhenMissed
  BY DEF SInv, NothingLostSilently, canStillArrive, StaleOnlyWhenMissed, listening
<1> QED
  BY <1>1, SyncInvariance, PTL

(* Nothing the listener, the cron or a request does gives a document that  *)
(* said Revoked or Expired back the status Valid.                          *)
THEOREM NothingRevivesADocument == Spec => NeverValidAgain
<1>1. SInv /\ [Next]_vars =>
        [\A c \in Cert : docs[c] \in {"Revoked", "Expired"} => docs'[c] # "Valid"]_docs
  <2> SUFFICES ASSUME SInv, [Next]_vars, docs' # docs,
                      NEW c \in Cert, docs[c] \in {"Revoked", "Expired"}
               PROVE  docs'[c] # "Valid"
    OBVIOUS
  <2>1. docs \in [Cert -> DocStatus] /\ \A d \in unsaved : docs[d] = "none"
    BY DEF SInv, TypeOK, DocumentsAreIssued
  <2>2. PICK d \in Cert : markRevoked(d) \/ persistCertificate(d) \/ markExpired(d)
    BY DEF Next, vars, dbVars, mineBlock, readHead, failStart, queryHistory, subscribe,
           startCron, crash, restart, revokeOnChain, nextHistorical, deliverEvent,
           lookupCertificate, writeAuditLog, failHandler, anchorCertificate, failExpiry
  <2> QED
    BY <2>1, <2>2 DEF markRevoked, persistCertificate, markExpired, setStatus
<1> QED
  BY <1>1, SyncInvariance, PTL DEF Spec, NeverValidAgain

(* An audit entry, once written, stays as it is, whatever is handled again.*)
THEOREM AuditLogImmutable == Spec => AuditLogIsImmutable
<1>1. [Next]_vars =>
        [\A tx \in DOMAIN auditLog :
           tx \in DOMAIN auditLog' /\ auditLog'[tx] = auditLog[tx]]_auditLog
  <2> SUFFICES ASSUME [Next]_vars, auditLog' # auditLog,
                      NEW tx \in DOMAIN auditLog
               PROVE  tx \in DOMAIN auditLog' /\ auditLog'[tx] = auditLog[tx]
    OBVIOUS
  <2>1. PICK c \in Cert : writeAuditLog(c)
    BY DEF Next, vars, dbVars, mineBlock, readHead, failStart, queryHistory, subscribe,
           startCron, crash, restart, revokeOnChain, nextHistorical, deliverEvent,
           lookupCertificate, markRevoked, failHandler, anchorCertificate,
           persistCertificate, markExpired, failExpiry
  <2> QED
    BY <2>1 DEF writeAuditLog
<1> QED
  BY <1>1, PTL DEF Spec, AuditLogIsImmutable

===============================================================================
