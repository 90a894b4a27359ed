---------------------- MODULE CertificateIssuanceProofs ----------------------
(***************************************************************************)
(* Proofs about CertificateIssuance, for any requests and any batch size.  *)
(***************************************************************************)
EXTENDS CertificateIssuance, TLAPS

(***************************************************************************)
(* The inductive invariant                                                 *)
(***************************************************************************)

Unsent == {"idle", "checkChain", "checkDb", "upload", "predict", "broadcast"}
Ready == {"predict", "broadcast", "confirm", "persist"} \cup Replacing

(* The contract hands out every id below nextCertificateId, to anchored    *)
(* hashes, and only those are revoked.                                     *)
IdsAreCounted ==
  /\ \A h \in Hash : anchored(h) => certificateId[h] \in 1..(nextCertificateId - 1)
  /\ \A n \in 1..(nextCertificateId - 1) :
       \E g \in Hash : anchored(g) /\ certificateId[g] = n
  /\ \A h \in Hash : revoked(h) => anchored(h)

(* A hash is made once: by its request, for one item of its batch.         *)
ownUploads(r) ==
  /\ \A i \in DOMAIN uploaded[r] : \E k \in 1..MaxBatch :
       uploaded[r][i] = <<r, k>> /\ (pc[r] = "upload" => k <= local[r].handled)
  /\ \A i, j \in DOMAIN uploaded[r] : uploaded[r][i] = uploaded[r][j] => i = j
UploadsAreOwn == \A r \in Request : ownUploads(r)

(* Where the loops of a request are, and what a re-issuance is.            *)
loopBounded(r) ==
  /\ pc[r] \in {"idle", "checkChain", "checkDb"} =>
       uploaded[r] = <<>> /\ local[r].handled = 0
  /\ pc[r] = "idle" => replaces[r] = NoHash
  /\ pc[r] \in {"checkChain", "checkDb"} \cup Replacing => replaces[r] # NoHash
  /\ pc[r] \in Running /\ replaces[r] # NoHash => local[r].size = 1
  /\ pc[r] \in {"checkChain", "checkDb", "upload"} => local[r].handled < local[r].size
  /\ pc[r] \in Ready \cup {"done"} => uploaded[r] # <<>>
  /\ pc[r] \in Unsent \cup {"confirm"} => local[r].persisted = 0
  /\ pc[r] = "persist" => local[r].persisted < Len(uploaded[r])
  /\ pc[r] \in Replacing => local[r].persisted = Len(uploaded[r])
  /\ pc[r] \in {"done", "failed"} => local[r] = NoLocals
LoopsAreBounded == \A r \in Request : loopBounded(r)

(* What a request believes of its transactions is what the chain did.      *)
receiptsTrue(r) ==
  /\ pc[r] \in Unsent => issueTx[r] = "none"
  /\ pc[r] \in {"persist", "done"} \cup Replacing => issueTx[r] = "succeeded"
  /\ issueTx[r] = "succeeded" =>
       \A i \in DOMAIN uploaded[r] : anchoredBy[uploaded[r][i]] = Signer
  /\ pc[r] \notin {"confirmRevoke", "mark", "done", "failed"} => revokeTx[r] = "none"
  /\ pc[r] = "mark" \/ previousCertificateRevoked[r] => revokeTx[r] = "succeeded"
  /\ revokeTx[r] # "none" =>
       /\ replaces[r] # NoHash /\ Len(uploaded[r]) = 1
       /\ issueTx[r] = "succeeded"
       /\ stored(uploaded[r][1]) /\ docs[uploaded[r][1]].replaces = replaces[r]
  /\ revokeTx[r] = "succeeded" => revokedBy[replaces[r]] = Signer
  /\ \A s \in Request :
       revokeTx[r] = "succeeded" /\ revokeTx[s] = "succeeded" /\ replaces[r] = replaces[s]
         => r = s
ReceiptsAreTrue == \A r \in Request : receiptsTrue(r)

(* A predicted id is not above the one the certificate gets.               *)
predictionLow(r) ==
  /\ pc[r] \in {"broadcast", "confirm", "persist"} => local[r].predicted >= 1
  /\ pc[r] = "broadcast" \/ (pc[r] = "confirm" /\ issueTx[r] = "pending") =>
       local[r].predicted <= nextCertificateId
  /\ pc[r] \in {"confirm", "persist"} /\ issueTx[r] = "succeeded" =>
       \A i \in DOMAIN uploaded[r] :
         local[r].predicted + i - 1 <= certificateId[uploaded[r][i]]
PredictionsAreLow == \A r \in Request : predictionLow(r)

(* A document is of a certificate on chain, with an id that exists.        *)
DocumentsAreReal ==
  \A h \in Hash : stored(h) =>
    anchoredBy[h] = Signer /\ docs[h].certificateId \in 1..certificateId[h]

(* Every document but the earlier one was made by a request; a running     *)
(* request has made as many as it counts, and one that is done all.        *)
MakersAreKnown ==
  \A h \in Hash : stored(h) =>
    h = Earlier \/ \E r \in Request : \E i \in DOMAIN uploaded[r] : uploaded[r][i] = h
documentsMade(r) ==
  \A i \in DOMAIN uploaded[r] :
    /\ pc[r] \in Running => (stored(uploaded[r][i]) <=> i <= local[r].persisted)
    /\ pc[r] \in Running /\ i <= local[r].persisted =>
         docs[uploaded[r][i]].replaces = replaces[r]
    /\ pc[r] = "done" => stored(uploaded[r][i])
DocumentsAreMade == \A r \in Request : documentsMade(r)

(* A document is marked by a request whose revocation was executed.        *)
MarksAreExplained ==
  \A h \in Hash : docs[h].replacedBy # NoHash =>
    \E r \in Request :
      /\ revokeTx[r] = "succeeded" /\ replaces[r] = h
      /\ docs[h].replacedBy = uploaded[r][1]

(* A revocation is sent of a certificate of the service, and it reverts if *)
(* another one came first.                                                 *)
revertExplained(r) ==
  /\ revokeTx[r] # "none" => anchoredBy[replaces[r]] = Signer
  /\ revokeTx[r] = "reverted" => revoked(replaces[r])
RevertsAreExplained == \A r \in Request : revertExplained(r)

IInv ==
  /\ TypeOK /\ IdsAreCounted /\ UploadsAreOwn /\ LoopsAreBounded
  /\ ReceiptsAreTrue /\ PredictionsAreLow /\ DocumentsAreReal
  /\ MakersAreKnown /\ DocumentsAreMade /\ MarksAreExplained /\ RevertsAreExplained

(***************************************************************************)
(* Type correctness                                                        *)
(***************************************************************************)

(* Once a transaction anchored some hashes, its account is their issuer,   *)
(* they have the next ids in order, and no other hash changed.             *)
anchoredTogether(account, hashes) ==
  /\ \A i \in DOMAIN hashes :
       anchoredBy'[hashes[i]] = account /\ certificateId'[hashes[i]] = nextCertificateId + i - 1
  /\ \A h \in Hash : (\A i \in DOMAIN hashes : hashes[i] # h) =>
       anchoredBy'[h] = anchoredBy[h] /\ certificateId'[h] = certificateId[h]
  /\ nextCertificateId' = nextCertificateId + Len(hashes)
  /\ authorized' = authorized /\ revokedBy' = revokedBy

LEMMA AnchoredTogether ==
  ASSUME NEW account, NEW hashes \in Seq(Hash), anchorAll(account, hashes),
         \A i, j \in DOMAIN hashes : hashes[i] = hashes[j] => i = j
  PROVE  anchoredTogether(account, hashes)
<1>1. ASSUME NEW i \in DOMAIN hashes
      PROVE  anchoredBy'[hashes[i]] = account
             /\ certificateId'[hashes[i]] = nextCertificateId + i - 1
  BY <1>1 DEF anchorAll
<1>2. ASSUME NEW h \in Hash, \A i \in DOMAIN hashes : hashes[i] # h
      PROVE  anchoredBy'[h] = anchoredBy[h] /\ certificateId'[h] = certificateId[h]
  BY <1>2 DEF anchorAll
<1> QED
  BY <1>1, <1>2 DEF anchorAll, anchoredTogether

(* A request that goes on has its new stage and locals; the others stay.   *)
went(r, stage, locals) ==
  /\ pc' \in [Request -> Stage] /\ local' \in [Request -> Locals]
  /\ pc'[r] = stage
  /\ local'[r] = IF stage \in {"done", "failed"} THEN NoLocals ELSE locals
  /\ \A s \in Request \ {r} : pc'[s] = pc[s] /\ local'[s] = local[s]

LEMMA NoLocalsAreLocals == IssuanceAssumption => NoLocals \in Locals
  BY DEF IssuanceAssumption, NoLocals, asked, Locals

LEMMA Went ==
  ASSUME IssuanceAssumption, TypeOK, NEW r \in Request, NEW stage \in Stage, NEW locals \in Locals,
         goWith(r, stage, locals)
  PROVE  went(r, stage, locals)
  BY NoLocalsAreLocals DEF TypeOK, goWith, went

(* The locals a request goes on with.                                      *)
LEMMA LocalsStayTyped ==
  ASSUME IssuanceAssumption, NEW l \in Locals
  PROVE  /\ l.handled < l.size => [l EXCEPT !.handled = @ + 1] \in Locals
         /\ \A n \in Nat : [l EXCEPT !.predicted = n] \in Locals
         /\ \A k \in 0..MaxBatch : [l EXCEPT !.persisted = k] \in Locals
         /\ \A n \in 1..MaxBatch, batch \in BOOLEAN : asked(n, batch) \in Locals
         /\ l.size \in 0..MaxBatch /\ l.handled \in 0..MaxBatch /\ l.predicted \in Nat
         /\ l.persisted \in 0..MaxBatch
<1> USE DEF IssuanceAssumption, NoLocals, asked, Locals
<1>1. /\ l.size \in 0..MaxBatch /\ l.handled \in 0..MaxBatch /\ l.predicted \in Nat
      /\ l.persisted \in 0..MaxBatch
  OBVIOUS
<1>2. ASSUME l.handled < l.size PROVE [l EXCEPT !.handled = @ + 1] \in Locals
  BY <1>1, <1>2
<1>3. \A n \in Nat : [l EXCEPT !.predicted = n] \in Locals
  OBVIOUS
<1>4. \A k \in 0..MaxBatch : [l EXCEPT !.persisted = k] \in Locals
  OBVIOUS
<1>5. ASSUME NEW n \in 1..MaxBatch, NEW batch \in BOOLEAN PROVE asked(n, batch) \in Locals
  BY <1>5 DEF asked
<1> QED
  BY <1>1, <1>2, <1>3, <1>4, <1>5

(* Which await a request is at after one of the steps that count.          *)
LEMMA Moves ==
  ASSUME IssuanceAssumption, TypeOK, LoopsAreBounded, NEW r \in Request
  PROVE  /\ \A old : issueCertificate(r, old) =>
              went(r, IF old = NoHash THEN "upload" ELSE "checkChain",
                   asked(1, FALSE))
         /\ \A n \in 1..MaxBatch : batchIssueCertificates(r, n) =>
              went(r, "upload", asked(n, TRUE))
         /\ uploadItem(r) => went(r, afterUpload(r, uploaded'[r]), oneHandled(r))
         /\ predict(r) =>
              \/ went(r, "broadcast", [local[r] EXCEPT !.predicted = nextCertificateId])
              \/ went(r, "failed", local[r])
         /\ broadcast(r) => went(r, "confirm", local[r]) \/ went(r, "failed", local[r])
         /\ sendRevocation(r) => went(r, "confirmRevoke", local[r]) \/ went(r, "done", local[r])
         /\ persistItem(r) =>
              went(r, afterDocument(r, local[r].persisted + 1),
                   [local[r] EXCEPT !.persisted = local[r].persisted + 1])
<1> USE IssuanceAssumption DEF Stage
<1>1. local[r] \in Locals
  BY DEF TypeOK
<1>2. ASSUME NEW old, issueCertificate(r, old)
      PROVE  went(r, IF old = NoHash THEN "upload" ELSE "checkChain",
                  asked(1, FALSE))
  BY <1>1, 1 \in 1..MaxBatch, LocalsStayTyped, <1>2, Went DEF IssuanceAssumption,
    issueCertificate
<1>3. ASSUME NEW n \in 1..MaxBatch, batchIssueCertificates(r, n)
      PROVE  went(r, "upload", asked(n, TRUE))
  BY <1>1, LocalsStayTyped, <1>3, Went DEF batchIssueCertificates
<1>4. ASSUME uploadItem(r)
      PROVE  went(r, afterUpload(r, uploaded'[r]), oneHandled(r))
  BY <1>1, <1>4, LocalsStayTyped, Went DEF uploadItem, LoopsAreBounded, loopBounded,
    oneHandled, afterUpload
<1>5. ASSUME predict(r)
      PROVE  \/ went(r, "broadcast", [local[r] EXCEPT !.predicted = nextCertificateId])
             \/ went(r, "failed", local[r])
  BY <1>1, LocalsStayTyped, <1>5, Went DEF TypeOK, predict, goTo
<1>6. ASSUME persistItem(r)
      PROVE  went(r, afterDocument(r, local[r].persisted + 1),
                  [local[r] EXCEPT !.persisted = local[r].persisted + 1])
  <2>1. local[r].persisted + 1 \in 0..MaxBatch
    <3>1. /\ local[r].persisted < Len(uploaded[r]) /\ Len(uploaded[r]) <= local[r].handled
          /\ Len(uploaded[r]) \in Nat
      BY <1>6 DEF persistItem, LoopsAreBounded, loopBounded, TypeOK, countsAgree, Running
    <3>2. local[r].handled \in 0..MaxBatch /\ local[r].persisted \in 0..MaxBatch /\ MaxBatch \in Nat
      BY <1>1, LocalsStayTyped DEF IssuanceAssumption
    <3> QED
      BY <3>1, <3>2
  <2>2. [local[r] EXCEPT !.persisted = local[r].persisted + 1] \in Locals
    BY <1>1, <2>1, LocalsStayTyped
  <2>3. afterDocument(r, local[r].persisted + 1) \in Stage
    BY DEF afterDocument
  <2> QED
    BY <1>6, <2>2, <2>3, Went DEF persistItem
<1>7. broadcast(r) => went(r, "confirm", local[r]) \/ went(r, "failed", local[r])
  BY <1>1, Went DEF broadcast, goTo
<1>8. sendRevocation(r) => went(r, "confirmRevoke", local[r]) \/ went(r, "done", local[r])
  BY <1>1, Went DEF sendRevocation, goTo
<1> QED
  BY <1>2, <1>3, <1>4, <1>5, <1>6, <1>7, <1>8

(* What the counts of a request are bounded by.                            *)
LEMMA Counters ==
  ASSUME IssuanceAssumption, TypeOK, NEW r \in Request
  PROVE  /\ local[r] \in Locals /\ Len(uploaded[r]) \in Nat /\ MaxBatch \in Nat
         /\ local[r].persisted \in Nat /\ local[r].handled \in Nat /\ local[r].size \in Nat
         /\ local[r].persisted <= Len(uploaded[r]) /\ Len(uploaded[r]) <= MaxBatch
         /\ local[r].handled <= local[r].size /\ local[r].size <= MaxBatch
         /\ pc[r] \in Running => Len(uploaded[r]) <= local[r].handled
<1>1. /\ local[r] \in Locals /\ Len(uploaded[r]) \in Nat /\ MaxBatch \in Nat
  BY DEF TypeOK, IssuanceAssumption
<1>2. /\ local[r].persisted \in Nat /\ local[r].handled \in Nat /\ local[r].size \in Nat
      /\ local[r].size <= MaxBatch
  BY <1>1 DEF Locals
<1> QED
  BY <1>1, <1>2 DEF TypeOK, countsAgree

(* The counts agree after a step of a request if they do where it goes on. *)
LEMMA WentCounts ==
  ASSUME IssuanceAssumption, TypeOK,
         NEW r \in Request, NEW stage \in Running \cup {"done", "failed"}, NEW locals \in Locals,
         went(r, stage, locals),
         uploaded' \in [Request -> Seq(Hash)], \A s \in Request \ {r} : uploaded'[s] = uploaded[s],
         Len(uploaded'[r]) <= MaxBatch,
         stage \in Running => /\ locals.persisted <= Len(uploaded'[r])
                              /\ locals.handled <= locals.size
                              /\ Len(uploaded'[r]) <= locals.handled
  PROVE  \A s \in Request : countsAgree(s)'
<1>1. \A s \in Request \ {r} : countsAgree(s)'
  BY DEF TypeOK, countsAgree, went
<1>2. CASE stage \in Running
  BY <1>2, <1>1 DEF went, Running, countsAgree
<1>3. CASE stage \in {"done", "failed"}
  BY <1>3, <1>1 DEF went, NoLocals, asked, Running, countsAgree
<1> QED
  BY <1>2, <1>3

(* The same for a step that keeps the locals and the uploads, or that ends *)
(* the request.                                                            *)
LEMMA GoToCounts ==
  ASSUME IssuanceAssumption, TypeOK, NEW r \in Request, pc[r] \in Running,
         NEW stage \in Running \cup {"done", "failed"}, went(r, stage, local[r]),
         uploaded' = uploaded
  PROVE  \A s \in Request : countsAgree(s)'
<1>1. uploaded' \in [Request -> Seq(Hash)] /\ Len(uploaded'[r]) = Len(uploaded[r])
  BY DEF TypeOK
<1> QED
  BY <1>1, Counters, WentCounts

(* Each step keeps every variable in its type.                             *)
LEMMA StepType == ASSUME IssuanceAssumption, IInv, [Next]_vars PROVE TypeOK'
<1>0. UploadsAreOwn /\ LoopsAreBounded /\ TypeOK
  BY DEF IInv
<1> USE <1>0, IssuanceAssumption DEF TypeOK, chainVars, txVars, outputVars, requestVars,
   Account, TxState
<1>1. ASSUME verifyIssuer PROVE TypeOK'
  BY <1>1 DEF verifyIssuer, countsAgree
<1>2. ASSUME suspendIssuer PROVE TypeOK'
  BY <1>2 DEF suspendIssuer, countsAgree
<1>3. ASSUME issueElsewhere PROVE TypeOK'
  <2>1. anchoredTogether(Other, <<Elsewhere>>)
    <3>1. <<Elsewhere>> \in Seq(Hash)
          /\ \A i, j \in DOMAIN <<Elsewhere>> : <<Elsewhere>>[i] = <<Elsewhere>>[j] => i = j
      BY DEF Hash
    <3>2. anchorAll(Other, <<Elsewhere>>)
      BY <1>3 DEF issueElsewhere
    <3> HIDE DEF TypeOK
    <3> QED
      BY <3>1, <3>2, AnchoredTogether
  <2>2. certificateId' \in [Hash -> Nat] /\ anchoredBy' \in [Hash -> Account \cup {ZeroAddress}]
    <3>1. \A h \in Hash : certificateId'[h] \in Nat
      BY <2>1 DEF anchoredTogether
    <3> QED
      BY <3>1, <1>3 DEF issueElsewhere, anchorAll
  <2> QED
    BY <2>1, <2>2, <1>3 DEF issueElsewhere, anchoredTogether, countsAgree
<1>4. ASSUME NEW h \in Hash, revokeFromWallet(h) PROVE TypeOK'
  BY <1>4 DEF revokeFromWallet, countsAgree
<1>5. ASSUME crash PROVE TypeOK'
  BY <1>5, NoLocalsAreLocals DEF crash, goTo, goWith, NoLocals, asked, Locals, Running,
    Stage, countsAgree, IssuanceAssumption
<1>6. ASSUME NEW r \in Request, NEW old \in Hash \cup {NoHash}, issueCertificate(r, old)
      PROVE TypeOK'
  <2>1. went(r, IF old = NoHash THEN "upload" ELSE "checkChain", asked(1, FALSE))
    BY <1>6, Moves
  <2>2. uploaded[r] = <<>> /\ Len(uploaded[r]) = 0 /\ uploaded' = uploaded
    BY <1>6 DEF issueCertificate, LoopsAreBounded, loopBounded
  <2>3. asked(1, FALSE) \in Locals /\ MaxBatch >= 0
    BY NoLocalsAreLocals DEF IssuanceAssumption, asked, Locals
  <2>4. asked(1, FALSE).persisted = 0 /\ asked(1, FALSE).handled = 0 /\ asked(1, FALSE).size = 1
    BY DEF asked
  <2>5. \A s \in Request : countsAgree(s)'
    <3>1. uploaded' \in [Request -> Seq(Hash)] /\ uploaded'[r] = uploaded[r] /\ 1 \in Nat
      BY <2>2
    <3> HIDE DEF TypeOK
    <3>2. /\ Len(uploaded'[r]) <= MaxBatch /\ asked(1, FALSE).persisted <= Len(uploaded'[r])
          /\ asked(1, FALSE).handled <= asked(1, FALSE).size
          /\ Len(uploaded'[r]) <= asked(1, FALSE).handled
      BY <2>2, <2>3, <2>4, <3>1 DEF asked
    <3>3. \A s \in Request \ {r} : uploaded'[s] = uploaded[s]
      BY <2>2
    <3>4. "upload" \in Running /\ "checkChain" \in Running
      BY DEF Running, Stage
    <3> QED
      BY <2>1, <2>3, <3>1, <3>2, <3>3, <3>4, WentCounts
  <2> QED
    BY <2>1, <2>5, <1>6 DEF issueCertificate, went
<1>7. ASSUME NEW r \in Request, NEW n \in 1..MaxBatch, batchIssueCertificates(r, n)
      PROVE TypeOK'
  <2>1. went(r, "upload", asked(n, TRUE))
    BY <1>7, Moves
  <2>2. uploaded[r] = <<>> /\ Len(uploaded[r]) = 0 /\ uploaded' = uploaded
    BY <1>7 DEF batchIssueCertificates, LoopsAreBounded, loopBounded
  <2>3. asked(n, TRUE) \in Locals /\ MaxBatch >= 0
    BY NoLocalsAreLocals DEF IssuanceAssumption, asked, Locals
  <2>4. asked(n, TRUE).persisted = 0 /\ asked(n, TRUE).handled = 0 /\ asked(n, TRUE).size = n
    BY DEF asked
  <2>5. \A s \in Request : countsAgree(s)'
    <3>1. uploaded' \in [Request -> Seq(Hash)] /\ uploaded'[r] = uploaded[r] /\ n \in Nat
      BY <2>2
    <3> HIDE DEF TypeOK
    <3>2. /\ Len(uploaded'[r]) <= MaxBatch /\ asked(n, TRUE).persisted <= Len(uploaded'[r])
          /\ asked(n, TRUE).handled <= asked(n, TRUE).size
          /\ Len(uploaded'[r]) <= asked(n, TRUE).handled
      BY <2>2, <2>3, <2>4, <3>1 DEF asked
    <3>3. \A s \in Request \ {r} : uploaded'[s] = uploaded[s]
      BY <2>2
    <3>4. "upload" \in Running /\ "checkChain" \in Running
      BY DEF Running, Stage
    <3> QED
      BY <2>1, <2>3, <3>1, <3>2, <3>3, <3>4, WentCounts
  <2> QED
    BY <2>1, <2>5, <1>7 DEF batchIssueCertificates, went
<1>8. ASSUME NEW r \in Request, checkChain(r) PROVE TypeOK'
  BY <1>8 DEF checkChain, Replacing, goTo, goWith, NoLocals, asked, Locals, Running,
    Stage, countsAgree, IssuanceAssumption
<1>9. ASSUME NEW r \in Request, checkDb(r) PROVE TypeOK'
  BY <1>9 DEF checkDb, Replacing, goTo, goWith, NoLocals, asked, Locals, Running, Stage,
    countsAgree, IssuanceAssumption
<1>10. ASSUME NEW r \in Request, uploadItem(r) PROVE TypeOK'
  <2>1. went(r, afterUpload(r, uploaded'[r]), oneHandled(r))
    BY <1>10, Moves
  <2>2. local[r].handled < local[r].size /\ pc[r] \in Running
    BY <1>10 DEF uploadItem, LoopsAreBounded, loopBounded, Running, Stage
  <2>3. local[r].handled + 1 \in 1..MaxBatch
    BY <2>2, Counters
  <2>4. Append(uploaded[r], <<r, local[r].handled + 1>>) \in Seq(Hash)
    BY <2>3 DEF Hash
  <2>5. \/ uploaded' = [uploaded EXCEPT ![r] = Append(uploaded[r], <<r, local[r].handled + 1>>)]
        \/ uploaded' = uploaded
    BY <1>10 DEF uploadItem
  <2>6. uploaded' \in [Request -> Seq(Hash)] /\ \A s \in Request \ {r} : uploaded'[s] = uploaded[s]
    <3> DEFINE longer == Append(uploaded[r], <<r, local[r].handled + 1>>)
    <3>1. uploaded \in [Request -> Seq(Hash)] /\ longer \in Seq(Hash)
      BY <2>4
    <3>2. uploaded' = [uploaded EXCEPT ![r] = longer] \/ uploaded' = uploaded
      BY <2>5
    <3> HIDE DEF longer, TypeOK
    <3> QED
      BY <3>1, <3>2
  <2>7. Len(uploaded'[r]) \in {Len(uploaded[r]), Len(uploaded[r]) + 1}
    BY <2>4, <2>5
  <2>8. /\ oneHandled(r) \in Locals /\ oneHandled(r).persisted = local[r].persisted
        /\ oneHandled(r).handled = local[r].handled + 1 /\ oneHandled(r).size = local[r].size
    BY <2>2, Counters, LocalsStayTyped DEF oneHandled, Locals
  <2>9. afterUpload(r, uploaded'[r]) \in Running \cup {"failed"}
    BY DEF afterUpload, Running, Stage
  <2>10. \A s \in Request : countsAgree(s)'
    <3>1. /\ Len(uploaded'[r]) <= MaxBatch
          /\ oneHandled(r).persisted <= Len(uploaded'[r])
          /\ oneHandled(r).handled <= oneHandled(r).size
          /\ Len(uploaded'[r]) <= oneHandled(r).handled
      BY <2>2, <2>7, <2>8, Counters
    <3> HIDE DEF TypeOK
    <3> QED
      BY <2>1, <2>6, <2>8, <2>9, <3>1, WentCounts
  <2> QED
    BY <2>1, <2>6, <2>10, <1>10 DEF uploadItem, went
<1>11. ASSUME NEW r \in Request, predict(r) PROVE TypeOK'
  <2>1. \/ went(r, "broadcast", [local[r] EXCEPT !.predicted = nextCertificateId])
        \/ went(r, "failed", local[r])
    BY <1>11, Moves
  <2>2. pc[r] \in Running /\ uploaded' = uploaded /\ uploaded[r] = uploaded'[r]
    BY <1>11 DEF predict, Running, Stage
  <2>3. \A s \in Request : countsAgree(s)'
    <3>1. CASE went(r, "failed", local[r])
      BY <2>2, <3>1, GoToCounts
    <3>2. CASE went(r, "broadcast", [local[r] EXCEPT !.predicted = nextCertificateId])
      BY Counters, LocalsStayTyped, <2>2, <3>2, WentCounts DEF Locals, Running, Stage
    <3> QED
      BY <2>1, <3>1, <3>2
  <2> QED
    BY <2>1, <2>3, <1>11 DEF predict, went
<1>12. ASSUME NEW r \in Request, broadcast(r) PROVE TypeOK'
  <2>1. went(r, "confirm", local[r]) \/ went(r, "failed", local[r])
    BY <1>12, Went DEF broadcast, goTo, Stage
  <2>2. \A s \in Request : countsAgree(s)'
    BY <2>1, <1>12, GoToCounts DEF broadcast, Running, Stage
  <2>3. issueTx' \in [Request -> TxState]
    BY <1>12 DEF broadcast, TxState
  <2> QED
    BY <1>12, <2>1, <2>2, <2>3 DEF broadcast, went
<1>13. ASSUME NEW r \in Request, confirm(r) PROVE TypeOK'
  BY <1>13 DEF confirm, Replacing, goTo, goWith, NoLocals, asked, Locals, Running, Stage,
    countsAgree, IssuanceAssumption
<1>14. ASSUME NEW r \in Request, persistItem(r) PROVE TypeOK'
  <2> DEFINE l == [local[r] EXCEPT !.persisted = local[r].persisted + 1]
  <2>1. went(r, afterDocument(r, local[r].persisted + 1), l)
    BY <1>14, Moves
  <2>2. docs' \in [Hash -> Document]
    <3>1. document(r, local[r].persisted + 1) \in Document
      BY DEF document, Document, Locals
    <3> QED
      BY <3>1, <1>14 DEF persistItem
  <2>3. /\ pc[r] \in Running /\ uploaded' = uploaded /\ uploaded' \in [Request -> Seq(Hash)]
        /\ local[r].persisted < Len(uploaded[r])
    BY <1>14 DEF persistItem, Running, Stage, LoopsAreBounded, loopBounded
  <2>4. /\ l.persisted = local[r].persisted + 1
        /\ l.handled = local[r].handled /\ l.size = local[r].size
    BY DEF Locals
  <2>5. l \in Locals
    <3>1. local[r].persisted + 1 \in 0..MaxBatch
      BY <2>3, Counters
    <3> QED
      BY <3>1, LocalsStayTyped
  <2> HIDE DEF l
  <2>6. \A s \in Request : countsAgree(s)'
    <3>1. /\ Len(uploaded'[r]) <= MaxBatch /\ l.persisted <= Len(uploaded'[r])
          /\ l.handled <= l.size /\ Len(uploaded'[r]) <= l.handled
      BY <2>3, <2>4, Counters
    <3>2. afterDocument(r, local[r].persisted + 1) \in Running \cup {"done"}
      BY DEF afterDocument, Running, Stage
    <3> HIDE DEF TypeOK
    <3> QED
      BY <2>1, <2>3, <2>5, <3>1, <3>2, WentCounts
  <2> QED
    BY <2>1, <2>2, <2>6, <1>14 DEF persistItem, went
<1>15. ASSUME NEW r \in Request, sendRevocation(r) PROVE TypeOK'
  <2>1. went(r, "confirmRevoke", local[r]) \/ went(r, "done", local[r])
    BY <1>15, Went DEF sendRevocation, goTo, Stage
  <2>2. \A s \in Request : countsAgree(s)'
    BY <2>1, <1>15, GoToCounts DEF sendRevocation, Running, Stage
  <2>3. revokeTx' \in [Request -> TxState]
    BY <1>15 DEF sendRevocation, TxState
  <2> QED
    BY <1>15, <2>1, <2>2, <2>3 DEF sendRevocation, went
<1>16. ASSUME NEW r \in Request, confirmRevocation(r) PROVE TypeOK'
  BY <1>16 DEF confirmRevocation, Replacing, goTo, goWith, NoLocals, asked, Locals,
    Running, Stage, countsAgree, IssuanceAssumption
<1>17. ASSUME NEW r \in Request, markCertificateAsReplaced(r) PROVE TypeOK'
  <2>1. docs' \in [Hash -> Document]
    <3>1. uploaded[r][1] \in Hash
      BY <1>17 DEF markCertificateAsReplaced, LoopsAreBounded, loopBounded, Ready, Replacing
    <3>2. CASE stored(replaces[r])
      <4>1. [docs[replaces[r]] EXCEPT !.replacedBy = uploaded[r][1]] \in Document
        <5>1. replaces[r] \in Hash
          BY <1>17 DEF markCertificateAsReplaced, LoopsAreBounded, loopBounded, Replacing
        <5>2. docs[replaces[r]] \in Document
          BY <5>1
        <5> HIDE DEF TypeOK
        <5> QED
          BY <3>1, <5>2 DEF Document
      <4> QED
        BY <3>2, <4>1, <1>17 DEF markCertificateAsReplaced
    <3>3. CASE ~stored(replaces[r])
      BY <3>3, <1>17 DEF markCertificateAsReplaced
    <3> QED
      BY <3>2, <3>3
  <2>2. went(r, "done", local[r])
    BY <1>17, Went DEF markCertificateAsReplaced, goTo, Stage
  <2>3. \A s \in Request : countsAgree(s)'
    BY <2>2, <1>17, GoToCounts DEF markCertificateAsReplaced, Running, Stage
  <2>4. previousCertificateRevoked' \in [Request -> BOOLEAN]
    BY <1>17 DEF markCertificateAsReplaced
  <2> QED
    BY <2>1, <2>2, <2>3, <2>4, <1>17 DEF markCertificateAsReplaced, went
<1>18. ASSUME NEW r \in Request, failRequest(r) PROVE TypeOK'
  BY <1>18 DEF failRequest, Replacing, goTo, goWith, NoLocals, asked, Locals, Running,
    Stage, countsAgree, IssuanceAssumption
<1>19. ASSUME NEW r \in Request, failReplacing(r) PROVE TypeOK'
  BY <1>19 DEF failReplacing, Replacing, goTo, goWith, NoLocals, asked, Locals, Running,
    Stage, countsAgree, IssuanceAssumption
<1>20. ASSUME NEW r \in Request, mineIssue(r) PROVE TypeOK'
  <2>1. CASE issuable(Signer, uploaded[r])
    <3>1. anchoredTogether(Signer, uploaded[r]) /\ anchorAll(Signer, uploaded[r])
      BY <1>20, <2>1, AnchoredTogether DEF mineIssue, UploadsAreOwn, ownUploads
    <3>2. certificateId' \in [Hash -> Nat]
      BY <3>1 DEF anchoredTogether, anchorAll
    <3>3. nextCertificateId' \in Nat \ {0}
      BY <3>1 DEF anchoredTogether
    <3> QED
      BY <3>1, <3>2, <3>3, <1>20, <2>1 DEF mineIssue, anchorAll, countsAgree
  <2>2. CASE ~issuable(Signer, uploaded[r])
    BY <1>20, <2>2 DEF mineIssue, countsAgree
  <2> QED
    BY <2>1, <2>2
<1>21. ASSUME NEW r \in Request, mineRevoke(r) PROVE TypeOK'
  BY <1>21 DEF mineRevoke, countsAgree
<1>22. ASSUME UNCHANGED vars PROVE TypeOK'
  BY <1>22 DEF vars, countsAgree
<1> HIDE DEF TypeOK
<1> QED
  BY <1>1, <1>2, <1>3, <1>4, <1>5, <1>6, <1>7, <1>8, <1>9, <1>10, <1>11, <1>12, <1>13,
     <1>14, <1>15, <1>16, <1>17, <1>18, <1>19, <1>20, <1>21, <1>22 DEF Next, step

(***************************************************************************)
(* What the steps do                                                       *)
(***************************************************************************)

(* An upload appends one hash nobody made before, or nothing.              *)
uploadedOne(r) ==
  /\ local[r].handled < local[r].size /\ local[r].handled + 1 \in 1..MaxBatch
  /\ went(r, afterUpload(r, uploaded'[r]), oneHandled(r))
  /\ oneHandled(r).handled = local[r].handled + 1 /\ oneHandled(r).size = local[r].size
  /\ oneHandled(r).persisted = local[r].persisted
  /\ \A s \in Request \ {r} : uploaded'[s] = uploaded[s]
  /\ \/ uploaded' = uploaded
     \/ /\ Len(uploaded'[r]) = Len(uploaded[r]) + 1
        /\ DOMAIN uploaded'[r] = DOMAIN uploaded[r] \cup {Len(uploaded[r]) + 1}
        /\ \A i \in DOMAIN uploaded[r] : uploaded'[r][i] = uploaded[r][i]
        /\ uploaded'[r][Len(uploaded[r]) + 1] = <<r, local[r].handled + 1>>

LEMMA UploadedOne ==
  ASSUME IssuanceAssumption, TypeOK, LoopsAreBounded, NEW r \in Request, uploadItem(r)
  PROVE  uploadedOne(r)
<1>1. went(r, afterUpload(r, uploaded'[r]), oneHandled(r))
  BY Moves
<1>2. local[r].handled < local[r].size
  BY DEF uploadItem, LoopsAreBounded, loopBounded
<1>3. local[r].handled + 1 \in 1..MaxBatch
  BY <1>2, Counters
<1>4. /\ oneHandled(r).handled = local[r].handled + 1 /\ oneHandled(r).size = local[r].size
      /\ oneHandled(r).persisted = local[r].persisted
  BY Counters DEF oneHandled, Locals
<1> DEFINE longer == Append(uploaded[r], <<r, local[r].handled + 1>>)
<1>5. uploaded \in [Request -> Seq(Hash)] /\ <<r, local[r].handled + 1>> \in Hash
  BY <1>3 DEF TypeOK, Hash
<1>6. /\ Len(longer) = Len(uploaded[r]) + 1
      /\ DOMAIN longer = DOMAIN uploaded[r] \cup {Len(uploaded[r]) + 1}
      /\ \A i \in DOMAIN uploaded[r] : longer[i] = uploaded[r][i]
      /\ longer[Len(uploaded[r]) + 1] = <<r, local[r].handled + 1>>
  BY <1>5
<1>7. uploaded' = [uploaded EXCEPT ![r] = longer] \/ uploaded' = uploaded
  BY DEF uploadItem
<1> HIDE DEF longer
<1> QED
  BY <1>1, <1>2, <1>3, <1>4, <1>5, <1>6, <1>7 DEF uploadedOne

(* What is anchored stays as it is; the chain only grows.                  *)
chainGrows ==
  /\ \A h \in Hash : anchored(h) =>
       anchoredBy'[h] = anchoredBy[h] /\ certificateId'[h] = certificateId[h]
  /\ nextCertificateId' \in Nat /\ nextCertificateId <= nextCertificateId'
  /\ revokedBy' = revokedBy

LEMMA ChainGrows ==
  ASSUME IssuanceAssumption, TypeOK, IdsAreCounted, NEW account \in Account,
         NEW hashes \in Seq(Hash), \A i, j \in DOMAIN hashes : hashes[i] = hashes[j] => i = j,
         \A i \in DOMAIN hashes : ~anchored(hashes[i]), anchorAll(account, hashes)
  PROVE  /\ anchoredTogether(account, hashes) /\ chainGrows /\ IdsAreCounted'
<1>1. anchoredTogether(account, hashes)
  BY AnchoredTogether
<1>2. /\ nextCertificateId \in Nat \ {0} /\ Len(hashes) \in Nat
      /\ nextCertificateId' = nextCertificateId + Len(hashes)
      /\ DOMAIN hashes = 1..Len(hashes)
  BY <1>1 DEF TypeOK, anchoredTogether
<1>3. chainGrows
  BY <1>1, <1>2 DEF chainGrows, anchoredTogether
<1>4. account # ZeroAddress
  BY DEF IssuanceAssumption
<1>5. ASSUME NEW h \in Hash, anchored(h)'
      PROVE  certificateId'[h] \in 1..(nextCertificateId' - 1)
  BY <1>1, <1>2, <1>5 DEF anchoredTogether, anchored, IdsAreCounted
<1>6. ASSUME NEW n \in 1..(nextCertificateId' - 1)
      PROVE  \E g \in Hash : anchored(g)' /\ certificateId'[g] = n
  <2>1. CASE n < nextCertificateId
    <3>1. n \in 1..(nextCertificateId - 1)
      BY <1>2, <2>1
    <3>2. PICK g \in Hash : anchored(g) /\ certificateId[g] = n
      BY <3>1 DEF IdsAreCounted
    <3> QED
      BY <1>3, <3>2 DEF chainGrows, anchored
  <2>2. CASE n >= nextCertificateId
    <3> DEFINE i == n - nextCertificateId + 1
    <3>1. i \in DOMAIN hashes /\ nextCertificateId + i - 1 = n
      BY <1>2, <1>6, <2>2
    <3> HIDE DEF i
    <3>2. hashes[i] \in Hash /\ anchoredBy'[hashes[i]] = account /\ certificateId'[hashes[i]] = n
      BY <1>1, <3>1 DEF anchoredTogether
    <3> QED
      BY <1>4, <3>2 DEF anchored
  <2> QED
    BY <1>2, <2>1, <2>2
<1>7. \A h \in Hash : revoked(h)' => anchored(h)'
  BY <1>3 DEF IdsAreCounted, chainGrows, revoked, anchored
<1> QED
  BY <1>1, <1>3, <1>5, <1>6, <1>7 DEF IdsAreCounted

(* The two steps that anchor: of another account, and of a transaction.    *)
LEMMA AnchoringSteps ==
  ASSUME IssuanceAssumption, TypeOK, IdsAreCounted, UploadsAreOwn
  PROVE  /\ issueElsewhere => chainGrows /\ IdsAreCounted'
         /\ \A r \in Request : mineIssue(r) =>
              \/ /\ issueTx' = [issueTx EXCEPT ![r] = "succeeded"]
                 /\ \A i \in DOMAIN uploaded[r] : ~anchored(uploaded[r][i])
                 /\ anchoredTogether(Signer, uploaded[r]) /\ chainGrows /\ IdsAreCounted'
              \/ /\ issueTx' = [issueTx EXCEPT ![r] = "reverted"]
                 /\ UNCHANGED chainVars
<1>1. ASSUME issueElsewhere PROVE chainGrows /\ IdsAreCounted'
  <2>1. <<Elsewhere>> \in Seq(Hash)
        /\ \A i, j \in DOMAIN <<Elsewhere>> : <<Elsewhere>>[i] = <<Elsewhere>>[j] => i = j
    BY DEF Hash
  <2>2. anchorAll(Other, <<Elsewhere>>) /\ Other \in Account
        /\ \A i \in DOMAIN <<Elsewhere>> : ~anchored(<<Elsewhere>>[i])
    BY <1>1 DEF issueElsewhere, issuable, Account
  <2> QED
    BY <2>1, <2>2, ChainGrows
<1>2. ASSUME NEW r \in Request, mineIssue(r), issuable(Signer, uploaded[r])
      PROVE  /\ issueTx' = [issueTx EXCEPT ![r] = "succeeded"]
             /\ \A i \in DOMAIN uploaded[r] : ~anchored(uploaded[r][i])
             /\ anchoredTogether(Signer, uploaded[r]) /\ chainGrows /\ IdsAreCounted'
  BY <1>2, ChainGrows DEF TypeOK, Account, UploadsAreOwn, ownUploads, mineIssue, issuable
<1>3. ASSUME NEW r \in Request, mineIssue(r), ~issuable(Signer, uploaded[r])
      PROVE  issueTx' = [issueTx EXCEPT ![r] = "reverted"] /\ UNCHANGED chainVars
  BY <1>3 DEF mineIssue
<1> QED
  BY <1>1, <1>2, <1>3

(* A new document is the next of its request; the others stay.             *)
persistedOne(r, k) ==
  /\ k \in DOMAIN uploaded[r] /\ k \in Nat \ {0} /\ uploaded[r][k] \in Hash
  /\ docs'[uploaded[r][k]] = document(r, k)
  /\ \A h \in Hash \ {uploaded[r][k]} : docs'[h] = docs[h]
  /\ \A s \in Request : \A i \in DOMAIN uploaded[s] :
       uploaded[s][i] = uploaded[r][k] => s = r /\ i = k
  /\ went(r, IF k < Len(uploaded[r]) THEN "persist"
             ELSE IF replaces[r] = NoHash THEN "done" ELSE "revoke",
          [local[r] EXCEPT !.persisted = k])
  /\ [local[r] EXCEPT !.persisted = k].persisted = k
  /\ [local[r] EXCEPT !.persisted = k].size = local[r].size
  /\ [local[r] EXCEPT !.persisted = k].handled = local[r].handled
  /\ [local[r] EXCEPT !.persisted = k].predicted = local[r].predicted

LEMMA PersistedOne ==
  ASSUME IssuanceAssumption, TypeOK, UploadsAreOwn, LoopsAreBounded,
         NEW r \in Request, persistItem(r)
  PROVE  persistedOne(r, local[r].persisted + 1)
<1> DEFINE k == local[r].persisted + 1
<1>1. went(r, afterDocument(r, k), [local[r] EXCEPT !.persisted = k])
  BY Moves
<1>2. local[r].persisted < Len(uploaded[r])
  BY DEF persistItem, LoopsAreBounded, loopBounded
<1>3. k \in DOMAIN uploaded[r] /\ k \in Nat \ {0} /\ uploaded[r] \in Seq(Hash)
  BY <1>2, Counters DEF TypeOK
<1>4. uploaded[r][k] \in Hash
  BY <1>3
<1>5. docs' = [docs EXCEPT ![uploaded[r][k]] = document(r, k)] /\ docs \in [Hash -> Document]
  BY DEF persistItem, TypeOK
<1>6. ASSUME NEW s \in Request, NEW i \in DOMAIN uploaded[s], uploaded[s][i] = uploaded[r][k]
      PROVE  s = r /\ i = k
  BY <1>3, <1>6 DEF UploadsAreOwn, ownUploads
<1>7. /\ [local[r] EXCEPT !.persisted = k].persisted = k
      /\ [local[r] EXCEPT !.persisted = k].size = local[r].size
      /\ [local[r] EXCEPT !.persisted = k].handled = local[r].handled
      /\ [local[r] EXCEPT !.persisted = k].predicted = local[r].predicted
  BY Counters DEF Locals
<1> QED
  BY <1>1, <1>3, <1>4, <1>5, <1>6, <1>7 DEF afterDocument, persistedOne

(* Marking a document as replaced changes nothing else of any document.    *)
LEMMA MarkedOne ==
  ASSUME IssuanceAssumption, TypeOK, LoopsAreBounded,
         NEW r \in Request, markCertificateAsReplaced(r)
  PROVE  /\ replaces[r] \in Hash /\ uploaded[r][1] \in Hash
         /\ \A h \in Hash : /\ docs'[h].replaces = docs[h].replaces
                            /\ docs'[h].certificateId = docs[h].certificateId
                            /\ docs'[h] = NoDoc <=> docs[h] = NoDoc
                            /\ docs'[h].replacedBy \in {docs[h].replacedBy, uploaded[r][1]}
                            /\ h # replaces[r] => docs'[h] = docs[h]
         /\ went(r, "done", local[r])
<1>1. replaces[r] \in Hash /\ uploaded[r] # <<>> /\ uploaded[r] \in Seq(Hash)
  BY DEF markCertificateAsReplaced, LoopsAreBounded, loopBounded, Replacing, Ready, TypeOK
<1>2. uploaded[r][1] \in Hash /\ uploaded[r][1] # NoHash
  BY <1>1 DEF IssuanceAssumption
<1>3. docs \in [Hash -> Document] /\ docs[replaces[r]] \in Document
  BY <1>1 DEF TypeOK
<1> DEFINE marked == [docs[replaces[r]] EXCEPT !.replacedBy = uploaded[r][1]]
<1>4. /\ marked.replaces = docs[replaces[r]].replaces
      /\ marked.certificateId = docs[replaces[r]].certificateId
      /\ marked.replacedBy = uploaded[r][1]
  BY <1>3 DEF Document
<1>5. marked # NoDoc
  BY <1>2, <1>4 DEF NoDoc
<1>6. \/ docs' = [docs EXCEPT ![replaces[r]] = marked] /\ stored(replaces[r])
      \/ docs' = docs
  BY <1>1 DEF markCertificateAsReplaced
<1>7. went(r, "done", local[r])
  BY Counters, Went DEF markCertificateAsReplaced, goTo, Stage
<1> HIDE DEF marked
<1>8. ASSUME NEW h \in Hash
      PROVE  /\ docs'[h].replaces = docs[h].replaces
             /\ docs'[h].certificateId = docs[h].certificateId
             /\ docs'[h] = NoDoc <=> docs[h] = NoDoc
             /\ docs'[h].replacedBy \in {docs[h].replacedBy, uploaded[r][1]}
             /\ h # replaces[r] => docs'[h] = docs[h]
  <2>1. CASE docs' = docs
    BY <2>1
  <2>2. CASE docs' = [docs EXCEPT ![replaces[r]] = marked] /\ stored(replaces[r])
    BY <1>1, <1>3, <1>4, <1>5, <2>2 DEF stored
  <2> QED
    BY <1>6, <2>1, <2>2
<1> QED
  BY <1>1, <1>2, <1>7, <1>8

(* Uploads stay a request's own while it uploads nothing.                  *)
LEMMA OwnKept ==
  ASSUME UploadsAreOwn, UNCHANGED uploaded,
         \A s \in Request : pc'[s] = "upload" =>
           uploaded[s] = <<>> \/ (pc[s] = "upload" /\ local'[s] = local[s])
  PROVE  UploadsAreOwn'
<1> SUFFICES ASSUME NEW s \in Request PROVE ownUploads(s)'
  BY DEF UploadsAreOwn
<1>1. ownUploads(s) /\ uploaded'[s] = uploaded[s]
  BY DEF UploadsAreOwn
<1>2. CASE uploaded[s] = <<>>
  BY <1>1, <1>2 DEF ownUploads
<1>3. CASE uploaded[s] # <<>>
  BY <1>1, <1>3 DEF ownUploads
<1> QED
  BY <1>2, <1>3

(* The loops of the other requests are where they were.                    *)
LEMMA OtherLoops ==
  ASSUME LoopsAreBounded, NEW r \in Request,
         \A s \in Request \ {r} : /\ pc'[s] = pc[s] /\ local'[s] = local[s]
                                  /\ uploaded'[s] = uploaded[s] /\ replaces'[s] = replaces[s]
  PROVE  \A s \in Request \ {r} : loopBounded(s)'
  BY DEF LoopsAreBounded, loopBounded

(* What the other requests believe stays true when their documents stay.   *)
LEMMA OtherReceipts ==
  ASSUME ReceiptsAreTrue, NEW r \in Request, UNCHANGED <<anchoredBy, revokedBy>>,
         \A s \in Request \ {r} :
           /\ pc'[s] = pc[s] /\ issueTx'[s] = issueTx[s] /\ revokeTx'[s] = revokeTx[s]
           /\ uploaded'[s] = uploaded[s] /\ replaces'[s] = replaces[s]
           /\ previousCertificateRevoked'[s] = previousCertificateRevoked[s],
         \A s \in Request \ {r} : revokeTx[s] # "none" =>
           /\ stored(uploaded[s][1])' <=> stored(uploaded[s][1])
           /\ docs'[uploaded[s][1]].replaces = docs[uploaded[s][1]].replaces,
         revokeTx'[r] = "succeeded" => revokeTx[r] = "succeeded" /\ replaces'[r] = replaces[r]
  PROVE  \A s \in Request \ {r} : receiptsTrue(s)'
<1> SUFFICES ASSUME NEW s \in Request \ {r} PROVE receiptsTrue(s)'
  OBVIOUS
<1>1. receiptsTrue(s)
  BY DEF ReceiptsAreTrue
<1>2. ASSUME NEW q \in Request, revokeTx'[s] = "succeeded", revokeTx'[q] = "succeeded",
             replaces'[s] = replaces'[q]
      PROVE  s = q
  BY <1>1, <1>2 DEF receiptsTrue
<1> QED
  BY <1>1, <1>2 DEF receiptsTrue

(* A request that is about to revoke has stored the one successor.         *)
LEMMA SoleSuccessor ==
  ASSUME IssuanceAssumption, TypeOK, LoopsAreBounded, DocumentsAreMade,
         NEW r \in Request, pc[r] \in Replacing
  PROVE  /\ replaces[r] # NoHash /\ Len(uploaded[r]) = 1
         /\ stored(uploaded[r][1]) /\ docs[uploaded[r][1]].replaces = replaces[r]
<1>1. pc[r] \in Running
  BY DEF Replacing, Running, Stage
<1>2. /\ replaces[r] # NoHash /\ uploaded[r] # <<>> /\ local[r].size = 1
      /\ local[r].persisted = Len(uploaded[r])
  BY <1>1 DEF LoopsAreBounded, loopBounded, Ready
<1>3. uploaded[r] \in Seq(Hash)
  BY DEF TypeOK
<1>4. Len(uploaded[r]) = 1 /\ 1 \in DOMAIN uploaded[r] /\ 1 <= local[r].persisted
  <2>1. Len(uploaded[r]) # 0
    BY <1>2, <1>3
  <2>2. Len(uploaded[r]) = 1
    <3>1. /\ Len(uploaded[r]) \in Nat /\ local[r].handled \in Nat
          /\ Len(uploaded[r]) <= local[r].handled /\ local[r].handled <= local[r].size
      BY <1>1, Counters
    <3>2. local[r].size = 1
      BY <1>2
    <3>3. \A a, b \in Nat : a # 0 /\ a <= b /\ b <= 1 => a = 1
      OBVIOUS
    <3> QED
      BY <2>1, <3>1, <3>2, <3>3
  <2> QED
    BY <1>2, <1>3, <2>2
<1> QED
  BY <1>1, <1>2, <1>4 DEF DocumentsAreMade, documentsMade

(* A prediction stays low while the chain grows.                           *)
LEMMA PredictionKept ==
  ASSUME IssuanceAssumption, TypeOK, ReceiptsAreTrue, PredictionsAreLow, NEW s \in Request,
         pc'[s] = pc[s], local'[s] = local[s], issueTx'[s] = issueTx[s], uploaded'[s] = uploaded[s],
         nextCertificateId <= nextCertificateId', nextCertificateId' \in Nat,
         \A h \in Hash : anchored(h) => certificateId'[h] = certificateId[h]
  PROVE  predictionLow(s)'
<1>1. predictionLow(s)
  BY DEF PredictionsAreLow
<1>2. ASSUME issueTx[s] = "succeeded", NEW i \in DOMAIN uploaded[s]
      PROVE  certificateId'[uploaded[s][i]] = certificateId[uploaded[s][i]]
  BY <1>2 DEF TypeOK, ReceiptsAreTrue, receiptsTrue, anchored, IssuanceAssumption, Account
<1>3. local[s].predicted \in Nat /\ nextCertificateId \in Nat
  BY Counters DEF TypeOK, Locals
<1> QED
  BY <1>1, <1>2, <1>3 DEF predictionLow

(* A chain that stays where it is grows.                                   *)
LEMMA IdsStay ==
  ASSUME TypeOK, UNCHANGED <<certificateId, nextCertificateId>>
  PROVE  /\ nextCertificateId <= nextCertificateId' /\ nextCertificateId' \in Nat
         /\ \A h \in Hash : anchored(h) => certificateId'[h] = certificateId[h]
  BY DEF TypeOK

(* A document stays real while the chain grows.                            *)
LEMMA RealKept ==
  ASSUME IssuanceAssumption, TypeOK, DocumentsAreReal, NEW h \in Hash,
         \A g \in Hash : anchored(g) =>
           anchoredBy'[g] = anchoredBy[g] /\ certificateId'[g] = certificateId[g],
         docs'[h].certificateId = docs[h].certificateId, docs'[h] = NoDoc <=> docs[h] = NoDoc
  PROVE  stored(h)' => anchoredBy'[h] = Signer /\ docs'[h].certificateId \in 1..certificateId'[h]
<1> SUFFICES ASSUME docs'[h] # NoDoc
             PROVE  anchoredBy'[h] = Signer /\ docs'[h].certificateId \in 1..certificateId'[h]
  BY DEF stored
<1>1. anchoredBy[h] = Signer /\ docs[h].certificateId \in 1..certificateId[h]
  BY DEF DocumentsAreReal, stored
<1>2. anchored(h)
  BY <1>1 DEF anchored, IssuanceAssumption, Account
<1> QED
  BY <1>1, <1>2

(* A document keeps its maker.                                             *)
LEMMA MakersKept ==
  ASSUME MakersAreKnown, UNCHANGED uploaded, \A h \in Hash : stored(h)' => stored(h)
  PROVE  MakersAreKnown'
  BY DEF MakersAreKnown

(* A request that makes no document has made as many as before.            *)
LEMMA MadeKept ==
  ASSUME IssuanceAssumption, TypeOK, LoopsAreBounded, DocumentsAreMade, NEW s \in Request,
         pc'[s] = "done" => pc[s] \in Replacing \cup {"done"},
         pc'[s] \in Running => pc[s] \in Running /\ local'[s].persisted = local[s].persisted,
         uploaded'[s] = uploaded[s], replaces'[s] = replaces[s],
         \A i \in DOMAIN uploaded[s] :
           /\ stored(uploaded[s][i])' <=> stored(uploaded[s][i])
           /\ docs'[uploaded[s][i]].replaces = docs[uploaded[s][i]].replaces
  PROVE  documentsMade(s)'
<1>1. documentsMade(s)
  BY DEF DocumentsAreMade
<1>2. pc[s] \in Replacing => \A i \in DOMAIN uploaded[s] : i <= local[s].persisted
  BY DEF TypeOK, LoopsAreBounded, loopBounded
<1>3. Replacing \subseteq Running
  BY DEF Replacing, Running, Stage
<1> QED
  BY <1>1, <1>2, <1>3 DEF documentsMade

(* A mark keeps the request that explains it.                              *)
LEMMA MarksKept ==
  ASSUME MarksAreExplained,
         \A h \in Hash : docs'[h].replacedBy \in {docs[h].replacedBy, NoHash},
         \A q \in Request : revokeTx[q] = "succeeded" =>
           revokeTx'[q] = "succeeded" /\ replaces'[q] = replaces[q] /\ uploaded'[q] = uploaded[q]
  PROVE  MarksAreExplained'
<1> SUFFICES ASSUME NEW h \in Hash, docs'[h].replacedBy # NoHash
             PROVE  \E q \in Request : /\ revokeTx'[q] = "succeeded" /\ replaces'[q] = h
                                       /\ docs'[h].replacedBy = uploaded'[q][1]
  BY DEF MarksAreExplained
<1>1. docs'[h].replacedBy = docs[h].replacedBy
  OBVIOUS
<1>2. PICK q \in Request : /\ revokeTx[q] = "succeeded" /\ replaces[q] = h
                           /\ docs[h].replacedBy = uploaded[q][1]
  BY <1>1 DEF MarksAreExplained
<1> QED
  BY <1>1, <1>2

(* Ids are handed out in order, and a revocation needs an anchored hash.   *)
LEMMA StepIds ==
  ASSUME IssuanceAssumption, IInv, TypeOK', [Next]_vars
  PROVE  IdsAreCounted'
<1>0. /\ TypeOK /\ IdsAreCounted /\ UploadsAreOwn /\ LoopsAreBounded /\ ReceiptsAreTrue
      /\ PredictionsAreLow /\ DocumentsAreReal /\ MakersAreKnown /\ DocumentsAreMade
      /\ MarksAreExplained
  BY DEF IInv
<1> USE <1>0, IssuanceAssumption DEF TypeOK, IdsAreCounted, chainVars, txVars, outputVars,
   requestVars, goTo, goWith, anchored, revoked, stored, Running, Stage, Replacing,
   Unsent, Ready, NoLocals, asked, Locals
<1>1. ASSUME verifyIssuer PROVE IdsAreCounted'
  BY <1>1 DEF verifyIssuer
<1>2. ASSUME suspendIssuer PROVE IdsAreCounted'
  BY <1>2 DEF suspendIssuer
<1>3. ASSUME issueElsewhere PROVE IdsAreCounted'
  BY <1>3, AnchoringSteps
<1>4. ASSUME NEW h \in Hash, revokeFromWallet(h) PROVE IdsAreCounted'
  BY <1>4 DEF revokeFromWallet
<1>5. ASSUME crash PROVE IdsAreCounted'
  BY <1>5 DEF crash
<1>6. ASSUME NEW r \in Request, NEW old \in Hash \cup {NoHash}, issueCertificate(r, old)
      PROVE IdsAreCounted'
  BY <1>6 DEF issueCertificate
<1>7. ASSUME NEW r \in Request, NEW n \in 1..MaxBatch, batchIssueCertificates(r, n)
      PROVE IdsAreCounted'
  BY <1>7 DEF batchIssueCertificates
<1>8. ASSUME NEW r \in Request, checkChain(r) PROVE IdsAreCounted'
  BY <1>8 DEF checkChain
<1>9. ASSUME NEW r \in Request, checkDb(r) PROVE IdsAreCounted'
  BY <1>9 DEF checkDb
<1>10. ASSUME NEW r \in Request, uploadItem(r) PROVE IdsAreCounted'
  BY <1>10 DEF uploadItem
<1>11. ASSUME NEW r \in Request, predict(r) PROVE IdsAreCounted'
  BY <1>11 DEF predict
<1>12. ASSUME NEW r \in Request, broadcast(r) PROVE IdsAreCounted'
  BY <1>12 DEF broadcast
<1>13. ASSUME NEW r \in Request, confirm(r) PROVE IdsAreCounted'
  BY <1>13 DEF confirm
<1>14. ASSUME NEW r \in Request, persistItem(r) PROVE IdsAreCounted'
  BY <1>14 DEF persistItem
<1>15. ASSUME NEW r \in Request, sendRevocation(r) PROVE IdsAreCounted'
  BY <1>15 DEF sendRevocation
<1>16. ASSUME NEW r \in Request, confirmRevocation(r) PROVE IdsAreCounted'
  BY <1>16 DEF confirmRevocation
<1>17. ASSUME NEW r \in Request, markCertificateAsReplaced(r) PROVE IdsAreCounted'
  BY <1>17 DEF markCertificateAsReplaced
<1>18. ASSUME NEW r \in Request, failRequest(r) PROVE IdsAreCounted'
  BY <1>18 DEF failRequest
<1>19. ASSUME NEW r \in Request, failReplacing(r) PROVE IdsAreCounted'
  BY <1>19 DEF failReplacing
<1>20. ASSUME NEW r \in Request, mineIssue(r) PROVE IdsAreCounted'
  BY <1>20, AnchoringSteps
<1>21. ASSUME NEW r \in Request, mineRevoke(r) PROVE IdsAreCounted'
  BY <1>21 DEF mineRevoke, revocable, IssuanceAssumption, Account
<1>22. ASSUME UNCHANGED vars PROVE IdsAreCounted'
  BY <1>22 DEF vars, stored, IdsAreCounted
<1> HIDE DEF IdsAreCounted
<1> QED
  BY <1>1, <1>2, <1>3, <1>4, <1>5, <1>6, <1>7, <1>8, <1>9, <1>10, <1>11, <1>12, <1>13,
     <1>14, <1>15, <1>16, <1>17, <1>18, <1>19, <1>20, <1>21, <1>22 DEF Next, step

(* Only a request's own upload makes a hash, with the count it is at.      *)
LEMMA StepUploads ==
  ASSUME IssuanceAssumption, IInv, TypeOK', [Next]_vars
  PROVE  UploadsAreOwn'
<1>0. /\ TypeOK /\ IdsAreCounted /\ UploadsAreOwn /\ LoopsAreBounded /\ ReceiptsAreTrue
      /\ PredictionsAreLow /\ DocumentsAreReal /\ MakersAreKnown /\ DocumentsAreMade
      /\ MarksAreExplained
  BY DEF IInv
<1> USE <1>0, IssuanceAssumption DEF TypeOK, chainVars, txVars, outputVars, requestVars,
   goTo, goWith
<1>1. ASSUME verifyIssuer PROVE UploadsAreOwn'
  BY <1>1, OwnKept DEF verifyIssuer
<1>2. ASSUME suspendIssuer PROVE UploadsAreOwn'
  BY <1>2, OwnKept DEF suspendIssuer
<1>3. ASSUME issueElsewhere PROVE UploadsAreOwn'
  BY <1>3, OwnKept DEF issueElsewhere
<1>4. ASSUME NEW h \in Hash, revokeFromWallet(h) PROVE UploadsAreOwn'
  BY <1>4, OwnKept DEF revokeFromWallet
<1>5. ASSUME crash PROVE UploadsAreOwn'
  BY <1>5, OwnKept DEF crash, Running
<1>6. ASSUME NEW r \in Request, NEW old \in Hash \cup {NoHash}, issueCertificate(r, old)
      PROVE UploadsAreOwn'
  <2>1. went(r, IF old = NoHash THEN "upload" ELSE "checkChain", asked(1, FALSE))
    BY <1>6, Moves
  <2> QED
    BY <1>6, <2>1, OwnKept DEF issueCertificate, went, LoopsAreBounded, loopBounded
<1>7. ASSUME NEW r \in Request, NEW n \in 1..MaxBatch, batchIssueCertificates(r, n)
      PROVE UploadsAreOwn'
  <2>1. went(r, "upload", asked(n, TRUE))
    BY <1>7, Moves
  <2> QED
    BY <1>7, <2>1, OwnKept DEF batchIssueCertificates, went, LoopsAreBounded, loopBounded
<1>8. ASSUME NEW r \in Request, checkChain(r) PROVE UploadsAreOwn'
  BY <1>8, Went, Counters, OwnKept DEF checkChain, goTo, Stage, went, LoopsAreBounded,
    loopBounded
<1>9. ASSUME NEW r \in Request, checkDb(r) PROVE UploadsAreOwn'
  <2>1. went(r, "upload", local[r]) \/ went(r, "failed", local[r])
    BY <1>9, Went, Counters DEF checkDb, goTo, Stage
  <2> QED
    BY <1>9, <2>1, OwnKept DEF checkDb, went, LoopsAreBounded, loopBounded
<1>10. ASSUME NEW r \in Request, uploadItem(r) PROVE UploadsAreOwn'
  <2>1. uploadedOne(r)
    BY <1>10, UploadedOne
  <2>2. \A s \in Request \ {r} : ownUploads(s)'
    <3> SUFFICES ASSUME NEW s \in Request \ {r} PROVE ownUploads(s)'
      OBVIOUS
    <3>1. uploaded'[s] = uploaded[s] /\ pc'[s] = pc[s] /\ local'[s] = local[s] /\ ownUploads(s)
      BY <2>1 DEF uploadedOne, went, UploadsAreOwn
    <3> QED
      BY <3>1 DEF ownUploads
  <2>3. ownUploads(r)'
    <3>1. pc'[r] = "upload" => local'[r].handled = local[r].handled + 1
      BY <2>1 DEF uploadedOne, went
    <3>2. \A i \in DOMAIN uploaded[r] : \E k \in 1..MaxBatch :
            uploaded[r][i] = <<r, k>> /\ k <= local[r].handled
      BY <1>10 DEF uploadItem, UploadsAreOwn, ownUploads
    <3>3. local[r].handled \in Nat /\ local[r].handled + 1 \in 1..MaxBatch
      BY <2>1, Counters DEF uploadedOne
    <3>4. \A i, j \in DOMAIN uploaded[r] : uploaded[r][i] = uploaded[r][j] => i = j
      BY DEF UploadsAreOwn, ownUploads
    <3> HIDE <1>0 DEF TypeOK, UploadsAreOwn
    <3>5. ASSUME NEW i \in DOMAIN uploaded[r]
          PROVE  /\ uploaded[r][i] # <<r, local[r].handled + 1>>
                 /\ \E k \in 1..MaxBatch :
                      uploaded[r][i] = <<r, k>> /\ (pc'[r] = "upload" => k <= local'[r].handled)
      BY <3>5, <3>2, <3>3, <3>1
    <3>6. CASE uploaded' = uploaded
      BY <3>4, <3>5, <3>6 DEF ownUploads
    <3>7. CASE uploaded' # uploaded
      <4>1. /\ DOMAIN uploaded'[r] = DOMAIN uploaded[r] \cup {Len(uploaded[r]) + 1}
            /\ \A i \in DOMAIN uploaded[r] : uploaded'[r][i] = uploaded[r][i]
            /\ uploaded'[r][Len(uploaded[r]) + 1] = <<r, local[r].handled + 1>>
        BY <2>1, <3>7 DEF uploadedOne
      <4>2. ASSUME NEW i \in DOMAIN uploaded'[r]
            PROVE  \E k \in 1..MaxBatch :
                     uploaded'[r][i] = <<r, k>> /\ (pc'[r] = "upload" => k <= local'[r].handled)
        <5>1. CASE i \in DOMAIN uploaded[r]
          BY <3>5, <4>1, <5>1
        <5>2. CASE i = Len(uploaded[r]) + 1
          BY <3>1, <3>3, <4>1, <5>2
        <5> QED
          BY <4>1, <5>1, <5>2
      <4>3. \A i, j \in DOMAIN uploaded'[r] : uploaded'[r][i] = uploaded'[r][j] => i = j
        BY <3>4, <3>5, <4>1
      <4> QED
        BY <4>2, <4>3 DEF ownUploads
    <3> QED
      BY <3>6, <3>7
  <2> QED
    BY <2>2, <2>3 DEF UploadsAreOwn
<1>11. ASSUME NEW r \in Request, predict(r) PROVE UploadsAreOwn'
  BY <1>11, Moves, OwnKept DEF predict, went, LoopsAreBounded, loopBounded
<1>12. ASSUME NEW r \in Request, broadcast(r) PROVE UploadsAreOwn'
  BY <1>12, Moves, OwnKept DEF broadcast, went, LoopsAreBounded, loopBounded
<1>13. ASSUME NEW r \in Request, confirm(r) PROVE UploadsAreOwn'
  BY <1>13, Went, Counters, OwnKept DEF confirm, goTo, Stage, went, LoopsAreBounded,
    loopBounded
<1>14. ASSUME NEW r \in Request, persistItem(r) PROVE UploadsAreOwn'
  <2> DEFINE k == local[r].persisted + 1
  <2> HIDE DEF TypeOK
  <2>1. k = local[r].persisted + 1 /\ persistedOne(r, k)
    BY <1>14, PersistedOne
  <2> HIDE DEF k
  <2>2. pc'[r] # "upload" /\ \A s \in Request \ {r} : pc'[s] = pc[s] /\ local'[s] = local[s]
    BY <2>1 DEF persistedOne, went
  <2> QED
    BY <1>14, <2>2, OwnKept DEF persistItem
<1>15. ASSUME NEW r \in Request, sendRevocation(r) PROVE UploadsAreOwn'
  BY <1>15, Moves, OwnKept DEF sendRevocation, went, LoopsAreBounded, loopBounded
<1>16. ASSUME NEW r \in Request, confirmRevocation(r) PROVE UploadsAreOwn'
  BY <1>16, Went, Counters, OwnKept DEF confirmRevocation, goTo, Stage, went,
    LoopsAreBounded, loopBounded
<1>17. ASSUME NEW r \in Request, markCertificateAsReplaced(r) PROVE UploadsAreOwn'
  BY <1>17, MarkedOne, OwnKept DEF markCertificateAsReplaced, went
<1>18. ASSUME NEW r \in Request, failRequest(r) PROVE UploadsAreOwn'
  BY <1>18, Went, Counters, OwnKept DEF failRequest, goTo, Stage, went, LoopsAreBounded,
    loopBounded
<1>19. ASSUME NEW r \in Request, failReplacing(r) PROVE UploadsAreOwn'
  BY <1>19, Went, Counters, OwnKept DEF failReplacing, goTo, Stage, went, LoopsAreBounded,
    loopBounded
<1>20. ASSUME NEW r \in Request, mineIssue(r) PROVE UploadsAreOwn'
  BY <1>20, OwnKept DEF mineIssue
<1>21. ASSUME NEW r \in Request, mineRevoke(r) PROVE UploadsAreOwn'
  BY <1>21, OwnKept DEF mineRevoke
<1>22. ASSUME UNCHANGED vars PROVE UploadsAreOwn'
  BY <1>22 DEF vars, stored, UploadsAreOwn, ownUploads
<1> HIDE DEF UploadsAreOwn
<1> QED
  BY <1>1, <1>2, <1>3, <1>4, <1>5, <1>6, <1>7, <1>8, <1>9, <1>10, <1>11, <1>12, <1>13,
     <1>14, <1>15, <1>16, <1>17, <1>18, <1>19, <1>20, <1>21, <1>22 DEF Next, step

(* Where a request goes on depends on where its loops are.                 *)
LEMMA StepLoops ==
  ASSUME IssuanceAssumption, IInv, TypeOK', [Next]_vars
  PROVE  LoopsAreBounded'
<1>0. /\ TypeOK /\ IdsAreCounted /\ UploadsAreOwn /\ LoopsAreBounded /\ ReceiptsAreTrue
      /\ PredictionsAreLow /\ DocumentsAreReal /\ MakersAreKnown /\ DocumentsAreMade
      /\ MarksAreExplained
  BY DEF IInv
<1> USE <1>0, IssuanceAssumption DEF TypeOK, chainVars, txVars, outputVars, requestVars
<1>1. ASSUME verifyIssuer PROVE LoopsAreBounded'
  BY <1>1 DEF verifyIssuer, LoopsAreBounded, loopBounded
<1>2. ASSUME suspendIssuer PROVE LoopsAreBounded'
  BY <1>2 DEF suspendIssuer, LoopsAreBounded, loopBounded
<1>3. ASSUME issueElsewhere PROVE LoopsAreBounded'
  BY <1>3 DEF issueElsewhere, LoopsAreBounded, loopBounded
<1>4. ASSUME NEW h \in Hash, revokeFromWallet(h) PROVE LoopsAreBounded'
  BY <1>4 DEF revokeFromWallet, LoopsAreBounded, loopBounded
<1>5. ASSUME crash PROVE LoopsAreBounded'
  BY <1>5 DEF crash, LoopsAreBounded, loopBounded, NoLocals, asked, Running, Stage,
     Replacing, Unsent, Ready
<1>6. ASSUME NEW r \in Request, NEW old \in Hash \cup {NoHash}, issueCertificate(r, old)
      PROVE LoopsAreBounded'
  <2>1. went(r, IF old = NoHash THEN "upload" ELSE "checkChain", asked(1, FALSE))
    BY <1>6, Moves
  <2>2. \A s \in Request \ {r} : loopBounded(s)'
    BY <1>6, <2>1, OtherLoops DEF issueCertificate, went
  <2>3. loopBounded(r)'
    BY <2>1, <1>6 DEF went, issueCertificate, LoopsAreBounded, loopBounded, asked,
      Running, Stage, Replacing, Unsent, Ready
  <2> QED
    BY <2>2, <2>3 DEF LoopsAreBounded
<1>7. ASSUME NEW r \in Request, NEW n \in 1..MaxBatch, batchIssueCertificates(r, n)
      PROVE LoopsAreBounded'
  <2>1. went(r, "upload", asked(n, TRUE))
    BY <1>7, Moves
  <2>2. \A s \in Request \ {r} : loopBounded(s)'
    BY <1>7, <2>1, OtherLoops DEF batchIssueCertificates, went
  <2>3. loopBounded(r)'
    BY <2>1, <1>7 DEF went, batchIssueCertificates, LoopsAreBounded, loopBounded, asked,
      Running, Stage, Replacing, Unsent, Ready
  <2> QED
    BY <2>2, <2>3 DEF LoopsAreBounded
<1>8. ASSUME NEW r \in Request, checkChain(r) PROVE LoopsAreBounded'
  <2>1. went(r, "checkDb", local[r]) \/ went(r, "failed", local[r])
    BY <1>8, Went, Counters DEF checkChain, goTo, Stage
  <2>2. \/ pc'[r] = "checkDb" /\ local'[r] = local[r]
        \/ pc'[r] = "failed" /\ local'[r] = NoLocals
    BY <2>1 DEF went
  <2>3. UNCHANGED <<uploaded, replaces>> /\ pc[r] = "checkChain"
    BY <1>8 DEF checkChain
  <2>4. \A s \in Request \ {r} : loopBounded(s)'
    BY <2>1, <2>3, OtherLoops DEF went
  <2>5. loopBounded(r)'
    BY <2>2, <2>3, Counters DEF LoopsAreBounded, loopBounded, NoLocals, asked, Running,
      Stage, Replacing, Unsent, Ready
  <2> QED
    BY <2>4, <2>5 DEF LoopsAreBounded
<1>9. ASSUME NEW r \in Request, checkDb(r) PROVE LoopsAreBounded'
  <2>1. went(r, "upload", local[r]) \/ went(r, "failed", local[r])
    BY <1>9, Went, Counters DEF checkDb, goTo, Stage
  <2>2. \/ pc'[r] = "upload" /\ local'[r] = local[r]
        \/ pc'[r] = "failed" /\ local'[r] = NoLocals
    BY <2>1 DEF went
  <2>3. UNCHANGED <<uploaded, replaces>> /\ pc[r] = "checkDb"
    BY <1>9 DEF checkDb
  <2>4. \A s \in Request \ {r} : loopBounded(s)'
    BY <2>1, <2>3, OtherLoops DEF went
  <2>5. loopBounded(r)'
    BY <2>2, <2>3, Counters DEF LoopsAreBounded, loopBounded, NoLocals, asked, Running,
      Stage, Replacing, Unsent, Ready
  <2> QED
    BY <2>4, <2>5 DEF LoopsAreBounded
<1>10. ASSUME NEW r \in Request, uploadItem(r) PROVE LoopsAreBounded'
  <2>1. uploadedOne(r)
    BY <1>10, UploadedOne
  <2>2. UNCHANGED replaces /\ pc[r] = "upload"
    BY <1>10 DEF uploadItem
  <2>3. /\ pc'[r] = afterUpload(r, uploaded'[r])
        /\ local'[r] = IF afterUpload(r, uploaded'[r]) = "failed" THEN NoLocals ELSE oneHandled(r)
    BY <2>1 DEF uploadedOne, went, afterUpload
  <2>4. \A s \in Request \ {r} : loopBounded(s)'
    BY <2>1, <2>2, OtherLoops DEF uploadedOne, went
  <2>5. afterUpload(r, uploaded'[r]) = "upload" => local[r].handled + 1 < local[r].size
    BY DEF afterUpload
  <2>6. afterUpload(r, uploaded'[r]) = "predict" => uploaded'[r] # <<>>
    BY DEF afterUpload
  <2>7. /\ oneHandled(r).handled = local[r].handled + 1 /\ oneHandled(r).size = local[r].size
        /\ oneHandled(r).persisted = local[r].persisted
    BY <2>1 DEF uploadedOne
  <2>8. afterUpload(r, uploaded'[r]) \in {"upload", "predict", "failed"}
    BY DEF afterUpload
  <2>9. loopBounded(r)'
    <3>1. loopBounded(r)
      BY DEF LoopsAreBounded
    <3> HIDE DEF TypeOK
    <3> QED
      BY <2>2, <2>3, <2>5, <2>6, <2>7, <2>8, <3>1
         DEF loopBounded, NoLocals, asked, Running, Stage, Replacing, Unsent, Ready
  <2> QED
    BY <2>4, <2>9 DEF LoopsAreBounded
<1>11. ASSUME NEW r \in Request, predict(r) PROVE LoopsAreBounded'
  <2>1. \/ went(r, "broadcast", [local[r] EXCEPT !.predicted = nextCertificateId])
        \/ went(r, "failed", local[r])
    BY <1>11, Moves
  <2>2. UNCHANGED <<uploaded, replaces>> /\ pc[r] = "predict"
    BY <1>11 DEF predict
  <2>3. \A s \in Request \ {r} : loopBounded(s)'
    BY <2>1, <2>2, OtherLoops DEF went
  <2>4. loopBounded(r)'
    BY <2>1, Counters, <2>2 DEF went, Locals, LoopsAreBounded, loopBounded, NoLocals,
      asked, Running, Stage, Replacing, Unsent, Ready
  <2> QED
    BY <2>3, <2>4 DEF LoopsAreBounded
<1>12. ASSUME NEW r \in Request, broadcast(r) PROVE LoopsAreBounded'
  <2>1. went(r, "confirm", local[r]) \/ went(r, "failed", local[r])
    BY <1>12, Moves
  <2>2. \/ pc'[r] = "confirm" /\ local'[r] = local[r]
        \/ pc'[r] = "failed" /\ local'[r] = NoLocals
    BY <2>1 DEF went
  <2>3. UNCHANGED <<uploaded, replaces>> /\ pc[r] = "broadcast"
    BY <1>12 DEF broadcast
  <2>4. \A s \in Request \ {r} : loopBounded(s)'
    BY <2>1, <2>3, OtherLoops DEF went
  <2>5. loopBounded(r)'
    BY <2>2, <2>3, Counters DEF LoopsAreBounded, loopBounded, NoLocals, asked, Running,
      Stage, Replacing, Unsent, Ready
  <2> QED
    BY <2>4, <2>5 DEF LoopsAreBounded
<1>13. ASSUME NEW r \in Request, confirm(r) PROVE LoopsAreBounded'
  <2>1. went(r, "persist", local[r]) \/ went(r, "failed", local[r])
    BY <1>13, Went, Counters DEF confirm, goTo, Stage
  <2>2. \/ pc'[r] = "persist" /\ local'[r] = local[r]
        \/ pc'[r] = "failed" /\ local'[r] = NoLocals
    BY <2>1 DEF went
  <2>3. UNCHANGED <<uploaded, replaces>> /\ pc[r] = "confirm"
    BY <1>13 DEF confirm
  <2>4. \A s \in Request \ {r} : loopBounded(s)'
    BY <2>1, <2>3, OtherLoops DEF went
  <2>5. loopBounded(r)'
    <3>1. loopBounded(r) /\ (uploaded[r] # <<>> => 0 < Len(uploaded[r]))
      BY DEF LoopsAreBounded
    <3> HIDE DEF TypeOK
    <3> QED
      BY <2>2, <2>3, <3>1, Counters DEF loopBounded, NoLocals, asked, Running, Stage,
         Replacing, Unsent, Ready
  <2> QED
    BY <2>4, <2>5 DEF LoopsAreBounded
<1>14. ASSUME NEW r \in Request, persistItem(r) PROVE LoopsAreBounded'
  <2> DEFINE k == local[r].persisted + 1
  <2> HIDE DEF TypeOK
  <2>1. k = local[r].persisted + 1 /\ persistedOne(r, k)
    BY <1>14, PersistedOne
  <2> HIDE DEF k
  <2> DEFINE l == [local[r] EXCEPT !.persisted = k]
  <2>2. /\ went(r, IF k < Len(uploaded[r]) THEN "persist"
                    ELSE IF replaces[r] = NoHash THEN "done" ELSE "revoke", l)
        /\ l.persisted = k /\ l.size = local[r].size /\ l.handled = local[r].handled
    BY <2>1 DEF persistedOne
  <2>3. k <= Len(uploaded[r]) /\ k \in Nat /\ Len(uploaded[r]) \in Nat
    BY <1>14, <2>1, Counters DEF persistItem, LoopsAreBounded, loopBounded
  <2>4. UNCHANGED <<replaces, uploaded>> /\ pc[r] = "persist"
    BY <1>14 DEF persistItem
  <2> HIDE DEF l
  <2>5. loopBounded(r)'
    BY <2>2, <2>3, <2>4 DEF LoopsAreBounded, went, loopBounded, NoLocals, asked, Running,
      Stage, Replacing, Unsent, Ready
  <2>6. \A s \in Request \ {r} : loopBounded(s)'
    BY <2>2, <2>4, OtherLoops DEF went
  <2> QED
    BY <2>5, <2>6 DEF LoopsAreBounded
<1>15. ASSUME NEW r \in Request, sendRevocation(r) PROVE LoopsAreBounded'
  <2>1. went(r, "confirmRevoke", local[r]) \/ went(r, "done", local[r])
    BY <1>15, Moves
  <2>2. \/ pc'[r] = "confirmRevoke" /\ local'[r] = local[r]
        \/ pc'[r] = "done" /\ local'[r] = NoLocals
    BY <2>1 DEF went
  <2>3. UNCHANGED <<uploaded, replaces>> /\ pc[r] = "revoke"
    BY <1>15 DEF sendRevocation
  <2>4. \A s \in Request \ {r} : loopBounded(s)'
    BY <2>1, <2>3, OtherLoops DEF went
  <2>5. loopBounded(r)'
    BY <2>2, <2>3, Counters DEF LoopsAreBounded, loopBounded, NoLocals, asked, Running,
      Stage, Replacing, Unsent, Ready
  <2> QED
    BY <2>4, <2>5 DEF LoopsAreBounded
<1>16. ASSUME NEW r \in Request, confirmRevocation(r) PROVE LoopsAreBounded'
  <2>1. went(r, "mark", local[r]) \/ went(r, "done", local[r])
    BY <1>16, Went, Counters DEF confirmRevocation, goTo, Stage
  <2>2. \/ pc'[r] = "mark" /\ local'[r] = local[r]
        \/ pc'[r] = "done" /\ local'[r] = NoLocals
    BY <2>1 DEF went
  <2>3. UNCHANGED <<uploaded, replaces>> /\ pc[r] = "confirmRevoke"
    BY <1>16 DEF confirmRevocation
  <2>4. \A s \in Request \ {r} : loopBounded(s)'
    BY <2>1, <2>3, OtherLoops DEF went
  <2>5. loopBounded(r)'
    BY <2>2, <2>3, Counters DEF LoopsAreBounded, loopBounded, NoLocals, asked, Running,
      Stage, Replacing, Unsent, Ready
  <2> QED
    BY <2>4, <2>5 DEF LoopsAreBounded
<1>17. ASSUME NEW r \in Request, markCertificateAsReplaced(r) PROVE LoopsAreBounded'
  <2>1. went(r, "done", local[r]) /\ UNCHANGED <<uploaded, replaces>> /\ pc[r] = "mark"
    BY <1>17, MarkedOne DEF markCertificateAsReplaced
  <2>2. \A s \in Request \ {r} : loopBounded(s)'
    BY <2>1, OtherLoops DEF went
  <2>3. loopBounded(r)'
    BY <2>1 DEF went, LoopsAreBounded, loopBounded, NoLocals, asked, Running, Stage,
       Replacing, Unsent, Ready
  <2> QED
    BY <2>2, <2>3 DEF LoopsAreBounded
<1>18. ASSUME NEW r \in Request, failRequest(r) PROVE LoopsAreBounded'
  <2>1. went(r, "failed", local[r])
    BY <1>18, Went, Counters DEF failRequest, goTo, Stage
  <2>2. pc'[r] = "failed" /\ local'[r] = NoLocals
    BY <2>1 DEF went
  <2>3. UNCHANGED <<uploaded, replaces>> /\ pc[r] \in Running \ Replacing
    BY <1>18 DEF failRequest
  <2>4. \A s \in Request \ {r} : loopBounded(s)'
    BY <2>1, <2>3, OtherLoops DEF went
  <2>5. loopBounded(r)'
    BY <2>2, <2>3, Counters DEF LoopsAreBounded, loopBounded, NoLocals, asked, Running,
      Stage, Replacing, Unsent, Ready
  <2> QED
    BY <2>4, <2>5 DEF LoopsAreBounded
<1>19. ASSUME NEW r \in Request, failReplacing(r) PROVE LoopsAreBounded'
  BY <1>19, Went, Counters, OtherLoops DEF failReplacing, goTo, Stage, went,
    LoopsAreBounded, loopBounded, NoLocals, asked, Running, Replacing, Unsent, Ready
<1>20. ASSUME NEW r \in Request, mineIssue(r) PROVE LoopsAreBounded'
  BY <1>20 DEF mineIssue, LoopsAreBounded, loopBounded
<1>21. ASSUME NEW r \in Request, mineRevoke(r) PROVE LoopsAreBounded'
  BY <1>21 DEF mineRevoke, LoopsAreBounded, loopBounded
<1>22. ASSUME UNCHANGED vars PROVE LoopsAreBounded'
  BY <1>22 DEF vars, stored, LoopsAreBounded, loopBounded
<1> HIDE DEF LoopsAreBounded
<1> QED
  BY <1>1, <1>2, <1>3, <1>4, <1>5, <1>6, <1>7, <1>8, <1>9, <1>10, <1>11, <1>12, <1>13,
     <1>14, <1>15, <1>16, <1>17, <1>18, <1>19, <1>20, <1>21, <1>22 DEF Next, step

(* A stage is reached with the receipt of the transaction it waited for;   *)
(* the contract lets a hash be revoked once.                               *)
LEMMA StepReceipts ==
  ASSUME IssuanceAssumption, IInv, TypeOK', [Next]_vars
  PROVE  ReceiptsAreTrue'
<1>0. /\ TypeOK /\ IdsAreCounted /\ UploadsAreOwn /\ LoopsAreBounded /\ ReceiptsAreTrue
      /\ PredictionsAreLow /\ DocumentsAreReal /\ MakersAreKnown /\ DocumentsAreMade
      /\ MarksAreExplained
  BY DEF IInv
<1> USE <1>0, IssuanceAssumption DEF TypeOK, chainVars, txVars, outputVars, requestVars
<1>1. ASSUME verifyIssuer PROVE ReceiptsAreTrue'
  BY <1>1 DEF verifyIssuer, ReceiptsAreTrue, receiptsTrue, stored, Running, Stage,
     Replacing, Unsent
<1>2. ASSUME suspendIssuer PROVE ReceiptsAreTrue'
  BY <1>2 DEF suspendIssuer, ReceiptsAreTrue, receiptsTrue, stored, Running, Stage,
     Replacing, Unsent
<1>3. ASSUME issueElsewhere PROVE ReceiptsAreTrue'
  <2>1. chainGrows /\ UNCHANGED <<txVars, docs, requestVars>>
    BY <1>3, AnchoringSteps DEF issueElsewhere
  <2> SUFFICES ASSUME NEW s \in Request PROVE receiptsTrue(s)'
    BY DEF ReceiptsAreTrue
  <2>2. ASSUME issueTx[s] = "succeeded", NEW i \in DOMAIN uploaded[s]
        PROVE  anchoredBy'[uploaded[s][i]] = Signer
    BY <2>2, <2>1 DEF ReceiptsAreTrue, receiptsTrue, chainGrows, anchored,
      IssuanceAssumption, Account
  <2>3. receiptsTrue(s) /\ revokedBy' = revokedBy
    BY <2>1 DEF ReceiptsAreTrue, chainGrows
  <2>4. \A q \in Request :
          /\ revokeTx[s] = "succeeded" /\ revokeTx[q] = "succeeded"
          /\ replaces[s] = replaces[q]
          => s = q
    BY <2>3 DEF receiptsTrue
  <2> HIDE DEF TypeOK
  <2> QED
    BY <2>1, <2>2, <2>3, <2>4 DEF receiptsTrue, stored
<1>4. ASSUME NEW h \in Hash, revokeFromWallet(h) PROVE ReceiptsAreTrue'
  BY <1>4 DEF revokeFromWallet, ReceiptsAreTrue, receiptsTrue, revoked,
    IssuanceAssumption, Account, stored
<1>5. ASSUME crash PROVE ReceiptsAreTrue'
  BY <1>5 DEF crash, ReceiptsAreTrue, receiptsTrue, stored, Running, Stage, Replacing,
     Unsent
<1>6. ASSUME NEW r \in Request, NEW old \in Hash \cup {NoHash}, issueCertificate(r, old)
      PROVE ReceiptsAreTrue'
  <2>1. went(r, IF old = NoHash THEN "upload" ELSE "checkChain", asked(1, FALSE))
    BY <1>6, Moves
  <2>2. /\ pc[r] = "idle" /\ pc'[r] \in {"upload", "checkChain"}
        /\ issueTx'[r] = issueTx[r] /\ revokeTx'[r] = revokeTx[r] /\ revokeTx[r] = "none"
    BY <2>1, <1>6 DEF issueCertificate, went, ReceiptsAreTrue, receiptsTrue
  <2>3. UNCHANGED <<anchoredBy, revokedBy, docs, uploaded, previousCertificateRevoked>>
        /\ \A s \in Request \ {r} : /\ pc'[s] = pc[s] /\ replaces'[s] = replaces[s]
                                 /\ issueTx'[s] = issueTx[s] /\ revokeTx'[s] = revokeTx[s]
    BY <2>1, <1>6 DEF issueCertificate, went
  <2>4. \A s \in Request \ {r} : receiptsTrue(s)'
    BY <2>2, <2>3, OtherReceipts DEF stored
  <2>5. receiptsTrue(r)'
    BY <2>2, <2>3 DEF ReceiptsAreTrue, receiptsTrue, stored, Running, Stage, Replacing,
      Unsent
  <2> QED
    BY <2>4, <2>5 DEF ReceiptsAreTrue
<1>7. ASSUME NEW r \in Request, NEW n \in 1..MaxBatch, batchIssueCertificates(r, n)
      PROVE ReceiptsAreTrue'
  <2>1. went(r, "upload", asked(n, TRUE))
    BY <1>7, Moves
  <2>2. /\ pc[r] = "idle" /\ pc'[r] \in {"upload"}
        /\ issueTx'[r] = issueTx[r] /\ revokeTx'[r] = revokeTx[r] /\ revokeTx[r] = "none"
    BY <2>1, <1>7 DEF batchIssueCertificates, went, ReceiptsAreTrue, receiptsTrue
  <2>3. UNCHANGED <<anchoredBy, revokedBy, docs, uploaded, previousCertificateRevoked>>
        /\ \A s \in Request \ {r} : /\ pc'[s] = pc[s] /\ replaces'[s] = replaces[s]
                                 /\ issueTx'[s] = issueTx[s] /\ revokeTx'[s] = revokeTx[s]
    BY <2>1, <1>7 DEF batchIssueCertificates, went
  <2>4. \A s \in Request \ {r} : receiptsTrue(s)'
    BY <2>2, <2>3, OtherReceipts DEF stored
  <2>5. receiptsTrue(r)'
    BY <2>2, <2>3 DEF ReceiptsAreTrue, receiptsTrue, stored, Running, Stage, Replacing,
      Unsent
  <2> QED
    BY <2>4, <2>5 DEF ReceiptsAreTrue
<1>8. ASSUME NEW r \in Request, checkChain(r) PROVE ReceiptsAreTrue'
  BY <1>8, Went, Counters, OtherReceipts DEF checkChain, goTo, Stage, went, stored,
    ReceiptsAreTrue, receiptsTrue, Running, Replacing, Unsent
<1>9. ASSUME NEW r \in Request, checkDb(r) PROVE ReceiptsAreTrue'
  <2>1. went(r, "upload", local[r]) \/ went(r, "failed", local[r])
    BY <1>9, Went, Counters DEF checkDb, goTo, Stage
  <2>2. /\ pc[r] = "checkDb" /\ pc'[r] \in {"upload", "failed"}
        /\ issueTx'[r] = issueTx[r] /\ revokeTx'[r] = revokeTx[r] /\ replaces'[r] = replaces[r]
    BY <2>1, <1>9 DEF checkDb, went
  <2>3. UNCHANGED <<anchoredBy, revokedBy, docs, uploaded, previousCertificateRevoked>>
        /\ \A s \in Request \ {r} : /\ pc'[s] = pc[s] /\ replaces'[s] = replaces[s]
                                 /\ issueTx'[s] = issueTx[s] /\ revokeTx'[s] = revokeTx[s]
    BY <2>1, <1>9 DEF checkDb, went
  <2>4. \A s \in Request \ {r} : receiptsTrue(s)'
    BY <2>2, <2>3, OtherReceipts DEF stored
  <2>5. receiptsTrue(r)'
    BY <2>2, <2>3 DEF ReceiptsAreTrue, receiptsTrue, stored, Running, Stage, Replacing,
      Unsent
  <2> QED
    BY <2>4, <2>5 DEF ReceiptsAreTrue
<1>10. ASSUME NEW r \in Request, uploadItem(r) PROVE ReceiptsAreTrue'
  <2>1. uploadedOne(r)
    BY <1>10, UploadedOne
  <2>2. /\ pc[r] = "upload" /\ pc'[r] \in {"upload", "predict", "failed"}
        /\ issueTx[r] = "none" /\ issueTx' = issueTx /\ revokeTx[r] = "none" /\ revokeTx' = revokeTx
    BY <1>10, <2>1 DEF uploadItem, uploadedOne, went, afterUpload, ReceiptsAreTrue,
       receiptsTrue, Unsent
  <2>3. UNCHANGED <<anchoredBy, revokedBy, docs, replaces, previousCertificateRevoked>>
        /\ \A s \in Request \ {r} : pc'[s] = pc[s] /\ uploaded'[s] = uploaded[s]
    BY <1>10, <2>1 DEF uploadItem, uploadedOne, went
  <2>4. \A s \in Request \ {r} : receiptsTrue(s)'
    BY <2>2, <2>3, OtherReceipts DEF stored
  <2>5. receiptsTrue(r)'
    BY <2>2, <2>3 DEF ReceiptsAreTrue, receiptsTrue, stored, Running, Stage, Replacing,
      Unsent
  <2> QED
    BY <2>4, <2>5 DEF ReceiptsAreTrue
<1>11. ASSUME NEW r \in Request, predict(r) PROVE ReceiptsAreTrue'
  <2>1. \/ went(r, "broadcast", [local[r] EXCEPT !.predicted = nextCertificateId])
        \/ went(r, "failed", local[r])
    BY <1>11, Moves
  <2>2. /\ pc[r] = "predict" /\ pc'[r] \in {"broadcast", "failed"}
        /\ issueTx'[r] = issueTx[r] /\ revokeTx'[r] = revokeTx[r] /\ replaces'[r] = replaces[r]
    BY <2>1, <1>11 DEF predict, went
  <2>3. UNCHANGED <<anchoredBy, revokedBy, docs, uploaded, previousCertificateRevoked>>
        /\ \A s \in Request \ {r} : /\ pc'[s] = pc[s] /\ replaces'[s] = replaces[s]
                                 /\ issueTx'[s] = issueTx[s] /\ revokeTx'[s] = revokeTx[s]
    BY <2>1, <1>11 DEF predict, went
  <2>4. \A s \in Request \ {r} : receiptsTrue(s)'
    BY <2>2, <2>3, OtherReceipts DEF stored
  <2>5. receiptsTrue(r)'
    BY <2>2, <2>3 DEF ReceiptsAreTrue, receiptsTrue, stored, Running, Stage, Replacing,
      Unsent
  <2> QED
    BY <2>4, <2>5 DEF ReceiptsAreTrue
<1>12. ASSUME NEW r \in Request, broadcast(r) PROVE ReceiptsAreTrue'
  BY <1>12, Moves, OtherReceipts DEF broadcast, goTo, goWith, ReceiptsAreTrue,
    receiptsTrue, Unsent, went, stored, Running, Stage, Replacing
<1>13. ASSUME NEW r \in Request, confirm(r) PROVE ReceiptsAreTrue'
  BY <1>13, Went, Counters, OtherReceipts DEF confirm, goTo, Stage, went, goWith, stored,
    ReceiptsAreTrue, receiptsTrue, Running, Replacing, Unsent
<1>14. ASSUME NEW r \in Request, persistItem(r) PROVE ReceiptsAreTrue'
  <2> DEFINE k == local[r].persisted + 1
  <2> HIDE DEF TypeOK
  <2>1. k = local[r].persisted + 1 /\ persistedOne(r, k)
    BY <1>14, PersistedOne
  <2> HIDE DEF k
  <2>2. /\ uploaded[r][k] \in Hash /\ \A h \in Hash \ {uploaded[r][k]} : docs'[h] = docs[h]
        /\ \A s \in Request : \A i \in DOMAIN uploaded[s] :
             uploaded[s][i] = uploaded[r][k] => s = r /\ i = k
        /\ went(r, IF k < Len(uploaded[r]) THEN "persist"
                    ELSE IF replaces[r] = NoHash THEN "done" ELSE "revoke",
                 [local[r] EXCEPT !.persisted = k])
    BY <2>1 DEF persistedOne
  <2>3. /\ pc[r] = "persist" /\ pc'[r] \in {"persist", "done", "revoke"}
        /\ \A s \in Request \ {r} : pc'[s] = pc[s]
    BY <1>14, <2>2 DEF persistItem, went
  <2>4. UNCHANGED <<anchoredBy, revokedBy, issueTx, revokeTx, uploaded, replaces,
                    previousCertificateRevoked>>
    BY <1>14 DEF persistItem
  <2>5. ASSUME NEW s \in Request \ {r}, revokeTx[s] # "none"
        PROVE  docs'[uploaded[s][1]] = docs[uploaded[s][1]]
    BY <2>5, <2>2 DEF TypeOK, ReceiptsAreTrue, receiptsTrue
  <2>6. \A s \in Request \ {r} : receiptsTrue(s)'
    BY <2>3, <2>4, <2>5, OtherReceipts DEF stored
  <2>7. receiptsTrue(r)'
    BY <2>3, <2>4 DEF ReceiptsAreTrue, receiptsTrue, stored, Running, Stage, Replacing,
      Unsent
  <2> QED
    BY <2>6, <2>7 DEF ReceiptsAreTrue
<1>15. ASSUME NEW r \in Request, sendRevocation(r) PROVE ReceiptsAreTrue'
  BY <1>15, Moves, OtherReceipts, SoleSuccessor DEF sendRevocation, goTo, goWith,
    ReceiptsAreTrue, receiptsTrue, Replacing, went, stored, Running, Stage, Unsent
<1>16. ASSUME NEW r \in Request, confirmRevocation(r) PROVE ReceiptsAreTrue'
  BY <1>16, Went, Counters, OtherReceipts DEF confirmRevocation, goTo, Stage, went,
    goWith, stored, ReceiptsAreTrue, receiptsTrue, Running, Replacing, Unsent
<1>17. ASSUME NEW r \in Request, markCertificateAsReplaced(r) PROVE ReceiptsAreTrue'
  <2>1. /\ went(r, "done", local[r])
        /\ \A h \in Hash : docs'[h].replaces = docs[h].replaces /\ (stored(h)' <=> stored(h))
    BY <1>17, MarkedOne DEF stored
  <2>2. /\ pc[r] = "mark" /\ pc'[r] = "done" /\ \A s \in Request \ {r} : pc'[s] = pc[s]
        /\ previousCertificateRevoked' = [previousCertificateRevoked EXCEPT ![r] = TRUE]
        /\ UNCHANGED <<anchoredBy, revokedBy, issueTx, revokeTx, uploaded, replaces>>
    BY <1>17, <2>1 DEF markCertificateAsReplaced, went
  <2>3. \A s \in Request : revokeTx[s] # "none" => uploaded[s][1] \in Hash
    BY DEF ReceiptsAreTrue, receiptsTrue
  <2>4. \A s \in Request \ {r} : previousCertificateRevoked'[s] = previousCertificateRevoked[s]
    BY <2>2
  <2> HIDE DEF TypeOK
  <2>5. \A s \in Request \ {r} : receiptsTrue(s)'
    BY <2>1, <2>2, <2>3, <2>4, OtherReceipts
  <2>6. receiptsTrue(r)'
    BY <2>1, <2>2, <2>3 DEF ReceiptsAreTrue, receiptsTrue, Running, Stage, Replacing, Unsent
  <2> QED
    BY <2>5, <2>6 DEF ReceiptsAreTrue
<1>18. ASSUME NEW r \in Request, failRequest(r) PROVE ReceiptsAreTrue'
  BY <1>18, Went, Counters, OtherReceipts DEF failRequest, goTo, Stage, went, stored,
    ReceiptsAreTrue, receiptsTrue, Running, Replacing, Unsent
<1>19. ASSUME NEW r \in Request, failReplacing(r) PROVE ReceiptsAreTrue'
  BY <1>19, Went, Counters, OtherReceipts DEF failReplacing, goTo, Stage, went, stored,
    ReceiptsAreTrue, receiptsTrue, Running, Replacing, Unsent
<1>20. ASSUME NEW r \in Request, mineIssue(r) PROVE ReceiptsAreTrue'
  <2>1. issueTx[r] = "pending" /\ UNCHANGED <<revokeTx, docs, requestVars>>
    BY <1>20 DEF mineIssue
  <2>2. /\ \A s \in Request \ {r} : issueTx'[s] = issueTx[s]
        /\ revokedBy' = revokedBy
        /\ \A s \in Request : issueTx'[s] = "succeeded" =>
             \A i \in DOMAIN uploaded[s] : anchoredBy'[uploaded[s][i]] = Signer
    <3>0. \A s \in Request : issueTx[s] = "succeeded" =>
            \A i \in DOMAIN uploaded[s] :
              anchoredBy[uploaded[s][i]] = Signer /\ uploaded[s][i] \in Hash
      BY DEF ReceiptsAreTrue, receiptsTrue
    <3>1. CASE /\ issueTx' = [issueTx EXCEPT ![r] = "succeeded"]
               /\ anchoredTogether(Signer, uploaded[r]) /\ chainGrows
      BY <3>1, <3>0 DEF chainGrows, anchored, IssuanceAssumption, Account, anchoredTogether
    <3>2. CASE issueTx' = [issueTx EXCEPT ![r] = "reverted"] /\ UNCHANGED chainVars
      BY <3>0, <3>2
    <3> QED
      BY <1>20, <3>1, <3>2, AnchoringSteps
  <2> SUFFICES ASSUME NEW s \in Request PROVE receiptsTrue(s)'
    BY DEF ReceiptsAreTrue
  <2>3. receiptsTrue(s)
    BY DEF ReceiptsAreTrue
  <2>4. \A q \in Request :
          /\ revokeTx[s] = "succeeded" /\ revokeTx[q] = "succeeded"
          /\ replaces[s] = replaces[q]
          => s = q
    BY <2>3 DEF receiptsTrue
  <2> HIDE DEF TypeOK
  <2>5. s = r => revokeTx[s] = "none" /\ pc[s] \notin {"persist", "done"} \cup Replacing \cup Unsent
    BY <2>1, <2>3 DEF receiptsTrue
  <2> QED
    BY <2>1, <2>2, <2>3, <2>4, <2>5 DEF receiptsTrue, stored
<1>21. ASSUME NEW r \in Request, mineRevoke(r) PROVE ReceiptsAreTrue'
  BY <1>21 DEF mineRevoke, ReceiptsAreTrue, receiptsTrue, revocable, revoked,
    IssuanceAssumption, Account, stored
<1>22. ASSUME UNCHANGED vars PROVE ReceiptsAreTrue'
  BY <1>22 DEF vars, stored, ReceiptsAreTrue, receiptsTrue
<1> HIDE DEF ReceiptsAreTrue
<1> QED
  BY <1>1, <1>2, <1>3, <1>4, <1>5, <1>6, <1>7, <1>8, <1>9, <1>10, <1>11, <1>12, <1>13,
     <1>14, <1>15, <1>16, <1>17, <1>18, <1>19, <1>20, <1>21, <1>22 DEF Next, step

(* Between the staticCall and the transaction ids are only handed out.     *)
LEMMA StepPredictions ==
  ASSUME IssuanceAssumption, IInv, TypeOK', [Next]_vars
  PROVE  PredictionsAreLow'
<1>0. /\ TypeOK /\ IdsAreCounted /\ UploadsAreOwn /\ LoopsAreBounded /\ ReceiptsAreTrue
      /\ PredictionsAreLow /\ DocumentsAreReal /\ MakersAreKnown /\ DocumentsAreMade
      /\ MarksAreExplained
  BY DEF IInv
<1> USE <1>0, IssuanceAssumption DEF chainVars, txVars, outputVars, requestVars
<1>1. ASSUME verifyIssuer PROVE PredictionsAreLow'
  BY <1>1, IdsStay, PredictionKept DEF verifyIssuer, PredictionsAreLow
<1>2. ASSUME suspendIssuer PROVE PredictionsAreLow'
  BY <1>2, IdsStay, PredictionKept DEF suspendIssuer, PredictionsAreLow
<1>3. ASSUME issueElsewhere PROVE PredictionsAreLow'
  BY <1>3, AnchoringSteps, PredictionKept DEF issueElsewhere, PredictionsAreLow, chainGrows
<1>4. ASSUME NEW h \in Hash, revokeFromWallet(h) PROVE PredictionsAreLow'
  BY <1>4, IdsStay, PredictionKept DEF revokeFromWallet, PredictionsAreLow
<1>5. ASSUME crash PROVE PredictionsAreLow'
  BY <1>5, IdsStay, PredictionKept DEF crash, PredictionsAreLow, predictionLow
<1>6. ASSUME NEW r \in Request, NEW old \in Hash \cup {NoHash}, issueCertificate(r, old)
      PROVE PredictionsAreLow'
  <2>1. went(r, IF old = NoHash THEN "upload" ELSE "checkChain", asked(1, FALSE))
    BY <1>6, Moves
  <2>2. /\ UNCHANGED <<certificateId, nextCertificateId, uploaded>>
        /\ \A s \in Request \ {r} : /\ pc'[s] = pc[s] /\ local'[s] = local[s]
                                  /\ issueTx'[s] = issueTx[s]
    BY <2>1, <1>6 DEF issueCertificate, went, TypeOK
  <2>3. \A s \in Request \ {r} : predictionLow(s)'
    BY <2>2, IdsStay, PredictionKept
  <2>4. predictionLow(r)'
    BY <2>1, <2>2 DEF went, predictionLow
  <2> QED
    BY <2>3, <2>4 DEF PredictionsAreLow
<1>7. ASSUME NEW r \in Request, NEW n \in 1..MaxBatch, batchIssueCertificates(r, n)
      PROVE PredictionsAreLow'
  <2>1. went(r, "upload", asked(n, TRUE))
    BY <1>7, Moves
  <2>2. /\ UNCHANGED <<certificateId, nextCertificateId, uploaded>>
        /\ \A s \in Request \ {r} : /\ pc'[s] = pc[s] /\ local'[s] = local[s]
                                  /\ issueTx'[s] = issueTx[s]
    BY <2>1, <1>7 DEF batchIssueCertificates, went, TypeOK
  <2>3. \A s \in Request \ {r} : predictionLow(s)'
    BY <2>2, IdsStay, PredictionKept
  <2>4. predictionLow(r)'
    BY <2>1, <2>2 DEF went, predictionLow
  <2> QED
    BY <2>3, <2>4 DEF PredictionsAreLow
<1>8. ASSUME NEW r \in Request, checkChain(r) PROVE PredictionsAreLow'
  BY <1>8, Went, Counters, IdsStay, PredictionKept DEF checkChain, goTo, Stage, went,
    TypeOK, predictionLow, PredictionsAreLow
<1>9. ASSUME NEW r \in Request, checkDb(r) PROVE PredictionsAreLow'
  <2>1. went(r, "upload", local[r]) \/ went(r, "failed", local[r])
    BY <1>9, Went, Counters DEF checkDb, goTo, Stage
  <2>2. /\ UNCHANGED <<certificateId, nextCertificateId, uploaded>>
        /\ \A s \in Request \ {r} : /\ pc'[s] = pc[s] /\ local'[s] = local[s]
                                  /\ issueTx'[s] = issueTx[s]
    BY <2>1, <1>9 DEF checkDb, went, TypeOK
  <2>3. \A s \in Request \ {r} : predictionLow(s)'
    BY <2>2, IdsStay, PredictionKept
  <2>4. predictionLow(r)'
    BY <2>1, <2>2 DEF went, predictionLow
  <2> QED
    BY <2>3, <2>4 DEF PredictionsAreLow
<1>10. ASSUME NEW r \in Request, uploadItem(r) PROVE PredictionsAreLow'
  BY <1>10, UploadedOne, IdsStay, PredictionKept DEF uploadItem, uploadedOne, went,
    afterUpload, predictionLow, PredictionsAreLow
<1>11. ASSUME NEW r \in Request, predict(r) PROVE PredictionsAreLow'
  <2>1. \/ went(r, "broadcast", [local[r] EXCEPT !.predicted = nextCertificateId])
        \/ went(r, "failed", local[r])
    BY <1>11, Moves
  <2>2. /\ UNCHANGED <<certificateId, nextCertificateId, uploaded>>
        /\ \A s \in Request \ {r} : /\ pc'[s] = pc[s] /\ local'[s] = local[s]
                                  /\ issueTx'[s] = issueTx[s]
    BY <2>1, <1>11 DEF predict, went, TypeOK
  <2>3. \A s \in Request \ {r} : predictionLow(s)'
    BY <2>2, IdsStay, PredictionKept
  <2>4. predictionLow(r)'
    <3>1. \/ pc'[r] = "failed"
          \/ /\ pc'[r] = "broadcast" /\ local'[r].predicted = nextCertificateId
             /\ nextCertificateId \in Nat \ {0}
      BY <2>1, Counters DEF went, Locals, TypeOK
    <3> QED
      BY <2>2, <3>1 DEF predictionLow
  <2> QED
    BY <2>3, <2>4 DEF PredictionsAreLow
<1>12. ASSUME NEW r \in Request, broadcast(r) PROVE PredictionsAreLow'
  <2>1. went(r, "confirm", local[r]) \/ went(r, "failed", local[r])
    BY <1>12, Moves
  <2>2. /\ UNCHANGED <<certificateId, nextCertificateId, uploaded>>
        /\ \A s \in Request \ {r} : /\ pc'[s] = pc[s] /\ local'[s] = local[s]
                                  /\ issueTx'[s] = issueTx[s]
    BY <2>1, <1>12 DEF broadcast, went, TypeOK
  <2>3. \A s \in Request \ {r} : predictionLow(s)'
    BY <2>2, IdsStay, PredictionKept
  <2>4. predictionLow(r)'
    BY <2>1, <1>12, <2>2 DEF broadcast, goTo, goWith, TypeOK, PredictionsAreLow,
      predictionLow
  <2> QED
    BY <2>3, <2>4 DEF PredictionsAreLow
<1>13. ASSUME NEW r \in Request, confirm(r) PROVE PredictionsAreLow'
  BY <1>13, Went, Counters, IdsStay, PredictionKept DEF confirm, goTo, Stage, went,
    TypeOK, goWith, PredictionsAreLow, predictionLow
<1>14. ASSUME NEW r \in Request, persistItem(r) PROVE PredictionsAreLow'
  <2> DEFINE k == local[r].persisted + 1
  <2>1. k = local[r].persisted + 1 /\ persistedOne(r, k)
    BY <1>14, PersistedOne
  <2> HIDE DEF k
  <2> DEFINE l == [local[r] EXCEPT !.persisted = k]
  <2>2. /\ went(r, IF k < Len(uploaded[r]) THEN "persist"
                    ELSE IF replaces[r] = NoHash THEN "done" ELSE "revoke", l)
        /\ l.predicted = local[r].predicted
    BY <2>1 DEF persistedOne
  <2> HIDE DEF l
  <2>3. /\ UNCHANGED <<certificateId, nextCertificateId, issueTx, uploaded>> /\ pc[r] = "persist"
        /\ \A s \in Request \ {r} : pc'[s] = pc[s] /\ local'[s] = local[s]
    BY <2>2, <1>14 DEF persistItem, went
  <2>4. \A s \in Request \ {r} : predictionLow(s)'
    BY <2>3, IdsStay, PredictionKept
  <2>5. predictionLow(r)'
    BY <2>2, <2>3 DEF went, PredictionsAreLow, predictionLow
  <2> QED
    BY <2>4, <2>5 DEF PredictionsAreLow
<1>15. ASSUME NEW r \in Request, sendRevocation(r) PROVE PredictionsAreLow'
  <2>1. went(r, "confirmRevoke", local[r]) \/ went(r, "done", local[r])
    BY <1>15, Moves
  <2>2. /\ UNCHANGED <<certificateId, nextCertificateId, uploaded>>
        /\ \A s \in Request \ {r} : /\ pc'[s] = pc[s] /\ local'[s] = local[s]
                                  /\ issueTx'[s] = issueTx[s]
    BY <2>1, <1>15 DEF sendRevocation, went, TypeOK
  <2>3. \A s \in Request \ {r} : predictionLow(s)'
    BY <2>2, IdsStay, PredictionKept
  <2>4. predictionLow(r)'
    BY <2>1, <2>2 DEF went, predictionLow
  <2> QED
    BY <2>3, <2>4 DEF PredictionsAreLow
<1>16. ASSUME NEW r \in Request, confirmRevocation(r) PROVE PredictionsAreLow'
  <2>1. went(r, "mark", local[r]) \/ went(r, "done", local[r])
    BY <1>16, Went, Counters DEF confirmRevocation, goTo, Stage
  <2>2. /\ UNCHANGED <<certificateId, nextCertificateId, uploaded>>
        /\ \A s \in Request \ {r} : /\ pc'[s] = pc[s] /\ local'[s] = local[s]
                                  /\ issueTx'[s] = issueTx[s]
    BY <2>1, <1>16 DEF confirmRevocation, went, TypeOK
  <2>3. \A s \in Request \ {r} : predictionLow(s)'
    BY <2>2, IdsStay, PredictionKept
  <2>4. predictionLow(r)'
    BY <2>1, <2>2 DEF went, predictionLow
  <2> QED
    BY <2>3, <2>4 DEF PredictionsAreLow
<1>17. ASSUME NEW r \in Request, markCertificateAsReplaced(r) PROVE PredictionsAreLow'
  <2>1. went(r, "done", local[r])
    BY <1>17, MarkedOne
  <2>2. /\ UNCHANGED <<certificateId, nextCertificateId, issueTx, uploaded>>
        /\ pc'[r] = "done"
        /\ \A s \in Request \ {r} : pc'[s] = pc[s] /\ local'[s] = local[s]
    BY <2>1, <1>17 DEF markCertificateAsReplaced, went
  <2>3. \A s \in Request \ {r} : predictionLow(s)'
    BY <2>2, IdsStay, PredictionKept
  <2>4. predictionLow(r)'
    BY <2>2 DEF predictionLow
  <2> QED
    BY <2>3, <2>4 DEF PredictionsAreLow
<1>18. ASSUME NEW r \in Request, failRequest(r) PROVE PredictionsAreLow'
  <2>1. went(r, "failed", local[r])
    BY <1>18, Went, Counters DEF failRequest, goTo, Stage
  <2>2. /\ UNCHANGED <<certificateId, nextCertificateId, uploaded>>
        /\ \A s \in Request \ {r} : /\ pc'[s] = pc[s] /\ local'[s] = local[s]
                                  /\ issueTx'[s] = issueTx[s]
    BY <2>1, <1>18 DEF failRequest, went, TypeOK
  <2>3. \A s \in Request \ {r} : predictionLow(s)'
    BY <2>2, IdsStay, PredictionKept
  <2>4. predictionLow(r)'
    BY <2>1, <2>2 DEF went, predictionLow
  <2> QED
    BY <2>3, <2>4 DEF PredictionsAreLow
<1>19. ASSUME NEW r \in Request, failReplacing(r) PROVE PredictionsAreLow'
  <2>1. went(r, "done", local[r])
    BY <1>19, Went, Counters DEF failReplacing, goTo, Stage
  <2>2. /\ UNCHANGED <<certificateId, nextCertificateId, uploaded>>
        /\ \A s \in Request \ {r} : /\ pc'[s] = pc[s] /\ local'[s] = local[s]
                                  /\ issueTx'[s] = issueTx[s]
    BY <2>1, <1>19 DEF failReplacing, went, TypeOK
  <2>3. \A s \in Request \ {r} : predictionLow(s)'
    BY <2>2, IdsStay, PredictionKept
  <2>4. predictionLow(r)'
    BY <2>1, <2>2 DEF went, predictionLow
  <2> QED
    BY <2>3, <2>4 DEF PredictionsAreLow
<1>20. ASSUME NEW r \in Request, mineIssue(r) PROVE PredictionsAreLow'
  <2>1. issueTx[r] = "pending" /\ UNCHANGED <<revokeTx, docs, requestVars>>
        /\ \A s \in Request \ {r} : issueTx'[s] = issueTx[s]
    BY <1>20 DEF mineIssue, TypeOK
  <2>2. /\ nextCertificateId <= nextCertificateId' /\ nextCertificateId' \in Nat
        /\ \A h \in Hash : anchored(h) => certificateId'[h] = certificateId[h]
    BY <1>20, AnchoringSteps, IdsStay DEF chainGrows
  <2>3. \A s \in Request \ {r} : predictionLow(s)'
    BY <2>1, <2>2, PredictionKept
  <2>4. predictionLow(r)'
    <3>1. predictionLow(r) /\ pc[r] \notin {"broadcast", "persist"}
      BY <2>1 DEF PredictionsAreLow, ReceiptsAreTrue, receiptsTrue, Unsent
    <3>2. CASE issueTx'[r] = "succeeded"
      <4>1. anchoredTogether(Signer, uploaded[r])
        BY <1>20, <3>2, AnchoringSteps DEF TypeOK
      <4>2. local[r].predicted \in Nat /\ nextCertificateId \in Nat
        BY Counters DEF TypeOK, Locals
      <4>3. \A i \in DOMAIN uploaded[r] : i \in Nat
        BY DEF TypeOK
      <4>4. pc[r] = "confirm" => local[r].predicted <= nextCertificateId
        BY <2>1, <3>1 DEF predictionLow
      <4>5. \A i \in DOMAIN uploaded[r] : certificateId'[uploaded[r][i]] = nextCertificateId + i - 1
        BY <4>1 DEF anchoredTogether
      <4>6. pc[r] = "confirm" => \A i \in DOMAIN uploaded[r] :
              local[r].predicted + i - 1 <= certificateId'[uploaded[r][i]]
        BY <4>2, <4>3, <4>4, <4>5
      <4> QED
        BY <2>1, <3>1, <3>2, <4>6 DEF predictionLow
    <3>3. CASE issueTx'[r] = "reverted"
      BY <2>1, <3>1, <3>3 DEF predictionLow
    <3> QED
      BY <1>20, <3>2, <3>3, AnchoringSteps DEF TypeOK
  <2> QED
    BY <2>3, <2>4 DEF PredictionsAreLow
<1>21. ASSUME NEW r \in Request, mineRevoke(r) PROVE PredictionsAreLow'
  BY <1>21, IdsStay, PredictionKept DEF mineRevoke, PredictionsAreLow
<1>22. ASSUME UNCHANGED vars PROVE PredictionsAreLow'
  BY <1>22 DEF vars, stored, PredictionsAreLow, predictionLow
<1> HIDE DEF PredictionsAreLow
<1> QED
  BY <1>1, <1>2, <1>3, <1>4, <1>5, <1>6, <1>7, <1>8, <1>9, <1>10, <1>11, <1>12, <1>13,
     <1>14, <1>15, <1>16, <1>17, <1>18, <1>19, <1>20, <1>21, <1>22 DEF Next, step

(* A document is stored after its receipt, with its predicted id.          *)
LEMMA StepDocumentsReal ==
  ASSUME IssuanceAssumption, IInv, TypeOK', [Next]_vars
  PROVE  DocumentsAreReal'
<1>0. /\ TypeOK /\ IdsAreCounted /\ UploadsAreOwn /\ LoopsAreBounded /\ ReceiptsAreTrue
      /\ PredictionsAreLow /\ DocumentsAreReal /\ MakersAreKnown /\ DocumentsAreMade
      /\ MarksAreExplained
  BY DEF IInv
<1> USE <1>0, IssuanceAssumption DEF chainVars, txVars, outputVars, requestVars
<1>1. ASSUME verifyIssuer PROVE DocumentsAreReal'
  BY <1>1, RealKept DEF verifyIssuer, DocumentsAreReal
<1>2. ASSUME suspendIssuer PROVE DocumentsAreReal'
  BY <1>2, RealKept DEF suspendIssuer, DocumentsAreReal
<1>3. ASSUME issueElsewhere PROVE DocumentsAreReal'
  BY <1>3, AnchoringSteps, RealKept DEF issueElsewhere, DocumentsAreReal, chainGrows
<1>4. ASSUME NEW h \in Hash, revokeFromWallet(h) PROVE DocumentsAreReal'
  BY <1>4, RealKept DEF revokeFromWallet, DocumentsAreReal
<1>5. ASSUME crash PROVE DocumentsAreReal'
  BY <1>5, RealKept DEF crash, DocumentsAreReal
<1>6. ASSUME NEW r \in Request, NEW old \in Hash \cup {NoHash}, issueCertificate(r, old)
      PROVE DocumentsAreReal'
  BY <1>6, RealKept DEF issueCertificate, DocumentsAreReal
<1>7. ASSUME NEW r \in Request, NEW n \in 1..MaxBatch, batchIssueCertificates(r, n)
      PROVE DocumentsAreReal'
  BY <1>7, RealKept DEF batchIssueCertificates, DocumentsAreReal
<1>8. ASSUME NEW r \in Request, checkChain(r) PROVE DocumentsAreReal'
  BY <1>8, RealKept DEF checkChain, DocumentsAreReal
<1>9. ASSUME NEW r \in Request, checkDb(r) PROVE DocumentsAreReal'
  BY <1>9, RealKept DEF checkDb, DocumentsAreReal
<1>10. ASSUME NEW r \in Request, uploadItem(r) PROVE DocumentsAreReal'
  BY <1>10, RealKept DEF uploadItem, DocumentsAreReal
<1>11. ASSUME NEW r \in Request, predict(r) PROVE DocumentsAreReal'
  BY <1>11, RealKept DEF predict, DocumentsAreReal
<1>12. ASSUME NEW r \in Request, broadcast(r) PROVE DocumentsAreReal'
  BY <1>12, RealKept DEF broadcast, DocumentsAreReal
<1>13. ASSUME NEW r \in Request, confirm(r) PROVE DocumentsAreReal'
  BY <1>13, RealKept DEF confirm, DocumentsAreReal
<1>14. ASSUME NEW r \in Request, persistItem(r) PROVE DocumentsAreReal'
  <2> DEFINE k == local[r].persisted + 1
  <2>1. k = local[r].persisted + 1 /\ persistedOne(r, k)
    BY <1>14, PersistedOne
  <2> HIDE DEF k
  <2>2. /\ k \in DOMAIN uploaded[r] /\ k \in Nat \ {0} /\ uploaded[r][k] \in Hash
        /\ docs'[uploaded[r][k]] = document(r, k)
        /\ \A h \in Hash \ {uploaded[r][k]} : docs'[h] = docs[h]
    BY <2>1 DEF persistedOne
  <2>3. UNCHANGED <<anchoredBy, certificateId>> /\ pc[r] = "persist"
    BY <1>14 DEF persistItem
  <2>4. \A h \in Hash \ {uploaded[r][k]} :
          stored(h)' => anchoredBy'[h] = Signer /\ docs'[h].certificateId \in 1..certificateId'[h]
    BY <2>2, <2>3, RealKept
  <2>5. /\ anchoredBy[uploaded[r][k]] = Signer
        /\ document(r, k).certificateId \in 1..certificateId[uploaded[r][k]]
    <3>1. issueTx[r] = "succeeded"
      BY <2>3 DEF ReceiptsAreTrue, receiptsTrue
    <3>2. anchoredBy[uploaded[r][k]] = Signer
      BY <2>2, <3>1 DEF ReceiptsAreTrue, receiptsTrue
    <3>3. local[r].predicted >= 1 /\ local[r].predicted + k - 1 <= certificateId[uploaded[r][k]]
      BY <2>2, <2>3, <3>1 DEF PredictionsAreLow, predictionLow
    <3>4. local[r].predicted \in Nat /\ certificateId[uploaded[r][k]] \in Nat
      BY <2>2, Counters DEF Locals, TypeOK
    <3>5. document(r, k).certificateId = local[r].predicted + k - 1
      BY DEF document
    <3>6. local[r].predicted + k - 1 \in 1..certificateId[uploaded[r][k]]
      BY <2>2, <3>3, <3>4
    <3> QED
      BY <3>2, <3>5, <3>6
  <2> QED
    BY <2>2, <2>3, <2>4, <2>5 DEF DocumentsAreReal
<1>15. ASSUME NEW r \in Request, sendRevocation(r) PROVE DocumentsAreReal'
  BY <1>15, RealKept DEF sendRevocation, DocumentsAreReal
<1>16. ASSUME NEW r \in Request, confirmRevocation(r) PROVE DocumentsAreReal'
  BY <1>16, RealKept DEF confirmRevocation, DocumentsAreReal
<1>17. ASSUME NEW r \in Request, markCertificateAsReplaced(r) PROVE DocumentsAreReal'
  BY <1>17, MarkedOne, RealKept DEF markCertificateAsReplaced, DocumentsAreReal
<1>18. ASSUME NEW r \in Request, failRequest(r) PROVE DocumentsAreReal'
  BY <1>18, RealKept DEF failRequest, DocumentsAreReal
<1>19. ASSUME NEW r \in Request, failReplacing(r) PROVE DocumentsAreReal'
  BY <1>19, RealKept DEF failReplacing, DocumentsAreReal
<1>20. ASSUME NEW r \in Request, mineIssue(r) PROVE DocumentsAreReal'
  BY <1>20, AnchoringSteps, RealKept DEF mineIssue, DocumentsAreReal, chainGrows
<1>21. ASSUME NEW r \in Request, mineRevoke(r) PROVE DocumentsAreReal'
  BY <1>21, RealKept DEF mineRevoke, DocumentsAreReal
<1>22. ASSUME UNCHANGED vars PROVE DocumentsAreReal'
  BY <1>22 DEF vars, stored, DocumentsAreReal
<1> HIDE DEF DocumentsAreReal
<1> QED
  BY <1>1, <1>2, <1>3, <1>4, <1>5, <1>6, <1>7, <1>8, <1>9, <1>10, <1>11, <1>12, <1>13,
     <1>14, <1>15, <1>16, <1>17, <1>18, <1>19, <1>20, <1>21, <1>22 DEF Next, step

(* A document is stored by the request that uploaded its hash.             *)
LEMMA StepMakers ==
  ASSUME IssuanceAssumption, IInv, TypeOK', [Next]_vars
  PROVE  MakersAreKnown'
<1>0. /\ TypeOK /\ IdsAreCounted /\ UploadsAreOwn /\ LoopsAreBounded /\ ReceiptsAreTrue
      /\ PredictionsAreLow /\ DocumentsAreReal /\ MakersAreKnown /\ DocumentsAreMade
      /\ MarksAreExplained
  BY DEF IInv
<1> USE <1>0, IssuanceAssumption DEF chainVars, txVars, outputVars, requestVars
<1>1. ASSUME verifyIssuer PROVE MakersAreKnown'
  BY <1>1, MakersKept DEF verifyIssuer, stored
<1>2. ASSUME suspendIssuer PROVE MakersAreKnown'
  BY <1>2, MakersKept DEF suspendIssuer, stored
<1>3. ASSUME issueElsewhere PROVE MakersAreKnown'
  BY <1>3, MakersKept DEF issueElsewhere, stored
<1>4. ASSUME NEW h \in Hash, revokeFromWallet(h) PROVE MakersAreKnown'
  BY <1>4, MakersKept DEF revokeFromWallet, stored
<1>5. ASSUME crash PROVE MakersAreKnown'
  BY <1>5, MakersKept DEF crash, stored
<1>6. ASSUME NEW r \in Request, NEW old \in Hash \cup {NoHash}, issueCertificate(r, old)
      PROVE MakersAreKnown'
  BY <1>6, MakersKept DEF issueCertificate, stored
<1>7. ASSUME NEW r \in Request, NEW n \in 1..MaxBatch, batchIssueCertificates(r, n)
      PROVE MakersAreKnown'
  BY <1>7, MakersKept DEF batchIssueCertificates, stored
<1>8. ASSUME NEW r \in Request, checkChain(r) PROVE MakersAreKnown'
  BY <1>8, MakersKept DEF checkChain, stored
<1>9. ASSUME NEW r \in Request, checkDb(r) PROVE MakersAreKnown'
  BY <1>9, MakersKept DEF checkDb, stored
<1>10. ASSUME NEW r \in Request, uploadItem(r) PROVE MakersAreKnown'
  BY <1>10, UploadedOne DEF uploadItem, uploadedOne, stored, MakersAreKnown
<1>11. ASSUME NEW r \in Request, predict(r) PROVE MakersAreKnown'
  BY <1>11, MakersKept DEF predict, stored
<1>12. ASSUME NEW r \in Request, broadcast(r) PROVE MakersAreKnown'
  BY <1>12, MakersKept DEF broadcast, stored
<1>13. ASSUME NEW r \in Request, confirm(r) PROVE MakersAreKnown'
  BY <1>13, MakersKept DEF confirm, stored
<1>14. ASSUME NEW r \in Request, persistItem(r) PROVE MakersAreKnown'
  <2> DEFINE k == local[r].persisted + 1
  <2>1. k = local[r].persisted + 1 /\ persistedOne(r, k)
    BY <1>14, PersistedOne
  <2> HIDE DEF k
  <2>2. UNCHANGED uploaded
    BY <1>14 DEF persistItem
  <2>3. k \in DOMAIN uploaded[r] /\ \A h \in Hash \ {uploaded[r][k]} : docs'[h] = docs[h]
    BY <2>1 DEF persistedOne
  <2> QED
    BY <2>2, <2>3 DEF MakersAreKnown, stored
<1>15. ASSUME NEW r \in Request, sendRevocation(r) PROVE MakersAreKnown'
  BY <1>15, MakersKept DEF sendRevocation, stored
<1>16. ASSUME NEW r \in Request, confirmRevocation(r) PROVE MakersAreKnown'
  BY <1>16, MakersKept DEF confirmRevocation, stored
<1>17. ASSUME NEW r \in Request, markCertificateAsReplaced(r) PROVE MakersAreKnown'
  BY <1>17, MarkedOne, MakersKept DEF markCertificateAsReplaced, stored
<1>18. ASSUME NEW r \in Request, failRequest(r) PROVE MakersAreKnown'
  BY <1>18, MakersKept DEF failRequest, stored
<1>19. ASSUME NEW r \in Request, failReplacing(r) PROVE MakersAreKnown'
  BY <1>19, MakersKept DEF failReplacing, stored
<1>20. ASSUME NEW r \in Request, mineIssue(r) PROVE MakersAreKnown'
  BY <1>20, MakersKept DEF mineIssue, stored
<1>21. ASSUME NEW r \in Request, mineRevoke(r) PROVE MakersAreKnown'
  BY <1>21, MakersKept DEF mineRevoke, stored
<1>22. ASSUME UNCHANGED vars PROVE MakersAreKnown'
  BY <1>22 DEF vars, stored, MakersAreKnown
<1> HIDE DEF MakersAreKnown
<1> QED
  BY <1>1, <1>2, <1>3, <1>4, <1>5, <1>6, <1>7, <1>8, <1>9, <1>10, <1>11, <1>12, <1>13,
     <1>14, <1>15, <1>16, <1>17, <1>18, <1>19, <1>20, <1>21, <1>22 DEF Next, step

(* Documents are made one by one, in the order of the uploads.             *)
LEMMA StepDocumentsMade ==
  ASSUME IssuanceAssumption, IInv, TypeOK', [Next]_vars
  PROVE  DocumentsAreMade'
<1>0. /\ TypeOK /\ IdsAreCounted /\ UploadsAreOwn /\ LoopsAreBounded /\ ReceiptsAreTrue
      /\ PredictionsAreLow /\ DocumentsAreReal /\ MakersAreKnown /\ DocumentsAreMade
      /\ MarksAreExplained
  BY DEF IInv
<1> USE <1>0, IssuanceAssumption DEF chainVars, txVars, outputVars, requestVars
<1>1. ASSUME verifyIssuer PROVE DocumentsAreMade'
  BY <1>1, MadeKept DEF verifyIssuer, DocumentsAreMade, stored
<1>2. ASSUME suspendIssuer PROVE DocumentsAreMade'
  BY <1>2, MadeKept DEF suspendIssuer, DocumentsAreMade, stored
<1>3. ASSUME issueElsewhere PROVE DocumentsAreMade'
  BY <1>3, MadeKept DEF issueElsewhere, DocumentsAreMade, stored
<1>4. ASSUME NEW h \in Hash, revokeFromWallet(h) PROVE DocumentsAreMade'
  BY <1>4, MadeKept DEF revokeFromWallet, DocumentsAreMade, stored
<1>5. ASSUME crash PROVE DocumentsAreMade'
  BY <1>5, MadeKept DEF crash, Running, stored, DocumentsAreMade
<1>6. ASSUME NEW r \in Request, NEW old \in Hash \cup {NoHash}, issueCertificate(r, old)
      PROVE DocumentsAreMade'
  <2>1. went(r, IF old = NoHash THEN "upload" ELSE "checkChain", asked(1, FALSE))
    BY <1>6, Moves
  <2>2. /\ UNCHANGED <<docs, uploaded>> /\ pc[r] = "idle"
        /\ \A s \in Request \ {r} : /\ pc'[s] = pc[s] /\ local'[s] = local[s]
                                  /\ replaces'[s] = replaces[s]
    BY <2>1, <1>6 DEF issueCertificate, went, TypeOK
  <2>3. \A s \in Request \ {r} : documentsMade(s)'
    BY <2>2, MadeKept DEF stored
  <2>4. DOMAIN uploaded'[r] = {}
    BY <2>2 DEF LoopsAreBounded, loopBounded
  <2>5. documentsMade(r)'
    BY <2>4 DEF documentsMade
  <2> QED
    BY <2>3, <2>5 DEF DocumentsAreMade
<1>7. ASSUME NEW r \in Request, NEW n \in 1..MaxBatch, batchIssueCertificates(r, n)
      PROVE DocumentsAreMade'
  <2>1. went(r, "upload", asked(n, TRUE))
    BY <1>7, Moves
  <2>2. /\ UNCHANGED <<docs, uploaded>> /\ pc[r] = "idle"
        /\ \A s \in Request \ {r} : /\ pc'[s] = pc[s] /\ local'[s] = local[s]
                                  /\ replaces'[s] = replaces[s]
    BY <2>1, <1>7 DEF batchIssueCertificates, went, TypeOK
  <2>3. \A s \in Request \ {r} : documentsMade(s)'
    BY <2>2, MadeKept DEF stored
  <2>4. DOMAIN uploaded'[r] = {}
    BY <2>2 DEF LoopsAreBounded, loopBounded
  <2>5. documentsMade(r)'
    BY <2>4 DEF documentsMade
  <2> QED
    BY <2>3, <2>5 DEF DocumentsAreMade
<1>8. ASSUME NEW r \in Request, checkChain(r) PROVE DocumentsAreMade'
  <2>1. went(r, "checkDb", local[r]) \/ went(r, "failed", local[r])
    BY <1>8, Went, Counters DEF checkChain, goTo, Stage
  <2>2. /\ UNCHANGED <<docs, uploaded, replaces>>
        /\ \A s \in Request \ {r} : pc'[s] = pc[s] /\ local'[s] = local[s]
    BY <2>1, <1>8 DEF checkChain, went
  <2>3. /\ pc'[r] = "done" => pc[r] \in Replacing \cup {"done"}
        /\ pc'[r] \in Running => pc[r] \in Running /\ local'[r].persisted = local[r].persisted
    BY <2>1, <1>8, Counters DEF checkChain, went, Locals, Running, Stage, Replacing
  <2>4. \A s \in Request : documentsMade(s)'
    BY <2>2, <2>3, MadeKept DEF stored
  <2> QED
    BY <2>4 DEF DocumentsAreMade
<1>9. ASSUME NEW r \in Request, checkDb(r) PROVE DocumentsAreMade'
  <2>1. went(r, "upload", local[r]) \/ went(r, "failed", local[r])
    BY <1>9, Went, Counters DEF checkDb, goTo, Stage
  <2>2. /\ UNCHANGED <<docs, uploaded, replaces>>
        /\ \A s \in Request \ {r} : pc'[s] = pc[s] /\ local'[s] = local[s]
    BY <2>1, <1>9 DEF checkDb, went
  <2>3. /\ pc'[r] = "done" => pc[r] \in Replacing \cup {"done"}
        /\ pc'[r] \in Running => pc[r] \in Running /\ local'[r].persisted = local[r].persisted
    BY <2>1, <1>9, Counters DEF checkDb, went, Locals, Running, Stage, Replacing
  <2>4. \A s \in Request : documentsMade(s)'
    BY <2>2, <2>3, MadeKept DEF stored
  <2> QED
    BY <2>4 DEF DocumentsAreMade
<1>10. ASSUME NEW r \in Request, uploadItem(r) PROVE DocumentsAreMade'
  <2>1. uploadedOne(r)
    BY <1>10, UploadedOne
  <2>2. UNCHANGED <<docs, replaces>> /\ pc[r] = "upload" /\ pc[r] \in Running
    BY <1>10 DEF uploadItem, Running, Stage
  <2>3. \A s \in Request \ {r} : documentsMade(s)'
    BY <2>1, <2>2, MadeKept DEF uploadedOne, went, stored
  <2>4. /\ pc'[r] # "done"
        /\ pc'[r] \in Running => local'[r].persisted = 0
    BY <2>1, <2>2 DEF uploadedOne, went, afterUpload, LoopsAreBounded, loopBounded,
      Unsent, Running
  <2>5. \A i \in DOMAIN uploaded[r] : ~stored(uploaded[r][i])
    <3>1. local[r].persisted = 0 /\ documentsMade(r)
      BY <2>2 DEF LoopsAreBounded, loopBounded, Unsent, DocumentsAreMade
    <3>2. \A i \in DOMAIN uploaded[r] : ~(i <= 0)
      BY DEF TypeOK
    <3> QED
      BY <2>2, <3>1, <3>2 DEF documentsMade
  <2>6. ~stored(<<r, local[r].handled + 1>>)
    BY <2>1, <2>2, Counters DEF uploadedOne, Hash, IssuanceAssumption, MakersAreKnown,
      UploadsAreOwn, ownUploads
  <2>7. documentsMade(r)'
    <3>1. \A i \in DOMAIN uploaded'[r] : ~stored(uploaded[r][i])'
      BY <2>1, <2>5, <2>6, <2>2 DEF uploadedOne, stored
    <3>2. \A i \in DOMAIN uploaded'[r] : ~(i <= 0)
      BY DEF TypeOK
    <3> QED
      BY <2>4, <3>1, <3>2 DEF documentsMade
  <2> QED
    BY <2>3, <2>7 DEF DocumentsAreMade
<1>11. ASSUME NEW r \in Request, predict(r) PROVE DocumentsAreMade'
  <2>1. \/ went(r, "broadcast", [local[r] EXCEPT !.predicted = nextCertificateId])
        \/ went(r, "failed", local[r])
    BY <1>11, Moves
  <2>2. /\ UNCHANGED <<docs, uploaded, replaces>>
        /\ \A s \in Request \ {r} : pc'[s] = pc[s] /\ local'[s] = local[s]
    BY <2>1, <1>11 DEF predict, went
  <2>3. /\ pc'[r] = "done" => pc[r] \in Replacing \cup {"done"}
        /\ pc'[r] \in Running => pc[r] \in Running /\ local'[r].persisted = local[r].persisted
    BY <2>1, <1>11, Counters DEF predict, went, Locals, Running, Stage, Replacing
  <2>4. \A s \in Request : documentsMade(s)'
    BY <2>2, <2>3, MadeKept DEF stored
  <2> QED
    BY <2>4 DEF DocumentsAreMade
<1>12. ASSUME NEW r \in Request, broadcast(r) PROVE DocumentsAreMade'
  BY <1>12, Moves, Counters, MadeKept DEF broadcast, went, Locals, Running, Stage,
    Replacing, stored, DocumentsAreMade
<1>13. ASSUME NEW r \in Request, confirm(r) PROVE DocumentsAreMade'
  <2>1. went(r, "persist", local[r]) \/ went(r, "failed", local[r])
    BY <1>13, Went, Counters DEF confirm, goTo, Stage
  <2>2. /\ UNCHANGED <<docs, uploaded, replaces>>
        /\ \A s \in Request \ {r} : pc'[s] = pc[s] /\ local'[s] = local[s]
    BY <2>1, <1>13 DEF confirm, went
  <2>3. /\ pc'[r] = "done" => pc[r] \in Replacing \cup {"done"}
        /\ pc'[r] \in Running => pc[r] \in Running /\ local'[r].persisted = local[r].persisted
    BY <2>1, <1>13, Counters DEF confirm, went, Locals, Running, Stage, Replacing
  <2>4. \A s \in Request : documentsMade(s)'
    BY <2>2, <2>3, MadeKept DEF stored
  <2> QED
    BY <2>4 DEF DocumentsAreMade
<1>14. ASSUME NEW r \in Request, persistItem(r) PROVE DocumentsAreMade'
  <2> DEFINE k == local[r].persisted + 1
  <2>1. k = local[r].persisted + 1 /\ persistedOne(r, k)
    BY <1>14, PersistedOne
  <2> HIDE DEF k
  <2>2. /\ k \in DOMAIN uploaded[r] /\ uploaded[r][k] \in Hash
        /\ docs'[uploaded[r][k]] = document(r, k)
        /\ \A h \in Hash \ {uploaded[r][k]} : docs'[h] = docs[h]
        /\ \A s \in Request : \A i \in DOMAIN uploaded[s] :
             uploaded[s][i] = uploaded[r][k] => s = r /\ i = k
    BY <2>1 DEF persistedOne
  <2> DEFINE l == [local[r] EXCEPT !.persisted = k]
  <2>3. /\ went(r, IF k < Len(uploaded[r]) THEN "persist"
                    ELSE IF replaces[r] = NoHash THEN "done" ELSE "revoke", l)
        /\ l.persisted = k
    BY <2>1 DEF persistedOne
  <2> HIDE DEF l
  <2>4. /\ UNCHANGED <<uploaded, replaces>> /\ pc[r] = "persist" /\ pc[r] \in Running
        /\ \A s \in Request \ {r} : pc'[s] = pc[s] /\ local'[s] = local[s]
    BY <2>3, <1>14 DEF persistItem, went, Running, Stage
  <2>5. \A s \in Request : \A i \in DOMAIN uploaded[s] : uploaded[s][i] \in Hash
    BY DEF TypeOK
  <2>6. \A s \in Request \ {r} : documentsMade(s)'
    BY <2>2, <2>5, <2>4, MadeKept DEF stored
  <2>7. docs'[uploaded[r][k]] # NoDoc /\ docs'[uploaded[r][k]].replaces = replaces[r]
    <3>1. document(r, k).replaces = replaces[r]
      BY DEF document
    <3>2. issueTx[r] = "succeeded"
      BY <2>4 DEF ReceiptsAreTrue, receiptsTrue
    <3>3. local[r].predicted >= 1 /\ local[r].predicted \in Nat /\ k \in Nat \ {0}
      BY <2>1, <2>4, <3>2, Counters DEF PredictionsAreLow, predictionLow, Locals,
         persistedOne
    <3>4. local[r].predicted + k - 1 # 0
      BY <3>3
    <3>5. document(r, k).certificateId # NoDoc.certificateId
      BY <3>4 DEF document, NoDoc
    <3> QED
      BY <2>2, <3>1, <3>5
  <2>8. documentsMade(r)'
    <3>1. documentsMade(r) /\ \A i \in DOMAIN uploaded[r] : i \in 1..Len(uploaded[r])
      BY DEF DocumentsAreMade, TypeOK
    <3>2. k = local[r].persisted + 1 /\ local[r].persisted \in Nat /\ Len(uploaded[r]) \in Nat
      BY <2>1, Counters
    <3>3. ASSUME NEW i \in DOMAIN uploaded[r]
          PROVE  /\ stored(uploaded[r][i])' <=> i <= k
                 /\ i <= k => docs'[uploaded[r][i]].replaces = replaces[r]
      <4>1. CASE i = k
        <5>1. docs'[uploaded[r][i]] # NoDoc /\ docs'[uploaded[r][i]].replaces = replaces[r]
          BY <2>7, <4>1
        <5>2. i <= k
          BY <3>2, <4>1
        <5> QED
          BY <2>4, <5>1, <5>2 DEF stored
      <4>2. CASE i # k
        <5>1. docs'[uploaded[r][i]] = docs[uploaded[r][i]]
          BY <2>2, <2>5, <4>2
        <5>2. i <= k <=> i <= local[r].persisted
          BY <3>1, <3>2, <4>2
        <5> QED
          BY <2>4, <3>1, <5>1, <5>2 DEF documentsMade, stored
      <4> QED
        BY <4>1, <4>2
    <3>4. pc'[r] = "done" => \A i \in DOMAIN uploaded[r] : i <= k
      BY <2>3, <3>1, <3>2 DEF went
    <3>5. pc'[r] \in Running => local'[r].persisted = k
      BY <2>3 DEF went, Running
    <3> QED
      BY <2>4, <3>3, <3>4, <3>5 DEF documentsMade
  <2> QED
    BY <2>6, <2>8 DEF DocumentsAreMade
<1>15. ASSUME NEW r \in Request, sendRevocation(r) PROVE DocumentsAreMade'
  <2>1. went(r, "confirmRevoke", local[r]) \/ went(r, "done", local[r])
    BY <1>15, Moves
  <2>2. /\ UNCHANGED <<docs, uploaded, replaces>>
        /\ \A s \in Request \ {r} : pc'[s] = pc[s] /\ local'[s] = local[s]
    BY <2>1, <1>15 DEF sendRevocation, went
  <2>3. /\ pc'[r] = "done" => pc[r] \in Replacing \cup {"done"}
        /\ pc'[r] \in Running => pc[r] \in Running /\ local'[r].persisted = local[r].persisted
    BY <2>1, <1>15, Counters DEF sendRevocation, went, Locals, Running, Stage, Replacing
  <2>4. \A s \in Request : documentsMade(s)'
    BY <2>2, <2>3, MadeKept DEF stored
  <2> QED
    BY <2>4 DEF DocumentsAreMade
<1>16. ASSUME NEW r \in Request, confirmRevocation(r) PROVE DocumentsAreMade'
  <2>1. went(r, "mark", local[r]) \/ went(r, "done", local[r])
    BY <1>16, Went, Counters DEF confirmRevocation, goTo, Stage
  <2>2. /\ UNCHANGED <<docs, uploaded, replaces>>
        /\ \A s \in Request \ {r} : pc'[s] = pc[s] /\ local'[s] = local[s]
    BY <2>1, <1>16 DEF confirmRevocation, went
  <2>3. /\ pc'[r] = "done" => pc[r] \in Replacing \cup {"done"}
        /\ pc'[r] \in Running => pc[r] \in Running /\ local'[r].persisted = local[r].persisted
    BY <2>1, <1>16, Counters DEF confirmRevocation, went, Locals, Running, Stage, Replacing
  <2>4. \A s \in Request : documentsMade(s)'
    BY <2>2, <2>3, MadeKept DEF stored
  <2> QED
    BY <2>4 DEF DocumentsAreMade
<1>17. ASSUME NEW r \in Request, markCertificateAsReplaced(r) PROVE DocumentsAreMade'
  <2>1. went(r, "done", local[r]) /\ UNCHANGED <<uploaded, replaces>> /\ pc[r] = "mark"
    BY <1>17, MarkedOne DEF markCertificateAsReplaced
  <2>2. \A h \in Hash : docs'[h].replaces = docs[h].replaces
    BY <1>17, MarkedOne
  <2>3. \A h \in Hash : docs'[h] = NoDoc <=> docs[h] = NoDoc
    BY <1>17, MarkedOne
  <2>4. \A s \in Request : \A i \in DOMAIN uploaded[s] : uploaded[s][i] \in Hash
    BY DEF TypeOK
  <2>5. \A s \in Request : \A i \in DOMAIN uploaded[s] :
          /\ stored(uploaded[s][i])' <=> stored(uploaded[s][i])
          /\ docs'[uploaded[s][i]].replaces = docs[uploaded[s][i]].replaces
    BY <2>1, <2>2, <2>3, <2>4 DEF stored
  <2>6. /\ pc'[r] = "done" /\ pc[r] \in Replacing /\ "done" \notin Running
        /\ \A s \in Request \ {r} : pc'[s] = pc[s] /\ local'[s] = local[s]
    BY <2>1 DEF went, Replacing, Running
  <2>7. \A s \in Request : documentsMade(s)'
    BY <2>1, <2>5, <2>6, MadeKept
  <2> QED
    BY <2>7 DEF DocumentsAreMade
<1>18. ASSUME NEW r \in Request, failRequest(r) PROVE DocumentsAreMade'
  BY <1>18, Went, Counters, MadeKept DEF failRequest, goTo, Stage, went, Locals, Running,
    Replacing, stored, DocumentsAreMade
<1>19. ASSUME NEW r \in Request, failReplacing(r) PROVE DocumentsAreMade'
  BY <1>19, Went, Counters, MadeKept DEF failReplacing, goTo, Stage, went, Locals,
    Running, Replacing, stored, DocumentsAreMade
<1>20. ASSUME NEW r \in Request, mineIssue(r) PROVE DocumentsAreMade'
  BY <1>20, MadeKept DEF mineIssue, DocumentsAreMade, stored
<1>21. ASSUME NEW r \in Request, mineRevoke(r) PROVE DocumentsAreMade'
  BY <1>21, MadeKept DEF mineRevoke, DocumentsAreMade, stored
<1>22. ASSUME UNCHANGED vars PROVE DocumentsAreMade'
  BY <1>22 DEF vars, stored, DocumentsAreMade, documentsMade
<1> HIDE DEF DocumentsAreMade
<1> QED
  BY <1>1, <1>2, <1>3, <1>4, <1>5, <1>6, <1>7, <1>8, <1>9, <1>10, <1>11, <1>12, <1>13,
     <1>14, <1>15, <1>16, <1>17, <1>18, <1>19, <1>20, <1>21, <1>22 DEF Next, step

(* Only a request whose revocation was executed marks a document.          *)
LEMMA StepMarks ==
  ASSUME IssuanceAssumption, IInv, TypeOK', [Next]_vars
  PROVE  MarksAreExplained'
<1>0. /\ TypeOK /\ IdsAreCounted /\ UploadsAreOwn /\ LoopsAreBounded /\ ReceiptsAreTrue
      /\ PredictionsAreLow /\ DocumentsAreReal /\ MakersAreKnown /\ DocumentsAreMade
      /\ MarksAreExplained
  BY DEF IInv
<1> USE <1>0, IssuanceAssumption DEF chainVars, txVars, outputVars, requestVars
<1>1. ASSUME verifyIssuer PROVE MarksAreExplained'
  BY <1>1, MarksKept DEF verifyIssuer
<1>2. ASSUME suspendIssuer PROVE MarksAreExplained'
  BY <1>2, MarksKept DEF suspendIssuer
<1>3. ASSUME issueElsewhere PROVE MarksAreExplained'
  BY <1>3, MarksKept DEF issueElsewhere
<1>4. ASSUME NEW h \in Hash, revokeFromWallet(h) PROVE MarksAreExplained'
  BY <1>4, MarksKept DEF revokeFromWallet
<1>5. ASSUME crash PROVE MarksAreExplained'
  BY <1>5, MarksKept DEF crash
<1>6. ASSUME NEW r \in Request, NEW old \in Hash \cup {NoHash}, issueCertificate(r, old)
      PROVE MarksAreExplained'
  BY <1>6, MarksKept DEF issueCertificate, goTo, goWith, TypeOK, ReceiptsAreTrue,
    receiptsTrue
<1>7. ASSUME NEW r \in Request, NEW n \in 1..MaxBatch, batchIssueCertificates(r, n)
      PROVE MarksAreExplained'
  BY <1>7, MarksKept DEF batchIssueCertificates
<1>8. ASSUME NEW r \in Request, checkChain(r) PROVE MarksAreExplained'
  BY <1>8, MarksKept DEF checkChain
<1>9. ASSUME NEW r \in Request, checkDb(r) PROVE MarksAreExplained'
  BY <1>9, MarksKept DEF checkDb
<1>10. ASSUME NEW r \in Request, uploadItem(r) PROVE MarksAreExplained'
  BY <1>10, MarksKept DEF uploadItem, goTo, goWith, TypeOK, ReceiptsAreTrue, receiptsTrue
<1>11. ASSUME NEW r \in Request, predict(r) PROVE MarksAreExplained'
  BY <1>11, MarksKept DEF predict
<1>12. ASSUME NEW r \in Request, broadcast(r) PROVE MarksAreExplained'
  BY <1>12, MarksKept DEF broadcast
<1>13. ASSUME NEW r \in Request, confirm(r) PROVE MarksAreExplained'
  BY <1>13, MarksKept DEF confirm
<1>14. ASSUME NEW r \in Request, persistItem(r) PROVE MarksAreExplained'
  <2> DEFINE k == local[r].persisted + 1
  <2>1. k = local[r].persisted + 1 /\ persistedOne(r, k)
    BY <1>14, PersistedOne
  <2> HIDE DEF k
  <2>2. UNCHANGED <<revokeTx, replaces, uploaded>>
    BY <1>14 DEF persistItem
  <2>3. \A h \in Hash : docs'[h].replacedBy \in {docs[h].replacedBy, NoHash}
    BY <2>1 DEF persistedOne, document
  <2> QED
    BY <2>2, <2>3, MarksKept
<1>15. ASSUME NEW r \in Request, sendRevocation(r) PROVE MarksAreExplained'
  BY <1>15, MarksKept DEF sendRevocation, goTo, goWith, TypeOK, ReceiptsAreTrue,
    receiptsTrue
<1>16. ASSUME NEW r \in Request, confirmRevocation(r) PROVE MarksAreExplained'
  BY <1>16, MarksKept DEF confirmRevocation
<1>17. ASSUME NEW r \in Request, markCertificateAsReplaced(r) PROVE MarksAreExplained'
  BY <1>17, MarkedOne DEF markCertificateAsReplaced, ReceiptsAreTrue, receiptsTrue,
    MarksAreExplained
<1>18. ASSUME NEW r \in Request, failRequest(r) PROVE MarksAreExplained'
  BY <1>18, MarksKept DEF failRequest
<1>19. ASSUME NEW r \in Request, failReplacing(r) PROVE MarksAreExplained'
  BY <1>19, MarksKept DEF failReplacing
<1>20. ASSUME NEW r \in Request, mineIssue(r) PROVE MarksAreExplained'
  BY <1>20, MarksKept DEF mineIssue
<1>21. ASSUME NEW r \in Request, mineRevoke(r) PROVE MarksAreExplained'
  BY <1>21, MarksKept DEF mineRevoke, goTo, goWith, TypeOK, ReceiptsAreTrue, receiptsTrue
<1>22. ASSUME UNCHANGED vars PROVE MarksAreExplained'
  BY <1>22 DEF vars, stored, MarksAreExplained
<1> HIDE DEF MarksAreExplained
<1> QED
  BY <1>1, <1>2, <1>3, <1>4, <1>5, <1>6, <1>7, <1>8, <1>9, <1>10, <1>11, <1>12, <1>13,
     <1>14, <1>15, <1>16, <1>17, <1>18, <1>19, <1>20, <1>21, <1>22 DEF Next, step

(* A hash keeps its issuer, and stays revoked; a revocation is not sent    *)
(* again: what explains a revert stays.                                    *)
LEMMA RevertsKept ==
  ASSUME IssuanceAssumption, TypeOK, ReceiptsAreTrue, RevertsAreExplained,
         \A h \in Hash : anchored(h) => anchoredBy'[h] = anchoredBy[h],
         \A h \in Hash : revoked(h) => revokedBy'[h] = revokedBy[h],
         \A q \in Request : revokeTx'[q] = revokeTx[q],
         \A q \in Request : revokeTx[q] # "none" => replaces'[q] = replaces[q]
  PROVE  RevertsAreExplained'
<1> SUFFICES ASSUME NEW q \in Request, revokeTx[q] # "none" PROVE revertExplained(q)'
  BY DEF RevertsAreExplained, revertExplained
<1>1. revertExplained(q) /\ replaces[q] \in Hash
  BY DEF RevertsAreExplained, ReceiptsAreTrue, receiptsTrue, TypeOK
<1>2. anchored(replaces[q])
  BY <1>1 DEF revertExplained, anchored, IssuanceAssumption, Account
<1> QED
  BY <1>1, <1>2 DEF revertExplained, revoked

(* The revocation of a certificate of the service reverts only if it is    *)
(* revoked already (AcademicCertification 460-465).                        *)
LEMMA StepReverts ==
  ASSUME IssuanceAssumption, IInv, TypeOK', [Next]_vars
  PROVE  RevertsAreExplained'
<1>0. /\ TypeOK /\ IdsAreCounted /\ UploadsAreOwn /\ LoopsAreBounded /\ ReceiptsAreTrue
      /\ RevertsAreExplained
  BY DEF IInv
<1> USE <1>0, IssuanceAssumption DEF chainVars, txVars, outputVars, requestVars
<1>1. ASSUME verifyIssuer PROVE RevertsAreExplained'
  BY <1>1, RevertsKept DEF verifyIssuer
<1>2. ASSUME suspendIssuer PROVE RevertsAreExplained'
  BY <1>2, RevertsKept DEF suspendIssuer
<1>3. ASSUME issueElsewhere PROVE RevertsAreExplained'
  BY <1>3, AnchoringSteps, RevertsKept DEF issueElsewhere, chainGrows
<1>4. ASSUME NEW h \in Hash, revokeFromWallet(h) PROVE RevertsAreExplained'
  BY <1>4, RevertsKept DEF revokeFromWallet, revoked
<1>5. ASSUME crash PROVE RevertsAreExplained'
  BY <1>5, RevertsKept DEF crash
<1>6. ASSUME NEW r \in Request, NEW old \in Hash \cup {NoHash}, issueCertificate(r, old)
      PROVE RevertsAreExplained'
  BY <1>6, RevertsKept DEF issueCertificate, TypeOK, ReceiptsAreTrue, receiptsTrue
<1>7. ASSUME NEW r \in Request, NEW n \in 1..MaxBatch, batchIssueCertificates(r, n)
      PROVE RevertsAreExplained'
  BY <1>7, RevertsKept DEF batchIssueCertificates
<1>8. ASSUME NEW r \in Request, checkChain(r) PROVE RevertsAreExplained'
  BY <1>8, RevertsKept DEF checkChain
<1>9. ASSUME NEW r \in Request, checkDb(r) PROVE RevertsAreExplained'
  BY <1>9, RevertsKept DEF checkDb
<1>10. ASSUME NEW r \in Request, uploadItem(r) PROVE RevertsAreExplained'
  BY <1>10, RevertsKept DEF uploadItem
<1>11. ASSUME NEW r \in Request, predict(r) PROVE RevertsAreExplained'
  BY <1>11, RevertsKept DEF predict
<1>12. ASSUME NEW r \in Request, broadcast(r) PROVE RevertsAreExplained'
  BY <1>12, RevertsKept DEF broadcast
<1>13. ASSUME NEW r \in Request, confirm(r) PROVE RevertsAreExplained'
  BY <1>13, RevertsKept DEF confirm
<1>14. ASSUME NEW r \in Request, persistItem(r) PROVE RevertsAreExplained'
  BY <1>14, RevertsKept DEF persistItem
<1>15. ASSUME NEW r \in Request, sendRevocation(r) PROVE RevertsAreExplained'
  BY <1>15 DEF sendRevocation, revocable, RevertsAreExplained, revertExplained, revoked, TypeOK
<1>16. ASSUME NEW r \in Request, confirmRevocation(r) PROVE RevertsAreExplained'
  BY <1>16, RevertsKept DEF confirmRevocation
<1>17. ASSUME NEW r \in Request, markCertificateAsReplaced(r) PROVE RevertsAreExplained'
  BY <1>17, RevertsKept DEF markCertificateAsReplaced
<1>18. ASSUME NEW r \in Request, failRequest(r) PROVE RevertsAreExplained'
  BY <1>18, RevertsKept DEF failRequest
<1>19. ASSUME NEW r \in Request, failReplacing(r) PROVE RevertsAreExplained'
  BY <1>19, RevertsKept DEF failReplacing
<1>20. ASSUME NEW r \in Request, mineIssue(r) PROVE RevertsAreExplained'
  BY <1>20, AnchoringSteps, RevertsKept DEF mineIssue, chainGrows
<1>21. ASSUME NEW r \in Request, mineRevoke(r) PROVE RevertsAreExplained'
  <2>1. /\ revokeTx[r] = "pending" /\ UNCHANGED <<anchoredBy, replaces>>
        /\ \A q \in Request \ {r} : revokeTx'[q] = revokeTx[q]
        /\ \A h \in Hash : revoked(h) => revoked(h)'
    BY <1>21 DEF mineRevoke, revoked, TypeOK, IssuanceAssumption, Account
  <2>2. /\ revertExplained(r) /\ replaces[r] \in Hash
        /\ revokeTx'[r] = "reverted" => revoked(replaces[r])
    BY <1>21, <2>1 DEF mineRevoke, revocable, revoked, RevertsAreExplained, revertExplained,
      ReceiptsAreTrue, receiptsTrue, TypeOK
  <2> SUFFICES ASSUME NEW q \in Request PROVE revertExplained(q)'
    BY DEF RevertsAreExplained
  <2>3. /\ revertExplained(q)
        /\ revokeTx[q] # "none" => replaces[q] \in Hash
    BY DEF RevertsAreExplained, ReceiptsAreTrue, receiptsTrue, TypeOK
  <2> QED
    <3>1. CASE q = r
      BY <2>1, <2>2, <3>1 DEF revertExplained, revoked
    <3>2. CASE q # r
      BY <2>1, <2>3, <3>2 DEF revertExplained, revoked
    <3> QED
      BY <3>1, <3>2
<1>22. ASSUME UNCHANGED vars PROVE RevertsAreExplained'
  BY <1>22, RevertsKept DEF vars
<1> HIDE DEF RevertsAreExplained
<1> QED
  BY <1>1, <1>2, <1>3, <1>4, <1>5, <1>6, <1>7, <1>8, <1>9, <1>10, <1>11, <1>12, <1>13,
     <1>14, <1>15, <1>16, <1>17, <1>18, <1>19, <1>20, <1>21, <1>22 DEF Next, step

(***************************************************************************)
(* The invariant                                                           *)
(***************************************************************************)

(* Before any request only the earlier certificate exists, with id 1.      *)
LEMMA InitInv == ASSUME IssuanceAssumption, Init PROVE IInv
<1> USE DEF Init
<1>1. Earlier \in Hash /\ Signer \in Account /\ ZeroAddress \notin Account /\ NoHash \notin Hash
  BY DEF IssuanceAssumption, Hash, Account
<1>2. TypeOK
  <2>1. docs \in [Hash -> Document]
    <3>1. NoDoc \in Document /\ [NoDoc EXCEPT !.certificateId = 1] \in Document
      BY DEF NoDoc, Document
    <3> QED
      BY <3>1
  <2>2. local \in [Request -> Locals]
    BY NoLocalsAreLocals
  <2>3. \A r \in Request : countsAgree(r)
    <3> SUFFICES ASSUME NEW r \in Request PROVE countsAgree(r)
      OBVIOUS
    <3>1. /\ Len(uploaded[r]) = 0 /\ local[r].persisted = 0 /\ local[r].handled = 0
          /\ local[r].size = 0
      BY DEF NoLocals, asked
    <3>2. MaxBatch \in Nat /\ pc[r] \notin Running
      BY DEF IssuanceAssumption, Running
    <3> QED
      BY <3>1, <3>2 DEF countsAgree
  <2>4. uploaded \in [Request -> Seq(Hash)]
    OBVIOUS
  <2>5. /\ pc \in [Request -> Stage] /\ issueTx \in [Request -> TxState]
        /\ revokeTx \in [Request -> TxState]
    BY DEF Stage, TxState
  <2> QED
    BY <1>1, <2>1, <2>2, <2>3, <2>4, <2>5 DEF TypeOK
<1>3. IdsAreCounted
  <2>1. \A h \in Hash : anchored(h) <=> h = Earlier
    BY <1>1 DEF anchored
  <2>2. certificateId[Earlier] = 1 /\ nextCertificateId - 1 = 1
    BY <1>1
  <2>3. \A h \in Hash : ~revoked(h)
    BY DEF revoked
  <2>4. \A h \in Hash : anchored(h) => certificateId[h] \in 1..(nextCertificateId - 1)
    BY <2>1, <2>2
  <2>5. \A n \in 1..(nextCertificateId - 1) :
          \E g \in Hash : anchored(g) /\ certificateId[g] = n
    BY <1>1, <2>1, <2>2
  <2> QED
    BY <2>3, <2>4, <2>5 DEF IdsAreCounted
<1>4. UploadsAreOwn
  BY DEF UploadsAreOwn, ownUploads
<1>5. LoopsAreBounded
  BY DEF LoopsAreBounded, loopBounded, Ready, Unsent, Replacing, Running, NoLocals, asked
<1>6. ReceiptsAreTrue
  BY DEF ReceiptsAreTrue, receiptsTrue, Replacing
<1>7. PredictionsAreLow
  BY DEF PredictionsAreLow, predictionLow
<1>8. \A h \in Hash : /\ stored(h) => h = Earlier
                      /\ docs[h].replacedBy = NoHash
  <2> SUFFICES ASSUME NEW h \in Hash PROVE (stored(h) => h = Earlier) /\ docs[h].replacedBy = NoHash
    OBVIOUS
  <2>1. docs[h] = IF h = Earlier THEN [NoDoc EXCEPT !.certificateId = 1] ELSE NoDoc
    OBVIOUS
  <2> QED
    BY <2>1 DEF stored, NoDoc
<1>9. DocumentsAreReal
  <2>1. /\ docs[Earlier].certificateId = 1 /\ certificateId[Earlier] = 1
        /\ anchoredBy[Earlier] = Signer
    BY <1>1 DEF NoDoc
  <2> QED
    BY <1>8, <2>1 DEF DocumentsAreReal
<1>10. MakersAreKnown
  BY <1>8 DEF MakersAreKnown
<1>11. DocumentsAreMade
  BY DEF DocumentsAreMade, documentsMade
<1>12. MarksAreExplained
  BY <1>8 DEF MarksAreExplained
<1>13. RevertsAreExplained
  BY DEF RevertsAreExplained, revertExplained
<1> QED
  BY <1>2, <1>3, <1>4, <1>5, <1>6, <1>7, <1>9, <1>10, <1>11, <1>12, <1>13 DEF IInv

(* One lemma for each part of the invariant.                              *)
LEMMA StepInv == ASSUME IssuanceAssumption, IInv, [Next]_vars PROVE IInv'
<1>1. TypeOK'
  BY StepType
<1> QED
  BY <1>1, StepIds, StepUploads, StepLoops, StepReceipts,
     StepPredictions, StepDocumentsReal, StepMakers, StepDocumentsMade,
     StepMarks, StepReverts DEF IInv

(* The inductive invariant holds whatever fails, waits or crashes.         *)
THEOREM IssuanceInvariance == Spec => []IInv
<1>1. Init => IInv
  BY IssuanceAssumption, InitInv
<1>2. IInv /\ [Next]_vars => IInv'
  BY IssuanceAssumption, StepInv
<1> QED
  BY <1>1, <1>2, PTL DEF Spec

(* Requests, transactions and documents keep their types: in particular no *)
(* more is stored than was uploaded, nor uploaded than was asked for.      *)
THEOREM IssuanceTypeCorrect == Spec => []TypeOK
<1>1. IInv => TypeOK
  BY DEF IInv
<1> QED
  BY <1>1, IssuanceInvariance, PTL

(***************************************************************************)
(* What a database and an answer say of the chain                          *)
(***************************************************************************)

(* A document of persistCertificateRecord is of a certificate the backend  *)
(* anchored; the id it stores exists on chain and is not above its own.    *)
THEOREM StoredIsAnchored == Spec => []DocumentsAreAnchored
<1>1. IInv => DocumentsAreAnchored
  <2> SUFFICES ASSUME IInv, NEW h \in Hash, stored(h)
               PROVE  /\ anchoredBy[h] = Signer
                      /\ docs[h].certificateId <= certificateId[h]
                      /\ \E g \in Hash : certificateId[g] = docs[h].certificateId
    BY DEF DocumentsAreAnchored
  <2>1. anchoredBy[h] = Signer /\ docs[h].certificateId \in 1..certificateId[h]
    BY DEF IInv, DocumentsAreReal
  <2>2. certificateId[h] \in 1..(nextCertificateId - 1) /\ nextCertificateId \in Nat
    BY <2>1, IssuanceAssumption DEF IInv, IdsAreCounted, anchored, IssuanceAssumption,
       Account, TypeOK
  <2>3. docs[h].certificateId \in 1..(nextCertificateId - 1)
    BY <2>1, <2>2
  <2>4. PICK g \in Hash : anchored(g) /\ certificateId[g] = docs[h].certificateId
    BY <2>3 DEF IInv, IdsAreCounted
  <2> QED
    BY <2>1, <2>2, <2>4
<1> QED
  BY <1>1, IssuanceInvariance, PTL

(* A document markCertificateAsReplaced marked is of a certificate the     *)
(* backend revoked, and its successor is anchored and points back.         *)
THEOREM ReplacedIsRevoked == Spec => []ReplacedMeansRevoked
<1>1. IInv => ReplacedMeansRevoked
  <2> SUFFICES ASSUME IInv, NEW h \in Hash, docs[h].replacedBy # NoHash
               PROVE  /\ revokedBy[h] = Signer
                      /\ anchored(docs[h].replacedBy)
                      /\ docs[docs[h].replacedBy].replaces = h
    BY DEF ReplacedMeansRevoked
  <2>1. PICK r \in Request : /\ revokeTx[r] = "succeeded" /\ replaces[r] = h
                             /\ docs[h].replacedBy = uploaded[r][1]
    BY DEF IInv, MarksAreExplained
  <2>2. /\ revokedBy[h] = Signer /\ Len(uploaded[r]) = 1 /\ issueTx[r] = "succeeded"
        /\ docs[uploaded[r][1]].replaces = h
    BY <2>1 DEF IInv, ReceiptsAreTrue, receiptsTrue
  <2>3. 1 \in DOMAIN uploaded[r]
    BY <2>2 DEF IInv, TypeOK
  <2>4. anchoredBy[uploaded[r][1]] = Signer
    BY <2>2, <2>3 DEF IInv, ReceiptsAreTrue, receiptsTrue
  <2> QED
    BY <2>1, <2>2, <2>4, IssuanceAssumption DEF anchored, IssuanceAssumption, Account
<1> QED
  BY <1>1, IssuanceInvariance, PTL

(* What a request that answers 201 reports is on chain and in MongoDB, and *)
(* previousCertificateRevoked is said by at most one successor; what the   *)
(* message says of a re-issuance is untrue only if the revocation was not  *)
(* sent or is not mined yet (certificate.service 245-293).                 *)
THEOREM AnswersAreTrue == Spec => []SuccessIsComplete
<1>1. IInv => SuccessIsComplete
  <2> SUFFICES ASSUME IInv, NEW r \in Request, pc[r] = "done"
               PROVE  /\ uploaded[r] # <<>>
                      /\ \A i \in DOMAIN uploaded[r] :
                           anchored(uploaded[r][i]) /\ stored(uploaded[r][i])
                      /\ revoked(replaces[r]) \/ revokeTx[r] \in {"none", "pending"}
                         \/ replaces[r] = NoHash
                      /\ previousCertificateRevoked[r] =>
                           /\ revokedBy[replaces[r]] = Signer
                           /\ docs[replaces[r]].replacedBy \in {NoHash, uploaded[r][1]}
    BY DEF SuccessIsComplete, saysRevoked
  <2>1. uploaded[r] # <<>>
    BY DEF IInv, LoopsAreBounded, loopBounded
  <2>2. ASSUME NEW i \in DOMAIN uploaded[r] PROVE anchored(uploaded[r][i]) /\ stored(uploaded[r][i])
    <3>1. anchoredBy[uploaded[r][i]] = Signer
      BY DEF IInv, ReceiptsAreTrue, receiptsTrue
    <3>2. stored(uploaded[r][i])
      BY DEF IInv, DocumentsAreMade, documentsMade
    <3> QED
      BY <3>1, <3>2, IssuanceAssumption DEF anchored, IssuanceAssumption, Account
  <2>3. ASSUME previousCertificateRevoked[r]
        PROVE  /\ revokedBy[replaces[r]] = Signer
               /\ docs[replaces[r]].replacedBy \in {NoHash, uploaded[r][1]}
    <3>1. revokeTx[r] = "succeeded"
      BY <2>3 DEF IInv, ReceiptsAreTrue, receiptsTrue
    <3>2. revokedBy[replaces[r]] = Signer /\ replaces[r] \in Hash
      BY <3>1 DEF IInv, ReceiptsAreTrue, receiptsTrue, TypeOK
    <3>3. ASSUME docs[replaces[r]].replacedBy # NoHash
          PROVE  docs[replaces[r]].replacedBy = uploaded[r][1]
      <4>1. PICK q \in Request : /\ revokeTx[q] = "succeeded" /\ replaces[q] = replaces[r]
                                 /\ docs[replaces[r]].replacedBy = uploaded[q][1]
        BY <3>2, <3>3 DEF IInv, MarksAreExplained
      <4>2. q = r
        BY <3>1, <4>1 DEF IInv, ReceiptsAreTrue, receiptsTrue
      <4> QED
        BY <4>1, <4>2
    <3> QED
      BY <3>2, <3>3
  <2>4. \/ revoked(replaces[r]) \/ revokeTx[r] \in {"none", "pending"}
        \/ replaces[r] = NoHash
    <3>1. revokeTx[r] \in TxState /\ revertExplained(r) /\ receiptsTrue(r)
      BY DEF IInv, TypeOK, RevertsAreExplained, ReceiptsAreTrue
    <3>2. revokeTx[r] = "succeeded" => revoked(replaces[r])
      BY <3>1, IssuanceAssumption DEF receiptsTrue, revoked, IssuanceAssumption, Account
    <3> QED
      BY <3>1, <3>2 DEF revertExplained, TxState
  <2> QED
    BY <2>1, <2>2, <2>3, <2>4
<1> QED
  BY <1>1, IssuanceInvariance, PTL

(* The transaction of a re-issuance that moves is sent by sendRevocation,  *)
(* after the loop of documents, or executed after it was sent.             *)
LEMMA RevocationsMove ==
  ASSUME IssuanceAssumption, IInv, [Next]_vars, NEW r \in Request, revokeTx'[r] # revokeTx[r]
  PROVE  Len(uploaded[r]) = 1 /\ anchored(uploaded[r][1]) /\ stored(uploaded[r][1])
<1> DEFINE succeeded == Len(uploaded[r]) = 1 /\ anchored(uploaded[r][1]) /\ stored(uploaded[r][1])
<1>1. ASSUME Len(uploaded[r]) = 1, issueTx[r] = "succeeded" PROVE anchored(uploaded[r][1])
  <2>1. 1 \in DOMAIN uploaded[r]
    BY <1>1 DEF IInv, TypeOK
  <2> QED
    BY <1>1, <2>1, IssuanceAssumption
       DEF anchored, IssuanceAssumption, Account, IInv, ReceiptsAreTrue, receiptsTrue
<1>2. ASSUME NEW q \in Request, sendRevocation(q) PROVE succeeded
  <2>1. q = r /\ pc[r] = "revoke"
    BY <1>2 DEF sendRevocation, IInv, TypeOK
  <2>2. Len(uploaded[r]) = 1 /\ stored(uploaded[r][1])
    BY <2>1, IssuanceAssumption, SoleSuccessor DEF IInv, Replacing
  <2>3. issueTx[r] = "succeeded"
    BY <2>1 DEF IInv, ReceiptsAreTrue, receiptsTrue, Replacing
  <2> QED
    BY <1>1, <2>2, <2>3
<1>3. ASSUME NEW q \in Request, mineRevoke(q) PROVE succeeded
  <2>1. q = r /\ revokeTx[r] = "pending"
    BY <1>3 DEF mineRevoke, IInv, TypeOK
  <2>2. Len(uploaded[r]) = 1 /\ stored(uploaded[r][1]) /\ issueTx[r] = "succeeded"
    BY <2>1 DEF IInv, ReceiptsAreTrue, receiptsTrue
  <2> QED
    BY <1>1, <2>2
<1>4. \E q \in Request : sendRevocation(q) \/ mineRevoke(q)
  <2> HIDE DEF succeeded
  <2> QED
    BY DEF Next, step, vars, txVars, outputVars, requestVars, verifyIssuer, suspendIssuer,
       issueElsewhere, revokeFromWallet, crash, issueCertificate, batchIssueCertificates,
       checkChain, checkDb, uploadItem, predict, broadcast, confirm, persistItem,
       confirmRevocation, markCertificateAsReplaced, failRequest, failReplacing, mineIssue
<1> QED
  BY <1>2, <1>3, <1>4

(* No revocation is sent or executed before the successor of the old       *)
(* certificate is anchored and stored: it "runs AFTER".                    *)
THEOREM SuccessorComesFirst == Spec => SuccessorExists
<1>1. IInv /\ [Next]_vars =>
        [\A r \in Request : revokeTx'[r] # revokeTx[r] =>
           /\ Len(uploaded[r]) = 1
           /\ anchored(uploaded[r][1])
           /\ stored(uploaded[r][1])]_revokeTx
  BY IssuanceAssumption, RevocationsMove
<1> QED
  BY <1>1, IssuanceInvariance, PTL DEF Spec, SuccessorExists

(***************************************************************************)
(* The contract the requests use                                           *)
(***************************************************************************)

(* issueAll of fresh hashes is the ledger's Anchor of what became anchored *)
LEMMA AnchorIsLedgers ==
  ASSUME IssuanceAssumption, TypeOK, IdsAreCounted, NEW account \in Account,
         account \in authorized, NEW hashes \in Seq(Hash),
         \A i \in DOMAIN hashes : ~anchored(hashes[i]), anchorAll(account, hashes)
  PROVE  Ledger!Anchor(account, fresh)
<1>1. account # ZeroAddress
  BY DEF IssuanceAssumption
<1>2. /\ anchoredBy' = [h \in Hash |->
           IF \E i \in DOMAIN hashes : hashes[i] = h THEN account ELSE anchoredBy[h]]
      /\ UNCHANGED <<authorized, revokedBy>>
  BY DEF anchorAll
<1>3. \A h \in Hash : h \in fresh <=> \E i \in DOMAIN hashes : hashes[i] = h
  BY <1>1, <1>2 DEF fresh, anchored
<1>4. \A h \in fresh : h \in Hash /\ ~anchored(h) /\ ~revoked(h)
  BY DEF fresh, IdsAreCounted
<1>5. \A h \in fresh : phaseOf(h) = "absent"
  BY <1>4 DEF phaseOf
<1>6. \A h \in Hash : revoked(h)' <=> revoked(h)
  BY <1>2 DEF revoked
<1>7. \A h \in Hash : anchored(h)' <=> anchored(h) \/ h \in fresh
  BY <1>1, <1>2, <1>3 DEF anchored
<1>8. \A h \in Hash : phaseOf(h)' = IF h \in fresh THEN "anchored" ELSE phaseOf(h)
  BY <1>4, <1>6, <1>7 DEF phaseOf
<1>9. anchoredBy' = [h \in Hash |-> IF h \in fresh THEN account ELSE anchoredBy[h]]
  BY <1>2, <1>3
<1>10. [h \in Hash |-> phaseOf(h)]'
         = [h \in Hash |-> IF h \in fresh THEN "anchored" ELSE [g \in Hash |-> phaseOf(g)][h]]
  BY <1>8
<1>11. \A h \in fresh : [g \in Hash |-> phaseOf(g)][h] = "absent"
  BY <1>4, <1>5
<1> QED
  BY <1>2, <1>9, <1>10, <1>11 DEF Ledger!Anchor

(* A revocation of an anchored hash by its issuer is the ledger's Revoke.  *)
LEMMA RevokeIsLedgers ==
  ASSUME IssuanceAssumption, TypeOK, NEW h \in Hash, NEW account \in Account,
         anchoredBy[h] = account, ~revoked(h), revokedBy' = [revokedBy EXCEPT ![h] = account],
         UNCHANGED <<authorized, anchoredBy>>
  PROVE  Ledger!Revoke(account, h)
<1>1. account # ZeroAddress
  BY DEF IssuanceAssumption
<1>2. phaseOf(h) = "anchored"
  BY <1>1 DEF phaseOf, anchored
<1>3. phaseOf(h)' = "revoked"
  BY <1>1 DEF phaseOf, revoked, TypeOK
<1>4. \A g \in Hash \ {h} : phaseOf(g)' = phaseOf(g)
  BY DEF phaseOf, revoked, anchored, TypeOK
<1>5. [g \in Hash |-> phaseOf(g)]' = [[g \in Hash |-> phaseOf(g)] EXCEPT ![h] = "revoked"]
  BY <1>3, <1>4
<1> QED
  BY <1>2, <1>5 DEF Ledger!Revoke

(* The contract as this module has it takes only steps of                  *)
(* CertificateLedger, which AcademicCertification implements.              *)
THEOREM ContractStepsAreLedgers == Spec => ContractIsTheLedger
<1> DEFINE ledgerStep ==
      \E a \in Account :
        \/ Ledger!Authorize(a) \/ Ledger!Withdraw(a)
        \/ Ledger!Anchor(a, fresh)
        \/ \E h \in Hash : Ledger!Revoke(a, h)
<1>1. ASSUME IInv, [Next]_vars, chainVars' # chainVars PROVE ledgerStep
  <2> USE IssuanceAssumption
  <2>0. Signer \in Account /\ Other \in Account /\ TypeOK /\ IdsAreCounted
    BY <1>1 DEF Account, IInv
  <2>1. ASSUME verifyIssuer PROVE ledgerStep
    <3>1. Ledger!Authorize(Signer)
      BY <2>1 DEF verifyIssuer, Ledger!Authorize, phaseOf, anchored, revoked
    <3> QED
      BY <2>0, <3>1
  <2>2. ASSUME suspendIssuer PROVE ledgerStep
    <3>1. Ledger!Withdraw(Signer)
      BY <2>2 DEF suspendIssuer, Ledger!Withdraw, phaseOf, anchored, revoked
    <3> QED
      BY <2>0, <3>1
  <2>3. ASSUME issueElsewhere PROVE ledgerStep
    <3>1. <<Elsewhere>> \in Seq(Hash)
      BY DEF Hash
    <3>2. Ledger!Anchor(Other, fresh)
      BY <2>0, <2>3, <3>1, AnchorIsLedgers DEF issueElsewhere, issuable
    <3> QED
      BY <2>0, <3>2
  <2>4. ASSUME NEW h \in Hash, revokeFromWallet(h) PROVE ledgerStep
    <3>1. anchoredBy[h] \in Account
      BY <2>0, <2>4 DEF revokeFromWallet, anchored, TypeOK
    <3>2. Ledger!Revoke(anchoredBy[h], h)
      BY <2>0, <2>4, <3>1, RevokeIsLedgers DEF revokeFromWallet
    <3> QED
      BY <3>1, <3>2
  <2>5. ASSUME NEW r \in Request, mineIssue(r) PROVE ledgerStep
    <3>1. issuable(Signer, uploaded[r]) /\ anchorAll(Signer, uploaded[r])
      BY <1>1, <2>5 DEF mineIssue, chainVars
    <3>2. uploaded[r] \in Seq(Hash)
      BY <2>0 DEF TypeOK
    <3>3. Ledger!Anchor(Signer, fresh)
      BY <2>0, <3>1, <3>2, AnchorIsLedgers DEF issuable
    <3> QED
      BY <2>0, <3>3
  <2>6. ASSUME NEW r \in Request, mineRevoke(r) PROVE ledgerStep
    <3>1. /\ revocable(Signer, replaces[r])
          /\ revokedBy' = [revokedBy EXCEPT ![replaces[r]] = Signer]
          /\ UNCHANGED <<authorized, anchoredBy>>
      BY <1>1, <2>6 DEF mineRevoke, chainVars
    <3>2. replaces[r] \in Hash
      BY <1>1, <2>6 DEF mineRevoke, IInv, ReceiptsAreTrue, receiptsTrue, TypeOK
    <3>3. Ledger!Revoke(Signer, replaces[r])
      BY <2>0, <3>1, <3>2, RevokeIsLedgers DEF revocable
    <3> QED
      BY <2>0, <3>2, <3>3
  <2>7. \/ verifyIssuer \/ suspendIssuer \/ issueElsewhere
        \/ \E h \in Hash : revokeFromWallet(h)
        \/ \E r \in Request : mineIssue(r) \/ mineRevoke(r)
    <3> HIDE DEF ledgerStep
    <3> QED
      BY <1>1 DEF Next, step, vars, chainVars, txVars, outputVars, requestVars, crash,
         issueCertificate, batchIssueCertificates, checkChain, checkDb, uploadItem, predict,
         broadcast, confirm, persistItem, sendRevocation, confirmRevocation,
         markCertificateAsReplaced, failRequest, failReplacing
  <2> HIDE DEF ledgerStep
  <2> QED
    BY <2>1, <2>2, <2>3, <2>4, <2>5, <2>6, <2>7
<1>2. IInv /\ [Next]_vars => [ledgerStep]_chainVars
  BY <1>1
<1> QED
  BY <1>2, IssuanceInvariance, PTL DEF Spec, ContractIsTheLedger
==============================================================================
