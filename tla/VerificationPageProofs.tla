------------------------ MODULE VerificationPageProofs ------------------------
(***************************************************************************)
(* What is proved of the verification page for any certificates, codes,    *)
(* files and bounds.  The first half is about the documents alone: what    *)
(* the backend wrote tells of its certificate, whatever the shape it is    *)
(* uploaded in, and both readers make the same of it.  The second half is  *)
(* the invariant of each form, as a predicate of the form's state.         *)
(***************************************************************************)
EXTENDS VerificationPage, TLAPS

(***************************************************************************)
(* Objects                                                                 *)
(***************************************************************************)

(* An object of one key, an object without a key, and one with more keys.  *)
LEMMA Pair == \A key, value : DOMAIN pair(key, value) = {key} /\ pair(key, value)[key] = value
  BY DEF pair

LEMMA Without ==
  \A object, key : /\ DOMAIN without(object, key) = DOMAIN object \ {key}
                   /\ \A k \in DOMAIN object \ {key} : without(object, key)[k] = object[k]
  BY DEF without, Restrict

(* What joining two objects gives: the keys of both, the values of the     *)
(* first where it has one.                                                 *)
LEMMA MoreKeys == \A object, more : DOMAIN (object ++ more) = DOMAIN object \cup DOMAIN more
  BY DEF ++

LEMMA MoreKeepsKeys == \A object, more : \A k \in DOMAIN object : (object ++ more)[k] = object[k]
  BY DEF ++, has

LEMMA MoreAddsKeys ==
  \A object, more : \A k \in DOMAIN more \ DOMAIN object : (object ++ more)[k] = more[k]
  BY DEF ++, has

LEMMA NoKeys == DOMAIN <<>> = {}
  OBVIOUS

(* A key that may be left out.                                             *)
LEMMA Optional ==
  ASSUME NEW key, NEW value
  PROVE  /\ value = Null => DOMAIN optional(key, value) = {}
         /\ value # Null => /\ DOMAIN optional(key, value) = {key}
                            /\ optional(key, value)[key] = value
  BY Pair, NoKeys DEF optional

(***************************************************************************)
(* Documents                                                               *)
(***************************************************************************)

(* What a published document keeps of the anchored one.                    *)
LEMMA Published ==
  ASSUME NEW a
  PROVE  /\ DOMAIN published(a) = DocumentKey \ {"replacesCertificateHash"}
         /\ published(a).id = a.id /\ published(a).badge = a.badge
         /\ published(a).verification = a.verification
         /\ published(a).recipient = a.recipient /\ published(a).proof = proofOf(a)
  BY DEF published, DocumentKey, AnchorKey

(* What the anchored document says of its certificate.                     *)
LEMMA Anchored ==
  ASSUME NEW c
  PROVE  /\ buildHashAnchorDocument(c).id = c.id
         /\ buildHashAnchorDocument(c).badge = c.url
         /\ buildHashAnchorDocument(c).verification = c.network
         /\ buildHashAnchorDocument(c).recipient = recipientOf(c)
         /\ buildHashAnchorDocument(c).normalizedPayload = payloadOf(c)
<1> DEFINE plain == [id |-> c.id, badge |-> c.url, verification |-> c.network,
                     recipient |-> recipientOf(c), normalizedPayload |-> payloadOf(c)]
<1>1. DOMAIN plain = {"id", "badge", "verification", "recipient", "normalizedPayload"}
  OBVIOUS
<1>2. buildHashAnchorDocument(c) = plain ++ optional("replacesCertificateHash", c.replaces)
  BY DEF buildHashAnchorDocument
<1>3. \A k \in DOMAIN plain : buildHashAnchorDocument(c)[k] = plain[k]
  <2> HIDE DEF plain
  <2> QED
    BY <1>2, MoreKeepsKeys
<1> QED
  BY <1>1, <1>3

(* A document that tells of c all that the readers ask of it.              *)
tellsOf(d, c) ==
  /\ RequiredKey \subseteq DOMAIN d /\ DOMAIN d \subseteq DocumentKey
  /\ d.id = c.id /\ d.badge = c.url /\ d.verification = c.network
  /\ d.recipient = recipientOf(c) /\ d.proof = proofOf(buildHashAnchorDocument(c))
  /\ replacedBy(d) = c.replaces

(* Both documents of a single issuance do.                                 *)
LEMMA DocumentsTell ==
  ASSUME NEW c, NEW origin \in {"answer", "ipfs"}
  PROVE  tellsOf(documentOf(c, origin), c)
<1> DEFINE p == published(buildHashAnchorDocument(c))
           more == IF origin = "answer" THEN pair("replacesCertificateHash", c.replaces)
                   ELSE optional("replacesCertificateHash", c.replaces)
           d == documentOf(c, origin)
<1>1. d = p ++ more
  BY DEF documentOf, answerDocument, ipfsDocument
<1>2. DOMAIN p = DocumentKey \ {"replacesCertificateHash"}
  BY Published
<1>3. /\ p.id = c.id /\ p.badge = c.url /\ p.verification = c.network
      /\ p.recipient = recipientOf(c) /\ p.proof = proofOf(buildHashAnchorDocument(c))
  BY Published, Anchored
<1>o. \/ more = pair("replacesCertificateHash", c.replaces)
      \/ more = optional("replacesCertificateHash", c.replaces)
  OBVIOUS
<1>m. ASSUME NEW m, \/ m = pair("replacesCertificateHash", c.replaces)
                    \/ m = optional("replacesCertificateHash", c.replaces)
      PROVE  /\ DOMAIN m \subseteq {"replacesCertificateHash"}
             /\ "replacesCertificateHash" \in DOMAIN m =>
                  m["replacesCertificateHash"] = c.replaces
             /\ "replacesCertificateHash" \notin DOMAIN m => c.replaces = Null
  <2>1. CASE m = pair("replacesCertificateHash", c.replaces)
    BY <2>1, Pair
  <2>2. CASE m = optional("replacesCertificateHash", c.replaces)
    <3>1. CASE c.replaces = Null
      BY <2>2, <3>1, Optional
    <3>2. CASE c.replaces # Null
      <4>1. /\ DOMAIN m = {"replacesCertificateHash"}
            /\ m["replacesCertificateHash"] = c.replaces
        BY <2>2, <3>2, Optional
      <4> QED
        BY <3>2, <4>1
    <3> QED
      BY <3>1, <3>2
  <2> QED
    BY <1>m, <2>1, <2>2
<1>4. DOMAIN more \subseteq {"replacesCertificateHash"}
  BY <1>o, <1>m
<1>5. "replacesCertificateHash" \in DOMAIN more => more["replacesCertificateHash"] = c.replaces
  BY <1>o, <1>m
<1>6. "replacesCertificateHash" \notin DOMAIN more => c.replaces = Null
  BY <1>o, <1>m
<1> HIDE DEF p, more, d
<1>7. DOMAIN d = DOMAIN p \cup DOMAIN more /\ \A k \in DOMAIN p : d[k] = p[k]
  BY <1>1, MoreKeys, MoreKeepsKeys
<1>8. RequiredKey \subseteq DOMAIN p
  BY <1>2 DEF RequiredKey, DocumentKey, AnchorKey
<1>9. RequiredKey \subseteq DOMAIN d /\ DOMAIN d \subseteq DocumentKey
  BY <1>2, <1>4, <1>7, <1>8 DEF DocumentKey
<1>10. /\ d["id"] = p["id"] /\ d["badge"] = p["badge"] /\ d["verification"] = p["verification"]
       /\ d["recipient"] = p["recipient"] /\ d["proof"] = p["proof"]
  BY <1>7, <1>8 DEF RequiredKey, AnchorKey
<1>11. replacedBy(d) = c.replaces
  <2>1. "replacesCertificateHash" \in DOMAIN d <=> "replacesCertificateHash" \in DOMAIN more
    BY <1>2, <1>7
  <2>2. "replacesCertificateHash" \in DOMAIN more =>
          d["replacesCertificateHash"] = more["replacesCertificateHash"]
    BY <1>1, <1>2, MoreAddsKeys
  <2> QED
    BY <1>5, <1>6, <2>1, <2>2 DEF replacedBy, has
<1> QED
  BY <1>3, <1>9, <1>10, <1>11 DEF tellsOf, d


(* The same of the shape that takes the proof out of the document.         *)
LEMMA ApartTells ==
  ASSUME NEW c, NEW d, tellsOf(d, c)
  PROVE  tellsOf(pair("proof", d.proof) ++ without(d, "proof"), c)
<1> DEFINE p == pair("proof", d.proof)
           w == without(d, "proof")
           e == p ++ w
<1>1. DOMAIN p = {"proof"} /\ p["proof"] = d["proof"]
  BY Pair
<1>2. DOMAIN w = DOMAIN d \ {"proof"} /\ \A k \in DOMAIN d \ {"proof"} : w[k] = d[k]
  BY Without
<1> HIDE DEF p, w
<1>3. "proof" \in DOMAIN d
  BY DEF tellsOf, RequiredKey
<1>4. DOMAIN e = DOMAIN d
  <2>1. DOMAIN e = DOMAIN p \cup DOMAIN w
    BY MoreKeys
  <2> QED
    BY <1>1, <1>2, <1>3, <2>1
<1>5. ASSUME NEW k \in DOMAIN d PROVE e[k] = d[k]
  <2>1. CASE k = "proof"
    BY <1>1, <2>1, MoreKeepsKeys
  <2>2. CASE k # "proof"
    <3>1. k \in DOMAIN w \ DOMAIN p
      BY <1>1, <1>2, <2>2
    <3> QED
      BY <1>2, <2>2, <3>1, MoreAddsKeys
  <2> QED
    BY <2>1, <2>2
<1> HIDE DEF e
<1>6. replacedBy(e) = replacedBy(d)
  BY <1>4, <1>5 DEF replacedBy, has
<1>7. /\ e["id"] = d["id"] /\ e["badge"] = d["badge"] /\ e["verification"] = d["verification"]
      /\ e["recipient"] = d["recipient"] /\ e["proof"] = d["proof"]
  BY <1>5 DEF tellsOf, RequiredKey, AnchorKey
<1>8. tellsOf(e, c)
  BY <1>4, <1>6, <1>7 DEF tellsOf
<1> QED
  BY <1>8 DEF e, p, w

(* A batch's document has a key more than the schema allows.               *)
LEMMA BatchHasPayload ==
  ASSUME NEW c
  PROVE  "normalizedPayload" \in DOMAIN documentOf(c, "batch")
<1> DEFINE b == [c EXCEPT !.replaces = Null]
           plain == [id |-> b.id, badge |-> b.url, verification |-> b.network,
                     recipient |-> recipientOf(b), normalizedPayload |-> payloadOf(b)]
<1>1. batchAnchor(c) = plain ++ optional("replacesCertificateHash", b.replaces)
  BY DEF batchAnchor, buildHashAnchorDocument
<1>2. "normalizedPayload" \in DOMAIN plain
  OBVIOUS
<1> HIDE DEF plain
<1> HIDE DEF b
<1>3. "normalizedPayload" \in DOMAIN batchAnchor(c)
  <2>1. DOMAIN batchAnchor(c) =
          DOMAIN plain \cup DOMAIN optional("replacesCertificateHash", b.replaces)
    BY <1>1, MoreKeys
  <2> QED
    BY <1>2, <2>1
<1>4. documentOf(c, "batch") = batchAnchor(c) ++ published(batchAnchor(c))
  BY DEF documentOf, documentForIpfs
<1>5. DOMAIN documentOf(c, "batch") = DOMAIN batchAnchor(c) \cup DOMAIN published(batchAnchor(c))
  BY <1>4, MoreKeys
<1> QED
  BY <1>3, <1>5

(***************************************************************************)
(* Uploads                                                                 *)
(***************************************************************************)

(* The keys of an upload that wraps the document, and what is under them.  *)
LEMMA Envelope ==
  ASSUME NEW document, NEW email
  PROVE  LET u == pair("document", document) ++ optional("recipientEmail", email)
         IN /\ DOMAIN u = {"document"} \cup (IF email = Null THEN {} ELSE {"recipientEmail"})
            /\ u["document"] = document
            /\ email # Null => u["recipientEmail"] = email
<1> DEFINE p == pair("document", document)
           o == optional("recipientEmail", email)
           u == p ++ o
<1>1. DOMAIN p = {"document"} /\ p["document"] = document
  BY Pair
<1>2. DOMAIN o = IF email = Null THEN {} ELSE {"recipientEmail"}
  BY Optional
<1>3. email # Null => o["recipientEmail"] = email
  BY Optional
<1> HIDE DEF p, o
<1>4. DOMAIN u = DOMAIN p \cup DOMAIN o
  BY MoreKeys
<1>5. u["document"] = p["document"]
  BY <1>1, MoreKeepsKeys
<1>6. email # Null => u["recipientEmail"] = o["recipientEmail"]
  BY <1>1, <1>2, MoreAddsKeys
<1> HIDE DEF u
<1>7. /\ DOMAIN u = {"document"} \cup (IF email = Null THEN {} ELSE {"recipientEmail"})
      /\ u["document"] = document
      /\ email # Null => u["recipientEmail"] = email
  BY <1>1, <1>2, <1>3, <1>4, <1>5, <1>6
<1> QED
  BY <1>7 DEF u, p, o

(* The same of an upload that has the proof beside the certificate.        *)
LEMMA Apart ==
  ASSUME NEW certificate, NEW proof, NEW email
  PROVE  LET u == [certificate |-> certificate, proof |-> proof]
                  ++ optional("recipientEmail", email)
         IN /\ DOMAIN u = {"certificate", "proof"}
                          \cup (IF email = Null THEN {} ELSE {"recipientEmail"})
            /\ u["certificate"] = certificate /\ u["proof"] = proof
            /\ email # Null => u["recipientEmail"] = email
<1> DEFINE p == [certificate |-> certificate, proof |-> proof]
           o == optional("recipientEmail", email)
           u == p ++ o
<1>1. DOMAIN p = {"certificate", "proof"} /\ p["certificate"] = certificate /\ p["proof"] = proof
  OBVIOUS
<1>2. DOMAIN o = IF email = Null THEN {} ELSE {"recipientEmail"}
  BY Optional
<1>3. email # Null => o["recipientEmail"] = email
  BY Optional
<1> HIDE DEF p, o
<1>4. DOMAIN u = DOMAIN p \cup DOMAIN o
  BY MoreKeys
<1>5. u["certificate"] = p["certificate"] /\ u["proof"] = p["proof"]
  BY <1>1, MoreKeepsKeys
<1>6. email # Null => u["recipientEmail"] = o["recipientEmail"]
  BY <1>1, <1>2, MoreAddsKeys
<1> HIDE DEF u
<1>7. /\ DOMAIN u = {"certificate", "proof"}
                    \cup (IF email = Null THEN {} ELSE {"recipientEmail"})
      /\ u["certificate"] = certificate /\ u["proof"] = proof
      /\ email # Null => u["recipientEmail"] = email
  BY <1>1, <1>2, <1>3, <1>4, <1>5, <1>6
<1> QED
  BY <1>7 DEF u, p, o

(* A file of the earlier version is refused.                               *)
LEMMA LegacyRefused ==
  ASSUME NEW f \in File, f.origin = "legacy"
  PROVE  ~validateVerifierUpload(uploadOf(f))
<1> DEFINE u == uploadOf(f)
<1>1. /\ DOMAIN u = {"certificate", "proof"}
      /\ DOMAIN u["certificate"] = {"student"}
  BY DEF uploadOf, legacyUpload, payloadOf
<1> HIDE DEF u
<1>2. ~(RequiredKey \subseteq DOMAIN u)
  BY <1>1 DEF RequiredKey, AnchorKey
<1>3. ~({"document"} \subseteq DOMAIN u)
  BY <1>1
<1>4. ~(AnchorKey \subseteq DOMAIN u["certificate"])
  BY <1>1 DEF AnchorKey
<1>5. ~validateVerifierUpload(u)
  BY <1>2, <1>3, <1>4 DEF validateVerifierUpload, certificateSchema, strict
<1> QED
  BY <1>5 DEF u

(* The address stands beside what is uploaded, if it stands anywhere.      *)
addressIs(u, email) ==
  IF email = Null THEN "recipientEmail" \notin DOMAIN u
  ELSE "recipientEmail" \in DOMAIN u /\ u["recipientEmail"] = email

(* The document as it was given.                                           *)
LEMMA DocumentIsRead ==
  ASSUME NEW f \in File, f.origin \in {"answer", "ipfs", "batch"}, f.shape = "document",
         validateVerifierUpload(uploadOf(f))
  PROVE  /\ f.origin # "batch" /\ addressIs(uploadOf(f), f.email)
         /\ tellsOf(candidate(uploadOf(f)), f.certificate)
<1> DEFINE c == f.certificate
           d == documentOf(c, f.origin)
           u == uploadOf(f)
<1>1. u = d /\ f.email = Null
  BY PageAssumption DEF uploadOf
<1>2. f.origin = "batch" => "normalizedPayload" \in DOMAIN d
  BY BatchHasPayload
<1>3. f.origin # "batch" => tellsOf(d, c)
  BY DocumentsTell
<1> HIDE DEF c, d, u
<1>4. certificateSchema(u, RequiredKey) \/ DOMAIN u \subseteq {"document", "recipientEmail"}
      \/ DOMAIN u \subseteq {"certificate", "proof", "recipientEmail"}
  BY DEF validateVerifierUpload, strict, u
<1>5. f.origin # "batch"
  BY <1>1, <1>2, <1>4 DEF certificateSchema, DocumentKey, AnchorKey
<1>6. tellsOf(u, c)
  BY <1>1, <1>3, <1>5
<1>7. DOMAIN u \subseteq DocumentKey
  BY <1>6 DEF tellsOf
<1>8. /\ "document" \notin DOMAIN u /\ "certificate" \notin DOMAIN u
      /\ "recipientEmail" \notin DOMAIN u
  BY <1>7 DEF DocumentKey, AnchorKey
<1>9. candidate(u) = u
  BY <1>8 DEF candidate, has
<1>10. addressIs(u, f.email)
  BY <1>1, <1>8 DEF addressIs
<1> QED
  BY <1>5, <1>6, <1>9, <1>10 DEF u, c

(* The document with the address beside it.                                *)
LEMMA EnvelopeIsRead ==
  ASSUME NEW f \in File, f.origin \in {"answer", "ipfs", "batch"}, f.shape = "envelope",
         validateVerifierUpload(uploadOf(f))
  PROVE  /\ f.origin # "batch" /\ addressIs(uploadOf(f), f.email)
         /\ tellsOf(candidate(uploadOf(f)), f.certificate)
<1> DEFINE c == f.certificate
           d == documentOf(c, f.origin)
           u == uploadOf(f)
<1>1. u = pair("document", d) ++ optional("recipientEmail", f.email)
  BY DEF uploadOf
<1>2. f.origin = "batch" => "normalizedPayload" \in DOMAIN d
  BY BatchHasPayload
<1>3. f.origin # "batch" => tellsOf(d, c)
  BY DocumentsTell
<1>v. validateVerifierUpload(u)
  OBVIOUS
<1> HIDE DEF c, d, u
<1>4. /\ DOMAIN u = {"document"} \cup (IF f.email = Null THEN {} ELSE {"recipientEmail"})
      /\ u["document"] = d
      /\ f.email # Null => u["recipientEmail"] = f.email
  BY <1>1, Envelope
<1>5. ~(RequiredKey \subseteq DOMAIN u) /\ "certificate" \notin DOMAIN u
      /\ "proof" \notin DOMAIN u /\ "document" \in DOMAIN u
  BY <1>4 DEF RequiredKey, AnchorKey
<1>6. certificateSchema(d, RequiredKey)
  BY <1>v, <1>4, <1>5 DEF validateVerifierUpload, strict, certificateSchema
<1>7. f.origin # "batch"
  BY <1>2, <1>6 DEF certificateSchema, DocumentKey, AnchorKey
<1>8. candidate(u) = d
  BY <1>4, <1>5 DEF candidate, has
<1>9. addressIs(u, f.email)
  BY <1>4 DEF addressIs
<1> QED
  BY <1>3, <1>7, <1>8, <1>9 DEF u, c

(* The certificate and its proof, side by side.                            *)
LEMMA CertificateIsRead ==
  ASSUME NEW f \in File, f.origin \in {"answer", "ipfs", "batch"}, f.shape = "certificate",
         validateVerifierUpload(uploadOf(f))
  PROVE  /\ f.origin # "batch" /\ addressIs(uploadOf(f), f.email)
         /\ tellsOf(candidate(uploadOf(f)), f.certificate)
<1> DEFINE c == f.certificate
           d == documentOf(c, f.origin)
           w == without(d, "proof")
           u == uploadOf(f)
<1>1. u = [certificate |-> w, proof |-> d.proof] ++ optional("recipientEmail", f.email)
  BY DEF uploadOf
<1>2. f.origin = "batch" => "normalizedPayload" \in DOMAIN d
  BY BatchHasPayload
<1>3. f.origin # "batch" => tellsOf(d, c)
  BY DocumentsTell
<1>v. validateVerifierUpload(u)
  OBVIOUS
<1>w. DOMAIN w = DOMAIN d \ {"proof"}
  BY Without
<1> HIDE DEF c, d, u, w
<1>4. /\ DOMAIN u = {"certificate", "proof"}
                    \cup (IF f.email = Null THEN {} ELSE {"recipientEmail"})
      /\ u["certificate"] = w /\ u["proof"] = d.proof
      /\ f.email # Null => u["recipientEmail"] = f.email
  BY <1>1, Apart
<1>5. ~(RequiredKey \subseteq DOMAIN u) /\ "certificate" \in DOMAIN u
      /\ "proof" \in DOMAIN u /\ "document" \notin DOMAIN u
  BY <1>4 DEF RequiredKey, AnchorKey
<1>6. certificateSchema(w, AnchorKey)
  BY <1>v, <1>4, <1>5 DEF validateVerifierUpload, strict, certificateSchema
<1>7. f.origin # "batch"
  BY <1>2, <1>6, <1>w DEF certificateSchema, DocumentKey, AnchorKey
<1>8. candidate(u) = pair("proof", d.proof) ++ w
  BY <1>4, <1>5 DEF candidate, has
<1>9. addressIs(u, f.email)
  BY <1>4 DEF addressIs
<1>10. tellsOf(pair("proof", d.proof) ++ w, c)
  BY <1>3, <1>7, ApartTells DEF w
<1> QED
  BY <1>7, <1>8, <1>9, <1>10 DEF u, c

(* An upload the browser accepts tells of its certificate.                 *)
LEMMA AcceptedTells ==
  ASSUME NEW f \in File, validateVerifierUpload(uploadOf(f))
  PROVE  /\ f.origin \in {"answer", "ipfs"} /\ addressIs(uploadOf(f), f.email)
         /\ tellsOf(candidate(uploadOf(f)), f.certificate)
<1>1. f.origin \in {"answer", "ipfs", "batch"}
  BY LegacyRefused, PageAssumption DEF Origin
<1>2. f.shape \in {"document", "envelope", "certificate"}
  BY PageAssumption DEF Shape
<1> QED
  BY <1>1, <1>2, DocumentIsRead, EnvelopeIsRead, CertificateIsRead

(***************************************************************************)
(* What the two readers make of a document                                 *)
(***************************************************************************)

(* The anchored document, key by key.                                      *)
plainOf(c) ==
  [id |-> c.id, badge |-> c.url, verification |-> c.network, recipient |-> recipientOf(c),
   normalizedPayload |-> payloadOf(c)]

(* The keys a reader takes of a document, with the payload, are the same.  *)
LEMMA ReadAnchor ==
  ASSUME NEW d, NEW c, tellsOf(d, c)
  PROVE  Restrict(d, AnchorKey) ++ pair("normalizedPayload", payloadOf(c)) = plainOf(c)
<1> DEFINE r == Restrict(d, AnchorKey)
           p == pair("normalizedPayload", payloadOf(c))
           e == r ++ p
<1>1. AnchorKey \subseteq DOMAIN d
  BY DEF tellsOf, RequiredKey
<1>2. DOMAIN r = AnchorKey /\ \A k \in AnchorKey : r[k] = d[k]
  BY DEF Restrict
<1>3. DOMAIN p = {"normalizedPayload"} /\ p["normalizedPayload"] = payloadOf(c)
  BY Pair
<1>4. e = [k \in DOMAIN r \cup DOMAIN p |-> IF k \in DOMAIN r THEN r[k] ELSE p[k]]
  BY DEF ++, has
<1> HIDE DEF r, p, e
<1>5. e = [k \in {"id", "badge", "verification", "recipient", "normalizedPayload"} |->
             IF k \in AnchorKey THEN d[k] ELSE payloadOf(c)]
  BY <1>1, <1>2, <1>3, <1>4 DEF AnchorKey
<1>6. /\ d["id"] = c.id /\ d["badge"] = c.url /\ d["verification"] = c.network
      /\ d["recipient"] = recipientOf(c)
  BY DEF tellsOf
<1>7. e = plainOf(c)
  BY <1>5, <1>6 DEF plainOf, AnchorKey
<1> QED
  BY <1>7 DEF e, r, p

(* Both readers rebuild the document that was anchored.                    *)
LEMMA BothReadTheAnchor ==
  ASSUME NEW d, NEW c, tellsOf(d, c)
  PROVE  /\ browserAnchor(d, payloadOf(c)) = buildHashAnchorDocument(c)
         /\ serverAnchor(d, payloadOf(c)) = buildHashAnchorDocument(c)
<1>1. AnchorKey \subseteq DOMAIN d /\ replacedBy(d) = c.replaces
  BY DEF tellsOf, RequiredKey
<1>2. buildHashAnchorDocument(c) = plainOf(c) ++ optional("replacesCertificateHash", c.replaces)
  BY DEF buildHashAnchorDocument, plainOf
<1>3. Restrict(d, AnchorKey) ++ pair("normalizedPayload", payloadOf(c)) = plainOf(c)
  BY ReadAnchor
<1> QED
  BY <1>1, <1>2, <1>3 DEF browserAnchor, serverAnchor

(* What either reader makes of a document of c with this address.          *)
inputOf(c, email) ==
  [normalizedPayload |-> payloadOf(c),
   certificateHash |-> hashCertificateData(buildHashAnchorDocument(c)),
   anchor |-> buildHashAnchorDocument(c), recipient |-> recipientOf(c),
   recipientEmail |-> email, replacesCertificateHash |-> c.replaces]

(* The upload passes the schema and names a network the browser knows.     *)
accepted(u) == validateVerifierUpload(u) /\ resolveChainConfig(candidate(u))

(* What a reader takes from the proof.                                     *)
LEMMA ProofIsRead ==
  ASSUME NEW d, NEW c, tellsOf(d, c)
  PROVE  /\ has(d, "proof") /\ has(d, "recipient") /\ has(d.proof, "normalizedPayload")
         /\ d.proof.normalizedPayload = payloadOf(c)
         /\ d.proof.certificateHash = hashCertificateData(buildHashAnchorDocument(c))
<1>1. d.proof = proofOf(buildHashAnchorDocument(c)) /\ RequiredKey \subseteq DOMAIN d
  BY DEF tellsOf
<1>2. buildHashAnchorDocument(c).normalizedPayload = payloadOf(c)
  BY Anchored
<1>3. /\ DOMAIN d.proof = {"certificateHash", "normalizedPayload", "signerAddress"}
      /\ d.proof.normalizedPayload = payloadOf(c)
      /\ d.proof.certificateHash = hashCertificateData(buildHashAnchorDocument(c))
  BY <1>1, <1>2 DEF proofOf
<1> QED
  BY <1>1, <1>3 DEF has, RequiredKey, AnchorKey

(* The browser, an address typed in the form first.                        *)
LEMMA BrowserReads ==
  ASSUME NEW f \in File, NEW typed, accepted(uploadOf(f))
  PROVE  browserInput(uploadOf(f), typed)
         = inputOf(f.certificate, IF typed # Null THEN typed ELSE f.email)
<1> DEFINE c == f.certificate
           u == uploadOf(f)
           d == candidate(u)
           email == IF typed # Null THEN typed
                    ELSE IF has(u, "recipientEmail") THEN u.recipientEmail ELSE Null
<1>1. tellsOf(d, c) /\ addressIs(u, f.email)
  BY AcceptedTells DEF accepted
<1>2. email = IF typed # Null THEN typed ELSE f.email
  BY <1>1 DEF addressIs, has
<1>3. validateVerifierUpload(u) /\ resolveChainConfig(d)
  BY DEF accepted
<1> HIDE DEF c, u, d, email
<1>4. /\ d.proof.normalizedPayload = payloadOf(c)
      /\ d.proof.certificateHash = hashCertificateData(buildHashAnchorDocument(c))
      /\ d.recipient = recipientOf(c) /\ replacedBy(d) = c.replaces
  BY <1>1, ProofIsRead DEF tellsOf
<1>5. browserAnchor(d, payloadOf(c)) = buildHashAnchorDocument(c)
  BY <1>1, BothReadTheAnchor
<1>6. browserInput(u, typed) =
        [normalizedPayload |-> d.proof.normalizedPayload,
         certificateHash |-> d.proof.certificateHash,
         anchor |-> browserAnchor(d, d.proof.normalizedPayload), recipient |-> d.recipient,
         recipientEmail |-> email, replacesCertificateHash |-> replacedBy(d)]
  BY <1>3 DEF browserInput, d, email
<1>7. browserInput(u, typed) = inputOf(c, email)
  BY <1>4, <1>5, <1>6 DEF inputOf
<1> QED
  BY <1>2, <1>7 DEF u, c

(* The backend.                                                            *)
LEMMA ServerReads ==
  ASSUME NEW f \in File, accepted(uploadOf(f))
  PROVE  serverInput(uploadOf(f)) = inputOf(f.certificate, f.email)
<1> DEFINE c == f.certificate
           u == uploadOf(f)
           d == candidate(u)
           email == IF has(u, "recipientEmail") THEN u.recipientEmail ELSE Null
<1>1. tellsOf(d, c) /\ addressIs(u, f.email)
  BY AcceptedTells DEF accepted
<1>2. email = f.email
  BY <1>1 DEF addressIs, has
<1> HIDE DEF c, u, d, email
<1>3. /\ has(d, "recipient") /\ has(d.proof, "normalizedPayload")
      /\ d.proof.normalizedPayload = payloadOf(c)
      /\ d.proof.certificateHash = hashCertificateData(buildHashAnchorDocument(c))
      /\ d.recipient = recipientOf(c) /\ replacedBy(d) = c.replaces
  BY <1>1, ProofIsRead DEF tellsOf
<1>4. serverAnchor(d, payloadOf(c)) = buildHashAnchorDocument(c)
  BY <1>1, BothReadTheAnchor
<1>5. serverInput(u) =
        [normalizedPayload |-> payloadOf(c), certificateHash |-> d.proof.certificateHash,
         anchor |-> serverAnchor(d, payloadOf(c)), recipient |-> d.recipient,
         recipientEmail |-> email, replacesCertificateHash |-> replacedBy(d)]
  BY <1>3 DEF serverInput, d, email
<1>6. serverInput(u) = inputOf(c, email)
  BY <1>3, <1>4, <1>5 DEF inputOf
<1> QED
  BY <1>2, <1>6 DEF u, c

(* The hash that an input of a certificate carries is the one it has.      *)
LEMMA InputMatches ==
  ASSUME NEW c \in Certificate, NEW email
  PROVE  hashMatches(inputOf(c, email))
<1>1. buildHashAnchorDocument(c) # Null
  BY NullAssumption
<1>2. /\ inputOf(c, email).anchor = buildHashAnchorDocument(c)
      /\ inputOf(c, email).certificateHash = hashCertificateData(buildHashAnchorDocument(c))
  BY DEF inputOf
<1> QED
  BY <1>1, <1>2 DEF hashMatches

(* Every document the browser accepts reads back, whatever address the     *)
(* visitor types.                                                          *)
LEMMA AcceptedReadsBack ==
  ASSUME NEW f \in File, accepted(uploadOf(f))
  PROVE  /\ \A typed : hashMatches(browserInput(uploadOf(f), typed))
         /\ readsAs(f).certificateHash = anchoredHash(f.certificate, f.origin)
         /\ readsAs(f) = serverInput(uploadOf(f))
<1>1. \A typed : browserInput(uploadOf(f), typed)
                 = inputOf(f.certificate, IF typed # Null THEN typed ELSE f.email)
  BY BrowserReads
<1>2. f.certificate \in Certificate
  BY PageAssumption
<1>3. \A typed : hashMatches(browserInput(uploadOf(f), typed))
  <2> TAKE typed
  <2> QED
    BY <1>1, <1>2, InputMatches
<1>4. readsAs(f) = inputOf(f.certificate, f.email)
  BY <1>1 DEF readsAs
<1>5. readsAs(f).certificateHash = hashCertificateData(buildHashAnchorDocument(f.certificate))
  BY <1>4 DEF inputOf
<1>6. f.origin \in {"answer", "ipfs"}
  BY AcceptedTells DEF accepted
<1>7. anchoredHash(f.certificate, f.origin)
      = hashCertificateData(buildHashAnchorDocument(f.certificate))
  BY <1>6 DEF anchoredHash
<1> QED
  BY <1>3, <1>4, <1>5, <1>7, ServerReads

(***************************************************************************)
(* The inductive invariant                                                 *)
(***************************************************************************)

(* Of the form of the code: a verification under way that no later one has *)
(* overtaken is of the code in the input, unless it was edited since.      *)
hashOK(form) ==
  /\ form \in HashForm
  /\ form.isVerifying => form.calls # {}
  /\ \A c \in form.calls : c.overtaken \/ form.edited \/ c.code = form.certificateHash
  /\ form.hashResult # NoResult =>
       \/ form.edited \/ form.hashResult.overtaken
       \/ form.hashResult.of = form.certificateHash

(* A result is of an accepted file, with the hash that was anchored.       *)
readBack(r) ==
  /\ r.of \in File /\ accepted(uploadOf(r.of)) /\ r.hashMatches
  /\ r.overallValid => r.emailMatches \in {TRUE, Null}

(* What is verified, or shown, is the file named, if that had been read    *)
(* last, and the address typed.                                            *)
ofTheForm(form, of, email) ==
  /\ form.basis = "read" => of = form.jsonFileName
  /\ form.reAddressed \/ form.email = Null \/ email = form.email

(* The chosen file was read, and no other since: what is to be verified is *)
(* that file, if its read gave a document.                                 *)
readLast(form) ==
  form.jsonFileName # NoFile /\ form.jsonFileName \notin form.reads /\ ~form.crossed =>
    form.uploaded \in {NoFile, form.jsonFileName}

(* Of the form of the file.                                                *)
fileOK(form) ==
  /\ form \in FileForm
  /\ readLast(form)
  /\ form.documentResult # NoResult => form.call = NoVerification
  /\ form.call # NoVerification => ofTheForm(form, form.call.of, form.call.email)
  /\ form.documentResult # NoResult =>
       /\ ofTheForm(form, form.documentResult.of, form.documentResult.email)
       /\ readBack(form.documentResult)
  /\ form.exporting # NoResult => readBack(form.exporting)

PageInv ==
  /\ used \in {"hash", "file"} /\ disk \subseteq File \cup {NotJson}
  /\ hashOK(hash) /\ fileOK(file)

(* The page is opened with empty forms, and maybe a code in its URL.       *)
LEMMA InitInv == PageInit => PageInv
<1> SUFFICES ASSUME PageInit PROVE PageInv
  OBVIOUS
<1>1. ASSUME NEW code \in Code \cup {NoCode} PROVE hashOK([NoHashForm EXCEPT !.query = code])
  BY <1>1 DEF hashOK, NoHashForm, HashForm
<1>2. hashOK(NoHashForm)
  BY DEF hashOK, NoHashForm, HashForm
<1>3. fileOK(NoFileForm)
  BY DEF fileOK, readLast, NoFileForm, FileForm, AnyFile, Typed
<1>4. hashOK(hash) /\ used \in {"hash", "file"} /\ disk \subseteq File \cup {NotJson}
  BY <1>1, <1>2 DEF PageInit
<1> QED
  BY <1>3, <1>4 DEF PageInit, PageInv

(***************************************************************************)
(* The form of the code                                                    *)
(***************************************************************************)

(* A verification begins, of the code in the input.                        *)
LEMMA CallStarted ==
  ASSUME NEW form, NEW code \in Code, form \in HashForm, form.certificateHash = code
  PROVE  hashOK([form EXCEPT !.isVerifying = TRUE, !.error = FALSE, !.hashResult = NoResult,
                   !.edited = FALSE,
                   !.calls = {[c EXCEPT !.overtaken = TRUE] : c \in @}
                             \cup {[code |-> code, overtaken |-> FALSE]}])
<1> DEFINE older == {[c EXCEPT !.overtaken = TRUE] : c \in form.calls}
           new == [code |-> code, overtaken |-> FALSE]
           calls == older \cup {new}
           next == [form EXCEPT !.isVerifying = TRUE, !.error = FALSE, !.hashResult = NoResult,
                      !.edited = FALSE, !.calls = calls]
<1>1. form \in HashForm /\ form.calls \subseteq HashCall
  BY DEF HashForm
<1>2. older \subseteq HashCall /\ \A c \in older : c.overtaken
  BY <1>1 DEF HashCall
<1>3. new \in HashCall /\ new.code = code
  BY DEF HashCall
<1>4. calls \in SUBSET HashCall /\ calls # {} /\ \A c \in calls : c.overtaken \/ c.code = code
  BY <1>2, <1>3
<1> HIDE DEF calls
<1>5. next \in HashForm
  BY <1>1, <1>4 DEF HashForm
<1>6. next.calls = calls /\ next.certificateHash = code /\ next.hashResult = NoResult
  BY <1>1 DEF HashForm
<1> HIDE DEF next
<1>7. hashOK(next)
  BY <1>4, <1>5, <1>6 DEF hashOK
<1> QED
  BY <1>7 DEF next, calls

(* One of those under way ends, with a result or with an error.            *)
LEMMA CallEnded ==
  ASSUME NEW form, hashOK(form), NEW call \in form.calls
  PROVE  LET ended == [form EXCEPT !.calls = @ \ {call}, !.isVerifying = FALSE]
         IN /\ \A status \in Status :
                 hashOK([ended EXCEPT !.hashResult =
                   [of |-> call.code, status |-> status, overtaken |-> call.overtaken]])
            /\ hashOK([ended EXCEPT !.error = TRUE])
<1> DEFINE ended == [form EXCEPT !.calls = @ \ {call}, !.isVerifying = FALSE]
           result(status) ==
             [of |-> call.code, status |-> status, overtaken |-> call.overtaken]
<1>1. form \in HashForm /\ call \in HashCall
  BY DEF hashOK, HashForm
<1>2. call.overtaken \/ form.edited \/ call.code = form.certificateHash
  BY DEF hashOK
<1>3. \A status \in Status : /\ result(status) \in HashResult /\ result(status).of = call.code
                             /\ result(status).overtaken = call.overtaken
  BY <1>1 DEF HashResult, HashCall
<1> HIDE DEF result
<1>4. /\ ended \in HashForm /\ ended.calls \subseteq form.calls /\ ~ended.isVerifying
      /\ ended.certificateHash = form.certificateHash /\ ended.edited = form.edited
      /\ ended.hashResult = form.hashResult
  BY <1>1 DEF HashForm
<1> HIDE DEF ended
<1>5. hashOK(ended)
  BY <1>4 DEF hashOK
<1>6. ASSUME NEW status \in Status PROVE hashOK([ended EXCEPT !.hashResult = result(status)])
  <2>1. /\ result(status) \in HashResult /\ result(status).of = call.code
        /\ result(status).overtaken = call.overtaken
    BY <1>3
  <2> QED
    BY <1>2, <1>4, <1>5, <2>1 DEF hashOK, HashForm
<1>7. hashOK([ended EXCEPT !.error = TRUE])
  BY <1>5 DEF hashOK, HashForm
<1> QED
  BY <1>6, <1>7 DEF ended, result

(* Every step of the form of the code keeps its invariant.                 *)
LEMMA HashKept ==
  ASSUME hashOK(hash), hashStep
  PROVE  hashOK(hash')
<1>0. hash \in HashForm
  BY DEF hashOK
<1>1. ASSUME NEW code \in Code \cup {NoCode}, handleChange(code) PROVE hashOK(hash')
  BY <1>1 DEF handleChange, hashForm, hashOK, HashForm
<1>2. ASSUME NEW code \in Code \cup {NoCode}, navigateTo(code) PROVE hashOK(hash')
  BY <1>2 DEF navigateTo, hashForm, hashOK, HashForm
<1>3. CASE handleHashSubmit
  <2>1. hash.certificateHash \in Code
    BY <1>0, <1>3 DEF handleHashSubmit, HashForm
  <2> QED
    BY <1>0, <1>3, <2>1, CallStarted DEF handleHashSubmit, verifyByHash, hashForm
<1>4. CASE validateQuery
  <2> DEFINE shown == [hash EXCEPT !.autoValidated = hash.query, !.certificateHash = hash.query]
  <2>1. hash.query \in Code
    BY <1>0, <1>4 DEF validateQuery, HashForm
  <2>2. shown \in HashForm /\ shown.certificateHash = hash.query
    BY <1>0, <2>1 DEF HashForm
  <2>3. verifyByHash(shown, hash.query)
    BY <1>4 DEF validateQuery
  <2> HIDE DEF shown
  <2> QED
    BY <2>1, <2>2, <2>3, CallStarted DEF verifyByHash, hashForm
<1>5. ASSUME NEW call \in hash.calls, hashVerified(call) PROVE hashOK(hash')
  <2> DEFINE ended == [hash EXCEPT !.calls = @ \ {call}, !.isVerifying = FALSE]
  <2>1. \/ \E status \in Status :
             hash' = [ended EXCEPT !.hashResult =
                       [of |-> call.code, status |-> status, overtaken |-> call.overtaken]]
        \/ hash' = [ended EXCEPT !.error = TRUE]
    BY <1>5 DEF hashVerified, hashForm
  <2>2. /\ \A status \in Status :
             hashOK([ended EXCEPT !.hashResult =
               [of |-> call.code, status |-> status, overtaken |-> call.overtaken]])
        /\ hashOK([ended EXCEPT !.error = TRUE])
    BY CallEnded
  <2> HIDE DEF ended
  <2> QED
    BY <2>1, <2>2
<1> QED
  BY <1>1, <1>2, <1>3, <1>4, <1>5 DEF hashStep

(***************************************************************************)
(* The form of the file                                                    *)
(***************************************************************************)

(* The result of an accepted file is of the address typed, if one was, and *)
(* reads back.                                                             *)
LEMMA ResultReadsBack ==
  ASSUME NEW call \in Verification, NEW status \in Status, accepted(uploadOf(call.of))
  PROVE  /\ verified(call, status) \in DocumentResult
         /\ verified(call, status).of = call.of
         /\ call.email # Null => verified(call, status).email = call.email
         /\ readBack(verified(call, status))
<1> DEFINE f == call.of
           input == browserInput(uploadOf(f), call.email)
           matches == computeRecipientIdentityMatch(input)
           overall == overallValid(input, status)
           r == verified(call, status)
<1>1. f \in File /\ call.email \in Email \cup {Null} /\ f.email \in Email \cup {Null}
  BY PageAssumption DEF Verification
<1>2. input = inputOf(f.certificate, IF call.email # Null THEN call.email ELSE f.email)
  BY <1>1, BrowserReads
<1>3. input.recipientEmail = IF call.email # Null THEN call.email ELSE f.email
  BY <1>2 DEF inputOf
<1>4. hashMatches(input)
  BY <1>1, AcceptedReadsBack
<1>5. r = [of |-> f, email |-> input.recipientEmail, hashMatches |-> hashMatches(input),
           emailMatches |-> matches, overallValid |-> overall]
  BY DEF verified
<1>6. matches \in BOOLEAN \cup {Null}
  BY DEF computeRecipientIdentityMatch
<1>7. overall \in BOOLEAN /\ (overall => matches # FALSE)
  BY DEF overallValid
<1> HIDE DEF f, input, matches, overall
<1>8. hashMatches(input) = TRUE
  BY <1>4
<1>9. r \in DocumentResult
  BY <1>1, <1>3, <1>5, <1>6, <1>7, <1>8 DEF DocumentResult
<1>10. /\ r.of = f /\ r.email = input.recipientEmail /\ r.hashMatches
       /\ r.emailMatches = matches /\ r.overallValid = overall
  BY <1>5, <1>8
<1>11. readBack(r)
  BY <1>1, <1>6, <1>7, <1>10 DEF readBack, f
<1> QED
  BY <1>3, <1>9, <1>10, <1>11 DEF f

(* Every step of the form of the file keeps its invariant.                 *)
LEMMA FileKept ==
  ASSUME fileOK(file), disk \subseteq File \cup {NotJson}, fileStep
  PROVE  fileOK(file')
<1>0. file \in FileForm
  BY DEF fileOK
<1>1. ASSUME NEW f \in disk \cup {NoFile}, chooseFile(f) PROVE fileOK(file')
  <2>1. f \in AnyFile
    BY <1>1 DEF AnyFile
  <2> QED
    BY <1>0, <1>1, <2>1 DEF chooseFile, fileForm, fileOK, FileForm, ofTheForm, readLast
<1>2. ASSUME NEW f \in disk \cup {NoFile}, fileRead(f) PROVE fileOK(file')
  <2> DEFINE crossed == f # file.jsonFileName /\ file.jsonFileName \notin file.reads
  <2>1. PICK uploaded \in File \cup {NoFile}, error \in {file.error, "read"} :
          /\ uploaded \in {NoFile, f}
          /\ file' = [file EXCEPT !.reads = @ \ {f}, !.crossed = crossed,
                                  !.uploaded = uploaded, !.error = error]
    <3>1. CASE f = NotJson
      BY <1>0, <1>2, <3>1 DEF fileRead, readEnded, fileForm, FileForm
    <3>2. CASE f # NotJson
      <4>1. f \in File \cup {NoFile}
        BY <1>2, <3>2
      <4> QED
        BY <1>0, <1>2, <3>2, <4>1 DEF fileRead, readEnded, fileForm, FileForm
    <3> QED
      BY <3>1, <3>2
  <2>2. /\ crossed \in BOOLEAN
        /\ file.jsonFileName \notin file.reads \ {f} /\ ~crossed => f = file.jsonFileName
    OBVIOUS
  <2> HIDE DEF crossed
  <2>3. /\ file' \in FileForm /\ file'.reads = file.reads \ {f} /\ file'.crossed = crossed
        /\ file'.uploaded = uploaded /\ file'.jsonFileName = file.jsonFileName
        /\ file'.basis = file.basis /\ file'.reAddressed = file.reAddressed
        /\ file'.email = file.email /\ file'.call = file.call
        /\ file'.documentResult = file.documentResult /\ file'.exporting = file.exporting
    BY <1>0, <2>1, <2>2 DEF FileForm
  <2>4. readLast(file')
    BY <2>1, <2>2, <2>3 DEF readLast
  <2> QED
    BY <2>3, <2>4 DEF fileOK, ofTheForm
<1>3. ASSUME NEW email \in Typed, changeEmail(email) PROVE fileOK(file')
  BY <1>0, <1>3 DEF changeEmail, fileForm, fileOK, FileForm, ofTheForm, readLast
<1>4. CASE submitRefused
  BY <1>0, <1>4 DEF submitRefused, fileForm, fileOK, FileForm, ofTheForm, readLast
<1>5. CASE handleDocumentSubmit
  <2> DEFINE basis == IF file.jsonFileName \in file.reads THEN "unread"
                      ELSE IF file.crossed THEN "crossed" ELSE "read"
             call == [of |-> file.uploaded, email |-> file.email]
  <2>1. /\ file.uploaded # NoFile /\ file.jsonFileName # NoFile
        /\ file' = [file EXCEPT !.documentResult = NoResult, !.error = "none", !.call = call,
                                !.reAddressed = FALSE, !.basis = basis]
    BY <1>5 DEF handleDocumentSubmit, submittable, fileForm
  <2>2. call \in Verification /\ call.of = file.uploaded /\ call.email = file.email
    BY <1>0, <1>5 DEF handleDocumentSubmit, FileForm, Verification, Typed
  <2>3. basis = "read" => file.jsonFileName \notin file.reads /\ ~file.crossed
    OBVIOUS
  <2>4. basis \in {"read", "unread", "crossed", "replaced"}
    OBVIOUS
  <2>5. basis = "read" => file.uploaded = file.jsonFileName
    BY <2>1, <2>3 DEF fileOK, readLast
  <2> HIDE DEF basis, call
  <2>6. /\ file' \in FileForm /\ file'.call = call /\ file'.basis = basis
        /\ file'.documentResult = NoResult /\ file'.exporting = file.exporting
        /\ file'.jsonFileName = file.jsonFileName /\ file'.email = file.email
        /\ file'.reads = file.reads /\ file'.crossed = file.crossed
        /\ file'.uploaded = file.uploaded
    BY <1>0, <2>1, <2>2, <2>4 DEF FileForm
  <2>7. readLast(file') /\ ofTheForm(file', call.of, call.email)
    BY <2>2, <2>5, <2>6 DEF readLast, ofTheForm, fileOK
  <2> QED
    BY <2>6, <2>7 DEF fileOK
<1>6. CASE documentVerified
  <2> DEFINE ended == [file EXCEPT !.call = NoVerification]
  <2>1. /\ file.call \in Verification
        /\ ofTheForm(file, file.call.of, file.call.email)
    BY <1>0, <1>6 DEF documentVerified, fileOK, FileForm
  <2>2. CASE \E error : file' = [ended EXCEPT !.error = error] /\ error \in {"schema", "network"}
    <3>1. PICK error \in {"schema", "network"} : file' = [ended EXCEPT !.error = error]
      BY <2>2
    <3>2. /\ file' \in FileForm /\ file'.call = NoVerification
          /\ file'.documentResult = NoResult /\ file'.exporting = file.exporting
          /\ file'.jsonFileName = file.jsonFileName /\ file'.reads = file.reads
          /\ file'.crossed = file.crossed /\ file'.uploaded = file.uploaded
      BY <1>0, <1>6, <3>1 DEF documentVerified, fileOK, FileForm
    <3>3. readLast(file')
      BY <3>2 DEF fileOK, readLast
    <3> QED
      BY <3>2, <3>3 DEF fileOK
  <2>3. ASSUME NEW status \in Status, accepted(uploadOf(file.call.of)),
               file' = [ended EXCEPT !.documentResult = verified(file.call, status)]
        PROVE  fileOK(file')
    <3> DEFINE r == verified(file.call, status)
    <3>1. /\ r \in DocumentResult /\ r.of = file.call.of /\ readBack(r)
          /\ file.call.email # Null => r.email = file.call.email
      BY <2>1, <2>3, ResultReadsBack
    <3>2. file' = [ended EXCEPT !.documentResult = r]
      BY <2>3
    <3> HIDE DEF r
    <3>3. /\ file' \in FileForm /\ file'.call = NoVerification /\ file'.documentResult = r
          /\ file'.exporting = file.exporting /\ file'.basis = file.basis
          /\ file'.crossed = file.crossed /\ file'.reads = file.reads
          /\ file'.uploaded = file.uploaded
          /\ file'.reAddressed = file.reAddressed /\ file'.jsonFileName = file.jsonFileName
          /\ file'.email = file.email
      BY <1>0, <3>1, <3>2 DEF FileForm
    <3>4. ofTheForm(file', r.of, r.email)
      BY <2>1, <3>1, <3>3 DEF ofTheForm
    <3>5. readLast(file')
      BY <3>3 DEF fileOK, readLast
    <3> QED
      BY <3>1, <3>3, <3>4, <3>5 DEF fileOK
  <2> QED
    BY <1>6, <2>2, <2>3 DEF documentVerified, fileForm, browserInput, accepted
<1>7. CASE handleExport
  BY <1>0, <1>7 DEF handleExport, fileForm, fileOK, FileForm, ofTheForm, readLast
<1>8. CASE exportEnded
  <2>1. PICK error \in {file.error, "pdf"} :
          file' = [file EXCEPT !.exporting = NoResult, !.error = error]
    BY <1>8 DEF exportEnded, fileForm
  <2>2. /\ file' \in FileForm /\ file'.exporting = NoResult /\ file'.call = file.call
        /\ file'.documentResult = file.documentResult /\ file'.basis = file.basis
        /\ file'.jsonFileName = file.jsonFileName /\ file'.email = file.email
        /\ file'.reads = file.reads /\ file'.crossed = file.crossed
        /\ file'.uploaded = file.uploaded /\ file'.reAddressed = file.reAddressed
    BY <1>0, <2>1 DEF FileForm
  <2> QED
    BY <2>2 DEF fileOK, ofTheForm, readLast
<1> QED
  BY <1>1, <1>2, <1>3, <1>4, <1>5, <1>6, <1>7, <1>8 DEF fileStep

(***************************************************************************)
(* Theorems                                                                *)
(***************************************************************************)

(* The invariant holds of every state of the page: neither a new file, a   *)
(* new code nor a late answer breaks it (VerificationForm 30-197).         *)
THEOREM PageInvariance == PageSpec => []PageInv
<1>1. PageInv /\ [PageNext]_pageVars => PageInv'
  <2> SUFFICES ASSUME PageInv, [PageNext]_pageVars PROVE PageInv'
    OBVIOUS
  <2> USE DEF PageInv
  <2>1. CASE hashStep
    <3>1. UNCHANGED <<used, disk, file>>
      BY <2>1 DEF hashStep, handleChange, navigateTo, handleHashSubmit, validateQuery,
        verifyByHash, hashVerified, hashForm
    <3> QED
      BY <2>1, <3>1, HashKept
  <2>2. CASE fileStep
    <3>1. UNCHANGED <<used, disk, hash>>
      BY <2>2 DEF fileStep, chooseFile, fileRead, changeEmail, submitRefused,
        handleDocumentSubmit, documentVerified, handleExport, exportEnded, fileForm
    <3> QED
      BY <2>2, <3>1, FileKept
  <2>3. CASE UNCHANGED pageVars
    BY <2>3 DEF pageVars
  <2> QED
    BY <2>1, <2>2, <2>3 DEF PageNext
<1> QED
  BY <1>1, InitInv, PTL DEF PageSpec

(* The forms are well typed, a disabled button is of a verification under  *)
(* way, and no older result stands beside one (VerificationForm 75-94,     *)
(* 154-168).                                                               *)
THEOREM PageTypeCorrect == PageSpec => []PageTypeOK
<1>1. PageInv => PageTypeOK
  BY DEF PageInv, PageTypeOK, hashOK, fileOK
<1> QED
  BY <1>1, PageInvariance, PTL

(* A result is of the code, or the file and the address, that the form     *)
(* shows, unless that was changed or overtaken since; of a file, if the    *)
(* chosen one had been read when the verification began, and none that was *)
(* chosen before it had been read later (VerificationForm 65-84, 96-117,   *)
(* 156-159).                                                               *)
THEOREM ResultsTellWhatIsShown == PageSpec => []ResultsAreOfWhatIsShown
<1>1. PageInv => ResultsAreOfWhatIsShown
  BY DEF PageInv, hashOK, fileOK, ofTheForm, ResultsAreOfWhatIsShown, CodeResultIsOfTheInput,
    FileResultIsOfTheFile
<1> QED
  BY <1>1, PageInvariance, PTL

(* Whatever certificate was issued, and in whatever shape its document is  *)
(* uploaded: if the browser accepts it, it finds the hash that was         *)
(* anchored, and the backend reads the same (universalVerification         *)
(* 497-719, verify.controller 66-290).                                     *)
THEOREM DocumentsAreReadBack == PageSpec => []DocumentsReadBack
<1>1. PageInv => DocumentsReadBack
  <2> SUFFICES ASSUME PageInv,
                      NEW r \in {file.documentResult, file.exporting} \ {NoResult}
               PROVE  /\ r.hashMatches
                      /\ readsAs(r.of).certificateHash
                         = anchoredHash(r.of.certificate, r.of.origin)
                      /\ readsAs(r.of) = serverInput(uploadOf(r.of))
                      /\ r.overallValid => r.emailMatches \in {TRUE, Null}
    BY DEF DocumentsReadBack
  <2>1. readBack(r)
    BY DEF PageInv, fileOK
  <2> QED
    BY <2>1, AcceptedReadsBack DEF readBack
<1> QED
  BY <1>1, PageInvariance, PTL

================================================================================
