-------------------------- MODULE CertificateDocument --------------------------
(***************************************************************************)
(* The JSON documents the platform hands out, and the two readers of them: *)
(* universalVerification.ts in the browser, behind the strict schema of    *)
(* verificationSchema.ts, and verify.controller.ts in the backend.         *)
(*                                                                         *)
(* A JSON object is a function from its keys to their values.  Keys that   *)
(* every document has with the same value (context, type, status, the      *)
(* texts of the badge) are left out; of the badge only the URL of its      *)
(* issuer is kept, and of the verification method its network.  SHA-256 of *)
(* the sorted serialisation is an injective constructor: two values have   *)
(* the same hash if and only if they are equal.                            *)
(***************************************************************************)
EXTENDS FiniteSets, Functions

CONSTANTS
  Certificate,  (* what issuers have entered: id, url, network, replaces *)
  Null

(* An issuer may type any text as its URL; replaces is the hash of the     *)
(* certificate that a re-issuance replaces, or Null.                       *)
ASSUME DocumentAssumption ==
  \A c \in Certificate : /\ DOMAIN c = {"id", "url", "network", "replaces"}
                         /\ c.url \in {"web", "text"}
                         /\ c.network \in {"amoy", "elsewhere"}

has(object, key) == key \in DOMAIN object
pair(key, value) == [k \in {key} |-> value]
object ++ more ==
  [k \in DOMAIN object \cup DOMAIN more |-> IF has(object, k) THEN object[k] ELSE more[k]]
optional(key, value) == IF value = Null THEN <<>> ELSE pair(key, value)
without(object, key) == Restrict(object, DOMAIN object \ {key})

hashCertificateData(value) == [sha256 |-> value]
hashRecipientEmail(email, salt) == [sha256 |-> <<email, salt>>]

Email == {"holder", "other"}
payloadOf(c) == [student |-> c.id]
recipientOf(c) == [identity |-> hashRecipientEmail("holder", c.id), salt |-> c.id]

------------------------------------------------------------------------------
(* What the backend writes *)

buildHashAnchorDocument(c) ==
  [id |-> c.id, badge |-> c.url, verification |-> c.network, recipient |-> recipientOf(c),
   normalizedPayload |-> payloadOf(c)] ++ optional("replacesCertificateHash", c.replaces)

ASSUME NullAssumption == \A c \in Certificate : buildHashAnchorDocument(c) # Null

proofOf(anchor) ==
  [certificateHash |-> hashCertificateData(anchor),
   normalizedPayload |-> anchor.normalizedPayload, signerAddress |-> "signer"]

(* A batch never replaces a certificate.                                   *)
batchAnchor(c) == buildHashAnchorDocument([c EXCEPT !.replaces = Null])

published(anchor) ==
  [id |-> anchor.id, badge |-> anchor.badge, verification |-> anchor.verification,
   recipient |-> anchor.recipient, proof |-> proofOf(anchor),
   verificationUrl |-> hashCertificateData(anchor), blockchain |-> anchor.verification]

(* The document of the answer, the one uploaded to IPFS, the one a batch   *)
(* uploads (which spreads the anchored document), and what an earlier      *)
(* version wrote, whose hash is of the payload alone.                      *)
Origin == {"answer", "ipfs", "batch", "legacy"}
answerDocument(c) ==
  published(buildHashAnchorDocument(c)) ++ pair("replacesCertificateHash", c.replaces)
ipfsDocument(c) ==
  published(buildHashAnchorDocument(c)) ++ optional("replacesCertificateHash", c.replaces)
documentForIpfs(c) == batchAnchor(c) ++ published(batchAnchor(c))
legacyUpload(c) ==
  [certificate |-> payloadOf(c),
   proof |-> [certificateHash |-> hashCertificateData(payloadOf(c)), signerAddress |-> "signer"]]

documentOf(c, origin) ==
  CASE origin = "answer" -> answerDocument(c)
    [] origin = "ipfs" -> ipfsDocument(c)
    [] origin = "batch" -> documentForIpfs(c)

anchoredHash(c, origin) ==
  CASE origin = "legacy" -> hashCertificateData(payloadOf(c))
    [] origin = "batch" -> hashCertificateData(batchAnchor(c))
    [] OTHER -> hashCertificateData(buildHashAnchorDocument(c))

(* The three shapes a holder may send it in, the address with it or not.   *)
Shape == {"document", "envelope", "certificate"}
uploadOf(f) ==
  IF f.origin = "legacy" THEN legacyUpload(f.certificate)
  ELSE LET document == documentOf(f.certificate, f.origin)
           address == optional("recipientEmail", f.email)
       IN CASE f.shape = "document" -> document
            [] f.shape = "envelope" -> pair("document", document) ++ address
            [] f.shape = "certificate" ->
                 [certificate |-> without(document, "proof"), proof |-> document.proof]
                 ++ address

------------------------------------------------------------------------------
(* What the two readers share in text *)

candidate(u) ==
  IF has(u, "document")
  THEN IF has(u, "proof") THEN u.document ++ pair("proof", u.proof) ELSE u.document
  ELSE IF has(u, "certificate")
  THEN IF has(u, "proof") THEN pair("proof", u.proof) ++ u.certificate ELSE u.certificate
  ELSE u

AnchorKey == {"id", "badge", "verification", "recipient"}

(* A replacesCertificateHash that is null is not part of the document.     *)
replacedBy(d) ==
  IF has(d, "replacesCertificateHash") THEN d.replacesCertificateHash ELSE Null

(* The hash of the document, or that of the payload of older certificates. *)
hashMatches(input) ==
  \/ hashCertificateData(input.normalizedPayload) = input.certificateHash
  \/ input.anchor # Null /\ hashCertificateData(input.anchor) = input.certificateHash

------------------------------------------------------------------------------
(* The browser *)

ProofKey == {"certificateHash", "normalizedPayload", "signerAddress"}
DocumentKey ==
  AnchorKey \cup {"verificationUrl", "proof", "blockchain", "replacesCertificateHash"}
RequiredKey == AnchorKey \cup {"proof"}

(* The objects of the schema are strict: a key more is an error.           *)
certificateSchema(d, required) ==
  /\ required \subseteq DOMAIN d /\ DOMAIN d \subseteq DocumentKey
  /\ d.badge = "web"
strict(u, keys) ==
  keys \subseteq DOMAIN u /\ DOMAIN u \subseteq keys \cup {"recipientEmail"}
validateVerifierUpload(u) ==
  \/ certificateSchema(u, RequiredKey) /\ DOMAIN u.proof = ProofKey
  \/ /\ strict(u, {"document"})
     /\ certificateSchema(u.document, RequiredKey) /\ DOMAIN u.document.proof = ProofKey
  \/ /\ strict(u, {"certificate", "proof"})
     /\ certificateSchema(u.certificate, AnchorKey) /\ ~has(u.certificate, "proof")
     /\ DOMAIN u.proof = ProofKey

browserAnchor(d, payload) ==
  IF AnchorKey \subseteq DOMAIN d
  THEN Restrict(d, AnchorKey) ++ pair("normalizedPayload", payload)
       ++ optional("replacesCertificateHash", replacedBy(d))
  ELSE Null

resolveChainConfig(d) == d.verification = "amoy"

(* What the browser makes of an upload; Null if it throws.                 *)
browserInput(u, typed) ==
  IF ~validateVerifierUpload(u) \/ ~resolveChainConfig(candidate(u)) THEN Null
  ELSE LET d == candidate(u) IN
    [normalizedPayload |-> d.proof.normalizedPayload,
     certificateHash |-> d.proof.certificateHash,
     anchor |-> browserAnchor(d, d.proof.normalizedPayload),
     recipient |-> d.recipient,
     recipientEmail |-> IF typed # Null THEN typed
                        ELSE IF has(u, "recipientEmail") THEN u.recipientEmail ELSE Null,
     replacesCertificateHash |-> replacedBy(d)]

(* Null if there is nothing to compare.                                    *)
computeRecipientIdentityMatch(input) ==
  IF input.recipientEmail = Null THEN Null
  ELSE hashRecipientEmail(input.recipientEmail, input.recipient.salt)
       = input.recipient.identity

------------------------------------------------------------------------------
(* The backend, which has no strict schema and looks at no network *)

(* Mutant: the null is kept in what is hashed.                             *)
serverAnchor_KeepsNull(d, payload) ==
  IF AnchorKey \subseteq DOMAIN d
  THEN Restrict(d, AnchorKey \cup ({"replacesCertificateHash"} \cap DOMAIN d))
       ++ pair("normalizedPayload", payload)
  ELSE Null

serverAnchor(d, payload) ==
  IF AnchorKey \subseteq DOMAIN d
  THEN Restrict(d, AnchorKey) ++ pair("normalizedPayload", payload)
       ++ optional("replacesCertificateHash", replacedBy(d))
  ELSE Null

serverInput(u) ==
  LET d == candidate(u)
      payload == IF has(d.proof, "normalizedPayload") THEN d.proof.normalizedPayload
                 ELSE u.certificate
  IN [normalizedPayload |-> payload,
      certificateHash |-> d.proof.certificateHash,
      anchor |-> serverAnchor(d, payload),
      recipient |-> IF has(d, "recipient") THEN d.recipient ELSE Null,
      recipientEmail |-> IF has(u, "recipientEmail") THEN u.recipientEmail ELSE Null,
      replacesCertificateHash |-> replacedBy(d)]

================================================================================
