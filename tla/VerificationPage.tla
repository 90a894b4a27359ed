--------------------------- MODULE VerificationPage ---------------------------
(***************************************************************************)
(* The public verification page (VerificationForm.tsx): a form that asks   *)
(* for a code, which the URL of the page may also give, and a form that    *)
(* takes a file.  Both ask the chain from the browser; nothing of a        *)
(* verification under way is cancelled when what it is about is replaced.  *)
(*                                                                         *)
(* The two forms share no state, so a visitor of the model uses one of     *)
(* them, and has the files of one disk.  What the chain answers, and when, *)
(* is a choice; the reads behind an answer are CertificateVerification.    *)
(***************************************************************************)
EXTENDS CertificateDocument, Naturals

CONSTANTS
  Code,      (* verification codes, as typed or in the URL *)
  NoCode,
  File,      (* the files of visitors: certificate, origin, shape, and the
                address the file has, which a bare document has no place for *)
  NotJson,   (* a file that JSON.parse refuses *)
  NoFile,
  NoResult,
  DiskSize,  (* files of one visitor, a bound *)
  MaxCalls   (* verifications by code under way at once, a bound *)

ASSUME PageAssumption ==
  /\ NoCode \notin Code /\ NoFile \notin File /\ NotJson \notin File
  /\ DiskSize \in Nat \ {0} /\ MaxCalls \in Nat \ {0}
  /\ \A f \in File :
       /\ DOMAIN f = {"certificate", "origin", "shape", "email"}
       /\ f.certificate \in Certificate /\ f.origin \in Origin /\ f.shape \in Shape
       /\ f.email \in Email \cup {Null}
       /\ f.shape = "document" => f.email = Null

VARIABLES
  used,   (* the form this visitor uses *)
  disk,   (* the files of this visitor *)
  hash,   (* the form of the code *)
  file    (* the form of the file *)

pageVars == <<used, disk, hash, file>>

(* What the chain says of a code or a document's hash.                     *)
Status == {"NotFound", "Valid", "Revoked", "Expired", "Unauthorized"}

(* edited, overtaken and reAddressed are history: what happened since the  *)
(* verification shown began.  So are crossed, that a file chosen earlier   *)
(* was read after the chosen one, and basis, how far the read of the chosen*)
(* file was when that verification began, until another is chosen.         *)
HashCall == [code : Code, overtaken : BOOLEAN]
HashResult == [of : Code, status : Status, overtaken : BOOLEAN]
HashForm ==
  [certificateHash : Code \cup {NoCode}, query : Code \cup {NoCode},
   autoValidated : Code \cup {NoCode}, isVerifying : BOOLEAN, calls : SUBSET HashCall,
   hashResult : HashResult \cup {NoResult}, error : BOOLEAN, edited : BOOLEAN]
NoHashForm ==
  [certificateHash |-> NoCode, query |-> NoCode, autoValidated |-> NoCode,
   isVerifying |-> FALSE, calls |-> {}, hashResult |-> NoResult, error |-> FALSE,
   edited |-> FALSE]

AnyFile == File \cup {NotJson, NoFile}
Typed == Email \cup {Null, "malformed"}
Verification == [of : File, email : Email \cup {Null}]
NoVerification == [of |-> NoFile, email |-> Null]
DocumentResult ==
  [of : File, email : Email \cup {Null}, hashMatches : BOOLEAN,
   emailMatches : BOOLEAN \cup {Null}, overallValid : BOOLEAN]
FileForm ==
  [jsonFileName : AnyFile, uploaded : File \cup {NoFile}, reads : SUBSET AnyFile,
   email : Typed, call : Verification \cup {NoVerification},
   documentResult : DocumentResult \cup {NoResult},
   error : {"none", "missing", "email", "read", "schema", "network", "pdf"},
   exporting : DocumentResult \cup {NoResult}, reAddressed : BOOLEAN,
   crossed : BOOLEAN, basis : {"read", "unread", "crossed", "replaced"}]
NoFileForm ==
  [jsonFileName |-> NoFile, uploaded |-> NoFile, reads |-> {}, email |-> Null,
   call |-> NoVerification, documentResult |-> NoResult, error |-> "none",
   exporting |-> NoResult, reAddressed |-> FALSE, crossed |-> FALSE,
   basis |-> "read"]

(* The page may be opened with a code in its URL.                          *)
PageInit ==
  /\ file = NoFileForm
  /\ \/ /\ used = "hash" /\ disk = {}
        /\ \E code \in Code \cup {NoCode} : hash = [NoHashForm EXCEPT !.query = code]
     \/ /\ used = "file" /\ hash = NoHashForm
        /\ disk \in SUBSET (File \cup {NotJson}) /\ Cardinality(disk) = DiskSize

hashForm(form) ==
  /\ used = "hash"
  /\ hash' = form
  /\ UNCHANGED <<used, disk, file>>
fileForm(form) ==
  /\ used = "file"
  /\ file' = form
  /\ UNCHANGED <<used, disk, hash>>

------------------------------------------------------------------------------
(* Verification by code *)

handleChange(code) ==
  /\ code # hash.certificateHash
  /\ hashForm([hash EXCEPT !.certificateHash = code, !.edited = TRUE])

verifyByHash(form, code) ==
  /\ Cardinality(form.calls) < MaxCalls
  /\ hashForm([form EXCEPT !.isVerifying = TRUE, !.error = FALSE, !.hashResult = NoResult,
                 !.edited = FALSE,
                 !.calls = {[c EXCEPT !.overtaken = TRUE] : c \in @}
                           \cup {[code |-> code, overtaken |-> FALSE]}])

handleHashSubmit ==
  /\ ~hash.isVerifying /\ hash.certificateHash # NoCode
  /\ verifyByHash(hash, hash.certificateHash)

(* Another entry of the browser's history, with the page kept.             *)
navigateTo(code) ==
  /\ code # hash.query /\ hash.query = hash.autoValidated
  /\ hashForm([hash EXCEPT !.query = code])

(* Mutant: the code of the URL is verified and not shown in the input.     *)
validateQuery_InputKept ==
  /\ hash.query \notin {NoCode, hash.autoValidated}
  /\ verifyByHash([hash EXCEPT !.autoValidated = hash.query], hash.query)

(* The effect of the page on a new code of the URL.                        *)
validateQuery ==
  /\ hash.query \notin {NoCode, hash.autoValidated}
  /\ verifyByHash([hash EXCEPT !.autoValidated = hash.query,
                               !.certificateHash = hash.query], hash.query)

(* Mutant: the flag is cleared only by an answer, not in the finally.       *)
hashVerified_NoFinally(call) ==
  /\ call \in hash.calls
  /\ LET ended == [hash EXCEPT !.calls = @ \ {call}]
     IN \/ \E status \in Status :
             hashForm([ended EXCEPT !.isVerifying = FALSE, !.hashResult =
               [of |-> call.code, status |-> status, overtaken |-> call.overtaken]])
        \/ hashForm([ended EXCEPT !.error = TRUE])

(* The first of two to end enables the button, the last is what is shown.  *)
hashVerified(call) ==
  /\ call \in hash.calls
  /\ LET ended == [hash EXCEPT !.calls = @ \ {call}, !.isVerifying = FALSE]
     IN \/ \E status \in Status :
             hashForm([ended EXCEPT !.hashResult =
               [of |-> call.code, status |-> status, overtaken |-> call.overtaken]])
        \/ hashForm([ended EXCEPT !.error = TRUE])

------------------------------------------------------------------------------
(* Verification of a file *)

chooseFile(f) ==
  /\ f \in disk \cup {NoFile} /\ f # file.jsonFileName
  /\ LET cleared == [file EXCEPT !.documentResult = NoResult, !.error = "none",
                       !.jsonFileName = f, !.basis = "replaced", !.crossed = FALSE]
     IN fileForm(IF f = NoFile THEN [cleared EXCEPT !.uploaded = NoFile]
                 ELSE [cleared EXCEPT !.reads = @ \cup {f}])

readEnded(f) ==
  [file EXCEPT !.reads = @ \ {f},
               !.crossed = f # file.jsonFileName /\ file.jsonFileName \notin file.reads]

(* Mutant: a failed read leaves the document of the file before.           *)
fileRead_DocumentKept(f) ==
  /\ f \in file.reads
  /\ fileForm(IF f = NotJson THEN [readEnded(f) EXCEPT !.error = "read"]
              ELSE [readEnded(f) EXCEPT !.uploaded = f])

(* Reads end in any order, and the last to end is what will be verified; a *)
(* file that is no JSON takes the other away.  (Two reads of one file are  *)
(* one.)                                                                   *)
fileRead(f) ==
  /\ f \in file.reads
  /\ fileForm(IF f = NotJson THEN [readEnded(f) EXCEPT !.uploaded = NoFile, !.error = "read"]
              ELSE [readEnded(f) EXCEPT !.uploaded = f])

changeEmail(email) ==
  /\ email # file.email
  /\ fileForm([file EXCEPT !.email = email, !.reAddressed = TRUE])

(* The input of the file is required, and stays enabled while a file is    *)
(* verified; what is verified is what has been read.                       *)
submittable == file.call = NoVerification /\ file.jsonFileName # NoFile

submitRefused ==
  /\ submittable
  /\ IF file.uploaded = NoFile THEN fileForm([file EXCEPT !.error = "missing"])
     ELSE file.email = "malformed" /\ fileForm([file EXCEPT !.error = "email"])

handleDocumentSubmit ==
  /\ submittable /\ file.uploaded # NoFile /\ file.email # "malformed"
  /\ fileForm([file EXCEPT !.documentResult = NoResult, !.error = "none",
                 !.call = [of |-> file.uploaded, email |-> file.email],
                 !.reAddressed = FALSE,
                 !.basis = IF file.jsonFileName \in file.reads THEN "unread"
                           ELSE IF file.crossed THEN "crossed" ELSE "read"])

(* A status of Valid stands for all the checks that ask the chain.         *)
overallValid(input, status) ==
  /\ hashMatches(input) /\ status = "Valid"
  /\ computeRecipientIdentityMatch(input) # FALSE

verified(call, status) ==
  LET input == browserInput(uploadOf(call.of), call.email)
  IN [of |-> call.of, email |-> input.recipientEmail, hashMatches |-> hashMatches(input),
      emailMatches |-> computeRecipientIdentityMatch(input),
      overallValid |-> overallValid(input, status)]

documentVerified ==
  /\ file.call # NoVerification
  /\ LET ended == [file EXCEPT !.call = NoVerification]
     IN IF browserInput(uploadOf(file.call.of), file.call.email) = Null
        THEN fileForm([ended EXCEPT !.error = "schema"])
        ELSE \/ \E status \in Status :
                  fileForm([ended EXCEPT !.documentResult = verified(file.call, status)])
             \/ fileForm([ended EXCEPT !.error = "network"])

(* The PDF is made of the result shown when the button was clicked, after  *)
(* its module has been loaded.                                             *)
handleExport ==
  /\ file.documentResult # NoResult /\ file.documentResult.overallValid
  /\ file.exporting = NoResult
  /\ fileForm([file EXCEPT !.exporting = file.documentResult, !.error = "none"])

exportEnded ==
  /\ file.exporting # NoResult
  /\ \E error \in {file.error, "pdf"} :
       fileForm([file EXCEPT !.exporting = NoResult, !.error = error])

------------------------------------------------------------------------------
hashStep ==
  \/ \E code \in Code \cup {NoCode} : handleChange(code) \/ navigateTo(code)
  \/ handleHashSubmit
  \/ validateQuery
  \/ \E call \in hash.calls : hashVerified(call)
fileStep ==
  \/ \E f \in disk \cup {NoFile} : chooseFile(f) \/ fileRead(f)
  \/ \E email \in Typed : changeEmail(email)
  \/ submitRefused
  \/ handleDocumentSubmit
  \/ documentVerified
  \/ handleExport
  \/ exportEnded
PageNext == hashStep \/ fileStep
PageSpec == PageInit /\ [][PageNext]_pageVars

------------------------------------------------------------------------------
(* Properties *)

(* The forms are well typed.  A disabled button is of a verification that  *)
(* will end, and a file is verified with no older result beside it         *)
(* (VerificationForm 75-94, 154-168).                                      *)
PageTypeOK ==
  /\ used \in {"hash", "file"} /\ disk \subseteq File \cup {NotJson}
  /\ hash \in HashForm /\ file \in FileForm
  /\ hash.isVerifying => hash.calls # {}
  /\ file.documentResult # NoResult => file.call = NoVerification

(* The result of a code is of the code in the input, from which the QR "del*)
(* estado validado" beside it is made, unless the visitor edited it since  *)
(* or the answer is of a verification that a later one had overtaken:      *)
(* neither clears the result (VerificationForm 65, 71-73, 84).             *)
CodeResultIsOfTheInput ==
  hash.hashResult # NoResult =>
    \/ hash.edited \/ hash.hashResult.overtaken
    \/ hash.hashResult.of = hash.certificateHash

(* The result of a file is of the file named beside it and of the address  *)
(* in the form, unless another file was chosen, or another address typed,  *)
(* after the verification began; or it began before the chosen file had    *)
(* been read, or after the read of an earlier one had ended last: what is  *)
(* verified then is that other file, under the chosen one's name           *)
(* (VerificationForm 96-117, 156-159).                                     *)
FileResultIsOfTheFile ==
  file.documentResult # NoResult =>
    /\ file.basis = "read" => file.documentResult.of = file.jsonFileName
    /\ \/ file.reAddressed \/ file.email = Null
       \/ file.documentResult.email = file.email

ResultsAreOfWhatIsShown == CodeResultIsOfTheInput /\ FileResultIsOfTheFile

(* Every document the browser reads has the hash that was anchored for it, *)
(* the PDF only tells of such a document and of an address that matches,   *)
(* and the backend reads the same from the same upload: the two parsers    *)
(* and what the backend wrote agree, whatever the shape of the upload      *)
(* (universalVerification 497-719, verify.controller 66-290).              *)
readsAs(f) == browserInput(uploadOf(f), f.email)
DocumentsReadBack ==
  /\ \A r \in {file.documentResult, file.exporting} \ {NoResult} :
       /\ r.hashMatches
       /\ readsAs(r.of).certificateHash = anchoredHash(r.of.certificate, r.of.origin)
       /\ readsAs(r.of) = serverInput(uploadOf(r.of))
       /\ r.overallValid => r.emailMatches \in {TRUE, Null}

(* user-manual.md:157 tells the visitor to upload the certificate's JSON   *)
(* file and promises its status: no document this platform issued on Amoy  *)
(* is answered as a breach of the schema, if its issuer gave a URL.        *)
IssuedDocumentsAreRead ==
  file.error = "schema" /\ file.basis # "replaced" /\ file.uploaded = file.jsonFileName =>
    \/ file.uploaded.origin = "legacy"
    \/ file.uploaded.certificate.network # "amoy"
    \/ file.uploaded.certificate.url # "web"

================================================================================
