------------------------------ MODULE IssuerPages ------------------------------
(***************************************************************************)
(* The issuer's pages in one tab: the forms that issue (CertificateForm),  *)
(* issue a batch from a CSV file (BatchCertificateForm) and revoke         *)
(* (RevokeCertificateForm with blockchain.ts), and the history of          *)
(* certificates, over the session they all read.                           *)
(*                                                                         *)
(* A submission is a promise that goes on while the session, the wallet    *)
(* and the page change; it has read the session when it began and the      *)
(* wallet again when it signs.  A component whose condition fails, or      *)
(* whose page is left, is gone with its state: nobody shows the end of its *)
(* promise.  What the backend does with a request is CertificateIssuance.  *)
(***************************************************************************)
EXTENDS IssuerSession, Naturals, Sequences

CONSTANTS
  Here,     (* the tab *)
  Signer,   (* the account the backend signs with *)
  File,     (* CSV files: their lines below the header *)
  NoFile,
  Visited   (* the pages the issuer goes to, a bound *)

ASSUME PagesAssumption ==
  /\ Here \in Tab
  /\ Signer \in Account
  /\ File \subseteq Seq({"record", "short", "noName", "blank"})
  /\ NoFile \notin File
  /\ Visited \subseteq {"issue", "batch", "revoke", "history"}

VARIABLES
  route,    (* the page shown *)
  crashed,  (* React has given the tree up *)
  form,     (* the form of the page and its submission *)
  csv,      (* the file of the batch form *)
  history   (* the list of the history page *)

pageVars == <<route, crashed, form, csv, history>>
allVars == <<sessionVars, pageVars>>

FormRoute == {"issue", "batch", "revoke"}
Route == FormRoute \cup {"history"}
Phase == {"idle", "requested", "pending", "confirmed", "failed"}
Step == {"none", "server", "wallet", "sent", "settling"}

Outcome == {"none", "done", "elsewhere"}

(* While it submits: what the promise awaits, the account of the token it  *)
(* sends or of the transaction's signer, the network of the transaction,   *)
(* and whether a success has come back.  outcome and left are history: what*)
(* has been done, on Amoy or on a network without the contract; and that   *)
(* the wallet had changed its network unknown to the form, which has not   *)
(* handled the event or looks no more.                                     *)
Form ==
  [isSubmitting : BOOLEAN, txPhase : Phase, step : Step, sender : Account \cup {NoAccount},
   network : Network \cup {NoNetwork}, answer : BOOLEAN, outcome : Outcome,
   left : BOOLEAN]
NoForm ==
  [isSubmitting |-> FALSE, txPhase |-> "idle", step |-> "none", sender |-> NoAccount,
   network |-> NoNetwork, answer |-> FALSE, outcome |-> "none", left |-> FALSE]

(* chosen is what the input element shows, csvFile what is parsed;         *)
(* overlapped, history, that another was chosen before a read had ended.   *)
Csv == [chosen : File \cup {NoFile}, csvFile : File \cup {NoFile}, reading : SUBSET File,
        csvParseError : BOOLEAN, overlapped : BOOLEAN]
NoCsv == [chosen |-> NoFile, csvFile |-> NoFile, reading |-> {}, csvParseError |-> FALSE,
          overlapped |-> FALSE]

(* of is whose list it is, which a failure leaves in place; fetching, the  *)
(* accounts whose lists are asked for.  late and failed are history: the   *)
(* last list was not for the account shown; the last answer for the        *)
(* account shown was a failure.                                            *)
History == [of : Account \cup {NoAccount}, fetching : SUBSET Account,
            loading : BOOLEAN, error : BOOLEAN, late : BOOLEAN, failed : BOOLEAN]
NoHistory == [of |-> NoAccount, fetching |-> {}, loading |-> FALSE, error |-> FALSE,
              late |-> FALSE, failed |-> FALSE]

isConnected == address[Here] # NoAccount
active == isConnected /\ isIssuerAuthenticated[Here]
clickable == ~crashed /\ ~overlaid(Here)

(* The pages of the forms show them to a connected wallet, and             *)
(* RevokeAccessGate only to a session.                                     *)
mounted ==
  /\ ~crashed
  /\ CASE route = "history" -> TRUE
       [] route = "revoke" -> active
       [] OTHER -> isConnected

(* The signer's session may have been left in localStorage.                *)
PagesInit ==
  /\ \E jwt \in {NoToken, [sub |-> Signer, nonce |-> "earlier", signer |-> Signer]} :
       SessionStart(jwt)
  /\ route = "history" /\ crashed = FALSE
  /\ form = NoForm /\ csv = NoCsv /\ history = NoHistory

------------------------------------------------------------------------------
(* What a step of the session does to the page *)

fetch(list, a) ==
  [list EXCEPT !.fetching = @ \cup {a}, !.loading = TRUE, !.error = FALSE,
               !.failed = FALSE]

(* Mutant: the effect depends on isConnected only.                         *)
refetches_OnConnection(a, b) == (a = NoAccount) # (b = NoAccount) /\ b # NoAccount

(* The effect of the history page runs when the account it shows changes.  *)
refetches(a, b) == a # b /\ b # NoAccount

(* CertificatesPage calls two of its hooks only when it is connected:      *)
(* React throws when isConnected changes while it is shown.                *)
crashes == route = "history" /\ isConnected # isConnected'

(* Who changes the network after the form has looked leaves it behind.     *)
carried == [form EXCEPT !.left = @ \/ (form.step = "wallet" /\ network' # network)]

rerender ==
  /\ UNCHANGED route
  /\ crashed' = (crashed \/ crashes)
  /\ form' = IF mounted' THEN carried ELSE NoForm
  /\ csv' = IF mounted' THEN csv ELSE NoCsv
  /\ history' =
       IF ~mounted' THEN NoHistory
       ELSE IF route = "history" /\ refetches(address[Here], address'[Here])
       THEN fetch(history, address'[Here])
       ELSE history

(* Another page, mounted anew: by a link, or by the history of the browser,*)
(* which is neither covered by the overlay nor locked as the links are.    *)
navigate(r) ==
  /\ ~crashed /\ r # route
  /\ route' = r
  /\ form' = NoForm /\ csv' = NoCsv
  /\ history' = IF r = "history" /\ isConnected
                THEN fetch(NoHistory, address[Here]) ELSE NoHistory
  /\ UNCHANGED <<crashed, sessionVars>>

reloadPage ==
  /\ reload(Here)
  /\ crashed' = FALSE /\ form' = NoForm /\ csv' = NoCsv /\ history' = NoHistory
  /\ UNCHANGED route

------------------------------------------------------------------------------
(* The history page *)

fetchCertificates ==
  /\ route = "history" /\ clickable /\ isConnected /\ ~history.loading
  /\ history' = fetch(history, address[Here])
  /\ UNCHANGED <<route, crashed, form, csv, sessionVars>>

(* Each answer is shown, in the order they come, and ends the loading; a   *)
(* failure is told beside the list there is.                               *)
listAnswered(a) ==
  /\ a \in history.fetching
  /\ LET ended == [history EXCEPT !.fetching = @ \ {a}, !.loading = FALSE]
     IN \/ history' = [ended EXCEPT !.of = a, !.late = a # address[Here]]
        \/ history' = [ended EXCEPT !.error = TRUE,
                                    !.failed = @ \/ a = address[Here]]
  /\ UNCHANGED <<route, crashed, form, csv, sessionVars>>

------------------------------------------------------------------------------
(* The file of a batch *)

(* Blank lines are dropped before the others are counted, and the header   *)
(* is row 1; parseCSV is modelled by the row numbers of its records.       *)
place(file, i) == Cardinality({j \in 1..i : file[j] # "blank"})

(* Mutant: the header is not counted.                                      *)
rowNumber_FromData(file, i) == place(file, i)

rowNumber(file, i) == place(file, i) + 1
parseCSV(file) == {rowNumber(file, i) : i \in {j \in DOMAIN file : file[j] = "record"}}

handleFileChange(file) ==
  /\ route = "batch" /\ mounted /\ clickable /\ ~form.isSubmitting
  /\ file # csv.chosen
  /\ csv' = [chosen |-> file, csvFile |-> NoFile,
             reading |-> csv.reading \cup ({file} \ {NoFile}),
             csvParseError |-> FALSE, overlapped |-> csv.reading # {}]
  /\ UNCHANGED <<route, crashed, form, history, sessionVars>>

(* file.text() has ended.  It may fail, and a file without a record does. *)
fileRead(file) ==
  /\ file \in csv.reading
  /\ LET ended == [csv EXCEPT !.reading = @ \ {file}]
     IN \/ parseCSV(file) # {} /\ csv' = [ended EXCEPT !.csvFile = file]
        \/ csv' = [ended EXCEPT !.csvParseError = TRUE]
  /\ UNCHANGED <<route, crashed, form, history, sessionVars>>

------------------------------------------------------------------------------
(* Submissions *)

maySubmit == mounted /\ clickable /\ active /\ ~form.isSubmitting

(* handleSubmit of the two forms the backend serves: the token is read     *)
(* from localStorage, and the session shown is not looked at again.        *)
submitToBackend ==
  /\ route \in {"issue", "batch"} /\ maySubmit
  /\ route = "batch" => csv.csvFile # NoFile
  /\ form' = [NoForm EXCEPT
       !.isSubmitting = TRUE, !.step = "server", !.sender = token.sub,
       !.txPhase = IF route = "batch" THEN "pending" ELSE "requested"]
  /\ UNCHANGED <<route, crashed, csv, history, sessionVars>>

(* Mutant: isCorrectNetwork is not looked at.                              *)
submitRevocation_AnyNetwork ==
  /\ route = "revoke" /\ maySubmit
  /\ form' = [NoForm EXCEPT !.isSubmitting = TRUE, !.step = "wallet", !.txPhase = "requested",
                            !.left = <<Here, "chainChanged">> \in unhandled]
  /\ UNCHANGED <<route, crashed, csv, history, sessionVars>>

(* handleSubmit of the revocation form, up to the wallet.                  *)
submitRevocation ==
  /\ route = "revoke" /\ maySubmit /\ chainId[Here] = Amoy
  /\ form' = [NoForm EXCEPT !.isSubmitting = TRUE, !.step = "wallet", !.txPhase = "requested",
                            !.left = <<Here, "chainChanged">> \in unhandled]
  /\ UNCHANGED <<route, crashed, csv, history, sessionVars>>

(* A field does not pass the form's own checks.                            *)
submitInvalid ==
  /\ route \in {"issue", "revoke"} /\ maySubmit
  /\ form' = [NoForm EXCEPT !.txPhase = "failed"]
  /\ UNCHANGED <<route, crashed, csv, history, sessionVars>>

(* The promise knows its end.                                              *)
settles(outcome, answer) ==
  form' = [form EXCEPT !.step = "settling", !.outcome = outcome, !.answer = answer,
                       !.sender = NoAccount, !.network = NoNetwork]

(* The middleware and the controller let the signer's session through; the *)
(* work may fail, or be done and not answered.                             *)
serve ==
  /\ form.step = "server"
  /\ \E outcome \in IF form.sender = Signer THEN {"none", "done"} ELSE {"none"} :
       \E answer \in {FALSE, outcome = "done"} : settles(outcome, answer)
  /\ UNCHANGED <<route, crashed, csv, history, sessionVars>>

(* getSigner and the popup: the wallet's account and network of now.       *)
sendRevocation ==
  /\ form.step = "wallet"
  /\ \E a \in grantable :
       /\ expose(a)
       /\ form' = [form EXCEPT !.step = "sent", !.txPhase = "pending",
                               !.sender = a, !.network = network]
  /\ UNCHANGED <<route, crashed, csv, history, challengeStore, token, tabVars, loginVars>>

rejectRevocation ==
  /\ form.step = "wallet"
  /\ settles("none", FALSE)
  /\ UNCHANGED <<route, crashed, csv, history, sessionVars>>

(* wait(): on Amoy the contract accepts or reverts, on another network     *)
(* there is no contract and nothing to revert; the answer may be lost.     *)
mineRevocation ==
  /\ form.step = "sent"
  /\ \E outcome \in {"none", IF form.network = Amoy THEN "done" ELSE "elsewhere"} :
       \E answer \in {FALSE, outcome # "none"} : settles(outcome, answer)
  /\ UNCHANGED <<route, crashed, csv, history, sessionVars>>

phaseAfter(answer) == IF answer THEN "confirmed" ELSE "failed"

(* Mutant: a failure does not enable the form again.                       *)
settle_Stuck ==
  /\ form.step = "settling"
  /\ form' = [form EXCEPT !.step = "none", !.isSubmitting = ~form.answer,
                          !.answer = FALSE, !.txPhase = phaseAfter(form.answer)]
  /\ csv' = IF form.answer THEN [csv EXCEPT !.chosen = NoFile, !.csvFile = NoFile] ELSE csv
  /\ UNCHANGED <<route, crashed, history, sessionVars>>

(* The answer is shown, whatever was typed or chosen meanwhile; a batch    *)
(* that succeeded forgets its file.                                        *)
settle ==
  /\ form.step = "settling"
  /\ form' = [form EXCEPT !.step = "none", !.isSubmitting = FALSE,
                          !.answer = FALSE, !.txPhase = phaseAfter(form.answer)]
  /\ csv' = IF form.answer THEN [csv EXCEPT !.chosen = NoFile, !.csvFile = NoFile] ELSE csv
  /\ UNCHANGED <<route, crashed, history, sessionVars>>

PagesNext ==
  \/ sessionStep /\ rerender
  \/ networkStep /\ rerender
  \/ reloadPage
  \/ \E r \in Visited : navigate(r)
  \/ fetchCertificates
  \/ \E a \in Account : listAnswered(a)
  \/ \E file \in File \cup {NoFile} : handleFileChange(file)
  \/ \E file \in File : fileRead(file)
  \/ submitToBackend \/ submitRevocation \/ submitInvalid
  \/ serve \/ sendRevocation \/ rejectRevocation \/ mineRevocation \/ settle

PagesSpec == PagesInit /\ [][PagesNext]_allVars

------------------------------------------------------------------------------
(* Type invariant: a form submits while its promise awaits something, and  *)
(* a page that is not shown has no state.                                  *)
PagesTypeOK ==
  /\ SessionTypeOK
  /\ route \in Route /\ crashed \in BOOLEAN
  /\ form \in Form /\ csv \in Csv /\ history \in History
  /\ form.isSubmitting <=> form.step # "none"
  /\ ~mounted => form = NoForm /\ csv = NoCsv /\ history = NoHistory

(* The banner of a form says confirmed only of work that was done.  The    *)
(* form revokes only while it knows the wallet to be on Amoy               *)
(* (RevokeCertificateForm 101-103), so a revocation goes to a network      *)
(* without the contract, which reverts nothing and is told as a success    *)
(* (275), only if the wallet changed its network after the form had looked *)
(* or its event was still on its way then.  A form that submits has not    *)
(* settled.                                                                *)
BannerTellsTheOutcome ==
  /\ form.txPhase = "confirmed" =>
       \/ form.outcome = "done"
       \/ form.outcome = "elsewhere" /\ form.left
  /\ form.isSubmitting => form.txPhase \in {"requested", "pending"}

(* A revocation under way was signed by the account the page shows.  When  *)
(* the account changes, its event ends the session and the form; so it     *)
(* stops being true only while the event is on its way, if the page showed *)
(* another account than the wallet's when it was signed, or if a login     *)
(* stores the account it had read before.                                  *)
signedByShown == form.step = "sent" => form.sender = address[Here]

RevocationIsSignedByShownAccount == [][
  signedByShown /\ ~signedByShown' =>
    \/ <<Here, "accountsChanged">> \in unhandled'
    \/ form.step = "wallet" /\ address[Here] # account
    \/ secondLogin(Here)]_allVars

(* What a page shows is of what it names: the records of the batch form    *)
(* are of the file chosen, unless a read was overtaken or the file was     *)
(* reset during one; and the history, once every fetch has been answered,  *)
(* is of the issuer shown, unless the answer to an earlier account came    *)
(* last, or the fetch for this issuer failed: then the earlier issuer's    *)
(* list stays under the new address, with the error beside it              *)
(* (app/certificates/page.tsx 81-85, 136-146).  The row number a record is *)
(* told by is that of its line in the file, unless a blank line precedes   *)
(* it, which was dropped before rows were counted.                         *)
RecordsAreOfChosenFile ==
  csv.csvFile # NoFile => csv.csvFile = csv.chosen \/ csv.overlapped

HistoryIsOfShownIssuer ==
  (route = "history" /\ mounted /\ isConnected /\ history.fetching = {}) =>
    \/ history.of = address[Here]
    \/ history.late
    \/ history.failed /\ history.error

RowsAreLines ==
  csv.csvFile # NoFile =>
    \A n \in parseCSV(csv.csvFile) :
      csv.csvFile[n - 1] = "record" \/ \E i \in 1..(n - 1) : csv.csvFile[i] = "blank"

PagesShowWhatTheyName == RecordsAreOfChosenFile /\ HistoryIsOfShownIssuer /\ RowsAreLines

(* "Conecte su billetera para habilitar esta función.", says the history   *)
(* page (app/certificates/page.tsx:64): who connects then sees the list.   *)
HistoryStaysShown == ~crashed
==============================================================================
