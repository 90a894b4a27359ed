--------------------------- MODULE IssuerPagesProofs ---------------------------
(***************************************************************************)
(* Proofs about IssuerPages, for any accounts, networks, tabs, logins and  *)
(* files; the session beneath the pages is that of IssuerSessionProofs.    *)
(***************************************************************************)
EXTENDS IssuerPages, IssuerSessionProofs, FiniteSetTheorems

(***************************************************************************)
(* The inductive invariant                                                 *)
(***************************************************************************)

(* A network the page knows is the wallet's, or it will be told.           *)
NetworkIsTold ==
  chainId[Here] \in {NoNetwork, network} \/ <<Here, "chainChanged">> \in unhandled

(* What a form shows by the step of its promise; a revocation is meant for *)
(* Amoy until the wallet leaves it.                                        *)
BannerIsDecided ==
  /\ form.step \in {"wallet", "sent"} => route = "revoke"
  /\ form.step = "wallet" => network = Amoy \/ form.left
  /\ form.step = "sent" => form.network = Amoy \/ form.left
  /\ form.isSubmitting => form.txPhase \in {"requested", "pending"}
  /\ form.step = "settling" /\ form.answer => form.outcome # "none"
  /\ form.txPhase = "confirmed" => form.outcome # "none"
  /\ form.outcome = "elsewhere" => form.left

(* Since the wallet signed, the page is told of any change of account.     *)
SignerIsExplained ==
  form.step = "sent" => form.sender = account \/ <<Here, "accountsChanged">> \in unhandled

(* A file is read once it is chosen, and is what is parsed when no read is *)
(* under way; a batch that is submitted keeps one.                         *)
CsvIsRead ==
  /\ route # "batch" => csv = NoCsv
  /\ route = "batch" /\ form.isSubmitting => csv.csvFile # NoFile
  /\ ~csv.overlapped =>
       /\ csv.reading \subseteq {csv.chosen}
       /\ csv.csvFile # NoFile => csv.reading = {} /\ csv.csvFile = csv.chosen

(* The list of the account shown is asked for, or has come.                *)
HistoryIsAsked ==
  route = "history" /\ ~crashed /\ isConnected =>
    \/ address[Here] \in history.fetching
    \/ history.of = address[Here] \/ history.late
    \/ history.failed /\ history.error

PagesInv ==
  /\ SessionInv /\ PagesTypeOK
  /\ NetworkIsTold /\ BannerIsDecided /\ SignerIsExplained /\ CsvIsRead /\ HistoryIsAsked

Assumptions == SessionAssumption /\ PagesAssumption

(***************************************************************************)
(* What a step of the session changes of the page                          *)
(***************************************************************************)

sessionMoves == sessionStep \/ networkStep

(* The account of the page changes with its session's end, by a login that *)
(* stores what it had read, or to the wallet's account; and the page is    *)
(* told of the changes of that one until it ends its session.              *)
movesHere ==
  /\ account' = account \/ <<Here, "accountsChanged">> \in unhandled'
  /\ <<Here, "accountsChanged">> \in unhandled =>
       <<Here, "accountsChanged">> \in unhandled' \/ ~isIssuerAuthenticated'[Here]
  /\ address'[Here] # address[Here] /\ isIssuerAuthenticated'[Here] =>
       \/ secondLogin(Here)
       \/ address'[Here] = account /\ UNCHANGED <<account, unhandled>>

LEMMA ExposeTells ==
  ASSUME Assumptions, NEW a, expose(a)
  PROVE  /\ account' = account \/ <<Here, "accountsChanged">> \in unhandled'
         /\ unhandled \subseteq unhandled'
  BY DEF Assumptions, PagesAssumption, expose, tellTabs

LEMMA SessionMovesHere ==
  ASSUME Assumptions, SessionInv, sessionMoves
  PROVE  movesHere
<1>0. Here \in Tab /\ SessionTypeOK
  BY DEF Assumptions, PagesAssumption, SessionInv
<1>1. ASSUME NEW a \in Account \cup {NoAccount}, selectAccount(a) PROVE movesHere
  BY <1>1, ExposeTells DEF selectAccount, movesHere, tabVars
<1>2. ASSUME NEW n \in Network, selectNetwork(n) PROVE movesHere
  BY <1>2 DEF selectNetwork, tellTabs, movesHere, tabVars
<1>3. ASSUME NEW t \in Tab, handleAccountsChanged(t) PROVE movesHere
  BY <1>0, <1>3 DEF handleAccountsChanged, movesHere, SessionTypeOK
<1>4. ASSUME NEW t \in Tab, handleChainChanged(t) PROVE movesHere
  BY <1>4 DEF handleChainChanged, movesHere
<1>5. ASSUME NEW t \in Tab, syncWallet(t) PROVE movesHere
  BY <1>0, <1>5 DEF syncWallet, movesHere, walletVars, SessionTypeOK
<1>6. ASSUME NEW t \in Tab, disconnect(t) PROVE movesHere
  BY <1>6, ExposeTells DEF disconnect, movesHere, walletVars
<1>7. ASSUME NEW t \in Tab, resetSession(t) PROVE movesHere
  BY <1>0, <1>7 DEF resetSession, movesHere, walletVars, SessionTypeOK
<1>8. ASSUME NEW l \in Login, requestAccounts(l) PROVE movesHere
  BY <1>8, ExposeTells DEF requestAccounts, movesHere, tabVars
<1>9. ASSUME NEW l \in Login, signMessage(l) PROVE movesHere
  BY <1>9, ExposeTells DEF signMessage, movesHere, tabVars
<1>10. ASSUME NEW l \in Login, readChainId(l) PROVE movesHere
  BY <1>0, <1>10 DEF readChainId, goto, secondLogin, movesHere, walletVars, SessionTypeOK
<1>11. ASSUME UNCHANGED <<walletVars, address>> PROVE movesHere
  BY <1>11 DEF movesHere, walletVars
<1>12. \/ \E a \in Account \cup {NoAccount} : selectAccount(a)
       \/ \E n \in Network : selectNetwork(n)
       \/ \E t \in Tab : \/ handleAccountsChanged(t) \/ handleChainChanged(t) \/ syncWallet(t)
                         \/ disconnect(t) \/ resetSession(t)
       \/ \E l \in Login : requestAccounts(l) \/ signMessage(l) \/ readChainId(l)
       \/ UNCHANGED <<walletVars, address>>
  BY DEF sessionMoves, sessionStep, networkStep, tabStep, loginStep, restartBackend,
         connectAndLogin, requestSiweNonce, verifySiweLogin, loginAnswered, loginFailed, tabVars
<1> QED
  BY <1>1, <1>2, <1>3, <1>4, <1>5, <1>6, <1>7, <1>8, <1>9, <1>10, <1>11, <1>12

(* The wallet's popup of a revocation is a choice of account like another. *)
LEMMA PopupKeepsSession ==
  ASSUME Assumptions, SessionInv, sendRevocation
  PROVE  SessionInv'
<1>1. PICK a \in grantable : expose(a)
  BY DEF sendRevocation
<1>2. a \in Account \cup {NoAccount}
  BY DEF grantable, SessionInv, SessionTypeOK
<1>3. UNCHANGED <<challengeStore, token, tabVars, loginVars>>
  BY DEF sendRevocation
<1>4. CASE a = account
  BY <1>1, <1>3, <1>4, SessionStepInv DEF Assumptions, expose, sessionVars, walletVars
<1>5. CASE a # account
  BY <1>1, <1>3, <1>5, <1>2, SessionStepInv DEF selectAccount, Assumptions, anyStep,
    sessionStep
<1> QED
  BY <1>4, <1>5

(* The session keeps its invariant beneath the pages.                      *)
LEMMA StepSession ==
  ASSUME Assumptions, SessionInv, [PagesNext]_allVars
  PROVE  SessionInv'
<1>1. ASSUME sessionMoves PROVE SessionInv'
  BY <1>1, SessionStepInv DEF Assumptions, sessionMoves, anyStep
<1>2. ASSUME reload(Here) PROVE SessionInv'
  BY <1>2, SessionStepInv DEF Assumptions, PagesAssumption, anyStep
<1>3. ASSUME sessionVars' = sessionVars PROVE SessionInv'
  BY <1>3, SessionStepInv DEF Assumptions
<1>4. sessionMoves \/ reload(Here) \/ sendRevocation \/ sessionVars' = sessionVars
  BY DEF PagesNext, allVars, sessionMoves, reloadPage, navigate, fetchCertificates, listAnswered,
         handleFileChange, fileRead, submitToBackend, submitRevocation, submitInvalid, serve,
         rejectRevocation, mineRevocation, settle
<1> QED
  BY <1>1, <1>2, <1>3, <1>4, PopupKeepsSession

(***************************************************************************)
(* The state of a page                                                     *)
(***************************************************************************)

LEMMA EmptyPage ==
  ASSUME PagesAssumption PROVE NoForm \in Form /\ NoCsv \in Csv /\ NoHistory \in History
<1>1. NoForm \in Form
  BY DEF NoForm, Form, Phase, Step, Outcome
<1>2. NoCsv \in Csv
  BY DEF NoCsv, Csv
<1>3. NoHistory \in History
  BY DEF NoHistory, History
<1> QED
  BY <1>1, <1>2, <1>3

LEMMA Fetched ==
  ASSUME NEW list \in History, NEW a \in Account
  PROVE  /\ fetch(list, a) \in History /\ fetch(list, a).of = list.of
         /\ fetch(list, a).fetching = list.fetching \cup {a}
         /\ fetch(list, a).error = FALSE /\ fetch(list, a).late = list.late
        /\ fetch(list, a).failed = FALSE
  BY DEF fetch, History

(* A form that stays mounted is what it was, but for what it cannot see.   *)
LEMMA Carried ==
  ASSUME form \in Form
  PROVE  /\ carried \in Form
         /\ carried.isSubmitting = form.isSubmitting /\ carried.txPhase = form.txPhase
         /\ carried.step = form.step /\ carried.sender = form.sender
         /\ carried.network = form.network /\ carried.answer = form.answer
         /\ carried.outcome = form.outcome
         /\ form.left => carried.left
         /\ form.step = "wallet" /\ network' # network => carried.left
<1> DEFINE moved == form.step = "wallet" /\ network' # network
<1>1. form.left \in BOOLEAN /\ moved \in BOOLEAN /\ (form.left \/ moved) \in BOOLEAN
  BY DEF Form
<1>2. carried = [form EXCEPT !.left = form.left \/ moved]
  BY DEF carried
<1> HIDE DEF moved
<1>3. /\ carried \in Form /\ carried.left = (form.left \/ moved)
      /\ carried.isSubmitting = form.isSubmitting /\ carried.txPhase = form.txPhase
      /\ carried.step = form.step /\ carried.sender = form.sender
      /\ carried.network = form.network /\ carried.answer = form.answer
      /\ carried.outcome = form.outcome
  BY <1>1, <1>2 DEF Form
<1> QED
  BY <1>3 DEF moved

LEMMA Settled ==
  ASSUME form \in Form, NEW outcome \in Outcome, NEW answer \in BOOLEAN,
         settles(outcome, answer)
  PROVE  /\ form' \in Form /\ form'.step = "settling"
         /\ form'.isSubmitting = form.isSubmitting
  BY DEF settles, Form, Step

(* The part of the type invariant that is of the pages.                    *)
PageIsTyped ==
  /\ route \in Route /\ crashed \in BOOLEAN
  /\ form \in Form /\ csv \in Csv /\ history \in History
  /\ form.isSubmitting <=> form.step # "none"
  /\ ~mounted => form = NoForm /\ csv = NoCsv /\ history = NoHistory

(* A page that is not shown, or shown anew, has no state; a form submits  *)
(* while its promise awaits something.                                     *)
LEMMA StepPage ==
  ASSUME Assumptions, PagesInv, SessionInv', [PagesNext]_allVars
  PROVE  PageIsTyped'
<1>0. PageIsTyped
  BY DEF PagesInv, PagesTypeOK, PageIsTyped
<1> USE <1>0
<1>1. ASSUME sessionMoves, rerender PROVE PageIsTyped'
  <2>1. /\ route' = route /\ crashed' \in BOOLEAN
        /\ form' = (IF mounted' THEN carried ELSE NoForm)
        /\ csv' = (IF mounted' THEN csv ELSE NoCsv)
    BY <1>1 DEF rerender, crashes, PageIsTyped
  <2>2. ~mounted' => history' = NoHistory
    BY <1>1 DEF rerender
  <2>3. history' \in History
    <3>1. address'[Here] \in Account \cup {NoAccount}
      BY DEF SessionInv, SessionTypeOK, Assumptions, PagesAssumption
    <3>2. history' \in {NoHistory, history, fetch(history, address'[Here])}
          /\ (history' \notin {NoHistory, history} => address'[Here] # NoAccount)
      BY <1>1 DEF rerender, refetches
    <3> QED
      BY <3>1, <3>2, EmptyPage, Fetched DEF Assumptions, PageIsTyped
  <2>4. form' \in Form /\ csv' \in Csv /\ (form'.isSubmitting <=> form'.step # "none")
    BY <2>1, EmptyPage, Carried DEF Assumptions, PageIsTyped, NoForm
  <2> QED
    BY <2>1, <2>2, <2>3, <2>4 DEF PageIsTyped
<1>2. ASSUME reloadPage PROVE PageIsTyped'
  BY <1>2, EmptyPage DEF reloadPage, Assumptions, PageIsTyped, NoForm
<1>3. ASSUME NEW r \in Visited, navigate(r) PROVE PageIsTyped'
  <2>1. /\ route' = r /\ form' = NoForm /\ csv' = NoCsv /\ crashed' = FALSE
        /\ r \in Route /\ UNCHANGED sessionVars
    BY <1>3 DEF navigate, PageIsTyped, Assumptions, PagesAssumption, Route, FormRoute
  <2>2. history' = NoHistory \/ (r = "history" /\ isConnected
                                   /\ history' = fetch(NoHistory, address[Here]))
    BY <1>3 DEF navigate
  <2>3. isConnected => address[Here] \in Account
    BY DEF isConnected, PagesInv, SessionInv, SessionTypeOK, Assumptions, PagesAssumption
  <2>4. history' \in History
    BY <2>2, <2>3, EmptyPage, Fetched DEF Assumptions
  <2>5. ~mounted' => history' = NoHistory
    BY <2>1, <2>2 DEF mounted
  <2> QED
    BY <2>1, <2>4, <2>5, EmptyPage DEF Assumptions, PageIsTyped, NoForm
<1>4. ASSUME fetchCertificates PROVE PageIsTyped'
  <2>1. mounted /\ address[Here] \in Account
    BY <1>4 DEF fetchCertificates, clickable, mounted, isConnected, PagesInv, SessionInv,
             SessionTypeOK, Assumptions, PagesAssumption
  <2>2. mounted'
    BY <1>4, <2>1 DEF fetchCertificates, mounted, active, isConnected, sessionVars, tabVars
  <2> QED
    BY <1>4, <2>1, <2>2, Fetched DEF fetchCertificates, PageIsTyped
<1>5. ASSUME NEW a \in Account, listAnswered(a) PROVE PageIsTyped'
  <2>1. mounted
    BY <1>5 DEF listAnswered, PageIsTyped, NoHistory
  <2>2. mounted' = mounted
    BY <1>5 DEF listAnswered, mounted, active, isConnected, sessionVars, tabVars
  <2>3. history' \in History
    BY <1>5 DEF listAnswered, History, PageIsTyped
  <2> QED
    BY <1>5, <2>1, <2>2, <2>3 DEF listAnswered, PageIsTyped
<1>6. ASSUME NEW f \in File \cup {NoFile}, handleFileChange(f) PROVE PageIsTyped'
  BY <1>6 DEF handleFileChange, mounted, active, isConnected, sessionVars, tabVars, Csv,
    PageIsTyped
<1>7. ASSUME NEW f \in File, fileRead(f) PROVE PageIsTyped'
  <2>1. mounted
    BY <1>7 DEF fileRead, PageIsTyped, NoCsv
  <2>2. mounted' = mounted
    BY <1>7 DEF fileRead, mounted, active, isConnected, sessionVars, tabVars
  <2>3. csv' \in Csv
    BY <1>7 DEF fileRead, Csv, PageIsTyped
  <2> QED
    BY <1>7, <2>1, <2>2, <2>3 DEF fileRead, PageIsTyped
<1>8. ASSUME submitToBackend PROVE PageIsTyped'
  <2>0. token.sub \in Account \cup {NoAccount}
    BY DEF PagesInv, SessionInv, SessionTypeOK, Token, NoToken
  <2>1. mounted
    BY <1>8 DEF submitToBackend, maySubmit
  <2>2. mounted' = mounted
    BY <1>8 DEF submitToBackend, mounted, active, isConnected, sessionVars, tabVars
  <2>3. form' \in Form /\ (form'.isSubmitting <=> form'.step # "none")
    BY <1>8, <2>0 DEF submitToBackend, NoForm, Form, Phase, Step, Outcome, PageIsTyped
  <2> QED
    BY <1>8, <2>1, <2>2, <2>3 DEF submitToBackend, PageIsTyped
<1>9. ASSUME submitRevocation PROVE PageIsTyped'
  <2>1. mounted
    BY <1>9 DEF submitRevocation, maySubmit
  <2>2. mounted' = mounted
    BY <1>9 DEF submitRevocation, mounted, active, isConnected, sessionVars, tabVars
  <2>3. form' \in Form /\ (form'.isSubmitting <=> form'.step # "none")
    <3> DEFINE told == <<Here, "chainChanged">> \in unhandled
    <3>1. told \in BOOLEAN
      OBVIOUS
    <3>2. form' = [NoForm EXCEPT !.isSubmitting = TRUE, !.step = "wallet",
                                 !.txPhase = "requested", !.left = told]
      BY <1>9 DEF submitRevocation
    <3> HIDE DEF told
    <3> QED
      BY <3>1, <3>2 DEF NoForm, Form, Phase, Step, Outcome
  <2> QED
    BY <1>9, <2>1, <2>2, <2>3 DEF submitRevocation, PageIsTyped
<1>10. ASSUME submitInvalid PROVE PageIsTyped'
  <2>1. mounted
    BY <1>10 DEF submitInvalid, maySubmit
  <2>2. mounted' = mounted
    BY <1>10 DEF submitInvalid, mounted, active, isConnected, sessionVars, tabVars
  <2>3. form' \in Form /\ (form'.isSubmitting <=> form'.step # "none")
    BY <1>10 DEF submitInvalid, NoForm, Form, Phase, Step, Outcome, PageIsTyped
  <2> QED
    BY <1>10, <2>1, <2>2, <2>3 DEF submitInvalid, PageIsTyped
<1>11. ASSUME serve PROVE PageIsTyped'
  <2>1. mounted
    BY <1>11 DEF serve, PageIsTyped, NoForm
  <2>2. mounted' = mounted
    BY <1>11 DEF serve, mounted, active, isConnected, sessionVars, tabVars
  <2>3. PICK outcome \in Outcome, answer \in BOOLEAN : settles(outcome, answer)
    BY <1>11 DEF serve, Outcome
  <2>4. form' \in Form /\ form'.isSubmitting /\ form'.step = "settling"
    BY <1>11, <2>3, Settled DEF serve, PageIsTyped
  <2> QED
    BY <1>11, <2>1, <2>2, <2>4 DEF serve, PageIsTyped
<1>12. ASSUME sendRevocation PROVE PageIsTyped'
  <2>0. grantable \subseteq Account \cup {NoAccount} /\ network \in Network
    BY DEF grantable, PagesInv, SessionInv, SessionTypeOK
  <2>1. mounted
    BY <1>12 DEF sendRevocation, PageIsTyped, NoForm
  <2>2. mounted' = mounted
    BY <1>12 DEF sendRevocation, mounted, active, isConnected, tabVars
  <2>3. PICK a \in Account \cup {NoAccount} :
          form' = [form EXCEPT !.step = "sent", !.txPhase = "pending",
                               !.sender = a, !.network = network]
    BY <1>12, <2>0 DEF sendRevocation
  <2>4. form' \in Form /\ form'.isSubmitting = form.isSubmitting /\ form'.step = "sent"
    BY <2>0, <2>3 DEF Form, Phase, Step, PageIsTyped
  <2> QED
    BY <1>12, <2>1, <2>2, <2>4 DEF sendRevocation, PageIsTyped
<1>13. ASSUME rejectRevocation PROVE PageIsTyped'
  <2>1. mounted
    BY <1>13 DEF rejectRevocation, PageIsTyped, NoForm
  <2>2. mounted' = mounted
    BY <1>13 DEF rejectRevocation, mounted, active, isConnected, sessionVars, tabVars
  <2>3. PICK outcome \in Outcome, answer \in BOOLEAN : settles(outcome, answer)
    BY <1>13 DEF rejectRevocation, Outcome
  <2>4. form' \in Form /\ form'.isSubmitting /\ form'.step = "settling"
    BY <1>13, <2>3, Settled DEF rejectRevocation, PageIsTyped
  <2> QED
    BY <1>13, <2>1, <2>2, <2>4 DEF rejectRevocation, PageIsTyped
<1>14. ASSUME mineRevocation PROVE PageIsTyped'
  <2>1. mounted
    BY <1>14 DEF mineRevocation, PageIsTyped, NoForm
  <2>2. mounted' = mounted
    BY <1>14 DEF mineRevocation, mounted, active, isConnected, sessionVars, tabVars
  <2>3. PICK outcome \in Outcome, answer \in BOOLEAN : settles(outcome, answer)
    BY <1>14 DEF mineRevocation, Outcome
  <2>4. form' \in Form /\ form'.isSubmitting /\ form'.step = "settling"
    BY <1>14, <2>3, Settled DEF mineRevocation, PageIsTyped
  <2> QED
    BY <1>14, <2>1, <2>2, <2>4 DEF mineRevocation, PageIsTyped
<1>15. ASSUME settle PROVE PageIsTyped'
  <2>1. mounted
    BY <1>15 DEF settle, PageIsTyped, NoForm
  <2>2. mounted' = mounted
    BY <1>15 DEF settle, mounted, active, isConnected, sessionVars, tabVars
  <2>3. form' \in Form /\ (form'.isSubmitting <=> form'.step # "none")
    BY <1>15 DEF settle, phaseAfter, Form, Phase, Step, Outcome, PageIsTyped
  <2>4. csv' \in Csv
    BY <1>15 DEF settle, Csv, PageIsTyped
  <2> QED
    BY <1>15, <2>1, <2>2, <2>3, <2>4 DEF settle, PageIsTyped
<1>16. ASSUME UNCHANGED allVars PROVE PageIsTyped'
  BY <1>16 DEF allVars, pageVars, sessionVars, tabVars, PageIsTyped, mounted, active, isConnected
<1> HIDE DEF PageIsTyped
<1> QED
  BY <1>1, <1>2, <1>3, <1>4, <1>5, <1>6, <1>7, <1>8, <1>9, <1>10, <1>11, <1>12, <1>13,
     <1>14, <1>15, <1>16
     DEF PagesNext, sessionMoves

(* A page learns its wallet's network with it, or by an event.             *)
LEMMA StepNetwork ==
  ASSUME Assumptions, PagesInv, [PagesNext]_allVars
  PROVE  NetworkIsTold'
<1>0. Here \in Tab /\ NetworkIsTold /\ SessionTypeOK
  BY DEF PagesInv, SessionInv, Assumptions, PagesAssumption
<1>1. ASSUME NEW a, expose(a), chainId'[Here] \in {chainId[Here], NoNetwork} PROVE NetworkIsTold'
  BY <1>0, <1>1, ExposeTells DEF expose, NetworkIsTold
<1>2. ASSUME UNCHANGED walletVars, chainId'[Here] \in {chainId[Here], NoNetwork, network}
      PROVE  NetworkIsTold'
  BY <1>0, <1>2 DEF walletVars, NetworkIsTold
<1>3. ASSUME NEW n \in Network, selectNetwork(n) PROVE NetworkIsTold'
  BY <1>0, <1>3 DEF selectNetwork, tellTabs, NetworkIsTold
<1>4. ASSUME NEW t \in Tab, handleAccountsChanged(t) PROVE NetworkIsTold'
  BY <1>0, <1>4 DEF handleAccountsChanged, NetworkIsTold
<1>5. ASSUME NEW t \in Tab, handleChainChanged(t) PROVE NetworkIsTold'
  BY <1>0, <1>5 DEF handleChainChanged, NetworkIsTold, SessionTypeOK
<1>6. ASSUME NEW t \in Tab, syncWallet(t) PROVE NetworkIsTold'
  BY <1>0, <1>2, <1>6 DEF syncWallet, SessionTypeOK
<1>7. ASSUME NEW t \in Tab, resetSession(t) PROVE NetworkIsTold'
  BY <1>0, <1>2, <1>7 DEF resetSession, SessionTypeOK
<1>8. ASSUME NEW l \in Login, readChainId(l) PROVE NetworkIsTold'
  BY <1>0, <1>2, <1>8 DEF readChainId, SessionTypeOK
<1>9. ASSUME reload(Here) PROVE NetworkIsTold'
  BY <1>0, <1>9 DEF reload, NetworkIsTold, SessionTypeOK
<1>10. ASSUME NEW a, expose(a), UNCHANGED chainId PROVE NetworkIsTold'
  BY <1>1, <1>10
<1>11. \/ \E a : expose(a) /\ UNCHANGED chainId
       \/ UNCHANGED <<walletVars, chainId>>
       \/ \E n \in Network : selectNetwork(n)
       \/ \E t \in Tab : \/ handleAccountsChanged(t) \/ handleChainChanged(t)
                         \/ syncWallet(t) \/ resetSession(t)
       \/ \E l \in Login : readChainId(l)
       \/ reload(Here)
  <2>1. CASE sessionMoves
    BY <2>1 DEF sessionMoves, sessionStep, networkStep, tabStep, loginStep, restartBackend,
         connectAndLogin, requestSiweNonce, verifySiweLogin, loginAnswered, loginFailed, tabVars,
         selectAccount, disconnect, requestAccounts, signMessage
  <2>2. CASE sendRevocation
    BY <2>2 DEF sendRevocation, tabVars
  <2>3. CASE reloadPage
    BY <2>3 DEF reloadPage
  <2>4. CASE sessionVars' = sessionVars
    BY <2>4 DEF sessionVars, tabVars
  <2> QED
    BY <2>1, <2>2, <2>3, <2>4 DEF PagesNext, allVars, sessionMoves, navigate, fetchCertificates,
       listAnswered, handleFileChange, fileRead, submitToBackend, submitRevocation,
       submitInvalid, serve, rejectRevocation, mineRevocation, settle
<1>12. ASSUME UNCHANGED <<walletVars, chainId>> PROVE NetworkIsTold'
  BY <1>2, <1>12
<1> QED
  BY <1>3, <1>4, <1>5, <1>6, <1>7, <1>8, <1>9, <1>10, <1>11, <1>12

(* A form says confirmed, or stops, by what its promise came to.           *)
LEMMA StepBanner ==
  ASSUME Assumptions, PagesInv, SessionInv', [PagesNext]_allVars
  PROVE  BannerIsDecided'
<1>0. PagesTypeOK /\ BannerIsDecided
  BY DEF PagesInv
<1> USE <1>0 DEF PagesTypeOK
<1>1. ASSUME sessionMoves, rerender PROVE BannerIsDecided'
  <2>1. CASE form' = NoForm
    BY <2>1 DEF BannerIsDecided, NoForm
  <2>2. CASE form' = carried
    BY <1>1, <2>2, Carried DEF rerender, BannerIsDecided
  <2> QED
    BY <1>1, <2>1, <2>2 DEF rerender
<1>2. ASSUME reloadPage PROVE BannerIsDecided'
  BY <1>2 DEF reloadPage, BannerIsDecided, NoForm
<1>3. ASSUME NEW r \in Visited, navigate(r) PROVE BannerIsDecided'
  BY <1>3 DEF navigate, BannerIsDecided, NoForm
<1>4. ASSUME fetchCertificates PROVE BannerIsDecided'
  BY <1>4 DEF fetchCertificates, BannerIsDecided, sessionVars, walletVars
<1>5. ASSUME NEW a \in Account, listAnswered(a) PROVE BannerIsDecided'
  BY <1>5 DEF listAnswered, BannerIsDecided, sessionVars, walletVars
<1>6. ASSUME NEW f \in File \cup {NoFile}, handleFileChange(f) PROVE BannerIsDecided'
  BY <1>6 DEF handleFileChange, BannerIsDecided, sessionVars, walletVars
<1>7. ASSUME NEW f \in File, fileRead(f) PROVE BannerIsDecided'
  BY <1>7 DEF fileRead, BannerIsDecided, sessionVars, walletVars
<1>8. ASSUME submitToBackend PROVE BannerIsDecided'
  BY <1>8 DEF submitToBackend, BannerIsDecided, NoForm
<1>9. ASSUME submitRevocation PROVE BannerIsDecided'
  <2>1. chainId[Here] = Amoy /\ Amoy \in Network /\ NoNetwork \notin Network
    BY <1>9 DEF submitRevocation, Assumptions, SessionAssumption
  <2>2. network = Amoy \/ <<Here, "chainChanged">> \in unhandled
    BY <2>1 DEF PagesInv, NetworkIsTold
  <2>3. /\ form'.isSubmitting /\ form'.txPhase = "requested" /\ form'.step = "wallet"
        /\ form'.outcome = "none" /\ form'.left = (<<Here, "chainChanged">> \in unhandled)
        /\ route' = "revoke" /\ network' = network
    BY <1>9 DEF submitRevocation, NoForm, sessionVars, walletVars
  <2> QED
    BY <2>2, <2>3 DEF BannerIsDecided
<1>10. ASSUME submitInvalid PROVE BannerIsDecided'
  BY <1>10 DEF submitInvalid, BannerIsDecided, NoForm
<1>11. ASSUME serve PROVE BannerIsDecided'
  <2>1. PICK outcome \in {"none", "done"}, answer \in BOOLEAN :
          settles(outcome, answer) /\ (answer => outcome = "done")
    BY <1>11 DEF serve
  <2>2. form.txPhase # "confirmed"
    BY <1>11 DEF serve, BannerIsDecided, Form
  <2>3. /\ form'.step = "settling" /\ form'.outcome = outcome /\ form'.answer = answer
        /\ form'.isSubmitting = form.isSubmitting /\ form'.txPhase = form.txPhase
    BY <2>1 DEF settles, Form
  <2> QED
    BY <2>1, <2>2, <2>3 DEF BannerIsDecided
<1>12. ASSUME sendRevocation PROVE BannerIsDecided'
  <2>1. /\ form'.step = "sent" /\ form'.txPhase = "pending" /\ form'.network = network
        /\ form'.left = form.left /\ form'.outcome = form.outcome /\ route' = route
    BY <1>12 DEF sendRevocation, Form
  <2> QED
    BY <1>12, <2>1 DEF sendRevocation, BannerIsDecided
<1>13. ASSUME rejectRevocation PROVE BannerIsDecided'
  BY <1>13 DEF rejectRevocation, BannerIsDecided, settles, Form
<1>14. ASSUME mineRevocation PROVE BannerIsDecided'
  <2>1. PICK outcome \in {"none", IF form.network = Amoy THEN "done" ELSE "elsewhere"},
             answer \in BOOLEAN :
          settles(outcome, answer) /\ (answer => outcome # "none")
    BY <1>14 DEF mineRevocation
  <2>2. form.txPhase # "confirmed" /\ (form.network = Amoy \/ form.left)
    BY <1>14 DEF mineRevocation, BannerIsDecided, Form
  <2>3. /\ form'.step = "settling" /\ form'.outcome = outcome /\ form'.answer = answer
        /\ form'.isSubmitting = form.isSubmitting /\ form'.txPhase = form.txPhase
        /\ form'.left = form.left
    BY <2>1 DEF settles, Form
  <2> QED
    BY <2>1, <2>2, <2>3 DEF BannerIsDecided
<1>15. ASSUME settle PROVE BannerIsDecided'
  BY <1>15 DEF settle, BannerIsDecided, phaseAfter, Form
<1>16. ASSUME UNCHANGED allVars PROVE BannerIsDecided'
  BY <1>16 DEF allVars, pageVars, sessionVars, walletVars, tabVars, BannerIsDecided
<1> HIDE DEF BannerIsDecided
<1> QED
  BY <1>1, <1>2, <1>3, <1>4, <1>5, <1>6, <1>7, <1>8, <1>9, <1>10, <1>11, <1>12, <1>13,
     <1>14, <1>15, <1>16
     DEF PagesNext, sessionMoves

(* The signer is the wallet's account until the page hears of another.     *)
LEMMA StepSigner ==
  ASSUME Assumptions, PagesInv, SessionInv', [PagesNext]_allVars
  PROVE  SignerIsExplained'
<1>0. PagesTypeOK /\ SignerIsExplained
  BY DEF PagesInv
<1> USE <1>0 DEF PagesTypeOK
<1>1. ASSUME sessionMoves, rerender PROVE SignerIsExplained'
  <2>1. form'.step = "sent" => form.step = "sent" /\ form'.sender = form.sender
    BY <1>1, Carried DEF rerender, NoForm
  <2>2. form'.step = "sent" => mounted' /\ route' = "revoke"
    BY <1>1, <2>1 DEF rerender, NoForm, PagesInv, BannerIsDecided
  <2> QED
    BY <1>1, <2>1, <2>2, SessionMovesHere DEF PagesInv, mounted, active, movesHere,
       SignerIsExplained
<1>2. ASSUME reloadPage PROVE SignerIsExplained'
  BY <1>2 DEF reloadPage, SignerIsExplained, NoForm
<1>3. ASSUME NEW r \in Visited, navigate(r) PROVE SignerIsExplained'
  BY <1>3 DEF navigate, SignerIsExplained, NoForm
<1>4. ASSUME fetchCertificates PROVE SignerIsExplained'
  BY <1>4 DEF fetchCertificates, SignerIsExplained, sessionVars, walletVars
<1>5. ASSUME NEW a \in Account, listAnswered(a) PROVE SignerIsExplained'
  BY <1>5 DEF listAnswered, SignerIsExplained, sessionVars, walletVars
<1>6. ASSUME NEW f \in File \cup {NoFile}, handleFileChange(f) PROVE SignerIsExplained'
  BY <1>6 DEF handleFileChange, SignerIsExplained, sessionVars, walletVars
<1>7. ASSUME NEW f \in File, fileRead(f) PROVE SignerIsExplained'
  BY <1>7 DEF fileRead, SignerIsExplained, sessionVars, walletVars
<1>8. ASSUME submitToBackend PROVE SignerIsExplained'
  BY <1>8 DEF submitToBackend, SignerIsExplained, sessionVars, walletVars, NoForm
<1>9. ASSUME submitRevocation PROVE SignerIsExplained'
  BY <1>9 DEF submitRevocation, SignerIsExplained, sessionVars, walletVars, NoForm
<1>10. ASSUME submitInvalid PROVE SignerIsExplained'
  BY <1>10 DEF submitInvalid, SignerIsExplained, sessionVars, walletVars, NoForm
<1>11. ASSUME serve PROVE SignerIsExplained'
  BY <1>11 DEF serve, SignerIsExplained, sessionVars, walletVars, settles, Form
<1>12. ASSUME sendRevocation PROVE SignerIsExplained'
  BY <1>12 DEF sendRevocation, expose, SignerIsExplained, Form
<1>13. ASSUME rejectRevocation PROVE SignerIsExplained'
  BY <1>13 DEF rejectRevocation, SignerIsExplained, sessionVars, walletVars, settles, Form
<1>14. ASSUME mineRevocation PROVE SignerIsExplained'
  BY <1>14 DEF mineRevocation, SignerIsExplained, sessionVars, walletVars, settles, Form
<1>15. ASSUME settle PROVE SignerIsExplained'
  BY <1>15 DEF settle, SignerIsExplained, sessionVars, walletVars, Form
<1>16. ASSUME UNCHANGED allVars PROVE SignerIsExplained'
  BY <1>16 DEF allVars, pageVars, sessionVars, walletVars, tabVars, SignerIsExplained
<1> HIDE DEF SignerIsExplained
<1> QED
  BY <1>1, <1>2, <1>3, <1>4, <1>5, <1>6, <1>7, <1>8, <1>9, <1>10, <1>11, <1>12, <1>13,
     <1>14, <1>15, <1>16
     DEF PagesNext, sessionMoves

(* One read at a time gives the file chosen.                               *)
LEMMA StepCsv ==
  ASSUME Assumptions, PagesInv, SessionInv', [PagesNext]_allVars
  PROVE  CsvIsRead'
<1>0. PagesTypeOK /\ CsvIsRead
  BY DEF PagesInv
<1> USE <1>0 DEF PagesTypeOK
<1>1. ASSUME sessionMoves, rerender PROVE CsvIsRead'
  BY <1>1, Carried DEF rerender, CsvIsRead, NoCsv, NoForm
<1>2. ASSUME reloadPage PROVE CsvIsRead'
  BY <1>2 DEF reloadPage, CsvIsRead, NoCsv, NoForm
<1>3. ASSUME NEW r \in Visited, navigate(r) PROVE CsvIsRead'
  BY <1>3 DEF navigate, CsvIsRead, NoCsv, NoForm
<1>4. ASSUME fetchCertificates PROVE CsvIsRead'
  BY <1>4 DEF fetchCertificates, CsvIsRead
<1>5. ASSUME NEW a \in Account, listAnswered(a) PROVE CsvIsRead'
  BY <1>5 DEF listAnswered, CsvIsRead
<1>6. ASSUME NEW f \in File \cup {NoFile}, handleFileChange(f) PROVE CsvIsRead'
  BY <1>6 DEF handleFileChange, CsvIsRead
<1>7. ASSUME NEW f \in File, fileRead(f) PROVE CsvIsRead'
  <2>1. /\ f \in csv.reading /\ csv'.reading = csv.reading \ {f}
        /\ csv'.chosen = csv.chosen /\ csv'.overlapped = csv.overlapped
        /\ csv'.csvFile \in {csv.csvFile, f} /\ UNCHANGED <<route, form>>
    BY <1>7 DEF fileRead, Csv
  <2>2. route = "batch" /\ f # NoFile
    BY <1>7, <2>1 DEF CsvIsRead, NoCsv, Assumptions, PagesAssumption
  <2> QED
    BY <2>1, <2>2 DEF CsvIsRead
<1>8. ASSUME submitToBackend PROVE CsvIsRead'
  BY <1>8 DEF submitToBackend, CsvIsRead, NoForm
<1>9. ASSUME submitRevocation PROVE CsvIsRead'
  BY <1>9 DEF submitRevocation, CsvIsRead, NoForm
<1>10. ASSUME submitInvalid PROVE CsvIsRead'
  BY <1>10 DEF submitInvalid, CsvIsRead, NoForm, NoCsv
<1>11. ASSUME serve PROVE CsvIsRead'
  BY <1>11 DEF serve, CsvIsRead, settles, Form
<1>12. ASSUME sendRevocation PROVE CsvIsRead'
  BY <1>12 DEF sendRevocation, CsvIsRead, Form
<1>13. ASSUME rejectRevocation PROVE CsvIsRead'
  BY <1>13 DEF rejectRevocation, CsvIsRead, settles, Form
<1>14. ASSUME mineRevocation PROVE CsvIsRead'
  BY <1>14 DEF mineRevocation, CsvIsRead, settles, Form
<1>15. ASSUME settle PROVE CsvIsRead'
  <2>1. /\ ~form'.isSubmitting /\ form.isSubmitting /\ route' = route
    BY <1>15 DEF settle, Form
  <2>2. \/ csv' = csv
        \/ /\ csv'.csvFile = NoFile
           /\ csv'.reading = csv.reading /\ csv'.overlapped = csv.overlapped
    BY <1>15 DEF settle, Csv
  <2>3. CASE route # "batch"
    <3>0. csv = NoCsv
      BY <2>3 DEF CsvIsRead
    <3>1. [NoCsv EXCEPT !.chosen = NoFile, !.csvFile = NoFile] = NoCsv
      <4>1. NoCsv \in Csv /\ NoCsv.chosen = NoFile /\ NoCsv.csvFile = NoFile
        BY DEF NoCsv, Csv
      <4> QED
        BY <4>1 DEF Csv
    <3>2. csv' = NoCsv /\ route' = route
      BY <1>15, <3>0, <3>1 DEF settle
    <3> QED
      BY <2>3, <3>2 DEF CsvIsRead, NoCsv
  <2>4. CASE route = "batch"
    BY <2>1, <2>2, <2>4 DEF CsvIsRead
  <2> QED
    BY <2>3, <2>4
<1>16. ASSUME UNCHANGED allVars PROVE CsvIsRead'
  BY <1>16 DEF allVars, pageVars, sessionVars, walletVars, tabVars, CsvIsRead
<1> HIDE DEF CsvIsRead
<1> QED
  BY <1>1, <1>2, <1>3, <1>4, <1>5, <1>6, <1>7, <1>8, <1>9, <1>10, <1>11, <1>12, <1>13,
     <1>14, <1>15, <1>16
     DEF PagesNext, sessionMoves

(* Each change of the account shown asks for its list.                     *)
LEMMA StepHistory ==
  ASSUME Assumptions, PagesInv, SessionInv', [PagesNext]_allVars
  PROVE  HistoryIsAsked'
<1>0. PagesTypeOK /\ HistoryIsAsked
  BY DEF PagesInv
<1> USE <1>0 DEF PagesTypeOK
<1>1. ASSUME sessionMoves, rerender PROVE HistoryIsAsked'
  <2>1. CASE isConnected' /\ isConnected
    <3>1. ASSUME route = "history", ~crashed'
          PROVE  IF address'[Here] # address[Here] THEN history' = fetch(history, address'[Here])
                 ELSE history' = history /\ ~crashed
      BY <1>1, <2>1, <3>1 DEF rerender, mounted, refetches, isConnected
    <3>2. address'[Here] # NoAccount => address'[Here] \in Account
      BY DEF SessionInv, SessionTypeOK, Assumptions, PagesAssumption
    <3>3. CASE address'[Here] # address[Here]
      <4>1. ASSUME route = "history", ~crashed' PROVE address'[Here] \in history'.fetching
        <5>1. history \in History /\ address'[Here] \in Account
          BY <2>1, <3>2 DEF isConnected
        <5>2. address'[Here] \in fetch(history, address'[Here]).fetching
          BY <5>1, Fetched
        <5> QED
          BY <3>1, <3>3, <4>1, <5>2
      <4> QED
        BY <1>1, <4>1 DEF rerender, HistoryIsAsked
    <3>4. CASE address'[Here] = address[Here]
      BY <1>1, <2>1, <3>1, <3>4 DEF rerender, HistoryIsAsked
    <3> QED
      BY <3>3, <3>4
  <2>2. CASE isConnected' /\ ~isConnected
    BY <1>1, <2>2 DEF rerender, crashes, HistoryIsAsked
  <2> QED
    BY <2>1, <2>2 DEF HistoryIsAsked
<1>2. ASSUME reloadPage PROVE HistoryIsAsked'
  BY <1>2 DEF reloadPage, reload, HistoryIsAsked, isConnected, SessionInv, SessionTypeOK,
           Assumptions, PagesAssumption
<1>3. ASSUME NEW r \in Visited, navigate(r) PROVE HistoryIsAsked'
  <2>1. isConnected => address[Here] \in Account
    BY DEF isConnected, PagesInv, SessionInv, SessionTypeOK, Assumptions, PagesAssumption
  <2>2. route' = "history" /\ isConnected =>
          history' = fetch(NoHistory, address[Here]) /\ address[Here] \in history'.fetching
    <3>1. isConnected => address[Here] \in fetch(NoHistory, address[Here]).fetching
      <4>1. NoHistory \in History
        BY EmptyPage DEF Assumptions
      <4>2. \A a \in Account : a \in fetch(NoHistory, a).fetching
        BY <4>1, Fetched
      <4> QED
        BY <2>1, <4>2
    <3> QED
      BY <1>3, <3>1 DEF navigate
  <2> QED
    BY <1>3, <2>2 DEF navigate, HistoryIsAsked, isConnected, sessionVars, tabVars
<1>4. ASSUME fetchCertificates PROVE HistoryIsAsked'
  <2>1. address[Here] \in Account
    BY <1>4 DEF fetchCertificates, isConnected, SessionTypeOK, Assumptions, PagesAssumption
  <2> QED
    <3>1. address[Here] \in fetch(history, address[Here]).fetching
      BY <2>1, Fetched
    <3> QED
      BY <1>4, <3>1 DEF fetchCertificates, HistoryIsAsked, sessionVars, tabVars
<1>5. ASSUME NEW a \in Account, listAnswered(a) PROVE HistoryIsAsked'
  BY <1>5 DEF listAnswered, HistoryIsAsked, isConnected, sessionVars, tabVars, History
<1>6. ASSUME NEW f \in File \cup {NoFile}, handleFileChange(f) PROVE HistoryIsAsked'
  BY <1>6 DEF handleFileChange, HistoryIsAsked, isConnected, sessionVars, tabVars
<1>7. ASSUME NEW f \in File, fileRead(f) PROVE HistoryIsAsked'
  BY <1>7 DEF fileRead, HistoryIsAsked, isConnected, sessionVars, tabVars
<1>8. ASSUME submitToBackend PROVE HistoryIsAsked'
  BY <1>8 DEF submitToBackend, HistoryIsAsked, isConnected, sessionVars, tabVars
<1>9. ASSUME submitRevocation PROVE HistoryIsAsked'
  BY <1>9 DEF submitRevocation, HistoryIsAsked, isConnected, sessionVars, tabVars
<1>10. ASSUME submitInvalid PROVE HistoryIsAsked'
  BY <1>10 DEF submitInvalid, HistoryIsAsked, isConnected, sessionVars, tabVars
<1>11. ASSUME serve PROVE HistoryIsAsked'
  BY <1>11 DEF serve, HistoryIsAsked, isConnected, sessionVars, tabVars
<1>12. ASSUME sendRevocation PROVE HistoryIsAsked'
  BY <1>12 DEF sendRevocation, HistoryIsAsked, isConnected, tabVars
<1>13. ASSUME rejectRevocation PROVE HistoryIsAsked'
  BY <1>13 DEF rejectRevocation, HistoryIsAsked, isConnected, sessionVars, tabVars
<1>14. ASSUME mineRevocation PROVE HistoryIsAsked'
  BY <1>14 DEF mineRevocation, HistoryIsAsked, isConnected, sessionVars, tabVars
<1>15. ASSUME settle PROVE HistoryIsAsked'
  BY <1>15 DEF settle, HistoryIsAsked, isConnected, sessionVars, tabVars
<1>16. ASSUME UNCHANGED allVars PROVE HistoryIsAsked'
  BY <1>16 DEF allVars, pageVars, sessionVars, tabVars, HistoryIsAsked, isConnected
<1> HIDE DEF HistoryIsAsked
<1> QED
  BY <1>1, <1>2, <1>3, <1>4, <1>5, <1>6, <1>7, <1>8, <1>9, <1>10, <1>11, <1>12, <1>13,
     <1>14, <1>15, <1>16
     DEF PagesNext, sessionMoves

(* Every step of the issuer's page keeps the invariant.                    *)
LEMMA PagesStepInv ==
  ASSUME Assumptions, PagesInv, [PagesNext]_allVars
  PROVE  PagesInv'
<1>1. SessionInv'
  BY StepSession DEF PagesInv
<1>2. /\ PageIsTyped' /\ NetworkIsTold' /\ BannerIsDecided'
      /\ SignerIsExplained' /\ CsvIsRead' /\ HistoryIsAsked'
  BY <1>1, StepPage, StepNetwork, StepBanner, StepSigner, StepCsv, StepHistory
<1>3. SessionTypeOK'
  BY <1>1 DEF SessionInv
<1> QED
  BY <1>1, <1>2, <1>3 DEF PagesInv, PagesTypeOK, PageIsTyped

(* The tab opens on the history page, not connected.                       *)
LEMMA PagesInitInv ==
  ASSUME Assumptions, PagesInit
  PROVE  PagesInv
<1>1. SessionInv
  BY SessionStartInv DEF PagesInit, Assumptions, PagesAssumption
<1>2. address[Here] = NoAccount
  BY DEF PagesInit, SessionStart, Assumptions, PagesAssumption
<1>3. PagesTypeOK
  BY <1>1, EmptyPage DEF SessionInv, NoForm, PagesInit, PagesTypeOK, Assumptions, Route
<1>4. NetworkIsTold /\ BannerIsDecided /\ SignerIsExplained /\ CsvIsRead
  BY DEF PagesInit, SessionStart, Assumptions, PagesAssumption, NetworkIsTold,
         BannerIsDecided, SignerIsExplained, CsvIsRead, NoForm, NoCsv
<1>5. HistoryIsAsked
  BY <1>2 DEF HistoryIsAsked, isConnected
<1> QED
  BY <1>1, <1>3, <1>4, <1>5 DEF PagesInv

LEMMA AllAssumptions == Assumptions
  BY SessionAssumption, PagesAssumption DEF Assumptions

(* The inductive invariant of the issuer's pages.                          *)
THEOREM PagesInvariance == PagesSpec => []PagesInv
<1>1. PagesInit => PagesInv
  BY AllAssumptions, PagesInitInv
<1>2. PagesInv /\ [PagesNext]_allVars => PagesInv'
  BY AllAssumptions, PagesStepInv
<1> QED
  BY <1>1, <1>2, PTL DEF PagesSpec

(***************************************************************************)
(* The properties                                                          *)
(***************************************************************************)

(* The session and the page are well typed; a form submits while its       *)
(* promise awaits something, and a page that is not shown has no state.    *)
THEOREM PagesTypeCorrect == PagesSpec => []PagesTypeOK
<1>1. PagesInv => PagesTypeOK
  BY DEF PagesInv
<1> QED
  BY <1>1, PagesInvariance, PTL

(* A banner says confirmed only of work that was done, or of a revocation  *)
(* sent to a network without the contract because the wallet had changed   *)
(* its network after the form had looked or unknown to it; and a form that *)
(* submits has not settled (the handleSubmit of the three forms).          *)
THEOREM BannersAreTrue == PagesSpec => []BannerTellsTheOutcome
<1>1. PagesInv => BannerTellsTheOutcome
  BY DEF PagesInv, PagesTypeOK, Form, Outcome, BannerIsDecided, BannerTellsTheOutcome
<1> QED
  BY <1>1, PagesInvariance, PTL

(* A line that no blank one precedes has its own number: as many lines     *)
(* before it are counted as there are.                                     *)
LEMMA RowIsLine ==
  ASSUME NEW file \in Seq({"record", "short", "noName", "blank"}), NEW n \in parseCSV(file),
         \A i \in 1..(n - 1) : file[i] # "blank"
  PROVE  file[n - 1] = "record"
<1>1. PICK i \in DOMAIN file : file[i] = "record" /\ n = place(file, i) + 1
  BY DEF parseCSV, rowNumber
<1> DEFINE counted == {j \in 1..i : file[j] # "blank"}
           p == place(file, i)
<1>2. i \in Nat \ {0} /\ p = Cardinality(counted)
  BY DEF place
<1>3. IsFiniteSet(1..i) /\ Cardinality(1..i) = i
  <2>1. i \in Int /\ 1 \in Int /\ ~(1 > i) /\ i - 1 + 1 = i
    BY <1>2
  <2> QED
    BY <2>1, FS_Interval
<1>4. counted \in SUBSET (1..i) /\ i \in counted
  BY <1>1, <1>2
<1> HIDE DEF counted, p
<1>5. IsFiniteSet(counted) /\ p \in Nat /\ p <= i
  BY <1>2, <1>3, <1>4, FS_Subset, FS_CardinalityType
<1>6. IsFiniteSet(1..p) /\ Cardinality(1..p) = p
  BY <1>5, FS_Interval
<1>7. n - 1 = p
  BY <1>1, <1>5 DEF p
<1>8. 1..p \in SUBSET counted
  <2>1. ASSUME NEW j \in 1..p PROVE j \in 1..i /\ file[j] # "blank"
    <3>1. j \in 1..(n - 1) /\ j \in 1..i
      BY <1>2, <1>5, <1>7
    <3> QED
      BY <3>1
  <2> QED
    BY <2>1 DEF counted
<1>9. 1..p = counted
  BY <1>2, <1>5, <1>6, <1>8, FS_Subset
<1>10. i = p
  BY <1>2, <1>4, <1>5, <1>9
<1> QED
  BY <1>1, <1>7, <1>10

(* The records of the batch form are of the file chosen, unless a read was *)
(* overtaken or the file reset during one; the history, once every fetch   *)
(* has been answered, is of the issuer shown, unless an earlier account's  *)
(* list came last, or the fetch for this issuer failed and the page says so*)
(* beside the list it keeps; and the row number of a record is that of its *)
(* line, unless a blank one precedes it (BatchCertificateForm.tsx,         *)
(* app/certificates/page.tsx).                                             *)
THEOREM PagesShowTheirOwn == PagesSpec => []PagesShowWhatTheyName
<1>1. ASSUME PagesInv PROVE RecordsAreOfChosenFile
  BY <1>1 DEF PagesInv, CsvIsRead, RecordsAreOfChosenFile
<1>2. ASSUME PagesInv PROVE HistoryIsOfShownIssuer
  BY <1>2 DEF PagesInv, HistoryIsAsked, HistoryIsOfShownIssuer, mounted
<1>3. ASSUME PagesInv PROVE RowsAreLines
  <2>1. csv.csvFile # NoFile => csv.csvFile \in Seq({"record", "short", "noName", "blank"})
    BY <1>3, PagesAssumption DEF PagesInv, PagesTypeOK, Csv
  <2> QED
    BY <2>1, RowIsLine DEF RowsAreLines
<1> QED
  BY <1>1, <1>2, <1>3, PagesInvariance, PTL DEF PagesShowWhatTheyName

(* A revocation under way was signed by the account the page shows, until  *)
(* the event of a change is on its way, the page had shown another account *)
(* than the wallet's, or a login stores the account it had read            *)
(* (RevokeCertificateForm.tsx, useWallet.ts).                              *)
THEOREM SignerIsShown == PagesSpec => RevocationIsSignedByShownAccount
<1> DEFINE P == signedByShown /\ ~signedByShown' =>
                  \/ <<Here, "accountsChanged">> \in unhandled'
                  \/ form.step = "wallet" /\ address[Here] # account
                  \/ secondLogin(Here)
<1>1. ASSUME PagesInv, [PagesNext]_allVars PROVE P
  <2>0. Assumptions /\ form \in Form
    BY <1>1, AllAssumptions DEF PagesInv, PagesTypeOK
  <2>1. ASSUME sessionMoves, rerender PROVE P
    <3>1. movesHere
      BY <1>1, <2>0, <2>1, SessionMovesHere DEF PagesInv
    <3>2. form'.step = "sent" =>
            /\ form.step = "sent" /\ form'.sender = form.sender
            /\ route = "revoke" /\ mounted'
      BY <1>1, <2>0, <2>1, Carried DEF rerender, NoForm, PagesInv, BannerIsDecided
    <3>3. form'.step = "sent" => isIssuerAuthenticated'[Here]
      BY <2>1, <3>2 DEF rerender, mounted, active
    <3>4. SignerIsExplained
      BY <1>1 DEF PagesInv
    <3> QED
      BY <3>1, <3>2, <3>3, <3>4 DEF movesHere, signedByShown, SignerIsExplained
  <2>2. ASSUME sendRevocation PROVE P
    <3>1. mounted /\ route = "revoke"
      BY <1>1, <2>2 DEF PagesInv, PagesTypeOK, BannerIsDecided, sendRevocation, NoForm
    <3>2. address[Here] # NoAccount /\ address' = address
      BY <2>2, <3>1 DEF mounted, active, isConnected, sendRevocation, tabVars
    <3>3. form'.sender \in grantable
      BY <2>0, <2>2 DEF sendRevocation, Form
    <3> QED
      BY <2>2, <3>2, <3>3 DEF sendRevocation, grantable, signedByShown
  <2>3. ASSUME form'.step # "sent" \/ (form' = form /\ address' = address) PROVE P
    BY <2>3 DEF signedByShown
  <2>4. ASSUME submitToBackend \/ submitRevocation \/ submitInvalid \/ reloadPage
               \/ \E r \in Visited : navigate(r)
        PROVE  form'.step # "sent"
    <3>1. ASSUME submitToBackend PROVE form'.step = "server"
      BY <3>1 DEF submitToBackend, NoForm
    <3>2. ASSUME submitRevocation PROVE form'.step = "wallet"
      BY <3>2 DEF submitRevocation, NoForm
    <3>3. ASSUME submitInvalid PROVE form'.step = "none"
      BY <3>3 DEF submitInvalid, NoForm
    <3>4. ASSUME reloadPage \/ \E r \in Visited : navigate(r) PROVE form'.step = "none"
      BY <3>4 DEF reloadPage, navigate, NoForm
    <3> QED
      BY <2>4, <3>1, <3>2, <3>3, <3>4
  <2>5. ASSUME serve \/ rejectRevocation \/ mineRevocation \/ settle PROVE form'.step # "sent"
    BY <2>0, <2>5 DEF serve, rejectRevocation, mineRevocation, settles, settle, Form
  <2>6. ASSUME \/ fetchCertificates \/ UNCHANGED allVars
               \/ \E a \in Account : listAnswered(a)
               \/ \E f \in File \cup {NoFile} : handleFileChange(f)
               \/ \E f \in File : fileRead(f)
        PROVE  form' = form /\ address' = address
    BY <2>6 DEF fetchCertificates, listAnswered, handleFileChange, fileRead, allVars, pageVars,
       sessionVars, tabVars
  <2> QED
    BY <1>1, <2>1, <2>2, <2>3, <2>4, <2>5, <2>6 DEF PagesNext, sessionMoves
<1> QED
  BY <1>1, PagesInvariance, PTL DEF PagesSpec, RevocationIsSignedByShownAccount

================================================================================
