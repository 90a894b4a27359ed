-------------------------- MODULE IssuerSessionProofs --------------------------
(***************************************************************************)
(* Proofs about IssuerSession, for any accounts, networks, tabs and        *)
(* logins; the network may change, as it does in IssuerPages.              *)
(***************************************************************************)
EXTENDS IssuerSession, TLAPS

(***************************************************************************)
(* The inductive invariant                                                 *)
(***************************************************************************)

(* What a login has asked of the wallet by each stage.                     *)
LocalsByStage ==
  \A l \in Login :
    /\ pc[l] \in {"chain", "nonce", "signing", "verify", "answered"} =>
         login[l].address # NoAccount
    /\ pc[l] \in {"verify", "answered"} => login[l].signer # NoAccount
    /\ pc[l] = "answered" => login[l].signer = login[l].address

(* A challenge in the store is of a login that has yet to be verified, for *)
(* its account, or of one that was given up.                               *)
ChallengesAreOwn ==
  \A a \in Account, l \in Login : challengeStore[a] = l =>
    \/ pc[l] \in {"signing", "verify"} /\ login[l].address = a
    \/ pc[l] = "done"

(* The login a token was given to is over: it asks for no other challenge. *)
TokensAreSpent ==
  token # NoToken =>
    /\ token.signer = token.sub
    /\ token.nonce \in Login => pc[token.nonce] = "done"

SessionInv ==
  SessionTypeOK /\ LocalsByStage /\ ChallengesAreOwn /\ TokensAreSpent /\ TokensAreProven

(* Every step of the wallet, the backend and the tabs.                     *)
anyStep == sessionStep \/ networkStep \/ \E t \in Tab : reload(t)

(***************************************************************************)
(* Locals                                                                  *)
(***************************************************************************)

LEMMA NoLocalsAreNone == SessionAssumption => NoLocals \notin Locals
  BY DEF SessionAssumption, NoLocals, Locals

(* What a running login keeps.                                             *)
LEMMA StagesHaveLocals ==
  ASSUME SessionTypeOK
  PROVE  \A l \in Login : pc[l] \notin {"idle", "done"} =>
           /\ login[l] \in Locals /\ login[l].tab \in Tab
           /\ login[l].address \in Account \cup {NoAccount}
           /\ login[l].signer \in Account \cup {NoAccount}
<1>1. \A l \in Login : pc[l] \notin {"idle", "done"} => login[l] \in Locals
  BY DEF SessionTypeOK, running
<1> QED
  BY <1>1 DEF Locals

(***************************************************************************)
(* The steps                                                               *)
(***************************************************************************)

(* Each step keeps every variable in its type.                             *)
LEMMA StepType ==
  ASSUME SessionAssumption, SessionInv, [anyStep]_sessionVars
  PROVE  SessionTypeOK'
<1> USE DEF SessionInv, SessionTypeOK, Stage, Event, Await, running
<1>1. ASSUME restartBackend PROVE SessionTypeOK'
  BY <1>1 DEF restartBackend, walletVars, tabVars, loginVars, SessionAssumption
<1>2. ASSUME NEW a \in Account \cup {NoAccount}, selectAccount(a) PROVE SessionTypeOK'
  BY <1>2 DEF selectAccount, expose, tellTabs, tabVars, loginVars, SessionAssumption
<1>3. ASSUME NEW n \in Network, selectNetwork(n) PROVE SessionTypeOK'
  BY <1>3 DEF selectNetwork, tellTabs, tabVars, loginVars, SessionAssumption
<1>4. ASSUME NEW t \in Tab, handleAccountsChanged(t) PROVE SessionTypeOK'
  BY <1>4 DEF handleAccountsChanged, loginVars, SessionAssumption
<1>5. ASSUME NEW t \in Tab, handleChainChanged(t) PROVE SessionTypeOK'
  BY <1>5 DEF handleChainChanged, loginVars, SessionAssumption
<1>6. ASSUME NEW t \in Tab, syncWallet(t) PROVE SessionTypeOK'
  BY <1>6 DEF syncWallet, walletVars, loginVars, SessionAssumption
<1>7. ASSUME NEW t \in Tab, disconnect(t) PROVE SessionTypeOK'
  BY <1>7 DEF disconnect, expose, tellTabs, walletVars, loginVars, SessionAssumption
<1>8. ASSUME NEW t \in Tab, resetSession(t) PROVE SessionTypeOK'
  BY <1>8 DEF resetSession, walletVars, loginVars, SessionAssumption
<1>9. ASSUME NEW t \in Tab, reload(t) PROVE SessionTypeOK'
  BY <1>9, NoLocalsAreNone DEF reload
<1>10. ASSUME NEW l \in Login, NEW t \in Tab, connectAndLogin(l, t) PROVE SessionTypeOK'
  BY <1>10 DEF NoLocals, Locals, connectAndLogin, goto, walletVars, tabVars
<1>11. ASSUME NEW l \in Login, requestAccounts(l) PROVE SessionTypeOK'
  BY <1>11 DEF requestAccounts, grantable, Locals, goto, expose, tellTabs, tabVars
<1>12. ASSUME NEW l \in Login, readChainId(l) PROVE SessionTypeOK'
  BY <1>12 DEF readChainId, LocalsByStage, Locals, goto, walletVars
<1>13. ASSUME NEW l \in Login, requestSiweNonce(l) PROVE SessionTypeOK'
  BY <1>13 DEF requestSiweNonce, LocalsByStage, Locals, goto, walletVars, tabVars
<1>14. ASSUME NEW l \in Login, signMessage(l) PROVE SessionTypeOK'
  BY <1>14 DEF signMessage, grantable, Locals, goto, expose, tellTabs, tabVars
<1>15. ASSUME NEW l \in Login, verifySiweLogin(l) PROVE SessionTypeOK'
  BY <1>15 DEF verifySiweLogin, goto, walletVars, tabVars
<1>16. ASSUME NEW l \in Login, loginAnswered(l) PROVE SessionTypeOK'
  BY <1>16, NoLocalsAreNone DEF loginAnswered, LocalsByStage, Locals, Token, finish, goto,
    walletVars
<1>17. ASSUME NEW l \in Login, loginFailed(l) PROVE SessionTypeOK'
  BY <1>17, NoLocalsAreNone DEF loginFailed, finish, goto, walletVars
<1>18. ASSUME UNCHANGED sessionVars PROVE SessionTypeOK'
  BY <1>18 DEF sessionVars, walletVars, tabVars, loginVars
<1> HIDE DEF SessionTypeOK
<1> QED
  BY <1>1, <1>2, <1>3, <1>4, <1>5, <1>6, <1>7, <1>8, <1>9, <1>10, <1>11, <1>12, <1>13,
     <1>14, <1>15, <1>16, <1>17, <1>18
     DEF anyStep, sessionStep, networkStep, tabStep, loginStep

(* A login keeps the account it asked for, and who signed.                 *)
LEMMA StepLocals ==
  ASSUME SessionAssumption, SessionInv, [anyStep]_sessionVars
  PROVE  LocalsByStage'
<1> USE DEF SessionInv, SessionTypeOK, LocalsByStage
<1>1. ASSUME restartBackend PROVE LocalsByStage'
  BY <1>1 DEF restartBackend, walletVars, tabVars, loginVars
<1>2. ASSUME NEW a \in Account \cup {NoAccount}, selectAccount(a) PROVE LocalsByStage'
  BY <1>2 DEF selectAccount, expose, tellTabs, tabVars, loginVars
<1>3. ASSUME NEW n \in Network, selectNetwork(n) PROVE LocalsByStage'
  BY <1>3 DEF selectNetwork, tellTabs, tabVars, loginVars
<1>4. ASSUME NEW t \in Tab, handleAccountsChanged(t) PROVE LocalsByStage'
  BY <1>4 DEF handleAccountsChanged, loginVars
<1>5. ASSUME NEW t \in Tab, handleChainChanged(t) PROVE LocalsByStage'
  BY <1>5 DEF handleChainChanged, loginVars
<1>6. ASSUME NEW t \in Tab, syncWallet(t) PROVE LocalsByStage'
  BY <1>6 DEF syncWallet, walletVars, loginVars
<1>7. ASSUME NEW t \in Tab, disconnect(t) PROVE LocalsByStage'
  BY <1>7 DEF disconnect, expose, tellTabs, walletVars, loginVars
<1>8. ASSUME NEW t \in Tab, resetSession(t) PROVE LocalsByStage'
  BY <1>8 DEF resetSession, walletVars, loginVars
<1>9. ASSUME NEW t \in Tab, reload(t) PROVE LocalsByStage'
  BY <1>9 DEF reload
<1>10. ASSUME NEW l \in Login, NEW t \in Tab, connectAndLogin(l, t) PROVE LocalsByStage'
  BY <1>10 DEF connectAndLogin, goto, walletVars, tabVars
<1>11. ASSUME NEW l \in Login, requestAccounts(l) PROVE LocalsByStage'
  BY <1>11, StagesHaveLocals DEF requestAccounts, grantable, SessionAssumption, goto
<1>12. ASSUME NEW l \in Login, readChainId(l) PROVE LocalsByStage'
  BY <1>12 DEF readChainId, goto, walletVars
<1>13. ASSUME NEW l \in Login, requestSiweNonce(l) PROVE LocalsByStage'
  BY <1>13 DEF requestSiweNonce, goto, walletVars, tabVars
<1>14. ASSUME NEW l \in Login, signMessage(l) PROVE LocalsByStage'
  BY <1>14, StagesHaveLocals DEF signMessage, grantable, SessionAssumption, goto
<1>15. ASSUME NEW l \in Login, verifySiweLogin(l) PROVE LocalsByStage'
  BY <1>15 DEF verifySiweLogin, goto, recovered
<1>16. ASSUME NEW l \in Login, loginAnswered(l) PROVE LocalsByStage'
  BY <1>16 DEF loginAnswered, goto, finish, walletVars
<1>17. ASSUME NEW l \in Login, loginFailed(l) PROVE LocalsByStage'
  BY <1>17 DEF loginFailed, goto, finish, walletVars
<1>18. ASSUME UNCHANGED sessionVars PROVE LocalsByStage'
  BY <1>18 DEF sessionVars, walletVars, tabVars, loginVars
<1> HIDE DEF LocalsByStage
<1> QED
  BY <1>1, <1>2, <1>3, <1>4, <1>5, <1>6, <1>7, <1>8, <1>9, <1>10, <1>11, <1>12, <1>13,
     <1>14, <1>15, <1>16, <1>17, <1>18
     DEF anyStep, sessionStep, networkStep, tabStep, loginStep

(* A challenge that is stored waits for the login it was made for.         *)
LEMMA StepOwn ==
  ASSUME SessionAssumption, SessionInv, [anyStep]_sessionVars
  PROVE  ChallengesAreOwn'
<1> USE DEF SessionInv, SessionTypeOK, ChallengesAreOwn
<1>1. ASSUME restartBackend PROVE ChallengesAreOwn'
  BY <1>1 DEF restartBackend, SessionAssumption
<1>2. ASSUME NEW a \in Account \cup {NoAccount}, selectAccount(a) PROVE ChallengesAreOwn'
  BY <1>2 DEF selectAccount, expose, tellTabs, tabVars, loginVars
<1>3. ASSUME NEW n \in Network, selectNetwork(n) PROVE ChallengesAreOwn'
  BY <1>3 DEF selectNetwork, tellTabs, tabVars, loginVars
<1>4. ASSUME NEW t \in Tab, handleAccountsChanged(t) PROVE ChallengesAreOwn'
  BY <1>4 DEF handleAccountsChanged, loginVars
<1>5. ASSUME NEW t \in Tab, handleChainChanged(t) PROVE ChallengesAreOwn'
  BY <1>5 DEF handleChainChanged, loginVars
<1>6. ASSUME NEW t \in Tab, syncWallet(t) PROVE ChallengesAreOwn'
  BY <1>6 DEF syncWallet, walletVars, loginVars
<1>7. ASSUME NEW t \in Tab, disconnect(t) PROVE ChallengesAreOwn'
  BY <1>7 DEF disconnect, expose, tellTabs, walletVars, loginVars
<1>8. ASSUME NEW t \in Tab, resetSession(t) PROVE ChallengesAreOwn'
  BY <1>8 DEF resetSession, walletVars, loginVars
<1>9. ASSUME NEW t \in Tab, reload(t) PROVE ChallengesAreOwn'
  BY <1>9 DEF reload
<1>10. ASSUME NEW l \in Login, NEW t \in Tab, connectAndLogin(l, t) PROVE ChallengesAreOwn'
  BY <1>10 DEF connectAndLogin, goto, walletVars, tabVars
<1>11. ASSUME NEW l \in Login, requestAccounts(l) PROVE ChallengesAreOwn'
  BY <1>11 DEF requestAccounts, goto
<1>12. ASSUME NEW l \in Login, readChainId(l) PROVE ChallengesAreOwn'
  BY <1>12 DEF readChainId, goto, walletVars
<1>13. ASSUME NEW l \in Login, requestSiweNonce(l) PROVE ChallengesAreOwn'
  BY <1>13, StagesHaveLocals DEF requestSiweNonce, LocalsByStage, goto
<1>14. ASSUME NEW l \in Login, signMessage(l) PROVE ChallengesAreOwn'
  BY <1>14, StagesHaveLocals DEF signMessage, grantable, goto
<1>15. ASSUME NEW l \in Login, verifySiweLogin(l) PROVE ChallengesAreOwn'
  BY <1>15, StagesHaveLocals DEF verifySiweLogin, LocalsByStage, goto, SessionAssumption
<1>16. ASSUME NEW l \in Login, loginAnswered(l) PROVE ChallengesAreOwn'
  BY <1>16 DEF loginAnswered, goto, finish, walletVars
<1>17. ASSUME NEW l \in Login, loginFailed(l) PROVE ChallengesAreOwn'
  BY <1>17 DEF loginFailed, goto, finish, walletVars
<1>18. ASSUME UNCHANGED sessionVars PROVE ChallengesAreOwn'
  BY <1>18 DEF sessionVars, walletVars, tabVars, loginVars
<1> HIDE DEF ChallengesAreOwn
<1> QED
  BY <1>1, <1>2, <1>3, <1>4, <1>5, <1>6, <1>7, <1>8, <1>9, <1>10, <1>11, <1>12, <1>13,
     <1>14, <1>15, <1>16, <1>17, <1>18
     DEF anyStep, sessionStep, networkStep, tabStep, loginStep

(* Who has a token has logged in.                                          *)
LEMMA StepSpent ==
  ASSUME SessionAssumption, SessionInv, [anyStep]_sessionVars
  PROVE  TokensAreSpent'
<1> USE DEF SessionInv, SessionTypeOK, TokensAreSpent
<1>1. ASSUME restartBackend PROVE TokensAreSpent'
  BY <1>1 DEF restartBackend, running, walletVars, tabVars, loginVars
<1>2. ASSUME NEW a \in Account \cup {NoAccount}, selectAccount(a) PROVE TokensAreSpent'
  BY <1>2 DEF selectAccount, expose, running, tabVars, loginVars
<1>3. ASSUME NEW n \in Network, selectNetwork(n) PROVE TokensAreSpent'
  BY <1>3 DEF selectNetwork, running, tabVars, loginVars
<1>4. ASSUME NEW t \in Tab, handleAccountsChanged(t) PROVE TokensAreSpent'
  BY <1>4 DEF handleAccountsChanged, running, loginVars
<1>5. ASSUME NEW t \in Tab, handleChainChanged(t) PROVE TokensAreSpent'
  BY <1>5 DEF handleChainChanged, running, loginVars
<1>6. ASSUME NEW t \in Tab, syncWallet(t) PROVE TokensAreSpent'
  BY <1>6 DEF syncWallet, running, walletVars, loginVars
<1>7. ASSUME NEW t \in Tab, disconnect(t) PROVE TokensAreSpent'
  BY <1>7 DEF disconnect, expose, running, walletVars, loginVars
<1>8. ASSUME NEW t \in Tab, resetSession(t) PROVE TokensAreSpent'
  BY <1>8 DEF resetSession, running, walletVars, loginVars
<1>9. ASSUME NEW t \in Tab, reload(t) PROVE TokensAreSpent'
  BY <1>9 DEF reload, running
<1>10. ASSUME NEW l \in Login, NEW t \in Tab, connectAndLogin(l, t) PROVE TokensAreSpent'
  BY <1>10 DEF connectAndLogin, goto, running, walletVars, tabVars
<1>11. ASSUME NEW l \in Login, requestAccounts(l) PROVE TokensAreSpent'
  BY <1>11 DEF requestAccounts, expose, goto, running, tabVars
<1>12. ASSUME NEW l \in Login, readChainId(l) PROVE TokensAreSpent'
  BY <1>12 DEF readChainId, goto, running, walletVars
<1>13. ASSUME NEW l \in Login, requestSiweNonce(l) PROVE TokensAreSpent'
  BY <1>13 DEF requestSiweNonce, goto, running, walletVars, tabVars
<1>14. ASSUME NEW l \in Login, signMessage(l) PROVE TokensAreSpent'
  BY <1>14 DEF signMessage, expose, goto, running, tabVars
<1>15. ASSUME NEW l \in Login, verifySiweLogin(l) PROVE TokensAreSpent'
  BY <1>15 DEF verifySiweLogin, goto, running, walletVars, tabVars
<1>16. ASSUME NEW l \in Login, loginAnswered(l) PROVE TokensAreSpent'
  BY <1>16 DEF loginAnswered, finish, goto, LocalsByStage
<1>17. ASSUME NEW l \in Login, loginFailed(l) PROVE TokensAreSpent'
  BY <1>17 DEF loginFailed, goto, finish, running, walletVars
<1>18. ASSUME UNCHANGED sessionVars PROVE TokensAreSpent'
  BY <1>18 DEF sessionVars, walletVars, tabVars, loginVars
<1> HIDE DEF TokensAreSpent
<1> QED
  BY <1>1, <1>2, <1>3, <1>4, <1>5, <1>6, <1>7, <1>8, <1>9, <1>10, <1>11, <1>12, <1>13,
     <1>14, <1>15, <1>16, <1>17, <1>18
     DEF anyStep, sessionStep, networkStep, tabStep, loginStep

(* A login is answered with its challenge gone, which does not come back.  *)
LEMMA StepProven ==
  ASSUME SessionAssumption, SessionInv, [anyStep]_sessionVars
  PROVE  TokensAreProven'
<1> USE DEF SessionInv, SessionTypeOK, TokensAreProven
<1>1. ASSUME restartBackend PROVE TokensAreProven'
  BY <1>1, StagesHaveLocals DEF restartBackend, loginVars, Token, SessionAssumption,
    NoNonce, LocalsByStage
<1>2. ASSUME NEW a \in Account \cup {NoAccount}, selectAccount(a) PROVE TokensAreProven'
  BY <1>2 DEF selectAccount, expose, tellTabs, tabVars, loginVars
<1>3. ASSUME NEW n \in Network, selectNetwork(n) PROVE TokensAreProven'
  BY <1>3 DEF selectNetwork, tellTabs, tabVars, loginVars
<1>4. ASSUME NEW t \in Tab, handleAccountsChanged(t) PROVE TokensAreProven'
  BY <1>4 DEF handleAccountsChanged, loginVars
<1>5. ASSUME NEW t \in Tab, handleChainChanged(t) PROVE TokensAreProven'
  BY <1>5 DEF handleChainChanged, loginVars
<1>6. ASSUME NEW t \in Tab, syncWallet(t) PROVE TokensAreProven'
  BY <1>6 DEF syncWallet, walletVars, loginVars
<1>7. ASSUME NEW t \in Tab, disconnect(t) PROVE TokensAreProven'
  BY <1>7 DEF disconnect, expose, tellTabs, walletVars, loginVars
<1>8. ASSUME NEW t \in Tab, resetSession(t) PROVE TokensAreProven'
  BY <1>8 DEF resetSession, walletVars, loginVars
<1>9. ASSUME NEW t \in Tab, reload(t) PROVE TokensAreProven'
  BY <1>9 DEF reload
<1>10. ASSUME NEW l \in Login, NEW t \in Tab, connectAndLogin(l, t) PROVE TokensAreProven'
  BY <1>10 DEF connectAndLogin, goto, walletVars, tabVars
<1>11. ASSUME NEW l \in Login, requestAccounts(l) PROVE TokensAreProven'
  BY <1>11 DEF requestAccounts, expose, tellTabs, goto, tabVars
<1>12. ASSUME NEW l \in Login, readChainId(l) PROVE TokensAreProven'
  BY <1>12 DEF readChainId, goto, walletVars
<1>13. ASSUME NEW l \in Login, requestSiweNonce(l) PROVE TokensAreProven'
  BY <1>13, StagesHaveLocals DEF requestSiweNonce, goto, Token, TokensAreSpent,
    LocalsByStage
<1>14. ASSUME NEW l \in Login, signMessage(l) PROVE TokensAreProven'
  BY <1>14 DEF signMessage, expose, tellTabs, goto, tabVars
<1>15. ASSUME NEW l \in Login, verifySiweLogin(l) PROVE TokensAreProven'
  BY <1>15, StagesHaveLocals DEF verifySiweLogin, LocalsByStage, goto, recovered,
       SessionAssumption, Token, NoNonce
<1>16. ASSUME NEW l \in Login, loginAnswered(l) PROVE TokensAreProven'
  BY <1>16 DEF loginAnswered, finish, goto
<1>17. ASSUME NEW l \in Login, loginFailed(l) PROVE TokensAreProven'
  BY <1>17 DEF loginFailed, goto, finish, walletVars
<1>18. ASSUME UNCHANGED sessionVars PROVE TokensAreProven'
  BY <1>18 DEF sessionVars, walletVars, tabVars, loginVars
<1> HIDE DEF TokensAreProven
<1> QED
  BY <1>1, <1>2, <1>3, <1>4, <1>5, <1>6, <1>7, <1>8, <1>9, <1>10, <1>11, <1>12, <1>13,
     <1>14, <1>15, <1>16, <1>17, <1>18
     DEF anyStep, sessionStep, networkStep, tabStep, loginStep

(* Every step keeps the invariant.                                         *)
LEMMA SessionStepInv ==
  ASSUME SessionAssumption, SessionInv, [anyStep]_sessionVars
  PROVE  SessionInv'
<1>1. SessionTypeOK' /\ LocalsByStage' /\ ChallengesAreOwn' /\ TokensAreSpent' /\ TokensAreProven'
  BY StepType, StepLocals, StepOwn, StepSpent, StepProven
<1> QED
  BY <1>1 DEF SessionInv

(* The tabs open without a token, or with one of an earlier session.       *)
LEMMA SessionStartInv ==
  ASSUME SessionAssumption, SessionStart(NoToken) \/
           \E a \in Account : SessionStart([sub |-> a, nonce |-> "earlier", signer |-> a])
  PROVE  SessionInv
<1>1. PICK jwt : /\ SessionStart(jwt)
                 /\ \/ jwt = NoToken
                    \/ \E a \in Account : jwt = [sub |-> a, nonce |-> "earlier", signer |-> a]
  OBVIOUS
<1>2. token \in Token \cup {NoToken} /\ (token # NoToken => token.signer = token.sub
                                           /\ token.nonce = "earlier" /\ token.sub \in Account)
  BY <1>1 DEF SessionStart, Token
<1>3. SessionTypeOK
  BY <1>1, NoLocalsAreNone, <1>2 DEF SessionStart, SessionTypeOK, SessionAssumption,
    Stage, Await, running
<1>4. LocalsByStage /\ ChallengesAreOwn
  BY <1>1 DEF SessionStart, LocalsByStage, ChallengesAreOwn, SessionAssumption
<1>5. TokensAreSpent
  BY <1>2 DEF TokensAreSpent, SessionAssumption
<1>6. TokensAreProven
  BY <1>1, <1>2 DEF TokensAreProven, SessionStart, NoNonce
<1> QED
  BY <1>3, <1>4, <1>5, <1>6 DEF SessionInv

(* The inductive invariant of the issuer's session.                        *)
THEOREM SessionInvariance == SessionSpec => []SessionInv
<1>1. SessionAssumption
  BY SessionAssumption
<1>2. SessionAssumption /\ SessionInit => SessionInv
  BY SessionStartInv DEF SessionInit
<1>3. SessionAssumption /\ SessionInv /\ [SessionNext]_sessionVars => SessionInv'
  BY SessionStepInv DEF SessionNext, anyStep
<1> QED
  BY <1>1, <1>2, <1>3, PTL DEF SessionSpec

(***************************************************************************)
(* The properties                                                          *)
(***************************************************************************)

(* The store, the wallet, the tabs and the logins are well typed, and a    *)
(* login has locals exactly while it runs.                                 *)
THEOREM SessionTypeCorrect == SessionSpec => []SessionTypeOK
<1>1. SessionInv => SessionTypeOK
  BY DEF SessionInv
<1> QED
  BY <1>1, SessionInvariance, PTL

(* A token is of the account that signed the challenge it was given for,   *)
(* whatever the wallet showed at each await of the login, and no challenge *)
(* is good for a second token (auth.service.ts, verifyIssuerSiweLogin).    *)
THEOREM TokensComeFromSignatures == SessionSpec => []TokensAreProven
<1>1. SessionInv => TokensAreProven
  BY DEF SessionInv
<1> QED
  BY <1>1, SessionInvariance, PTL

(* The four ways in which a page and its token come to differ.             *)
lateOrOther(t) == lateLogin(t) \/ firstRead(t) \/ secondLogin(t) \/ otherTab(t)

(* There is no fifth, one kind of step at a time.                          *)
LEMMA PageLosesItsToken ==
  ASSUME SessionAssumption, SessionInv, [anyStep]_sessionVars, NEW u \in Tab,
         agrees(u), ~agrees(u)'
  PROVE  lateOrOther(u)
<1> USE DEF SessionInv, SessionTypeOK
<1>0. ASSUME address'[u] = address[u], isIssuerAuthenticated'[u] = isIssuerAuthenticated[u]
      PROVE  lateOrOther(u)
  BY <1>0 DEF lateOrOther, otherTab, agrees, shows
<1>1. ASSUME NEW t \in Tab, handleAccountsChanged(t) PROVE lateOrOther(u)
  BY <1>0, <1>1 DEF handleAccountsChanged, agrees, shows
<1>2. ASSUME NEW t \in Tab, syncWallet(t) PROVE lateOrOther(u)
  BY <1>2, <1>0 DEF syncWallet, lateOrOther, firstRead
<1>3. ASSUME NEW t \in Tab, resetSession(t) PROVE lateOrOther(u)
  BY <1>0, <1>3 DEF resetSession, agrees, shows
<1>4. ASSUME NEW t \in Tab, reload(t) PROVE lateOrOther(u)
  BY <1>0, <1>4 DEF reload, agrees, shows
<1>5. ASSUME NEW l \in Login, readChainId(l) PROVE lateOrOther(u)
  BY <1>5, <1>0 DEF readChainId, goto, lateOrOther, secondLogin, agrees, shows
<1>6. ASSUME NEW l \in Login, loginAnswered(l) PROVE lateOrOther(u)
  BY <1>6, <1>0 DEF loginAnswered, finish, goto, lateOrOther, lateLogin, agrees, shows
<1>7. ASSUME NEW l \in Login, loginFailed(l) PROVE lateOrOther(u)
  BY <1>7, <1>0 DEF loginFailed, agrees, shows
<1>8. \/ \E t \in Tab :
           handleAccountsChanged(t) \/ syncWallet(t) \/ resetSession(t) \/ reload(t)
      \/ \E l \in Login : readChainId(l) \/ loginAnswered(l) \/ loginFailed(l)
      \/ UNCHANGED <<address, isIssuerAuthenticated>>
  BY DEF anyStep, sessionStep, networkStep, tabStep, loginStep, restartBackend, selectAccount,
         selectNetwork, handleChainChanged, disconnect, connectAndLogin, requestAccounts,
         requestSiweNonce, signMessage, verifySiweLogin, sessionVars, tabVars
<1> QED
  BY <1>0, <1>1, <1>2, <1>3, <1>4, <1>5, <1>6, <1>7, <1>8

(* A page that shows an account and a session has the token of that        *)
(* account, until a late login, the first read after a reload, a second    *)
(* login or another tab makes them differ: nothing else does               *)
(* (useWallet.ts).                                                         *)
THEOREM SessionFollowsTheAccount == SessionSpec => SessionIsOfShownAccount
<1> DEFINE P == \A t \in Tab : agrees(t) /\ ~agrees(t)' =>
                  lateLogin(t) \/ firstRead(t) \/ secondLogin(t) \/ otherTab(t)
<1>1. ASSUME SessionAssumption, SessionInv, [SessionNext]_sessionVars PROVE P
  BY <1>1, PageLosesItsToken DEF SessionNext, anyStep, lateOrOther
<1>2. SessionAssumption
  BY SessionAssumption
<1> QED
  BY <1>1, <1>2, SessionInvariance, PTL DEF SessionSpec, SessionIsOfShownAccount

================================================================================
