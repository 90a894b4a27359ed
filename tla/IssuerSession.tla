----------------------------- MODULE IssuerSession -----------------------------
(***************************************************************************)
(* The session of an issuer: the wallet, the tabs of the browser with the  *)
(* state of useWallet, the token they share in localStorage, the login     *)
(* (connectAndLogin of useWallet with auth.controller and auth.service of  *)
(* the backend) and the authorization of issuers on chain.                 *)
(*                                                                         *)
(* A login is a process that awaits the wallet, the backend and the user;  *)
(* no button is disabled meanwhile, so logins of one tab and of several    *)
(* overlap, and the account changes under them.  A login runs once and     *)
(* names the nonce it is given.  The wallet's answers and events come on   *)
(* one stream, so a read of it is one step; an event a tab has not handled *)
(* gives it the latest account or network.  Whether a challenge or a token *)
(* has expired, and what the chain says of an issuer, is a choice.         *)
(***************************************************************************)
EXTENDS FiniteSets

CONSTANTS
  Account, Network,     (* of the wallet *)
  Tab, Login,
  Amoy,                 (* POLYGON_AMOY_CHAIN_ID_HEX *)
  NoAccount, NoNetwork  (* null *)

NoNonce == "none"
NoTab == "none"

ASSUME SessionAssumption ==
  /\ NoAccount \notin Account
  /\ Amoy \in Network /\ NoNetwork \notin Network
  /\ NoTab \notin Tab /\ {NoNonce, "earlier"} \cap Login = {}

VARIABLES
  challengeStore,         (* backend: account -> the nonce it must sign *)
  account, network,       (* wallet: what it shows to the site *)
  unhandled,              (* wallet: events a tab has not handled yet *)
  token,                  (* localStorage: issuer_jwt_token *)
  address, chainId, isIssuerAuthenticated,  (* useWallet, by tab *)
  pending,                (* by tab: mount reads and disconnections awaited *)
  pc, login               (* connectAndLogin, by login *)

walletVars == <<account, network, unhandled>>
tabVars == <<address, chainId, isIssuerAuthenticated, pending>>
loginVars == <<pc, login>>
sessionVars == <<challengeStore, walletVars, token, tabVars, loginVars>>

Event == {"accountsChanged", "chainChanged"}
Await == {"sync", "disconnect"}
Stage == {"idle", "accounts", "chain", "nonce", "signing", "verify",
          "answered", "refused", "done"}

(* A token with, as history, the nonce it was given for and who signed it. *)
Token == [sub : Account, nonce : Login \cup {"earlier"}, signer : Account]
NoToken == [sub |-> NoAccount, nonce |-> NoNonce, signer |-> NoAccount]
Locals == [tab : Tab, address : Account \cup {NoAccount}, signer : Account \cup {NoAccount}]
NoLocals == [tab |-> NoTab, address |-> NoAccount, signer |-> NoAccount]

running(l) == pc[l] \notin {"idle", "done"}

(* WrongNetworkOverlay covers the page: nothing of it can be clicked.      *)
overlaid(t) == address[t] # NoAccount /\ chainId[t] \notin {NoNetwork, Amoy}

(* The tabs are opened with jwt in localStorage.                           *)
SessionStart(jwt) ==
  /\ challengeStore = [a \in Account |-> NoNonce]
  /\ account = NoAccount
  /\ network = Amoy
  /\ unhandled = {}
  /\ token = jwt
  /\ address = [t \in Tab |-> NoAccount]
  /\ chainId = [t \in Tab |-> NoNetwork]
  /\ isIssuerAuthenticated = [t \in Tab |-> jwt # NoToken]
  /\ pending = [t \in Tab |-> {"sync"}]
  /\ pc = [l \in Login |-> "idle"]
  /\ login = [l \in Login |-> NoLocals]

SessionInit == SessionStart(NoToken)

------------------------------------------------------------------------------
(* The backend *)

(* It restarts with an empty store; tokens stay valid.                     *)
restartBackend ==
  /\ challengeStore' = [a \in Account |-> NoNonce]
  /\ challengeStore' # challengeStore
  /\ UNCHANGED <<walletVars, token, tabVars, loginVars>>

------------------------------------------------------------------------------
(* The wallet *)

tellTabs(event) == unhandled' = unhandled \cup (Tab \X {event})

(* The site sees account a from now on.                                    *)
expose(a) ==
  /\ account' = a
  /\ IF a = account THEN UNCHANGED unhandled ELSE tellTabs("accountsChanged")
  /\ UNCHANGED network

selectAccount(a) ==
  /\ a # account
  /\ expose(a)
  /\ UNCHANGED <<challengeStore, token, tabVars, loginVars>>

selectNetwork(n) ==
  /\ n # network
  /\ network' = n
  /\ tellTabs("chainChanged")
  /\ UNCHANGED <<account, challengeStore, token, tabVars, loginVars>>

(* What a request for accounts may get the user to grant.                  *)
grantable == IF account = NoAccount THEN Account ELSE {account}

------------------------------------------------------------------------------
(* A tab of the page *)

(* Mutant: the handler forgets setIsIssuerAuthenticated(false).            *)
handleAccountsChanged_KeepsFlag(t) ==
  /\ <<t, "accountsChanged">> \in unhandled
  /\ unhandled' = unhandled \ {<<t, "accountsChanged">>}
  /\ address' = [address EXCEPT ![t] = account]
  /\ token' = NoToken
  /\ UNCHANGED <<isIssuerAuthenticated, chainId, pending, account, network,
                 challengeStore, loginVars>>

handleAccountsChanged(t) ==
  /\ <<t, "accountsChanged">> \in unhandled
  /\ unhandled' = unhandled \ {<<t, "accountsChanged">>}
  /\ address' = [address EXCEPT ![t] = account]
  /\ token' = NoToken
  /\ isIssuerAuthenticated' = [isIssuerAuthenticated EXCEPT ![t] = FALSE]
  /\ UNCHANGED <<chainId, pending, account, network, challengeStore, loginVars>>

handleChainChanged(t) ==
  /\ <<t, "chainChanged">> \in unhandled
  /\ unhandled' = unhandled \ {<<t, "chainChanged">>}
  /\ chainId' = [chainId EXCEPT ![t] = network]
  /\ UNCHANGED <<address, isIssuerAuthenticated, pending, account, network, token,
                 challengeStore, loginVars>>

(* syncAccounts and syncChainId, which a mount asks the wallet in one go:  *)
(* it answers both or fails both.                                          *)
syncWallet(t) ==
  /\ "sync" \in pending[t]
  /\ pending' = [pending EXCEPT ![t] = @ \ {"sync"}]
  /\ \/ /\ address' = [address EXCEPT ![t] = account]
        /\ chainId' = [chainId EXCEPT ![t] = network]
     \/ UNCHANGED <<address, chainId>>
  /\ UNCHANGED <<isIssuerAuthenticated, walletVars, token, challengeStore, loginVars>>

(* The page is loaded again: its promises and events are gone, and a token *)
(* that is stored counts as a session.                                     *)
reload(t) ==
  /\ address' = [address EXCEPT ![t] = NoAccount]
  /\ chainId' = [chainId EXCEPT ![t] = NoNetwork]
  /\ isIssuerAuthenticated' = [isIssuerAuthenticated EXCEPT ![t] = token # NoToken]
  /\ pending' = [pending EXCEPT ![t] = {"sync"}]
  /\ unhandled' = unhandled \ ({t} \X Event)
  /\ pc' = [l \in Login |-> IF login[l].tab = t THEN "done" ELSE pc[l]]
  /\ login' = [l \in Login |-> IF login[l].tab = t THEN NoLocals ELSE login[l]]
  /\ UNCHANGED <<account, network, token, challengeStore>>

(* disconnect: the wallet is asked to forget the site, and may not know    *)
(* how; then the tab resets itself.                                        *)
disconnect(t) ==
  /\ address[t] # NoAccount /\ ~overlaid(t)
  /\ "disconnect" \notin pending[t]
  /\ pending' = [pending EXCEPT ![t] = @ \cup {"disconnect"}]
  /\ expose(NoAccount) \/ UNCHANGED walletVars
  /\ UNCHANGED <<address, chainId, isIssuerAuthenticated, token, challengeStore, loginVars>>

resetSession(t) ==
  /\ "disconnect" \in pending[t]
  /\ pending' = [pending EXCEPT ![t] = @ \ {"disconnect"}]
  /\ token' = NoToken
  /\ isIssuerAuthenticated' = [isIssuerAuthenticated EXCEPT ![t] = FALSE]
  /\ address' = [address EXCEPT ![t] = NoAccount]
  /\ chainId' = [chainId EXCEPT ![t] = NoNetwork]
  /\ UNCHANGED <<walletVars, challengeStore, loginVars>>

------------------------------------------------------------------------------
(* connectAndLogin *)

goto(l, stage) == pc' = [pc EXCEPT ![l] = stage]

(* Mutant: what a login keeps outlives it.                                 *)
finish_LocalsStay(l) == goto(l, "done") /\ UNCHANGED login

finish(l) == goto(l, "done") /\ login' = [login EXCEPT ![l] = NoLocals]

connectAndLogin(l, t) ==
  /\ pc[l] = "idle"
  /\ ~overlaid(t)
  /\ address[t] # NoAccount => ~isIssuerAuthenticated[t]
  /\ goto(l, "accounts")
  /\ login' = [login EXCEPT ![l] = [NoLocals EXCEPT !.tab = t]]
  /\ UNCHANGED <<tabVars, walletVars, token, challengeStore>>

requestAccounts(l) ==
  /\ pc[l] = "accounts"
  /\ \E a \in grantable : expose(a) /\ login' = [login EXCEPT ![l].address = a]
  /\ goto(l, "chain")
  /\ UNCHANGED <<tabVars, token, challengeStore>>

(* The account read before this await is stored after it.                  *)
readChainId(l) ==
  /\ pc[l] = "chain"
  /\ goto(l, "nonce")
  /\ address' = [address EXCEPT ![login[l].tab] = login[l].address]
  /\ chainId' = [chainId EXCEPT ![login[l].tab] = network]
  /\ UNCHANGED <<login, isIssuerAuthenticated, pending, walletVars, token, challengeStore>>

(* createIssuerSiweChallenge: the account's earlier challenge is gone.     *)
requestSiweNonce(l) ==
  /\ pc[l] = "nonce"
  /\ goto(l, "signing")
  /\ challengeStore' =
       [challengeStore EXCEPT ![login[l].address] = l]
  /\ UNCHANGED <<login, tabVars, walletVars, token>>

(* The wallet signs with the account it shows now.                         *)
signMessage(l) ==
  /\ pc[l] = "signing"
  /\ goto(l, "verify")
  /\ \E a \in grantable : expose(a) /\ login' = [login EXCEPT ![l].signer = a]
  /\ UNCHANGED <<tabVars, token, challengeStore>>

(* Mutant: the recovered address is not compared.                          *)
recovered_Any(l) == TRUE

recovered(l) == login[l].signer = login[l].address

(* A challenge found expired is deleted, and so is one whose nonce matches,*)
(* whoever signed it and whatever isIssuerAuthorizedOnChain says then.     *)
verifySiweLogin(l) ==
  LET a == login[l].address IN
  /\ pc[l] = "verify"
  /\ \E expired \in BOOLEAN :
       LET matches == ~expired /\ challengeStore[a] = l IN
       /\ challengeStore' = IF expired \/ matches
                             THEN [challengeStore EXCEPT ![a] = NoNonce] ELSE challengeStore
       /\ \E answer \in {"refused"} \cup IF matches /\ recovered(l) THEN {"answered"} ELSE {} :
            goto(l, answer)
  /\ UNCHANGED <<login, tabVars, walletVars, token>>

loginAnswered(l) ==
  /\ pc[l] = "answered"
  /\ finish(l)
  /\ token' = [sub |-> login[l].address, nonce |-> l, signer |-> login[l].signer]
  /\ isIssuerAuthenticated' = [isIssuerAuthenticated EXCEPT ![login[l].tab] = TRUE]
  /\ UNCHANGED <<address, chainId, pending, walletVars, challengeStore>>

(* The backend refused, or the wallet, the user or the network failed one  *)
(* of the awaits.                                                          *)
loginFailed(l) ==
  /\ running(l)
  /\ finish(l)
  /\ token' = NoToken
  /\ isIssuerAuthenticated' = [isIssuerAuthenticated EXCEPT ![login[l].tab] = FALSE]
  /\ UNCHANGED <<address, chainId, pending, walletVars, challengeStore>>

loginStep(l) ==
  \/ requestAccounts(l)
  \/ readChainId(l)
  \/ requestSiweNonce(l)
  \/ signMessage(l)
  \/ verifySiweLogin(l)
  \/ loginAnswered(l)
  \/ loginFailed(l)

tabStep(t) ==
  \/ handleAccountsChanged(t)
  \/ syncWallet(t)
  \/ disconnect(t)
  \/ resetSession(t)

(* Everything but a reload and a change of network.                        *)
sessionStep ==
  \/ restartBackend
  \/ \E a \in Account \cup {NoAccount} : selectAccount(a)
  \/ \E t \in Tab : tabStep(t)
  \/ \E l \in Login, t \in Tab : connectAndLogin(l, t)
  \/ \E l \in Login : loginStep(l)

networkStep ==
  \/ \E n \in Network : selectNetwork(n)
  \/ \E t \in Tab : handleChainChanged(t)

(* Who is logged in does not depend on the network, which only covers a    *)
(* page: here it stays, and IssuerPages has it change.                     *)
SessionNext == sessionStep \/ \E t \in Tab : reload(t)

SessionSpec == SessionInit /\ [][SessionNext]_sessionVars

------------------------------------------------------------------------------
(* Type invariant: the chain, the store, the wallet, the tabs and the      *)
(* logins are well typed; a login has a tab exactly while it runs.         *)
SessionTypeOK ==
  /\ challengeStore \in [Account -> Login \cup {NoNonce}]
  /\ account \in Account \cup {NoAccount}
  /\ network \in Network
  /\ unhandled \subseteq Tab \X Event
  /\ token \in Token \cup {NoToken}
  /\ address \in [Tab -> Account \cup {NoAccount}]
  /\ chainId \in [Tab -> Network \cup {NoNetwork}]
  /\ isIssuerAuthenticated \in [Tab -> BOOLEAN]
  /\ pending \in [Tab -> SUBSET Await]
  /\ pc \in [Login -> Stage]
  /\ login \in [Login -> Locals \cup {NoLocals}]
  /\ \A l \in Login : login[l] \in Locals <=> running(l)

(* A token, stored or on its way, is of the account that signed the        *)
(* challenge it was given for, whatever account the wallet showed at each  *)
(* step of the login, and that challenge is no longer in the store (the    *)
(* delete and the comparison after verifyMessage in auth.service).         *)
TokensAreProven ==
  /\ token # NoToken => token.signer = token.sub /\ challengeStore[token.sub] # token.nonce
  /\ \A l \in Login : pc[l] = "answered" =>
       login[l].signer = login[l].address /\ challengeStore[login[l].address] # l

(* A page that shows an account and an issuer session has the token of     *)
(* that account.  This stops being so only by one of: the answer of a      *)
(* login that began for another account, the first read of the accounts    *)
(* after a reload that found a token, a login that stores its account in a *)
(* page whose session is on already, and another tab that changes the      *)
(* token they share.                                                       *)
shows(t) == address[t] # NoAccount /\ isIssuerAuthenticated[t]
agrees(t) == shows(t) => token.sub = address[t]

lateLogin(t) == \E l \in Login :
  /\ pc[l] = "answered" /\ pc'[l] = "done"
  /\ login[l].tab = t /\ login[l].address # address[t]
firstRead(t) == "sync" \in pending[t] /\ "sync" \notin pending'[t]
secondLogin(t) == \E l \in Login :
  pc[l] = "chain" /\ pc'[l] = "nonce" /\ login[l].tab = t /\ isIssuerAuthenticated[t]
otherTab(t) == token' # token /\ <<address[t], isIssuerAuthenticated[t]>>'
                                  = <<address[t], isIssuerAuthenticated[t]>>

SessionIsOfShownAccount == [][
  \A t \in Tab : agrees(t) /\ ~agrees(t)' =>
    lateLogin(t) \/ firstRead(t) \/ secondLogin(t) \/ otherTab(t)]_sessionVars
==============================================================================
