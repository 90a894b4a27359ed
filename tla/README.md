# Verification of the academic certification platform

TLA+ models of the platform in this repository, checked with TLC; the safety
properties are proved with TLAPS as well, for every value of the constants.
Issuers anchor certificate hashes in a contract on a public chain; a backend
issues through one custodial account, uploads the documents to IPFS and keeps a
copy of every certificate in MongoDB; issuers log in and revoke with their own
wallets, and a listener carries revocations back to MongoDB; anyone verifies, by
code or by file, against the chain.

## The system

| part | state it keeps | operations | what makes it hard |
|---|---|---|---|
| contract (`contracts/contracts/AcademicCertification.sol`) | issuers, certificates by id, hash index, used hashes, revocations, id lists, tokens, event log | register, verify, change status of an issuer; issue, batch, revoke; verify and getters | several copies of one fact; statuses that are derived from the time; long legal sequences |
| revocation listener (`blockchainListener.service.ts`, started by `server.ts`) | listener flag, last processed block, subscription | back-fill, subscribe, handle an event | events between two awaits, failures that are only logged, restarts |
| persistence (`certificatePersistence.service.ts`, `models/certificate.model.ts`) | one document per certificate | create, set status, mark replaced, look up | `updateOne` without a match does nothing; several writers |
| audit log (`auditLog.service.ts`) | one entry per transaction | upsert | replay after a restart |
| expiration cron (`expirationCron.service.ts`) | none that lasts | query, then write document by document | its choice is stale when it writes |
| issuance (`certificate.service.ts`, `blockchain.service.ts`) | the locals of a request | check, upload, predict id, send, wait, store, revoke the predecessor | every await may fail; other transactions are mined in between |
| batches (`batchCertificate.service.ts`) | the locals of a request | upload each, one transaction, store each | partial failure at three places |
| verification (`verify.controller.ts`, `verification.service.ts`) | a cache of 20 s | read chain and MongoDB, decide | several reads that are not one snapshot |
| login (`auth.service.ts`, `auth.controller.ts`, `authIssuer.ts`) | one challenge per address | nonce, verify, check of the token | replaced, expired and consumed challenges, restarts |
| wallet session (`useWallet.ts`) | account, network and session flag per tab; the token in localStorage | mount, connect and log in, wallet events, disconnect | six awaits during which the account, the network and other tabs move |
| issuer pages (`CertificateForm`, `BatchCertificateForm`, `RevokeCertificateForm`, `app/certificates`, `services/blockchain.ts`) | a form and its submission, a CSV file, a list | submit, choose a file, fetch | promises that outlive the session or the page they began in |
| verification page (`VerificationForm.tsx`) | a code or a file, a result | verify, export | results that arrive after the input has changed |
| documents (`hash.ts`, `verificationSchema.ts`, the parsers of `universalVerification.ts` and `verify.controller.ts`) | none | build, hash, validate, parse | four writers and two readers that must agree on one hash |
| database connection (`config/database.ts`) | connecting flag | connect, wait | waiters of a failed attempt |
| reports and alerts (`architecture.service.ts`, `architecture.controller.ts`, `RealtimeArchitectureStatus.tsx`) | last alert, open streams, the status shown | probe, alert, stream, listen | concurrent reports, clients that leave |
| IPFS, HTTP wiring, deployment | little or none | | see *What is not modelled* |

How they interact: the routes of the backend call the issuance services; those
call the contract through an RPC node and the persistence service; wallets call
the contract directly; the contract's `CertificateRevoked` events reach the
listener, which calls persistence and the audit log; the cron reads and writes
through persistence; the verification service reads the contract and MongoDB.
The pages of an issuer share the session of `useWallet` and, across tabs, the
token in localStorage; the verification page reads the contract from the
browser. The contract and MongoDB outlive a process, localStorage a page.

`PROJECT.json` lists every component and, at its line, every hazard the models
are aimed at.

## The modules

**CertificateLedger** is the abstract specification of what the contract
promises about certificates: a hash is absent, anchored or revoked; only an
issuer that is authorized at that moment anchors, any number of hashes in one
step; only the one that anchored a hash revokes it; nothing is undone.

**AcademicCertification** is the contract. A transaction is one step and a
rejected one is no step; the variables are the storage of the contract, plus
`tokens` (ERC-721), `events` (the log) and `timestamp` (of the block).
`issueCertificate` and `batchIssueCertificates` are both `issueAll`, the writes
of the loop in closed form. Reading functions (`_effectiveCertificateStatus`,
`_isCertificateValid`, `verifyCertificate`, ...) are operators. It implements
`CertificateLedger`: a certificate is "revoked" there when its stored status is.
`MCAcademicCertification` adds the symmetry for TLC, and
`AcademicCertificationProofs` holds the proofs.

**RevocationSync** is the way of a status from the chain to MongoDB. The
variables are the chain (head, expiry, block of a revocation), MongoDB (status
and expiration date of the documents, the audit log) and the process (where the
bootstrap is, the events the back-fill returned, the events the subscription
has delivered, the await each running handler is at, the certificates issued
and not yet stored, the documents the cron will still write). `crash` forgets
the process and nothing else. `missed` is a history variable: it records why
the revocation of a certificate may be absent from its document. It guards
nothing. `RevocationSyncProofs` holds the proofs.

**CertificateIssuance** is a set of requests, each at one await of
`issueCertificate` (with or without a predecessor) or `batchIssueCertificates`.
Between any two of them other requests, wallets, the admin, another issuer and
the network act; a transaction that was sent stays in the mempool whatever
happens to its request. The contract appears as the part the requests use; that
this part only takes steps of `CertificateLedger` is the property
`ContractIsTheLedger`, so it assumes no more than what the contract is shown to
implement. `CertificateIssuanceProofs` holds the proofs.

**CertificateVerification** EXTENDS the contract and adds who reads it: the two
routes of `verify.controller.ts` with the cache of the first, and the two
functions of `universalVerification.ts` in the browser. The contract is the
environment: `chainStep` is any step of `AcademicCertification`, and reads call
its queries. A request is a process that is at one of its reads (`pc`) with its
local variables (`local`); it answers after the last, or fails at any.
`restart` empties the cache and ends the requests of the backend. `held` is a
history variable: the situations its certificate has had since the request
came. It guards nothing. `CertificateVerificationProofs` holds the proofs.

**IssuerSession** is the session of an issuer: the wallet (what it shows to the
site, and the events a tab has not handled), the tabs with the state of
`useWallet`, the token they share, and the backend's challenge store. A login is
`connectAndLogin`, a process that is at one of its awaits (`pc`) with its
locals; logins overlap in one tab and across tabs. `reload` ends a tab's
promises, `restartBackend` empties the store. `MCIssuerSession` adds the
symmetry, and `IssuerSessionProofs` holds the proofs.

**IssuerPages** EXTENDS the session and composes it with the pages of one tab:
each step of the session is taken together with `rerender`, which says what
React does to the page (unmount a form whose condition fails, fetch a list for
another account, fail when the number of hooks changes). A submission is a
promise that is at one step (`form.step`); `serve` stands for the backend, with
the check of the token as its guard. `outcome` (what was done, and whether on Amoy), `left`
(the wallet's network changed behind the form's back), `late` and `failed` (of
the answers to a list) and `overlapped` (of the reads of a file) are history.
`MCIssuerPages` gives the CSV files. `IssuerPagesProofs` EXTENDS the
proofs of the session.

**CertificateDocument** has no state: the documents the backend writes (the
answer of an issuance, the upload to IPFS, the upload of a batch, and those of
an older version), the three shapes in which a holder may hand them in, the
strict schema and the two parsers, as operators over objects that are functions
from their keys (`++` joins two of them, the values of the first before those
of the second, as a spread does). The verification page and the document side of
CertificateVerification meet here: what one run takes as "the hash matches" is
what these operators compute.

**VerificationPage** EXTENDS the documents: the form of the code (with the code
of the URL) and the form of the file (reads of files, address, verification,
export). What the chain answers is a choice. `edited`, `overtaken`,
`reAddressed`, `crossed` and `basis` are history: what happened since a
verification began, and how far the read of the chosen file was when it did.
`MCVerificationPage` gives the
certificates and the files, and `VerificationPageProofs` holds the proofs, those
about the documents first.

**ServiceHealth** is the shared connection attempt, the reports with their
probes, the alert with its cooldown, the streams and the dashboard at their
other end, on a discrete clock. A `restart` forgets what lives in memory.
`MCServiceHealth` adds the symmetry, and `ServiceHealthProofs` holds the proofs.

Some decisions a reader should know:

* In RevocationSync block numbers and time are one clock and every transaction
  has a block of its own. At the very second of an expiration date the cron
  (`<=`) and the contract (`>`) disagree, and the expiry of a batch is in
  MongoDB alone; `DatabaseIsBackedByChain` names both as exceptions.
* `lastProcessedBlockForRevocation` is not a variable: it lives in memory, the
  start runs once per process, and so the start always finds 0.
* ethers v6 calls a subscribed function with a `ContractEventPayload`, whose
  log is a field. So `eventPayload?.blockNumber ?? 0` is 0 and the transaction
  hash is `""` for live events, and right for events of the back-fill.
* One run of the cron ends before the next begins.
* A request's certificate hashes are fresh (a random uuid and salt are hashed),
  so a hash is named by the request and the position that made it.
* Replacing a certificate that has expired is refused like one that was
  revoked; CertificateIssuance has no time and counts it among failures.
* In CertificateVerification the server's clock and the timestamps of blocks
  are one clock. What a document says of itself (hash, signer, date, recipient)
  is looked at only by the decision after the last read, so no variable holds
  it: the properties speak of every document. A body that fails the schema is a
  request that ends without a read, so it is left out. The successor's hash
  (`replacedByHash`) is text of the answer.
* An answer REVOKED is an exception past the statement that fills the cache, so
  it neither stores nor evicts, and document requests do not touch the cache: a
  request that meets a revocation may leave an older Valid entry, or one of a
  concurrent request, which is answered until it expires.
  `CacheIsYoungerThanTTL` says how old such an answer may be.
* In IssuerSession the expiry of a challenge or a token and what the chain says
  of an issuer are choices, so no clock is needed. The wallet's answers and
  events come on one stream: a read of it is one step, and an event a tab has not
  handled carries the latest account or network. `syncWallet` asks for the
  accounts and for the network in two calls (`useWallet` 70-86); the model takes
  them together, as each sets a field of its own.
* What is being read is a set of files, in both forms that read one: two reads
  of the same file under way at once are one.
* The answer of CertificateIssuance is the outcome of each item and two things
  said of a replaced certificate: the field `previousCertificateRevoked` and the
  message (`saysRevoked`).
* A step of navigation is a link or the browser's history. Links are locked for
  a visitor who is not connected, the browser's history is not, so the guard is
  the weaker one. `submitInvalid` is a field that fails the form's own checks.
* A revocation is signed by the account and on the network the wallet has at
  that moment, not the ones the form saw; on a network without the contract the
  transaction succeeds and does nothing (`outcome = "elsewhere"`).
* SHA-256 of the sorted serialisation is an injective constructor: two values
  have the same hash if and only if they are equal. Keys that every document has
  with the same value are left out.
* The two forms of the verification page share no state, so a visitor of the
  model uses one of them.
* In ServiceHealth a probe ends within `Timeout`, except for the body of
  Pinata's answer, which the code reads outside `withTimeout`: that report
  hangs. `ALERT_WEBHOOK_URL` is set; without it nothing is alerted. A report
  for `GET /api/architecture` is not a step of its own: it alerts as the report of
  a stream does.
* Accounts are wallets. `_safeMint` calls back a recipient that is a contract;
  such accounts are modelled only as refusing the token.

## The runs

| run | question | bounds |
|---|---|---|
| academic_certification | do the contract's copies of one fact agree, is its status order kept, does it implement the ledger? | 2 accounts (admin, issuer), 2 hashes, batches of 2, 2 certificates, 3 timestamps, expiry 0 or 2 |
| revocation_sync | what can MongoDB say while back-fill, subscription, cron, requests, failures and restarts interleave, and does every revocation arrive? | 2 certificates, 5 blocks, window of 1, expiry 0 or 3 |
| certificate_issuance | are concurrent requests all-or-told, with failures everywhere, and is each answered? | 2 requests, batches of up to 2, one revocation from a wallet |
| certificate_verification | while the contract goes on between the reads, are answers, codes and cache entries still true of some moment? | 1 request, 1 account, 1 hash, batches of 1, 3 timestamps, expiry 0 or 2, TTL 2, skew 1 |
| issuer_session | is a token of the account that signed, and does a page show the account of its session? | 2 accounts, 1 network, 2 tabs, 2 logins |
| issuer_pages | do banners, records and lists agree with what the page shows while everything under it moves? | 2 accounts, 2 networks, 1 tab, 1 login, 1 file |
| revocation_signer | is a revocation signed by the account shown? | 2 accounts, 1 network, 1 tab, 2 logins, the revocation page |
| verification_page | is a result of the input beside it, and do both readers read back what was written? | 4 certificates, 10 files, 2 codes, disks of 2 files, 2 calls at once |
| service_health | is the attempt shared, are changes alerted once, does the dashboard show the latest? | 2 callers, 2 streams, timeout 1, interval 2, cooldown 2, 5 instants, 2 reports at once |
| audit_log_gap, history_crash, batch_document | three statements of the docs, comments and pages that the code does not keep | 1 certificate; the bounds of the pages |

Why these bounds are enough for the cases of interest: two hashes and a batch
of two give a batch with equal hashes and with equal recipients, a second
issuance after a first, and the lookup of one certificate among several; three
timestamps give a date that is in the future, reached and passed. In
RevocationSync two certificates give a handler that runs while another event
arrives, a back-fill loop with a second element, and two live events with the
same (empty) audit key; with a window of one block a revocation falls inside
it, outside it and after it. In CertificateIssuance two requests can replace
the same certificate, one can replace what the other issues, and each can take
the id the other was predicted; more of them only repeat these pairs.
In CertificateVerification three timestamps put an issuance, an expiry and a revocation each before,
between and after the reads and on both sides of the end of an entry; one
request at a time is enough because requests share nothing but the cache, into
which each writes only what it read itself, and the proofs cover any number.
In IssuerSession two accounts, tabs and logins give a login that begins for
one account and ends under another, a second login over a session, a challenge
replaced by another login's, and a tab that changes the token of the other; the
network plays no part in who is logged in, so it stays there (`SessionNext`), and
IssuerPages has it change. In issuer_pages one login and one tab suffice,
because what more of them do to a session is the other run's question; its CSV
file has a line of every kind and is chosen, reset and chosen again while a
read goes on. Who signs is a run of its own, because two of its three
exceptions need a second login that overtakes the first. The ten files of
VerificationPage have every origin and every shape, an address that matches,
one that does not and none, a re-issuance, an issuer URL that is not one, and
another network; disks of two let one file overtake another. In ServiceHealth
the clock passes two intervals and goes past a cooldown; the order
`Timeout < Interval`, which the code has, is the assumption `HealthAssumption`.

The bounds that appear in guards are `MaxBatch`, `MaxCertificates`, `MaxTime`,
`MaxBlock`, `MaxRevoked`, `MaxCalls`, `MaxReports` and `Visited` (the pages the
issuer goes to); `DiskSize` bounds the initial states.

What the passing runs say, beyond types:

* the id counter, tokens, hash index, used hashes and certificates agree; the
  lists by issuer and recipient are exactly the certificates; the log tells the
  state (`RegistryAgrees`, `ListsAgree`, `LogTellsTheState`);
* Valid, Expired, Revoked is a one-way order, and a certificate that stopped
  being valid because its issuer lost authorization becomes valid again only by
  `verifyIssuer`, not by setting the status to Active (`StatusNeverGoesBack`,
  `ValidAgainOnlyByVerification`);
* MongoDB never says Revoked of a certificate that is not, nor Expired of one
  that is valid, but for a batch and the second of the expiry; when it lags, the
  event is on its way or one of six named causes applies, and without such a
  cause the revocation arrives (`DatabaseIsBackedByChain`, `StaleOnlyWhenMissed`,
  `RevocationReachesDatabase`). The list of causes is the result: event
  outside the window, history query failed, event in the gap between the range
  and the subscription, handler failed, document created after its revocation
  was handled, and overwritten by the cron. A listener that did not start
  promises nothing; the next start meets what it missed as one of these;
* a document never returns to Valid, an audit entry never changes
  (`NeverValidAgain`, `AuditLogIsImmutable`);
* whatever fails, a stored certificate is anchored, a replaced one is revoked
  and its successor is anchored and stored, revocation never comes before the
  successor, a success is complete, and every request comes to an answer; but
  the id stored with a certificate may be that of another one, mined between
  its prediction and the transaction (`DocumentsAreAnchored`,
  `ReplacedMeansRevoked`, `SuccessorExists`, `SuccessIsComplete`,
  `RequestsAreAnswered`). Of a replaced certificate the field
  `previousCertificateRevoked` says that it was revoked only if it was; the
  message says so always, also when the revocation was never sent or is not
  mined (`SuccessIsComplete` names these cases);
* an answer about a certificate was true at some moment of its request, also
  when the contract moved on between its reads; no later read reverts or
  contradicts the first; a cached answer is less than TTL behind the chain,
  whatever it misses; an invalid document has
  an error code unless its issuer was verified during the request
  (`AnswerWasTrue`, `LaterReadsDoNotRevert`, `CacheIsYoungerThanTTL`,
  `FailureIsExplained`). The exception is real: the first read says the issuer
  is not authorized, the later ones say it is, and the answer is invalid with
  no code;
* a token is of the account that signed its challenge, which is used up
  (`TokensAreProven`); but a page that shows an account and a session does not
  always have that account's token. `SessionIsOfShownAccount` lists how this
  comes about: the answer of a login that began for another account, the
  first read of the accounts after a reload that found a token, a second login
  over a session, and another tab that changes the shared token;
* a banner says confirmed only of work that was done on Amoy, or of a revocation
  sent to a network without the contract, where nothing reverts and nothing is
  done, because the wallet changed its network after the form had looked or its
  event was still on its way then; a revocation under way is signed by
  the account shown, but for an event on its way, a page that had not caught up
  with the wallet, and a login that stores an account read earlier; and
  records and lists are of what is named beside them, but for reads and answers
  that were overtaken, and for the list of an earlier issuer, which stays under
  the new address when the fetch for that one fails (`BannerTellsTheOutcome`,
  `RevocationIsSignedByShownAccount`, `PagesShowWhatTheyName`); the latter also
  says that the row number of a record is that of its line unless a blank line
  precedes it;
* on the verification page a result is of the code, file and address beside it
  unless one of them was changed since or the answer was overtaken, since the
  page neither cancels nor clears then; for a file also unless the verification
  began before the chosen file was read, or after an earlier one was read later:
  the result is then of that other file, though nothing changed since
  (`ResultsAreOfWhatIsShown`); and every
  document the browser reads has the hash that was anchored for it and is read
  the same by the backend (`DocumentsReadBack`);
* callers share one connection attempt and go on connected, unless the
  connection was lost since or the attempt they waited for failed
  (`ConnectionIsShared`); each change to an unhealthy status is alerted at
  once and repeated only after the cooldown, however reports interleave
  (`AlertsFollowTheStatus`); a dashboard shows the report that began last of
  those it received unless one hung on a late body, and an interval ends with
  its client unless that left before the first report was written
  (`StreamTellsTheLatest`).

The exceptions these properties name are results of the runs as well: without
any one of those of the synchronisation, the session, the pages and the
services the property is violated within the bounds.

The runs that end in a violation each check one sentence of the repository's
docs or comments; `PROJECT.json` quotes it under "findings". The exceptions of
the passing runs contradict five more sentences:

* `blockchainListener.service.ts:10-11`, the start "back-fills historical events
  from the last 10,000 blocks so no revocation is missed after a server restart":
  one is, if it is older than the window, falls between the range and the
  subscription, or the query fails (`missed`; `StaleOnlyWhenMissed`);
* `certificate.service.ts:293`, the answer to every re-issuance: "Certificate
  re-issued successfully. The previous certificate has been revoked." An error in
  revoking it is only logged (253-257), and nothing asks whether the replaced
  certificate is one the backend may revoke. The web form is right, as it shows
  the field (`CertificateForm.tsx:381`, `user-manual.md:87`; `SuccessIsComplete`);
* `user-manual.md:249-251`, "If MetaMask is not on Polygon Amoy, interface will
  show warning and prevent blockchain operations": the form looks once, and says
  "Certificado invalidado correctamente." (`RevokeCertificateForm.tsx:275`) of a
  transaction on another network if the wallet went there before it signed
  (`BannerTellsTheOutcome`);
* `user-manual.md:151-162`, upload a file, run the validation, and the result is
  its final status: two files chosen one after the other may be read in the other
  order, and the result of the first then stands beside the name of the second
  (`ResultsAreOfWhatIsShown`);
* `app/certificates/page.tsx:129`, "Emisor:" and the connected address above the
  list: it may be the list of the account before, beside the error of the
  fetch for this one (`PagesShowWhatTheyName`).

## Fairness

RevocationSync: weak fairness of each step of the bootstrap, of delivery to a
live subscription and of the steps of a started handler, since each is a
promise that settles or a callback the event loop runs. A handler may also end
by failing, which `missed` records. Nothing makes blocks, revocations, requests,
the cron, crashes or restarts happen; the liveness property is about times the
process stays up.

CertificateIssuance: weak fairness of the steps of running requests together
with the mining of transactions in the mempool. Every request has finitely many
steps, so fairness of their disjunction is fairness of each. That an awaited
call settles is a property of the HTTP and RPC clients; that a transaction is
mined at all is an assumption about the network, since the code calls `wait()`
without a timeout.

The other models need no fairness: what is claimed of the contract, of
verifications, sessions, pages and reports is safety. Liveness of a login would
rest on the user, who may leave the wallet's popup open for ever, and a
report may hang.

Only certificate_issuance sets CHECK_DEADLOCK FALSE: a set of requests
that has been answered, with every bound reached, stops.

## The proofs

`AcademicCertificationProofs` proves, for every set of accounts, hashes and
expiry dates, every batch size and every value of the bounds, under
`ContractAssumption` alone:

* `TypeCorrect`, `RegistryCorrect`, `RevocationsCorrect`,
  `VerifiedMeansAuthorized`, `ListsCorrect`, `LogIsTheState`: the invariants of
  the run;
* `StatusIsMonotone`, `OnlyVerificationRevives`: its action properties;
* `ContractImplementsLedger`: the refinement.

The inductive invariant `IInv` is the conjunction of the type invariant, those
four, and `NotIssuedInTheFuture`: no certificate carries an issue date after
the current block. The last is what makes `RevocationsAgree` inductive: a
revocation is dated not before the issue date because it is dated now.
`RegistryAgrees` is what the others rest on: that the ids below the counter are
exactly those in use tells that an issuance touches no existing certificate,
which every other preservation argument needs. Each invariant has one step per
action; issuing one certificate and a batch meet in a lemma about `issueAll`
for any sequence of items with distinct hashes. The action properties follow
from the invariant and one lemma per action on how the effective status
changes. `LogIsTheState` is inductive relative to `IInv`: the events of an
issuance name ids that no event can have named before, and a revocation is
logged for a certificate whose status says that none has been. For the
refinement a step of the contract is an `Authorize`,
`Withdraw`, `Anchor` or `Revoke` of the ledger, or leaves it alone.

`CertificateVerificationProofs` proves, for any number of requests, any TTL and
skew, under `ContractAssumption` and `VerificationAssumption`, all five
invariants of the run (`VerificationTypeCorrect`, `LaterReadsSucceed`,
`CacheIsYoung`, `AnswersWereTrue`, `FailuresAreExplained`), and that the
composition only takes steps of the contract (`VerificationOnlyReads`), so that
everything proved of the contract holds in it. The inductive invariant `VInv`
has the contract's `IInv`, the types, and three kinds of fact. `ReadInv`: what
a request read is among the situations in its history and *could hold* since
the moment the request came. `HistoryInv` and `IssuerInv`: the history contains
the present situation, its situations are honest (never Valid with an issuer
that is not authorized), and what was read of the issuer is in it. `CacheInv`:
an entry could hold since its expiry minus TTL. What makes them inductive is
`couldHold`, which says of a verdict only what the contract cannot take back:
`HashStep` shows that a step keeps id, issuer and dates of a hash and dates
what is new now, `CouldHoldStays` that a verdict which could hold since some
moment still could. `VerifiedIssuersAreAuthorized` is needed to see that the
profile read in one step and the authorization read in another speak of the
same fact.

`RevocationSyncProofs` proves, for any certificates, expiry dates, window and
number of blocks, under `SyncAssumption`, the three invariants
(`SyncTypeCorrect`, `DatabaseBackedByChain`, `StaleOnlyForACause`) and the two
action properties (`NothingRevivesADocument`, `AuditLogImmutable`) of the run.
The invariant `SInv` has two facts about what is in flight, `EventsAreReal`
(whatever names a revocation, in the history, the back-fill, the subscription or
a handler, names one in a mined block) and `DocumentsAreIssued`, and
`NothingLostSilently`: a revoked certificate whose document does not say so can
still arrive, which means something else in each phase of the bootstrap
(`canStillArrive`), or has its cause in `missed`. `StaleOnlyWhenMissed` is that
fact for the last phase; it is the others that carry an event from the block it
was mined in over the query, the range and the backlog to its handler.

`CertificateIssuanceProofs` proves, for any number of requests and any size of
batch, under `IssuanceAssumption`, the four invariants (`IssuanceTypeCorrect`,
`StoredIsAnchored`, `ReplacedIsRevoked`, `AnswersAreTrue`), that a successor is
anchored and stored before its predecessor is revoked (`SuccessorComesFirst`),
and the refinement of the ledger (`ContractStepsAreLedgers`). The invariant
follows a certificate from hand to hand: ids are counted (`IdsAreCounted`), the
hashes of a request are its own (`UploadsAreOwn`), a receipt that says succeeded
is of what happened (`ReceiptsAreTrue`), a predicted id is not above the one
that was given (`PredictionsAreLow`), a document is of an anchored hash and was
made by a request that has made as many as it counts (`DocumentsAreReal`,
`MakersAreKnown`, `DocumentsAreMade`), a mark names the successor of a
revocation that was executed (`MarksAreExplained`), and one that reverted came
after another (`RevertsAreExplained`). None of these is needed
alone: the answer of a request speaks of documents, documents of receipts, and
receipts of the chain, which others move in between.

`IssuerSessionProofs` proves, for any accounts, networks, tabs and logins, under
`SessionAssumption`, `SessionTypeCorrect`, `TokensComeFromSignatures` and
`SessionFollowsTheAccount`. What makes `TokensAreProven` inductive is who may
still use a challenge: one in the store is of a login that has yet to be
verified, for the account that asked for it, or of one that was given up
(`ChallengesAreOwn`), and the login that got a token is over (`TokensAreSpent`).
The steps considered include a change of the network (`anyStep`), which
`SessionSpec` leaves out and the pages add.

`IssuerPagesProofs` proves, under that assumption and `PagesAssumption`,
`PagesTypeCorrect`, `BannersAreTrue`, `PagesShowTheirOwn` and `SignerIsShown`.
Every step of the session is a step of the pages, so the invariant `PagesInv`
contains that of the session, and one group of lemmas says what a step of the
session can change of the page. The rest says what each step of a promise has
already shown (`BannerIsDecided`), that a network the page knows is the wallet's
or its event is on its way (`NetworkIsTold`), that a signer who is no longer the wallet's
account is so because of an event on its way (`SignerIsExplained`), and what is
being read or fetched (`CsvIsRead`, `HistoryIsAsked`).

`VerificationPageProofs` proves, for any certificates, files and codes, under
`DocumentAssumption`, `NullAssumption` and `PageAssumption`, all three
invariants of the run (`PageTypeCorrect`, `ResultsTellWhatIsShown`,
`DocumentsAreReadBack`). The first half has no state. `tellsOf` says what a
document must have for a reader; both documents of an issuance have it, in all
three shapes (`AcceptedTells`), the upload of a batch and of an earlier version
are refused, and from a document that has it both readers rebuild the anchored
one key by key (`BothReadTheAnchor`). The invariant of each form is a predicate
of its state (`hashOK`, `fileOK`): a call that no later one overtook is of the
code in the input unless that was edited; what has been read is the file named,
if that one was read last (`readLast`), so what is verified is of it and of the
address typed; and every result is of an accepted file.

`ServiceHealthProofs` proves, for any callers, streams, durations and bounds,
under `HealthAssumption`, `ConnectionAttemptIsShared`, `DashboardIsUpToDate` and
`AlertsAreNeitherLostNorRepeated`. `AttemptIsOne` says that the connecting flag
is of one caller and that who waits has an attempt to wait for or an excuse;
`ReportsAreApart` that two reports of a stream begin an interval apart, which
with `Timeout < Interval` makes the earlier one end first unless it hangs;
`IntervalsAreSetOnce` and `NewestIsReceived` relate what the dashboard has to
what is still to come.

The assumptions name no more than what the models need to be meaningful: the
values that stand for "none" are no members of the sets beside them, amounts are
natural numbers, a bare document has no place for an address, and an anchored
document is not null.

Only model-checked: the liveness properties `RevocationReachesDatabase` and `RequestsAreAnswered`, which the
prover does not treat; and the three statements that are violated.

## What is not modelled

* Code without a caller: `connect`, `loginIssuer` and `logoutIssuer` of
  `useWallet`, `disconnectDatabase`, `revokeCertificate` of
  `certificate.service.ts`, `updateCertificatePersistenceOnChainMetadata`.
* Presentation: layout of pages and PDF, paging, toasts, the badge, and
  `InsightsPanel`, which polls and shows.
* ECDSA signatures and the regular expressions of fields; the signature of a
  document is abstract.
* The HTTP request to IPFS, which here succeeds or fails; HTTP wiring, middleware
  order and environment parsing; deployment and migration scripts.
* `revocationReason`, `revokedBy` and `revokedAt` are missing from the Mongoose
  schema, so the update that sets them drops them; documents here have only what
  is stored.
* A recipient that is a contract and calls back during `_safeMint`.

## Plan

1. (done) CertificateLedger, AcademicCertification and their proofs,
   RevocationSync, CertificateIssuance.
2. (done) CertificateVerification and its proofs.
3. (done) IssuerSession and, composed with it, IssuerPages.
4. (done) CertificateDocument and VerificationPage.
5. (done) ServiceHealth.
6. (done) Proofs of the safety properties of RevocationSync,
   CertificateIssuance, IssuerSession, IssuerPages, VerificationPage and
   ServiceHealth, and of `LogTellsTheState`.
7. Next: an abstract specification of what the database promises of a status,
   with RevocationSync shown to implement it; that what `overallValid` takes as
   "the hash matches" in CertificateVerification is what CertificateDocument
   computes.
