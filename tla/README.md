# GovPay integration: TLA+ models, checks and proofs

The repository holds two Go programs and a web UI. `src/client` is the **GO API**: the
service of a government organisation that presents a bill for a reference number and
records its payment. `src/server` is the **GovPay+ mock**: it looks bills up and pays them at
a GO, and serves the React UI in `src/server/web`. This directory models both
programs, model-checks the models with TLC and proves the main facts with TLAPS.

## The system

| Component | State it keeps | Operations | Hard behaviour |
| --- | --- | --- | --- |
| GO handlers (`client/main.go`) | none of their own | `/presentment`, `/update`: ordered checks (`decryptRequest`), data check, store calls, answer | goroutines interleave between store calls; a restart kills them between paying and answering |
| BillStore (`client/billstore.go`) | fixed `bills`, map `paid`, one RWMutex | `Lookup`, `IsPaid`, `MarkPaid`, `All` | `MarkPaid` alone decides between concurrent updates; memory only |
| Bearer verification (`client/auth.go`) | JWKS cache: `keys`, `fetchedAt` | `verify`, `key`, `refresh` | fetches overlap and are stored out of order; rotation; outages; exp/nbf against a moving clock |
| Token issue and proxy (`client/main.go`) | none | `/generatetoken`: local token, or forward to the IDP | IDP unreachable; whose token the GO's verifier accepts |
| Cryptography (`client/crypto.go`, `server/crypto.go`) | RSA keys | key transport, field encryption in place, PKCS#7 | in-place encryption of shared data; padding edges |
| GovPay+ API (`server/server.go`) | `sessions` under a mutex | `/api/presentment`, `/api/pay`, `/api/config`, `/api/services` | a session is read, used unlocked and deleted later; pays of one transaction overlap |
| GO client (`server/goclient.go`) | none | `Token`, `Presentment`, `Update` | timeouts, lost and late answers |
| Configuration (`server/config.go`) | settings in memory and `config.yaml`, the GO's public key | `LoadStore`, `LoadEncryptor`, `Snapshot`, `FindService`, `UpdateEndpoint` | torn writes, failed writes, environment overrides, concurrent edits, changes under running requests |
| Web UI (`server/web/src`) | React state of the pages | select, look up, pay, new payment, tabs, settings | overlapping requests, answers late, lost or out of order |
| Logging (`client/logging.go`) | none | log lines, redaction | - |

They interact by HTTP calls only: browser -> GovPay+ -> GO -> IDP. Goroutines of one
process share its store, session map or cache under a mutex that is held for one
operation and never across a call. Nothing but `config.yaml` survives a restart.

What makes each part correct: a bill is paid at most once and every refusal has a cause
(GO); a confirmed payment names the presented bill, gives one receipt, and a failed one
stays payable (GovPay+); a token is accepted only with a listed key and within its
validity, and a listed key is found (verification); settings survive and are used
consistently (configuration); what is shown belongs to what is paid (UI).

## Modules

| Module | Models | Built on |
| --- | --- | --- |
| `GORequests` | requests, ordered checks and statuses of the GO API | |
| `AtomicGO` | abstract GO: each request is judged in one step | `GORequests` |
| `GOServer` | handlers of `/presentment` and `/update` over the BillStore | `GORequests`, instance of `AtomicGO` |
| `GOServerProofs` | invariance and refinement proofs about `GOServer` | `GOServer` |
| `Ledger` | abstract GovPay+ with its GO: what a browser is promised | |
| `GovPay`, `GovPayProofs` | GovPay+ handlers and sessions, network, composed with the GO; invariance and refinement proofs | instances of `AtomicGO` and `Ledger` |
| `PayFlow`, `PayFlowProofs` | the payment page of the UI, composed with the servers; proofs | instance of `Ledger` |
| `Endpoints`, `EndpointsProofs` | requests under changing settings: token issue, credentials, keys, several GOs; proofs | |
| `JWKSCache`, `JWKSCacheProofs` | bearer verification, key cache, rotation, time; proofs | |
| `PKCS7`, `PKCS7Proofs` | the padding around every encrypted field; its proofs | |
| `PaymentData`, `PaymentDataProofs` | a bill's data from presentment over update to receipt; proofs | `PKCS7`, `PKCS7Proofs` |
| `ConfigStore`, `ConfigStoreProofs` | GovPay+ settings in memory, file and environment, the Settings page; proofs | |
| `MC...` | instances for TLC (symmetry sets, values); `GOServer`, `ConfigStore` and `PayFlow` need none | |

Operators named `Mut...` are slips of the code (a dropped test, a missing reset, encrypting in
place). No specification uses them: a property is worth its run only if one of them
breaks it, and `PROJECT.json` says which.

### GORequests, AtomicGO, GOServer

A request is its operation, the reference number its data carries and the set of checks it
fails. `CheckOrder` lists the checks in the order of `decryptRequest`, followed by the
handler's own data check. Names, amounts and message texts are abstracted away.

`GOServer` has one handler per call. `DecryptRequest` is request-local and ends in the
status of the *first* failed check (`FirstFailed`). `Lookup`, `IsPaid` and `MarkPaid` are one
action each, because the code takes the lock for each of them separately and gives it back on every return; between two of
them any other handler may run. The mutex itself is thus not modelled, and `EveryCallEnds` says nothing about locking. `status` is the answer a handler has settled on, `Reply` writes it.
`Restart` rebuilds the store, empty, and kills the handlers in flight. `born`,
`marked` and `settled` are history: which incarnation received a call, which calls got `true` from
`MarkPaid`, and which bills had been confirmed when a call came.

`AtomicGO` is the promise: `Decide` judges a pending request in one step, `Reset` forgets. The refinement
mapping (`Atomic` in `GOServer`) lets a call be judged at its last access to the store:
`verdict` is `status`, and the calls a restart killed before that are `lost`.

### GovPay

Each `/api/presentment` and `/api/pay` request is a handler: validation and session read
(`PresentmentStart`, `PayStart`), token (`Bearer`), call to the GO (`PostPresentment`,
`PostUpdate`), answer (`Receive`) or none (`GiveUp`: refused connection, 15 s timeout, browser
gone, undecodable body), and the session update with the answer to the browser
(`RecordPresentment`, `RecordPay`). The GO is `AtomicGO`, which `GOServer`
implements: a call that was posted may be judged any time, also after GovPay+ gave up.
`session` holds the `txnSession` objects and `sessions` the keys of the map, since a handler keeps its object
after another has deleted the key. `layers` counts how often a session's values are
encrypted, which is what copying `ReturnData` before `EncryptParams` is about: `Unreadable`
says the GO, which decrypts once, finds no `refNo` under any other number.
A transaction ID is named by the presentment that drew it, so
collisions of the random 18-digit IDs are not modelled. `Payable` is the set of bills whose
presentment has an amount above zero; a GO other than the one in this repository may present bills without.

### Ledger, PayFlow

`Ledger` is what `GovPay` amounts to for a browser: a look-up opens a transaction, a pay is granted in one step, and
an answer is `ok` only after a grant, `refused` only if there never is one, and `unknown` otherwise. `Close` and `Forget`
are the restarts of GovPay+ and of the GO. In `GovPay` the instance `Promised` maps `open` to the keys of `sessions`,
`granted` to the calls with verdict 200, and the answers by `Told`, which sorts them by status (`Outcome`): 502 or a handler killed by a restart is `unknown`.

`PayFlow` is the React component: its state variables under their names, an action for each thing a user can do to it and one
for each way a `fetch` can end. The servers are the `Ledger`. `pending` is what this mount awaits:
`Remount` (tab switched away and back, or reload) empties it, since React drops updates of an unmounted component.
Enter starts a look-up at any time, so `lookup` has no guard on `busy`; the button, disabled while busy, adds nothing. The two
selectors are one action, since both set the service and reset the form. `wanted`, `overtaken` and `shown` are history: `overtaken` are the
requests that were in flight when the page was last reset (`Overtake`), by Enter, a selector or a new payment.

### Endpoints

A handler copies the settings once (`Begin`), gets a token (`Token`, `TokenFails`) and calls the GO (`Post`); `Save` may put
other settings in place between any two of these. `TokenEndpoint`, `Decider`, `Known` and `TokenFor` are the way of
a token request: to the token URL or the GO, forwarded to the IDP by a GO that has one, checked against
its credentials. `VerdictOn` is the part of `decryptRequest` that depends on settings, bearer and key, followed by the paid flag, which each GO
keeps for itself. What `GovPay` has of sessions and answers is kept to what a retry needs. Tokens do not expire here (`JWKSCache` has that), and
restarts are left to `GovPay` and `ConfigStore`. `saved` and `told` are history.

### JWKSCache

`Look` is the read-locked look-up of `key`, `Serve`/`Store`/`FetchFails` are `refresh`, during which no lock is
held, `LookAgain` the second read, `CheckToken` the signature and claims. A key is its kid. The
IDP changes its set with `Rotate`. Time is in ticks: only an exchange with the IDP lasts, at most
`Timeout`; computing takes no time next to a tick, so a tick waits for handlers that are only
computing. `steady`, `lastListed`, `listedSince`, `basis` and `endedAt` are history. An outage is any number of
`FetchFails`: a call then has the key of the set it found at its first look, stored at `basis`, and `OutageServesLastSet` says how old the knowledge in it may be.

### PKCS7, PaymentData

`PKCS7` has `pkcs7Pad` and `pkcs7Unpad` on sequences of bytes, for any block size that fits a byte;
both programs hold the same code. `Carried` is a field on its way: AES under one key gives the padded blocks back.

`PaymentData` follows one bill: the GO presents objects (`buildPresentmentData`), GovPay+
derives `amount` and `data` (`extractReturnData`: its loop keeps what is `Returned`, from which `PayableAmount` and `ReturnData` are made), `Pay` appends
the status and sends the items, `Update` reads them with `findRefNo` and `findParam` (`Find`), compares the
amount and lists the receipt (`BuildPaymentData`). It leaves out transactions, retries and refusals, which `GovPay` has.
An object keeps the four fields the code decides by. One free-text object stands for taxpayer, tax type and period,
which are built alike. Names are atoms, two of them with a second spelling, since
the programs compare names with and without case. Texts are short byte sequences; `Number` says what `toFloat`
makes of them, the rest counting as zero; trimming and the NaN and infinities that `ParseFloat` accepts are left out. GovPay+ may face another
GO (`~own`): then any short list of objects is presented, and only GovPay+'s part is modelled,
as nothing is known of how that GO reads the update.
Where the code gives no guarantee, the properties say what happens instead: with only other spellings of `refNo` returned, a GO that searches as this
repository's does finds none (`BillIsNamed`); of several amount objects the payer sees the last and `findParam` reads the first of the exact name, so the two
agree exactly if these mean the same number (`AmountIsTheOneEchoed`).

### ConfigStore

`cfg` is `Store.cfg`, `file` is `config.yaml`, `env` the fields the environment sets in this start.
`Loaded` is `LoadStore`: file, then defaults, then environment. Five fields stand for all: with and without a
default, and inside and outside of the endpoint, which is all the Settings page edits. A page reads the settings (`Open`), changes one
field and sends the whole endpoint (`Save`); `UpdateEndpoint` takes the lock, changes memory and truncates the file
or finds it cannot be opened; `Write`, `WriteFails` or a `Crash` decide what ends up in it;
`AnswerSave` takes the snapshot for the answer after the unlock. A write cut short leaves nothing,
a beginning that parses, its last value cut or whole fields missing, or one that does not parse, with
which GovPay+ does not start. The environment may differ from start to start. A stop also ends the requests in flight,
while a page that is being edited stays open. Of the history, `cut` says that the file holds
less than was being written and GovPay+ has not started from it since, `lost` that it has started from such a file, `version` counts the changes and `kept` is the last
of them that was written as a whole.

## Runs

| Run | Bounds | Shows |
| --- | --- | --- |
| `go_handlers` | 3 calls, 2 bills, 1 unknown refNo, 1 restart, fairness | one confirmation per bill and incarnation, flags backed by updates, every 409 has a cause, no 200 after a confirmation, failed checks keep the store out of reach; `GOServer` implements `AtomicGO`; every call ends |
| `payments` | 2 transactions, 3 pays, 2 bills (1 without amount), unknown refNo, 1 restart of each process | one receipt per bill, receipts backed, updates name the presented bill, refusals have a cause; `GovPay` implements `Ledger` |
| `payments_end` | 1 transaction, 2 pays, failing bearer, fairness | every browser request is answered |
| `sessions_expire` | as `payments_end` | **violated**: see the findings |
| `jwks_cache` | 3 calls, 2 kids, TTL 2, timeout 1, 3 ticks, 1 rotation | withdrawn keys die out, settled keys are found, in an outage the set stored last serves as it was |
| `jwks_tokens` | 2 calls, claims at their limits, 3 ticks, fairness | accepted only while valid; every verification ends |
| `jwks_rotation` | 2 calls, 2 kids, 1 rotation | **violated**: see the findings |
| `payment_data` | 1 bill, 4 texts, 5 names, blocks of 2 bytes; lists of up to 2 objects of another GO | returned values are echoed unchanged and in order, which bill and which amount the GO reads, and when they are the ones looked up and confirmed; item numbers grow |
| `config_store` | 2 pages, 1 save each, 2 fields settable by the environment, 1 further start, fairness | a whole file holds what a start needs, sub-institutions are lost only by a start from a cut file, an answer shows the own change or a later one, each save ends |
| `config_env` | as `config_store`, the client secret alone settable by the environment | **violated**: see the findings |
| `payment_page` | 2 look-ups, 2 pays, 1 bill, a service or none, any number of tab switches and restarts, fairness | what was paid is final and not offered again; no more is in flight than `busy` and the last reset account for; what is shown belongs together but for late answers of overtaken requests; the page never waits for ever |
| `endpoints` | 1 look-up, 2 pays, 3 GOs, 1 IDP, 2 clients, 2 key pairs, 7 settings, any number of changes | secrets and tokens stay with their settings; requests are judged by the settings they started under; a bill is paid twice only at two GOs (which do not restart here) |

Why these bounds suffice to be interesting: a double payment takes two updates, and a third call sees
their result; the restart lets an incarnation without payments follow one with; a retry takes two pays of one
transaction and the third races them from the other; overtaking takes two fetches, and
a third call profits from what they left. `TTL` and `Timeout` differ,
so the two parts of the staleness bound can be told apart, and time runs past their sum.
Blocks of two bytes leave a text of whole blocks, one that is not, an empty one and one that ends like a pad.
Two objects can contradict each other in name, flag and value. Two saves can overtake between
change and answer, and the second start shows what the first left, in another environment. Two look-ups can overtake each
other on the page and two pays retry one transaction; selecting nothing is enough to change the service. Three GOs differ in one point each: who issues the
token, who verifies it, which key; one pay is lost at the first GO and repeated at the second. Every slot is used once, so
a run ends when all are answered; therefore `CHECK_DEADLOCK FALSE`.

Fairness: `WF` on the steps of each handler. Go runs every runnable goroutine, no step waits for
another's, and a critical section contains no blocking call but the file operations of `persistLocked`,
which return, whole or failed. Each page of `config_store` saves once, so the lock is in the end free for whoever waits. For calls to the outside, the
step includes giving up, which `http.Client.Timeout` (15 s and 10 s) guarantees. `payment_page` assumes that GovPay+ answers each request, which `payments_end` shows,
and that the browser delivers an answer that is there. Nothing is assumed of the GO seen
from GovPay+, of the IDP, of the network, or of the arrival of requests.

### Findings

* `jwks_rotation`: `refresh` stores its set whenever the answer arrives and `key` then
  reads the shared cache instead of its own set. A fetch served before a rotation and stored
  after a newer one makes a call whose own fetch returned its kid fail with 401.
  A key listed for at least the timeout before the call came is found (`SettledKeyIsFound`).
* `sessions_expire`: `handlePay` speaks of an "unknown or expired transaction" and
  `CreatedAt` is recorded, but nothing expires.
* `config_env`: overrides exist so that secrets "are not baked into config.yaml", but `persistLocked`
  writes memory with the overrides in it, so any save on the Settings page bakes them in. As a consequence
  a later start without the variable keeps its value.

No findings of a run, but worth knowing:

* After a lost answer the payer is told 502 although the bill is paid, and every retry is refused with 409. The models
  show that no second payment results (`OneReceiptPerBill`) and that only 502 is ambiguous (`ImplementsLedger`).
* Across a restart of the GO a bill can be paid again, as the note at `billstore.go:22` says; all guarantees are per incarnation.
* A pay goes to the GO of the settings at pay time, not to the one that presented the bill, although `txnSession` speaks of echoing the
  parameters "back to the GO": a retry after a lost answer and a change of settings can pay the bill at a second GO
  (`PaidTwiceOnlyElsewhere` says that nothing else can). The public key stays the one loaded at the start, so a GO with another key pair
  answers 401 until a restart. With authentication turned off this repository's GO answers 401 to everything.
* Enter and the selectors reset the page while a request is in flight, whose answer still comes: one that fails ends `busy` while a later request
  is in flight, and the button may offer a transaction that is being paid (the servers take only one); a late look-up shows a bill of a service that is no longer
  selected; an error can stand beside a receipt, and a second receipt replaces the first.
* The types in `api.ts` say that they mirror the server's JSON, but `isPaymentAmount` and `isPaymentReference` come as the strings
  "true" and "false", so `PresentmentObjects.tsx:45-46` puts both badges on every object.
* The Settings page says "Saved to config.yaml" (`Settings.tsx:27`) and the README of `src/server` "persisted to `config.yaml`", but a write that
  fails is only logged and the save answered as if it had gone through: the first outcome of `UpdateEndpoint`, `WriteFails`, and `kept < version` in
  `RestartKeepsSettings`, which allows the settings changed since the last whole write to be missing from the file.
* A write of `config.yaml` cut short, by a stop or a full disk, destroys settings written before: the next start fails or comes up without the
  sub-institutions. `RestartKeepsSettings` therefore speaks of whole files only (`~cut`), and `ServicesSurvive` of everything but a start from
  a cut one (`lost`). Of two pages edited side by side the later save
  undoes the earlier, since each sends the whole endpoint; what is typed while a save is in flight is replaced by its answer.

## Proofs

`GOServerProofs` proves for every set of calls, refNos, bills and faults and any number of restarts:

* `IInv` is inductive (`InitIInv`, one lemma per action, `NextIInv`), hence `Invariance`;
* `TypeCorrectness`, `NoDoublePayment`, `PaymentsAreBacked`, `ConflictsAreTrue`,
  `ConfirmationIsFinal`, `ChecksComeFirst`, each a conjunct of it;
* `Refinement`: `Spec => Atomic!Spec`, from `InitSimulation` and `StepSimulation`.

The safety properties are not inductive alone. `AtMostOnePayment` needs to know that a bill
not in `paid` was marked by no call of the incarnation (`PaidIffMarked`), and this that
running handlers belong to the incarnation (`HandlerState`). `NoApprovalAfterConfirmation` rests on
`settled[c] \subseteq paid` while a handler runs, which holds because payments are never taken back before a restart.
The assumptions are `BillsAssumption`, `FaultsAssumption`, `NoRequestAssumption` and
`RestartsAssumption`; TLC evaluates them in the runs of `GOServer`.

`PKCS7Proofs` proves, for every block size up to 255 and every text of bytes: `RoundTrip`
(unpadding returns what was padded), `PaddingIsInjective`, and `UnpadIsCanonical` (what is accepted is the padding
of what is returned). The lemmas give the pad's length, between one and a block (`PadLength`), the shape of the padded
text (`PadShape`) and that it is well padded (`PaddedIsWellPadded`). The only assumption is `BlockSizeAssumption`.

`ConfigStoreProofs` proves, for any pages, any set of overridable fields and any number of starts, that its
`IInv` is inductive (`Invariance`), hence `TypeCorrectness`, `WholeFilesAreCurrent` and `ServicesAreKept`. A restart
from a whole file brings memory back only because memory already has its defaults and, outside of the endpoint, the values
of the environment (`MemoryComplete`), because a page that is saved holds an endpoint (`PagesFilled`),
and because only a write in progress keeps the lock (`LockIsAWrite`), with the file cut meanwhile. `AnswersAreCurrent` adds `AnswerState`, inductive
together with `IInv`: until the next change, memory shows the endpoint of the last PUT, whatever was there before
(`ReplacedShown`), and an answer shows memory.

`GovPayProofs` proves for any requests, bills, faults and numbers of restarts, with a GO that may judge a call at any time:

* `TypeCorrectness`, `NoSecondReceipt`, `ReceiptsAreBacked`, `UpdatesNameTheirBill`, `RefusalsAreTrue`;
* `Refinement`: `Spec => Promised!Spec`, from `InitSimulation` and `StepSimulation`, which has a lemma for starts, one
  for the later steps of a handler, one for decisions of the GO and one for restarts.

No session may change between its creation and its last use: `SessionState` says that a session holds its own presentment's
bill, unencrypted, `PayState` that a running pay has one, `CallState` that a call carries the bill of its transaction. `GOState` then
ties the GO's flags to the updates of the present incarnation and admits one such update per bill, from which one receipt per bill
follows. `AnswerState` says when a refusal or a receipt may be answered. Most simulation steps stutter; a decision of the GO
that grants a pay is the ledger's grant, also if GovPay+ gave up before. Two assumptions were added for these
proofs: no fault is a missing `refNo` (`NamedAssumption`: `handlePresentment` refuses an empty one, `server.go:131`, and
`extractReturnData` puts in one that the GO left out, `server.go:285`), and the absence of a session is not a session (`SessionAssumption`).

`PayFlowProofs` proves `TypeCorrectness`, `ReceiptsAreFinal`, `BusyTellsTheTruth` and `PageIsConsistent`
for any look-ups, pays, bills and services. `ServerState` is what the ledger keeps (an open transaction was confirmed, a confirmed pay closed
its own); `PageState` holds on every page: a bill with a receipt shown is gone from the page or shown with it, whatever comes late.
`Counted` is the bookkeeping of `busy` and `overtaken`. `Traced` says where bill and receipt come from on any page: a look-up not overtaken is the only one, was asked for
the selected service and found the page empty, and a pay not overtaken pays what is shown. `Orderly` is what this leaves of a page on which nothing was overtaken: at most one request, no error beside a receipt.

`EndpointsProofs` proves `TypeCorrectness`, `SecretsAreKept`, `OwnSettingsDecide` and `SecondPaymentIsElsewhere` for any GOs, IDPs, clients, keys
and settings. `HandlerState` ties token and call of a handler to its copy of the settings, which stays among the saved ones; `VerdictState` and `PaidState`
say by what a GO judges and that each GO remembers what it took. From these follows that the same bill can be taken twice
only by two GOs. `NoneAssumption` says that having no answer is not a status.

`JWKSCacheProofs` proves `TypeCorrectness`, `WithdrawnKeysDieOut`, `SettledKeysAreFound`, `OutagesAreBridged` and `AcceptedTokensAreValid` for any
calls, keys, rotations, lifetime, timeout and leeway. The argument is about how old the knowledge in a set may be (`KnownAt`): a set in
flight is no older than its call, hence a stored one no older than a timeout when it was stored, whichever of the overlapping fetches came last
(`CacheState`). A fresh hit adds less than a lifetime to that, and a call that looks again does so in the tick of a store (`CallTimes`), so a timeout
is all that a missing key can have been listed for before. In an outage `basis` takes the place of the store: `CallOutage` says how the set a call found at first relates to what was listed then.

`PaymentDataProofs` proves `TypeCorrectness`, `EchoesAreExact`, `BillsAreNamed`, `AmountsAreTheOnesEchoed` and `NumbersOnlyGrow` for any texts, bills
and lists of objects, however long. Its invariant is plain: each stage holds what the one before makes of it (`Opened`, `Sent`, `Answered`), since by
`RoundTrip` the encryptions change nothing (`DecryptedIsPresented`, `DecryptedIsSent`). The work is in the data. `Kept`, the loop of `extractReturnData`, is a
recursive function; that it exists and keeps only objects to be echoed is shown by least counterexample (`LeastElement`, `KeptExists`, `ReturnedFacts`), as an induction rule with an
operator parameter cannot be used. `UpdateDataShape` says where each object is found in an update, with or without the refNo in front; `FindFacts` that the first
item of a name decides, `ReadsFirst` what is read then. `TextsAssumption` says that the GO's amounts are texts that are numbers above zero (`formatAmount` of the store's amounts) and that `Number` gives integers,
where the code has floats of which only sign and equality matter.

Each of these invariants was checked with TLC, within the bounds of the component's run, before it was proved. The assumptions named in the modules
are all that the proofs take for granted; TLC evaluates them in every run.

Only model-checked: all liveness (`EveryCallEnds`, `EveryRequestAnswered`, `VerificationEnds`, `SavesEnd`, `BusyEnds`), which is out of the prover's reach.

## Plan

Done are the models, and the proofs of every safety property the passing runs check. Open are the liveness properties, which stay with TLC, and hazards no property covers: two
pages that edit one endpoint side by side, listed with their reason.

## Not modelled

`FindService` is a pure look-up whose two outcomes `GovPay` has. RSA, AES, JWT signatures and the parsing of keys are taken as ideal.
Logging (`client/logging.go`) formats what handlers do and holds nothing a request depends on; its self-test of the key pair at the start
compares what `PKCS7Proofs` proves for the padding. Wording and page layout are left out, `PresentmentObjects.tsx` with them, and the Settings page
beyond one save. The Helm charts matter only by the single replica they fix, on which the BillStore relies.
