# OmegaWallet: TLA+ models, model checking and proofs

OmegaWallet is a desktop wallet: an Electron main process that holds the keys,
a React renderer that never sees them, three bridges through which dApps reach
the main process, a browser extension, a few HTTP services, and the Solidity
contracts of a smart account. This directory specifies the part of it in which
steps of several actors meet, checks the specifications with TLC on small
instances, and proves most of their safety properties with TLAPS for every
value of the constants. KNOWN_LIMITATIONS.md of the repository lists FreshAuth,
the vault and two-phase signing as not verified formally; they come first here.

## 1. The system

### Components, their state and what makes them correct

| Component | State | Operations | Correct when |
|---|---|---|---|
| FreshAuth (`electron/fresh-auth.js`) | token, expiry, failure count, cooldown, nonce registry, audit buffer; memory only | authenticate, requireFresh, consumeNonce, revoke | guesses are paced; a sensitive request passes only shortly after a proof of the password; a nonce is consumed once |
| Encrypted ledger (`electron/encrypted-ledger.js`) | one file, key, decrypted copy: wallets, active index, spend per day, settings, permissions, pinned NFTs, contacts, logs | create, unlock, lock, destroy, and a change followed by a rewrite of the file | what was answered with success is on disk; the active index denotes the chosen wallet; the daily total keeps to the limit |
| Two-phase signing and other sends (`electron/ipc-handlers.js`) | `prepareStore`; handlers that await the network | bundler:prepare, :confirm, :submit, token:transfer, nft:transfer, approval:revoke, btc:send, sol:send, vault:* | a prepareId signs one transaction, the one prepared, in time, on fresh authentication; what is sent keeps to the limit |
| Send form (`Send.jsx`) | inputs, prepareId, modal, the calls it awaits | edit, send, confirm, cancel | one click and one password make one transaction, the one that was shown |
| Screens (`WalletContext.jsx`, `UnlockScreen.jsx`, `Onboarding.jsx`, `main.js`) | the screen; the auto-lock timer | create, import, unlock, lock, reset; auto-lock, screen lock, suspend | the ledger is locked when it should be, and the screen learns of it |
| dApp browser (`electron/dapp-browser.js`, `DAppBrowser.jsx`, `App.jsx`) | pending approvals with timers, the native BrowserView, permissions, one modal in the renderer | RPC of a page, approve or reject, revoke, navigate, hide and show | only the user's yes to a request approves it; every request settles; permissions rest on a consent |
| PhantomBridge (`electron/ws-bridge.js`) | one approval slot, approved origins, sockets | RPC of the extension, bridge:respond | as above |
| Extension (`extension/`) | requests of each page, pending requests by id, one socket | relay of page requests and answers | each answer reaches the request it is for |
| WalletConnect bridge (`electron/wc-bridge.js`) | pending requests, sessions of the library | RPC of a session, wc:respondRequest | as the dApp browser |
| OmegaAccount with spend limit hook, session keys, duress module (`src/*.sol`, `src/modules/`) | owner, module lists, counters, sessions, cold vault | bundles of operations, batches, direct calls, module management | the limit holds over batches and reverts; no operation gets rid of a hook; sessions end with their module; a locked vault is locked for good |
| Social recovery (`SocialRecoveryModule.sol`) | guardians, a recovery with its confirmations | setup, initiate, confirm, execute, cancel | threshold and timelock are met by votes of different guardians of this recovery |
| Intents (`IntentModule.sol`) | intents, claims, escrow, bonds | create, claim, settle, slash, cancel, reclaim | escrow and bonds go one way, once, to a solver who delivered or back; the module can pay what it owes |
| Paymaster (`OmegaPaymaster.sol`) | sponsor deposits, limits of users | validation and settlement of sponsored operations | planned |
| Backend (`backend/`) | nearly none | HTTP | out of scope, stateless |

### How they interact

The renderer calls the main process by `ipcRenderer.invoke`; the main process
sends it events (`dapp:approval-request`, `vault:auto-locked`). Handlers run
on one thread and interleave only where they `await`: on the network (a
simulation, `sendTransaction`) and on the user (an approval). All of them share
the one ledger object and the one FreshAuth object. Timers (auto-lock, the
120 s of an approval, the expiry of prepares and nonces) run in between. Web
pages reach the main process through the extension, its socket and
PhantomBridge, with a timer of their own at each end. The contracts share the
storage of one account: the entry point validates all operations of a bundle
before it executes any, modules are called by the account, and an intent calls
its recipients while it is being settled.

### What is hard

Interleavings around an `await` (a check before it, a record after it, a lock
or a changed vault in between); messages that cross between renderer and main
process; timers that race with answers; components that are replaced while
their calls go on; a file rewritten in place; restarts that forget what lived
in memory; rounding; batches that revert; calls back into a contract. Hazards
are listed in `PROJECT.json` at their lines, with the properties that cover
them.

## 2. The modules

| Module | Stands for |
|---|---|
| `FreshGate` | what fresh authentication promises, without its mechanism |
| `FreshAuth` | `fresh-auth.js`, and that it implements `FreshGate` |
| `Decimals` | amounts with `toFixed(6)` |
| `EncryptedLedger` | `encrypted-ledger.js` behind the vault, ledger, address book, NFT and settings handlers |
| `Signing` | the sends of `ipc-handlers.js` and of the bridges, built on `FreshGate` |
| `SendForm` | `Send.jsx` and the handlers it calls |
| `Screens` | the screens of the renderer and the locks of `main.js` |
| `Approval` | what asking a human promises |
| `DappApprovals` | approvals of `dapp-browser.js` with its renderer, and that they implement `Approval` |
| `PhantomBridge` | approvals of `ws-bridge.js` with its renderer |
| `Relay` | page, extension and socket, composed with `PhantomBridge` |
| `Account` | `OmegaAccount.sol` with hooks, session keys and the duress vault |
| `SocialRecovery` | `SocialRecoveryModule.sol`, the guardians of one account |
| `Intents` | `IntentModule.sol` |
| `FreshAuth_proofs`, `EncryptedLedger_proofs`, `DappApprovals_proofs`, `SocialRecovery_proofs` | the theorems about the module of that name |
| `Sends_proofs` | the theorems about `Signing` and `Relay` |
| `Renderer_proofs` | the theorems about `Screens` and `SendForm` |
| `Contracts_proofs` | the theorems about `Account` and `Intents` |
| `Sums` | lemmas about sums over finite sets, for the proofs |
| `MC...` | the constants of the runs |

`FreshAuth` is shown to implement `FreshGate`; `Signing` EXTENDS `FreshGate` and
uses its `Pass` for `requireFresh`. So the properties of `Signing` hold of the
handlers on top of the real gate, without its tokens and nonces multiplying the
states of the handlers. `SendForm` keeps of the same handlers whether they send,
and adds the renderer in front of them; `Screens` says when the ledger is
locked, which both take to happen at any moment. `Relay` INSTANCEs
`PhantomBridge` and puts the extension in front of it.

A definition named after another with an ending (`RecordFailureLate`) and the
comment "Mutant" is a plausible mistake; no specification uses it. Each property
is checked to fail when such a mistake takes the place of the definition
(`PROJECT.json`, `mutants`).

### FreshAuth

The clock counts fresh windows of 30 s. Tokens are 32 random bytes in the code:
here they are numbered as issued, 0 is `null`, and a caller may present the
password, another string, no string, or any token ever issued (`Cred`).
`requireFresh` is `Granted` (by a valid token, or by a password) or `Denied`; a
stale token falls through to `authenticate` and fails there as a password, as
in the code. `open` is the lock of the ledger: while it is closed no password
verifies, and each try counts as a failure. `consumeNonce` and `revoke` are
part of the public interface of the class, although no handler calls them.
`lastProof`, `streak`, `granted` and `consumed` are history variables.

The model also shows that a token is accepted until it expires, as often as it
is presented, although the documents call it single-use.

### EncryptedLedger

A file is the password that sealed it and the data. Every operation goes
through `Save`, which models `_flush`: the change is in memory whatever happens
to the write, and the write is done, refused (the old file stays), cut short
(`Torn`: no password decrypts it) or cut short by the end of the process.
`acked` is the file as of the last operation that answered success, and
`Unsure` once a write has failed; `AckedIsOnDisk` promises nothing after that.
Amounts are counted in parts of the sixth decimal place, so that `toFixed(6)` is
a real rounding (`Rounded` of `Decimals`), and a limit may be `NaN`, which
compares with nothing. Amounts are not negative: the schema of ledger:recordSpend
(`ipc-schema.js:164`) asks for an amount, no handler records anything else, and
no component of the renderer calls it.

Pinned NFTs, bookmarks, permissions and contacts are the pairs in `kept`, each
collection with its capacity: `Keep` and `Drop` answer "already" and "not
found" without a write, and refuse what is full. Audit entries, dApp activity,
telemetry and times of last use are records that only rewrite the file
(`Rewrite`); FreshAuth's flush of its audit buffer every 30 s is
`RecordAuditEntry`.

The model also shows that an item whose write failed is in memory, so that the
same request is then answered "already" and still not written.

### Signing

A transaction has a destination, an amount and calldata (`data`). A payment
without calldata is prepared in one step; with calldata the handler awaits its
simulation, and what was prepared is stored in a step of its own
(`StorePrepared`). A send is a record in `flights` from the moment the handler
awaits `sendTransaction`; the transaction may be signed and broadcast at any
moment of the await (`SignAndBroadcast`), and then the handler gets its answer
(`Answered`, which records the spend or fails to) or an error (`Failed`),
broadcast or not. The ledger may be locked, the vault changed or created anew,
limit and strict mode changed (`UpdateSettings`), the day may end and the
program restart at any point. `RecordSpend` is the handler ledger:recordSpend, by
which the renderer may record what was never sent; each record is rounded as in
`EncryptedLedger`, and amounts below zero are left out here too. Transfers of
tokens and NFTs, revocations and sends of bitcoin and SOL record a spend of zero.
`Admits` is strict mode: bundler:prepare, bundler:submit and the token and NFT
transfers ask it, bridges, revocations, bitcoin and SOL do not. Of the data of
the ledger only what the handlers read is kept. `chain` is a history variable.

`PaymentIsKept` is about wallet, destination and amount. The calldata is not
kept (`CalldataIsSent`, violated), and neither is the limit by what is sent
(`SentWithinLimit`, violated).

The model also shows: the total of the day is neither what was sent nor an exact
sum (a second `recordSpend` throws with both transactions on the chain, an error
of the network leaves a transaction unrecorded, the renderer may add records,
and each is rounded), so no property says it is; a lowered limit makes
`recordSpend('0')` throw for a token transfer that was sent; a lock during a
confirmation does not stop it, since the signer has its own copy of the key;
strict mode switched on after a prepare does not stop its confirmation. Reading
shows that the audit entry of a confirmation is never written, because
`appendAudit` does not exist in the ledger and the error is swallowed.

### SendForm

A call is a record in `pending` until its answer is taken. `RequestSend` calls
bundler:prepare for a native transaction and opens the modal at once for the
other kinds; `ConfirmSend` is the button and Enter, which does not ask whether a
send is under way. Each rendering of `AppShell` may replace the form
(`Rerender`), whose calls then return to nobody. The handlers answer yes or no
for whatever reason, and may broadcast and answer no. The modal covers the
inputs, which the model takes as out of reach behind it (`Edit`, `RequestSend`);
`OneSendPerClick` does not rest on that. `sent` is a history variable. Tokens,
bitcoin and SOL have no prepareId: Enter twice sends them twice, as the model
shows, and `OneSendPerClick` is about native transactions.

### Screens

The state of `WalletProvider`, the seed phrase of Onboarding and the listener
for `vault:auto-locked` on one side; the ledger's existence and lock, the
auto-lock setting and its timer on the other; calls in `toMain`, answers and
events in `toUI`, both in order. `due` (opened by a password with auto-lock on
ever since) and `silent` (a lock nobody was told of) are history variables.
Unlocking answers first and signals `auto-lock:reset` afterwards: only the
signal arms the timer. The window is not reloaded.

The model also shows that a vault that was created or imported is never armed
until its first unlock, that suspending the machine locks without an event, and
that Reset calls vault:destroy without a password, which refuses it, and shows
onboarding all the same. `UnlockedIsTimed` and `LockIsShown` except the first
two.

### DappApprovals, PhantomBridge and Relay

Main process and renderer with the channels between them as queues: `toUI`
(approval requests), `toMain` (invocations), `replies` (invocations that have
returned). The modal holds the newest request. `Returned` is the
`setApproval(null)` after the await, in the instance of the component that
waited. `Rerender` is a new render of `App`, which defines `ViewComponent` while
it renders and so replaces the browser tab. Timers fire in the order they were
set, each for its request. The BrowserView is closed, attached or detached. The
ledger stays open. A request may come from any origin at any time, which
includes pages that navigate. PhantomBridge has the same parts, but one slot
instead of a map and answers without an id. The WalletConnect bridge keeps its
requests like `DappApprovals`, without permissions and view, and has no module
of its own.

The model also shows the BrowserView attached again over the modal of one
request when the timer of another fires or it is answered.

`Relay` adds the pages (`waiting`, 60 s), the extension (`pending` by id and
120 s), and the link: a socket that is down, challenged or up, whose break loses
what is on it. A request that needs approval is a step `Ask` of
`PhantomBridge`, whose user, modal and timer go on as there (`Approvals`); any
other passes at once. Answers leave the wallet in any order.
`lone` fixes for each behaviour whether there is one page that is never
reloaded, which `AnswersMatch` is about; with two pages the ids collide
(`AnswersAreOwn`, violated), because each page counts from 1 and the extension
keeps one table. The page is told "timed out"
after 60 s while its request can still be approved until 120 s.
`approvedOrigins` holds the origin of the extension, which is the same for all
pages.

### Account

`acc` is all storage that one transaction can revert: owner, installed modules
and the lists the account iterates over, the limits of the hooks, sessions, and
the duress vault; `saved` is `acc` when the operation under way began. `Validate`
puts operations into `bundle`, `Begin` starts one, each call runs between the
hooks (`ExecuteWithHooks`), and `Finish` or `Revert` ends it. `OwnerCalls` are
calls of the owner past the hooks. `HooksRemain` is what the loop of post-hooks
over the old length amounts to: a call that shortens the list reverts. Batches
within batches are flattened. `paid` (what left the account, by hook and second,
since the hook was configured) is history.

Of the duress module the cold vault and its lock are kept; a lock does not outlive
the module (`VaultIsPermanent`, violated).

The model also shows: `recordSpend` of the session module is called by nobody,
so that the spend limit and the contract of a session (INV-2, INV-4) restrict
nothing, and an operation signed by a session key can transfer the ownership
(INV-7); a session revoked by one operation of a bundle still signs the next,
validated before; configuring a hook again resets its counter, which
`SpentWithinPeriod` counts as a new configuration.

### SocialRecovery

One account: its guardians (`guardians`, `isGuardian`, `threshold`) and its
recovery request (`active`, `newOwner`, `confirmations`, `initiatedAt`,
`confirmed`). A transaction is a step; calls the contract reverts change nothing
and are not enabled. The account may set up any of the given lists at any
moment, one that names an address twice included, and may uninstall the module.
`onInstall` is `SetupGuardians`, or nothing when it gets no data. What
`executeRecovery` returns is calldata; `executed` notes it with the votes and
the threshold of that moment. `started`, `votes`, `disturbed` and `executed` are
history variables.

`RecoveryIsTimelocked` counts the timelock from the first confirmation, as the code
and the comment above `executeRecovery` do; the header of the module counts it
from the threshold (`TimelockFromThreshold`, violated).

The model also shows: flags of guardians who were replaced during a recovery
stay set, so that the same guardians, set up again, cannot confirm the next one;
and a list with a duplicate admits a threshold that its guardians cannot reach.

### Intents

A transaction is a step, but for `settleIntent`, which calls the recipients of an
ETH output before it notes the settlement: `settling` holds the settlements under
way, innermost first, and while there is one for ETH any operation may be called
(`MayCall`), by the solver and the initiator too, settling the same intent or
another one within it. So nothing is assumed of recipients. Amounts outside of
the module are what `outcome` (history) records: who got the escrow, how much,
and what the recipients got. For a token output that is whatever the solver
transferred before (`transferred`), which `settleIntent` does not look at;
`SettledAsAgreed` speaks of ETH outputs, and `FulfillmentVerified` (violated) of
all. `paidAgain` is what was paid to return a bond of an intent settled before.
The escrow of an intent goes to the solver whose claim stands when it is paid: if
recipients had the claim slashed meanwhile, another solver may have claimed it,
or it goes to nobody (`address(0)`).

The model also shows: `slashedBonds` cannot be withdrawn, and neither can what
`msg.value` exceeds the input by.

## 3. The runs

| Run | Checks | Bounds |
|---|---|---|
| `fresh_auth` | `GuessesArePaced`, `GrantFollowsProof`, `NonceIsSingleUse`, `ImplementsGate` | clock to 4, window 1, nonce lifetime 2, lockouts of 1 after two and 2 after three failures, up to 4 failures in a row, 2 tokens, 2 grants |
| `encrypted_ledger` | `AckedIsOnDisk`, `ActiveDenotesWallet`, `SpentWithinCap`, `SenderIsKept` | 2 passwords, 4 addresses, 3 wallets in the vault, 2 days, 2 records of spends, one item and room for one in each collection, one of them filled, one failed write in a row |
| `signing` | `PreparedOnce`, `PaymentIsKept`, `ConfirmedInTime` | 2 wallets, one destination, a payment of half a rounding unit and a call with calldata, limit of half a unit or 0, the lower with the destination barred, one prepare, 2 sends, 2 grants, clock to 2 |
| `signing_data` | `CalldataIsSent`: violated | the same, one send |
| `send_form` | `OneSendPerClick` | 2 wallets, 1 recipient, 2 clicks, 2 confirmations, 2 instances of the form |
| `send_form_shown` | `ShownIsSigned`: violated | one click, one confirmation, one instance |
| `screens` | `UnlockedIsTimed`, `LockIsShown`, `AutoLocks` | 4 calls of the user |
| `dapp_approvals` | `PermissionHasConsent`, `ImplementsApproval`, `EveryRequestSettles` | 2 origins, 2 requests, 2 clicks, 2 mounts, one revocation |
| `phantom_bridge` | `ApprovedByUser`: violated | 2 origins, 2 requests, 2 clicks |
| `relay` | `AnswersMatch`, `EachGrantTakesAYes` | 2 tabs, 2 requests, 2 clicks, one break of the link |
| `account` | `SpentWithinPeriod`, `HooksLeaveByOwner`, `SessionsEndWithModule` | 2 hooks, 2 owners, one session key, 2 vaults, limit 2 in 2 s, 2 operations in a bundle, 4 calls, clock to 3 |
| `modules` | `VotesAreCounted`, `RecoveryIsTimelocked`, `ExecutedOnce` | 3 guardians, 3 lists (all, two, one twice), 1 new owner, clock to 4, timelock 2, 2 recoveries |
| | `EscrowPaidOnce`, `SettledAsAgreed`, `Backed` | 2 intents, 1 initiator, 2 solvers, 2 recipients, 2 claims of an intent, 2 settlements within each other, calls with 1, 2 or 4, clock to 2 |

Each passing run but `relay` checks the type invariant of its module too. `modules`
checks two contracts that share no state: a behaviour is one of `SocialRecovery`
with no intents, or one of `Intents` with no guardians (`MCModules`), which is all
that properties of one or the other can tell apart. The longest runs (`modules`
and `signing`, of 2.2 and 3.7 million states) take two to three minutes.

Seven more configurations state what a comment says of the code and TLC finds
violated; they belong to no run of `PROJECT.json`.

| Configuration | Module | Violated | Holds instead |
|---|---|---|---|
| `MCSigningLimit.cfg` | `MCSigning` | `SentWithinLimit` | `SpentWithinCap` of `EncryptedLedger` |
| `MCRelayTabs.cfg` | `MCRelay` | `AnswersAreOwn` | `AnswersMatch` |
| `MCAccountVault.cfg` | `MCAccount` | `VaultIsPermanent` | |
| `MCSocialRecoveryThreshold.cfg` | `MCSocialRecovery` | `TimelockFromThreshold` | `RecoveryIsTimelocked` |
| `MCIntentsFulfilled.cfg` | `MCIntents` | `FulfillmentVerified` | `SettledAsAgreed` |
| `MCIntentsLate.cfg` | `MCIntents` | `LateBondIsSlashed` | `SettledAsAgreed` |
| `MCIntentsBacked.cfg` | `MCIntents` | `EscrowsAreBacked` | `Backed` |

Why the bounds are enough for what they are to show:

* `fresh_auth`: the curve has a failure without lockout and two levels, as many
  shapes as the code's three; four failures go past the last level; the clock
  outlasts each lockout, window and nonce, and the equality `now = expiresAt`
  occurs. Two tokens give a current and a stale one.
* `encrypted_ledger`: with three wallets there is one before, one at and one
  after the active index; half a rounding unit is the smallest amount, so that
  a record can be rounded away and two can make a unit; a write may fail and
  the next one persist its change. A collection of one is empty or full.
* `signing`: two sends are what a race needs; the payment is half a unit, so that
  the total comes to nothing or to a unit, and the limit admits the payment once,
  again if it was rounded away, or not at all once it is lowered; the other
  transaction is a call of no amount; two grants let one prepareId be confirmed
  twice; the clock passes the expiry of the prepare and
  of the window. One prepare at a time means that the sweep removes only what a
  second prepare would have found expired; `Expired` at the confirmation covers
  that case.
* `send_form`: two clicks and two confirmations give every order of two
  prepares, an edit and two presses of Enter; the second instance is the one
  that must not take answers of the first.
* `screens`: create, unlock, lock and unlock again are four calls; locks of the
  machine and the timer are not bounded.
* `dapp_approvals`: two requests are the least in which one is answered while
  another is shown; two clicks answer one of them twice or both; the second
  mount is the remount.
* `relay`: two requests meet in the slot, or in the table of the extension; one
  of them may be given up, or its connection lost, before the other.
* `account`: two hooks make lists that swap and shrink; four calls fill a bundle
  of two batches with a call of the owner between; the clock holds two periods
  and the seconds at their ends.
* `modules`: the lists of guardians share guardians, so that some stay, some go and
  come back; two recoveries are what a flag left behind needs; the clock allows
  two timelocks one after the other, and the equality at the end of each.
  Two intents show money of one used for the other; two claims are a
  slash and a claim after it; two nested settlements are the same intent or both;
  a third and two thirds of two are both rounded. A call carries less than is
  asked for, what is asked for, or what is offered.

The theorems of section 4 drop all of these bounds.

### Fairness

`DappApprovals` assumes `WF(Expire)` alone: a timer that was set fires, as the
event loop of Node guarantees while the process runs. The user, the dApp and the
renderer owe nothing. `Screens` assumes weak fairness of `Handle` and `Deliver`
(main process and renderer take the messages that have arrived) and of `Fire`
(the auto-lock timer), and nothing of the user: `AutoLocks` needs the signal to
arrive and the timer to fire. Each unlock sends one signal, which stops the timer
that runs and sets another. The calls of a behaviour are bounded, so the
restarts are finite, and the property says that a ledger that is no longer
unlocked anew is locked in the end.

`main.js` (lines 248-258) also wraps `ipcMain.emit` to restart the timer on "ANY
IPC call". The handlers are registered with `ipcMain.handle`, whose calls
Electron dispatches to the handler without `emit`, so in `Screens` the signal
alone (`ipcMain.on`) restarts the timer.

All other specifications are safety only.

Where a model stops because a bound is used up, its cfg turns the deadlock check
off (`DappApprovals`, `PhantomBridge`, `Relay`, `Account`, `MCModules`,
`Screens`); the others are checked for deadlock.

### What the violations show

* `ApprovedByUser`: PhantomBridge keeps one slot; a request that arrives between
  the modal and the answer to it takes the answer. `EachGrantTakesAYes`, which
  holds, says how many requests a yes can let through.
* `ShownIsSigned`: the Send form shows the inputs as they are when
  bundler:prepare has answered, not the summary of the main process, and they
  can be edited until then. `PaymentIsKept`, which holds, says what is signed.
* `CalldataIsSent`: bundler:prepare simulates and stores the calldata, and
  bundler:confirm signs destination and value alone, against SECURITY.md:39.
* `SentWithinLimit`: the limit is compared before the await and enforced when
  the spend is recorded; what two handlers send meanwhile passes it together,
  against SECURITY.md:38. `SpentWithinCap`, which holds, is about what is
  recorded.
* `AnswersAreOwn`: the answer to the request of one tab goes to another tab that
  has a request of the same number. `AnswersMatch`, which holds, is about one
  page.
* `TimelockFromThreshold`: guardians who confirm late execute at once, against
  `SocialRecoveryModule.sol:21` and `:31`; `:170` describes what the code does.
* `VaultIsPermanent`: uninstalling the duress module takes the vault and its
  lock with it, after which another one may be configured, against INV-15
  (`DuressModule.sol:39`, `:134-137`).
* `FulfillmentVerified`: a token output is settled, and the escrow released,
  with nothing delivered, against `IntentModule.sol:24`.
* `LateBondIsSlashed`: nobody slashed the claim in time, so its solver settles
  after the fill time and has the bond back, against `IntentModule.sol:220-221`.
* `EscrowsAreBacked`: a recipient who is the solver settles the intent within
  its settlement; the bond is returned twice, and the escrow of another intent
  is no longer there to be returned (`IntentModule.sol:25`). `Backed`, which
  holds, says that this is the only way.

## 4. The proofs

Every theorem is for all values of the constants, under the named assumption of
the module alone: bounds and times are numbers, amounts are numbers, lists are
lists of the right things, and special values are not ordinary ones. No set is
assumed to be finite where the argument does not count its elements. `Intents`
assumes that the ids in use are finitely many and that the shares of the
recipients make up the whole, which `createIntent` checks
(`IntentModule.sol:165-170`).

The theorems state every property of the passing runs but `EveryRequestSettles`
and `AutoLocks`, and some more.

| Module | Theorem | States |
|---|---|---|
| `FreshAuth_proofs` | `TypeCorrect`, `Pacing`, `FreshGrants`, `SingleUseNonces` | `TypeOK`, `GuessesArePaced`, `GrantFollowsProof`, `NonceIsSingleUse` |
| | `FixedCooldown` | nothing but the clock and a restart ends a cooldown |
| | `GateImplemented` | `ImplementsGate` |
| `EncryptedLedger_proofs` | `TypeCorrect`, `AnswersAreTrue`, `ActiveIsListed`, `SpendingIsCapped`, `SenderStays` | `TypeOK`, `AckedIsOnDisk`, `ActiveDenotesWallet`, `SpentWithinCap`, `SenderIsKept` |
| | `RoundingIsBounded` | the total drifts by at most half a unit a record |
| `Sends_proofs` | `TypeCorrect`, `OncePerPrepare`, `PaymentKept`, `ConfirmationInTime` | `TypeOK`, `PreparedOnce`, `PaymentIsKept`, `ConfirmedInTime` |
| | `HandlersKeepGate` | the handlers implement `FreshGate`, as `FreshAuth` does |
| | `LonePagesAreAnswered`, `GrantsTakeYeses` | `AnswersMatch`, `EachGrantTakesAYes` of `Relay` |
| | `RelayKeepsBridge` | the composition implements `PhantomBridge` |
| | `YesesApproveOnce` | of `PhantomBridge`: no more is approved than the user said yes to |
| `Renderer_proofs` | `TypeCorrect`, `OpenIsTimed`, `LockReachesScreen` | `TypeOK`, `UnlockedIsTimed`, `LockIsShown` |
| | `FormTypeCorrect`, `SendsOncePerClick` | `FormTypeOK`, `OneSendPerClick` of `SendForm` |
| `DappApprovals_proofs` | `TypeCorrect`, `PermissionsHaveConsent` | `TypeOK`, `PermissionHasConsent` |
| | `ApprovalImplemented` | `ImplementsApproval` |
| `Contracts_proofs` | `TypeCorrect`, `HooksStay`, `SessionsEnd`, `PeriodsAreLimited` | `TypeOK`, `HooksLeaveByOwner`, `SessionsEndWithModule`, `SpentWithinPeriod` |
| | `IntentsTypeCorrect`, `EscrowLeavesOnce`, `SettlesAsAgreed`, `AlwaysBacked` | `IntentsTypeOK`, `EscrowPaidOnce`, `SettledAsAgreed`, `Backed` of `Intents` |
| `SocialRecovery_proofs` | `TypeCorrect`, `CountedVotes`, `Timelocked`, `SingleExecution` | `RecoveryTypeOK`, `VotesAreCounted`, `RecoveryIsTimelocked`, `ExecutedOnce` |
| | `FlagsDenoteVotes` | unless guardians change, the flags are the votes |

None of the properties is inductive by itself. Each module strengthens them to
an invariant with an initial fact, one lemma per action or group of actions, and
a temporal step. The strengthenings:

* `FreshAuth`: `PaceInv` links the failure count the code keeps with the history
  the property reads, and says that the last lockout ends no later than
  `lockedUntil`; `WindowInv` says that a current token expires one window after
  the last proof; `NonceInv` that ids in the registry are distinct, none exceeds
  the counter and an unused one was not consumed; `CountInv` makes the guard of
  the gate's `Pass` follow from that of `_issueNonce`. `GateImplemented` maps a
  grant to `Pass`, a successful authentication to `Prove`, a revocation to
  `Forget`, and every other step to a stutter.
* `EncryptedLedger`: `Sound` says of one copy of the data what the properties
  say of all; `LedgerInv` says it of memory and file, and that an open ledger is
  what the file holds unless a write has failed (`InStep`). Every operation goes
  through `Save`, so that the lemma about it leaves one fact to each operation:
  it maps sound data to sound data.
* `Signing`: a send under way may be signed at any time, so `TakenInv` and
  `OnceInv` are about `Started`, signed or not: its prepareId has left the store
  and the simulations for good, and the send carries wallet, destination and
  amount of what was prepared. `StoreInv` says that what is still simulated is
  not yet stored.
* `Relay`: `MadeInv` says that all that is in transit or in a table is a request
  that some page made. `LoneInv` is about one page with one extension: the id of
  a request is its number, so that a table entry and an answer can only be of
  the request they name. For the grants, `ShownOnceInv` says that the modal
  shows a request once, so that a yes is said to each at most once; `YesInv`
  that the approved requests and the yeses on their way together are no more
  than the consents; `GrantInv` that a transaction that went on has an approved
  ticket, which is then one of those counted.
* `SendForm`: `ClicksInv` says where the id of a click can be: with the prepare
  that is pending, in the store, or in one transaction that was sent, and in one
  place only. `CallsInv` says what calls can be pending.
* `Screens`: `ShownInv` says that behind every answer that will show the wallet
  there is the news of the lock, in a channel that keeps the order; `TimedInv`
  that what is due is open, with its timer or the signal on its way.
* `DappApprovals`: `ShownOnce` says that what is on its way to the modal was not
  answered and is not shown; `MessageInv` that a yes on its way is the user's,
  with its revocation behind it if there was one.
* `Account`: `Good` holds of `acc` and of `saved`, what a revert goes back to;
  while an operation runs, `acc` has all hooks of `saved`. That a hook cannot be
  uninstalled rests on the lists having no duplicates: a shorter list then lacks
  a hook, and none is added. For `SpentWithinPeriod`, `Metered` says what a
  counter means: it is what left since its period began, nothing left after the
  period, what left before it in any span that reaches up to it is within the
  limit, and what left in any earlier span is within twice the limit. The last
  is the best that holds: a span may take the end of one period and the start of
  the next.
* `SocialRecovery`: `RequestInv` says that the voters of an active recovery are
  as many as its confirmations and all marked, and that one of them voted at
  `initiatedAt`; `ConfigInv`, `HistoryInv` and `VoterInv` carry the rest.
* `Intents`: `EscrowOf` says that an intent holds what was offered or has paid
  it out; `OverOf` whom an intent that is over has paid; `SettlingInv` that what
  is being settled (`Underway`) exists and is not past its deadline, as time
  stands still during a transaction, whatever its recipients call. `AgreedOf`
  says that the recipients of ETH have it from the moment they were called,
  which needs the shares to make up the whole. `Covered` is `Backed` over what
  the module owes for each intent (`Due`: the escrow until it is paid, the bond
  while the intent is filled): each operation changes the sum in one place, and
  a bond returned by a settlement that finds the intent settled adds to
  `paidAgain`.
* `Sums`: the library's sum is a fold, a recursive function on the subsets of a
  set. That it exists, that there is one only and that order does not matter are
  inductions on finite sets. A library theorem with an operator as parameter
  cannot be used; instead each proof looks at a smallest exception, which there
  is because strict inclusion of finite sets is well founded.

Two theorems are about how the modules are put together. `HandlersKeepGate`
says that `Signing` uses the gate as `FreshGate` allows, which is what `FreshAuth`
implements; only `CreateVault` needs the invariant, as creating over an open
ledger leaves it open. `RelayKeepsBridge` says that every step of the composition
is one of `PhantomBridge` or leaves it alone, so that `YesesApproveOnce`, which
is proved for any client of the bridge, holds behind the extension too.

Only model-checked: `EveryRequestSettles` and `AutoLocks`, which rest on fairness
and are beyond the prover. What section 3 calls violated does not hold.

## 5. What the models leave out

* Cryptography: a password opens what it sealed and nothing else; random ids
  are fresh. The clock does not run backwards.
* A restart of the program resets failures and cooldown; the pacing properties
  end there, as the code's do.
* Rate limits of handlers: any call may come at any time, and the properties do
  not rest on a limit. FreshAuth's audit buffer: no decision reads it.
* The network a transaction is sent on; fees and nonces. Amounts below zero or
  that are no numbers, which ledger:recordSpend would take.
* Quotes of swaps and the scan of approvals, prices, balances and histories:
  answers from the network. `Batch.jsx` (a loop over prepare and confirm that
  reads rows still editable, and starts from the first row when it is repeated).
* The origin of a page while it navigates (`dapp-browser.js` reads `currentUrl`,
  which is set before the page has loaded), and the request table of
  `dapp-preload.js`.
* Limits on clients and messages of the PhantomBridge socket; events the wallet
  pushes to pages.
* Upgrades of the account and ETH it receives; ERC-20 balances; gas.
* The parts with status `not_modelled` in `PROJECT.json`, with their reasons.

## 6. Plan

1. FreshGate, FreshAuth, EncryptedLedger, Signing, DappApprovals with Approval,
   PhantomBridge, SocialRecovery. Done, with their theorems.
2. Screens, SendForm, Relay, Account and Intents; strict mode and the other
   sends in Signing; the collections of the ledger. Done, with their theorems.
3. `Paymaster`: bundles of two operations of one user, solvency (INV-8) and the
   limits of users. A limit is checked when an operation is validated and
   counted after it has run, so that two operations of one bundle may pass it.
4. `Batch` on the handlers of SendForm; navigation and `dapp-preload.js` in
   front of DappApprovals.
5. An abstract specification of `PhantomBridge` that allows for its one slot,
   and the theorem that it implements it; theorems for what items 3 and 4 add.

## 7. Running

    tlc -workers 2 -config MCSigning.cfg MCSigning
    tlc -workers 2 -config MCSendFormShown.cfg MCSendForm
    tlapm Sends_proofs.tla

and likewise for the other `MC...` and `..._proofs` modules; `PROJECT.json` lists
which module goes with which cfg.
