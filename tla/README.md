# nomadserver.io in TLA+

TLA+ modules of the Nomad server (`server/src`, Rust) and of its Android wallet
(`wallet/android`, Kotlin), TLC instances that check them, and TLAPS proofs of what
matters most for every value of the constants. Paths below are relative to the
repository; every definition that models code is tied to its lines in `PROJECT.json`
(`map`).

Commands: `tlc -config MCPairing.cfg MCPairing` checks an instance, `tlapm
Pairing_proofs.tla` a proof. Every run listed below ends in under 90 seconds on two cores.

## 1. Inventory

A wallet and a server talk only through Nostr relays, in gift-wrapped requests and
responses. The owner uses a web UI on the LAN to show the pairing QR and to revoke
wallets. The server asks an Electrs backend on behalf of paired wallets and watches their
addresses.

| Component | State | Operations | Talks to |
|---|---|---|---|
| Pairing secret, `pairing.rs` | the one live secret, its expiry, attempts, used flag (memory only) | `payload_at` (show), `verify_at` | called by the loop and, on other threads, by the web UI |
| Rate limiter, `ratelimit.rs` | a token bucket per sender (memory only) | `allow` | called by the loop |
| Replay cache, `replay.rs` | id -> time handled, in memory and in a best-effort file | `check_and_insert`, `load` | called by the loop |
| Allowlist and watch sets, `store.rs` | two maps, each with one JSON file written through a rename | `add`, `remove`, `is_paired`; `replace`, `remove_wallet`, `snapshot` | loop, web UI, watcher |
| Transport loop, `transport.rs`, `protocol.rs` | the request in hand | `handle_event`, `route`, `dispatch`, `handle_pair`, `handle_unpair`, `send_response` | relays; all of the above |
| Web UI, `http.rs` | none | `current_payload`, `revoke_wallet`, `health_electrs` | pairing, allowlist, gate |
| Electrs gate, `electrs.rs` | a permit, `last_call`, `cooldown_until` | `call` (every question), `preflight` | loop, watcher, web UI |
| Query handlers, `handlers.rs` | none | balance, utxos, history, transactions, fees, broadcast, `watch_addresses` | gate, watch sets |
| Watcher, `watcher.rs` | per wallet, tx -> height last seen, in memory and in a file | `tick`, `tick_wallet`, `persist`, `notify` | stores, gate, relays |
| Start, `main.rs`, `identity.rs`, `config.rs` | the key file | load everything, spawn the tasks | all |
| Wallet app, `WalletRepository.kt`, `NomadClient.kt`, `MainViewModel.kt`, `WatchStore.kt` | stored server and targets, the screen, a client | pair, unpair, targets, sync, request with retries | relays |
| Wallet screens, derivation, camera, identity | the key | layout, base58, descriptors, QR | the app |

What is hard in it, and what makes each part right:

- **Pairing**: two threads with two clock readings. A secret pairs one wallet once, its
  attempts are never refilled, and no QR outlives what is printed on it.
- **Rate limiter**: a wall clock that can be set back. No window admits more than a burst
  plus the rate.
- **Replay cache**: relays repeat and reorder requests, the process dies. A request runs
  once in a retention period.
- **Stores**: memory changes before the write, the write may fail, other wallets' writes
  follow. What was acknowledged stays so.
- **Loop and web UI**: a request asks `is_paired`, and the UI may revoke between that and
  what follows. Only proven wallets ever get in; every request is answered.
- **Electrs gate**: timeouts, dropped futures, calls nobody can stop, a breaker that opens
  behind callers that have passed it. Calls keep their distance, a hung backend is spared all
  but those callers, and every caller gets an answer.
- **Query handlers**: one answer is put together from several questions, and the chain moves
  between them; a list may name an address twice. An answer invents nothing, overlooks nothing
  that stayed, and counts each address as often as the list gives it.
- **Watcher**: the chain, the stores and failures move under a long sequence of awaits.
  It drops no news silently, tells no wallet what was not so or not its own, tells nothing
  twice, announces no history at its first look at a wallet, and catches up.
- **Wallet app**: coroutines overlap, time out and lose answers; Android kills the
  process. It trusts only servers that accepted it and shows what is stored.

`PROJECT.json` lists 40 hazards with their lines and the properties that cover them; section 8 names one more
(`identity.rs:49`).

## 2. Modules

| Module | Models | Notes |
|---|---|---|
| `OneTimeGrant` | abstract: a secret grants at most one wallet | what the pairing manager promises |
| `Pairing` | `pairing.rs` | actions `PayloadAt`, `VerifyAt` (accept, reject, refuse), `Forget` |
| `RateLimiter`, `RateLimiterWindow` | `ratelimit.rs`; the observer of a window over it | `Allow` |
| `ReplayCache` | `replay.rs` | `Insert`, `Duplicate`, `ReloadCache` |
| `Stores` | `store.rs` | `Add`, `Remove`, `Replace`, `RemoveWallet`, each with `written` |
| `NomadServer` | `transport.rs`, `protocol.rs`, `http.rs`, `main.rs` over the four above | the composition |
| `WalletServer` | abstract: the contract between a server and its wallets | `Carry`, `Drop`, `Reload`; `NomadServer` keeps it, `Wallet` relies on it |
| `Electrs` | `electrs.rs` | the gate and its callers |
| `Queries` | `handlers.rs`: all requests that only read | one request beside a moving chain |
| `Watcher` | `watcher.rs` over `Stores` and a moving chain | the tick |
| `Wallet` | the Kotlin app beside servers that are instances of `WalletServer` | coroutines and requests |
| `MC*` | instances for TLC | model values, symmetry, view |
| `*_proofs` | theorems | section 5 |

How state and actions correspond to the code:

- `Pairing`: `state` is `Mutex<Option<SecretState>>`; each operation holds the mutex, so
  each is one action. A secret is the number of its draw, a proof is the pair (secret it
  was made from, key it was made for): the HMAC is abstracted to "matches iff both are
  right". The time of each call is an input of its own, so readings need not be in order.
- `NomadServer`: `pc` names the stretch between two lock acquisitions of `handle_event`:
  `is_paired`, `verify`, `add`, `remove`, `clear_watch`, `replace`, `backend`, `respond`.
  `ShowPairing`, `Revoke`, `Tick`, `Publish` and `CrashAndRestart` may come between any two.
  `at` is the time `route` read, which `verify` uses later. `net` never shrinks: relays
  may deliver any request again, in any order.
- A file is its last written contents. The write and rename of a whole file is atomic and
  may fail, then `written = FALSE`, memory keeps the change and the error is answered or
  logged as in the code. A crash is the death of the process between two actions, not a
  loss of power.
- `Electrs`: a caller looks at the breaker (`Pass`, `FastFail`) and then takes its place in `line`
  (`Enqueue`), two steps because tasks run on several threads; the head holds the permit, `phase`
  says where in `call` it is. Instants are kept as the time left (`gap`, `cooldown`, `timer`), so `Tick`
  needs no bound. A blocking thread is never stopped: after a timeout or a dropped future
  the call is counted in `abandoned` until it ends. `owed` remembers who had passed the breaker
  when it opened.
- `Queries`: `notes` holds what the handler was told, question by question; `ToAsk` is its next
  question or batch (`QuestionsFor` the list of a batch), `Read` asks one, `Finish` computes
  the answer from the notes alone. A request gives lists, in which an address or a transaction may
  stand twice; a batch has one question for each place of the list (`EachOf`), as the code
  has one entry for each, so a repeated address is asked, listed and summed twice. `chain` is the height of each transaction and the block at
  each height; it grows and reorganises between any two questions and between two entries of
  one batch. `lived` remembers the chains of the request.
- `Watcher`: `step` is the position in `tick`; one question, comparison with its save, and
  notice is one action each. Reported heights include -1. The publishing of a notice and
  the write of the state may fail. `shown` and `member` remember what the chain showed while a
  visit read it and whether its wallet was paired; `old` is what the chain held for new addresses
  when they were registered, `extended` the wallets whose set had been looked at before that. The
  loop asks `is_paired` before it replaces a watch set, and the web UI may revoke in between:
  `asking` is the wallet to which that happened, whose set is stored all the same.
- `Wallet`: a member of `tasks` is a coroutine on the main thread, which gives way only
  where it suspends: connecting, publishing (`send` until `giftWrap` returns, `sent`), and
  collecting (`await`). `wire` holds what is on the relays; a server obeys an id once or
  refuses it.
- `WalletServer` joins the two sides. In `NomadServer` its keys are the wallets of one server and
  its variables are expressions over the server's state (`Granted`, `Asked`, `Promises`, `Unsure`,
  `Vague`): each step of loop, UI or crash is shown to be a `Carry`, `Drop`, `Reload` or
  none of them. In `Wallet` its keys are the servers of one wallet, and what a server does with a
  request (`Obeys`), a revocation and a server restart are the contract's own actions under the
  guards of the handlers; its promises are the answers "ok" on the relays. So what `Wallet` shows
  rests on nothing that `NomadServer` was not shown to keep.

## 3. Runs

| Run | Instance | Shows |
|---|---|---|
| `pairing` | 2 wallets, 2 secrets living 2 of 5 seconds, 2 attempts | `SingleUse`, `BurnedNeverGrants`, `GrantWithinShownExpiry`, and that `Pairing` implements `OneTimeGrant` |
| `rate_limiter` | 2 senders, burst 3, rate 1, clock 0..4 set back at will, one restart | `WindowBound` over windows opened at any moment |
| `server` | 2 wallets, 2 secrets, 3 requests, 2 failing writes, 1 restart, clock still | `OnlyProvenWallets`, `StatusDurable`, `WatchSetDurable`, `UnpairedIsForgotten` |
| `server_live` | 1 wallet, 2 requests of all six types, burst 1, retention 1, clock 0..1, 1 failure, 1 restart | `EveryRequestAnswered`, `AtMostOnce`, `PairingComponent`, and that the server implements `WalletServer` (`KeepsContract`) |
| `electrs` | loop, watcher and one probe, up to 4 calls waiting or abandoned | `TwoPerSpacing`, `BreakerDrains`, `EveryCallReturns` |
| `queries` | 2 addresses, 2 transactions with 3 outputs, lists with and without repeats, a chain of up to 3 blocks that moves twice, limits that cut | `NothingInvented`, `AnchorsHold`, `NothingOverlooked`, `ExactAtRest` |
| `watcher` | 1 wallet, 2 addresses, a transaction on both and one on the second, 2 changes, 4 edits, 1 failure, 1 restart | `NothingUntold`, `NewsIsTrue`, `ToldOnce`, `FirstLookIsSilent`, `CatchesUp` |
| `wallet` | 2 servers, 2 addresses, 3 taps, 2 attempts, 1 failing connect, publish or server write, 1 kill, revocation or server restart | `TrustsOnlyGranted`, `ScreenMatchesStore`, `SnapshotIsWatched`, `ScreenComesBack` |
| `revoke` | 1 wallet, no fault | violated: `NoWatchSetOfUnpaired` |
| `late_replay` | 1 wallet, no fault, retention 1 | violated: `ReplayHarmless` |
| `old_news` | 1 wallet, no fault | violated: `NoOldNews` |
| `lost_answer` | 1 server, 1 tap, no fault | violated: `AnswersAreHeard` |

Why these bounds. *Pairing*: a second secret is drawn after use, expiry, burning and
restart of the first, which is all a third could be. *Rate limiter*: a burst of 3 over 4
seconds leaves room for partial refills and the cap. *Server*: with two wallets one's write
can fail and the other's follow; three requests are pair + pair + anything, or pair +
watch + unpair; two failures reach "the file lags, then a second one". *Server, live*: two
requests are enough for one to be delivered again around the other, and each clock
reading passes a boundary (retention, expiry, refill are all one tick). *Electrs*: with
three callers one waits behind a waiter, and spacing, timeout and cooldown differ from
each other. *Watcher*: each transaction can appear and confirm, or reorganise and return;
four edits are pair, register, revoke and pair again, so the state with a re-paired
wallet that owns a watch set again is in the run, as is an extension, a reduction and a second registration;
a wallet offers no address, the first, or both (`Offered`), which gives sets that grow, shrink
and empty. Visits of two wallets share nothing but the chain and the failures, and what one
wallet may be told of another's addresses (`NewsIsTrue`) is proved for any number of them;
`CatchesUp`, which is not proved, is checked for one. *Queries*: the lists are empty, one address, it
twice, both, and one too long; two moves of the chain
are a block and a reorganisation, or a mempool change and a block, each between any two
questions; the second transaction spends an output of the first, so outputs appear and
disappear, and the limit of one cuts. *Wallet*: three taps are pair,
add a target, and any third while both earlier coroutines are still running.

Reductions. In `server`, which checks invariants and no temporal property, wallets are symmetric
(`WalletSymmetry`: no definition tells them apart); `PublishJustInTime` puts off a publication until
the loop is idle and has received what was published before, because before receipt a request
influences nothing and its proof may be made of any secret shown so far, of which there are only
more later; `ServerView` hides the responses and the ids without one, which no guard reads. In
`wallet`, `OneOfAlike` fixes which server the first coroutine talks to and which address is the first
to be named: in the states before, servers (addresses) are alike, so a behaviour that starts with
another becomes one of these by renaming. It holds for the temporal property too: it cuts only
choices of the user, of whom no fairness is assumed, and the property names no server and no address.

Deadlock is checked everywhere but in `wallet` and `lost_answer`, where the user may stop, and in
`queries`, where the handler returns.

Every property of a passing run has a mutant in `PROJECT.json`: a definition changed the
way a plausible bug would change it (`...KeepsSecret`, `...InMemory`, `...Silently`), under
which TLC finds the property violated.

## 4. Fairness

- `NomadServer!FairSpec`: the loop's own steps are weakly fair, since nothing but a crash stops
  the task once it holds a request (calls to the backend end: `EveryCallReturns`). Receiving a
  request that was neither answered nor lost is strongly fair: relays keep wraps and deliver
  them again when the server reconnects, and the loop is idle again and again.
- `Electrs!FairSpec`: the runtime polls the holder of the permit and each caller on its way from
  the breaker to the line, and time passes. Nothing is assumed of the backend, which may hang for good, nor of browsers.
- `Watcher!FairSpec`: the watcher's loop goes on. Failures and chain changes are bounded by the
  instance and need no fairness; without a bound a question could fail at every tick.
- `Wallet!FairSpec`: some coroutine that can go on does, `giftWrap` returns, timeouts fire.
  Neither relays nor servers nor the user need do anything.

## 5. Proofs

For every value of the constants that meets the named assumptions (`PairingAssumption`,
`RateAssumption`, `ServerAssumption`, `NoneAssumption`, `ElectrsAssumption`, `QueriesAssumption`,
`WatcherAssumption`, `WalletAssumption`: bounds are naturals, lifetimes and limits positive,
`None` is no other value).

- **`Pairing_proofs`**: `TypeOK`, `SingleUse`, `BurnedNeverGrants`, `GrantWithinShownExpiry`, and
  the refinement of `OneTimeGrant`. `SingleUse` is not inductive: one must know that a live
  secret, unless used, is in no grant, that rejections count the attempts of the live
  secret, and that every QR shown with the live secret carries its expiry. `PairingInv`
  states just that, besides that past secrets are never drawn again.
- **`RateLimiter_proofs`, `RateLimiterWindow_proofs`**: one request takes a token it has,
  and lowers "tokens the bucket would hold"; hence admitted requests plus the level a bucket
  can reach never exceed a burst per restart plus the refill of the window, which is
  `WindowBound`, even when the clock is set back.
- **`NomadServer_proofs`**: `ServerInv` has four parts. Pairing: every step of the server is a
  step or a stutter of `Pairing` (`ServerImplementsPairing`), so `PairingInv` and with it
  `SingleUse`, `BurnedNeverGrants` and `GrantWithinShownExpiry` hold of the running server, which also
  refines `OneTimeGrant` (`ServerImplementsOneTimeGrant`). `LoopInv`: what the loop still knows of the sender after the UI acted (a
  wallet at `add` or `replace` was granted; one at `clear_watch` is off the allowlist). `StoreInv`:
  the four store properties and that the watch file equals the map unless a write of it
  failed. `ReplayInv`: an id handled within the retention period is in the cache and its
  file unless a write failed; `AtMostOnce` follows. `ServerKeepsContract` is the refinement of
  `WalletServer`; on top of `ServerInv` it needs `ContractInv`: ids are unique, the loop is at a step
  that fits the type of its request, and a watch set in memory or on disk was once asked for.
- **`Electrs_proofs`**: `TypeOK`, `TwoPerSpacing`, `BreakerDrains`. `last_call` is set before the wait, so
  what `gap` vouches for depends on the phase: while waiting, the latest launch; otherwise
  only the one before it. `SpacingInv` says this. `DrainInv`: no caller is at the gate twice, and
  behind an open breaker each one at the gate that has not called yet is owed a call; both
  survive callers that leave the line from its middle.
- **`Queries_proofs`**: all five invariants of `Queries`. `QueriesInv`: each note is true of some
  chain the request lived through, and no chain after a noted tip is shorter than it; so a
  confirmation counted from an older tip is never too deep. `SourceInv`: every question that was to
  be asked was, and each note is all that one of these chains had to say, so what was on all of them
  is in the notes (`NothingOverlooked`), and when there was only one they are what it says
  (`ExactAtRest`). As every question was of the address at one place of the list, an output, an entry of a
  history and each part of a balance is that address's in one of these chains; the parts, one for each
  place, add up to the answer (`SumEach`, `BalanceReal`), which is `NothingInvented`. An entry of a history has a rank, the number of entries before it; the ranks are a
  bijection onto the numbers below the size of the history, so one that was cut keeps exactly as
  many entries as the limit and none lower than one it lost (`TruncatedFills`). For
  balances the sum over notes is the sum over the copies of outputs, one disjoint set for each place of
  the list (`SumParts`), and without repeats copies are outputs (`BalanceOfDistinct`);
  sums over finite sets are the fold of the community modules, whose laws are proved here from its
  definition. Induction is taken from well-founded minima of a set of sets (`SubsetInduction`,
  `NaturalInduction`), which needs no theorem with an operator parameter; it is why
  `QueriesAssumption` asks for finitely many outputs.
- **`Watcher_proofs`**: `TypeOK`, `NothingUntold`, `NewsIsTrue`, `ToldOnce`, `FirstLookIsSilent`.
  `NothingUntold` needs the same statement of
  the file, which a restart makes the state, and `DiffCovers`: whatever `diff` passes over was
  known. `NewsIsTrue` rests on `TruthInv`: a visit still reading has been shown what the chain
  shows now, and all it has read was shown and is of an address of its wallet. `ToldOnce` rests on `RepeatInv`: while a sent notice counts as a repeat, its transaction
  does not move and its wallet's set does not change, so every whole visit reads the same of
  it (`Steady`), and what is known is either the notice or what the next visit will read
  (`Quiet`); `diff` is then silent (`DiffSilent`), whatever fails or restarts in between.
  `FirstLookIsSilent` rests on `SilentInv`: of a transaction that was there when its wallet registered,
  a visit reads the same each time (`SteadyRead`), and the watcher either has no state of the wallet,
  against which nothing is news, or a state that holds the transaction as it is read.
- **`Wallet_proofs`**: `TypeOK`, `TrustsOnlyGranted`, `ScreenMatchesStore`, `SnapshotIsWatched`. An answer
  is matched by id and type alone, so the invariant says that whatever is on the relays under a
  coroutine's id names its server and its addresses (`Match`), that an answer "ok" comes from a
  server that granted and, for a watch request, took over these addresses (`GoodWrap`), and that
  a coroutine past its watch request has them taken over (`GoodTask`). Of the servers only the
  contract is used (`ContractStep`), and they are an instance of it (`WalletMeetsContract`): nobody
  but a server that carried a request out puts an "ok" on the relays.

Every invariant and every action property of every passing run is thus a theorem, and so are the
three refinements (`OneTimeGrant`, `Pairing` in the server, `WalletServer` on both sides). Only
model-checked: liveness (`EveryRequestAnswered`, `EveryCallReturns`, `CatchesUp`, `ScreenComesBack`),
because the prover knows no `ENABLED`.

## 6. Where code and documents disagree

Four disagreements have a run:

1. `revoke`: `revoke_wallet` (`http.rs:122-137`) leaves the wallet's watch set in memory and on
   disk; `docs/PROTOCOL.md:232-234` has unpairing delete it.
2. `late_replay`: a stored wrap delivered after the retention is obeyed again
   (`replay.rs:45`); `watch_addresses` then restores an old set and `unpair` unpairs, while
   `replay.rs:8-9` and `docs/PROTOCOL.md:132-136` call that harmless.
3. `old_news`: adding an address to an observed wallet announces all its history
   (`watcher.rs:186`); `watcher.rs:12-13` says it does not. Of a wallet not yet observed it is true
   (`FirstLookIsSilent`).
4. `lost_answer`: `NomadClient.request` collects only after `giftWrap` returned
   (`NomadClient.kt:117-118`); an answer that came before is lost and the resent request is
   dropped by the server as a replay. `NomadClient.kt:35-39` promises the opposite.

Seen while reading and not checked by a run:

- after a timeout the next call runs beside the timed-out one (`electrs.rs:99`), while
  `electrs.rs:4` says at most one in flight, and two calls may start closer than the 100 ms of
  `electrs.rs:5`; `TwoPerSpacing` is what does hold. Callers already in line when the breaker
  opens do not fail fast (`electrs.rs:6-7`), but they are all that reach Electrs until it has cooled
  down (`BreakerDrains`);
- a wallet that removed its last target re-asserts nothing (`WalletRepository.kt:139`,
  `docs/PROTOCOL.md:300-302`);
- notifications are collected only in a process that started paired (`MainViewModel.kt:39`),
  and the client of a failed pairing stays on the old relays (`WalletRepository.kt:63`,
  `docs/PROTOCOL.md` 4.2);
- of a double-tapped unpair the second coroutine may end after the user paired again, and
  forgets the new pairing, or unpairs it if its wrap comes late (`MainViewModel.kt:66-72`);
- the pairing secret is shown again rather than drawn on each page load
  (`docs/PROTOCOL.md:201`);
- history sorts the mempool last (`handlers.rs:225-226`);
- the rate limit is taken before the allowlist is asked (`transport.rs:144`, `159`), so strangers do
  have buckets and may be answered `rate_limited`; `ratelimit.rs:2-3` says they "never get past
  the allowlist check", and `docs/THREAT_MODEL.md:91-96` has per-sender buckets for paired keys;
- an already paired key is refused before its proof is looked at (`transport.rs:171`), which
  `docs/PROTOCOL.md:216-219` puts last; and the secret is burned and the wallet stored in two steps
  (`transport.rs:181-188`), not "atomically": a failed write leaves a burned secret and an error
  (hazard at `transport.rs:188`);
- `get_transactions` answers only id and bytes (`handlers.rs:300-303`), without the height, block hash and
  block time of `docs/PROTOCOL.md:269-273`;
- an address given twice counts twice in a balance and is listed twice in the outputs
  (`handlers.rs:52-60`, `138-142`); `docs/PROTOCOL.md:248-251` says only "summed", and the request schema
  allows repeats.

## 7. Abstractions, and what is not modelled

- Wraps that cannot be opened, of another kind, too large or unreadable are dropped before
  any state is touched, and are left out. So is an envelope whose id is no UUID: it is answered
  under the nil UUID (`protocol.rs:116-121`), which nobody waits for. One of another protocol version is
  answered under its own id (`RejectMalformed`). Request ids never collide.
- Read-only queries are one action with any answer in `NomadServer` (`QueryBackend`); what they ask
  and compute is in `Queries`. There the backend's tip never falls, batches are answered entry by
  entry, fee rates are whole numbers, and input that does not parse is refused like too much of
  it, with the codes the handler has for that (`Refusals`).
- The server's clock in `NomadServer` moves forward; in `Pairing` and `RateLimiter` readings go
  both ways. Token counts are whole, since rates and clock readings are.
- Poisoned locks, panics, full disks other than as failing writes, and fsync are left out.
- In `Watcher`, writes of the stores (not of the watcher's own state) always succeed: their
  failures are in `NomadServer`.
- In `Wallet`, a server obeys an id once: late replays are `NomadServer`'s (`late_replay`). An id is a fresh
  UUID in a wrap only its server can open, so nobody else can answer under it, and the sender check of
  `NomadClient.kt:128` has nothing left to refuse. The store is durable at once, while
  `SharedPreferences.apply()` (`WatchStore.kt:38-42`) writes later: a kill right after a change may undo it. A payload that `parsePayload` refuses and a target that does not parse change
  nothing and are left out; the notification counter and error texts are left out.
- Not modelled: key file and configuration (read once at start; the creation of the key file is
  one create and one write), HTML, schemas and documents, the Python mock backend and the two
  example clients, screens, camera and descriptor derivation. None of them keeps state that
  another step reads.

## 8. What could follow

1. Notices in `Wallet`: the watcher's messages to an app that collects them only when it started
   paired, with the counter on its screen.
2. The start of the server: what relays send between the subscription and the notification
   stream (`transport.rs:90-97`), which needs a statement of what relays promise; and a key file
   cut short by a crash (`identity.rs:49-55`).
