----------------------------- MODULE NomadServer -----------------------------
(***************************************************************************)
(* The server: the transport loop (server/src/transport.rs) over the       *)
(* replay cache, the rate limiter, the pairing manager and the stores,     *)
(* interleaved with the LAN web UI (http.rs), failing file writes, crashes *)
(* with restart (main.rs) and a network of relays.                         *)
(*                                                                         *)
(* The loop handles one gift wrap at a time; the web UI runs on other      *)
(* threads, so it can act between any two lock acquisitions of the loop.   *)
(* Each such stretch of the loop is one action, and pc names the next one. *)
(*                                                                         *)
(* Relays keep every request ever published and may deliver any of them,   *)
(* in any order, any number of times: net never shrinks.                   *)
(***************************************************************************)
EXTENDS Integers, FiniteSets

CONSTANTS
    Wallets,            \* wallet identities
    Addresses,          \* addresses a wallet may watch
    MaxWatchAddresses,  \* MAX_WATCH_ADDRESSES
    RequestTypes,       \* the request types published (a part of AllTypes)
    SecretTTL, MaxAttempts,     \* see Pairing
    Retention,                  \* see ReplayCache
    Burst, TokensPerSec,        \* see RateLimiter
    MaxRequests,        \* bound: envelope ids are 1..MaxRequests
    MaxSecrets,         \* bound on the pairing secrets drawn
    MaxTime,            \* bound on the clock
    MaxFaults,          \* bound on failing file writes and publishes
    MaxCrashes,         \* bound on restarts
    None                \* no value

\* "read" stands for ping, the get_* queries and broadcast_tx, which change
\* nothing in the server; "unknown" for a type not in KNOWN_TYPES;
\* "malformed" for an envelope of another protocol version.  What has no id of
\* its own is no request: parse_request drops it, or answers a bad id under the
\* nil UUID, which no wallet waits for, and neither changes the server.
AllTypes == {"pair", "unpair", "watch", "read", "unknown", "malformed"}

Ids == 1..MaxRequests

ASSUME ServerAssumption ==
    /\ RequestTypes \subseteq AllTypes
    /\ MaxWatchAddresses \in Nat
    /\ SecretTTL \in Nat \ {0} /\ MaxAttempts \in Nat \ {0}
    /\ Retention \in Nat \ {0}
    /\ Burst \in Nat \ {0} /\ TokensPerSec \in Nat
    /\ MaxRequests \in Nat /\ MaxSecrets \in Nat /\ MaxTime \in Nat
    /\ MaxFaults \in Nat /\ MaxCrashes \in Nat

VARIABLES
    now,                                    \* the wall clock, in seconds
    net,                                    \* requests published to the relays
    answers,                                \* responses published to the relays
    pc, cur, at, reply,                     \* the loop: step, request, time read, answer
    seen, seenDisk,                         \* ReplayCache
    buckets,                                \* RateLimiter
    state, drawn, shown, grants, rejects,   \* Pairing
    wallets, walletsDisk, sets, setsDisk,   \* Stores
    faults, crashes,                        \* bounds used up
    handledAt,                              \* history: id -> last time it passed the cache
    lost,                                   \* history: ids that will get no answer
    status,                                 \* history: wallet -> last pairing status saved
    watching,                               \* history: wallet -> last watch set saved
    forgotten,                              \* history: wallets answered ok to unpair
    seenFault, watchFault                   \* history: a write of that file failed

P == INSTANCE Pairing
S == INSTANCE Stores
C == INSTANCE ReplayCache
R == INSTANCE RateLimiter WITH Keys <- Wallets, NoBucket <- None

pairingVars == <<state, drawn, shown, grants, rejects>>
storeVars   == <<wallets, walletsDisk, sets, setsDisk>>
replayVars  == <<seen, seenDisk>>
loopVars    == <<pc, cur, at, reply>>
networkVars == <<net, answers>>
historyVars == <<handledAt, lost, status, watching, forgotten, seenFault, watchFault>>
vars == <<now, networkVars, loopVars, replayVars, buckets, pairingVars, storeVars,
          faults, crashes, historyVars>>

Requests == [id : Ids, from : Wallets, type : AllTypes,
             proof : P!Proofs, addrs : SUBSET Addresses]

ASSUME NoneAssumption ==
    /\ None \notin Nat
    /\ None \notin Requests
    /\ None \notin P!SecretState
    /\ None \notin R!Bucket
    /\ \A addrs \in SUBSET Addresses : addrs # None

Codes == {"ok", "not_paired", "pairing_failed", "rate_limited", "invalid_request",
          "unknown_type", "unsupported_version", "invalid_tx", "broadcast_failed",
          "backend_unavailable", "internal"}

Steps == {"idle", "is_paired", "verify", "add", "remove", "clear_watch",
          "replace", "backend", "respond"}

NoProof(w) == [secret |-> 0, wallet |-> w]

NetworkOK == /\ now \in 0..MaxTime
             /\ net \subseteq Requests
             /\ answers \subseteq [id : Ids, code : Codes]

LoopOK == /\ pc \in Steps
          /\ cur \in Requests \cup {None}
          /\ pc = "idle" <=> cur = None
          /\ at \in 0..MaxTime
          /\ reply \in Codes \cup {None}
          /\ pc = "respond" => reply \in Codes

BoundsOK == faults \in 0..MaxFaults /\ crashes \in 0..MaxCrashes

HistoryOK == /\ handledAt \in [Ids -> (0..MaxTime) \cup {None}]
             /\ lost \subseteq Ids
             /\ status \in [Wallets -> {"paired", "unpaired", "unsure"}]
             /\ watching \in [Wallets -> (SUBSET Addresses) \cup {None}]
             /\ forgotten \subseteq Wallets
             /\ seenFault \in BOOLEAN /\ watchFault \in BOOLEAN

ServerTypeOK == /\ NetworkOK /\ LoopOK /\ BoundsOK /\ HistoryOK
                /\ C!CacheOK /\ R!BucketsOK /\ S!StoresOK

TypeOK == ServerTypeOK /\ P!TypeOK

Init ==
    /\ now = 0
    /\ net = {} /\ answers = {}
    /\ pc = "idle" /\ cur = None /\ at = 0 /\ reply = None
    /\ C!InitCache
    /\ buckets = R!NoBuckets
    /\ P!Init
    /\ S!InitStores
    /\ faults = 0 /\ crashes = 0
    /\ handledAt = [i \in Ids |-> None]
    /\ lost = {}
    /\ status = [w \in Wallets |-> "unpaired"]
    /\ watching = [w \in Wallets |-> {}]
    /\ forgotten = {}
    /\ seenFault = FALSE /\ watchFault = FALSE
-----------------------------------------------------------------------------
(* The network and the clock *)

\* A wallet wraps a request and publishes it.  Its pair proof is made from a
\* QR it has scanned, or is garbage (secret 0).
Publish(w) ==
    /\ \E id \in Ids :
          /\ \A m \in net : m.id < id
          /\ \A i \in Ids : i < id => \E m \in net : m.id = i
          /\ \E type \in RequestTypes, proof \in P!KnownProofs, addrs \in SUBSET Addresses :
                /\ proof.wallet = w
                /\ type # "pair" => proof = NoProof(w)
                /\ type # "watch" => addrs = {}
                /\ net' = net \cup {[id |-> id, from |-> w, type |-> type,
                                     proof |-> proof, addrs |-> addrs]}
    /\ UNCHANGED <<now, answers, loopVars, replayVars, buckets, pairingVars, storeVars,
                   faults, crashes, historyVars>>

Tick ==
    /\ now < MaxTime
    /\ now' = now + 1
    /\ UNCHANGED <<networkVars, loopVars, replayVars, buckets, pairingVars, storeVars,
                   faults, crashes, historyVars>>

\* One write or publish; it may fail while the fault budget lasts.
Attempt(done) ==
    /\ ~done => faults < MaxFaults
    /\ faults' = IF done THEN faults ELSE faults + 1
-----------------------------------------------------------------------------
(* The transport loop *)

\* The loop is done with the request but for the response.
Answer(m, code) ==
    /\ pc' = "respond"
    /\ cur' = m
    /\ reply' = code

\* The loop goes on with the same request.
Continue(step) ==
    /\ pc' = step
    /\ UNCHANGED <<cur, at, reply>>

\* handle_event: parse_request refuses the version, an error is sent under the
\* envelope's id, nothing is recorded.
RejectMalformed(m) ==
    /\ pc = "idle" /\ m.type = "malformed"
    /\ Answer(m, "unsupported_version")
    /\ UNCHANGED <<now, at, networkVars, replayVars, buckets, pairingVars, storeVars,
                   faults, crashes, historyVars>>

\* route: an id already seen is dropped without an answer.
DropReplay(m) ==
    /\ pc = "idle" /\ m.type # "malformed"
    /\ C!Duplicate(m.id, now)
    /\ UNCHANGED <<now, networkVars, loopVars, buckets, pairingVars, storeVars,
                   faults, crashes, historyVars>>

\* route: a new id is recorded, whatever becomes of the request.
Record(m, written) ==
    /\ C!Insert(m.id, now, written)
    /\ Attempt(written)
    /\ at' = now
    /\ handledAt' = [handledAt EXCEPT ![m.id] = now]
    /\ seenFault' = (seenFault \/ ~written)

\* route: a new id, and the sender's bucket has a token.
Admit(m) ==
    /\ pc = "idle" /\ m.type # "malformed"
    /\ \E written \in BOOLEAN : Record(m, written)
    /\ R!Admits(m.from, now) /\ R!Allow(m.from, now)
    /\ pc' = "is_paired" /\ cur' = m /\ reply' = None
    /\ UNCHANGED <<now, networkVars, pairingVars, storeVars, crashes,
                   lost, status, watching, forgotten, watchFault>>

\* Mutant: a rate-limited request is dropped without an answer.
RefuseSilently(m) ==
    /\ pc = "idle" /\ m.type # "malformed"
    /\ \E written \in BOOLEAN : Record(m, written)
    /\ ~R!Admits(m.from, now) /\ R!Allow(m.from, now)
    /\ UNCHANGED <<pc, cur, reply>>
    /\ UNCHANGED <<now, networkVars, pairingVars, storeVars, crashes,
                   lost, status, watching, forgotten, watchFault>>

\* route: a new id, but the bucket is empty.
RefuseRate(m) ==
    /\ pc = "idle" /\ m.type # "malformed"
    /\ \E written \in BOOLEAN : Record(m, written)
    /\ ~R!Admits(m.from, now) /\ R!Allow(m.from, now)
    /\ Answer(m, "rate_limited")
    /\ UNCHANGED <<now, networkVars, pairingVars, storeVars, crashes,
                   lost, status, watching, forgotten, watchFault>>

Receive(m) == RejectMalformed(m) \/ DropReplay(m) \/ Admit(m) \/ RefuseRate(m)
-----------------------------------------------------------------------------
(* The handlers of the loop *)

\* What follows when the sender is on the allowlist.
StepFor(type) == CASE type = "unpair" -> "remove"
                   [] type = "watch"  -> "replace"
                   [] type = "read"   -> "backend"

\* A watch list over the limit is refused before the store is touched.
TooMany(m) == m.type = "watch" /\ Cardinality(m.addrs) > MaxWatchAddresses

\* Mutant: watch_addresses is dispatched before is_paired is asked.
CheckPairedButWatch ==
    /\ pc = "is_paired"
    /\ IF cur.type = "watch" THEN Continue("replace")
       ELSE IF cur.type = "pair" /\ ~S!IsPaired(cur.from) THEN Continue("verify")
       ELSE IF cur.type = "unpair" /\ S!IsPaired(cur.from) THEN Continue("remove")
       ELSE Answer(cur, "not_paired") /\ at' = at
    /\ UNCHANGED <<now, networkVars, replayVars, buckets, pairingVars, storeVars,
                   faults, crashes, historyVars>>

\* dispatch and the head of handle_pair: is_paired decides.
CheckPaired ==
    /\ pc = "is_paired"
    /\ \/ /\ cur.type = "pair"
          /\ IF S!IsPaired(cur.from) THEN Answer(cur, "pairing_failed") /\ at' = at
                                     ELSE Continue("verify")
       \/ /\ cur.type # "pair" /\ ~S!IsPaired(cur.from)
          /\ Answer(cur, "not_paired") /\ at' = at
       \/ /\ cur.type = "unknown" /\ S!IsPaired(cur.from)
          /\ Answer(cur, "unknown_type") /\ at' = at
       \/ /\ TooMany(cur) /\ S!IsPaired(cur.from)
          /\ Answer(cur, "invalid_request") /\ at' = at
       \/ /\ cur.type \in {"unpair", "watch", "read"} /\ ~TooMany(cur)
          /\ S!IsPaired(cur.from)
          /\ Continue(StepFor(cur.type))
    /\ UNCHANGED <<now, networkVars, replayVars, buckets, pairingVars, storeVars,
                   faults, crashes, historyVars>>

\* Mutant: the proof is compared, and the secret left for the next one.
VerifyKeepsSecret ==
    /\ pc = "verify"
    /\ IF P!Accepts(at, cur.from, cur.proof)
       THEN /\ grants' = grants \cup {[secret |-> state.secret, wallet |-> cur.from, at |-> at]}
            /\ Continue("add")
       ELSE Answer(cur, "pairing_failed") /\ at' = at /\ UNCHANGED grants
    /\ UNCHANGED <<now, networkVars, replayVars, buckets, storeVars, faults, crashes,
                   state, drawn, shown, rejects, historyVars>>

\* handle_pair: verify_at, with the time route read.
VerifyProof ==
    /\ pc = "verify"
    /\ \/ P!Accept(at, cur.from, cur.proof) /\ Continue("add")
       \/ /\ P!Reject(at, cur.from, cur.proof) \/ P!Refuse(at)
          /\ Answer(cur, "pairing_failed") /\ at' = at
    /\ UNCHANGED <<now, networkVars, replayVars, buckets, storeVars,
                   faults, crashes, historyVars>>

\* Mutant: a failed write of the allowlist is only logged, as that of the watch
\* sets is in handle_unpair.
AddWalletLogsOnly ==
    /\ pc = "add"
    /\ \E written \in BOOLEAN :
          /\ S!Add(cur.from, written)
          /\ Attempt(written)
          /\ Answer(cur, "ok")
          /\ status' = [status EXCEPT ![cur.from] = IF written THEN "paired" ELSE "unsure"]
    /\ forgotten' = forgotten \ {cur.from}
    /\ UNCHANGED <<now, at, networkVars, replayVars, buckets, pairingVars, crashes,
                   handledAt, lost, watching, seenFault, watchFault>>

\* handle_pair: allowlist.add; a failed write is answered "internal".
AddWallet ==
    /\ pc = "add"
    /\ \E written \in BOOLEAN :
          /\ S!Add(cur.from, written)
          /\ Attempt(written)
          /\ Answer(cur, IF written THEN "ok" ELSE "internal")
          /\ status' = [status EXCEPT ![cur.from] = IF written THEN "paired" ELSE "unsure"]
    /\ forgotten' = forgotten \ {cur.from}
    /\ UNCHANGED <<now, at, networkVars, replayVars, buckets, pairingVars, crashes,
                   handledAt, lost, watching, seenFault, watchFault>>

\* What the last completed write says of a wallet's pairing.
StatusAfterRemove(w, written) ==
    IF w \notin wallets THEN status
    ELSE [status EXCEPT ![w] = IF written THEN "unpaired" ELSE "unsure"]

\* handle_unpair: allowlist.remove.  A concurrent revocation may have been first.
UnpairWallet ==
    /\ pc = "remove"
    /\ \E written \in BOOLEAN :
          /\ cur.from \notin wallets => written
          /\ S!Remove(cur.from, written)
          /\ Attempt(written)
          /\ status' = StatusAfterRemove(cur.from, written)
          /\ IF cur.from \in wallets /\ written
             THEN Continue("clear_watch")
             ELSE /\ Answer(cur, IF written THEN "not_paired" ELSE "internal")
                  /\ at' = at
    /\ UNCHANGED <<now, networkVars, replayVars, buckets, pairingVars, crashes,
                   handledAt, lost, watching, forgotten, seenFault, watchFault>>

\* Mutant: unpair answers without deleting the watch set.
KeepWatchSet ==
    /\ pc = "clear_watch"
    /\ Answer(cur, "ok") /\ at' = at
    /\ forgotten' = forgotten \cup {cur.from}
    /\ UNCHANGED <<now, networkVars, replayVars, buckets, pairingVars, storeVars, faults,
                   crashes, handledAt, lost, status, watching, seenFault, watchFault>>

\* handle_unpair: watch.remove_wallet; a failure is only logged.
ClearWatchSet ==
    /\ pc = "clear_watch"
    /\ \E written \in BOOLEAN :
          /\ sets[cur.from] = {} => written
          /\ S!RemoveWallet(cur.from, written)
          /\ Attempt(written)
          /\ watching' = IF sets[cur.from] = {} THEN watching
                         ELSE [watching EXCEPT ![cur.from] = IF written THEN {} ELSE None]
          /\ watchFault' = (watchFault \/ ~written)
    /\ Answer(cur, "ok") /\ at' = at
    /\ forgotten' = forgotten \cup {cur.from}
    /\ UNCHANGED <<now, networkVars, replayVars, buckets, pairingVars, crashes,
                   handledAt, lost, status, seenFault>>

\* handlers.rs, watch_addresses: store the list for the sender.  The sender
\* may have been revoked since is_paired was asked.
ReplaceWatchSet ==
    /\ pc = "replace"
    /\ \E written \in BOOLEAN :
          /\ S!Replace(cur.from, cur.addrs, written)
          /\ Attempt(written)
          /\ Answer(cur, IF written THEN "ok" ELSE "internal")
          /\ watching' = [watching EXCEPT ![cur.from] = IF written THEN cur.addrs ELSE None]
          /\ watchFault' = (watchFault \/ ~written)
    /\ UNCHANGED <<now, at, networkVars, replayVars, buckets, pairingVars, crashes,
                   handledAt, lost, status, forgotten, seenFault>>

\* The handlers that only read: answered by Electrs, by an error of it, or by
\* the validation of the payload.
QueryBackend ==
    /\ pc = "backend"
    /\ \E code \in {"ok", "backend_unavailable", "invalid_request", "invalid_tx",
                    "broadcast_failed"} : Answer(cur, code)
    /\ at' = at
    /\ UNCHANGED <<now, networkVars, replayVars, buckets, pairingVars, storeVars,
                   faults, crashes, historyVars>>

\* send_response; a failed publish is only logged.
SendResponse ==
    /\ pc = "respond"
    /\ \E sent \in BOOLEAN :
          /\ Attempt(sent)
          /\ answers' = IF sent THEN answers \cup {[id |-> cur.id, code |-> reply]}
                                ELSE answers
          /\ lost' = IF sent THEN lost ELSE lost \cup {cur.id}
    /\ pc' = "idle" /\ cur' = None /\ reply' = None
    /\ UNCHANGED <<now, at, net, replayVars, buckets, pairingVars, storeVars, crashes,
                   handledAt, status, watching, forgotten, seenFault, watchFault>>

LoopStep == \/ CheckPaired \/ VerifyProof \/ AddWallet \/ UnpairWallet \/ ClearWatchSet
            \/ ReplaceWatchSet \/ QueryBackend \/ SendResponse
-----------------------------------------------------------------------------
(* The web UI, on other threads *)

\* current_payload: the pairing page and its polling.
ShowPairing ==
    /\ P!PayloadAt(now)
    /\ UNCHANGED <<now, networkVars, loopVars, replayVars, buckets, storeVars,
                   faults, crashes, historyVars>>

\* revoke_wallet: the allowlist only; a failed write is only logged.
Revoke(w) ==
    /\ \E written \in BOOLEAN :
          /\ w \notin wallets => written
          /\ S!Remove(w, written)
          /\ Attempt(written)
          /\ status' = StatusAfterRemove(w, written)
    /\ UNCHANGED <<now, networkVars, loopVars, replayVars, buckets, pairingVars, crashes,
                   handledAt, lost, watching, forgotten, seenFault, watchFault>>
-----------------------------------------------------------------------------
\* The process dies and a new one loads the files.  The request in hand has
\* its id recorded, or was malformed: nobody will answer it.
CrashAndRestart ==
    /\ crashes < MaxCrashes
    /\ crashes' = crashes + 1
    /\ pc' = "idle" /\ cur' = None /\ reply' = None
    /\ lost' = IF pc = "idle" THEN lost ELSE lost \cup {cur.id}
    /\ C!ReloadCache
    /\ S!ReloadStores
    /\ P!Forget
    /\ buckets' = R!NoBuckets
    /\ UNCHANGED <<now, at, networkVars, faults, handledAt, status, watching, forgotten,
                   seenFault, watchFault>>

Next ==
    \/ \E w \in Wallets : Publish(w)
    \/ Tick
    \/ \E m \in net : Receive(m)
    \/ LoopStep
    \/ ShowPairing
    \/ \E w \in Wallets : Revoke(w)
    \/ CrashAndRestart

Spec == Init /\ [][Next]_vars

Answered == {a.id : a \in answers}

\* The loop runs whenever it can, and the relays go on delivering a request
\* that was neither answered nor lost until the idle loop takes it.
Deliver(id) == \E m \in net : m.id = id /\ id \notin Answered \cup lost /\ Receive(m)

FairSpec == Spec /\ WF_vars(LoopStep) /\ \A id \in Ids : SF_vars(Deliver(id))
-----------------------------------------------------------------------------
(* Properties *)

\* Only wallets that once proved they had scanned a QR are on the allowlist,
\* in memory or in its file, or own a watch set: no interleaving of requests,
\* UI, failing writes and restarts lets another key in.
OnlyProvenWallets ==
    \A w \in Wallets :
        (w \in wallets \cup walletsDisk \/ sets[w] # {} \/ setsDisk[w] # {})
            => \E g \in grants : g.wallet = w

\* What the server completed for a wallet stays so: a pairing or removal whose
\* write succeeded holds in memory AND in the file until the next operation on
\* that wallet, whatever writes of other wallets fail and however often the
\* server restarts.
StatusDurable ==
    \A w \in Wallets :
        /\ status[w] = "paired"   => w \in wallets /\ w \in walletsDisk
        /\ status[w] = "unpaired" => w \notin wallets /\ w \notin walletsDisk

\* The same for an acknowledged watch set.
WatchSetDurable ==
    \A w \in Wallets :
        watching[w] # None => sets[w] = watching[w] /\ setsDisk[w] = watching[w]

\* A wallet whose unpair ran to its end is gone until it pairs again: not on
\* the allowlist, and, unless a write of the watch file ever failed, without a
\* watch set, so that a later crash brings nothing of it back.
UnpairedIsForgotten ==
    \A w \in forgotten :
        /\ w \notin wallets /\ w \notin walletsDisk
        /\ ~watchFault => sets[w] = {} /\ setsDisk[w] = {}

\* An envelope id passes the replay cache once in a retention period, across
\* restarts, in whatever order relays repeat requests; only a failed write of
\* the cache's file excuses a second time.
Passes(id) == pc = "idle" /\ cur' # None /\ cur'.id = id /\ cur'.type # "malformed"

AtMostOnce ==
    [][\A id \in Ids :
          Passes(id) /\ handledAt[id] # None
              => now - handledAt[id] >= Retention \/ seenFault]_vars

\* The pairing manager inside the server, driven by the loop with the time it
\* read earlier and by the UI with the current time, behaves as Pairing.tla.
PairingComponent == P!Spec

\* What the server knows of wallets, for the contract: those that gave a proof,
\* the watch sets asked for, and what it answered "ok", or is about to.
Granted == {g.wallet : g \in grants}

Asked == {[key |-> m.from, addrs |-> m.addrs] : m \in {n \in net : n.type = "watch"}}

AnsweredOk(m) == \/ [id |-> m.id, code |-> "ok"] \in answers
                 \/ pc = "respond" /\ reply = "ok" /\ cur = m

Promises == {[key |-> m.from, type |-> m.type, addrs |-> m.addrs] :
                m \in {n \in net : AnsweredOk(n)}}

Unsure == {w \in Wallets : status[w] = "unsure"}
Vague  == {w \in Wallets : watching[w] = None}

K == INSTANCE WalletServer WITH
    Keys <- Wallets, paired <- wallets, watch <- sets, granted <- Granted,
    asked <- Asked, unsure <- Unsure, vague <- Vague, promised <- Promises

\* What a wallet may rely on: only wallets with a granted proof are served, "ok"
\* is answered only to a request carried out in full and saved, and a restart
\* undoes no more than what was answered with an error.
KeepsContract == K!Spec

\* Every published request is answered, unless a crash or a failed publish took
\* the answer: no request is silently forgotten, whatever else is delivered.
EveryRequestAnswered ==
    \A id \in Ids : (\E m \in net : m.id = id) ~> (id \in Answered \cup lost)

\* PROTOCOL.md:232-234, "The server UI also lists paired wallets and can revoke
\* any of them. Unpairing also deletes that wallet's watch set": an idle server
\* keeps no watch set of a wallet that is not paired.
NoWatchSetOfUnpaired ==
    pc = "idle" => \A w \in Wallets \ wallets : sets[w] = {}

\* replay.rs:8-9 and PROTOCOL.md:132-136, "A replayed message past the cache
\* window is therefore harmless": handling a request again that was carried out
\* and answered "ok" changes neither the allowlist nor a watch set.
Repeating == pc # "idle" /\ [id |-> cur.id, code |-> "ok"] \in answers

ReplayHarmless ==
    [][Repeating /\ pc' # pc /\ crashes' = crashes => UNCHANGED <<wallets, sets>>]_vars
=============================================================================
