------------------------------- MODULE Watcher -------------------------------
(***************************************************************************)
(* server/src/watcher.rs: the task that polls the histories of the watched *)
(* addresses and tells wallets of new and newly confirmed transactions,    *)
(* over the stores it shares with the transport loop and the web UI, a     *)
(* chain that moves under it, failing questions, writes and publishes, and *)
(* crashes with restart.                                                   *)
(*                                                                         *)
(* The chain is what Electrs answers: a transaction is absent, in the      *)
(* mempool (height 0, or -1 while a parent is unconfirmed too) or in a     *)
(* block.  The addresses of a wallet are asked for one after the other,    *)
(* and the chain may change in between.  Writes of the two stores succeed  *)
(* here; NomadServer has them fail.                                        *)
(***************************************************************************)
EXTENDS Integers, FiniteSets

CONSTANTS
    Wallets, Addresses,
    Offered,        \* the watch sets wallets register: sets of addresses
    Txs,            \* transactions
    Touched,        \* [Txs -> SUBSET Addresses]: what each pays or spends
    MaxHeight,      \* bound on block heights
    MaxChanges,     \* bound on changes of the chain
    MaxEdits,       \* bound on operations of wallets and UI on the stores
    MaxFaults,      \* bound on failing questions, writes and publishes
    MaxCrashes,     \* bound on restarts
    None            \* no value

ASSUME WatcherAssumption ==
    /\ Offered \subseteq SUBSET Addresses
    /\ Touched \in [Txs -> SUBSET Addresses]
    /\ {MaxHeight, MaxChanges, MaxEdits, MaxFaults, MaxCrashes} \subseteq Nat
    /\ None \notin -1..MaxHeight /\ None \notin Wallets
    /\ None \notin [Txs -> 0..MaxHeight \cup {None}]

VARIABLES
    chain,                                  \* tx -> height for Electrs, or None when absent
    wallets, walletsDisk, sets, setsDisk,   \* Stores
    asking,             \* the wallet revoked while the loop handles its watch request
    step,               \* "sleep", "next", "query", "diff" or "notify"
    snapshot, todo,     \* the watch sets this tick works on, wallets still to visit
    cur, unread,        \* the wallet visited, its addresses not yet asked for
    current,            \* tx -> height as read for cur
    queue,              \* the <<tx, height>> of which cur is still to be told
    known, knownDisk,   \* Watcher.state and watcher_state.json
    changes, edits, faults, crashes,        \* bounds used up
    told,               \* history: wallet -> what it was told or knew from the start
    lost,               \* history: wallet -> what it should have been told
    repeats,            \* history: notices sent since chain or watch set changed
    old,                \* history: wallet -> txs that predate the watching of them
    extended,           \* history: wallets that changed a set already looked at
    stateFault,         \* history: a write of the state file failed
    shown,              \* history: the <<tx, height>> on the chain while this visit read it
    member              \* history: cur was on the allowlist during its visit

S == INSTANCE Stores

storeVars   == <<wallets, walletsDisk, sets, setsDisk, asking>>
tickVars    == <<step, snapshot, todo, cur, unread, current, queue>>
knownVars   == <<known, knownDisk>>
boundVars   == <<changes, edits, faults, crashes>>
historyVars == <<told, lost, repeats, old, extended, stateFault>>
visitVars   == <<shown, member>>
vars == <<chain, storeVars, tickVars, knownVars, boundVars, historyVars, visitVars>>

Heights == 0..MaxHeight \cup {None}
Reported == Heights \cup {-1}
History == [Txs -> Heights]
NoHistory == [tx \in Txs |-> None]

\* What a wallet can be told of a transaction.
News == Txs \X {"seen", "confirmed"}

TypeOK ==
    /\ chain \in [Txs -> Reported]
    /\ S!StoresOK /\ asking \in Wallets \cup {None}
    /\ step \in {"sleep", "next", "query", "diff", "notify"}
    /\ snapshot \in [Wallets -> SUBSET Addresses]
    /\ todo \subseteq Wallets
    /\ cur \in Wallets \cup {None}
    /\ step \in {"query", "diff", "notify"} => cur # None
    /\ unread \subseteq Addresses
    /\ current \in History
    /\ queue \subseteq Txs \X (0..MaxHeight)
    /\ step # "notify" => queue = {}
    /\ known \in [Wallets -> History \cup {None}]
    /\ knownDisk \in [Wallets -> History \cup {None}]
    /\ changes \in 0..MaxChanges /\ edits \in 0..MaxEdits
    /\ faults \in 0..MaxFaults /\ crashes \in 0..MaxCrashes
    /\ told \in [Wallets -> SUBSET News] /\ lost \in [Wallets -> SUBSET News]
    /\ repeats \subseteq Wallets \X (Txs \X (0..MaxHeight))
    /\ old \in [Wallets -> SUBSET Txs] /\ extended \subseteq Wallets
    /\ stateFault \in BOOLEAN
    /\ shown \subseteq Txs \X (0..MaxHeight) /\ member \in BOOLEAN

Resting == /\ step' = "sleep" /\ todo' = {} /\ cur' = None /\ unread' = {}
           /\ current' = NoHistory /\ queue' = {}
           /\ snapshot' = [w \in Wallets |-> {}]
           /\ shown' = {} /\ member' = FALSE

Init ==
    /\ chain = NoHistory
    /\ S!InitStores /\ asking = None
    /\ step = "sleep" /\ todo = {} /\ cur = None /\ unread = {}
    /\ current = NoHistory /\ queue = {}
    /\ snapshot = [w \in Wallets |-> {}]
    /\ known = [w \in Wallets |-> None] /\ knownDisk = known
    /\ changes = 0 /\ edits = 0 /\ faults = 0 /\ crashes = 0
    /\ told = [w \in Wallets |-> {}] /\ lost = [w \in Wallets |-> {}]
    /\ repeats = {} /\ old = [w \in Wallets |-> {}] /\ extended = {}
    /\ stateFault = FALSE
    /\ shown = {} /\ member = FALSE
-----------------------------------------------------------------------------
(* The chain, as Electrs shows it *)

\* The height taken for known of one that Electrs reports: i32::max(0).
Clamped(height) == IF height = -1 THEN 0 ELSE height

Present(history) == {<<tx, history[tx]>> : tx \in {t \in Txs : history[t] # None}}

\* What a chain shows to who asks for every address.
Shows(map) == Present([tx \in Txs |-> Clamped(map[tx])])

\* tx enters the mempool or a block, moves between blocks, goes back to the
\* mempool in a reorganisation, or is dropped or replaced.
ChangeChain(tx, height) ==
    /\ changes < MaxChanges
    /\ changes' = changes + 1
    /\ height # chain[tx]
    /\ chain' = [chain EXCEPT ![tx] = height]
    /\ repeats' = {r \in repeats : r[2][1] # tx}
    /\ old' = [w \in Wallets |-> old[w] \ {tx}]
    /\ shown' = IF step = "query" THEN shown \cup Shows(chain') ELSE shown
    /\ UNCHANGED <<storeVars, tickVars, knownVars, edits, faults, crashes, told, lost,
                   extended, stateFault, member>>
-----------------------------------------------------------------------------
(* The transport loop and the web UI, as far as the watcher sees them *)

Edit == edits < MaxEdits /\ edits' = edits + 1

Pair(w) ==
    /\ w \notin wallets /\ asking = None /\ Edit
    /\ S!Add(w, TRUE)
    /\ member' = (member \/ w = cur)
    /\ UNCHANGED <<asking, chain, tickVars, knownVars, changes, faults, crashes, historyVars,
                   shown>>

\* The first half of an unpairing, or a revocation in the web UI, which may fall
\* between is_paired and the end of a watch request of w.
TakeOffAllowlist(w) ==
    /\ w \in wallets /\ Edit
    /\ S!Remove(w, TRUE)
    /\ asking' \in IF asking = None THEN {None, w} ELSE {asking}
    /\ UNCHANGED <<chain, tickVars, knownVars, changes, faults, crashes, historyVars,
                   visitVars>>

\* The second half of an unpairing.
ClearSet(w) ==
    /\ w \notin wallets /\ asking = None /\ sets[w] # {}
    /\ S!RemoveWallet(w, TRUE)
    /\ repeats' = {r \in repeats : r[1] # w}
    /\ old' = [old EXCEPT ![w] = {}]
    /\ UNCHANGED <<asking, chain, tickVars, knownVars, boundVars, told, lost, extended, stateFault,
                   visitVars>>

\* The transactions on the chain that only the new addresses touch.
Predating(w, addrs) ==
    {tx \in Txs : /\ chain[tx] # None
                  /\ Touched[tx] \cap addrs # {}
                  /\ Touched[tx] \cap sets[w] = {}}

\* The watcher knows of w already, or this tick works on a watch set of w.
LookedAt(w) == known[w] # None \/ snapshot[w] # {}

\* What an earlier registration noted stays noted for the addresses kept.
Register(w, addrs) ==
    /\ IF asking = None THEN w \in wallets ELSE w = asking
    /\ asking' = None
    /\ addrs # sets[w] /\ Edit
    /\ S!Replace(w, addrs, TRUE)
    /\ repeats' = {r \in repeats : r[1] # w}
    /\ old' = [old EXCEPT ![w] = {tx \in @ : Touched[tx] \cap addrs # {}}
                                   \cup Predating(w, addrs)]
    /\ extended' = IF LookedAt(w) THEN extended \cup {w} ELSE extended \ {w}
    /\ UNCHANGED <<chain, tickVars, knownVars, changes, faults, crashes, told, lost,
                   stateFault, visitVars>>
-----------------------------------------------------------------------------
(* The tick *)

\* A question, write or publish; it may fail while the fault budget lasts.
Attempt(done) ==
    /\ ~done => faults < MaxFaults
    /\ faults' = IF done THEN faults ELSE faults + 1

\* tick: snapshot the watch sets.
StartTick ==
    /\ step = "sleep"
    /\ step' = "next"
    /\ snapshot' = sets
    /\ todo' = {w \in Wallets : sets[w] # {}}
    /\ UNCHANGED <<chain, storeVars, cur, unread, current, queue, knownVars, boundVars,
                   historyVars, visitVars>>

\* Mutant: whoever has a watch set is visited.
VisitUnpaired(w) ==
    /\ step = "next" /\ w \in todo
    /\ todo' = todo \ {w}
    /\ step' = "query" /\ cur' = w /\ unread' = snapshot[w]
    /\ shown' = Shows(chain) /\ member' = (w \in wallets)
    /\ current' = NoHistory
    /\ UNCHANGED <<chain, storeVars, snapshot, queue, knownVars, boundVars, historyVars>>

\* tick: the next wallet; one that is not paired is passed over.
VisitWallet(w) ==
    /\ step = "next" /\ w \in todo
    /\ todo' = todo \ {w}
    /\ IF S!IsPaired(w)
       THEN /\ step' = "query" /\ cur' = w /\ unread' = snapshot[w]
            /\ shown' = Shows(chain) /\ member' = (w \in wallets)
       ELSE UNCHANGED <<step, cur, unread, visitVars>>
    /\ current' = NoHistory
    /\ UNCHANGED <<chain, storeVars, snapshot, queue, knownVars, boundVars, historyVars>>

\* The highest height seen for a transaction, over the addresses it touches.
Higher(a, b) == IF a = None THEN b
                ELSE IF b = None THEN a
                ELSE IF a > b THEN a ELSE b

\* Mutant: heights are taken as reported.
MergedUnclamped(a) ==
    [tx \in Txs |-> IF a \in Touched[tx] THEN Higher(current[tx], chain[tx])
                                        ELSE current[tx]]

Merged(a) ==
    [tx \in Txs |-> IF a \in Touched[tx] THEN Higher(current[tx], Clamped(chain[tx]))
                                        ELSE current[tx]]

\* tick_wallet: the history of one more address.
ReadHistory(a) ==
    /\ step = "query" /\ a \in unread
    /\ current' = Merged(a)
    /\ unread' = unread \ {a}
    /\ step' = IF unread' = {} THEN "diff" ELSE "query"
    /\ UNCHANGED <<chain, storeVars, snapshot, todo, cur, queue, knownVars, boundVars,
                   historyVars, visitVars>>

\* Mutant: what was read so far is taken for all there is.
ReadFailsKeepsPart ==
    /\ step = "query"
    /\ Attempt(FALSE)
    /\ step' = "next" /\ cur' = None /\ unread' = {} /\ current' = NoHistory
    /\ known' = [known EXCEPT ![cur] = current]
    /\ UNCHANGED <<chain, storeVars, snapshot, todo, queue, knownDisk, changes, edits,
                   crashes, historyVars, visitVars>>

\* A question fails: nothing of this wallet's visit is kept.
ReadFails ==
    /\ step = "query"
    /\ Attempt(FALSE)
    /\ step' = "next" /\ cur' = None /\ unread' = {} /\ current' = NoHistory
    /\ UNCHANGED <<chain, storeVars, snapshot, todo, queue, knownVars, changes, edits,
                   crashes, historyVars, visitVars>>

\* Mutant: a transaction in the map is never looked at again.
DiffIgnoresConfirmation(before, after) ==
    IF before = None THEN {}
    ELSE {<<tx, after[tx]>> : tx \in {t \in Txs : after[t] # None /\ before[t] = None}}

\* diff: new transactions, and those that left the mempool for a block.
Diff(before, after) ==
    IF before = None THEN {}
    ELSE {<<tx, after[tx]>> : tx \in {t \in Txs : /\ after[t] # None
                                                 /\ \/ before[t] = None
                                                    \/ before[t] = 0 /\ after[t] > 0}}

\* The news in a set of <<tx, height>>.
NewsOf(notices) ==
    {<<n[1], "seen">> : n \in notices}
    \cup {<<n[1], "confirmed">> : n \in {m \in notices : m[2] > 0}}

Saved(map, disk, written) == IF written THEN map ELSE disk

\* Mutant: the state is saved before this visit is entered in it.
CompareSavesOld ==
    /\ step = "diff"
    /\ queue' = Diff(known[cur], current)
    /\ known' = [known EXCEPT ![cur] = current]
    /\ \E written \in BOOLEAN :
          /\ Attempt(written)
          /\ knownDisk' = Saved(known, knownDisk, written)
          /\ stateFault' = (stateFault \/ ~written)
    /\ told' = [told EXCEPT ![cur] =
                  IF known[cur] = None THEN @ \cup NewsOf(Present(current)) ELSE @]
    /\ step' = IF queue' = {} THEN "next" ELSE "notify"
    /\ UNCHANGED <<chain, storeVars, snapshot, todo, cur, unread, current,
                   changes, edits, crashes, lost, repeats, old, extended, visitVars>>

\* Mutant: the state is replaced only when there is something to tell.
CompareOnlyNews ==
    /\ step = "diff"
    /\ queue' = Diff(known[cur], current)
    /\ known' = IF queue' = {} THEN known ELSE [known EXCEPT ![cur] = current]
    /\ \E written \in BOOLEAN :
          /\ Attempt(written)
          /\ knownDisk' = Saved(known', knownDisk, written)
          /\ stateFault' = (stateFault \/ ~written)
    /\ told' = [told EXCEPT ![cur] =
                  IF known[cur] = None THEN @ \cup NewsOf(Present(current)) ELSE @]
    /\ step' = IF queue' = {} THEN "next" ELSE "notify"
    /\ UNCHANGED <<chain, storeVars, snapshot, todo, cur, unread, current,
                   changes, edits, crashes, lost, repeats, old, extended, visitVars>>

\* tick_wallet: compare, remember, save; only then tell.
Compare ==
    /\ step = "diff"
    /\ queue' = Diff(known[cur], current)
    /\ known' = [known EXCEPT ![cur] = current]
    /\ \E written \in BOOLEAN :
          /\ Attempt(written)
          /\ knownDisk' = Saved(known', knownDisk, written)
          /\ stateFault' = (stateFault \/ ~written)
    /\ told' = [told EXCEPT ![cur] =
                  IF known[cur] = None THEN @ \cup NewsOf(Present(current)) ELSE @]
    /\ step' = IF queue' = {} THEN "next" ELSE "notify"
    /\ UNCHANGED <<chain, storeVars, snapshot, todo, cur, unread, current,
                   changes, edits, crashes, lost, repeats, old, extended, visitVars>>

\* notify: one gift wrap; a failed publish is only logged.
Notify(notice) ==
    /\ step = "notify" /\ notice \in queue
    /\ queue' = queue \ {notice}
    /\ step' = IF queue' = {} THEN "next" ELSE "notify"
    /\ \E sent \in BOOLEAN :
          /\ Attempt(sent)
          /\ IF sent
             THEN /\ told' = [told EXCEPT ![cur] = @ \cup NewsOf({notice})]
                  /\ repeats' = repeats \cup {<<cur, notice>>}
                  /\ UNCHANGED lost
             ELSE /\ lost' = [lost EXCEPT ![cur] = @ \cup NewsOf({notice})]
                  /\ UNCHANGED <<told, repeats>>
    /\ UNCHANGED <<chain, storeVars, snapshot, todo, cur, unread, current, knownVars,
                   changes, edits, crashes, old, extended, stateFault, visitVars>>

\* tick: forget the wallets without a watch set in the snapshot, then sleep.
EndTick ==
    /\ step = "next" /\ todo = {}
    /\ known' = [w \in Wallets |-> IF snapshot[w] = {} THEN None ELSE known[w]]
    /\ \E written \in BOOLEAN :
          /\ known' = known => written
          /\ Attempt(written)
          /\ knownDisk' = IF known' = known THEN knownDisk
                          ELSE Saved(known', knownDisk, written)
          /\ stateFault' = (stateFault \/ ~written)
    /\ Resting
    /\ UNCHANGED <<chain, storeVars, changes, edits, crashes, told, lost, repeats, old,
                   extended>>

\* The process dies, and what it had still to tell is never told; a new one
\* loads the files.
CrashAndRestart ==
    /\ crashes < MaxCrashes
    /\ crashes' = crashes + 1
    /\ known' = knownDisk
    /\ lost' = IF step = "notify"
               THEN [lost EXCEPT ![cur] = @ \cup NewsOf(queue)] ELSE lost
    /\ S!ReloadStores /\ asking' = None
    /\ Resting
    /\ UNCHANGED <<chain, knownDisk, changes, edits, faults, told, repeats, old,
                   extended, stateFault>>

WatcherStep ==
    \/ StartTick \/ Compare \/ EndTick
    \/ \E w \in Wallets : VisitWallet(w)
    \/ \E a \in Addresses : ReadHistory(a)
    \/ \E notice \in queue : Notify(notice)

Next ==
    \/ \E tx \in Txs, height \in Reported : ChangeChain(tx, height)
    \/ \E w \in Wallets : Pair(w) \/ TakeOffAllowlist(w) \/ ClearSet(w)
    \/ \E w \in Wallets, addrs \in Offered : Register(w, addrs)
    \/ WatcherStep
    \/ ReadFails
    \/ CrashAndRestart

Spec == Init /\ [][Next]_vars

\* The watcher's loop goes on.
FairSpec == Spec /\ WF_vars(WatcherStep)
-----------------------------------------------------------------------------
(* Properties *)

\* Nothing the watcher takes for known is kept from the wallet: whatever order
\* of reading, comparing, saving and failing, each transaction in its state,
\* and each confirmation, was there at the first observation, was told, is
\* about to be told, or was lost in a failed publish or a crash.
NothingUntold ==
    \A w \in Wallets :
        known[w] # None =>
            NewsOf(Present(known[w]))
                \subseteq told[w] \cup lost[w] \cup (IF cur = w THEN NewsOf(queue) ELSE {})

\* A wallet is told nothing that was not so, and of no address but its own: each
\* notice was on the chain, at its height, while this visit read the histories,
\* it touches an address the wallet watched when the tick began, and the wallet
\* was paired during the visit, whoever else was visited before, whatever the
\* chain and the stores did meanwhile, and whatever failed.
NewsIsTrue ==
    \A notice \in queue :
        /\ notice \in shown
        /\ Touched[notice[1]] \cap snapshot[cur] # {}
        /\ member

\* watcher.rs:13-14, "State is persisted so a server restart does not
\* re-notify.": the same notice
\* goes out twice only if the transaction moved on the chain or the wallet
\* edited its watch set in between, or the state could not be saved.
Sends(w, notice) ==
    /\ step = "notify" /\ cur = w
    /\ notice \in queue \ queue'
    /\ faults' = faults /\ crashes' = crashes

ToldOnce ==
    [][\A w \in Wallets, notice \in queue :
          Sends(w, notice) => <<w, notice>> \notin repeats \/ stateFault]_vars

\* watcher.rs:12-13, "First observation of a wallet is silent (no notifications
\* for history that predates watching).": a wallet that registers addresses, once
\* or several times, before the watcher has looked at it is never told of what was
\* on the chain by then, in no later visit, however often questions fail and the
\* watcher restarts before or after its first whole look.
FirstLookIsSilent ==
    [][\A w \in Wallets, notice \in queue :
          Sends(w, notice) /\ notice[1] \in old[w] => w \in extended \/ stateFault]_vars

\* The watcher never stays behind: while a wallet is paired and keeps its watch
\* set and the chain rests, the state of the watcher comes to agree with the
\* chain on every address of the set, and on nothing else, after any unpairing,
\* re-pairing, failure or restart.
Agrees(w) ==
    known[w] = [tx \in Txs |-> IF Touched[tx] \cap sets[w] # {} THEN Clamped(chain[tx])
                                                             ELSE None]

CatchesUp == \A w \in Wallets : []<>(w \in wallets /\ sets[w] # {} => Agrees(w))

\* watcher.rs:12-13, "no notifications for history that predates watching": no
\* wallet is told of a transaction that has not moved since before the wallet
\* asked to watch an address of it.
NoOldNews ==
    [][\A w \in Wallets, notice \in queue :
          Sends(w, notice) => notice[1] \notin old[w]]_vars
=============================================================================
