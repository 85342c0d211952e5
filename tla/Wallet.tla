------------------------------- MODULE Wallet -------------------------------
(***************************************************************************)
(* The Android wallet: MainViewModel, WalletRepository, WatchStore and     *)
(* NomadClient (wallet/android/app/src/main/java/io/nomadserver/wallet/),  *)
(* beside the servers it talks to, their relays, its user and Android,     *)
(* which may kill its process.                                             *)
(*                                                                         *)
(* Every tap launches a coroutine on the main thread; coroutines take      *)
(* turns only where they suspend, and each stretch between two suspensions *)
(* is one action.  A coroutine is a member of tasks: it connects, then     *)
(* sends its request ("send"), publishes it and, once publishing returned  *)
(* ("sent"), collects the client's notifications ("await").  Answers are   *)
(* handed to whoever collects at that moment and to nobody else.           *)
(*                                                                         *)
(* A server is what WalletServer promises and NomadServer is shown to      *)
(* keep, seen by one wallet: it obeys an id once, may refuse anything      *)
(* (expired secret, rate limit, backend), and may answer an error for what *)
(* it did (a failed write), which its next restart may undo.               *)
(***************************************************************************)
EXTENDS Integers, FiniteSets

CONSTANTS
    Servers,        \* servers; each has relays of its own
    Addresses,      \* addresses the user may watch
    Attempts,       \* attempts of a request
    MaxTaps,        \* bound on what the user does
    MaxFaults,      \* bound on failing connects, publishes and server writes
    MaxMishaps,     \* bound on killed processes, revocations, server restarts
    None            \* no value

ASSUME WalletAssumption ==
    /\ Attempts \in Nat \ {0}
    /\ MaxTaps \in Nat /\ MaxFaults \in Nat /\ MaxMishaps \in Nat
    /\ None \notin Servers

VARIABLES
    store,      \* WatchStore: the paired server and the targets
    ui,         \* MainViewModel's UiState
    client,     \* WalletRepository.client: the server whose relays it is on
    tasks,      \* coroutines that have not ended
    started,    \* coroutines launched
    wire,       \* requests and answers on the relays
    paired,     \* servers that serve the wallet
    watch,      \* of each server, the wallet's watch set
    secret,     \* of each server, the number of its live secret
    unsure, vague,  \* servers whose pairing, watch set a restart may change
    granted,    \* history: servers that accepted a pair request
    asserted,   \* history: watch sets the servers took over
    taps, faults, mishaps   \* bounds used up

appVars    == <<store, ui, client, tasks, started>>
remoteVars == <<paired, watch, secret, unsure, vague, granted, asserted>>
vars == <<appVars, wire, remoteVars, taps, faults, mishaps>>

\* What a request is to the contract, and what the answers "ok" on the relays say.
Serving(r) == IF r.type \in {"balance", "history"} THEN "read" ELSE r.type

Promises == {[key |-> r.server, type |-> Serving(r), addrs |-> r.addrs] :
                r \in {x \in wire : x.status = "ok"}}

\* The contract of the servers, each a key of its own to this wallet.
K == INSTANCE WalletServer WITH
    Keys <- Servers, promised <- Promises,
    asked <- {[key |-> x.server, addrs |-> x.addrs] : x \in asserted}

Types == {"pair", "unpair", "watch", "balance", "history"}

Tasks == [id : Nat, kind : {"pair", "unpair", "sync"}, server : Servers,
          secret : Nat, via : Servers \cup {None}, addrs : SUBSET Addresses,
          type : Types, step : {"connect", "send", "sent", "await"}, tried : 0..Attempts]

Snapshots == [server : Servers, addrs : SUBSET Addresses]

Screens == [paired : BOOLEAN, server : Servers \cup {None}, targets : SUBSET Addresses,
            snapshot : Snapshots \cup {None}, syncing : BOOLEAN, busy : BOOLEAN]

Wraps == [id : Nat, type : Types, server : Servers, via : Servers, secret : Nat,
          addrs : SUBSET Addresses, status : {"sent", "ok", "error", "over"}]

TypeOK ==
    /\ store \in [server : Servers \cup {None}, targets : SUBSET Addresses]
    /\ ui \in Screens
    /\ client \in Servers \cup {None}
    /\ tasks \subseteq Tasks /\ wire \subseteq Wraps
    /\ \A t \in tasks : t.step = "connect" <=> t.via = None
    /\ \A t, u \in tasks : t.id = u.id => t = u
    /\ started \in Nat
    /\ \A t \in tasks \cup wire : t.id \in 1..started
    /\ watch \in [Servers -> SUBSET Addresses]
    /\ secret \in [Servers -> Nat]
    /\ paired \subseteq granted /\ granted \subseteq Servers
    /\ unsure \subseteq Servers /\ vague \subseteq Servers
    /\ asserted \subseteq Snapshots
    /\ taps \in 0..MaxTaps /\ faults \in 0..MaxFaults /\ mishaps \in 0..MaxMishaps

\* MainViewModel's first state, which the stored pairing and targets decide.
FirstScreen(st) ==
    [paired |-> st.server # None, server |-> st.server, targets |-> st.targets,
     snapshot |-> None, syncing |-> FALSE, busy |-> FALSE]

Init ==
    /\ store = [server |-> None, targets |-> {}]
    /\ ui = FirstScreen(store)
    /\ client = None
    /\ tasks = {} /\ started = 0
    /\ wire = {}
    /\ asserted = {}
    /\ K!Init
    /\ secret = [s \in Servers |-> 1]
    /\ taps = 0 /\ faults = 0 /\ mishaps = 0
-----------------------------------------------------------------------------
(* Coroutines *)

\* WalletRepository.ensureClient: a client that exists is used as it is,
\* whatever server's relays it is on; otherwise the coroutine connects one.
Coroutine(i, kind, type, s, code, addrs, cl) ==
    [id |-> i, kind |-> kind, server |-> s, secret |-> code, via |-> cl,
     addrs |-> addrs, type |-> type, step |-> IF cl = None THEN "connect" ELSE "send",
     tried |-> 0]

\* The answer of a sync with nothing to watch: no request is sent at all.
EmptySnapshot(s) == [server |-> s, addrs |-> {}]

\* MainViewModel.sync called when the store is st, the screen u, the client cl
\* and the other coroutines ts.  It is dropped while another sync is shown to
\* run, and ends at once when it need not suspend.
CallSync(st, u, cl, ts) ==
    IF u.syncing \/ st.server = None
    THEN ui' = u /\ tasks' = ts /\ UNCHANGED started
    ELSE IF cl # None /\ st.targets = {}
    THEN ui' = [u EXCEPT !.snapshot = EmptySnapshot(st.server)] /\ tasks' = ts /\ UNCHANGED started
    ELSE /\ started' = started + 1
         /\ ui' = [u EXCEPT !.syncing = TRUE]
         /\ tasks' = ts \cup {Coroutine(started', "sync", "watch", st.server, 0, st.targets, cl)}

\* Mutant: the screen stays as it is.
EndUnpairKeepsScreen(t) ==
    /\ store' = [store EXCEPT !.server = None]
    /\ client' = None
    /\ ui' = [ui EXCEPT !.busy = FALSE]
    /\ tasks' = tasks \ {t}
    /\ UNCHANGED started

\* MainViewModel.unpair after WalletRepository.unpair, which forgets the server
\* whatever became of its request.
EndUnpair(t) ==
    /\ store' = [store EXCEPT !.server = None]
    /\ client' = None
    /\ ui' = FirstScreen([server |-> None, targets |-> {}])
    /\ tasks' = tasks \ {t}
    /\ UNCHANGED started

\* Mutant: the failure of a sync is shown and the flag forgotten.
FailKeepsSyncing(t) ==
    \/ /\ t.kind = "unpair"
       /\ EndUnpair(t)
    \/ /\ t.kind \in {"pair", "sync"}
       /\ ui' = [ui EXCEPT !.busy = IF t.kind = "pair" THEN FALSE ELSE @]
       /\ tasks' = tasks \ {t}
       /\ UNCHANGED <<store, client, started>>

\* An exception leaves request or ensureClient.
Fail(t) ==
    \/ /\ t.kind = "unpair"
       /\ EndUnpair(t)
    \/ /\ t.kind \in {"pair", "sync"}
       /\ ui' = [ui EXCEPT !.busy = IF t.kind = "pair" THEN FALSE ELSE @,
                           !.syncing = IF t.kind = "sync" THEN FALSE ELSE @]
       /\ tasks' = tasks \ {t}
       /\ UNCHANGED <<store, client, started>>

\* WalletRepository.pair and MainViewModel.pair once the server accepted: the
\* server is stored, shown and synced with.
EndPair(t) ==
    /\ store' = [store EXCEPT !.server = t.server]
    /\ CallSync(store', [ui EXCEPT !.busy = FALSE, !.paired = TRUE, !.server = t.server],
                client, tasks \ {t})
    /\ UNCHANGED client

\* Mutant: the targets are read again for every request.
NextRequestRereads(t, type) ==
    /\ tasks' = (tasks \ {t}) \cup {[t EXCEPT !.type = type, !.step = "send", !.tried = 0,
                                              !.addrs = store.targets]}
    /\ UNCHANGED <<store, ui, client, started>>

\* WalletRepository.sync goes on to its next request, for the same addresses.
NextRequest(t, type) ==
    /\ tasks' = (tasks \ {t}) \cup {[t EXCEPT !.type = type, !.step = "send", !.tried = 0]}
    /\ UNCHANGED <<store, ui, client, started>>

\* The snapshot is shown, whatever the screen shows by now.
EndSync(t) ==
    /\ ui' = [ui EXCEPT !.syncing = FALSE,
                        !.snapshot = [server |-> t.server, addrs |-> t.addrs]]
    /\ tasks' = tasks \ {t}
    /\ UNCHANGED <<store, client, started>>

\* The result of a request reaches the coroutine.
Succeed(t) ==
    \/ t.type = "pair" /\ EndPair(t)
    \/ t.type = "unpair" /\ EndUnpair(t)
    \/ t.type = "watch" /\ NextRequest(t, "balance")
    \/ t.type = "balance" /\ NextRequest(t, "history")
    \/ t.type = "history" /\ EndSync(t)
-----------------------------------------------------------------------------
(* The user *)

Tap == taps < MaxTaps /\ taps' = taps + 1

Launch(kind, s, code) ==
    /\ started' = started + 1
    /\ tasks' = tasks \cup {Coroutine(started', kind, kind, s, code, {}, client)}

\* A QR of server s is scanned or pasted.  The button is off while busy, but a
\* scanner opened before goes on and may find a code: two coroutines at most.
\* A payload that parsePayload refuses changes nothing.
Pair(s) ==
    /\ Tap
    /\ ~ui.paired
    /\ ui.busy => Cardinality({t \in tasks : t.kind = "pair"}) = 1
    /\ Launch("pair", s, secret[s])
    /\ ui' = [ui EXCEPT !.busy = TRUE]
    /\ UNCHANGED <<store, client, wire, remoteVars, faults, mishaps>>

\* The button stays on: a second tap launches a second coroutine.
Unpair ==
    /\ Tap
    /\ ui.paired /\ store.server # None
    /\ Launch("unpair", store.server, 0)
    /\ ui' = [ui EXCEPT !.busy = TRUE]
    /\ UNCHANGED <<store, client, wire, remoteVars, faults, mishaps>>

AddTarget(a) ==
    /\ Tap
    /\ ui.paired
    /\ store' = [store EXCEPT !.targets = @ \cup {a}]
    /\ CallSync(store', [ui EXCEPT !.targets = store'.targets], client, tasks)
    /\ UNCHANGED <<client, wire, remoteVars, faults, mishaps>>

RemoveTarget(a) ==
    /\ Tap
    /\ ui.paired /\ a \in ui.targets
    /\ store' = [store EXCEPT !.targets = @ \ {a}]
    /\ CallSync(store', [ui EXCEPT !.targets = store'.targets], client, tasks)
    /\ UNCHANGED <<client, wire, remoteVars, faults, mishaps>>

Sync ==
    /\ Tap
    /\ ui.paired /\ ~ui.syncing
    /\ CallSync(store, ui, client, tasks)
    /\ UNCHANGED <<store, client, wire, remoteVars, faults, mishaps>>
-----------------------------------------------------------------------------
(* Requests: NomadClient *)

Fault == faults < MaxFaults /\ faults' = faults + 1

Of(r, t) == r.id = t.id /\ r.type = t.type

\* NomadClient.connect returned: this client replaces one that another
\* coroutine may have made meanwhile, and a sync reads its addresses.
Connect(t) ==
    /\ t.step = "connect"
    /\ client' = t.server
    /\ LET ready == [t EXCEPT !.via = t.server, !.step = "send",
                              !.addrs = IF t.kind = "sync" THEN store.targets ELSE {}]
       IN IF t.kind = "sync" /\ ready.addrs = {}
          THEN /\ ui' = [ui EXCEPT !.syncing = FALSE, !.snapshot = EmptySnapshot(t.server)]
               /\ tasks' = tasks \ {t}
          ELSE tasks' = (tasks \ {t}) \cup {ready} /\ UNCHANGED ui
    /\ UNCHANGED <<store, started, wire, remoteVars, taps, faults, mishaps>>

ConnectFails(t) ==
    /\ t.step = "connect"
    /\ Fault
    /\ Fail(t)
    /\ UNCHANGED <<wire, remoteVars, taps, mishaps>>

Published(t) ==
    IF \E r \in wire : Of(r, t)
    THEN wire       \* the same envelope again
    ELSE wire \cup {[id |-> t.id, type |-> t.type, server |-> t.server, via |-> t.via,
                     secret |-> t.secret, addrs |-> t.addrs, status |-> "sent"]}

\* client.giftWrap hands the wrap to the relays.
Send(t) ==
    /\ t.step = "send"
    /\ wire' = Published(t)
    /\ tasks' = (tasks \ {t}) \cup {[t EXCEPT !.step = "sent", !.tried = @ + 1]}
    /\ UNCHANGED <<store, ui, client, started, remoteVars, taps, faults, mishaps>>

\* client.giftWrap throws, and no attempt is left; a relay may have the wrap.
SendFails(t) ==
    /\ t.step = "send"
    /\ Fault
    /\ Fail(t)
    /\ wire' \in {wire, Published(t)}
    /\ UNCHANGED <<remoteVars, taps, mishaps>>

\* giftWrap returned; only now are the notifications collected.
Listen(t) ==
    /\ t.step = "sent"
    /\ tasks' = (tasks \ {t}) \cup {[t EXCEPT !.step = "await"]}
    /\ UNCHANGED <<store, ui, client, started, wire, remoteVars, taps, faults, mishaps>>

\* Mutant: one attempt too many.
TimeOutOnceMore(t) ==
    /\ t.step = "await"
    /\ \/ /\ t.tried <= Attempts
          /\ tasks' = (tasks \ {t}) \cup {[t EXCEPT !.step = "send"]}
          /\ UNCHANGED <<store, ui, client, started, wire>>
       \/ /\ t.tried > Attempts
          /\ Fail(t)
          /\ wire' = {r \in wire : ~(Of(r, t) /\ r.status = "over")}
    /\ UNCHANGED <<remoteVars, taps, faults, mishaps>>

\* The attempt times out; after the last, request throws.
TimeOut(t) ==
    /\ t.step = "await"
    /\ \/ /\ t.tried < Attempts
          /\ tasks' = (tasks \ {t}) \cup {[t EXCEPT !.step = "send"]}
          /\ UNCHANGED <<store, ui, client, started, wire>>
       \/ /\ t.tried = Attempts
          /\ Fail(t)
          /\ wire' = {r \in wire : ~(Of(r, t) /\ r.status = "over")}
    /\ UNCHANGED <<remoteVars, taps, faults, mishaps>>

\* Mutant: the answer's id counts and its ok does not.
HearAny(r) ==
    /\ r.status \in {"ok", "error"}
    /\ \E t \in tasks :
         /\ Of(r, t) /\ t.step = "await"
         /\ Succeed(t)
         /\ wire' = wire \ {r}
    /\ UNCHANGED <<remoteVars, taps, faults, mishaps>>

\* An answer of its server (parseResponse asks who sent it, and nobody else was
\* told the id) reaches the client, once: the coroutine that awaits it goes on,
\* and without one it is lost.
Hear(r) ==
    /\ r.status \in {"ok", "error"}
    /\ \/ \E t \in tasks :
            /\ Of(r, t) /\ t.step = "await"
            /\ IF r.status = "ok" THEN Succeed(t) ELSE Fail(t)
            /\ wire' = wire \ {r}
       \/ /\ ~\E t \in tasks : Of(r, t) /\ t.step = "await"
          /\ wire' = (wire \ {r}) \cup
                     {[r EXCEPT !.status = "over"] : t \in {u \in tasks : Of(r, u)}}
          /\ UNCHANGED appVars
    /\ UNCHANGED <<remoteVars, taps, faults, mishaps>>
-----------------------------------------------------------------------------
(* The servers, and what may go wrong *)

\* What the handlers ask before they act.
Admits(r) == IF r.type = "pair"
             THEN r.server \notin paired /\ r.secret = secret[r.server]
             ELSE r.server \in paired

\* The server obeys request r; an unpairing that fails stops before the watch set.
Obeys(r, answer) ==
    /\ Admits(r)
    /\ secret' = [secret EXCEPT ![r.server] = IF r.type = "pair" THEN @ + 1 ELSE @]
    /\ granted' = granted \cup {s \in {r.server} : r.type = "pair"}
    /\ asserted' = asserted \cup
                   {x \in {[server |-> r.server, addrs |-> r.addrs]} : r.type = "watch"}
    /\ \/ K!Carry(r.server, Serving(r), r.addrs, answer = "ok")
       \/ r.type = "unpair" /\ answer = "error" /\ K!Drop(r.server)

\* A request arrives at its server, if it was published to its relays; it is
\* obeyed, or refused without effect.  Only failing writes make the server
\* answer an error for what it did or leave open what its restart brings back.
Serve(r) ==
    /\ r.status = "sent" /\ r.via = r.server
    /\ \E answer \in {"ok", "error"} :
          /\ wire' = (wire \ {r}) \cup {[r EXCEPT !.status = answer]}
          /\ \/ /\ Obeys(r, answer)
                /\ IF answer = "ok" /\ unsure' \subseteq unsure /\ vague' \subseteq vague
                   THEN UNCHANGED faults
                   ELSE Fault
             \/ answer = "error" /\ UNCHANGED <<remoteVars, faults>>
    /\ UNCHANGED <<appVars, taps, mishaps>>

Mishap == mishaps < MaxMishaps /\ mishaps' = mishaps + 1

\* The owner of server s revokes the wallet.
Revoke(s) ==
    /\ Mishap
    /\ s \in paired
    /\ K!Drop(s)
    /\ UNCHANGED <<appVars, wire, secret, granted, asserted, taps, faults>>

\* Servers restart and find what they saved last.
ServerRestart ==
    /\ Mishap
    /\ unsure \cup vague # {}
    /\ K!Reload
    /\ UNCHANGED <<appVars, wire, secret, granted, asserted, taps, faults>>

\* Android kills the process, busy or idle; the user starts the app again.
Restart ==
    /\ Mishap
    /\ tasks' = {} /\ client' = None
    /\ ui' = FirstScreen(store)
    /\ wire' = {r \in wire : r.status # "over"}
    /\ UNCHANGED <<store, started, remoteVars, taps, faults>>
-----------------------------------------------------------------------------
User == \/ \E s \in Servers : Pair(s)
        \/ Unpair
        \/ \E a \in Addresses : AddTarget(a) \/ RemoveTarget(a)
        \/ Sync

Proceed(t) == Connect(t) \/ Send(t) \/ Listen(t) \/ TimeOut(t)

Next ==
    \/ User
    \/ \E t \in tasks : Proceed(t) \/ ConnectFails(t) \/ SendFails(t)
    \/ \E r \in wire : Hear(r) \/ Serve(r)
    \/ \E s \in Servers : Revoke(s)
    \/ ServerRestart
    \/ Restart

Spec == Init /\ [][Next]_vars

\* The main thread runs some coroutine that can run, giftWrap returns and time
\* passes; neither the relays nor a server nor the user need do anything.
FairSpec == Spec /\ WF_vars(\E t \in tasks : Proceed(t))
-----------------------------------------------------------------------------
(* Properties *)

\* The wallet believes in a pairing, and tells a server what it watches, only
\* when that server accepted a pairing: no timeout, late answer, answer to another
\* coroutine, restart or second coroutine makes it trust a server that refused it.
TrustsOnlyGranted ==
    /\ store.server # None => store.server \in granted
    /\ \A r \in wire : r.type # "pair" => r.server \in granted

\* The screen and the stored pairing agree between any two coroutine steps,
\* whichever pair, unpair and sync coroutines end in whichever order.
ScreenMatchesStore ==
    /\ ui.paired <=> store.server # None
    /\ ui.server = store.server
    /\ ui.targets \subseteq store.targets

\* A snapshot on the screen is of addresses that its server took over as the
\* watch set, all of them and no others, although targets change during a sync.
SnapshotIsWatched ==
    ui.snapshot # None =>
        ui.snapshot.addrs = {} \/ ui.snapshot \in asserted

\* Whatever is lost, the app never shows "busy" or "syncing" for good.
ScreenComesBack == []<>~ui.busy /\ []<>~ui.syncing

\* "One persistent notification stream (never drop/recreate between attempts -
\* events arriving in the gap are lost)": no coroutine waits for, or sends
\* again, a request whose answer the client was already handed.
AnswersAreHeard ==
    \A t \in tasks, r \in wire : Of(r, t) /\ t.step \in {"send", "await"} => r.status # "over"
=============================================================================
