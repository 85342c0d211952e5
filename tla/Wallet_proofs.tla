---------------------------- MODULE Wallet_proofs ----------------------------
(***************************************************************************)
(* For every number of servers, addresses, attempts, taps and failures:    *)
(* the wallet app is type correct, trusts only servers that accepted it,   *)
(* shows what is stored, and shows balances of what its server watches.    *)
(*                                                                         *)
(* The invariant follows a coroutine from its tap to its end.  An answer   *)
(* is matched by id and type alone, so what it vouches for must be what    *)
(* the coroutine asked: whatever is on the relays under a coroutine's id   *)
(* names its server and its addresses, which do not change once it is      *)
(* connected.                                                              *)
(***************************************************************************)
EXTENDS Wallet, TLAPS

Asserted(x) == [server |-> x.server, addrs |-> x.addrs] \in asserted

\* A coroutine that may be running.
GoodTask(t) ==
    /\ t \in Tasks /\ t.id \in 1..started
    /\ t.step = "connect" <=> t.via = None
    /\ t.step \in {"connect", "send"} => t.tried < Attempts
    /\ IF t.kind = "sync" THEN t.type \in {"watch", "balance", "history"}
                          ELSE t.type = t.kind /\ t.addrs = {}
    /\ t.kind # "pair" => t.server \in granted
    /\ t.type \in {"balance", "history"} => t.step # "connect" /\ Asserted(t)

\* A request or an answer that may be on the relays.
GoodWrap(r) ==
    /\ r \in Wraps /\ r.id \in 1..started
    /\ r.type # "pair" \/ r.status = "ok" => r.server \in granted
    /\ r.type = "watch" /\ r.status = "ok" => Asserted(r)

\* What is on the relays under a coroutine's id is its own.
Match(r, t) ==
    r.id = t.id => t.step # "connect" /\ r.server = t.server /\ r.addrs = t.addrs

TasksInv ==
    /\ started \in Nat
    /\ \A t \in tasks : GoodTask(t)
    /\ \A t, u \in tasks : t.id = u.id => t = u
    /\ \A r \in wire : GoodWrap(r)
    /\ \A r \in wire, t \in tasks : Match(r, t)

AppInv ==
    /\ store \in [server : Servers \cup {None}, targets : SUBSET Addresses]
    /\ ui \in Screens
    /\ client \in Servers \cup {None}
    /\ store.server # None => store.server \in granted
    /\ ScreenMatchesStore
    /\ SnapshotIsWatched

RemoteInv ==
    /\ watch \in [Servers -> SUBSET Addresses]
    /\ secret \in [Servers -> Nat]
    /\ paired \subseteq granted /\ granted \subseteq Servers
    /\ unsure \subseteq Servers /\ vague \subseteq Servers
    /\ asserted \subseteq Snapshots

BoundsInv == taps \in 0..MaxTaps /\ faults \in 0..MaxFaults /\ mishaps \in 0..MaxMishaps

WalletInv == TasksInv /\ AppInv /\ RemoteInv /\ BoundsInv

LEMMA InvImplies ==
    WalletInv => TypeOK /\ TrustsOnlyGranted /\ ScreenMatchesStore /\ SnapshotIsWatched
  BY DEF WalletInv, TasksInv, AppInv, RemoteInv, BoundsInv, GoodTask, GoodWrap, TypeOK,
         TrustsOnlyGranted

LEMMA InitInv == Init => WalletInv
<1> SUFFICES ASSUME Init PROVE WalletInv
  OBVIOUS
<1>1. TasksInv
  BY DEF Init, TasksInv
<1>2. ui = [paired |-> FALSE, server |-> None, targets |-> {}, snapshot |-> None,
            syncing |-> FALSE, busy |-> FALSE]
  BY DEF Init, FirstScreen
<1>3. store = [server |-> None, targets |-> {}] /\ client = None
  BY DEF Init
<1>4. AppInv
  <2>1. store.server = None /\ store.targets = {} /\ ui.server = None /\ ui.paired = FALSE
        /\ ui.targets = {} /\ ui.snapshot = None
    BY <1>2, <1>3
  <2>2. store \in [server : Servers \cup {None}, targets : SUBSET Addresses]
    BY <1>3
  <2>3. ui \in Screens
    BY <1>2 DEF Screens
  <2> QED
    BY <1>3, <2>1, <2>2, <2>3 DEF AppInv, ScreenMatchesStore, SnapshotIsWatched
<1>5. RemoteInv /\ BoundsInv
  BY WalletAssumption DEF Init, K!Init, RemoteInv, BoundsInv
<1> QED
  BY <1>1, <1>4, <1>5 DEF WalletInv
-----------------------------------------------------------------------------
(* Steps of the coroutines and the relays *)

\* Histories grow, and whatever was good stays so.
LEMMA StaysGood ==
    ASSUME started \in Nat, started' \in Nat, started <= started',
           granted \subseteq granted', asserted \subseteq asserted'
    PROVE  /\ \A t : GoodTask(t) => GoodTask(t)'
           /\ \A r : GoodWrap(r) => GoodWrap(r)'
  BY DEF GoodTask, GoodWrap, Asserted

\* It is enough to look at the coroutines and wraps that are new.
LEMMA TasksStep ==
    ASSUME TasksInv, started' \in Nat, started <= started',
           granted \subseteq granted', asserted \subseteq asserted',
           \A t \in tasks' \ tasks :
              /\ GoodTask(t)'
              /\ \A u \in tasks' : u.id = t.id => u = t
              /\ \A r \in wire' : Match(r, t),
           \A r \in wire' \ wire : GoodWrap(r)' /\ \A t \in tasks' : Match(r, t)
    PROVE  TasksInv'
<1>1. \A t : GoodTask(t) => GoodTask(t)'
  BY StaysGood DEF TasksInv
<1>2. \A r : GoodWrap(r) => GoodWrap(r)'
  BY StaysGood DEF TasksInv
<1>3. \A t \in tasks' : GoodTask(t)'
  BY <1>1 DEF TasksInv
<1>4. \A r \in wire' : GoodWrap(r)'
  BY <1>2 DEF TasksInv
<1>5. \A t, u \in tasks' : t.id = u.id => t = u
  BY DEF TasksInv
<1>6. \A r \in wire', t \in tasks' : Match(r, t)
  BY DEF TasksInv
<1> QED
  BY <1>3, <1>4, <1>5, <1>6 DEF TasksInv, Match

\* Coroutines end; wraps disappear, are marked over, or are left without one.
LEMMA EndStep ==
    ASSUME TasksInv, UNCHANGED <<started, granted, asserted>>, tasks' \subseteq tasks,
           \A r \in wire' \ wire :
              \/ \E q \in wire : r = [q EXCEPT !.status = "over"]
              \/ GoodWrap(r)' /\ \A t \in tasks' : t.id # r.id
    PROVE  TasksInv'
<1>1. ASSUME NEW q \in wire, NEW r, r = [q EXCEPT !.status = "over"]
      PROVE  GoodWrap(r)' /\ r.id = q.id /\ r.server = q.server /\ r.addrs = q.addrs
  <2>1. GoodWrap(q)
    BY DEF TasksInv
  <2>2. /\ r \in Wraps /\ r.id = q.id /\ r.server = q.server /\ r.addrs = q.addrs
        /\ r.type = q.type /\ r.status = "over"
    BY <1>1, <2>1 DEF GoodWrap, Wraps
  <2> QED
    BY <2>1, <2>2 DEF GoodWrap
<1>2. ASSUME NEW r \in wire' \ wire PROVE GoodWrap(r)' /\ \A t \in tasks' : Match(r, t)
  <2>1. CASE GoodWrap(r)' /\ \A t \in tasks' : t.id # r.id
    BY <2>1 DEF Match
  <2>2. CASE \E q \in wire : r = [q EXCEPT !.status = "over"]
    <3>1. PICK q \in wire : r = [q EXCEPT !.status = "over"]
      BY <2>2
    <3>2. \A t \in tasks' : Match(q, t)
      BY DEF TasksInv
    <3>3. GoodWrap(r)' /\ r.id = q.id /\ r.server = q.server /\ r.addrs = q.addrs
      BY <1>1, <3>1
    <3> QED
      BY <3>2, <3>3 DEF Match
  <2> QED
    BY <2>1, <2>2
<1>3. \A t \in tasks' \ tasks : FALSE
  OBVIOUS
<1> QED
  BY <1>2, <1>3, TasksStep DEF TasksInv

\* A coroutine is launched, and another may end.
LEMMA LaunchStep ==
    ASSUME TasksInv, NEW t, GoodTask(t)', t.id = started + 1, started' = started + 1,
           NEW ts, ts \subseteq tasks, tasks' = ts \cup {t},
           UNCHANGED <<granted, asserted>>, wire' \subseteq wire
    PROVE  TasksInv'
<1>1. started \in Nat /\ started' \in Nat /\ started <= started'
  BY DEF TasksInv
<1>2. \A u \in tasks : u.id \in 1..started
  BY DEF TasksInv, GoodTask
<1>3. \A r \in wire : r.id \in 1..started
  BY DEF TasksInv, GoodWrap
<1>4. \A u \in tasks' : u.id = t.id => u = t
  BY <1>1, <1>2
<1>5. \A r \in wire' : Match(r, t)
  BY <1>1, <1>3 DEF Match
<1>6. \A r \in wire' \ wire : FALSE
  OBVIOUS
<1> QED
  BY <1>1, <1>4, <1>5, <1>6, TasksStep

\* A coroutine goes on as u; wraps may disappear, or be published by it.
LEMMA GoOnStep ==
    ASSUME TasksInv, NEW t \in tasks, NEW u, GoodTask(u)', u.id = t.id, u.server = t.server,
           t.step # "connect" => u.addrs = t.addrs, u.step # "connect",
           tasks' = (tasks \ {t}) \cup {u},
           UNCHANGED <<started, granted, asserted>>,
           \A r \in wire' \ wire : GoodWrap(r)' /\ r.id = u.id /\ r.server = u.server
                                   /\ r.addrs = u.addrs
    PROVE  TasksInv'
<1>1. \A v \in tasks' : v.id = u.id => v = u
  BY DEF TasksInv
<1>2. \A r \in wire' : Match(r, u)
  BY DEF TasksInv, Match
<1>3. \A r \in wire' \ wire : \A v \in tasks' : Match(r, v)
  BY <1>1, <1>2 DEF Match
<1> QED
  BY <1>1, <1>2, <1>3, TasksStep DEF TasksInv
-----------------------------------------------------------------------------
(* The ends of coroutines and the calls of sync *)

Stores == [server : Servers \cup {None}, targets : SUBSET Addresses]

\* A coroutine just launched is good.
LEMMA LaunchedGood ==
    ASSUME TasksInv, started' = started + 1,
           NEW kind \in {"pair", "unpair", "sync"}, NEW type \in Types,
           IF kind = "sync" THEN type = "watch" ELSE type = kind,
           NEW s \in Servers, kind # "pair" => s \in granted', NEW code \in Nat,
           NEW addrs \in SUBSET Addresses, kind # "sync" => addrs = {},
           NEW cl \in Servers \cup {None},
           NEW t, t = Coroutine(started', kind, type, s, code, addrs, cl)
    PROVE  GoodTask(t)' /\ t.id = started + 1
<1>1. t = [id |-> started', kind |-> kind, server |-> s, secret |-> code, via |-> cl,
           addrs |-> addrs, type |-> type,
           step |-> IF cl = None THEN "connect" ELSE "send", tried |-> 0]
  BY DEF Coroutine
<1>2. started' \in Nat /\ started' \in 1..started' /\ 0 \in 0..Attempts /\ 0 < Attempts
  BY WalletAssumption DEF TasksInv
<1>3. t \in Tasks
  BY <1>1, <1>2 DEF Tasks
<1>4. t.step = "connect" <=> t.via = None
  BY <1>1
<1>5. t.type \notin {"balance", "history"}
  BY <1>1
<1>6. /\ t.id = started' /\ t.tried = 0 /\ t.kind = kind /\ t.type = type
      /\ t.addrs = addrs /\ t.server = s
  BY <1>1
<1>7. IF t.kind = "sync" THEN t.type \in {"watch", "balance", "history"}
                           ELSE t.type = t.kind /\ t.addrs = {}
  BY <1>6
<1>8. t.kind # "pair" => t.server \in granted'
  BY <1>6
<1>9. GoodTask(t)'
  BY <1>2, <1>3, <1>4, <1>5, <1>6, <1>7, <1>8 DEF GoodTask
<1> QED
  BY <1>6, <1>9

\* What a call of sync may do.
LEMMA SyncStep ==
    ASSUME TasksInv, NEW st \in Stores, NEW u \in Screens, NEW cl \in Servers \cup {None},
           NEW ts, ts \subseteq tasks, CallSync(st, u, cl, ts),
           store' = st, client' = cl, wire' \subseteq wire, UNCHANGED <<granted, asserted>>,
           st.server # None => st.server \in granted,
           u.paired <=> st.server # None, u.server = st.server, u.targets \subseteq st.targets,
           u.snapshot # None => u.snapshot.addrs = {} \/ u.snapshot \in asserted
    PROVE  TasksInv' /\ AppInv'
<1>1. CASE u.syncing \/ st.server = None
  <2>1. ui' = u /\ tasks' = ts /\ started' = started
    BY <1>1 DEF CallSync
  <2>2. AppInv'
    BY <2>1 DEF AppInv, ScreenMatchesStore, SnapshotIsWatched, Stores
  <2> QED
    BY <2>1, <2>2, EndStep
<1>2. CASE ~(u.syncing \/ st.server = None) /\ cl # None /\ st.targets = {}
  <2>1. /\ ui' = [u EXCEPT !.snapshot = EmptySnapshot(st.server)]
        /\ tasks' = ts /\ started' = started
    BY <1>2 DEF CallSync
  <2>2. EmptySnapshot(st.server) = [server |-> st.server, addrs |-> {}] /\ st.server \in Servers
    BY <1>2 DEF EmptySnapshot, Stores
  <2>3. EmptySnapshot(st.server) \in Snapshots /\ EmptySnapshot(st.server).addrs = {}
    BY <2>2 DEF Snapshots
  <2>4. /\ ui' \in Screens /\ ui'.snapshot = EmptySnapshot(st.server)
        /\ ui'.paired = u.paired /\ ui'.server = u.server /\ ui'.targets = u.targets
    BY <2>1, <2>3 DEF Screens
  <2>5. AppInv'
    BY <2>3, <2>4 DEF AppInv, ScreenMatchesStore, SnapshotIsWatched, Stores
  <2> QED
    BY <2>1, <2>5, EndStep
<1>3. CASE ~(u.syncing \/ st.server = None) /\ ~(cl # None /\ st.targets = {})
  <2> PICK t : t = Coroutine(started', "sync", "watch", st.server, 0, st.targets, cl)
    OBVIOUS
  <2>1. /\ started' = started + 1 /\ ui' = [u EXCEPT !.syncing = TRUE]
        /\ tasks' = ts \cup {t}
    BY <1>3 DEF CallSync
  <2>2. st.server \in Servers /\ st.targets \in SUBSET Addresses
    BY <1>3 DEF Stores
  <2>3. GoodTask(t)' /\ t.id = started + 1
    BY <1>3, <2>1, <2>2, LaunchedGood DEF Types
  <2>4. /\ ui' \in Screens /\ ui'.snapshot = u.snapshot
        /\ ui'.paired = u.paired /\ ui'.server = u.server /\ ui'.targets = u.targets
    BY <2>1 DEF Screens
  <2>5. AppInv'
    BY <2>4 DEF AppInv, ScreenMatchesStore, SnapshotIsWatched, Stores
  <2> QED
    BY <2>1, <2>3, <2>5, LaunchStep
<1> QED
  BY <1>1, <1>2, <1>3

\* The wallet forgets its server.
LEMMA EndUnpairStep ==
    ASSUME AppInv, NEW t, EndUnpair(t), UNCHANGED <<granted, asserted>>
    PROVE  AppInv' /\ tasks' = tasks \ {t} /\ started' = started
<1>1. store' = [store EXCEPT !.server = None] /\ client' = None
  BY DEF EndUnpair
<1>2. ui' = [paired |-> FALSE, server |-> None, targets |-> {}, snapshot |-> None,
             syncing |-> FALSE, busy |-> FALSE]
  BY DEF EndUnpair, FirstScreen
<1>3. store' \in Stores /\ store'.server = None
  BY <1>1 DEF AppInv, Stores
<1>4. /\ ui'.paired = FALSE /\ ui'.server = None /\ ui'.targets = {} /\ ui'.snapshot = None
  BY <1>2
<1>5. ui' \in Screens
  BY <1>2 DEF Screens
<1> QED
  BY <1>1, <1>3, <1>4, <1>5 DEF AppInv, Stores, ScreenMatchesStore, SnapshotIsWatched, EndUnpair

\* A coroutine fails: it ends, and leaves store and screen in agreement.
LEMMA FailStep ==
    ASSUME AppInv, NEW t, Fail(t), UNCHANGED <<granted, asserted>>
    PROVE  AppInv' /\ tasks' = tasks \ {t} /\ started' = started
<1>1. CASE t.kind = "unpair" /\ EndUnpair(t)
  BY <1>1, EndUnpairStep
<1>2. CASE t.kind \in {"pair", "sync"}
  <2>1. /\ ui' = [ui EXCEPT !.busy = IF t.kind = "pair" THEN FALSE ELSE @,
                            !.syncing = IF t.kind = "sync" THEN FALSE ELSE @]
        /\ tasks' = tasks \ {t} /\ UNCHANGED <<store, client, started>>
    BY <1>2 DEF Fail
  <2>2. ui \in Screens
    BY DEF AppInv
  <2>3. /\ ui' \in Screens /\ ui'.snapshot = ui.snapshot /\ ui'.paired = ui.paired
        /\ ui'.server = ui.server /\ ui'.targets = ui.targets
    BY <2>1, <2>2 DEF Screens
  <2> QED
    BY <2>1, <2>3 DEF AppInv, ScreenMatchesStore, SnapshotIsWatched
<1> QED
  BY <1>1, <1>2 DEF Fail

\* The server accepted: the wallet stores and shows it.
LEMMA EndPairStep ==
    ASSUME TasksInv, AppInv, NEW t \in tasks, t.server \in granted, EndPair(t),
           wire' \subseteq wire, UNCHANGED <<granted, asserted>>
    PROVE  TasksInv' /\ AppInv'
<1> DEFINE u == [ui EXCEPT !.busy = FALSE, !.paired = TRUE, !.server = t.server]
<1>1. t.server \in Servers
  BY DEF TasksInv, GoodTask, Tasks
<1>2. store' = [store EXCEPT !.server = t.server]
  BY DEF EndPair
<1>3. store' \in Stores /\ store'.server = t.server /\ store'.targets = store.targets
  BY <1>1, <1>2 DEF AppInv, Stores
<1>4. /\ u \in Screens /\ u.paired = TRUE /\ u.server = t.server /\ u.targets = ui.targets
      /\ u.snapshot = ui.snapshot
  BY <1>1 DEF AppInv, Screens
<1>5. CallSync(store', u, client, tasks \ {t}) /\ client' = client
  BY DEF EndPair
<1>6. t.server # None
  BY <1>1, WalletAssumption
<1>7. /\ u.paired <=> store'.server # None
      /\ u.targets \subseteq store'.targets
      /\ u.snapshot # None => u.snapshot.addrs = {} \/ u.snapshot \in asserted
  BY <1>3, <1>4, <1>6 DEF AppInv, ScreenMatchesStore, SnapshotIsWatched
<1> HIDE DEF u
<1> QED
  BY <1>3, <1>4, <1>5, <1>7, SyncStep DEF AppInv

\* A sync goes on to its next request once the watch set was taken over.
LEMMA NextRequestStep ==
    ASSUME TasksInv, AppInv, NEW t \in tasks, t.kind = "sync", t.step = "await", Asserted(t),
           NEW type \in {"balance", "history"}, NextRequest(t, type),
           wire' \subseteq wire, UNCHANGED <<granted, asserted>>
    PROVE  TasksInv' /\ AppInv'
<1> DEFINE u == [t EXCEPT !.type = type, !.step = "send", !.tried = 0]
<1>1. t \in Tasks /\ t.id \in 1..started /\ t.via # None /\ t.server \in granted
  BY DEF TasksInv, GoodTask
<1>2. u \in Tasks
  <2>1. 0 \in 0..Attempts /\ type \in Types
    BY WalletAssumption DEF Types
  <2> QED
    BY <1>1, <2>1 DEF Tasks
<1>3. /\ u.id = t.id /\ u.server = t.server /\ u.addrs = t.addrs /\ u.via = t.via
      /\ u.kind = "sync" /\ u.type = type /\ u.step = "send" /\ u.tried = 0
  BY <1>1 DEF Tasks
<1>4. tasks' = (tasks \ {t}) \cup {u} /\ UNCHANGED <<store, ui, client, started>>
  BY DEF NextRequest
<1> HIDE DEF u
<1>5. GoodTask(u)
  BY <1>1, <1>2, <1>3, WalletAssumption DEF GoodTask, Asserted
<1>6. GoodTask(u)'
  BY <1>4, <1>5 DEF GoodTask, Asserted
<1>7. TasksInv'
  BY <1>3, <1>4, <1>6, GoOnStep
<1>8. AppInv'
  BY <1>4 DEF AppInv, ScreenMatchesStore, SnapshotIsWatched
<1> QED
  BY <1>7, <1>8

\* A sync shows what it was told.
LEMMA EndSyncStep ==
    ASSUME TasksInv, AppInv, NEW t \in tasks, Asserted(t), EndSync(t),
           wire' \subseteq wire, UNCHANGED <<granted, asserted>>
    PROVE  TasksInv' /\ AppInv'
<1>1. [server |-> t.server, addrs |-> t.addrs] \in Snapshots
  BY DEF TasksInv, GoodTask, Tasks, Snapshots
<1>2. /\ ui' = [ui EXCEPT !.syncing = FALSE,
                          !.snapshot = [server |-> t.server, addrs |-> t.addrs]]
      /\ tasks' = tasks \ {t} /\ UNCHANGED <<store, client, started>>
  BY DEF EndSync
<1>3. /\ ui' \in Screens /\ ui'.snapshot = [server |-> t.server, addrs |-> t.addrs]
      /\ ui'.paired = ui.paired /\ ui'.server = ui.server /\ ui'.targets = ui.targets
  BY <1>1, <1>2 DEF AppInv, Screens
<1>4. AppInv'
  BY <1>2, <1>3 DEF AppInv, ScreenMatchesStore, SnapshotIsWatched, Asserted
<1> QED
  BY <1>2, <1>4, EndStep

\* An answer "ok" that its coroutine collects.
LEMMA SucceedStep ==
    ASSUME TasksInv, AppInv, NEW t \in tasks, NEW r \in wire, Of(r, t), t.step = "await",
           r.status = "ok", Succeed(t), wire' \subseteq wire, UNCHANGED <<granted, asserted>>
    PROVE  TasksInv' /\ AppInv'
<1>1. /\ r.type = t.type /\ r.server = t.server /\ r.addrs = t.addrs
      /\ r.server \in granted /\ (r.type = "watch" => Asserted(r))
  BY DEF TasksInv, GoodWrap, Match, Of
<1>2. t.server \in granted /\ (t.type = "watch" => Asserted(t))
  BY <1>1 DEF Asserted
<1>3. /\ t.type \in {"watch", "balance", "history"} => t.kind = "sync"
      /\ t.type \in {"balance", "history"} => Asserted(t)
  BY DEF TasksInv, GoodTask, Tasks
<1>4. CASE t.type = "pair" /\ EndPair(t)
  BY <1>2, <1>4, EndPairStep
<1>5. CASE t.type = "unpair" /\ EndUnpair(t)
  BY <1>5, EndUnpairStep, EndStep
<1>6. CASE t.type = "watch" /\ NextRequest(t, "balance")
  BY <1>2, <1>3, <1>6, NextRequestStep
<1>7. CASE t.type = "balance" /\ NextRequest(t, "history")
  BY <1>3, <1>7, NextRequestStep
<1>8. CASE t.type = "history" /\ EndSync(t)
  BY <1>3, <1>8, EndSyncStep
<1> QED
  BY <1>4, <1>5, <1>6, <1>7, <1>8 DEF Succeed
-----------------------------------------------------------------------------
(* The actions of the user, the coroutines and the relays *)

WInv == TasksInv /\ AppInv /\ RemoteInv

\* A coroutine is launched and the screen shows "busy".
LEMMA LaunchBusyStep ==
    ASSUME TasksInv, AppInv, NEW kind \in {"pair", "unpair"}, NEW s \in Servers,
           kind # "pair" => s \in granted, NEW code \in Nat, Launch(kind, s, code),
           ui' = [ui EXCEPT !.busy = TRUE], UNCHANGED <<store, client, wire, granted, asserted>>
    PROVE  TasksInv' /\ AppInv'
<1> PICK t : t = Coroutine(started', kind, kind, s, code, {}, client)
  OBVIOUS
<1>1. started' = started + 1 /\ tasks' = tasks \cup {t}
  BY DEF Launch
<1>2. client \in Servers \cup {None} /\ kind \in Types
  BY DEF AppInv, Types
<1>3. GoodTask(t)' /\ t.id = started + 1
  BY <1>1, <1>2, LaunchedGood
<1>4. TasksInv'
  BY <1>1, <1>3, LaunchStep
<1>5. /\ ui' \in Screens /\ ui'.snapshot = ui.snapshot /\ ui'.paired = ui.paired
      /\ ui'.server = ui.server /\ ui'.targets = ui.targets
  BY DEF AppInv, Screens
<1> QED
  BY <1>4, <1>5 DEF AppInv, ScreenMatchesStore, SnapshotIsWatched

LEMMA UserStep == WInv /\ User => TasksInv' /\ AppInv'
<1> SUFFICES ASSUME WInv, User PROVE TasksInv' /\ AppInv'
  OBVIOUS
<1> USE DEF WInv
<1>1. ASSUME NEW s \in Servers, Pair(s) PROVE TasksInv' /\ AppInv'
  <2>1. secret[s] \in Nat
    BY DEF RemoteInv
  <2> QED
    BY <1>1, <2>1, LaunchBusyStep DEF Pair, remoteVars
<1>2. CASE Unpair
  <2>1. store.server \in Servers /\ store.server \in granted /\ 0 \in Nat
    BY <1>2 DEF Unpair, AppInv
  <2> QED
    BY <1>2, <2>1, LaunchBusyStep DEF Unpair, remoteVars
<1>3. ASSUME NEW targets \in SUBSET Addresses, store' = [store EXCEPT !.targets = targets],
             CallSync(store', [ui EXCEPT !.targets = store'.targets], client, tasks),
             UNCHANGED <<client, wire, remoteVars>>
      PROVE  TasksInv' /\ AppInv'
  <2> DEFINE u == [ui EXCEPT !.targets = store'.targets]
  <2>1. store' \in Stores /\ store'.server = store.server /\ store'.targets = targets
    BY <1>3 DEF AppInv, Stores
  <2>2. /\ u \in Screens /\ u.targets = store'.targets /\ u.paired = ui.paired
        /\ u.server = ui.server /\ u.snapshot = ui.snapshot
    BY <2>1 DEF AppInv, Screens
  <2>3. CallSync(store', u, client, tasks)
    BY <1>3
  <2>4. /\ client \in Servers \cup {None} /\ client' = client /\ wire' = wire
        /\ UNCHANGED <<granted, asserted>>
    BY <1>3 DEF AppInv, remoteVars
  <2> HIDE DEF u
  <2>5. /\ u.paired <=> store'.server # None
        /\ u.server = store'.server /\ u.targets \subseteq store'.targets
        /\ store'.server # None => store'.server \in granted
        /\ u.snapshot # None => u.snapshot.addrs = {} \/ u.snapshot \in asserted
    BY <2>1, <2>2 DEF AppInv, ScreenMatchesStore, SnapshotIsWatched
  <2> QED
    BY <2>1, <2>2, <2>3, <2>4, <2>5, SyncStep
<1>4. ASSUME NEW a \in Addresses, AddTarget(a) PROVE TasksInv' /\ AppInv'
  <2>1. store.targets \cup {a} \in SUBSET Addresses
    BY DEF AppInv
  <2> QED
    BY <1>3, <1>4, <2>1 DEF AddTarget
<1>5. ASSUME NEW a \in Addresses, RemoveTarget(a) PROVE TasksInv' /\ AppInv'
  <2>1. store.targets \ {a} \in SUBSET Addresses
    BY DEF AppInv
  <2> QED
    BY <1>3, <1>5, <2>1 DEF RemoveTarget
<1>6. CASE Sync
  <2>1. store \in Stores /\ ui \in Screens /\ client \in Servers \cup {None}
    BY DEF AppInv, Stores
  <2>2. CallSync(store, ui, client, tasks) /\ UNCHANGED <<store, client, wire, granted, asserted>>
    BY <1>6 DEF Sync, remoteVars
  <2> QED
    BY <2>1, <2>2, SyncStep DEF AppInv, ScreenMatchesStore, SnapshotIsWatched
<1> QED
  BY <1>1, <1>2, <1>4, <1>5, <1>6 DEF User

\* The wrap a coroutine publishes is its own.
LEMMA PublishedGood ==
    ASSUME TasksInv, NEW t \in tasks, t.step = "send", NEW r \in Published(t) \ wire
    PROVE  GoodWrap(r) /\ r.id = t.id /\ r.server = t.server /\ r.addrs = t.addrs
<1>1. GoodTask(t) /\ t.via \in Servers
  BY DEF TasksInv, GoodTask, Tasks
<1>2. r = [id |-> t.id, type |-> t.type, server |-> t.server, via |-> t.via,
           secret |-> t.secret, addrs |-> t.addrs, status |-> "sent"]
  BY DEF Published
<1>3. r \in Wraps
  BY <1>1, <1>2 DEF GoodTask, Tasks, Wraps
<1>4. /\ r.id = t.id /\ r.server = t.server /\ r.addrs = t.addrs /\ r.type = t.type
      /\ r.status = "sent"
  BY <1>2
<1>5. t.type # "pair" => t.kind # "pair"
  BY <1>1 DEF GoodTask
<1> QED
  BY <1>1, <1>3, <1>4, <1>5 DEF GoodWrap, GoodTask

\* A coroutine goes on, for the same request.
LEMMA StepOn ==
    ASSUME TasksInv, AppInv, NEW t \in tasks, t.step # "connect",
           NEW step \in {"send", "sent", "await"}, NEW n \in 0..Attempts,
           step = "send" => n < Attempts,
           tasks' = (tasks \ {t}) \cup {[t EXCEPT !.step = step, !.tried = n]},
           UNCHANGED <<store, ui, client, started, granted, asserted>>,
           \A r \in wire' \ wire :
              GoodWrap(r)' /\ r.id = t.id /\ r.server = t.server /\ r.addrs = t.addrs
    PROVE  TasksInv' /\ AppInv'
<1> DEFINE u == [t EXCEPT !.step = step, !.tried = n]
<1>1. GoodTask(t)
  BY DEF TasksInv
<1>2. u \in Tasks
  BY <1>1 DEF GoodTask, Tasks
<1>3. /\ u.id = t.id /\ u.server = t.server /\ u.addrs = t.addrs /\ u.via = t.via
      /\ u.kind = t.kind /\ u.type = t.type /\ u.step = step /\ u.tried = n
  BY <1>1 DEF GoodTask, Tasks
<1>4. tasks' = (tasks \ {t}) \cup {u}
  OBVIOUS
<1> HIDE DEF u
<1>5. GoodTask(u)
  BY <1>1, <1>2, <1>3 DEF GoodTask, Asserted
<1>6. GoodTask(u)'
  BY <1>5 DEF GoodTask, Asserted
<1>7. TasksInv'
  BY <1>3, <1>4, <1>6, GoOnStep
<1>8. AppInv'
  BY DEF AppInv, ScreenMatchesStore, SnapshotIsWatched
<1> QED
  BY <1>7, <1>8

LEMMA ConnectStep ==
    ASSUME WInv, NEW t \in tasks, Connect(t)
    PROVE  TasksInv' /\ AppInv'
<1> USE DEF WInv
<1> PICK addrs \in SUBSET Addresses : addrs = IF t.kind = "sync" THEN store.targets ELSE {}
  BY DEF AppInv
<1> DEFINE u == [t EXCEPT !.via = t.server, !.step = "send", !.addrs = addrs]
<1>1. GoodTask(t) /\ t.step = "connect" /\ t.server \in Servers /\ t.server # None
  BY WalletAssumption DEF TasksInv, GoodTask, Tasks, Connect
<1>2. t.kind # "sync" => addrs = {}
  OBVIOUS
<1>3. client' = t.server /\ UNCHANGED <<store, started, wire, granted, asserted>>
  BY DEF Connect, remoteVars
<1>4. u \in Tasks
  BY <1>1, <1>2 DEF GoodTask, Tasks
<1>5. /\ u.id = t.id /\ u.server = t.server /\ u.addrs = addrs /\ u.via = t.server
      /\ u.kind = t.kind /\ u.type = t.type /\ u.step = "send" /\ u.tried = t.tried
  BY <1>1 DEF GoodTask, Tasks
<1>6. \/ tasks' = (tasks \ {t}) \cup {u} /\ ui' = ui
      \/ /\ ui' = [ui EXCEPT !.syncing = FALSE, !.snapshot = EmptySnapshot(t.server)]
         /\ tasks' = tasks \ {t}
  BY DEF Connect
<1>7. \A r \in wire : r.id # t.id
  BY <1>1 DEF TasksInv, Match
<1> HIDE DEF u
<1>8. CASE tasks' = (tasks \ {t}) \cup {u} /\ ui' = ui
  <2>1. t.type \notin {"balance", "history"}
    BY <1>1 DEF GoodTask
  <2>2. GoodTask(u)'
    BY <1>1, <1>2, <1>3, <1>4, <1>5, <2>1 DEF GoodTask
  <2>3. TasksInv'
    BY <1>1, <1>3, <1>5, <1>8, <2>2, GoOnStep
  <2> QED
    BY <1>1, <1>3, <1>8, <2>3 DEF AppInv, ScreenMatchesStore, SnapshotIsWatched
<1>9. CASE /\ ui' = [ui EXCEPT !.syncing = FALSE, !.snapshot = EmptySnapshot(t.server)]
           /\ tasks' = tasks \ {t}
  <2>1. EmptySnapshot(t.server) \in Snapshots /\ EmptySnapshot(t.server).addrs = {}
    BY <1>1 DEF EmptySnapshot, Snapshots
  <2>2. /\ ui' \in Screens /\ ui'.snapshot = EmptySnapshot(t.server)
        /\ ui'.paired = ui.paired /\ ui'.server = ui.server /\ ui'.targets = ui.targets
    BY <1>9, <2>1 DEF AppInv, Screens
  <2>3. AppInv'
    BY <1>1, <1>3, <2>1, <2>2 DEF AppInv, ScreenMatchesStore, SnapshotIsWatched
  <2> QED
    BY <1>3, <1>9, <2>3, EndStep
<1> QED
  BY <1>6, <1>8, <1>9

LEMMA ProceedStep ==
    ASSUME WInv, NEW t \in tasks, Proceed(t)
    PROVE  TasksInv' /\ AppInv'
<1> USE DEF WInv
<1>1. GoodTask(t) /\ t.tried \in 0..Attempts /\ t = [t EXCEPT !.tried = t.tried]
  BY DEF TasksInv, GoodTask, Tasks
<1>2. \A step : [t EXCEPT !.step = step] = [t EXCEPT !.step = step, !.tried = t.tried]
  BY <1>1 DEF GoodTask, Tasks
<1>3. CASE Send(t)
  <2>1. /\ t.step = "send" /\ wire' = Published(t)
        /\ tasks' = (tasks \ {t}) \cup {[t EXCEPT !.step = "sent", !.tried = t.tried + 1]}
        /\ UNCHANGED <<store, ui, client, started, granted, asserted>>
    BY <1>3 DEF Send, remoteVars
  <2>2. t.tried + 1 \in 0..Attempts
    BY <1>1, <2>1, WalletAssumption DEF GoodTask
  <2>3. ASSUME NEW r \in wire' \ wire
        PROVE  GoodWrap(r)' /\ r.id = t.id /\ r.server = t.server /\ r.addrs = t.addrs
    <3>1. GoodWrap(r) /\ r.id = t.id /\ r.server = t.server /\ r.addrs = t.addrs
      BY <2>1, PublishedGood
    <3> QED
      BY <2>1, <3>1 DEF GoodWrap, Asserted
  <2> QED
    BY <2>1, <2>2, <2>3, StepOn
<1>4. CASE Listen(t)
  <2>1. tasks' = (tasks \ {t}) \cup {[t EXCEPT !.step = "await", !.tried = t.tried]}
    BY <1>2, <1>4 DEF Listen
  <2> QED
    BY <1>1, <1>4, <2>1, StepOn DEF Listen, remoteVars
<1>5. CASE TimeOut(t) /\ t.tried < Attempts
  <2>1. t.tried # Attempts
    BY <1>1, <1>5
  <2>2. /\ t.step = "await" /\ UNCHANGED <<store, ui, client, started, wire, granted, asserted>>
        /\ tasks' = (tasks \ {t}) \cup {[t EXCEPT !.step = "send"]}
    BY <1>5, <2>1, Zenon DEF TimeOut, remoteVars
  <2>3. tasks' = (tasks \ {t}) \cup {[t EXCEPT !.step = "send", !.tried = t.tried]}
    BY <1>2, <2>2
  <2> QED
    BY <1>1, <1>5, <2>2, <2>3, StepOn
<1>6. CASE TimeOut(t) /\ ~(t.tried < Attempts)
  <2>1. Fail(t) /\ UNCHANGED <<granted, asserted>> /\ wire' \subseteq wire
    BY <1>6 DEF TimeOut, remoteVars
  <2>2. AppInv' /\ tasks' = tasks \ {t} /\ started' = started
    BY <2>1, FailStep
  <2> QED
    BY <2>1, <2>2, EndStep
<1> QED
  BY <1>3, <1>4, <1>5, <1>6, ConnectStep DEF Proceed

LEMMA FailsStep ==
    ASSUME WInv, NEW t \in tasks, ConnectFails(t) \/ SendFails(t)
    PROVE  TasksInv' /\ AppInv'
<1> USE DEF WInv
<1>1. Fail(t) /\ UNCHANGED <<granted, asserted>>
  BY DEF ConnectFails, SendFails, remoteVars
<1>2. AppInv' /\ tasks' = tasks \ {t} /\ started' = started
  BY <1>1, FailStep
<1>3. ASSUME NEW r \in wire' \ wire
      PROVE  GoodWrap(r)' /\ \A u \in tasks' : u.id # r.id
  <2>1. t.step = "send" /\ r \in Published(t) \ wire
    BY <1>3 DEF ConnectFails, SendFails
  <2>2. GoodWrap(r) /\ r.id = t.id
    BY <2>1, PublishedGood
  <2> QED
    BY <1>1, <1>2, <2>2 DEF GoodWrap, Asserted, TasksInv
<1> QED
  BY <1>1, <1>2, <1>3, EndStep

LEMMA HearStep ==
    ASSUME WInv, NEW r \in wire, Hear(r)
    PROVE  TasksInv' /\ AppInv'
<1> USE DEF WInv
<1>1. UNCHANGED <<granted, asserted>>
  BY DEF Hear, remoteVars
<1>2. ASSUME NEW t \in tasks, Of(r, t), t.step = "await",
             IF r.status = "ok" THEN Succeed(t) ELSE Fail(t), wire' = wire \ {r}
      PROVE  TasksInv' /\ AppInv'
  <2>1. CASE r.status = "ok"
    BY <1>1, <1>2, <2>1, SucceedStep
  <2>2. CASE r.status # "ok"
    <3>1. AppInv' /\ tasks' = tasks \ {t} /\ started' = started
      BY <1>1, <1>2, <2>2, FailStep
    <3> QED
      BY <1>1, <1>2, <3>1, EndStep
  <2> QED
    BY <2>1, <2>2
<1>3. CASE /\ wire' = (wire \ {r}) \cup
                      {[r EXCEPT !.status = "over"] : t \in {u \in tasks : Of(r, u)}}
           /\ UNCHANGED appVars
  <2>1. \A q \in wire' \ wire : q = [r EXCEPT !.status = "over"]
    BY <1>3
  <2>2. AppInv'
    BY <1>1, <1>3 DEF appVars, AppInv, ScreenMatchesStore, SnapshotIsWatched
  <2> QED
    BY <1>1, <1>3, <2>1, <2>2, EndStep DEF appVars
<1> QED
  BY <1>2, <1>3 DEF Hear
-----------------------------------------------------------------------------
(* The servers, and what may go wrong *)

\* What the contract lets a server do keeps its state in order.
LEMMA ContractStep ==
    ASSUME RemoteInv, granted' \subseteq Servers, granted \subseteq granted',
           asserted' \subseteq Snapshots,
           \/ \E k \in Servers, type \in {"pair", "unpair", "watch", "read"},
                  addrs \in SUBSET Addresses, ok \in BOOLEAN : K!Carry(k, type, addrs, ok)
           \/ \E k \in Servers : K!Drop(k)
           \/ K!Reload
           \/ UNCHANGED <<paired, watch, unsure, vague>>,
           secret' \in [Servers -> Nat]
    PROVE  RemoteInv'
<1> USE DEF RemoteInv
<1>1. CASE \E k \in Servers, type \in {"pair", "unpair", "watch", "read"},
              addrs \in SUBSET Addresses, ok \in BOOLEAN : K!Carry(k, type, addrs, ok)
  <2>1. PICK k \in Servers, type \in {"pair", "unpair", "watch", "read"},
             addrs \in SUBSET Addresses, ok \in BOOLEAN : K!Carry(k, type, addrs, ok)
    BY <1>1
  <2> QED
    BY <2>1 DEF K!Carry
<1>2. CASE \E k \in Servers : K!Drop(k)
  BY <1>2 DEF K!Drop
<1>3. CASE K!Reload
  <2>1. ASSUME NEW k \in Servers PROVE watch'[k] \in SUBSET Addresses
    <3>1. \/ watch'[k] = {}
          \/ [key |-> k, addrs |-> watch'[k]] \in
                 {[key |-> x.server, addrs |-> x.addrs] : x \in asserted}
      BY <1>3 DEF K!Reload
    <3>2. CASE [key |-> k, addrs |-> watch'[k]] \in
                 {[key |-> x.server, addrs |-> x.addrs] : x \in asserted}
      <4>1. PICK x \in asserted : [key |-> k, addrs |-> watch'[k]]
                                 = [key |-> x.server, addrs |-> x.addrs]
        BY <3>2
      <4> QED
        BY <4>1 DEF Snapshots
    <3> QED
      BY <3>1, <3>2
  <2>2. watch' \in [Servers -> SUBSET Addresses]
    BY <1>3, <2>1 DEF K!Reload
  <2> QED
    BY <1>3, <2>2 DEF K!Reload
<1>4. CASE UNCHANGED <<paired, watch, unsure, vague>>
  BY <1>4
<1> QED
  BY <1>1, <1>2, <1>3, <1>4

LEMMA ServeStep ==
    ASSUME WInv, NEW r \in wire, Serve(r)
    PROVE  WInv'
<1> USE DEF WInv
<1>1. GoodWrap(r)
  BY DEF TasksInv
<1>2. PICK answer \in {"ok", "error"} :
         /\ wire' = (wire \ {r}) \cup {[r EXCEPT !.status = answer]}
         /\ Obeys(r, answer) \/ (answer = "error" /\ UNCHANGED remoteVars)
  BY DEF Serve
<1>3. UNCHANGED appVars
  BY DEF Serve
<1>4. /\ granted \subseteq granted' /\ asserted \subseteq asserted'
      /\ granted' \subseteq Servers /\ asserted' \subseteq Snapshots
  BY <1>1, <1>2 DEF Obeys, remoteVars, RemoteInv, GoodWrap, Wraps, Snapshots
<1>5. RemoteInv'
  <2>1. CASE UNCHANGED remoteVars
    BY <2>1 DEF RemoteInv, remoteVars
  <2>2. CASE Obeys(r, answer)
    <3>1. secret' \in [Servers -> Nat]
      <4>1. secret \in [Servers -> Nat] /\ r.server \in Servers
        BY <1>1 DEF RemoteInv, GoodWrap, Wraps
      <4> DEFINE n == IF r.type = "pair" THEN secret[r.server] + 1 ELSE secret[r.server]
      <4>2. secret' = [secret EXCEPT ![r.server] = n]
        BY <2>2, Zenon DEF Obeys
      <4>3. n \in Nat
        BY <4>1
      <4> HIDE DEF n
      <4> QED
        BY <4>1, <4>2, <4>3
    <3>2. /\ r.server \in Servers /\ r.addrs \in SUBSET Addresses /\ (answer = "ok") \in BOOLEAN
          /\ Serving(r) \in {"pair", "unpair", "watch", "read"}
      BY <1>1 DEF GoodWrap, Wraps, Types, Serving
    <3>3. \/ K!Carry(r.server, Serving(r), r.addrs, answer = "ok")
          \/ K!Drop(r.server)
      BY <2>2 DEF Obeys
    <3> QED
      BY <1>4, <3>1, <3>2, <3>3, ContractStep
  <2> QED
    BY <1>2, <2>1, <2>2
<1>6. AppInv'
  BY <1>3, <1>4 DEF AppInv, appVars, ScreenMatchesStore, SnapshotIsWatched
<1>7. TasksInv'
  <2> DEFINE q == [r EXCEPT !.status = answer]
  <2>1. /\ q \in Wraps /\ q.id = r.id /\ q.server = r.server /\ q.addrs = r.addrs
        /\ q.type = r.type /\ q.status = answer
    BY <1>1 DEF GoodWrap, Wraps
  <2>2. answer = "ok" => Obeys(r, answer)
    BY <1>2
  <2>3. answer = "ok" => r.server \in granted'
    <3>1. CASE r.type = "pair"
      BY <2>2, <3>1 DEF Obeys
    <3>2. CASE r.type # "pair"
      BY <1>1, <1>4, <3>2 DEF GoodWrap
    <3> QED
      BY <3>1, <3>2
  <2>4. answer = "ok" /\ r.type = "watch" => Asserted(r)'
    BY <2>2 DEF Obeys, Asserted
  <2>5. wire' = (wire \ {r}) \cup {q}
    BY <1>2
  <2> HIDE DEF q
  <2>6. GoodWrap(q)'
    BY <1>1, <1>3, <1>4, <2>1, <2>3, <2>4 DEF GoodWrap, Asserted, appVars
  <2>7. \A t \in tasks' : Match(q, t)
    BY <1>3, <2>1 DEF TasksInv, Match, appVars
  <2> QED
    BY <1>3, <1>4, <2>5, <2>6, <2>7, TasksStep DEF TasksInv, appVars
<1> QED
  BY <1>5, <1>6, <1>7

LEMMA MishapStep ==
    ASSUME WInv, (\E s \in Servers : Revoke(s)) \/ ServerRestart
    PROVE  WInv'
<1> USE DEF WInv
<1>1. UNCHANGED <<appVars, wire, secret, granted, asserted>>
  BY DEF Revoke, ServerRestart
<1>2. (\E s \in Servers : K!Drop(s)) \/ K!Reload
  BY DEF Revoke, ServerRestart
<1>3. RemoteInv'
  BY <1>1, <1>2, ContractStep DEF RemoteInv
<1>4. AppInv'
  BY <1>1 DEF AppInv, appVars, ScreenMatchesStore, SnapshotIsWatched
<1>5. TasksInv'
  BY <1>1, EndStep DEF appVars
<1> QED
  BY <1>3, <1>4, <1>5

LEMMA RestartStep ==
    ASSUME WInv, Restart
    PROVE  TasksInv' /\ AppInv'
<1> USE DEF WInv
<1>1. /\ tasks' = {} /\ client' = None /\ store' = store /\ started' = started
      /\ wire' \subseteq wire /\ UNCHANGED <<granted, asserted>>
      /\ ui' = FirstScreen(store)
  BY DEF Restart, remoteVars
<1>2. /\ ui'.snapshot = None /\ (ui'.paired <=> store.server # None)
      /\ ui'.server = store.server /\ ui'.targets = store.targets
  BY <1>1 DEF FirstScreen
<1>3. ui' \in Screens
  BY <1>1 DEF FirstScreen, AppInv, Screens
<1>4. AppInv'
  BY <1>1, <1>2, <1>3 DEF AppInv, ScreenMatchesStore, SnapshotIsWatched
<1> QED
  BY <1>1, <1>4, EndStep
-----------------------------------------------------------------------------
(* Every step *)

\* The user, the coroutines and the relays leave the servers alone.
LEMMA ServersApart ==
    User \/ (\E t \in tasks : Proceed(t) \/ ConnectFails(t) \/ SendFails(t))
         \/ (\E r \in wire : Hear(r)) \/ Restart
    => UNCHANGED remoteVars
  BY DEF User, Pair, Unpair, AddTarget, RemoveTarget, Sync, Proceed, Connect, Send, Listen,
         TimeOut, ConnectFails, SendFails, Hear, Restart

LEMMA BoundsStep == BoundsInv /\ Next => BoundsInv'
<1> SUFFICES ASSUME BoundsInv, Next PROVE BoundsInv'
  OBVIOUS
<1>1. taps' = taps \/ Tap
  BY DEF Next, User, Pair, Unpair, AddTarget, RemoveTarget, Sync, Proceed, Connect, Send,
         Listen, TimeOut, ConnectFails, SendFails, Hear, Serve, Revoke, ServerRestart, Restart
<1>2. faults' = faults \/ Fault
  BY DEF Next, User, Pair, Unpair, AddTarget, RemoveTarget, Sync, Proceed, Connect, Send,
         Listen, TimeOut, ConnectFails, SendFails, Hear, Serve, Revoke, ServerRestart, Restart
<1>3. mishaps' = mishaps \/ Mishap
  BY DEF Next, User, Pair, Unpair, AddTarget, RemoveTarget, Sync, Proceed, Connect, Send,
         Listen, TimeOut, ConnectFails, SendFails, Hear, Serve, Revoke, ServerRestart, Restart
<1> QED
  BY <1>1, <1>2, <1>3, WalletAssumption DEF BoundsInv, Tap, Fault, Mishap

LEMMA StepInv == WalletInv /\ [Next]_vars => WalletInv'
<1> SUFFICES ASSUME WalletInv, [Next]_vars PROVE WalletInv'
  OBVIOUS
<1> USE DEF WalletInv, WInv
<1>1. CASE UNCHANGED vars
  BY <1>1, EndStep DEF vars, appVars, remoteVars, AppInv, RemoteInv, BoundsInv,
                       ScreenMatchesStore, SnapshotIsWatched
<1>2. CASE Next
  <2>1. BoundsInv'
    BY <1>2, BoundsStep
  <2>2. ASSUME UNCHANGED remoteVars PROVE RemoteInv'
    BY <2>2 DEF RemoteInv, remoteVars
  <2>3. CASE User
    BY <2>1, <2>2, <2>3, UserStep, ServersApart
  <2>4. ASSUME NEW t \in tasks, Proceed(t) \/ ConnectFails(t) \/ SendFails(t) PROVE WalletInv'
    BY <2>1, <2>2, <2>4, ProceedStep, FailsStep, ServersApart
  <2>5. ASSUME NEW r \in wire, Hear(r) PROVE WalletInv'
    BY <2>1, <2>2, <2>5, HearStep, ServersApart
  <2>6. ASSUME NEW r \in wire, Serve(r) PROVE WalletInv'
    BY <2>1, <2>6, ServeStep
  <2>7. CASE (\E s \in Servers : Revoke(s)) \/ ServerRestart
    BY <2>1, <2>7, MishapStep
  <2>8. CASE Restart
    BY <2>1, <2>2, <2>8, RestartStep, ServersApart
  <2> QED
    BY <1>2, <2>3, <2>4, <2>5, <2>6, <2>7, <2>8 DEF Next
<1> QED
  BY <1>1, <1>2
-----------------------------------------------------------------------------
(* The servers of this wallet, and the answers on the relays, are those of *)
(* the contract that NomadServer keeps.                                    *)

LEMMA ContractInit == Init => K!Init
<1> SUFFICES ASSUME Init PROVE K!Init
  OBVIOUS
<1>1. wire = {} /\ asserted = {} /\ K!Init
  BY DEF Init
<1> QED
  BY <1>1

\* Answers are spent, and none is made up.
LEMMA PromisesSpent ==
    ASSUME \A q \in wire' : q.status = "ok" => q \in wire
    PROVE  Promises' \subseteq Promises
BY DEF Promises, Serving

\* What the user, the app and the relays do.
AppStep ==
    \/ User
    \/ \E t \in tasks : Proceed(t) \/ ConnectFails(t) \/ SendFails(t)
    \/ \E r \in wire : Hear(r)
    \/ Restart

\* They make no answer "ok".
LEMMA AppPromises ==
    ASSUME TasksInv, AppStep
    PROVE  Promises' \subseteq Promises
<1>1. CASE User \/ Restart
  <2>1. wire' \subseteq wire
    BY <1>1 DEF User, Pair, Unpair, AddTarget, RemoveTarget, Sync, Restart
  <2> QED
    BY <2>1, PromisesSpent
<1>2. ASSUME NEW t \in tasks, Proceed(t) \/ ConnectFails(t) \/ SendFails(t)
      PROVE  Promises' \subseteq Promises
  <2>1. \A q \in Published(t) : q.status = "ok" => q \in wire
    BY DEF Published
  <2>2. wire' \subseteq wire \/ wire' = Published(t)
    BY <1>2 DEF Proceed, Connect, Send, Listen, TimeOut, ConnectFails, SendFails
  <2> QED
    BY <2>1, <2>2, PromisesSpent
<1>3. ASSUME NEW r \in wire, Hear(r)
      PROVE  Promises' \subseteq Promises
  <2> DEFINE q == [r EXCEPT !.status = "over"]
  <2>1. wire' \subseteq wire \cup {q}
    BY <1>3 DEF Hear
  <2>2. q.status = "over"
    BY DEF TasksInv, GoodWrap, Wraps
  <2> QED
    BY <2>1, <2>2, PromisesSpent
<1> QED
  BY <1>1, <1>2, <1>3 DEF AppStep

\* Every step is one of the contract.  An answer "ok" says what was carried out.
LEMMA ContractNext == WalletInv /\ Next => K!Next
<1> SUFFICES ASSUME WalletInv, Next PROVE K!Next
  OBVIOUS
<1> USE DEF WalletInv
<1>1. AppStep \/ (\E r \in wire : Serve(r)) \/ (\E s \in Servers : Revoke(s)) \/ ServerRestart
  BY DEF Next, AppStep
<1>2. CASE AppStep
  <2>1. UNCHANGED remoteVars
    BY <1>2, ServersApart DEF AppStep
  <2> QED
    BY <1>2, <2>1, AppPromises DEF K!Next, K!Other, remoteVars
<1>3. CASE (\E s \in Servers : Revoke(s)) \/ ServerRestart
  <2>1. UNCHANGED <<wire, granted, asserted>>
    BY <1>3 DEF Revoke, ServerRestart
  <2>2. Promises' \subseteq Promises
    BY <2>1, PromisesSpent
  <2>3. (\E s \in Servers : K!Drop(s)) \/ K!Reload
    BY <1>3 DEF Revoke, ServerRestart
  <2> QED
    BY <2>1, <2>2, <2>3 DEF K!Next
<1>4. ASSUME NEW r \in wire, Serve(r) PROVE K!Next
  <2>1. GoodWrap(r)
    BY DEF TasksInv
  <2>2. PICK answer \in {"ok", "error"} :
           /\ wire' = (wire \ {r}) \cup {[r EXCEPT !.status = answer]}
           /\ Obeys(r, answer) \/ (answer = "error" /\ UNCHANGED remoteVars)
    BY <1>4 DEF Serve
  <2> DEFINE q == [r EXCEPT !.status = answer]
  <2>3. q.status = answer /\ q.server = r.server /\ q.type = r.type /\ q.addrs = r.addrs
    BY <2>1 DEF GoodWrap, Wraps
  <2>4. wire' \subseteq wire \cup {q}
    BY <2>2
  <2> HIDE DEF q
  <2>5. answer = "error" => Promises' \subseteq Promises
    BY <2>3, <2>4, PromisesSpent
  <2>6. Promises' \subseteq Promises \cup {K!Promise(r.server, Serving(r), r.addrs)}
    BY <2>3, <2>4 DEF Promises, Serving, K!Promise
  <2>7. /\ r.server \in Servers /\ r.addrs \in SUBSET Addresses
        /\ Serving(r) \in {"pair", "unpair", "watch", "read"}
    BY <2>1 DEF GoodWrap, Wraps, Types, Serving
  <2>8. granted \subseteq granted' /\ asserted \subseteq asserted'
    BY <2>2 DEF Obeys, remoteVars
  <2>9. CASE UNCHANGED remoteVars /\ answer = "error"
    BY <2>5, <2>8, <2>9 DEF K!Next, K!Other, remoteVars
  <2>10. CASE Obeys(r, answer) /\ answer = "ok"
    <3>1. K!Carry(r.server, Serving(r), r.addrs, TRUE)
      BY <2>10 DEF Obeys
    <3> QED
      BY <2>6, <2>7, <2>8, <3>1 DEF K!Next
  <2>11. CASE Obeys(r, answer) /\ answer = "error"
    <3>1. K!Carry(r.server, Serving(r), r.addrs, FALSE) \/ K!Drop(r.server)
      BY <2>11 DEF Obeys
    <3> QED
      BY <2>5, <2>7, <2>8, <2>11, <3>1 DEF K!Next
  <2> QED
    BY <2>2, <2>9, <2>10, <2>11
<1> QED
  BY <1>1, <1>2, <1>3, <1>4
-----------------------------------------------------------------------------
(* Theorems *)

\* The invariant holds in every behaviour of the app, its relays and servers.
THEOREM WalletInvariance == Spec => []WalletInv
  BY InitInv, StepInv, PTL DEF Spec

\* Every variable has its type, no two coroutines share an id, a coroutine is
\* connected before it sends, and no request is tried too often.
THEOREM WalletTypeCorrect == Spec => []TypeOK
  BY WalletInvariance, InvImplies, PTL

\* What the app is shown to work with is what NomadServer is shown to keep: the
\* servers' state and the answers "ok" on the relays move as the contract allows.
THEOREM WalletMeetsContract == Spec => K!Spec
<1>1. UNCHANGED vars => UNCHANGED K!contractVars
  BY DEF vars, remoteVars, K!contractVars, Promises, Serving
<1>2. WalletInv /\ [Next]_vars => [K!Next]_(K!contractVars)
  BY <1>1, ContractNext
<1> QED
  BY <1>2, ContractInit, WalletInvariance, PTL DEF Spec, K!Spec

\* However coroutines overlap, time out, lose answers or die, the wallet believes
\* in a pairing, and sends anything but a pair request, only where it was accepted.
THEOREM WalletTrustsOnlyGranted == Spec => []TrustsOnlyGranted
  BY WalletInvariance, InvImplies, PTL

\* The screen shows the pairing that is stored, whichever coroutines end last.
THEOREM WalletScreenMatchesStore == Spec => []ScreenMatchesStore
  BY WalletInvariance, InvImplies, PTL

\* A balance on the screen is of addresses its server took over as the watch set.
THEOREM WalletSnapshotIsWatched == Spec => []SnapshotIsWatched
  BY WalletInvariance, InvImplies, PTL
=============================================================================
