--------------------------- MODULE Watcher_proofs ---------------------------
(***************************************************************************)
(* Proofs about the watcher: its types, that it drops no news silently,    *)
(* tells no wallet what was not so or is not its own, tells nothing twice, *)
(* and announces no history at its first look at a wallet, for every set   *)
(* of wallets, addresses and transactions, every chain and every number of *)
(* failures and restarts.                                                  *)
(***************************************************************************)
EXTENDS Watcher, TLAPS

\* What is accounted for of wallet w: told, lost, or about to be told.
Accounted(w) == told[w] \cup lost[w] \cup (IF cur = w THEN NewsOf(queue) ELSE {})

\* NothingUntold for the file as well, which a restart makes the state.
NothingUntoldOnDisk ==
    \A w \in Wallets :
        knownDisk[w] # None => NewsOf(Present(knownDisk[w])) \subseteq Accounted(w)

WatcherInv == TypeOK /\ NothingUntold /\ NothingUntoldOnDisk
-----------------------------------------------------------------------------
(* Heights and news *)

LEMMA ClampedType == \A h \in Reported : Clamped(h) \in Heights
BY WatcherAssumption DEF Clamped, Reported, Heights

LEMMA HigherType == \A a, b \in Heights : Higher(a, b) \in Heights
BY DEF Higher

LEMMA MergedType ==
    ASSUME TypeOK, NEW a \in Addresses
    PROVE  Merged(a) \in History
<1> SUFFICES ASSUME NEW tx \in Txs
             PROVE  (IF a \in Touched[tx] THEN Higher(current[tx], Clamped(chain[tx]))
                                          ELSE current[tx]) \in Heights
  BY DEF Merged, History
<1>1. current[tx] \in Heights /\ chain[tx] \in Reported
  BY DEF TypeOK, History
<1> QED
  BY <1>1, ClampedType, HigherType

LEMMA NoHistoryType == NoHistory \in History /\ None \notin History
BY WatcherAssumption DEF NoHistory, History, Heights

LEMMA DiffType ==
    ASSUME NEW before \in History \cup {None}, NEW after \in History
    PROVE  Diff(before, after) \subseteq Txs \X (0..MaxHeight)
<1> SUFFICES ASSUME before # None, NEW tx \in Txs, after[tx] # None
             PROVE  after[tx] \in 0..MaxHeight
  BY DEF Diff
<1> QED
  BY DEF History, Heights

LEMMA PresentType ==
    ASSUME NEW history \in History
    PROVE  Present(history) \subseteq Txs \X (0..MaxHeight)
BY DEF Present, History, Heights

LEMMA ShowsType ==
    ASSUME NEW map \in [Txs -> Reported]
    PROVE  Shows(map) \subseteq Txs \X (0..MaxHeight)
<1>1. [tx \in Txs |-> Clamped(map[tx])] \in History
  BY ClampedType DEF History
<1> QED
  BY <1>1, PresentType DEF Shows

LEMMA NewsType ==
    ASSUME NEW notices \in SUBSET (Txs \X (0..MaxHeight))
    PROVE  NewsOf(notices) \subseteq News
BY DEF NewsOf, News

LEMMA NewsOfNone == NewsOf({}) = {}
BY DEF NewsOf

LEMMA NewsOfOneLess ==
    ASSUME NEW notices, NEW n \in notices
    PROVE  NewsOf(notices) \subseteq NewsOf({n}) \cup NewsOf(notices \ {n})
BY DEF NewsOf

\* What diff passes over was known before: a transaction that was there, and a
\* confirmation of one that was confirmed.
LEMMA DiffCovers ==
    ASSUME NEW before \in History, NEW after \in History
    PROVE  NewsOf(Present(after)) \subseteq
               NewsOf(Present(before)) \cup NewsOf(Diff(before, after))
<1>1. before # None
  BY NoHistoryType
<1> SUFFICES ASSUME NEW tx \in Txs, after[tx] # None
             PROVE  NewsOf({<<tx, after[tx]>>}) \subseteq
                        NewsOf(Present(before)) \cup NewsOf(Diff(before, after))
  BY DEF NewsOf, Present
<1>2. after[tx] \in 0..MaxHeight /\ before[tx] \in Heights
  BY DEF History, Heights
<1>3. CASE before[tx] = None \/ (before[tx] = 0 /\ after[tx] > 0)
  <2>1. <<tx, after[tx]>> \in Diff(before, after)
    BY <1>1, <1>3 DEF Diff
  <2> QED
    BY <2>1 DEF NewsOf
<1>4. CASE before[tx] # None /\ ~(before[tx] = 0 /\ after[tx] > 0)
  <2>1. <<tx, before[tx]>> \in Present(before)
    BY <1>4 DEF Present
  <2>2. after[tx] > 0 => before[tx] > 0
    BY <1>2, <1>4, WatcherAssumption DEF Heights
  <2>3. NewsOf({<<tx, after[tx]>>}) \subseteq NewsOf({<<tx, before[tx]>>})
    BY <2>2 DEF NewsOf
  <2> QED
    BY <2>1, <2>3 DEF NewsOf
<1> QED
  BY <1>3, <1>4
-----------------------------------------------------------------------------
(* Steps *)

\* A step that leaves the state, its file, the visited wallet, the queue and
\* the history of notices alone keeps both statements.
LEMMA Frame ==
    ASSUME NothingUntold, NothingUntoldOnDisk,
           UNCHANGED <<cur, queue, known, knownDisk, told, lost>>
    PROVE  NothingUntold' /\ NothingUntoldOnDisk'
BY DEF NothingUntold, NothingUntoldOnDisk, Accounted, NewsOf, Present

\* With an empty queue it does not matter whose visit it is.
LEMMA FrameIdle ==
    ASSUME NothingUntold, NothingUntoldOnDisk, queue = {},
           UNCHANGED <<queue, known, knownDisk, told, lost>>
    PROVE  NothingUntold' /\ NothingUntoldOnDisk'
BY NewsOfNone DEF NothingUntold, NothingUntoldOnDisk, Accounted, NewsOf, Present

LEMMA WatcherInit == Init => WatcherInv
<1> SUFFICES ASSUME Init PROVE WatcherInv
  OBVIOUS
<1>1. TypeOK
  <2>1. S!StoresOK
    BY DEF Init, S!StoresOK, S!InitStores
  <2>2. chain \in [Txs -> Reported] /\ current \in History
    BY NoHistoryType DEF Init, History, Reported
  <2>3. known \in [Wallets -> History \cup {None}] /\ knownDisk \in [Wallets -> History \cup {None}]
    BY DEF Init
  <2>4. 0 \in 0..MaxChanges /\ 0 \in 0..MaxEdits /\ 0 \in 0..MaxFaults /\ 0 \in 0..MaxCrashes
    BY WatcherAssumption
  <2> QED
    BY <2>1, <2>2, <2>3, <2>4 DEF Init, TypeOK
<1>2. NothingUntold /\ NothingUntoldOnDisk
  BY DEF Init, NothingUntold, NothingUntoldOnDisk
<1> QED
  BY <1>1, <1>2 DEF WatcherInv

LEMMA StoresFrame ==
    S!StoresOK /\ UNCHANGED storeVars => S!StoresOK' /\ UNCHANGED asking
BY DEF S!StoresOK, storeVars

LEMMA ChangeChainStep ==
    ASSUME WatcherInv, NEW tx \in Txs, NEW height \in Reported, ChangeChain(tx, height)
    PROVE  WatcherInv'
<1>1. TypeOK'
  <2>1. chain' \in [Txs -> Reported]
    BY DEF WatcherInv, ChangeChain, TypeOK
  <2>2. shown' \subseteq Txs \X (0..MaxHeight)
    BY <2>1, ShowsType DEF WatcherInv, ChangeChain, TypeOK
  <2>3. repeats' \subseteq Wallets \X (Txs \X (0..MaxHeight)) /\ old' \in [Wallets -> SUBSET Txs]
    BY DEF WatcherInv, ChangeChain, TypeOK
  <2>4. changes' \in 0..MaxChanges /\ member' \in BOOLEAN
    BY WatcherAssumption DEF WatcherInv, ChangeChain, TypeOK
  <2>5. UNCHANGED storeVars /\ S!StoresOK
    BY DEF WatcherInv, ChangeChain, TypeOK
  <2> QED
    BY <2>1, <2>2, <2>3, <2>4, <2>5, StoresFrame
       DEF WatcherInv, ChangeChain, TypeOK, tickVars, knownVars
<1> QED
  BY <1>1, Frame DEF WatcherInv, ChangeChain, tickVars, knownVars

\* The wallets' and the UI's operations on the stores.
LEMMA StoreSteps ==
    ASSUME WatcherInv, NEW w \in Wallets, NEW addrs \in SUBSET Addresses,
           Pair(w) \/ TakeOffAllowlist(w) \/ ClearSet(w) \/ Register(w, addrs)
    PROVE  WatcherInv'
<1> USE WatcherAssumption DEF WatcherInv, TypeOK, tickVars, knownVars, visitVars
<1>1. CASE Pair(w)
  <2>1. S!StoresOK'
    BY <1>1 DEF Pair, S!StoresOK, S!Add, S!Saved, S!watchVars
  <2> QED
    BY <1>1, <2>1, Frame DEF Pair, Edit, historyVars
<1>2. CASE TakeOffAllowlist(w)
  <2>1. S!StoresOK'
    BY <1>2 DEF TakeOffAllowlist, S!StoresOK, S!Remove, S!Saved, S!watchVars
  <2> QED
    BY <1>2, <2>1, Frame DEF TakeOffAllowlist, Edit, historyVars
<1>3. CASE ClearSet(w)
  <2>1. S!StoresOK'
    BY <1>3 DEF ClearSet, S!StoresOK, S!RemoveWallet, S!Saved, S!allowVars
  <2> QED
    BY <1>3, <2>1, Frame DEF ClearSet, boundVars
<1>4. CASE Register(w, addrs)
  <2>1. S!StoresOK'
    BY <1>4 DEF Register, S!StoresOK, S!Replace, S!Saved, S!allowVars
  <2>2. old' \in [Wallets -> SUBSET Txs] /\ extended' \subseteq Wallets
    BY <1>4 DEF Register, Predating
  <2> QED
    BY <1>4, <2>1, <2>2, Frame DEF Register, Edit
<1> QED
  BY <1>1, <1>2, <1>3, <1>4

LEMMA StartTickStep == WatcherInv /\ StartTick => WatcherInv'
<1> SUFFICES ASSUME WatcherInv, StartTick PROVE WatcherInv'
  OBVIOUS
<1>1. TypeOK'
  BY StoresFrame
     DEF WatcherInv, StartTick, TypeOK, S!StoresOK, knownVars, boundVars, historyVars, visitVars
<1> QED
  BY <1>1, Frame DEF WatcherInv, StartTick, knownVars, historyVars

LEMMA VisitWalletStep ==
    ASSUME WatcherInv, NEW w \in Wallets, VisitWallet(w)
    PROVE  WatcherInv'
<1>1. TypeOK'
  <2>1. Shows(chain) \subseteq Txs \X (0..MaxHeight)
    BY ShowsType DEF WatcherInv, TypeOK
  <2>2. shown' \subseteq Txs \X (0..MaxHeight) /\ member' \in BOOLEAN
    <3>1. shown' \in {Shows(chain), shown}
      BY DEF VisitWallet, visitVars
    <3>2. member' = (w \in wallets) \/ member' = member
      BY DEF VisitWallet, visitVars
    <3>3. (w \in wallets) \in BOOLEAN
      OBVIOUS
    <3>4. member \in BOOLEAN
      BY DEF WatcherInv, TypeOK
    <3>5. member' \in BOOLEAN
      BY <3>2, <3>3, <3>4, Zenon
    <3> QED
      BY <2>1, <3>1, <3>5 DEF WatcherInv, TypeOK
  <2>3. /\ step' \in {"next", "query"} /\ cur' \in Wallets \cup {None}
        /\ step' \in {"query", "diff", "notify"} => cur' # None
        /\ unread' \subseteq Addresses /\ queue' = {}
    BY WatcherAssumption DEF WatcherInv, VisitWallet, TypeOK
  <2>4. S!StoresOK' /\ asking' = asking /\ todo' \subseteq Wallets /\ current' \in History
    BY StoresFrame, NoHistoryType DEF WatcherInv, VisitWallet, TypeOK
  <2>5. /\ UNCHANGED <<chain, snapshot, known, knownDisk, changes, edits, faults, crashes>>
        /\ UNCHANGED <<told, lost, repeats, old, extended, stateFault>>
    BY DEF VisitWallet, knownVars, boundVars, historyVars
  <2> QED
    BY <2>2, <2>3, <2>4, <2>5 DEF WatcherInv, TypeOK
<1>2. queue = {}
  BY DEF WatcherInv, TypeOK, VisitWallet
<1> QED
  BY <1>1, <1>2, FrameIdle DEF WatcherInv, VisitWallet, knownVars, historyVars

LEMMA ReadHistoryStep ==
    ASSUME WatcherInv, NEW a \in Addresses, ReadHistory(a)
    PROVE  WatcherInv'
<1>1. current' \in History
  BY MergedType DEF WatcherInv, ReadHistory
<1>2. TypeOK'
  BY <1>1, StoresFrame
     DEF WatcherInv, ReadHistory, TypeOK, knownVars, boundVars, historyVars, visitVars
<1> QED
  BY <1>2, Frame DEF WatcherInv, ReadHistory, knownVars, historyVars

LEMMA AttemptBound == TypeOK /\ (\E done \in BOOLEAN : Attempt(done)) => faults' \in 0..MaxFaults
BY WatcherAssumption DEF TypeOK, Attempt

LEMMA ReadFailsStep == WatcherInv /\ ReadFails => WatcherInv'
<1> SUFFICES ASSUME WatcherInv, ReadFails PROVE WatcherInv'
  OBVIOUS
<1>1. faults' \in 0..MaxFaults
  BY AttemptBound DEF WatcherInv, ReadFails
<1>2. TypeOK'
  BY <1>1, StoresFrame, NoHistoryType
     DEF WatcherInv, ReadFails, TypeOK, knownVars, historyVars, visitVars
<1>3. queue = {}
  BY DEF WatcherInv, TypeOK, ReadFails
<1> QED
  BY <1>2, <1>3, FrameIdle DEF WatcherInv, ReadFails, knownVars, historyVars

\* The heart of it: what the comparison takes for known was accounted for,
\* is in the queue, or is the first observation.
LEMMA CompareStep == WatcherInv /\ Compare => WatcherInv'
<1> SUFFICES ASSUME WatcherInv, Compare PROVE WatcherInv'
  OBVIOUS
<1>1. /\ TypeOK /\ cur \in Wallets /\ queue = {} /\ current \in History
      /\ known[cur] \in History \cup {None}
  BY DEF WatcherInv, Compare, TypeOK
<1>2. PICK written \in BOOLEAN :
         /\ Attempt(written)
         /\ knownDisk' = Saved(known', knownDisk, written)
         /\ stateFault' = (stateFault \/ ~written)
  BY DEF Compare
<1>3. queue' \subseteq Txs \X (0..MaxHeight)
  BY <1>1, DiffType DEF Compare
<1>4. NewsOf(Present(current)) \subseteq News
  BY <1>1, PresentType, NewsType
<1>5. known' \in [Wallets -> History \cup {None}]
  BY <1>1 DEF Compare, TypeOK
<1>6. told' \in [Wallets -> SUBSET News]
  BY <1>1, <1>4 DEF Compare, TypeOK
<1>7. TypeOK'
  <2>1. faults' \in 0..MaxFaults
    BY <1>1, <1>2, AttemptBound
  <2>2. knownDisk' \in [Wallets -> History \cup {None}]
    BY <1>1, <1>2, <1>5 DEF Saved, TypeOK
  <2>3. stateFault' \in BOOLEAN
    BY <1>2
  <2> QED
    BY <1>1, <1>3, <1>5, <1>6, <2>1, <2>2, <2>3, StoresFrame DEF Compare, TypeOK, visitVars
<1>8. \A w \in Wallets : Accounted(w) \subseteq Accounted(w)'
  <2> SUFFICES ASSUME NEW w \in Wallets
               PROVE  told[w] \cup lost[w] \subseteq told[w]' \cup lost[w]'
    BY <1>1, NewsOfNone DEF Accounted
  <2> QED
    BY <1>1 DEF Compare, TypeOK
<1>9. NewsOf(Present(current)) \subseteq Accounted(cur)'
  <2>1. CASE known[cur] = None
    BY <1>1, <2>1 DEF Compare, TypeOK, Accounted
  <2>2. CASE known[cur] # None
    <3>1. known[cur] \in History
      BY <1>1, <2>2
    <3>2. NewsOf(Present(current)) \subseteq
             NewsOf(Present(known[cur])) \cup NewsOf(Diff(known[cur], current))
      BY <1>1, <3>1, DiffCovers
    <3>3. NewsOf(Present(known[cur])) \subseteq Accounted(cur)
      BY <1>1, <2>2 DEF WatcherInv, NothingUntold, Accounted
    <3>4. NewsOf(queue') \subseteq Accounted(cur)'
      BY DEF Compare, Accounted, NewsOf
    <3> QED
      BY <1>1, <1>8, <3>2, <3>3, <3>4 DEF Compare
  <2> QED
    BY <2>1, <2>2
<1>10. \A w \in Wallets :
          known'[w] # None => NewsOf(Present(known'[w])) \subseteq Accounted(w)'
  <2> SUFFICES ASSUME NEW w \in Wallets, known'[w] # None
               PROVE  NewsOf(Present(known'[w])) \subseteq Accounted(w)'
    OBVIOUS
  <2>1. CASE w = cur
    <3>1. known'[w] = current
      BY <1>1, <2>1 DEF Compare, TypeOK
    <3> QED
      BY <3>1, <2>1, <1>9 DEF Compare, Accounted
  <2>2. CASE w # cur
    <3>1. known'[w] = known[w]
      BY <2>2 DEF Compare
    <3>2. NewsOf(Present(known[w])) \subseteq Accounted(w)
      BY <3>1 DEF WatcherInv, NothingUntold, Accounted
    <3> QED
      BY <3>1, <3>2, <1>8
  <2> QED
    BY <2>1, <2>2
<1>11. NothingUntold'
  BY <1>10 DEF NothingUntold, Accounted, Present
<1>12. NothingUntoldOnDisk'
  <2> SUFFICES ASSUME NEW w \in Wallets, knownDisk'[w] # None
               PROVE  NewsOf(Present(knownDisk'[w])) \subseteq Accounted(w)'
    BY DEF NothingUntoldOnDisk, Present
  <2>1. CASE knownDisk' = known'
    BY <2>1, <1>10
  <2>2. CASE knownDisk' = knownDisk
    BY <2>2, <1>8 DEF WatcherInv, NothingUntoldOnDisk
  <2> QED
    BY <2>1, <2>2, <1>2 DEF Saved
<1> QED
  BY <1>7, <1>11, <1>12 DEF WatcherInv

LEMMA NotifyStep ==
    ASSUME WatcherInv, NEW notice \in queue, Notify(notice)
    PROVE  WatcherInv'
<1>1. TypeOK /\ cur \in Wallets /\ notice \in Txs \X (0..MaxHeight)
  BY DEF WatcherInv, TypeOK, Notify
<1>2. NewsOf({notice}) \subseteq News
  BY <1>1, NewsType
<1> DEFINE Sent == /\ told' = [told EXCEPT ![cur] = @ \cup NewsOf({notice})]
                    /\ repeats' = repeats \cup {<<cur, notice>>}
                    /\ lost' = lost
           Unsent == /\ lost' = [lost EXCEPT ![cur] = @ \cup NewsOf({notice})]
                      /\ told' = told /\ repeats' = repeats
<1>3. Sent \/ Unsent
  BY DEF Notify
<1>4. faults' \in 0..MaxFaults
  <2>1. PICK sent \in BOOLEAN : Attempt(sent)
    BY DEF Notify
  <2> QED
    BY <1>1, <2>1, AttemptBound
<1>5. /\ told' \in [Wallets -> SUBSET News] /\ lost' \in [Wallets -> SUBSET News]
      /\ repeats' \subseteq Wallets \X (Txs \X (0..MaxHeight))
  <2>1. /\ told \in [Wallets -> SUBSET News] /\ lost \in [Wallets -> SUBSET News]
        /\ repeats \subseteq Wallets \X (Txs \X (0..MaxHeight))
    BY <1>1 DEF TypeOK
  <2>2. <<cur, notice>> \in Wallets \X (Txs \X (0..MaxHeight))
    BY <1>1
  <2>3. CASE Sent
    BY <1>1, <1>2, <2>1, <2>2, <2>3
  <2>4. CASE Unsent
    BY <1>1, <1>2, <2>1, <2>4
  <2> QED
    BY <1>3, <2>3, <2>4
<1>6. TypeOK'
  BY <1>1, <1>4, <1>5, StoresFrame DEF Notify, TypeOK, knownVars, visitVars
<1>7. \A w \in Wallets : Accounted(w) \subseteq Accounted(w)'
  <2> SUFFICES ASSUME NEW w \in Wallets PROVE Accounted(w) \subseteq Accounted(w)'
    OBVIOUS
  <2>1. /\ told[w] \subseteq told'[w] /\ lost[w] \subseteq lost'[w]
        /\ w = cur => NewsOf({notice}) \subseteq told'[w] \cup lost'[w]
    <3>1. DOMAIN told = Wallets /\ DOMAIN lost = Wallets
      BY <1>1 DEF TypeOK
    <3>2. CASE Sent
      BY <1>1, <3>1, <3>2
    <3>3. CASE Unsent
      BY <1>1, <3>1, <3>3
    <3> QED
      BY <1>3, <3>2, <3>3
  <2>2. NewsOf(queue) \subseteq NewsOf({notice}) \cup NewsOf(queue')
    BY NewsOfOneLess DEF Notify
  <2> QED
    BY <2>1, <2>2 DEF Accounted, Notify, NewsOf
<1>8. NothingUntold'
  <2> SUFFICES ASSUME NEW w \in Wallets, known'[w] # None
               PROVE  NewsOf(Present(known'[w])) \subseteq Accounted(w)'
    BY DEF NothingUntold, Accounted, Present
  <2> QED
    BY <1>7 DEF WatcherInv, NothingUntold, Accounted, Notify, knownVars
<1>9. NothingUntoldOnDisk'
  <2> SUFFICES ASSUME NEW w \in Wallets, knownDisk'[w] # None
               PROVE  NewsOf(Present(knownDisk'[w])) \subseteq Accounted(w)'
    BY DEF NothingUntoldOnDisk, Present
  <2> QED
    BY <1>7 DEF WatcherInv, NothingUntoldOnDisk, Notify, knownVars
<1> QED
  BY <1>6, <1>8, <1>9 DEF WatcherInv

LEMMA EndTickStep == WatcherInv /\ EndTick => WatcherInv'
<1> SUFFICES ASSUME WatcherInv, EndTick PROVE WatcherInv'
  OBVIOUS
<1>1. TypeOK /\ queue = {} /\ queue' = {}
  BY DEF WatcherInv, TypeOK, EndTick, Resting
<1>2. PICK written \in BOOLEAN :
         /\ Attempt(written)
         /\ knownDisk' = IF known' = known THEN knownDisk ELSE Saved(known', knownDisk, written)
         /\ stateFault' = (stateFault \/ ~written)
  BY DEF EndTick
<1>3. known' \in [Wallets -> History \cup {None}]
  BY <1>1 DEF EndTick, TypeOK
<1>4. knownDisk' = known' \/ knownDisk' = knownDisk
  BY <1>2 DEF Saved
<1>5. TypeOK'
  <2>1. faults' \in 0..MaxFaults
    BY <1>1, <1>2, AttemptBound
  <2>2. knownDisk' \in [Wallets -> History \cup {None}]
    BY <1>1, <1>3, <1>4 DEF TypeOK
  <2>3. stateFault' \in BOOLEAN
    BY <1>2
  <2> QED
    BY <1>1, <1>3, <2>1, <2>2, <2>3, StoresFrame, NoHistoryType DEF EndTick, Resting, TypeOK
<1>6. \A w \in Wallets : Accounted(w)' = told[w] \cup lost[w] /\ Accounted(w) = told[w] \cup lost[w]
  BY <1>1, NewsOfNone DEF Accounted, EndTick
<1>7. \A w \in Wallets :
         known'[w] # None => NewsOf(Present(known'[w])) \subseteq Accounted(w)'
  <2> SUFFICES ASSUME NEW w \in Wallets, known'[w] # None
               PROVE  NewsOf(Present(known'[w])) \subseteq Accounted(w)'
    OBVIOUS
  <2>1. known'[w] = known[w]
    BY DEF EndTick
  <2> QED
    BY <2>1, <1>6 DEF WatcherInv, NothingUntold, Accounted
<1>8. NothingUntold'
  BY <1>7 DEF NothingUntold, Accounted, Present
<1>9. NothingUntoldOnDisk'
  <2> SUFFICES ASSUME NEW w \in Wallets, knownDisk'[w] # None
               PROVE  NewsOf(Present(knownDisk'[w])) \subseteq Accounted(w)'
    BY DEF NothingUntoldOnDisk, Present
  <2>1. CASE knownDisk' = known'
    BY <2>1, <1>7
  <2>2. CASE knownDisk' = knownDisk
    BY <2>2, <1>6 DEF WatcherInv, NothingUntoldOnDisk
  <2> QED
    BY <1>4, <2>1, <2>2
<1> QED
  BY <1>5, <1>8, <1>9 DEF WatcherInv

\* A crash loses what was still to be told, and says so; the file was
\* accounted for already.
LEMMA CrashStep == WatcherInv /\ CrashAndRestart => WatcherInv'
<1> SUFFICES ASSUME WatcherInv, CrashAndRestart PROVE WatcherInv'
  OBVIOUS
<1>1. TypeOK /\ queue' = {} /\ known' = knownDisk /\ knownDisk' = knownDisk
  BY DEF WatcherInv, CrashAndRestart, Resting
<1>2. NewsOf(queue) \subseteq News
  BY <1>1, NewsType DEF TypeOK
<1>3. lost' \in [Wallets -> SUBSET News]
  BY <1>1, <1>2 DEF CrashAndRestart, TypeOK
<1>4. S!StoresOK'
  BY <1>1 DEF TypeOK, CrashAndRestart, S!ReloadStores, S!StoresOK
<1>5. TypeOK'
  <2>1. crashes' \in 0..MaxCrashes
    BY <1>1, WatcherAssumption DEF CrashAndRestart, TypeOK
  <2>2. shown' \subseteq Txs \X (0..MaxHeight) /\ member' \in BOOLEAN
    BY DEF CrashAndRestart, Resting
  <2> QED
    BY <1>1, <1>3, <1>4, <2>1, <2>2, NoHistoryType DEF CrashAndRestart, Resting, TypeOK
<1>6. \A w \in Wallets : Accounted(w) \subseteq Accounted(w)'
  <2> SUFFICES ASSUME NEW w \in Wallets PROVE Accounted(w) \subseteq Accounted(w)'
    OBVIOUS
  <2>1. /\ told'[w] = told[w] /\ lost[w] \subseteq lost'[w]
        /\ w = cur /\ queue # {} => NewsOf(queue) \subseteq lost'[w]
    BY <1>1 DEF CrashAndRestart, TypeOK
  <2> QED
    BY <2>1, NewsOfNone DEF Accounted
<1>7. \A w \in Wallets :
         knownDisk[w] # None => NewsOf(Present(knownDisk[w])) \subseteq Accounted(w)'
  BY <1>6 DEF WatcherInv, NothingUntoldOnDisk
<1>8. NothingUntold' /\ NothingUntoldOnDisk'
  BY <1>1, <1>7 DEF NothingUntold, NothingUntoldOnDisk, Accounted, Present
<1> QED
  BY <1>5, <1>8 DEF WatcherInv

LEMMA WatcherNext == WatcherInv /\ [Next]_vars => WatcherInv'
<1> SUFFICES ASSUME WatcherInv, [Next]_vars PROVE WatcherInv'
  OBVIOUS
<1>1. CASE UNCHANGED vars
  <2>1. TypeOK'
    BY <1>1 DEF WatcherInv, TypeOK, S!StoresOK, vars, storeVars, tickVars, knownVars,
                boundVars, historyVars, visitVars
  <2> QED
    BY <1>1, <2>1, Frame DEF WatcherInv, vars, tickVars, knownVars, historyVars
<1>2. CASE WatcherStep
  BY <1>2, StartTickStep, CompareStep, EndTickStep, VisitWalletStep, ReadHistoryStep, NotifyStep
     DEF WatcherStep
<1>3. CASE \E w \in Wallets : Pair(w) \/ TakeOffAllowlist(w) \/ ClearSet(w)
  <2>1. {} \in SUBSET Addresses
    OBVIOUS
  <2> QED
    BY <1>3, <2>1, StoreSteps
<1>4. CASE \E w \in Wallets, addrs \in Offered : Register(w, addrs)
  <2>1. Offered \subseteq SUBSET Addresses
    BY WatcherAssumption
  <2> QED
    BY <1>4, <2>1, StoreSteps
<1>5. CASE \E tx \in Txs, height \in Reported : ChangeChain(tx, height)
  BY <1>5, ChangeChainStep
<1> QED
  BY <1>1, <1>2, <1>3, <1>4, <1>5, ReadFailsStep, CrashStep DEF Next

\* Every variable of the watcher keeps its type: heights are never -1, a queue
\* exists only while notices go out, and then the wallet it is for is known.
THEOREM WatcherTypeCorrect == Spec => []TypeOK
<1>1. WatcherInv => TypeOK
  BY DEF WatcherInv
<1> QED
  BY WatcherInit, WatcherNext, <1>1, PTL DEF Spec

\* No news is dropped silently, in whatever order the chain, the stores, the
\* failures and the restarts come between the watcher's steps.
THEOREM WatcherNothingUntold == Spec => []NothingUntold
<1>1. WatcherInv => NothingUntold
  BY DEF WatcherInv
<1> QED
  BY WatcherInit, WatcherNext, <1>1, PTL DEF Spec
-----------------------------------------------------------------------------
(* What is told is true.  A visit that is still reading has been shown what *)
(* the chain shows now; what it read so far was shown, and belongs to an    *)
(* address of its wallet; and the queue is taken from what it read.         *)

Truthful(tx, h) == <<tx, h>> \in shown /\ Touched[tx] \cap snapshot[cur] # {}

TruthInv ==
    /\ step = "query" => Shows(chain) \subseteq shown
    /\ step \in {"query", "diff"} =>
          /\ unread \subseteq snapshot[cur]
          /\ \A tx \in Txs : current[tx] # None => Truthful(tx, current[tx])
    /\ step \in {"query", "diff", "notify"} => member
    /\ NewsIsTrue

LEMMA TruthInit == Init => TruthInv
BY DEF Init, TruthInv, NewsIsTrue

\* What has been shown stays so, and the visit has read nothing more.
LEMMA TruthFrame ==
    ASSUME TruthInv, UNCHANGED tickVars, shown \subseteq shown', member => member',
           step = "query" => Shows(chain') \subseteq shown'
    PROVE  TruthInv'
<1>1. UNCHANGED <<step, snapshot, cur, unread, current, queue>>
  BY DEF tickVars
<1>2. step' = "query" => Shows(chain)' \subseteq shown'
  BY <1>1 DEF Shows, Present
<1> QED
  BY <1>1, <1>2 DEF TruthInv, NewsIsTrue, Truthful

\* Between visits there is nothing to tell.
LEMMA TruthIdle ==
    ASSUME queue' = {}, step' \in {"sleep", "next"}
    PROVE  TruthInv'
BY DEF TruthInv, NewsIsTrue

LEMMA TruthVisit ==
    ASSUME TypeOK, TruthInv, NEW w \in Wallets, VisitWallet(w)
    PROVE  TruthInv'
<1>1. step = "next" /\ queue = {} /\ queue' = {} /\ current' = NoHistory /\ chain' = chain
  BY DEF VisitWallet, TypeOK
<1>2. CASE ~S!IsPaired(w)
  BY <1>1, <1>2, TruthIdle DEF VisitWallet
<1>3. CASE S!IsPaired(w)
  <2>1. /\ step' = "query" /\ cur' = w /\ unread' = snapshot[w] /\ snapshot' = snapshot
        /\ shown' = Shows(chain) /\ member'
    BY <1>3 DEF VisitWallet, S!IsPaired
  <2>2. \A tx \in Txs : current'[tx] = None
    BY <1>1 DEF NoHistory
  <2>3. Shows(chain)' = Shows(chain)
    BY <1>1 DEF Shows, Present
  <2> QED
    BY <1>1, <2>1, <2>2, <2>3 DEF TruthInv, NewsIsTrue
<1> QED
  BY <1>2, <1>3

\* Of two heights the higher is one of them.
LEMMA HigherIsOne == \A a, b : Higher(a, b) \in {a, b}
BY DEF Higher

LEMMA TruthRead ==
    ASSUME TypeOK, TruthInv, NEW a \in Addresses, ReadHistory(a)
    PROVE  TruthInv'
<1>1. /\ step = "query" /\ a \in unread /\ current' = Merged(a) /\ unread' = unread \ {a}
      /\ step' \in {"query", "diff"} /\ queue = {}
      /\ UNCHANGED <<chain, snapshot, cur, queue, shown, member>>
  BY DEF ReadHistory, TypeOK, visitVars
<1>2. Shows(chain) \subseteq shown /\ unread \subseteq snapshot[cur] /\ member
  BY <1>1 DEF TruthInv
<1>3. ASSUME NEW tx \in Txs, current'[tx] # None PROVE Truthful(tx, current'[tx])
  <2>1. current[tx] # None => Truthful(tx, current[tx])
    BY <1>1 DEF TruthInv
  <2>2. current'[tx] = IF a \in Touched[tx] THEN Higher(current[tx], Clamped(chain[tx]))
                                            ELSE current[tx]
    BY <1>1 DEF Merged
  <2>3. CASE current'[tx] = current[tx]
    BY <1>3, <2>1, <2>3
  <2>4. CASE a \in Touched[tx] /\ current'[tx] = Clamped(chain[tx])
    <3>1. <<tx, Clamped(chain[tx])>> \in Shows(chain)
      BY <1>3, <2>4 DEF Shows, Present
    <3> QED
      BY <1>1, <1>2, <2>4, <3>1 DEF Truthful
  <2> QED
    BY <2>2, <2>3, <2>4, HigherIsOne
<1>4. Shows(chain)' = Shows(chain)
  BY <1>1 DEF Shows, Present
<1> QED
  BY <1>1, <1>2, <1>3, <1>4 DEF TruthInv, NewsIsTrue, Truthful

LEMMA TruthCompare == TypeOK /\ TruthInv /\ Compare => TruthInv'
<1> SUFFICES ASSUME TypeOK, TruthInv, Compare PROVE TruthInv'
  OBVIOUS
<1>1. /\ step = "diff" /\ queue' = Diff(known[cur], current) /\ step' \in {"next", "notify"}
      /\ UNCHANGED <<snapshot, cur, shown, member>>
  BY DEF Compare, visitVars
<1>2. ASSUME NEW n \in Diff(known[cur], current)
      PROVE  n[2] = current[n[1]] /\ n[1] \in Txs /\ n = <<n[1], n[2]>> /\ n[2] # None
  BY DEF Diff
<1>3. \A n \in queue' : Truthful(n[1], n[2]) /\ n = <<n[1], n[2]>>
  BY <1>1, <1>2 DEF TruthInv
<1> QED
  BY <1>1, <1>3 DEF TruthInv, NewsIsTrue, Truthful

LEMMA TruthNotify ==
    ASSUME TruthInv, NEW notice \in queue, Notify(notice)
    PROVE  TruthInv'
<1>1. /\ step = "notify" /\ queue' \subseteq queue /\ step' \in {"next", "notify"}
      /\ UNCHANGED <<snapshot, cur, shown, member>>
  BY DEF Notify, visitVars
<1> QED
  BY <1>1 DEF TruthInv, NewsIsTrue

LEMMA TruthNext == TypeOK /\ TruthInv /\ [Next]_vars => TruthInv'
<1> SUFFICES ASSUME TypeOK, TruthInv, [Next]_vars PROVE TruthInv'
  OBVIOUS
<1>1. CASE UNCHANGED vars
  <2>1. UNCHANGED <<chain, tickVars, shown, member>>
    BY <1>1 DEF vars, visitVars
  <2> QED
    BY <2>1, TruthFrame DEF TruthInv, Shows, Present
<1>2. CASE StartTick \/ ReadFails \/ EndTick \/ CrashAndRestart
  <2>1. step' \in {"sleep", "next"} /\ queue' = {}
    BY <1>2 DEF TypeOK, StartTick, ReadFails, EndTick, CrashAndRestart, Resting
  <2> QED
    BY <2>1, TruthIdle
<1>3. CASE WatcherStep
  BY <1>2, <1>3, TruthCompare, TruthVisit, TruthRead, TruthNotify DEF WatcherStep
<1>4. ASSUME NEW w \in Wallets, Pair(w) \/ TakeOffAllowlist(w) \/ ClearSet(w) PROVE TruthInv'
  <2>1. UNCHANGED <<chain, tickVars, shown>>
    BY <1>4 DEF Pair, TakeOffAllowlist, ClearSet, visitVars
  <2>2. member' = (member \/ w = cur) \/ member' = member
    BY <1>4, Zenon DEF Pair, TakeOffAllowlist, ClearSet, visitVars
  <2>3. member => member'
    BY <2>2, Zenon
  <2> QED
    BY <2>1, <2>3, TruthFrame DEF TruthInv, Shows, Present
<1>5. ASSUME NEW w \in Wallets, NEW addrs \in Offered, Register(w, addrs)
      PROVE  TruthInv'
  <2>1. UNCHANGED <<chain, tickVars, shown, member>>
    BY <1>5 DEF Register, visitVars
  <2> QED
    BY <2>1, TruthFrame DEF TruthInv, Shows, Present
<1>6. ASSUME NEW tx \in Txs, NEW height \in Reported, ChangeChain(tx, height)
      PROVE  TruthInv'
  <2>1. /\ UNCHANGED <<tickVars, member>>
        /\ shown' = IF step = "query" THEN shown \cup Shows(chain') ELSE shown
    BY <1>6 DEF ChangeChain
  <2> QED
    BY <2>1, TruthFrame
<1> QED
  BY <1>1, <1>2, <1>3, <1>4, <1>5, <1>6 DEF Next

\* Whatever the chain, the stores and the failures do during a visit, the notices
\* that come of it are true of the chain at a moment of the visit, and concern
\* its wallet: what is read for one wallet is never told to another.
THEOREM WatcherNewsIsTrue == Spec => []NewsIsTrue
<1>1. TruthInv => NewsIsTrue
  BY DEF TruthInv
<1> QED
  BY TruthInit, TruthNext, WatcherTypeCorrect, <1>1, PTL DEF Spec
-----------------------------------------------------------------------------
(* Nothing is told twice.  While a notice is in repeats, neither its       *)
(* transaction moves nor its wallet's set changes, so every later visit    *)
(* reads the same of the transaction; from the first of them on, the state *)
(* says what the next will read, and diff is silent.                       *)

InVisit == step \in {"query", "diff"}

\* What a whole visit of w reads of tx.
Expected(w, tx) == IF Touched[tx] \cap sets[w] # {} THEN Clamped(chain[tx]) ELSE None

VisitOK ==
    /\ setsDisk = sets
    /\ ~stateFault => knownDisk = known
    /\ InVisit \/ step = "notify" => cur \notin todo
    /\ InVisit => unread \subseteq snapshot[cur]
    /\ step = "diff" => unread = {}
    /\ \A n \in queue : known[cur] # None /\ known[cur][n[1]] = n[2]

\* A visit since the notice works on the present set and reads the present chain.
Steady(w, tx) ==
    /\ w \in todo \/ (InVisit /\ cur = w) => snapshot[w] = sets[w]
    /\ InVisit /\ cur = w =>
          current[tx] = IF Touched[tx] \cap (snapshot[w] \ unread) # {}
                        THEN Clamped(chain[tx]) ELSE None

\* The notice is not about to be sent, and the state will not ask for it.
Quiet(w, tx, h) ==
    ~stateFault =>
        /\ cur = w => <<tx, h>> \notin queue
        /\ known[w] # None => known[w][tx] = h \/ known[w][tx] = Expected(w, tx)

RepeatInv ==
    /\ VisitOK
    /\ \A w \in Wallets, tx \in Txs, h \in 0..MaxHeight :
          <<w, <<tx, h>>>> \in repeats => Steady(w, tx) /\ Quiet(w, tx, h)

LEMMA RepeatInit == Init => RepeatInv
BY DEF Init, S!InitStores, RepeatInv, VisitOK, InVisit

\* Notices may leave the history, and nothing else that matters changes.
LEMMA RepeatFrame ==
    ASSUME RepeatInv, repeats' \subseteq repeats,
           UNCHANGED <<chain, sets, setsDisk, tickVars, knownVars, stateFault>>
    PROVE  RepeatInv'
<1>1. VisitOK'
  BY DEF RepeatInv, VisitOK, InVisit, tickVars, knownVars
<1>2. ASSUME NEW w \in Wallets, NEW tx \in Txs, NEW h \in 0..MaxHeight,
             <<w, <<tx, h>>>> \in repeats'
      PROVE  Steady(w, tx)' /\ Quiet(w, tx, h)'
  <2>1. Steady(w, tx) /\ Quiet(w, tx, h)
    BY <1>2 DEF RepeatInv
  <2> QED
    BY <2>1 DEF Steady, Quiet, Expected, InVisit, Clamped, tickVars, knownVars
<1> QED
  BY <1>1, <1>2 DEF RepeatInv

\* The chain moves: notices of the transaction leave the history.
LEMMA RepeatChain ==
    ASSUME TypeOK, RepeatInv, NEW t \in Txs, NEW height \in Reported, ChangeChain(t, height)
    PROVE  RepeatInv'
<1>1. VisitOK'
  BY DEF RepeatInv, VisitOK, InVisit, ChangeChain, storeVars, tickVars, knownVars
<1>2. ASSUME NEW w \in Wallets, NEW tx \in Txs, NEW h \in 0..MaxHeight,
             <<w, <<tx, h>>>> \in repeats'
      PROVE  Steady(w, tx)' /\ Quiet(w, tx, h)'
  <2>1. Steady(w, tx) /\ Quiet(w, tx, h) /\ tx # t
    BY <1>2 DEF RepeatInv, ChangeChain
  <2>2. chain'[tx] = chain[tx]
    BY <2>1 DEF ChangeChain, TypeOK
  <2> QED
    BY <2>1, <2>2 DEF Steady, Quiet, Expected, InVisit, Clamped, ChangeChain, storeVars,
                      tickVars, knownVars
<1> QED
  BY <1>1, <1>2 DEF RepeatInv

\* A watch set changes: notices of its wallet leave the history.
LEMMA RepeatSets ==
    ASSUME TypeOK, RepeatInv, NEW v \in Wallets, NEW addrs,
           ClearSet(v) \/ Register(v, addrs)
    PROVE  RepeatInv'
<1>1. /\ \A w \in Wallets : w # v => sets'[w] = sets[w]
      /\ setsDisk' = sets'
  BY DEF TypeOK, RepeatInv, VisitOK, ClearSet, Register, S!StoresOK, S!RemoveWallet, S!Replace,
         S!Saved
<1>2. UNCHANGED <<chain, tickVars, knownVars, stateFault>>
  BY DEF ClearSet, Register
<1>3. repeats' = {r \in repeats : r[1] # v}
  BY DEF ClearSet, Register
<1>4. VisitOK'
  BY <1>1, <1>2 DEF RepeatInv, VisitOK, InVisit, tickVars, knownVars
<1>5. ASSUME NEW w \in Wallets, NEW tx \in Txs, NEW h \in 0..MaxHeight,
             <<w, <<tx, h>>>> \in repeats'
      PROVE  Steady(w, tx)' /\ Quiet(w, tx, h)'
  <2>1. Steady(w, tx) /\ Quiet(w, tx, h) /\ w # v
    BY <1>3, <1>5 DEF RepeatInv
  <2>2. sets'[w] = sets[w]
    BY <1>1, <2>1
  <2> QED
    BY <1>2, <2>1, <2>2 DEF Steady, Quiet, Expected, InVisit, Clamped, tickVars, knownVars
<1> QED
  BY <1>4, <1>5 DEF RepeatInv

LEMMA RepeatStart == TypeOK /\ RepeatInv /\ StartTick => RepeatInv'
<1> SUFFICES ASSUME TypeOK, RepeatInv, StartTick PROVE RepeatInv'
  OBVIOUS
<1>1. /\ step' = "next" /\ snapshot' = sets /\ queue = {}
      /\ UNCHANGED <<chain, sets, setsDisk, cur, unread, current, queue, known, knownDisk,
                    repeats, stateFault>>
  BY DEF StartTick, TypeOK, storeVars, knownVars, historyVars
<1>2. VisitOK'
  BY <1>1 DEF RepeatInv, VisitOK, InVisit
<1>3. ASSUME NEW w \in Wallets, NEW tx \in Txs, NEW h \in 0..MaxHeight,
             <<w, <<tx, h>>>> \in repeats'
      PROVE  Steady(w, tx)' /\ Quiet(w, tx, h)'
  <2>1. Quiet(w, tx, h)
    BY <1>1, <1>3 DEF RepeatInv
  <2> QED
    BY <1>1, <2>1 DEF Steady, Quiet, Expected, InVisit, Clamped
<1> QED
  BY <1>2, <1>3 DEF RepeatInv

LEMMA RepeatVisit ==
    ASSUME TypeOK, RepeatInv, NEW v \in Wallets, VisitWallet(v)
    PROVE  RepeatInv'
<1>1. /\ step = "next" /\ v \in todo /\ todo' = todo \ {v} /\ current' = NoHistory
      /\ queue = {}
      /\ UNCHANGED <<chain, sets, setsDisk, snapshot, queue, known, knownDisk, repeats,
                    stateFault>>
  BY DEF VisitWallet, TypeOK, storeVars, knownVars, historyVars
<1>2. \/ step' = "query" /\ cur' = v /\ unread' = snapshot[v]
      \/ UNCHANGED <<step, cur, unread>>
  BY DEF VisitWallet
<1>3. VisitOK'
  BY <1>1, <1>2 DEF RepeatInv, VisitOK, InVisit
<1>4. ASSUME NEW w \in Wallets, NEW tx \in Txs, NEW h \in 0..MaxHeight,
             <<w, <<tx, h>>>> \in repeats'
      PROVE  Steady(w, tx)' /\ Quiet(w, tx, h)'
  <2>1. Steady(w, tx) /\ Quiet(w, tx, h)
    BY <1>1, <1>4 DEF RepeatInv
  <2>2. NoHistory[tx] = None
    BY DEF NoHistory
  <2>3. Steady(w, tx)'
    BY <1>1, <1>2, <2>1, <2>2 DEF Steady, InVisit
  <2>4. Quiet(w, tx, h)'
    BY <1>1, <2>1 DEF Quiet, Expected, Clamped
  <2> QED
    BY <2>3, <2>4
<1> QED
  BY <1>3, <1>4 DEF RepeatInv

\* One more address of a steady visit: the chain says the same of tx again.
LEMMA SteadyRead ==
    ASSUME VisitOK, NEW a \in Addresses, ReadHistory(a), NEW w \in Wallets, NEW tx \in Txs,
           Steady(w, tx)
    PROVE  Steady(w, tx)'
<1>1. /\ step = "query" /\ a \in unread /\ current' = Merged(a) /\ unread' = unread \ {a}
      /\ UNCHANGED <<chain, sets, snapshot, todo, cur>>
  BY DEF ReadHistory, storeVars
<1>2. ASSUME cur = w
      PROVE  Merged(a)[tx] = IF Touched[tx] \cap (snapshot[w] \ (unread \ {a})) # {}
                             THEN Clamped(chain[tx]) ELSE None
  <2>1. current[tx] = IF Touched[tx] \cap (snapshot[w] \ unread) # {}
                      THEN Clamped(chain[tx]) ELSE None
    BY <1>1, <1>2 DEF Steady, InVisit
  <2>2. Merged(a)[tx] = IF a \in Touched[tx] THEN Higher(current[tx], Clamped(chain[tx]))
                                             ELSE current[tx]
    BY DEF Merged
  <2>3. /\ Higher(None, Clamped(chain[tx])) = Clamped(chain[tx])
        /\ Higher(Clamped(chain[tx]), Clamped(chain[tx])) = Clamped(chain[tx])
    BY DEF Higher
  <2>4. a \in snapshot[w]
    BY <1>1, <1>2 DEF VisitOK, InVisit
  <2>5. CASE a \in Touched[tx]
    <3>1. Touched[tx] \cap (snapshot[w] \ (unread \ {a})) # {}
      BY <2>4, <2>5
    <3> QED
      BY <2>1, <2>2, <2>3, <2>5, <3>1
  <2>6. CASE a \notin Touched[tx]
    <3>1. Touched[tx] \cap (snapshot[w] \ (unread \ {a}))
             = Touched[tx] \cap (snapshot[w] \ unread)
      BY <2>6
    <3> QED
      BY <2>1, <2>2, <2>6, <3>1
  <2> QED
    BY <2>5, <2>6
<1> QED
  BY <1>1, <1>2 DEF Steady, InVisit, Clamped

LEMMA RepeatRead ==
    ASSUME TypeOK, RepeatInv, NEW a \in Addresses, ReadHistory(a)
    PROVE  RepeatInv'
<1>1. /\ step = "query" /\ a \in unread /\ current' = Merged(a) /\ unread' = unread \ {a}
      /\ queue = {} /\ step' \in {"query", "diff"} /\ (step' = "diff" => unread' = {})
      /\ UNCHANGED <<chain, sets, setsDisk, snapshot, todo, cur, queue, known, knownDisk,
                    repeats, stateFault>>
  BY DEF ReadHistory, TypeOK, storeVars, knownVars, historyVars
<1>2. VisitOK'
  BY <1>1 DEF RepeatInv, VisitOK, InVisit
<1>3. ASSUME NEW w \in Wallets, NEW tx \in Txs, NEW h \in 0..MaxHeight,
             <<w, <<tx, h>>>> \in repeats'
      PROVE  Steady(w, tx)' /\ Quiet(w, tx, h)'
  <2>1. Steady(w, tx) /\ Quiet(w, tx, h)
    BY <1>1, <1>3 DEF RepeatInv
  <2>2. Quiet(w, tx, h)'
    BY <1>1, <2>1 DEF Quiet, Expected, Clamped
  <2>3. Steady(w, tx)'
    BY <2>1, SteadyRead DEF RepeatInv
  <2> QED
    BY <2>2, <2>3
<1> QED
  BY <1>2, <1>3 DEF RepeatInv

LEMMA RepeatReadFails == TypeOK /\ RepeatInv /\ ReadFails => RepeatInv'
<1> SUFFICES ASSUME TypeOK, RepeatInv, ReadFails PROVE RepeatInv'
  OBVIOUS
<1>1. /\ step = "query" /\ step' = "next" /\ queue = {}
      /\ UNCHANGED <<chain, sets, setsDisk, snapshot, todo, queue, known, knownDisk, repeats,
                    stateFault>>
  BY DEF ReadFails, TypeOK, storeVars, knownVars, historyVars
<1>2. VisitOK'
  BY <1>1 DEF RepeatInv, VisitOK, InVisit
<1>3. ASSUME NEW w \in Wallets, NEW tx \in Txs, NEW h \in 0..MaxHeight,
             <<w, <<tx, h>>>> \in repeats'
      PROVE  Steady(w, tx)' /\ Quiet(w, tx, h)'
  <2>1. Steady(w, tx) /\ Quiet(w, tx, h)
    BY <1>1, <1>3 DEF RepeatInv
  <2> QED
    BY <1>1, <2>1 DEF Steady, Quiet, Expected, InVisit, Clamped
<1> QED
  BY <1>2, <1>3 DEF RepeatInv

\* A notice sent before is not found again.
LEMMA DiffSilent ==
    ASSUME NEW before \in History \cup {None}, NEW after \in History,
           NEW tx \in Txs, NEW h \in 0..MaxHeight,
           before # None => before[tx] = h \/ before[tx] = after[tx]
    PROVE  <<tx, h>> \notin Diff(before, after)
<1> SUFFICES ASSUME <<tx, h>> \in Diff(before, after) PROVE FALSE
  OBVIOUS
<1>1. before # None
  BY DEF Diff
<1>2. PICK t \in Txs : /\ <<tx, h>> = <<t, after[t]>> /\ after[t] # None
                       /\ before[t] = None \/ (before[t] = 0 /\ after[t] > 0)
  BY <1>1 DEF Diff
<1>3. t = tx /\ after[tx] = h
  BY <1>2
<1>4. before[tx] = h /\ h # None
  BY <1>1, <1>2, <1>3
<1> QED
  BY <1>2, <1>3, <1>4

LEMMA RepeatCompare == TypeOK /\ RepeatInv /\ Compare => RepeatInv'
<1> SUFFICES ASSUME TypeOK, RepeatInv, Compare PROVE RepeatInv'
  OBVIOUS
<1>1. /\ step = "diff" /\ step' \in {"next", "notify"} /\ queue' = Diff(known[cur], current)
      /\ known' = [known EXCEPT ![cur] = current]
      /\ UNCHANGED <<chain, sets, setsDisk, snapshot, todo, cur, unread, current, repeats>>
  BY DEF Compare, storeVars
<1>2. ~stateFault' => ~stateFault /\ knownDisk' = known'
  BY DEF Compare, Saved
<1>3. /\ cur \in Wallets /\ known \in [Wallets -> History \cup {None}] /\ current \in History
      /\ known[cur] \in History \cup {None} /\ current # None
  BY <1>1, NoHistoryType DEF TypeOK
<1>4. known'[cur] = current /\ \A w \in Wallets : w # cur => known'[w] = known[w]
  BY <1>1, <1>3
<1>5. VisitOK'
  <2>1. \A n \in Diff(known[cur], current) : current[n[1]] = n[2]
    BY DEF Diff
  <2> QED
    BY <1>1, <1>2, <1>3, <1>4, <2>1 DEF RepeatInv, VisitOK, InVisit
<1>6. ASSUME NEW w \in Wallets, NEW tx \in Txs, NEW h \in 0..MaxHeight,
             <<w, <<tx, h>>>> \in repeats'
      PROVE  Steady(w, tx)' /\ Quiet(w, tx, h)'
  <2>1. Steady(w, tx) /\ Quiet(w, tx, h)
    BY <1>1, <1>6 DEF RepeatInv
  <2>2. Steady(w, tx)'
    BY <1>1, <2>1 DEF Steady, InVisit
  <2>3. Expected(w, tx)' = Expected(w, tx)
    BY <1>1 DEF Expected, Clamped
  <2>4. CASE w = cur
    <3>1. snapshot[w] = sets[w] /\ unread = {}
      BY <1>1, <2>1, <2>4 DEF Steady, InVisit, RepeatInv, VisitOK
    <3>2. current[tx] = Expected(w, tx)
      BY <1>1, <2>1, <2>4, <3>1 DEF Steady, InVisit, Expected
    <3>3. ~stateFault => (known[cur] # None => known[cur][tx] = h \/ known[cur][tx] = current[tx])
      BY <2>1, <2>4, <3>2 DEF Quiet
    <3>4. ~stateFault => <<tx, h>> \notin queue'
      BY <1>1, <1>3, <3>3, DiffSilent
    <3>5. known'[w][tx] = Expected(w, tx)
      BY <1>4, <2>4, <3>2
    <3>6. Quiet(w, tx, h)'
      BY <1>2, <2>3, <3>4, <3>5 DEF Quiet
    <3> QED
      BY <2>2, <3>6
  <2>5. CASE w # cur
    <3>1. known'[w] = known[w] /\ cur' # w
      BY <1>1, <1>4, <2>5
    <3>2. Quiet(w, tx, h)'
      BY <1>2, <2>1, <2>3, <3>1 DEF Quiet
    <3> QED
      BY <2>2, <3>2
  <2> QED
    BY <2>4, <2>5
<1> QED
  BY <1>5, <1>6 DEF RepeatInv

\* What is sent is what the state already says.
LEMMA RepeatNotify ==
    ASSUME TypeOK, RepeatInv, NEW notice \in queue, Notify(notice)
    PROVE  RepeatInv'
<1>1. /\ step = "notify" /\ queue' = queue \ {notice} /\ step' \in {"next", "notify"}
      /\ repeats' \subseteq repeats \cup {<<cur, notice>>}
      /\ UNCHANGED <<chain, sets, setsDisk, snapshot, todo, cur, unread, current, known,
                    knownDisk, stateFault>>
  BY DEF Notify, storeVars, knownVars
<1>2. VisitOK'
  BY <1>1 DEF RepeatInv, VisitOK, InVisit
<1>3. ASSUME NEW w \in Wallets, NEW tx \in Txs, NEW h \in 0..MaxHeight,
             <<w, <<tx, h>>>> \in repeats'
      PROVE  Steady(w, tx)' /\ Quiet(w, tx, h)'
  <2>1. CASE <<w, <<tx, h>>>> \in repeats
    <3>1. Steady(w, tx) /\ Quiet(w, tx, h)
      BY <2>1 DEF RepeatInv
    <3> QED
      BY <1>1, <3>1 DEF Steady, Quiet, Expected, InVisit, Clamped
  <2>2. CASE w = cur /\ <<tx, h>> = notice
    <3>1. known[w] # None /\ known[w][tx] = h
      BY <2>2 DEF RepeatInv, VisitOK
    <3>2. w \notin todo
      BY <1>1, <2>2 DEF RepeatInv, VisitOK
    <3>3. Steady(w, tx)'
      BY <1>1, <3>2 DEF Steady, InVisit
    <3>4. Quiet(w, tx, h)'
      BY <1>1, <2>2, <3>1 DEF Quiet
    <3> QED
      BY <3>3, <3>4
  <2> QED
    BY <1>1, <1>3, <2>1, <2>2
<1> QED
  BY <1>2, <1>3 DEF RepeatInv

\* The end of a tick and a restart keep or forget what is known of a wallet,
\* unless a write of the state failed.
LEMMA RepeatRest ==
    ASSUME RepeatInv, Resting, UNCHANGED <<chain, sets, setsDisk, repeats>>,
           stateFault => stateFault',
           ~stateFault' => /\ knownDisk' = known'
                           /\ \A w \in Wallets : known'[w] \in {known[w], None}
    PROVE  RepeatInv'
<1>1. VisitOK'
  BY DEF RepeatInv, VisitOK, InVisit, Resting
<1>2. ASSUME NEW w \in Wallets, NEW tx \in Txs, NEW h \in 0..MaxHeight,
             <<w, <<tx, h>>>> \in repeats'
      PROVE  Steady(w, tx)' /\ Quiet(w, tx, h)'
  <2>1. Quiet(w, tx, h)
    BY <1>2 DEF RepeatInv
  <2>2. ~stateFault' => known'[w] = known[w] \/ known'[w] = None
    OBVIOUS
  <2>3. Expected(w, tx)' = Expected(w, tx)
    BY DEF Expected, Clamped
  <2> QED
    BY <2>1, <2>2, <2>3 DEF Steady, Quiet, InVisit, Resting
<1> QED
  BY <1>1, <1>2 DEF RepeatInv

LEMMA RepeatEndTick == RepeatInv /\ EndTick => RepeatInv'
<1> SUFFICES ASSUME RepeatInv, EndTick PROVE RepeatInv'
  OBVIOUS
<1>1. \A w \in Wallets : known'[w] \in {known[w], None}
  BY DEF EndTick
<1>2. PICK written \in BOOLEAN :
         /\ knownDisk' = IF known' = known THEN knownDisk ELSE Saved(known', knownDisk, written)
         /\ stateFault' = (stateFault \/ ~written)
  BY DEF EndTick
<1>3. ~stateFault' => knownDisk' = known'
  BY <1>2 DEF Saved, RepeatInv, VisitOK
<1> QED
  BY <1>1, <1>2, <1>3, RepeatRest DEF EndTick, storeVars

LEMMA RepeatCrash == RepeatInv /\ CrashAndRestart => RepeatInv'
<1> SUFFICES ASSUME RepeatInv, CrashAndRestart PROVE RepeatInv'
  OBVIOUS
<1>1. /\ known' = knownDisk /\ Resting
      /\ UNCHANGED <<chain, sets, setsDisk, knownDisk, repeats, stateFault>>
  BY DEF CrashAndRestart, S!ReloadStores, RepeatInv, VisitOK
<1> QED
  BY <1>1, RepeatRest DEF RepeatInv, VisitOK

LEMMA RepeatNext == TypeOK /\ RepeatInv /\ [Next]_vars => RepeatInv'
<1> SUFFICES ASSUME TypeOK, RepeatInv, [Next]_vars PROVE RepeatInv'
  OBVIOUS
<1>1. CASE UNCHANGED vars
  BY <1>1, RepeatFrame DEF vars, storeVars, historyVars
<1>2. CASE WatcherStep
  BY <1>2, RepeatStart, RepeatCompare, RepeatEndTick, RepeatVisit, RepeatRead, RepeatNotify
     DEF WatcherStep
<1>3. ASSUME NEW w \in Wallets, Pair(w) \/ TakeOffAllowlist(w) PROVE RepeatInv'
  BY <1>3, RepeatFrame DEF Pair, TakeOffAllowlist, S!Add, S!Remove, S!watchVars, historyVars
<1>4. ASSUME NEW w \in Wallets, ClearSet(w) PROVE RepeatInv'
  BY <1>4, RepeatSets
<1>5. ASSUME NEW w \in Wallets, NEW addrs \in Offered, Register(w, addrs)
      PROVE RepeatInv'
  BY <1>5, RepeatSets
<1>6. CASE \E tx \in Txs, height \in Reported : ChangeChain(tx, height)
  BY <1>6, RepeatChain
<1> QED
  BY <1>1, <1>2, <1>3, <1>4, <1>5, <1>6, RepeatReadFails, RepeatCrash DEF Next

\* watcher.rs:13-14, "State is persisted so a server restart does not
\* re-notify.": whatever the order of
\* questions, edits, failures and restarts, no notice goes out twice unless its
\* transaction moved, its wallet edited its set, or the state could not be saved.
THEOREM WatcherToldOnce == Spec => ToldOnce
<1>1. TypeOK /\ RepeatInv =>
        \A w \in Wallets, notice \in queue :
           Sends(w, notice) => <<w, notice>> \notin repeats \/ stateFault
  <2> SUFFICES ASSUME TypeOK, RepeatInv, NEW w \in Wallets, NEW notice \in queue,
                      Sends(w, notice), <<w, notice>> \in repeats
               PROVE  stateFault
    OBVIOUS
  <2>1. PICK tx \in Txs, h \in 0..MaxHeight : notice = <<tx, h>>
    BY DEF TypeOK
  <2>2. Quiet(w, tx, h) /\ cur = w
    BY <2>1 DEF RepeatInv, Sends
  <2> QED
    BY <2>1, <2>2 DEF Quiet, TypeOK
<1> QED
  BY <1>1, RepeatInit, RepeatNext, WatcherTypeCorrect, PTL DEF Spec, ToldOnce
-----------------------------------------------------------------------------
(* The first look is silent.  What predates the registration of a set that *)
(* nobody had looked at stays where it is on the chain while it counts as  *)
(* old, and the set stays as it is: every whole visit reads of it what the *)
(* first one took for known.                                               *)

\* The state asks for no notice of tx, and none waits.
Silent(w, tx) ==
    ~stateFault =>
        /\ cur = w => \A h \in 0..MaxHeight : <<tx, h>> \notin queue
        /\ known[w] # None => known[w][tx] = Expected(w, tx)

\* A wallet is visited, or waits to be, only with a set to look at.
VisitsSets ==
    \A w \in Wallets : w \in todo \/ (cur = w /\ (InVisit \/ step = "notify"))
                          => snapshot[w] # {}

SilentInv ==
    /\ VisitsSets
    /\ \A w \in Wallets, tx \in Txs :
          w \notin extended /\ tx \in old[w] => Steady(w, tx) /\ Silent(w, tx)

LEMMA SilentInit == Init => SilentInv
BY DEF Init, SilentInv, VisitsSets, InVisit

\* Transactions may cease to be old, and nothing else that matters changes.
LEMMA SilentFrame ==
    ASSUME SilentInv, \A w \in Wallets : old'[w] \subseteq old[w],
           UNCHANGED <<chain, sets, tickVars, knownVars, extended, stateFault>>
    PROVE  SilentInv'
<1>1. VisitsSets'
  BY DEF SilentInv, VisitsSets, InVisit, tickVars
<1>2. ASSUME NEW w \in Wallets, NEW tx \in Txs, w \notin extended', tx \in old'[w]
      PROVE  Steady(w, tx)' /\ Silent(w, tx)'
  <2>1. Steady(w, tx) /\ Silent(w, tx)
    BY <1>2 DEF SilentInv
  <2> QED
    BY <2>1 DEF Steady, Silent, Expected, InVisit, Clamped, tickVars, knownVars
<1> QED
  BY <1>1, <1>2 DEF SilentInv

\* The chain moves: the transaction that moves is old no more.
LEMMA SilentChain ==
    ASSUME TypeOK, SilentInv, NEW t \in Txs, NEW height \in Reported, ChangeChain(t, height)
    PROVE  SilentInv'
<1>1. VisitsSets'
  BY DEF SilentInv, VisitsSets, InVisit, ChangeChain, tickVars
<1>2. ASSUME NEW w \in Wallets, NEW tx \in Txs, w \notin extended', tx \in old'[w]
      PROVE  Steady(w, tx)' /\ Silent(w, tx)'
  <2>1. Steady(w, tx) /\ Silent(w, tx) /\ tx # t
    BY <1>2 DEF SilentInv, ChangeChain
  <2>2. chain'[tx] = chain[tx]
    BY <2>1 DEF ChangeChain, TypeOK
  <2> QED
    BY <2>1, <2>2 DEF Steady, Silent, Expected, InVisit, Clamped, ChangeChain, storeVars,
                      tickVars, knownVars
<1> QED
  BY <1>1, <1>2 DEF SilentInv

\* A watch set changes: nobody has looked at its wallet, or the wallet extends it.
LEMMA SilentSets ==
    ASSUME TypeOK, SilentInv, NEW v \in Wallets, NEW addrs,
           ClearSet(v) \/ Register(v, addrs)
    PROVE  SilentInv'
<1>1. /\ \A w \in Wallets : w # v => sets'[w] = sets[w] /\ old'[w] = old[w]
      /\ UNCHANGED <<chain, tickVars, knownVars, stateFault>>
  BY DEF TypeOK, ClearSet, Register, S!StoresOK, S!RemoveWallet, S!Replace
<1>2. UNCHANGED <<step, snapshot, todo, cur, unread, current, queue, known>>
  BY <1>1 DEF tickVars, knownVars
<1>3. VisitsSets'
  BY <1>2 DEF SilentInv, VisitsSets, InVisit
<1>4. ASSUME NEW w \in Wallets, NEW tx \in Txs, w \notin extended', tx \in old'[w]
      PROVE  Steady(w, tx)' /\ Silent(w, tx)'
  <2>1. CASE w = v
    <3>1. Register(v, addrs) /\ ~LookedAt(v)
      BY <1>4, <2>1 DEF ClearSet, Register, TypeOK
    <3>2. known[w] = None /\ snapshot[w] = {}
      BY <2>1, <3>1 DEF LookedAt
    <3>3. w \notin todo /\ ~(cur = w /\ (InVisit \/ step = "notify"))
      BY <3>2 DEF SilentInv, VisitsSets
    <3>4. cur = w => queue = {}
      BY <3>3 DEF TypeOK
    <3> QED
      BY <1>2, <3>2, <3>3, <3>4 DEF Steady, Silent, InVisit
  <2>2. CASE w # v
    <3>1. Steady(w, tx) /\ Silent(w, tx)
      BY <1>1, <1>4, <2>2 DEF SilentInv, ClearSet, Register
    <3>2. sets'[w] = sets[w] /\ chain' = chain
      BY <1>1, <2>2
    <3> QED
      BY <1>1, <1>2, <3>1, <3>2 DEF Steady, Silent, Expected, InVisit, Clamped
  <2> QED
    BY <2>1, <2>2
<1> QED
  BY <1>3, <1>4 DEF SilentInv

LEMMA SilentStart == TypeOK /\ SilentInv /\ StartTick => SilentInv'
<1> SUFFICES ASSUME TypeOK, SilentInv, StartTick PROVE SilentInv'
  OBVIOUS
<1>1. /\ step' = "next" /\ snapshot' = sets /\ todo' = {w \in Wallets : sets[w] # {}}
      /\ UNCHANGED <<chain, sets, cur, queue, known, old, extended, stateFault>>
  BY DEF StartTick, storeVars, knownVars, historyVars
<1>2. VisitsSets'
  BY <1>1 DEF VisitsSets, InVisit
<1>3. ASSUME NEW w \in Wallets, NEW tx \in Txs, w \notin extended', tx \in old'[w]
      PROVE  Steady(w, tx)' /\ Silent(w, tx)'
  <2>1. Silent(w, tx)
    BY <1>1, <1>3 DEF SilentInv
  <2> QED
    BY <1>1, <2>1 DEF Steady, Silent, Expected, InVisit, Clamped
<1> QED
  BY <1>2, <1>3 DEF SilentInv

LEMMA SilentVisit ==
    ASSUME TypeOK, SilentInv, NEW v \in Wallets, VisitWallet(v)
    PROVE  SilentInv'
<1>1. /\ step = "next" /\ v \in todo /\ todo' = todo \ {v} /\ current' = NoHistory
      /\ queue = {}
      /\ UNCHANGED <<chain, sets, snapshot, queue, known, old, extended, stateFault>>
  BY DEF VisitWallet, TypeOK, storeVars, knownVars, historyVars
<1>2. \/ step' = "query" /\ cur' = v /\ unread' = snapshot[v]
      \/ UNCHANGED <<step, cur, unread>>
  BY DEF VisitWallet
<1>3. VisitsSets'
  BY <1>1, <1>2 DEF SilentInv, VisitsSets, InVisit
<1>4. ASSUME NEW w \in Wallets, NEW tx \in Txs, w \notin extended', tx \in old'[w]
      PROVE  Steady(w, tx)' /\ Silent(w, tx)'
  <2>1. Steady(w, tx) /\ Silent(w, tx)
    BY <1>1, <1>4 DEF SilentInv
  <2>2. NoHistory[tx] = None
    BY DEF NoHistory
  <2>3. Steady(w, tx)'
    BY <1>1, <1>2, <2>1, <2>2 DEF Steady, InVisit
  <2>4. Silent(w, tx)'
    BY <1>1, <2>1 DEF Silent, Expected, Clamped
  <2> QED
    BY <2>3, <2>4
<1> QED
  BY <1>3, <1>4 DEF SilentInv

LEMMA SilentRead ==
    ASSUME TypeOK, VisitOK, SilentInv, NEW a \in Addresses, ReadHistory(a)
    PROVE  SilentInv'
<1>1. /\ step = "query" /\ step' \in {"query", "diff"} /\ queue = {}
      /\ UNCHANGED <<chain, sets, snapshot, todo, cur, queue, known, old, extended,
                    stateFault>>
  BY DEF ReadHistory, TypeOK, storeVars, knownVars, historyVars
<1>2. VisitsSets'
  BY <1>1 DEF SilentInv, VisitsSets, InVisit
<1>3. ASSUME NEW w \in Wallets, NEW tx \in Txs, w \notin extended', tx \in old'[w]
      PROVE  Steady(w, tx)' /\ Silent(w, tx)'
  <2>1. Steady(w, tx) /\ Silent(w, tx)
    BY <1>1, <1>3 DEF SilentInv
  <2>2. Steady(w, tx)'
    BY <2>1, SteadyRead
  <2>3. Silent(w, tx)'
    BY <1>1, <2>1 DEF Silent, Expected, Clamped
  <2> QED
    BY <2>2, <2>3
<1> QED
  BY <1>2, <1>3 DEF SilentInv

LEMMA SilentReadFails == TypeOK /\ SilentInv /\ ReadFails => SilentInv'
<1> SUFFICES ASSUME TypeOK, SilentInv, ReadFails PROVE SilentInv'
  OBVIOUS
<1>1. /\ step' = "next" /\ queue = {}
      /\ UNCHANGED <<chain, sets, snapshot, todo, queue, known, old, extended, stateFault>>
  BY DEF ReadFails, TypeOK, storeVars, knownVars, historyVars
<1>2. VisitsSets'
  BY <1>1 DEF SilentInv, VisitsSets, InVisit
<1>3. ASSUME NEW w \in Wallets, NEW tx \in Txs, w \notin extended', tx \in old'[w]
      PROVE  Steady(w, tx)' /\ Silent(w, tx)'
  <2>1. Steady(w, tx) /\ Silent(w, tx)
    BY <1>1, <1>3 DEF SilentInv
  <2> QED
    BY <1>1, <2>1 DEF Steady, Silent, Expected, InVisit, Clamped
<1> QED
  BY <1>2, <1>3 DEF SilentInv

\* The first look tells nothing, and a later one reads what it took for known.
LEMMA SilentCompare == TypeOK /\ VisitOK /\ SilentInv /\ Compare => SilentInv'
<1> SUFFICES ASSUME TypeOK, VisitOK, SilentInv, Compare PROVE SilentInv'
  OBVIOUS
<1>1. /\ step = "diff" /\ step' \in {"next", "notify"} /\ queue' = Diff(known[cur], current)
      /\ known' = [known EXCEPT ![cur] = current]
      /\ UNCHANGED <<chain, sets, snapshot, todo, cur, unread, current, old, extended>>
  BY DEF Compare, storeVars
<1>2. ~stateFault' => ~stateFault
  BY DEF Compare
<1>3. /\ cur \in Wallets /\ current \in History /\ known[cur] \in History \cup {None}
      /\ known'[cur] = current /\ \A w \in Wallets : w # cur => known'[w] = known[w]
  BY <1>1 DEF TypeOK
<1>4. VisitsSets'
  BY <1>1 DEF SilentInv, VisitsSets, InVisit
<1>5. ASSUME NEW w \in Wallets, NEW tx \in Txs, w \notin extended', tx \in old'[w]
      PROVE  Steady(w, tx)' /\ Silent(w, tx)'
  <2>1. Steady(w, tx) /\ Silent(w, tx)
    BY <1>1, <1>5 DEF SilentInv
  <2>2. Steady(w, tx)'
    BY <1>1, <2>1 DEF Steady, InVisit
  <2>3. Expected(w, tx)' = Expected(w, tx)
    BY <1>1 DEF Expected, Clamped
  <2>4. CASE w = cur
    <3>1. snapshot[w] = sets[w] /\ unread = {}
      BY <1>1, <2>1, <2>4 DEF Steady, InVisit, VisitOK
    <3>2. current[tx] = Expected(w, tx)
      BY <1>1, <2>1, <2>4, <3>1 DEF Steady, InVisit, Expected
    <3>3. ~stateFault => (known[cur] # None => known[cur][tx] = current[tx])
      BY <2>1, <2>4, <3>2 DEF Silent
    <3>4. ~stateFault => \A h \in 0..MaxHeight : <<tx, h>> \notin queue'
      BY <1>1, <1>3, <3>3, DiffSilent
    <3> QED
      BY <1>2, <1>3, <2>2, <2>3, <2>4, <3>2, <3>4 DEF Silent
  <2>5. CASE w # cur
    <3>1. known'[w] = known[w] /\ cur' # w
      BY <1>1, <1>3, <2>5
    <3> QED
      BY <1>2, <2>1, <2>2, <2>3, <3>1 DEF Silent
  <2> QED
    BY <2>4, <2>5
<1> QED
  BY <1>4, <1>5 DEF SilentInv

LEMMA SilentNotify ==
    ASSUME SilentInv, NEW notice \in queue, Notify(notice)
    PROVE  SilentInv'
<1>1. /\ step = "notify" /\ queue' \subseteq queue /\ step' \in {"next", "notify"}
      /\ UNCHANGED <<chain, sets, snapshot, todo, cur, unread, current, known, old, extended,
                    stateFault>>
  BY DEF Notify, storeVars, knownVars
<1>2. VisitsSets'
  BY <1>1 DEF SilentInv, VisitsSets, InVisit
<1>3. ASSUME NEW w \in Wallets, NEW tx \in Txs, w \notin extended', tx \in old'[w]
      PROVE  Steady(w, tx)' /\ Silent(w, tx)'
  <2>1. Steady(w, tx) /\ Silent(w, tx)
    BY <1>1, <1>3 DEF SilentInv
  <2> QED
    BY <1>1, <2>1 DEF Steady, Silent, Expected, InVisit, Clamped
<1> QED
  BY <1>2, <1>3 DEF SilentInv

\* The end of a tick and a restart keep or forget what is known of a wallet.
LEMMA SilentRest ==
    ASSUME SilentInv, Resting, UNCHANGED <<chain, sets, old, extended>>,
           stateFault => stateFault',
           ~stateFault' => \A w \in Wallets : known'[w] \in {known[w], None}
    PROVE  SilentInv'
<1>1. VisitsSets'
  BY DEF VisitsSets, InVisit, Resting
<1>2. ASSUME NEW w \in Wallets, NEW tx \in Txs, w \notin extended', tx \in old'[w]
      PROVE  Steady(w, tx)' /\ Silent(w, tx)'
  <2>1. Silent(w, tx)
    BY <1>2 DEF SilentInv
  <2>2. ~stateFault' => known'[w] = known[w] \/ known'[w] = None
    OBVIOUS
  <2>3. Expected(w, tx)' = Expected(w, tx)
    BY DEF Expected, Clamped
  <2> QED
    BY <2>1, <2>2, <2>3 DEF Steady, Silent, InVisit, Resting
<1> QED
  BY <1>1, <1>2 DEF SilentInv

LEMMA SilentEndTick == SilentInv /\ EndTick => SilentInv'
<1> SUFFICES ASSUME SilentInv, EndTick PROVE SilentInv'
  OBVIOUS
<1>1. \A w \in Wallets : known'[w] \in {known[w], None}
  BY DEF EndTick
<1>2. stateFault => stateFault'
  BY DEF EndTick
<1> QED
  BY <1>1, <1>2, SilentRest DEF EndTick, storeVars

LEMMA SilentCrash == VisitOK /\ SilentInv /\ CrashAndRestart => SilentInv'
<1> SUFFICES ASSUME VisitOK, SilentInv, CrashAndRestart PROVE SilentInv'
  OBVIOUS
<1>1. known' = knownDisk /\ Resting /\ UNCHANGED <<chain, sets, old, extended, stateFault>>
  BY DEF CrashAndRestart, S!ReloadStores, VisitOK
<1> QED
  BY <1>1, SilentRest DEF VisitOK

LEMMA SilentNext == TypeOK /\ VisitOK /\ SilentInv /\ [Next]_vars => SilentInv'
<1> SUFFICES ASSUME TypeOK, VisitOK, SilentInv, [Next]_vars PROVE SilentInv'
  OBVIOUS
<1>1. CASE UNCHANGED vars
  BY <1>1, SilentFrame DEF vars, storeVars, historyVars
<1>2. CASE WatcherStep
  BY <1>2, SilentStart, SilentCompare, SilentEndTick, SilentVisit, SilentRead, SilentNotify
     DEF WatcherStep
<1>3. ASSUME NEW w \in Wallets, Pair(w) \/ TakeOffAllowlist(w) PROVE SilentInv'
  BY <1>3, SilentFrame DEF Pair, TakeOffAllowlist, S!Add, S!Remove, S!watchVars, historyVars
<1>4. ASSUME NEW w \in Wallets, ClearSet(w) PROVE SilentInv'
  BY <1>4, SilentSets
<1>5. ASSUME NEW w \in Wallets, NEW addrs \in Offered, Register(w, addrs)
      PROVE SilentInv'
  BY <1>5, SilentSets
<1>6. CASE \E tx \in Txs, height \in Reported : ChangeChain(tx, height)
  BY <1>6, SilentChain
<1> QED
  BY <1>1, <1>2, <1>3, <1>4, <1>5, <1>6, SilentReadFails, SilentCrash DEF Next

\* watcher.rs:12-13, "First observation of a wallet is silent (no notifications
\* for history that predates watching).": what was on the chain when a wallet
\* registered its addresses, once or several times, is never announced, unless it
\* then changed a set already looked at or the state was not saved.
THEOREM WatcherFirstLookIsSilent == Spec => FirstLookIsSilent
<1>1. TypeOK /\ SilentInv =>
        \A w \in Wallets, notice \in queue :
           Sends(w, notice) /\ notice[1] \in old[w] => w \in extended \/ stateFault
  <2> SUFFICES ASSUME TypeOK, SilentInv, NEW w \in Wallets, NEW notice \in queue,
                      Sends(w, notice), notice[1] \in old[w], w \notin extended
               PROVE  stateFault
    OBVIOUS
  <2>1. PICK tx \in Txs, h \in 0..MaxHeight : notice = <<tx, h>>
    BY DEF TypeOK
  <2>2. tx \in old[w] /\ cur = w
    BY <2>1 DEF Sends
  <2>3. Silent(w, tx)
    BY <2>2 DEF SilentInv
  <2> QED
    BY <2>1, <2>2, <2>3 DEF Silent, TypeOK
<1>2. RepeatInv => VisitOK
  BY DEF RepeatInv
<1> QED
  BY <1>1, <1>2, RepeatInit, RepeatNext, SilentInit, SilentNext, WatcherTypeCorrect, PTL
     DEF Spec, FirstLookIsSilent
=============================================================================
