-------------------------- MODULE NomadServer_proofs --------------------------
(***************************************************************************)
(* The server's guarantees for every number of wallets, requests, secrets, *)
(* failing writes and restarts.                                            *)
(*                                                                         *)
(* The inductive invariant has four parts.  The pairing manager inside the *)
(* server takes steps of Pairing.tla only, so its invariant is taken from  *)
(* Pairing_proofs.  LoopInv says what the loop knows at each step of a     *)
(* request, whatever the web UI did since the step before.  StoreInv ties  *)
(* each map to its file and to the grants.  ReplayInv says that an id      *)
(* handled within the retention period is in the cache and in its file.    *)
(***************************************************************************)
EXTENDS NomadServer, TLAPS

PP == INSTANCE Pairing_proofs

RP == INSTANCE RateLimiter_proofs WITH Keys <- Wallets, NoBucket <- None

Proven(w) == \E g \in grants : g.wallet = w

LoopInv ==
    /\ \A m \in net : m.proof.secret <= drawn
    /\ pc # "idle" => cur \in net
    /\ pc = "add" => Proven(cur.from)
    /\ pc = "replace" => Proven(cur.from) /\ cur.from \notin forgotten
    /\ pc = "clear_watch" => cur.from \notin wallets /\ cur.from \notin walletsDisk

\* The watch file is the map unless a write of it failed.
WatchSynced == ~watchFault => sets = setsDisk

StoreInv ==
    /\ OnlyProvenWallets
    /\ StatusDurable
    /\ WatchSetDurable
    /\ UnpairedIsForgotten
    /\ WatchSynced

ReplayInv ==
    \A id \in Ids :
        /\ ~seenFault
        /\ handledAt[id] # None
        /\ now - handledAt[id] < Retention
        => seen[id] = handledAt[id] /\ seenDisk[id] = handledAt[id]

ServerInv == ServerTypeOK /\ PP!PairingInv /\ LoopInv /\ StoreInv /\ ReplayInv

storeHistory == <<status, watching, forgotten, watchFault>>
replayHistory == <<now, handledAt, seenFault>>
-----------------------------------------------------------------------------
(* The pairing manager in the server                                       *)

LEMMA PairingAssumptions == PP!PairingAssumption /\ PP!NoneAssumption
BY ServerAssumption, NoneAssumption
   DEF PP!PairingAssumption, PP!NoneAssumption, PP!SecretState, P!SecretState,
       PP!Secrets, P!Secrets

LEMMA SameNext == P!Next <=> PP!Next
BY DEF P!Next, PP!Next, P!Times, PP!Times, P!KnownProofs, PP!KnownProofs, P!Proofs,
       PP!Proofs, P!PayloadAt, PP!PayloadAt, P!Live, PP!Live, P!VerifyAt, PP!VerifyAt,
       P!Accept, PP!Accept, P!Reject, PP!Reject, P!Refuse, PP!Refuse, P!Accepts,
       PP!Accepts, P!Comparable, PP!Comparable, P!Matches, PP!Matches,
       P!pairingVars, PP!pairingVars, P!Forget, PP!Forget

LEMMA PairingInvStep ==
    ASSUME PP!PairingInv, [P!Next]_pairingVars
    PROVE  PP!PairingInv'
<1>1. [PP!Next]_PP!pairingVars
  BY SameNext DEF pairingVars, PP!pairingVars
<1> QED BY <1>1, PairingAssumptions, PP!NextPairingInv

\* What the rest of the proofs needs of the pairing manager's invariant.
LEMMA PairingFacts ==
    ASSUME PP!PairingInv
    PROVE  drawn \in Nat /\ P!TypeOK
BY ServerAssumption
   DEF PP!PairingInv, PP!TypeOK, P!TypeOK, PP!SecretState, P!SecretState, PP!Secrets,
       P!Secrets
-----------------------------------------------------------------------------
(* Parts of the invariant that a step leaves alone                         *)

LEMMA StoreFrame ==
    ASSUME StoreInv, UNCHANGED storeVars, UNCHANGED storeHistory, grants \subseteq grants'
    PROVE  StoreInv'
BY DEF StoreInv, storeVars, storeHistory, OnlyProvenWallets, StatusDurable,
       WatchSetDurable, UnpairedIsForgotten, WatchSynced

LEMMA ReplayFrame ==
    ASSUME ReplayInv, UNCHANGED replayVars, UNCHANGED replayHistory
    PROVE  ReplayInv'
BY DEF ReplayInv, replayVars, replayHistory

\* The web UI, the network and the clock may act at any step of the loop.
LEMMA LoopFrame ==
    ASSUME LoopInv, PP!PairingInv, UNCHANGED loopVars, net \subseteq net',
           \A m \in net' : m.proof.secret <= drawn',
           grants \subseteq grants', wallets' \subseteq wallets,
           walletsDisk' \subseteq walletsDisk, forgotten' = forgotten
    PROVE  LoopInv'
BY DEF LoopInv, loopVars, Proven
-----------------------------------------------------------------------------
(* The network and the clock                                               *)

LEMMA PublishStep ==
    ASSUME ServerInv, NEW w \in Wallets, Publish(w)
    PROVE  ServerInv'
<1>1. PICK m \in Requests : m.proof.secret <= drawn /\ net' = net \cup {m}
  <2>1. PICK id \in Ids, type \in RequestTypes, proof \in P!KnownProofs,
             addrs \in SUBSET Addresses :
             net' = net \cup {[id |-> id, from |-> w, type |-> type,
                               proof |-> proof, addrs |-> addrs]}
    BY DEF Publish
  <2> DEFINE new == [id |-> id, from |-> w, type |-> type,
                     proof |-> proof, addrs |-> addrs]
  <2>2. new \in Requests /\ new.proof.secret <= drawn
    BY ServerAssumption DEF Requests, P!KnownProofs
  <2> QED BY <2>1, <2>2
<1>2. /\ UNCHANGED <<now, answers, loopVars, replayVars, buckets, pairingVars, storeVars,
                     faults, crashes, historyVars>>
  BY DEF Publish
<1>3. ServerTypeOK'
  BY <1>1, <1>2
     DEF ServerInv, ServerTypeOK, NetworkOK, LoopOK, BoundsOK, HistoryOK, C!CacheOK,
         R!BucketsOK, S!StoresOK, loopVars, replayVars, storeVars, historyVars
<1>4. PP!PairingInv'
  BY <1>2, PairingInvStep DEF ServerInv
<1>5. LoopInv'
  BY <1>1, <1>2, LoopFrame
     DEF ServerInv, LoopInv, pairingVars, storeVars, historyVars
<1>6. StoreInv' /\ ReplayInv'
  BY <1>2, StoreFrame, ReplayFrame
     DEF ServerInv, pairingVars, historyVars, storeHistory, replayHistory
<1> QED BY <1>3, <1>4, <1>5, <1>6 DEF ServerInv

LEMMA TickStep ==
    ASSUME ServerInv, Tick
    PROVE  ServerInv'
<1>1. /\ now' = now + 1 /\ now < MaxTime
      /\ UNCHANGED <<networkVars, loopVars, replayVars, buckets, pairingVars, storeVars,
                     faults, crashes, historyVars>>
  BY DEF Tick
<1>2. now \in Nat /\ now' \in 0..MaxTime
  BY <1>1, ServerAssumption DEF ServerInv, ServerTypeOK, NetworkOK
<1>3. ServerTypeOK'
  BY <1>1, <1>2
     DEF ServerInv, ServerTypeOK, NetworkOK, LoopOK, BoundsOK, HistoryOK, C!CacheOK,
         R!BucketsOK, S!StoresOK, networkVars, loopVars, replayVars, storeVars, historyVars
<1>4. PP!PairingInv'
  BY <1>1, PairingInvStep DEF ServerInv
<1>5. LoopInv'
  BY <1>1, LoopFrame
     DEF ServerInv, LoopInv, networkVars, pairingVars, storeVars, historyVars
<1>6. StoreInv'
  BY <1>1, StoreFrame DEF ServerInv, pairingVars, historyVars, storeHistory
<1>7. ReplayInv'
  <2> SUFFICES ASSUME NEW id \in Ids, ~seenFault, handledAt[id] # None,
                      (now + 1) - handledAt[id] < Retention
               PROVE  seen[id] = handledAt[id] /\ seenDisk[id] = handledAt[id]
    BY <1>1 DEF ReplayInv, replayVars, historyVars
  <2>1. handledAt[id] \in Nat
    BY ServerAssumption DEF ServerInv, ServerTypeOK, HistoryOK
  <2>2. now - handledAt[id] < Retention
    BY <1>2, <2>1, ServerAssumption
  <2> QED BY <2>2 DEF ServerInv, ReplayInv
<1> QED BY <1>3, <1>4, <1>5, <1>6, <1>7 DEF ServerInv
-----------------------------------------------------------------------------
(* Receiving a request                                                     *)

LEMMA RateAssumptions == RP!RateAssumption /\ RP!NoBucketAssumption
BY ServerAssumption, NoneAssumption
   DEF RP!RateAssumption, RP!NoBucketAssumption, RP!Bucket, R!Bucket

LEMMA AllowKeepsBuckets ==
    ASSUME R!BucketsOK, NEW w \in Wallets, NEW t \in Nat, R!Allow(w, t)
    PROVE  R!BucketsOK'
<1>1. RP!BucketsOK
  BY DEF R!BucketsOK, RP!BucketsOK, R!Bucket, RP!Bucket
<1>2. RP!Allow(w, t)
  BY DEF R!Allow, RP!Allow, R!Admits, RP!Admits, R!Level, RP!Level, R!AtMost, RP!AtMost,
         R!SatSub, RP!SatSub
<1>3. RP!BucketsOK'
  BY <1>1, <1>2, RateAssumptions, RP!AllowType
<1> QED BY <1>3 DEF R!BucketsOK, RP!BucketsOK, R!Bucket, RP!Bucket

LEMMA Clock ==
    ASSUME ServerInv
    PROVE  now \in Nat /\ now \in 0..MaxTime /\ at \in 0..MaxTime
BY ServerAssumption DEF ServerInv, ServerTypeOK, NetworkOK, LoopOK

LEMMA AttemptBound ==
    ASSUME ServerInv, NEW done \in BOOLEAN, Attempt(done)
    PROVE  faults' \in 0..MaxFaults
BY ServerAssumption DEF ServerInv, ServerTypeOK, BoundsOK, Attempt

\* Pruning never touches an id handled within the retention period.
LEMMA RetainedKeeps ==
    ASSUME ServerInv, NEW id \in Ids, ~seenFault, handledAt[id] # None,
           now - handledAt[id] < Retention
    PROVE  C!Retained(now)[id] = handledAt[id]
BY DEF ServerInv, ReplayInv, C!Retained, C!Kept

LEMMA RetainedType ==
    ASSUME C!CacheOK, NEW t \in Nat
    PROVE  C!Retained(t) \in [Ids -> Nat \cup {None}]
BY DEF C!CacheOK, C!Retained

\* A recorded id is in the cache and, if the write succeeded, in its file.
LEMMA RecordStep ==
    ASSUME ServerInv, NEW m \in Requests, NEW written \in BOOLEAN, Record(m, written),
           now' = now
    PROVE  /\ ReplayInv' /\ C!CacheOK'
           /\ faults' \in 0..MaxFaults /\ at' \in 0..MaxTime
           /\ handledAt' \in [Ids -> (0..MaxTime) \cup {None}]
           /\ seenFault' \in BOOLEAN
<1>1. m.id \in Ids BY DEF Requests
<1>2. C!CacheOK /\ HistoryOK BY DEF ServerInv, ServerTypeOK
<1>3. /\ seen' = [C!Retained(now) EXCEPT ![m.id] = now]
      /\ seenDisk' = IF written THEN seen' ELSE seenDisk
      /\ at' = now
      /\ handledAt' = [handledAt EXCEPT ![m.id] = now]
      /\ seenFault' = (seenFault \/ ~written)
      /\ Attempt(written)
  BY DEF Record, C!Insert
<1>4. C!CacheOK'
  <2>1. seen' \in [Ids -> Nat \cup {None}]
    BY <1>2, <1>3, Clock, RetainedType
  <2> QED BY <1>2, <1>3, <2>1 DEF C!CacheOK
<1>5. faults' \in 0..MaxFaults /\ at' \in 0..MaxTime
  BY <1>3, AttemptBound, Clock
<1>6. /\ handledAt' \in [Ids -> (0..MaxTime) \cup {None}]
      /\ seenFault' \in BOOLEAN
  BY <1>2, <1>3, Clock DEF HistoryOK
<1>7. ReplayInv'
  <2> SUFFICES ASSUME NEW id \in Ids, ~seenFault', handledAt'[id] # None,
                      now' - handledAt'[id] < Retention
               PROVE  seen'[id] = handledAt'[id] /\ seenDisk'[id] = handledAt'[id]
    BY DEF ReplayInv
  <2>1. ~seenFault /\ written BY <1>2, <1>3 DEF HistoryOK
  <2>2. seenDisk' = seen' BY <1>3, <2>1
  <2>3. CASE id = m.id
    <3>1. handledAt'[id] = now BY <1>2, <1>3, <2>3 DEF HistoryOK
    <3>2. seen'[id] = now BY <1>2, <1>3, <2>3, Clock, RetainedType
    <3> QED BY <2>2, <3>1, <3>2
  <2>4. CASE id # m.id
    <3>1. handledAt'[id] = handledAt[id] BY <1>2, <1>3, <2>4 DEF HistoryOK
    <3>2. seen'[id] = C!Retained(now)[id]
      BY <1>2, <1>3, <2>4, Clock, RetainedType
    <3>3. C!Retained(now)[id] = handledAt[id]
      BY <2>1, <3>1, RetainedKeeps
    <3> QED BY <2>2, <3>1, <3>2, <3>3
  <2> QED BY <2>3, <2>4
<1> QED BY <1>4, <1>5, <1>6, <1>7

LEMMA RejectMalformedStep ==
    ASSUME ServerInv, NEW m \in net, RejectMalformed(m)
    PROVE  ServerInv'
<1>1. m \in Requests BY DEF ServerInv, ServerTypeOK, NetworkOK
<1>2. /\ pc' = "respond" /\ cur' = m /\ reply' = "unsupported_version"
      /\ UNCHANGED <<now, at, networkVars, replayVars, buckets, pairingVars, storeVars,
                     faults, crashes, historyVars>>
  BY DEF RejectMalformed, Answer
<1>3. ServerTypeOK'
  BY <1>1, <1>2, NoneAssumption
     DEF ServerInv, ServerTypeOK, NetworkOK, LoopOK, BoundsOK, HistoryOK, C!CacheOK,
         R!BucketsOK, S!StoresOK, networkVars, replayVars, storeVars, historyVars,
         Steps, Codes
<1>4. PP!PairingInv' BY <1>2, PairingInvStep DEF ServerInv
<1>5. LoopInv'
  BY <1>2 DEF ServerInv, LoopInv, networkVars, pairingVars
<1>6. StoreInv' /\ ReplayInv'
  BY <1>2, StoreFrame, ReplayFrame
     DEF ServerInv, pairingVars, historyVars, storeHistory, replayHistory
<1> QED BY <1>3, <1>4, <1>5, <1>6 DEF ServerInv

LEMMA DropReplayStep ==
    ASSUME ServerInv, NEW m \in net, DropReplay(m)
    PROVE  ServerInv'
<1>1. /\ seen' = C!Retained(now) /\ seenDisk' = seenDisk
      /\ UNCHANGED <<now, networkVars, loopVars, buckets, pairingVars, storeVars,
                     faults, crashes, historyVars>>
  BY DEF DropReplay, C!Duplicate
<1>2. C!CacheOK'
  BY <1>1, Clock, RetainedType DEF ServerInv, ServerTypeOK, C!CacheOK
<1>3. ServerTypeOK'
  BY <1>1, <1>2
     DEF ServerInv, ServerTypeOK, NetworkOK, LoopOK, BoundsOK, HistoryOK,
         R!BucketsOK, S!StoresOK, networkVars, loopVars, storeVars, historyVars
<1>4. PP!PairingInv' BY <1>1, PairingInvStep DEF ServerInv
<1>5. LoopInv'
  BY <1>1, LoopFrame
     DEF ServerInv, LoopInv, networkVars, pairingVars, storeVars, historyVars
<1>6. StoreInv'
  BY <1>1, StoreFrame DEF ServerInv, pairingVars, historyVars, storeHistory
<1>7. ReplayInv'
  BY <1>1, RetainedKeeps DEF ServerInv, ReplayInv, historyVars
<1> QED BY <1>3, <1>4, <1>5, <1>6, <1>7 DEF ServerInv

\* A new id: the loop goes on with the request, or refuses it.
LEMMA ReceiveNewStep ==
    ASSUME ServerInv, NEW m \in net, Admit(m) \/ RefuseRate(m)
    PROVE  ServerInv'
<1>1. m \in Requests /\ m.from \in Wallets
  BY DEF ServerInv, ServerTypeOK, NetworkOK, Requests
<1>2. PICK written \in BOOLEAN : Record(m, written)
  BY DEF Admit, RefuseRate
<1>3. /\ R!Allow(m.from, now) /\ cur' = m
      /\ \/ pc' = "is_paired" /\ reply' = None
         \/ pc' = "respond" /\ reply' = "rate_limited"
      /\ UNCHANGED <<now, networkVars, pairingVars, storeVars, crashes,
                     lost, status, watching, forgotten, watchFault>>
  BY DEF Admit, RefuseRate, Answer
<1>4. /\ ReplayInv' /\ C!CacheOK'
      /\ faults' \in 0..MaxFaults /\ at' \in 0..MaxTime
      /\ handledAt' \in [Ids -> (0..MaxTime) \cup {None}]
      /\ seenFault' \in BOOLEAN
  BY <1>1, <1>2, <1>3, RecordStep
<1>5. R!BucketsOK'
  BY <1>1, <1>3, Clock, AllowKeepsBuckets DEF ServerInv, ServerTypeOK
<1>6. ServerTypeOK'
  <2>1. NetworkOK' /\ S!StoresOK' /\ HistoryOK' /\ BoundsOK'
    BY <1>3, <1>4
       DEF ServerInv, ServerTypeOK, NetworkOK, BoundsOK, HistoryOK, S!StoresOK,
           networkVars, storeVars
  <2>2. LoopOK'
    BY <1>1, <1>3, <1>4, NoneAssumption DEF LoopOK, Steps, Codes
  <2> QED BY <1>4, <1>5, <2>1, <2>2 DEF ServerTypeOK
<1>7. PP!PairingInv' BY <1>3, PairingInvStep DEF ServerInv
<1>8. LoopInv'
  BY <1>3 DEF ServerInv, LoopInv, networkVars, pairingVars
<1>9. StoreInv'
  BY <1>3, StoreFrame DEF ServerInv, pairingVars, storeHistory
<1> QED BY <1>4, <1>6, <1>7, <1>8, <1>9 DEF ServerInv
-----------------------------------------------------------------------------
(* The handlers                                                            *)

\* A request in hand was published and comes from a wallet.
LEMMA InHand ==
    ASSUME ServerInv, pc # "idle"
    PROVE  /\ cur \in net /\ cur \in Requests /\ cur.from \in Wallets
           /\ cur.proof \in P!KnownProofs /\ cur # None
<1>1. cur \in net /\ cur \in Requests
  BY DEF ServerInv, ServerTypeOK, NetworkOK, LoopInv
<1>2. cur.proof.secret <= drawn /\ cur.proof \in P!Proofs
  BY <1>1 DEF ServerInv, LoopInv, Requests
<1> QED BY <1>1, <1>2, NoneAssumption DEF Requests, P!KnownProofs

\* Only proven wallets are on the allowlist.
LEMMA PairedIsProven ==
    ASSUME ServerInv, NEW w \in Wallets, w \in wallets
    PROVE  Proven(w) /\ w \notin forgotten
BY DEF ServerInv, StoreInv, OnlyProvenWallets, UnpairedIsForgotten, Proven, ServerTypeOK,
       HistoryOK

LEMMA CheckPairedStep ==
    ASSUME ServerInv, CheckPaired
    PROVE  ServerInv'
<1>1. pc = "is_paired" /\ cur \in net /\ cur \in Requests /\ cur.from \in Wallets
  BY InHand DEF CheckPaired
<1>2. /\ at' = at /\ cur' = cur
      /\ UNCHANGED <<now, networkVars, replayVars, buckets, pairingVars, storeVars,
                     faults, crashes, historyVars>>
  BY DEF CheckPaired, Answer, Continue
<1>3. \/ pc' = "respond" /\ reply' \in Codes
      \/ pc' \in {"verify", "remove", "backend"} /\ reply' = reply
      \/ pc' = "replace" /\ reply' = reply /\ cur.from \in wallets
  BY DEF CheckPaired, Answer, Continue, StepFor, S!IsPaired, Codes
<1>4. ServerTypeOK'
  <2>1. LoopOK'
    BY <1>1, <1>2, <1>3, NoneAssumption DEF ServerInv, ServerTypeOK, LoopOK, Steps
  <2> QED BY <1>2, <2>1
     DEF ServerInv, ServerTypeOK, NetworkOK, BoundsOK, HistoryOK, C!CacheOK,
         R!BucketsOK, S!StoresOK, networkVars, replayVars, storeVars, historyVars
<1>5. PP!PairingInv' BY <1>2, PairingInvStep DEF ServerInv
<1>6. LoopInv'
  BY <1>1, <1>2, <1>3, PairedIsProven
     DEF ServerInv, LoopInv, Proven, networkVars, pairingVars, historyVars
<1>7. StoreInv' /\ ReplayInv'
  BY <1>2, StoreFrame, ReplayFrame
     DEF ServerInv, pairingVars, historyVars, storeHistory, replayHistory
<1> QED BY <1>4, <1>5, <1>6, <1>7 DEF ServerInv

LEMMA VerifyProofStep ==
    ASSUME ServerInv, VerifyProof
    PROVE  /\ ServerInv'
           /\ P!VerifyAt(at, cur.from, cur.proof)
<1>1. /\ pc = "verify" /\ cur \in net /\ cur \in Requests /\ cur.from \in Wallets
      /\ cur.proof \in P!KnownProofs
  BY InHand DEF VerifyProof
<1>2. /\ at' = at /\ cur' = cur
      /\ UNCHANGED <<now, networkVars, replayVars, buckets, storeVars,
                     faults, crashes, historyVars>>
  BY DEF VerifyProof, Answer, Continue
<1>3. P!VerifyAt(at, cur.from, cur.proof)
  BY DEF VerifyProof, P!VerifyAt
<1>4. \/ pc' = "respond" /\ reply' \in Codes
      \/ pc' = "add" /\ reply' = reply /\ P!Accept(at, cur.from, cur.proof)
  BY DEF VerifyProof, Answer, Continue, Codes
<1>5. drawn' = drawn /\ grants \subseteq grants'
  BY <1>3 DEF P!VerifyAt, P!Accept, P!Reject, P!Refuse, P!pairingVars
<1>6. pc' = "add" => \E g \in grants' : g.wallet = cur.from
  <2> SUFFICES ASSUME P!Accept(at, cur.from, cur.proof)
               PROVE  \E g \in grants' : g.wallet = cur.from
    BY <1>4
  <2> DEFINE new == [secret |-> state.secret, wallet |-> cur.from, at |-> at]
  <2>1. new \in grants' /\ new.wallet = cur.from BY DEF P!Accept
  <2> QED BY <2>1
<1>7. ServerTypeOK'
  <2>1. LoopOK'
    BY <1>1, <1>2, <1>4, NoneAssumption DEF ServerInv, ServerTypeOK, LoopOK, Steps
  <2> QED BY <1>2, <2>1
     DEF ServerInv, ServerTypeOK, NetworkOK, BoundsOK, HistoryOK, C!CacheOK,
         R!BucketsOK, S!StoresOK, networkVars, replayVars, storeVars, historyVars
<1>8. PP!PairingInv'
  <2>1. P!Next
    BY <1>1, <1>3, Clock DEF P!Next, P!Times
  <2> QED BY <2>1, PairingInvStep DEF ServerInv
<1>9. LoopInv'
  BY <1>1, <1>2, <1>4, <1>5, <1>6
     DEF ServerInv, LoopInv, Proven, networkVars
<1>10. StoreInv' /\ ReplayInv'
  BY <1>2, <1>5, StoreFrame, ReplayFrame
     DEF ServerInv, historyVars, storeHistory, replayHistory
<1> QED BY <1>3, <1>7, <1>8, <1>9, <1>10 DEF ServerInv

LEMMA AddWalletStep ==
    ASSUME ServerInv, AddWallet
    PROVE  ServerInv'
<1> DEFINE w == cur.from
<1>1. pc = "add" /\ cur \in net /\ cur \in Requests /\ w \in Wallets /\ Proven(w)
  BY InHand DEF AddWallet, ServerInv, LoopInv
<1>2. PICK written \in BOOLEAN :
         /\ wallets' = wallets \cup {w}
         /\ walletsDisk' = IF written THEN wallets' ELSE walletsDisk
         /\ sets' = sets /\ setsDisk' = setsDisk
         /\ Attempt(written)
         /\ pc' = "respond" /\ cur' = cur /\ reply' \in Codes
         /\ status' = [status EXCEPT ![w] = IF written THEN "paired" ELSE "unsure"]
  BY DEF AddWallet, S!Add, S!Saved, S!watchVars, Answer, Codes
<1>3. /\ forgotten' = forgotten \ {w}
      /\ UNCHANGED <<now, at, networkVars, replayVars, buckets, pairingVars, crashes,
                     handledAt, lost, watching, seenFault, watchFault>>
  BY DEF AddWallet
<1>4. ServerTypeOK'
  <2>1. faults' \in 0..MaxFaults BY <1>2, AttemptBound
  <2>2. NetworkOK' /\ BoundsOK' /\ C!CacheOK' /\ R!BucketsOK'
    BY <1>3, <2>1
       DEF ServerInv, ServerTypeOK, NetworkOK, BoundsOK, C!CacheOK, R!BucketsOK,
           networkVars, replayVars
  <2>3. LoopOK'
    BY <1>1, <1>2, <1>3, NoneAssumption DEF ServerInv, ServerTypeOK, LoopOK, Steps
  <2>4. HistoryOK'
    BY <1>1, <1>2, <1>3 DEF ServerInv, ServerTypeOK, HistoryOK
  <2>5. S!StoresOK'
    BY <1>1, <1>2 DEF ServerInv, ServerTypeOK, S!StoresOK
  <2> QED BY <2>2, <2>3, <2>4, <2>5 DEF ServerTypeOK
<1>5. PP!PairingInv' BY <1>3, PairingInvStep DEF ServerInv
<1>6. LoopInv'
  BY <1>2, <1>3, <1>1 DEF ServerInv, LoopInv, networkVars, pairingVars
<1>7. ReplayInv'
  BY <1>3, ReplayFrame DEF ServerInv, replayHistory
<1>8. StoreInv'
  <2>1. OnlyProvenWallets'
    BY <1>1, <1>2, <1>3 DEF ServerInv, StoreInv, OnlyProvenWallets, Proven, pairingVars
  <2>2. StatusDurable'
    BY <1>1, <1>2 DEF ServerInv, StoreInv, StatusDurable, ServerTypeOK, HistoryOK
  <2>3. UnpairedIsForgotten'
    BY <1>1, <1>2, <1>3 DEF ServerInv, StoreInv, UnpairedIsForgotten
  <2>4. WatchSetDurable' /\ WatchSynced'
    BY <1>2, <1>3 DEF ServerInv, StoreInv, WatchSetDurable, WatchSynced
  <2> QED BY <2>1, <2>2, <2>3, <2>4 DEF StoreInv
<1> QED BY <1>4, <1>5, <1>6, <1>7, <1>8 DEF ServerInv

\* Removing a wallet, by its own request or by the web UI.
LEMMA RemoveStores ==
    ASSUME ServerInv, NEW w \in Wallets, NEW written \in BOOLEAN,
           S!Remove(w, written), status' = StatusAfterRemove(w, written),
           UNCHANGED <<grants, watching, forgotten, watchFault>>
    PROVE  /\ StoreInv' /\ S!StoresOK'
           /\ status' \in [Wallets -> {"paired", "unpaired", "unsure"}]
           /\ \A v \in Wallets : v \notin wallets /\ v \notin walletsDisk
                                     => v \notin wallets' /\ v \notin walletsDisk'
           /\ w \in wallets /\ written => w \notin wallets' /\ w \notin walletsDisk'
<1>1. /\ wallets' = wallets \ {w}
      /\ sets' = sets /\ setsDisk' = setsDisk
      /\ walletsDisk' = IF w \in wallets /\ written THEN wallets' ELSE walletsDisk
  BY DEF S!Remove, S!Saved, S!watchVars
<1>2. S!StoresOK /\ HistoryOK BY DEF ServerInv, ServerTypeOK
<1>3. status' \in [Wallets -> {"paired", "unpaired", "unsure"}]
  BY <1>2 DEF StatusAfterRemove, HistoryOK
<1>4. S!StoresOK' BY <1>1, <1>2 DEF S!StoresOK
<1>5. OnlyProvenWallets'
  BY <1>1 DEF ServerInv, StoreInv, OnlyProvenWallets
<1>6. StatusDurable'
  <2>1. CASE w \notin wallets
    <3>1. status' = status /\ wallets' = wallets /\ walletsDisk' = walletsDisk
      BY <1>1, <1>2, <2>1 DEF StatusAfterRemove, S!StoresOK
    <3> QED BY <3>1 DEF ServerInv, StoreInv, StatusDurable
  <2>2. CASE w \in wallets
    BY <1>1, <1>2, <2>2
       DEF ServerInv, StoreInv, StatusDurable, StatusAfterRemove, HistoryOK
  <2> QED BY <2>1, <2>2
<1>7. UnpairedIsForgotten'
  BY <1>1, <1>2 DEF ServerInv, StoreInv, UnpairedIsForgotten
<1>8. WatchSetDurable' /\ WatchSynced'
  BY <1>1 DEF ServerInv, StoreInv, WatchSetDurable, WatchSynced
<1>9. StoreInv' BY <1>5, <1>6, <1>7, <1>8 DEF StoreInv
<1> QED BY <1>1, <1>3, <1>4, <1>9

LEMMA UnpairWalletStep ==
    ASSUME ServerInv, UnpairWallet
    PROVE  ServerInv'
<1> DEFINE w == cur.from
<1>1. pc = "remove" /\ cur \in net /\ cur \in Requests /\ w \in Wallets
  BY InHand DEF UnpairWallet
<1>2. PICK written \in BOOLEAN :
         /\ S!Remove(w, written)
         /\ Attempt(written)
         /\ status' = StatusAfterRemove(w, written)
         /\ at' = at /\ cur' = cur
         /\ \/ /\ pc' = "clear_watch" /\ reply' = reply
               /\ w \in wallets /\ written
            \/ pc' = "respond" /\ reply' \in Codes
  BY DEF UnpairWallet, Answer, Continue, Codes
<1>3. UNCHANGED <<now, networkVars, replayVars, buckets, pairingVars, crashes,
                  handledAt, lost, watching, forgotten, seenFault, watchFault>>
  BY DEF UnpairWallet
<1>4. /\ StoreInv' /\ S!StoresOK'
      /\ status' \in [Wallets -> {"paired", "unpaired", "unsure"}]
      /\ pc' = "clear_watch" => w \notin wallets' /\ w \notin walletsDisk'
  BY <1>1, <1>2, <1>3, RemoveStores DEF pairingVars
<1>5. ServerTypeOK'
  <2>1. faults' \in 0..MaxFaults BY <1>2, AttemptBound
  <2>2. NetworkOK' /\ BoundsOK' /\ C!CacheOK' /\ R!BucketsOK' /\ HistoryOK'
    BY <1>3, <1>4, <2>1
       DEF ServerInv, ServerTypeOK, NetworkOK, BoundsOK, HistoryOK, C!CacheOK,
           R!BucketsOK, networkVars, replayVars
  <2>3. LoopOK'
    BY <1>1, <1>2, NoneAssumption DEF ServerInv, ServerTypeOK, LoopOK, Steps
  <2> QED BY <1>4, <2>2, <2>3 DEF ServerTypeOK
<1>6. PP!PairingInv' BY <1>3, PairingInvStep DEF ServerInv
<1>7. LoopInv'
  BY <1>1, <1>2, <1>3, <1>4 DEF ServerInv, LoopInv, networkVars, pairingVars
<1>8. ReplayInv'
  BY <1>3, ReplayFrame DEF ServerInv, replayHistory
<1> QED BY <1>4, <1>5, <1>6, <1>7, <1>8 DEF ServerInv

LEMMA ClearWatchSetStep ==
    ASSUME ServerInv, ClearWatchSet
    PROVE  ServerInv'
<1> DEFINE w == cur.from
<1>1. /\ pc = "clear_watch" /\ cur \in net /\ cur \in Requests /\ w \in Wallets
      /\ w \notin wallets /\ w \notin walletsDisk
  BY InHand DEF ClearWatchSet, ServerInv, LoopInv
<1>2. PICK written \in BOOLEAN :
         /\ sets[w] = {} => written
         /\ sets' = [sets EXCEPT ![w] = {}]
         /\ setsDisk' = IF sets[w] # {} /\ written THEN sets' ELSE setsDisk
         /\ wallets' = wallets /\ walletsDisk' = walletsDisk
         /\ Attempt(written)
         /\ watching' = IF sets[w] = {} THEN watching
                        ELSE [watching EXCEPT ![w] = IF written THEN {} ELSE None]
         /\ watchFault' = (watchFault \/ ~written)
  BY DEF ClearWatchSet, S!RemoveWallet, S!Saved, S!allowVars
<1>3. /\ pc' = "respond" /\ cur' = cur /\ reply' = "ok" /\ at' = at
      /\ forgotten' = forgotten \cup {w}
      /\ UNCHANGED <<now, networkVars, replayVars, buckets, pairingVars, crashes,
                     handledAt, lost, status, seenFault>>
  BY DEF ClearWatchSet, Answer
<1>4. S!StoresOK /\ HistoryOK BY DEF ServerInv, ServerTypeOK
<1>5. sets[w] = {} => sets' = sets
  BY <1>1, <1>2, <1>4 DEF S!StoresOK
<1>6. ServerTypeOK'
  <2>1. faults' \in 0..MaxFaults BY <1>2, AttemptBound
  <2>2. NetworkOK' /\ BoundsOK' /\ C!CacheOK' /\ R!BucketsOK'
    BY <1>3, <2>1
       DEF ServerInv, ServerTypeOK, NetworkOK, BoundsOK, C!CacheOK, R!BucketsOK,
           networkVars, replayVars
  <2>3. LoopOK'
    BY <1>1, <1>3, NoneAssumption DEF ServerInv, ServerTypeOK, LoopOK, Steps, Codes
  <2>4. HistoryOK'
    BY <1>1, <1>2, <1>3, <1>4 DEF HistoryOK
  <2>5. S!StoresOK'
    BY <1>1, <1>2, <1>4 DEF S!StoresOK
  <2> QED BY <2>2, <2>3, <2>4, <2>5 DEF ServerTypeOK
<1>7. PP!PairingInv' BY <1>3, PairingInvStep DEF ServerInv
<1>8. LoopInv'
  BY <1>1, <1>3 DEF ServerInv, LoopInv, networkVars, pairingVars
<1>9. ReplayInv'
  BY <1>3, ReplayFrame DEF ServerInv, replayHistory
<1>10. StoreInv'
  <2>1. OnlyProvenWallets'
    BY <1>1, <1>2, <1>3, <1>4
       DEF ServerInv, StoreInv, OnlyProvenWallets, S!StoresOK, pairingVars
  <2>2. StatusDurable'
    BY <1>2, <1>3 DEF ServerInv, StoreInv, StatusDurable
  <2>3. WatchSynced'
    BY <1>2, <1>4, <1>5 DEF ServerInv, StoreInv, WatchSynced, HistoryOK
  <2>4. UnpairedIsForgotten'
    <3> SUFFICES ASSUME NEW v \in forgotten'
                 PROVE  /\ v \notin wallets /\ v \notin walletsDisk
                        /\ ~watchFault' => sets'[v] = {}
      BY <1>2, <2>3 DEF UnpairedIsForgotten, WatchSynced
    <3>1. CASE v = w
      BY <1>1, <1>2, <1>4, <3>1 DEF S!StoresOK
    <3>2. CASE v # w
      <4>1. v \in forgotten /\ v \in Wallets BY <1>3, <1>4, <3>2 DEF HistoryOK
      <4>2. sets'[v] = sets[v] BY <1>2, <1>4, <3>2, <4>1 DEF S!StoresOK
      <4>3. ~watchFault' => ~watchFault BY <1>2, <1>4 DEF HistoryOK
      <4> QED BY <4>1, <4>2, <4>3 DEF ServerInv, StoreInv, UnpairedIsForgotten
    <3> QED BY <3>1, <3>2
  <2>5. WatchSetDurable'
    <3> SUFFICES ASSUME NEW v \in Wallets, watching'[v] # None
                 PROVE  sets'[v] = watching'[v] /\ setsDisk'[v] = watching'[v]
      BY DEF WatchSetDurable
    <3>1. CASE sets[w] = {}
      BY <1>2, <1>5, <3>1 DEF ServerInv, StoreInv, WatchSetDurable
    <3>2. CASE sets[w] # {} /\ v = w
      BY <1>1, <1>2, <1>4, <3>2 DEF S!StoresOK, HistoryOK
    <3>3. CASE sets[w] # {} /\ v # w
      <4>1. watching'[v] = watching[v] /\ sets'[v] = sets[v]
        BY <1>2, <1>4, <3>3 DEF S!StoresOK, HistoryOK
      <4>2. sets[v] = watching[v] /\ setsDisk[v] = watching[v]
        BY <4>1 DEF ServerInv, StoreInv, WatchSetDurable
      <4>3. setsDisk'[v] = sets[v] \/ setsDisk'[v] = setsDisk[v]
        BY <1>2, <4>1
      <4> QED BY <4>1, <4>2, <4>3
    <3> QED BY <3>1, <3>2, <3>3
  <2> QED BY <2>1, <2>2, <2>3, <2>4, <2>5 DEF StoreInv
<1> QED BY <1>6, <1>7, <1>8, <1>9, <1>10 DEF ServerInv

LEMMA ReplaceWatchSetStep ==
    ASSUME ServerInv, ReplaceWatchSet
    PROVE  ServerInv'
<1> DEFINE w == cur.from
<1>1. /\ pc = "replace" /\ cur \in net /\ cur \in Requests /\ w \in Wallets
      /\ cur.addrs \in SUBSET Addresses
      /\ Proven(w) /\ w \notin forgotten
  BY InHand DEF ReplaceWatchSet, ServerInv, LoopInv, Requests
<1>2. PICK written \in BOOLEAN :
         /\ sets' = [sets EXCEPT ![w] = cur.addrs]
         /\ setsDisk' = IF written THEN sets' ELSE setsDisk
         /\ wallets' = wallets /\ walletsDisk' = walletsDisk
         /\ Attempt(written)
         /\ pc' = "respond" /\ cur' = cur /\ reply' \in Codes
         /\ watching' = [watching EXCEPT ![w] = IF written THEN cur.addrs ELSE None]
         /\ watchFault' = (watchFault \/ ~written)
  BY DEF ReplaceWatchSet, S!Replace, S!Saved, S!allowVars, Answer, Codes
<1>3. UNCHANGED <<now, at, networkVars, replayVars, buckets, pairingVars, crashes,
                  handledAt, lost, status, forgotten, seenFault>>
  BY DEF ReplaceWatchSet
<1>4. S!StoresOK /\ HistoryOK BY DEF ServerInv, ServerTypeOK
<1>5. ServerTypeOK'
  <2>1. faults' \in 0..MaxFaults BY <1>2, AttemptBound
  <2>2. NetworkOK' /\ BoundsOK' /\ C!CacheOK' /\ R!BucketsOK'
    BY <1>3, <2>1
       DEF ServerInv, ServerTypeOK, NetworkOK, BoundsOK, C!CacheOK, R!BucketsOK,
           networkVars, replayVars
  <2>3. LoopOK'
    BY <1>1, <1>2, <1>3, NoneAssumption DEF ServerInv, ServerTypeOK, LoopOK, Steps
  <2>4. HistoryOK'
    BY <1>1, <1>2, <1>3, <1>4 DEF HistoryOK
  <2>5. S!StoresOK'
    BY <1>1, <1>2, <1>4 DEF S!StoresOK
  <2> QED BY <2>2, <2>3, <2>4, <2>5 DEF ServerTypeOK
<1>6. PP!PairingInv' BY <1>3, PairingInvStep DEF ServerInv
<1>7. LoopInv'
  BY <1>2, <1>3, <1>1 DEF ServerInv, LoopInv, networkVars, pairingVars
<1>8. ReplayInv'
  BY <1>3, ReplayFrame DEF ServerInv, replayHistory
<1>9. \A v \in Wallets : v # w => sets'[v] = sets[v] /\ watching'[v] = watching[v]
  BY <1>2, <1>4 DEF S!StoresOK, HistoryOK
<1>10. StoreInv'
  <2>1. OnlyProvenWallets'
    <3> SUFFICES ASSUME NEW v \in Wallets,
                        v \in wallets' \cup walletsDisk' \/ sets'[v] # {} \/ setsDisk'[v] # {}
                 PROVE  \E g \in grants' : g.wallet = v
      BY DEF OnlyProvenWallets
    <3>1. CASE v = w
      BY <1>1, <1>3, <3>1 DEF Proven, pairingVars
    <3>2. CASE v # w
      <4>1. setsDisk'[v] = sets[v] \/ setsDisk'[v] = setsDisk[v]
        BY <1>2, <1>9, <3>2
      <4> QED BY <1>2, <1>3, <1>9, <3>2, <4>1
              DEF ServerInv, StoreInv, OnlyProvenWallets, pairingVars
    <3> QED BY <3>1, <3>2
  <2>2. StatusDurable'
    BY <1>2, <1>3 DEF ServerInv, StoreInv, StatusDurable
  <2>3. WatchSynced'
    BY <1>2, <1>4 DEF WatchSynced, HistoryOK
  <2>4. UnpairedIsForgotten'
    <3> SUFFICES ASSUME NEW v \in forgotten
                 PROVE  /\ v \notin wallets /\ v \notin walletsDisk
                        /\ ~watchFault' => sets'[v] = {}
      BY <1>2, <1>3, <2>3 DEF UnpairedIsForgotten, WatchSynced
    <3>1. v \in Wallets /\ v # w BY <1>1, <1>4 DEF HistoryOK
    <3>2. ~watchFault' => ~watchFault BY <1>2, <1>4 DEF HistoryOK
    <3> QED BY <1>9, <3>1, <3>2 DEF ServerInv, StoreInv, UnpairedIsForgotten
  <2>5. WatchSetDurable'
    <3> SUFFICES ASSUME NEW v \in Wallets, watching'[v] # None
                 PROVE  sets'[v] = watching'[v] /\ setsDisk'[v] = watching'[v]
      BY DEF WatchSetDurable
    <3>1. CASE v = w
      BY <1>1, <1>2, <1>4, <3>1 DEF S!StoresOK, HistoryOK
    <3>2. CASE v # w
      <4>1. sets[v] = watching[v] /\ setsDisk[v] = watching[v]
        BY <1>9, <3>2 DEF ServerInv, StoreInv, WatchSetDurable
      <4>2. setsDisk'[v] = sets[v] \/ setsDisk'[v] = setsDisk[v]
        BY <1>2, <1>9, <3>2
      <4> QED BY <1>9, <3>2, <4>1, <4>2
    <3> QED BY <3>1, <3>2
  <2> QED BY <2>1, <2>2, <2>3, <2>4, <2>5 DEF StoreInv
<1> QED BY <1>5, <1>6, <1>7, <1>8, <1>10 DEF ServerInv

LEMMA QueryBackendStep ==
    ASSUME ServerInv, QueryBackend
    PROVE  ServerInv'
<1>1. pc = "backend" /\ cur \in net /\ cur \in Requests
  BY InHand DEF QueryBackend
<1>2. /\ pc' = "respond" /\ cur' = cur /\ reply' \in Codes /\ at' = at
      /\ UNCHANGED <<now, networkVars, replayVars, buckets, pairingVars, storeVars,
                     faults, crashes, historyVars>>
  BY DEF QueryBackend, Answer, Codes
<1>3. ServerTypeOK'
  <2>1. LoopOK'
    BY <1>1, <1>2, NoneAssumption DEF ServerInv, ServerTypeOK, LoopOK, Steps
  <2> QED BY <1>2, <2>1
     DEF ServerInv, ServerTypeOK, NetworkOK, BoundsOK, HistoryOK, C!CacheOK,
         R!BucketsOK, S!StoresOK, networkVars, replayVars, storeVars, historyVars
<1>4. PP!PairingInv' BY <1>2, PairingInvStep DEF ServerInv
<1>5. LoopInv'
  BY <1>1, <1>2 DEF ServerInv, LoopInv, networkVars, pairingVars
<1>6. StoreInv' /\ ReplayInv'
  BY <1>2, StoreFrame, ReplayFrame
     DEF ServerInv, pairingVars, historyVars, storeHistory, replayHistory
<1> QED BY <1>3, <1>4, <1>5, <1>6 DEF ServerInv

LEMMA SendResponseStep ==
    ASSUME ServerInv, SendResponse
    PROVE  ServerInv'
<1>1. /\ pc = "respond" /\ cur \in Requests /\ cur.id \in Ids /\ reply \in Codes
  <2>1. pc = "respond" BY DEF SendResponse
  <2> QED BY <2>1, InHand DEF Requests, ServerInv, ServerTypeOK, LoopOK
<1>2. PICK sent \in BOOLEAN :
         /\ Attempt(sent)
         /\ answers' = IF sent THEN answers \cup {[id |-> cur.id, code |-> reply]}
                               ELSE answers
         /\ lost' = IF sent THEN lost ELSE lost \cup {cur.id}
  BY DEF SendResponse
<1>3. /\ pc' = "idle" /\ cur' = None /\ reply' = None
      /\ UNCHANGED <<now, at, net, replayVars, buckets, pairingVars, storeVars, crashes,
                     handledAt, status, watching, forgotten, seenFault, watchFault>>
  BY DEF SendResponse
<1>4. ServerTypeOK'
  <2>1. faults' \in 0..MaxFaults BY <1>2, AttemptBound
  <2>2. LoopOK' BY <1>3 DEF ServerInv, ServerTypeOK, LoopOK, Steps
  <2>3. answers' \subseteq [id : Ids, code : Codes]
    BY <1>1, <1>2 DEF ServerInv, ServerTypeOK, NetworkOK
  <2> QED BY <1>1, <1>2, <1>3, <2>1, <2>2, <2>3
     DEF ServerInv, ServerTypeOK, NetworkOK, BoundsOK, HistoryOK, C!CacheOK,
         R!BucketsOK, S!StoresOK, replayVars, storeVars
<1>5. PP!PairingInv' BY <1>3, PairingInvStep DEF ServerInv
<1>6. LoopInv'
  BY <1>3 DEF ServerInv, LoopInv, pairingVars
<1>7. StoreInv' /\ ReplayInv'
  BY <1>3, StoreFrame, ReplayFrame DEF ServerInv, pairingVars, storeHistory, replayHistory
<1> QED BY <1>4, <1>5, <1>6, <1>7 DEF ServerInv
-----------------------------------------------------------------------------
(* The web UI and crashes                                                  *)

LEMMA ShowPairingStep ==
    ASSUME ServerInv, ShowPairing
    PROVE  ServerInv' /\ P!PayloadAt(now)
<1>1. /\ P!PayloadAt(now)
      /\ UNCHANGED <<now, networkVars, loopVars, replayVars, buckets, storeVars,
                     faults, crashes, historyVars>>
  BY DEF ShowPairing
<1>2. drawn \in Nat BY PairingFacts DEF ServerInv
<1>3. grants' = grants /\ drawn' \in Nat /\ drawn <= drawn'
  BY <1>1, <1>2 DEF P!PayloadAt
<1>4. ServerTypeOK'
  BY <1>1
     DEF ServerInv, ServerTypeOK, NetworkOK, LoopOK, BoundsOK, HistoryOK, C!CacheOK,
         R!BucketsOK, S!StoresOK, networkVars, loopVars, replayVars, storeVars, historyVars
<1>5. PP!PairingInv'
  <2>1. P!Next BY <1>1, Clock DEF P!Next, P!Times
  <2> QED BY <2>1, PairingInvStep DEF ServerInv
<1>6. LoopInv'
  <2>1. \A m \in net : m.proof.secret <= drawn'
    <3> SUFFICES ASSUME NEW m \in net PROVE m.proof.secret <= drawn'
      OBVIOUS
    <3>1. m.proof.secret \in Nat /\ m.proof.secret <= drawn
      BY ServerAssumption
         DEF ServerInv, ServerTypeOK, NetworkOK, Requests, P!Proofs, LoopInv
    <3> QED BY <1>2, <1>3, <3>1
  <2> QED BY <1>1, <1>3, <2>1, LoopFrame
     DEF ServerInv, networkVars, storeVars, historyVars
<1>7. StoreInv' /\ ReplayInv'
  BY <1>1, <1>3, StoreFrame, ReplayFrame
     DEF ServerInv, historyVars, storeHistory, replayHistory
<1> QED BY <1>1, <1>4, <1>5, <1>6, <1>7 DEF ServerInv

LEMMA RevokeStep ==
    ASSUME ServerInv, NEW w \in Wallets, Revoke(w)
    PROVE  ServerInv'
<1>1. PICK written \in BOOLEAN :
         /\ S!Remove(w, written)
         /\ Attempt(written)
         /\ status' = StatusAfterRemove(w, written)
  BY DEF Revoke
<1>2. UNCHANGED <<now, networkVars, loopVars, replayVars, buckets, pairingVars, crashes,
                  handledAt, lost, watching, forgotten, seenFault, watchFault>>
  BY DEF Revoke
<1>3. /\ StoreInv' /\ S!StoresOK'
      /\ status' \in [Wallets -> {"paired", "unpaired", "unsure"}]
      /\ \A v \in Wallets : v \notin wallets /\ v \notin walletsDisk
                                => v \notin wallets' /\ v \notin walletsDisk'
  BY <1>1, <1>2, RemoveStores DEF pairingVars
<1>4. ServerTypeOK'
  <2>1. faults' \in 0..MaxFaults BY <1>1, AttemptBound
  <2> QED BY <1>2, <1>3, <2>1
     DEF ServerInv, ServerTypeOK, NetworkOK, LoopOK, BoundsOK, HistoryOK, C!CacheOK,
         R!BucketsOK, networkVars, loopVars, replayVars
<1>5. PP!PairingInv' BY <1>2, PairingInvStep DEF ServerInv
<1>6. LoopInv'
  <2>1. pc = "clear_watch" => cur.from \in Wallets BY InHand
  <2> QED BY <1>2, <1>3, <2>1
     DEF ServerInv, LoopInv, Proven, networkVars, loopVars, pairingVars
<1>7. ReplayInv'
  BY <1>2, ReplayFrame DEF ServerInv, replayHistory
<1> QED BY <1>3, <1>4, <1>5, <1>6, <1>7 DEF ServerInv

LEMMA CrashStep ==
    ASSUME ServerInv, CrashAndRestart
    PROVE  ServerInv' /\ P!Forget
<1>1. /\ crashes < MaxCrashes /\ crashes' = crashes + 1
      /\ pc' = "idle" /\ cur' = None /\ reply' = None
      /\ lost' = IF pc = "idle" THEN lost ELSE lost \cup {cur.id}
      /\ seen' = seenDisk /\ seenDisk' = seenDisk
      /\ wallets' = walletsDisk /\ walletsDisk' = walletsDisk
      /\ sets' = setsDisk /\ setsDisk' = setsDisk
      /\ P!Forget
      /\ buckets' = [k \in Wallets |-> None]
      /\ UNCHANGED <<now, at, networkVars, faults, handledAt, status, watching, forgotten,
                     seenFault, watchFault>>
  BY DEF CrashAndRestart, C!ReloadCache, S!ReloadStores, R!NoBuckets
<1>2. drawn' = drawn /\ grants' = grants BY <1>1 DEF P!Forget
<1>3. ServerTypeOK'
  <2>1. lost' \subseteq Ids
    BY <1>1, InHand DEF ServerInv, ServerTypeOK, HistoryOK, Requests
  <2>2. crashes' \in 0..MaxCrashes
    BY <1>1, ServerAssumption DEF ServerInv, ServerTypeOK, BoundsOK
  <2>3. LoopOK' BY <1>1 DEF ServerInv, ServerTypeOK, LoopOK, Steps
  <2>4. R!BucketsOK' BY <1>1 DEF R!BucketsOK
  <2> QED BY <1>1, <2>1, <2>2, <2>3, <2>4
     DEF ServerInv, ServerTypeOK, NetworkOK, BoundsOK, HistoryOK, C!CacheOK,
         S!StoresOK, networkVars
<1>4. PP!PairingInv'
  <2>1. P!Next BY <1>1 DEF P!Next
  <2> QED BY <2>1, PairingInvStep DEF ServerInv
<1>5. LoopInv'
  BY <1>1, <1>2 DEF ServerInv, LoopInv, networkVars
<1>6. ReplayInv'
  BY <1>1 DEF ServerInv, ReplayInv
<1>7. StoreInv'
  <2>1. OnlyProvenWallets' /\ StatusDurable' /\ WatchSetDurable' /\ WatchSynced'
    BY <1>1, <1>2
       DEF ServerInv, StoreInv, OnlyProvenWallets, StatusDurable, WatchSetDurable, WatchSynced
  <2>2. UnpairedIsForgotten'
    BY <1>1 DEF ServerInv, StoreInv, UnpairedIsForgotten
  <2> QED BY <2>1, <2>2 DEF StoreInv
<1> QED BY <1>1, <1>3, <1>4, <1>5, <1>6, <1>7 DEF ServerInv
-----------------------------------------------------------------------------
(* The theorems                                                            *)

LEMMA InitServerInv == Init => ServerInv
<1> SUFFICES ASSUME Init PROVE ServerInv OBVIOUS
<1>1. ServerTypeOK
  <2>1. NetworkOK /\ BoundsOK BY ServerAssumption DEF Init, NetworkOK, BoundsOK
  <2>2. LoopOK BY ServerAssumption DEF Init, LoopOK, Steps
  <2>3. HistoryOK BY DEF Init, HistoryOK
  <2>4. C!CacheOK BY DEF Init, C!InitCache, C!CacheOK
  <2>5. R!BucketsOK BY DEF Init, R!NoBuckets, R!BucketsOK
  <2>6. S!StoresOK BY DEF Init, S!InitStores, S!StoresOK
  <2> QED BY <2>1, <2>2, <2>3, <2>4, <2>5, <2>6 DEF ServerTypeOK
<1>2. PP!PairingInv
  <2>1. PP!Init BY DEF Init, P!Init, PP!Init, P!Secrets, PP!Secrets
  <2> QED BY <2>1, PairingAssumptions, PP!InitPairingInv
<1>3. LoopInv BY DEF Init, LoopInv
<1>4. StoreInv
  BY DEF Init, StoreInv, OnlyProvenWallets, StatusDurable, WatchSetDurable,
         UnpairedIsForgotten, WatchSynced, S!InitStores
<1>5. ReplayInv BY DEF Init, ReplayInv
<1> QED BY <1>1, <1>2, <1>3, <1>4, <1>5 DEF ServerInv

LEMMA NextServerInv ==
    ASSUME ServerInv, [Next]_vars
    PROVE  ServerInv'
<1>1. CASE UNCHANGED vars
  <2>1. /\ UNCHANGED <<now, networkVars, loopVars, replayVars, buckets, pairingVars,
                       storeVars, faults, crashes, historyVars>>
    BY <1>1 DEF vars
  <2>2. ServerTypeOK'
    BY <2>1
       DEF ServerInv, ServerTypeOK, NetworkOK, LoopOK, BoundsOK, HistoryOK, C!CacheOK,
           R!BucketsOK, S!StoresOK, networkVars, loopVars, replayVars, storeVars, historyVars
  <2>3. PP!PairingInv' BY <2>1, PairingInvStep DEF ServerInv
  <2>4. LoopInv'
    BY <2>1, LoopFrame
       DEF ServerInv, LoopInv, networkVars, pairingVars, storeVars, historyVars
  <2>5. StoreInv' /\ ReplayInv'
    BY <2>1, StoreFrame, ReplayFrame
       DEF ServerInv, pairingVars, historyVars, storeHistory, replayHistory
  <2> QED BY <2>2, <2>3, <2>4, <2>5 DEF ServerInv
<1>2. ASSUME NEW m \in net, Receive(m)
      PROVE  ServerInv'
  BY <1>2, RejectMalformedStep, DropReplayStep, ReceiveNewStep DEF Receive
<1>3. CASE LoopStep
  BY <1>3, CheckPairedStep, VerifyProofStep, AddWalletStep, UnpairWalletStep,
     ClearWatchSetStep, ReplaceWatchSetStep, QueryBackendStep, SendResponseStep
     DEF LoopStep
<1> QED BY <1>1, <1>2, <1>3, PublishStep, TickStep, ShowPairingStep, RevokeStep, CrashStep
        DEF Next

\* Every reachable state of the server satisfies the inductive invariant.
THEOREM ServerInvariance == Spec => []ServerInv
<1>1. Init => ServerInv BY InitServerInv
<1>2. ServerInv /\ [Next]_vars => ServerInv' BY NextServerInv
<1> QED BY <1>1, <1>2, PTL DEF Spec

\* Every variable keeps its type: in particular the loop always holds the
\* request it answers, and no map or file is ever torn.
THEOREM ServerTypeCorrect == Spec => []TypeOK
<1>1. ServerInv => TypeOK BY PairingFacts DEF ServerInv, TypeOK
<1> QED BY <1>1, ServerInvariance, PTL

\* Nobody is on the allowlist or owns a watch set without a granted proof.
THEOREM ServerOnlyProven == Spec => []OnlyProvenWallets
<1>1. ServerInv => OnlyProvenWallets BY DEF ServerInv, StoreInv
<1> QED BY <1>1, ServerInvariance, PTL

\* A completed pairing or removal survives crashes and other wallets' failures.
THEOREM ServerStatusDurable == Spec => []StatusDurable
<1>1. ServerInv => StatusDurable BY DEF ServerInv, StoreInv
<1> QED BY <1>1, ServerInvariance, PTL

\* So does an acknowledged watch set.
THEOREM ServerWatchSetDurable == Spec => []WatchSetDurable
<1>1. ServerInv => WatchSetDurable BY DEF ServerInv, StoreInv
<1> QED BY <1>1, ServerInvariance, PTL

\* An unpaired wallet leaves nothing behind unless a watch write failed.
THEOREM ServerUnpairedIsForgotten == Spec => []UnpairedIsForgotten
<1>1. ServerInv => UnpairedIsForgotten BY DEF ServerInv, StoreInv
<1> QED BY <1>1, ServerInvariance, PTL

\* An id passes the cache once in a retention period.
THEOREM ServerAtMostOnce == Spec => AtMostOnce
<1> DEFINE Once == \A id \in Ids :
                      Passes(id) /\ handledAt[id] # None
                          => now - handledAt[id] >= Retention \/ seenFault
<1>1. ASSUME ServerInv, [Next]_vars
      PROVE  Once
  <2> SUFFICES ASSUME NEW id \in Ids, pc = "idle", cur' # None, cur'.id = id,
                      cur'.type # "malformed", handledAt[id] # None, ~seenFault,
                      ~(now - handledAt[id] >= Retention)
               PROVE  FALSE
    BY DEF Passes
  <2>1. cur = None BY <1>1 DEF ServerInv, ServerTypeOK, LoopOK
  <2>2. PICK m \in net : cur' = m /\ (RejectMalformed(m) \/ Admit(m) \/ RefuseRate(m))
    BY <1>1, <2>1
       DEF Next, vars, loopVars, Publish, Tick, Receive, RejectMalformed, DropReplay, Admit,
           RefuseRate, Answer, LoopStep, CheckPaired, VerifyProof, AddWallet, UnpairWallet,
           ClearWatchSet, ReplaceWatchSet, QueryBackend, SendResponse, ShowPairing, Revoke,
           CrashAndRestart
  <2>3. C!Fresh(m.id, now)
    BY <2>2 DEF RejectMalformed, Admit, RefuseRate, Record, C!Insert
  <2>4. handledAt[id] \in Nat /\ now \in Nat
    BY <1>1, Clock, ServerAssumption DEF ServerInv, ServerTypeOK, HistoryOK
  <2>5. now - handledAt[id] < Retention
    BY <2>4, ServerAssumption
  <2>6. C!Retained(now)[id] = handledAt[id]
    BY <1>1, <2>5, RetainedKeeps
  <2> QED BY <2>2, <2>3, <2>6 DEF C!Fresh
<1>2. ServerInv /\ [Next]_vars => [Once]_vars BY <1>1
<1> QED BY <1>2, ServerInvariance, PTL DEF Spec, AtMostOnce

\* Inside the server the pairing manager behaves as Pairing.tla: its callers,
\* the loop and the web UI, only ever use its operations.
THEOREM ServerImplementsPairing == Spec => PairingComponent
<1>1. Init => P!Init BY DEF Init
<1>2. ASSUME ServerInv, [Next]_vars
      PROVE  [P!Next]_P!pairingVars
  <2>1. CASE UNCHANGED pairingVars
    BY <2>1 DEF pairingVars, P!pairingVars
  <2>2. CASE VerifyProof
    <3>1. P!VerifyAt(at, cur.from, cur.proof)
      BY <1>2, <2>2, VerifyProofStep
    <3>2. cur.from \in Wallets /\ cur.proof \in P!KnownProofs /\ at \in P!Times
      BY <1>2, <2>2, InHand, Clock DEF VerifyProof, P!Times
    <3> QED BY <3>1, <3>2 DEF P!Next
  <2>3. CASE ShowPairing
    BY <1>2, <2>3, ShowPairingStep, Clock DEF P!Next, P!Times
  <2>4. CASE CrashAndRestart
    BY <1>2, <2>4, CrashStep DEF P!Next
  <2>5. CASE Next /\ ~VerifyProof /\ ~ShowPairing /\ ~CrashAndRestart
    <3>1. UNCHANGED pairingVars
      BY <2>5
         DEF Next, Publish, Tick, Receive, RejectMalformed, DropReplay, Admit, RefuseRate,
             LoopStep, CheckPaired, AddWallet, UnpairWallet, ClearWatchSet, ReplaceWatchSet,
             QueryBackend, SendResponse, Revoke
    <3> QED BY <3>1 DEF pairingVars, P!pairingVars
  <2> QED BY <1>2, <2>1, <2>2, <2>3, <2>4, <2>5 DEF vars
<1>3. ServerInv /\ [Next]_vars => [P!Next]_P!pairingVars BY <1>2
<1> QED BY <1>1, <1>3, ServerInvariance, PTL DEF Spec, PairingComponent, P!Spec

\* Hence one secret pairs at most one wallet of the running server.
THEOREM ServerSingleUse == Spec => []P!SingleUse
<1>1. ServerInv => P!SingleUse
  BY DEF ServerInv, PP!PairingInv, PP!SingleUse, P!SingleUse
<1> QED BY <1>1, ServerInvariance, PTL

\* A secret whose attempts are spent pairs nobody, however the loop's
\* verifications and the web UI's showing of the QR code interleave.
THEOREM ServerBurned == Spec => []P!BurnedNeverGrants
<1>1. ServerInv => P!BurnedNeverGrants
  BY DEF ServerInv, PP!PairingInv, PP!BurnedNeverGrants, P!BurnedNeverGrants
<1> QED BY <1>1, ServerInvariance, PTL

\* The running server pairs nobody at or after an expiry the web UI printed.
THEOREM ServerExpiry == Spec => []P!GrantWithinShownExpiry
<1>1. ServerInv => P!GrantWithinShownExpiry
  BY DEF ServerInv, PP!PairingInv, PP!GrantWithinShownExpiry, P!GrantWithinShownExpiry
<1> QED BY <1>1, ServerInvariance, PTL

\* The running server hands out one-time grants.
THEOREM ServerImplementsOneTimeGrant == Spec => P!ImplementsOneTimeGrant
<1>1. Init => P!OTG!Init
  <2>1. Init => PP!Init BY DEF Init, P!Init, PP!Init, P!Secrets, PP!Secrets
  <2>2. PP!Init => PP!OTG!Init BY PairingAssumptions, PP!InitMapped
  <2>3. PP!OTG!Init => P!OTG!Init
    BY DEF PP!OTG!Init, P!OTG!Init, PP!Unclaimed, P!Unclaimed
  <2> QED BY <2>1, <2>2, <2>3
<1>2. ServerInv /\ [P!Next]_P!pairingVars => [P!OTG!Next]_P!OTG!vars
  <2> SUFFICES ASSUME ServerInv, [P!Next]_P!pairingVars
               PROVE  [P!OTG!Next]_P!OTG!vars
    OBVIOUS
  <2>1. [PP!Next]_PP!pairingVars BY SameNext DEF P!pairingVars, PP!pairingVars
  <2>2. [PP!OTG!Next]_PP!OTG!vars
    BY <2>1, PairingAssumptions, PP!NextMapped DEF ServerInv
  <2> QED
    BY <2>2 DEF PP!OTG!Next, P!OTG!Next, PP!OTG!vars, P!OTG!vars, PP!Unclaimed, P!Unclaimed,
                PP!OTG!Issue, P!OTG!Issue, PP!OTG!Grant, P!OTG!Grant, PP!OTG!Withdraw,
                P!OTG!Withdraw
<1> QED
  BY <1>1, <1>2, ServerInvariance, ServerImplementsPairing, PTL
     DEF Spec, PairingComponent, P!Spec, P!ImplementsOneTimeGrant, P!OTG!Spec
-----------------------------------------------------------------------------
(* The contract                                                            *)
(*                                                                         *)
(* Beyond ServerInv the contract needs to know which request an answer is  *)
(* to (ids are never reused), that the loop is at a handler of the type of *)
(* the request in hand, and that every watch set held was once asked for.  *)

IdsUnique == /\ \A m, n \in net : m.id = n.id => m = n
             /\ \A a \in answers : \E m \in net : m.id = a.id

HandlerFits ==
    /\ pc \in {"verify", "add"} => cur.type = "pair"
    /\ pc \in {"remove", "clear_watch"} => cur.type = "unpair"
    /\ pc = "clear_watch" => status[cur.from] = "unpaired"
    /\ pc = "replace" => cur.type = "watch"
    /\ pc = "backend" => cur.type = "read" /\ Proven(cur.from)

AskedFor(w, addrs) == addrs = {} \/ [key |-> w, addrs |-> addrs] \in Asked

SetsAsked == \A w \in Wallets : AskedFor(w, sets[w]) /\ AskedFor(w, setsDisk[w])

ContractInv == IdsUnique /\ HandlerFits /\ SetsAsked

heldVars == <<wallets, sets, status, watching>>

\* A step answers nothing "ok" but perhaps request m.
NothingNew == \A n \in net' : AnsweredOk(n)' => n \in net /\ AnsweredOk(n)
OnlyNew(m) == \A n \in net' : AnsweredOk(n)' => (n \in net /\ AnsweredOk(n)) \/ n = m

LEMMA NoPromise ==
    ASSUME NothingNew
    PROVE  Promises' \subseteq Promises
<1> SUFFICES ASSUME NEW p \in Promises' PROVE p \in Promises OBVIOUS
<1>1. PICK m \in net' : /\ AnsweredOk(m)'
                        /\ p = [key |-> m.from, type |-> m.type, addrs |-> m.addrs]
  BY DEF Promises
<1>2. m \in net /\ AnsweredOk(m) BY <1>1 DEF NothingNew
<1> QED BY <1>1, <1>2 DEF Promises

LEMMA OnePromise ==
    ASSUME NEW m, OnlyNew(m)
    PROVE  Promises' \subseteq Promises \cup {K!Promise(m.from, m.type, m.addrs)}
<1> SUFFICES ASSUME NEW p \in Promises', p # K!Promise(m.from, m.type, m.addrs)
             PROVE  p \in Promises
  OBVIOUS
<1>1. PICK n \in net' : /\ AnsweredOk(n)'
                        /\ p = [key |-> n.from, type |-> n.type, addrs |-> n.addrs]
  BY DEF Promises
<1>2. n # m BY <1>1 DEF K!Promise
<1>3. n \in net /\ AnsweredOk(n) BY <1>1, <1>2 DEF OnlyNew
<1> QED BY <1>1, <1>3 DEF Promises

\* An answer in hand other than "ok" is no promise.
LEMMA SilentStep ==
    ASSUME UNCHANGED networkVars,
           UNCHANGED loopVars \/ pc' # "respond" \/ reply' # "ok"
    PROVE  NothingNew
BY DEF NothingNew, AnsweredOk, networkVars, loopVars

LEMMA SpokenStep ==
    ASSUME UNCHANGED networkVars, cur' = cur
    PROVE  OnlyNew(cur)
BY DEF OnlyNew, AnsweredOk, networkVars

LEMMA Growth ==
    ASSUME net \subseteq net', grants \subseteq grants'
    PROVE  Granted \subseteq Granted' /\ Asked \subseteq Asked'
<1>1. Granted \subseteq Granted' BY DEF Granted
<1>2. Asked \subseteq Asked'
  <2> SUFFICES ASSUME NEW x \in Asked PROVE x \in Asked' OBVIOUS
  <2>1. PICK m \in net : m.type = "watch" /\ x = [key |-> m.from, addrs |-> m.addrs]
    BY DEF Asked
  <2> QED BY <2>1 DEF Asked
<1> QED BY <1>1, <1>2

LEMMA ProvenIsGranted ==
    ASSUME NEW w, Proven(w)
    PROVE  w \in Granted
BY DEF Proven, Granted

\* A step of the server that changes nothing it holds of a wallet.
LEMMA OtherStep ==
    ASSUME net \subseteq net', grants \subseteq grants', UNCHANGED heldVars, NothingNew
    PROVE  K!Next
<1>1. K!Other BY DEF K!Other, heldVars, Unsure, Vague
<1>2. Promises' \subseteq Promises BY NoPromise
<1> QED BY <1>1, <1>2, Growth DEF K!Next

LEMMA SetsFrame ==
    ASSUME SetsAsked, net \subseteq net', grants \subseteq grants',
           UNCHANGED <<sets, setsDisk>>
    PROVE  SetsAsked'
BY Growth DEF SetsAsked, AskedFor

\* What the web UI, the network and the clock do is no promise.
LEMMA BystanderContract ==
    ASSUME ContractInv, UNCHANGED loopVars, net \subseteq net', answers' = answers,
           grants \subseteq grants', UNCHANGED heldVars, setsDisk' = setsDisk,
           IdsUnique', NothingNew
    PROVE  ContractInv' /\ K!Next
<1>1. HandlerFits' BY DEF ContractInv, HandlerFits, loopVars, heldVars, Proven
<1>2. SetsAsked' BY SetsFrame DEF ContractInv, heldVars
<1> QED BY <1>1, <1>2, OtherStep DEF ContractInv

LEMMA PublishContract ==
    ASSUME ServerInv, ContractInv, NEW w \in Wallets, Publish(w)
    PROVE  ContractInv' /\ K!Next
<1>1. PICK m \in Requests : net' = net \cup {m} /\ (\A n \in net : n.id < m.id)
  <2>1. PICK id \in Ids, type \in RequestTypes, proof \in P!KnownProofs,
             addrs \in SUBSET Addresses :
             /\ \A n \in net : n.id < id
             /\ net' = net \cup {[id |-> id, from |-> w, type |-> type,
                                  proof |-> proof, addrs |-> addrs]}
    BY DEF Publish
  <2>2. [id |-> id, from |-> w, type |-> type, proof |-> proof, addrs |-> addrs] \in Requests
    BY ServerAssumption DEF Requests, P!KnownProofs
  <2> QED BY <2>1, <2>2
<1>2. UNCHANGED <<now, answers, loopVars, replayVars, buckets, pairingVars, storeVars,
                  faults, crashes, historyVars>>
  BY DEF Publish
<1>3. \A n \in net : n.id \in Nat /\ n.id # m.id
  BY <1>1, ServerAssumption
     DEF ServerInv, ServerTypeOK, NetworkOK, Requests, Ids
<1>4. IdsUnique' BY <1>1, <1>2, <1>3 DEF ContractInv, IdsUnique
<1>5. NothingNew
  <2> SUFFICES ASSUME NEW n \in net', AnsweredOk(n)' PROVE n \in net /\ AnsweredOk(n)
    BY DEF NothingNew
  <2>1. AnsweredOk(n) BY <1>2 DEF AnsweredOk, loopVars
  <2>2. n # m
    <3>1. CASE [id |-> n.id, code |-> "ok"] \in answers
      <4>1. PICK k \in net : k.id = n.id BY <3>1 DEF ContractInv, IdsUnique
      <4> QED BY <1>3, <4>1
    <3>2. CASE pc = "respond" /\ cur = n BY <1>3, <3>2, InHand
    <3> QED BY <2>1, <3>1, <3>2 DEF AnsweredOk
  <2> QED BY <1>1, <2>1, <2>2
<1> QED
  BY <1>1, <1>2, <1>4, <1>5, BystanderContract
     DEF pairingVars, storeVars, historyVars, heldVars

\* Steps of others that leave the network as it is.
LEMMA QuietContract ==
    ASSUME ServerInv, ContractInv, Tick \/ ShowPairing \/ (\E m \in net : DropReplay(m))
    PROVE  ContractInv' /\ K!Next
<1>1. UNCHANGED <<networkVars, loopVars, storeVars, historyVars>>
  BY DEF Tick, ShowPairing, DropReplay
<1>2. grants \subseteq grants'
  BY DEF Tick, ShowPairing, DropReplay, P!PayloadAt, pairingVars
<1>3. IdsUnique' BY <1>1 DEF ContractInv, IdsUnique, networkVars
<1> QED
  BY <1>1, <1>2, <1>3, SilentStep, BystanderContract
     DEF networkVars, storeVars, historyVars, heldVars

\* The loop takes a request, asks whether the sender is paired or checks a proof.
LEMMA IntakeContract ==
    ASSUME ServerInv, ContractInv,
           \/ \E m \in net : RejectMalformed(m) \/ Admit(m) \/ RefuseRate(m)
           \/ CheckPaired \/ VerifyProof
    PROVE  ContractInv' /\ K!Next
<1>1. UNCHANGED <<networkVars, storeVars, status, watching>>
  BY DEF RejectMalformed, Admit, RefuseRate, CheckPaired, VerifyProof, historyVars
<1>2. /\ grants \subseteq grants'
      /\ pc' # "respond" \/ reply' # "ok"
      /\ HandlerFits'
  <2>1. CASE \E m \in net : RejectMalformed(m) \/ Admit(m) \/ RefuseRate(m)
    BY <2>1 DEF RejectMalformed, Admit, RefuseRate, Answer, pairingVars, HandlerFits
  <2>2. CASE CheckPaired
    <3>1. cur.from \in Wallets BY <2>2, InHand DEF CheckPaired
    <3>2. grants' = grants /\ cur' = cur BY <2>2 DEF CheckPaired, pairingVars, Answer, Continue
    <3>3. \/ pc' = "respond" /\ reply' # "ok"
          \/ pc' = "verify" /\ cur.type = "pair"
          \/ pc' = "remove" /\ cur.type = "unpair"
          \/ pc' = "replace" /\ cur.type = "watch"
          \/ pc' = "backend" /\ cur.type = "read" /\ cur.from \in wallets
      BY <2>2 DEF CheckPaired, Answer, Continue, StepFor, S!IsPaired
    <3> QED BY <3>1, <3>2, <3>3, PairedIsProven DEF HandlerFits, Proven
  <2>3. CASE VerifyProof
    <3>1. grants \subseteq grants'
      BY <2>3 DEF VerifyProof, P!Accept, P!Reject, P!Refuse, P!pairingVars
    <3>2. /\ pc = "verify" /\ cur' = cur
          /\ pc' = "add" \/ (pc' = "respond" /\ reply' # "ok")
      BY <2>3 DEF VerifyProof, Answer, Continue
    <3> QED BY <3>1, <3>2 DEF ContractInv, HandlerFits
  <2> QED BY <2>1, <2>2, <2>3
<1>3. IdsUnique' BY <1>1 DEF ContractInv, IdsUnique, networkVars
<1>4. SetsAsked' BY <1>1, <1>2, SetsFrame DEF ContractInv, networkVars, storeVars
<1>5. K!Next
  BY <1>1, <1>2, SilentStep, OtherStep DEF networkVars, storeVars, heldVars
<1> QED BY <1>2, <1>3, <1>4, <1>5 DEF ContractInv

\* A request is carried out and answered.
LEMMA CarriedOut ==
    ASSUME ServerInv, ContractInv, pc # "idle", NEW ok \in BOOLEAN,
           UNCHANGED networkVars, grants' = grants, cur' = cur, pc' = "respond",
           reply' = "ok" => ok, cur.type \in {"pair", "unpair", "watch", "read"},
           K!Carry(cur.from, cur.type, cur.addrs, ok), SetsAsked'
    PROVE  ContractInv' /\ K!Next
<1>1. IdsUnique' /\ HandlerFits'
  BY DEF ContractInv, IdsUnique, HandlerFits, networkVars
<1>2. cur.from \in Wallets /\ cur.addrs \in SUBSET Addresses BY InHand DEF Requests
<1>3. Granted \subseteq Granted' /\ Asked \subseteq Asked' BY Growth DEF networkVars
<1>4. K!Next
  <2>1. CASE ok
    <3>1. Promises' \subseteq Promises \cup {K!Promise(cur.from, cur.type, cur.addrs)}
      BY SpokenStep, OnePromise
    <3> QED BY <1>2, <1>3, <2>1, <3>1 DEF K!Next
  <2>2. CASE ~ok
    <3>1. Promises' \subseteq Promises BY <2>2, SilentStep, NoPromise
    <3> QED BY <1>2, <1>3, <2>2, <3>1 DEF K!Next
  <2> QED BY <2>1, <2>2
<1> QED BY <1>1, <1>4 DEF ContractInv

LEMMA AddWalletContract ==
    ASSUME ServerInv, ContractInv, AddWallet
    PROVE  ContractInv' /\ K!Next
<1> DEFINE w == cur.from
<1>1. pc = "add" /\ w \in Wallets /\ Proven(w) /\ cur.type = "pair"
  BY InHand DEF AddWallet, ServerInv, LoopInv, ContractInv, HandlerFits
<1>2. PICK ok \in BOOLEAN :
         /\ wallets' = wallets \cup {w}
         /\ sets' = sets /\ setsDisk' = setsDisk
         /\ pc' = "respond" /\ cur' = cur /\ reply' = (IF ok THEN "ok" ELSE "internal")
         /\ status' = [status EXCEPT ![w] = IF ok THEN "paired" ELSE "unsure"]
  BY DEF AddWallet, S!Add, S!Saved, S!watchVars, Answer
<1>3. UNCHANGED networkVars /\ grants' = grants /\ watching' = watching
  BY DEF AddWallet, pairingVars
<1>4. Unsure' = IF ok THEN Unsure \ {w} ELSE Unsure \cup {w}
  BY <1>1, <1>2 DEF Unsure, ServerInv, ServerTypeOK, HistoryOK
<1>5. w \in Granted' BY <1>1, <1>3, ProvenIsGranted DEF Granted
<1>6. K!Carry(w, "pair", cur.addrs, ok)
  BY <1>2, <1>3, <1>4, <1>5 DEF K!Carry, Vague
<1>7. SetsAsked' BY <1>2, <1>3, SetsFrame DEF ContractInv, networkVars
<1> QED BY <1>1, <1>2, <1>3, <1>6, <1>7, CarriedOut

\* A removal, by the web UI or as the first half of an unpair.
LEMMA RemoveContract ==
    ASSUME ServerInv, ContractInv, NEW w \in Wallets, NEW written \in BOOLEAN,
           S!Remove(w, written), status' = StatusAfterRemove(w, written),
           UNCHANGED networkVars, grants' = grants, watching' = watching, NothingNew
    PROVE  SetsAsked' /\ K!Next
<1>1. /\ wallets' = wallets \ {w} /\ sets' = sets /\ setsDisk' = setsDisk
  BY DEF S!Remove, S!watchVars
<1>2. Unsure' \in {Unsure, Unsure \cup {w}, Unsure \ {w}}
  BY DEF Unsure, StatusAfterRemove, ServerInv, ServerTypeOK, HistoryOK
<1>3. K!Drop(w) BY <1>1, <1>2 DEF K!Drop, Vague
<1>4. Promises' \subseteq Promises BY NoPromise
<1>5. SetsAsked' BY <1>1, SetsFrame DEF ContractInv, networkVars
<1>6. K!Next
  <2>1. Granted \subseteq Granted' /\ Asked \subseteq Asked' BY Growth DEF networkVars
  <2> QED BY <1>3, <1>4, <2>1 DEF K!Next
<1> QED BY <1>5, <1>6

LEMMA UnpairWalletContract ==
    ASSUME ServerInv, ContractInv, UnpairWallet
    PROVE  ContractInv' /\ K!Next
<1> DEFINE w == cur.from
<1>1. pc = "remove" /\ w \in Wallets /\ cur.type = "unpair"
  BY InHand DEF UnpairWallet, ContractInv, HandlerFits
<1>2. PICK written \in BOOLEAN :
         /\ S!Remove(w, written)
         /\ status' = StatusAfterRemove(w, written)
         /\ IF w \in wallets /\ written
            THEN Continue("clear_watch")
            ELSE Answer(cur, IF written THEN "not_paired" ELSE "internal")
  BY DEF UnpairWallet
<1>3. UNCHANGED networkVars /\ grants' = grants /\ watching' = watching
  BY DEF UnpairWallet, pairingVars
<1>4. /\ cur' = cur
      /\ \/ pc' = "respond" /\ reply' # "ok"
         \/ pc' = "clear_watch" /\ w \in wallets /\ written
  BY <1>2 DEF Answer, Continue
<1>5. NothingNew BY <1>3, <1>4, SilentStep
<1>6. SetsAsked' /\ K!Next BY <1>1, <1>2, <1>3, <1>5, RemoveContract
<1>7. pc' = "clear_watch" => status'[w] = "unpaired"
  BY <1>1, <1>2, <1>4 DEF StatusAfterRemove, ServerInv, ServerTypeOK, HistoryOK
<1>8. IdsUnique' /\ HandlerFits'
  BY <1>1, <1>3, <1>4, <1>7 DEF ContractInv, IdsUnique, HandlerFits, networkVars
<1> QED BY <1>6, <1>8 DEF ContractInv

LEMMA RevokeContract ==
    ASSUME ServerInv, ContractInv, NEW w \in Wallets, Revoke(w)
    PROVE  ContractInv' /\ K!Next
<1>1. PICK written \in BOOLEAN :
         S!Remove(w, written) /\ status' = StatusAfterRemove(w, written)
  BY DEF Revoke
<1>2. UNCHANGED networkVars /\ UNCHANGED loopVars /\ grants' = grants /\ watching' = watching
  BY DEF Revoke, pairingVars
<1>3. NothingNew BY <1>2, SilentStep
<1>4. SetsAsked' /\ K!Next BY <1>1, <1>2, <1>3, RemoveContract
<1>5. HandlerFits'
  <2>1. pc = "clear_watch" => cur.from \in Wallets /\ cur.from \notin wallets
    BY InHand DEF ServerInv, LoopInv
  <2>2. pc = "clear_watch" => status'[cur.from] = "unpaired"
    BY <1>1, <2>1
       DEF StatusAfterRemove, ContractInv, HandlerFits, ServerInv, ServerTypeOK, HistoryOK
  <2> QED BY <1>2, <2>2 DEF ContractInv, HandlerFits, loopVars, Proven
<1>6. IdsUnique' BY <1>2 DEF ContractInv, IdsUnique, networkVars
<1> QED BY <1>4, <1>5, <1>6 DEF ContractInv

LEMMA ClearWatchSetContract ==
    ASSUME ServerInv, ContractInv, ClearWatchSet
    PROVE  ContractInv' /\ K!Next
<1> DEFINE w == cur.from
<1>1. /\ pc = "clear_watch" /\ w \in Wallets /\ cur.type = "unpair"
      /\ w \notin wallets /\ status[w] = "unpaired"
  BY InHand DEF ClearWatchSet, ServerInv, LoopInv, ContractInv, HandlerFits
<1>2. PICK written \in BOOLEAN :
         /\ sets' = [sets EXCEPT ![w] = {}]
         /\ setsDisk' = setsDisk \/ setsDisk' = sets'
         /\ wallets' = wallets
         /\ watching' = IF sets[w] = {} THEN watching
                        ELSE [watching EXCEPT ![w] = IF written THEN {} ELSE None]
  BY DEF ClearWatchSet, S!RemoveWallet, S!Saved, S!allowVars
<1>3. /\ pc' = "respond" /\ cur' = cur
      /\ UNCHANGED networkVars /\ grants' = grants /\ status' = status
  BY DEF ClearWatchSet, Answer, pairingVars
<1>4. Vague' \in {Vague, Vague \cup {w}, Vague \ {w}}
  BY <1>1, <1>2 DEF Vague, ServerInv, ServerTypeOK, HistoryOK
<1>5. wallets' = wallets \ {w} /\ Unsure' = Unsure \ {w}
  BY <1>1, <1>2, <1>3 DEF Unsure
<1>6. K!Carry(w, "unpair", cur.addrs, TRUE) BY <1>2, <1>4, <1>5 DEF K!Carry
<1>7. SetsAsked'
  <2>1. Asked' = Asked BY <1>3 DEF Asked, networkVars
  <2>2. \A v \in Wallets : sets'[v] \in {{}, sets[v]}
    BY <1>2 DEF ServerInv, ServerTypeOK, S!StoresOK
  <2>3. \A v \in Wallets : setsDisk'[v] \in {setsDisk[v], sets'[v]} BY <1>2
  <2>4. \A v \in Wallets : AskedFor(v, sets'[v])
    BY <2>2 DEF ContractInv, SetsAsked, AskedFor
  <2>5. \A v \in Wallets : AskedFor(v, setsDisk'[v])
    BY <2>3, <2>4 DEF ContractInv, SetsAsked
  <2> QED BY <2>1, <2>4, <2>5 DEF SetsAsked, AskedFor
<1> QED BY <1>1, <1>3, <1>6, <1>7, CarriedOut

LEMMA ReplaceWatchSetContract ==
    ASSUME ServerInv, ContractInv, ReplaceWatchSet
    PROVE  ContractInv' /\ K!Next
<1> DEFINE w == cur.from
<1>1. pc = "replace" /\ w \in Wallets /\ Proven(w) /\ cur.type = "watch" /\ cur \in net
  BY InHand DEF ReplaceWatchSet, ServerInv, LoopInv, ContractInv, HandlerFits
<1>2. PICK ok \in BOOLEAN :
         /\ sets' = [sets EXCEPT ![w] = cur.addrs]
         /\ setsDisk' = setsDisk \/ setsDisk' = sets'
         /\ wallets' = wallets
         /\ pc' = "respond" /\ cur' = cur /\ reply' = (IF ok THEN "ok" ELSE "internal")
         /\ watching' = [watching EXCEPT ![w] = IF ok THEN cur.addrs ELSE None]
  BY DEF ReplaceWatchSet, S!Replace, S!Saved, S!allowVars, Answer
<1>3. UNCHANGED networkVars /\ grants' = grants /\ status' = status
  BY DEF ReplaceWatchSet, pairingVars
<1>4. [key |-> w, addrs |-> cur.addrs] \in Asked /\ Asked' = Asked
  BY <1>1, <1>3 DEF Asked, networkVars
<1>5. cur.addrs # None BY InHand, <1>1, NoneAssumption DEF Requests
<1>6. Vague' = IF ok THEN Vague \ {w} ELSE Vague \cup {w}
  BY <1>1, <1>2, <1>5 DEF Vague, ServerInv, ServerTypeOK, HistoryOK
<1>7. w \in Granted' BY <1>1, <1>3, ProvenIsGranted DEF Granted
<1>8. Unsure' = Unsure BY <1>3 DEF Unsure
<1>9. K!Carry(w, "watch", cur.addrs, ok)
  BY <1>2, <1>4, <1>6, <1>7, <1>8 DEF K!Carry
<1>10. SetsAsked'
  <2>1. \A v \in Wallets : sets'[v] = sets[v] \/ (v = w /\ sets'[v] = cur.addrs)
    BY <1>2 DEF ServerInv, ServerTypeOK, S!StoresOK
  <2>2. \A v \in Wallets : AskedFor(v, sets'[v])
    BY <1>4, <2>1 DEF ContractInv, SetsAsked, AskedFor
  <2> QED BY <1>2, <1>4, <2>2 DEF ContractInv, SetsAsked, AskedFor
<1> QED BY <1>1, <1>2, <1>3, <1>9, <1>10, CarriedOut

LEMMA QueryBackendContract ==
    ASSUME ServerInv, ContractInv, QueryBackend
    PROVE  ContractInv' /\ K!Next
<1>1. pc = "backend" /\ cur.type = "read" /\ Proven(cur.from)
  BY DEF QueryBackend, ContractInv, HandlerFits
<1>2. /\ pc' = "respond" /\ cur' = cur
      /\ UNCHANGED <<networkVars, pairingVars, storeVars, historyVars>>
  BY DEF QueryBackend, Answer
<1>3. cur.from \in Granted' BY <1>1, <1>2, ProvenIsGranted DEF Granted, pairingVars
<1>4. K!Carry(cur.from, "read", cur.addrs, TRUE)
  BY <1>2, <1>3 DEF K!Carry, storeVars, historyVars, Unsure, Vague
<1>5. SetsAsked' BY <1>2, SetsFrame DEF ContractInv, networkVars, storeVars, pairingVars
<1> QED BY <1>1, <1>2, <1>4, <1>5, CarriedOut DEF pairingVars

LEMMA SendResponseContract ==
    ASSUME ServerInv, ContractInv, SendResponse
    PROVE  ContractInv' /\ K!Next
<1>1. pc = "respond" /\ cur \in net
  <2>1. pc = "respond" BY DEF SendResponse
  <2> QED BY <2>1, InHand
<1>2. /\ answers' = answers \/ answers' = answers \cup {[id |-> cur.id, code |-> reply]}
      /\ pc' = "idle" /\ net' = net
      /\ UNCHANGED <<pairingVars, storeVars, status, watching>>
  BY DEF SendResponse
<1>3. IdsUnique' BY <1>1, <1>2 DEF ContractInv, IdsUnique
<1>4. HandlerFits' BY <1>2 DEF HandlerFits
<1>5. SetsAsked' BY <1>2, SetsFrame DEF ContractInv, storeVars, pairingVars
<1>6. NothingNew
  <2> SUFFICES ASSUME NEW n \in net, [id |-> n.id, code |-> "ok"] \in answers',
                      [id |-> n.id, code |-> "ok"] \notin answers
               PROVE  pc = "respond" /\ reply = "ok" /\ cur = n
    BY <1>2 DEF NothingNew, AnsweredOk
  <2>1. [id |-> n.id, code |-> "ok"] = [id |-> cur.id, code |-> reply] BY <1>2
  <2>2. n.id = cur.id /\ reply = "ok" BY <2>1
  <2> QED BY <1>1, <2>2 DEF ContractInv, IdsUnique
<1>7. K!Next BY <1>2, <1>6, OtherStep DEF pairingVars, storeVars, heldVars
<1> QED BY <1>3, <1>4, <1>5, <1>7 DEF ContractInv

LEMMA CrashContract ==
    ASSUME ServerInv, ContractInv, CrashAndRestart
    PROVE  ContractInv' /\ K!Next
<1>1. /\ pc' = "idle" /\ wallets' = walletsDisk
      /\ sets' = setsDisk /\ setsDisk' = setsDisk
      /\ UNCHANGED <<networkVars, status, watching, grants>>
  BY DEF CrashAndRestart, S!ReloadStores, P!Forget
<1>2. Granted' = Granted /\ Asked' = Asked /\ Unsure' = Unsure /\ Vague' = Vague
  BY <1>1 DEF Granted, Asked, Unsure, Vague, networkVars
<1>3. SetsAsked' /\ IdsUnique' /\ HandlerFits'
  BY <1>1, <1>2
     DEF ContractInv, SetsAsked, AskedFor, IdsUnique, HandlerFits, networkVars
<1>4. K!Reload
  <2>1. wallets' \in SUBSET Granted
    <3>1. \A w \in walletsDisk : w \in Wallets BY DEF ServerInv, ServerTypeOK, S!StoresOK
    <3>2. \A w \in walletsDisk : w \in Granted
      BY <3>1 DEF ServerInv, StoreInv, OnlyProvenWallets, Granted
    <3> QED BY <1>1, <3>2
  <2>2. \A k \in Wallets \ Unsure : k \in wallets' <=> k \in wallets
    BY <1>1 DEF Unsure, ServerInv, StoreInv, StatusDurable, ServerTypeOK, HistoryOK
  <2>3. /\ sets' \in [Wallets -> {{}} \cup {x.addrs : x \in Asked}]
        /\ \A k \in Wallets : sets'[k] = {} \/ [key |-> k, addrs |-> sets'[k]] \in Asked
    <3>1. \A k \in Wallets : setsDisk[k] = {} \/ [key |-> k, addrs |-> setsDisk[k]] \in Asked
      BY DEF ContractInv, SetsAsked, AskedFor
    <3>2. \A k \in Wallets : setsDisk[k] \in {{}} \cup {x.addrs : x \in Asked}
      <4> TAKE k \in Wallets
      <4>1. CASE setsDisk[k] = {} BY <4>1
      <4>2. CASE [key |-> k, addrs |-> setsDisk[k]] \in Asked
        <5>1. [key |-> k, addrs |-> setsDisk[k]].addrs = setsDisk[k] OBVIOUS
        <5> QED BY <4>2, <5>1
      <4> QED BY <3>1, <4>1, <4>2
    <3> QED BY <1>1, <3>1, <3>2 DEF ServerInv, ServerTypeOK, S!StoresOK
  <2>4. \A k \in Wallets \ Vague : sets'[k] = sets[k]
    BY <1>1 DEF Vague, ServerInv, StoreInv, WatchSetDurable
  <2> QED BY <1>2, <2>1, <2>2, <2>3, <2>4 DEF K!Reload
<1>5. Promises' \subseteq Promises
  BY <1>1, SilentStep, NoPromise
<1> QED BY <1>2, <1>3, <1>4, <1>5 DEF ContractInv, K!Next

LEMMA NextContract ==
    ASSUME ServerInv, ContractInv, [Next]_vars
    PROVE  ContractInv' /\ [K!Next]_K!contractVars
<1>1. CASE UNCHANGED vars
  <2>1. UNCHANGED <<networkVars, loopVars, pairingVars, storeVars, historyVars>>
    BY <1>1 DEF vars
  <2>2. UNCHANGED <<net, answers, pc, cur, at, reply, grants, wallets, sets, setsDisk,
                    status, watching>>
    BY <2>1 DEF networkVars, loopVars, pairingVars, storeVars, historyVars
  <2>3. IdsUnique' BY <2>2 DEF ContractInv, IdsUnique
  <2> QED BY <2>1, <2>2, <2>3, SilentStep, BystanderContract DEF heldVars
<1>2. ASSUME NEW m \in net, Receive(m)
      PROVE  ContractInv' /\ K!Next
  BY <1>2, QuietContract, IntakeContract DEF Receive
<1>3. CASE LoopStep
  BY <1>3, IntakeContract, AddWalletContract, UnpairWalletContract, ClearWatchSetContract,
     ReplaceWatchSetContract, QueryBackendContract, SendResponseContract DEF LoopStep
<1> QED BY <1>1, <1>2, <1>3, PublishContract, QuietContract, RevokeContract, CrashContract
        DEF Next

\* The server keeps its contract with the wallets: only the proven are served,
\* "ok" means carried out in full and saved, and a restart undoes no more than
\* what was answered with an error.
THEOREM ServerKeepsContract == Spec => KeepsContract
<1>1. Init => ContractInv
  BY DEF Init, ContractInv, IdsUnique, HandlerFits, SetsAsked, AskedFor, S!InitStores
<1>2. Init => K!Init
  <2> SUFFICES ASSUME Init PROVE K!Init OBVIOUS
  <2>1. Granted = {} /\ Asked = {} /\ Promises = {}
    BY DEF Init, P!Init, Granted, Asked, Promises
  <2>2. Unsure = {} BY DEF Init, Unsure
  <2>3. Vague = {} BY NoneAssumption DEF Init, Vague
  <2> QED BY <2>1, <2>2, <2>3 DEF Init, S!InitStores, K!Init
<1>3. ServerInv /\ ContractInv /\ [Next]_vars => ContractInv' /\ [K!Next]_K!contractVars
  BY NextContract
<1> QED BY <1>1, <1>2, <1>3, ServerInvariance, PTL DEF Spec, KeepsContract, K!Spec
=============================================================================
