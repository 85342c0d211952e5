------------------------------- MODULE Queries -------------------------------
(***************************************************************************)
(* server/src/handlers.rs: the requests that only ask the Electrs backend, *)
(* beside a chain that moves between the questions of one request.         *)
(*                                                                         *)
(* A handler awaits its questions one after another, each through the gate *)
(* of Electrs.tla, so blocks may come and reorganise between any two, and  *)
(* between two entries of one batch.  `notes` is what it was told so far;  *)
(* ToAsk is what it asks next; the answer is put together from the notes   *)
(* alone.  Any question may fail.  The loop of NomadServer.tla has one      *)
(* request in hand at a time, and handlers keep nothing between two: one   *)
(* request is all there is, in every state the chain may be in by then.    *)
(*                                                                         *)
(* A chain is the height of each transaction (0 in the mempool, None if    *)
(* unknown) and the block at each height.  The backend follows the longest *)
(* chain: its tip never falls.                                             *)
(***************************************************************************)
EXTENDS Integers, Sequences, FiniteSetsExt

CONSTANTS
    Addresses,
    Txs,                \* transactions, ordered as their ids: naturals
    Outputs,            \* outputs that pay Addresses
    Maker, Owner, Value,        \* Outputs -> the tx that made it, its address, its value
    Spender,            \* Outputs -> the tx that spends it, or None
    Types,              \* the request types asked (a part of AllTypes)
    AddressLists,       \* the lists of addresses a request gives, the empty one included
    TxLists,            \* the lists of transactions it gives, the empty one included
    Limits,             \* what a history request may give as its limit, None included
    Rates,              \* estimates of the backend, in sat/vB; negative when it has none
    MaxQueryAddresses, MaxTxids, DefaultHistoryLimit, MaxHistoryLimit,
    MaxHeight,          \* bound on the chain
    MaxMoves,           \* bound on the moves of the chain
    None                \* no value

AllTypes == {"ping", "balance", "utxos", "history", "transactions", "fees", "broadcast"}

Heights == 0..MaxHeight \cup {None}

ASSUME QueriesAssumption ==
    /\ Txs \subseteq Nat /\ IsFiniteSet(Txs) /\ IsFiniteSet(Outputs)
    /\ Maker \in [Outputs -> Txs] /\ Owner \in [Outputs -> Addresses]
    /\ Value \in [Outputs -> Nat] /\ Spender \in [Outputs -> Txs \cup {None}]
    /\ Types \subseteq AllTypes
    /\ AddressLists \subseteq Seq(Addresses) /\ TxLists \subseteq Seq(Txs)
    /\ Limits \subseteq Nat \cup {None} /\ Rates \subseteq Int
    /\ {MaxQueryAddresses, MaxTxids, MaxHeight, MaxMoves} \subseteq Nat
    /\ {DefaultHistoryLimit, MaxHistoryLimit} \subseteq Nat \ {0}
    /\ None \notin Int

VARIABLES
    chain,      \* the backend's chain: height of each tx, block at each height
    drawn,      \* blocks ever mined; they are numbered in that order
    moves,      \* bound used up
    req,        \* the request in hand or last answered, or None
    notes,      \* question -> the backend's answer, as far as asked
    answer,     \* the answer, or None while the request is in hand
    lived       \* history: the chains the backend was at while the request was in hand

backendVars == <<chain, drawn, moves>>
vars == <<backendVars, req, notes, answer, lived>>

\* A list may name an address or a transaction twice: nobody removes repeats.
Requests == [type : Types, addrs : AddressLists, limit : Limits, txs : TxLists]

\* Requests that differ only in what their type does not look at are one.
Askable(r) ==
    /\ r.type \in {"balance", "utxos", "history"} \/ r.addrs = <<>>
    /\ r.type \in {"transactions", "broadcast"} \/ r.txs = <<>>
    /\ r.type = "history" \/ r.limit = None
    /\ r.type = "broadcast" => Len(r.txs) <= 1
-----------------------------------------------------------------------------
(* The backend *)

\* Nothing is spent before it is made, and nothing lies beyond the tip.
Valid(c) ==
    /\ \A tx \in Txs : c.height[tx] # None => c.height[tx] <= Len(c.block)
    /\ \A o \in Outputs :
          LET made == c.height[Maker[o]]
              spent == IF Spender[o] = None THEN None ELSE c.height[Spender[o]]
          IN spent # None =>
                /\ made # None
                /\ spent > 0 => made > 0 /\ made <= spent

Chains == [height : [Txs -> Heights], block : Seq(Nat)]

Init ==
    /\ \E height \in [Txs -> Heights], tip \in 0..MaxHeight :
          /\ chain = [height |-> height, block |-> [h \in 1..tip |-> h]]
          /\ drawn = tip
    /\ Valid(chain)
    /\ moves = 0
    /\ req = None /\ notes = <<>> /\ answer = None
    /\ lived = {}

Busy == req # None /\ answer = None

\* The chain becomes c, and the request in hand lives through it.
Becomes(c) ==
    /\ Valid(c)
    /\ chain' = c
    /\ lived' = lived \cup {c}

\* Blocks above `fork` are left for longer ones (or the chain just grows, or
\* only the mempool changes); what was confirmed up to the fork stays so.
MoveChain ==
    /\ Busy
    /\ moves < MaxMoves /\ moves' = moves + 1
    /\ \E fork, new \in 0..MaxHeight, height \in [Txs -> Heights] :
          /\ \/ fork = Len(chain.block)
             \/ fork < Len(chain.block) /\ fork + new > Len(chain.block)
          /\ fork + new <= MaxHeight
          /\ \A tx \in Txs :
                IF chain.height[tx] \in 1..fork THEN height[tx] = chain.height[tx]
                                                ELSE height[tx] \notin 1..fork
          /\ drawn' = drawn + new
          /\ Becomes([height |-> height,
                      block |-> [h \in 1..(fork + new) |->
                                   IF h <= fork THEN chain.block[h] ELSE drawn + h - fork]])
    /\ UNCHANGED <<req, notes, answer>>

Unspent(c, o) ==
    /\ c.height[Maker[o]] # None
    /\ Spender[o] = None \/ c.height[Spender[o]] = None

Touches(tx, a) == \E o \in Outputs : Owner[o] = a /\ tx \in {Maker[o], Spender[o]}

\* Some parent is unconfirmed too, which Electrum reports as height -1.
Pending(c, tx) ==
    c.height[tx] = 0 /\ \E o \in Outputs : Spender[o] = tx /\ c.height[Maker[o]] = 0

SumOver(f, S) == MapThenSumSet(LAMBDA x : f[x], S)

Total(outs) == SumOver(Value, outs)

Confirmed(c, tx) == tx # None /\ c.height[tx] # None /\ c.height[tx] > 0

\* blockchain.scripthash.get_balance
BalanceOf(c, a) ==
    LET mine == {o \in Outputs : Owner[o] = a}
        confirmed == Total({o \in mine : Confirmed(c, Maker[o]) /\ ~Confirmed(c, Spender[o])})
    IN [confirmed |-> confirmed,
        unconfirmed |-> Total({o \in mine : Unspent(c, o)}) - confirmed]

\* blockchain.scripthash.listunspent
UnspentsOf(c, a) ==
    {[out |-> o, height |-> c.height[Maker[o]]] :
        o \in {p \in Outputs : Owner[p] = a /\ Unspent(c, p)}}

\* blockchain.scripthash.get_history
HistoryOf(c, a) ==
    {[tx |-> tx, height |-> IF Pending(c, tx) THEN -1 ELSE c.height[tx]] :
        tx \in {t \in Txs : c.height[t] # None /\ Touches(t, a)}}
-----------------------------------------------------------------------------
(* What a handler makes of its notes *)

Targets == {1, 6, 12}      \* blocks, of the fee estimates
Tip == <<"tip", 0>>
Each(kind, S) == {<<kind, x>> : x \in S}

\* One question for each place of a list: a batch has an entry for each, in order.
EachOf(kind, list) == Each(kind, DOMAIN list)

Clamped(height) == IF height < 0 THEN 0 ELSE height

\* get_history: each transaction once, at the highest height seen of it.
Merged(N) ==
    LET seen == UNION {{[tx |-> e.tx, height |-> Clamped(e.height)] : e \in N[q]} :
                         q \in {p \in DOMAIN N : p[1] = "history"}}
    IN {e \in seen : \A f \in seen : f.tx = e.tx => f.height <= e.height}

\* Sorted before: higher first, then by id; the mempool counts as height 0.
Before(e, f) == e.height > f.height \/ (e.height = f.height /\ e.tx < f.tx)

EffectiveLimit(limit) ==
    IF limit = None THEN DefaultHistoryLimit
    ELSE IF limit < 1 THEN 1
    ELSE IF limit > MaxHistoryLimit THEN MaxHistoryLimit ELSE limit

\* Mutant: sorted the other way round, so the limit cuts the newest.
TruncatedOldestFirst(entries, limit) ==
    {e \in entries :
        Cardinality({f \in entries : Before(e, f)}) < EffectiveLimit(limit)}

\* sort_by and truncate: the first `limit` entries.
Truncated(entries, limit) ==
    {e \in entries :
        Cardinality({f \in entries : Before(f, e)}) < EffectiveLimit(limit)}

\* Mutant: the unspents are asked for first, the tip last.
UtxoQuestionsTipLast(r, N) ==
    IF EachOf("unspents", r.addrs) \subseteq DOMAIN N THEN {Tip} ELSE EachOf("unspents", r.addrs)

\* get_utxos: first the tip.
UtxoQuestions(r, N) ==
    IF Tip \in DOMAIN N THEN EachOf("unspents", r.addrs) ELSE {Tip}

\* get_history: first the histories, then a header for each height they give.
HistoryQuestions(r, N) ==
    IF EachOf("history", r.addrs) \subseteq DOMAIN N
    THEN Each("anchor", {e.height : e \in Truncated(Merged(N), r.limit)} \ {0})
    ELSE EachOf("history", r.addrs)

\* The questions a handler still has to ask when its notes are N, those of a
\* list in any order, for that changes nothing; some may be answered already.
QuestionsFor(r, N) ==
    CASE r.type = "ping" -> {Tip}
      [] r.type = "balance" -> EachOf("balance", r.addrs)
      [] r.type = "utxos" -> UtxoQuestions(r, N)
      [] r.type = "history" -> HistoryQuestions(r, N)
      [] r.type = "transactions" -> EachOf("raw", r.txs)
      [] r.type = "fees" -> Each("fee", Targets)
      [] r.type = "broadcast" -> EachOf("broadcast", r.txs)

\* The questions it may ask next; it answers when there are none.
ToAsk(r, N) == QuestionsFor(r, N) \ DOMAIN N

\* get_utxos: saturating_sub, then the block itself.
Confirmations(tip, height) ==
    IF height = 0 THEN 0 ELSE (IF height > tip THEN 0 ELSE tip - height) + 1

\* Mutant: the estimate as it comes, which is negative when there is none.
SatPerVbUnclamped(rate) == rate

\* btc_kb_to_sat_vb: at least 1.
SatPerVb(rate) == IF rate < 1 THEN 1 ELSE rate
-----------------------------------------------------------------------------
(* The handlers *)

\* validate_addresses, and the checks of get_transactions, before any question;
\* what is no address or no id at all is refused like too many of them.
Refused(r) ==
    \/ /\ r.type \in {"balance", "utxos", "history"}
       /\ Len(r.addrs) \notin 1..MaxQueryAddresses
    \/ r.type = "transactions" /\ Len(r.txs) \notin 1..MaxTxids
    \/ r.type = "broadcast" /\ r.txs = <<>>

\* broadcast_tx tells bytes that are no transaction from none or too many of them.
Refusals(r) == {"invalid_request"} \cup (IF r.type = "broadcast" THEN {"invalid_tx"} ELSE {})

Start ==
    /\ req = None
    /\ req' \in {r \in Requests : Askable(r)}
    /\ notes' = <<>> /\ lived' = {chain}
    /\ answer' \in IF Refused(req') THEN [code : Refusals(req')] ELSE {None}
    /\ UNCHANGED backendVars

\* The backend answers question q with `reply`.
Learn(q, reply) ==
    /\ Busy /\ q \in ToAsk(req, notes)
    /\ notes' = [p \in DOMAIN notes \cup {q} |-> IF p = q THEN reply ELSE notes[p]]
    /\ UNCHANGED <<req, answer>>

Read(q, reply) == Learn(q, reply) /\ UNCHANGED <<backendVars, lived>>

ReadTip == Read(Tip, Len(chain.block))
ReadBalance(i) == Read(<<"balance", i>>, BalanceOf(chain, req.addrs[i]))
ReadUnspents(i) == Read(<<"unspents", i>>, UnspentsOf(chain, req.addrs[i]))
ReadHistory(i) == Read(<<"history", i>>, HistoryOf(chain, req.addrs[i]))

\* Mutant: the block above.
ReadAnchorAbove(h) == h + 1 <= Len(chain.block) /\ Read(<<"anchor", h>>, chain.block[h + 1])

\* anchors: the block now at height h.
ReadAnchor(h) == h <= Len(chain.block) /\ Read(<<"anchor", h>>, chain.block[h])

ReadRawTx(i) == chain.height[req.txs[i]] # None /\ Read(<<"raw", i>>, req.txs[i])
ReadEstimate(n) == \E rate \in Rates : Read(<<"fee", n>>, rate)

\* The backend takes a transaction it can; one that it has stays where it is.
Broadcast(i) ==
    LET tx == req.txs[i] IN
    /\ Learn(<<"broadcast", i>>, tx)
    /\ Becomes(IF chain.height[tx] = None THEN [chain EXCEPT !.height[tx] = 0] ELSE chain)
    /\ UNCHANGED <<drawn, moves>>

\* A question fails or times out, and with it the request.  A broadcast may
\* arrive all the same: MoveChain has it arrive later.
QuestionFails ==
    /\ Busy /\ ToAsk(req, notes) # {}
    /\ answer' \in [code : {"backend_unavailable"}
                              \cup (IF req.type = "broadcast" THEN {"broadcast_failed"} ELSE {})]
    /\ UNCHANGED <<backendVars, req, notes, lived>>

Noted(kind) == {q \in DOMAIN notes : q[1] = kind}

\* The unspents of each place of the list, one after the other.
Utxos ==
    UNION {{[at |-> q[2], out |-> u.out,
             confirmations |-> Confirmations(notes[Tip], u.height)] : u \in notes[q]} :
             q \in Noted("unspents")}

Entries ==
    {[tx |-> e.tx, height |-> e.height,
      block |-> IF e.height = 0 THEN None ELSE notes[<<"anchor", e.height>>]] :
        e \in Truncated(Merged(notes), req.limit)}

\* The sum of a part of all the balances noted.
SumOf(part(_)) ==
    SumOver([q \in Noted("balance") |-> part(notes[q])], Noted("balance"))

\* Mutant: the unconfirmed part is left out of the sum.
BalanceConfirmedOnly ==
    [confirmed |-> SumOf(LAMBDA b : b.confirmed), unconfirmed |-> 0]

Balance ==
    [confirmed |-> SumOf(LAMBDA b : b.confirmed), unconfirmed |-> SumOf(LAMBDA b : b.unconfirmed)]

Finish ==
    /\ Busy /\ ToAsk(req, notes) = {}
    /\ answer' = [code |-> "ok",
                  list |-> CASE req.type = "ping" -> {notes[Tip]}
                             [] req.type = "balance" -> {Balance}
                             [] req.type = "utxos" -> Utxos
                             [] req.type = "history" -> Entries
                             [] req.type \in {"transactions", "broadcast"} ->
                                    {<<q[2], notes[q]>> : q \in DOMAIN notes}
                             [] req.type = "fees" -> {<<n, SatPerVb(notes[<<"fee", n>>])>> :
                                                        n \in Targets}]
    /\ UNCHANGED <<backendVars, req, notes, lived>>

Question ==
    /\ Busy
    /\ \/ ReadTip
       \/ \E i \in DOMAIN req.addrs : ReadBalance(i) \/ ReadUnspents(i) \/ ReadHistory(i)
       \/ \E h \in 1..MaxHeight : ReadAnchor(h)
       \/ \E i \in DOMAIN req.txs : ReadRawTx(i) \/ Broadcast(i)
       \/ \E n \in Targets : ReadEstimate(n)

Next == MoveChain \/ Start \/ Question \/ QuestionFails \/ Finish

Spec == Init /\ [][Next]_vars
-----------------------------------------------------------------------------
(* Properties *)

Codes == {"ok", "invalid_request", "invalid_tx", "backend_unavailable", "broadcast_failed"}

Answered(type) == answer # None /\ answer.code = "ok" /\ req.type = type

\* Types, the answers' included: heights and confirmations are naturals and
\* fee rates positive, whatever the backend reports.
TypeOK ==
    /\ chain \in Chains /\ drawn \in Nat /\ moves \in 0..MaxMoves
    /\ req \in Requests \cup {None} /\ lived \subseteq Chains
    /\ answer # None => answer.code \in Codes
    /\ Answered("utxos") =>
          answer.list \subseteq [at : DOMAIN req.addrs, out : Outputs, confirmations : Nat]
    /\ Answered("history") =>
          answer.list \subseteq [tx : Txs, height : 0..MaxHeight, block : Nat \cup {None}]
    /\ Answered("fees") => answer.list \subseteq Targets \X (Nat \ {0})

\* Two chains the request lived through have different blocks at one height.
Reorganised ==
    \E c, d \in lived : \E h \in DOMAIN c.block \cap DOMAIN d.block : c.block[h] # d.block[h]

\* The addresses a request gives, each once.
Named(list) == {list[i] : i \in DOMAIN list}

\* The sum of what the address at each place of the list had in seen[place].
BalanceSeen(list, seen) ==
    LET had == [i \in DOMAIN list |-> BalanceOf(seen[i], list[i])]
    IN [confirmed |-> SumOver([i \in DOMAIN list |-> had[i].confirmed], DOMAIN list),
        unconfirmed |-> SumOver([i \in DOMAIN list |-> had[i].unconfirmed], DOMAIN list)]

\* Nothing is invented, although the tip is read before the unspents and each
\* address by itself: every output listed is of the address at its place in the
\* list, was unspent, and as deep as the answer says, in one chain the backend had
\* meanwhile; every transaction listed is of those addresses, and stood at its
\* height in one; and a balance is the sum of what each place's address had in
\* one.  An address given twice is read twice, perhaps of two chains, and counts
\* twice.
NothingInvented ==
    /\ Answered("utxos") =>
          \A u \in answer.list : Owner[u.out] = req.addrs[u.at] /\ \E c \in lived :
              /\ Unspent(c, u.out)
              /\ LET height == c.height[Maker[u.out]] IN
                 u.confirmations <= IF height = 0 THEN 0 ELSE Len(c.block) - height + 1
    /\ Answered("history") =>
          \A e \in answer.list :
              /\ \E a \in Named(req.addrs) : Touches(e.tx, a)
              /\ \E c \in lived : c.height[e.tx] = e.height
    /\ Answered("balance") =>
          \E seen \in [DOMAIN req.addrs -> lived] :
              answer.list = {BalanceSeen(req.addrs, seen)}

\* An anchor is the block the transaction is in, at its height, unless blocks
\* were reorganised while the request was in hand: a wallet that builds on it
\* never builds on a block from another time.
AnchorsHold ==
    Answered("history") /\ ~Reorganised =>
        \A e \in answer.list : e.height > 0 =>
            \E c \in lived : /\ c.height[e.tx] = e.height
                             /\ e.height \in DOMAIN c.block
                             /\ c.block[e.height] = e.block

\* Nothing is overlooked: a transaction of the addresses that was there all the
\* time, on whatever height, is listed, unless as many as the limit allows are
\* listed that were not lower; and an output unspent all the time is listed.
NothingOverlooked ==
    /\ Answered("history") =>
          \A tx \in Txs :
              (\E a \in Named(req.addrs) : Touches(tx, a)) /\ (\A c \in lived : c.height[tx] # None)
                 => \/ \E e \in answer.list : e.tx = tx
                    \/ /\ Cardinality(answer.list) = EffectiveLimit(req.limit)
                       /\ \A e \in answer.list : \E c \in lived : e.height >= c.height[tx]
    /\ Answered("utxos") =>
          \A i \in DOMAIN req.addrs, o \in Outputs :
              Owner[o] = req.addrs[i] /\ (\A c \in lived : Unspent(c, o))
                 => \E u \in answer.list : u.at = i /\ u.out = o

\* What is unspent of the addresses of a list, at each of its places: an output
\* of an address given twice is there twice.
Copies(list) ==
    {c \in (DOMAIN list) \X Outputs : Owner[c[2]] = list[c[1]] /\ Unspent(chain, c[2])}

Worth(copies) == SumOver([c \in copies |-> Value[c[2]]], copies)

NoRepeats(list) == \A i, j \in DOMAIN list : list[i] = list[j] => i = j

\* While the chain rests, answers of several questions are exact, and two kinds
\* of request agree on the same list: get_utxos lists each copy, as deep as it is,
\* and get_balance adds their values.  That is what the addresses really have
\* when none is given twice, and only then: a repeated one counts as often as given.
ExactAtRest ==
    lived = {chain} =>
        LET copies == Copies(req.addrs)
            outs == {o \in Outputs : Owner[o] \in Named(req.addrs) /\ Unspent(chain, o)} IN
        /\ Answered("balance") =>
              \A b \in answer.list :
                  /\ b.confirmed + b.unconfirmed = Worth(copies)
                  /\ NoRepeats(req.addrs) => b.confirmed + b.unconfirmed = Total(outs)
        /\ Answered("utxos") =>
              /\ {<<u.at, u.out>> : u \in answer.list} = copies
              /\ \A u \in answer.list :
                    u.confirmations = Cardinality({h \in DOMAIN chain.block :
                        0 < chain.height[Maker[u.out]] /\ chain.height[Maker[u.out]] <= h})
=============================================================================
