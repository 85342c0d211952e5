--------------------------- MODULE Queries_proofs ---------------------------
(***************************************************************************)
(* What the answers of the query handlers are worth, for every list of     *)
(* addresses and transactions, repeats included, and every chain that      *)
(* moves between the questions of a request: types, that utxos and         *)
(* histories are made of what the backend really had and overlook nothing  *)
(* that stayed, and what sums are worth while the chain rests.             *)
(*                                                                         *)
(* The inductive invariant QueriesInv says what each note is good for: the *)
(* tip noted is no higher than the chain's, for the chain never gets       *)
(* shorter; each entry of an unspents or a history note is true of some    *)
(* chain lived through; and an anchor is the block that was at its height  *)
(* in one.  SourceInv adds that a note is complete, all that one chain     *)
(* lived through had to say of the address at its place in the list; so    *)
(* nothing in an answer is invented or overlooked.                         *)
(***************************************************************************)
EXTENDS Queries, FiniteSetTheorems, FunctionTheorems, TLAPS

ChainOK == /\ chain \in Chains /\ Valid(chain)
           /\ drawn \in Nat /\ moves \in 0..MaxMoves
           /\ req \in Requests \cup {None}

LivedOK == /\ \A c \in lived : c \in Chains /\ Valid(c)
           /\ req # None => chain \in lived

SeenUnspent(u) ==
    /\ u.out \in Outputs
    /\ \E c \in lived : /\ Unspent(c, u.out)
                        /\ u.height = c.height[Maker[u.out]]
                        /\ notes[Tip] <= Len(c.block)

SeenTx(e) ==
    /\ e.tx \in Txs
    /\ \E c \in lived : c.height[e.tx] # None /\ c.height[e.tx] = Clamped(e.height)

SeenBlock(h, hash) == \E c \in lived : h \in DOMAIN c.block /\ c.block[h] = hash

NoteOK(q) ==
    /\ q[1] = "tip" => notes[q] \in Nat /\ notes[q] <= Len(chain.block)
    /\ q[1] = "unspents" => Tip \in DOMAIN notes /\ \A u \in notes[q] : SeenUnspent(u)
    /\ q[1] = "history" => \A e \in notes[q] : SeenTx(e)
    /\ q[1] = "anchor" => SeenBlock(q[2], notes[q])
    /\ q[1] = "fee" => notes[q] \in Int
    /\ q[1] \in {"unspents", "history"} => q[2] \in DOMAIN req.addrs

NotesOK == \A q \in DOMAIN notes : NoteOK(q)

AnswerTypeOK ==
    /\ answer # None => answer.code \in Codes
    /\ Answered("utxos") =>
          answer.list \subseteq [at : DOMAIN req.addrs, out : Outputs, confirmations : Nat]
    /\ Answered("history") =>
          answer.list \subseteq [tx : Txs, height : 0..MaxHeight, block : Nat \cup {None}]
    /\ Answered("fees") => answer.list \subseteq Targets \X (Nat \ {0})

AnswerOK == AnswerTypeOK /\ AnchorsHold

QueriesInv == ChainOK /\ LivedOK /\ NotesOK /\ AnswerOK
-----------------------------------------------------------------------------
(* Constants and chains *)

LEMMA Constants ==
    /\ Maker \in [Outputs -> Txs] /\ Spender \in [Outputs -> Txs \cup {None}]
    /\ MaxHeight \in Nat /\ MaxMoves \in Nat /\ Rates \subseteq Int
    /\ None \notin Int
BY QueriesAssumption

LEMMA HeightType ==
    ASSUME NEW c \in Chains, NEW tx \in Txs, c.height[tx] # None
    PROVE  c.height[tx] \in 0..MaxHeight
BY DEF Chains, Heights

LEMMA HeightBelowTip ==
    ASSUME NEW c \in Chains, Valid(c), NEW tx \in Txs, c.height[tx] # None
    PROVE  c.height[tx] <= Len(c.block)
BY DEF Valid

LEMMA BlockType ==
    ASSUME NEW c \in Chains
    PROVE  /\ Len(c.block) \in Nat /\ DOMAIN c.block = 1..Len(c.block)
           /\ \A h \in DOMAIN c.block : c.block[h] \in Nat
BY DEF Chains

\* Nothing is answered while the request is in hand.
LEMMA Unanswered == answer' = None => AnswerOK'
BY DEF AnswerOK, AnswerTypeOK, AnchorsHold, Answered
-----------------------------------------------------------------------------
(* The chain moves *)

\* What was noted stays good in a chain that is no shorter.
LEMMA NoteFrame ==
    ASSUME NEW q, NoteOK(q), q \in DOMAIN notes,
           DOMAIN notes \subseteq DOMAIN notes',
           \A p \in DOMAIN notes : notes'[p] = notes[p],
           lived \subseteq lived', req' = req,
           q[1] = "tip" => Len(chain.block) \in Nat /\ Len(chain'.block) \in Nat
                           /\ Len(chain.block) <= Len(chain'.block)
    PROVE  NoteOK(q)'
<1>1. notes'[q] = notes[q] OBVIOUS
<1>2. ASSUME Tip \in DOMAIN notes, NEW u, SeenUnspent(u)
      PROVE  SeenUnspent(u)'
  BY <1>2 DEF SeenUnspent, Unspent
<1>3. ASSUME NEW e, SeenTx(e) PROVE SeenTx(e)'
  BY <1>3 DEF SeenTx
<1>4. q[1] = "anchor" => \E c \in lived' : q[2] \in DOMAIN c.block /\ c.block[q[2]] = notes'[q]
  BY <1>1 DEF NoteOK, SeenBlock
<1>5. q[1] = "tip" => notes'[q] \in Nat /\ notes'[q] <= Len(chain'.block)
  BY <1>1 DEF NoteOK
<1>6. q[1] = "unspents" => Tip \in DOMAIN notes' /\ \A u \in notes'[q] : SeenUnspent(u)'
  BY <1>1, <1>2 DEF NoteOK
<1>7. q[1] = "history" => \A e \in notes'[q] : SeenTx(e)'
  BY <1>1, <1>3 DEF NoteOK
<1>8. q[1] = "fee" => notes'[q] \in Int
  BY <1>1 DEF NoteOK
<1>9. q[1] \in {"unspents", "history"} => q[2] \in DOMAIN req'.addrs
  BY DEF NoteOK
<1> QED BY <1>4, <1>5, <1>6, <1>7, <1>8, <1>9 DEF NoteOK, SeenBlock

\* The chain becomes one that is no shorter, and notes are left or added to.
LEMMA OldNotes ==
    ASSUME ChainOK, NotesOK, chain' \in Chains, Len(chain.block) <= Len(chain'.block),
           DOMAIN notes \subseteq DOMAIN notes',
           \A p \in DOMAIN notes : notes'[p] = notes[p],
           lived \subseteq lived', req' = req
    PROVE  \A q \in DOMAIN notes : NoteOK(q)'
<1>1. Len(chain.block) \in Nat /\ Len(chain'.block) \in Nat
  BY BlockType DEF ChainOK
<1> QED BY <1>1, NoteFrame DEF NotesOK

LEMMA MoveChainStep ==
    ASSUME QueriesInv, MoveChain
    PROVE  QueriesInv'
<1>0. PICK fork \in 0..MaxHeight, new \in 0..MaxHeight, height \in [Txs -> Heights] :
         /\ \/ fork = Len(chain.block)
            \/ fork < Len(chain.block) /\ fork + new > Len(chain.block)
         /\ drawn' = drawn + new
         /\ Becomes([height |-> height,
                     block |-> [h \in 1..(fork + new) |->
                                  IF h <= fork THEN chain.block[h] ELSE drawn + h - fork]])
  BY DEF MoveChain
<1> DEFINE block == [h \in 1..(fork + new) |->
                       IF h <= fork THEN chain.block[h] ELSE drawn + h - fork]
           c == [height |-> height, block |-> block]
<1>1. /\ Busy /\ Valid(c) /\ chain' = c /\ lived' = lived \cup {c}
      /\ moves < MaxMoves /\ moves' = moves + 1 /\ drawn' = drawn + new
      /\ \/ fork = Len(chain.block)
         \/ fork < Len(chain.block) /\ fork + new > Len(chain.block)
      /\ UNCHANGED <<req, notes, answer>>
  BY <1>0 DEF MoveChain, Becomes
<1>2. fork \in Nat /\ new \in Nat /\ fork + new \in Nat /\ drawn \in Nat
  BY Constants DEF QueriesInv, ChainOK
<1>3. chain \in Chains BY DEF QueriesInv, ChainOK
<1>4. Len(chain.block) \in Nat /\ fork <= Len(chain.block) /\ Len(chain.block) <= fork + new
  BY <1>1, <1>2, <1>3, BlockType
<1>5. \A h \in 1..(fork + new) :
         (IF h <= fork THEN chain.block[h] ELSE drawn + h - fork) \in Nat
  <2> TAKE h \in 1..(fork + new)
  <2>1. CASE h <= fork
    <3>1. h \in DOMAIN chain.block BY <1>2, <1>3, <1>4, <2>1, BlockType
    <3> QED BY <1>3, <2>1, <3>1, BlockType
  <2>2. CASE ~(h <= fork) BY <1>2, <2>2
  <2> QED BY <2>1, <2>2
<1>6. block \in Seq(Nat) /\ Len(block) = fork + new
  BY <1>2, <1>5
<1>7. c \in Chains /\ c.block = block
  BY <1>6 DEF Chains
<1>8. Len(chain.block) <= Len(chain'.block) /\ chain' \in Chains
  BY <1>1, <1>4, <1>6, <1>7
<1>9. moves' \in 0..MaxMoves /\ drawn' \in Nat
  BY <1>1, <1>2, Constants DEF QueriesInv, ChainOK
<1>10. ChainOK' BY <1>1, <1>8, <1>9 DEF QueriesInv, ChainOK, Valid
<1>11. LivedOK' BY <1>1, <1>7 DEF QueriesInv, LivedOK, Valid
<1>12. NotesOK'
  BY <1>1, <1>8, OldNotes DEF QueriesInv, NotesOK
<1>13. AnswerOK' BY <1>1, Unanswered DEF Busy
<1> QED BY <1>10, <1>11, <1>12, <1>13 DEF QueriesInv
-----------------------------------------------------------------------------
(* A request is taken *)

LEMMA StartStep ==
    ASSUME QueriesInv, Start
    PROVE  QueriesInv'
<1>1. /\ req' \in Requests /\ notes' = <<>> /\ lived' = {chain}
      /\ answer' = None \/ answer' \in [code : Refusals(req')]
      /\ UNCHANGED <<chain, drawn, moves>>
  BY DEF Start, backendVars
<1>2. ChainOK' BY <1>1 DEF QueriesInv, ChainOK, Valid
<1>3. LivedOK' BY <1>1 DEF QueriesInv, ChainOK, LivedOK, Valid
<1>4. NotesOK' BY <1>1 DEF NotesOK
<1>5. AnswerOK'
  <2>1. CASE answer' = None BY <2>1, Unanswered
  <2>2. CASE answer' \in [code : Refusals(req')]
    <3>1. answer'.code \in {"invalid_request", "invalid_tx"} BY <2>2 DEF Refusals
    <3> QED
      BY <3>1
         DEF AnswerOK, AnswerTypeOK, AnchorsHold, Answered, Codes
  <2> QED BY <1>1, <2>1, <2>2
<1> QED BY <1>2, <1>3, <1>4, <1>5 DEF QueriesInv
-----------------------------------------------------------------------------
(* A question is answered *)

\* Unspents are asked for only of a utxos request, and after the tip.
LEMMA UnspentsAfterTip ==
    ASSUME NEW r, NEW N, NEW a, <<"unspents", a>> \in ToAsk(r, N), r.type \in AllTypes
    PROVE  Tip \in DOMAIN N
<1>1. /\ r.type = "ping" => QuestionsFor(r, N) = {Tip}
      /\ r.type = "balance" => QuestionsFor(r, N) = EachOf("balance", r.addrs)
      /\ r.type = "utxos" => QuestionsFor(r, N) = UtxoQuestions(r, N)
      /\ r.type = "history" => QuestionsFor(r, N) = HistoryQuestions(r, N)
      /\ r.type = "transactions" => QuestionsFor(r, N) = EachOf("raw", r.txs)
      /\ r.type = "fees" => QuestionsFor(r, N) = Each("fee", Targets)
      /\ r.type = "broadcast" => QuestionsFor(r, N) = EachOf("broadcast", r.txs)
  BY DEF QuestionsFor
<1>2. \A kind, S : /\ <<"unspents", a>> \in Each(kind, S) => kind = "unspents"
                   /\ <<"unspents", a>> \in EachOf(kind, S) => kind = "unspents"
  BY DEF Each, EachOf
<1>3. <<"unspents", a>> # Tip BY DEF Tip
<1>4. <<"unspents", a>> \in QuestionsFor(r, N) BY DEF ToAsk
<1>5. <<"unspents", a>> \notin HistoryQuestions(r, N) BY <1>2 DEF HistoryQuestions
<1>6. <<"unspents", a>> \in UtxoQuestions(r, N) => Tip \in DOMAIN N
  BY <1>3 DEF UtxoQuestions
<1> QED BY <1>1, <1>2, <1>3, <1>4, <1>5, <1>6 DEF AllTypes

LEMMA InHand ==
    ASSUME QueriesInv, Busy
    PROVE  /\ chain \in Chains /\ Valid(chain) /\ chain \in lived
           /\ req \in Requests /\ req.type \in AllTypes
<1>1. req \in Requests BY DEF Busy, QueriesInv, ChainOK
<1>2. req.type \in AllTypes BY <1>1, QueriesAssumption DEF Requests
<1> QED BY <1>1, <1>2 DEF Busy, QueriesInv, ChainOK, LivedOK

\* The lists of a request: what they give, at which places.
LEMMA ListType ==
    ASSUME NEW r \in Requests
    PROVE  /\ \A i \in DOMAIN r.addrs : r.addrs[i] \in Addresses
           /\ \A i \in DOMAIN r.txs : r.txs[i] \in Txs
<1>1. r.addrs \in Seq(Addresses) /\ r.txs \in Seq(Txs) BY QueriesAssumption DEF Requests
<1> QED BY <1>1

\* A question that leaves the backend as it is, and whose note is good.
LEMMA ReadKeeps ==
    ASSUME QueriesInv, NEW q, NEW reply, Read(q, reply), NoteOK(q)'
    PROVE  QueriesInv'
<1>1. /\ Busy
      /\ notes' = [p \in DOMAIN notes \cup {q} |-> IF p = q THEN reply ELSE notes[p]]
      /\ q \notin DOMAIN notes
      /\ UNCHANGED <<req, answer, chain, drawn, moves, lived>>
  BY DEF Read, Learn, ToAsk, backendVars
<1>2. /\ DOMAIN notes' = DOMAIN notes \cup {q}
      /\ \A p \in DOMAIN notes : notes'[p] = notes[p]
  BY <1>1
<1>3. chain' \in Chains /\ Len(chain.block) <= Len(chain'.block)
  BY <1>1, BlockType DEF QueriesInv, ChainOK
<1>4. ChainOK' /\ LivedOK'
  BY <1>1 DEF QueriesInv, ChainOK, LivedOK, Valid
<1>5. NotesOK'
  BY <1>1, <1>2, <1>3, OldNotes DEF QueriesInv, NotesOK
<1>6. AnswerOK' BY <1>1, Unanswered DEF Busy
<1> QED BY <1>4, <1>5, <1>6 DEF QueriesInv

LEMMA NoteOf ==
    ASSUME NEW q, NEW reply, Read(q, reply)
    PROVE  /\ Busy /\ q \in ToAsk(req, notes) /\ q \notin DOMAIN notes
           /\ notes'[q] = reply
           /\ DOMAIN notes' = DOMAIN notes \cup {q}
           /\ \A p \in DOMAIN notes : notes'[p] = notes[p]
           /\ UNCHANGED <<chain, lived>>
BY DEF Read, Learn, ToAsk, backendVars

LEMMA ReadTipStep ==
    ASSUME QueriesInv, ReadTip
    PROVE  QueriesInv'
<1>1. Read(Tip, Len(chain.block)) BY DEF ReadTip
<1>2. notes'[Tip] = Len(chain.block) /\ chain' = chain /\ Busy BY <1>1, NoteOf
<1>3. Len(chain.block) \in Nat BY <1>2, InHand, BlockType
<1>4. Tip[1] = "tip" BY DEF Tip
<1>5. NoteOK(Tip)' BY <1>2, <1>3, <1>4 DEF NoteOK
<1> QED BY <1>1, <1>5, ReadKeeps

\* Balances, raw transactions and what a broadcast returns need no care.
LEMMA ReadAnyStep ==
    ASSUME QueriesInv, NEW q, NEW reply, Read(q, reply),
           q[1] \in {"balance", "raw", "broadcast"}
    PROVE  QueriesInv'
<1>1. NoteOK(q)' BY DEF NoteOK
<1> QED BY <1>1, ReadKeeps

LEMMA ReadEstimateStep ==
    ASSUME QueriesInv, NEW n \in Targets, ReadEstimate(n)
    PROVE  QueriesInv'
<1>1. PICK rate \in Rates : Read(<<"fee", n>>, rate) BY DEF ReadEstimate
<1>2. notes'[<<"fee", n>>] \in Int BY <1>1, NoteOf, Constants
<1>3. NoteOK(<<"fee", n>>)' BY <1>2 DEF NoteOK
<1> QED BY <1>1, <1>3, ReadKeeps

LEMMA ReadAnchorStep ==
    ASSUME QueriesInv, NEW h \in 1..MaxHeight, ReadAnchor(h)
    PROVE  QueriesInv'
<1> DEFINE q == <<"anchor", h>>
<1>1. Read(q, chain.block[h]) /\ h <= Len(chain.block) BY DEF ReadAnchor
<1>2. notes'[q] = chain.block[h] /\ lived' = lived /\ Busy BY <1>1, NoteOf
<1>3. chain \in lived /\ h \in DOMAIN chain.block
  BY <1>1, <1>2, InHand, BlockType, Constants
<1>4. q[1] = "anchor" /\ q[2] = h OBVIOUS
<1>5. NoteOK(q)' BY <1>2, <1>3, <1>4 DEF NoteOK, SeenBlock
<1> QED BY <1>1, <1>5, ReadKeeps

LEMMA ReadHistoryStep ==
    ASSUME QueriesInv, NEW i \in DOMAIN req.addrs, ReadHistory(i)
    PROVE  QueriesInv'
<1> DEFINE q == <<"history", i>>
           a == req.addrs[i]
<1>1. Read(q, HistoryOf(chain, a)) BY DEF ReadHistory
<1>2. notes'[q] = HistoryOf(chain, a) /\ lived' = lived /\ Busy BY <1>1, NoteOf
<1>3. chain \in Chains /\ chain \in lived BY <1>2, InHand
<1>4. ASSUME NEW e \in HistoryOf(chain, a) PROVE SeenTx(e)'
  <2>1. PICK tx \in Txs :
           /\ chain.height[tx] # None
           /\ e = [tx |-> tx, height |-> IF Pending(chain, tx) THEN -1 ELSE chain.height[tx]]
    BY DEF HistoryOf
  <2>2. chain.height[tx] \in Nat BY <1>3, <2>1, HeightType, Constants
  <2>3. Clamped(e.height) = chain.height[tx]
    <3>1. CASE Pending(chain, tx)
      BY <2>1, <3>1 DEF Clamped, Pending
    <3>2. CASE ~Pending(chain, tx)
      BY <2>1, <2>2, <3>2 DEF Clamped
    <3> QED BY <3>1, <3>2
  <2> QED BY <1>2, <1>3, <2>1, <2>3 DEF SeenTx
<1>5. q[1] = "history" /\ q[2] = i /\ req' = req BY <1>1 DEF Read, Learn
<1>6. NoteOK(q)' BY <1>2, <1>4, <1>5 DEF NoteOK
<1> QED BY <1>1, <1>6, ReadKeeps

LEMMA ReadUnspentsStep ==
    ASSUME QueriesInv, NEW i \in DOMAIN req.addrs, ReadUnspents(i)
    PROVE  QueriesInv'
<1> DEFINE q == <<"unspents", i>>
           a == req.addrs[i]
<1>1. Read(q, UnspentsOf(chain, a)) BY DEF ReadUnspents
<1>2. /\ notes'[q] = UnspentsOf(chain, a) /\ lived' = lived /\ chain' = chain /\ Busy
      /\ q \in ToAsk(req, notes)
      /\ DOMAIN notes \subseteq DOMAIN notes'
      /\ \A p \in DOMAIN notes : notes'[p] = notes[p]
  BY <1>1, NoteOf
<1>3. chain \in lived BY <1>2, InHand
<1>4. Tip \in DOMAIN notes BY <1>2, InHand, UnspentsAfterTip
<1>5. notes'[Tip] <= Len(chain.block)
  <2>1. Tip[1] = "tip" BY DEF Tip
  <2> QED BY <1>2, <1>4, <2>1 DEF QueriesInv, NotesOK, NoteOK
<1>6. ASSUME NEW u \in UnspentsOf(chain, a) PROVE SeenUnspent(u)'
  <2>1. PICK o \in Outputs :
           /\ Unspent(chain, o)
           /\ u = [out |-> o, height |-> chain.height[Maker[o]]]
    BY DEF UnspentsOf
  <2>2. u.out = o /\ u.height = chain.height[Maker[o]] BY <2>1
  <2> QED BY <1>2, <1>3, <1>5, <2>1, <2>2 DEF SeenUnspent, Unspent
<1>7. q[1] = "unspents" /\ q[2] = i /\ req' = req BY <1>1 DEF Read, Learn
<1>8. NoteOK(q)' BY <1>2, <1>4, <1>6, <1>7 DEF NoteOK
<1> QED BY <1>1, <1>8, ReadKeeps

LEMMA BroadcastStep ==
    ASSUME QueriesInv, NEW i \in DOMAIN req.txs, Broadcast(i)
    PROVE  QueriesInv'
<1> DEFINE q == <<"broadcast", i>>
           tx == req.txs[i]
           c == IF chain.height[tx] = None THEN [chain EXCEPT !.height[tx] = 0] ELSE chain
<1>1. /\ Busy
      /\ notes' = [p \in DOMAIN notes \cup {q} |-> IF p = q THEN tx ELSE notes[p]]
      /\ q \notin DOMAIN notes
      /\ Valid(c) /\ chain' = c /\ lived' = lived \cup {c}
      /\ UNCHANGED <<req, answer, drawn, moves>>
  BY DEF Broadcast, Learn, ToAsk, Becomes
<1>2. chain \in Chains /\ tx \in Txs BY <1>1, InHand, ListType
<1>3. c \in Chains /\ c.block = chain.block
  <2> DEFINE height == [chain.height EXCEPT ![tx] = 0]
  <2>1. height \in [Txs -> Heights] /\ chain.block \in Seq(Nat)
    BY <1>2, Constants DEF Chains, Heights
  <2>2. CASE chain.height[tx] = None
    <3>1. c = [height |-> height, block |-> chain.block] BY <1>2, <2>2 DEF Chains
    <3> QED BY <2>1, <3>1 DEF Chains
  <2>3. CASE chain.height[tx] # None BY <1>2, <2>3
  <2> QED BY <2>2, <2>3
<1>4. Len(chain.block) <= Len(chain'.block) BY <1>1, <1>2, <1>3, BlockType
<1>5. /\ DOMAIN notes' = DOMAIN notes \cup {q}
      /\ \A p \in DOMAIN notes : notes'[p] = notes[p]
  BY <1>1
<1>6. ChainOK' BY <1>1, <1>3 DEF QueriesInv, ChainOK, Valid
<1>7. LivedOK' BY <1>1, <1>3 DEF QueriesInv, LivedOK, Valid
<1>8. NotesOK'
  <2>1. \A p \in DOMAIN notes : NoteOK(p)'
    BY <1>1, <1>3, <1>4, <1>5, OldNotes DEF QueriesInv
  <2>2. q[1] = "broadcast" OBVIOUS
  <2>3. NoteOK(q)' BY <2>2 DEF NoteOK
  <2> QED BY <1>5, <2>1, <2>3 DEF NotesOK
<1>9. AnswerOK' BY <1>1, Unanswered DEF Busy
<1> QED BY <1>6, <1>7, <1>8, <1>9 DEF QueriesInv
-----------------------------------------------------------------------------
(* The answer *)

LEMMA QuestionFailsStep ==
    ASSUME QueriesInv, QuestionFails
    PROVE  QueriesInv'
<1>1. /\ UNCHANGED <<chain, drawn, moves, req, notes, lived>>
      /\ answer'.code \in Codes /\ answer'.code # "ok"
  BY DEF QuestionFails, backendVars, Codes
<1>2. ChainOK' /\ LivedOK' BY <1>1 DEF QueriesInv, ChainOK, LivedOK, Valid
<1>3. NotesOK'
  BY <1>1 DEF QueriesInv, NotesOK, NoteOK, SeenUnspent, SeenTx, SeenBlock, Unspent
<1>4. AnswerOK'
  BY <1>1 DEF AnswerOK, AnswerTypeOK, AnchorsHold, Answered
<1> QED BY <1>2, <1>3, <1>4 DEF QueriesInv

\* The answer in the making, as Finish puts it together.
LEMMA FinishAnswer ==
    ASSUME QueriesInv, Finish
    PROVE  /\ Busy /\ ToAsk(req, notes) = {}
           /\ UNCHANGED <<chain, drawn, moves, req, notes, lived>>
           /\ answer'.code = "ok"
           /\ req.type = "utxos" => answer'.list = Utxos
           /\ req.type = "history" => answer'.list = Entries
           /\ req.type = "fees" =>
                  answer'.list = {<<n, SatPerVb(notes[<<"fee", n>>])>> : n \in Targets}
BY DEF Finish, backendVars

\* Each output listed comes from the unspents noted for its place.
UtxoFrom(u, q, v) ==
    /\ q[1] = "unspents"
    /\ u = [at |-> q[2], out |-> v.out, confirmations |-> Confirmations(notes[Tip], v.height)]

LEMMA UtxoNoted ==
    ASSUME NEW u \in Utxos
    PROVE  \E q \in DOMAIN notes : \E v \in notes[q] : UtxoFrom(u, q, v)
<1> DEFINE from(q) == {[at |-> q[2], out |-> v.out,
                        confirmations |-> Confirmations(notes[Tip], v.height)] : v \in notes[q]}
<1>1. PICK q \in Noted("unspents") : u \in from(q) BY DEF Utxos
<1>2. q \in DOMAIN notes /\ q[1] = "unspents" BY DEF Noted
<1> QED BY <1>1, <1>2 DEF UtxoFrom

\* Each output listed was unspent in a chain at least as high as the tip noted.
LEMMA UtxosSeen ==
    ASSUME QueriesInv, Busy, NEW u \in Utxos
    PROVE  /\ u.at \in DOMAIN req.addrs /\ u.out \in Outputs /\ u.confirmations \in Nat
           /\ \E c \in lived :
                 /\ Unspent(c, u.out)
                 /\ LET height == c.height[Maker[u.out]] IN
                    u.confirmations <= IF height = 0 THEN 0 ELSE Len(c.block) - height + 1
<1> PICK q \in DOMAIN notes : \E v \in notes[q] : UtxoFrom(u, q, v) BY UtxoNoted
<1> PICK v \in notes[q] : UtxoFrom(u, q, v) OBVIOUS
<1> USE DEF UtxoFrom
<1>2. q[2] \in DOMAIN req.addrs /\ u.at = q[2] BY DEF QueriesInv, NotesOK, NoteOK
<1>3. Tip \in DOMAIN notes /\ SeenUnspent(v)
  BY DEF QueriesInv, NotesOK, NoteOK
<1>4. notes[Tip] \in Nat
  <2>1. Tip[1] = "tip" BY DEF Tip
  <2> QED BY <1>3, <2>1 DEF QueriesInv, NotesOK, NoteOK
<1>5. PICK c \in lived : /\ Unspent(c, v.out) /\ v.height = c.height[Maker[v.out]]
                         /\ notes[Tip] <= Len(c.block)
  BY <1>3 DEF SeenUnspent
<1>6. c \in Chains /\ Valid(c) /\ Maker[v.out] \in Txs /\ v.out \in Outputs
  BY <1>3, Constants DEF QueriesInv, LivedOK, SeenUnspent
<1>7. v.height # None BY <1>5 DEF Unspent
<1>8. v.height \in Nat /\ v.height <= Len(c.block) /\ Len(c.block) \in Nat
  BY <1>5, <1>6, <1>7, HeightType, HeightBelowTip, BlockType, Constants
<1>9. u.out = v.out /\ u.confirmations = Confirmations(notes[Tip], v.height)
  OBVIOUS
<1>10. u.confirmations \in Nat
  BY <1>4, <1>8, <1>9 DEF Confirmations
<1>11. u.confirmations <= IF v.height = 0 THEN 0 ELSE Len(c.block) - v.height + 1
  BY <1>4, <1>5, <1>8, <1>9 DEF Confirmations
<1> QED BY <1>2, <1>5, <1>6, <1>9, <1>10, <1>11

\* A merged entry is a noted one.
LEMMA MergedSeen ==
    ASSUME QueriesInv, Busy, NEW e \in Merged(notes)
    PROVE  /\ e.tx \in Txs /\ e.height \in 0..MaxHeight
           /\ \E c \in lived : c.height[e.tx] = e.height /\ e.height <= Len(c.block)
<1> DEFINE kept == {p \in DOMAIN notes : p[1] = "history"}
           from(q) == {[tx |-> f.tx, height |-> Clamped(f.height)] : f \in notes[q]}
<1>1. e \in UNION {from(q) : q \in kept} BY DEF Merged
<1>2. PICK q \in kept : e \in from(q) BY <1>1
<1>3. PICK f \in notes[q] : e = [tx |-> f.tx, height |-> Clamped(f.height)] BY <1>2
<1>4. SeenTx(f) BY <1>2, <1>3 DEF QueriesInv, NotesOK, NoteOK
<1>5. PICK c \in lived : c.height[f.tx] # None /\ c.height[f.tx] = Clamped(f.height)
  BY <1>4 DEF SeenTx
<1>6. c \in Chains /\ Valid(c) /\ f.tx \in Txs
  BY <1>4 DEF QueriesInv, LivedOK, SeenTx
<1>7. c.height[f.tx] \in 0..MaxHeight /\ c.height[f.tx] <= Len(c.block)
  BY <1>5, <1>6, HeightType, HeightBelowTip
<1>8. e.tx = f.tx /\ e.height = c.height[f.tx] BY <1>3, <1>5
<1> QED BY <1>6, <1>7, <1>8

\* The anchor of each entry listed has been asked for.
LEMMA AnchorAsked ==
    ASSUME QueriesInv, Busy, ToAsk(req, notes) = {}, req.type = "history",
           NEW e \in Truncated(Merged(notes), req.limit), e.height > 0
    PROVE  <<"anchor", e.height>> \in DOMAIN notes
<1> DEFINE heights == {f.height : f \in Truncated(Merged(notes), req.limit)} \ {0}
<1>1. HistoryQuestions(req, notes) \subseteq DOMAIN notes
  <2>1. QuestionsFor(req, notes) = HistoryQuestions(req, notes) BY DEF QuestionsFor
  <2> QED BY <2>1 DEF ToAsk
<1>2. EachOf("history", req.addrs) \subseteq DOMAIN notes
  BY <1>1 DEF HistoryQuestions
<1>3. Each("anchor", heights) \subseteq DOMAIN notes
  BY <1>1, <1>2 DEF HistoryQuestions
<1>4. e.height \in Nat
  BY MergedSeen, Constants DEF Truncated
<1>5. e.height \in heights BY <1>4
<1> QED BY <1>3, <1>5 DEF Each

LEMMA EntriesSeen ==
    ASSUME QueriesInv, Busy, ToAsk(req, notes) = {}, req.type = "history", NEW e \in Entries
    PROVE  /\ e \in [tx : Txs, height : 0..MaxHeight, block : Nat \cup {None}]
           /\ e.height > 0 => /\ \E c \in lived : /\ c.height[e.tx] = e.height
                                                /\ e.height \in DOMAIN c.block
                              /\ SeenBlock(e.height, e.block)
<1>1. PICK f \in Truncated(Merged(notes), req.limit) :
         e = [tx |-> f.tx, height |-> f.height,
              block |-> IF f.height = 0 THEN None ELSE notes[<<"anchor", f.height>>]]
  BY DEF Entries
<1>2. f \in Merged(notes) BY DEF Truncated
<1>3. f.tx \in Txs /\ f.height \in 0..MaxHeight BY <1>2, MergedSeen
<1>4. e.tx = f.tx /\ e.height = f.height BY <1>1
<1>5. CASE f.height = 0
  <2>1. e = [tx |-> f.tx, height |-> f.height, block |-> None] BY <1>1, <1>5
  <2> QED BY <1>3, <1>4, <1>5, <2>1
<1>6. CASE f.height # 0
  <2> DEFINE q == <<"anchor", f.height>>
  <2>1. f.height > 0 BY <1>3, <1>6, Constants
  <2>2. q \in DOMAIN notes BY <2>1, AnchorAsked
  <2>3. q[1] = "anchor" /\ q[2] = f.height OBVIOUS
  <2>4. SeenBlock(f.height, notes[q])
    BY <2>2, <2>3 DEF QueriesInv, NotesOK, NoteOK
  <2>5. PICK d \in lived : f.height \in DOMAIN d.block /\ d.block[f.height] = notes[q]
    BY <2>4 DEF SeenBlock
  <2>6. notes[q] \in Nat BY <2>5, BlockType DEF QueriesInv, LivedOK
  <2>7. e = [tx |-> f.tx, height |-> f.height, block |-> notes[q]] BY <1>1, <1>6
  <2>8. PICK c \in lived : c.height[f.tx] = f.height /\ f.height <= Len(c.block)
    BY <1>2, MergedSeen
  <2>9. f.height \in DOMAIN c.block
    BY <1>3, <2>1, <2>8, BlockType, Constants DEF QueriesInv, LivedOK
  <2> QED BY <1>3, <1>4, <2>4, <2>6, <2>7, <2>8, <2>9
<1> QED BY <1>5, <1>6

LEMMA FinishStep ==
    ASSUME QueriesInv, Finish
    PROVE  QueriesInv'
<1>1. /\ Busy /\ ToAsk(req, notes) = {}
      /\ UNCHANGED <<chain, drawn, moves, req, notes, lived>>
      /\ answer'.code = "ok"
      /\ req.type = "utxos" => answer'.list = Utxos
      /\ req.type = "history" => answer'.list = Entries
      /\ req.type = "fees" =>
            answer'.list = {<<n, SatPerVb(notes[<<"fee", n>>])>> : n \in Targets}
  BY FinishAnswer
<1>2. ChainOK' /\ LivedOK' BY <1>1 DEF QueriesInv, ChainOK, LivedOK, Valid
<1>3. NotesOK'
  BY <1>1 DEF QueriesInv, NotesOK, NoteOK, SeenUnspent, SeenTx, SeenBlock, Unspent
<1>4. AnswerTypeOK'
  <2>1. req.type = "utxos" =>
           answer'.list \subseteq [at : DOMAIN req.addrs, out : Outputs, confirmations : Nat]
    <3> SUFFICES ASSUME NEW u \in Utxos
                 PROVE  u \in [at : DOMAIN req.addrs, out : Outputs, confirmations : Nat]
      BY <1>1
    <3>1. u.at \in DOMAIN req.addrs /\ u.out \in Outputs /\ u.confirmations \in Nat
      BY <1>1, UtxosSeen
    <3>2. u = [at |-> u.at, out |-> u.out, confirmations |-> u.confirmations]
      BY UtxoNoted DEF UtxoFrom
    <3> QED BY <3>1, <3>2
  <2>2. req.type = "history" =>
           answer'.list \subseteq [tx : Txs, height : 0..MaxHeight, block : Nat \cup {None}]
    BY <1>1, EntriesSeen
  <2>3. req.type = "fees" => answer'.list \subseteq Targets \X (Nat \ {0})
    <3> DEFINE rate(n) == SatPerVb(notes[<<"fee", n>>])
    <3>1. ASSUME req.type = "fees", NEW n \in Targets
          PROVE  rate(n) \in Nat \ {0}
      <4> DEFINE q == <<"fee", n>>
      <4>1. QuestionsFor(req, notes) = Each("fee", Targets) BY <3>1 DEF QuestionsFor
      <4>2. q \in Each("fee", Targets) BY DEF Each
      <4>3. q \in DOMAIN notes BY <1>1, <4>1, <4>2 DEF ToAsk
      <4>4. q[1] = "fee" OBVIOUS
      <4>5. notes[q] \in Int BY <4>3, <4>4 DEF QueriesInv, NotesOK, NoteOK
      <4> QED BY <4>5 DEF SatPerVb
    <3>2. req.type = "fees" => answer'.list = {<<n, rate(n)>> : n \in Targets}
      BY <1>1
    <3> HIDE DEF rate
    <3> QED BY <3>1, <3>2
  <2> QED BY <1>1, <2>1, <2>2, <2>3 DEF AnswerTypeOK, Answered, Codes
<1>5. AnchorsHold'
  <2> SUFFICES ASSUME req.type = "history", ~Reorganised, NEW e \in Entries, e.height > 0
               PROVE  \E c \in lived : /\ c.height[e.tx] = e.height
                                       /\ e.height \in DOMAIN c.block
                                       /\ c.block[e.height] = e.block
    BY <1>1 DEF AnchorsHold, Answered, Reorganised
  <2>1. PICK c \in lived : c.height[e.tx] = e.height /\ e.height \in DOMAIN c.block
    BY <1>1, EntriesSeen
  <2>2. PICK d \in lived : e.height \in DOMAIN d.block /\ d.block[e.height] = e.block
    BY <1>1, EntriesSeen DEF SeenBlock
  <2>3. c.block[e.height] = d.block[e.height]
    BY <2>1, <2>2 DEF Reorganised
  <2> QED BY <2>1, <2>2, <2>3
<1> QED BY <1>2, <1>3, <1>4, <1>5 DEF QueriesInv, AnswerOK
-----------------------------------------------------------------------------
(* Sums over finite sets *)

\* Induction over the subsets of a finite set, on the sets in Good.
LEMMA SubsetInduction ==
    ASSUME NEW S, IsFiniteSet(S), NEW Good \in SUBSET (SUBSET S),
           \A T \in SUBSET S : (\A U \in SUBSET T : U # T => U \in Good) => T \in Good
    PROVE  \A T \in SUBSET S : T \in Good
<1> SUFFICES ASSUME (SUBSET S) \ Good # {} PROVE FALSE OBVIOUS
<1>1. IsWellFoundedOn(StrictSubsetOrdering(S), SUBSET S)
  <2>1. IsWellFoundedOn(StrictSubsetOrdering(S), FiniteSubsetsOf(S))
    BY FS_StrictSubsetOrderingWellFounded
  <2>2. FiniteSubsetsOf(S) = SUBSET S BY FS_FiniteSubsetsOfFinite
  <2> QED BY <2>1, <2>2
<1>2. PICK T \in (SUBSET S) \ Good :
         \A U \in (SUBSET S) \ Good : <<U, T>> \notin StrictSubsetOrdering(S)
  <2> DEFINE bad == (SUBSET S) \ Good
  <2>1. bad \subseteq SUBSET S /\ bad # {} OBVIOUS
  <2> HIDE DEF bad
  <2>2. \E T \in bad : \A U \in bad : <<U, T>> \notin StrictSubsetOrdering(S)
    BY <1>1, <2>1, WFMin
  <2> QED BY <2>2 DEF bad
<1>3. ASSUME NEW U \in SUBSET T, U # T PROVE U \in Good
  BY <1>2, <1>3 DEF StrictSubsetOrdering
<1> QED BY <1>2, <1>3

\* Induction over the naturals, on the numbers in Good.
LEMMA NaturalInduction ==
    ASSUME NEW Good \in SUBSET Nat, 0 \in Good, \A n \in Good : n + 1 \in Good
    PROVE  \A n \in Nat : n \in Good
<1> SUFFICES ASSUME Nat \ Good # {} PROVE FALSE OBVIOUS
<1>1. PICK n \in Nat \ Good : \A m \in Nat \ Good : <<m, n>> \notin OpToRel(<, Nat)
  <2> DEFINE bad == Nat \ Good
  <2>1. bad \subseteq Nat /\ bad # {} OBVIOUS
  <2> HIDE DEF bad
  <2>2. \E n \in bad : \A m \in bad : <<m, n>> \notin OpToRel(<, Nat)
    BY <2>1, WFMin, NatLessThanWellFounded
  <2> QED BY <2>2 DEF bad
<1>2. n # 0 /\ n - 1 \in Nat OBVIOUS
<1>3. n - 1 < n BY <1>2
<1>4. n - 1 \in Good BY <1>1, <1>2, <1>3 DEF OpToRel
<1> QED BY <1>4


LEMMA SubsetFinite ==
    ASSUME NEW S, IsFiniteSet(S), NEW T \in SUBSET S
    PROVE  /\ IsFiniteSet(T) /\ Cardinality(T) \in Nat /\ Cardinality(T) <= Cardinality(S)
           /\ Cardinality(T) = 0 <=> T = {}
           /\ \A x \in T : Cardinality(T \ {x}) = Cardinality(T) - 1
BY FS_Subset, FS_CardinalityType, FS_EmptySet, FS_RemoveElement

Picked(s) == CHOOSE x \in s : TRUE

LEMMA PickedIn == \A s : s # {} => Picked(s) \in s
BY DEF Picked

\* g is the fold that SumOver(f, S) is made by.
Adds(g, f, S) ==
    g = [s \in SUBSET S |-> IF s = {} THEN 0 ELSE f[Picked(s)] + g[s \ {Picked(s)}]]

LEMMA AddsExists ==
    ASSUME NEW f, NEW S, IsFiniteSet(S)
    PROVE  \E g : Adds(g, f, S)
<1> DEFINE Upto(n) == {s \in SUBSET S : Cardinality(s) <= n}
           Step(g, s) == IF s = {} THEN 0 ELSE f[Picked(s)] + g[s \ {Picked(s)}]
           Good == {n \in Nat : \E g : g = [s \in Upto(n) |-> Step(g, s)]}
<1>1. 0 \in Good
  <2>1. \A s \in Upto(0) : s = {}
    BY SubsetFinite
  <2> DEFINE g == [s \in Upto(0) |-> 0]
  <2>2. g = [s \in Upto(0) |-> Step(g, s)] BY <2>1
  <2> HIDE DEF Upto, Step, g
  <2> QED BY <2>2
<1>2. ASSUME NEW n \in Good PROVE n + 1 \in Good
  <2>1. PICK g : g = [s \in Upto(n) |-> Step(g, s)] OBVIOUS
  <2> DEFINE h == [s \in Upto(n + 1) |-> Step(g, s)]
  <2>2. ASSUME NEW s \in Upto(n + 1), s # {}
        PROVE  s \ {Picked(s)} \in Upto(n) /\ s \ {Picked(s)} \in Upto(n + 1)
    BY <2>2, SubsetFinite, PickedIn
  <2>3. ASSUME NEW s \in Upto(n) PROVE g[s] = h[s]
    <3>1. s \in Upto(n + 1) BY SubsetFinite
    <3> HIDE DEF Upto, Step
    <3> QED BY <2>1, <3>1
  <2>4. \A s \in Upto(n + 1) : Step(g, s) = Step(h, s)
    <3> HIDE DEF Upto, h
    <3> QED BY <2>2, <2>3
  <2>5. h = [s \in Upto(n + 1) |-> Step(h, s)]
    <3> HIDE DEF Upto, Step
    <3> QED BY <2>4
  <2> HIDE DEF Upto, Step, h
  <2> QED BY <2>5
<1>3. Cardinality(S) \in Good
  <2>1. Cardinality(S) \in Nat BY FS_CardinalityType
  <2> HIDE DEF Good
  <2>2. Good \subseteq Nat BY DEF Good
  <2> QED BY <1>1, <1>2, <2>1, <2>2, NaturalInduction
<1>4. Upto(Cardinality(S)) = SUBSET S BY SubsetFinite
<1>5. PICK g : g = [s \in Upto(Cardinality(S)) |-> Step(g, s)]
  BY <1>3
<1>6. g = [s \in SUBSET S |-> Step(g, s)]
  <2> HIDE DEF Upto, Step
  <2> QED BY <1>4, <1>5
<1> QED BY <1>6 DEF Adds

LEMMA SumIsAdded ==
    ASSUME NEW f, NEW S, IsFiniteSet(S)
    PROVE  \E g : Adds(g, f, S) /\ SumOver(f, S) = g[S]
<1> DEFINE g0 == CHOOSE g : Adds(g, f, S)
<1>1. Adds(g0, f, S) BY AddsExists
<1>2. SumOver(f, S) = g0[S] BY DEF SumOver, MapThenSumSet, MapThenFoldSet, Adds, Picked
<1> QED BY <1>1, <1>2

\* Folds over two sets agree on what is common.
LEMMA AddsAgree ==
    ASSUME NEW f, NEW S, IsFiniteSet(S), NEW T \in SUBSET S,
           NEW g, Adds(g, f, S), NEW h, Adds(h, f, T)
    PROVE  g[T] = h[T]
<1> DEFINE Good == {U \in SUBSET T : g[U] = h[U]}
<1>1. ASSUME NEW U \in SUBSET T, \A V \in SUBSET U : V # U => V \in Good
      PROVE  U \in Good
  <2>1. U # {} => U \ {Picked(U)} \in Good BY <1>1, PickedIn
  <2> QED BY <2>1 DEF Adds
<1>2. IsFiniteSet(T) BY FS_Subset
<1> HIDE DEF Good
<1>3. Good \in SUBSET (SUBSET T) BY DEF Good
<1>4. T \in Good BY <1>1, <1>2, <1>3, SubsetInduction
<1> QED BY <1>4 DEF Good

\* A fold adds integers, whichever element is taken out first.
LEMMA AddsAny ==
    ASSUME NEW f, NEW S, IsFiniteSet(S), \A x \in S : f[x] \in Int,
           NEW g, Adds(g, f, S)
    PROVE  \A T \in SUBSET S : g[T] \in Int /\ \A x \in T : g[T] = f[x] + g[T \ {x}]
<1> DEFINE Good == {T \in SUBSET S : g[T] \in Int /\ \A x \in T : g[T] = f[x] + g[T \ {x}]}
<1>1. ASSUME NEW T \in SUBSET S, \A U \in SUBSET T : U # T => U \in Good
      PROVE  T \in Good
  <2>1. CASE T = {} BY <2>1 DEF Adds
  <2>2. CASE T # {}
    <3> DEFINE p == Picked(T)
    <3>1. p \in T /\ p \in S BY <2>2, PickedIn
    <3>2. T \ {p} \in Good BY <1>1, <3>1
    <3>3. g[T] = f[p] + g[T \ {p}] BY <2>2 DEF Adds
    <3> HIDE DEF p
    <3>4. g[T] \in Int BY <3>1, <3>2, <3>3
    <3>5. ASSUME NEW x \in T, x # p PROVE g[T] = f[x] + g[T \ {x}]
      <4>1. x \in T \ {p} /\ p \in T \ {x} /\ (T \ {x}) \ {p} = (T \ {p}) \ {x}
        BY <3>1, <3>5
      <4>2. T \ {x} \in Good /\ (T \ {p}) \ {x} \in Good BY <1>1, <3>1, <3>5
      <4>3. g[T \ {p}] = f[x] + g[(T \ {p}) \ {x}] BY <3>2, <4>1
      <4>4. g[T \ {x}] = f[p] + g[(T \ {p}) \ {x}] BY <4>1, <4>2
      <4>5. g[(T \ {p}) \ {x}] \in Int BY <4>2
      <4>6. f[x] \in Int /\ f[p] \in Int BY <3>1
      <4> QED BY <3>3, <4>3, <4>4, <4>5, <4>6
    <3> QED BY <3>3, <3>4, <3>5
  <2> QED BY <2>1, <2>2
<1> HIDE DEF Good
<1>2. Good \in SUBSET (SUBSET S) BY DEF Good
<1>3. \A T \in SUBSET S : T \in Good BY <1>1, <1>2, SubsetInduction
<1> QED BY <1>3 DEF Good

LEMMA SumEmpty == \A f : SumOver(f, {}) = 0
<1> TAKE f
<1>1. PICK g : Adds(g, f, {}) /\ SumOver(f, {}) = g[{}] BY SumIsAdded, FS_EmptySet
<1> QED BY <1>1 DEF Adds

LEMMA SumAdd ==
    ASSUME NEW f, NEW S, IsFiniteSet(S), \A x \in S : f[x] \in Int
    PROVE  SumOver(f, S) \in Int /\ \A x \in S : SumOver(f, S) = f[x] + SumOver(f, S \ {x})
<1>1. PICK g : Adds(g, f, S) /\ SumOver(f, S) = g[S] BY SumIsAdded
<1>2. g[S] \in Int /\ \A x \in S : g[S] = f[x] + g[S \ {x}] BY <1>1, AddsAny
<1>3. ASSUME NEW x \in S PROVE SumOver(f, S \ {x}) = g[S \ {x}]
  <2>1. IsFiniteSet(S \ {x}) BY FS_RemoveElement
  <2>2. PICK h : Adds(h, f, S \ {x}) /\ SumOver(f, S \ {x}) = h[S \ {x}] BY <2>1, SumIsAdded
  <2>3. g[S \ {x}] = h[S \ {x}] BY <1>1, <2>2, AddsAgree
  <2> QED BY <2>2, <2>3
<1> QED BY <1>1, <1>2, <1>3

\* Functions that agree on S have one sum over it.
LEMMA SumPointwise ==
    ASSUME NEW S, IsFiniteSet(S), NEW f, NEW g, NEW h,
           \A x \in S : f[x] \in Int /\ g[x] \in Int /\ h[x] = f[x] + g[x]
    PROVE  SumOver(h, S) = SumOver(f, S) + SumOver(g, S)
<1> DEFINE Good == {T \in SUBSET S : SumOver(h, T) = SumOver(f, T) + SumOver(g, T)}
<1>1. ASSUME NEW T \in SUBSET S, \A U \in SUBSET T : U # T => U \in Good
      PROVE  T \in Good
  <2>1. CASE T = {} BY <2>1, SumEmpty
  <2>2. CASE T # {}
    <3> PICK x \in T : TRUE BY <2>2
    <3>1. T \ {x} \in Good BY <1>1
    <3>2. IsFiniteSet(T) /\ IsFiniteSet(T \ {x}) BY FS_Subset
    <3>3. \A y \in T : f[y] \in Int /\ g[y] \in Int /\ h[y] \in Int OBVIOUS
    <3>4. SumOver(f, T) = f[x] + SumOver(f, T \ {x}) /\ SumOver(f, T \ {x}) \in Int BY <3>2, <3>3, SumAdd
    <3>5. SumOver(g, T) = g[x] + SumOver(g, T \ {x}) /\ SumOver(g, T \ {x}) \in Int BY <3>2, <3>3, SumAdd
    <3>6. SumOver(h, T) = h[x] + SumOver(h, T \ {x}) BY <3>2, <3>3, SumAdd
    <3>7. h[x] = f[x] + g[x] OBVIOUS
    <3> QED BY <3>1, <3>3, <3>4, <3>5, <3>6, <3>7
  <2> QED BY <2>1, <2>2
<1>2. S \in Good
  <2> HIDE DEF Good
  <2>1. Good \in SUBSET (SUBSET S) BY DEF Good
  <2>2. \A T \in SUBSET S : T \in Good BY <1>1, <2>1, SubsetInduction
  <2> QED BY <2>2
<1> QED BY <1>2

\* The sum over two sets apart.
LEMMA SumUnion ==
    ASSUME NEW f, NEW S, IsFiniteSet(S), NEW R, IsFiniteSet(R), R \cap S = {},
           \A x \in R \cup S : f[x] \in Int
    PROVE  SumOver(f, R \cup S) = SumOver(f, R) + SumOver(f, S)
<1> DEFINE Good == {T \in SUBSET S : SumOver(f, R \cup T) = SumOver(f, R) + SumOver(f, T)}
<1>0. SumOver(f, R) \in Int BY SumAdd
<1>1. ASSUME NEW T \in SUBSET S, \A U \in SUBSET T : U # T => U \in Good
      PROVE  T \in Good
  <2>1. CASE T = {} BY <1>0, <2>1, SumEmpty
  <2>2. CASE T # {}
    <3> PICK x \in T : TRUE BY <2>2
    <3>1. T \ {x} \in Good BY <1>1
    <3>2. IsFiniteSet(T) /\ IsFiniteSet(T \ {x}) BY FS_Subset
    <3>3. IsFiniteSet(R \cup T) BY <3>2, FS_Union
    <3>4. (R \cup T) \ {x} = R \cup (T \ {x}) OBVIOUS
    <3>5. SumOver(f, T) = f[x] + SumOver(f, T \ {x}) /\ SumOver(f, T \ {x}) \in Int BY <3>2, SumAdd
    <3>6. SumOver(f, R \cup T) = f[x] + SumOver(f, R \cup (T \ {x})) BY <3>3, <3>4, SumAdd
    <3>7. f[x] \in Int OBVIOUS
    <3> QED BY <1>0, <3>1, <3>5, <3>6, <3>7
  <2> QED BY <2>1, <2>2
<1>2. S \in Good
  <2> HIDE DEF Good
  <2>1. Good \in SUBSET (SUBSET S) BY DEF Good
  <2>2. \A T \in SUBSET S : T \in Good BY <1>1, <2>1, SubsetInduction
  <2> QED BY <2>2
<1> QED BY <1>2

\* Disjoint finite parts: part[q] for each q in Q, whose sums are total[q].
InParts(f, Q, part, total) ==
    /\ IsFiniteSet(Q)
    /\ \A q \in Q : IsFiniteSet(part[q]) /\ total[q] = SumOver(f, part[q])
    /\ \A q \in Q : \A x \in part[q] : f[x] \in Int
    /\ \A q, p \in Q : q # p => part[q] \cap part[p] = {}

LEMMA SumParts ==
    ASSUME NEW f, NEW Q, NEW part, NEW total, InParts(f, Q, part, total)
    PROVE  SumOver(f, UNION {part[q] : q \in Q}) = SumOver(total, Q)
<1> USE DEF InParts
<1> DEFINE All(P) == UNION {part[q] : q \in P}
           Good == {P \in SUBSET Q : IsFiniteSet(All(P)) /\ SumOver(f, All(P)) = SumOver(total, P)}
<1>1. ASSUME NEW P \in SUBSET Q, \A U \in SUBSET P : U # P => U \in Good
      PROVE  P \in Good
  <2>1. CASE P = {}
    <3>1. All(P) = {} BY <2>1
    <3> QED BY <2>1, <3>1, SumEmpty, FS_EmptySet
  <2>2. CASE P # {}
    <3> PICK q \in P : TRUE BY <2>2
    <3> DEFINE rest == All(P \ {q})
    <3>1. IsFiniteSet(rest) /\ SumOver(f, rest) = SumOver(total, P \ {q})
      <4>1. P \ {q} \in Good BY <1>1
      <4> QED BY <4>1
    <3>2. All(P) = rest \cup part[q] /\ rest \cap part[q] = {} OBVIOUS
    <3>3. \A x \in rest \cup part[q] : f[x] \in Int OBVIOUS
    <3>4. IsFiniteSet(P) BY FS_Subset
    <3>5. \A p \in P : total[p] \in Int
      <4> SUFFICES ASSUME NEW p \in P PROVE SumOver(f, part[p]) \in Int OBVIOUS
      <4> QED BY SumAdd
    <3>6. SumOver(total, P) = total[q] + SumOver(total, P \ {q}) /\ total[q] \in Int
      BY <3>4, <3>5, SumAdd
    <3>7. IsFiniteSet(part[q]) /\ total[q] = SumOver(f, part[q]) OBVIOUS
    <3> HIDE DEF rest
    <3>8. SumOver(f, rest \cup part[q]) = SumOver(f, rest) + SumOver(f, part[q])
      BY <3>1, <3>2, <3>3, <3>7, SumUnion
    <3>9. IsFiniteSet(rest \cup part[q]) BY <3>1, <3>7, FS_Union
    <3>10. SumOver(f, rest) \in Int BY <3>1, <3>3, SumAdd
    <3> HIDE DEF All
    <3>11. SumOver(f, All(P)) = SumOver(total, P)
      BY <3>1, <3>2, <3>6, <3>7, <3>8, <3>10
    <3>12. IsFiniteSet(All(P)) BY <3>2, <3>9
    <3> QED BY <3>11, <3>12
  <2> QED BY <2>1, <2>2
<1>2. Q \in Good
  <2> HIDE DEF Good
  <2>1. Good \in SUBSET (SUBSET Q) BY DEF Good
  <2> QED BY <1>1, <2>1, SubsetInduction
<1> QED BY <1>2
-----------------------------------------------------------------------------
(* The first entries of a history *)

\* A set of numbers below a bound has a greatest one.
LEMMA Greatest ==
    ASSUME NEW n \in Nat, NEW S \in SUBSET (0..n), S # {}
    PROVE  \E x \in S : \A y \in S : y <= x
<1> DEFINE below == {n - x : x \in S}
<1>1. below \subseteq Nat /\ below # {}
  <2>1. \A x \in S : n - x \in Nat OBVIOUS
  <2>2. PICK x \in S : TRUE OBVIOUS
  <2>3. n - x \in below OBVIOUS
  <2> QED BY <2>1, <2>3
<1>2. PICK k \in below : \A m \in below : <<m, k>> \notin OpToRel(<, Nat)
  <2> HIDE DEF below
  <2> QED BY <1>1, WFMin, NatLessThanWellFounded
<1>3. PICK x \in S : k = n - x OBVIOUS
<1>4. ASSUME NEW y \in S PROVE y <= x
  <2>1. n - y \in below /\ k \in Nat /\ n - y \in Nat BY <1>1
  <2>2. ~(n - y < k) BY <1>2, <2>1 DEF OpToRel
  <2> QED BY <1>3, <2>2
<1> QED BY <1>4

\* Entries of one transaction each, in order: those Truncated leaves out come
\* after as many as the limit, none of them lower.
LEMMA TruncatedFills ==
    ASSUME NEW E, IsFiniteSet(E), NEW limit, EffectiveLimit(limit) \in Nat \ {0},
           \A e \in E : e.tx \in Nat /\ e.height \in Nat,
           \A e, f \in E : e.tx = f.tx => e = f,
           NEW m \in E, m \notin Truncated(E, limit)
    PROVE  /\ Cardinality(Truncated(E, limit)) = EffectiveLimit(limit)
           /\ \A e \in Truncated(E, limit) : e.height >= m.height
<1> DEFINE Ahead(e) == {f \in E : Before(f, e)}
           rank == [e \in E |-> Cardinality(Ahead(e))]
           size == Cardinality(E)
           n == EffectiveLimit(limit)
           first == Truncated(E, limit)
<1>1. \A e, f \in E : e # f => Before(e, f) \/ Before(f, e)
  BY DEF Before
<1>2. ASSUME NEW e \in E PROVE IsFiniteSet(Ahead(e)) /\ Cardinality(Ahead(e)) \in Nat
  BY FS_Subset, FS_CardinalityType
<1>3. ASSUME NEW e \in E, NEW f \in E, Before(f, e)
      PROVE  Cardinality(Ahead(f)) < Cardinality(Ahead(e))
  <2>1. Ahead(f) \subseteq Ahead(e)
    <3> SUFFICES ASSUME NEW g \in E, Before(g, f) PROVE Before(g, e) OBVIOUS
    <3> QED BY <1>3 DEF Before
  <2>2. f \in Ahead(e) /\ f \notin Ahead(f) BY <1>3 DEF Before
  <2> HIDE DEF Ahead
  <2>3. Cardinality(Ahead(f)) <= Cardinality(Ahead(e))
        /\ Cardinality(Ahead(f)) # Cardinality(Ahead(e))
    BY <1>2, <2>1, <2>2, FS_Subset
  <2> QED BY <1>2, <2>3
<1>4. size \in Nat BY FS_CardinalityType
<1>5. ASSUME NEW e \in E PROVE Cardinality(Ahead(e)) \in 0..(size - 1)
  <2>1. Ahead(e) \subseteq E \ {e} BY DEF Before
  <2>2. IsFiniteSet(E \ {e}) /\ Cardinality(E \ {e}) = size - 1 BY FS_RemoveElement
  <2>3. Cardinality(Ahead(e)) <= size - 1
    <3> HIDE DEF Ahead
    <3> QED BY <2>1, <2>2, FS_Subset
  <2> HIDE DEF Ahead, size
  <2> QED BY <1>2, <1>4, <2>3
<1> HIDE DEF Ahead
<1>6. rank \in [E -> 0..(size - 1)] BY <1>5
<1>7. \A e, f \in E : rank[e] = rank[f] => e = f
  BY <1>1, <1>2, <1>3
<1>8. rank \in Injection(E, 0..(size - 1)) BY <1>6, <1>7, Fun_IsInj
<1>9. IsFiniteSet(0..(size - 1)) /\ Cardinality(0..(size - 1)) = size
  <2>1. size - 1 \in Int /\ size >= 1 BY <1>4, <1>5
  <2> QED BY <1>4, <2>1, FS_Interval
<1>10. \A k \in 0..(size - 1) : \E e \in E : rank[e] = k
  <2> HIDE DEF rank
  <2>1. rank \in Surjection(E, 0..(size - 1)) BY <1>8, <1>9, FS_Injection
  <2> QED BY <2>1, Fun_SurjectionProperties
<1>11. first = {e \in E : rank[e] < n} BY DEF Truncated, Ahead
<1>12. rank[m] >= n /\ rank[m] <= size - 1 /\ rank[m] \in Nat
  BY <1>2, <1>4, <1>5, <1>11
<1> HIDE DEF rank, first, size
<1>13. Cardinality(first) = n
  <2> DEFINE place == [e \in first |-> rank[e]]
  <2>1. place \in [first -> 0..(n - 1)] BY <1>4, <1>6, <1>11
  <2>2. \A e, f \in first : place[e] = place[f] => e = f BY <1>7, <1>11
  <2>3. ASSUME NEW k \in 0..(n - 1) PROVE \E e \in first : place[e] = k
    <3>1. k \in 0..(size - 1) BY <1>4, <1>12
    <3>2. PICK e \in E : rank[e] = k BY <1>10, <3>1
    <3> QED BY <1>11, <3>2
  <2> HIDE DEF place
  <2>4. ExistsBijection(first, 0..(n - 1))
    <3>1. place \in Bijection(first, 0..(n - 1)) BY <2>1, <2>2, <2>3, Fun_IsBij
    <3> QED BY <3>1, Fun_ExistsBij
  <2>5. IsFiniteSet(first) BY <1>11, FS_Subset
  <2>6. Cardinality(first) = Cardinality(0..(n - 1)) BY <2>4, <2>5, FS_Bijection
  <2>7. Cardinality(0..(n - 1)) = n BY FS_Interval
  <2> QED BY <2>6, <2>7
<1>14. ASSUME NEW e \in first PROVE e.height >= m.height
  <2>1. e \in E /\ rank[e] < n /\ rank[e] \in Nat BY <1>4, <1>6, <1>11
  <2>2. ~Before(m, e)
    <3>1. Before(m, e) => rank[m] < rank[e] BY <1>3, <2>1 DEF rank
    <3> QED BY <1>12, <2>1, <3>1
  <2> QED BY <2>1, <2>2 DEF Before
<1> QED BY <1>13, <1>14 DEF first
-----------------------------------------------------------------------------
(* Where the notes come from *)

\* A note is all that one chain lived through had to say to its question.
SourceOK(q) ==
    /\ q[1] = "tip" => \E c \in lived : notes[q] = Len(c.block)
    /\ q[1] = "balance" => \E c \in lived : notes[q] = BalanceOf(c, req.addrs[q[2]])
    /\ q[1] = "unspents" => \E c \in lived : notes[q] = UnspentsOf(c, req.addrs[q[2]])
    /\ q[1] = "history" => \E c \in lived : notes[q] = HistoryOf(c, req.addrs[q[2]])

AskedOK ==
    /\ IsFiniteSet(DOMAIN notes)
    /\ Busy /\ req.type = "balance" => DOMAIN notes \subseteq EachOf("balance", req.addrs)

SourcesOK == AskedOK /\ \A q \in DOMAIN notes : SourceOK(q)

SourceInv == SourcesOK /\ NothingInvented /\ NothingOverlooked /\ ExactAtRest

LEMMA NothingSaid ==
    (answer' = None \/ answer'.code # "ok") =>
        (NothingInvented /\ NothingOverlooked /\ ExactAtRest)'
BY DEF NothingInvented, NothingOverlooked, ExactAtRest, Answered

LEMMA SourceFrame ==
    ASSUME NEW q \in DOMAIN notes, SourceOK(q), notes'[q] = notes[q],
           lived \subseteq lived', req' = req
    PROVE  SourceOK(q)'
BY DEF SourceOK

LEMMA LearnSource ==
    ASSUME QueriesInv, SourceInv, NEW q, NEW reply, Learn(q, reply), lived \subseteq lived',
           SourceOK(q)'
    PROVE  SourceInv'
<1>1. /\ Busy /\ q \in ToAsk(req, notes)
      /\ notes' = [p \in DOMAIN notes \cup {q} |-> IF p = q THEN reply ELSE notes[p]]
      /\ q \notin DOMAIN notes
      /\ UNCHANGED <<req, answer>>
  BY DEF Learn, ToAsk
<1>2. /\ DOMAIN notes' = DOMAIN notes \cup {q}
      /\ \A p \in DOMAIN notes : notes'[p] = notes[p]
  BY <1>1
<1>3. \A p \in DOMAIN notes : SourceOK(p)'
  BY <1>1, <1>2, SourceFrame DEF SourceInv, SourcesOK
<1>4. IsFiniteSet(DOMAIN notes')
  BY <1>2, FS_AddElement DEF SourceInv, SourcesOK, AskedOK
<1>5. req.type = "balance" => q \in EachOf("balance", req.addrs)
  BY <1>1 DEF ToAsk, QuestionsFor
<1>7. AskedOK'
  BY <1>1, <1>2, <1>4, <1>5 DEF SourceInv, SourcesOK, AskedOK, Busy
<1>8. SourcesOK' BY <1>2, <1>3, <1>7 DEF SourcesOK
<1>9. answer' = None BY <1>1 DEF Busy
<1> QED BY <1>8, <1>9, NothingSaid DEF SourceInv

\* A question that the chain answers as it is.
LEMMA ReadSource ==
    ASSUME QueriesInv, SourceInv, NEW q, NEW reply, Read(q, reply),
           q[1] = "tip" => reply = Len(chain.block),
           q[1] = "balance" => reply = BalanceOf(chain, req.addrs[q[2]]),
           q[1] = "unspents" => reply = UnspentsOf(chain, req.addrs[q[2]]),
           q[1] = "history" => reply = HistoryOf(chain, req.addrs[q[2]])
    PROVE  SourceInv'
<1>1. notes'[q] = reply /\ lived' = lived /\ Busy BY NoteOf
<1>2. chain \in lived BY <1>1, InHand
<1>4. Learn(q, reply) /\ req' = req BY DEF Read, Learn
<1>3. SourceOK(q)' BY <1>1, <1>2, <1>4 DEF SourceOK
<1> QED BY <1>1, <1>3, <1>4, LearnSource

LEMMA QuestionSource ==
    ASSUME QueriesInv, SourceInv, Question
    PROVE  SourceInv'
<1>1. CASE ReadTip
  <2>1. Tip[1] = "tip" BY DEF Tip
  <2> QED BY <1>1, <2>1, ReadSource DEF ReadTip
<1>2. ASSUME NEW i \in DOMAIN req.addrs, ReadBalance(i) PROVE SourceInv'
  <2> DEFINE q == <<"balance", i>>
  <2>1. q[1] = "balance" /\ q[2] = i OBVIOUS
  <2>2. Read(q, BalanceOf(chain, req.addrs[i])) BY <1>2 DEF ReadBalance
  <2> HIDE DEF q
  <2> QED BY <2>1, <2>2, ReadSource
<1>3. ASSUME NEW i \in DOMAIN req.addrs, ReadUnspents(i) PROVE SourceInv'
  <2> DEFINE q == <<"unspents", i>>
  <2>1. q[1] = "unspents" /\ q[2] = i OBVIOUS
  <2>2. Read(q, UnspentsOf(chain, req.addrs[i])) BY <1>3 DEF ReadUnspents
  <2> HIDE DEF q
  <2> QED BY <2>1, <2>2, ReadSource
<1>4. ASSUME NEW i \in DOMAIN req.addrs, ReadHistory(i) PROVE SourceInv'
  <2> DEFINE q == <<"history", i>>
  <2>1. q[1] = "history" /\ q[2] = i OBVIOUS
  <2>2. Read(q, HistoryOf(chain, req.addrs[i])) BY <1>4 DEF ReadHistory
  <2> HIDE DEF q
  <2> QED BY <2>1, <2>2, ReadSource
<1>5. ASSUME NEW h \in 1..MaxHeight, ReadAnchor(h) PROVE SourceInv'
  BY <1>5, ReadSource DEF ReadAnchor
<1>6. ASSUME NEW i \in DOMAIN req.txs, ReadRawTx(i) PROVE SourceInv'
  BY <1>6, ReadSource DEF ReadRawTx
<1>7. ASSUME NEW n \in Targets, ReadEstimate(n) PROVE SourceInv'
  BY <1>7, ReadSource DEF ReadEstimate
<1>8. ASSUME NEW i \in DOMAIN req.txs, Broadcast(i) PROVE SourceInv'
  <2> DEFINE q == <<"broadcast", i>>
  <2>1. q[1] = "broadcast" OBVIOUS
  <2>2. SourceOK(q)' BY <2>1 DEF SourceOK
  <2>3. Learn(q, req.txs[i]) /\ lived \subseteq lived' BY <1>8 DEF Broadcast, Becomes
  <2> HIDE DEF q
  <2> QED BY <2>2, <2>3, LearnSource
<1> QED BY <1>1, <1>2, <1>3, <1>4, <1>5, <1>6, <1>7, <1>8 DEF Question
-----------------------------------------------------------------------------
(* Nothing is invented *)

LEMMA UtxosOfAddresses ==
    ASSUME QueriesInv, SourceInv, NEW u \in Utxos
    PROVE  Owner[u.out] = req.addrs[u.at]
<1> PICK q \in DOMAIN notes : \E v \in notes[q] : UtxoFrom(u, q, v) BY UtxoNoted
<1> PICK v \in notes[q] : UtxoFrom(u, q, v) OBVIOUS
<1> USE DEF UtxoFrom
<1>1. u.at = q[2] /\ u.out = v.out OBVIOUS
<1>2. PICK c \in lived : notes[q] = UnspentsOf(c, req.addrs[q[2]])
  BY DEF SourceInv, SourcesOK, SourceOK
<1>3. Owner[v.out] = req.addrs[q[2]] BY <1>2 DEF UnspentsOf
<1> QED BY <1>1, <1>3

\* A transaction listed touches an address asked for, and the chain had it at
\* the height listed.
LEMMA EntriesReal ==
    ASSUME QueriesInv, SourceInv, Busy, NEW e \in Entries
    PROVE  /\ \E a \in Named(req.addrs) : Touches(e.tx, a)
           /\ \E c \in lived : c.height[e.tx] = e.height
<1> DEFINE kept == {p \in DOMAIN notes : p[1] = "history"}
           from(q) == {[tx |-> f.tx, height |-> Clamped(f.height)] : f \in notes[q]}
<1>1. PICK m \in Truncated(Merged(notes), req.limit) : e.tx = m.tx /\ e.height = m.height
  <2>1. PICK m \in Truncated(Merged(notes), req.limit) :
           e = [tx |-> m.tx, height |-> m.height,
                block |-> IF m.height = 0 THEN None ELSE notes[<<"anchor", m.height>>]]
    BY DEF Entries
  <2>2. e.tx = m.tx /\ e.height = m.height BY <2>1
  <2> QED BY <2>2
<1>2. m \in Merged(notes) BY DEF Truncated
<1>3. m \in UNION {from(q) : q \in kept} BY <1>2 DEF Merged
<1>4. PICK q \in kept : m \in from(q) BY <1>3
<1>5. PICK f \in notes[q] : m = [tx |-> f.tx, height |-> Clamped(f.height)] BY <1>4
<1>6. req.addrs[q[2]] \in Named(req.addrs)
  BY DEF QueriesInv, NotesOK, NoteOK, Named
<1>7. PICK c \in lived : notes[q] = HistoryOf(c, req.addrs[q[2]])
  BY DEF SourceInv, SourcesOK, SourceOK
<1>8. Touches(f.tx, req.addrs[q[2]]) BY <1>7 DEF HistoryOf
<1>9. m.tx = f.tx BY <1>5
<1>10. \E d \in lived : d.height[m.tx] = m.height BY <1>2, MergedSeen
<1> QED BY <1>1, <1>6, <1>8, <1>9, <1>10

\* A sum over the questions of one kind is a sum over what they ask about.
LEMMA SumEach ==
    ASSUME NEW kind, NEW S, IsFiniteSet(S), NEW f, NEW g,
           \A x \in S : g[x] \in Int /\ f[<<kind, x>>] = g[x]
    PROVE  IsFiniteSet(Each(kind, S)) /\ SumOver(f, Each(kind, S)) = SumOver(g, S)
<1> DEFINE Good == {T \in SUBSET S : /\ IsFiniteSet(Each(kind, T))
                                    /\ SumOver(f, Each(kind, T)) = SumOver(g, T)}
<1>1. ASSUME NEW T \in SUBSET S, \A U \in SUBSET T : U # T => U \in Good
      PROVE  T \in Good
  <2>1. CASE T = {}
    <3>1. Each(kind, T) = {} BY <2>1 DEF Each
    <3> QED BY <2>1, <3>1, SumEmpty, FS_EmptySet
  <2>2. CASE T # {}
    <3> PICK x \in T : TRUE BY <2>2
    <3> DEFINE q == <<kind, x>>
               rest == Each(kind, T \ {x})
    <3>1. IsFiniteSet(rest) /\ SumOver(f, rest) = SumOver(g, T \ {x})
      <4>1. T \ {x} \in Good BY <1>1
      <4> QED BY <4>1
    <3>2. Each(kind, T) = rest \cup {q} /\ q \notin rest BY DEF Each
    <3>3. \A p \in Each(kind, T) : f[p] \in Int BY DEF Each
    <3>4. f[q] = g[x] OBVIOUS
    <3>5. IsFiniteSet(T) /\ \A y \in T : g[y] \in Int BY FS_Subset
    <3> HIDE DEF rest, q
    <3>6. IsFiniteSet(Each(kind, T)) BY <3>1, <3>2, FS_AddElement
    <3>7. q \in Each(kind, T) /\ Each(kind, T) \ {q} = rest BY <3>2
    <3>8. SumOver(f, Each(kind, T)) = f[q] + SumOver(f, rest)
      BY <3>3, <3>6, <3>7, SumAdd
    <3>9. SumOver(g, T) = g[x] + SumOver(g, T \ {x}) BY <3>5, SumAdd
    <3>10. SumOver(f, Each(kind, T)) = SumOver(g, T) BY <3>1, <3>4, <3>8, <3>9
    <3> QED BY <3>6, <3>10
  <2> QED BY <2>1, <2>2
<1>2. S \in Good
  <2> HIDE DEF Good
  <2>1. Good \in SUBSET (SUBSET S) BY DEF Good
  <2> QED BY <1>1, <2>1, SubsetInduction
<1> QED BY <1>2

\* The balances noted are those of the places of the list, of all of them.
LEMMA BalancesAsked ==
    ASSUME SourceInv, Busy, ToAsk(req, notes) = {}, req.type = "balance"
    PROVE  /\ Noted("balance") = EachOf("balance", req.addrs)
           /\ IsFiniteSet(Noted("balance")) /\ IsFiniteSet(DOMAIN req.addrs)
<1>1. Noted("balance") = EachOf("balance", req.addrs)
  <2>1. QuestionsFor(req, notes) = EachOf("balance", req.addrs) BY DEF QuestionsFor
  <2>2. EachOf("balance", req.addrs) \subseteq DOMAIN notes BY <2>1 DEF ToAsk
  <2>3. DOMAIN notes \subseteq EachOf("balance", req.addrs)
    BY DEF SourceInv, SourcesOK, AskedOK
  <2>4. \A q \in EachOf("balance", req.addrs) : q[1] = "balance" BY DEF Each, EachOf
  <2> QED BY <2>2, <2>3, <2>4 DEF Noted
<1>2. IsFiniteSet(Noted("balance"))
  <2>1. IsFiniteSet(DOMAIN notes) /\ Noted("balance") \subseteq DOMAIN notes
    BY DEF SourceInv, SourcesOK, AskedOK, Noted
  <2> QED BY <2>1, FS_Subset
<1>3. IsFiniteSet(DOMAIN req.addrs)
  <2> DEFINE places == DOMAIN req.addrs
             question == [i \in places |-> <<"balance", i>>]
  <2>1. question \in [places -> Noted("balance")] BY <1>1 DEF Each, EachOf
  <2>2. \A i, j \in places : question[i] = question[j] => i = j OBVIOUS
  <2> HIDE DEF question, places
  <2>3. question \in Injection(places, Noted("balance")) BY <2>1, <2>2, Fun_IsInj
  <2>4. IsFiniteSet(places) BY <1>2, <2>3, FS_Injection
  <2> QED BY <2>4 DEF places
<1> QED BY <1>1, <1>2, <1>3

LEMMA BalanceType ==
    ASSUME NEW c, NEW a
    PROVE  BalanceOf(c, a).confirmed \in Int /\ BalanceOf(c, a).unconfirmed \in Int
<1> DEFINE mine == {o \in Outputs : Owner[o] = a}
           sure == {o \in mine : Confirmed(c, Maker[o]) /\ ~Confirmed(c, Spender[o])}
           left == {o \in mine : Unspent(c, o)}
<1>1. ASSUME NEW S \in SUBSET Outputs PROVE Total(S) \in Int
  <2>1. IsFiniteSet(S) /\ \A o \in S : Value[o] \in Int BY FS_Subset, QueriesAssumption
  <2> QED BY <2>1, SumAdd DEF Total
<1>2. /\ BalanceOf(c, a).confirmed = Total(sure)
      /\ BalanceOf(c, a).unconfirmed = Total(left) - Total(sure)
  BY DEF BalanceOf
<1>3. sure \in SUBSET Outputs /\ left \in SUBSET Outputs OBVIOUS
<1> HIDE DEF sure, left
<1>4. Total(sure) \in Int /\ Total(left) \in Int BY <1>1, <1>3
<1> QED BY <1>2, <1>4

\* The balance answered is what the address at each place had in a chain lived through.
LEMMA BalanceReal ==
    ASSUME QueriesInv, SourceInv, Busy, ToAsk(req, notes) = {}, req.type = "balance"
    PROVE  \E seen \in [DOMAIN req.addrs -> lived] :
             Balance = BalanceSeen(req.addrs, seen)
<1> DEFINE Q == Noted("balance")
           places == DOMAIN req.addrs
           seen == [i \in places |->
                      CHOOSE c \in lived : notes[<<"balance", i>>] = BalanceOf(c, req.addrs[i])]
           confirmed == [q \in Q |-> notes[q].confirmed]
           unconfirmed == [q \in Q |-> notes[q].unconfirmed]
           had == [i \in places |-> BalanceOf(seen[i], req.addrs[i])]
           hadSure == [i \in places |-> had[i].confirmed]
           hadMore == [i \in places |-> had[i].unconfirmed]
<1>1. Q = Each("balance", places) /\ IsFiniteSet(places) BY BalancesAsked DEF EachOf
<1>2. ASSUME NEW i \in places
      PROVE  /\ seen[i] \in lived /\ notes[<<"balance", i>>] = BalanceOf(seen[i], req.addrs[i])
             /\ <<"balance", i>> \in Q
  <2> DEFINE q == <<"balance", i>>
  <2>1. q \in Q /\ q[1] = "balance" /\ q[2] = i BY <1>1 DEF Each
  <2>2. q \in DOMAIN notes BY <2>1 DEF Noted
  <2>3. \E c \in lived : notes[q] = BalanceOf(c, req.addrs[i])
    BY <2>1, <2>2 DEF SourceInv, SourcesOK, SourceOK
  <2> QED BY <2>1, <2>3
<1>3. ASSUME NEW i \in places
      PROVE  /\ hadSure[i] \in Int /\ confirmed[<<"balance", i>>] = hadSure[i]
             /\ hadMore[i] \in Int /\ unconfirmed[<<"balance", i>>] = hadMore[i]
  <2> HIDE DEF Q, seen, places
  <2> QED BY <1>2, BalanceType
<1>4. seen \in [places -> lived]
  <2>1. DOMAIN seen = places /\ seen = [i \in places |-> seen[i]] OBVIOUS
  <2> HIDE DEF seen, places
  <2> QED BY <1>2, <2>1
<1>5. Balance = [confirmed |-> SumOver(confirmed, Q), unconfirmed |-> SumOver(unconfirmed, Q)]
  BY DEF Balance, SumOf
<1>6. SumOver(confirmed, Q) = SumOver(hadSure, places)
  <2> HIDE DEF Q, confirmed, unconfirmed, hadSure, hadMore, places
  <2> QED BY <1>1, <1>3, SumEach
<1>7. SumOver(unconfirmed, Q) = SumOver(hadMore, places)
  <2> HIDE DEF Q, confirmed, unconfirmed, hadSure, hadMore, places
  <2> QED BY <1>1, <1>3, SumEach
<1>8. Balance = [confirmed |-> SumOver(hadSure, places), unconfirmed |-> SumOver(hadMore, places)]
  BY <1>5, <1>6, <1>7
<1>9. Balance = BalanceSeen(req.addrs, seen)
  <2> HIDE DEF seen
  <2> QED BY <1>8 DEF BalanceSeen
<1> HIDE DEF seen
<1> QED BY <1>4, <1>9
-----------------------------------------------------------------------------
(* Nothing is overlooked *)

\* An entry of a history note, and where it was seen.
LEMMA NotedEntry ==
    ASSUME QueriesInv, Busy, NEW q \in DOMAIN notes, q[1] = "history", NEW f \in notes[q]
    PROVE  f.tx \in Txs /\ Clamped(f.height) \in 0..MaxHeight
<1>1. SeenTx(f) BY DEF QueriesInv, NotesOK, NoteOK
<1>2. PICK c \in lived : c.height[f.tx] # None /\ c.height[f.tx] = Clamped(f.height)
  BY <1>1 DEF SeenTx
<1> QED BY <1>1, <1>2, HeightType DEF QueriesInv, LivedOK, SeenTx

\* A transaction has one merged entry: none is lower than another.
LEMMA MergedUnique ==
    ASSUME QueriesInv, Busy
    PROVE  /\ \A e, f \in Merged(notes) : e.tx = f.tx => e = f
           /\ IsFiniteSet(Merged(notes))
<1>1. ASSUME NEW e \in Merged(notes), NEW f \in Merged(notes), e.tx = f.tx PROVE e = f
  <2>1. e.height <= f.height /\ f.height <= e.height BY <1>1 DEF Merged
  <2>2. e.height \in 0..MaxHeight /\ f.height \in 0..MaxHeight BY MergedSeen
  <2>3. e = [tx |-> e.tx, height |-> e.height] /\ f = [tx |-> f.tx, height |-> f.height]
    BY DEF Merged
  <2>4. e.height = f.height BY <2>1, <2>2, Constants
  <2> QED BY <1>1, <2>3, <2>4
<1>2. IsFiniteSet(Merged(notes))
  <2> DEFINE id == [e \in Merged(notes) |-> e.tx]
  <2>1. id \in [Merged(notes) -> Txs] BY MergedSeen
  <2>2. \A e, f \in Merged(notes) : id[e] = id[f] => e = f BY <1>1
  <2> HIDE DEF id
  <2>3. id \in Injection(Merged(notes), Txs) BY <2>1, <2>2, Fun_IsInj
  <2> QED BY <2>3, FS_Injection, QueriesAssumption
<1> QED BY <1>1, <1>2

\* What was noted of a transaction is merged, at no lower height.
LEMMA MergedKeeps ==
    ASSUME QueriesInv, Busy, NEW q \in DOMAIN notes, q[1] = "history", NEW f \in notes[q]
    PROVE  \E e \in Merged(notes) : e.tx = f.tx /\ Clamped(f.height) <= e.height
<1> DEFINE kept == {p \in DOMAIN notes : p[1] = "history"}
           seen == UNION {{[tx |-> g.tx, height |-> Clamped(g.height)] : g \in notes[p]} :
                            p \in kept}
           mine == {e \in seen : e.tx = f.tx}
           heights == {e.height : e \in mine}
<1>1. \A e \in seen : e.height \in 0..MaxHeight
  BY NotedEntry
<1>2. Merged(notes) = {e \in seen : \A g \in seen : g.tx = e.tx => g.height <= e.height}
  BY DEF Merged
<1> DEFINE this == [tx |-> f.tx, height |-> Clamped(f.height)]
<1>3. this \in seen /\ this.tx = f.tx /\ this.height = Clamped(f.height) OBVIOUS
<1> HIDE DEF seen, this
<1>4. this.height \in heights /\ heights \in SUBSET (0..MaxHeight) BY <1>1, <1>3
<1>5. PICK h \in heights : \A k \in heights : k <= h
  <2> HIDE DEF heights
  <2> QED BY <1>4, Greatest, Constants
<1>6. PICK e \in mine : h = e.height OBVIOUS
<1>7. e \in Merged(notes) BY <1>2, <1>5, <1>6
<1> QED BY <1>3, <1>4, <1>5, <1>6, <1>7

\* A history says of a transaction where the chain has it.
LEMMA HistorySays ==
    ASSUME NEW c \in Chains, NEW a, NEW tx \in Txs, c.height[tx] # None, Touches(tx, a)
    PROVE  \E f \in HistoryOf(c, a) : f.tx = tx /\ Clamped(f.height) = c.height[tx]
<1> DEFINE f == [tx |-> tx, height |-> IF Pending(c, tx) THEN -1 ELSE c.height[tx]]
<1>1. f \in HistoryOf(c, a) BY DEF HistoryOf
<1>2. c.height[tx] \in Nat BY HeightType, Constants
<1>3. CASE Pending(c, tx)
  <2>1. f.height = -1 /\ c.height[tx] = 0 BY <1>3 DEF Pending
  <2> QED BY <1>1, <2>1 DEF Clamped
<1>4. CASE ~Pending(c, tx)
  <2>1. f.height = c.height[tx] BY <1>4
  <2> QED BY <1>1, <1>2, <2>1 DEF Clamped
<1> QED BY <1>3, <1>4

LEMMA LimitType ==
    ASSUME NEW limit \in Limits
    PROVE  EffectiveLimit(limit) \in Nat \ {0}
BY QueriesAssumption DEF EffectiveLimit

\* Entries are the merged entries kept, one each.
LEMMA EntriesCount ==
    ASSUME QueriesInv, Busy
    PROVE  Cardinality(Entries) = Cardinality(Truncated(Merged(notes), req.limit))
<1> DEFINE first == Truncated(Merged(notes), req.limit)
           Entry(e) == [tx |-> e.tx, height |-> e.height,
                        block |-> IF e.height = 0 THEN None ELSE notes[<<"anchor", e.height>>]]
           entry == [e \in first |-> Entry(e)]
<1>1. first \subseteq Merged(notes) BY DEF Truncated
<1>2. Entries = {Entry(e) : e \in first} BY DEF Entries
<1>3. \A e, f \in first : Entry(e) = Entry(f) => e = f
  <2> SUFFICES ASSUME NEW e \in first, NEW f \in first, Entry(e) = Entry(f) PROVE e = f
    OBVIOUS
  <2>1. Entry(e).tx = e.tx /\ Entry(f).tx = f.tx OBVIOUS
  <2> QED BY <1>1, <2>1, MergedUnique
<1> HIDE DEF first, Entry
<1>4. entry \in Bijection(first, Entries) BY <1>2, <1>3, Fun_IsBij
<1>5. ExistsBijection(first, Entries) BY <1>4, Fun_ExistsBij
<1>6. IsFiniteSet(first) BY <1>1, MergedUnique, FS_Subset
<1> QED BY <1>5, <1>6, FS_Bijection DEF first

LEMMA HistoryOverlooks ==
    ASSUME QueriesInv, SourceInv, Busy, ToAsk(req, notes) = {}, req.type = "history",
           NEW a \in Named(req.addrs), NEW tx \in Txs, Touches(tx, a),
           \A c \in lived : c.height[tx] # None
    PROVE  \/ \E e \in Entries : e.tx = tx
           \/ /\ Cardinality(Entries) = EffectiveLimit(req.limit)
              /\ \A e \in Entries : \E c \in lived : e.height >= c.height[tx]
<1> PICK i \in DOMAIN req.addrs : a = req.addrs[i] BY DEF Named
<1> DEFINE q == <<"history", i>>
           first == Truncated(Merged(notes), req.limit)
           Entry(e) == [tx |-> e.tx, height |-> e.height,
                        block |-> IF e.height = 0 THEN None ELSE notes[<<"anchor", e.height>>]]
<1>1. q \in DOMAIN notes /\ q[1] = "history" /\ q[2] = i
  <2>1. QuestionsFor(req, notes) = HistoryQuestions(req, notes) BY DEF QuestionsFor
  <2>2. HistoryQuestions(req, notes) \subseteq DOMAIN notes BY <2>1 DEF ToAsk
  <2>3. EachOf("history", req.addrs) \subseteq DOMAIN notes BY <2>2 DEF HistoryQuestions
  <2> QED BY <2>3 DEF Each, EachOf
<1> HIDE DEF q
<1>2. PICK c \in lived : notes[q] = HistoryOf(c, a)
  BY <1>1 DEF SourceInv, SourcesOK, SourceOK
<1>3. c \in Chains /\ c.height[tx] # None BY DEF QueriesInv, LivedOK
<1>4. PICK f \in notes[q] : f.tx = tx /\ Clamped(f.height) = c.height[tx]
  BY <1>2, <1>3, HistorySays
<1>5. PICK m \in Merged(notes) : m.tx = tx /\ c.height[tx] <= m.height
  BY <1>1, <1>4, MergedKeeps
<1>6. CASE m \in first
  <2>1. Entry(m) \in Entries /\ Entry(m).tx = tx BY <1>5, <1>6 DEF Entries
  <2> QED BY <2>1
<1>7. CASE m \notin first
  <2>1. EffectiveLimit(req.limit) \in Nat \ {0}
    BY LimitType, InHand DEF Requests
  <2>2. ASSUME NEW e \in Merged(notes) PROVE e.tx \in Nat /\ e.height \in Nat
    <3> HIDE DEF first, Entry
    <3>1. e.tx \in Txs BY MergedSeen
    <3>2. Txs \subseteq Nat BY QueriesAssumption
    <3>3. e.height \in 0..MaxHeight BY MergedSeen
    <3>4. e.height \in Nat BY <3>3, Constants
    <3> QED BY <3>1, <3>2, <3>4
  <2>3. /\ Cardinality(first) = EffectiveLimit(req.limit)
        /\ \A e \in first : e.height >= m.height
    BY <1>7, <2>1, <2>2, MergedUnique, TruncatedFills
  <2>4. Cardinality(Entries) = EffectiveLimit(req.limit) BY <2>3, EntriesCount
  <2>5. ASSUME NEW e \in Entries PROVE e.height >= c.height[tx]
    <3>1. PICK g \in first : e.height = g.height
      <4>1. PICK g \in first : e = Entry(g) BY DEF Entries
      <4> QED BY <4>1
    <3>2. g \in Merged(notes) BY DEF Truncated
    <3>3. g.height \in Nat /\ m.height \in Nat /\ c.height[tx] \in Nat
      BY <1>3, <2>2, <3>2, HeightType, Constants
    <3> QED BY <1>5, <2>3, <3>1, <3>3
  <2> QED BY <2>4, <2>5
<1> QED BY <1>6, <1>7

\* After a utxos request the tip and the unspents of all its addresses are noted.
LEMMA UtxosAsked ==
    ASSUME ToAsk(req, notes) = {}, req.type = "utxos"
    PROVE  Tip \in DOMAIN notes /\ EachOf("unspents", req.addrs) \subseteq DOMAIN notes
<1>1. QuestionsFor(req, notes) = UtxoQuestions(req, notes) BY DEF QuestionsFor
<1>2. UtxoQuestions(req, notes) \subseteq DOMAIN notes BY <1>1 DEF ToAsk
<1> QED BY <1>2 DEF UtxoQuestions

LEMMA UtxosOverlook ==
    ASSUME QueriesInv, SourceInv, Busy, ToAsk(req, notes) = {}, req.type = "utxos",
           NEW i \in DOMAIN req.addrs, NEW o \in Outputs, Owner[o] = req.addrs[i],
           \A c \in lived : Unspent(c, o)
    PROVE  \E u \in Utxos : u.at = i /\ u.out = o
<1> DEFINE q == <<"unspents", i>>
<1>1. q \in DOMAIN notes /\ q[1] = "unspents" /\ q[2] = i
  BY UtxosAsked DEF Each, EachOf
<1> HIDE DEF q
<1>2. PICK c \in lived : notes[q] = UnspentsOf(c, Owner[o])
  BY <1>1 DEF SourceInv, SourcesOK, SourceOK
<1> DEFINE v == [out |-> o, height |-> c.height[Maker[o]]]
           from(p) == {[at |-> p[2], out |-> w.out,
                        confirmations |-> Confirmations(notes[Tip], w.height)] : w \in notes[p]}
           u == [at |-> q[2], out |-> v.out,
                 confirmations |-> Confirmations(notes[Tip], v.height)]
<1>3. v \in notes[q] /\ v.out = o
  BY <1>2 DEF UnspentsOf
<1>4. q \in Noted("unspents") BY <1>1 DEF Noted
<1> HIDE DEF v
<1>5. u \in from(q) BY <1>3
<1>6. u \in Utxos BY <1>4, <1>5 DEF Utxos
<1> QED BY <1>1, <1>3, <1>6
-----------------------------------------------------------------------------
(* Exact while the chain rests *)

\* What is unspent of the address at the place asked about.
LeftOf(q) == {o \in Outputs : Owner[o] = req.addrs[q[2]] /\ Unspent(chain, o)}

LEMMA OutputsSum ==
    ASSUME NEW S \in SUBSET Outputs
    PROVE  IsFiniteSet(S) /\ Total(S) \in Int
<1>1. IsFiniteSet(S) /\ \A o \in S : Value[o] \in Int BY FS_Subset, QueriesAssumption
<1> QED BY <1>1, SumAdd DEF Total

\* The balance adds what is unspent at each place.
LEMMA BalanceSums ==
    ASSUME QueriesInv, SourceInv, Busy, ToAsk(req, notes) = {}, req.type = "balance",
           lived = {chain}
    PROVE  Balance.confirmed + Balance.unconfirmed
             = SumOver([q \in Noted("balance") |-> Total(LeftOf(q))], Noted("balance"))
<1> DEFINE Q == Noted("balance")
           total == [q \in Q |-> Total(LeftOf(q))]
           confirmed == [q \in Q |-> notes[q].confirmed]
           unconfirmed == [q \in Q |-> notes[q].unconfirmed]
<1>2. IsFiniteSet(Q) BY BalancesAsked
<1>4. ASSUME NEW q \in Q
      PROVE  /\ notes[q].confirmed \in Int /\ notes[q].unconfirmed \in Int
             /\ Total(LeftOf(q)) = notes[q].confirmed + notes[q].unconfirmed
  <2>1. notes[q] = BalanceOf(chain, req.addrs[q[2]])
    BY DEF SourceInv, SourcesOK, SourceOK, Noted
  <2> DEFINE mine == {o \in Outputs : Owner[o] = req.addrs[q[2]]}
             sure == {o \in mine : Confirmed(chain, Maker[o]) /\ ~Confirmed(chain, Spender[o])}
             left == {o \in mine : Unspent(chain, o)}
  <2>2. notes[q].confirmed = Total(sure) /\ notes[q].unconfirmed = Total(left) - Total(sure)
    BY <2>1 DEF BalanceOf
  <2>3. sure \in SUBSET Outputs /\ left \in SUBSET Outputs /\ LeftOf(q) = left BY DEF LeftOf
  <2> HIDE DEF sure, left
  <2>4. Total(sure) \in Int /\ Total(left) \in Int BY <2>3, OutputsSum
  <2> QED BY <2>2, <2>3, <2>4
<1>5. SumOver(total, Q) = SumOver(confirmed, Q) + SumOver(unconfirmed, Q)
  <2>1. \A q \in Q : /\ confirmed[q] \in Int /\ unconfirmed[q] \in Int
                     /\ total[q] = confirmed[q] + unconfirmed[q]
    BY <1>4
  <2> HIDE DEF Q, total, confirmed, unconfirmed
  <2> QED BY <1>2, <2>1, SumPointwise
<1>8. /\ Balance.confirmed = SumOver(confirmed, Q)
      /\ Balance.unconfirmed = SumOver(unconfirmed, Q)
  BY DEF Balance, SumOf
<1> QED BY <1>5, <1>8

\* That is the value of the copies: an address given twice counts twice.
LEMMA BalanceAtRest ==
    ASSUME QueriesInv, SourceInv, Busy, ToAsk(req, notes) = {}, req.type = "balance",
           lived = {chain}
    PROVE  Balance.confirmed + Balance.unconfirmed
             = Worth(Copies(req.addrs))
<1> DEFINE Q == Noted("balance")
           copies == Copies(req.addrs)
           value == [c \in copies |-> Value[c[2]]]
           part == [q \in Q |-> Each(q[2], LeftOf(q))]
           total == [q \in Q |-> Total(LeftOf(q))]
<1>1. Q = EachOf("balance", req.addrs) /\ IsFiniteSet(Q) BY BalancesAsked
<1>2. ASSUME NEW q \in Q
      PROVE  q[2] \in DOMAIN req.addrs /\ q = <<"balance", q[2]>>
  BY <1>1 DEF Each, EachOf
<1>3. ASSUME NEW q \in Q, NEW o \in LeftOf(q)
      PROVE  <<q[2], o>> \in copies /\ value[<<q[2], o>>] = Value[o] /\ Value[o] \in Int
  <2>1. o \in Outputs /\ Owner[o] = req.addrs[q[2]] /\ Unspent(chain, o) BY DEF LeftOf
  <2>2. <<q[2], o>> \in copies BY <1>2, <2>1 DEF Copies
  <2> QED BY <2>1, <2>2, QueriesAssumption
<1>4. ASSUME NEW q \in Q
      PROVE  /\ IsFiniteSet(part[q]) /\ total[q] = SumOver(value, part[q])
             /\ \A x \in part[q] : x \in copies /\ value[x] \in Int /\ x[1] = q[2]
  <2>1. LeftOf(q) \in SUBSET Outputs /\ part[q] = Each(q[2], LeftOf(q)) BY DEF LeftOf
  <2>2. IsFiniteSet(LeftOf(q)) BY <2>1, OutputsSum
  <2>3. \A o \in LeftOf(q) : Value[o] \in Int /\ value[<<q[2], o>>] = Value[o] BY <1>3
  <2>4. /\ IsFiniteSet(Each(q[2], LeftOf(q)))
        /\ SumOver(value, Each(q[2], LeftOf(q))) = SumOver(Value, LeftOf(q))
    <3> DEFINE S == LeftOf(q)
               k == q[2]
    <3>1. IsFiniteSet(S) /\ \A o \in S : Value[o] \in Int /\ value[<<k, o>>] = Value[o]
      BY <2>2, <2>3
    <3> HIDE DEF S, k, value, part, total, copies
    <3>2. IsFiniteSet(Each(k, S)) /\ SumOver(value, Each(k, S)) = SumOver(Value, S)
      BY <3>1, SumEach
    <3> QED BY <3>2 DEF S, k
  <2>6. \A x \in part[q] : x \in copies /\ value[x] \in Int /\ x[1] = q[2]
    BY <1>3, <2>1, <2>3 DEF Each
  <2> QED BY <2>1, <2>4, <2>6 DEF Total
<1>5. \A q, p \in Q : q # p => part[q] \cap part[p] = {}
  <2> SUFFICES ASSUME NEW q \in Q, NEW p \in Q, NEW x \in part[q], x \in part[p]
               PROVE  q = p
    OBVIOUS
  <2>1. x[1] = q[2] /\ x[1] = p[2] BY <1>4
  <2> QED BY <1>2, <2>1
<1>6. UNION {part[q] : q \in Q} = copies
  <2>1. ASSUME NEW x \in copies PROVE \E q \in Q : x \in part[q]
    <3>1. PICK i \in DOMAIN req.addrs, o \in Outputs :
             x = <<i, o>> /\ Owner[o] = req.addrs[i] /\ Unspent(chain, o)
      BY DEF Copies
    <3> DEFINE q == <<"balance", i>>
    <3>2. q \in Q BY <1>1 DEF Each, EachOf
    <3>3. q[2] = i /\ o \in LeftOf(q) BY <3>1 DEF LeftOf
    <3> QED BY <3>1, <3>2, <3>3 DEF Each
  <2>2. \A q \in Q : \A x \in part[q] : x \in copies BY <1>4
  <2> HIDE DEF part, copies, Q, value, total
  <2> QED BY <2>1, <2>2
<1>7. SumOver(value, UNION {part[q] : q \in Q}) = SumOver(total, Q)
  <2> HIDE DEF part, copies, Q, value, total
  <2>1. InParts(value, Q, part, total) BY <1>1, <1>4, <1>5 DEF InParts
  <2> QED BY <2>1, SumParts
<1> QED BY <1>6, <1>7, BalanceSums DEF Worth

\* Of a list without repeats that is what is unspent of its addresses.
LEMMA BalanceOfDistinct ==
    ASSUME QueriesInv, SourceInv, Busy, ToAsk(req, notes) = {}, req.type = "balance",
           lived = {chain}, NoRepeats(req.addrs)
    PROVE  Balance.confirmed + Balance.unconfirmed
             = Total({o \in Outputs : Owner[o] \in Named(req.addrs) /\ Unspent(chain, o)})
<1> DEFINE Q == Noted("balance")
           part == [q \in Q |-> LeftOf(q)]
           total == [q \in Q |-> Total(LeftOf(q))]
<1>1. Q = EachOf("balance", req.addrs) /\ IsFiniteSet(Q) BY BalancesAsked
<1>2. \A q \in Q : q[2] \in DOMAIN req.addrs /\ q = <<"balance", q[2]>>
  BY <1>1 DEF Each, EachOf
<1>3. SumOver(Value, UNION {part[q] : q \in Q}) = SumOver(total, Q)
  <2>1. \A q \in Q : IsFiniteSet(part[q]) /\ total[q] = SumOver(Value, part[q])
    BY OutputsSum DEF Total, LeftOf
  <2>2. \A q \in Q : \A o \in part[q] : Value[o] \in Int BY QueriesAssumption DEF LeftOf
  <2>3. \A q, p \in Q : q # p => part[q] \cap part[p] = {}
    BY <1>2 DEF LeftOf, NoRepeats
  <2>4. InParts(Value, Q, part, total) BY <1>1, <2>1, <2>2, <2>3 DEF InParts
  <2> HIDE DEF Q, part, total
  <2> QED BY <2>4, SumParts
<1>4. UNION {part[q] : q \in Q}
        = {o \in Outputs : Owner[o] \in Named(req.addrs) /\ Unspent(chain, o)}
  <2>1. \A i \in DOMAIN req.addrs : \E q \in Q : q[2] = i
    <3> SUFFICES ASSUME NEW i \in DOMAIN req.addrs PROVE \E q \in Q : q[2] = i OBVIOUS
    <3>1. <<"balance", i>> \in Q BY <1>1 DEF Each, EachOf
    <3> QED BY <3>1
  <2> HIDE DEF Q
  <2> QED BY <1>2, <2>1 DEF LeftOf, Named
<1> HIDE DEF part
<1> QED BY <1>3, <1>4, BalanceSums DEF Total

\* The outputs listed are the copies.
LEMMA UtxosAreCopies ==
    ASSUME QueriesInv, SourceInv, Busy, ToAsk(req, notes) = {}, req.type = "utxos",
           lived = {chain}
    PROVE  {<<u.at, u.out>> : u \in Utxos} = Copies(req.addrs)
<1>1. ASSUME NEW u \in Utxos PROVE <<u.at, u.out>> \in Copies(req.addrs)
  <2>1. u.at \in DOMAIN req.addrs /\ u.out \in Outputs /\ Unspent(chain, u.out)
    BY UtxosSeen
  <2>2. Owner[u.out] = req.addrs[u.at] BY UtxosOfAddresses
  <2> QED BY <2>1, <2>2 DEF Copies
<1>2. ASSUME NEW x \in Copies(req.addrs)
      PROVE  \E u \in Utxos : x = <<u.at, u.out>>
  <2>1. PICK i \in DOMAIN req.addrs, o \in Outputs :
           x = <<i, o>> /\ Owner[o] = req.addrs[i] /\ Unspent(chain, o)
    BY DEF Copies
  <2>2. PICK u \in Utxos : u.at = i /\ u.out = o BY <2>1, UtxosOverlook
  <2> QED BY <2>1, <2>2
<1> QED BY <1>1, <1>2

LEMMA UtxosAtRest ==
    ASSUME QueriesInv, SourceInv, Busy, ToAsk(req, notes) = {}, req.type = "utxos",
           lived = {chain}, NEW u \in Utxos
    PROVE  u.confirmations = Cardinality({h \in DOMAIN chain.block :
               0 < chain.height[Maker[u.out]] /\ chain.height[Maker[u.out]] <= h})
<1> PICK q \in DOMAIN notes : \E v \in notes[q] : UtxoFrom(u, q, v) BY UtxoNoted
<1> PICK v \in notes[q] : UtxoFrom(u, q, v) OBVIOUS
<1> USE DEF UtxoFrom
<1> DEFINE height == chain.height[Maker[v.out]]
           deep == {h \in DOMAIN chain.block : 0 < height /\ height <= h}
           tip == Len(chain.block)
<1>2. SeenUnspent(v)
  BY DEF QueriesInv, NotesOK, NoteOK
<1>3. v.out \in Outputs /\ v.height = height /\ Unspent(chain, v.out)
  BY <1>2 DEF SeenUnspent
<1>4. chain \in Chains /\ Valid(chain) BY InHand
<1>5. height \in Nat /\ height <= tip /\ tip \in Nat /\ DOMAIN chain.block = 1..tip
  <2>1. Maker[v.out] \in Txs /\ height # None BY <1>3, Constants DEF Unspent
  <2> QED BY <1>4, <2>1, HeightType, HeightBelowTip, BlockType, Constants
<1>6. notes[Tip] = tip
  <2>1. Tip[1] = "tip" BY DEF Tip
  <2> QED BY <2>1, UtxosAsked DEF SourceInv, SourcesOK, SourceOK
<1>7. u.out = v.out /\ u.confirmations = Confirmations(tip, height)
  BY <1>3, <1>6
<1> HIDE DEF height, tip
<1>8. CASE height = 0
  <2>1. deep = {} BY <1>8
  <2> QED BY <1>7, <1>8, <2>1, FS_EmptySet DEF Confirmations, height
<1>9. CASE height # 0
  <2>1. deep = height..tip BY <1>5, <1>9
  <2>2. Cardinality(height..tip) = tip - height + 1 BY <1>5, FS_Interval
  <2>3. Confirmations(tip, height) = tip - height + 1 BY <1>5, <1>9 DEF Confirmations
  <2> QED BY <1>7, <2>1, <2>2, <2>3 DEF height
<1> QED BY <1>8, <1>9
-----------------------------------------------------------------------------
(* The steps keep both *)

LEMMA FinishSource ==
    ASSUME QueriesInv, SourceInv, Finish
    PROVE  SourceInv'
<1>1. /\ Busy /\ ToAsk(req, notes) = {}
      /\ UNCHANGED <<chain, req, notes, lived>>
      /\ req.type = "utxos" => answer'.list = Utxos
      /\ req.type = "history" => answer'.list = Entries
      /\ req.type = "balance" => answer'.list = {Balance}
  BY DEF Finish, backendVars
<1>2. SourcesOK'
  BY <1>1 DEF SourceInv, SourcesOK, SourceOK, AskedOK, Busy
<1>3. NothingOverlooked'
  <2>1. ASSUME req.type = "history", NEW tx \in Txs, NEW a \in Named(req.addrs), Touches(tx, a),
               \A c \in lived : c.height[tx] # None
        PROVE  \/ \E e \in Entries : e.tx = tx
               \/ /\ Cardinality(Entries) = EffectiveLimit(req.limit)
                  /\ \A e \in Entries : \E c \in lived : e.height >= c.height[tx]
    BY <1>1, <2>1, HistoryOverlooks
  <2>2. ASSUME req.type = "utxos", NEW i \in DOMAIN req.addrs, NEW o \in Outputs,
               Owner[o] = req.addrs[i], \A c \in lived : Unspent(c, o)
        PROVE  \E u \in Utxos : u.at = i /\ u.out = o
    BY <1>1, <2>2, UtxosOverlook
  <2> QED BY <1>1, <2>1, <2>2 DEF NothingOverlooked, Answered, Unspent
<1>4. ExactAtRest'
  <2> DEFINE copies == Copies(req.addrs)
             outs == {o \in Outputs : Owner[o] \in Named(req.addrs) /\ Unspent(chain, o)}
             deep(u) == Cardinality({h \in DOMAIN chain.block :
                 0 < chain.height[Maker[u.out]] /\ chain.height[Maker[u.out]] <= h})
  <2>1. req.type = "balance" /\ lived = {chain} =>
          Balance.confirmed + Balance.unconfirmed = Worth(copies)
    BY <1>1, BalanceAtRest
  <2>2. req.type = "balance" /\ lived = {chain} /\ NoRepeats(req.addrs) =>
          Balance.confirmed + Balance.unconfirmed = Total(outs)
    BY <1>1, BalanceOfDistinct
  <2>3. req.type = "utxos" /\ lived = {chain} => {<<u.at, u.out>> : u \in Utxos} = copies
    BY <1>1, UtxosAreCopies
  <2>4. req.type = "utxos" /\ lived = {chain} => \A u \in Utxos : u.confirmations = deep(u)
    BY <1>1, UtxosAtRest
  <2>5. (Answered("utxos")' => req.type = "utxos") /\ (Answered("balance")' => req.type = "balance")
    BY <1>1 DEF Answered
  <2>6. copies' = copies /\ outs' = outs
    BY <1>1 DEF Copies, Named, Unspent
  <2> QED BY <1>1, <2>1, <2>2, <2>3, <2>4, <2>5, <2>6 DEF ExactAtRest
<1>5. NothingInvented'
  <2>1. ASSUME req.type = "utxos", NEW u \in Utxos
        PROVE  Owner[u.out] = req.addrs[u.at] /\ \E c \in lived :
                  /\ Unspent(c, u.out)
                  /\ LET height == c.height[Maker[u.out]] IN
                     u.confirmations <= IF height = 0 THEN 0 ELSE Len(c.block) - height + 1
    BY <1>1, UtxosSeen, UtxosOfAddresses
  <2>2. ASSUME req.type = "history", NEW e \in Entries
        PROVE  /\ \E a \in Named(req.addrs) : Touches(e.tx, a)
               /\ \E c \in lived : c.height[e.tx] = e.height
    BY <1>1, EntriesReal
  <2>3. ASSUME req.type = "balance"
        PROVE  \E seen \in [DOMAIN req.addrs -> lived] :
                 Balance = BalanceSeen(req.addrs, seen)
    BY <1>1, <2>3, BalanceReal
  <2>4. (Answered("utxos")' => req.type = "utxos") /\ (Answered("history")' => req.type = "history")
        /\ (Answered("balance")' => req.type = "balance")
    BY <1>1 DEF Answered
  <2> QED BY <1>1, <2>1, <2>2, <2>3, <2>4 DEF NothingInvented, Unspent
<1> QED BY <1>2, <1>3, <1>4, <1>5 DEF SourceInv

LEMMA SourceNext ==
    ASSUME QueriesInv, SourceInv, [Next]_vars
    PROVE  SourceInv'
<1>1. CASE UNCHANGED vars
  <2>1. UNCHANGED <<chain, req, notes, answer, lived>> BY <1>1 DEF vars, backendVars
  <2>2. SourcesOK' BY <2>1 DEF SourceInv, SourcesOK, AskedOK, SourceOK, Busy
  <2>3. NothingInvented' BY <2>1 DEF SourceInv, NothingInvented, Answered, Unspent
  <2>4. NothingOverlooked' BY <2>1 DEF SourceInv, NothingOverlooked, Answered, Unspent
  <2>5. ExactAtRest'
    <3> DEFINE copies == Copies(req.addrs)
               outs == {o \in Outputs : Owner[o] \in Named(req.addrs) /\ Unspent(chain, o)}
    <3>1. copies' = copies /\ outs' = outs BY <2>1 DEF Copies, Unspent
    <3> QED BY <2>1, <3>1 DEF SourceInv, ExactAtRest, Answered
  <2> QED BY <2>2, <2>3, <2>4, <2>5 DEF SourceInv
<1>2. CASE MoveChain
  <2>1. Busy /\ UNCHANGED <<req, notes, answer>> /\ lived \subseteq lived'
    BY <1>2 DEF MoveChain, Becomes
  <2>2. SourcesOK'
    BY <2>1, SourceFrame DEF SourceInv, SourcesOK, AskedOK, Busy
  <2>3. answer' = None BY <2>1 DEF Busy
  <2> QED BY <2>2, <2>3, NothingSaid DEF SourceInv
<1>3. CASE Start
  <2>1. notes' = <<>> /\ (answer' = None \/ answer' \in [code : Refusals(req')])
    BY <1>3 DEF Start
  <2>2. DOMAIN notes' = {} BY <2>1
  <2>3. SourcesOK' BY <2>2, FS_EmptySet DEF SourcesOK, AskedOK
  <2>4. answer' = None \/ answer'.code # "ok" BY <2>1 DEF Refusals
  <2> QED BY <2>3, <2>4, NothingSaid DEF SourceInv
<1>4. CASE QuestionFails
  <2>1. UNCHANGED <<req, notes, lived>> /\ answer'.code # "ok" /\ Busy
    BY <1>4 DEF QuestionFails
  <2>2. SourcesOK'
    BY <2>1 DEF SourceInv, SourcesOK, SourceOK, AskedOK, Busy
  <2> QED BY <2>1, <2>2, NothingSaid DEF SourceInv
<1> QED BY <1>1, <1>2, <1>3, <1>4, QuestionSource, FinishSource DEF Next
-----------------------------------------------------------------------------
(* The theorems *)

LEMMA QueriesInit == Init => QueriesInv
<1> SUFFICES ASSUME Init PROVE QueriesInv OBVIOUS
<1>1. /\ req = None /\ notes = <<>> /\ answer = None /\ lived = {} /\ moves = 0
      /\ Valid(chain)
  BY DEF Init
<1>2. PICK height \in [Txs -> Heights], tip \in 0..MaxHeight :
         chain = [height |-> height, block |-> [h \in 1..tip |-> h]] /\ drawn = tip
  BY DEF Init
<1>3. tip \in Nat BY Constants
<1>4. [h \in 1..tip |-> h] \in Seq(Nat) BY <1>3
<1>5. chain \in Chains BY <1>2, <1>4 DEF Chains
<1>6. ChainOK BY <1>1, <1>2, <1>3, <1>5, Constants DEF ChainOK
<1>7. LivedOK /\ NotesOK BY <1>1 DEF LivedOK, NotesOK
<1>8. AnswerOK
  BY <1>1 DEF AnswerOK, AnswerTypeOK, AnchorsHold, Answered
<1> QED BY <1>6, <1>7, <1>8 DEF QueriesInv

LEMMA QueriesNext ==
    ASSUME QueriesInv, [Next]_vars
    PROVE  QueriesInv'
<1>1. CASE UNCHANGED vars
  BY <1>1
     DEF vars, backendVars, QueriesInv, ChainOK, LivedOK, NotesOK, NoteOK, SeenUnspent,
         SeenTx, SeenBlock, Unspent, Valid, AnswerOK, AnswerTypeOK, AnchorsHold,
         Reorganised, Answered
<1>2. CASE Question
  <2>1. ASSUME NEW i \in DOMAIN req.addrs, ReadBalance(i) PROVE QueriesInv'
    BY <2>1, ReadAnyStep DEF ReadBalance
  <2>2. ASSUME NEW i \in DOMAIN req.txs, ReadRawTx(i) PROVE QueriesInv'
    BY <2>2, ReadAnyStep DEF ReadRawTx
  <2> QED BY <1>2, <2>1, <2>2, ReadTipStep, ReadUnspentsStep, ReadHistoryStep,
             ReadAnchorStep, ReadEstimateStep, BroadcastStep DEF Question
<1> QED BY <1>1, <1>2, MoveChainStep, StartStep, QuestionFailsStep, FinishStep DEF Next

\* What the handlers noted of a moving backend stays good until they answer.
THEOREM QueriesInvariance == Spec => []QueriesInv
<1> QED BY QueriesInit, QueriesNext, PTL DEF Spec

\* Types, the answers' included: no height or number of confirmations is
\* negative, and no fee rate is zero.
THEOREM QueriesTypeCorrect == Spec => []TypeOK
<1>1. QueriesInv => TypeOK
  BY DEF QueriesInv, ChainOK, LivedOK, AnswerOK, AnswerTypeOK, TypeOK
<1> QED BY <1>1, QueriesInvariance, PTL

\* An anchor is the block its transaction is in, unless blocks were reorganised
\* meanwhile.
THEOREM QueriesAnchorsHold == Spec => []AnchorsHold
<1>1. QueriesInv => AnchorsHold BY DEF QueriesInv, AnswerOK
<1> QED BY <1>1, QueriesInvariance, PTL

\* Every note is the whole of what one chain lived through had to say of the
\* address at its place in the list.
THEOREM QueriesSources == Spec => []SourceInv
<1>1. Init => SourceInv
  <2> SUFFICES ASSUME Init PROVE SourceInv OBVIOUS
  <2>1. DOMAIN notes = {} /\ answer = None BY DEF Init
  <2> QED BY <2>1, FS_EmptySet
         DEF SourceInv, SourcesOK, AskedOK, NothingInvented, NothingOverlooked,
             ExactAtRest, Answered
<1>2. QueriesInv /\ SourceInv /\ [Next]_vars => SourceInv' BY SourceNext
<1> QED BY <1>1, <1>2, QueriesInvariance, PTL DEF Spec

\* Every output listed is of the address at its place, was unspent, and as deep
\* as listed, in one chain; every transaction listed stood at its height in one;
\* a balance counts each address as often as the list gives it, each time as one
\* chain had it.
THEOREM QueriesNothingInvented == Spec => []NothingInvented
<1>1. SourceInv => NothingInvented BY DEF SourceInv
<1> QED BY <1>1, QueriesSources, PTL

\* A transaction that was there all the time is listed, unless the limit is
\* used up by others not lower; an output unspent all the time is listed.
THEOREM QueriesNothingOverlooked == Spec => []NothingOverlooked
<1>1. SourceInv => NothingOverlooked BY DEF SourceInv
<1> QED BY <1>1, QueriesSources, PTL

\* While the chain rests, get_utxos lists what is unspent at each place of the
\* list, with as many confirmations as there are blocks from its own up, and
\* get_balance adds just those values; without repeats that is what is unspent.
THEOREM QueriesExactAtRest == Spec => []ExactAtRest
<1>1. SourceInv => ExactAtRest BY DEF SourceInv
<1> QED BY <1>1, QueriesSources, PTL
=============================================================================
