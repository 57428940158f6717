--------------------------- MODULE RupiahProofs ---------------------------
(***************************************************************************)
(* Theorems about Rupiah, for any number of wallets, rows and handlers and *)
(* any life of an access token.                                            *)
(*                                                                         *)
(* The two flows share the transaction table and nothing else, and each of *)
(* them writes rows of its own type only (Only).  So an invariant of each  *)
(* flow survives every step of the other, and what is left to show is one  *)
(* flow at a time.                                                         *)
(***************************************************************************)
EXTENDS Rupiah, LedgerProofs, TLAPS

-----------------------------------------------------------------------------
(***************************************************************************)
(* The access token.  The client's clock of a token is at most Timeout     *)
(* ahead of the clock of Iris (TokenAge), so a token that passes the       *)
(* margin is good for more than Timeout, and what a payout in flight has   *)
(* waited and what is left of its token always add up to more than Timeout *)
(* (Outlives).                                                             *)
(***************************************************************************)
TokenAge == token # NoToken => token.good \in (token.left - Timeout) .. token.left

Outlives == \A c \in Calls : call[c].step = "sending" => call[c].good + call[c].waited > Timeout

TokenInv == TokenTypeOK /\ TokenAge /\ Outlives

TokenStep ==
  \/ \E c \in Calls : Queue(c) \/ UseToken(c) \/ AskToken(c) \/ TokenArrives(c) \/ TokenFails(c) \/ Sent(c)
  \/ ForgetToken
  \/ Tick

Token == [left : 0 .. Life, good : Int]

Call == [step : {"none", "queued", "asking", "sending"}, waited : 0 .. Timeout, good : 0 .. Life]

USE TokenAssumption DEF TokenAssumption

LEMMA NoCallFacts == NoCall \in Call /\ NoCall.step = "none"
  BY DEF NoCall, Call

LEMMA TokenStarts == TokenInit => TokenInv
  BY NoCallFacts DEF TokenInit, TokenInv, TokenTypeOK, TokenAge, Outlives, Call

\* A call that changes alone.
LEMMA OneCall ==
  ASSUME TokenInv, NEW c \in Calls, NEW new \in Call,
         new.step = "sending" => new.good + new.waited > Timeout,
         call' = [call EXCEPT ![c] = new]
  PROVE  call' \in [Calls -> Call] /\ Outlives'
  BY DEF TokenInv, TokenTypeOK, Outlives, Call

LEMMA QueueKeeps ==
  ASSUME TokenInv, NEW c \in Calls, Queue(c) \/ AskToken(c)
  PROVE  TokenInv'
<1> PICK s \in {"queued", "asking"} : call' = [call EXCEPT ![c].step = s]
  BY DEF Queue, AskToken
<1> DEFINE new == [call[c] EXCEPT !.step = s]
<1>1. new \in Call /\ new.step # "sending"
  BY DEF TokenInv, TokenTypeOK, Call
<1>2. call' = [call EXCEPT ![c] = new]
  BY DEF TokenInv, TokenTypeOK
<1> HIDE DEF new
<1>3. call' \in [Calls -> Call] /\ Outlives'
  BY <1>1, <1>2, OneCall
<1> QED
  BY <1>3 DEF TokenInv, TokenTypeOK, TokenAge, Call, Queue, AskToken

LEMMA UseKeeps ==
  ASSUME TokenInv, NEW c \in Calls, UseToken(c)
  PROVE  TokenInv'
<1> DEFINE new == [step |-> "sending", waited |-> 0, good |-> token.good]
<1>1. token \in Token /\ token.left > Margin /\ token.good \in (token.left - Timeout) .. token.left
  BY DEF UseToken, Fresh, Usable, TokenInv, TokenTypeOK, TokenAge, Token
<1>2. new \in Call /\ new.good + new.waited > Timeout
  BY <1>1 DEF Call, Token
<1>3. call' = [call EXCEPT ![c] = new]
  BY DEF UseToken, Send
<1> HIDE DEF new
<1>4. call' \in [Calls -> Call] /\ Outlives'
  BY <1>2, <1>3, OneCall
<1> QED
  BY <1>4 DEF TokenInv, TokenTypeOK, TokenAge, Call, UseToken

LEMMA ArrivesKeeps ==
  ASSUME TokenInv, NEW c \in Calls, TokenArrives(c)
  PROVE  TokenInv'
<1> PICK late \in 0 .. call[c].waited :
       token' = [left |-> Life, good |-> Life - late] /\ Send(c, Life - late)
  BY DEF TokenArrives
<1> DEFINE new == [step |-> "sending", waited |-> 0, good |-> Life - late]
<1>1. late \in 0 .. Timeout
  BY DEF TokenInv, TokenTypeOK
<1>2. new \in Call /\ new.good + new.waited > Timeout
  BY <1>1 DEF Call
<1>3. call' = [call EXCEPT ![c] = new]
  BY DEF Send
<1> HIDE DEF new
<1>4. call' \in [Calls -> Call] /\ Outlives'
  BY <1>2, <1>3, OneCall
<1>5. token' \in Token /\ TokenAge'
  BY <1>1 DEF Token, TokenAge
<1> QED
  BY <1>4, <1>5 DEF TokenInv, TokenTypeOK, Call, Token, TokenArrives

LEMMA ReturnKeeps ==
  ASSUME TokenInv, NEW c \in Calls, TokenFails(c) \/ Sent(c)
  PROVE  TokenInv'
<1>1. call' \in [Calls -> Call] /\ Outlives'
  BY OneCall, NoCallFacts DEF TokenFails, Sent, Return
<1> QED
  BY <1>1 DEF TokenInv, TokenTypeOK, TokenAge, Call, TokenFails, Sent

LEMMA ForgetKeeps ==
  ASSUME TokenInv, ForgetToken
  PROVE  TokenInv'
  BY NoCallFacts DEF TokenInv, TokenTypeOK, TokenAge, Outlives, ForgetToken, Call

LEMMA TickKeeps ==
  ASSUME TokenInv, Tick
  PROVE  TokenInv'
<1>1. ASSUME NEW c \in Calls
      PROVE  /\ call'[c] \in Call
             /\ call'[c].step = "sending" => call'[c].good + call'[c].waited > Timeout
  <2>1. call[c] \in Call /\ (call[c].step = "sending" => call[c].good + call[c].waited > Timeout)
    BY DEF TokenInv, TokenTypeOK, Outlives, Call
  <2>2. CASE InFlight(c)
    <3>1. call[c].waited < Timeout
      BY <2>2 DEF Tick
    <3>2. call'[c] = [call[c] EXCEPT !.waited = @ + 1, !.good = IF @ > 0 THEN @ - 1 ELSE @]
      BY <2>2 DEF Tick
    <3>3. /\ call'[c] = [step |-> call[c].step, waited |-> call[c].waited + 1,
                         good |-> IF call[c].good > 0 THEN call[c].good - 1 ELSE call[c].good]
      BY <2>1, <3>2 DEF Call
    <3>4. CASE call[c].good > 0
      BY <2>1, <3>1, <3>3, <3>4 DEF Call
    <3>5. CASE ~ call[c].good > 0
      BY <2>1, <3>1, <3>3, <3>5 DEF Call
    <3> QED
      BY <3>4, <3>5
  <2>3. CASE ~ InFlight(c)
    BY <2>1, <2>3 DEF Tick
  <2> QED
    BY <2>2, <2>3
<1>2. call' = [c \in Calls |-> call'[c]]
  BY DEF Tick
<1>3. call' \in [Calls -> Call] /\ Outlives'
  BY <1>1, <1>2 DEF Outlives
<1>4. (token' \in Token \/ token' = NoToken) /\ TokenAge'
  <2>1. CASE token = NoToken \/ ~ Usable(token.left - 1)
    BY <2>1 DEF Tick, TokenAge
  <2>2. CASE token # NoToken /\ Usable(token.left - 1)
    <3>1. token \in Token /\ token.left - 1 > Margin /\ token.good \in (token.left - Timeout) .. token.left
      BY <2>2 DEF Usable, TokenInv, TokenTypeOK, TokenAge, Token
    <3>2. token' = [left |-> token.left - 1, good |-> token.good - 1]
      BY <2>2 DEF Tick
    <3> QED
      BY <3>1, <3>2 DEF Token, TokenAge
  <2> QED
    BY <2>1, <2>2
<1> QED
  BY <1>3, <1>4 DEF TokenInv, TokenTypeOK, Call, Token, Tick

\* Whatever a payout, the clock or a crash does to the token and the calls.
LEMMA TokenStepKeeps ==
  ASSUME TokenInv, TokenStep \/ UNCHANGED tokenVars
  PROVE  TokenInv'
<1>1. CASE UNCHANGED tokenVars
  BY <1>1 DEF tokenVars, TokenInv, TokenTypeOK, TokenAge, Outlives
<1> QED
  BY <1>1, QueueKeeps, UseKeeps, ArrivesKeeps, ReturnKeeps, ForgetKeeps, TickKeeps DEF TokenStep

LEMMA TokenInvHolds == TokenInv => TokenHolds
  BY DEF TokenInv, TokenTypeOK, Outlives, TokenHolds, Call

HIDE TokenAssumption DEF TokenAssumption

USE LedgerAssumption

\* A step that inserts and writes rows of one type only.
Only(type) ==
  \A id \in TxIds :
    txn'[id] = txn[id] \/ (IsType(id, type)' /\ (Exists(id) => IsType(id, type)))

-----------------------------------------------------------------------------
(***************************************************************************)
(* Rows.                                                                   *)
(***************************************************************************)
\* The rows with which the two flows begin.
TopUpRow(w, n) == [Entry("topup", Nil, w, IDR, n, "pending") EXCEPT !.orderID = "snap"]

FiatRow(w, n) == [Entry("withdraw_fiat", w, Nil, IDR, n, "pending") EXCEPT !.fee = Fee]

LEMMA NewRows ==
  ASSUME NEW w \in Wallets, NEW n \in Nat
  PROVE  /\ TopUpRow(w, n) \in Row /\ TopUpRow(w, n).type = "topup"
         /\ TopUpRow(w, n).status = "pending"
         /\ TopUpRow(w, n).destination = w /\ TopUpRow(w, n).amount = n
         /\ FiatRow(w, n) \in Row /\ FiatRow(w, n).type = "withdraw_fiat"
         /\ FiatRow(w, n).status = "pending"
  BY DEF TopUpRow, FiatRow, Entry, Row, Types, Statuses, OrderIDs, Wallets, Nil

-----------------------------------------------------------------------------
(***************************************************************************)
(* The invariant of the top-ups.                                           *)
(***************************************************************************)
TopUpTypes ==
  /\ charge \in [TxIds -> {"none", "charging", "refused", "done"}]
  /\ order \in [TxIds -> {"none", "open", "review", "paid", "closed"}]
  /\ gross \in [TxIds -> Nat]
  /\ sent \in [TxIds -> SUBSET Notices]
  /\ unacked \in [TxIds -> SUBSET Notices]
  /\ work \in [Handlers -> Task \cup {Idle}]

\* Midtrans knows of an order only what its request has told it, the whole rupiah
\* of the row's amount included, and says that it was paid only if it was.
OrderFits(id) ==
  /\ charge[id] # "none" => IsType(id, "topup")
  /\ charge[id] \in {"charging", "refused"} => Pending(id)
  /\ order[id] # "none" => charge[id] = "done" /\ gross[id] = Whole(txn[id].amount)
  /\ sent[id] # {} => order[id] # "none"
  /\ sent[id] \cap Credits # {} => order[id] = "paid"

\* The row of a top-up can be settled, and is only if it was paid.
RowFits(id) ==
  IsType(id, "topup") =>
    /\ txn[id].destination \in Wallets /\ txn[id].amount \in Amounts
    /\ txn[id].status = "success" => order[id] = "paid"

\* What a handler works on was sent to it; and with one notification of an order
\* at a time, the row it has found pending is still pending.
WorkFits(h) ==
  work[h] # Idle =>
    /\ work[h].notice \in sent[work[h].id]
    /\ OneAtATime =>
         /\ Pending(work[h].id)
         /\ \A g \in Handlers \ {h} : work[g] # Idle => work[g].id # work[h].id

TopUpInv ==
  /\ TopUpTypes
  /\ \A id \in TxIds : OrderFits(id) /\ RowFits(id)
  /\ \A h \in Handlers : WorkFits(h)

LEMMA TasksAreNotIdle == \A task \in Task : task # Idle
  BY DEF Task, Idle, Credits, Fails

LEMMA TopUpStarts == TopUpInit => TopUpInv
  BY DEF TopUpInit, TopUpInv, TopUpTypes, LedgerInit, OrderFits, RowFits, WorkFits, IsType, Exists

\* A step that changes no row of a top-up and nothing of this flow.
LEMMA TopUpFrame ==
  ASSUME TopUpInv, UNCHANGED TopUpOnly, Only("withdraw_fiat")
  PROVE  TopUpInv'
<1>1. \A id \in TxIds : /\ IsType(id, "topup") => txn'[id] = txn[id]
                        /\ IsType(id, "topup")' => txn'[id] = txn[id]
  BY DEF Only, IsType, Exists
<1>2. \A id \in TxIds : charge[id] # "none" => txn'[id] = txn[id]
  BY <1>1 DEF TopUpInv, OrderFits
<1>3. TopUpTypes'
  BY DEF TopUpInv, TopUpTypes, TopUpOnly
<1>4. ASSUME NEW id \in TxIds PROVE OrderFits(id)' /\ RowFits(id)'
  <2>1. OrderFits(id) /\ RowFits(id)
    BY DEF TopUpInv
  <2> QED
    BY <1>1, <1>2, <2>1 DEF OrderFits, RowFits, IsType, Exists, Pending, TopUpOnly
<1>5. ASSUME NEW h \in Handlers PROVE WorkFits(h)'
  <2>1. CASE work[h] = Idle
    BY <2>1 DEF WorkFits, TopUpOnly
  <2>2. CASE work[h] # Idle
    <3>1. WorkFits(h) /\ work[h] \in Task
      BY <2>2 DEF TopUpInv, TopUpTypes
    <3>2. work[h].id \in TxIds
      BY <3>1 DEF Task
    <3>3. txn'[work[h].id] = txn[work[h].id]
      BY <1>2, <2>2, <3>1, <3>2 DEF TopUpInv, OrderFits, WorkFits
    <3> QED
      BY <2>2, <3>1, <3>3 DEF WorkFits, Pending, Exists, TopUpOnly
  <2> QED
    BY <2>1, <2>2
<1> QED
  BY <1>3, <1>4, <1>5 DEF TopUpInv

-----------------------------------------------------------------------------
(***************************************************************************)
(* The steps of a top-up.                                                  *)
(***************************************************************************)
\* What a step of this flow has to show: to the ledger it is one operation or
\* none, it writes rows of top-ups only, and it keeps the invariant.
TopUpGood == [LedgerNext]_ledgerVars /\ Only("topup") /\ TopUpInv'

\* Requests and Midtrans: steps that read and write no row.
LEMMA SnapKeeps ==
  ASSUME TopUpInv, NEW id \in TxIds, SnapAnswers(id) \/ SnapFails(id)
  PROVE  TopUpGood
<1>1. UNCHANGED ledgerVars /\ UNCHANGED work /\ charge[id] = "charging"
  BY DEF SnapAnswers, SnapFails
<1>2. order[id] = "none" /\ sent[id] = {} /\ Pending(id) /\ IsType(id, "topup")
  BY <1>1 DEF TopUpInv, OrderFits, TopUpTypes
<1>3. TopUpTypes'
  <2>1. Whole(txn[id].amount) \in Nat
    BY <1>2, WholeRupiah, SumsOfRupiah DEF TopUpInv, RowFits
  <2>2. gross' \in [TxIds -> Nat]
    BY <2>1 DEF TopUpInv, TopUpTypes, SnapAnswers, SnapFails
  <2> QED
    BY <1>1, <2>2 DEF TopUpInv, TopUpTypes, SnapAnswers, SnapFails, Notices
<1>4. ASSUME NEW k \in TxIds PROVE OrderFits(k)' /\ RowFits(k)'
  <2>1. OrderFits(k) /\ RowFits(k)
    BY DEF TopUpInv
  <2>2. k # id => /\ charge'[k] = charge[k] /\ order'[k] = order[k]
                  /\ gross'[k] = gross[k] /\ sent'[k] = sent[k]
    BY DEF SnapAnswers, SnapFails, TopUpInv, TopUpTypes
  <2>3. \/ /\ charge'[id] = "done" /\ order'[id] = "open" /\ sent'[id] = {"pending"}
           /\ gross'[id] = Whole(txn[id].amount)
        \/ charge'[id] = "refused" /\ order'[id] = "none" /\ sent'[id] = {}
    BY <1>2 DEF SnapAnswers, SnapFails, TopUpInv, TopUpTypes
  <2>4. {"pending"} \cap Credits = {}
    BY DEF Credits
  <2>5. CASE k = id
    BY <1>1, <1>2, <2>1, <2>3, <2>4, <2>5 DEF OrderFits, RowFits, IsType, Exists, Pending, ledgerVars
  <2>6. CASE k # id
    BY <1>1, <2>1, <2>2, <2>6 DEF OrderFits, RowFits, IsType, Exists, Pending, ledgerVars
  <2> QED
    BY <2>5, <2>6
<1>5. ASSUME NEW h \in Handlers PROVE WorkFits(h)'
  <2>1. WorkFits(h) /\ work[h] \in Task \cup {Idle}
    BY DEF TopUpInv, TopUpTypes
  <2>2. work[h] # Idle => work[h].id \in TxIds /\ sent[work[h].id] # {}
    BY <2>1 DEF WorkFits, Task
  <2>3. work[h] # Idle => sent'[work[h].id] = sent[work[h].id]
    BY <1>2, <2>2 DEF SnapAnswers, SnapFails, TopUpInv, TopUpTypes
  <2> QED
    BY <1>1, <2>1, <2>3 DEF WorkFits, Pending, Exists, ledgerVars
<1> QED
  BY <1>1, <1>3, <1>4, <1>5 DEF TopUpGood, TopUpInv, Only, ledgerVars

\* Midtrans learns what becomes of an order and has more to say of it.
LEMMA AnnounceKeeps ==
  ASSUME TopUpInv, NEW id \in TxIds, PayOrder(id) \/ Hold(id) \/ Close(id)
  PROVE  TopUpGood
<1>1. PICK state \in {"review", "paid", "closed"}, notices \in SUBSET Notices :
        /\ Announce(id, state, notices)
        /\ order[id] \in {"open", "review"}
        /\ notices \cap Credits # {} => state = "paid"
  BY DEF PayOrder, Hold, Close, Notices, Credits, Fails
<1>2. UNCHANGED ledgerVars /\ UNCHANGED <<work, charge, gross>>
  BY <1>1 DEF Announce
<1>3. /\ order' = [order EXCEPT ![id] = state]
      /\ sent' = [sent EXCEPT ![id] = @ \cup notices]
      /\ unacked' = [unacked EXCEPT ![id] = @ \cup notices]
  BY <1>1 DEF Announce
<1>4. TopUpTypes'
  BY <1>2, <1>3 DEF TopUpInv, TopUpTypes
<1>5. ASSUME NEW k \in TxIds PROVE OrderFits(k)' /\ RowFits(k)'
  <2>1. OrderFits(k) /\ RowFits(k)
    BY DEF TopUpInv
  <2>2. k # id => order'[k] = order[k] /\ sent'[k] = sent[k]
    BY <1>3 DEF TopUpInv, TopUpTypes
  <2>3. order'[id] = state /\ sent'[id] = sent[id] \cup notices
    BY <1>3 DEF TopUpInv, TopUpTypes
  <2>4. CASE k = id
    <3>1. /\ charge[id] = "done" /\ order[id] # "paid" /\ sent[id] \cap Credits = {}
          /\ gross[id] = Whole(txn[id].amount)
      BY <1>1, <2>1, <2>4 DEF OrderFits
    <3>2. sent'[id] \cap Credits # {} => order'[id] = "paid"
      BY <1>1, <2>3, <3>1
    <3>3. order'[id] # "none"
      BY <2>3
    <3> QED
      BY <1>2, <2>1, <2>4, <3>1, <3>2, <3>3 DEF OrderFits, RowFits, IsType, Exists, Pending, ledgerVars
  <2>5. CASE k # id
    BY <1>2, <2>1, <2>2, <2>5 DEF OrderFits, RowFits, IsType, Exists, Pending, ledgerVars
  <2> QED
    BY <2>4, <2>5
<1>6. ASSUME NEW h \in Handlers PROVE WorkFits(h)'
  <2>1. WorkFits(h) /\ work[h] \in Task \cup {Idle}
    BY DEF TopUpInv, TopUpTypes
  <2>2. work[h] # Idle => sent[work[h].id] \subseteq sent'[work[h].id]
    BY <1>3, <2>1 DEF TopUpInv, TopUpTypes, Task
  <2> QED
    BY <1>2, <2>1, <2>2 DEF WorkFits, Pending, Exists, ledgerVars
<1> QED
  BY <1>2, <1>4, <1>5, <1>6 DEF TopUpGood, TopUpInv, Only, ledgerVars

\* A handler takes a notification, or answers it at once.
LEMMA ReceiveKeeps ==
  ASSUME TopUpInv, NEW id \in TxIds, NEW h \in Handlers, NEW notice \in Notices, Receive(h, id, notice)
  PROVE  TopUpGood
<1> DEFINE task == [id |-> id, notice |-> notice]
<1>1. UNCHANGED ledgerVars /\ UNCHANGED <<charge, order, gross, sent>> /\ work[h] = Idle
      /\ notice \in sent[id] /\ (OneAtATime => \A g \in Handlers : work[g].id # id)
  BY DEF Receive
<1>2. \/ UNCHANGED work
      \/ Pending(id) /\ notice \in Credits \cup Fails /\ work' = [work EXCEPT ![h] = task]
  BY DEF Receive
<1>3. TopUpTypes'
  <2>1. unacked' \in [TxIds -> SUBSET Notices]
    BY DEF Receive, Ack, TopUpInv, TopUpTypes
  <2>2. notice \in Credits \cup Fails => task \in Task
    BY DEF Task
  <2> QED
    BY <1>1, <1>2, <2>1, <2>2 DEF TopUpInv, TopUpTypes
<1>4. ASSUME NEW k \in TxIds PROVE OrderFits(k)' /\ RowFits(k)'
  BY <1>1 DEF TopUpInv, OrderFits, RowFits, IsType, Exists, Pending, ledgerVars
<1>5. ASSUME NEW g \in Handlers PROVE WorkFits(g)'
  <2>1. WorkFits(g)
    BY DEF TopUpInv
  <2>2. CASE UNCHANGED work
    BY <1>1, <2>1, <2>2 DEF WorkFits, Pending, Exists, ledgerVars
  <2>3. CASE Pending(id) /\ work' = [work EXCEPT ![h] = task]
    <3>1. /\ work'[h] = task /\ task.id = id /\ task.notice = notice
          /\ \A f \in Handlers \ {h} : work'[f] = work[f]
      BY <2>3 DEF TopUpInv, TopUpTypes
    <3> HIDE DEF task
    <3> QED
      BY <1>1, <2>1, <2>3, <3>1 DEF WorkFits, Pending, Exists, ledgerVars
  <2> QED
    BY <1>2, <2>2, <2>3
<1> QED
  BY <1>1, <1>3, <1>4, <1>5 DEF TopUpGood, TopUpInv, Only, ledgerVars

LEMMA RequestKeeps ==
  ASSUME LedgerInv, TopUpInv, NEW id \in TxIds, RequestTopUp(id)
  PROVE  TopUpGood
<1>1. PICK w \in Wallets, n \in Amounts : CreatePendingTopUpTx(id, w, n)
  BY DEF RequestTopUp
<1> DEFINE row == TopUpRow(w, n)
<1>2. Insert(id, row) /\ UNCHANGED balance
  BY <1>1 DEF CreatePendingTopUpTx, TopUpRow
<1>3. /\ row \in Row /\ row.type = "topup" /\ row.status = "pending"
      /\ row.destination \in Wallets /\ row.amount \in Amounts
  BY NewRows, SumsOfRupiah
<1> HIDE DEF row
<1>4. /\ ~ Exists(id) /\ txn'[id] = row /\ row # NoRow
      /\ \A k \in TxIds \ {id} : txn'[k] = txn[k]
  BY <1>2, <1>3, RowInserted DEF LedgerInv
<1>5. /\ charge' = [charge EXCEPT ![id] = "charging"]
      /\ UNCHANGED <<order, gross, sent, unacked, work>>
  BY DEF RequestTopUp
<1>6. charge[id] = "none" /\ order[id] = "none" /\ sent[id] = {}
  BY <1>4 DEF TopUpInv, TopUpTypes, OrderFits, IsType
<1>7. TopUpTypes'
  BY <1>5 DEF TopUpInv, TopUpTypes
<1>8. ASSUME NEW k \in TxIds PROVE OrderFits(k)' /\ RowFits(k)'
  <2>1. OrderFits(k) /\ RowFits(k)
    BY DEF TopUpInv
  <2>2. charge'[id] = "charging" /\ (k # id => charge'[k] = charge[k])
    BY <1>5 DEF TopUpInv, TopUpTypes
  <2> QED
    BY <1>3, <1>4, <1>5, <1>6, <2>1, <2>2 DEF OrderFits, RowFits, IsType, Exists, Pending
<1>9. ASSUME NEW h \in Handlers PROVE WorkFits(h)'
  <2>1. WorkFits(h) /\ work[h] \in Task \cup {Idle}
    BY DEF TopUpInv, TopUpTypes
  <2>2. work[h] # Idle => work[h].id \in TxIds /\ work[h].id # id
    BY <1>6, <2>1 DEF WorkFits, Task
  <2> QED
    BY <1>4, <1>5, <2>1, <2>2 DEF WorkFits, Pending, Exists
<1>10. Only("topup")
  BY <1>3, <1>4 DEF Only, IsType, Exists
<1>11. LedgerNext
  BY <1>1 DEF LedgerNext
<1> QED
  BY <1>7, <1>8, <1>9, <1>10, <1>11 DEF TopUpGood, TopUpInv

\* A step that writes the status of one top-up, allowed by what Midtrans has
\* said of it, while the handler h or the request gives it up.
LEMMA StatusKeeps ==
  ASSUME LedgerInv, TopUpInv, NEW id \in TxIds, IsType(id, "topup"),
         NEW status \in {"success", "failed"}, status = "success" => order[id] = "paid",
         SetStatus(id, status),
         \/ charge' = charge /\ charge[id] \notin {"charging", "refused"}
         \/ charge' = [charge EXCEPT ![id] = "done"],
         UNCHANGED <<order, gross, sent>>, TopUpTypes',
         \A h \in Handlers :
           /\ work'[h] # Idle => work'[h] = work[h]
           /\ OneAtATime /\ work'[h] # Idle => work[h].id # id
  PROVE  Only("topup") /\ TopUpInv'
<1>1. /\ txn'[id] # NoRow /\ txn'[id].status = status
      /\ txn'[id].type = txn[id].type
      /\ txn'[id].destination = txn[id].destination
      /\ txn'[id].amount = txn[id].amount
      /\ \A k \in TxIds \ {id} : txn'[k] = txn[k]
  BY StatusSet DEF LedgerInv, Statuses, IsType
<1>2. ASSUME NEW k \in TxIds PROVE OrderFits(k)' /\ RowFits(k)'
  <2>1. OrderFits(k) /\ RowFits(k)
    BY DEF TopUpInv
  <2>2. charge'[id] \notin {"charging", "refused"} /\ (k # id => charge'[k] = charge[k])
        /\ (order[id] # "none" => charge'[id] = "done")
    BY DEF TopUpInv, TopUpTypes, OrderFits
  <2> QED
    BY <1>1, <2>1, <2>2 DEF OrderFits, RowFits, IsType, Exists, Pending
<1>3. ASSUME NEW h \in Handlers PROVE WorkFits(h)'
  <2>1. CASE work'[h] = Idle
    BY <2>1 DEF WorkFits
  <2>2. CASE work'[h] # Idle
    <3>1. WorkFits(h) /\ work[h] \in Task \cup {Idle} /\ work'[h] = work[h]
      BY <2>2 DEF TopUpInv, TopUpTypes
    <3>2. work[h].id \in TxIds
      BY <2>2, <3>1 DEF Task
    <3> QED
      BY <1>1, <2>2, <3>1, <3>2 DEF WorkFits, Pending, Exists
  <2> QED
    BY <2>1, <2>2
<1>4. Only("topup")
  BY <1>1 DEF Only, IsType, Exists
<1> QED
  BY <1>2, <1>3, <1>4 DEF TopUpInv

\* The request's own write of failed: no notification of the order exists.
LEMMA FailRequestKeeps ==
  ASSUME LedgerInv, TopUpInv, NEW id \in TxIds, FailRequest(id)
  PROVE  TopUpGood
<1>1. /\ charge[id] = "refused" /\ charge' = [charge EXCEPT ![id] = "done"]
      /\ UNCHANGED <<order, gross, sent, unacked, work>>
      /\ UpdateTransactionStatus(id, "failed") \/ UNCHANGED ledgerVars
  BY DEF FailRequest
<1>2. TopUpTypes'
  BY <1>1 DEF TopUpInv, TopUpTypes
<1>3. IsType(id, "topup") /\ order[id] = "none" /\ sent[id] = {}
  BY <1>1 DEF TopUpInv, TopUpTypes, OrderFits
<1>4. \A h \in Handlers : work[h] # Idle => work[h].id # id
  BY <1>3 DEF TopUpInv, WorkFits
<1>5. CASE UpdateTransactionStatus(id, "failed")
  <2>1. SetStatus(id, "failed") /\ LedgerNext
    BY <1>5 DEF UpdateTransactionStatus, LedgerNext, Statuses
  <2> QED
    BY <1>1, <1>2, <1>3, <1>4, <2>1, StatusKeeps DEF TopUpGood
<1>6. CASE UNCHANGED ledgerVars
  <2>1. ASSUME NEW k \in TxIds PROVE OrderFits(k)' /\ RowFits(k)'
    <3>1. OrderFits(k) /\ RowFits(k)
      BY DEF TopUpInv
    <3>2. charge'[id] = "done" /\ (k # id => charge'[k] = charge[k])
      BY <1>1 DEF TopUpInv, TopUpTypes
    <3> QED
      BY <1>1, <1>3, <1>6, <3>1, <3>2 DEF OrderFits, RowFits, IsType, Exists, Pending, ledgerVars
  <2>2. \A h \in Handlers : WorkFits(h)'
    BY <1>1, <1>6 DEF TopUpInv, WorkFits, Pending, Exists, ledgerVars
  <2> QED
    BY <1>2, <1>6, <2>1, <2>2 DEF TopUpGood, TopUpInv, Only, ledgerVars
<1> QED
  BY <1>1, <1>5, <1>6

\* What a handler that has work knows.
LEMMA WorkFacts ==
  ASSUME TopUpInv, NEW h \in Handlers, work[h] # Idle
  PROVE  /\ work[h] \in Task /\ work[h].id \in TxIds
         /\ IsType(work[h].id, "topup") /\ charge[work[h].id] = "done"
         /\ work[h].notice \in Credits => order[work[h].id] = "paid"
         /\ gross[work[h].id] = Whole(txn[work[h].id].amount)
         /\ RowFits(work[h].id)
<1>1. work[h] \in Task /\ WorkFits(h) /\ work[h].id \in TxIds
  BY DEF TopUpInv, TopUpTypes, Task
<1>2. OrderFits(work[h].id) /\ RowFits(work[h].id) /\ work[h].notice \in sent[work[h].id]
  BY <1>1 DEF TopUpInv, WorkFits
<1> QED
  BY <1>1, <1>2 DEF OrderFits

LEMMA FinishFacts ==
  ASSUME TopUpInv, NEW h \in Handlers, work[h] # Idle,
         Finish(h) \/ (work' = [work EXCEPT ![h] = Idle] /\ UNCHANGED <<charge, order, gross, sent, unacked>>)
  PROVE  /\ TopUpTypes' /\ UNCHANGED <<charge, order, gross, sent>>
         /\ work'[h] = Idle /\ \A g \in Handlers \ {h} : work'[g] = work[g]
<1>1. work' = [work EXCEPT ![h] = Idle] /\ UNCHANGED <<charge, order, gross, sent>>
  BY DEF Finish
<1>2. unacked' \in [TxIds -> SUBSET Notices]
  BY DEF Finish, Ack, TopUpInv, TopUpTypes
<1> QED
  BY <1>1, <1>2 DEF TopUpInv, TopUpTypes

LEMMA HandlerKeeps ==
  ASSUME LedgerInv, TopUpInv, NEW h \in Handlers, Settle(h) \/ Fail(h) \/ AnswerError(h)
  PROVE  TopUpGood
<1> DEFINE id == work[h].id
<1>1. work[h] # Idle
  BY DEF Settle, Fail, AnswerError, Idle, Credits, Fails
<1>2. /\ id \in TxIds /\ IsType(id, "topup") /\ charge[id] = "done"
      /\ work[h].notice \in Credits => order[id] = "paid"
      /\ gross[id] = Whole(txn[id].amount)
      /\ RowFits(id)
  BY <1>1, WorkFacts
<1>3. /\ TopUpTypes' /\ UNCHANGED <<charge, order, gross, sent>>
      /\ work'[h] = Idle /\ \A g \in Handlers \ {h} : work'[g] = work[g]
  BY <1>1, FinishFacts DEF Settle, Fail, AnswerError
<1>4. \A g \in Handlers : /\ work'[g] # Idle => work'[g] = work[g]
                          /\ OneAtATime /\ work'[g] # Idle => work[g].id # id
  BY <1>1, <1>3 DEF TopUpInv, WorkFits
<1> HIDE DEF id
<1>5. CASE Settle(h)
  <2>1. /\ work[h].notice \in Credits
        /\ SettleTopUpTx(id, txn[id].destination, Whole(txn[id].amount))
    BY <1>2, <1>5 DEF Settle, id
  <2>2. SetStatus(id, "success")
    BY <2>1 DEF SettleTopUpTx
  <2>3. Only("topup") /\ TopUpInv'
    BY <1>2, <1>3, <1>4, <2>1, <2>2, StatusKeeps
  <2>4. LedgerNext
    BY <1>2, <2>1 DEF RowFits, LedgerNext, Charges
  <2> QED
    BY <2>3, <2>4 DEF TopUpGood
<1>6. CASE Fail(h)
  <2>1. UpdateTransactionStatus(id, "failed")
    BY <1>6 DEF Fail, id
  <2>2. SetStatus(id, "failed")
    BY <2>1 DEF UpdateTransactionStatus
  <2>3. Only("topup") /\ TopUpInv'
    BY <1>2, <1>3, <1>4, <2>2, StatusKeeps
  <2>4. LedgerNext
    BY <1>2, <2>1 DEF LedgerNext, Statuses
  <2> QED
    BY <2>3, <2>4 DEF TopUpGood
<1>7. CASE AnswerError(h)
  <2>1. UNCHANGED ledgerVars
    BY <1>7 DEF AnswerError
  <2>2. \A k \in TxIds : OrderFits(k)' /\ RowFits(k)'
    BY <1>3, <2>1 DEF TopUpInv, OrderFits, RowFits, IsType, Exists, Pending, ledgerVars
  <2>3. \A g \in Handlers : WorkFits(g)'
    BY <1>3, <2>1 DEF TopUpInv, WorkFits, Pending, Exists, ledgerVars
  <2> QED
    BY <1>3, <2>1, <2>2, <2>3 DEF TopUpGood, TopUpInv, Only, ledgerVars
<1> QED
  BY <1>5, <1>6, <1>7

LEMMA TopUpStepKeeps ==
  ASSUME LedgerInv, TopUpInv, TopUpStep
  PROVE  TopUpGood
  BY SnapKeeps, AnnounceKeeps, ReceiveKeeps, RequestKeeps, FailRequestKeeps, HandlerKeeps
     DEF TopUpStep

\* A crash forgets requests and handlers, and no row.
LEMMA TopUpCrashKeeps ==
  ASSUME TopUpInv, TopUpCrash
  PROVE  TopUpInv'
<1>1. TopUpTypes'
  BY DEF TopUpCrash, TopUpInv, TopUpTypes
<1>2. ASSUME NEW id \in TxIds PROVE OrderFits(id)' /\ RowFits(id)'
  <2>1. OrderFits(id) /\ RowFits(id)
    BY DEF TopUpInv
  <2>2. UNCHANGED <<txn, order, gross, sent>>
        /\ charge'[id] = IF charge[id] = "none" THEN "none" ELSE "done"
    BY DEF TopUpCrash, ledgerVars
  <2> QED
    BY <2>1, <2>2 DEF OrderFits, RowFits, IsType, Exists, Pending
<1>3. \A h \in Handlers : WorkFits(h)'
  BY DEF TopUpCrash, WorkFits
<1> QED
  BY <1>1, <1>2, <1>3 DEF TopUpInv

-----------------------------------------------------------------------------
(***************************************************************************)
(* The invariant of the fiat withdrawals.                                  *)
(***************************************************************************)
FiatTypes ==
  /\ request \in [TxIds -> {"none", "paying", "storing", "refused", "refunding",
                            "answered", "gaveUp", "crashed"}]
  /\ answer \in [TxIds -> {"none", "pending", "success"}]
  /\ payout \in [TxIds -> {"none", "taken", "paid", "bounced"}]

\* How far a request has come tells what Iris can know of it, and how its call
\* of CreatePayout stands.
RequestFits(id) ==
  /\ request[id] # "none" => IsType(id, "withdraw_fiat")
  /\ request[id] \in {"none", "paying", "refused"} => payout[id] = "none"
  /\ request[id] = "paying" <=> call[id].step # "none"
  /\ request[id] = "storing" =>
       \/ answer[id] = "success" /\ payout[id] = "paid"
       \/ answer[id] = "pending"

\* The row agrees with the bank, and is pending as long as its request runs, if
\* no callback overtakes the request.
StatusFits(id) ==
  CallbackWaits =>
    /\ request[id] # "none" /\ ~ Finished(id) => Pending(id)
    /\ IsType(id, "withdraw_fiat") =>
         /\ txn[id].status = "failed" /\ request[id] # "gaveUp" => payout[id] \in {"none", "bounced"}
         /\ txn[id].status = "success" => payout[id] = "paid"

FiatInv ==
  /\ FiatTypes
  /\ TokenInv
  /\ \A id \in TxIds : RequestFits(id) /\ StatusFits(id)

LEMMA FiatStarts == FiatInit => FiatInv
  BY TokenStarts, NoCallFacts, FiatAssumption
     DEF FiatInit, FiatInv, FiatTypes, TokenInit, LedgerInit, RequestFits, StatusFits, IsType, Exists

\* A step that changes no row of a withdrawal and nothing of this flow.
LEMMA FiatFrame ==
  ASSUME FiatInv, UNCHANGED FiatOnly, Only("topup")
  PROVE  FiatInv'
<1>1. \A id \in TxIds : /\ IsType(id, "withdraw_fiat") => txn'[id] = txn[id]
                        /\ IsType(id, "withdraw_fiat")' => txn'[id] = txn[id]
  BY DEF Only, IsType, Exists
<1>2. FiatTypes' /\ TokenInv'
  BY TokenStepKeeps DEF FiatInv, FiatTypes, FiatOnly
<1>3. ASSUME NEW id \in TxIds PROVE RequestFits(id)' /\ StatusFits(id)'
  <2>1. RequestFits(id) /\ StatusFits(id)
    BY DEF FiatInv
  <2> QED
    BY <1>1, <2>1 DEF RequestFits, StatusFits, IsType, Exists, Pending, Finished, FiatOnly, tokenVars
<1> QED
  BY <1>2, <1>3 DEF FiatInv

-----------------------------------------------------------------------------
(***************************************************************************)
(* The steps of a withdrawal.                                              *)
(***************************************************************************)
FiatGood == [LedgerNext]_ledgerVars /\ Only("withdraw_fiat") /\ FiatInv'

\* A step of one withdrawal: it is left to look at this one.
LEMMA OneWithdrawal ==
  ASSUME FiatInv, NEW id \in TxIds, FiatTypes', TokenStep \/ UNCHANGED tokenVars,
         \A k \in TxIds \ {id} :
           /\ txn'[k] = txn[k] /\ request'[k] = request[k]
           /\ answer'[k] = answer[k] /\ payout'[k] = payout[k] /\ call'[k] = call[k],
         Exists(id) => request[id] # "none",
         request'[id] # "none", RequestFits(id)', StatusFits(id)'
  PROVE  Only("withdraw_fiat") /\ FiatInv'
<1>1. TokenInv'
  BY TokenStepKeeps DEF FiatInv
<1>2. ASSUME NEW k \in TxIds \ {id} PROVE RequestFits(k)' /\ StatusFits(k)'
  <2>1. RequestFits(k) /\ StatusFits(k)
    BY DEF FiatInv
  <2> QED
    BY <2>1 DEF RequestFits, StatusFits, IsType, Exists, Pending, Finished
<1>3. Only("withdraw_fiat")
  BY DEF Only, FiatInv, RequestFits
<1> QED
  BY <1>1, <1>2, <1>3 DEF FiatInv

\* How a call of CreatePayout moves.
LEMMA CallMoves ==
  ASSUME TokenInv, NEW c \in Calls
  PROVE  /\ Queue(c) => call[c].step = "none" /\ call'[c].step = "queued"
         /\ UseToken(c) \/ AskToken(c) \/ TokenArrives(c) =>
              call[c].step # "none" /\ call'[c].step # "none"
         /\ TokenFails(c) \/ Sent(c) => call[c].step # "none" /\ call'[c].step = "none"
         /\ Queue(c) \/ UseToken(c) \/ AskToken(c) \/ TokenArrives(c) \/ TokenFails(c) \/ Sent(c) =>
              /\ TokenStep
              /\ \A k \in Calls \ {c} : call'[k] = call[k]
<1>1. call \in [Calls -> Call]
  BY DEF TokenInv, TokenTypeOK, Call
<1> QED
  BY <1>1, NoCallFacts
     DEF Queue, UseToken, AskToken, TokenArrives, TokenFails, Sent, Send, Return, TokenStep, Call

LEMMA WithdrawKeeps ==
  ASSUME LedgerInv, FiatInv, NEW id \in TxIds, Withdraw(id)
  PROVE  FiatGood
<1>1. PICK w \in Wallets, n \in Payable : ExecuteWithdrawFiatTx(id, w, n)
  BY DEF Withdraw, Payable
<1> DEFINE row == FiatRow(w, n)
<1>2. Insert(id, row)
  BY <1>1 DEF ExecuteWithdrawFiatTx, FiatRow
<1>3. row \in Row /\ row.type = "withdraw_fiat" /\ row.status = "pending"
  BY NewRows, SumsOfRupiah
<1> HIDE DEF row
<1>4. /\ ~ Exists(id) /\ txn'[id] = row /\ row # NoRow
      /\ \A k \in TxIds \ {id} : txn'[k] = txn[k]
  BY <1>2, <1>3, RowInserted DEF LedgerInv
<1>5. request' = [request EXCEPT ![id] = "paying"] /\ UNCHANGED <<answer, payout>> /\ Queue(id)
  BY DEF Withdraw
<1>6. FiatTypes'
  BY <1>5 DEF FiatInv, FiatTypes
<1>7. /\ request'[id] = "paying" /\ payout'[id] = "none" /\ call'[id].step = "queued"
      /\ TokenStep
      /\ \A k \in TxIds \ {id} : request'[k] = request[k] /\ call'[k] = call[k]
  BY <1>4, <1>5, CallMoves, FiatAssumption DEF FiatInv, FiatTypes, RequestFits, IsType
<1>8. RequestFits(id)' /\ StatusFits(id)'
  BY <1>3, <1>4, <1>7 DEF RequestFits, StatusFits, IsType, Exists, Pending, Finished
<1>9. Only("withdraw_fiat") /\ FiatInv'
  BY <1>4, <1>5, <1>6, <1>7, <1>8, OneWithdrawal
<1>10. LedgerNext
  BY <1>1 DEF LedgerNext
<1> QED
  BY <1>9, <1>10 DEF FiatGood

\* The steps in which the request talks to Iris, or Iris to the bank: they read
\* and write no row.
LEMMA TalkKeeps ==
  ASSUME FiatInv, NEW id \in TxIds,
         GetToken(id) \/ TokenError(id) \/ PayoutAnswered(id) \/ PayoutError(id)
  PROVE  FiatGood
<1>1. UNCHANGED ledgerVars
  BY DEF GetToken, TokenError, PayoutAnswered, PayoutError
<1>2. FiatTypes'
  BY DEF FiatInv, FiatTypes, GetToken, TokenError, PayoutAnswered, PayoutError
<1>3. TokenStep /\ call[id].step # "none" /\ \A k \in TxIds \ {id} : call'[k] = call[k]
  BY CallMoves, FiatAssumption DEF FiatInv, GetToken, TokenError, PayoutAnswered, PayoutError
<1>4. /\ request[id] = "paying" /\ payout[id] = "none" /\ IsType(id, "withdraw_fiat")
      /\ CallbackWaits => Pending(id)
  BY <1>3 DEF FiatInv, RequestFits, StatusFits, Finished
<1>5. \A k \in TxIds \ {id} :
        request'[k] = request[k] /\ answer'[k] = answer[k] /\ payout'[k] = payout[k]
  BY DEF FiatInv, FiatTypes, GetToken, TokenError, PayoutAnswered, PayoutError
<1>6. \/ request'[id] = "paying" /\ payout'[id] = "none" /\ call'[id].step # "none"
      \/ request'[id] = "refused" /\ payout'[id] = "none" /\ call'[id].step = "none"
      \/ /\ request'[id] = "storing" /\ call'[id].step = "none"
         /\ \/ answer'[id] = "success" /\ payout'[id] = "paid"
            \/ answer'[id] = "pending"
      \/ request'[id] = "refunding" /\ call'[id].step = "none"
  BY <1>4, CallMoves, FiatAssumption
     DEF FiatInv, FiatTypes, GetToken, TokenError, PayoutAnswered, PayoutError
<1>7. RequestFits(id)' /\ StatusFits(id)' /\ request'[id] # "none"
  BY <1>1, <1>4, <1>6 DEF RequestFits, StatusFits, IsType, Exists, Pending, Finished, ledgerVars
<1>8. Only("withdraw_fiat") /\ FiatInv'
  BY <1>1, <1>2, <1>3, <1>4, <1>5, <1>7, OneWithdrawal DEF ledgerVars
<1> QED
  BY <1>1, <1>8 DEF FiatGood

\* The bank pays out or sends back.
LEMMA BankKeeps ==
  ASSUME FiatInv, NEW id \in TxIds, PayOut(id) \/ Bounce(id)
  PROVE  FiatGood
<1>1. UNCHANGED <<ledgerVars, request, answer, tokenVars>> /\ payout[id] = "taken"
  BY DEF PayOut, Bounce
<1>2. PICK end \in {"paid", "bounced"} : payout' = [payout EXCEPT ![id] = end]
  BY DEF PayOut, Bounce
<1>3. FiatTypes' /\ payout'[id] = end /\ \A k \in TxIds \ {id} : payout'[k] = payout[k]
  BY <1>1, <1>2 DEF FiatInv, FiatTypes
<1>4. RequestFits(id) /\ StatusFits(id) /\ request[id] # "none"
  BY <1>1 DEF FiatInv, FiatTypes, RequestFits
<1>5. RequestFits(id)' /\ StatusFits(id)'
  BY <1>1, <1>3, <1>4
     DEF RequestFits, StatusFits, IsType, Exists, Pending, Finished, ledgerVars, tokenVars
<1>6. Only("withdraw_fiat") /\ FiatInv'
  BY <1>1, <1>3, <1>4, <1>5, OneWithdrawal DEF ledgerVars, tokenVars
<1> QED
  BY <1>1, <1>6 DEF FiatGood

\* A step that decides one withdrawal, or finds it decided, after its request has
\* heard from Iris: it may move the request to where, and it writes no status that
\* the payout contradicts.
Verdict(id, where) ==
  /\ request[id] \notin {"none", "paying"}
  /\ where \in {"answered", "gaveUp", request[id]}
  /\ where = request[id] => (CallbackWaits => Finished(id))
  /\ request[id] = "gaveUp" => where = "gaveUp"
  /\ request' = [request EXCEPT ![id] = where]
  /\ UNCHANGED <<answer, payout, tokenVars>>
  /\ \/ UNCHANGED txn
     \/ \E status \in Statuses :
          /\ SetStatus(id, status)
          /\ CallbackWaits =>
               /\ status = "success" => payout[id] = "paid"
               /\ status = "failed" /\ where # "gaveUp" => payout[id] \in {"none", "bounced"}

LEMMA VerdictKeeps ==
  ASSUME LedgerInv, FiatInv, NEW id \in TxIds, NEW where, Verdict(id, where)
  PROVE  Only("withdraw_fiat") /\ FiatInv'
<1>1. RequestFits(id) /\ StatusFits(id) /\ IsType(id, "withdraw_fiat")
  BY DEF FiatInv, RequestFits, Verdict
<1>2. FiatTypes' /\ request'[id] = where /\ \A k \in TxIds \ {id} : request'[k] = request[k]
  BY DEF FiatInv, FiatTypes, Verdict
<1>3. CASE UNCHANGED txn
  <2>1. RequestFits(id)' /\ StatusFits(id)'
    BY <1>1, <1>2, <1>3 DEF Verdict, RequestFits, StatusFits, IsType, Exists, Pending, Finished, tokenVars
  <2> QED
    BY <1>1, <1>2, <1>3, <2>1, OneWithdrawal DEF Verdict, RequestFits, tokenVars
<1>4. ASSUME NEW status \in Statuses, SetStatus(id, status),
             CallbackWaits =>
               /\ status = "success" => payout[id] = "paid"
               /\ status = "failed" /\ where # "gaveUp" => payout[id] \in {"none", "bounced"}
      PROVE  Only("withdraw_fiat") /\ FiatInv'
  <2>1. /\ txn'[id] # NoRow /\ txn'[id].status = status
        /\ txn'[id].type = txn[id].type
        /\ \A k \in TxIds \ {id} : txn'[k] = txn[k]
    BY <1>1, <1>4, StatusSet DEF LedgerInv, IsType
  <2>2. RequestFits(id)'
    BY <1>1, <1>2, <2>1 DEF Verdict, RequestFits, IsType, Exists, tokenVars
  <2>3. StatusFits(id)'
    BY <1>1, <1>2, <1>4, <2>1 DEF Verdict, StatusFits, IsType, Exists, Pending, Finished, tokenVars
  <2> QED
    BY <1>1, <1>2, <2>1, <2>2, <2>3, OneWithdrawal DEF Verdict, RequestFits, tokenVars
<1> QED
  BY <1>3, <1>4 DEF Verdict

LEMMA RejectFacts ==
  ASSUME NEW id \in TxIds, Reject(id)
  PROVE  /\ [LedgerNext]_ledgerVars
         /\ UNCHANGED txn \/ SetStatus(id, "failed")
  BY DEF Reject, RejectWithdrawTx, LedgerNext, ledgerVars

LEMMA StoreKeeps ==
  ASSUME LedgerInv, FiatInv, NEW id \in TxIds, StoreAnswer(id)
  PROVE  FiatGood
<1>1. request[id] = "storing" /\ answer[id] \in {"pending", "success"}
      /\ (answer[id] = "success" => payout[id] = "paid")
  BY DEF StoreAnswer, FiatInv, RequestFits
<1>2. UNCHANGED ledgerVars \/ (SetStatus(id, answer[id]) /\ LedgerNext)
  BY <1>1 DEF StoreAnswer, UpdateTransactionStatus, LedgerNext, Statuses
<1>3. Verdict(id, "answered")
  BY <1>1, <1>2 DEF Verdict, StoreAnswer, Statuses, ledgerVars
<1> QED
  BY <1>2, <1>3, VerdictKeeps DEF FiatGood

LEMMA RefundKeeps ==
  ASSUME LedgerInv, FiatInv, NEW id \in TxIds, RefundRefused(id)
  PROVE  FiatGood
<1> DEFINE where == IF request[id] = "refused" THEN "answered" ELSE "gaveUp"
<1>1. /\ request[id] \in {"refused", "refunding"}
      /\ request' = [request EXCEPT ![id] = where]
      /\ UNCHANGED <<answer, payout, tokenVars>>
      /\ Reject(id) \/ UNCHANGED ledgerVars
  BY DEF RefundRefused, FiatInv, FiatTypes
<1>2. where # "gaveUp" => payout[id] = "none"
  BY <1>1 DEF FiatInv, RequestFits
<1>3. where \in {"answered", "gaveUp"} /\ request[id] # where
  BY <1>1
<1>4. [LedgerNext]_ledgerVars /\ (UNCHANGED txn \/ SetStatus(id, "failed"))
  BY <1>1, RejectFacts DEF ledgerVars
<1> HIDE DEF where
<1>5. Verdict(id, where)
  BY <1>1, <1>2, <1>3, <1>4 DEF Verdict, Statuses
<1> QED
  BY <1>4, <1>5, VerdictKeeps DEF FiatGood

LEMMA CallbackKeeps ==
  ASSUME LedgerInv, FiatInv, NEW id \in TxIds, IrisCompleted(id) \/ IrisFailed(id)
  PROVE  FiatGood
<1>1. /\ UNCHANGED <<request, answer, payout, tokenVars>> /\ Delivered(id)
      /\ payout[id] \in {"paid", "bounced"}
  BY DEF IrisCompleted, IrisFailed
<1>2. request[id] \notin {"none", "paying"} /\ (CallbackWaits => Finished(id))
  BY <1>1 DEF FiatInv, RequestFits, Delivered
<1>3. request' = [request EXCEPT ![id] = request[id]]
  BY <1>1 DEF FiatInv, FiatTypes
<1>4. CASE IrisCompleted(id)
  <2>1. SetStatus(id, "success") /\ LedgerNext /\ payout[id] = "paid"
    BY <1>4 DEF IrisCompleted, UpdateTransactionStatus, LedgerNext, Statuses
  <2>2. Verdict(id, request[id])
    BY <1>1, <1>2, <1>3, <2>1 DEF Verdict, Statuses
  <2> QED
    BY <2>1, <2>2, VerdictKeeps DEF FiatGood
<1>5. CASE IrisFailed(id)
  <2>1. /\ [LedgerNext]_ledgerVars /\ payout[id] = "bounced"
        /\ UNCHANGED txn \/ SetStatus(id, "failed")
    BY <1>5, RejectFacts DEF IrisFailed
  <2>2. Verdict(id, request[id])
    BY <1>1, <1>2, <1>3, <2>1 DEF Verdict, Statuses
  <2> QED
    BY <2>1, <2>2, VerdictKeeps DEF FiatGood
<1> QED
  BY <1>4, <1>5

\* Time passes for the token and the calls only.
LEMMA TickKeepsFiat ==
  ASSUME FiatInv, TickInFlight
  PROVE  FiatGood
<1>1. UNCHANGED <<ledgerVars, request, answer, payout>> /\ TokenInv'
  BY TokenStepKeeps DEF TickInFlight, FiatInv, TokenStep
<1>2. \A id \in TxIds : call'[id].step = call[id].step
  <2>1. call \in [TxIds -> Call]
    BY FiatAssumption DEF FiatInv, TokenInv, TokenTypeOK, Call
  <2> QED
    BY <2>1, FiatAssumption DEF TickInFlight, Tick, Call
<1>3. ASSUME NEW id \in TxIds PROVE RequestFits(id)' /\ StatusFits(id)'
  BY <1>1, <1>2 DEF FiatInv, RequestFits, StatusFits, IsType, Exists, Pending, Finished, ledgerVars
<1> QED
  BY <1>1, <1>3 DEF FiatGood, FiatInv, FiatTypes, Only, ledgerVars

LEMMA FiatStepKeeps ==
  ASSUME LedgerInv, FiatInv, FiatStep
  PROVE  FiatGood
  BY WithdrawKeeps, TalkKeeps, BankKeeps, StoreKeeps, RefundKeeps, CallbackKeeps, TickKeepsFiat
     DEF FiatStep

\* A crash ends every request; those it had sent may have reached Iris.
LEMMA FiatCrashKeeps ==
  ASSUME FiatInv, FiatCrash
  PROVE  FiatInv'
<1>1. PICK reached \in SUBSET {id \in TxIds : call[id].step = "sending"} :
        payout' = [id \in TxIds |-> IF id \in reached THEN "taken" ELSE payout[id]]
  BY DEF FiatCrash
<1>2. FiatTypes' /\ TokenInv'
  BY <1>1, TokenStepKeeps DEF FiatCrash, FiatInv, FiatTypes, TokenStep
<1>3. ASSUME NEW id \in TxIds PROVE RequestFits(id)' /\ StatusFits(id)'
  <2>1. RequestFits(id) /\ StatusFits(id)
    BY DEF FiatInv
  <2>2. /\ UNCHANGED <<txn, answer>> /\ call'[id].step = "none"
        /\ request'[id] = IF request[id] = "none" \/ Finished(id) THEN request[id] ELSE "crashed"
        /\ payout'[id] = IF id \in reached THEN "taken" ELSE payout[id]
    BY <1>1, NoCallFacts, FiatAssumption DEF FiatCrash, ForgetToken, ledgerVars
  <2>3. id \in reached => request[id] = "paying"
    BY <2>1 DEF RequestFits
  <2>4. request[id] = "paying" => ~ Finished(id)
    BY DEF Finished
  <2> QED
    BY <2>1, <2>2, <2>3, <2>4 DEF RequestFits, StatusFits, IsType, Exists, Pending, Finished
<1> QED
  BY <1>2, <1>3 DEF FiatInv

-----------------------------------------------------------------------------
(***************************************************************************)
(* Both flows together.                                                    *)
(***************************************************************************)
RupiahInv == LedgerInv /\ TopUpInv /\ FiatInv

LEMMA RupiahStarts == Init => RupiahInv
<1>1. LedgerInit => LedgerInv
  BY LedgerStarts
<1> QED
  BY <1>1, TopUpStarts, FiatStarts DEF Init, RupiahInv, TopUpInit

LEMMA RupiahStep ==
  ASSUME RupiahInv, [Next]_rupiahVars
  PROVE  RupiahInv' /\ [LedgerNext]_ledgerVars
<1>1. UNCHANGED ledgerVars => LedgerInv'
  BY DEF RupiahInv, LedgerInv, LedgerTypeOK, RowsFit, NonNegative, IsType, Exists, ledgerVars
<1>2. CASE TopUpStep /\ UNCHANGED FiatOnly
  <2>1. TopUpGood
    BY <1>2, TopUpStepKeeps DEF RupiahInv
  <2>2. LedgerInv'
    BY <1>1, <2>1, LedgerStep DEF RupiahInv, TopUpGood
  <2> QED
    BY <1>2, <2>1, <2>2, FiatFrame DEF RupiahInv, TopUpGood
<1>3. CASE FiatStep /\ UNCHANGED TopUpOnly
  <2>1. FiatGood
    BY <1>3, FiatStepKeeps DEF RupiahInv
  <2>2. LedgerInv'
    BY <1>1, <2>1, LedgerStep DEF RupiahInv, FiatGood
  <2> QED
    BY <1>3, <2>1, <2>2, TopUpFrame DEF RupiahInv, FiatGood
<1>4. CASE Crash
  <2>1. UNCHANGED ledgerVars
    BY <1>4 DEF Crash, FiatCrash
  <2> QED
    BY <1>1, <1>4, <2>1, TopUpCrashKeeps, FiatCrashKeeps DEF RupiahInv, Crash
<1>5. CASE UNCHANGED rupiahVars
  <2>1. UNCHANGED ledgerVars /\ UNCHANGED TopUpOnly /\ UNCHANGED FiatOnly
    BY <1>5 DEF rupiahVars, ledgerVars, TopUpOnly, FiatOnly, tokenVars
  <2>2. Only("topup") /\ Only("withdraw_fiat")
    BY <2>1 DEF Only, ledgerVars
  <2> QED
    BY <1>1, <2>1, <2>2, TopUpFrame, FiatFrame DEF RupiahInv
<1> QED
  BY <1>2, <1>3, <1>4, <1>5 DEF Next

\* The invariant of the composition, on which the theorems below rest.
THEOREM RupiahSafe == Spec => []RupiahInv
<1> QED
  BY RupiahStarts, RupiahStep, PTL DEF Spec

\* The two flows call the tables through the methods of TransactionRepository
\* only: whatever becomes of requests, notifications, callbacks and the server,
\* the tables go the way the ledger specification allows.
THEOREM RupiahImplementsLedger == Spec => LedgerSpec
<1>1. Init => LedgerInit
  BY DEF Init, TopUpInit
<1>2. RupiahInv /\ [Next]_rupiahVars => [LedgerNext]_ledgerVars
  BY RupiahStep
<1> QED
  BY <1>1, <1>2, RupiahSafe, PTL DEF Spec, LedgerSpec

\* Every variable of the composition holds values of its type.
THEOREM RupiahTypes == Spec => []TypeOK
<1>1. RupiahInv => TypeOK
  BY DEF RupiahInv, LedgerInv, TopUpInv, TopUpTypes, FiatInv, FiatTypes, TokenInv, TypeOK,
         TopUpTypeOK, FiatTypeOK
<1> QED
  BY <1>1, RupiahSafe, PTL

\* ProcessMidtransNotification puts money into a wallet only for an order the
\* customer has paid, in whatever order notifications come and however many
\* handlers work on them.
THEOREM RupiahCreditNeedsPayment == Spec => []CreditNeedsPayment
<1>1. RupiahInv => CreditNeedsPayment
  BY DEF RupiahInv, TopUpInv, RowFits, CreditNeedsPayment, TopUps, RowStatus, IsType
<1> QED
  BY <1>1, RupiahSafe, PTL

\* If the notifications of one order come one after the other, no handler of
\* ProcessMidtransNotification acts on a row somebody else has decided.
THEOREM RupiahReadStillTrue ==
  ASSUME OneAtATime
  PROVE  Spec => []ReadStillTrue
<1>1. RupiahInv => ReadStillTrue
  BY DEF RupiahInv, TopUpInv, WorkFits, ReadStillTrue
<1> QED
  BY <1>1, RupiahSafe, PTL

\* No payout reaches Iris with an access token that has run out on the way:
\* the margin of getAccessToken is wide enough for two timeouts, whatever they
\* are and however many payouts share the token.
THEOREM RupiahTokenHolds == Spec => []TokenHolds
<1>1. RupiahInv => TokenHolds
  BY TokenInvHolds DEF RupiahInv, FiatInv
<1> QED
  BY <1>1, RupiahSafe, PTL

\* If no callback of Iris is processed before WithdrawFiat has finished, a
\* withdrawal marked failed has not been paid out, unless CreatePayout returned
\* an error, and one marked success has.
THEOREM RupiahStatusTellsPayout ==
  ASSUME CallbackWaits
  PROVE  Spec => []StatusTellsPayout
<1>1. RupiahInv => StatusTellsPayout
  BY DEF RupiahInv, FiatInv, StatusFits, StatusTellsPayout, Withdrawals, RowStatus, IsType
<1> QED
  BY <1>1, RupiahSafe, PTL

-----------------------------------------------------------------------------
(***************************************************************************)
(* The top-ups implement Outcome.                                          *)
(***************************************************************************)
\* The status column of the top-ups.
TopUpOutcome == [id \in TxIds |-> IF IsType(id, "topup") THEN txn[id].status ELSE "none"]

\* Three things can happen to the rows of top-ups, if the notifications of one
\* order come one after the other: nothing, a new one, a verdict on a pending one.
LEMMA TopUpWrites ==
  ASSUME OneAtATime, TopUpInv, TopUpStep
  PROVE  \/ UNCHANGED txn
         \/ \E id \in TxIds, w \in Wallets, n \in Amounts : Insert(id, TopUpRow(w, n))
         \/ \E id \in TxIds, status \in {"success", "failed"} :
              IsType(id, "topup") /\ Pending(id) /\ SetStatus(id, status)
<1>1. ASSUME NEW id \in TxIds, RequestTopUp(id)
      PROVE  \E w \in Wallets, n \in Amounts : Insert(id, TopUpRow(w, n))
  BY <1>1 DEF RequestTopUp, CreatePendingTopUpTx, TopUpRow
<1>2. ASSUME NEW id \in TxIds, FailRequest(id)
      PROVE  UNCHANGED txn \/ (IsType(id, "topup") /\ Pending(id) /\ SetStatus(id, "failed"))
  BY <1>2 DEF FailRequest, UpdateTransactionStatus, TopUpInv, OrderFits, ledgerVars
<1>3. ASSUME NEW h \in Handlers, Settle(h) \/ Fail(h)
      PROVE  \E id \in TxIds, status \in {"success", "failed"} :
               IsType(id, "topup") /\ Pending(id) /\ SetStatus(id, status)
  <2>1. work[h] # Idle
    BY <1>3 DEF Settle, Fail, Idle, Credits, Fails
  <2>2. work[h].id \in TxIds /\ IsType(work[h].id, "topup") /\ Pending(work[h].id)
    BY <2>1, WorkFacts DEF TopUpInv, WorkFits
  <2>3. SetStatus(work[h].id, "success") \/ SetStatus(work[h].id, "failed")
    BY <1>3 DEF Settle, Fail, SettleTopUpTx, UpdateTransactionStatus
  <2> QED
    BY <2>2, <2>3
<1>4. ASSUME NEW id \in TxIds,
             \/ SnapAnswers(id) \/ SnapFails(id) \/ PayOrder(id) \/ Hold(id) \/ Close(id)
             \/ \E h \in Handlers, notice \in Notices : Receive(h, id, notice)
      PROVE  UNCHANGED txn
  BY <1>4 DEF SnapAnswers, SnapFails, PayOrder, Hold, Close, Announce, Receive, ledgerVars
<1>5. ASSUME NEW h \in Handlers, AnswerError(h)
      PROVE  UNCHANGED txn
  BY <1>5 DEF AnswerError, ledgerVars
<1> QED
  BY <1>1, <1>2, <1>3, <1>4, <1>5 DEF TopUpStep

\* One row that is recorded, or decided while it is pending.
LEMMA OneOutcome ==
  ASSUME NEW id \in TxIds, \A k \in TxIds \ {id} : txn'[k] = txn[k], IsType(id, "topup")',
         \/ ~ Exists(id) /\ txn'[id].status = "pending"
         \/ IsType(id, "topup") /\ Pending(id) /\ txn'[id].status \in {"success", "failed"}
  PROVE  Outcome!Next
<1>1. TopUpOutcome' = [TopUpOutcome EXCEPT ![id] = txn'[id].status]
  BY DEF TopUpOutcome, IsType, Exists
<1>2. \/ TopUpOutcome[id] = "none" /\ txn'[id].status = "pending"
      \/ TopUpOutcome[id] = "pending" /\ txn'[id].status \in {"success", "failed"}
  BY DEF TopUpOutcome, IsType, Exists, Pending
<1>3. Outcome!Record(id) \/ Outcome!Decide(id)
  BY <1>1, <1>2 DEF Outcome!Record, Outcome!Decide, TopUpOutcome
<1> QED
  BY <1>3 DEF Outcome!Next

LEMMA TopUpDecides ==
  ASSUME OneAtATime, RupiahInv, [Next]_rupiahVars
  PROVE  Outcome!Next \/ UNCHANGED TopUpOutcome
<1>1. UNCHANGED txn => UNCHANGED TopUpOutcome
  BY DEF TopUpOutcome, IsType, Exists
<1>2. CASE TopUpStep
  <2>1. ASSUME NEW id \in TxIds, NEW w \in Wallets, NEW n \in Amounts, Insert(id, TopUpRow(w, n))
        PROVE  Outcome!Next
    <3>1. TopUpRow(w, n) \in Row /\ TopUpRow(w, n).type = "topup" /\ TopUpRow(w, n).status = "pending"
      BY NewRows, SumsOfRupiah
    <3>2. /\ ~ Exists(id) /\ txn'[id] = TopUpRow(w, n) /\ TopUpRow(w, n) # NoRow
          /\ \A k \in TxIds \ {id} : txn'[k] = txn[k]
      BY <2>1, <3>1, RowInserted DEF RupiahInv, LedgerInv
    <3> QED
      BY <3>1, <3>2, OneOutcome DEF IsType, Exists
  <2>2. ASSUME NEW id \in TxIds, NEW status \in {"success", "failed"},
               IsType(id, "topup"), Pending(id), SetStatus(id, status)
        PROVE  Outcome!Next
    <3>1. /\ txn'[id] # NoRow /\ txn'[id].status = status
          /\ txn'[id].type = txn[id].type
          /\ \A k \in TxIds \ {id} : txn'[k] = txn[k]
      BY <2>2, StatusSet DEF RupiahInv, LedgerInv, Statuses, IsType
    <3> QED
      BY <2>2, <3>1, OneOutcome DEF IsType, Exists
  <2> QED
    BY <1>1, <1>2, <2>1, <2>2, TopUpWrites DEF RupiahInv
<1>3. CASE FiatStep
  <2>1. Only("withdraw_fiat")
    BY <1>3, FiatStepKeeps DEF RupiahInv, FiatGood
  <2> QED
    BY <2>1 DEF Only, TopUpOutcome, IsType, Exists
<1>4. CASE Crash \/ UNCHANGED rupiahVars
  BY <1>1, <1>4 DEF Crash, FiatCrash, rupiahVars, ledgerVars
<1> QED
  BY <1>2, <1>3, <1>4 DEF Next

\* If the notifications of one order come one after the other, every top-up is
\* decided once and keeps its outcome: neither a second notification nor the
\* request that opened the order overwrites it.
THEOREM RupiahDecidedOnce ==
  ASSUME OneAtATime
  PROVE  Spec => DecidedOnce
<1>1. Init => Outcome!Init
  BY DEF Init, TopUpInit, LedgerInit, Outcome!Init, IsType, Exists
<1>2. RupiahInv /\ [Next]_rupiahVars =>
        [Outcome!Next]_[id \in TxIds |-> IF IsType(id, "topup") THEN txn[id].status ELSE "none"]
  BY TopUpDecides DEF TopUpOutcome
<1> QED
  BY <1>1, <1>2, RupiahSafe, PTL DEF Spec, DecidedOnce, Outcome!Spec

-----------------------------------------------------------------------------
(***************************************************************************)
(* The money.  If the notifications of one order come one after the other  *)
(* and no callback overtakes a request, nobody overwrites an outcome, with *)
(* one exception: a callback that completes a payout whose request had     *)
(* given up and refunded it.                                               *)
(***************************************************************************)
\* A new pending row.
Asked(id) ==
  \/ \E w \in Wallets, n \in Amounts : CreatePendingTopUpTx(id, w, n)
  \/ \E w \in Wallets, n \in Payable : ExecuteWithdrawFiatTx(id, w, n)

\* A top-up that fails, or is settled with what was charged for it.
TopUpDecided(id) ==
  /\ IsType(id, "topup") /\ txn[id].status = "pending"
  /\ \/ SettleTopUpTx(id, txn[id].destination, Whole(txn[id].amount))
     \/ UpdateTransactionStatus(id, "failed")

\* A withdrawal that is refunded, stays pending, or is completed.
Refunded(id) == IsType(id, "withdraw_fiat") /\ RejectWithdrawTx(id)

Pended(id) ==
  /\ IsType(id, "withdraw_fiat") /\ txn[id].status = "pending"
  /\ UpdateTransactionStatus(id, "pending")

Completed(id) ==
  /\ IsType(id, "withdraw_fiat")
  /\ txn[id].status = "failed" => request[id] = "gaveUp"
  /\ UpdateTransactionStatus(id, "success")

TopUpMoves(id) == Asked(id) \/ TopUpDecided(id)

FiatMoves(id) == Asked(id) \/ Refunded(id) \/ Pended(id) \/ Completed(id)

LEMMA TopUpSteps ==
  ASSUME OneAtATime, TopUpInv, TopUpStep
  PROVE  UNCHANGED ledgerVars \/ \E id \in TxIds : TopUpMoves(id)
<1>1. ASSUME NEW id \in TxIds, RequestTopUp(id)
      PROVE  Asked(id)
  BY <1>1 DEF RequestTopUp, Asked
<1>2. ASSUME NEW id \in TxIds, FailRequest(id)
      PROVE  UNCHANGED ledgerVars \/ TopUpDecided(id)
  BY <1>2 DEF FailRequest, TopUpDecided, TopUpInv, OrderFits, Pending
<1>3. ASSUME NEW h \in Handlers, Settle(h) \/ Fail(h)
      PROVE  \E id \in TxIds : TopUpDecided(id)
  <2>1. work[h] # Idle
    BY <1>3 DEF Settle, Fail, Idle, Credits, Fails
  <2>2. /\ work[h].id \in TxIds /\ IsType(work[h].id, "topup") /\ Pending(work[h].id)
        /\ gross[work[h].id] = Whole(txn[work[h].id].amount)
    BY <2>1, WorkFacts DEF TopUpInv, WorkFits
  <2> QED
    BY <1>3, <2>2 DEF Settle, Fail, TopUpDecided, Pending
<1>4. ASSUME NEW id \in TxIds,
             \/ SnapAnswers(id) \/ SnapFails(id) \/ PayOrder(id) \/ Hold(id) \/ Close(id)
             \/ \E h \in Handlers, notice \in Notices : Receive(h, id, notice)
      PROVE  UNCHANGED ledgerVars
  BY <1>4 DEF SnapAnswers, SnapFails, PayOrder, Hold, Close, Announce, Receive
<1>5. ASSUME NEW h \in Handlers, AnswerError(h)
      PROVE  UNCHANGED ledgerVars
  BY <1>5 DEF AnswerError
<1> QED
  BY <1>1, <1>2, <1>3, <1>4, <1>5 DEF TopUpStep, TopUpMoves

LEMMA FiatSteps ==
  ASSUME CallbackWaits, FiatInv, FiatStep
  PROVE  UNCHANGED ledgerVars \/ \E id \in TxIds : FiatMoves(id)
<1>1. ASSUME NEW id \in TxIds, Withdraw(id)
      PROVE  Asked(id)
  BY <1>1 DEF Withdraw, Asked, Payable
<1>2. ASSUME NEW id \in TxIds, Reject(id), IsType(id, "withdraw_fiat")
      PROVE  UNCHANGED ledgerVars \/ Refunded(id)
  BY <1>2 DEF Reject, Refunded
<1>3. ASSUME NEW id \in TxIds, StoreAnswer(id)
      PROVE  UNCHANGED ledgerVars \/ Pended(id) \/ Completed(id)
  <2>1. /\ IsType(id, "withdraw_fiat") /\ Pending(id)
        /\ answer[id] \in {"pending", "success"}
    BY <1>3 DEF StoreAnswer, FiatInv, RequestFits, StatusFits, Finished
  <2> QED
    BY <1>3, <2>1 DEF StoreAnswer, Pended, Completed, Pending
<1>4. ASSUME NEW id \in TxIds, RefundRefused(id)
      PROVE  UNCHANGED ledgerVars \/ Refunded(id)
  <2>1. IsType(id, "withdraw_fiat")
    BY <1>4 DEF RefundRefused, FiatInv, RequestFits
  <2> QED
    BY <1>2, <1>4, <2>1 DEF RefundRefused
<1>5. ASSUME NEW id \in TxIds, IrisCompleted(id)
      PROVE  Completed(id)
  <2>1. payout[id] = "paid" /\ RequestFits(id) /\ StatusFits(id)
    BY <1>5 DEF IrisCompleted, FiatInv
  <2>2. IsType(id, "withdraw_fiat") /\ (txn[id].status = "failed" => request[id] = "gaveUp")
    BY <2>1 DEF RequestFits, StatusFits
  <2> QED
    BY <1>5, <2>2 DEF IrisCompleted, Completed
<1>6. ASSUME NEW id \in TxIds, IrisFailed(id)
      PROVE  UNCHANGED ledgerVars \/ Refunded(id)
  <2>1. IsType(id, "withdraw_fiat")
    BY <1>6 DEF IrisFailed, FiatInv, RequestFits
  <2> QED
    BY <1>2, <1>6, <2>1 DEF IrisFailed
<1>7. ASSUME NEW id \in TxIds,
             \/ GetToken(id) \/ TokenError(id) \/ PayoutAnswered(id) \/ PayoutError(id)
             \/ PayOut(id) \/ Bounce(id)
      PROVE  UNCHANGED ledgerVars
  BY <1>7 DEF GetToken, TokenError, PayoutAnswered, PayoutError, PayOut, Bounce
<1> QED
  BY <1>1, <1>3, <1>4, <1>5, <1>6, <1>7 DEF FiatStep, FiatMoves, TickInFlight

\* What becomes of the two tables in a step.
LEMMA MoneyMoves ==
  ASSUME OneAtATime, CallbackWaits, RupiahInv, [Next]_rupiahVars
  PROVE  UNCHANGED ledgerVars \/ \E id \in TxIds : TopUpMoves(id) \/ FiatMoves(id)
<1>1. CASE TopUpStep
  BY <1>1, TopUpSteps DEF RupiahInv
<1>2. CASE FiatStep
  BY <1>2, FiatSteps DEF RupiahInv
<1>3. CASE Crash \/ UNCHANGED rupiahVars
  BY <1>3 DEF Crash, FiatCrash, rupiahVars, ledgerVars
<1> QED
  BY <1>1, <1>2, <1>3 DEF Next

\* A request that has given up never answers.
LEMMA GaveUpStays ==
  ASSUME RupiahInv, [Next]_rupiahVars, NEW id \in TxIds, request[id] = "gaveUp"
  PROVE  request'[id] = "gaveUp"
<1>1. RequestFits(id) /\ StatusFits(id) /\ request \in [TxIds -> {"none", "paying", "storing",
        "refused", "refunding", "answered", "gaveUp", "crashed"}]
  BY DEF RupiahInv, FiatInv, FiatTypes
<1>2. CASE UNCHANGED request
  BY <1>2
<1>3. ASSUME NEW k \in TxIds, Withdraw(k)
      PROVE  request' = [request EXCEPT ![k] = "paying"] /\ request[k] = "none"
  BY <1>3 DEF Withdraw, ExecuteWithdrawFiatTx, Insert, RupiahInv, FiatInv, FiatTypes, RequestFits, IsType
<1>4. ASSUME NEW k \in TxIds, TokenError(k) \/ PayoutAnswered(k) \/ PayoutError(k)
      PROVE  \E s : request' = [request EXCEPT ![k] = s] /\ request[k] = "paying"
  BY <1>4, CallMoves, FiatAssumption
     DEF TokenError, PayoutAnswered, PayoutError, RupiahInv, FiatInv, RequestFits
<1>5. ASSUME NEW k \in TxIds, StoreAnswer(k) \/ RefundRefused(k)
      PROVE  \E s : request' = [request EXCEPT ![k] = s] /\ request[k] # "gaveUp"
  BY <1>5 DEF StoreAnswer, RefundRefused
<1>6. CASE FiatStep
  <2>1. UNCHANGED request \/ \E k \in TxIds :
          \/ Withdraw(k) \/ TokenError(k) \/ PayoutAnswered(k) \/ PayoutError(k)
          \/ StoreAnswer(k) \/ RefundRefused(k)
    BY <1>6 DEF FiatStep, TickInFlight, GetToken, PayOut, Bounce, IrisCompleted, IrisFailed
  <2>2. UNCHANGED request \/ \E k \in TxIds : \E s :
          request' = [request EXCEPT ![k] = s] /\ request[k] # "gaveUp"
    BY <1>3, <1>4, <1>5, <2>1
  <2> QED
    BY <1>1, <2>2
<1>7. CASE Crash
  BY <1>1, <1>7 DEF Crash, FiatCrash, Finished
<1> QED
  BY <1>2, <1>6, <1>7 DEF Next, FiatOnly, rupiahVars

BooksInv == RupiahInv /\ Sides /\ AnsweredIsAccounted

LEMMA BooksStep ==
  ASSUME OneAtATime, CallbackWaits, BooksInv, [Next]_rupiahVars
  PROVE  BooksInv'
<1>1. RupiahInv /\ RupiahInv' /\ LedgerInv /\ LedgerInv' /\ LedgerTypeOK /\ Sides
  BY RupiahStep DEF BooksInv, RupiahInv, LedgerInv
<1>2. (\A id \in TxIds : request'[id] # "gaveUp") => Journal
  BY GaveUpStays DEF BooksInv, AnsweredIsAccounted
<1>3. CASE UNCHANGED ledgerVars
  <2>1. \A a : Effects(a)' = Effects(a)
    BY <1>3 DEF ledgerVars, Effects, Exists
  <2>2. Sides' /\ (Journal => Journal')
    BY <1>1, <1>3, <2>1 DEF ledgerVars, Sides, Journal, Exists
  <2> QED
    BY <1>1, <1>2, <2>2 DEF BooksInv, AnsweredIsAccounted
<1>4. ASSUME NEW id \in TxIds, Opened(id, Nat, Nat) \/ Decided(id)
      PROVE  BooksInv'
  <2>1. Sides' /\ (Journal => Journal')
    BY <1>1, <1>4, OpenedBalances, DecidedBalances
  <2> QED
    BY <1>1, <1>2, <2>1 DEF BooksInv, AnsweredIsAccounted
<1>5. ASSUME NEW id \in TxIds, Completed(id), request[id] = "gaveUp"
      PROVE  BooksInv'
  <2>1. request'[id] = "gaveUp"
    BY <1>1, <1>5, GaveUpStays
  <2>2. Exists(id) /\ txn[id].type # "topup" /\ SetStatus(id, "success")
    BY <1>5 DEF Completed, IsType, UpdateTransactionStatus
  <2>3. Sides'
    BY <1>1, <2>2, RowDecided DEF Statuses
  <2> QED
    BY <1>1, <2>1, <2>3 DEF BooksInv, AnsweredIsAccounted
<1>6. ASSUME NEW id \in TxIds, TopUpMoves(id) \/ FiatMoves(id)
      PROVE  \/ Opened(id, Nat, Nat) \/ Decided(id)
             \/ Completed(id) /\ request[id] = "gaveUp"
  <2>1. Asked(id) => Opened(id, Nat, Nat)
    BY OpenedWithAmounts DEF Asked, Opened
  <2>2. TopUpDecided(id) \/ Refunded(id) \/ Pended(id) => Decided(id)
    BY DEF TopUpDecided, Refunded, Pended, Decided
  <2>3. Completed(id) => Decided(id) \/ request[id] = "gaveUp"
    BY DEF Completed, Decided
  <2> QED
    BY <1>6, <2>1, <2>2, <2>3 DEF TopUpMoves, FiatMoves
<1> QED
  BY <1>1, <1>3, <1>4, <1>5, <1>6, MoneyMoves

\* If the notifications of one order come one after the other and no callback of
\* Iris is processed before WithdrawFiat has finished, then, unless CreatePayout
\* has returned an error, every balance is its opening and what the rows of both
\* flows stand for: a settled top-up the whole rupiah Midtrans was asked to
\* charge for it (not the fraction its row still shows), a withdrawal what was
\* paid out and the fee.  Nothing else is credited, debited or refunded.
THEOREM RupiahAccounted ==
  ASSUME OneAtATime, CallbackWaits
  PROVE  Spec => []AnsweredIsAccounted
<1>1. Init => BooksInv
  BY RupiahStarts, OrderlyStarts DEF Init, TopUpInit, BooksInv, OrderlyInv, AnsweredIsAccounted
<1>2. BooksInv /\ [Next]_rupiahVars => BooksInv'
  BY BooksStep
<1>3. BooksInv => AnsweredIsAccounted
  BY DEF BooksInv
<1> QED
  BY <1>1, <1>2, <1>3, PTL DEF Spec

-----------------------------------------------------------------------------
(***************************************************************************)
(* Nobody is richer than what they have paid in.  Worth is what a row can  *)
(* still answer for: the payment behind a settled top-up, and, as a debt,  *)
(* the refund a pending withdrawal may become.  A withdrawal that is       *)
(* decided counts for nothing, so it does not matter here if a late        *)
(* callback turns a refunded one into a success.                           *)
(***************************************************************************)
Worth(row, a) ==
  (IF row.type = "topup" /\ row.status = "success" /\ a = <<row.destination, row.asset>>
     THEN Whole(row.amount) ELSE 0)
  - (IF row.type = "withdraw_fiat" /\ row.status = "pending" /\ a = <<row.source, row.asset>>
     THEN row.amount + row.fee ELSE 0)

Worths(a) == [id \in TxIds |-> IF Exists(id) THEN Worth(txn[id], a) ELSE 0]

Covered == \A a \in Accounts : balance[a] <= Opening[a] + SumFunctionOnSet(Worths(a), TxIds)

LEMMA WorthInt == ASSUME NEW row \in Row, NEW a PROVE Worth(row, a) \in Int
  BY WholeRupiah DEF Worth, Row

LEMMA WorthsAdd == ASSUME LedgerTypeOK, NEW a PROVE Adds(Worths(a), TxIds)
  BY WorthInt DEF LedgerTypeOK, Adds, Worths, Exists

\* A step that touches one row, and raises no balance by more than the row's worth.
LEMMA CoveredMoves ==
  ASSUME LedgerTypeOK, LedgerTypeOK', Covered, NEW id \in TxIds,
         \A k \in TxIds \ {id} : txn'[k] = txn[k],
         \A a \in Accounts : balance'[a] <= balance[a] + (Worths(a)'[id] - Worths(a)[id])
  PROVE  Covered'
<1> SUFFICES ASSUME NEW a \in Accounts
             PROVE  balance'[a] <= Opening[a] + SumFunctionOnSet(Worths(a)', TxIds)
  BY DEF Covered
<1> DEFINE f == Worths(a)
           g == Worths(a)'
<1>1. Adds(f, TxIds) /\ Adds(g, TxIds)
  BY WorthsAdd, WorthInt DEF LedgerTypeOK, Adds, Worths, Exists
<1>2. \A k \in TxIds \ {id} : g[k] = f[k]
  BY DEF Worths, Exists
<1>3. f[id] \in Int /\ g[id] \in Int
  BY <1>1 DEF Adds
<1>4. balance[a] <= Opening[a] + SumFunctionOnSet(f, TxIds)
  BY DEF Covered
<1>5. balance'[a] <= balance[a] + (g[id] - f[id])
  OBVIOUS
<1> HIDE DEF f, g
<1>6. SumFunctionOnSet(g, TxIds) = SumFunctionOnSet(f, TxIds) + (g[id] - f[id])
  BY <1>1, <1>2, <1>3, SumChange
<1>7. /\ SumFunctionOnSet(f, TxIds) \in Int /\ Opening[a] \in Int
      /\ balance[a] \in Int /\ balance'[a] \in Int
  BY <1>1, SumInt DEF LedgerTypeOK
<1>8. balance'[a] <= Opening[a] + SumFunctionOnSet(g, TxIds)
  BY <1>3, <1>4, <1>5, <1>6, <1>7
<1> QED BY <1>8 DEF g

\* The same, said of the row itself.
LEMMA CoveredRow ==
  ASSUME LedgerTypeOK, LedgerTypeOK', Covered, NEW id \in TxIds, Exists(id), Exists(id)',
         \A k \in TxIds \ {id} : txn'[k] = txn[k],
         \A a \in Accounts : balance'[a] <= balance[a] + (Worth(txn'[id], a) - Worth(txn[id], a))
  PROVE  Covered'
<1>1. \A a : Worths(a)[id] = Worth(txn[id], a) /\ Worths(a)'[id] = Worth(txn'[id], a)
  BY DEF Worths, Exists
<1> QED
  BY <1>1, CoveredMoves

LEMMA AskedCovered ==
  ASSUME LedgerInv, LedgerInv', Covered, NEW id \in TxIds, Asked(id)
  PROVE  Covered'
<1> USE DEF LedgerInv
<1>1. ASSUME NEW row \in Row, Insert(id, row),
             \A a \in Accounts : balance'[a] = balance[a] + Worth(row, a)
      PROVE  Covered'
  <2>1. /\ ~ Exists(id) /\ txn'[id] = row /\ row # NoRow
        /\ \A k \in TxIds \ {id} : txn'[k] = txn[k]
    BY <1>1, RowInserted
  <2>2. ASSUME NEW a \in Accounts
        PROVE  balance'[a] <= balance[a] + (Worths(a)'[id] - Worths(a)[id])
    <3>1. Worths(a)[id] = 0 /\ Worths(a)'[id] = Worth(row, a)
      BY <2>1 DEF Worths, Exists
    <3>2. Worth(row, a) \in Int /\ balance[a] \in Int /\ balance'[a] = balance[a] + Worth(row, a)
      BY <1>1, WorthInt DEF LedgerTypeOK
    <3> QED
      BY <3>1, <3>2
  <2> QED
    BY <2>1, <2>2, CoveredMoves
<1>2. ASSUME NEW w \in Wallets, NEW n \in Amounts, CreatePendingTopUpTx(id, w, n)
      PROVE  Covered'
  <2> DEFINE row == TopUpRow(w, n)
  <2>1. row \in Row /\ row.type = "topup" /\ row.status = "pending"
    BY NewRows, SumsOfRupiah
  <2>2. Insert(id, row) /\ UNCHANGED balance
    BY <1>2 DEF CreatePendingTopUpTx, TopUpRow
  <2> HIDE DEF row
  <2>3. \A a \in Accounts : balance'[a] = balance[a] + Worth(row, a)
    BY <2>1, <2>2 DEF Worth, LedgerTypeOK
  <2> QED
    BY <1>1, <2>1, <2>2, <2>3
<1>3. ASSUME NEW w \in Wallets, NEW n \in Payable, ExecuteWithdrawFiatTx(id, w, n)
      PROVE  Covered'
  <2> DEFINE row == FiatRow(w, n)
  <2>1. /\ row \in Row /\ row.type = "withdraw_fiat" /\ row.status = "pending"
        /\ row.source = w /\ row.asset = IDR /\ row.amount = n /\ row.fee = Fee
    BY NewRows, SumsOfRupiah DEF FiatRow, Entry
  <2>2. Insert(id, row) /\ Debit(w, IDR, n + Fee)
    BY <1>3 DEF ExecuteWithdrawFiatTx, FiatRow
  <2> HIDE DEF row
  <2>3. ASSUME NEW a \in Accounts PROVE balance'[a] = balance[a] + Worth(row, a)
    <3>1. Worth(row, a) = 0 - (IF a = <<w, IDR>> THEN n + Fee ELSE 0)
      BY <2>1 DEF Worth
    <3>2. balance'[a] = IF a = <<w, IDR>> THEN balance[a] - (n + Fee) ELSE balance[a]
      BY <2>2, BalanceDebited
    <3>3. balance[a] \in Int /\ n \in Int /\ Fee \in Int
      BY SumsOfRupiah DEF LedgerTypeOK
    <3> QED
      BY <3>1, <3>2, <3>3
  <2> QED
    BY <1>1, <2>1, <2>2, <2>3
<1> QED
  BY <1>2, <1>3 DEF Asked

LEMMA DecidedCovered ==
  ASSUME LedgerInv, LedgerInv', Sides, Covered, NEW id \in TxIds,
         TopUpDecided(id) \/ Refunded(id) \/ Pended(id) \/ Completed(id)
  PROVE  Covered'
<1> USE DEF LedgerInv
<1> DEFINE row == txn[id]
           new == txn'[id]
<1>1. /\ Exists(id) /\ row \in Row /\ row.amount \in Nat /\ row.fee \in Nat
      /\ Whole(row.amount) \in Nat
  <2>1. Exists(id) /\ row \in Row /\ row.amount \in Nat /\ row.fee \in Nat
    BY DEF TopUpDecided, Refunded, Pended, Completed, IsType, LedgerTypeOK, Exists, Row
  <2> HIDE DEF row
  <2> QED
    BY <2>1, WholeRupiah
<1>2. PICK s \in Statuses :
        /\ SetStatus(id, s)
        /\ row.type = "topup" => s # "pending"
        /\ \/ TopUpDecided(id) /\ s = "success" /\ Credit(row.destination, IDR, Whole(row.amount))
           \/ TopUpDecided(id) /\ s = "failed" /\ UNCHANGED balance
           \/ Refunded(id) /\ s = "failed" /\ Credit(row.source, row.asset, row.amount + row.fee)
              /\ row.status = "pending"
           \/ Pended(id) /\ s = "pending" /\ UNCHANGED balance
           \/ Completed(id) /\ s = "success" /\ UNCHANGED balance
  BY DEF TopUpDecided, Refunded, Pended, Completed, SettleTopUpTx, UpdateTransactionStatus,
         RejectWithdrawTx, Refund, Statuses, IsType
<1>3. /\ new \in Row /\ new.status = s /\ new.type = row.type
      /\ new.source = row.source /\ new.destination = row.destination
      /\ new.asset = row.asset /\ new.amount = row.amount /\ new.fee = row.fee
      /\ \A k \in TxIds \ {id} : txn'[k] = txn[k]
  BY <1>1, <1>2, RowDecided
<1>4. ASSUME NEW a \in Accounts
      PROVE  balance'[a] <= balance[a] + (Worth(new, a) - Worth(row, a))
  <2>1. balance[a] \in Int
    BY DEF LedgerTypeOK
  <2>2. CASE TopUpDecided(id)
    <3>1. row.type = "topup" /\ row.status = "pending" /\ row.asset = IDR
      BY <1>1, <2>2 DEF TopUpDecided, IsType, Sides
    <3>2. /\ Worth(row, a) = 0
          /\ Worth(new, a) = IF s = "success" /\ a = <<row.destination, IDR>>
                             THEN Whole(row.amount) ELSE 0
      BY <1>1, <1>3, <3>1 DEF Worth
    <3>3. \/ s = "success" /\ Credit(row.destination, IDR, Whole(row.amount))
          \/ s = "failed" /\ UNCHANGED balance
      BY <1>2, <3>1 DEF Refunded, Pended, Completed, IsType
    <3>4. s = "success" => balance'[a] = IF a = <<row.destination, IDR>>
                                         THEN balance[a] + Whole(row.amount) ELSE balance[a]
      BY <3>3, BalanceCredited
    <3> HIDE DEF row, new
    <3> QED
      BY <1>1, <2>1, <3>2, <3>3, <3>4
  <2>3. CASE ~ TopUpDecided(id)
    <3> DEFINE due == IF a = <<row.source, row.asset>> THEN row.amount + row.fee ELSE 0
    <3>1. row.type = "withdraw_fiat"
      BY <1>2, <2>3 DEF Refunded, Pended, Completed, IsType
    <3>2. /\ Worth(row, a) = 0 - (IF row.status = "pending" THEN due ELSE 0)
          /\ Worth(new, a) = 0 - (IF s = "pending" THEN due ELSE 0)
      BY <1>3, <3>1 DEF Worth
    <3>3. due \in Nat
      BY <1>1
    <3>4. CASE UNCHANGED balance
      <4>1. s = "pending" => row.status = "pending"
        BY <1>2, <2>3 DEF Pended
      <4> HIDE DEF due, row, new
      <4> QED
        BY <2>1, <3>2, <3>3, <3>4, <4>1
    <3>5. CASE /\ s = "failed" /\ row.status = "pending"
               /\ Credit(row.source, row.asset, row.amount + row.fee)
      <4>1. balance'[a] = IF a = <<row.source, row.asset>> THEN balance[a] + (row.amount + row.fee)
                          ELSE balance[a]
        BY <3>5, BalanceCredited
      <4>2. balance'[a] = balance[a] + due
        BY <1>1, <2>1, <4>1
      <4> HIDE DEF due, row, new
      <4> QED
        BY <2>1, <3>2, <3>3, <3>5, <4>2
    <3> QED
      BY <1>2, <2>3, <3>4, <3>5
  <2> QED
    BY <2>2, <2>3
<1>5. Exists(id)'
  BY <1>3 DEF Exists
<1> QED
  BY <1>1, <1>3, <1>4, <1>5, CoveredRow

\* What the rows are worth has been paid in.
LEMMA WorthIsPaid ==
  ASSUME RupiahInv, Covered
  PROVE  NoFreeMoney
<1> SUFFICES ASSUME NEW a \in Accounts PROVE balance[a] <= Opening[a] + PaidIn(a)
  BY DEF NoFreeMoney
<1>1. LedgerTypeOK
  BY DEF RupiahInv, LedgerInv
<1>2. ASSUME NEW id \in TxIds
      PROVE  Payments(a)[id] \in Int /\ Worths(a)[id] <= Payments(a)[id]
  <2>1. RowFits(id) /\ OrderFits(id)
    BY DEF RupiahInv, TopUpInv
  <2>2. CASE ~ Exists(id)
    BY <2>2 DEF Payments, Worths, TopUps, IsType
  <2>3. CASE Exists(id)
    <3> DEFINE row == txn[id]
    <3>1. row \in Row /\ row.amount \in Nat /\ row.fee \in Nat /\ Whole(row.amount) \in Nat
      BY <1>1, <2>3, WholeRupiah DEF LedgerTypeOK, Exists, Row
    <3>2. CASE row.type = "topup"
      <4>1. Worths(a)[id] = (IF row.status = "success" /\ a = <<row.destination, row.asset>>
                             THEN Whole(row.amount) ELSE 0)
        BY <2>3, <3>1, <3>2 DEF Worths, Worth
      <4>2. Payments(a)[id] = IF order[id] = "paid" /\ a = <<row.destination, row.asset>>
                              THEN Whole(row.amount) ELSE 0
        BY <2>1, <2>3, <3>2 DEF OrderFits, Payments, TopUps, IsType
      <4>3. row.status = "success" => order[id] = "paid"
        BY <2>1, <2>3, <3>2 DEF RowFits, IsType
      <4> HIDE DEF row
      <4> QED
        BY <3>1, <4>1, <4>2, <4>3
    <3>3. CASE row.type # "topup"
      <4>1. Payments(a)[id] = 0
        BY <3>3 DEF Payments, TopUps, IsType
      <4>2. Worths(a)[id] = 0 - (IF row.type = "withdraw_fiat" /\ row.status = "pending"
                                    /\ a = <<row.source, row.asset>>
                                 THEN row.amount + row.fee ELSE 0)
        BY <2>3, <3>1, <3>3 DEF Worths, Worth
      <4> HIDE DEF row
      <4> QED
        BY <3>1, <4>1, <4>2
    <3> QED
      BY <3>2, <3>3
  <2> QED
    BY <2>2, <2>3
<1>3. Adds(Worths(a), TxIds) /\ Adds(Payments(a), TxIds)
  BY <1>1, <1>2, WorthsAdd DEF Adds
<1>4. SumFunctionOnSet(Worths(a), TxIds) <= PaidIn(a)
  BY <1>2, <1>3, SumMonotone DEF PaidIn
<1>5. /\ SumFunctionOnSet(Worths(a), TxIds) \in Int /\ PaidIn(a) \in Int
      /\ balance[a] \in Int /\ Opening[a] \in Int
      /\ balance[a] <= Opening[a] + SumFunctionOnSet(Worths(a), TxIds)
  BY <1>1, <1>3, SumInt DEF PaidIn, LedgerTypeOK, Covered
<1> QED
  BY <1>4, <1>5

CoveredInv == BooksInv /\ Covered

LEMMA CoveredStep ==
  ASSUME OneAtATime, CallbackWaits, CoveredInv, [Next]_rupiahVars
  PROVE  CoveredInv'
<1>1. BooksInv /\ BooksInv' /\ RupiahInv /\ LedgerInv /\ LedgerInv' /\ Sides /\ Covered
  BY BooksStep DEF CoveredInv, BooksInv, RupiahInv
<1>2. CASE UNCHANGED ledgerVars
  <2>1. \A a : Worths(a)' = Worths(a)
    BY <1>2 DEF ledgerVars, Worths, Exists
  <2> QED
    BY <1>1, <1>2, <2>1 DEF ledgerVars, Covered, CoveredInv
<1>3. ASSUME NEW id \in TxIds, TopUpMoves(id) \/ FiatMoves(id)
      PROVE  Covered'
  BY <1>1, <1>3, AskedCovered, DecidedCovered DEF TopUpMoves, FiatMoves
<1> QED
  BY <1>1, <1>2, <1>3, MoneyMoves DEF CoveredInv

\* If the notifications of one order come one after the other and no callback of
\* Iris is processed before WithdrawFiat has finished, nobody's balance exceeds
\* what it was and what they have paid in: no payment is credited twice and no
\* withdrawal refunded twice, whatever is repeated, reordered, lost or cut short.
THEOREM RupiahNoFreeMoney ==
  ASSUME OneAtATime, CallbackWaits
  PROVE  Spec => []NoFreeMoney
<1>1. Init => CoveredInv
  <2> SUFFICES ASSUME Init PROVE CoveredInv
    OBVIOUS
  <2>1. BooksInv /\ LedgerInit
    BY RupiahStarts, OrderlyStarts DEF Init, TopUpInit, BooksInv, OrderlyInv, AnsweredIsAccounted
  <2>2. ASSUME NEW a \in Accounts
        PROVE  balance[a] <= Opening[a] + SumFunctionOnSet(Worths(a), TxIds)
    <3>1. \A id \in TxIds : Worths(a)[id] = 0
      BY <2>1 DEF LedgerInit, Worths, Exists
    <3>2. SumFunctionOnSet(Worths(a), TxIds) = 0
      BY <3>1, SumZero
    <3>3. Opening[a] \in Int /\ balance[a] = Opening[a]
      BY <2>1 DEF LedgerInit
    <3> QED
      BY <3>2, <3>3
  <2> QED
    BY <2>1, <2>2 DEF CoveredInv, Covered
<1>2. CoveredInv /\ [Next]_rupiahVars => CoveredInv'
  BY CoveredStep
<1>3. CoveredInv => NoFreeMoney
  BY WorthIsPaid DEF CoveredInv, BooksInv
<1> QED
  BY <1>1, <1>2, <1>3, PTL DEF Spec
=============================================================================
