------------------------------- MODULE TopUp -------------------------------
(***************************************************************************)
(* Topping up with Midtrans: walletUsecase.TopUp records a pending row and *)
(* asks Snap for a payment page; the customer pays there; Midtrans posts   *)
(* notifications until it is answered 200, as often and in whatever order  *)
(* it likes; webhookUsecase.ProcessMidtransNotification reads the row,     *)
(* finds it pending or not, and then acts in a second database call.       *)
(*                                                                         *)
(* The row keeps the amount that was asked for, fraction included; Snap is *)
(* asked to charge the whole rupiah of it; the wallet is credited with the *)
(* gross_amount of the notification.  Nothing compares the three.          *)
(*                                                                         *)
(* The two database calls of a handler are separate steps.  Each is atomic *)
(* (Ledger), what lies between them is not.                                *)
(***************************************************************************)
EXTENDS Ledger

CONSTANTS
  Handlers,     \* the goroutines that serve POST /webhooks/midtrans
  OneAtATime,   \* notifications of one order are delivered one after the other
  Reviews       \* Midtrans may hold a card payment for fraud review

ASSUME TopUpAssumption == OneAtATime \in BOOLEAN /\ Reviews \in BOOLEAN

VARIABLES
  charge,   \* where walletUsecase.TopUp is, by row
  order,    \* the order at Midtrans
  gross,    \* its gross_amount, which every notification of it repeats
  sent,     \* the notifications Midtrans has sent at least once
  unacked,  \* those of them not yet answered 200
  work      \* the notification a handler has read a pending row for, or Idle

topUpVars == <<balance, txn, charge, order, gross, sent, unacked, work>>

\* transaction_status and fraud_status of a notification.  "challenge" is a
\* capture that is not accepted, "expire" stands for deny and cancel too.
Credits == {"capture", "settlement"}
Fails   == {"challenge", "expire"}
Notices == Credits \cup Fails \cup {"pending"}

Idle == [id |-> NoRow, notice |-> "none"]

Task == [id : TxIds, notice : Credits \cup Fails]

Pending(id) == Exists(id) /\ txn[id].status = "pending"

-----------------------------------------------------------------------------
(***************************************************************************)
(* walletUsecase.TopUp.                                                    *)
(***************************************************************************)
RequestTopUp(id) ==
  /\ \E w \in Wallets, n \in Amounts : CreatePendingTopUpTx(id, w, n)
  /\ charge' = [charge EXCEPT ![id] = "charging"]
  /\ UNCHANGED <<order, gross, sent, unacked, work>>

\* CreateSnapTransaction cuts the amount to whole rupiah; the row does not
\* learn of it.
SnapAnswers(id) ==
  /\ charge[id] = "charging"
  /\ charge' = [charge EXCEPT ![id] = "done"]
  /\ order' = [order EXCEPT ![id] = "open"]
  /\ gross' = [gross EXCEPT ![id] = Whole(txn[id].amount)]
  /\ sent' = [sent EXCEPT ![id] = {"pending"}]
  /\ unacked' = [unacked EXCEPT ![id] = {"pending"}]
  /\ UNCHANGED <<ledgerVars, work>>

\* Without an answer the customer has no payment page to pay at.
SnapFails(id) ==
  /\ charge[id] = "charging"
  /\ charge' = [charge EXCEPT ![id] = "refused"]
  /\ UNCHANGED <<ledgerVars, order, gross, sent, unacked, work>>

\* The error of this update is thrown away.
FailRequest(id) ==
  /\ charge[id] = "refused"
  /\ charge' = [charge EXCEPT ![id] = "done"]
  /\ UpdateTransactionStatus(id, "failed") \/ UNCHANGED ledgerVars
  /\ UNCHANGED <<order, gross, sent, unacked, work>>

-----------------------------------------------------------------------------
(***************************************************************************)
(* Midtrans.                                                               *)
(***************************************************************************)
Announce(id, state, notices) ==
  /\ order' = [order EXCEPT ![id] = state]
  /\ sent' = [sent EXCEPT ![id] = @ \cup notices]
  /\ unacked' = [unacked EXCEPT ![id] = @ \cup notices]
  /\ UNCHANGED <<ledgerVars, charge, gross, work>>

\* A bank transfer or QRIS payment settles, a card payment is captured first.
PayOrder(id) ==
  /\ order[id] \in {"open", "review"}
  /\ \/ Announce(id, "paid", {"settlement"})
     \/ Announce(id, "paid", {"capture", "settlement"})

Hold(id) ==
  /\ Reviews
  /\ order[id] = "open"
  /\ Announce(id, "review", {"challenge"})

Close(id) ==
  /\ order[id] \in {"open", "review"}
  /\ Announce(id, "closed", {"expire"})

-----------------------------------------------------------------------------
(***************************************************************************)
(* webhookUsecase.ProcessMidtransNotification.                             *)
(***************************************************************************)
Ack(id, notice) == unacked' = [unacked EXCEPT ![id] = @ \ {notice}]

\* Mutant: the row's status is not looked at.
ReceiveAny(h, id, notice) ==
  /\ work[h] = Idle
  /\ notice \in sent[id]
  /\ OneAtATime => \A g \in Handlers : work[g].id # id
  /\ \/ /\ Exists(id)
        /\ notice \in Credits \cup Fails
        /\ work' = [work EXCEPT ![h] = [id |-> id, notice |-> notice]]
        /\ UNCHANGED unacked
     \/ /\ ~ (Exists(id) /\ notice \in Credits \cup Fails)
        /\ Ack(id, notice)
        /\ UNCHANGED work
  /\ UNCHANGED <<ledgerVars, charge, order, gross, sent>>

\* GetTransactionByOrderID, a read without a lock.  A row that is no longer
\* pending, or a transaction_status the switch does not know, is answered 200.
Receive(h, id, notice) ==
  /\ work[h] = Idle
  /\ notice \in sent[id]
  /\ OneAtATime => \A g \in Handlers : work[g].id # id
  /\ \/ /\ Pending(id)
        /\ notice \in Credits \cup Fails
        /\ work' = [work EXCEPT ![h] = [id |-> id, notice |-> notice]]
        /\ UNCHANGED unacked
     \/ /\ ~ (Pending(id) /\ notice \in Credits \cup Fails)
        /\ Ack(id, notice)
        /\ UNCHANGED work
  /\ UNCHANGED <<ledgerVars, charge, order, gross, sent>>

Finish(h) ==
  /\ Ack(work[h].id, work[h].notice)
  /\ work' = [work EXCEPT ![h] = Idle]
  /\ UNCHANGED <<charge, order, gross, sent>>

\* Mutant: an expired order is settled.
SettleEverything(h) ==
  /\ work[h] # Idle
  /\ SettleTopUpTx(work[h].id, txn[work[h].id].destination, gross[work[h].id])
  /\ Finish(h)

\* Mutant: the amount of the row is credited.
SettleRowAmount(h) ==
  /\ work[h].notice \in Credits
  /\ SettleTopUpTx(work[h].id, txn[work[h].id].destination, txn[work[h].id].amount)
  /\ Finish(h)

\* settleTransaction credits the gross_amount of the notification.
Settle(h) ==
  /\ work[h].notice \in Credits
  /\ SettleTopUpTx(work[h].id, txn[work[h].id].destination, gross[work[h].id])
  /\ Finish(h)

\* failTransaction.
Fail(h) ==
  /\ work[h].notice \in Fails
  /\ UpdateTransactionStatus(work[h].id, "failed")
  /\ Finish(h)

\* Mutant: the error is only logged and the answer is 200.
AnswerErrorWith200(h) ==
  /\ work[h] # Idle
  /\ Finish(h)
  /\ UNCHANGED ledgerVars

\* The database call fails: the answer is 500 and Midtrans will post again.
AnswerError(h) ==
  /\ work[h] # Idle
  /\ work' = [work EXCEPT ![h] = Idle]
  /\ UNCHANGED <<ledgerVars, charge, order, gross, sent, unacked>>

\* The server dies: requests and handlers are gone, the table is not.
TopUpCrash ==
  /\ charge' = [id \in TxIds |-> IF charge[id] = "none" THEN "none" ELSE "done"]
  /\ work' = [h \in Handlers |-> Idle]
  /\ UNCHANGED <<ledgerVars, order, gross, sent, unacked>>

-----------------------------------------------------------------------------
TopUpInit ==
  /\ LedgerInit
  /\ charge = [id \in TxIds |-> "none"]
  /\ order = [id \in TxIds |-> "none"]
  /\ gross = [id \in TxIds |-> 0]
  /\ sent = [id \in TxIds |-> {}]
  /\ unacked = [id \in TxIds |-> {}]
  /\ work = [h \in Handlers |-> Idle]

TopUpStep ==
  \/ \E id \in TxIds :
       \/ RequestTopUp(id) \/ SnapAnswers(id) \/ SnapFails(id) \/ FailRequest(id)
       \/ PayOrder(id) \/ Hold(id) \/ Close(id)
       \/ \E h \in Handlers, notice \in Notices : Receive(h, id, notice)
  \/ \E h \in Handlers : Settle(h) \/ Fail(h) \/ AnswerError(h)

TopUpNext == TopUpStep \/ TopUpCrash

TopUpSpec == TopUpInit /\ [][TopUpNext]_topUpVars

\* Midtrans posts its notifications of an order again until they are answered
\* 200, and not every database call fails.  Nobody has to pay.
TopUpFairness ==
  /\ \A id \in TxIds :
       SF_topUpVars(\E h \in Handlers, notice \in unacked[id] : Receive(h, id, notice))
  /\ SF_topUpVars(\E h \in Handlers : Settle(h) \/ Fail(h))

FairTopUpSpec == TopUpSpec /\ TopUpFairness

-----------------------------------------------------------------------------
(***************************************************************************)
(* Properties.                                                             *)
(***************************************************************************)
TopUpTypeOK ==
  /\ LedgerTypeOK
  /\ charge \in [TxIds -> {"none", "charging", "refused", "done"}]
  /\ order \in [TxIds -> {"none", "open", "review", "paid", "closed"}]
  /\ gross \in [TxIds -> Nat]
  /\ sent \in [TxIds -> SUBSET Notices]
  /\ unacked \in [TxIds -> SUBSET Notices]
  /\ work \in [Handlers -> Task \cup {Idle}]

\* The row a handler is about to settle or to fail is still the pending row it
\* read: nobody else has decided the order in between.
ReadStillTrue == \A h \in Handlers : work[h] # Idle => Pending(work[h].id)

TopUps == {id \in TxIds : IsType(id, "topup")}

\* Money enters a wallet only for an order the customer has paid.
CreditNeedsPayment ==
  \A id \in TopUps : RowStatus[id] = "success" => order[id] = "paid"

\* An order is decided once, and its outcome is never overwritten: neither by
\* a second notification nor by the request that opened it.
Outcome == INSTANCE Outcome WITH
  Ids <- TxIds,
  outcome <- [id \in TxIds |-> IF IsType(id, "topup") THEN txn[id].status ELSE "none"]

DecidedOnce == Outcome!Spec

\* A customer who has paid gets the money, whatever was lost, repeated or out
\* of order on the way, if Midtrans did not hold the payment for review.
PaidIsCredited ==
  \A id \in TxIds :
    order[id] = "paid" /\ "challenge" \notin sent[id] ~> RowStatus[id] = "success"
=============================================================================
