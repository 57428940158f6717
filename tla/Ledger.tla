------------------------------- MODULE Ledger -------------------------------
(***************************************************************************)
(* The ledger its callers are promised: the wallet_balance and transaction *)
(* tables, and the methods of TransactionRepository, each of which happens *)
(* at one instant or not at all (domain/repository.go asks for "ACID       *)
(* database transactions and pessimistic locking").  LedgerTx runs the     *)
(* same methods statement by statement under PostgreSQL's row locks and    *)
(* implements this specification; the modules of the top-up and withdrawal *)
(* flows are built from these operations.                                  *)
(*                                                                         *)
(* A wallet is a number: its rank in the order of the UUID strings, which  *)
(* is all ExecuteTransferTx ever asks of a wallet's identity.  An amount   *)
(* is a decimal with a fraction: it is counted in parts of the asset, and  *)
(* a rupiah has OneRupiah of them.  Only whole rupiah leave for a bank or  *)
(* come in through Midtrans, and who cuts and who rounds matters.          *)
(***************************************************************************)
EXTENDS Integers, FiniteSets, FiniteSetsExt

CONSTANTS
  NumWallets,   \* how many wallets are registered
  Assets,       \* asset symbols: IDR, USDT, USDC
  IDR,          \* the fiat asset
  TxIds,        \* the primary keys the transaction table will ever hold
  Hashes,       \* blockchain transaction hashes
  NoHash,       \* tx_hash IS NULL
  NoRow,        \* no row with this key
  Amounts,      \* the amounts a request may carry
  OneRupiah,    \* the parts of one rupiah that amounts are counted in
  Fee,          \* fiatWithdrawAdminFee
  Opening       \* the balances when the behaviour starts

Wallets  == 1 .. NumWallets
Accounts == Wallets \X Assets      \* rows of wallet_balance: unique (wallet, asset)
Nil      == 0                      \* a NULL source_wallet_id or destination_wallet_id

Types    == {"topup", "withdraw_fiat", "crypto_withdrawal",
             "crypto_deposit", "transfer_fiat", "swap"}
Statuses == {"pending", "success", "failed"}

\* Whether a row has a midtrans_order_id: only CreatePendingTopUpTx sets one.
OrderIDs == {"none", "snap"}

\* fee is what was debited on top of the amount: the fee_charged of a fiat
\* withdrawal (a swap's fee is inside the amounts it moves).  toAsset and
\* toAmount are what a swap credited.  The program keeps that leg
\* only as rate_used, fee_charged and the notes, and no method reads it back.
Row == [type : Types, source : Wallets \cup {Nil}, destination : Wallets \cup {Nil},
        asset : Assets, amount : Nat, fee : Nat, status : Statuses,
        hash : Hashes \cup {NoHash}, orderID : OrderIDs,
        toAsset : Assets, toAmount : Nat]

ASSUME LedgerAssumption ==
  /\ NumWallets \in Nat \ {0}
  /\ IDR \in Assets
  /\ IsFiniteSet(TxIds)    \* a key is a UUID, of 128 bits
  /\ Amounts \subseteq Nat \ {0}
  /\ OneRupiah \in Nat \ {0}
  /\ Fee \in Nat
  /\ NoHash \notin Hashes
  /\ NoRow \notin Row
  /\ Opening \in [Accounts -> Nat]

-----------------------------------------------------------------------------
(***************************************************************************)
(* Whole rupiah.                                                           *)
(***************************************************************************)
\* IntPart: what CreateSnapTransaction asks Midtrans to charge.
Whole(n) == (n \div OneRupiah) * OneRupiah

\* Round(0): half a rupiah goes up.
Rounded(n) == ((n + OneRupiah \div 2) \div OneRupiah) * OneRupiah

Charges == {Whole(n) : n \in Amounts}     \* what a customer pays for a top-up
Payable == {Rounded(n) : n \in Amounts}   \* what a fiat withdrawal pays out

-----------------------------------------------------------------------------
VARIABLES
  balance,   \* wallet_balance.balance of every account
  txn        \* the transaction table: id -> row or NoRow

ledgerVars == <<balance, txn>>

LedgerInit ==
  /\ balance = Opening
  /\ txn = [id \in TxIds |-> NoRow]

-----------------------------------------------------------------------------
(***************************************************************************)
(* Rows.                                                                   *)
(***************************************************************************)
Entry(type, source, destination, asset, amount, status) ==
  [type |-> type, source |-> source, destination |-> destination,
   asset |-> asset, amount |-> amount, fee |-> 0, status |-> status,
   hash |-> NoHash, orderID |-> "none", toAsset |-> asset, toAmount |-> 0]

Exists(id) == txn[id] # NoRow

IsType(id, type) == Exists(id) /\ txn[id].type = type

\* Mutant: no unique index.
NoUniqueIndex(h) == h \in Hashes

\* The unique index on transaction.tx_hash.
HashUnused(h) == \A id \in TxIds : Exists(id) => txn[id].hash # h

\* Mutant: the admin fee is not paid back.
RefundAmountOnly(row) == row.amount

\* What RejectWithdrawFiatTx and RejectWithdrawCryptoTx pay back.  Only a fiat
\* withdrawal carries a fee_charged that was debited with the amount.
Refund(row) == row.amount + row.fee

Insert(id, row) ==
  /\ ~ Exists(id)
  /\ txn' = [txn EXCEPT ![id] = row]

\* Mutant: the provider's word is stored instead of the program's own.
SetProviderStatus(id, status) == txn' = [txn EXCEPT ![id].status = "settlement"]

SetStatus(id, status) == txn' = [txn EXCEPT ![id].status = status]

Debit(w, a, n)  == balance' = [balance EXCEPT ![<<w, a>>] = @ - n]
Credit(w, a, n) == balance' = [balance EXCEPT ![<<w, a>>] = @ + n]

-----------------------------------------------------------------------------
(***************************************************************************)
(* The methods of TransactionRepository.                                   *)
(***************************************************************************)
ExecuteTransferTx(id, s, r, a, n) ==
  /\ balance[<<s, a>>] >= n
  /\ balance' = [balance EXCEPT ![<<s, a>>] = @ - n, ![<<r, a>>] = @ + n]
  /\ Insert(id, Entry("transfer_fiat", s, r, a, n, "success"))

ExecuteTopUpTx(id, w, a, n) ==
  /\ Credit(w, a, n)
  /\ Insert(id, Entry("topup", Nil, w, a, n, "success"))

ExecuteWithdrawFiatTx(id, w, n) ==
  /\ balance[<<w, IDR>>] >= n + Fee
  /\ Debit(w, IDR, n + Fee)
  /\ Insert(id, [Entry("withdraw_fiat", w, Nil, IDR, n, "pending") EXCEPT !.fee = Fee])

CreatePendingTopUpTx(id, w, n) ==
  /\ Insert(id, [Entry("topup", Nil, w, IDR, n, "pending") EXCEPT !.orderID = "snap"])
  /\ UNCHANGED balance

\* Neither the row's status nor its amount is looked at: whoever calls this
\* credits the wallet with what the caller says.
SettleTopUpTx(id, w, n) ==
  /\ Exists(id)
  /\ Credit(w, IDR, n)
  /\ SetStatus(id, "success")

UpdateTransactionStatus(id, status) ==
  /\ Exists(id)
  /\ SetStatus(id, status)
  /\ UNCHANGED balance

CreditCryptoDeposit(id, w, a, n, h) ==
  /\ HashUnused(h)
  /\ Credit(w, a, n)
  /\ Insert(id, [Entry("crypto_deposit", Nil, w, a, n, "success") EXCEPT !.hash = h])

CreatePendingCryptoWithdrawTx(id, w, a, n) ==
  /\ balance[<<w, a>>] >= n
  /\ Debit(w, a, n)
  /\ Insert(id, Entry("crypto_withdrawal", w, Nil, a, n, "pending"))

UpdateCryptoWithdrawTx(id, h) ==
  /\ Exists(id)
  /\ HashUnused(h)
  /\ txn' = [txn EXCEPT ![id].status = "success", ![id].hash = h]
  /\ UNCHANGED balance

ExecuteSwapTx(id, w, from, to, n, m) ==
  /\ balance[<<w, from>>] >= n
  /\ balance' = [balance EXCEPT ![<<w, from>>] = @ - n, ![<<w, to>>] = @ + m]
  /\ Insert(id, [Entry("swap", w, Nil, from, n, "success")
                   EXCEPT !.toAsset = to, !.toAmount = m])

\* RejectWithdrawFiatTx and RejectWithdrawCryptoTx: the refund is paid once,
\* because only a pending row is refunded and it leaves as failed.
RejectWithdrawTx(id) ==
  /\ Exists(id)
  /\ txn[id].status = "pending"
  /\ txn[id].source # Nil
  /\ Credit(txn[id].source, txn[id].asset, Refund(txn[id]))
  /\ SetStatus(id, "failed")

-----------------------------------------------------------------------------
LedgerNext ==
  \E id \in TxIds :
    \/ \E w \in Wallets, n \in Amounts : CreatePendingTopUpTx(id, w, n)
    \/ \E w \in Wallets, n \in Payable : ExecuteWithdrawFiatTx(id, w, n)
    \/ \E w \in Wallets, n \in Charges : SettleTopUpTx(id, w, n)
    \/ \E w \in Wallets, a \in Assets, n \in Amounts :
         \/ ExecuteTopUpTx(id, w, a, n)
         \/ CreatePendingCryptoWithdrawTx(id, w, a, n)
         \/ \E h \in Hashes : CreditCryptoDeposit(id, w, a, n, h)
         \/ \E r \in Wallets \ {w} : ExecuteTransferTx(id, w, r, a, n)
         \/ \E to \in Assets \ {a}, m \in Amounts : ExecuteSwapTx(id, w, a, to, n, m)
    \/ \E status \in Statuses : UpdateTransactionStatus(id, status)
    \/ \E h \in Hashes : UpdateCryptoWithdrawTx(id, h)
    \/ RejectWithdrawTx(id)

LedgerSpec == LedgerInit /\ [][LedgerNext]_ledgerVars

-----------------------------------------------------------------------------
(***************************************************************************)
(* What the two tables say together.                                       *)
(***************************************************************************)
LedgerTypeOK ==
  /\ balance \in [Accounts -> Int]
  /\ txn \in [TxIds -> Row \cup {NoRow}]

\* No account is ever overdrawn: ErrInsufficientBalance is decided under the
\* row lock in every method that debits.
NonNegative == \A a \in Accounts : balance[a] >= 0

\* Withdrawals name the wallet they debited.
RowsFit ==
  \A id \in TxIds :
    IsType(id, "withdraw_fiat") \/ IsType(id, "crypto_withdrawal") => txn[id].source \in Wallets

\* What a step may do to the history: it deletes no row, and it rewrites
\* neither what a row is for nor whose account it is about.
Kept ==
  \A id \in TxIds : Exists(id) =>
    /\ txn'[id] # NoRow
    /\ txn'[id].type = txn[id].type
    /\ txn'[id].source = txn[id].source
    /\ txn'[id].asset = txn[id].asset

\* What a row brought to its destination.  A top-up Midtrans has an order for
\* was charged in whole rupiah, whatever fraction its row still shows.
Received(row) == IF row.orderID = "snap" THEN Whole(row.amount) ELSE row.amount

\* What a row of the history says it did to an account.
Effect(row, a) ==
  (IF a = <<row.source, row.asset>> /\ row.status # "failed" 
     THEN - (row.amount + row.fee) ELSE 0)
  + (IF a = <<row.destination, row.asset>> /\ row.status = "success" THEN Received(row) ELSE 0)
  + (IF a = <<row.source, row.toAsset>> /\ row.type = "swap" THEN row.toAmount ELSE 0)

Effects(a) == [id \in TxIds |-> IF Exists(id) THEN Effect(txn[id], a) ELSE 0]

\* Every balance is accounted for by the rows of the history, the refunded
\* withdrawals and the unpaid top-ups counting for nothing: no update is lost,
\* no top-up credited twice or with anything but what was charged for it, no
\* withdrawal refunded twice.
Journal == \A a \in Accounts : balance[a] = Opening[a] + SumFunctionOnSet(Effects(a), TxIds)

\* What the status column says of every key of the table.
RowStatus == [id \in TxIds |-> IF Exists(id) THEN txn[id].status ELSE "none"]

\* One blockchain transaction hash belongs to one row at most (NFR-SEC-005).
HashOnce ==
  \A i, k \in TxIds :
    /\ Exists(i) /\ Exists(k) /\ i # k
    /\ txn[i].hash # NoHash
    => txn[i].hash # txn[k].hash
=============================================================================
