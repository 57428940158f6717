------------------------------ MODULE LedgerTx ------------------------------
(***************************************************************************)
(* TransactionRepository statement by statement: every method is a         *)
(* database transaction of r.db.Transaction, run by some goroutine of the  *)
(* server (an HTTP handler, a webhook, a broadcast, the chain listener) at *)
(* PostgreSQL's READ COMMITTED level.                                      *)
(*                                                                         *)
(* A method locks the rows it works on one after the other, SELECT ... FOR *)
(* UPDATE or the row lock an UPDATE takes, keeps what it read in memory,   *)
(* computes the new balances from that copy and writes them.  The writes   *)
(* become visible, and the locks are released, when it commits.  No method *)
(* needs more than two rows.  An inserted tx_hash is a key of the unique   *)
(* index: a second insert of it waits for the first one to end.            *)
(*                                                                         *)
(* Nothing here is atomic but a statement, and still every commit is one   *)
(* step of Ledger: that is the property LedgerSpec.                        *)
(***************************************************************************)
EXTENDS Ledger

CONSTANTS
  Procs,        \* the goroutines that run repository methods
  Nobody,       \* holder of an unlocked row
  Methods,      \* the repository methods the goroutines call
  TakeTurns,    \* callers of a status update of one row never overlap (see MayCall)
  MaxBalance    \* bound: no method is called once an account has more than this

VARIABLES
  job,          \* the method and arguments a goroutine is running, or NoJob
  pc,           \* which statement it is at
  seen,         \* the balances it has read, by account
  holder        \* the goroutine whose transaction has the row locked

txVars == <<balance, txn, job, pc, seen, holder>>

Keys == Accounts \cup TxIds \cup Hashes

ASSUME LedgerTxAssumption ==
  /\ Accounts \cap (TxIds \cup Hashes) = {}
  /\ TxIds \cap Hashes = {}
  /\ Nobody \notin Procs
  /\ TakeTurns \in BOOLEAN

-----------------------------------------------------------------------------
(***************************************************************************)
(* The calls.                                                              *)
(***************************************************************************)
TransferJobs == [op : {"Transfer"}, sender : Wallets, recipient : Wallets,
                 asset : Assets, amount : Amounts]
TopUpJobs    == [op : {"TopUp"}, wallet : Wallets, asset : Assets, amount : Amounts]
FiatJobs     == [op : {"WithdrawFiat"}, wallet : Wallets, amount : Payable]
CryptoJobs   == [op : {"WithdrawCrypto"}, wallet : Wallets, asset : Assets, amount : Amounts]
SettleJobs   == [op : {"Settle"}, id : TxIds, wallet : Wallets, amount : Charges]
StatusJobs   == [op : {"Status"}, id : TxIds, status : Statuses]
SentJobs     == [op : {"Sent"}, id : TxIds, hash : Hashes]
RejectJobs   == [op : {"Reject"}, id : TxIds]
DepositJobs  == [op : {"Deposit"}, wallet : Wallets, asset : Assets, amount : Amounts,
                 hash : Hashes]
SwapJobs     == [op : {"Swap"}, wallet : Wallets, from : Assets, to : Assets,
                 amount : Amounts, toAmount : Amounts]

Jobs == TransferJobs \cup TopUpJobs \cup FiatJobs \cup CryptoJobs \cup SettleJobs
          \cup StatusJobs \cup SentJobs \cup RejectJobs \cup DepositJobs \cup SwapJobs

NoJob == [op |-> "none"]

OnRow == {"Settle", "Status", "Sent", "Reject"}   \* the methods given a transaction_id

Active(p) == pc[p] # "idle"

\* Mutant: a transfer locks the sender's row first.
SenderFirst(j) == FALSE

\* ExecuteTransferTx locks the lower UUID first.
RecipientFirst(j) == j.sender > j.recipient

Lower(j)  == IF RecipientFirst(j) THEN j.recipient ELSE j.sender
Higher(j) == IF RecipientFirst(j) THEN j.sender ELSE j.recipient

\* The row a method locks first, and the one it locks after that.  A method
\* that needs a single row has First = Second.
First(j) ==
  CASE j.op = "Transfer"                                 -> <<Lower(j), j.asset>>
    [] j.op \in {"TopUp", "WithdrawCrypto", "Deposit"}   -> <<j.wallet, j.asset>>
    [] j.op \in {"WithdrawFiat", "Settle"}               -> <<j.wallet, IDR>>
    [] j.op = "Swap"                                     -> <<j.wallet, j.from>>
    [] j.op \in {"Status", "Sent", "Reject"}             -> j.id

Second(j) ==
  CASE j.op = "Transfer"                   -> <<Higher(j), j.asset>>
    [] j.op = "Swap"                       -> <<j.wallet, j.to>>
    [] j.op = "Settle"                     -> j.id
    [] j.op = "Reject"                     -> <<txn[j.id].source, txn[j.id].asset>>
    [] j.op \in {"Deposit", "Sent"}        -> j.hash
    [] OTHER                               -> First(j)

\* The row a goroutine is waiting for, or about to lock.
Wanted(p) == IF pc[p] = "first" THEN First(job[p]) ELSE Second(job[p])

\* The goroutine p cannot go on before q's transaction ends.
WaitsFor(p, q) == pc[p] \in {"first", "second"} /\ holder[Wanted(p)] = q

\* A wait cycle: nobody in S can go on before another member of S ends.
Deadlocked(S) == S # {} /\ \A p \in S : \E q \in S : WaitsFor(p, q)

-----------------------------------------------------------------------------
(***************************************************************************)
(* Which calls the program makes.  A usecase looks at the row without a    *)
(* lock before it calls: a webhook settles or fails a top-up it read as    *)
(* pending, an Iris callback completes or rejects a fiat withdrawal, the   *)
(* broadcast goroutine completes or rejects its crypto withdrawal, the     *)
(* listener credits a hash no row has.  The amount a webhook settles is    *)
(* the gross_amount of its notification, and nothing compares it with the  *)
(* row.  TakeTurns says in addition that the callers concerned with one    *)
(* row take turns, report one outcome and, of a top-up, the whole rupiah   *)
(* Midtrans was asked to charge: nothing in the code ensures it, the       *)
(* modules of the flows examine when it holds.                             *)
(***************************************************************************)
Pending(id) == Exists(id) /\ txn[id].status = "pending"

MayCall(j) ==
  CASE j.op = "Transfer" -> j.sender # j.recipient
    [] j.op = "Swap"     -> j.from # j.to
    [] j.op = "Deposit"  -> HashUnused(j.hash)
    [] j.op = "Settle"   -> /\ IsType(j.id, "topup")
                            /\ Pending(j.id)
                            /\ j.wallet = txn[j.id].destination
    [] j.op = "Status"   -> \/ IsType(j.id, "topup") /\ Pending(j.id) /\ j.status = "failed"
                            \/ IsType(j.id, "withdraw_fiat") /\ j.status \in {"pending", "success"}
    [] j.op = "Sent"     -> IsType(j.id, "crypto_withdrawal")
    [] j.op = "Reject"   -> IsType(j.id, "withdraw_fiat") \/ IsType(j.id, "crypto_withdrawal")
    [] OTHER             -> TRUE

OwnTurn(j) == j.op \in OnRow =>
  /\ Pending(j.id)
  /\ j.op = "Settle" => j.amount = Whole(txn[j.id].amount)
  /\ \A p \in Procs : job[p].op \in OnRow => job[p].id # j.id

\* TxIds bounds the table: a method that inserts is called only while there
\* is a key for it.
HasKey(j) == j.op \in OnRow \/
  Cardinality({p \in Procs : Active(p) /\ job[p].op \notin OnRow})
    < Cardinality({id \in TxIds : ~ Exists(id)})

\* A status written over the outcome of a refund lets the refund be repeated,
\* so that balances would grow without end.
HasRoom == \A a \in Accounts : balance[a] <= MaxBalance

\* Opens the database transaction.
Begin(p, j) ==
  /\ pc[p] = "idle"
  /\ j.op \in Methods
  /\ HasKey(j) /\ HasRoom
  /\ MayCall(j)
  /\ TakeTurns => OwnTurn(j)
  /\ job' = [job EXCEPT ![p] = j]
  /\ pc' = [pc EXCEPT ![p] = "first"]
  /\ UNCHANGED <<balance, txn, seen, holder>>

\* CreatePendingTopUpTx is a single INSERT.
Open(p) ==
  /\ pc[p] = "idle"
  /\ "Open" \in Methods
  /\ HasKey([op |-> "Open"])
  /\ \E id \in TxIds, w \in Wallets, n \in Amounts : CreatePendingTopUpTx(id, w, n)
  /\ UNCHANGED <<job, pc, seen, holder>>

\* Mutant: SELECT without FOR UPDATE, which does not wait for the row.
LockWithoutWaiting(p, k) ==
  /\ holder' = [holder EXCEPT ![k] = p]
  /\ seen' = IF k \in Accounts THEN [seen EXCEPT ![p][k] = balance[k]] ELSE seen

\* SELECT ... FOR UPDATE, or the lock of an UPDATE or INSERT: it waits until
\* the row is free, and a balance is read as committed at that moment.
Lock(p, k) ==
  /\ holder[k] = Nobody
  /\ holder' = [holder EXCEPT ![k] = p]
  /\ seen' = IF k \in Accounts THEN [seen EXCEPT ![p][k] = balance[k]] ELSE seen

LockFirst(p) ==
  /\ pc[p] = "first"
  /\ Lock(p, First(job[p]))
  /\ pc' = [pc EXCEPT ![p] = IF Second(job[p]) = First(job[p]) THEN "write" ELSE "second"]
  /\ UNCHANGED <<balance, txn, job>>

\* Mutant: a rejection that forgets to look at the status.
GoesOnWhateverStatus(p) ==
  job[p].op = "Swap" => seen[p][First(job[p])] >= job[p].amount

\* The checks between the two locks: ExecuteSwapTx compares the balance it
\* read, a rejection looks at the status of the row it has locked.
GoesOn(p) ==
  LET j == job[p] IN
  CASE j.op = "Swap"   -> seen[p][First(j)] >= j.amount
    [] j.op = "Reject" -> txn[j.id].status = "pending" /\ txn[j.id].source # Nil
    [] OTHER           -> TRUE

LockSecond(p) ==
  /\ pc[p] = "second"
  /\ GoesOn(p)
  /\ Lock(p, Second(job[p]))
  /\ pc' = [pc EXCEPT ![p] = "write"]
  /\ UNCHANGED <<balance, txn, job>>

\* Mutant: the admin fee is debited but not checked for.
AcceptedWithoutFee(p) ==
  LET j == job[p] IN
  CASE j.op = "Transfer"           -> seen[p][<<j.sender, j.asset>>] >= j.amount
    [] j.op = "WithdrawFiat"       -> seen[p][<<j.wallet, IDR>>] >= j.amount
    [] j.op = "WithdrawCrypto"     -> seen[p][<<j.wallet, j.asset>>] >= j.amount
    [] j.op \in {"Deposit", "Sent"} -> HashUnused(j.hash)
    [] OTHER                       -> TRUE

\* The checks before the writes, and the unique index on tx_hash.
Accepted(p) ==
  LET j == job[p] IN
  CASE j.op = "Transfer"           -> seen[p][<<j.sender, j.asset>>] >= j.amount
    [] j.op = "WithdrawFiat"       -> seen[p][<<j.wallet, IDR>>] >= j.amount + Fee
    [] j.op = "WithdrawCrypto"     -> seen[p][<<j.wallet, j.asset>>] >= j.amount
    [] j.op \in {"Deposit", "Sent"} -> HashUnused(j.hash)
    [] OTHER                       -> TRUE

\* Mutant: a transaction that ends without releasing its row locks.
EndWithoutRelease(p) ==
  /\ job' = [job EXCEPT ![p] = NoJob]
  /\ pc' = [pc EXCEPT ![p] = "idle"]
  /\ seen' = [seen EXCEPT ![p] = [a \in Accounts |-> 0]]
  /\ UNCHANGED holder

\* The transaction ends: its locks go, and so does the goroutine's copy.
End(p) ==
  /\ job' = [job EXCEPT ![p] = NoJob]
  /\ pc' = [pc EXCEPT ![p] = "idle"]
  /\ seen' = [seen EXCEPT ![p] = [a \in Accounts |-> 0]]
  /\ holder' = [k \in Keys |-> IF holder[k] = p THEN Nobody ELSE holder[k]]

\* The method returns before it has written: an insufficient balance, a row
\* that is not pending, a hash the unique index refuses.
Refuse(p) ==
  /\ \/ pc[p] = "second" /\ ~ GoesOn(p)
     \/ pc[p] = "write" /\ ~ Accepted(p)
  /\ End(p)
  /\ UNCHANGED ledgerVars

\* Any statement may fail: a lost connection, a timeout, a crash of the server.
DbError(p) ==
  /\ Active(p)
  /\ End(p)
  /\ UNCHANGED ledgerVars

\* PostgreSQL finds a wait cycle and aborts one of its transactions.
DeadlockVictim(p) ==
  /\ \E S \in SUBSET Procs : p \in S /\ Deadlocked(S)
  /\ End(p)
  /\ UNCHANGED ledgerVars

-----------------------------------------------------------------------------
(***************************************************************************)
(* The writes and the commit, method by method.  Every new balance is      *)
(* computed from the goroutine's copy, never from the table.               *)
(***************************************************************************)
Writing(p, op) == pc[p] = "write" /\ job[p].op = op /\ Accepted(p)

Write(p, a, delta) == balance' = [balance EXCEPT ![a] = seen[p][a] + delta]

WriteTwo(p, a, m, b, n) ==
  balance' = [balance EXCEPT ![a] = seen[p][a] + m, ![b] = seen[p][b] + n]

CommitTransfer(p) ==
  LET j == job[p] IN
  /\ Writing(p, "Transfer")
  /\ WriteTwo(p, <<j.sender, j.asset>>, - j.amount, <<j.recipient, j.asset>>, j.amount)
  /\ \E id \in TxIds :
       Insert(id, Entry("transfer_fiat", j.sender, j.recipient, j.asset, j.amount, "success"))
  /\ End(p)

CommitTopUp(p) ==
  LET j == job[p] IN
  /\ Writing(p, "TopUp")
  /\ Write(p, <<j.wallet, j.asset>>, j.amount)
  /\ \E id \in TxIds : Insert(id, Entry("topup", Nil, j.wallet, j.asset, j.amount, "success"))
  /\ End(p)

CommitWithdrawFiat(p) ==
  LET j == job[p] IN
  /\ Writing(p, "WithdrawFiat")
  /\ Write(p, <<j.wallet, IDR>>, - (j.amount + Fee))
  /\ \E id \in TxIds :
       Insert(id, [Entry("withdraw_fiat", j.wallet, Nil, IDR, j.amount, "pending")
                     EXCEPT !.fee = Fee])
  /\ End(p)

CommitWithdrawCrypto(p) ==
  LET j == job[p] IN
  /\ Writing(p, "WithdrawCrypto")
  /\ Write(p, <<j.wallet, j.asset>>, - j.amount)
  /\ \E id \in TxIds :
       Insert(id, Entry("crypto_withdrawal", j.wallet, Nil, j.asset, j.amount, "pending"))
  /\ End(p)

CommitSettle(p) ==
  LET j == job[p] IN
  /\ Writing(p, "Settle")
  /\ Write(p, <<j.wallet, IDR>>, j.amount)
  /\ SetStatus(j.id, "success")
  /\ End(p)

CommitStatus(p) ==
  /\ Writing(p, "Status")
  /\ SetStatus(job[p].id, job[p].status)
  /\ End(p)
  /\ UNCHANGED balance

CommitSent(p) ==
  LET j == job[p] IN
  /\ Writing(p, "Sent")
  /\ txn' = [txn EXCEPT ![j.id].status = "success", ![j.id].hash = j.hash]
  /\ End(p)
  /\ UNCHANGED balance

CommitReject(p) ==
  LET row == txn[job[p].id] IN
  /\ Writing(p, "Reject")
  /\ Write(p, <<row.source, row.asset>>, Refund(row))
  /\ SetStatus(job[p].id, "failed")
  /\ End(p)

CommitDeposit(p) ==
  LET j == job[p] IN
  /\ Writing(p, "Deposit")
  /\ Write(p, <<j.wallet, j.asset>>, j.amount)
  /\ \E id \in TxIds :
       Insert(id, [Entry("crypto_deposit", Nil, j.wallet, j.asset, j.amount, "success")
                     EXCEPT !.hash = j.hash])
  /\ End(p)

CommitSwap(p) ==
  LET j == job[p] IN
  /\ Writing(p, "Swap")
  /\ WriteTwo(p, <<j.wallet, j.from>>, - j.amount, <<j.wallet, j.to>>, j.toAmount)
  /\ \E id \in TxIds :
       Insert(id, [Entry("swap", j.wallet, Nil, j.from, j.amount, "success")
                     EXCEPT !.toAsset = j.to, !.toAmount = j.toAmount])
  /\ End(p)

Commit(p) ==
  \/ CommitTransfer(p)
  \/ CommitTopUp(p)
  \/ CommitWithdrawFiat(p)
  \/ CommitWithdrawCrypto(p)
  \/ CommitSettle(p)
  \/ CommitStatus(p)
  \/ CommitSent(p)
  \/ CommitReject(p)
  \/ CommitDeposit(p)
  \/ CommitSwap(p)

-----------------------------------------------------------------------------
Init ==
  /\ LedgerInit
  /\ job = [p \in Procs |-> NoJob]
  /\ pc = [p \in Procs |-> "idle"]
  /\ seen = [p \in Procs |-> [a \in Accounts |-> 0]]
  /\ holder = [k \in Keys |-> Nobody]

Next ==
  \E p \in Procs :
    \/ \E j \in Jobs : Begin(p, j)
    \/ Open(p)
    \/ LockFirst(p)
    \/ LockSecond(p)
    \/ Refuse(p)
    \/ DbError(p)
    \/ DeadlockVictim(p)
    \/ Commit(p)

Spec == Init /\ [][Next]_txVars

\* A statement that can run does run, a transaction PostgreSQL finds in a wait
\* cycle is aborted, and a row lock reaches every goroutine that keeps asking
\* for it: PostgreSQL queues the waiters of a row.  Nothing is assumed of
\* DbError or of the callers.
Fairness ==
  \A p \in Procs :
    /\ WF_txVars(Refuse(p)) /\ WF_txVars(Commit(p)) /\ WF_txVars(DeadlockVictim(p))
    /\ SF_txVars(LockFirst(p)) /\ SF_txVars(LockSecond(p))

FairSpec == Spec /\ Fairness

-----------------------------------------------------------------------------
(***************************************************************************)
(* Properties.                                                             *)
(***************************************************************************)
TypeOK ==
  /\ LedgerTypeOK
  /\ job \in [Procs -> Jobs \cup {NoJob}]
  /\ pc \in [Procs -> {"idle", "first", "second", "write"}]
  /\ seen \in [Procs -> [Accounts -> Int]]
  /\ holder \in [Keys -> Procs \cup {Nobody}]

\* The rows a goroutine has locked, by the statement it is at.
Locked(p) ==
  CASE pc[p] = "second" -> {First(job[p])}
    [] pc[p] = "write"  -> {First(job[p]), Second(job[p])}
    [] OTHER            -> {}

\* The locks in the table are exactly those the goroutines' statements took:
\* no two goroutines hold one row and none is left behind by a transaction
\* that ended in an error.
LocksMatch ==
  \A k \in Keys, p \in Procs : holder[k] = p <=> k \in Locked(p)

\* What the checks of the callers leave true for as long as the method runs: a
\* transfer has two wallets and a swap two assets, the row a method is given
\* exists and is of the method's type.
JobsFit ==
  \A p \in Procs :
    /\ Active(p) <=> job[p] # NoJob
    /\ job[p].op = "Transfer" => job[p].sender # job[p].recipient
    /\ job[p].op = "Swap" => job[p].from # job[p].to
    /\ job[p].op \in OnRow => Exists(job[p].id)
    /\ job[p].op = "Settle" => IsType(job[p].id, "topup")
    /\ job[p].op = "Sent" => IsType(job[p].id, "crypto_withdrawal")
    /\ job[p].op = "Reject" => \/ IsType(job[p].id, "withdraw_fiat")
                              \/ IsType(job[p].id, "crypto_withdrawal")

\* The copy a goroutine computes the new balance from is the balance itself
\* for as long as it holds the row: no other method writes in between.
FreshCopy ==
  \A p \in Procs : \A a \in Accounts : holder[a] = p => seen[p][a] = balance[a]

\* What a method checked between its two locks is still true when it writes: a
\* rejection refunds a row that is pending, a swap takes what is there.
ChecksHold ==
  \A p \in Procs : pc[p] = "write" =>
    /\ job[p].op = "Reject" => Pending(job[p].id)
    /\ job[p].op = "Swap" => balance[First(job[p])] >= job[p].amount

\* The inductive invariant of the theorems.
Inv ==
  TypeOK /\ RowsFit /\ JobsFit /\ LocksMatch /\ FreshCopy /\ ChecksHold /\ NonNegative

\* Transactions that lock rows in the order of ExecuteTransferTx ("consistent
\* order (lower UUID first) to prevent database deadlocks"), a withdrawal's row
\* before its account and an account before a top-up's row or a hash, never
\* wait for each other in a circle: every wait cycle contains a swap.
CycleNeedsSwap ==
  \A S \in SUBSET Procs : Deadlocked(S) => \E p \in S : job[p].op = "Swap"

\* No goroutine hangs in the repository: whatever the others hold, every
\* transaction that was begun ends, in a commit or in an error.
EveryTransactionEnds == \A p \in Procs : Active(p) ~> ~ Active(p)
=============================================================================
