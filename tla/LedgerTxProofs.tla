--------------------------- MODULE LedgerTxProofs ---------------------------
(***************************************************************************)
(* Theorems about LedgerTx, for any number of wallets, goroutines, rows    *)
(* and hashes.                                                             *)
(***************************************************************************)
EXTENDS LedgerTx, LedgerProofs, TLAPS

-----------------------------------------------------------------------------
USE LedgerAssumption, LedgerTxAssumption

\* The arguments of a running method, by its name.
LEMMA JobTypes ==
  ASSUME NEW j \in Jobs \cup {NoJob}
  PROVE  /\ j.op = "Transfer"       => j \in TransferJobs
         /\ j.op = "TopUp"          => j \in TopUpJobs
         /\ j.op = "WithdrawFiat"   => j \in FiatJobs
         /\ j.op = "WithdrawCrypto" => j \in CryptoJobs
         /\ j.op = "Settle"         => j \in SettleJobs
         /\ j.op = "Status"         => j \in StatusJobs
         /\ j.op = "Sent"           => j \in SentJobs
         /\ j.op = "Reject"         => j \in RejectJobs
         /\ j.op = "Deposit"        => j \in DepositJobs
         /\ j.op = "Swap"           => j \in SwapJobs
BY DEF Jobs, NoJob, TransferJobs, TopUpJobs, FiatJobs, CryptoJobs, SettleJobs, StatusJobs,
       SentJobs, RejectJobs, DepositJobs, SwapJobs

LEMMA AmountNat ==
  \A n \in Amounts \cup Charges \cup Payable : n \in Nat /\ n \in Int /\ - n \in Int
BY SumsOfRupiah

\* A goroutine about to write holds the rows it locked.
LEMMA HoldsRow ==
  ASSUME Inv, NEW p \in Procs, pc[p] = "write", NEW k \in Keys,
         k = First(job[p]) \/ k = Second(job[p])
  PROVE  holder[k] = p
BY DEF Inv, LocksMatch, Locked

\* Computed from a fresh copy, the new balance is the old one and the change,
\* and only a row the goroutine holds is written.
LEMMA WriteFacts ==
  ASSUME Inv, NEW p \in Procs, NEW a \in Accounts, holder[a] = p, NEW d \in Int,
         Write(p, a, d)
  PROVE  /\ balance' = [balance EXCEPT ![a] = @ + d]
         /\ \A b \in Accounts : balance'[b] # balance[b] => holder[b] = p
<1>1. seen[p][a] = balance[a]
  BY DEF Inv, FreshCopy
<1>2. balance' = [balance EXCEPT ![a] = @ + d]
  BY <1>1 DEF Write
<1> QED BY <1>2 DEF Inv, TypeOK, LedgerTypeOK

LEMMA WriteTwoFacts ==
  ASSUME Inv, NEW p \in Procs, NEW a \in Accounts, NEW b \in Accounts, a # b,
         holder[a] = p, holder[b] = p, NEW m \in Int, NEW n \in Int,
         WriteTwo(p, a, m, b, n)
  PROVE  /\ balance' = [balance EXCEPT ![a] = @ + m, ![b] = @ + n]
         /\ \A c \in Accounts : balance'[c] # balance[c] => holder[c] = p
<1>1. seen[p][a] = balance[a] /\ seen[p][b] = balance[b]
  BY DEF Inv, FreshCopy
<1>2. balance' = [balance EXCEPT ![a] = seen[p][a] + m, ![b] = seen[p][b] + n]
  BY DEF WriteTwo
<1>3. balance' = [balance EXCEPT ![a] = balance[a] + m, ![b] = balance[b] + n]
  BY <1>1, <1>2
<1>4. balance' = [balance EXCEPT ![a] = @ + m, ![b] = @ + n]
  BY <1>3 DEF Inv, TypeOK, LedgerTypeOK
<1> QED BY <1>4 DEF Inv, TypeOK, LedgerTypeOK

-----------------------------------------------------------------------------
(***************************************************************************)
(* Every commit is a step of Ledger.                                       *)
(***************************************************************************)
OnlyHeld(p) == \A a \in Accounts : balance'[a] # balance[a] => holder[a] = p

OnlyHeldRows(p) == \A id \in TxIds : Exists(id) /\ txn'[id] # txn[id] => holder[id] = p

LEMMA TransferImplements ==
  ASSUME Inv, NEW p \in Procs, CommitTransfer(p)
  PROVE  (\E id \in TxIds : Opened(id, Amounts, Payable)) /\ OnlyHeld(p)
<1> DEFINE j == job[p]
           s == <<j.sender, j.asset>>
           r == <<j.recipient, j.asset>>
<1>1. j \in TransferJobs /\ j.op = "Transfer" /\ pc[p] = "write" /\ Accepted(p)
  BY JobTypes DEF CommitTransfer, Writing, Inv, TypeOK
<1>2. /\ j.sender \in Wallets /\ j.recipient \in Wallets \ {j.sender} /\ j.asset \in Assets
      /\ j.amount \in Amounts
  BY <1>1 DEF TransferJobs, Inv, JobsFit
<1>3. s \in Accounts /\ r \in Accounts /\ s # r
  BY <1>2 DEF Accounts
<1>4. /\ s = First(j) \/ s = Second(j)
      /\ r = First(j) \/ r = Second(j)
  BY <1>1, <1>2 DEF First, Second, Lower, Higher
<1>5. holder[s] = p /\ holder[r] = p
  BY <1>1, <1>3, <1>4, HoldsRow DEF Keys
<1>6. WriteTwo(p, s, - j.amount, r, j.amount)
  BY DEF CommitTransfer
<1>7. j.amount \in Int /\ - j.amount \in Int
  BY <1>2, AmountNat
<1>8. /\ balance' = [balance EXCEPT ![s] = @ + (- j.amount), ![r] = @ + j.amount]
      /\ OnlyHeld(p)
  BY <1>3, <1>5, <1>6, <1>7, WriteTwoFacts DEF OnlyHeld
<1>9. balance[s] >= j.amount
  BY <1>1, <1>3, <1>5 DEF Accepted, Inv, FreshCopy
<1>10. balance' = [balance EXCEPT ![s] = @ - j.amount, ![r] = @ + j.amount]
  BY <1>3, <1>7, <1>8 DEF Inv, TypeOK, LedgerTypeOK
<1>11. PICK id \in TxIds :
         Insert(id, Entry("transfer_fiat", j.sender, j.recipient, j.asset, j.amount, "success"))
  BY DEF CommitTransfer
<1>12. ExecuteTransferTx(id, j.sender, j.recipient, j.asset, j.amount)
  BY <1>9, <1>10, <1>11 DEF ExecuteTransferTx
<1> QED BY <1>2, <1>8, <1>12 DEF Opened

LEMMA TopUpImplements ==
  ASSUME Inv, NEW p \in Procs, CommitTopUp(p)
  PROVE  (\E id \in TxIds : Opened(id, Amounts, Payable)) /\ OnlyHeld(p)
<1> DEFINE j == job[p]
           a == <<j.wallet, j.asset>>
<1>1. j \in TopUpJobs /\ j.op = "TopUp" /\ pc[p] = "write" /\ Accepted(p)
  BY JobTypes DEF CommitTopUp, Writing, Inv, TypeOK
<1>2. j.wallet \in Wallets /\ j.asset \in Assets /\ j.amount \in Amounts
  BY <1>1 DEF TopUpJobs
<1>3. a \in Accounts
  BY <1>2 DEF Accounts
<1>4. holder[a] = p
  BY <1>1, <1>3, HoldsRow DEF Keys, First
<1>5. j.amount \in Int
  BY <1>2, AmountNat
<1>6. Write(p, a, j.amount)
  BY DEF CommitTopUp
<1>7. balance' = [balance EXCEPT ![a] = @ + j.amount] /\ OnlyHeld(p)
  BY <1>3, <1>4, <1>5, <1>6, WriteFacts DEF OnlyHeld
<1>8. PICK id \in TxIds : Insert(id, Entry("topup", Nil, j.wallet, j.asset, j.amount, "success"))
  BY DEF CommitTopUp
<1>9. ExecuteTopUpTx(id, j.wallet, j.asset, j.amount)
  BY <1>1, <1>7, <1>8 DEF ExecuteTopUpTx, Credit
<1> QED BY <1>2, <1>7, <1>9 DEF Opened

LEMMA WithdrawFiatImplements ==
  ASSUME Inv, NEW p \in Procs, CommitWithdrawFiat(p)
  PROVE  (\E id \in TxIds : Opened(id, Amounts, Payable)) /\ OnlyHeld(p)
<1> DEFINE j == job[p]
           a == <<j.wallet, IDR>>
           n == j.amount + Fee
<1>1. j \in FiatJobs /\ j.op = "WithdrawFiat" /\ pc[p] = "write" /\ Accepted(p)
  BY JobTypes DEF CommitWithdrawFiat, Writing, Inv, TypeOK
<1>2. j.wallet \in Wallets /\ j.amount \in Payable
  BY <1>1 DEF FiatJobs
<1>3. a \in Accounts
  BY <1>2 DEF Accounts
<1>4. holder[a] = p
  BY <1>1, <1>3, HoldsRow DEF Keys, First
<1>5. n \in Nat
  <2>1. j.amount \in Nat
    BY <1>2, AmountNat
  <2> QED BY <2>1 DEF LedgerAssumption
<1>6. n \in Int /\ - n \in Int
  BY <1>5
<1>7. Write(p, a, - n)
  BY DEF CommitWithdrawFiat
<1>8. balance[a] >= n
  BY <1>1, <1>3, <1>4 DEF Accepted, Inv, FreshCopy
<1>9. PICK id \in TxIds : Insert(id, [Entry("withdraw_fiat", j.wallet, Nil, IDR, j.amount, "pending")
                                   EXCEPT !.fee = Fee])
  BY DEF CommitWithdrawFiat
<1> HIDE DEF n
<1>10. balance' = [balance EXCEPT ![a] = @ + (- n)] /\ OnlyHeld(p)
  BY <1>3, <1>4, <1>6, <1>7, WriteFacts DEF OnlyHeld
<1>11. balance' = [balance EXCEPT ![a] = @ - n]
  BY <1>3, <1>6, <1>10 DEF Inv, TypeOK, LedgerTypeOK
<1>12. ExecuteWithdrawFiatTx(id, j.wallet, j.amount)
  BY <1>8, <1>9, <1>11 DEF ExecuteWithdrawFiatTx, Debit, n
<1> QED BY <1>2, <1>10, <1>12 DEF Opened

LEMMA WithdrawCryptoImplements ==
  ASSUME Inv, NEW p \in Procs, CommitWithdrawCrypto(p)
  PROVE  (\E id \in TxIds : Opened(id, Amounts, Payable)) /\ OnlyHeld(p)
<1> DEFINE j == job[p]
           a == <<j.wallet, j.asset>>
           n == j.amount
<1>1. j \in CryptoJobs /\ j.op = "WithdrawCrypto" /\ pc[p] = "write" /\ Accepted(p)
  BY JobTypes DEF CommitWithdrawCrypto, Writing, Inv, TypeOK
<1>2. j.wallet \in Wallets /\ j.asset \in Assets /\ j.amount \in Amounts
  BY <1>1 DEF CryptoJobs
<1>3. a \in Accounts
  BY <1>2 DEF Accounts
<1>4. holder[a] = p
  BY <1>1, <1>3, HoldsRow DEF Keys, First
<1>5. n \in Nat
  <2>1. j.amount \in Nat
    BY <1>2, AmountNat
  <2> QED BY <2>1 DEF LedgerAssumption
<1>6. n \in Int /\ - n \in Int
  BY <1>5
<1>7. Write(p, a, - n)
  BY DEF CommitWithdrawCrypto
<1>8. balance[a] >= n
  BY <1>1, <1>3, <1>4 DEF Accepted, Inv, FreshCopy
<1>9. PICK id \in TxIds : Insert(id, Entry("crypto_withdrawal", j.wallet, Nil, j.asset, j.amount, "pending"))
  BY DEF CommitWithdrawCrypto
<1> HIDE DEF n
<1>10. balance' = [balance EXCEPT ![a] = @ + (- n)] /\ OnlyHeld(p)
  BY <1>3, <1>4, <1>6, <1>7, WriteFacts DEF OnlyHeld
<1>11. balance' = [balance EXCEPT ![a] = @ - n]
  BY <1>3, <1>6, <1>10 DEF Inv, TypeOK, LedgerTypeOK
<1>12. CreatePendingCryptoWithdrawTx(id, j.wallet, j.asset, j.amount)
  BY <1>8, <1>9, <1>11 DEF CreatePendingCryptoWithdrawTx, Debit, n
<1> QED BY <1>2, <1>10, <1>12 DEF Opened

LEMMA DepositImplements ==
  ASSUME Inv, NEW p \in Procs, CommitDeposit(p)
  PROVE  (\E id \in TxIds : Opened(id, Amounts, Payable)) /\ OnlyHeld(p)
<1> DEFINE j == job[p]
           a == <<j.wallet, j.asset>>
<1>1. j \in DepositJobs /\ j.op = "Deposit" /\ pc[p] = "write" /\ Accepted(p)
  BY JobTypes DEF CommitDeposit, Writing, Inv, TypeOK
<1>2. j.wallet \in Wallets /\ j.asset \in Assets /\ j.amount \in Amounts /\ j.hash \in Hashes
  BY <1>1 DEF DepositJobs
<1>3. a \in Accounts
  BY <1>2 DEF Accounts
<1>4. holder[a] = p
  BY <1>1, <1>3, HoldsRow DEF Keys, First
<1>5. j.amount \in Int
  BY <1>2, AmountNat
<1>6. Write(p, a, j.amount)
  BY DEF CommitDeposit
<1>7. balance' = [balance EXCEPT ![a] = @ + j.amount] /\ OnlyHeld(p)
  BY <1>3, <1>4, <1>5, <1>6, WriteFacts DEF OnlyHeld
<1>8. PICK id \in TxIds : Insert(id, [Entry("crypto_deposit", Nil, j.wallet, j.asset, j.amount, "success")
                                   EXCEPT !.hash = j.hash])
  BY DEF CommitDeposit
<1>9. CreditCryptoDeposit(id, j.wallet, j.asset, j.amount, j.hash)
  BY <1>1, <1>7, <1>8 DEF CreditCryptoDeposit, Credit, Accepted
<1> QED BY <1>2, <1>7, <1>9 DEF Opened

LEMMA SwapImplements ==
  ASSUME Inv, NEW p \in Procs, CommitSwap(p)
  PROVE  (\E id \in TxIds : Opened(id, Amounts, Payable)) /\ OnlyHeld(p)
<1> DEFINE j == job[p]
           a == <<j.wallet, j.from>>
           b == <<j.wallet, j.to>>
<1>1. j \in SwapJobs /\ j.op = "Swap" /\ pc[p] = "write"
  BY JobTypes DEF CommitSwap, Writing, Inv, TypeOK
<1>2. /\ j.wallet \in Wallets /\ j.from \in Assets /\ j.to \in Assets \ {j.from}
      /\ j.amount \in Amounts /\ j.toAmount \in Amounts
  BY <1>1 DEF SwapJobs, Inv, JobsFit
<1>3. a \in Accounts /\ b \in Accounts /\ a # b
  BY <1>2 DEF Accounts
<1>4. a = First(j) /\ b = Second(j)
  BY <1>1 DEF First, Second
<1>5. holder[a] = p /\ holder[b] = p
  BY <1>1, <1>3, <1>4, HoldsRow DEF Keys
<1>6. WriteTwo(p, a, - j.amount, b, j.toAmount)
  BY DEF CommitSwap
<1>7. j.amount \in Int /\ - j.amount \in Int /\ j.toAmount \in Int
  BY <1>2, AmountNat
<1>8. /\ balance' = [balance EXCEPT ![a] = @ + (- j.amount), ![b] = @ + j.toAmount]
      /\ OnlyHeld(p)
  BY <1>3, <1>5, <1>6, <1>7, WriteTwoFacts DEF OnlyHeld
<1>9. balance[a] >= j.amount
  BY <1>1, <1>4 DEF Inv, ChecksHold
<1>10. balance' = [balance EXCEPT ![a] = @ - j.amount, ![b] = @ + j.toAmount]
  BY <1>3, <1>7, <1>8 DEF Inv, TypeOK, LedgerTypeOK
<1>11. PICK id \in TxIds :
         Insert(id, [Entry("swap", j.wallet, Nil, j.from, j.amount, "success")
                       EXCEPT !.toAsset = j.to, !.toAmount = j.toAmount])
  BY DEF CommitSwap
<1>12. ExecuteSwapTx(id, j.wallet, j.from, j.to, j.amount, j.toAmount)
  BY <1>9, <1>10, <1>11 DEF ExecuteSwapTx
<1> QED BY <1>2, <1>8, <1>12 DEF Opened

LEMMA SettleImplements ==
  ASSUME Inv, NEW p \in Procs, CommitSettle(p)
  PROVE  /\ SettleTopUpTx(job[p].id, job[p].wallet, job[p].amount)
         /\ LedgerNext /\ OnlyHeld(p)
<1> DEFINE j == job[p]
           a == <<j.wallet, IDR>>
<1>1. j \in SettleJobs /\ j.op = "Settle" /\ pc[p] = "write"
  BY JobTypes DEF CommitSettle, Writing, Inv, TypeOK
<1>2. j.id \in TxIds /\ Exists(j.id) /\ j.wallet \in Wallets /\ j.amount \in Charges
  BY <1>1 DEF SettleJobs, Inv, JobsFit, OnRow
<1>3. a \in Accounts
  BY <1>2 DEF Accounts
<1>4. holder[a] = p
  BY <1>1, <1>3, HoldsRow DEF Keys, First
<1>5. j.amount \in Int
  BY <1>2, AmountNat
<1>6. Write(p, a, j.amount) /\ SetStatus(j.id, "success")
  BY DEF CommitSettle
<1>7. balance' = [balance EXCEPT ![a] = @ + j.amount] /\ OnlyHeld(p)
  BY <1>3, <1>4, <1>5, <1>6, WriteFacts DEF OnlyHeld
<1>8. SettleTopUpTx(j.id, j.wallet, j.amount)
  BY <1>2, <1>6, <1>7 DEF SettleTopUpTx, Credit
<1> QED BY <1>2, <1>7, <1>8 DEF LedgerNext

LEMMA RejectImplements ==
  ASSUME Inv, NEW p \in Procs, CommitReject(p)
  PROVE  /\ RejectWithdrawTx(job[p].id)
         /\ LedgerNext /\ OnlyHeld(p)
<1> DEFINE j == job[p]
           row == txn[j.id]
           a == <<row.source, row.asset>>
<1>1. j \in RejectJobs /\ j.op = "Reject" /\ pc[p] = "write"
  BY JobTypes DEF CommitReject, Writing, Inv, TypeOK
<1>2. j.id \in TxIds /\ Exists(j.id) /\ row \in Row /\ row.source \in Wallets
  BY <1>1 DEF RejectJobs, Inv, JobsFit, OnRow, TypeOK, LedgerTypeOK, Exists, RowsFit, IsType
<1>3. a \in Accounts
  BY <1>2 DEF Accounts, Row
<1>4. holder[a] = p
  BY <1>1, <1>3, HoldsRow DEF Keys, Second
<1>5. Refund(row) \in Int
  BY <1>2 DEF Refund, Row
<1>6. Write(p, a, Refund(row)) /\ SetStatus(j.id, "failed")
  BY DEF CommitReject
<1>7. balance' = [balance EXCEPT ![a] = @ + Refund(row)] /\ OnlyHeld(p)
  BY <1>3, <1>4, <1>5, <1>6, WriteFacts DEF OnlyHeld
<1>8. row.status = "pending" /\ row.source # Nil
  BY <1>1, <1>2 DEF Inv, ChecksHold, Pending, Nil, Wallets
<1>9. RejectWithdrawTx(j.id)
  BY <1>2, <1>6, <1>7, <1>8 DEF RejectWithdrawTx, Credit
<1> QED BY <1>2, <1>7, <1>9 DEF LedgerNext

LEMMA StatusImplements ==
  ASSUME Inv, NEW p \in Procs, CommitStatus(p)
  PROVE  /\ UpdateTransactionStatus(job[p].id, job[p].status)
         /\ LedgerNext /\ OnlyHeld(p)
<1> DEFINE j == job[p]
<1>1. j \in StatusJobs /\ j.op = "Status"
  BY JobTypes DEF CommitStatus, Writing, Inv, TypeOK
<1>2. j.id \in TxIds /\ j.status \in Statuses /\ Exists(j.id)
  BY <1>1 DEF StatusJobs, Inv, JobsFit, OnRow
<1>3. UpdateTransactionStatus(j.id, j.status)
  BY <1>2 DEF CommitStatus, UpdateTransactionStatus
<1>4. UNCHANGED balance
  BY DEF CommitStatus
<1> QED BY <1>2, <1>3, <1>4 DEF LedgerNext, OnlyHeld

LEMMA SentImplements ==
  ASSUME Inv, NEW p \in Procs, CommitSent(p)
  PROVE  /\ UpdateCryptoWithdrawTx(job[p].id, job[p].hash)
         /\ LedgerNext /\ OnlyHeld(p)
<1> DEFINE j == job[p]
<1>1. j \in SentJobs /\ j.op = "Sent" /\ HashUnused(j.hash)
  BY JobTypes DEF CommitSent, Writing, Accepted, Inv, TypeOK
<1>2. j.id \in TxIds /\ j.hash \in Hashes /\ Exists(j.id)
  BY <1>1 DEF SentJobs, Inv, JobsFit, OnRow
<1>3. UpdateCryptoWithdrawTx(j.id, j.hash)
  BY <1>1, <1>2 DEF CommitSent, UpdateCryptoWithdrawTx
<1>4. UNCHANGED balance
  BY DEF CommitSent
<1> QED BY <1>2, <1>3, <1>4 DEF LedgerNext, OnlyHeld

\* A commit rewrites only rows of the history its transaction has locked.
LEMMA CommitRows ==
  ASSUME Inv, NEW p \in Procs, Commit(p)
  PROVE  OnlyHeldRows(p) /\ End(p) /\ pc[p] = "write"
<1>1. ASSUME NEW id \in TxIds, NEW row, Insert(id, row)
      PROVE  OnlyHeldRows(p)
  BY <1>1 DEF Insert, OnlyHeldRows, Inv, TypeOK, LedgerTypeOK
<1>2. ASSUME NEW id \in TxIds, NEW row, txn' = [txn EXCEPT ![id] = row], holder[id] = p
      PROVE  OnlyHeldRows(p)
  BY <1>2 DEF OnlyHeldRows, Inv, TypeOK, LedgerTypeOK
<1>3. ASSUME NEW id \in TxIds, NEW status, SetStatus(id, status), holder[id] = p
      PROVE  OnlyHeldRows(p)
  BY <1>2, <1>3 DEF SetStatus
<1>4. CASE \/ CommitTransfer(p) \/ CommitTopUp(p) \/ CommitWithdrawFiat(p)
           \/ CommitWithdrawCrypto(p) \/ CommitDeposit(p) \/ CommitSwap(p)
  BY <1>1, <1>4 DEF CommitTransfer, CommitTopUp, CommitWithdrawFiat, CommitWithdrawCrypto,
                    CommitDeposit, CommitSwap, Writing
<1>5. CASE CommitSettle(p)
  <2>1. job[p].op = "Settle" /\ job[p].id \in TxIds
    BY <1>5, JobTypes DEF CommitSettle, Writing, Inv, TypeOK, SettleJobs
  <2>2. holder[job[p].id] = p
    BY <1>5, <2>1, HoldsRow DEF CommitSettle, Writing, Keys, Second
  <2> QED BY <1>3, <1>5, <2>1, <2>2 DEF CommitSettle, Writing
<1>6. CASE CommitStatus(p)
  <2>1. job[p].op = "Status" /\ job[p].id \in TxIds
    BY <1>6, JobTypes DEF CommitStatus, Writing, Inv, TypeOK, StatusJobs
  <2>2. holder[job[p].id] = p
    BY <1>6, <2>1, HoldsRow DEF CommitStatus, Writing, Keys, First
  <2> QED BY <1>3, <1>6, <2>1, <2>2 DEF CommitStatus, Writing
<1>7. CASE CommitReject(p)
  <2>1. job[p].op = "Reject" /\ job[p].id \in TxIds
    BY <1>7, JobTypes DEF CommitReject, Writing, Inv, TypeOK, RejectJobs
  <2>2. holder[job[p].id] = p
    BY <1>7, <2>1, HoldsRow DEF CommitReject, Writing, Keys, First
  <2> QED BY <1>3, <1>7, <2>1, <2>2 DEF CommitReject, Writing
<1>8. CASE CommitSent(p)
  <2>1. job[p].op = "Sent" /\ job[p].id \in TxIds
    BY <1>8, JobTypes DEF CommitSent, Writing, Inv, TypeOK, SentJobs
  <2>2. holder[job[p].id] = p
    BY <1>8, <2>1, HoldsRow DEF CommitSent, Writing, Keys, First
  <2>3. \A id \in TxIds : id # job[p].id => txn'[id] = txn[id]
    BY <1>8 DEF CommitSent, Inv, TypeOK, LedgerTypeOK
  <2> QED BY <1>8, <2>2, <2>3 DEF CommitSent, Writing, OnlyHeldRows
<1> QED BY <1>4, <1>5, <1>6, <1>7, <1>8 DEF Commit

\* A commit happens in the abstract ledger.
LEMMA CommitImplements ==
  ASSUME Inv, NEW p \in Procs, Commit(p)
  PROVE  LedgerNext /\ OnlyHeld(p)
BY OpeningIsNext, TransferImplements, TopUpImplements, WithdrawFiatImplements, WithdrawCryptoImplements,
   SettleImplements, StatusImplements, SentImplements, RejectImplements, DepositImplements,
   SwapImplements DEF Commit

-----------------------------------------------------------------------------
(***************************************************************************)
(* The inductive invariant.                                                *)
(***************************************************************************)
LEMMA InitInv == Init => Inv
<1> SUFFICES ASSUME Init PROVE Inv
  OBVIOUS
<1> USE DEF Init, LedgerInit
<1>1. TypeOK
  BY DEF TypeOK, LedgerTypeOK
<1>2. RowsFit /\ JobsFit /\ NonNegative /\ ChecksHold
  BY DEF RowsFit, IsType, Exists, JobsFit, NoJob, Active, OnRow, NonNegative, ChecksHold
<1>3. LocksMatch
  BY DEF LocksMatch, Locked
<1>4. FreshCopy
  BY DEF FreshCopy, Keys
<1> QED BY <1>1, <1>2, <1>3, <1>4 DEF Inv

\* The row a running method locks second is the same after any step.
LEMMA SecondStable ==
  ASSUME Inv, Kept, NEW q \in Procs, job'[q] = job[q]
  PROVE  Second(job[q])' = Second(job[q])
<1>1. CASE job[q].op = "Reject"
  <2>1. job[q].id \in TxIds /\ Exists(job[q].id)
    BY <1>1, JobTypes DEF Inv, TypeOK, JobsFit, OnRow, RejectJobs
  <2> QED BY <1>1, <2>1 DEF Second, Kept
<1>2. CASE job[q].op # "Reject"
  BY <1>2 DEF Second
<1> QED BY <1>1, <1>2

\* A transaction ends, in a commit or in an error.
LEMMA EndPreserves ==
  ASSUME Inv, NEW p \in Procs, End(p), LedgerInv', Kept, OnlyHeld(p), OnlyHeldRows(p)
  PROVE  Inv'
<1> DEFINE Other == Procs \ {p}
<1>1. TypeOK'
  BY DEF Inv, TypeOK, LedgerInv, End, NoJob
<1>2. /\ job'[p] = NoJob /\ pc'[p] = "idle"
      /\ \A q \in Other : job'[q] = job[q] /\ pc'[q] = pc[q] /\ seen'[q] = seen[q]
      /\ \A k \in Keys : holder'[k] = IF holder[k] = p THEN Nobody ELSE holder[k]
  BY DEF Inv, TypeOK, End
<1>3. \A q \in Other : /\ First(job[q])' = First(job[q])
                       /\ Second(job[q])' = Second(job[q])
                       /\ Locked(q)' = Locked(q)
  <2> TAKE q \in Other
  <2>1. First(job[q])' = First(job[q])
    BY <1>2 DEF First, Lower, Higher, RecipientFirst
  <2>2. Second(job[q])' = Second(job[q])
    BY <1>2, SecondStable
  <2> QED BY <1>2, <2>1, <2>2 DEF Locked
<1>4. JobsFit'
  <2> SUFFICES ASSUME NEW q \in Procs
               PROVE  /\ Active(q)' <=> job'[q] # NoJob
                      /\ job'[q].op = "Transfer" => job'[q].sender # job'[q].recipient
                      /\ job'[q].op = "Swap" => job'[q].from # job'[q].to
                      /\ job'[q].op \in OnRow => Exists(job[q].id)'
                      /\ job'[q].op = "Settle" => IsType(job[q].id, "topup")'
                      /\ job'[q].op = "Sent" => IsType(job[q].id, "crypto_withdrawal")'
                      /\ job'[q].op = "Reject" => \/ IsType(job[q].id, "withdraw_fiat")'
                                                  \/ IsType(job[q].id, "crypto_withdrawal")'
    BY DEF JobsFit
  <2>1. CASE q = p
    BY <1>2, <2>1 DEF NoJob, Active, OnRow
  <2>2. CASE q # p
    <3>1. job[q].op \in OnRow => job[q].id \in TxIds
      BY JobTypes DEF Inv, TypeOK, OnRow, SettleJobs, StatusJobs, SentJobs, RejectJobs
    <3> QED BY <1>2, <2>2, <3>1 DEF Inv, JobsFit, Active, OnRow, Kept, Exists, IsType
  <2> QED BY <2>1, <2>2
<1>5. LocksMatch'
  <2> SUFFICES ASSUME NEW k \in Keys, NEW q \in Procs
               PROVE  holder'[k] = q <=> k \in Locked(q)'
    BY DEF LocksMatch
  <2>1. CASE q = p
    BY <1>2, <2>1 DEF Locked
  <2>2. CASE q # p
    <3>1. holder'[k] = q <=> holder[k] = q
      BY <1>2, <2>2
    <3> QED BY <1>3, <2>2, <3>1 DEF Inv, LocksMatch
  <2> QED BY <2>1, <2>2
<1>6. FreshCopy'
  <2> SUFFICES ASSUME NEW q \in Procs, NEW a \in Accounts, holder'[a] = q
               PROVE  seen'[q][a] = balance'[a]
    BY DEF FreshCopy
  <2>1. holder[a] = q /\ q # p
    BY <1>2 DEF Keys
  <2>2. balance'[a] = balance[a]
    BY <2>1 DEF OnlyHeld
  <2> QED BY <1>2, <2>1, <2>2 DEF Inv, FreshCopy
<1>7. ChecksHold'
  <2> SUFFICES ASSUME NEW q \in Procs, pc'[q] = "write"
               PROVE  /\ job'[q].op = "Reject" => Pending(job[q].id)'
                      /\ job'[q].op = "Swap" => balance'[First(job[q])'] >= job'[q].amount
    BY DEF ChecksHold
  <2>1. q # p /\ pc[q] = "write" /\ job'[q] = job[q]
    BY <1>2
  <2>2. CASE job[q].op = "Reject"
    <3>1. job[q].id \in TxIds /\ Exists(job[q].id) /\ First(job[q]) = job[q].id
      BY <2>2, JobTypes DEF Inv, TypeOK, JobsFit, OnRow, RejectJobs, First
    <3>2. holder[job[q].id] = q
      BY <2>1, <3>1, HoldsRow DEF Keys
    <3>3. txn'[job[q].id] = txn[job[q].id]
      BY <2>1, <3>1, <3>2 DEF OnlyHeldRows
    <3> QED BY <2>1, <2>2, <3>3 DEF Inv, ChecksHold, Pending, Exists
  <2>3. CASE job[q].op = "Swap"
    <3>1. First(job[q]) \in Accounts
      BY <2>3, JobTypes DEF Inv, TypeOK, SwapJobs, First, Accounts
    <3>2. holder[First(job[q])] = q
      BY <2>1, <3>1, HoldsRow DEF Keys
    <3>3. balance'[First(job[q])] = balance[First(job[q])]
      BY <2>1, <3>1, <3>2 DEF OnlyHeld
    <3>4. First(job[q])' = First(job[q])
      BY <1>3, <2>1
    <3> QED BY <2>1, <2>3, <3>3, <3>4 DEF Inv, ChecksHold
  <2> QED BY <2>1, <2>2, <2>3
<1> QED BY <1>1, <1>4, <1>5, <1>6, <1>7 DEF Inv, LedgerInv

\* A goroutine opens a database transaction.
LEMMA BeginPreserves ==
  ASSUME Inv, NEW p \in Procs, NEW j \in Jobs, Begin(p, j)
  PROVE  Inv'
<1>1. /\ UNCHANGED <<balance, txn, seen, holder>>
      /\ pc[p] = "idle" /\ job[p] = NoJob
      /\ job'[p] = j /\ pc'[p] = "first"
      /\ \A q \in Procs \ {p} : job'[q] = job[q] /\ pc'[q] = pc[q]
  BY DEF Begin, Inv, TypeOK, JobsFit, Active
<1>2. j # NoJob /\ MayCall(j)
  BY DEF Begin, Jobs, NoJob, TransferJobs, TopUpJobs, FiatJobs, CryptoJobs, SettleJobs,
         StatusJobs, SentJobs, RejectJobs, DepositJobs, SwapJobs
<1>3. TypeOK'
  BY DEF Begin, Inv, TypeOK, LedgerTypeOK
<1>4. RowsFit' /\ NonNegative' /\ FreshCopy'
  BY <1>1 DEF Inv, RowsFit, IsType, Exists, NonNegative, FreshCopy
<1>5. \A q \in Procs : Locked(q)' = Locked(q)
  <2> TAKE q \in Procs
  <2>1. CASE q = p
    BY <1>1, <2>1 DEF Locked
  <2>2. CASE q # p
    <3>1. First(job[q])' = First(job[q])
      BY <1>1, <2>2 DEF First, Lower, Higher, RecipientFirst
    <3>2. Second(job[q])' = Second(job[q])
      BY <1>1, <2>2 DEF Second, First, Lower, Higher, RecipientFirst
    <3> QED BY <1>1, <2>2, <3>1, <3>2 DEF Locked
  <2> QED BY <2>1, <2>2
<1>6. LocksMatch'
  BY <1>1, <1>5 DEF Inv, LocksMatch
<1>7. ChecksHold'
  BY <1>1 DEF Inv, ChecksHold, Pending, Exists, First, Lower, Higher, RecipientFirst
<1>8. JobsFit'
  <2>1. /\ j.op = "Transfer" => j.sender # j.recipient
        /\ j.op = "Swap" => j.from # j.to
        /\ j.op \in OnRow => Exists(j.id)
        /\ j.op = "Settle" => IsType(j.id, "topup")
        /\ j.op = "Sent" => IsType(j.id, "crypto_withdrawal")
        /\ j.op = "Reject" => IsType(j.id, "withdraw_fiat") \/ IsType(j.id, "crypto_withdrawal")
    BY <1>2 DEF MayCall, OnRow, IsType
  <2> QED BY <1>1, <1>2, <2>1 DEF Inv, JobsFit, Active, Exists, IsType
<1> QED BY <1>3, <1>4, <1>6, <1>7, <1>8 DEF Inv

\* A goroutine that has waited for a free row takes it and reads it.
LEMMA LockPreserves ==
  ASSUME Inv, NEW p \in Procs, NEW k \in Keys, Lock(p, k), UNCHANGED <<balance, txn, job>>,
         pc' \in [Procs -> {"idle", "first", "second", "write"}],
         Active(p), Active(p)',
         \A q \in Procs \ {p} : pc'[q] = pc[q],
         Locked(p)' = Locked(p) \cup {k},
         pc'[p] = "write" => /\ job[p].op = "Reject" => Pending(job[p].id)
                             /\ job[p].op = "Swap" => balance[First(job[p])] >= job[p].amount
  PROVE  Inv'
<1>1. /\ holder' = [holder EXCEPT ![k] = p]
      /\ holder[k] = Nobody
      /\ \A q \in Procs, a \in Accounts :
           seen'[q][a] = IF q = p /\ a = k THEN balance[a] ELSE seen[q][a]
      /\ seen' \in [Procs -> [Accounts -> Int]]
  BY DEF Lock, Inv, TypeOK, LedgerTypeOK
<1>2. TypeOK'
  BY <1>1 DEF Inv, TypeOK, LedgerTypeOK
<1>3. RowsFit' /\ NonNegative'
  BY DEF Inv, RowsFit, IsType, Exists, NonNegative
<1>4. JobsFit'
  BY DEF Inv, JobsFit, IsType, Exists, Active
<1>5. \A q \in Procs \ {p} : Locked(q)' = Locked(q)
  BY DEF Locked, First, Second, Lower, Higher, RecipientFirst
<1>6. LocksMatch'
  <2> SUFFICES ASSUME NEW l \in Keys, NEW q \in Procs
               PROVE  holder'[l] = q <=> l \in Locked(q)'
    BY DEF LocksMatch
  <2>1. holder'[l] = IF l = k THEN p ELSE holder[l]
    BY <1>1 DEF Inv, TypeOK
  <2>2. holder[l] = q <=> l \in Locked(q)
    BY DEF Inv, LocksMatch
  <2> QED BY <1>1, <1>5, <2>1, <2>2
<1>7. FreshCopy'
  <2> SUFFICES ASSUME NEW q \in Procs, NEW a \in Accounts, holder'[a] = q
               PROVE  seen'[q][a] = balance[a]
    BY DEF FreshCopy
  <2>1. CASE a = k
    BY <1>1, <2>1 DEF Inv, TypeOK
  <2>2. CASE a # k
    <3>1. holder[a] = q
      BY <1>1, <2>2 DEF Inv, TypeOK
    <3> QED BY <1>1, <2>2, <3>1 DEF Inv, FreshCopy
  <2> QED BY <2>1, <2>2
<1>8. ChecksHold'
  BY DEF Inv, ChecksHold, Pending, Exists, First, Lower, Higher, RecipientFirst
<1> QED BY <1>2, <1>3, <1>4, <1>6, <1>7, <1>8 DEF Inv

\* The rows a running method locks are rows of the tables.
LEMMA RowsOfJob ==
  ASSUME Inv, NEW p \in Procs, Active(p)
  PROVE  First(job[p]) \in Keys /\ Second(job[p]) \in Keys
<1> DEFINE j == job[p]
<1>1. j \in Jobs
  BY DEF Inv, TypeOK, JobsFit
<1>2. CASE j.op \in {"Transfer", "TopUp", "WithdrawFiat", "WithdrawCrypto", "Swap", "Deposit"}
  BY <1>1, <1>2, JobTypes DEF First, Second, Lower, Higher, Keys, Accounts, TransferJobs,
     TopUpJobs, FiatJobs, CryptoJobs, SwapJobs, DepositJobs
<1>3. CASE j.op \in {"Settle", "Status", "Sent"}
  BY <1>1, <1>3, JobTypes DEF First, Second, Keys, Accounts, SettleJobs, StatusJobs, SentJobs
<1>4. CASE j.op = "Reject"
  <2>1. j.id \in TxIds /\ Exists(j.id) /\ txn[j.id] \in Row /\ txn[j.id].source \in Wallets
    BY <1>1, <1>4, JobTypes DEF RejectJobs, Inv, JobsFit, OnRow, TypeOK, LedgerTypeOK,
       Exists, RowsFit, IsType
  <2> QED BY <1>4, <2>1 DEF First, Second, Keys, Accounts, Row
<1>5. j.op \in {"Transfer", "TopUp", "WithdrawFiat", "WithdrawCrypto", "Swap", "Deposit",
                "Settle", "Status", "Sent", "Reject"}
  BY <1>1 DEF Jobs, TransferJobs, TopUpJobs, FiatJobs, CryptoJobs, SettleJobs, StatusJobs,
     SentJobs, RejectJobs, DepositJobs, SwapJobs
<1> QED BY <1>2, <1>3, <1>4, <1>5

LEMMA LockFirstPreserves ==
  ASSUME Inv, NEW p \in Procs, LockFirst(p)
  PROVE  Inv'
<1>1. First(job[p]) \in Keys
  BY RowsOfJob DEF LockFirst, Active
<1>2. /\ Lock(p, First(job[p]))
      /\ UNCHANGED <<balance, txn, job>>
      /\ pc[p] = "first"
      /\ pc' \in [Procs -> {"idle", "first", "second", "write"}]
      /\ pc'[p] = IF Second(job[p]) = First(job[p]) THEN "write" ELSE "second"
      /\ \A q \in Procs \ {p} : pc'[q] = pc[q]
  BY DEF LockFirst, Inv, TypeOK
<1>3. Locked(p)' = Locked(p) \cup {First(job[p])}
  BY <1>2 DEF Locked, First, Second, Lower, Higher, RecipientFirst
<1>4. Active(p) /\ Active(p)'
  BY <1>2 DEF Active
<1>5. ASSUME pc'[p] = "write"
      PROVE  job[p].op # "Reject" /\ job[p].op # "Swap"
  <2>1. Second(job[p]) = First(job[p])
    BY <1>2, <1>5
  <2>2. CASE job[p].op = "Reject"
    <3>1. job[p].id \in TxIds /\ Exists(job[p].id) /\ txn[job[p].id] \in Row
          /\ txn[job[p].id].source \in Wallets
      BY <2>2, JobTypes DEF RejectJobs, Inv, JobsFit, OnRow, TypeOK, LedgerTypeOK,
         Exists, RowsFit, IsType
    <3>2. First(job[p]) \in TxIds /\ Second(job[p]) \in Accounts
      BY <2>2, <3>1 DEF First, Second, Accounts, Row
    <3> QED BY <2>1, <3>2
  <2>3. CASE job[p].op = "Swap"
    BY <2>1, <2>3 DEF First, Second, Inv, JobsFit
  <2> QED BY <2>2, <2>3
<1> QED BY <1>1, <1>2, <1>3, <1>4, <1>5, LockPreserves

LEMMA LockSecondPreserves ==
  ASSUME Inv, NEW p \in Procs, LockSecond(p)
  PROVE  Inv'
<1>1. Second(job[p]) \in Keys
  BY RowsOfJob DEF LockSecond, Active
<1>2. /\ Lock(p, Second(job[p]))
      /\ UNCHANGED <<balance, txn, job>>
      /\ pc[p] = "second" /\ GoesOn(p)
      /\ pc' \in [Procs -> {"idle", "first", "second", "write"}]
      /\ pc'[p] = "write"
      /\ \A q \in Procs \ {p} : pc'[q] = pc[q]
  BY DEF LockSecond, Inv, TypeOK
<1>3. First(job[p])' = First(job[p]) /\ Second(job[p])' = Second(job[p])
  BY <1>2 DEF First, Second, Lower, Higher, RecipientFirst
<1>4. Locked(p)' = Locked(p) \cup {Second(job[p])}
  BY <1>2, <1>3 DEF Locked
<1>5. Active(p) /\ Active(p)'
  BY <1>2 DEF Active
<1>6. CASE job[p].op = "Reject"
  <2>1. Pending(job[p].id)
    BY <1>2, <1>6 DEF GoesOn, Pending, Inv, JobsFit, OnRow
  <2> QED BY <1>1, <1>2, <1>4, <1>5, <1>6, <2>1, LockPreserves
<1>7. CASE job[p].op = "Swap"
  <2>1. First(job[p]) \in Accounts
    BY <1>7, JobTypes DEF Inv, TypeOK, SwapJobs, First, Accounts
  <2>2. holder[First(job[p])] = p
    BY <1>2, <2>1 DEF Inv, LocksMatch, Locked, Keys
  <2>3. balance[First(job[p])] >= job[p].amount
    BY <1>2, <1>7, <2>1, <2>2 DEF GoesOn, Inv, FreshCopy
  <2> QED BY <1>1, <1>2, <1>4, <1>5, <1>7, <2>3, LockPreserves
<1>8. CASE job[p].op # "Reject" /\ job[p].op # "Swap"
  BY <1>1, <1>2, <1>4, <1>5, <1>8, LockPreserves
<1> QED BY <1>6, <1>7, <1>8

LEMMA LedgerOfInv ==
  ASSUME Inv
  PROVE  LedgerInv
BY DEF Inv, TypeOK, LedgerInv

\* A method that ends without a commit leaves the tables as they were.
LEMMA AbortPreserves ==
  ASSUME Inv, NEW p \in Procs, End(p), UNCHANGED ledgerVars
  PROVE  Inv'
<1>1. LedgerInv'
  BY LedgerOfInv DEF LedgerInv, LedgerTypeOK, NonNegative, RowsFit, IsType, Exists, ledgerVars
<1>2. Kept /\ OnlyHeld(p) /\ OnlyHeldRows(p)
  BY DEF Kept, OnlyHeld, OnlyHeldRows, Exists, ledgerVars
<1> QED BY <1>1, <1>2, EndPreserves

LEMMA CommitPreserves ==
  ASSUME Inv, NEW p \in Procs, Commit(p)
  PROVE  Inv'
<1>1. LedgerNext /\ OnlyHeld(p) /\ OnlyHeldRows(p) /\ End(p)
  BY CommitImplements, CommitRows
<1>2. LedgerInv' /\ Kept
  BY <1>1, LedgerOfInv, LedgerStep
<1> QED BY <1>1, <1>2, EndPreserves

\* A one-statement INSERT of a pending top-up.
LEMMA OpenPreserves ==
  ASSUME Inv, NEW p \in Procs, Open(p)
  PROVE  Inv'
<1>1. PICK id \in TxIds, w \in Wallets, n \in Amounts : CreatePendingTopUpTx(id, w, n)
  BY DEF Open
<1>2. LedgerNext
  BY <1>1 DEF LedgerNext
<1>3. LedgerInv' /\ Kept
  BY <1>2, LedgerOfInv, LedgerStep
<1>4. UNCHANGED <<balance, job, pc, seen, holder>>
  BY <1>1 DEF Open, CreatePendingTopUpTx
<1>5. \A i \in TxIds : Exists(i) => txn'[i] = txn[i]
  BY <1>1 DEF CreatePendingTopUpTx, Insert, Inv, TypeOK, LedgerTypeOK
<1>6. TypeOK' /\ RowsFit' /\ NonNegative'
  BY <1>3, <1>4 DEF LedgerInv, Inv, TypeOK
<1>7. \A q \in Procs : Locked(q)' = Locked(q)
  <2> TAKE q \in Procs
  <2>1. First(job[q])' = First(job[q])
    BY <1>4 DEF First, Lower, Higher, RecipientFirst
  <2>2. Second(job[q])' = Second(job[q])
    BY <1>3, <1>4, SecondStable
  <2> QED BY <1>4, <2>1, <2>2 DEF Locked
<1>8. LocksMatch' /\ FreshCopy'
  BY <1>4, <1>7 DEF Inv, LocksMatch, FreshCopy
<1>9. \A q \in Procs : job[q].op \in OnRow => job[q].id \in TxIds /\ Exists(job[q].id)
  BY JobTypes DEF Inv, TypeOK, JobsFit, OnRow, SettleJobs, StatusJobs, SentJobs, RejectJobs
<1>10. JobsFit'
  BY <1>3, <1>4, <1>9 DEF Inv, JobsFit, Active, OnRow, Kept, Exists, IsType
<1>11. ChecksHold'
  <2> SUFFICES ASSUME NEW q \in Procs, pc[q] = "write"
               PROVE  /\ job[q].op = "Reject" => Pending(job[q].id)'
                      /\ job[q].op = "Swap" => balance[First(job[q])'] >= job[q].amount
    BY <1>4 DEF ChecksHold
  <2>1. First(job[q])' = First(job[q])
    BY <1>4 DEF First, Lower, Higher, RecipientFirst
  <2>2. ASSUME job[q].op = "Reject" PROVE Pending(job[q].id)'
    <3>1. job[q].id \in TxIds /\ Exists(job[q].id) /\ Pending(job[q].id)
      BY <1>9, <2>2 DEF Inv, ChecksHold, OnRow
    <3>2. txn'[job[q].id] = txn[job[q].id]
      BY <1>5, <3>1
    <3> QED BY <1>4, <3>1, <3>2 DEF Pending, Exists
  <2>3. job[q].op = "Swap" => balance[First(job[q])] >= job[q].amount
    BY DEF Inv, ChecksHold
  <2> QED BY <1>4, <2>1, <2>2, <2>3
<1> QED BY <1>6, <1>8, <1>10, <1>11 DEF Inv

LEMMA NextInv == Inv /\ [Next]_txVars => Inv'
<1> SUFFICES ASSUME Inv, [Next]_txVars PROVE Inv'
  OBVIOUS
<1>1. CASE UNCHANGED txVars
  <2>1. UNCHANGED <<balance, txn, job, pc, seen, holder>>
    BY <1>1 DEF txVars
  <2>2. TypeOK' /\ RowsFit' /\ JobsFit' /\ NonNegative' /\ FreshCopy'
    BY <2>1 DEF Inv, TypeOK, LedgerTypeOK, RowsFit, JobsFit, NonNegative, FreshCopy, IsType,
       Exists, Active
  <2>3. \A q \in Procs : First(job[q])' = First(job[q]) /\ Second(job[q])' = Second(job[q])
    BY <2>1 DEF First, Second, Lower, Higher, RecipientFirst
  <2>4. LocksMatch'
    BY <2>1, <2>3 DEF Inv, LocksMatch, Locked
  <2>5. ChecksHold'
    BY <2>1, <2>3 DEF Inv, ChecksHold, Pending, Exists
  <2> QED BY <2>2, <2>4, <2>5 DEF Inv
<1>2. ASSUME NEW p \in Procs, NEW j \in Jobs, Begin(p, j) PROVE Inv'
  BY <1>2, BeginPreserves
<1>3. ASSUME NEW p \in Procs, Open(p) PROVE Inv'
  BY <1>3, OpenPreserves
<1>4. ASSUME NEW p \in Procs, LockFirst(p) PROVE Inv'
  BY <1>4, LockFirstPreserves
<1>5. ASSUME NEW p \in Procs, LockSecond(p) PROVE Inv'
  BY <1>5, LockSecondPreserves
<1>6. ASSUME NEW p \in Procs, Refuse(p) \/ DbError(p) \/ DeadlockVictim(p) PROVE Inv'
  BY <1>6, AbortPreserves DEF Refuse, DbError, DeadlockVictim
<1>7. ASSUME NEW p \in Procs, Commit(p) PROVE Inv'
  BY <1>7, CommitPreserves
<1> QED BY <1>1, <1>2, <1>3, <1>4, <1>5, <1>6, <1>7 DEF Next

-----------------------------------------------------------------------------
\* The invariant of the repository: rows and copies have their types, the
\* locks are those of the statements, nobody computes from a stale balance and
\* no account is overdrawn, in every interleaving of any number of methods.
THEOREM TxInvariant == Spec => []Inv
<1>1. Init => Inv
  BY InitInv
<1>2. Inv /\ [Next]_txVars => Inv'
  BY NextInv
<1> QED BY <1>1, <1>2, PTL DEF Spec

\* Type correctness of the statement-level model.
THEOREM TxTypes == Spec => []TypeOK
<1>1. Inv => TypeOK
  BY DEF Inv
<1> QED BY <1>1, TxInvariant, PTL

\* No interleaving of repository methods overdraws an account.
THEOREM TxNonNegative == Spec => []NonNegative
<1>1. Inv => NonNegative
  BY DEF Inv
<1> QED BY <1>1, TxInvariant, PTL

\* A row is locked by exactly the transaction whose statements took it, and no
\* lock outlives its transaction.
THEOREM TxLocks == Spec => []LocksMatch
<1>1. Inv => LocksMatch
  BY DEF Inv
<1> QED BY <1>1, TxInvariant, PTL

\* The balance a method computes from is the balance in the table: no update
\* of a balance is ever lost.
THEOREM TxFreshCopy == Spec => []FreshCopy
<1>1. Inv => FreshCopy
  BY DEF Inv
<1> QED BY <1>1, TxInvariant, PTL

\* The statement-level repository implements the atomic one: every behaviour of
\* interleaved database transactions is one where each method happens at its
\* commit or not at all.
THEOREM TxImplementsLedger == Spec => LedgerSpec
<1>1. Init => LedgerInit
  BY DEF Init
<1>2. ASSUME Inv, [Next]_txVars PROVE [LedgerNext]_ledgerVars
  <2>1. CASE UNCHANGED txVars
    BY <2>1 DEF txVars, ledgerVars
  <2>2. ASSUME NEW p \in Procs, NEW j \in Jobs, Begin(p, j) PROVE UNCHANGED ledgerVars
    BY <2>2 DEF Begin, ledgerVars
  <2>3. ASSUME NEW p \in Procs, LockFirst(p) \/ LockSecond(p) PROVE UNCHANGED ledgerVars
    BY <2>3 DEF LockFirst, LockSecond, ledgerVars
  <2>4. ASSUME NEW p \in Procs, Refuse(p) \/ DbError(p) \/ DeadlockVictim(p)
        PROVE  UNCHANGED ledgerVars
    BY <2>4 DEF Refuse, DbError, DeadlockVictim
  <2>5. ASSUME NEW p \in Procs, Open(p) PROVE LedgerNext
    BY <2>5 DEF Open, LedgerNext
  <2>6. ASSUME NEW p \in Procs, Commit(p) PROVE LedgerNext
    BY <1>2, <2>6, CommitImplements
  <2> QED BY <1>2, <2>1, <2>2, <2>3, <2>4, <2>5, <2>6 DEF Next
<1> QED BY <1>1, <1>2, TxInvariant, PTL DEF Spec, LedgerSpec

-----------------------------------------------------------------------------
(***************************************************************************)
(* Lock order.                                                             *)
(***************************************************************************)
\* The order in which every method but a swap locks its two rows.
Rank(k) ==
  IF k \in Accounts THEN k[1]
  ELSE IF k \in Hashes THEN NumWallets + 2
  ELSE IF IsType(k, "topup") THEN NumWallets + 1
  ELSE 0

\* Only a method that needs two rows ever waits for a second one.
NeedsTwo ==
  \A p \in Procs : pc[p] = "second" =>
    job[p].op \in {"Transfer", "Settle", "Sent", "Reject", "Deposit", "Swap"}

LEMMA NeedsTwoInv == Spec => []NeedsTwo
<1>1. Init => NeedsTwo
  BY DEF Init, NeedsTwo
<1>2. ASSUME NeedsTwo, TypeOK, [Next]_txVars PROVE NeedsTwo'
  <2>1. CASE UNCHANGED txVars
    BY <1>2, <2>1 DEF NeedsTwo, txVars
  <2>2. ASSUME NEW p \in Procs, NEW j \in Jobs, Begin(p, j) PROVE NeedsTwo'
    BY <1>2, <2>2 DEF Begin, NeedsTwo, TypeOK
  <2>3. ASSUME NEW p \in Procs, Open(p) PROVE NeedsTwo'
    BY <1>2, <2>3 DEF Open, NeedsTwo
  <2>4. ASSUME NEW p \in Procs, LockFirst(p) PROVE NeedsTwo'
    <3>1. /\ job' = job
          /\ \A q \in Procs \ {p} : pc'[q] = pc[q]
          /\ pc'[p] = "second" => Second(job[p]) # First(job[p])
      BY <1>2, <2>4 DEF LockFirst, TypeOK
    <3>2. pc[p] = "first" /\ job[p] \in Jobs \cup {NoJob}
      BY <1>2, <2>4 DEF LockFirst, TypeOK
    <3>3. Second(job[p]) # First(job[p]) =>
            job[p].op \in {"Transfer", "Settle", "Sent", "Reject", "Deposit", "Swap"}
      BY DEF Second
    <3> QED BY <1>2, <3>1, <3>3 DEF NeedsTwo
  <2>5. ASSUME NEW p \in Procs, LockSecond(p) PROVE NeedsTwo'
    BY <1>2, <2>5 DEF LockSecond, NeedsTwo, TypeOK
  <2>6. ASSUME NEW p \in Procs, End(p) PROVE NeedsTwo'
    BY <1>2, <2>6 DEF End, NeedsTwo, TypeOK
  <2>7. ASSUME NEW p \in Procs, Commit(p) PROVE End(p)
    BY <2>7 DEF Commit, CommitTransfer, CommitTopUp, CommitWithdrawFiat, CommitWithdrawCrypto,
       CommitSettle, CommitStatus, CommitSent, CommitReject, CommitDeposit, CommitSwap
  <2> QED BY <1>2, <2>1, <2>2, <2>3, <2>4, <2>5, <2>6, <2>7
          DEF Next, Refuse, DbError, DeadlockVictim
<1> QED BY <1>1, <1>2, TxTypes, PTL DEF Spec

LEMMA RankNat ==
  ASSUME NEW k \in Keys
  PROVE  Rank(k) \in 0 .. NumWallets + 2
<1>1. CASE k \in Accounts
  <2>1. k[1] \in Wallets
    BY <1>1 DEF Accounts
  <2> QED BY <1>1, <2>1 DEF Rank, Wallets, LedgerAssumption
<1>2. CASE k \notin Accounts
  BY <1>2 DEF Rank, LedgerAssumption
<1> QED BY <1>1, <1>2

\* Every method but a swap locks its rows in ascending order.
LEMMA Ascending ==
  ASSUME Inv, NeedsTwo, NEW q \in Procs, pc[q] = "second", job[q].op # "Swap"
  PROVE  Rank(First(job[q])) < Rank(Second(job[q]))
<1> DEFINE j == job[q]
<1>1. j.op \in {"Transfer", "Settle", "Sent", "Reject", "Deposit"}
  BY DEF NeedsTwo
<1>2. Accounts \cap (TxIds \cup Hashes) = {} /\ TxIds \cap Hashes = {} /\ NumWallets \in Nat
  BY DEF LedgerTxAssumption, LedgerAssumption
<1>3. \A w \in Wallets, a \in Assets :
        /\ <<w, a>> \in Accounts /\ Rank(<<w, a>>) = w
        /\ w \in Nat /\ 0 < w /\ w < NumWallets + 1 /\ w < NumWallets + 2
  BY <1>2 DEF Rank, Accounts, Wallets
<1>4. \A h \in Hashes : Rank(h) = NumWallets + 2
  BY <1>2 DEF Rank
<1>5. \A id \in TxIds : Rank(id) = IF IsType(id, "topup") THEN NumWallets + 1 ELSE 0
  BY <1>2 DEF Rank
<1>6. CASE j.op = "Transfer"
  <2>1. /\ j.sender \in Wallets /\ j.recipient \in Wallets /\ j.asset \in Assets
        /\ j.sender # j.recipient
    BY <1>6, JobTypes DEF Inv, TypeOK, JobsFit, TransferJobs
  <2>2. Lower(j) \in Wallets /\ Higher(j) \in Wallets /\ Lower(j) < Higher(j)
    BY <2>1 DEF Lower, Higher, RecipientFirst, Wallets
  <2> QED BY <1>3, <1>6, <2>1, <2>2 DEF First, Second
<1>7. CASE j.op = "Settle"
  <2>1. j.wallet \in Wallets /\ j.id \in TxIds /\ IsType(j.id, "topup")
    BY <1>7, JobTypes DEF Inv, TypeOK, JobsFit, SettleJobs
  <2>2. IDR \in Assets
    BY DEF LedgerAssumption
  <2> QED BY <1>3, <1>5, <1>7, <2>1, <2>2 DEF First, Second
<1>8. CASE j.op = "Sent"
  <2>1. j.hash \in Hashes /\ j.id \in TxIds /\ ~ IsType(j.id, "topup")
    BY <1>8, JobTypes DEF Inv, TypeOK, JobsFit, SentJobs, IsType
  <2> QED BY <1>2, <1>4, <1>5, <1>8, <2>1 DEF First, Second
<1>9. CASE j.op = "Reject"
  <2>1. j.id \in TxIds /\ ~ IsType(j.id, "topup") /\ txn[j.id] \in Row
        /\ txn[j.id].source \in Wallets
    BY <1>9, JobTypes DEF Inv, TypeOK, LedgerTypeOK, JobsFit, RejectJobs, IsType, Exists, RowsFit
  <2>2. txn[j.id].asset \in Assets
    BY <2>1 DEF Row
  <2> QED BY <1>3, <1>5, <1>9, <2>1, <2>2 DEF First, Second
<1>10. CASE j.op = "Deposit"
  <2>1. j.wallet \in Wallets /\ j.asset \in Assets /\ j.hash \in Hashes
    BY <1>10, JobTypes DEF Inv, TypeOK, DepositJobs
  <2> QED BY <1>3, <1>4, <1>10, <2>1 DEF First, Second
<1> QED BY <1>1, <1>6, <1>7, <1>8, <1>9, <1>10

LEMMA CyclesHaveSwaps ==
  ASSUME Inv, NeedsTwo
  PROVE  CycleNeedsSwap
<1> SUFFICES ASSUME NEW S \in SUBSET Procs, Deadlocked(S),
                    \A p \in S : job[p].op # "Swap"
             PROVE  FALSE
  BY DEF CycleNeedsSwap
<1> DEFINE T == {Rank(Wanted(p)) : p \in S}
<1>1. S # {} /\ \A p \in S : \E q \in S : WaitsFor(p, q)
  BY DEF Deadlocked
<1>2. \A p \in S : pc[p] \in {"first", "second"} /\ Wanted(p) \in Keys
  BY <1>1, RowsOfJob DEF WaitsFor, Wanted, Active
<1>3. ASSUME NEW p \in S
      PROVE  \E q \in S : Rank(Wanted(p)) < Rank(Wanted(q))
  <2>1. PICK q \in S : WaitsFor(p, q)
    BY <1>1
  <2>2. Wanted(p) \in Locked(q)
    BY <1>2, <2>1 DEF WaitsFor, Inv, LocksMatch
  <2>3. pc[q] = "second" /\ Wanted(p) = First(job[q]) /\ Wanted(q) = Second(job[q])
    BY <1>2, <2>2 DEF Locked, Wanted
  <2> QED BY <2>3, Ascending
<1>4. T \in SUBSET (0 .. NumWallets + 2) /\ T # {}
  BY <1>1, <1>2, RankNat
<1>5. NumWallets + 2 \in Nat
  BY DEF LedgerAssumption
<1>6. PICK x \in T : \A y \in T : y <= x
  BY <1>4, <1>5, Greatest
<1>7. PICK p \in S : x = Rank(Wanted(p))
  BY <1>6
<1>8. PICK q \in S : Rank(Wanted(p)) < Rank(Wanted(q))
  BY <1>3
<1>9. Rank(Wanted(q)) <= x
  BY <1>6
<1> QED BY <1>2, <1>7, <1>8, <1>9, RankNat

\* The lock order of the repository excludes every wait cycle without a swap:
\* what the comment on ExecuteTransferTx promises, for transfers and for all
\* the other methods, with ExecuteSwapTx as the only exception.
THEOREM TxCycleNeedsSwap == Spec => []CycleNeedsSwap
<1>1. Inv /\ NeedsTwo => CycleNeedsSwap
  BY CyclesHaveSwaps
<1> QED BY <1>1, TxInvariant, NeedsTwoInv, PTL

\* One blockchain hash belongs to one row, in every interleaving.
THEOREM TxHashOnce == Spec => []HashOnce
BY TxImplementsLedger, LedgerHashOnce, PTL

-----------------------------------------------------------------------------
(***************************************************************************)
(* Taking turns.  If the callers concerned with one row take turns, a      *)
(* method that was called for a pending row finds it pending when it       *)
(* commits, and so nobody overwrites an outcome; and a settlement still    *)
(* credits what Midtrans was asked to charge.                              *)
(***************************************************************************)
Turns ==
  \A p \in Procs : job[p].op \in OnRow =>
    /\ Pending(job[p].id)
    /\ \A q \in Procs \ {p} : job[q].op \in OnRow => job[q].id # job[p].id
    /\ job[p].op = "Settle" => /\ job[p].wallet = txn[job[p].id].destination
                              /\ job[p].amount = Whole(txn[job[p].id].amount)
    /\ job[p].op = "Status" =>
         \/ IsType(job[p].id, "topup") /\ job[p].status = "failed"
         \/ IsType(job[p].id, "withdraw_fiat") /\ job[p].status \in {"pending", "success"}

\* The only row of the history a method locks is the one it was called for.
LEMMA OwnRow ==
  ASSUME Inv, NEW p \in Procs, NEW id \in TxIds, holder[id] = p
  PROVE  job[p].op \in OnRow /\ id = job[p].id
<1> DEFINE j == job[p]
<1>1. id \in Locked(p)
  BY DEF Inv, LocksMatch, Keys
<1>2. (id = First(j) \/ id = Second(j)) /\ Active(p)
  BY <1>1 DEF Locked, Active
<1>3. j \in Jobs
  BY <1>2 DEF Inv, TypeOK, JobsFit
<1>4. id \notin Accounts /\ id \notin Hashes
  BY DEF LedgerTxAssumption
<1>5. CASE j.op \in {"Transfer", "TopUp", "WithdrawFiat", "WithdrawCrypto", "Swap", "Deposit"}
  BY <1>2, <1>3, <1>4, <1>5, JobTypes DEF First, Second, Lower, Higher, Accounts, TransferJobs,
     TopUpJobs, FiatJobs, CryptoJobs, SwapJobs, DepositJobs
<1>6. CASE j.op \in {"Settle", "Status", "Sent"}
  BY <1>2, <1>3, <1>4, <1>6, JobTypes DEF First, Second, Accounts, OnRow,
     SettleJobs, StatusJobs, SentJobs
<1>7. CASE j.op = "Reject"
  <2>1. j.id \in TxIds /\ Exists(j.id) /\ txn[j.id] \in Row /\ txn[j.id].source \in Wallets
    BY <1>3, <1>7, JobTypes DEF RejectJobs, Inv, JobsFit, OnRow, TypeOK, LedgerTypeOK,
       Exists, RowsFit, IsType
  <2> QED BY <1>2, <1>4, <1>7, <2>1 DEF First, Second, Accounts, Row, OnRow
<1>8. j.op \in {"Transfer", "TopUp", "WithdrawFiat", "WithdrawCrypto", "Swap", "Deposit",
                "Settle", "Status", "Sent", "Reject"}
  BY <1>3 DEF Jobs, TransferJobs, TopUpJobs, FiatJobs, CryptoJobs, SettleJobs, StatusJobs,
     SentJobs, RejectJobs, DepositJobs, SwapJobs
<1> QED BY <1>5, <1>6, <1>7, <1>8

LEMMA OwnRowExists ==
  ASSUME Inv, NEW p \in Procs, job[p].op \in OnRow
  PROVE  job[p].id \in TxIds /\ Exists(job[p].id)
  BY JobTypes DEF Inv, TypeOK, JobsFit, OnRow, SettleJobs, StatusJobs, SentJobs, RejectJobs

\* A step that leaves the rows of the other methods alone.
LEMMA TurnsKept ==
  ASSUME Inv, Turns, NEW P \in SUBSET Procs,
         \A q \in Procs : IF q \in P THEN job'[q] = job[q] ELSE job'[q].op \notin OnRow,
         \A q \in P : job[q].op \in OnRow => txn'[job[q].id] = txn[job[q].id]
  PROVE  Turns'
<1> SUFFICES ASSUME NEW p \in Procs, job'[p].op \in OnRow
             PROVE  /\ Pending(job[p].id)'
                    /\ \A q \in Procs \ {p} : job'[q].op \in OnRow => job'[q].id # job'[p].id
                    /\ job'[p].op = "Settle" => /\ job'[p].wallet = txn'[job'[p].id].destination
                                               /\ job'[p].amount = Whole(txn'[job'[p].id].amount)
                    /\ job'[p].op = "Status" =>
                         \/ IsType(job[p].id, "topup")' /\ job'[p].status = "failed"
                         \/ IsType(job[p].id, "withdraw_fiat")' /\ job'[p].status \in {"pending", "success"}
  BY DEF Turns
<1>1. p \in P /\ job'[p] = job[p]
  OBVIOUS
<1>2. txn'[job[p].id] = txn[job[p].id]
  BY <1>1
<1>3. Pending(job[p].id)' /\ \A type : IsType(job[p].id, type)' <=> IsType(job[p].id, type)
  BY <1>1, <1>2 DEF Turns, Pending, IsType, Exists
<1>4. \A q \in Procs \ {p} : job'[q].op \in OnRow => job'[q].id # job'[p].id
  BY <1>1 DEF Turns
<1> QED BY <1>1, <1>2, <1>3, <1>4 DEF Turns

LEMMA TurnsStep ==
  ASSUME TakeTurns, Inv, Turns, [Next]_txVars
  PROVE  Turns'
<1>1. CASE UNCHANGED txVars
  BY <1>1 DEF txVars, Turns, Pending, IsType, Exists
<1>2. ASSUME NEW p \in Procs, NEW j \in Jobs, Begin(p, j) PROVE Turns'
  <2>1. /\ UNCHANGED txn /\ MayCall(j) /\ OwnTurn(j) /\ job'[p] = j
        /\ \A q \in Procs \ {p} : job'[q] = job[q]
    BY <1>2 DEF Begin, Inv, TypeOK
  <2> SUFFICES ASSUME NEW q \in Procs, job'[q].op \in OnRow
               PROVE  /\ Pending(job'[q].id)
                      /\ \A r \in Procs \ {q} : job'[r].op \in OnRow => job'[r].id # job'[q].id
                      /\ job'[q].op = "Settle" => /\ job'[q].wallet = txn[job'[q].id].destination
                                                 /\ job'[q].amount = Whole(txn[job'[q].id].amount)
                      /\ job'[q].op = "Status" =>
                           \/ IsType(job'[q].id, "topup") /\ job'[q].status = "failed"
                           \/ IsType(job'[q].id, "withdraw_fiat") /\ job'[q].status \in {"pending", "success"}
    BY <2>1 DEF Turns, Pending, IsType, Exists
  <2>2. CASE q = p
    BY <2>1, <2>2 DEF OwnTurn, MayCall, OnRow
  <2>3. CASE q # p
    BY <2>1, <2>3 DEF OwnTurn, Turns
  <2> QED BY <2>2, <2>3
<1>3. ASSUME NEW p \in Procs, Open(p) PROVE Turns'
  <2>1. job' = job /\ \A i \in TxIds : Exists(i) => txn'[i] = txn[i]
    BY <1>3 DEF Open, CreatePendingTopUpTx, Insert, Inv, TypeOK, LedgerTypeOK
  <2> QED BY <2>1, OwnRowExists, TurnsKept
<1>4. ASSUME NEW p \in Procs, LockFirst(p) \/ LockSecond(p) PROVE Turns'
  BY <1>4 DEF LockFirst, LockSecond, Turns, Pending, IsType, Exists
<1>5. ASSUME NEW p \in Procs, End(p), \A q \in Procs \ {p} : job[q].op \in OnRow => txn'[job[q].id] = txn[job[q].id]
      PROVE  Turns'
  <2>1. job'[p].op \notin OnRow /\ \A q \in Procs \ {p} : job'[q] = job[q]
    BY <1>5 DEF End, NoJob, OnRow, Inv, TypeOK
  <2> QED BY <1>5, <2>1, TurnsKept
<1>6. ASSUME NEW p \in Procs, Refuse(p) \/ DbError(p) \/ DeadlockVictim(p) PROVE Turns'
  BY <1>5, <1>6 DEF Refuse, DbError, DeadlockVictim, ledgerVars
<1>7. ASSUME NEW p \in Procs, Commit(p) PROVE Turns'
  <2>1. OnlyHeldRows(p) /\ End(p)
    BY <1>7, CommitRows
  <2>2. ASSUME NEW q \in Procs \ {p}, job[q].op \in OnRow PROVE txn'[job[q].id] = txn[job[q].id]
    <3>1. job[q].id \in TxIds /\ Exists(job[q].id)
      BY <2>2, OwnRowExists
    <3>2. holder[job[q].id] # p
      BY <2>2, <3>1, OwnRow DEF Turns
    <3> QED BY <2>1, <3>1, <3>2 DEF OnlyHeldRows
  <2> QED BY <1>5, <2>1, <2>2
<1> QED BY <1>1, <1>2, <1>3, <1>4, <1>6, <1>7 DEF Next

\* What a commit decides was pending.
LEMMA CommitDecides ==
  ASSUME Inv, Turns, NEW p \in Procs, Commit(p)
  PROVE  OrderlyNext
<1> DEFINE id == job[p].id
<1>1. \A k \in TxIds : Opened(k, Amounts, Payable) => Opened(k, Nat, Nat)
  BY OpenedWithAmounts
<1>2. ASSUME job[p].op \in OnRow PROVE id \in TxIds /\ Exists(id) /\ txn[id].status = "pending"
  BY <1>2, OwnRowExists DEF Turns, Pending
<1>3. CASE \/ CommitTransfer(p) \/ CommitTopUp(p) \/ CommitWithdrawFiat(p)
           \/ CommitWithdrawCrypto(p) \/ CommitDeposit(p) \/ CommitSwap(p)
  BY <1>1, <1>3, TransferImplements, TopUpImplements, WithdrawFiatImplements,
     WithdrawCryptoImplements, DepositImplements, SwapImplements DEF OrderlyNext
<1>4. CASE CommitSettle(p)
  <2>1. job[p].op = "Settle" /\ SettleTopUpTx(id, job[p].wallet, job[p].amount)
    BY <1>4, SettleImplements DEF CommitSettle, Writing
  <2>2. /\ IsType(id, "topup") /\ job[p].wallet = txn[id].destination
        /\ job[p].amount = Whole(txn[id].amount)
    BY <2>1 DEF Inv, JobsFit, Turns, OnRow
  <2>3. Decided(id)
    BY <1>2, <2>1, <2>2 DEF Decided, OnRow
  <2> QED BY <1>2, <2>1, <2>3 DEF OrderlyNext, OnRow
<1>5. CASE CommitStatus(p)
  <2>1. job[p].op = "Status" /\ UpdateTransactionStatus(id, job[p].status)
    BY <1>5, StatusImplements DEF CommitStatus, Writing
  <2>2. id \in TxIds /\ txn[id].status = "pending"
    BY <1>2, <2>1 DEF OnRow
  <2>3. Decided(id)
    BY <2>1, <2>2 DEF Decided, Turns, OnRow
  <2> QED BY <2>2, <2>3 DEF OrderlyNext
<1>6. CASE CommitSent(p)
  <2>1. job[p].op = "Sent" /\ UpdateCryptoWithdrawTx(id, job[p].hash) /\ job[p].hash \in Hashes
    BY <1>6, SentImplements, JobTypes DEF CommitSent, Writing, Inv, TypeOK, SentJobs
  <2>2. id \in TxIds /\ txn[id].status = "pending" /\ IsType(id, "crypto_withdrawal")
    BY <1>2, <2>1 DEF OnRow, Inv, JobsFit
  <2>3. Decided(id)
    BY <2>1, <2>2 DEF Decided
  <2> QED BY <2>2, <2>3 DEF OrderlyNext
<1>7. CASE CommitReject(p)
  <2>1. job[p].op = "Reject" /\ RejectWithdrawTx(id)
    BY <1>7, RejectImplements DEF CommitReject, Writing
  <2>2. id \in TxIds /\ (IsType(id, "withdraw_fiat") \/ IsType(id, "crypto_withdrawal"))
    BY <1>2, <2>1 DEF OnRow, Inv, JobsFit
  <2>3. Decided(id)
    BY <2>1, <2>2 DEF Decided
  <2> QED BY <2>2, <2>3 DEF OrderlyNext
<1> QED BY <1>3, <1>4, <1>5, <1>6, <1>7 DEF Commit

\* Callers that take turns, and settle a top-up with the whole rupiah Midtrans
\* was asked to charge, make the repository an orderly ledger, for all that their
\* transactions interleave statement by statement.
THEOREM TxOrderly == TakeTurns => (Spec => OrderlySpec)
<1> SUFFICES ASSUME TakeTurns PROVE Spec => OrderlySpec
  OBVIOUS
<1>1. Init => LedgerInit /\ Turns
  BY DEF Init, Turns, NoJob, OnRow
<1>2. Inv /\ Turns /\ [Next]_txVars => Turns'
  BY TurnsStep
<1>3. ASSUME Inv, Turns, [Next]_txVars PROVE [OrderlyNext]_ledgerVars
  <2>1. CASE UNCHANGED txVars
    BY <2>1 DEF txVars, ledgerVars
  <2>2. ASSUME NEW p \in Procs, NEW j \in Jobs, Begin(p, j) PROVE UNCHANGED ledgerVars
    BY <2>2 DEF Begin, ledgerVars
  <2>3. ASSUME NEW p \in Procs, LockFirst(p) \/ LockSecond(p) PROVE UNCHANGED ledgerVars
    BY <2>3 DEF LockFirst, LockSecond, ledgerVars
  <2>4. ASSUME NEW p \in Procs, Refuse(p) \/ DbError(p) \/ DeadlockVictim(p)
        PROVE  UNCHANGED ledgerVars
    BY <2>4 DEF Refuse, DbError, DeadlockVictim
  <2>5. ASSUME NEW p \in Procs, Open(p) PROVE OrderlyNext
    <3>1. \E id \in TxIds : Opened(id, Amounts, Payable)
      BY <2>5 DEF Open, Opened
    <3> QED BY <3>1, OpenedWithAmounts DEF OrderlyNext
  <2>6. ASSUME NEW p \in Procs, Commit(p) PROVE OrderlyNext
    BY <1>3, <2>6, CommitDecides
  <2> QED BY <1>3, <2>1, <2>2, <2>3, <2>4, <2>5, <2>6 DEF Next
<1> QED BY <1>1, <1>2, <1>3, TxInvariant, PTL DEF Spec, OrderlySpec

\* The books balance in every interleaving of the statements: with callers that
\* take turns no update is lost, nothing is credited or refunded twice, and a
\* top-up has brought the whole rupiah of its row, not the fraction.
THEOREM TxJournal == TakeTurns => (Spec => []Journal)
BY TxOrderly, OrderlyBooksBalance, PTL
====
