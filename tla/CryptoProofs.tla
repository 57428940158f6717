---------------------------- MODULE CryptoProofs ----------------------------
(***************************************************************************)
(* Theorems about Crypto, for any number of wallets, withdrawals and       *)
(* deposits.                                                               *)
(*                                                                         *)
(* A withdrawal's row is written by its own goroutine alone, and how far   *)
(* that goroutine has come tells both what the row says and what the node  *)
(* was given (Fits).  So a step of one withdrawal leaves the others as     *)
(* they were, and what is left to show is one withdrawal at a time.        *)
(***************************************************************************)
EXTENDS Crypto, LedgerProofs, FiniteSetTheorems

USE LedgerAssumption, CryptoAssumption

Worker == [step : Steps, from : Addresses \cup {Outside}, to : Registered \cup {Outside},
           nonce : Nat, hash : Hashes \cup {NoHash}]

NodeTypes ==
  /\ chain \in [Hashes -> Tx \cup {NoTx}]
  /\ worker \in [Orders -> Worker]

\* The goroutine, the row and the node's transactions of a withdrawal.
Fits(id) ==
  /\ At(id, "none") <=> ~ Exists(id)
  /\ worker[id].step \in Steps \ {"none", "done", "gaveUp"} => txn[id].status = "pending"
  /\ At(id, "signed") => worker[id].from \in Registered
  /\ worker[id].step \in {"none", "preparing", "signed", "refused"} => Broadcasts(id) = {}
  /\ At(id, "sent") => worker[id].hash \in Broadcasts(id)
  /\ \A g, h \in Broadcasts(id) : g = h
  /\ \A h \in Broadcasts(id) : txn[id].amount - chain[h].amount \in 0 .. Scale - 1
  /\ Exists(id) /\ txn[id].status = "success" => txn[id].hash \in Broadcasts(id)
  /\ Exists(id) /\ txn[id].status = "failed" /\ ~ At(id, "gaveUp") => Broadcasts(id) = {}

CryptoInv ==
  /\ LedgerInv
  /\ NodeTypes
  /\ \A id \in Orders : Fits(id)

-----------------------------------------------------------------------------
\* Cutting off what is finer than the token takes less than a unit of it.
LEMMA TokensFacts ==
  ASSUME NEW n \in Nat
  PROVE  Tokens(n) \in Nat /\ n - Tokens(n) \in 0 .. Scale - 1
<1>1. n \div Scale \in Nat /\ n % Scale \in 0 .. Scale - 1
  OBVIOUS
<1>2. n = Scale * (n \div Scale) + (n % Scale)
  OBVIOUS
<1> DEFINE q == n \div Scale
<1>3. q \in Nat /\ n = Scale * q + (n % Scale)
  BY <1>1, <1>2
<1> HIDE DEF q
<1>4. q * Scale = Scale * q /\ q * Scale \in Nat
  BY <1>3
<1>5. Tokens(n) = q * Scale
  BY DEF Tokens, q
<1> QED
  BY <1>1, <1>3, <1>4, <1>5

LEMMA NonceFacts ==
  ASSUME NEW k
  PROVE  PendingNonce(k) \in Nat
<1>1. SentFrom(k) \subseteq Hashes
  BY DEF SentFrom
<1> QED
  BY <1>1, FS_Subset, FS_CardinalityType DEF PendingNonce

\* A goroutine that takes a step.
LEMMA GotoFacts ==
  ASSUME NodeTypes, NEW id \in Orders, NEW step \in Steps, Goto(id, step)
  PROVE  /\ worker' \in [Orders -> Worker]
         /\ worker'[id].step = step /\ worker'[id].from = worker[id].from
         /\ worker'[id].hash = worker[id].hash
         /\ \A k \in Orders \ {id} : worker'[k] = worker[k]
<1> DEFINE new == [worker[id] EXCEPT !.step = step]
<1>1. worker[id] \in Worker
  BY DEF NodeTypes
<1>2. new \in Worker /\ new.step = step /\ new.from = worker[id].from /\ new.hash = worker[id].hash
  BY <1>1 DEF Worker
<1>3. worker' = [worker EXCEPT ![id] = new]
  BY DEF Goto
<1> HIDE DEF new
<1> QED
  BY <1>2, <1>3 DEF NodeTypes

\* What the node has of the other withdrawals, when it takes one of id or none.
SameTxs(k) ==
  /\ Broadcasts(k)' = Broadcasts(k)
  /\ \A h \in Broadcasts(k) : chain'[h].amount = chain[h].amount

\* A step of one withdrawal: it is left to look at this one.
LEMMA OneOrder ==
  ASSUME CryptoInv, NEW id \in Orders, LedgerInv', NodeTypes', Fits(id)',
         \A k \in Orders \ {id} : txn'[k] = txn[k] /\ worker'[k] = worker[k] /\ SameTxs(k)
  PROVE  CryptoInv'
<1>1. ASSUME NEW k \in Orders \ {id} PROVE Fits(k)'
  <2>1. Fits(k)
    BY DEF CryptoInv
  <2>2. Broadcasts(k)' = Broadcasts(k)
        /\ \A h \in Broadcasts(k) : chain'[h].amount = chain[h].amount
    BY DEF SameTxs
  <2>3. txn'[k] = txn[k] /\ worker'[k] = worker[k]
    OBVIOUS
  <2> QED
    BY <2>1, <2>2, <2>3 DEF Fits, Exists, At
<1> QED
  BY <1>1 DEF CryptoInv

\* The node takes a transaction of a withdrawal it has none of.
LEMMA AcceptFacts ==
  ASSUME CryptoInv, NEW id \in Orders, NEW h \in Hashes, At(id, "signed"), Accept(id, h)
  PROVE  /\ chain' \in [Hashes -> Tx \cup {NoTx}]
         /\ Broadcasts(id)' = {h}
         /\ txn[id].amount - chain'[h].amount \in 0 .. Scale - 1
         /\ \A k \in Orders \ {id} : SameTxs(k)
<1> DEFINE w == worker[id]
           new == [row |-> id, from |-> w.from, to |-> w.to, amount |-> Tokens(txn[id].amount),
                   nonce |-> w.nonce, state |-> "pooled"]
<1>1. w \in Worker /\ w.from \in Registered /\ Exists(id) /\ Broadcasts(id) = {}
  BY DEF CryptoInv, NodeTypes, Fits, At
<1>2. txn[id] \in Row
  BY <1>1 DEF CryptoInv, LedgerInv, LedgerTypeOK, Exists
<1>3. txn[id].amount \in Nat
  BY <1>2 DEF Row
<1>4. new \in Tx /\ new.row = id /\ txn[id].amount - new.amount \in 0 .. Scale - 1
  BY <1>1, <1>3, TokensFacts DEF Tx, Worker
<1>5. new # NoTx
  BY <1>4
<1>6. chain[h] = NoTx
  BY DEF Accept, FreshHash
<1>7. \/ chain' = [chain EXCEPT ![h] = new]
      \/ \E old \in SentFrom(w.from) : chain' = [chain EXCEPT ![h] = new, ![old].state = "replaced"]
  BY DEF Accept
<1> HIDE DEF new, w
<1>8. /\ chain' \in [Hashes -> Tx \cup {NoTx}]
      /\ chain'[h] = new
      /\ \A g \in Hashes \ {h} : chain[g] = NoTx <=> chain'[g] = NoTx
      /\ \A g \in Hashes \ {h} : chain[g] # NoTx =>
           chain'[g].row = chain[g].row /\ chain'[g].amount = chain[g].amount
  <2>1. CASE chain' = [chain EXCEPT ![h] = new]
    BY <1>4, <2>1 DEF CryptoInv, NodeTypes
  <2>2. ASSUME NEW old \in SentFrom(w.from),
               chain' = [chain EXCEPT ![h] = new, ![old].state = "replaced"]
        PROVE  /\ chain' \in [Hashes -> Tx \cup {NoTx}]
               /\ chain'[h] = new
               /\ \A g \in Hashes \ {h} : chain[g] = NoTx <=> chain'[g] = NoTx
               /\ \A g \in Hashes \ {h} : chain[g] # NoTx =>
                    chain'[g].row = chain[g].row /\ chain'[g].amount = chain[g].amount
    <3> DEFINE gone == [chain[old] EXCEPT !.state = "replaced"]
    <3>1. old \in Hashes /\ chain[old] # NoTx /\ old # h
      BY <1>6, <2>2 DEF SentFrom
    <3>2. chain[old] \in Tx
      BY <3>1 DEF CryptoInv, NodeTypes
    <3>3. gone \in Tx /\ gone.row = chain[old].row /\ gone.amount = chain[old].amount
      BY <3>2 DEF Tx
    <3>4. chain' = [chain EXCEPT ![h] = new, ![old] = gone]
      BY <2>2, <3>1 DEF CryptoInv, NodeTypes
    <3>5. gone # NoTx
      BY <3>3
    <3> HIDE DEF gone
    <3> QED
      BY <1>4, <3>1, <3>3, <3>4, <3>5 DEF CryptoInv, NodeTypes
  <2> QED
    BY <1>7, <2>1, <2>2
<1>9. Broadcasts(id)' = {h}
  BY <1>1, <1>4, <1>5, <1>8 DEF Broadcasts
<1>10. ASSUME NEW k \in Orders \ {id} PROVE SameTxs(k)
  BY <1>4, <1>6, <1>8 DEF SameTxs, Broadcasts
<1> QED
  BY <1>4, <1>8, <1>9, <1>10

-----------------------------------------------------------------------------
(***************************************************************************)
(* The node and the listener.                                              *)
(***************************************************************************)
LEMMA ExecuteKeeps ==
  ASSUME CryptoInv, NEW h \in Hashes, Execute(h)
  PROVE  CryptoInv' /\ UNCHANGED txn
<1>1. UNCHANGED ledgerVars /\ UNCHANGED worker /\ chain[h] # NoTx
  BY DEF Execute
<1>2. PICK end \in {"mined", "reverted"} : chain' = [chain EXCEPT ![h].state = end]
  BY DEF Execute
<1> DEFINE new == [chain[h] EXCEPT !.state = end]
<1>3. chain[h] \in Tx
  BY <1>1 DEF CryptoInv, NodeTypes
<1>4. new \in Tx /\ new # NoTx /\ new.row = chain[h].row /\ new.amount = chain[h].amount
  BY <1>3 DEF Tx
<1>5. chain' = [chain EXCEPT ![h] = new]
  BY <1>2
<1> HIDE DEF new
<1>6. NodeTypes'
  BY <1>1, <1>4, <1>5 DEF CryptoInv, NodeTypes
<1>7. LedgerInv'
  BY <1>1 DEF CryptoInv, LedgerInv, LedgerTypeOK, RowsFit, NonNegative, IsType, Exists, ledgerVars
<1>8. ASSUME NEW k \in Orders PROVE Fits(k)'
  <2>1. /\ Broadcasts(k)' = Broadcasts(k)
        /\ \A g \in Broadcasts(k) : chain'[g].amount = chain[g].amount
    BY <1>1, <1>4, <1>5 DEF Broadcasts, CryptoInv, NodeTypes
  <2> QED
    BY <1>1, <2>1 DEF CryptoInv, Fits, Exists, At, ledgerVars
<1> QED
  BY <1>1, <1>6, <1>7, <1>8 DEF CryptoInv, ledgerVars

\* A deposit takes a row that is no withdrawal's.
LEMMA CreditKeeps ==
  ASSUME CryptoInv, NEW h \in Hashes, CreditOnPlatform(h)
  PROVE  CryptoInv' /\ \A k \in Orders : txn'[k] = txn[k]
<1> DEFINE from == txn[chain[h].row]
<1>1. PICK id \in TxIds \ Orders :
        CreditCryptoDeposit(id, Owner(chain[h].to), from.asset, chain[h].amount, h)
  BY DEF CreditOnPlatform
<1>2. chain[h] \in Tx /\ chain[h] # NoTx /\ chain[h].to \in Registered
  BY DEF CreditOnPlatform, CryptoInv, NodeTypes
<1>3. chain[h].row \in Orders /\ chain[h].amount \in Nat /\ Owner(chain[h].to) \in Wallets
  BY <1>2 DEF Tx, Owner, Addresses
<1>4. h \in Broadcasts(chain[h].row)
  BY <1>2 DEF Broadcasts
<1>5. Exists(chain[h].row)
  BY <1>3, <1>4 DEF CryptoInv, Fits, At
<1>6. from \in Row
  BY <1>3, <1>5 DEF CryptoInv, LedgerInv, LedgerTypeOK, Exists
<1>7. from.asset \in Assets
  BY <1>6 DEF Row
<1> HIDE DEF from
<1> DEFINE row == [Entry("crypto_deposit", Nil, Owner(chain[h].to), from.asset, chain[h].amount,
                         "success") EXCEPT !.hash = h]
<1>8. Insert(id, row) /\ Credit(Owner(chain[h].to), from.asset, chain[h].amount)
  BY <1>1 DEF CreditCryptoDeposit
<1>9. row \in Row /\ row.type = "crypto_deposit"
  BY <1>3, <1>7 DEF Entry, Row, Types, Statuses, OrderIDs, Nil
<1> HIDE DEF row
<1>10. LedgerInv'
  <2>1. balance' \in [Accounts -> Int] /\ NonNegative'
    BY <1>3, <1>8, CreditFacts DEF CryptoInv, LedgerInv
  <2>2. txn' \in [TxIds -> Row \cup {NoRow}] /\ RowsFit'
    BY <1>8, <1>9, InsertFacts DEF CryptoInv, LedgerInv
  <2> QED
    BY <2>1, <2>2 DEF LedgerInv, LedgerTypeOK
<1>11. \A k \in Orders : txn'[k] = txn[k]
  BY <1>8, <1>9, RowInserted DEF CryptoInv, LedgerInv
<1>12. UNCHANGED <<chain, worker>>
  BY DEF CreditOnPlatform
<1>13. NodeTypes' /\ \A k \in Orders : Fits(k)'
  BY <1>11, <1>12 DEF CryptoInv, NodeTypes, Fits, Broadcasts, Exists, At
<1> QED
  BY <1>10, <1>11, <1>13 DEF CryptoInv

-----------------------------------------------------------------------------
(***************************************************************************)
(* The steps of a withdrawal.                                              *)
(***************************************************************************)
\* The row of id is left alone, recorded, or decided while it is pending; the
\* rows of the others are left alone.
OrderWrites(id) ==
  /\ \A k \in Orders \ {id} : txn'[k] = txn[k]
  /\ \/ txn'[id] = txn[id]
     \/ ~ Exists(id) /\ Exists(id)' /\ txn'[id].status = "pending"
     \/ /\ Exists(id) /\ Exists(id)'
        /\ txn[id].status = "pending" /\ txn'[id].status \in {"success", "failed"}

LEMMA LedgerKept ==
  ASSUME LedgerInv, LedgerNext \/ UNCHANGED ledgerVars
  PROVE  LedgerInv'
<1>1. UNCHANGED ledgerVars => LedgerInv'
  BY DEF LedgerInv, LedgerTypeOK, RowsFit, NonNegative, IsType, Exists, ledgerVars
<1> QED
  BY <1>1, LedgerStep

LEMMA WithdrawKeeps ==
  ASSUME CryptoInv, NEW id \in Orders, WithdrawCrypto(id)
  PROVE  CryptoInv' /\ OrderWrites(id)
<1>1. PICK k \in Addresses, to \in Registered \cup {Outside}, n \in Amounts :
        /\ CreatePendingCryptoWithdrawTx(id, Owner(k), k[2], n)
        /\ worker' = [worker EXCEPT ![id] =
                       [NoWorker EXCEPT !.step = "preparing", !.from = k, !.to = to]]
  BY DEF WithdrawCrypto
<1>2. Owner(k) \in Wallets /\ k[2] \in Assets
  BY DEF Owner, Addresses
<1> DEFINE row == Entry("crypto_withdrawal", Owner(k), Nil, k[2], n, "pending")
           new == [NoWorker EXCEPT !.step = "preparing", !.from = k, !.to = to]
<1>3. row \in Row /\ row.status = "pending"
  BY <1>2 DEF Entry, Row, Types, Statuses, OrderIDs, Nil
<1>4. Insert(id, row)
  BY <1>1 DEF CreatePendingCryptoWithdrawTx
<1>5. new \in Worker /\ new.step = "preparing"
  BY DEF NoWorker, Worker, Steps
<1>6. worker' = [worker EXCEPT ![id] = new] /\ UNCHANGED chain
  BY <1>1 DEF WithdrawCrypto
<1> HIDE DEF row, new
<1>7. /\ ~ Exists(id) /\ txn'[id] = row /\ row # NoRow
      /\ \A j \in TxIds \ {id} : txn'[j] = txn[j]
  BY <1>3, <1>4, RowInserted DEF CryptoInv, LedgerInv
<1>8. LedgerInv'
  <2>1. LedgerNext
    BY <1>1, <1>2 DEF LedgerNext
  <2> QED
    BY <2>1, LedgerKept DEF CryptoInv
<1>9. NodeTypes' /\ worker'[id] = new /\ \A j \in Orders \ {id} : worker'[j] = worker[j]
  BY <1>5, <1>6 DEF CryptoInv, NodeTypes
<1>10. \A j \in Orders : SameTxs(j)
  BY <1>6 DEF SameTxs, Broadcasts
<1>11. Fits(id)'
  <2>1. Broadcasts(id) = {}
    BY <1>7 DEF CryptoInv, Fits, At
  <2>2. Broadcasts(id)' = {}
    BY <1>10, <2>1 DEF SameTxs
  <2>3. At(id, "preparing")' /\ Exists(id)' /\ txn'[id].status = "pending"
    BY <1>3, <1>5, <1>7, <1>9 DEF At, Exists
  <2> QED
    BY <2>2, <2>3 DEF Fits, At
<1>12. CryptoInv'
  BY <1>7, <1>8, <1>9, <1>10, <1>11, OneOrder
<1> QED
  BY <1>3, <1>7, <1>12 DEF OrderWrites, Exists

\* The goroutine talks to the node: no row is written.
LEMMA TalkKeeps ==
  ASSUME CryptoInv, NEW id \in Orders,
         Prepare(id) \/ PrepareFails(id) \/ Send(id) \/ SendFails(id) \/ SendAnswerLost(id)
  PROVE  CryptoInv' /\ UNCHANGED txn
<1>1. UNCHANGED ledgerVars
  BY DEF Prepare, PrepareFails, Send, SendFails, SendAnswerLost
<1>2. LedgerInv'
  BY <1>1, LedgerKept DEF CryptoInv
<1>3. /\ worker[id].step \in {"preparing", "signed"} /\ worker[id] \in Worker
      /\ Broadcasts(id) = {} /\ Exists(id) /\ txn[id].status = "pending"
  BY DEF CryptoInv, NodeTypes, Fits, At, Steps, Prepare, PrepareFails, Send, SendFails, SendAnswerLost
<1>4. CASE Prepare(id)
  <2> DEFINE new == [worker[id] EXCEPT !.step = "signed", !.nonce = PendingNonce(worker[id].from)]
  <2>1. new \in Worker /\ new.step = "signed" /\ new.from \in Registered
    BY <1>3, <1>4, NonceFacts DEF Prepare, Worker, Steps
  <2>2. worker' = [worker EXCEPT ![id] = new] /\ UNCHANGED chain
    BY <1>4 DEF Prepare
  <2> HIDE DEF new
  <2>3. NodeTypes' /\ worker'[id] = new /\ \A k \in Orders \ {id} : worker'[k] = worker[k]
    BY <2>1, <2>2 DEF CryptoInv, NodeTypes
  <2>4. \A k \in Orders : SameTxs(k)
    BY <2>2 DEF SameTxs, Broadcasts
  <2>5. Fits(id)'
    BY <1>1, <1>3, <2>1, <2>3, <2>4 DEF Fits, SameTxs, At, Exists, ledgerVars
  <2> QED
    BY <1>1, <1>2, <2>3, <2>4, <2>5, OneOrder DEF ledgerVars
<1>5. CASE PrepareFails(id) \/ SendFails(id)
  <2>1. UNCHANGED chain /\ Goto(id, "refused")
    BY <1>5 DEF PrepareFails, SendFails
  <2>2. NodeTypes' /\ worker'[id].step = "refused" /\ \A k \in Orders \ {id} : worker'[k] = worker[k]
    BY <2>1, GotoFacts DEF CryptoInv, NodeTypes, Steps
  <2>3. \A k \in Orders : SameTxs(k)
    BY <2>1 DEF SameTxs, Broadcasts
  <2>4. Fits(id)'
    BY <1>1, <1>3, <2>2, <2>3 DEF Fits, SameTxs, At, Exists, ledgerVars
  <2> QED
    BY <1>1, <1>2, <2>2, <2>3, <2>4, OneOrder DEF ledgerVars
<1>6. CASE Send(id) \/ SendAnswerLost(id)
  <2>1. PICK h \in Hashes :
          /\ Accept(id, h)
          /\ \/ worker' = [worker EXCEPT ![id].step = "sent", ![id].hash = h]
             \/ Goto(id, "unsure")
    BY <1>6 DEF Send, SendAnswerLost
  <2>2. At(id, "signed")
    BY <1>6 DEF Send, SendAnswerLost
  <2>3. /\ chain' \in [Hashes -> Tx \cup {NoTx}]
        /\ Broadcasts(id)' = {h}
        /\ txn[id].amount - chain'[h].amount \in 0 .. Scale - 1
        /\ \A k \in Orders \ {id} : SameTxs(k)
    BY <2>1, <2>2, AcceptFacts
  <2> DEFINE new == [worker[id] EXCEPT !.step = "sent", !.hash = h]
  <2>4. new \in Worker /\ new.step = "sent" /\ new.hash = h
    BY <1>3 DEF Worker, Steps
  <2>5. \/ worker' = [worker EXCEPT ![id] = new]
        \/ Goto(id, "unsure")
    BY <2>1
  <2> HIDE DEF new
  <2>6. /\ worker' \in [Orders -> Worker]
        /\ \A k \in Orders \ {id} : worker'[k] = worker[k]
        /\ \/ worker'[id].step = "sent" /\ worker'[id].hash = h
           \/ worker'[id].step = "unsure"
    BY <2>4, <2>5, GotoFacts DEF CryptoInv, NodeTypes, Steps
  <2>7. Fits(id)'
    BY <1>1, <1>3, <2>3, <2>6 DEF Fits, At, Exists, ledgerVars
  <2> QED
    BY <1>1, <1>2, <2>3, <2>6, <2>7, OneOrder DEF NodeTypes, ledgerVars
<1> QED
  BY <1>1, <1>4, <1>5, <1>6 DEF ledgerVars

\* RejectWithdrawCryptoTx.
LEMMA RefundKeeps ==
  ASSUME CryptoInv, NEW id \in Orders, RefundRefused(id)
  PROVE  CryptoInv' /\ OrderWrites(id)
<1>1. /\ worker[id].step \in {"refused", "unsure"} /\ Exists(id) /\ txn[id].status = "pending"
      /\ Fits(id) /\ UNCHANGED chain
  BY DEF RefundRefused, CryptoInv, Fits, At, Steps
<1>2. \A k \in Orders : SameTxs(k)
  BY <1>1 DEF SameTxs, Broadcasts
<1>3. CASE UNCHANGED ledgerVars /\ Goto(id, "unrecorded")
  <2>1. NodeTypes' /\ worker'[id].step = "unrecorded" /\ \A k \in Orders \ {id} : worker'[k] = worker[k]
    BY <1>1, <1>3, GotoFacts DEF CryptoInv, NodeTypes, Steps
  <2>2. Fits(id)'
    BY <1>1, <1>2, <1>3, <2>1 DEF Fits, SameTxs, At, Exists, ledgerVars
  <2>3. LedgerInv'
    BY <1>3, LedgerKept DEF CryptoInv
  <2> QED
    BY <1>2, <1>3, <2>1, <2>2, <2>3, OneOrder DEF OrderWrites, ledgerVars
<1>4. CASE RejectWithdrawTx(id) /\ Goto(id, IF At(id, "unsure") THEN "gaveUp" ELSE "done")
  <2>1. PICK step \in {"gaveUp", "done"} : Goto(id, step) /\ (step = "done" => At(id, "refused"))
    BY <1>1, <1>4 DEF At
  <2>2. NodeTypes' /\ worker'[id].step = step /\ \A k \in Orders \ {id} : worker'[k] = worker[k]
    BY <1>1, <2>1, GotoFacts DEF CryptoInv, NodeTypes, Steps
  <2>3. SetStatus(id, "failed")
    BY <1>4 DEF RejectWithdrawTx
  <2>4. /\ txn'[id] # NoRow /\ txn'[id].status = "failed"
        /\ txn'[id].amount = txn[id].amount
        /\ \A k \in TxIds \ {id} : txn'[k] = txn[k]
    BY <1>1, <2>3, StatusSet DEF CryptoInv, LedgerInv, Statuses
  <2>5. Fits(id)'
    BY <1>1, <1>2, <2>1, <2>2, <2>4 DEF Fits, SameTxs, At, Exists
  <2>6. LedgerInv'
    BY <1>4, LedgerKept DEF CryptoInv, LedgerNext
  <2>7. CryptoInv'
    BY <1>2, <2>2, <2>4, <2>5, <2>6, OneOrder
  <2> QED
    BY <1>1, <2>4, <2>7 DEF OrderWrites, Exists
<1> QED
  BY <1>3, <1>4 DEF RefundRefused

\* UpdateCryptoWithdrawTx.
LEMMA RecordKeeps ==
  ASSUME CryptoInv, NEW id \in Orders, RecordHash(id)
  PROVE  CryptoInv' /\ OrderWrites(id)
<1> DEFINE h == worker[id].hash
<1>1. /\ At(id, "sent") /\ Exists(id) /\ txn[id].status = "pending"
      /\ Fits(id) /\ UNCHANGED chain
  BY DEF RecordHash, CryptoInv, Fits, At, Steps
<1>2. h \in Hashes /\ h \in Broadcasts(id)
  BY <1>1 DEF Fits, Broadcasts
<1>3. \A k \in Orders : SameTxs(k)
  BY <1>1 DEF SameTxs, Broadcasts
<1>4. CASE UNCHANGED ledgerVars /\ Goto(id, "unrecorded")
  <2>1. NodeTypes' /\ worker'[id].step = "unrecorded" /\ \A k \in Orders \ {id} : worker'[k] = worker[k]
    BY <1>1, <1>4, GotoFacts DEF CryptoInv, NodeTypes, Steps
  <2>2. Fits(id)'
    BY <1>1, <1>3, <1>4, <2>1 DEF Fits, SameTxs, At, Exists, ledgerVars
  <2>3. LedgerInv'
    BY <1>4, LedgerKept DEF CryptoInv
  <2> QED
    BY <1>3, <1>4, <2>1, <2>2, <2>3, OneOrder DEF OrderWrites, ledgerVars
<1>5. CASE UpdateCryptoWithdrawTx(id, h) /\ Goto(id, "done")
  <2>1. NodeTypes' /\ worker'[id].step = "done" /\ \A k \in Orders \ {id} : worker'[k] = worker[k]
    BY <1>1, <1>5, GotoFacts DEF CryptoInv, NodeTypes, Steps
  <2> DEFINE row == [txn[id] EXCEPT !.status = "success", !.hash = h]
  <2>2. txn[id] \in Row
    BY <1>1 DEF CryptoInv, LedgerInv, LedgerTypeOK, Exists
  <2>3. /\ row \in Row /\ row.status = "success" /\ row.hash = h /\ row.amount = txn[id].amount
        /\ txn' = [txn EXCEPT ![id] = row]
    BY <1>2, <1>5, <2>2 DEF Row, Statuses, UpdateCryptoWithdrawTx, CryptoInv, LedgerInv, LedgerTypeOK
  <2> HIDE DEF row
  <2>4. /\ txn'[id] = row /\ row # NoRow
        /\ \A k \in TxIds \ {id} : txn'[k] = txn[k]
    BY <2>3 DEF CryptoInv, LedgerInv, LedgerTypeOK
  <2>5. Fits(id)'
    BY <1>1, <1>2, <1>3, <2>1, <2>3, <2>4 DEF Fits, SameTxs, At, Exists
  <2>6. LedgerInv'
    BY <1>2, <1>5, LedgerKept DEF CryptoInv, LedgerNext
  <2>7. CryptoInv'
    BY <1>3, <2>1, <2>4, <2>5, <2>6, OneOrder
  <2> QED
    BY <1>1, <2>3, <2>4, <2>7 DEF OrderWrites, Exists
<1> QED
  BY <1>4, <1>5 DEF RecordHash

\* A crash kills the goroutines that run, and no row of theirs is decided.
LEMMA CrashKeeps ==
  ASSUME CryptoInv, Crash
  PROVE  CryptoInv' /\ UNCHANGED txn
<1>1. UNCHANGED ledgerVars /\ UNCHANGED chain
  BY DEF Crash
<1>2. LedgerInv'
  BY <1>1, LedgerKept DEF CryptoInv
<1>3. ASSUME NEW id \in Orders
      PROVE  /\ worker'[id] \in Worker
             /\ \/ worker'[id] = worker[id]
                \/ Running(id) /\ worker'[id].step = "died"
  <2>1. worker[id] \in Worker
    BY DEF CryptoInv, NodeTypes
  <2>2. worker'[id] = IF Running(id) THEN [worker[id] EXCEPT !.step = "died"] ELSE worker[id]
    BY DEF Crash
  <2> QED
    BY <2>1, <2>2 DEF Worker, Steps
<1>4. NodeTypes'
  <2>1. worker' = [id \in Orders |-> worker'[id]]
    BY DEF Crash
  <2> QED
    BY <1>1, <1>3, <2>1 DEF CryptoInv, NodeTypes
<1>5. ASSUME NEW id \in Orders PROVE Fits(id)'
  <2>1. Fits(id) /\ Broadcasts(id)' = Broadcasts(id)
    BY <1>1 DEF CryptoInv, Broadcasts
  <2> QED
    BY <1>1, <1>3, <2>1 DEF Fits, Running, At, Steps, Exists, ledgerVars
<1> QED
  BY <1>1, <1>2, <1>4, <1>5 DEF CryptoInv, ledgerVars

-----------------------------------------------------------------------------
LEMMA CryptoStarts == Init => CryptoInv
  BY DEF Init, LedgerInit, CryptoInv, LedgerInv, LedgerTypeOK, RowsFit, NonNegative, IsType, Exists,
         NodeTypes, Fits, At, Broadcasts, NoWorker, Worker, Steps

\* What a step does to the withdrawals: at most one of them is written.
LEMMA CryptoStep ==
  ASSUME CryptoInv, [Next]_cryptoVars
  PROVE  /\ CryptoInv'
         /\ (\A k \in Orders : txn'[k] = txn[k]) \/ (\E id \in Orders : OrderWrites(id))
<1>1. CASE UNCHANGED cryptoVars
  <2>1. UNCHANGED ledgerVars /\ UNCHANGED <<chain, worker>>
    BY <1>1 DEF cryptoVars, ledgerVars
  <2>2. LedgerInv'
    BY <2>1, LedgerKept DEF CryptoInv
  <2> QED
    BY <2>1, <2>2 DEF CryptoInv, NodeTypes, Fits, Broadcasts, Exists, At, ledgerVars
<1> QED
  BY <1>1, ExecuteKeeps, CreditKeeps, WithdrawKeeps, TalkKeeps, RefundKeeps, RecordKeeps, CrashKeeps
     DEF Next

\* The invariant on which the theorems below rest.
THEOREM CryptoSafe == Spec => []CryptoInv
<1> QED
  BY CryptoStarts, CryptoStep, PTL DEF Spec

\* Every variable holds values of its type.
THEOREM CryptoTypes == Spec => []TypeOK
<1>1. CryptoInv => TypeOK
  BY DEF CryptoInv, LedgerInv, NodeTypes, TypeOK, Worker
<1> QED
  BY <1>1, CryptoSafe, PTL

\* The row of a withdrawal agrees with what broadcastWithdrawal gave to the
\* node: it sends at most one transaction, for what was debited or less than a
\* unit of the token short of it, records the hash of that one, and refunds only
\* if it has sent none or the call that sent it returned an error.
THEOREM CryptoStatusTellsBroadcast == Spec => []StatusTellsBroadcast
<1>1. ASSUME CryptoInv PROVE StatusTellsBroadcast
  <2>1. ASSUME NEW id \in Orders PROVE Cardinality(Broadcasts(id)) <= 1
    <3>1. \A g, h \in Broadcasts(id) : g = h
      BY <1>1 DEF CryptoInv, Fits
    <3>2. ASSUME NEW h \in Broadcasts(id) PROVE Cardinality(Broadcasts(id)) = 1
      <4>1. Broadcasts(id) = {h}
        BY <3>1
      <4> QED
        BY <4>1, FS_Singleton
    <3>3. Broadcasts(id) = {} => Cardinality(Broadcasts(id)) = 0
      BY FS_EmptySet
    <3> QED
      BY <3>2, <3>3
  <2> QED
    BY <1>1, <2>1 DEF CryptoInv, Fits, StatusTellsBroadcast, RowStatus
<1> QED
  BY <1>1, CryptoSafe, PTL

-----------------------------------------------------------------------------
(***************************************************************************)
(* The withdrawals implement Outcome.                                      *)
(***************************************************************************)
Outcomes == [id \in Orders |-> RowStatus[id]]

LEMMA OrderDecides ==
  ASSUME NEW id \in Orders, OrderWrites(id)
  PROVE  Outcome!Next \/ UNCHANGED Outcomes
<1>1. \A k \in Orders : Outcomes[k] = IF Exists(k) THEN txn[k].status ELSE "none"
  BY DEF Outcomes, RowStatus
<1>2. \A k \in Orders : Outcomes'[k] = IF Exists(k)' THEN txn'[k].status ELSE "none"
  BY DEF Outcomes, RowStatus
<1>3. \A k \in Orders \ {id} : Outcomes'[k] = Outcomes[k]
  BY <1>1, <1>2 DEF OrderWrites, Exists
<1>4. Outcomes' = [Outcomes EXCEPT ![id] = Outcomes'[id]]
  BY <1>3 DEF Outcomes
<1>5. \/ Outcomes'[id] = Outcomes[id]
      \/ Outcomes[id] = "none" /\ Outcomes'[id] = "pending"
      \/ Outcomes[id] = "pending" /\ Outcomes'[id] \in {"success", "failed"}
  BY <1>1, <1>2 DEF OrderWrites, Exists
<1>6. CASE Outcomes'[id] = Outcomes[id]
  BY <1>4, <1>6 DEF Outcomes
<1>7. CASE Outcomes[id] = "none" /\ Outcomes'[id] = "pending"
  BY <1>4, <1>7 DEF Outcome!Next, Outcome!Record, Outcomes
<1>8. CASE Outcomes[id] = "pending" /\ Outcomes'[id] \in {"success", "failed"}
  BY <1>4, <1>8 DEF Outcome!Next, Outcome!Decide, Outcomes
<1> QED
  BY <1>5, <1>6, <1>7, <1>8

\* A crypto withdrawal is recorded as pending and decided at most once, however
\* its goroutine, the node, the listener and the death of the server interleave:
\* no refund after success, no success after a refund.
THEOREM CryptoDecidedOnce == Spec => DecidedOnce
<1>1. Init => Outcome!Init
  BY DEF Init, LedgerInit, Outcome!Init, RowStatus, Exists
<1>2. CryptoInv /\ [Next]_cryptoVars => [Outcome!Next]_[id \in Orders |-> RowStatus[id]]
  <2> SUFFICES ASSUME CryptoInv, [Next]_cryptoVars
               PROVE  Outcome!Next \/ UNCHANGED Outcomes
    BY DEF Outcomes
  <2>1. (\A k \in Orders : txn'[k] = txn[k]) => UNCHANGED Outcomes
    BY DEF Outcomes, RowStatus, Exists
  <2> QED
    BY <2>1, CryptoStep, OrderDecides
<1> QED
  BY <1>1, <1>2, CryptoSafe, PTL DEF Spec, DecidedOnce, Outcome!Spec

-----------------------------------------------------------------------------
(***************************************************************************)
(* The withdrawals and the deposits call the repository in an orderly way. *)
(***************************************************************************)
\* The rows set aside for withdrawals hold nothing else.
OrderRows == \A id \in Orders : Exists(id) => IsType(id, "crypto_withdrawal")

\* An address outside and an address of the platform: both calls open a row.
LEMMA CryptoOpens ==
  ASSUME CryptoInv, OrderRows,
         (\E id \in Orders : WithdrawCrypto(id)) \/ (\E h \in Hashes : CreditOnPlatform(h))
  PROVE  OrderlyNext /\ OrderRows'
<1>1. ASSUME NEW id \in Orders, WithdrawCrypto(id)
      PROVE  OrderlyNext /\ OrderRows'
  <2>1. PICK k \in Addresses, n \in Amounts :
          CreatePendingCryptoWithdrawTx(id, Owner(k), k[2], n)
    BY <1>1 DEF WithdrawCrypto
  <2>2. Owner(k) \in Wallets /\ k[2] \in Assets
    BY DEF Owner, Addresses
  <2>3. Opened(id, Amounts, Payable)
    BY <2>1, <2>2 DEF Opened
  <2> DEFINE row == Entry("crypto_withdrawal", Owner(k), Nil, k[2], n, "pending")
  <2>4. row \in Row /\ row.type = "crypto_withdrawal"
    BY <2>2 DEF Entry, Row, Types, Statuses, OrderIDs, Nil
  <2>5. Insert(id, row)
    BY <2>1 DEF CreatePendingCryptoWithdrawTx
  <2> HIDE DEF row
  <2>6. txn'[id] = row /\ \A j \in TxIds \ {id} : txn'[j] = txn[j]
    BY <2>4, <2>5, RowInserted DEF CryptoInv, LedgerInv
  <2> QED
    BY <2>3, <2>4, <2>6, OpenedWithAmounts DEF OrderlyNext, OrderRows, IsType, Exists
<1>2. ASSUME NEW h \in Hashes, CreditOnPlatform(h)
      PROVE  OrderlyNext /\ OrderRows'
  <2> DEFINE from == txn[chain[h].row]
  <2>1. PICK id \in TxIds \ Orders :
          CreditCryptoDeposit(id, Owner(chain[h].to), from.asset, chain[h].amount, h)
    BY <1>2 DEF CreditOnPlatform
  <2>2. chain[h] \in Tx /\ chain[h] # NoTx /\ chain[h].to \in Registered
    BY <1>2 DEF CreditOnPlatform, CryptoInv, NodeTypes
  <2>3. chain[h].row \in Orders /\ chain[h].amount \in Nat /\ Owner(chain[h].to) \in Wallets
    BY <2>2 DEF Tx, Owner, Addresses
  <2>4. h \in Broadcasts(chain[h].row)
    BY <2>2 DEF Broadcasts
  <2>5. Exists(chain[h].row)
    BY <2>3, <2>4 DEF CryptoInv, Fits, At
  <2>6. from.asset \in Assets
    BY <2>3, <2>5 DEF CryptoInv, LedgerInv, LedgerTypeOK, Exists, Row
  <2> HIDE DEF from
  <2>7. OrderlyNext
    BY <2>1, <2>3, <2>6 DEF OrderlyNext, Opened
  <2>8. \A k \in Orders : txn'[k] = txn[k]
    BY <1>2, CreditKeeps
  <2> QED
    BY <2>7, <2>8 DEF OrderRows, IsType, Exists
<1> QED
  BY <1>1, <1>2

\* A row is decided by its own goroutine, which found it pending.
LEMMA CryptoDecides ==
  ASSUME CryptoInv, OrderRows, NEW id \in Orders, RefundRefused(id) \/ RecordHash(id)
  PROVE  [OrderlyNext]_ledgerVars /\ OrderRows'
<1>1. /\ Exists(id) /\ txn[id].status = "pending" /\ Fits(id)
      /\ At(id, "sent") => worker[id].hash \in Hashes
  BY DEF RefundRefused, RecordHash, CryptoInv, Fits, At, Steps, Broadcasts
<1>2. IsType(id, "crypto_withdrawal")
  BY <1>1 DEF OrderRows
<1>3. CASE UNCHANGED ledgerVars
  BY <1>3 DEF OrderRows, IsType, Exists, ledgerVars
<1>4. CASE RejectWithdrawTx(id) \/ (At(id, "sent") /\ UpdateCryptoWithdrawTx(id, worker[id].hash))
  <2>1. Decided(id)
    BY <1>1, <1>2, <1>4 DEF Decided
  <2>2. OrderlyNext
    BY <2>1 DEF OrderlyNext
  <2>3. Kept
    BY <2>2, OrderlyIsAny, AnyStep DEF CryptoInv, LedgerInv
  <2>4. \A k \in Orders \ {id} : txn'[k] = txn[k]
    BY RefundKeeps, RecordKeeps DEF OrderWrites
  <2>5. OrderRows'
    BY <1>1, <1>2, <2>3, <2>4 DEF OrderRows, Kept, IsType, Exists
  <2> QED
    BY <2>2, <2>5
<1> QED
  BY <1>3, <1>4 DEF RefundRefused, RecordHash

LEMMA CryptoCalls ==
  ASSUME CryptoInv, OrderRows, [Next]_cryptoVars
  PROVE  [OrderlyNext]_ledgerVars /\ OrderRows'
<1>1. CASE UNCHANGED ledgerVars
  BY <1>1 DEF OrderRows, IsType, Exists, ledgerVars
<1>2. CASE UNCHANGED cryptoVars
  BY <1>1, <1>2 DEF cryptoVars, ledgerVars
<1>3. ASSUME NEW h \in Hashes, Execute(h) PROVE UNCHANGED ledgerVars
  BY <1>3 DEF Execute
<1>4. ASSUME NEW id \in Orders,
             Prepare(id) \/ PrepareFails(id) \/ Send(id) \/ SendFails(id) \/ SendAnswerLost(id)
      PROVE  UNCHANGED ledgerVars
  BY <1>4 DEF Prepare, PrepareFails, Send, SendFails, SendAnswerLost
<1>5. Crash => UNCHANGED ledgerVars
  BY DEF Crash
<1> QED
  BY <1>1, <1>2, <1>3, <1>4, <1>5, CryptoOpens, CryptoDecides DEF Next

\* Whatever the node, the listener and the death of the server do in between,
\* WithdrawCrypto and broadcastWithdrawal use the repository as an orderly
\* ledger: nobody writes over an outcome.
THEOREM CryptoOrderly == Spec => OrderlySpec
<1>1. Init => LedgerInit /\ OrderRows
  BY DEF Init, LedgerInit, OrderRows, Exists
<1>2. CryptoInv /\ OrderRows /\ [Next]_cryptoVars => OrderRows' /\ [OrderlyNext]_ledgerVars
  BY CryptoCalls
<1> QED
  BY <1>1, <1>2, CryptoSafe, PTL DEF Spec, OrderlySpec

\* Every balance is its opening and what the rows say: the debit of a withdrawal
\* is paid back if its row says "failed", once, and otherwise never, also when
\* the server dies between the two.
THEOREM CryptoJournal == Spec => []Journal
  BY CryptoOrderly, OrderlyBooksBalance, PTL

\* Deposits and withdrawals of the platform never share a blockchain hash.
THEOREM CryptoHashOnce == Spec => []HashOnce
  BY CryptoOrderly, OrderlySafe, PTL
=============================================================================
