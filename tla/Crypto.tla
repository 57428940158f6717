------------------------------- MODULE Crypto -------------------------------
(***************************************************************************)
(* Withdrawing tokens.  cryptoUsecase.WithdrawCrypto debits the wallet,    *)
(* answers, and leaves the rest to a goroutine: broadcastWithdrawal signs  *)
(* a transfer from the wallet's own deposit address, sends it to the node  *)
(* and writes its hash into the row, or refunds.  Nothing remembers the    *)
(* goroutine but the row.                                                  *)
(*                                                                         *)
(* The listener of Deposits is here in one action: what arrives at an      *)
(* address of the platform may be credited.  It meets the withdrawals in   *)
(* the table, where both want to store the hash of one transaction.        *)
(*                                                                         *)
(* A decimal of the ledger can be finer than the six digits of the token:  *)
(* Scale units of an amount are one unit of the token.                     *)
(***************************************************************************)
EXTENDS Ledger

CONSTANTS
  Cryptos,     \* supportedCryptoAssets
  Registered,  \* the deposit addresses: the rows of crypto_address
  Outside,     \* an address that is none of them
  Scale,       \* units of an amount in one unit of the token
  NoTx,        \* no blockchain transaction has this hash
  Orders       \* bound: the rows of TxIds that are withdrawals

\* A wallet has one deposit address for an asset on the network at hand.
Addresses == Wallets \X Cryptos

Owner(k) == k[1]

\* What the node knows of a transaction that a goroutine sent: row is the
\* withdrawal it belongs to.
Tx == [row : Orders, from : Registered, to : Registered \cup {Outside}, amount : Nat,
       nonce : Nat, state : {"pooled", "mined", "reverted", "replaced"}]

ASSUME CryptoAssumption ==
  /\ Cryptos \subseteq Assets
  /\ Registered \subseteq Addresses
  /\ Outside \notin Addresses
  /\ Scale \in Nat \ {0}
  /\ NoTx \notin Tx
  /\ Orders \subseteq TxIds
  /\ IsFiniteSet(Hashes)    \* 32 bytes

VARIABLES
  chain,    \* the node's transactions
  worker    \* the broadcast goroutine of every withdrawal

cryptoVars == <<balance, txn, chain, worker>>

\* sent: SendSignedTransaction has returned nil.  refused: it, or something
\* before it, has failed; unsure: it failed, although the node has taken the
\* transaction; gaveUp: the withdrawal was refunded all the same.
\* unrecorded: the last write failed.
Steps == {"none", "preparing", "signed", "sent", "refused", "unsure",
          "done", "unrecorded", "gaveUp", "died"}

NoWorker == [step |-> "none", from |-> Outside, to |-> Outside, nonce |-> 0, hash |-> NoHash]

Running(id) == worker[id].step \in {"preparing", "signed", "sent", "refused", "unsure"}

At(id, step) == worker[id].step = step

Goto(id, step) == worker' = [worker EXCEPT ![id].step = step]

-----------------------------------------------------------------------------
(***************************************************************************)
(* The node.  An address sends its transactions in the order of their      *)
(* nonces, and PendingNonceAt counts those in the pool.                    *)
(***************************************************************************)
SentFrom(k) == {h \in Hashes : chain[h] # NoTx /\ chain[h].from = k /\ chain[h].state # "replaced"}

PendingNonce(k) == Cardinality(SentFrom(k))

\* The next hash, and the next key of the table: which comes first makes no
\* difference to the program.
FreshHash(h) == chain[h] = NoTx /\ h = CHOOSE g \in Hashes : chain[g] = NoTx

FreshKey(id) == ~ Exists(id) /\ id = CHOOSE k \in TxIds \ Orders : ~ Exists(k)

\* Mutant: the amount is rounded to the next unit of the token.
TokensRoundedUp(n) == ((n + Scale - 1) \div Scale) * Scale

\* amountBig: what is finer than the token is cut off.
Tokens(n) == (n \div Scale) * Scale

\* The node takes the transaction.  One with the nonce of a pooled one replaces
\* it, if the gas price has gone up enough.
Accept(id, h) ==
  /\ FreshHash(h)
  /\ LET w == worker[id]
         new == [row |-> id, from |-> w.from, to |-> w.to, amount |-> Tokens(txn[id].amount),
                nonce |-> w.nonce, state |-> "pooled"]
     IN \/ /\ w.nonce = PendingNonce(w.from)
           /\ chain' = [chain EXCEPT ![h] = new]
        \/ \E old \in SentFrom(w.from) :
             /\ chain[old].nonce = w.nonce /\ chain[old].state = "pooled"
             /\ chain' = [chain EXCEPT ![h] = new, ![old].state = "replaced"]

\* A pooled transaction is executed.  It reverts if the deposit address does
\* not hold the tokens: a swap or a transfer inside the ledger moves none.
Execute(h) ==
  /\ chain[h] # NoTx /\ chain[h].state = "pooled"
  /\ \A old \in SentFrom(chain[h].from) :
       chain[old].nonce < chain[h].nonce => chain[old].state # "pooled"
  /\ \E end \in {"mined", "reverted"} : chain' = [chain EXCEPT ![h].state = end]
  /\ UNCHANGED <<ledgerVars, worker>>

\* The listener finds the log of a mined transfer to a deposit address.  A known
\* tx_hash is skipped.
CreditOnPlatform(h) ==
  /\ chain[h] # NoTx /\ chain[h].state = "mined"
  /\ chain[h].to \in Registered
  /\ \E id \in TxIds \ Orders :
       LET row == txn[chain[h].row] IN
         FreshKey(id) /\ CreditCryptoDeposit(id, Owner(chain[h].to), row.asset, chain[h].amount, h)
  /\ UNCHANGED <<chain, worker>>

-----------------------------------------------------------------------------
(***************************************************************************)
(* WithdrawCrypto and broadcastWithdrawal.                                 *)
(***************************************************************************)
WithdrawCrypto(id) ==
  /\ \E k \in Addresses, to \in Registered \cup {Outside}, n \in Amounts :
       /\ CreatePendingCryptoWithdrawTx(id, Owner(k), k[2], n)
       /\ worker' = [worker EXCEPT ![id] =
                       [NoWorker EXCEPT !.step = "preparing", !.from = k, !.to = to]]
  /\ UNCHANGED chain

\* The address and its key, the chain id, the nonce, the gas price, the
\* signature.
Prepare(id) ==
  /\ At(id, "preparing")
  /\ worker[id].from \in Registered
  /\ worker' = [worker EXCEPT ![id].step = "signed", ![id].nonce = PendingNonce(worker[id].from)]
  /\ UNCHANGED <<ledgerVars, chain>>

\* Mutant: a return forgotten after RejectWithdrawCryptoTx.
PrepareFailsAndGoesOn(id) ==
  /\ At(id, "preparing")
  /\ worker[id].from \in Registered
  /\ RejectWithdrawTx(id)
  /\ Goto(id, "signed")
  /\ UNCHANGED chain

\* Mutant: a return without RejectWithdrawCryptoTx.
PrepareFailsSilently(id) ==
  /\ At(id, "preparing")
  /\ Goto(id, "done")
  /\ UNCHANGED <<ledgerVars, chain>>

\* The wallet has no deposit address, or one of those calls fails.
PrepareFails(id) ==
  /\ At(id, "preparing")
  /\ Goto(id, "refused")
  /\ UNCHANGED <<ledgerVars, chain>>

Send(id) ==
  /\ At(id, "signed")
  /\ \E h \in Hashes :
       /\ Accept(id, h)
       /\ worker' = [worker EXCEPT ![id].step = "sent", ![id].hash = h]
  /\ UNCHANGED ledgerVars

\* Mutant: the error of SendSignedTransaction is not looked at.
SendErrorIgnored(id) ==
  /\ At(id, "signed")
  /\ \E h \in Hashes : worker' = [worker EXCEPT ![id].step = "sent", ![id].hash = h]
  /\ UNCHANGED <<ledgerVars, chain>>

\* The node refuses it (its nonce is taken, there is no gas), or is not reached.
SendFails(id) ==
  /\ At(id, "signed")
  /\ Goto(id, "refused")
  /\ UNCHANGED <<ledgerVars, chain>>

\* The node takes it, and its answer does not arrive.
SendAnswerLost(id) ==
  /\ At(id, "signed")
  /\ \E h \in Hashes : Accept(id, h)
  /\ Goto(id, "unsure")
  /\ UNCHANGED ledgerVars

\* RejectWithdrawCryptoTx; its error is thrown away.
RefundRefused(id) ==
  /\ At(id, "refused") \/ At(id, "unsure")
  /\ \/ RejectWithdrawTx(id) /\ Goto(id, IF At(id, "unsure") THEN "gaveUp" ELSE "done")
     \/ UNCHANGED ledgerVars /\ Goto(id, "unrecorded")
  /\ UNCHANGED chain

\* UpdateCryptoWithdrawTx; its error, a hash that another row has or a database
\* that does not answer, is thrown away.
RecordHash(id) ==
  /\ At(id, "sent")
  /\ \/ UpdateCryptoWithdrawTx(id, worker[id].hash) /\ Goto(id, "done")
     \/ UNCHANGED ledgerVars /\ Goto(id, "unrecorded")
  /\ UNCHANGED chain

\* The server dies, or is shut down: nobody waits for the goroutines.
Crash ==
  /\ \E id \in Orders : Running(id)
  /\ worker' = [id \in Orders |-> IF Running(id) THEN [worker[id] EXCEPT !.step = "died"]
                                                ELSE worker[id]]
  /\ UNCHANGED <<ledgerVars, chain>>

-----------------------------------------------------------------------------
Init ==
  /\ LedgerInit
  /\ chain = [h \in Hashes |-> NoTx]
  /\ worker = [id \in Orders |-> NoWorker]

Next ==
  \/ \E h \in Hashes : Execute(h) \/ CreditOnPlatform(h)
  \/ \E id \in Orders :
       \/ WithdrawCrypto(id)
       \/ Prepare(id) \/ PrepareFails(id)
       \/ Send(id) \/ SendFails(id) \/ SendAnswerLost(id)
       \/ RefundRefused(id) \/ RecordHash(id)
  \/ Crash

Spec == Init /\ [][Next]_cryptoVars

BroadcastWithdrawal(id) ==
  \/ Prepare(id) \/ PrepareFails(id)
  \/ Send(id) \/ SendFails(id) \/ SendAnswerLost(id)
  \/ RefundRefused(id) \/ RecordHash(id)

\* A goroutine that is not killed goes on: every call it makes returns.
Fairness == \A id \in Orders : WF_cryptoVars(BroadcastWithdrawal(id))

FairSpec == Spec /\ Fairness

-----------------------------------------------------------------------------
(***************************************************************************)
(* Properties.                                                             *)
(***************************************************************************)
\* The tables, the node and every goroutine hold values of their types.
TypeOK ==
  /\ LedgerTypeOK
  /\ chain \in [Hashes -> Tx \cup {NoTx}]
  /\ worker \in [Orders -> [step : Steps, from : Addresses \cup {Outside},
                           to : Registered \cup {Outside}, nonce : Nat,
                           hash : Hashes \cup {NoHash}]]

\* A withdrawal is recorded as pending and ends once, whatever becomes of its
\* goroutine: no refund after success, no success after a refund.
Outcome == INSTANCE Outcome WITH
  Ids <- Orders,
  outcome <- [id \in Orders |-> RowStatus[id]]

DecidedOnce == Outcome!Spec

Broadcasts(id) == {h \in Hashes : chain[h] # NoTx /\ chain[h].row = id}

\* What the row says agrees with what the node was given: a withdrawal is sent
\* at most once, for what was debited or less than a unit of the token short of
\* it, a successful one names its own transaction, and a refunded one was never
\* taken by the node, unless the call that sent it returned an error.
StatusTellsBroadcast ==
  \A id \in Orders :
    /\ Cardinality(Broadcasts(id)) <= 1
    /\ \A h \in Broadcasts(id) : txn[id].amount - chain[h].amount \in 0 .. Scale - 1
    /\ RowStatus[id] = "success" => txn[id].hash \in Broadcasts(id)
    /\ RowStatus[id] = "failed" /\ ~ At(id, "gaveUp") => Broadcasts(id) = {}

\* No withdrawal stays pending, unless the server died while it was being
\* broadcast or its last write failed: no return of broadcastWithdrawal forgets
\* the row.
WithdrawalsEnd ==
  \A id \in Orders :
    Exists(id) ~> RowStatus[id] # "pending" \/ At(id, "died") \/ At(id, "unrecorded")
=============================================================================
