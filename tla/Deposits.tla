------------------------------ MODULE Deposits ------------------------------
(***************************************************************************)
(* Deposit addresses and the goroutine that credits what arrives at them:  *)
(* cryptoUsecase.GetOrCreateDepositAddress and blockchain.ERC20Listener.   *)
(*                                                                         *)
(* The listener is one loop.  It loads its watch list from the database,   *)
(* subscribes to the logs of the token contracts, and handles the logs one *)
(* after the other; a log to a watched address keeps it busy until the     *)
(* block is three blocks deep, and then it credits the wallet.  A          *)
(* subscription delivers only what is mined while it is open.  What the    *)
(* listener holds (watch list, logs received) is memory.                   *)
(*                                                                         *)
(* Blocks have no numbers here: a mined transaction and a received log     *)
(* each carry how many blocks have followed, up to MinConfirmations.       *)
(* Transaction hashes, and the keys of the table, are taken in a fixed     *)
(* order; which one comes first makes no difference to the program.        *)
(***************************************************************************)
EXTENDS Ledger, Sequences, SequencesExt

CONSTANTS
  Cryptos,   \* supportedCryptoAssets
  Networks,  \* supportedNetworks
  Network,   \* ALCHEMY_NETWORK: the name the listener asks the database for
  NoTx,      \* no blockchain transaction has this hash
  MinConfirmations,  \* minConfirmations (3)
  MaxLogs,   \* bound: the transfers a transaction from outside makes
  Offered,   \* bound: the addresses users ask for
  Reorgs     \* bound: the transactions whose block is reorganised away, once

\* Rows of crypto_address: unique (wallet, network, asset).  Every row has a
\* key pair, and so an address, of its own.
Addresses == Wallets \X Networks \X Cryptos

Owner(k) == k[1]

\* An ERC-20 Transfer log: the contract decides the asset, not the address.
Transfers == [to : Addresses, asset : Cryptos, amount : Amounts]

\* A transaction that transfers tokens to deposit addresses.  removed: the
\* block it was in has been reorganised away.
Tx == [mined : BOOLEAN, logs : SUBSET Transfers, age : 0 .. MinConfirmations, removed : BOOLEAN]

ASSUME DepositsAssumption ==
  /\ Cryptos \subseteq Assets
  /\ NoTx \notin Tx
  /\ MinConfirmations \in Nat /\ MaxLogs \in Nat
  /\ Offered \subseteq Addresses
  /\ Reorgs \subseteq Hashes

VARIABLES
  registered,  \* the crypto_address table
  creating,    \* rows whose creator has not yet called AddToWatchList
  watch,       \* watchList
  chain,       \* the transactions of the chain and its mempool
  feed,        \* the logs received; the first is the one being handled
  listener,    \* where Start is
  subscribed,  \* the WebSocket delivers
  loaded,      \* the last refreshWatchList succeeded
  lost         \* hashes the listener had no chance of, or dropped on an error

listenerVars == <<watch, feed, listener, subscribed, loaded, lost>>
depositVars  == <<balance, txn, registered, creating, chain, listenerVars>>

-----------------------------------------------------------------------------
(***************************************************************************)
(* GetOrCreateDepositAddress.  A row that exists is returned, and so is it *)
(* to a request whose insert the unique index refuses the next time it     *)
(* asks.                                                                   *)
(***************************************************************************)
\* Mutant: the error of CreateAddress is not looked at.
CreateUnsaved(k) ==
  /\ k \in Offered \ registered
  /\ creating' = creating \cup {k}
  /\ UNCHANGED <<ledgerVars, registered, chain, listenerVars>>

CreateAddress(k) ==
  /\ k \in Offered \ registered
  /\ registered' = registered \cup {k}
  /\ creating' = creating \cup {k}
  /\ UNCHANGED <<ledgerVars, chain, listenerVars>>

\* Mutant: the listener is not told.
AddNothing(k) ==
  /\ k \in creating
  /\ creating' = creating \ {k}
  /\ UNCHANGED <<ledgerVars, registered, chain, listenerVars>>

AddToWatchList(k) ==
  /\ k \in creating
  /\ creating' = creating \ {k}
  /\ watch' = watch \cup {k}
  /\ UNCHANGED <<ledgerVars, registered, chain, feed, listener, subscribed, loaded, lost>>

\* Nobody pays to an address before the call that created it has returned.
Known == registered \ creating

-----------------------------------------------------------------------------
(***************************************************************************)
(* The chain.                                                              *)
(***************************************************************************)
Mined(h) == chain[h] # NoTx /\ chain[h].mined

\* The logs of a block reach the listener if it is subscribed.
Deliver(h, logs) ==
  /\ IF subscribed
       THEN \E order \in SetToSeqs(logs) :
              feed' = feed \o [i \in DOMAIN order |-> [hash |-> h, log |-> order[i], age |-> 0]]
       ELSE UNCHANGED feed
  /\ lost' = IF subscribed /\ loaded THEN lost ELSE lost \cup {h}
  /\ UNCHANGED <<ledgerVars, registered, creating, watch, listener, subscribed, loaded>>

\* The next hash, and the next key of the table.
FreshHash(h) == chain[h] = NoTx /\ h = CHOOSE g \in Hashes : chain[g] = NoTx

FreshKey(id) == ~ Exists(id) /\ id = CHOOSE k \in TxIds : ~ Exists(k)

\* Somebody's transaction is mined; it can make several transfers.
Deposit(h, logs) ==
  /\ FreshHash(h)
  /\ Cardinality(logs) \in 1 .. MaxLogs
  /\ \A t \in logs : t.to \in Known
  /\ chain' = [chain EXCEPT ![h] = [mined |-> TRUE, logs |-> logs, age |-> 0, removed |-> FALSE]]
  /\ Deliver(h, logs)

\* A block that is not MinConfirmations deep is reorganised away.  Its logs
\* are delivered once more, marked as removed, and handleLog skips those.
Reorg(h) ==
  /\ h \in Reorgs
  /\ Mined(h) /\ ~ chain[h].removed
  /\ chain[h].age < MinConfirmations
  /\ chain' = [chain EXCEPT ![h].mined = FALSE, ![h].age = 0, ![h].removed = TRUE]
  /\ UNCHANGED <<ledgerVars, registered, creating, listenerVars>>

\* The transaction is mined again, in another block.
MineAgain(h) ==
  /\ chain[h] # NoTx /\ ~ Mined(h)
  /\ chain' = [chain EXCEPT ![h].mined = TRUE]
  /\ Deliver(h, chain[h].logs)

Older(age) == IF age < MinConfirmations THEN age + 1 ELSE age

NewBlock ==
  /\ chain' = [h \in Hashes |-> IF Mined(h) THEN [chain[h] EXCEPT !.age = Older(@)] ELSE chain[h]]
  /\ feed' = [i \in DOMAIN feed |-> [feed[i] EXCEPT !.age = Older(@)]]
  /\ UNCHANGED <<ledgerVars, registered, creating, watch, listener, subscribed, loaded, lost>>

-----------------------------------------------------------------------------
(***************************************************************************)
(* ERC20Listener.                                                          *)
(***************************************************************************)
\* refreshWatchList; its error is logged and the loop goes on.
RefreshWatchList ==
  /\ listener = "refreshing"
  /\ \/ /\ watch' = watch \cup {k \in registered : k[2] = Network}
        /\ loaded' = TRUE
     \/ /\ loaded' = FALSE
        /\ UNCHANGED watch
  /\ listener' = "connecting"
  /\ UNCHANGED <<ledgerVars, registered, creating, chain, feed, subscribed, lost>>

\* SubscribeToLogs, or its failure and the wait before the next round.
Subscribe ==
  /\ listener = "connecting"
  /\ \/ listener' = "listening" /\ subscribed' = TRUE
     \/ listener' = "refreshing" /\ UNCHANGED subscribed
  /\ UNCHANGED <<ledgerVars, registered, creating, chain, watch, feed, loaded, lost>>

\* The connection breaks, or the client drops the subscription because the 100
\* logs its channel holds are not read fast enough: nothing more is delivered.
Disconnect ==
  /\ subscribed
  /\ subscribed' = FALSE
  /\ UNCHANGED <<ledgerVars, registered, creating, chain, watch, feed, listener, loaded, lost>>

InFeed == {feed[i].hash : i \in DOMAIN feed}

\* listen notices it between two logs; what it has not handled is gone.
SubscriptionError ==
  /\ listener = "listening"
  /\ ~ subscribed
  /\ listener' = "refreshing"
  /\ feed' = <<>>
  /\ lost' = lost \cup InFeed
  /\ UNCHANGED <<ledgerVars, registered, creating, chain, watch, subscribed, loaded>>

\* handleLog as far as the look into the watch list.
HandleLog ==
  /\ listener = "listening"
  /\ feed # <<>>
  /\ IF Head(feed).log.to \in watch
       THEN listener' = "confirming" /\ UNCHANGED feed
       ELSE feed' = Tail(feed) /\ UNCHANGED listener
  /\ UNCHANGED <<ledgerVars, registered, creating, chain, watch, subscribed, loaded, lost>>

\* Mutant: one confirmation too few.
TooYoung(entry) == entry.age >= MinConfirmations - 1

\* waitForConfirmations counts the blocks, it does not look the log up again.
Confirmed(entry) == entry.age >= MinConfirmations

\* Mutant: the asset of the address instead of the contract's.
AddressAsset(log) == log.to[3]

ContractAsset(log) == log.asset

Handled ==
  /\ listener' = "listening"
  /\ feed' = Tail(feed)
  /\ UNCHANGED <<registered, creating, chain, watch, subscribed, loaded>>

\* handleLog's CreditCryptoDeposit; a known tx_hash is skipped.
CreditDeposit ==
  /\ listener = "confirming"
  /\ LET h == Head(feed).hash
         log == Head(feed).log
     IN
       /\ Confirmed(Head(feed))
       /\ \/ /\ HashUnused(h)
             /\ \E id \in TxIds :
                  /\ FreshKey(id)
                  /\ CreditCryptoDeposit(id, Owner(log.to), ContractAsset(log), log.amount, h)
          \/ ~ HashUnused(h) /\ UNCHANGED ledgerVars
  /\ Handled
  /\ UNCHANGED lost

\* The database refuses; the error is logged and the deposit forgotten.
CreditFails ==
  /\ listener = "confirming"
  /\ Confirmed(Head(feed))
  /\ lost' = lost \cup {Head(feed).hash}
  /\ Handled
  /\ UNCHANGED ledgerVars

\* The server dies, or is shut down: what it held in memory is gone.
Crash ==
  /\ creating' = {}
  /\ watch' = {}
  /\ feed' = <<>>
  /\ listener' = "refreshing"
  /\ subscribed' = FALSE
  /\ loaded' = FALSE
  /\ lost' = lost \cup InFeed
  /\ UNCHANGED <<ledgerVars, registered, chain>>

-----------------------------------------------------------------------------
Init ==
  /\ LedgerInit
  /\ registered = {}
  /\ creating = {}
  /\ watch = {}
  /\ chain = [h \in Hashes |-> NoTx]
  /\ feed = <<>>
  /\ listener = "refreshing"
  /\ subscribed = FALSE
  /\ loaded = FALSE
  /\ lost = {}

Next ==
  \/ \E k \in Addresses : CreateAddress(k) \/ AddToWatchList(k)
  \/ \E h \in Hashes :
       \/ \E logs \in SUBSET Transfers : Deposit(h, logs)
       \/ Reorg(h) \/ MineAgain(h)
  \/ NewBlock
  \/ RefreshWatchList \/ Subscribe \/ Disconnect \/ SubscriptionError
  \/ HandleLog \/ CreditDeposit \/ CreditFails
  \/ Crash

Spec == Init /\ [][Next]_depositVars

\* Blocks keep coming and the listener's goroutine keeps running.
Fairness ==
  /\ WF_depositVars(NewBlock)
  /\ WF_depositVars(HandleLog)
  /\ WF_depositVars(CreditDeposit)

FairSpec == Spec /\ Fairness

-----------------------------------------------------------------------------
(***************************************************************************)
(* Properties.                                                             *)
(***************************************************************************)
\* The tables and the listener hold values of their types, and every address the
\* listener watches, or is going to watch, is in the database.
TypeOK ==
  /\ LedgerTypeOK
  /\ creating \subseteq registered /\ registered \subseteq Addresses
  /\ watch \subseteq registered
  /\ chain \in [Hashes -> Tx \cup {NoTx}]
  /\ feed \in Seq([hash : Hashes, log : Transfers, age : 0 .. MinConfirmations])
  /\ listener \in {"refreshing", "connecting", "listening", "confirming"}
  /\ subscribed \in BOOLEAN /\ loaded \in BOOLEAN
  /\ lost \subseteq Hashes

Credited(h) == \E id \in TxIds : IsType(id, "crypto_deposit") /\ txn[id].hash = h

\* Every deposit in the history is a transfer of the chain: to an address of
\* the credited wallet, of that asset and amount.
DepositBacked ==
  \A id \in TxIds : IsType(id, "crypto_deposit") =>
    \E t \in chain[txn[id].hash].logs :
      /\ t.to \in registered
      /\ Owner(t.to) = txn[id].destination
      /\ t.asset = txn[id].asset
      /\ t.amount = txn[id].amount

\* A credited transfer is MinConfirmations deep in the chain, if the block it
\* was heard in was never reorganised away.
CreditedIsFinal ==
  \A h \in Hashes : Credited(h) /\ ~ chain[h].removed =>
    Mined(h) /\ chain[h].age = MinConfirmations

\* A transaction with a transfer to a deposit address is credited.  It is missed
\* only for one of the reasons lost records: it was mined while no subscription
\* was open or the watch list could not be loaded, the connection or the server
\* died while it was waiting, or the database refused it.
MinedIsCredited ==
  \A h \in Hashes :
    Mined(h) ~> Credited(h) \/ h \in lost
=============================================================================
