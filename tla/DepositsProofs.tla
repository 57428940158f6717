--------------------------- MODULE DepositsProofs ---------------------------
(***************************************************************************)
(* Theorems about Deposits, for any number of wallets, addresses, networks *)
(* and transactions, and any number of confirmations.                      *)
(*                                                                         *)
(* What ties the history to the chain is the memory of the listener: a log *)
(* it holds is a log of the chain, and as old as its transaction as long   *)
(* as no block of that has been reorganised away (Heard).                  *)
(***************************************************************************)
EXTENDS Deposits, LedgerProofs, SequenceTheorems

USE LedgerAssumption, DepositsAssumption

Entries == [hash : Hashes, log : Transfers, age : 0 .. MinConfirmations]

ListenerTypes ==
  /\ creating \subseteq registered /\ registered \subseteq Addresses
  /\ watch \subseteq registered
  /\ chain \in [Hashes -> Tx \cup {NoTx}]
  /\ feed \in Seq(Entries)
  /\ listener \in {"refreshing", "connecting", "listening", "confirming"}
  /\ subscribed \in BOOLEAN /\ loaded \in BOOLEAN
  /\ lost \subseteq Hashes

\* A transaction pays to addresses that are registered, and is in the chain
\* unless its block was reorganised away.
ChainFits(h) ==
  chain[h] # NoTx =>
    /\ \A t \in chain[h].logs : t.to \in registered
    /\ Cardinality(chain[h].logs) \in Nat
    /\ chain[h].mined \/ chain[h].removed

\* A log the listener holds.
Heard(entry) ==
  /\ chain[entry.hash] # NoTx
  /\ entry.log \in chain[entry.hash].logs
  /\ ~ chain[entry.hash].removed => chain[entry.hash].age = entry.age

FeedFits == \A i \in 1 .. Len(feed) : Heard(feed[i])

\* waitForConfirmations waits for a log.
Waits == listener = "confirming" => feed # <<>>

\* A row with which a transfer was credited.
Backed(id) ==
  IsType(id, "crypto_deposit") =>
    LET tx == chain[txn[id].hash] IN
      /\ txn[id].hash \in Hashes /\ tx # NoTx
      /\ \E t \in tx.logs :
           /\ Owner(t.to) = txn[id].destination
           /\ t.asset = txn[id].asset
           /\ t.amount = txn[id].amount
      /\ ~ tx.removed => tx.age = MinConfirmations

DepositsInv ==
  /\ LedgerInv
  /\ ListenerTypes
  /\ FeedFits
  /\ Waits
  /\ \A h \in Hashes : ChainFits(h)
  /\ \A id \in TxIds : Backed(id)

\* All that the listener ever does to the tables is to open a row.
Receives == \E id \in TxIds : Opened(id, Amounts, Payable)

\* What a step has to show: to the ledger it is one operation or none, and it
\* keeps the invariant.
Good == [Receives]_ledgerVars /\ DepositsInv'

-----------------------------------------------------------------------------
LEMMA LedgerKept ==
  ASSUME LedgerInv, [Receives]_ledgerVars
  PROVE  LedgerInv'
<1>1. UNCHANGED ledgerVars => LedgerInv'
  BY DEF LedgerInv, LedgerTypeOK, RowsFit, NonNegative, IsType, Exists, ledgerVars
<1> QED
  BY <1>1, OpeningIsNext, LedgerStep DEF Receives

\* What the listener may do to the logs it holds.
LEMMA FeedShrinks ==
  ASSUME feed \in Seq(Entries), FeedFits, UNCHANGED chain,
         feed' = feed \/ feed' = <<>> \/ (feed # <<>> /\ feed' = Tail(feed))
  PROVE  feed' \in Seq(Entries) /\ FeedFits'
<1>1. CASE feed' = feed
  BY <1>1 DEF FeedFits, Heard
<1>2. CASE feed' = <<>>
  BY <1>2 DEF FeedFits
<1>3. CASE feed # <<>> /\ feed' = Tail(feed)
  <2>1. /\ Tail(feed) \in Seq(Entries) /\ Len(Tail(feed)) = Len(feed) - 1
        /\ \A i \in 1 .. Len(Tail(feed)) : Tail(feed)[i] = feed[i + 1]
    BY <1>3, HeadTailProperties
  <2>2. Len(feed) \in Nat
    BY LenProperties
  <2>3. \A i \in 1 .. Len(Tail(feed)) : i + 1 \in 1 .. Len(feed)
    BY <2>1, <2>2
  <2>4. ASSUME NEW i \in 1 .. Len(feed') PROVE Heard(feed[i])'
    <3>1. feed'[i] = feed[i + 1] /\ Heard(feed[i + 1])
      BY <1>3, <2>1, <2>3 DEF FeedFits
    <3> QED
      BY <3>1 DEF Heard
  <2> QED
    BY <1>3, <2>1, <2>4 DEF FeedFits
<1> QED
  BY <1>1, <1>2, <1>3

\* Steps that leave the chain and the tables of the ledger alone.
LEMMA ListenerKeeps ==
  ASSUME DepositsInv, UNCHANGED <<ledgerVars, chain>>,
         registered \subseteq registered', registered' \subseteq Addresses,
         creating' \subseteq registered', watch' \subseteq registered',
         listener' \in {"refreshing", "connecting", "listening", "confirming"},
         subscribed' \in BOOLEAN, loaded' \in BOOLEAN, lost' \subseteq Hashes,
         feed' = feed \/ feed' = <<>> \/ (feed # <<>> /\ feed' = Tail(feed)),
         listener' = "confirming" => feed # <<>> /\ feed' = feed
  PROVE  Good
<1>1. LedgerInv'
  BY LedgerKept DEF DepositsInv
<1>2. feed' \in Seq(Entries) /\ FeedFits'
  BY FeedShrinks DEF DepositsInv, ListenerTypes
<1>3. ListenerTypes'
  BY <1>2 DEF DepositsInv, ListenerTypes
<1>4. \A h \in Hashes : ChainFits(h)'
  BY DEF DepositsInv, ChainFits
<1>5. \A id \in TxIds : Backed(id)'
  BY DEF DepositsInv, Backed, IsType, Exists, ledgerVars
<1> QED
  BY <1>1, <1>2, <1>3, <1>4, <1>5 DEF Good, DepositsInv, Waits

\* What is in the feed is of the chain.
LEMMA InFeedFacts ==
  ASSUME DepositsInv
  PROVE  InFeed \subseteq Hashes
<1>1. \A i \in DOMAIN feed : feed[i] \in Entries
  BY ElementOfSeq DEF DepositsInv, ListenerTypes
<1> QED
  BY <1>1 DEF InFeed, Entries

LEMMA AddressesKeep ==
  ASSUME DepositsInv, NEW k \in Addresses, CreateAddress(k) \/ AddToWatchList(k)
  PROVE  Good
<1>1. UNCHANGED <<ledgerVars, chain, feed, listener, subscribed, loaded, lost>>
  BY DEF CreateAddress, AddToWatchList, listenerVars
<1>2. CASE CreateAddress(k)
  BY <1>1, <1>2, ListenerKeeps DEF CreateAddress, listenerVars, DepositsInv, ListenerTypes, Waits
<1>3. CASE AddToWatchList(k)
  BY <1>1, <1>3, ListenerKeeps DEF AddToWatchList, DepositsInv, ListenerTypes, Waits
<1> QED
  BY <1>2, <1>3

LEMMA LoopKeeps ==
  ASSUME DepositsInv,
         RefreshWatchList \/ Subscribe \/ Disconnect \/ SubscriptionError \/ HandleLog \/ CreditFails \/ Crash
  PROVE  Good
<1>1. /\ UNCHANGED <<ledgerVars, registered, chain>>
      /\ creating' \subseteq creating
      /\ watch' \subseteq watch \cup registered
      /\ listener' \in {"refreshing", "connecting", "listening", "confirming"}
      /\ subscribed' \in BOOLEAN /\ loaded' \in BOOLEAN
  BY DEF DepositsInv, ListenerTypes, RefreshWatchList, Subscribe, Disconnect, SubscriptionError,
         HandleLog, CreditFails, Handled, Crash
<1>2. lost' \subseteq Hashes
  <2>1. CASE CreditFails
    <3>1. feed # <<>> /\ feed \in Seq(Entries)
      BY <2>1 DEF CreditFails, DepositsInv, Waits, ListenerTypes
    <3>2. Head(feed) \in Entries
      BY <3>1, HeadTailProperties
    <3> QED
      BY <2>1, <3>2 DEF CreditFails, Entries, DepositsInv, ListenerTypes
  <2>2. CASE ~ CreditFails
    BY <2>2, InFeedFacts DEF DepositsInv, ListenerTypes, RefreshWatchList, Subscribe, Disconnect,
         SubscriptionError, HandleLog, Crash
  <2> QED
    BY <2>1, <2>2
<1>3. /\ feed' = feed \/ feed' = <<>> \/ (feed # <<>> /\ feed' = Tail(feed))
      /\ listener' = "confirming" => feed # <<>> /\ feed' = feed
  BY DEF DepositsInv, Waits, RefreshWatchList, Subscribe, Disconnect, SubscriptionError,
         HandleLog, CreditFails, Handled, Crash
<1> QED
  BY <1>1, <1>2, <1>3, ListenerKeeps DEF DepositsInv, ListenerTypes

-----------------------------------------------------------------------------
(***************************************************************************)
(* The chain.                                                              *)
(***************************************************************************)
\* A log that is, when it was heard, of the chain after the step.
StillHeard(entry) ==
  /\ chain'[entry.hash] # NoTx
  /\ entry.log \in chain'[entry.hash].logs
  /\ ~ chain'[entry.hash].removed => chain'[entry.hash].age = entry.age

\* Logs that are heard after those the listener holds.
LEMMA FeedGrows ==
  ASSUME feed \in Seq(Entries), NEW n \in Nat, NEW more \in [1 .. n -> Entries],
         feed' = feed \o more,
         \A i \in 1 .. Len(feed) : StillHeard(feed[i]),
         \A i \in 1 .. n : StillHeard(more[i])
  PROVE  feed' \in Seq(Entries) /\ FeedFits' /\ (feed # <<>> => feed' # <<>>)
<1>1. more \in Seq(Entries) /\ Len(more) = n
  BY IsASeq, LenProperties
<1>2. Len(feed) \in Nat /\ (feed # <<>> => Len(feed) > 0)
  BY LenProperties, EmptySeq
<1>3. /\ feed' \in Seq(Entries) /\ Len(feed') = Len(feed) + n
      /\ \A i \in 1 .. Len(feed) + n :
           feed'[i] = IF i <= Len(feed) THEN feed[i] ELSE more[i - Len(feed)]
  BY <1>1, ConcatProperties
<1>4. ASSUME NEW i \in 1 .. Len(feed') PROVE StillHeard(feed'[i])
  <2>1. i \in Nat \ {0} /\ i <= Len(feed) + n
    BY <1>2, <1>3
  <2>2. CASE i <= Len(feed)
    <3>1. i \in 1 .. Len(feed) /\ feed'[i] = feed[i]
      BY <1>2, <1>3, <2>1, <2>2
    <3> QED
      BY <3>1
  <2>3. CASE i > Len(feed)
    <3>1. i - Len(feed) \in 1 .. n /\ feed'[i] = more[i - Len(feed)]
      BY <1>2, <1>3, <2>1, <2>3
    <3> QED
      BY <3>1
  <2> QED
    BY <1>2, <2>1, <2>2, <2>3
<1>5. FeedFits'
  BY <1>4 DEF StillHeard, FeedFits, Heard
<1>6. feed # <<>> => feed' # <<>>
  <2>1. feed # <<>> => Len(feed') > 0
    BY <1>2, <1>3
  <2> QED
    BY <2>1, EmptySeq
<1> QED
  BY <1>3, <1>5, <1>6

\* Blocks are mined, reorganised away and mined again: every transaction keeps
\* its logs, and what the listener has heard of it still holds.
LEMMA DeliverKeeps ==
  ASSUME DepositsInv, NEW h \in Hashes, NEW new \in Tx, new.mined,
         chain' = [chain EXCEPT ![h] = new], Deliver(h, new.logs),
         \A t \in new.logs : t.to \in registered,
         Cardinality(new.logs) \in Nat,
         \/ chain[h] = NoTx /\ new.age = 0
         \/ chain[h] # NoTx /\ new.removed /\ new.logs = chain[h].logs
  PROVE  Good
<1>1. /\ UNCHANGED <<ledgerVars, registered, creating, watch, listener, subscribed, loaded>>
      /\ lost' \subseteq Hashes
  BY DEF Deliver, DepositsInv, ListenerTypes
<1>2. /\ chain' \in [Hashes -> Tx \cup {NoTx}] /\ chain'[h] = new /\ new # NoTx
      /\ \A g \in Hashes \ {h} : chain'[g] = chain[g]
  BY DEF DepositsInv, ListenerTypes
<1>3. \A e \in Entries : Heard(e) => StillHeard(e)
  BY <1>2 DEF Heard, StillHeard, Entries
<1>4. feed' \in Seq(Entries) /\ FeedFits' /\ (feed # <<>> => feed' # <<>>)
  <2>1. feed \in Seq(Entries) /\ \A i \in 1 .. Len(feed) : feed[i] \in Entries /\ Heard(feed[i])
    BY ElementOfSeq DEF DepositsInv, ListenerTypes, FeedFits
  <2>2. \A i \in 1 .. Len(feed) : StillHeard(feed[i])
    BY <2>1, <1>3
  <2>3. CASE subscribed
    <3> DEFINE n == Cardinality(new.logs)
    <3>1. PICK order \in SetToSeqs(new.logs) :
            feed' = feed \o [i \in DOMAIN order |-> [hash |-> h, log |-> order[i], age |-> 0]]
      BY <2>3 DEF Deliver
    <3>2. order \in [1 .. n -> new.logs] /\ new.logs \subseteq Transfers
      BY DEF SetToSeqs, Tx
    <3> DEFINE more == [i \in 1 .. n |-> [hash |-> h, log |-> order[i], age |-> 0]]
    <3>3. feed' = feed \o more
      BY <3>1, <3>2
    <3>4. \A i \in 1 .. n : [hash |-> h, log |-> order[i], age |-> 0] \in Entries
      BY <3>2 DEF Entries
    <3>5. more \in [1 .. n -> Entries]
      BY <3>4
    <3>6. \A i \in 1 .. n : more[i].hash = h /\ more[i].log \in new.logs /\ more[i].age = 0
      BY <3>2
    <3>7. n \in Nat
      OBVIOUS
    <3> HIDE DEF more, n
    <3>8. \A i \in 1 .. n : StillHeard(more[i])
      BY <1>2, <3>6 DEF StillHeard
    <3> QED
      BY <2>1, <2>2, <3>3, <3>5, <3>7, <3>8, FeedGrows
  <2>4. CASE ~ subscribed
    <3>1. feed' = feed
      BY <2>4 DEF Deliver
    <3> QED
      BY <2>1, <2>2, <3>1 DEF StillHeard, FeedFits, Heard
  <2> QED
    BY <2>3, <2>4
<1>5. ListenerTypes' /\ Waits'
  BY <1>1, <1>2, <1>4 DEF DepositsInv, ListenerTypes, Waits
<1>6. ASSUME NEW g \in Hashes PROVE ChainFits(g)'
  BY <1>1, <1>2 DEF DepositsInv, ChainFits
<1>7. ASSUME NEW id \in TxIds PROVE Backed(id)'
  <2>1. Backed(id)
    BY DEF DepositsInv
  <2> QED
    BY <1>1, <1>2, <2>1 DEF Backed, IsType, Exists, ledgerVars
<1> QED
  BY <1>1, <1>4, <1>5, <1>6, <1>7, LedgerKept DEF Good, DepositsInv

LEMMA DepositKeeps ==
  ASSUME DepositsInv, NEW h \in Hashes, NEW logs \in SUBSET Transfers, Deposit(h, logs)
  PROVE  Good
<1> DEFINE new == [mined |-> TRUE, logs |-> logs, age |-> 0, removed |-> FALSE]
<1>1. /\ chain[h] = NoTx /\ chain' = [chain EXCEPT ![h] = new] /\ Deliver(h, logs)
      /\ Cardinality(logs) \in Nat /\ \A t \in logs : t.to \in registered
  BY DEF Deposit, FreshHash, Known
<1>2. new \in Tx /\ new.mined /\ new.logs = logs /\ new.age = 0
  BY DEF Tx
<1> HIDE DEF new
<1> QED
  BY <1>1, <1>2, DeliverKeeps

LEMMA MineAgainKeeps ==
  ASSUME DepositsInv, NEW h \in Hashes, MineAgain(h)
  PROVE  Good
<1> DEFINE new == [chain[h] EXCEPT !.mined = TRUE]
<1>1. chain[h] \in Tx /\ chain[h] # NoTx /\ ~ chain[h].mined /\ chain[h].removed
  BY DEF MineAgain, Mined, DepositsInv, ListenerTypes, ChainFits
<1>2. new \in Tx /\ new.mined /\ new.removed /\ new.logs = chain[h].logs
  BY <1>1 DEF Tx
<1>3. chain' = [chain EXCEPT ![h] = new] /\ Deliver(h, new.logs)
  BY <1>2 DEF MineAgain
<1>4. Cardinality(new.logs) \in Nat /\ \A t \in new.logs : t.to \in registered
  BY <1>1, <1>2 DEF DepositsInv, ChainFits
<1> HIDE DEF new
<1> QED
  BY <1>1, <1>2, <1>3, <1>4, DeliverKeeps

LEMMA ReorgKeeps ==
  ASSUME DepositsInv, NEW h \in Hashes, Reorg(h)
  PROVE  Good
<1> DEFINE new == [chain[h] EXCEPT !.mined = FALSE, !.age = 0, !.removed = TRUE]
<1>1. chain[h] \in Tx /\ chain[h] # NoTx
  BY DEF Reorg, Mined, DepositsInv, ListenerTypes
<1>2. new \in Tx /\ new # NoTx /\ new.removed /\ new.logs = chain[h].logs
  <2>1. 0 \in 0 .. MinConfirmations
    OBVIOUS
  <2>2. new \in Tx /\ new.removed /\ new.logs = chain[h].logs
    BY <1>1, <2>1 DEF Tx
  <2> QED
    BY <2>2
<1>3. chain' = [chain EXCEPT ![h] = new]
      /\ UNCHANGED <<ledgerVars, registered, creating, listenerVars>>
  BY DEF Reorg
<1> HIDE DEF new
<1>4. /\ chain' \in [Hashes -> Tx \cup {NoTx}] /\ chain'[h] = new
      /\ \A g \in Hashes \ {h} : chain'[g] = chain[g]
  BY <1>2, <1>3 DEF DepositsInv, ListenerTypes
<1>5. ListenerTypes' /\ Waits'
  BY <1>3, <1>4 DEF DepositsInv, ListenerTypes, Waits, listenerVars
<1>6. FeedFits'
  <2>1. \A i \in 1 .. Len(feed) : feed[i] \in Entries /\ Heard(feed[i])
    BY ElementOfSeq DEF DepositsInv, ListenerTypes, FeedFits
  <2>2. \A i \in 1 .. Len(feed) : StillHeard(feed[i])
    BY <1>2, <1>4, <2>1 DEF Heard, StillHeard, Entries
  <2> QED
    BY <1>3, <2>2 DEF FeedFits, Heard, StillHeard, listenerVars
<1>7. ASSUME NEW g \in Hashes PROVE ChainFits(g)'
  BY <1>1, <1>2, <1>3, <1>4 DEF DepositsInv, ChainFits
<1>8. ASSUME NEW id \in TxIds PROVE Backed(id)'
  <2>1. Backed(id)
    BY DEF DepositsInv
  <2> QED
    BY <1>2, <1>3, <1>4, <2>1 DEF Backed, IsType, Exists, ledgerVars
<1> QED
  BY <1>3, <1>5, <1>6, <1>7, <1>8, LedgerKept DEF Good, DepositsInv

\* A block ages the transactions and the logs alike.
LEMMA BlockKeeps ==
  ASSUME DepositsInv, NewBlock
  PROVE  Good
<1>1. UNCHANGED <<ledgerVars, registered, creating, watch, listener, subscribed, loaded, lost>>
  BY DEF NewBlock
<1>2. \A n \in 0 .. MinConfirmations : /\ Older(n) \in 0 .. MinConfirmations
                                       /\ n = MinConfirmations => Older(n) = n
  BY DEF Older
<1>3. ASSUME NEW h \in Hashes
      PROVE  /\ chain'[h] \in Tx \cup {NoTx}
             /\ chain[h] = NoTx => chain'[h] = NoTx
             /\ chain[h] # NoTx =>
                  /\ chain[h] \in Tx
                  /\ chain'[h] # NoTx
                  /\ chain'[h].logs = chain[h].logs /\ chain'[h].removed = chain[h].removed
                  /\ chain'[h].mined = chain[h].mined
                  /\ ~ chain[h].removed => chain'[h].age = Older(chain[h].age)
  <2> DEFINE new == [chain[h] EXCEPT !.age = Older(@)]
  <2>1. chain'[h] = IF Mined(h) THEN new ELSE chain[h]
    BY DEF NewBlock
  <2>2. CASE chain[h] = NoTx
    BY <2>1, <2>2 DEF Mined
  <2>3. CASE chain[h] # NoTx
    <3>1. chain[h] \in Tx /\ (chain[h].mined \/ chain[h].removed)
      BY <2>3 DEF DepositsInv, ListenerTypes, ChainFits
    <3>2. /\ new \in Tx /\ new.logs = chain[h].logs /\ new.removed = chain[h].removed
          /\ new.mined = chain[h].mined /\ new.age = Older(chain[h].age)
      BY <1>2, <3>1 DEF Tx
    <3>3. new # NoTx
      BY <3>2
    <3> HIDE DEF new
    <3> QED
      BY <2>1, <2>3, <3>1, <3>2, <3>3 DEF Mined
  <2> QED
    BY <2>2, <2>3
<1>4. chain' \in [Hashes -> Tx \cup {NoTx}]
  <2>1. chain' = [h \in Hashes |-> chain'[h]]
    BY DEF NewBlock
  <2> QED
    BY <1>3, <2>1
<1>5. feed' \in Seq(Entries) /\ FeedFits' /\ (feed # <<>> => feed' # <<>>)
  <2>1. /\ Len(feed) \in Nat /\ DOMAIN feed = 1 .. Len(feed)
        /\ \A i \in 1 .. Len(feed) : feed[i] \in Entries /\ Heard(feed[i])
    BY ElementOfSeq, LenProperties DEF DepositsInv, ListenerTypes, FeedFits
  <2>2. feed' = [i \in 1 .. Len(feed) |-> [feed[i] EXCEPT !.age = Older(@)]]
    BY <2>1 DEF NewBlock
  <2>3. ASSUME NEW i \in 1 .. Len(feed)
        PROVE  feed'[i] \in Entries /\ StillHeard(feed'[i])
    <3>1. feed[i] \in Entries /\ Heard(feed[i]) /\ feed'[i] = [feed[i] EXCEPT !.age = Older(@)]
      BY <2>1, <2>2
    <3>2. /\ feed'[i] \in Entries /\ feed'[i].hash = feed[i].hash
          /\ feed'[i].log = feed[i].log /\ feed'[i].age = Older(feed[i].age)
      BY <1>2, <3>1 DEF Entries
    <3>3. feed[i].hash \in Hashes
      BY <3>1 DEF Entries
    <3> QED
      BY <1>3, <3>1, <3>2, <3>3 DEF Heard, StillHeard
  <2>4. feed' \in [1 .. Len(feed) -> Entries]
    <3>1. feed' = [i \in 1 .. Len(feed) |-> feed'[i]]
      BY <2>2
    <3> QED
      BY <2>3, <3>1
  <2>5. feed' \in Seq(Entries) /\ Len(feed') = Len(feed)
    BY <2>1, <2>4, IsASeq, LenProperties
  <2>6. FeedFits'
    BY <2>3, <2>5 DEF FeedFits, Heard, StillHeard
  <2>7. feed # <<>> => feed' # <<>>
    BY <2>5, EmptySeq DEF DepositsInv, ListenerTypes
  <2> QED
    BY <2>5, <2>6, <2>7
<1>6. ListenerTypes' /\ Waits'
  BY <1>1, <1>4, <1>5 DEF DepositsInv, ListenerTypes, Waits
<1>7. ASSUME NEW h \in Hashes PROVE ChainFits(h)'
  BY <1>1, <1>3 DEF DepositsInv, ChainFits
<1>8. ASSUME NEW id \in TxIds PROVE Backed(id)'
  <2>1. Backed(id)
    BY DEF DepositsInv
  <2>2. CASE ~ IsType(id, "crypto_deposit")
    BY <1>1, <2>2 DEF Backed, IsType, Exists, ledgerVars
  <2>3. CASE IsType(id, "crypto_deposit")
    <3> DEFINE h == txn[id].hash
    <3>1. h \in Hashes /\ chain[h] # NoTx /\ (~ chain[h].removed => chain[h].age = MinConfirmations)
      BY <2>1, <2>3 DEF Backed
    <3>2. ~ chain[h].removed => chain'[h].age = MinConfirmations
      BY <1>2, <1>3, <3>1
    <3> QED
      BY <1>1, <1>3, <2>1, <2>3, <3>1, <3>2 DEF Backed, IsType, Exists, ledgerVars
  <2> QED
    BY <2>2, <2>3
<1> QED
  BY <1>1, <1>5, <1>6, <1>7, <1>8, LedgerKept DEF Good, DepositsInv

-----------------------------------------------------------------------------
(***************************************************************************)
(* Crediting.                                                              *)
(***************************************************************************)
LEMMA CreditKeeps ==
  ASSUME DepositsInv, CreditDeposit
  PROVE  Good
<1> DEFINE e == Head(feed)
           h == e.hash
           log == e.log
<1>1. feed # <<>> /\ feed \in Seq(Entries) /\ Len(feed) \in Nat
  BY LenProperties DEF CreditDeposit, DepositsInv, Waits, ListenerTypes
<1>2. e \in Entries /\ Heard(e)
  <2>1. 1 \in 1 .. Len(feed) /\ e = feed[1]
    BY <1>1, EmptySeq
  <2> QED
    BY <1>1, <2>1, HeadTailProperties DEF DepositsInv, FeedFits
<1>3. e.age = MinConfirmations
  BY <1>2 DEF CreditDeposit, Confirmed, Entries
<1>4. /\ UNCHANGED <<registered, creating, chain, watch, subscribed, loaded, lost>>
      /\ listener' = "listening" /\ feed' = Tail(feed)
  BY DEF CreditDeposit, Handled
<1>5. CASE UNCHANGED ledgerVars
  BY <1>1, <1>4, <1>5, ListenerKeeps DEF DepositsInv, ListenerTypes
<1>6. ASSUME NEW id \in TxIds, CreditCryptoDeposit(id, Owner(log.to), log.asset, log.amount, h)
      PROVE  Good
  <2>1. /\ h \in Hashes /\ log \in Transfers /\ Owner(log.to) \in Wallets
        /\ log.asset \in Assets /\ log.amount \in Amounts
    BY <1>2 DEF Entries, Transfers, Owner, Addresses
  <2>2. /\ chain[h] # NoTx /\ log \in chain[h].logs
        /\ ~ chain[h].removed => chain[h].age = MinConfirmations
    BY <1>2, <1>3 DEF Heard
  <2> HIDE DEF e, h, log
  <2> DEFINE row == [Entry("crypto_deposit", Nil, Owner(log.to), log.asset, log.amount, "success")
                       EXCEPT !.hash = h]
  <2>3. Insert(id, row)
    BY <1>6 DEF CreditCryptoDeposit
  <2>4. /\ row \in Row /\ row.type = "crypto_deposit" /\ row.hash = h
        /\ row.destination = Owner(log.to) /\ row.asset = log.asset /\ row.amount = log.amount
    BY <2>1 DEF Entry, Row, Types, Statuses, OrderIDs, Nil
  <2> HIDE DEF row
  <2>5. /\ ~ Exists(id) /\ txn'[id] = row /\ row # NoRow
        /\ \A k \in TxIds \ {id} : txn'[k] = txn[k]
    BY <2>3, <2>4, RowInserted DEF DepositsInv, LedgerInv
  <2>6. Receives
    BY <1>6, <2>1 DEF Receives, Opened
  <2>7. feed' \in Seq(Entries) /\ FeedFits'
    BY <1>1, <1>4, FeedShrinks DEF DepositsInv
  <2>8. ListenerTypes' /\ Waits'
    BY <1>4, <2>7 DEF DepositsInv, ListenerTypes, Waits
  <2>9. \A g \in Hashes : ChainFits(g)'
    BY <1>4 DEF DepositsInv, ChainFits
  <2>10. ASSUME NEW k \in TxIds PROVE Backed(k)'
    <3>1. Backed(k)
      BY DEF DepositsInv
    <3>2. CASE k = id
      BY <1>4, <2>1, <2>2, <2>4, <2>5, <3>2 DEF Backed
    <3>3. CASE k # id
      BY <1>4, <2>5, <3>1, <3>3 DEF Backed, IsType, Exists
    <3> QED
      BY <3>2, <3>3
  <2> QED
    BY <2>6, <2>7, <2>8, <2>9, <2>10, LedgerKept DEF Good, DepositsInv
<1> QED
  BY <1>5, <1>6 DEF CreditDeposit, ContractAsset

-----------------------------------------------------------------------------
LEMMA DepositsStart == Init => DepositsInv
<1>1. LedgerInit => LedgerInv
  BY LedgerStarts
<1>2. Init => feed \in Seq(Entries) /\ FeedFits
  BY EmptySeq DEF Init, FeedFits
<1> QED
  BY <1>1, <1>2 DEF Init, LedgerInit, DepositsInv, ListenerTypes, Waits, ChainFits, Backed, IsType, Exists

LEMMA DepositsStep ==
  ASSUME DepositsInv, [Next]_depositVars
  PROVE  Good
<1>1. CASE UNCHANGED depositVars
  BY <1>1, ListenerKeeps DEF depositVars, ledgerVars, listenerVars, DepositsInv, ListenerTypes, Waits
<1> QED
  BY <1>1, AddressesKeep, DepositKeeps, ReorgKeeps, MineAgainKeeps, BlockKeeps, LoopKeeps, CreditKeeps
     DEF Next

\* The invariant on which the theorems below rest.
THEOREM DepositsSafe == Spec => []DepositsInv
<1>1. DepositsInv /\ [Next]_depositVars => DepositsInv'
  BY DepositsStep DEF Good
<1> QED
  BY <1>1, DepositsStart, PTL DEF Spec

\* The listener writes the tables through CreditCryptoDeposit only: whatever
\* happens to blocks, connection and server, they go the way the ledger
\* specification allows.
THEOREM DepositsImplementsLedger == Spec => LedgerSpec
<1>1. Init => LedgerInit
  BY DEF Init
<1>2. DepositsInv /\ [Next]_depositVars => [LedgerNext]_ledgerVars
  BY DepositsStep, OpeningIsNext DEF Good, Receives
<1> QED
  BY <1>1, <1>2, DepositsSafe, PTL DEF Spec, LedgerSpec

\* It opens rows and decides none, so the ledger stays an orderly one.
THEOREM DepositsOrderly == Spec => OrderlySpec
<1>1. Init => LedgerInit
  BY DEF Init
<1>2. DepositsInv /\ [Next]_depositVars => [OrderlyNext]_ledgerVars
  BY DepositsStep, OpenedWithAmounts DEF Good, Receives, OrderlyNext
<1> QED
  BY <1>1, <1>2, DepositsSafe, PTL DEF Spec, OrderlySpec

\* What a user holds is what was deposited: no restart, no log that comes twice
\* and no block that is mined again credits a wallet without a row of its own,
\* and no two rows carry the same transaction.
THEOREM DepositsJournal == Spec => []Journal /\ []HashOnce
  BY DepositsOrderly, OrderlyBooksBalance, OrderlySafe, PTL

\* Every variable holds values of its type, and every address the listener
\* watches, or is going to watch, is in the database.
THEOREM DepositsTypes == Spec => []TypeOK
<1>1. DepositsInv => TypeOK
  BY DEF DepositsInv, LedgerInv, ListenerTypes, Entries, TypeOK
<1> QED
  BY <1>1, DepositsSafe, PTL

\* Every deposit that handleLog credits is a transfer of the chain to an address
\* of that wallet, of that asset and that amount.
THEOREM DepositsBacked == Spec => []DepositBacked
<1>1. DepositsInv => DepositBacked
  BY DEF DepositsInv, Backed, ChainFits, DepositBacked
<1> QED
  BY <1>1, DepositsSafe, PTL

\* A transfer that has been credited is MinConfirmations deep and stays there,
\* unless a block it was in has been reorganised away.
THEOREM DepositsFinal == Spec => []CreditedIsFinal
<1>1. DepositsInv => CreditedIsFinal
  BY DEF DepositsInv, Backed, ChainFits, CreditedIsFinal, Credited, Mined
<1> QED
  BY <1>1, DepositsSafe, PTL
=============================================================================
