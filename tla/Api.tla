-------------------------------- MODULE Api --------------------------------
(***************************************************************************)
(* Two routes of the API over one Ledger.  POST /transfer passes the rate  *)
(* limiter and ends in ExecuteTransferTx; GET /transactions, which is not  *)
(* limited, reads the history while rows come in.  POST /topup, which is   *)
(* not limited either, brings in pending rows without a lock.              *)
(***************************************************************************)
EXTENDS RateLimiter, History

apiVars == <<balance, txn, clients, exact, since, newest, reader>>

\* The next key of the table: which comes first makes no difference.
FreshKey(id) == ~ Exists(id) /\ id = CHOOSE k \in TxIds : ~ Exists(k)

-----------------------------------------------------------------------------
\* The limiter lets the request through, and the transfer is executed.
Transfer(ip, s, r, a, n) ==
  /\ Pass(ip)
  /\ s # r
  /\ \E id \in TxIds :
       /\ FreshKey(id)
       /\ ExecuteTransferTx(id, s, r, a, n)
       /\ CreatedLocked(id)

\* The limiter lets the request through, and the second factor, the input, the
\* balance or the database does not.
TransferRefused(ip) ==
  /\ Pass(ip)
  /\ UNCHANGED <<ledgerVars, historyVars>>

TransferLimited(ip) ==
  /\ TooMany(ip)
  /\ UNCHANGED <<ledgerVars, historyVars>>

TopUp(w, n) ==
  /\ \E id \in TxIds :
       /\ FreshKey(id)
       /\ CreatePendingTopUpTx(id, w, n)
       /\ CreatedUnlocked(id)
  /\ UNCHANGED limiterVars

Read ==
  /\ \/ \E q \in Queries : Ask(q)
     \/ Count
     \/ Fetch
     \/ StopReading
  /\ UNCHANGED limiterVars

Background ==
  /\ CleanUp \/ LimiterTick
  /\ UNCHANGED <<ledgerVars, historyVars>>

-----------------------------------------------------------------------------
Init == LedgerInit /\ LimiterInit /\ HistoryInit

Next ==
  \/ \E ip \in Clients :
       \/ \E s, r \in Wallets, a \in Assets, n \in Amounts : Transfer(ip, s, r, a, n)
       \/ TransferRefused(ip) \/ TransferLimited(ip)
  \/ \E w \in Wallets, n \in Amounts : TopUp(w, n)
  \/ Read
  \/ Background

Spec == Init /\ [][Next]_apiVars
=============================================================================
