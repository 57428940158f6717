------------------------------ MODULE History ------------------------------
(***************************************************************************)
(* Reading the history of a wallet: GetTransactionsByWalletID counts the   *)
(* rows that match and then fetches one page of them, newest first.  The   *)
(* two queries are not in one database transaction, and neither are the    *)
(* pages that a client asks for one after the other.                       *)
(***************************************************************************)
EXTENDS Ledger, Sequences, SequencesExt

CONSTANTS
  PerPage,    \* perPage
  Queries     \* bound: what a reader may ask for, see Query

\* The wallet of the user, and the optional filters by asset and by type.
Query == [wallet : Wallets, assets : SUBSET Assets, types : SUBSET Types]

ASSUME HistoryAssumption == PerPage \in Nat \ {0} /\ Queries \subseteq Query /\ Queries # {}

VARIABLES
  newest,   \* the rows in the order created_at DESC
  reader    \* one client that goes through all pages of a query

historyVars == <<newest, reader>>

\* atStart: what matched when the reader began.  raced: a row came in between
\* the two queries of its last answer.
NoReader == [step |-> "idle", query |-> CHOOSE q \in Queries : TRUE, page |-> 1, total |-> 0,
             seen |-> {}, atStart |-> {}, raced |-> FALSE]

-----------------------------------------------------------------------------
Matches(id, q) ==
  /\ q.wallet \in {txn[id].source, txn[id].destination}
  /\ txn[id].asset \in q.assets
  /\ txn[id].type \in q.types

Matching(q) == {id \in ToSet(newest) : Matches(id, q)}

\* The matching rows from the newest one down to this one.
DownTo(id, q) ==
  {other \in Matching(q) :
     \E j, k \in DOMAIN newest : j <= k /\ newest[j] = other /\ newest[k] = id}

Rank(id, q) == Cardinality(DownTo(id, q))

\* A row comes in at position i.  The reader that is between its two queries is
\* overtaken by it.
Created(id, i) ==
  /\ newest' = InsertAt(newest, i, id)
  /\ reader' = [reader EXCEPT !.raced = @ \/ reader.step = "fetching"]

\* A method that locks the accounts of the row stamps it under the lock: it is
\* the newest of those accounts.
CreatedLocked(id) == Created(id, 1)

\* CreatePendingTopUpTx locks nothing: a row stamped later may be there first.
CreatedUnlocked(id) == \E i \in 1 .. Len(newest) + 1 : Created(id, i)

-----------------------------------------------------------------------------
Ask(q) ==
  /\ reader.step = "idle"
  /\ reader' = [NoReader EXCEPT !.step = "counting", !.query = q,
                                !.atStart = Matching(q)]
  /\ UNCHANGED <<ledgerVars, newest>>

Count ==
  /\ reader.step = "counting"
  /\ reader' = [reader EXCEPT !.step = "fetching", !.total = Cardinality(Matching(reader.query)),
                              !.raced = FALSE]
  /\ UNCHANGED <<ledgerVars, newest>>

\* Mutant: pages counted from zero.
OffsetByOne(page) == page * PerPage

Offset(page) == (page - 1) * PerPage

\* At least one page.
TotalPages(total) == IF total = 0 THEN 1 ELSE (total + PerPage - 1) \div PerPage

\* LIMIT and OFFSET of the matching rows, newest first.
Page(q, page) == {id \in Matching(q) : Rank(id, q) - Offset(page) \in 1 .. PerPage}

\* The page is fetched and answered with total_pages; the client asks for the
\* next page until it has them all.
Fetch ==
  /\ reader.step = "fetching"
  /\ LET more == reader.page < TotalPages(reader.total) IN
       reader' = [reader EXCEPT
         !.seen = @ \cup Page(reader.query, reader.page),
         !.step = IF more THEN "counting" ELSE "done",
         !.page = IF more THEN @ + 1 ELSE @]
  /\ UNCHANGED <<ledgerVars, newest>>

\* The client asks again, or the first of the two queries fails.
StopReading ==
  /\ reader.step # "idle"
  /\ reader' = NoReader
  /\ UNCHANGED <<ledgerVars, newest>>

HistoryInit ==
  /\ newest = << >>
  /\ reader = NoReader

-----------------------------------------------------------------------------
\* A client that has asked for every page has seen every row that was there when
\* it began, although rows came in between: unless one came in between the two
\* queries of the last answer, when total_pages is already out of date.
HistoryIsComplete ==
  reader.step = "done" /\ ~ reader.raced => reader.atStart \subseteq reader.seen
=============================================================================
