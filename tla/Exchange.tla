------------------------------ MODULE Exchange ------------------------------
(***************************************************************************)
(* exchangeUsecase: GetExchangeRate and Swap on top of PriceCache and      *)
(* Ledger.  Swap takes up to two rates, looks at the balance, computes     *)
(* what it will debit and credit, and only then does ExecuteSwapTx lock    *)
(* the two accounts.                                                       *)
(*                                                                         *)
(* Amounts are in hundredths of a rupiah or token: the fractions of a      *)
(* decimal.Decimal that the rounding of rupiah is about.                   *)
(***************************************************************************)
EXTENDS PriceCache, Ledger

CONSTANTS
  Swappers,         \* bound: the callers that swap; the others only ask
  FeeNum, FeeDen    \* feePercentage

ASSUME ExchangeAssumption ==
  /\ Swappers \subseteq Callers
  /\ Assets = {IDR} \cup Pairs /\ IDR \notin Pairs   \* allowedAssets
  /\ OneRupiah = 100
  /\ FeeNum \in Nat /\ FeeDen \in Nat \ {0} /\ FeeNum <= FeeDen

VARIABLES
  order,   \* the swap a caller works on
  used     \* the rates each swap of the history was computed with

exchangeVars == <<balance, txn, cache, call, order, used>>

\* step: the rate Swap waits for.
NoOrder == [step |-> "none", wallet |-> 1, from |-> IDR, to |-> IDR, amount |-> 0,
            fromRate |-> 1, toRate |-> 1]

\* The next key of the table: which comes first makes no difference.
FreshKey(id) == ~ Exists(id) /\ id = CHOOSE k \in TxIds : ~ Exists(k)

-----------------------------------------------------------------------------
GetExchangeRate(c, p) ==
  /\ c \notin Swappers
  /\ GetRate(c, p)
  /\ UNCHANGED <<ledgerVars, order, used>>

Answer(c) ==
  /\ c \notin Swappers
  /\ call[c].step = "returned"
  /\ call' = [call EXCEPT ![c] = Idle]
  /\ UNCHANGED <<ledgerVars, cache, order, used>>

-----------------------------------------------------------------------------
(***************************************************************************)
(* Swap.  Bound: it begins only while the table can take a row.            *)
(***************************************************************************)
Swap(c, w, from, to, n) ==
  /\ c \in Swappers
  /\ order[c].step = "none"
  /\ from # to
  /\ \E id \in TxIds : ~ Exists(id)
  /\ order' = [order EXCEPT ![c] =
       [NoOrder EXCEPT !.step = IF from = IDR THEN "to" ELSE "from",
                       !.wallet = w, !.from = from, !.to = to, !.amount = n]]
  /\ UNCHANGED <<ledgerVars, priceVars, used>>

AskRate(c) ==
  /\ \/ order[c].step = "from" /\ GetRate(c, order[c].from)
     \/ order[c].step = "to" /\ GetRate(c, order[c].to)
  /\ UNCHANGED <<ledgerVars, order, used>>

\* A rate arrives; rupiah have the rate one.
TakeRate(c) ==
  /\ call[c].step = "returned"
  /\ \/ /\ order[c].step = "from"
        /\ order' = [order EXCEPT ![c].step = IF order[c].to = IDR THEN "priced" ELSE "to",
                                  ![c].fromRate = call[c].rate]
     \/ /\ order[c].step = "to"
        /\ order' = [order EXCEPT ![c].step = "priced", ![c].toRate = call[c].rate]
  /\ call' = [call EXCEPT ![c] = Idle]
  /\ UNCHANGED <<ledgerVars, cache, used>>

InRupiah(asset, n) == IF asset = IDR THEN Rounded(n) ELSE n

\* grossToAmount and the fee.  Div goes on to sixteen digits, here to a hundredth.
Gross(o) == (o.amount * o.fromRate) \div o.toRate

\* Mutant: the fee is recorded and not taken.
GrossOnly(o) == InRupiah(o.to, Gross(o))

Net(o) == InRupiah(o.to, Gross(o) - (Gross(o) * FeeNum) \div FeeDen)

\* The balance is looked at without a lock, for the amount that was asked for.
CheckBalance(c) ==
  /\ order[c].step = "priced"
  /\ LET o == order[c] IN
       order' = [order EXCEPT ![c] = IF balance[<<o.wallet, o.from>>] < o.amount
                                       THEN NoOrder ELSE [o EXCEPT !.step = "checked"]]
  /\ UNCHANGED <<ledgerVars, priceVars, used>>

\* Mutant: the check under the lock is left out.
ExecuteUnchecked(c) ==
  /\ order[c].step = "checked"
  /\ \E id \in TxIds :
       LET o == order[c]
           n == InRupiah(o.from, o.amount)
       IN /\ FreshKey(id)
          /\ Insert(id, [Entry("swap", o.wallet, Nil, o.from, n, "success")
                           EXCEPT !.toAsset = o.to, !.toAmount = Net(o)])
          /\ balance' = [balance EXCEPT ![<<o.wallet, o.from>>] = @ - n,
                                        ![<<o.wallet, o.to>>] = @ + Net(o)]
          /\ used' = [used EXCEPT ![id] = o]
  /\ order' = [order EXCEPT ![c] = NoOrder]
  /\ UNCHANGED priceVars

\* ExecuteSwapTx, for the rounded amount.  It refuses what the wallet does not
\* hold by now, and the database may fail.
ExecuteSwap(c) ==
  /\ order[c].step = "checked"
  /\ \/ \E id \in TxIds :
          LET o == order[c] IN
            /\ FreshKey(id)
            /\ ExecuteSwapTx(id, o.wallet, o.from, o.to, InRupiah(o.from, o.amount), Net(o))
            /\ used' = [used EXCEPT ![id] = o]
     \/ UNCHANGED <<ledgerVars, used>>
  /\ order' = [order EXCEPT ![c] = NoOrder]
  /\ UNCHANGED priceVars

-----------------------------------------------------------------------------
Init ==
  /\ LedgerInit
  /\ PriceInit
  /\ order = [c \in Swappers |-> NoOrder]
  /\ used = [id \in TxIds |-> NoOrder]

Next ==
  \/ PriceNext /\ UNCHANGED <<ledgerVars, order, used>>
  \/ \E c \in Callers \ Swappers :
       \/ \E p \in Pairs : GetExchangeRate(c, p)
       \/ Answer(c)
  \/ \E c \in Swappers :
       \/ \E w \in Wallets, from, to \in Assets, n \in Amounts : Swap(c, w, from, to, n)
       \/ AskRate(c) \/ TakeRate(c) \/ CheckBalance(c) \/ ExecuteSwap(c)

Spec == Init /\ [][Next]_exchangeVars

-----------------------------------------------------------------------------
(***************************************************************************)
(* Properties.                                                             *)
(***************************************************************************)
\* The tables, the cache and every caller hold values of their types.
TypeOK ==
  /\ LedgerTypeOK
  /\ PriceTypeOK
  /\ \A o \in {order[c] : c \in Swappers} \cup {used[id] : id \in TxIds} :
       o \in [step : {"none", "from", "to", "priced", "checked"}, wallet : Wallets,
              from : Assets, to : Assets, amount : Amounts \cup {0},
              fromRate : Rates, toRate : Rates]

\* What a swap takes and gives, in hundredths of a rupiah at the rates it was
\* given: what it credits is what it debits less the fee, up to the half rupiah
\* that rounding may give or take and the last digit of the division.
SwapIsFair ==
  \A id \in TxIds : IsType(id, "swap") =>
    LET row == txn[id]
        debited == row.amount * used[id].fromRate
        credited == row.toAmount * used[id].toRate
        due == debited - (debited * FeeNum) \div FeeDen
        slack == OneRupiah \div 2 + 2 * used[id].toRate
    IN credited - due \in - slack .. slack
=============================================================================
