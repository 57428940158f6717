--------------------------- MODULE ExchangeProofs ---------------------------
(***************************************************************************)
(* Theorems about Exchange and its PriceCache, for any number of callers,  *)
(* any lifetime of an entry, any timeout and any prices.                   *)
(*                                                                         *)
(* What a caller has waited bounds the age of the rate it will be given    *)
(* (CallFits), and an entry that may still be used is no older than its    *)
(* age in the cache and the two requests behind it (EntryFits).            *)
(***************************************************************************)
EXTENDS Exchange, LedgerProofs

USE LedgerAssumption, PriceAssumption, ExchangeAssumption

Calls == [step : {"idle", "binance", "indodax", "storing", "returned"},
          pair : Pairs, waited : 0 .. Timeout, peg : Pegs \cup {1}, rate : Rates, seen : Ages]

Orders == [step : {"none", "from", "to", "priced", "checked"}, wallet : Wallets,
           from : Assets, to : Assets, amount : Amounts \cup {0}, fromRate : Rates, toRate : Rates]

EntryFits(p) ==
  cache[p] # NoEntry /\ cache[p].age < TTL => cache[p].seen <= cache[p].age + 2 * Timeout

CallFits(c) ==
  /\ call[c].step = "binance" => call[c].seen <= call[c].waited
  /\ call[c].step = "indodax" => call[c].seen <= Timeout + call[c].waited
  /\ call[c].step = "storing" => call[c].seen <= 2 * Timeout
  /\ call[c].step = "returned" => call[c].seen < MaxAge

PriceInv ==
  /\ cache \in [Pairs -> CachedRate \cup {NoEntry}]
  /\ call \in [Callers -> Calls]
  /\ \A p \in Pairs : EntryFits(p)
  /\ \A c \in Callers : CallFits(c)

-----------------------------------------------------------------------------
(***************************************************************************)
(* The cache.                                                              *)
(***************************************************************************)
LEMMA AgeFacts == /\ MaxAge \in Nat /\ MaxAge > 2 * Timeout
                  /\ \A n \in Ages : Later(n) \in Ages /\ Later(n) <= n + 1
                  /\ 0 \in Ages /\ 1 \in Rates
  BY DEF PriceAssumption, MaxAge, Ages, Later, Rates

LEMMA IdleFacts == Idle \in Calls /\ Idle.step = "idle"
  BY AgeFacts DEF Idle, Calls, Pairs, PriceAssumption

\* A caller that moves alone.
LEMMA OneCaller ==
  ASSUME PriceInv, UNCHANGED cache, NEW c \in Callers, NEW new \in Calls,
         call' = [call EXCEPT ![c] = new],
         new.step = "binance" => new.seen <= new.waited,
         new.step = "indodax" => new.seen <= Timeout + new.waited,
         new.step = "storing" => new.seen <= 2 * Timeout,
         new.step = "returned" => new.seen < MaxAge
  PROVE  PriceInv'
<1>1. call'[c] = new /\ \A d \in Callers \ {c} : call'[d] = call[d]
  BY DEF PriceInv
<1>2. \A d \in Callers : CallFits(d)'
  BY <1>1 DEF PriceInv, CallFits
<1> QED
  BY <1>2 DEF PriceInv, EntryFits

LEMMA LookKeeps ==
  ASSUME PriceInv, NEW c \in Callers, NEW p \in Pairs, GetRate(c, p)
  PROVE  PriceInv'
<1> DEFINE hit == [Idle EXCEPT !.step = "returned", !.pair = p, !.rate = cache[p].rate,
                              !.seen = cache[p].seen]
           miss == [Idle EXCEPT !.step = IF p = USDC THEN "binance" ELSE "indodax", !.pair = p]
<1>1. CASE Fresh(p)
  <2>1. cache[p] \in CachedRate /\ cache[p].age < TTL /\ cache[p].seen <= cache[p].age + 2 * Timeout
    BY <1>1 DEF Fresh, PriceInv, EntryFits
  <2>2. cache[p].seen < MaxAge /\ cache[p].seen \in Ages /\ cache[p].rate \in Rates
    BY <2>1 DEF CachedRate, MaxAge, Ages, PriceAssumption
  <2>3. hit \in Calls /\ hit.step = "returned" /\ hit.seen < MaxAge
    BY <2>2, IdleFacts DEF Calls, Idle
  <2>4. call' = [call EXCEPT ![c] = hit] /\ UNCHANGED cache
    BY <1>1 DEF GetRate
  <2> HIDE DEF hit
  <2> QED
    BY <2>3, <2>4, OneCaller
<1>2. CASE ~ Fresh(p)
  <2>1. /\ miss \in Calls /\ miss.step \in {"binance", "indodax"}
        /\ miss.seen = 0 /\ miss.waited = 0
    BY IdleFacts DEF Calls, Idle
  <2>2. call' = [call EXCEPT ![c] = miss] /\ UNCHANGED cache
    BY <1>2 DEF GetRate
  <2> HIDE DEF miss
  <2>3. miss.seen <= miss.waited /\ miss.seen <= Timeout + miss.waited
    BY <2>1 DEF PriceAssumption
  <2>4. miss.step # "storing" /\ miss.step # "returned"
    BY <2>1
  <2> QED
    BY <2>1, <2>2, <2>3, <2>4, OneCaller
<1> QED
  BY <1>1, <1>2

LEMMA BinanceKeeps ==
  ASSUME PriceInv, NEW c \in Callers, FetchBinance(c)
  PROVE  PriceInv'
<1>1. PICK peg \in Pegs \cup {1} :
        call' = [call EXCEPT ![c].step = "indodax", ![c].peg = peg, ![c].waited = 0]
  BY DEF FetchBinance
<1> DEFINE new == [call[c] EXCEPT !.step = "indodax", !.peg = peg, !.waited = 0]
<1>2. call[c] \in Calls /\ call[c].seen <= call[c].waited
  BY DEF PriceInv, CallFits, FetchBinance
<1>3. 0 \in 0 .. Timeout /\ call[c].waited <= Timeout
  BY <1>2 DEF Calls, PriceAssumption
<1>4. /\ new \in Calls /\ new.step = "indodax" /\ new.waited = 0
      /\ new.seen = call[c].seen
  BY <1>2, <1>3 DEF Calls
<1>5. new.seen <= Timeout + new.waited
  BY <1>2, <1>3, <1>4 DEF Calls, Ages, PriceAssumption, MaxAge
<1>6. call' = [call EXCEPT ![c] = new] /\ UNCHANGED cache
  <2>1. [call EXCEPT ![c].step = "indodax", ![c].peg = peg, ![c].waited = 0]
          = [call EXCEPT ![c] = new]
    BY Zenon
  <2> QED
    BY <1>1, <2>1 DEF FetchBinance
<1> HIDE DEF new
<1> QED
  BY <1>4, <1>5, <1>6, OneCaller

LEMMA ProductFacts ==
  ASSUME NEW p \in Pegs \cup {1}, NEW q \in Prices \cup {Configured}
  PROVE  p * q \in Rates
<1>1. \E u \in Pegs \cup {1}, v \in Prices \cup {Configured} : p * q = u * v
  BY Zenon
<1> QED
  BY <1>1, SMTT(20) DEF Rates

LEMMA IndodaxKeeps ==
  ASSUME PriceInv, NEW c \in Callers, FetchIndodax(c)
  PROVE  PriceInv'
<1>1. PICK price \in Prices \cup {Configured} :
        call' = [call EXCEPT ![c].step = "storing", ![c].rate = call[c].peg * price]
  BY DEF FetchIndodax
<1> DEFINE new == [call[c] EXCEPT !.step = "storing", !.rate = call[c].peg * price]
<1>2. call[c] \in Calls /\ call[c].seen <= Timeout + call[c].waited
  BY DEF PriceInv, CallFits, FetchIndodax
<1>3. call[c].peg * price \in Rates
  <2>1. call[c].peg \in Pegs \cup {1}
    BY <1>2 DEF Calls
  <2> QED
    BY <2>1, ProductFacts
<1>4. new \in Calls /\ new.step = "storing" /\ new.seen = call[c].seen
  BY <1>2, <1>3 DEF Calls
<1>5. new.seen <= 2 * Timeout
  BY <1>2, <1>4 DEF Calls, Ages, PriceAssumption, MaxAge
<1>6. call' = [call EXCEPT ![c] = new] /\ UNCHANGED cache
  <2>1. [call EXCEPT ![c].step = "storing", ![c].rate = call[c].peg * price]
          = [call EXCEPT ![c] = new]
    BY Zenon
  <2> QED
    BY <1>1, <2>1 DEF FetchIndodax
<1> HIDE DEF new
<1> QED
  BY <1>4, <1>5, <1>6, OneCaller

LEMMA StoreKeeps ==
  ASSUME PriceInv, NEW c \in Callers, Store(c)
  PROVE  PriceInv'
<1> DEFINE entry == [rate |-> call[c].rate, age |-> 0, seen |-> call[c].seen]
           new == [call[c] EXCEPT !.step = "returned"]
<1>1. call[c] \in Calls /\ call[c].seen <= 2 * Timeout
  BY DEF PriceInv, CallFits, Store
<1>2. /\ entry \in CachedRate /\ entry.age = 0 /\ entry.seen <= 2 * Timeout
      /\ new \in Calls /\ new.step = "returned" /\ new.seen < MaxAge
  BY <1>1, AgeFacts DEF Calls, CachedRate, PriceAssumption, Ages
<1>3. cache' = [cache EXCEPT ![call[c].pair] = entry] /\ call' = [call EXCEPT ![c] = new]
  BY DEF Store
<1> HIDE DEF entry, new
<1>4. cache' \in [Pairs -> CachedRate \cup {NoEntry}] /\ call' \in [Callers -> Calls]
  BY <1>2, <1>3 DEF PriceInv
<1>5. ASSUME NEW p \in Pairs PROVE EntryFits(p)'
  BY <1>2, <1>3 DEF PriceInv, EntryFits, PriceAssumption
<1>6. ASSUME NEW d \in Callers PROVE CallFits(d)'
  BY <1>2, <1>3 DEF PriceInv, CallFits
<1> QED
  BY <1>4, <1>5, <1>6 DEF PriceInv

\* Time passes for the entries and for the callers that wait for an answer.
LEMMA TickKeeps ==
  ASSUME PriceInv, Tick
  PROVE  PriceInv'
<1>1. ASSUME NEW p \in Pairs PROVE cache'[p] \in CachedRate \cup {NoEntry} /\ EntryFits(p)'
  <2>1. CASE cache[p] = NoEntry
    BY <2>1 DEF Tick, EntryFits
  <2>2. CASE cache[p] # NoEntry
    <3> DEFINE old == cache[p]
               new == [old EXCEPT !.age = IF @ < TTL THEN @ + 1 ELSE @, !.seen = Later(@)]
    <3>1. old \in CachedRate /\ (old.age < TTL => old.seen <= old.age + 2 * Timeout)
      BY <2>2 DEF PriceInv, EntryFits
    <3>2. cache'[p] = new
      BY <2>2 DEF Tick
    <3>3. /\ old.age \in 0 .. TTL /\ old.seen \in Ages
          /\ new.age = IF old.age < TTL THEN old.age + 1 ELSE old.age
          /\ new.seen = Later(old.seen) /\ new.rate = old.rate
      BY <3>1 DEF CachedRate
    <3>4. new.age \in 0 .. TTL /\ new.seen \in Ages /\ new.seen <= old.seen + 1
      BY <3>3, AgeFacts DEF PriceAssumption
    <3>5. new \in CachedRate
      BY <3>1, <3>3, <3>4 DEF CachedRate
    <3>6. new.age < TTL => new.seen <= new.age + 2 * Timeout
      BY <3>1, <3>3, <3>4 DEF Ages, MaxAge, PriceAssumption
    <3> HIDE DEF new, old
    <3> QED
      BY <3>2, <3>5, <3>6 DEF EntryFits
  <2> QED
    BY <2>1, <2>2
<1>2. ASSUME NEW c \in Callers PROVE call'[c] \in Calls /\ CallFits(c)'
  <2>1. call[c] \in Calls /\ CallFits(c)
    BY DEF PriceInv
  <2>2. CASE ~ Asking(c)
    <3>1. call'[c] = call[c]
      BY <2>2 DEF Tick
    <3> QED
      BY <2>1, <3>1 DEF CallFits
  <2>3. CASE Asking(c)
    <3> DEFINE new == [call[c] EXCEPT !.waited = @ + 1, !.seen = Later(@)]
    <3>1. call'[c] = new /\ call[c].waited < Timeout /\ call[c].step \in {"binance", "indodax"}
      BY <2>3 DEF Tick, Asking
    <3>2. /\ call[c].waited \in 0 .. Timeout /\ call[c].seen \in Ages
          /\ new.waited = call[c].waited + 1 /\ new.seen = Later(call[c].seen)
          /\ new.step = call[c].step
      BY <2>1 DEF Calls
    <3>3. new.waited \in 0 .. Timeout /\ new.seen \in Ages /\ new.seen <= call[c].seen + 1
      BY <3>1, <3>2, AgeFacts DEF PriceAssumption
    <3>4. new \in Calls
      BY <2>1, <3>3 DEF Calls
    <3>5. /\ new.step = "binance" => new.seen <= new.waited
          /\ new.step = "indodax" => new.seen <= Timeout + new.waited
      BY <2>1, <3>2, <3>3 DEF CallFits, Ages, MaxAge, PriceAssumption
    <3> HIDE DEF new
    <3> QED
      BY <3>1, <3>2, <3>4, <3>5 DEF CallFits
  <2> QED
    BY <2>2, <2>3
<1>3. cache' \in [Pairs -> CachedRate \cup {NoEntry}] /\ call' \in [Callers -> Calls]
  <2>1. cache' = [p \in Pairs |-> cache'[p]] /\ call' = [c \in Callers |-> call'[c]]
    BY DEF Tick
  <2> QED
    BY <1>1, <1>2, <2>1
<1> QED
  BY <1>1, <1>2, <1>3 DEF PriceInv

\* A rate is taken, or given to whoever asked.
LEMMA ReturnKeeps ==
  ASSUME PriceInv, UNCHANGED cache, NEW c \in Callers, call' = [call EXCEPT ![c] = Idle]
  PROVE  PriceInv'
  BY IdleFacts, OneCaller

-----------------------------------------------------------------------------
(***************************************************************************)
(* Swaps.                                                                  *)
(***************************************************************************)
\* A swap waits for rates of tokens only: the rate of rupiah stays one.
Sound(o) ==
  /\ o.step # "none" => o.from # o.to
  /\ o.step = "from" => o.from # IDR
  /\ o.step = "to" => o.to # IDR
  /\ o.from = IDR => o.fromRate = 1
  /\ o.to = IDR => o.toRate = 1

OrderFits(c) == Sound(order[c])

ExchangeInv ==
  /\ LedgerInv
  /\ PriceInv
  /\ order \in [Swappers -> Orders]
  /\ used \in [TxIds -> Orders]
  /\ \A c \in Swappers : OrderFits(c)

LEMMA RatesArePositive == Rates \subseteq Nat \ {0}
<1>1. ASSUME NEW p \in Pegs \cup {1}, NEW q \in Prices \cup {Configured}
      PROVE  p * q \in Nat \ {0}
  <2>1. p \in Nat \ {0} /\ q \in Nat \ {0}
    BY DEF PriceAssumption
  <2> QED
    BY <2>1
<1>2. ASSUME NEW r \in Rates PROVE r \in Nat \ {0}
  <2>1. CASE r = 1
    BY <2>1
  <2>2. CASE r \in {p * q : p \in Pegs \cup {1}, q \in Prices \cup {Configured}}
    <3>1. PICK p \in Pegs \cup {1}, q \in Prices \cup {Configured} : r = p * q
      BY <2>2
    <3> QED
      BY <1>1, <3>1
  <2> QED
    BY <2>1, <2>2 DEF Rates
<1> QED
  BY <1>2

LEMMA NoOrderFacts == NoOrder \in Orders /\ NoOrder.step = "none" /\ Sound(NoOrder)
<1>1. 1 \in Wallets /\ 1 \in Rates /\ IDR \in Assets
  BY DEF LedgerAssumption, Wallets, Rates
<1> QED
  BY <1>1 DEF NoOrder, Orders, Sound

\* Floor division of natural numbers.
LEMMA QuotientFacts ==
  ASSUME NEW n \in Nat, NEW d \in Nat \ {0}
  PROVE  n \div d \in Nat /\ (\A k \in Nat : n <= k * d => n \div d <= k)
<1>1. n \div d \in Nat /\ d * (n \div d) <= n
  OBVIOUS
<1> QED
  BY <1>1

\* What a swap debits and credits is never negative: the fee is a part of what
\* the rates give.
LEMMA AmountsFit ==
  ASSUME NEW o \in Orders
  PROVE  InRupiah(o.from, o.amount) \in Nat /\ Net(o) \in Nat
<1>1. o.amount \in Nat /\ o.fromRate \in Nat \ {0} /\ o.toRate \in Nat \ {0}
  <2>1. o.amount \in Amounts \cup {0} /\ o.fromRate \in Rates /\ o.toRate \in Rates
    BY DEF Orders
  <2>2. \A n \in Amounts : n \in Nat
    BY DEF LedgerAssumption
  <2>3. \A r \in Rates : r \in Nat \ {0}
    BY RatesArePositive
  <2>4. o.amount \in Nat
    <3>1. CASE o.amount = 0
      BY <3>1
    <3>2. CASE o.amount \in Amounts
      BY <2>2, <3>2
    <3> QED
      BY <2>1, <3>1, <3>2
  <2>5. o.fromRate \in Nat \ {0}
    BY <2>1, <2>3
  <2>6. o.toRate \in Nat \ {0}
    BY <2>1, <2>3
  <2> QED
    BY <2>4, <2>5, <2>6
<1>2. \A n \in Nat : \A a : InRupiah(a, n) \in Nat
  BY ExchangeAssumption DEF InRupiah, Rounded
<1>3. Gross(o) \in Nat
  <2>1. o.amount * o.fromRate \in Nat
    BY <1>1
  <2> QED
    BY <1>1, <2>1, QuotientFacts DEF Gross
<1> DEFINE g == Gross(o)
           fee == (g * FeeNum) \div FeeDen
<1>4. FeeNum \in Nat /\ FeeDen \in Nat \ {0} /\ FeeNum <= FeeDen
  BY DEF ExchangeAssumption
<1>5. fee \in Nat /\ fee <= g
  <2> HIDE DEF g
  <2>1. g \in Nat
    BY <1>3 DEF g
  <2>2. g * FeeNum \in Nat /\ g * FeeNum <= g * FeeDen
    BY <1>4, <2>1
  <2> QED
    BY <1>4, <2>1, <2>2, QuotientFacts
<1>6. g - fee \in Nat
  <2> HIDE DEF fee, g
  <2> QED
    BY <1>3, <1>5 DEF g
<1> QED
  BY <1>1, <1>2, <1>6 DEF Net

-----------------------------------------------------------------------------
(***************************************************************************)
(* Steps of the use case.                                                  *)
(***************************************************************************)
\* A step of one swap, that leaves the tables alone.
LEMMA OneSwap ==
  ASSUME ExchangeInv, PriceInv', UNCHANGED <<ledgerVars, used>>,
         NEW c \in Swappers, NEW new \in Orders, order' = [order EXCEPT ![c] = new],
         Sound(new)
  PROVE  ExchangeInv'
<1>1. LedgerInv'
  BY DEF ExchangeInv, LedgerInv, LedgerTypeOK, RowsFit, NonNegative, IsType, Exists, ledgerVars
<1>2. order' \in [Swappers -> Orders] /\ \A d \in Swappers : OrderFits(d)'
  BY DEF ExchangeInv, OrderFits
<1> QED
  BY <1>1, <1>2 DEF ExchangeInv

\* Steps of the cache alone.
LEMMA CacheKeeps ==
  ASSUME ExchangeInv, PriceInv', UNCHANGED <<ledgerVars, order, used>>
  PROVE  ExchangeInv'
<1>1. LedgerInv'
  BY DEF ExchangeInv, LedgerInv, LedgerTypeOK, RowsFit, NonNegative, IsType, Exists, ledgerVars
<1> QED
  BY <1>1 DEF ExchangeInv, OrderFits

LEMMA AskKeeps ==
  ASSUME ExchangeInv, NEW c \in Swappers, AskRate(c)
  PROVE  ExchangeInv'
<1>1. c \in Callers /\ order[c] \in Orders
  BY DEF ExchangeInv, ExchangeAssumption
<1>2. PICK p \in Pairs : GetRate(c, p)
  BY <1>1 DEF AskRate, ExchangeInv, OrderFits, Sound, ExchangeAssumption, Orders
<1>3. PriceInv'
  BY <1>1, <1>2, LookKeeps DEF ExchangeInv
<1> QED
  BY <1>3, CacheKeeps DEF AskRate

LEMMA SwapKeeps ==
  ASSUME ExchangeInv, NEW c \in Swappers, NEW w \in Wallets, NEW from \in Assets,
         NEW to \in Assets, NEW n \in Amounts, Swap(c, w, from, to, n)
  PROVE  ExchangeInv'
<1> DEFINE new == [NoOrder EXCEPT !.step = IF from = IDR THEN "to" ELSE "from",
                       !.wallet = w, !.from = from, !.to = to, !.amount = n]
<1>1. /\ new \in Orders /\ new.from = from /\ new.to = to
      /\ new.step = IF from = IDR THEN "to" ELSE "from"
      /\ new.fromRate = 1 /\ new.toRate = 1
  BY NoOrderFacts DEF Orders, NoOrder
<1>2. order' = [order EXCEPT ![c] = new] /\ from # to /\ UNCHANGED <<ledgerVars, priceVars, used>>
  BY DEF Swap
<1> HIDE DEF new
<1>3. PriceInv'
  BY <1>2 DEF ExchangeInv, PriceInv, EntryFits, CallFits, priceVars
<1>4. Sound(new)
  BY <1>1, <1>2 DEF Sound
<1> QED
  BY <1>1, <1>2, <1>3, <1>4, OneSwap

LEMMA TakeKeeps ==
  ASSUME ExchangeInv, NEW c \in Swappers, TakeRate(c)
  PROVE  ExchangeInv'
<1>1. c \in Callers /\ order[c] \in Orders /\ call[c] \in Calls /\ OrderFits(c)
  BY DEF ExchangeInv, PriceInv, ExchangeAssumption
<1>2. PriceInv'
  BY <1>1, ReturnKeeps DEF TakeRate, ExchangeInv
<1> DEFINE new1 == [order[c] EXCEPT !.step = IF order[c].to = IDR THEN "priced" ELSE "to",
                                    !.fromRate = call[c].rate]
           new2 == [order[c] EXCEPT !.step = "priced", !.toRate = call[c].rate]
<1>3. /\ new1 \in Orders /\ new1.from = order[c].from /\ new1.to = order[c].to
      /\ new1.step = IF order[c].to = IDR THEN "priced" ELSE "to"
      /\ new1.toRate = order[c].toRate
      /\ new2 \in Orders /\ new2.from = order[c].from /\ new2.to = order[c].to
      /\ new2.step = "priced" /\ new2.fromRate = order[c].fromRate
  BY <1>1 DEF Orders, Calls
<1>4. /\ \/ order[c].step = "from" /\ order' = [order EXCEPT ![c] = new1]
         \/ order[c].step = "to" /\ order' = [order EXCEPT ![c] = new2]
      /\ UNCHANGED <<ledgerVars, used>>
  BY <1>1 DEF TakeRate, ExchangeInv
<1> HIDE DEF new1, new2
<1>5. /\ order[c].step = "from" => Sound(new1)
      /\ order[c].step = "to" => Sound(new2)
  BY <1>1, <1>3 DEF OrderFits, Sound
<1> QED
  BY <1>2, <1>3, <1>4, <1>5, OneSwap

LEMMA CheckKeeps ==
  ASSUME ExchangeInv, NEW c \in Swappers, CheckBalance(c)
  PROVE  ExchangeInv'
<1>1. order[c] \in Orders /\ Sound(order[c]) /\ order[c].step = "priced"
  BY DEF ExchangeInv, OrderFits, CheckBalance
<1> DEFINE new == [order[c] EXCEPT !.step = "checked"]
<1>2. new \in Orders /\ Sound(new)
  BY <1>1 DEF Orders, Sound
<1>3. order' = [order EXCEPT ![c] = NoOrder] \/ order' = [order EXCEPT ![c] = new]
  BY DEF CheckBalance
<1>4. UNCHANGED <<ledgerVars, priceVars, used>>
  BY DEF CheckBalance
<1> HIDE DEF new
<1>5. PriceInv'
  BY <1>4 DEF ExchangeInv, PriceInv, EntryFits, CallFits, priceVars
<1> QED
  BY <1>1, <1>2, <1>3, <1>4, <1>5, NoOrderFacts, OneSwap

\* ExecuteSwapTx looks at the balance once more, for what it will debit.
LEMMA ExecuteKeeps ==
  ASSUME ExchangeInv, NEW c \in Swappers, ExecuteSwap(c)
  PROVE  ExchangeInv'
<1>1. order[c] \in Orders /\ order[c].from # order[c].to
  BY DEF ExchangeInv, OrderFits, Sound, ExecuteSwap
<1>2. order' = [order EXCEPT ![c] = NoOrder] /\ UNCHANGED priceVars
  BY DEF ExecuteSwap
<1>3. PriceInv'
  BY <1>2 DEF ExchangeInv, PriceInv, EntryFits, CallFits, priceVars
<1>4. CASE UNCHANGED <<ledgerVars, used>>
  BY <1>2, <1>3, <1>4, NoOrderFacts, OneSwap
<1>5. CASE ~ UNCHANGED <<ledgerVars, used>>
  <2> DEFINE o == order[c]
             n == InRupiah(o.from, o.amount)
             m == Net(o)
  <2>1. PICK id \in TxIds :
          /\ ExecuteSwapTx(id, o.wallet, o.from, o.to, n, m)
          /\ used' = [used EXCEPT ![id] = o]
    BY <1>5 DEF ExecuteSwap
  <2>2. n \in Nat /\ m \in Nat
    BY <1>1, AmountsFit
  <2>3. o \in Orders /\ o.wallet \in Wallets /\ o.from \in Assets /\ o.to \in Assets /\ o.from # o.to
    BY <1>1 DEF Orders
  <2> HIDE DEF o, n, m
  <2> DEFINE row == [Entry("swap", o.wallet, Nil, o.from, n, "success")
                       EXCEPT !.toAsset = o.to, !.toAmount = m]
  <2>4. row \in Row /\ row.type = "swap"
    BY <2>2, <2>3 DEF Entry, Row, Types, Statuses, OrderIDs, Nil
  <2>5. Insert(id, row) /\ balance[<<o.wallet, o.from>>] >= n
        /\ balance' = [balance EXCEPT ![<<o.wallet, o.from>>] = @ - n, ![<<o.wallet, o.to>>] = @ + m]
    BY <2>1 DEF ExecuteSwapTx
  <2>6. txn' \in [TxIds -> Row \cup {NoRow}] /\ RowsFit'
    <3> HIDE DEF row
    <3> QED
      BY <2>4, <2>5, InsertFacts DEF ExchangeInv, LedgerInv
  <2>7. balance' \in [Accounts -> Int] /\ NonNegative'
    <3> DEFINE a == <<o.wallet, o.from>>
               b == <<o.wallet, o.to>>
    <3>1. a # b
      BY <2>3
    <3>2. balance[a] >= n /\ balance' = [balance EXCEPT ![a] = @ - n, ![b] = @ + m]
      BY <2>5
    <3> HIDE DEF a, b
    <3> QED
      BY <2>2, <3>1, <3>2, MoveFacts DEF ExchangeInv, LedgerInv
  <2>8. used' \in [TxIds -> Orders]
    BY <2>1, <2>3 DEF ExchangeInv
  <2>9. order' \in [Swappers -> Orders] /\ \A d \in Swappers : OrderFits(d)'
    BY <1>2, NoOrderFacts DEF ExchangeInv, OrderFits
  <2> QED
    BY <1>3, <2>6, <2>7, <2>8, <2>9 DEF ExchangeInv, LedgerInv, LedgerTypeOK
<1> QED
  BY <1>4, <1>5

LEMMA PriceKeeps ==
  ASSUME ExchangeInv, PriceNext, UNCHANGED <<ledgerVars, order, used>>
  PROVE  ExchangeInv'
<1>1. PriceInv'
  BY BinanceKeeps, IndodaxKeeps, StoreKeeps, TickKeeps DEF ExchangeInv, PriceNext
<1> QED
  BY <1>1, CacheKeeps

\* The callers that only ask.
LEMMA ReaderKeeps ==
  ASSUME ExchangeInv, NEW c \in Callers, (\E p \in Pairs : GetExchangeRate(c, p)) \/ Answer(c)
  PROVE  ExchangeInv'
<1>1. CASE Answer(c)
  <2>1. PriceInv'
    BY <1>1, ReturnKeeps DEF Answer, ExchangeInv
  <2> QED
    BY <1>1, <2>1, CacheKeeps DEF Answer
<1>2. ASSUME NEW p \in Pairs, GetExchangeRate(c, p) PROVE ExchangeInv'
  <2>1. PriceInv'
    BY <1>2, LookKeeps DEF GetExchangeRate, ExchangeInv
  <2> QED
    BY <1>2, <2>1, CacheKeeps DEF GetExchangeRate
<1> QED
  BY <1>1, <1>2

LEMMA ExchangeStarts == Init => ExchangeInv
<1> SUFFICES ASSUME Init PROVE ExchangeInv
  OBVIOUS
<1>1. LedgerInv
  BY LedgerStarts DEF Init
<1>2. PriceInv
  BY IdleFacts DEF Init, PriceInit, PriceInv, EntryFits, CallFits
<1> QED
  BY <1>1, <1>2, NoOrderFacts DEF Init, ExchangeInv, OrderFits

LEMMA ExchangeStepKeeps == ExchangeInv /\ [Next]_exchangeVars => ExchangeInv'
<1> SUFFICES ASSUME ExchangeInv, [Next]_exchangeVars PROVE ExchangeInv'
  OBVIOUS
<1>1. CASE UNCHANGED exchangeVars
  <2>1. UNCHANGED <<ledgerVars, order, used>> /\ UNCHANGED priceVars
    BY <1>1 DEF exchangeVars, ledgerVars, priceVars
  <2>2. PriceInv'
    BY <2>1 DEF ExchangeInv, PriceInv, EntryFits, CallFits, priceVars
  <2> QED
    BY <2>1, <2>2, CacheKeeps
<1>2. CASE PriceNext /\ UNCHANGED <<ledgerVars, order, used>>
  BY <1>2, PriceKeeps
<1>3. CASE \E c \in Callers \ Swappers : (\E p \in Pairs : GetExchangeRate(c, p)) \/ Answer(c)
  BY <1>3, ReaderKeeps
<1>4. CASE \E c \in Swappers : \E w \in Wallets, from, to \in Assets, n \in Amounts :
             Swap(c, w, from, to, n)
  BY <1>4, SwapKeeps
<1>5. CASE \E c \in Swappers : AskRate(c) \/ TakeRate(c) \/ CheckBalance(c) \/ ExecuteSwap(c)
  BY <1>5, AskKeeps, TakeKeeps, CheckKeeps, ExecuteKeeps
<1> QED
  BY <1>1, <1>2, <1>3, <1>4, <1>5 DEF Next

-----------------------------------------------------------------------------
(***************************************************************************)
(* Products.  A step that multiplies is one of its own, so that what       *)
(* follows is linear in the products.                                      *)
(***************************************************************************)
LEMMA TimesKeeps ==
  ASSUME NEW t \in Nat, NEW a \in Int, NEW b \in Int, a <= b
  PROVE  t * a <= t * b
  OBVIOUS

LEMMA TimesCancels ==
  ASSUME NEW t \in Nat \ {0}, NEW a \in Int, NEW b \in Int, t * a < t * b
  PROVE  a < b
<1> SUFFICES ASSUME b <= a PROVE FALSE
  OBVIOUS
<1>1. t * b <= t * a
  BY TimesKeeps
<1>2. t * a \in Int /\ t * b \in Int
  OBVIOUS
<1> QED
  BY <1>1, <1>2

LEMMA QuotientBounds ==
  ASSUME NEW n \in Nat, NEW d \in Nat \ {0}
  PROVE  n \div d \in Nat /\ d * (n \div d) <= n /\ n < d * (n \div d) + d
  OBVIOUS

\* Rounding goes at most half a unit down or up.
LEMMA RoundedFacts ==
  ASSUME NEW n \in Nat
  PROVE  Rounded(n) \in Nat /\ Rounded(n) - n \in -50 .. 50
  BY ExchangeAssumption DEF Rounded

FeeOf(n) == (n * FeeNum) \div FeeDen

LEMMA FeeFacts ==
  ASSUME NEW n \in Nat
  PROVE  /\ FeeOf(n) \in Nat
         /\ FeeDen * FeeOf(n) <= n * FeeNum
         /\ n * FeeNum < FeeDen * FeeOf(n) + FeeDen
<1>1. n * FeeNum \in Nat /\ FeeDen \in Nat \ {0}
  BY DEF ExchangeAssumption
<1> QED
  BY <1>1, QuotientBounds DEF FeeOf

\* The fee is taken from the tokens that are credited, each worth t, and due is
\* reckoned from the debited rupiah d.  If g tokens are worth d but for some
\* rupiah between low and high, then after the fee there is one rupiah, and
\* one token, more to give or take.
LEMMA FeeGap ==
  ASSUME NEW g \in Nat, NEW d \in Nat, NEW t \in Nat \ {0},
         NEW low \in Int, NEW high \in Int, low <= 0, 0 <= high,
         low <= g * t - d, g * t - d <= high
  PROVE  (g - FeeOf(g)) * t - (d - FeeOf(d)) \in (low - 1) .. (high + t)
<1> DEFINE x == g * t
           f == FeeOf(g)
           h == FeeOf(d)
           e == (g - f) * t - (d - h)
           rest == FeeDen - FeeNum
<1>1. /\ FeeNum \in Nat /\ FeeDen \in Nat \ {0} /\ rest \in Nat /\ rest <= FeeDen
  BY DEF ExchangeAssumption
<1>2. /\ f \in Nat /\ FeeDen * f <= g * FeeNum /\ g * FeeNum < FeeDen * f + FeeDen
      /\ h \in Nat /\ FeeDen * h <= d * FeeNum /\ d * FeeNum < FeeDen * h + FeeDen
  BY FeeFacts
<1>3. x \in Nat /\ x - d \in Int /\ low <= x - d /\ x - d <= high
  OBVIOUS
<1> HIDE DEF f, h, rest
<1>4. e \in Int /\ e = (x - d) - t * f + h
  BY <1>2
<1>5. t * (FeeDen * f) <= t * (g * FeeNum) /\ t * (g * FeeNum) <= t * (FeeDen * f + FeeDen)
  <2>1. FeeDen * f \in Int /\ g * FeeNum \in Int /\ FeeDen * f + FeeDen \in Int
    BY <1>1, <1>2
  <2> QED
    BY <1>2, <2>1, TimesKeeps
<1>6. t * (g * FeeNum) = x * FeeNum /\ t * (FeeDen * f) = FeeDen * (t * f)
      /\ t * (FeeDen * f + FeeDen) = FeeDen * (t * f) + FeeDen * t
  BY <1>1, <1>2
<1>7. rest * low <= rest * (x - d) /\ rest * (x - d) <= rest * high
  BY <1>1, <1>3, TimesKeeps
<1>8. FeeDen * low <= rest * low /\ rest * high <= FeeDen * high
  <2>1. high * rest <= high * FeeDen /\ (- low) * rest <= (- low) * FeeDen
    BY <1>1, TimesKeeps
  <2> QED
    BY <1>1, <2>1
<1>9. rest * (x - d) = FeeDen * (x - d) - (x * FeeNum - d * FeeNum)
  BY <1>1, <1>3 DEF rest
<1>10. FeeDen * e = FeeDen * (x - d) - FeeDen * (t * f) + FeeDen * h
  BY <1>1, <1>2, <1>3, <1>4
<1> HIDE DEF e, x
<1>11. /\ FeeDen * (low - 2) < FeeDen * e
       /\ FeeDen * e < FeeDen * (high + t + 1)
  <2>1. /\ FeeDen * (low - 2) = FeeDen * low - 2 * FeeDen
        /\ FeeDen * (high + t + 1) = FeeDen * high + FeeDen * t + FeeDen
    BY <1>1
  <2>2. /\ FeeDen * low \in Int /\ FeeDen * high \in Int /\ FeeDen * t \in Int
        /\ FeeDen * (t * f) \in Int /\ FeeDen * (x - d) \in Int /\ FeeDen * e \in Int
        /\ FeeDen * h \in Int /\ x * FeeNum \in Int /\ d * FeeNum \in Int
        /\ rest * low \in Int /\ rest * high \in Int /\ rest * (x - d) \in Int
    BY <1>1, <1>2, <1>3, <1>4
  <2>3. FeeDen * (t * f) <= x * FeeNum /\ x * FeeNum <= FeeDen * (t * f) + FeeDen * t
    BY <1>5, <1>6
  <2>4. FeeDen * h <= d * FeeNum /\ d * FeeNum < FeeDen * h + FeeDen
    BY <1>2
  <2> DEFINE tf == FeeDen * (t * f)
             xn == x * FeeNum
             ft == FeeDen * t
             fh == FeeDen * h
             dn == d * FeeNum
             gap == rest * (x - d)
             all == FeeDen * (x - d)
             fe == FeeDen * e
             least == FeeDen * low
             most == FeeDen * high
  <2>5. /\ tf <= xn /\ xn <= tf + ft /\ fh <= dn /\ dn < fh + FeeDen
        /\ gap = all - (xn - dn) /\ fe = all - tf + fh
        /\ least <= gap /\ gap <= most
    <3>1. /\ rest * low \in Int /\ rest * high \in Int /\ gap \in Int /\ least \in Int /\ most \in Int
      BY <2>2
    <3>2. least <= gap /\ gap <= most
      BY <1>7, <1>8, <3>1
    <3> QED
      BY <1>9, <1>10, <2>3, <2>4, <3>2
  <2>6. /\ least \in Int /\ most \in Int /\ ft \in Int /\ tf \in Int /\ all \in Int /\ fe \in Int
        /\ fh \in Int /\ xn \in Int /\ dn \in Int /\ gap \in Int
    BY <2>2
  <2>7. FeeDen * (low - 2) = least - 2 * FeeDen /\ FeeDen * (high + t + 1) = most + ft + FeeDen
    BY <2>1
  <2> HIDE DEF tf, xn, ft, fh, dn, gap, all, fe, least, most
  <2>8. least - 2 * FeeDen < fe /\ fe < most + ft + FeeDen
    BY <1>1, <2>5, <2>6
  <2> QED
    BY <2>7, <2>8 DEF fe
<1>12. low - 2 < e /\ e < high + t + 1
  <2>1. low - 2 \in Int /\ high + t + 1 \in Int
    OBVIOUS
  <2> QED
    BY <1>1, <1>4, <1>11, <2>1, TimesCancels
<1> QED
  BY <1>4, <1>12 DEF e, f, h

\* What an order is made of.
LEMMA OrderFacts ==
  ASSUME NEW o \in Orders
  PROVE  o.amount \in Nat /\ o.fromRate \in Nat \ {0} /\ o.toRate \in Nat \ {0}
<1>1. o.amount \in Amounts \cup {0} /\ o.fromRate \in Rates /\ o.toRate \in Rates
  BY DEF Orders
<1>2. o.amount \in Nat
  <2>1. \A n \in Amounts \cup {0} : n \in Nat
    BY DEF LedgerAssumption
  <2> QED
    BY <1>1, <2>1
<1>3. \A r \in Rates : r \in Nat \ {0}
  BY RatesArePositive
<1>4. o.fromRate \in Nat \ {0} /\ o.toRate \in Nat \ {0}
  BY <1>1, <1>3
<1> QED
  BY <1>2, <1>4

Due(n) == n - FeeOf(n)

\* A swap that is executed as it was ordered is fair: the rupiah leg is rounded
\* on the side that has one, the token leg by the division.
LEMMA OrderIsFair ==
  ASSUME NEW o \in Orders, Sound(o), o.from # o.to
  PROVE  Net(o) * o.toRate - Due(InRupiah(o.from, o.amount) * o.fromRate)
           \in - (50 + 2 * o.toRate) .. (50 + 2 * o.toRate)
<1> DEFINE a == o.amount
           s == o.fromRate
           t == o.toRate
           n == InRupiah(o.from, a)
           d == n * s
           g == Gross(o)
<1>1. a \in Nat /\ s \in Nat \ {0} /\ t \in Nat \ {0}
  BY OrderFacts
<1>2. n \in Nat /\ n - a \in -50 .. 50 /\ (o.from # IDR => n = a)
  BY <1>1, RoundedFacts DEF InRupiah
<1>3. (o.from = IDR => s = 1) /\ (o.to = IDR => t = 1)
  BY DEF Sound
<1>4. a * s \in Nat /\ g = (a * s) \div t
  BY <1>1 DEF Gross
<1>5. Net(o) = InRupiah(o.to, g - FeeOf(g))
  BY DEF Net, FeeOf
<1> HIDE DEF a, s, t, n, g
<1>6. g \in Nat /\ t * g <= a * s /\ a * s < t * g + t
  BY <1>1, <1>4, QuotientBounds
<1>7. t * g = g * t /\ g * t \in Nat
  BY <1>1, <1>6
<1>8. d \in Nat /\ d - a * s \in -50 .. 50 /\ (o.from # IDR => d = a * s)
  <2>1. CASE o.from = IDR
    BY <1>1, <1>2, <1>3, <2>1
  <2>2. CASE o.from # IDR
    <3>1. d = a * s
      BY <1>2, <2>2
    <3> QED
      BY <1>4, <2>2, <3>1
  <2> QED
    BY <2>1, <2>2
<1> HIDE DEF d
<1>9. CASE o.to = IDR
  <2>1. t = 1 /\ d = a * s /\ g = d
    <3>1. t = 1 /\ d = a * s
      BY <1>3, <1>8, <1>9
    <3>2. g <= d /\ d < g + 1
      BY <1>6, <3>1
    <3> QED
      BY <1>6, <1>8, <3>1, <3>2
  <2>2. (g - FeeOf(g)) * t - (d - FeeOf(d)) \in (0 - 1) .. (0 + t)
    <3> DEFINE no == 0
    <3>1. no \in Int /\ no <= 0 /\ 0 <= no /\ no <= g * t - d /\ g * t - d <= no
      BY <1>8, <2>1
    <3> HIDE DEF no
    <3>2. (g - FeeOf(g)) * t - (d - FeeOf(d)) \in (no - 1) .. (no + t)
      BY <1>1, <1>6, <1>8, <3>1, FeeGap
    <3> QED
      BY <3>2 DEF no
  <2>3. (g - FeeOf(g)) - (d - FeeOf(d)) \in -1 .. 1
    <3>1. FeeOf(g) \in Int
      BY <1>6, FeeFacts
    <3> QED
      BY <1>6, <2>1, <2>2, <3>1
  <2>4. g - FeeOf(g) \in Nat
    <3>1. FeeNum \in Nat /\ FeeDen \in Nat \ {0} /\ FeeNum <= FeeDen
      BY DEF ExchangeAssumption
    <3>2. g * FeeNum \in Nat /\ g * FeeNum <= g * FeeDen
      BY <1>6, <3>1
    <3>3. FeeOf(g) \in Nat /\ FeeOf(g) <= g
      BY <1>6, <3>1, <3>2, QuotientFacts DEF FeeOf
    <3> QED
      BY <1>6, <3>3
  <2>5. Net(o) \in Nat /\ Net(o) - (g - FeeOf(g)) \in -50 .. 50
    BY <1>5, <1>9, <2>4, RoundedFacts DEF InRupiah
  <2>6. d - FeeOf(d) \in Int
    BY <1>8, FeeFacts
  <2>7. Net(o) * 1 - (d - FeeOf(d)) \in - (50 + 2) .. (50 + 2)
    BY <2>3, <2>4, <2>5, <2>6
  <2> QED
    BY <2>1, <2>7 DEF Due, d, n, s, t, a
<1>10. CASE o.to # IDR
  <2> DEFINE low == - (50 + t)
             high == 50
  <2>1. /\ low \in Int /\ low <= 0 /\ low <= g * t - d
        /\ high \in Int /\ 0 <= high /\ g * t - d <= high
    BY <1>1, <1>4, <1>6, <1>7, <1>8
  <2>2. (g - FeeOf(g)) * t - (d - FeeOf(d)) \in (- (50 + t) - 1) .. (50 + t)
    <3> HIDE DEF low, high
    <3>1. (g - FeeOf(g)) * t - (d - FeeOf(d)) \in (low - 1) .. (high + t)
      BY <1>1, <1>6, <1>8, <2>1, FeeGap
    <3> QED
      BY <3>1 DEF low, high
  <2>3. Net(o) = g - FeeOf(g)
    BY <1>5, <1>10 DEF InRupiah
  <2>4. Net(o) * t - (d - FeeOf(d)) \in - (50 + 2 * t) .. (50 + 2 * t)
    <3> DEFINE e == Net(o) * t - (d - FeeOf(d))
    <3>1. e \in (- (50 + t) - 1) .. (50 + t)
      BY <2>2, <2>3
    <3> HIDE DEF e
    <3>2. e \in - (50 + 2 * t) .. (50 + 2 * t)
      BY <1>1, <3>1
    <3> QED
      BY <3>2 DEF e
  <2> QED
    BY <2>4 DEF Due, d, n, s, t, a
<1> QED
  BY <1>9, <1>10

\* The history of swaps tells the truth about the rates they were made at.
UsedFits(id) ==
  IsType(id, "swap") =>
    /\ Sound(used[id]) /\ used[id].from # used[id].to
    /\ txn[id].amount = InRupiah(used[id].from, used[id].amount)
    /\ txn[id].toAmount = Net(used[id])

UsedInv == ExchangeInv /\ \A id \in TxIds : UsedFits(id)

LEMMA UsedStep ==
  ASSUME UsedInv, [Next]_exchangeVars
  PROVE  UsedInv'
<1>1. ExchangeInv'
  BY ExchangeStepKeeps DEF UsedInv
<1>2. CASE UNCHANGED <<ledgerVars, used>>
  BY <1>1, <1>2 DEF UsedInv, UsedFits, IsType, Exists, ledgerVars
<1>3. ASSUME NEW c \in Swappers, ExecuteSwap(c), ~ UNCHANGED <<ledgerVars, used>>
      PROVE  UsedInv'
  <2> DEFINE o == order[c]
             n == InRupiah(o.from, o.amount)
             m == Net(o)
             row == [Entry("swap", o.wallet, Nil, o.from, n, "success")
                       EXCEPT !.toAsset = o.to, !.toAmount = m]
  <2>1. PICK id \in TxIds :
          /\ ExecuteSwapTx(id, o.wallet, o.from, o.to, n, m)
          /\ used' = [used EXCEPT ![id] = o]
    BY <1>3 DEF ExecuteSwap
  <2>2. o \in Orders /\ Sound(o) /\ o.from # o.to
    BY <1>3 DEF UsedInv, ExchangeInv, OrderFits, Sound, ExecuteSwap
  <2>3. row.amount = n /\ row.toAmount = m
    BY DEF Entry
  <2>4. Insert(id, row)
    BY <2>1 DEF ExecuteSwapTx
  <2> HIDE DEF row, n, m
  <2>5. /\ txn'[id] = row /\ \A k \in TxIds \ {id} : txn'[k] = txn[k]
        /\ used'[id] = o /\ \A k \in TxIds \ {id} : used'[k] = used[k]
    BY <2>1, <2>4 DEF Insert, UsedInv, ExchangeInv, LedgerInv, LedgerTypeOK
  <2>6. ASSUME NEW k \in TxIds PROVE UsedFits(k)'
    <3>1. CASE k = id
      <4>1. txn'[k].amount = n /\ txn'[k].toAmount = m /\ used'[k] = o
        BY <2>3, <2>5, <3>1
      <4>2. n = InRupiah(used'[k].from, used'[k].amount) /\ m = Net(used'[k])
        BY <4>1 DEF n, m
      <4>3. Sound(used'[k]) /\ used'[k].from # used'[k].to
        BY <2>2, <4>1
      <4> QED
        BY <4>1, <4>2, <4>3 DEF UsedFits, Sound, InRupiah, Net, Gross
    <3>2. CASE k # id
      BY <2>5, <3>2 DEF UsedInv, UsedFits, IsType, Exists
    <3> QED
      BY <3>1, <3>2
  <2> QED
    BY <1>1, <2>6 DEF UsedInv
<1>4. UNCHANGED <<ledgerVars, used>> \/ \E c \in Swappers : ExecuteSwap(c)
  BY DEF Next, Swap, AskRate, TakeRate, CheckBalance, GetExchangeRate, Answer, exchangeVars, ledgerVars
<1> QED
  BY <1>2, <1>3, <1>4

\* A swap that is executed opens a row for what it debits and what it credits,
\* and nothing else of a swap reaches the tables.
LEMMA SwapOpens ==
  ASSUME ExchangeInv, [Next]_exchangeVars
  PROVE  [OrderlyNext]_ledgerVars
<1>1. ASSUME NEW c \in Swappers, ExecuteSwap(c), ~ UNCHANGED <<ledgerVars, used>>
      PROVE  OrderlyNext
  <2> DEFINE o == order[c]
             n == InRupiah(o.from, o.amount)
             m == Net(o)
  <2>1. PICK id \in TxIds : ExecuteSwapTx(id, o.wallet, o.from, o.to, n, m)
    BY <1>1 DEF ExecuteSwap
  <2>2. o \in Orders /\ o.from # o.to
    BY <1>1 DEF ExchangeInv, OrderFits, Sound, ExecuteSwap
  <2>3. o.wallet \in Wallets /\ o.from \in Assets /\ o.to \in Assets \ {o.from}
    BY <2>2 DEF Orders
  <2>4. n \in Nat /\ m \in Nat
    BY <2>2, AmountsFit
  <2> HIDE DEF o, n, m
  <2> QED
    BY <2>1, <2>3, <2>4 DEF OrderlyNext, Opened
<1>2. UNCHANGED <<ledgerVars, used>> \/ \E c \in Swappers : ExecuteSwap(c)
  BY DEF Next, Swap, AskRate, TakeRate, CheckBalance, GetExchangeRate, Answer, exchangeVars, ledgerVars
<1> QED
  BY <1>1, <1>2

-----------------------------------------------------------------------------
(***************************************************************************)
(* Theorems.                                                               *)
(***************************************************************************)
\* The tables stay sound under swaps, every swap in progress waits for rates of
\* two assets, and entry and waiting time bound the age of what is handed out.
THEOREM ExchangeSafe == Spec => []ExchangeInv
  BY ExchangeStarts, ExchangeStepKeeps, PTL DEF Spec

\* The tables, the cache and every caller hold values of their types.
THEOREM ExchangeTypes == Spec => []TypeOK
<1>1. ExchangeInv => TypeOK
  BY DEF ExchangeInv, LedgerInv, PriceInv, TypeOK, PriceTypeOK, Calls, Orders
<1> QED
  BY <1>1, ExchangeSafe, PTL

\* Swap looks at the balance before it rounds, and without a lock; ExecuteSwapTx
\* looks again, so no swap overdraws an account.
THEOREM ExchangeNonNegative == Spec => []NonNegative
<1>1. ExchangeInv => NonNegative
  BY DEF ExchangeInv, LedgerInv
<1> QED
  BY <1>1, ExchangeSafe, PTL

\* However callers overwrite each other's entries, no rate that GetRate returns
\* was asked for longer ago than cacheTTL and two timeouts of the client.
THEOREM ExchangeRateIsRecent == Spec => []RateIsRecent
<1>1. ExchangeInv => RateIsRecent
  BY DEF ExchangeInv, PriceInv, CallFits, RateIsRecent
<1> QED
  BY <1>1, ExchangeSafe, PTL

\* Every swap of the history is fair at the rates it was given: it credits what
\* it debits less the fee, up to the half rupiah that rounding gives or takes and
\* twice the last digit of the division, whatever the rates, the amounts and the
\* fee are and whoever else swaps or fetches rates meanwhile.
THEOREM ExchangeSwapIsFair == Spec => []SwapIsFair
<1>1. Init => UsedInv
  BY ExchangeStarts DEF UsedInv, UsedFits, Init, LedgerInit, IsType, Exists
<1>2. UsedInv /\ [Next]_exchangeVars => UsedInv'
  BY UsedStep
<1>3. UsedInv => SwapIsFair
  <2> SUFFICES ASSUME UsedInv, NEW id \in TxIds, IsType(id, "swap")
               PROVE  (txn[id].toAmount * used[id].toRate)
                        - Due(txn[id].amount * used[id].fromRate)
                          \in - (50 + 2 * used[id].toRate) .. (50 + 2 * used[id].toRate)
    BY ExchangeAssumption DEF SwapIsFair, Due, FeeOf
  <2>1. used[id] \in Orders /\ UsedFits(id)
    BY DEF UsedInv, ExchangeInv
  <2> QED
    BY <2>1, OrderIsFair DEF UsedFits
<1> QED
  BY <1>1, <1>2, <1>3, PTL DEF Spec

\* Whatever the rates, the fee and the rounding make of an amount, ExecuteSwapTx
\* is called as the orderly ledger allows.
THEOREM ExchangeOrderly == Spec => OrderlySpec
<1>1. Init => LedgerInit /\ ExchangeInv
  BY ExchangeStarts DEF Init
<1>2. ExchangeInv /\ [Next]_exchangeVars => [OrderlyNext]_ledgerVars
  BY SwapOpens
<1> QED
  BY <1>1, <1>2, ExchangeSafe, PTL DEF Spec, OrderlySpec

\* Every balance is its opening and the two sides of the swaps in the history.
THEOREM ExchangeJournal == Spec => []Journal
  BY ExchangeOrderly, OrderlyBooksBalance, PTL
=============================================================================
