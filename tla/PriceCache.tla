----------------------------- MODULE PriceCache -----------------------------
(***************************************************************************)
(* price.PriceCache: the rates of USDT and USDC in rupiah, kept for        *)
(* cacheTTL after they were fetched.  Callers that find no fresh entry ask *)
(* the exchanges without holding a lock, each for itself, and whoever      *)
(* comes last overwrites the entry.                                        *)
(*                                                                         *)
(* Time passes in ticks.  Instead of a clock, every entry and every caller *)
(* carries how long ago things happened.  Taking the lock and writing the  *)
(* entry take no time.                                                     *)
(***************************************************************************)
EXTENDS Integers

CONSTANTS
  Callers,     \* goroutines that call GetRate
  USDT, USDC,  \* the pairs USDT_IDR and USDC_IDR
  TTL,         \* cacheTTL, in ticks
  Timeout,     \* httpClient.Timeout, in ticks
  Prices,      \* what Indodax may answer: rupiah for one USDT
  Pegs,        \* what Binance may answer: USDT for one USDC
  Configured,  \* usdIDRRate
  NoEntry      \* the pair is not in the cache

Pairs == {USDT, USDC}

ASSUME PriceAssumption ==
  /\ USDT # USDC
  /\ TTL \in Nat \ {0} /\ Timeout \in Nat
  /\ Prices \subseteq Nat \ {0} /\ Pegs \subseteq Nat \ {0}
  /\ Configured \in Nat \ {0}

\* An answer can be this old when it is given: the entry was about to expire,
\* and fetching it had taken two requests.
MaxAge == TTL + 2 * Timeout

\* age is the time since FetchedAt, seen the time since the first request for
\* this rate was sent.
Rates == {1} \cup {p * q : p \in Pegs \cup {1}, q \in Prices \cup {Configured}}
Ages == 0 .. MaxAge
CachedRate == [rate : Rates, age : 0 .. TTL, seen : Ages]

VARIABLES
  cache,   \* cache
  call     \* where every caller is in GetRate

priceVars == <<cache, call>>

Idle == [step |-> "idle", pair |-> USDT, waited |-> 0, peg |-> 1, rate |-> 1, seen |-> 0]

Asking(c) == call[c].step \in {"binance", "indodax"}

-----------------------------------------------------------------------------
(***************************************************************************)
(* GetRate and fetchRate.                                                  *)
(***************************************************************************)
\* Mutant: the entry is never looked at again.
NeverExpires(p) == cache[p] # NoEntry

Fresh(p) == cache[p] # NoEntry /\ cache[p].age < TTL

\* The look into the cache.
GetRate(c, p) ==
  /\ call[c].step = "idle"
  /\ call' = [call EXCEPT ![c] =
       IF Fresh(p)
         THEN [Idle EXCEPT !.step = "returned", !.pair = p, !.rate = cache[p].rate,
                           !.seen = cache[p].seen]
         ELSE [Idle EXCEPT !.step = IF p = USDC THEN "binance" ELSE "indodax", !.pair = p]]
  /\ UNCHANGED cache

\* fetchBinancePrice; one to one if it fails.
FetchBinance(c) ==
  /\ call[c].step = "binance"
  /\ \E peg \in Pegs \cup {1} :
       call' = [call EXCEPT ![c].step = "indodax", ![c].peg = peg, ![c].waited = 0]
  /\ UNCHANGED cache

\* Mutant: the zero that comes with an error is taken for the price.
FetchIndodaxUnchecked(c) ==
  /\ call[c].step = "indodax"
  /\ \E price \in Prices \cup {0} :
       call' = [call EXCEPT ![c].step = "storing", ![c].rate = call[c].peg * price]
  /\ UNCHANGED cache

\* fetchIndodaxPrice, or usdIDRRate if it fails; then time.Now().  So fetchRate
\* never fails for the two pairs, and GetRate never falls back on an old entry.
FetchIndodax(c) ==
  /\ call[c].step = "indodax"
  /\ \E price \in Prices \cup {Configured} :
       call' = [call EXCEPT ![c].step = "storing", ![c].rate = call[c].peg * price]
  /\ UNCHANGED cache

\* The entry is overwritten, whatever is there by now.
Store(c) ==
  /\ call[c].step = "storing"
  /\ LET got == call[c] IN
       cache' = [cache EXCEPT ![got.pair] = [rate |-> got.rate, age |-> 0, seen |-> got.seen]]
  /\ call' = [call EXCEPT ![c].step = "returned"]

-----------------------------------------------------------------------------
Later(n) == IF n < MaxAge THEN n + 1 ELSE n

\* The client gives up on a request after Timeout.  The age of an entry matters
\* no more once it has expired.
Tick ==
  /\ \A c \in Callers :
       /\ Asking(c) => call[c].waited < Timeout
       /\ call[c].step \notin {"storing", "returned"}
  /\ cache' = [p \in Pairs |->
       IF cache[p] = NoEntry THEN NoEntry
       ELSE [cache[p] EXCEPT !.age = IF @ < TTL THEN @ + 1 ELSE @, !.seen = Later(@)]]
  /\ call' = [c \in Callers |->
       IF Asking(c) THEN [call[c] EXCEPT !.waited = @ + 1, !.seen = Later(@)] ELSE call[c]]

PriceInit ==
  /\ cache = [p \in Pairs |-> NoEntry]
  /\ call = [c \in Callers |-> Idle]

PriceNext ==
  \/ \E c \in Callers : FetchBinance(c) \/ FetchIndodax(c) \/ Store(c)
  \/ Tick

-----------------------------------------------------------------------------
PriceTypeOK ==
  /\ cache \in [Pairs -> CachedRate \cup {NoEntry}]
  /\ call \in [Callers -> [step : {"idle", "binance", "indodax", "storing", "returned"},
                          pair : Pairs, waited : 0 .. Timeout, peg : Pegs \cup {1},
                          rate : Rates, seen : Ages]]

\* No caller is given a rate that was asked for longer ago than an entry lives
\* and the two requests behind it may take, whoever fetched it.
RateIsRecent ==
  \A c \in Callers : call[c].step = "returned" => call[c].seen < MaxAge
=============================================================================
