----------------------------- MODULE ApiProofs -----------------------------
(***************************************************************************)
(* Proofs about the limiter, the history and the two routes of Api that    *)
(* meet in one ledger, for any number of addresses, rows and queries, and  *)
(* any size of the buckets and the pages.                                  *)
(*                                                                         *)
(* The limiter.  The integer bucket of the program lags behind the exact   *)
(* one: what the program could still hand out, the tokens and the time     *)
(* that has not been turned into tokens yet, is never more than the exact  *)
(* bucket holds (Lags).  And the time since lastSeen is never less than    *)
(* the time since a request passed (Waits), because only a refill moves    *)
(* lastSeen, and after a refill there is a token.                          *)
(*                                                                         *)
(* The history.  A row that comes in can only push the others further down *)
(* the list (RankRises): what the reader has still to see is below the     *)
(* page that it asks for next (StillBelow).                                *)
(***************************************************************************)
EXTENDS Api, LedgerProofs, SequenceTheorems

Owed(e) == Smaller(Full, e.tokens * Duration + e.idle)

Lags(ip) == exact[ip] >= IF clients[ip] = NoEntry THEN Full ELSE Owed(clients[ip])

Waits(ip) == clients[ip] = NoEntry \/ clients[ip].idle >= since[ip]

LimiterInv == LimiterTypeOK /\ \A ip \in Clients : Lags(ip) /\ Waits(ip)

Slot == [tokens : 0 .. MaxTokens - 1, idle : 0 .. IdleLimit + 1]

-----------------------------------------------------------------------------
(***************************************************************************)
(* The limiter: arithmetic.                                                *)
(***************************************************************************)
\* A Duration is a token: products of the two behave.
LEMMA Products ==
  ASSUME NEW d \in Nat, NEW m \in Nat, NEW n \in Nat, m <= n
  PROVE  /\ m * d \in Nat
         /\ m * d <= n * d
         /\ (m - 1) * d = m * d - d
         /\ (m + n) * d = m * d + n * d
  OBVIOUS

\* Turning time into tokens drops less than a token.
LEMMA Quotient ==
  ASSUME NEW i \in Nat, NEW d \in Nat \ {0}
  PROVE  /\ i \div d \in Nat
         /\ (i \div d) * d <= i
         /\ i \div d = 0 => i < d
         /\ i >= d => i \div d > 0
  OBVIOUS

-----------------------------------------------------------------------------
\* What a request finds: a bucket that fits into a full one and holds no more
\* than the exact one; and if it has no token, nothing has been refilled.
LEMMA BucketFacts ==
  ASSUME LimiterInv, NEW ip \in Clients
  PROVE  /\ Bucket(ip) \in [tokens : 0 .. MaxTokens, idle : 0 .. IdleLimit + 1]
         /\ Bucket(ip).tokens * Duration + Bucket(ip).idle <= exact[ip]
         /\ Bucket(ip).tokens * Duration + Bucket(ip).idle <= Full
         /\ CanPass(ip) \/ (clients[ip] # NoEntry /\ Bucket(ip) = clients[ip])
<1> USE LimiterAssumption DEF LimiterAssumption
<1> DEFINE e == clients[ip]
           b == Bucket(ip)
<1>1. exact[ip] \in Int /\ e \in Slot \cup {NoEntry}
  BY DEF LimiterInv, LimiterTypeOK, Slot
<1>2. Full \in Nat /\ Full = MaxTokens * Duration
  BY Products DEF Full
<1>3. CASE e = NoEntry
  <2>1. b = [tokens |-> MaxTokens, idle |-> 0] /\ exact[ip] >= Full
    BY <1>3 DEF Bucket, LimiterInv, Lags
  <2> QED
    BY <1>1, <1>2, <1>3, <2>1 DEF CanPass
<1>4. CASE e # NoEntry /\ Refills(ip) = 0
  <2>1. e \in Slot /\ b = e
    BY <1>1, <1>4 DEF Bucket, Refilled
  <2>2. e.idle < Duration
    BY <1>4, <2>1, Quotient DEF Refills, Slot
  <2>3. (e.tokens + 1) * Duration <= Full /\ (e.tokens + 1) * Duration = e.tokens * Duration + Duration
        /\ e.tokens * Duration \in Nat
    BY <1>2, <2>1 DEF Slot
  <2>4. exact[ip] >= Owed(e)
    BY <1>4 DEF LimiterInv, Lags
  <2>5. e.tokens * Duration + e.idle <= Full
    BY <1>2, <2>1, <2>2, <2>3 DEF Slot
  <2>6. e.tokens * Duration + e.idle <= exact[ip]
    BY <1>1, <1>2, <2>1, <2>3, <2>4, <2>5 DEF Owed, Smaller, Slot
  <2> QED
    BY <1>4, <2>1, <2>5, <2>6 DEF Slot
<1>5. CASE e # NoEntry /\ Refills(ip) # 0
  <2> DEFINE q == Refills(ip)
  <2>1. /\ e \in Slot
        /\ b = [tokens |-> Smaller(MaxTokens, e.tokens + q), idle |-> 0]
    BY <1>1, <1>5 DEF Bucket, Refilled
  <2>2. q \in Nat \ {0} /\ q * Duration <= e.idle
    <3>1. e.idle \in Nat /\ q = e.idle \div Duration
      BY <2>1 DEF Refills, Slot
    <3>2. e.idle \div Duration \in Nat /\ (e.idle \div Duration) * Duration <= e.idle
      BY <3>1, Quotient
    <3> QED
      BY <1>5, <3>1, <3>2
  <2> HIDE DEF q
  <2>3. b.tokens \in 1 .. MaxTokens /\ b.tokens <= e.tokens + q /\ b.idle = 0
    BY <2>1, <2>2 DEF Smaller, Slot
  <2>4. b.tokens * Duration <= Full
    BY <1>2, <2>3
  <2>5. b.tokens * Duration <= (e.tokens + q) * Duration
        /\ (e.tokens + q) * Duration = e.tokens * Duration + q * Duration
        /\ e.tokens * Duration \in Nat /\ q * Duration \in Nat
    BY <2>1, <2>2, <2>3 DEF Slot
  <2>6. exact[ip] >= Owed(e)
    BY <1>5 DEF LimiterInv, Lags
  <2>7. b.tokens * Duration <= exact[ip]
    BY <1>1, <1>2, <2>1, <2>2, <2>3, <2>4, <2>5, <2>6 DEF Owed, Smaller, Slot
  <2> QED
    BY <1>1, <1>2, <2>1, <2>3, <2>4, <2>7 DEF CanPass
<1> QED
  BY <1>3, <1>4, <1>5

-----------------------------------------------------------------------------
(***************************************************************************)
(* The invariant, action by action.  LimiterStep splits it by address: an  *)
(* action either leaves an address alone or does to it what the lemmas     *)
(* before say.                                                             *)
(***************************************************************************)
\* What has to be shown of an address after a step.
AddressKept(ip) ==
  /\ clients'[ip] \in Slot \cup {NoEntry}
  /\ exact'[ip] \in Int
  /\ since'[ip] \in 0 .. Duration
  /\ Lags(ip)'
  /\ Waits(ip)'

\* An address that a step does not touch.
LEMMA Untouched ==
  ASSUME LimiterInv, NEW ip \in Clients,
         clients'[ip] = clients[ip], exact'[ip] = exact[ip], since'[ip] = since[ip]
  PROVE  AddressKept(ip)
  BY DEF AddressKept, LimiterInv, LimiterTypeOK, Slot, Lags, Waits, Owed

LEMMA PassKeeps ==
  ASSUME LimiterInv, NEW ip \in Clients, Pass(ip)
  PROVE  AddressKept(ip)
<1> USE LimiterAssumption DEF LimiterAssumption
<1> DEFINE b == Bucket(ip)
           d == [tokens |-> b.tokens - 1, idle |-> b.idle]
<1>1. /\ exact[ip] \in Int
      /\ clients'[ip] = d /\ exact'[ip] = exact[ip] - Duration /\ since'[ip] = 0
  BY DEF Pass, LimiterInv, LimiterTypeOK
<1>2. /\ b \in [tokens : 0 .. MaxTokens, idle : 0 .. IdleLimit + 1] /\ b.tokens > 0
      /\ b.tokens * Duration + b.idle <= exact[ip]
  BY BucketFacts DEF Pass, CanPass
<1> HIDE DEF b
<1>3. d \in Slot /\ d # NoEntry
  BY <1>2 DEF Slot
<1>4. d.tokens * Duration = b.tokens * Duration - Duration
  BY <1>2
<1>5. b.tokens * Duration \in Nat /\ Full \in Nat
  BY <1>2 DEF Full
<1>6. exact'[ip] >= Owed(d)
  BY <1>1, <1>2, <1>4, <1>5 DEF Owed, Smaller
<1> HIDE DEF d
<1>7. Lags(ip)'
  BY <1>1, <1>3, <1>6 DEF Lags, Owed
<1>8. Waits(ip)'
  BY <1>1, <1>3 DEF Waits, Slot
<1> QED
  BY <1>1, <1>3, <1>7, <1>8 DEF AddressKept

\* A refusal leaves the entry as it was.
LEMMA TooManyKeeps ==
  ASSUME LimiterInv, NEW ip \in Clients, TooMany(ip)
  PROVE  AddressKept(ip)
<1>1. clients'[ip] = clients[ip]
  BY BucketFacts DEF TooMany, LimiterInv, LimiterTypeOK
<1> QED
  BY <1>1, Untouched DEF TooMany

\* What is forgotten had a full bucket.
LEMMA CleanUpKeeps ==
  ASSUME LimiterInv, NEW ip \in Clients, CleanUp
  PROVE  AddressKept(ip)
<1> USE LimiterAssumption DEF LimiterAssumption
<1>1. CASE clients'[ip] = clients[ip]
  BY <1>1, Untouched DEF CleanUp
<1>2. CASE clients'[ip] # clients[ip]
  <2>1. /\ clients[ip] \in Slot /\ clients[ip].idle > IdleLimit /\ clients'[ip] = NoEntry
        /\ exact'[ip] = exact[ip] /\ exact[ip] \in Int
        /\ since'[ip] = since[ip] /\ since[ip] \in 0 .. Duration
    BY <1>2 DEF CleanUp, LimiterInv, LimiterTypeOK, Slot
  <2>2. clients[ip] # NoEntry
    BY <2>1 DEF Slot
  <2>3. clients[ip].tokens * Duration \in Nat /\ Full \in Nat
    BY <2>1 DEF Slot, Full
  <2>4. exact[ip] >= Full
    BY <2>1, <2>2, <2>3 DEF LimiterInv, Lags, Owed, Smaller, Slot
  <2> QED
    BY <2>1, <2>4 DEF AddressKept, Lags, Waits, Full
<1> QED
  BY <1>1, <1>2

\* A tick adds one to what is owed, and one to the exact bucket unless it is full.
LEMMA TickKeeps ==
  ASSUME LimiterInv, NEW ip \in Clients, LimiterTick
  PROVE  AddressKept(ip)
<1> USE LimiterAssumption DEF LimiterAssumption
<1>1. /\ exact'[ip] = Smaller(Full, exact[ip] + 1) /\ exact[ip] \in Int
      /\ since'[ip] = Smaller(Duration, since[ip] + 1) /\ since[ip] \in 0 .. Duration
      /\ clients[ip] \in Slot \cup {NoEntry}
  BY DEF LimiterTick, LimiterInv, LimiterTypeOK, Slot
<1>2. Full \in Nat /\ Duration <= Full
  BY Products DEF Full
<1>3. since'[ip] \in 0 .. Duration /\ exact'[ip] \in Int
  BY <1>1, <1>2 DEF Smaller
<1>4. CASE clients[ip] = NoEntry
  <2>1. clients'[ip] = NoEntry /\ exact[ip] >= Full
    BY <1>4 DEF LimiterTick, LimiterInv, Lags
  <2> QED
    BY <1>1, <1>2, <1>3, <2>1 DEF AddressKept, Lags, Waits, Smaller, Full
<1>5. CASE clients[ip] # NoEntry
  <2> DEFINE e == clients[ip]
             f == [tokens |-> e.tokens, idle |-> Smaller(IdleLimit + 1, e.idle + 1)]
  <2>1. clients'[ip] = f
    BY <1>5 DEF LimiterTick
  <2>2. e \in Slot /\ exact[ip] >= Owed(e) /\ e.idle >= since[ip]
    BY <1>1, <1>5 DEF LimiterInv, Lags, Waits
  <2>3. f \in Slot /\ f # NoEntry /\ f.tokens = e.tokens /\ f.idle <= e.idle + 1
    BY <2>2 DEF Slot, Smaller
  <2>4. f.idle >= since'[ip]
    BY <1>1, <1>2, <2>2 DEF Slot, Smaller
  <2>5. e.tokens * Duration \in Nat
    BY <2>2 DEF Slot
  <2> HIDE DEF f
  <2>6. exact'[ip] >= Owed(f)
    BY <1>1, <1>2, <2>2, <2>3, <2>5 DEF Owed, Smaller, Slot
  <2>7. Lags(ip)' /\ Waits(ip)'
    BY <2>1, <2>3, <2>4, <2>6 DEF Lags, Waits, Owed, Smaller, Full
  <2> QED
    BY <1>3, <2>1, <2>3, <2>7 DEF AddressKept
<1> QED
  BY <1>4, <1>5

LEMMA LimiterStarts == LimiterInit => LimiterInv
<1> USE LimiterAssumption DEF LimiterAssumption
<1>1. Full \in Nat
  BY DEF Full
<1> QED
  BY <1>1 DEF LimiterInit, LimiterInv, LimiterTypeOK, Lags, Waits

LEMMA LimiterStep == LimiterInv /\ [LimiterNext]_limiterVars => LimiterInv'
<1> SUFFICES ASSUME LimiterInv, [LimiterNext]_limiterVars PROVE LimiterInv'
  OBVIOUS
<1> DEFINE Functions == /\ clients' = [ip \in Clients |-> clients'[ip]]
                        /\ exact' = [ip \in Clients |-> exact'[ip]]
                        /\ since' = [ip \in Clients |-> since'[ip]]
<1>1. Functions /\ \A ip \in Clients : AddressKept(ip)
  <2>1. ASSUME NEW ip \in Clients, Pass(ip)
        PROVE  Functions /\ \A jp \in Clients : AddressKept(jp)
    <3>1. Functions
      BY <2>1 DEF Pass, LimiterInv, LimiterTypeOK
    <3>2. \A jp \in Clients \ {ip} : AddressKept(jp)
      BY <2>1, Untouched DEF Pass, LimiterInv, LimiterTypeOK
    <3> QED
      BY <2>1, <3>1, <3>2, PassKeeps
  <2>2. ASSUME NEW ip \in Clients, TooMany(ip)
        PROVE  Functions /\ \A jp \in Clients : AddressKept(jp)
    <3>1. Functions
      BY <2>2 DEF TooMany, LimiterInv, LimiterTypeOK
    <3>2. \A jp \in Clients \ {ip} : AddressKept(jp)
      BY <2>2, Untouched DEF TooMany, LimiterInv, LimiterTypeOK
    <3> QED
      BY <2>2, <3>1, <3>2, TooManyKeeps
  <2>3. CASE CleanUp
    BY <2>3, CleanUpKeeps DEF CleanUp, LimiterInv, LimiterTypeOK
  <2>4. CASE LimiterTick
    BY <2>4, TickKeeps DEF LimiterTick
  <2>5. CASE UNCHANGED limiterVars
    <3>1. Functions
      BY <2>5 DEF limiterVars, LimiterInv, LimiterTypeOK
    <3> QED
      BY <2>5, <3>1, Untouched DEF limiterVars
  <2> QED
    BY <2>1, <2>2, <2>3, <2>4, <2>5 DEF LimiterNext
<1>2. LimiterTypeOK'
  BY <1>1 DEF LimiterTypeOK, AddressKept, Slot
<1> QED
  BY <1>1, <1>2 DEF LimiterInv, AddressKept

-----------------------------------------------------------------------------
\* Main.go's limiter, whatever its size: the map, the exact bucket and the two
\* inequalities between them.
THEOREM LimiterInvariant == LimiterSpec => []LimiterInv
  BY LimiterStarts, LimiterStep, PTL DEF LimiterSpec

\* The rate: no address ever passes more often than the exact bucket allows.
THEOREM LimiterWithinRate == LimiterSpec => []WithinRate
<1> USE LimiterAssumption DEF LimiterAssumption
<1>1. LimiterInv => WithinRate
  <2> SUFFICES ASSUME LimiterInv, NEW ip \in Clients PROVE exact[ip] >= 0
    BY DEF WithinRate
  <2>1. /\ Bucket(ip).tokens \in 0 .. MaxTokens /\ Bucket(ip).idle \in 0 .. IdleLimit + 1
        /\ Bucket(ip).tokens * Duration + Bucket(ip).idle <= exact[ip]
        /\ exact[ip] \in Int
    BY BucketFacts DEF LimiterInv, LimiterTypeOK
  <2>2. Bucket(ip).tokens * Duration \in Nat
    BY <2>1
  <2> QED
    BY <2>1, <2>2
<1> QED
  BY <1>1, LimiterInvariant, PTL

\* The other side: whoever has waited for one Duration gets through.
THEOREM LimiterNobodyStarves == LimiterSpec => []NobodyStarves
<1> USE LimiterAssumption DEF LimiterAssumption
<1>1. LimiterInv => NobodyStarves
  <2> SUFFICES ASSUME LimiterInv, NEW ip \in Clients, since[ip] >= Duration PROVE CanPass(ip)
    BY DEF NobodyStarves
  <2> SUFFICES ASSUME clients[ip] # NoEntry, Bucket(ip) = clients[ip] PROVE CanPass(ip)
    BY BucketFacts
  <2>1. clients[ip] \in Slot /\ clients[ip].idle >= Duration
    BY DEF LimiterInv, LimiterTypeOK, Waits, Slot
  <2>2. Refills(ip) \in Nat \ {0}
    BY <2>1, Quotient DEF Refills, Slot
  <2> QED
    BY <2>1, <2>2 DEF CanPass, Bucket, Refilled, Smaller, Slot
<1> QED
  BY <1>1, LimiterInvariant, PTL

-----------------------------------------------------------------------------
(***************************************************************************)
(* The history.                                                            *)
(***************************************************************************)
HistoryTypeOK ==
  /\ newest \in Seq(TxIds)
  /\ reader \in [step : {"idle", "counting", "fetching", "done"}, query : Queries,
                 page : Nat \ {0}, total : Nat, seen : SUBSET TxIds, atStart : SUBSET TxIds,
                 raced : BOOLEAN]

\* Only rows that are in the table are listed.
Listed == \A id \in ToSet(newest) : Exists(id)

\* What the reader is here for and has not seen yet is below the page that it
\* asks for.
StillBelow ==
  \A q \in Queries : reader.query = q /\ reader.step \in {"counting", "fetching"} =>
    \A id \in reader.atStart \ reader.seen :
      id \in Matching(q) /\ Rank(id, q) > Offset(reader.page)

\* Unless a row came in, the count is still right when the page is fetched.
CountHolds ==
  \A q \in Queries : reader.query = q /\ reader.step = "fetching" /\ ~ reader.raced =>
    reader.total = Cardinality(Matching(q))

HistoryInv == HistoryTypeOK /\ Listed /\ StillBelow /\ CountHolds /\ HistoryIsComplete

-----------------------------------------------------------------------------
\* A row that is put into the list moves the ones behind it by one place.
LEMMA InsertedAt ==
  ASSUME NEW S, NEW s \in Seq(S), NEW e \in S, NEW i \in 1 .. Len(s) + 1,
         NEW t, t = InsertAt(s, i, e)
  PROVE  /\ t \in Seq(S)
         /\ Len(t) = Len(s) + 1
         /\ \A k \in 1 .. Len(s) : t[IF k < i THEN k ELSE k + 1] = s[k]
         /\ ToSet(t) = ToSet(s) \cup {e}
<1> DEFINE front == SubSeq(s, 1, i - 1)
           back  == SubSeq(s, i, Len(s))
<1>1. Len(s) \in Nat /\ \A k \in 1 .. Len(s) : s[k] \in S
  BY LenProperties, ElementOfSeq
<1>2. /\ front \in Seq(S) /\ Len(front) = i - 1
      /\ \A k \in 1 .. i - 1 : front[k] = s[k]
  <2>1. \A k \in 1 .. i - 1 : s[k] \in S
    BY <1>1
  <2>2. /\ front \in Seq(S)
        /\ Len(front) = IF 1 <= i - 1 THEN (i - 1) - 1 + 1 ELSE 0
        /\ \A k \in 1 .. (i - 1) - 1 + 1 : front[k] = s[1 + k - 1]
    BY <1>1, <2>1, SubSeqProperties
  <2> QED
    BY <1>1, <2>2
<1>3. /\ back \in Seq(S) /\ Len(back) = Len(s) - i + 1
      /\ \A k \in 1 .. Len(s) - i + 1 : back[k] = s[i + k - 1]
  <2>1. \A k \in i .. Len(s) : s[k] \in S
    BY <1>1
  <2>2. /\ back \in Seq(S)
        /\ Len(back) = IF i <= Len(s) THEN Len(s) - i + 1 ELSE 0
        /\ \A k \in 1 .. Len(s) - i + 1 : back[k] = s[i + k - 1]
    BY <1>1, <2>1, SubSeqProperties
  <2> QED
    BY <1>1, <2>2
<1> HIDE DEF front, back
<1>4. t = (front \o <<e>>) \o back
  BY DEF InsertAt, front, back
<1>5. <<e>> \in Seq(S) /\ Len(<<e>>) = 1 /\ <<e>>[1] = e
  OBVIOUS
<1> DEFINE start == front \o <<e>>
<1>6. /\ start \in Seq(S) /\ Len(start) = i
      /\ \A k \in 1 .. i : start[k] = IF k <= i - 1 THEN front[k] ELSE <<e>>[k - (i - 1)]
  BY <1>1, <1>2, <1>5, ConcatProperties
<1>7. start[i] = e /\ \A k \in 1 .. i - 1 : start[k] = s[k]
  <2>1. i \in 1 .. i /\ ~ (i <= i - 1) /\ i - (i - 1) = 1
    BY <1>1
  <2>2. start[i] = <<e>>[1]
    BY <1>6, <2>1
  <2>3. ASSUME NEW k \in 1 .. i - 1 PROVE start[k] = s[k]
    <3>1. k \in 1 .. i /\ k <= i - 1
      BY <1>1
    <3> QED
      BY <1>2, <1>6, <3>1
  <2> QED
    BY <1>5, <2>2, <2>3
<1> HIDE DEF start
<1>8. /\ t \in Seq(S) /\ Len(t) = Len(s) + 1
      /\ \A k \in 1 .. Len(s) + 1 : t[k] = IF k <= i THEN start[k] ELSE back[k - i]
  <2>1. t = start \o back
    BY <1>4 DEF start
  <2>2. start \in Seq(S) /\ back \in Seq(S)
    BY <1>3, <1>6
  <2>3. /\ start \o back \in Seq(S) /\ Len(start \o back) = Len(start) + Len(back)
        /\ \A k \in 1 .. Len(start) + Len(back) :
             (start \o back)[k] = IF k <= Len(start) THEN start[k] ELSE back[k - Len(start)]
    BY <2>2, ConcatProperties
  <2>4. Len(start) = i /\ Len(start) + Len(back) = Len(s) + 1
    <3>1. Len(start) = i /\ Len(back) = IF i <= Len(s) THEN Len(s) - i + 1 ELSE 0
      BY <1>3, <1>6
    <3> QED
      BY <1>1, <3>1
  <2> QED
    BY <2>1, <2>3, <2>4
<1>9. /\ t[i] = e
      /\ \A k \in 1 .. i - 1 : t[k] = s[k]
      /\ \A k \in i + 1 .. Len(s) + 1 : t[k] = s[k - 1]
  <2>1. ASSUME NEW k \in i + 1 .. Len(s) + 1 PROVE t[k] = s[k - 1]
    <3>1. k - i \in 1 .. Len(s) - i + 1 /\ i + (k - i) - 1 = k - 1 /\ ~ (k <= i)
          /\ k \in 1 .. Len(s) + 1
      BY <1>1
    <3>2. t[k] = back[k - i]
      BY <1>8, <3>1
    <3>3. back[k - i] = s[i + (k - i) - 1]
      BY <1>3, <3>1
    <3> QED
      BY <3>1, <3>2, <3>3
  <2>2. ASSUME NEW k \in 1 .. i PROVE t[k] = start[k]
    <3>1. k \in 1 .. Len(s) + 1 /\ k <= i
      BY <1>1
    <3> QED
      BY <1>8, <3>1
  <2>3. i \in 1 .. i /\ \A k \in 1 .. i - 1 : k \in 1 .. i
    BY <1>1
  <2> QED
    BY <1>7, <2>1, <2>2, <2>3
<1>10. \A k \in 1 .. Len(s) : t[IF k < i THEN k ELSE k + 1] = s[k]
  <2> SUFFICES ASSUME NEW k \in 1 .. Len(s) PROVE t[IF k < i THEN k ELSE k + 1] = s[k]
    OBVIOUS
  <2>1. CASE k < i
    BY <1>1, <1>9, <2>1
  <2>2. CASE ~ (k < i)
    <3>1. k + 1 \in i + 1 .. Len(s) + 1 /\ (k + 1) - 1 = k
      BY <1>1, <2>2
    <3>2. t[k + 1] = s[(k + 1) - 1]
      BY <1>9, <3>1
    <3> QED
      BY <2>2, <3>1, <3>2
  <2> QED
    BY <2>1, <2>2
<1>11. ToSet(t) = ToSet(s) \cup {e}
  <2>1. DOMAIN t = 1 .. Len(s) + 1 /\ DOMAIN s = 1 .. Len(s)
    BY <1>8, LenProperties
  <2>2. ASSUME NEW x \in ToSet(t) PROVE x \in ToSet(s) \cup {e}
    <3>1. PICK k \in 1 .. Len(s) + 1 : x = t[k]
      BY <2>1 DEF ToSet
    <3>2. k \in 1 .. i - 1 \/ k = i \/ k \in i + 1 .. Len(s) + 1
      BY <1>1
    <3> QED
      BY <1>1, <1>9, <2>1, <3>1, <3>2 DEF ToSet
  <2>3. ASSUME NEW x \in ToSet(s) PROVE x \in ToSet(t)
    <3>1. PICK k \in 1 .. Len(s) : x = s[k]
      BY <2>1 DEF ToSet
    <3> QED
      BY <1>1, <1>10, <2>1, <3>1 DEF ToSet
  <2>4. e \in ToSet(t)
    BY <1>1, <1>9, <2>1 DEF ToSet
  <2> QED
    BY <2>2, <2>3, <2>4
<1> QED
  BY <1>8, <1>10, <1>11

\* The matching rows are counted, and a row's rank is its place among them.
LEMMA RankBounds ==
  ASSUME newest \in Seq(TxIds), NEW q
  PROVE  /\ IsFiniteSet(Matching(q)) /\ Cardinality(Matching(q)) \in Nat
         /\ Matching(q) \subseteq TxIds
         /\ \A id \in Matching(q) : Rank(id, q) \in 1 .. Cardinality(Matching(q))
<1>1. Matching(q) \subseteq TxIds
  BY LenProperties DEF Matching, ToSet
<1>2. IsFiniteSet(Matching(q)) /\ Cardinality(Matching(q)) \in Nat
  BY <1>1, FS_Subset, FS_CardinalityType, LedgerAssumption DEF LedgerAssumption
<1>3. ASSUME NEW id \in Matching(q) PROVE Rank(id, q) \in 1 .. Cardinality(Matching(q))
  <2>1. DownTo(id, q) \in SUBSET Matching(q)
    BY DEF DownTo
  <2>2. id \in DownTo(id, q)
    <3>1. PICK k \in DOMAIN newest : newest[k] = id
      BY DEF Matching, ToSet
    <3>2. k <= k
      BY <3>1, LenProperties
    <3> QED
      BY <3>1, <3>2 DEF DownTo
  <2>3. /\ IsFiniteSet(DownTo(id, q))
        /\ Cardinality(DownTo(id, q)) <= Cardinality(Matching(q))
    BY <1>2, <2>1, FS_Subset
  <2>4. Cardinality(DownTo(id, q)) \in Nat /\ Cardinality(DownTo(id, q)) # 0
    BY <2>2, <2>3, FS_CardinalityType, FS_EmptySet
  <2> QED
    BY <1>2, <2>3, <2>4 DEF Rank
<1> QED
  BY <1>1, <1>2, <1>3

\* A row that comes in pushes no other row up, and changes what none is.
LEMMA RankRises ==
  ASSUME LedgerTypeOK, newest \in Seq(TxIds), Listed,
         NEW id \in TxIds, NEW row, Insert(id, row),
         NEW i \in 1 .. Len(newest) + 1, newest' = InsertAt(newest, i, id),
         NEW q, NEW other \in Matching(q)
  PROVE  other \in Matching(q)' /\ Rank(other, q)' \in Nat /\ Rank(other, q)' >= Rank(other, q)
<1>1. /\ newest' \in Seq(TxIds) /\ Len(newest') = Len(newest) + 1
      /\ \A k \in 1 .. Len(newest) : newest'[IF k < i THEN k ELSE k + 1] = newest[k]
      /\ ToSet(newest') = ToSet(newest) \cup {id}
  BY InsertedAt
<1>2. DOMAIN newest = 1 .. Len(newest) /\ DOMAIN newest' = 1 .. Len(newest) + 1
      /\ Len(newest) \in Nat
  BY <1>1, LenProperties
<1>3. \A x \in ToSet(newest) : x \in TxIds /\ x # id /\ txn'[x] = txn[x]
  <2>1. ASSUME NEW x \in ToSet(newest) PROVE x \in TxIds /\ Exists(x)
    BY LenProperties DEF ToSet, Listed
  <2> QED
    BY <2>1 DEF Insert, Exists, LedgerTypeOK
<1>4. \A x \in Matching(q) : x \in Matching(q)'
  <2>1. ASSUME NEW x \in Matching(q)
        PROVE  /\ x \in ToSet(newest')
               /\ q.wallet \in {txn'[x].source, txn'[x].destination}
               /\ txn'[x].asset \in q.assets
               /\ txn'[x].type \in q.types
    BY <1>1, <1>3 DEF Matching, Matches
  <2> QED
    BY <2>1 DEF Matching, Matches
<1>5. DownTo(other, q) \subseteq DownTo(other, q)'
  <2> SUFFICES ASSUME NEW x \in DownTo(other, q) PROVE x \in DownTo(other, q)'
    OBVIOUS
  <2>1. x \in Matching(q)'
    BY <1>4 DEF DownTo
  <2>2. PICK j \in 1 .. Len(newest), k \in 1 .. Len(newest) :
          j <= k /\ newest[j] = x /\ newest[k] = other
    BY <1>2 DEF DownTo
  <2> DEFINE jj == IF j < i THEN j ELSE j + 1
             kk == IF k < i THEN k ELSE k + 1
  <2>3. jj \in 1 .. Len(newest) + 1 /\ kk \in 1 .. Len(newest) + 1 /\ jj <= kk
    BY <1>2, <2>2
  <2>4. newest'[jj] = x /\ newest'[kk] = other
    BY <1>1, <2>2
  <2> HIDE DEF jj, kk
  <2> QED
    BY <1>2, <2>1, <2>3, <2>4 DEF DownTo
<1>6. DownTo(other, q)' \in SUBSET TxIds
  <2>1. ToSet(newest') \subseteq TxIds
    BY <1>1, LenProperties DEF ToSet
  <2> QED
    BY <2>1 DEF DownTo, Matching
<1>7. IsFiniteSet(DownTo(other, q)')
  BY <1>6, FS_Subset, LedgerAssumption DEF LedgerAssumption
<1>8. Cardinality(DownTo(other, q)) <= Cardinality(DownTo(other, q)')
  BY <1>5, <1>7, FS_Subset
<1>9. Cardinality(DownTo(other, q)) \in Nat /\ Cardinality(DownTo(other, q)') \in Nat
  BY <1>5, <1>7, FS_Subset, FS_CardinalityType
<1> QED
  BY <1>4, <1>8, <1>9 DEF Rank

\* A step that is about neither rows nor their order.
LEMMA RankStays ==
  ASSUME UNCHANGED <<ledgerVars, newest>>, NEW q
  PROVE  /\ Matching(q)' = Matching(q)
         /\ \A id : Rank(id, q)' = Rank(id, q)
<1>1. UNCHANGED <<txn, newest>>
  BY DEF ledgerVars
<1>2. Matching(q)' = Matching(q)
  BY <1>1 DEF Matching, Matches
<1>3. ASSUME NEW id PROVE DownTo(id, q)' = DownTo(id, q)
  BY <1>1, <1>2 DEF DownTo
<1> QED
  BY <1>2, <1>3 DEF Rank

\* The last page that a count of t rows asks for reaches down to the last row.
LEMMA LastPage ==
  ASSUME NEW t \in Nat, NEW page \in Nat \ {0}, ~ (page < TotalPages(t))
  PROVE  t <= Offset(page) + PerPage
<1> USE HistoryAssumption DEF HistoryAssumption
<1>1. Offset(page) = page * PerPage - PerPage
  BY DEF Offset
<1>2. CASE t = 0
  BY <1>1, <1>2
<1>3. CASE t # 0
  <2> DEFINE n == (t + PerPage - 1) \div PerPage
  <2>1. n \in Nat /\ t + PerPage - 1 < n * PerPage + PerPage
    OBVIOUS
  <2>2. n <= page
    BY <1>3, <2>1 DEF TotalPages
  <2>3. n * PerPage <= page * PerPage /\ n * PerPage \in Nat /\ page * PerPage \in Nat
    BY <2>1, <2>2
  <2> HIDE DEF n
  <2> QED
    BY <1>1, <2>1, <2>3
<1> QED
  BY <1>2, <1>3

-----------------------------------------------------------------------------
(***************************************************************************)
(* The history, action by action.                                          *)
(***************************************************************************)
\* A row comes in, anywhere in the list: the reader is no worse off.
LEMMA HistoryCreated ==
  ASSUME LedgerTypeOK, HistoryInv, NEW id \in TxIds, NEW row \in Row, Insert(id, row),
         NEW i \in 1 .. Len(newest) + 1, Created(id, i)
  PROVE  HistoryInv'
<1>1. newest \in Seq(TxIds) /\ Listed
  BY DEF HistoryInv, HistoryTypeOK
<1>2. newest' = InsertAt(newest, i, id)
      /\ reader' = [reader EXCEPT !.raced = reader.raced \/ reader.step = "fetching"]
  BY DEF Created
<1>3. newest' \in Seq(TxIds) /\ ToSet(newest') = ToSet(newest) \cup {id}
  BY <1>1, <1>2, InsertedAt
<1>4. /\ reader'.step = reader.step /\ reader'.query = reader.query
      /\ reader'.page = reader.page /\ reader'.total = reader.total
      /\ reader'.seen = reader.seen /\ reader'.atStart = reader.atStart
      /\ reader'.raced = (reader.raced \/ reader.step = "fetching")
  BY <1>2 DEF HistoryInv, HistoryTypeOK
<1>5. HistoryTypeOK'
  BY <1>2, <1>3 DEF HistoryInv, HistoryTypeOK
<1>6. Listed'
  <2>1. \A x \in ToSet(newest) : Exists(x)'
    <3>1. \A x \in ToSet(newest) : x \in TxIds /\ Exists(x)
      BY <1>1, LenProperties DEF ToSet, Listed
    <3> QED
      BY <3>1 DEF Insert, Exists, LedgerTypeOK
  <2>2. Exists(id)'
    BY LedgerAssumption DEF Insert, Exists, LedgerTypeOK, LedgerAssumption
  <2> QED
    BY <1>3, <2>1, <2>2 DEF Listed
<1>7. StillBelow'
  <2> SUFFICES ASSUME NEW q \in Queries, reader.query = q,
                      reader.step \in {"counting", "fetching"},
                      NEW x \in reader.atStart \ reader.seen
               PROVE  x \in Matching(q)' /\ Rank(x, q)' > Offset(reader.page)
    BY <1>4 DEF StillBelow, Offset
  <2>1. x \in Matching(q) /\ Rank(x, q) > Offset(reader.page)
    BY DEF HistoryInv, StillBelow
  <2>2. x \in Matching(q)' /\ Rank(x, q)' \in Nat /\ Rank(x, q)' >= Rank(x, q)
    BY <1>1, <1>2, <2>1, RankRises
  <2>3. Rank(x, q) \in Int
    BY <1>1, <2>1, RankBounds
  <2>4. Offset(reader.page) \in Int
    BY HistoryAssumption DEF HistoryAssumption, Offset, HistoryInv, HistoryTypeOK
  <2> QED
    BY <2>1, <2>2, <2>3, <2>4
<1>8. CountHolds'
  BY <1>4 DEF CountHolds
<1>9. HistoryIsComplete'
  BY <1>4 DEF HistoryInv, HistoryIsComplete
<1> QED
  BY <1>5, <1>6, <1>7, <1>8, <1>9 DEF HistoryInv

\* A reader begins: everything that matches is below the first page's offset.
LEMMA HistoryAsk ==
  ASSUME HistoryInv, NEW q \in Queries, Ask(q)
  PROVE  HistoryInv'
<1>1. newest \in Seq(TxIds) /\ UNCHANGED <<ledgerVars, newest>>
  BY DEF Ask, HistoryInv, HistoryTypeOK
<1>2. reader' = [step |-> "counting", query |-> q, page |-> 1, total |-> 0,
                 seen |-> {}, atStart |-> Matching(q), raced |-> FALSE]
  BY DEF Ask, NoReader
<1>3. Matching(q) \subseteq TxIds
  BY <1>1, RankBounds
<1>4. HistoryTypeOK'
  BY <1>1, <1>2, <1>3 DEF HistoryTypeOK
<1>5. Listed'
  BY <1>1 DEF HistoryInv, Listed, Exists, ledgerVars
<1>6. StillBelow'
  <2> SUFFICES ASSUME NEW x \in Matching(q)
               PROVE  x \in Matching(q)' /\ Rank(x, q)' > Offset(1)
    BY <1>2 DEF StillBelow, Offset
  <2>1. Matching(q)' = Matching(q) /\ Rank(x, q)' = Rank(x, q)
    BY <1>1, RankStays
  <2>2. Rank(x, q) \in 1 .. Cardinality(Matching(q)) /\ Cardinality(Matching(q)) \in Nat
    BY <1>1, RankBounds
  <2>3. Offset(1) = 0
    BY HistoryAssumption DEF HistoryAssumption, Offset
  <2> QED
    BY <2>1, <2>2, <2>3
<1>7. CountHolds' /\ HistoryIsComplete'
  BY <1>2 DEF CountHolds, HistoryIsComplete
<1> QED
  BY <1>4, <1>5, <1>6, <1>7 DEF HistoryInv

LEMMA HistoryCount ==
  ASSUME HistoryInv, Count
  PROVE  HistoryInv'
<1> DEFINE c == Cardinality(Matching(reader.query))
<1>1. newest \in Seq(TxIds) /\ UNCHANGED <<ledgerVars, newest>>
  BY DEF Count, HistoryInv, HistoryTypeOK
<1>2. reader.step = "counting"
      /\ reader' = [reader EXCEPT !.step = "fetching", !.total = c, !.raced = FALSE]
  BY DEF Count
<1>3. c \in Nat
  BY <1>1, RankBounds
<1> HIDE DEF c
<1>4. /\ reader'.step = "fetching" /\ reader'.query = reader.query
      /\ reader'.page = reader.page /\ reader'.total = c
      /\ reader'.seen = reader.seen /\ reader'.atStart = reader.atStart
  BY <1>2 DEF HistoryInv, HistoryTypeOK
<1>5. HistoryTypeOK'
  BY <1>1, <1>2, <1>3 DEF HistoryInv, HistoryTypeOK
<1>6. Listed'
  BY <1>1 DEF HistoryInv, Listed, Exists, ledgerVars
<1>7. StillBelow'
  <2> SUFFICES ASSUME NEW q \in Queries, reader.query = q, NEW x \in reader.atStart \ reader.seen
               PROVE  x \in Matching(q)' /\ Rank(x, q)' > Offset(reader.page)
    BY <1>4 DEF StillBelow, Offset
  <2>1. Matching(q)' = Matching(q) /\ Rank(x, q)' = Rank(x, q)
    BY <1>1, RankStays
  <2> QED
    BY <1>2, <2>1 DEF HistoryInv, StillBelow
<1>8. CountHolds'
  <2> SUFFICES ASSUME NEW q \in Queries, reader.query = q PROVE c = Cardinality(Matching(q)')
    BY <1>4 DEF CountHolds
  <2> QED
    BY <1>1, RankStays DEF c
<1>9. HistoryIsComplete'
  BY <1>4 DEF HistoryIsComplete
<1> QED
  BY <1>5, <1>6, <1>7, <1>8, <1>9 DEF HistoryInv

\* A page is read: what is still not seen is below the next page, and below the
\* last page there is nothing.
LEMMA HistoryFetch ==
  ASSUME HistoryInv, Fetch
  PROVE  HistoryInv'
<1> USE HistoryAssumption DEF HistoryAssumption
<1>1. newest \in Seq(TxIds) /\ UNCHANGED <<ledgerVars, newest>>
  BY DEF Fetch, HistoryInv, HistoryTypeOK
<1> DEFINE more == reader.page < TotalPages(reader.total)
<1>2. /\ reader.step = "fetching"
      /\ reader' = [reader EXCEPT
           !.seen = reader.seen \cup Page(reader.query, reader.page),
           !.step = IF more THEN "counting" ELSE "done",
           !.page = IF more THEN reader.page + 1 ELSE reader.page]
  BY DEF Fetch
<1>3. PICK q \in Queries : q = reader.query
  BY DEF HistoryInv, HistoryTypeOK
<1>4. reader.page \in Nat \ {0} /\ reader.total \in Nat /\ Page(q, reader.page) \subseteq TxIds
  BY <1>1, RankBounds DEF HistoryInv, HistoryTypeOK, Page
<1> HIDE DEF more
<1>5. /\ reader'.step = (IF more THEN "counting" ELSE "done")
      /\ reader'.page = (IF more THEN reader.page + 1 ELSE reader.page)
      /\ reader'.query = q /\ reader'.raced = reader.raced /\ reader'.total = reader.total
      /\ reader'.seen = reader.seen \cup Page(q, reader.page)
      /\ reader'.atStart = reader.atStart
  BY <1>2, <1>3 DEF HistoryInv, HistoryTypeOK
<1>6. HistoryTypeOK'
  <2>1. /\ reader.step \in {"idle", "counting", "fetching", "done"}
        /\ reader.seen \cup Page(q, reader.page) \in SUBSET TxIds
        /\ (IF more THEN "counting" ELSE "done") \in {"idle", "counting", "fetching", "done"}
        /\ (IF more THEN reader.page + 1 ELSE reader.page) \in Nat \ {0}
    BY <1>4 DEF HistoryInv, HistoryTypeOK
  <2> QED
    BY <1>1, <1>2, <1>3, <2>1 DEF HistoryInv, HistoryTypeOK
<1>7. Listed'
  BY <1>1 DEF HistoryInv, Listed, Exists, ledgerVars
<1>8. Offset(reader.page) \in Nat /\ Offset(reader.page + 1) = Offset(reader.page) + PerPage
  BY <1>4 DEF Offset
<1>9. ASSUME NEW x \in reader'.atStart \ reader'.seen
      PROVE  /\ x \in Matching(q) /\ Rank(x, q) \in 1 .. Cardinality(Matching(q))
             /\ Cardinality(Matching(q)) \in Nat
             /\ Rank(x, q) > Offset(reader.page) + PerPage
  <2>1. x \in Matching(q) /\ Rank(x, q) > Offset(reader.page)
    BY <1>2, <1>3, <1>5 DEF HistoryInv, StillBelow
  <2>2. Rank(x, q) \in 1 .. Cardinality(Matching(q)) /\ Cardinality(Matching(q)) \in Nat
    BY <1>1, <2>1, RankBounds
  <2>3. Rank(x, q) - Offset(reader.page) \notin 1 .. PerPage
    BY <1>5, <2>1 DEF Page
  <2> QED
    BY <1>8, <2>1, <2>2, <2>3
<1>10. StillBelow'
  <2> SUFFICES ASSUME more, NEW x \in reader'.atStart \ reader'.seen
               PROVE  x \in Matching(q)' /\ Rank(x, q)' > Offset(reader.page + 1)
    BY <1>5 DEF StillBelow, Offset
  <2>1. Matching(q)' = Matching(q) /\ Rank(x, q)' = Rank(x, q)
    BY <1>1, RankStays
  <2> QED
    BY <1>8, <1>9, <2>1
<1>11. CountHolds'
  BY <1>5 DEF CountHolds
<1>12. HistoryIsComplete'
  <2> SUFFICES ASSUME ~ more, ~ reader.raced, NEW x \in reader'.atStart \ reader'.seen
               PROVE  FALSE
    BY <1>5 DEF HistoryIsComplete
  <2>1. reader.total = Cardinality(Matching(q))
    BY <1>2, <1>3 DEF HistoryInv, CountHolds
  <2>2. reader.total <= Offset(reader.page) + PerPage
    BY <1>4, LastPage DEF more
  <2> QED
    BY <1>4, <1>8, <1>9, <2>1, <2>2
<1> QED
  BY <1>6, <1>7, <1>10, <1>11, <1>12 DEF HistoryInv

LEMMA HistoryStop ==
  ASSUME HistoryInv, StopReading
  PROVE  HistoryInv'
<1>1. UNCHANGED <<ledgerVars, newest>> /\ reader' = NoReader
  BY DEF StopReading
<1>2. HistoryTypeOK'
  BY <1>1, HistoryAssumption DEF HistoryAssumption, HistoryInv, HistoryTypeOK, NoReader
<1>3. Listed'
  BY <1>1 DEF HistoryInv, Listed, Exists, ledgerVars
<1> QED
  BY <1>1, <1>2, <1>3 DEF HistoryInv, StillBelow, CountHolds, HistoryIsComplete, NoReader

\* A step of the limiter.
LEMMA HistoryAlone ==
  ASSUME HistoryInv, UNCHANGED <<ledgerVars, historyVars>>
  PROVE  HistoryInv'
<1>1. UNCHANGED <<ledgerVars, newest>> /\ reader' = reader
  BY DEF historyVars
<1>2. HistoryTypeOK' /\ HistoryIsComplete'
  BY <1>1 DEF HistoryInv, HistoryTypeOK, HistoryIsComplete
<1>3. Listed'
  BY <1>1 DEF HistoryInv, Listed, Exists, ledgerVars
<1>4. StillBelow'
  <2> SUFFICES ASSUME NEW q \in Queries, reader.query = q,
                      reader.step \in {"counting", "fetching"},
                      NEW x \in reader.atStart \ reader.seen
               PROVE  x \in Matching(q)' /\ Rank(x, q)' > Offset(reader.page)
    BY <1>1 DEF StillBelow, Offset
  <2>1. Matching(q)' = Matching(q) /\ Rank(x, q)' = Rank(x, q)
    BY <1>1, RankStays
  <2> QED
    BY <2>1 DEF HistoryInv, StillBelow
<1>5. CountHolds'
  <2> SUFFICES ASSUME NEW q \in Queries, reader.query = q, reader.step = "fetching",
                      ~ reader.raced
               PROVE  reader.total = Cardinality(Matching(q)')
    BY <1>1 DEF CountHolds
  <2> QED
    BY <1>1, RankStays DEF HistoryInv, CountHolds
<1> QED
  BY <1>2, <1>3, <1>4, <1>5 DEF HistoryInv

-----------------------------------------------------------------------------
(***************************************************************************)
(* The two routes together.  To the limiter the rest of the program only   *)
(* stutters, and to the ledger the limiter and the reader do.              *)
(***************************************************************************)
LEMMA ApiLimiterStep == [Next]_apiVars => [LimiterNext]_limiterVars
  BY DEF Next, Transfer, TransferRefused, TransferLimited, TopUp, Read, Background, LimiterNext,
         limiterVars, apiVars


\* A transfer that passes is a row that ExecuteTransferTx opens.
LEMMA ApiTransfer ==
  ASSUME NEW ip \in Clients, NEW s \in Wallets, NEW r \in Wallets, NEW a \in Assets,
         NEW n \in Amounts, Transfer(ip, s, r, a, n), newest \in Seq(TxIds)
  PROVE  /\ OrderlyNext
         /\ \E id \in TxIds, row \in Row, i \in 1 .. Len(newest) + 1 :
              Insert(id, row) /\ Created(id, i)
<1>1. PICK id \in TxIds : s # r /\ ExecuteTransferTx(id, s, r, a, n) /\ Created(id, 1)
  BY DEF Transfer, CreatedLocked
<1>2. Insert(id, Entry("transfer_fiat", s, r, a, n, "success"))
  BY <1>1 DEF ExecuteTransferTx
<1>3. Entry("transfer_fiat", s, r, a, n, "success") \in Row
  BY LedgerAssumption DEF LedgerAssumption, Entry, Row, Types, Statuses, OrderIDs
<1>4. 1 \in 1 .. Len(newest) + 1
  BY LenProperties
<1>5. r \in Wallets \ {s}
  BY <1>1
<1>6. Opened(id, Amounts, Payable)
  BY <1>1, <1>5 DEF Opened
<1>7. OrderlyNext
  BY <1>6, OpenedWithAmounts DEF OrderlyNext
<1> QED
  BY <1>1, <1>2, <1>3, <1>4, <1>7

\* A top-up is a row that CreatePendingTopUpTx opens.
LEMMA ApiTopUp ==
  ASSUME NEW w \in Wallets, NEW n \in Amounts, TopUp(w, n)
  PROVE  /\ OrderlyNext
         /\ \E id \in TxIds, row \in Row, i \in 1 .. Len(newest) + 1 :
              Insert(id, row) /\ Created(id, i)
<1>1. PICK id \in TxIds, i \in 1 .. Len(newest) + 1 :
        CreatePendingTopUpTx(id, w, n) /\ Created(id, i)
  BY DEF TopUp, CreatedUnlocked
<1> DEFINE row == [Entry("topup", Nil, w, IDR, n, "pending") EXCEPT !.orderID = "snap"]
<1>2. Insert(id, row)
  BY <1>1 DEF CreatePendingTopUpTx
<1>3. row \in Row
  BY LedgerAssumption DEF LedgerAssumption, Entry, Row, Types, Statuses, OrderIDs
<1>4. Opened(id, Amounts, Payable)
  BY <1>1 DEF Opened
<1>5. OrderlyNext
  BY <1>4, OpenedWithAmounts DEF OrderlyNext
<1> QED
  BY <1>1, <1>2, <1>3, <1>5

\* What any step of Api is to the ledger and to the history.
LEMMA ApiStep ==
  ASSUME [Next]_apiVars, newest \in Seq(TxIds)
  PROVE  /\ [OrderlyNext]_ledgerVars
         /\ \/ \E id \in TxIds, row \in Row, i \in 1 .. Len(newest) + 1 :
                 Insert(id, row) /\ Created(id, i)
            \/ (\E q \in Queries : Ask(q)) \/ Count \/ Fetch \/ StopReading
            \/ UNCHANGED <<ledgerVars, historyVars>>
<1>1. CASE \E ip \in Clients, s, r \in Wallets, a \in Assets, n \in Amounts :
             Transfer(ip, s, r, a, n)
  BY <1>1, ApiTransfer
<1>2. CASE \E ip \in Clients : TransferRefused(ip) \/ TransferLimited(ip)
  BY <1>2 DEF TransferRefused, TransferLimited
<1>3. CASE \E w \in Wallets, n \in Amounts : TopUp(w, n)
  BY <1>3, ApiTopUp
<1>4. CASE Read
  BY <1>4 DEF Read, Ask, Count, Fetch, StopReading
<1>5. CASE Background
  BY <1>5 DEF Background
<1>6. CASE UNCHANGED apiVars
  BY <1>6 DEF apiVars, ledgerVars, historyVars
<1> QED
  BY <1>1, <1>2, <1>3, <1>4, <1>5, <1>6 DEF Next

LEMMA HistoryStarts == Init => HistoryInv
<1> SUFFICES ASSUME Init PROVE HistoryInv
  OBVIOUS
<1>1. newest = << >> /\ reader = NoReader
  BY DEF Init, HistoryInit
<1>2. HistoryTypeOK /\ Listed
  BY <1>1, HistoryAssumption
     DEF HistoryAssumption, HistoryTypeOK, NoReader, Listed, ToSet
<1> QED
  BY <1>1, <1>2 DEF HistoryInv, StillBelow, CountHolds, HistoryIsComplete, NoReader

ApiInv == OrderlyInv /\ HistoryInv

LEMMA ApiInvStep == ApiInv /\ [Next]_apiVars => ApiInv'
<1> SUFFICES ASSUME ApiInv, [Next]_apiVars PROVE ApiInv'
  OBVIOUS
<1>1. LedgerTypeOK /\ OrderlyInv /\ HistoryInv /\ newest \in Seq(TxIds)
  BY DEF ApiInv, OrderlyInv, LedgerInv, HistoryInv, HistoryTypeOK
<1>2. OrderlyInv'
  BY <1>1, ApiStep, OrderlyStep
<1>3. HistoryInv'
  BY <1>1, ApiStep, HistoryCreated, HistoryAsk, HistoryCount, HistoryFetch, HistoryStop,
     HistoryAlone
<1> QED
  BY <1>2, <1>3 DEF ApiInv

\* The two routes call the repository as it wants to be called: what they do
\* to the tables, between the requests that the limiter stops and the pages of
\* the readers, is the orderly ledger.
THEOREM ApiOrderly == Spec => OrderlySpec
<1>1. Init => LedgerInit /\ ApiInv
  BY OrderlyStarts, HistoryStarts DEF Init, ApiInv
<1>2. ApiInv /\ [Next]_apiVars => [OrderlyNext]_ledgerVars
  BY ApiStep DEF ApiInv, HistoryInv, HistoryTypeOK
<1> QED
  BY <1>1, <1>2, ApiInvStep, PTL DEF Spec, OrderlySpec

\* The limiter works alone: nothing in the two routes touches its map but its
\* own handler and its own goroutine.
THEOREM ApiLimited == Spec => LimiterSpec
  BY ApiLimiterStep, PTL DEF Spec, LimiterSpec, Init

\* A client that has read all the pages has seen every row that was there when
\* it began, however many rows the transfers and top-ups of others brought in
\* meanwhile, and wherever in the list they came: unless one came in between
\* the two queries of its last answer.
THEOREM ApiHistoryIsComplete == Spec => []HistoryIsComplete
<1>1. Init => ApiInv
  BY OrderlyStarts, HistoryStarts DEF Init, ApiInv
<1>2. ApiInv => HistoryIsComplete
  BY DEF ApiInv, HistoryInv
<1> QED
  BY <1>1, <1>2, ApiInvStep, PTL DEF Spec

\* The rate and the rate for everyone, with the rest of the program around the
\* limiter.
THEOREM ApiRate == Spec => []WithinRate /\ []NobodyStarves
  BY ApiLimited, LimiterWithinRate, LimiterNobodyStarves, PTL

\* No balance moves without a row that says so, whatever the limiter lets through.
THEOREM ApiJournal == Spec => []Journal
  BY ApiOrderly, OrderlyBooksBalance, PTL
=============================================================================
