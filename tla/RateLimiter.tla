---------------------------- MODULE RateLimiter ----------------------------
(***************************************************************************)
(* middleware.IPBasedRateLimiter: a token bucket for every IP address, in  *)
(* a map under one mutex, and a goroutine that now and then forgets the    *)
(* addresses not seen for an hour.  Each request, and each round of the    *)
(* goroutine, is one step: it holds the mutex all the way.  refillRate is  *)
(* the 1 that main.go passes.                                              *)
(*                                                                         *)
(* Time passes in ticks.  Two variables that the program does not have     *)
(* remember what it owes its clients: the exact bucket, which fills        *)
(* continuously, and the time since a request was let through.             *)
(***************************************************************************)
EXTENDS Integers

CONSTANTS
  Clients,     \* IP addresses
  MaxTokens,   \* maxTokens
  Duration,    \* duration, in ticks
  IdleLimit,   \* the hour after which an address is forgotten
  NoEntry      \* the address is not in the map

\* The exact bucket counts in parts: a token is Duration of them.
Full == MaxTokens * Duration

ASSUME LimiterAssumption ==
  /\ MaxTokens \in Nat \ {0} /\ Duration \in Nat \ {0}
  /\ IdleLimit \in Nat /\ IdleLimit >= Full
  /\ NoEntry \notin [tokens : Int, idle : Int]

VARIABLES
  clients,  \* the map; idle is the time since lastSeen
  exact,    \* history: the bucket that neither rounds nor forgets
  since     \* history: how long ago a request was let through, up to Duration

limiterVars == <<clients, exact, since>>

Smaller(m, n) == IF m < n THEN m ELSE n

-----------------------------------------------------------------------------
Refills(ip) == clients[ip].idle \div Duration

\* Mutant: lastSeen stays where it was, and the same time is paid out again.
RefilledAgain(ip) ==
  [tokens |-> Smaller(MaxTokens, clients[ip].tokens + Refills(ip)), idle |-> clients[ip].idle]

\* Mutant: every request moves lastSeen, also one that is refused.
RefilledRestarting(ip) ==
  [tokens |-> Smaller(MaxTokens, clients[ip].tokens + Refills(ip)), idle |-> 0]

\* lastSeen moves only with a refill, and drops the part of a Duration.
Refilled(ip) ==
  IF Refills(ip) = 0 THEN clients[ip]
  ELSE [tokens |-> Smaller(MaxTokens, clients[ip].tokens + Refills(ip)), idle |-> 0]

Bucket(ip) == IF clients[ip] = NoEntry THEN [tokens |-> MaxTokens, idle |-> 0] ELSE Refilled(ip)

CanPass(ip) == Bucket(ip).tokens > 0

Pass(ip) ==
  /\ CanPass(ip)
  /\ clients' = [clients EXCEPT ![ip] = [tokens |-> Bucket(ip).tokens - 1, idle |-> Bucket(ip).idle]]
  /\ exact' = [exact EXCEPT ![ip] = @ - Duration]
  /\ since' = [since EXCEPT ![ip] = 0]

\* 429.
TooMany(ip) ==
  /\ ~ CanPass(ip)
  /\ clients' = [clients EXCEPT ![ip] = Bucket(ip)]
  /\ UNCHANGED <<exact, since>>

\* The clean-up goroutine.
CleanUp ==
  /\ clients' = [ip \in Clients |->
       IF clients[ip] # NoEntry /\ clients[ip].idle > IdleLimit THEN NoEntry ELSE clients[ip]]
  /\ UNCHANGED <<exact, since>>

-----------------------------------------------------------------------------
\* Bound: after IdleLimit it makes no difference how long ago it was.
LimiterTick ==
  /\ clients' = [ip \in Clients |->
       IF clients[ip] = NoEntry THEN NoEntry
       ELSE [tokens |-> clients[ip].tokens, idle |-> Smaller(IdleLimit + 1, clients[ip].idle + 1)]]
  /\ exact' = [ip \in Clients |-> Smaller(Full, exact[ip] + 1)]
  /\ since' = [ip \in Clients |-> Smaller(Duration, since[ip] + 1)]

LimiterInit ==
  /\ clients = [ip \in Clients |-> NoEntry]
  /\ exact = [ip \in Clients |-> Full]
  /\ since = [ip \in Clients |-> Duration]

LimiterNext ==
  \/ \E ip \in Clients : Pass(ip) \/ TooMany(ip)
  \/ CleanUp
  \/ LimiterTick

LimiterSpec == LimiterInit /\ [][LimiterNext]_limiterVars

-----------------------------------------------------------------------------
LimiterTypeOK ==
  /\ clients \in [Clients -> [tokens : 0 .. MaxTokens - 1, idle : 0 .. IdleLimit + 1] \cup {NoEntry}]
  /\ exact \in [Clients -> Int]
  /\ since \in [Clients -> 0 .. Duration]

\* No address gets more than its rate: in any period as long as n times Duration
\* at most MaxTokens + n of its requests pass, whatever the rounding drops and
\* the clean-up forgets.
WithinRate == \A ip \in Clients : exact[ip] >= 0

\* An address that has had no request let through for Duration gets the next one
\* through, however often it was refused meanwhile.
NobodyStarves == \A ip \in Clients : since[ip] >= Duration => CanPass(ip)
=============================================================================
