----------------------------- MODULE IrisToken -----------------------------
(***************************************************************************)
(* The access token of the Iris client.  getAccessToken keeps one token    *)
(* for all payouts and replaces it a minute before it expires; it holds    *)
(* the client's mutex all the way, the request for a new token included,   *)
(* so every other payout waits behind it.                                  *)
(*                                                                         *)
(* Time passes in ticks.  Iris issues a token at some moment of the        *)
(* request and counts its life from there, the client counts from the      *)
(* answer.                                                                 *)
(***************************************************************************)
EXTENDS Integers

CONSTANTS
  Calls,     \* the calls of CreatePayout there may be
  Life,      \* expiresIn of a token, 900 seconds if it is left out
  Margin,    \* the minute before tokenExpiry in which the token is not used
  Timeout,   \* httpClient.Timeout
  NoToken    \* token = "", or one that is not used any more

ASSUME TokenAssumption ==
  /\ Timeout \in Nat
  /\ Margin \in Nat /\ Margin >= 2 * Timeout
  /\ Life \in Nat /\ Life > 2 * Timeout

VARIABLES
  token,   \* left: until tokenExpiry; good: until Iris stops taking it
  mu,      \* mu is locked
  call     \* where every call of CreatePayout is

tokenVars == <<token, mu, call>>

\* good: how long the token that the payout carries will still be taken.
NoCall == [step |-> "none", waited |-> 0, good |-> 0]

InFlight(c) == call[c].step \in {"asking", "sending"}

-----------------------------------------------------------------------------
\* Mutant: the token is used to its last second.
UsableToTheEnd(left) == left > 0

Usable(left) == left > Margin

Fresh == token # NoToken /\ Usable(token.left)

Queue(c) ==
  /\ call[c].step = "none"
  /\ call' = [call EXCEPT ![c].step = "queued"]
  /\ UNCHANGED <<token, mu>>

Send(c, good) ==
  call' = [call EXCEPT ![c] = [step |-> "sending", waited |-> 0, good |-> good]]

\* The mutex is locked, the token found fresh, and the mutex unlocked.
UseToken(c) ==
  /\ call[c].step = "queued" /\ ~ mu
  /\ Fresh
  /\ Send(c, token.good)
  /\ UNCHANGED <<token, mu>>

AskToken(c) ==
  /\ call[c].step = "queued" /\ ~ mu
  /\ ~ Fresh
  /\ mu' = TRUE
  /\ call' = [call EXCEPT ![c].step = "asking"]
  /\ UNCHANGED token

TokenArrives(c) ==
  /\ call[c].step = "asking"
  /\ \E late \in 0 .. call[c].waited :
       /\ token' = [left |-> Life, good |-> Life - late]
       /\ Send(c, Life - late)
  /\ mu' = FALSE

Return(c) == call' = [call EXCEPT ![c] = NoCall]

\* Mutant: a return that does not unlock.
TokenFailsLocked(c) ==
  /\ call[c].step = "asking"
  /\ Return(c)
  /\ UNCHANGED <<token, mu>>

\* There is no key, no answer, another status than 200, or no sense in it.
TokenFails(c) ==
  /\ call[c].step = "asking"
  /\ mu' = FALSE
  /\ Return(c)
  /\ UNCHANGED token

\* The payout request itself is over.
Sent(c) ==
  /\ call[c].step = "sending"
  /\ Return(c)
  /\ UNCHANGED <<token, mu>>

\* The server dies, and the token with it.
ForgetToken ==
  /\ token' = NoToken
  /\ mu' = FALSE
  /\ call' = [c \in Calls |-> NoCall]

\* The client gives up on a request after Timeout.  A token nobody will use is
\* as good as none.
Tick ==
  /\ \A c \in Calls : InFlight(c) => call[c].waited < Timeout
  /\ token' = IF token = NoToken \/ ~ Usable(token.left - 1) THEN NoToken
              ELSE [left |-> token.left - 1, good |-> token.good - 1]
  /\ call' = [c \in Calls |->
       IF InFlight(c) THEN [call[c] EXCEPT !.waited = @ + 1, !.good = IF @ > 0 THEN @ - 1 ELSE @]
       ELSE call[c]]
  /\ UNCHANGED mu

TokenInit ==
  /\ token = NoToken
  /\ mu = FALSE
  /\ call = [c \in Calls |-> NoCall]

-----------------------------------------------------------------------------
TokenTypeOK ==
  /\ token \in [left : 0 .. Life, good : Int] \cup {NoToken}
  /\ mu \in BOOLEAN
  /\ call \in [Calls -> [step : {"none", "queued", "asking", "sending"},
                         waited : 0 .. Timeout, good : 0 .. Life]]

\* No payout reaches Iris with a token that has run out on the way, whoever
\* fetched it, however long the answers took.
TokenHolds == \A c \in Calls : call[c].step = "sending" => call[c].good > 0
=============================================================================
