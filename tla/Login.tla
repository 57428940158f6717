------------------------------- MODULE Login -------------------------------
(***************************************************************************)
(* Logging in while the account changes.  Login reads the row and either   *)
(* answers with a token or, if a second factor is enabled, with a          *)
(* challenge; Verify2FALogin reads the row again, maybe minutes later, and *)
(* asks for a code of the secret it finds there.  In between the requests  *)
(* of Accounts may replace the secret, enable it or disable it.            *)
(*                                                                         *)
(* LoginWithGoogle ends like Login, and what is asked of a visitor here is *)
(* asked of one who comes that way.                                        *)
(***************************************************************************)
EXTENDS Accounts

CONSTANT Visitors   \* bound: the users whose logins are followed

ASSUME LoginAssumption == Visitors \subseteq Users

VARIABLE visit   \* how far the login of a visitor is

loginVars == <<users, request, generated, confirmed, visit>>

Enter(u, where) == visit' = [visit EXCEPT ![u] = where] /\ UNCHANGED accountVars

-----------------------------------------------------------------------------
\* The address and the password are right.
LogIn(u) ==
  /\ visit[u] = "out"
  /\ Exists(u)
  /\ Enter(u, IF users[u].enabled THEN "challenged" ELSE "in")

\* The code is of the secret that the row has by now.  Whether a second factor
\* is still enabled is not asked.
Verify2FALogin(u) ==
  /\ visit[u] = "challenged"
  /\ users[u].secret # None
  /\ Enter(u, "in")

\* The challenge of generatePreAuthToken is not met in five minutes, or not at all.
ChallengeExpires(u) ==
  /\ visit[u] = "challenged"
  /\ Enter(u, "out")

\* The token of generateJWTResponse runs out.
TokenExpires(u) ==
  /\ visit[u] = "in"
  /\ Enter(u, "out")

-----------------------------------------------------------------------------
LoginInit ==
  /\ Init
  /\ visit = [u \in Visitors |-> "out"]

LoginNext ==
  \/ Next /\ UNCHANGED visit
  \/ \E u \in Visitors :
       LogIn(u) \/ Verify2FALogin(u) \/ ChallengeExpires(u) \/ TokenExpires(u)

LoginSpec == LoginInit /\ [][LoginNext]_loginVars

\* A challenge lasts five minutes and no longer.  A visitor tries again after a
\* failure, and shows a code if there is a secret whose code has been shown
\* before: a newer one need not be in anybody's app.
LoginFairness ==
  \A u \in Visitors :
    /\ WF_loginVars(ChallengeExpires(u))
    /\ SF_loginVars(LogIn(u))
    /\ SF_loginVars(users[u] # NoUser /\ users[u].secret \in confirmed /\ Verify2FALogin(u))

FairLoginSpec == LoginSpec /\ LoginFairness

-----------------------------------------------------------------------------
\* Nobody is locked out: a challenge that cannot be met any more, because the
\* secret behind it was replaced or removed, is not asked for at the next try,
\* whatever Enable2FA, Disable2FA and the whole-row save of LoginWithGoogle do
\* meanwhile.
NobodyIsLockedOut ==
  \A u \in Visitors : Exists(u) /\ visit[u] = "out" ~> visit[u] = "in"
=============================================================================
