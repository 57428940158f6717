------------------------------ MODULE Accounts ------------------------------
(***************************************************************************)
(* The users table under authUsecase: Register, LoginWithGoogle and the    *)
(* three handlers of two-factor authentication.  Each of them reads a row, *)
(* goes on with its copy, and writes later, with nothing held in between.  *)
(* Only the unique indexes, and the columns an UPDATE names, stand between *)
(* two of them: LoginWithGoogle saves its whole copy.                      *)
(*                                                                         *)
(* Those that only read are left out here (Login has two of them), and the *)
(* wallet comes with the user in one database transaction.                 *)
(***************************************************************************)
EXTENDS Integers, FiniteSets

CONSTANTS
  Requests,   \* goroutines that serve a request
  Users,      \* the primary keys the table will ever hold
  Emails,
  Names,      \* usernames
  Googles,    \* Google accounts
  EmailOf,    \* the address a Google account comes with
  Secrets,    \* the TOTP secrets that will ever be generated
  None,       \* NULL, in google_id or two_factor_secret
  NoUser      \* no row with this key

\* codes: two_factor_recovery_codes is not NULL.  The password, the avatar and
\* the codes themselves make no difference here.
User == [email : Emails, name : Names, google : Googles \cup {None},
         secret : Secrets \cup {None}, codes : BOOLEAN, enabled : BOOLEAN]

ASSUME AccountsAssumption ==
  /\ Users # {} /\ Emails # {} /\ Names # {}
  /\ EmailOf \in [Googles -> Emails]
  /\ None \notin Googles \cup Secrets
  /\ NoUser \notin User

VARIABLES
  users,      \* the users table
  request,    \* what every goroutine is doing, with the row it has read
  generated,  \* the secrets generated so far
  confirmed   \* those whose owner has shown a code of them

accountVars == <<users, request, generated, confirmed>>

Row(email, name, google) ==
  [email |-> email, name |-> name, google |-> google,
   secret |-> None, codes |-> FALSE, enabled |-> FALSE]

\* step: what the goroutine does next; key and row: the row it works on.
Idle == [step |-> "idle", key |-> CHOOSE u \in Users : TRUE,
         row |-> Row(CHOOSE e \in Emails : TRUE, CHOOSE n \in Names : TRUE, None)]

Exists(u) == users[u] # NoUser

With(column, v) == {u \in Users : Exists(u) /\ users[u][column] = v}

At(r, step) == request[r].step = step

Becomes(r, new) == request' = [request EXCEPT ![r] = new]

Answer(r) == Becomes(r, Idle)

\* Mutant: no unique indexes.
NoIndex(u, row) == u \in Users

\* The unique indexes on email, username and google_id, which admits many NULLs.
Unique(u, row) ==
  \A k \in Users \ {u} : Exists(k) =>
    /\ users[k].email # row.email
    /\ users[k].name # row.name
    /\ users[k].google = None \/ users[k].google # row.google

-----------------------------------------------------------------------------
(***************************************************************************)
(* Register.  Where a check says no, or a query fails, the request is over *)
(* (GiveUp).                                                               *)
(***************************************************************************)
Register(r, email, name) ==
  /\ At(r, "idle")
  /\ With("email", email) = {}
  /\ Becomes(r, [Idle EXCEPT !.step = "register", !.row = Row(email, name, None)])
  /\ UNCHANGED <<users, generated, confirmed>>

CheckUsername(r) ==
  /\ At(r, "register")
  /\ With("name", request[r].row.name) = {}
  /\ Becomes(r, [request[r] EXCEPT !.step = "insert"])
  /\ UNCHANGED <<users, generated, confirmed>>

\* CreateUserWithWallet.
Create(r) ==
  /\ At(r, "insert")
  /\ \E u \in Users :
       /\ ~ Exists(u) /\ u = CHOOSE k \in Users : ~ Exists(k)
       /\ Unique(u, request[r].row)
       /\ users' = [users EXCEPT ![u] = request[r].row]
  /\ Answer(r)
  /\ UNCHANGED <<generated, confirmed>>

-----------------------------------------------------------------------------
(***************************************************************************)
(* LoginWithGoogle.                                                        *)
(***************************************************************************)
LoginWithGoogle(r, g) ==
  /\ At(r, "idle")
  /\ \/ \E u \in With("google", g) : Becomes(r, [step |-> "save", key |-> u, row |-> users[u]])
     \/ /\ With("google", g) = {}
        /\ Becomes(r, [Idle EXCEPT !.step = "byEmail", !.row.email = EmailOf[g], !.row.google = g])
  /\ UNCHANGED <<users, generated, confirmed>>

FindByEmail(r) ==
  /\ At(r, "byEmail")
  /\ LET asked == request[r].row
         found == With("email", asked.email)
     IN \/ \E u \in found :
             Becomes(r, [step |-> "save", key |-> u, row |-> [users[u] EXCEPT !.google = asked.google]])
        \/ found = {} /\ Becomes(r, [request[r] EXCEPT !.step = "naming"])
  /\ UNCHANGED <<users, generated, confirmed>>

\* Mutant: the address serves as the name.
EmailAsName(r) ==
  /\ At(r, "naming")
  /\ Becomes(r, [request[r] EXCEPT !.step = "insert", !.row.name = request[r].row.email])
  /\ UNCHANGED <<users, generated, confirmed>>

\* The first of name, name1, name2, ... that is not taken: with the names other
\* people have, it can be any.
ChooseName(r) ==
  /\ At(r, "naming")
  /\ \E n \in Names :
       /\ With("name", n) = {}
       /\ Becomes(r, [request[r] EXCEPT !.step = "insert", !.row.name = n])
  /\ UNCHANGED <<users, generated, confirmed>>

\* UpdateUser: every column of the copy.
SaveUser(r) ==
  /\ At(r, "save")
  /\ Unique(request[r].key, request[r].row)
  /\ users' = [users EXCEPT ![request[r].key] = request[r].row]
  /\ Answer(r)
  /\ UNCHANGED <<generated, confirmed>>

-----------------------------------------------------------------------------
(***************************************************************************)
(* Two-factor authentication.                                              *)
(***************************************************************************)
\* Of the row it reads, Generate2FASecret needs only that it is there.
Generate2FASecret(u) ==
  /\ Exists(u)
  /\ \E s \in Secrets \ generated :
       /\ s = CHOOSE x \in Secrets \ generated : TRUE
       /\ users' = [users EXCEPT ![u].secret = s, ![u].enabled = FALSE]
       /\ generated' = generated \cup {s}
  /\ UNCHANGED <<request, confirmed>>

\* Enable2FA reads the row and the code of its secret is right.
CheckCode(r, u) ==
  /\ At(r, "idle")
  /\ Exists(u) /\ users[u].secret # None
  /\ Becomes(r, [step |-> "enable", key |-> u, row |-> users[u]])
  /\ confirmed' = confirmed \cup {users[u].secret}
  /\ UNCHANGED <<users, generated>>

\* Mutant: the flag is set and the secret left as it is.
EnableFlag(r) ==
  /\ At(r, "enable")
  /\ users' = [users EXCEPT ![request[r].key].codes = TRUE, ![request[r].key].enabled = TRUE]
  /\ Answer(r)
  /\ UNCHANGED <<generated, confirmed>>

\* Its UPDATE names the secret again, that of the copy.
Enable2FA(r) ==
  /\ At(r, "enable")
  /\ LET u == request[r].key IN
       users' = [users EXCEPT ![u].secret = request[r].row.secret,
                              ![u].codes = TRUE, ![u].enabled = TRUE]
  /\ Answer(r)
  /\ UNCHANGED <<generated, confirmed>>

\* Disable2FA reads an enabled row, and the code it is given is right.
CheckDisable(r, u) ==
  /\ At(r, "idle")
  /\ Exists(u) /\ users[u].enabled
  /\ Becomes(r, [step |-> "disable", key |-> u, row |-> users[u]])
  /\ UNCHANGED <<users, generated, confirmed>>

\* Mutant: the flag is forgotten.
DisableKeepsFlag(r) ==
  /\ At(r, "disable")
  /\ users' = [users EXCEPT ![request[r].key].secret = None, ![request[r].key].codes = FALSE]
  /\ Answer(r)
  /\ UNCHANGED <<generated, confirmed>>

Disable2FA(r) ==
  /\ At(r, "disable")
  /\ LET u == request[r].key IN
       users' = [users EXCEPT ![u].secret = None, ![u].codes = FALSE, ![u].enabled = FALSE]
  /\ Answer(r)
  /\ UNCHANGED <<generated, confirmed>>

\* An error is returned, or the server dies.
GiveUp(r) ==
  /\ ~ At(r, "idle")
  /\ Answer(r)
  /\ UNCHANGED <<users, generated, confirmed>>

-----------------------------------------------------------------------------
Init ==
  /\ users = [u \in Users |-> NoUser]
  /\ request = [r \in Requests |-> Idle]
  /\ generated = {}
  /\ confirmed = {}

Next ==
  \/ \E r \in Requests :
       \/ \E email \in Emails, name \in Names : Register(r, email, name)
       \/ CheckUsername(r) \/ Create(r)
       \/ \E g \in Googles : LoginWithGoogle(r, g)
       \/ FindByEmail(r) \/ ChooseName(r) \/ SaveUser(r)
       \/ \E u \in Users : CheckCode(r, u) \/ CheckDisable(r, u)
       \/ Enable2FA(r) \/ Disable2FA(r)
       \/ GiveUp(r)
  \/ \E u \in Users : Generate2FASecret(u)

Spec == Init /\ [][Next]_accountVars

-----------------------------------------------------------------------------
(***************************************************************************)
(* Properties.                                                             *)
(***************************************************************************)
\* The table and the copies hold rows.
TypeOK ==
  /\ users \in [Users -> User \cup {NoUser}]
  /\ request \in [Requests ->
       [step : {"idle", "register", "insert", "byEmail", "naming", "save", "enable", "disable"},
        key : Users, row : User]]
  /\ confirmed \subseteq generated /\ generated \subseteq Secrets

\* Two requests that find an address, a name or a Google account free do not
\* both get it.
OneUserEach ==
  \A u, k \in Users : Exists(u) /\ Exists(k) /\ u # k =>
    /\ users[u].email # users[k].email
    /\ users[u].name # users[k].name
    /\ users[u].google # None => users[u].google # users[k].google

\* Whatever overtakes whatever, a user of whom a second factor is asked has one,
\* and recovery codes: Verify2FALogin does not end in "2FA secret missing".
EnabledIsUsable ==
  \A u \in Users : Exists(u) /\ users[u].enabled => users[u].secret # None /\ users[u].codes

\* The secret a user is asked for is one whose code the user has shown, not a
\* newer one that Generate2FASecret wrote while Enable2FA was checking.
EnabledIsConfirmed ==
  \A u \in Users : Exists(u) /\ users[u].enabled => users[u].secret \in confirmed
=============================================================================
