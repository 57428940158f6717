--------------------------- MODULE AccountsProofs ---------------------------
(***************************************************************************)
(* Theorems about Accounts, for any number of requests and users.          *)
(*                                                                         *)
(* The argument: a copy of a row is a row that once was in the table, so   *)
(* whatever holds of every row for good holds of the copies too, and it    *)
(* is not lost when SaveUser puts an old copy back.                        *)
(***************************************************************************)
EXTENDS Accounts, TLAPS

\* A row has a secret that was generated, and one that demands a second factor
\* has it confirmed and comes with recovery codes.
Sound(row, known, shown) ==
  /\ row.secret \in known \cup {None}
  /\ row.enabled => row.secret \in shown /\ row.codes

RowsSound == \A u \in Users : Exists(u) => Sound(users[u], generated, confirmed)

\* The copies are sound too, Enable2FA only writes a secret that was confirmed
\* when it was read, and what is to be updated is in the table.
CopiesSound ==
  \A r \in Requests :
    /\ Sound(request[r].row, generated, confirmed)
    /\ At(r, "enable") => request[r].row.secret \in confirmed
    /\ request[r].step \in {"save", "enable", "disable"} => Exists(request[r].key)

AccInv == TypeOK /\ OneUserEach /\ RowsSound /\ CopiesSound

Steps == {"idle", "register", "insert", "byEmail", "naming", "save", "enable", "disable"}

Work == [step : Steps, key : Users, row : User]

-----------------------------------------------------------------------------
\* What a new row and a goroutine without work are: neither has a secret.
LEMMA IdleFacts ==
  /\ \A email \in Emails, name \in Names, google \in Googles \cup {None} :
       /\ Row(email, name, google) \in User
       /\ Row(email, name, google).secret = None
       /\ ~ Row(email, name, google).enabled
  /\ Idle \in Work /\ Idle.row.secret = None /\ ~ Idle.row.enabled /\ Idle.step = "idle"
<1>1. \A email \in Emails, name \in Names, google \in Googles \cup {None} :
        /\ Row(email, name, google) \in User
        /\ Row(email, name, google).secret = None
        /\ ~ Row(email, name, google).enabled
  BY DEF Row, User
<1>2. /\ (CHOOSE u \in Users : TRUE) \in Users
      /\ (CHOOSE e \in Emails : TRUE) \in Emails
      /\ (CHOOSE n \in Names : TRUE) \in Names
  BY AccountsAssumption DEF AccountsAssumption
<1> QED
  BY <1>1, <1>2 DEF Idle, Work, Steps

\* The invariant holds at the start.
LEMMA AccInit == Init => AccInv
<1> SUFFICES ASSUME Init PROVE AccInv
  OBVIOUS
<1>1. TypeOK
  BY IdleFacts DEF Init, TypeOK, Work, Steps
<1>2. \A u \in Users : ~ Exists(u)
  BY DEF Init, Exists
<1>3. OneUserEach /\ RowsSound
  BY <1>2 DEF OneUserEach, RowsSound
<1>4. CopiesSound
  BY IdleFacts DEF Init, CopiesSound, Sound, At
<1> QED
  BY <1>1, <1>3, <1>4 DEF AccInv

-----------------------------------------------------------------------------
\* A step of one goroutine that leaves the table alone: it is enough to look at
\* what the goroutine has in hand afterwards.
LEMMA CopyStep ==
  ASSUME AccInv, NEW r \in Requests, NEW new \in Work,
         request' = [request EXCEPT ![r] = new],
         UNCHANGED <<users, generated>>,
         confirmed \subseteq confirmed', confirmed' \subseteq generated,
         Sound(new.row, generated', confirmed'),
         new.step = "enable" => new.row.secret \in confirmed',
         new.step \in {"save", "enable", "disable"} => Exists(new.key)
  PROVE  AccInv'
<1>1. request \in [Requests -> Work]
  BY DEF AccInv, TypeOK, Work, Steps
<1>2. TypeOK'
  BY <1>1 DEF AccInv, TypeOK, Work, Steps
<1>3. OneUserEach'
  BY DEF AccInv, OneUserEach, Exists
<1>4. RowsSound'
  BY DEF AccInv, RowsSound, Exists, Sound
<1>5. CopiesSound'
  BY <1>1 DEF AccInv, CopiesSound, Sound, At, Exists
<1> QED
  BY <1>2, <1>3, <1>4, <1>5 DEF AccInv

\* A step that writes one row: the row is sound and collides with no other, and
\* the goroutines that had a part in it are idle again.
LEMMA WriteStep ==
  ASSUME AccInv, NEW u \in Users, NEW row \in User, NEW S \in SUBSET Requests,
         users' = [users EXCEPT ![u] = row],
         request' = [r \in Requests |-> IF r \in S THEN Idle ELSE request[r]],
         confirmed' = confirmed,
         generated \subseteq generated', generated' \subseteq Secrets,
         Sound(row, generated', confirmed'), Unique(u, row)
  PROVE  AccInv'
<1>1. row # NoUser
  BY AccountsAssumption DEF AccountsAssumption
<1>2. /\ \A k \in Users : k # u => users'[k] = users[k]
      /\ users'[u] = row
  BY DEF AccInv, TypeOK
<1>3. TypeOK'
  BY IdleFacts DEF AccInv, TypeOK, Work, Steps
<1>4. OneUserEach'
  BY <1>1, <1>2 DEF AccInv, OneUserEach, Exists, Unique
<1>5. RowsSound'
  BY <1>1, <1>2 DEF AccInv, RowsSound, Exists, Sound
<1>6. CopiesSound'
  BY <1>1, <1>2, IdleFacts DEF AccInv, CopiesSound, Exists, Sound, At
<1> QED
  BY <1>3, <1>4, <1>5, <1>6 DEF AccInv

\* A row of the table that keeps its identity collides with no other.
LEMMA StaysUnique ==
  ASSUME AccInv, NEW u \in Users, Exists(u), NEW row,
         row.email = users[u].email, row.name = users[u].name, row.google = users[u].google
  PROVE  Unique(u, row)
BY DEF AccInv, OneUserEach, Unique

\* Answering makes one goroutine idle.
LEMMA AnswerIdles ==
  ASSUME AccInv, NEW r \in Requests, Answer(r)
  PROVE  request' = [q \in Requests |-> IF q \in {r} THEN Idle ELSE request[q]]
BY DEF AccInv, TypeOK, Answer, Becomes

-----------------------------------------------------------------------------
\* Every action keeps the invariant.
LEMMA AccNext == AccInv /\ [Next]_accountVars => AccInv'
<1> SUFFICES ASSUME AccInv, [Next]_accountVars PROVE AccInv'
  OBVIOUS
<1>t. /\ request \in [Requests -> Work]
      /\ \A u \in Users : Exists(u) => users[u] \in User
      /\ confirmed \subseteq generated /\ generated \subseteq Secrets
  BY DEF AccInv, TypeOK, Work, Steps, Exists
<1>s. /\ \A u \in Users : Exists(u) => Sound(users[u], generated, confirmed)
      /\ \A r \in Requests : Sound(request[r].row, generated, confirmed)
  BY DEF AccInv, RowsSound, CopiesSound
<1>1. ASSUME NEW r \in Requests, NEW email \in Emails, NEW name \in Names, Register(r, email, name)
      PROVE  AccInv'
  <2>1. PICK new \in Work :
          /\ new = [Idle EXCEPT !.step = "register", !.row = Row(email, name, None)]
          /\ new.step = "register" /\ Sound(new.row, generated, confirmed)
    <3>1. LET new == [Idle EXCEPT !.step = "register", !.row = Row(email, name, None)]
           IN  /\ new \in Work
               /\ new.step = "register" /\ Sound(new.row, generated, confirmed)
      BY IdleFacts DEF Work, Steps, Sound
    <3> QED
      BY <3>1
  <2>2. request' = [request EXCEPT ![r] = new] /\ UNCHANGED <<users, generated, confirmed>>
    BY <1>1, <2>1 DEF Register, Becomes
  <2> QED
    BY <1>t, <2>1, <2>2, CopyStep
<1>2. ASSUME NEW r \in Requests, CheckUsername(r)
      PROVE  AccInv'
  <2>1. PICK new \in Work :
          /\ new = [request[r] EXCEPT !.step = "insert"]
          /\ new.step = "insert" /\ Sound(new.row, generated, confirmed)
    <3>1. LET new == [request[r] EXCEPT !.step = "insert"]
           IN  /\ new \in Work
               /\ new.step = "insert" /\ Sound(new.row, generated, confirmed)
      BY <1>t, <1>s DEF Work, Steps
    <3> QED
      BY <3>1
  <2>2. request' = [request EXCEPT ![r] = new] /\ UNCHANGED <<users, generated, confirmed>>
    BY <1>2, <2>1 DEF CheckUsername, Becomes
  <2> QED
    BY <1>t, <2>1, <2>2, CopyStep
<1>3. ASSUME NEW r \in Requests, Create(r)
      PROVE  AccInv'
  <2>1. PICK u \in Users, row \in User :
          /\ row = request[r].row /\ Sound(row, generated, confirmed)
          /\ Unique(u, row) /\ users' = [users EXCEPT ![u] = row]
    BY <1>3, <1>t, <1>s DEF Create, Work
  <2>2. /\ request' = [q \in Requests |-> IF q \in {r} THEN Idle ELSE request[q]]
        /\ UNCHANGED <<generated, confirmed>>
    BY <1>3, AnswerIdles DEF Create
  <2> QED
    BY <1>t, <2>1, <2>2, WriteStep
<1>4. ASSUME NEW r \in Requests, NEW g \in Googles, LoginWithGoogle(r, g)
      PROVE  AccInv'
  <2>1. UNCHANGED <<users, generated, confirmed>>
    BY <1>4 DEF LoginWithGoogle
  <2>2. CASE \E u \in With("google", g) : Becomes(r, [step |-> "save", key |-> u, row |-> users[u]])
    <3>1. PICK u \in Users : Exists(u) /\ Becomes(r, [step |-> "save", key |-> u, row |-> users[u]])
      BY <2>2 DEF With
    <3>2. PICK new \in Work :
            /\ new = [step |-> "save", key |-> u, row |-> users[u]]
            /\ new.step = "save" /\ Exists(new.key) /\ Sound(new.row, generated, confirmed)
      BY <1>t, <1>s, <3>1 DEF Work, Steps
    <3> QED
      BY <1>t, <2>1, <3>1, <3>2, CopyStep DEF Becomes
  <2>3. CASE Becomes(r, [Idle EXCEPT !.step = "byEmail", !.row.email = EmailOf[g], !.row.google = g])
    <3>1. PICK new \in Work :
            /\ new = [Idle EXCEPT !.step = "byEmail", !.row.email = EmailOf[g], !.row.google = g]
            /\ new.step = "byEmail" /\ Sound(new.row, generated, confirmed)
      <4>1. LET new == [Idle EXCEPT !.step = "byEmail", !.row.email = EmailOf[g], !.row.google = g]
             IN  /\ new \in Work
                 /\ new.step = "byEmail" /\ Sound(new.row, generated, confirmed)
        BY IdleFacts, AccountsAssumption DEF AccountsAssumption, Work, Steps, User, Sound
      <4> QED
        BY <4>1
    <3> QED
      BY <1>t, <2>1, <2>3, <3>1, CopyStep DEF Becomes
  <2> QED
    BY <1>4, <2>2, <2>3 DEF LoginWithGoogle
<1>5. ASSUME NEW r \in Requests, FindByEmail(r)
      PROVE  AccInv'
  <2>1. UNCHANGED <<users, generated, confirmed>> /\ request[r] \in Work
    BY <1>5, <1>t DEF FindByEmail
  <2>2. CASE \E u \in With("email", request[r].row.email) :
               Becomes(r, [step |-> "save", key |-> u,
                           row |-> [users[u] EXCEPT !.google = request[r].row.google]])
    <3>1. PICK u \in Users :
            /\ Exists(u)
            /\ Becomes(r, [step |-> "save", key |-> u,
                           row |-> [users[u] EXCEPT !.google = request[r].row.google]])
      BY <2>2 DEF With
    <3>2. PICK row \in User :
            /\ row = [users[u] EXCEPT !.google = request[r].row.google]
            /\ Sound(row, generated, confirmed)
      BY <1>t, <1>s, <2>1, <3>1 DEF Work, User, Sound
    <3>3. PICK new \in Work :
            /\ new = [step |-> "save", key |-> u, row |-> row]
            /\ new.step = "save" /\ Exists(new.key) /\ Sound(new.row, generated, confirmed)
      BY <3>1, <3>2 DEF Work, Steps
    <3> QED
      BY <1>t, <2>1, <3>1, <3>2, <3>3, CopyStep DEF Becomes
  <2>3. CASE Becomes(r, [request[r] EXCEPT !.step = "naming"])
    <3>1. PICK new \in Work :
            /\ new = [request[r] EXCEPT !.step = "naming"]
            /\ new.step = "naming" /\ Sound(new.row, generated, confirmed)
      <4>1. LET new == [request[r] EXCEPT !.step = "naming"]
             IN  /\ new \in Work
                 /\ new.step = "naming" /\ Sound(new.row, generated, confirmed)
        BY <1>s, <2>1 DEF Work, Steps
      <4> QED
        BY <4>1
    <3> QED
      BY <1>t, <2>1, <2>3, <3>1, CopyStep DEF Becomes
  <2> QED
    BY <1>5, <2>2, <2>3 DEF FindByEmail
<1>6. ASSUME NEW r \in Requests, ChooseName(r)
      PROVE  AccInv'
  <2>1. PICK n \in Names : Becomes(r, [request[r] EXCEPT !.step = "insert", !.row.name = n])
    BY <1>6 DEF ChooseName
  <2>2. UNCHANGED <<users, generated, confirmed>> /\ request[r] \in Work
    BY <1>6, <1>t DEF ChooseName
  <2>3. PICK new \in Work :
          /\ new = [request[r] EXCEPT !.step = "insert", !.row.name = n]
          /\ new.step = "insert" /\ Sound(new.row, generated, confirmed)
    <3>1. LET new == [request[r] EXCEPT !.step = "insert", !.row.name = n]
           IN  /\ new \in Work
               /\ new.step = "insert" /\ Sound(new.row, generated, confirmed)
      BY <1>s, <2>2 DEF Work, Steps, User, Sound
    <3> QED
      BY <3>1
  <2> QED
    BY <1>t, <2>1, <2>2, <2>3, CopyStep DEF Becomes
<1>7. ASSUME NEW r \in Requests, SaveUser(r)
      PROVE  AccInv'
  <2>1. PICK u \in Users, row \in User :
          /\ row = request[r].row /\ Sound(row, generated, confirmed)
          /\ Unique(u, row) /\ users' = [users EXCEPT ![u] = row]
    BY <1>7, <1>t, <1>s DEF SaveUser, Work
  <2>2. /\ request' = [q \in Requests |-> IF q \in {r} THEN Idle ELSE request[q]]
        /\ UNCHANGED <<generated, confirmed>>
    BY <1>7, AnswerIdles DEF SaveUser
  <2> QED
    BY <1>t, <2>1, <2>2, WriteStep
<1>8. ASSUME NEW r \in Requests, NEW u \in Users, CheckCode(r, u)
      PROVE  AccInv'
  <2>1. /\ Exists(u) /\ users[u].secret # None
        /\ Becomes(r, [step |-> "enable", key |-> u, row |-> users[u]])
        /\ confirmed' = confirmed \cup {users[u].secret} /\ UNCHANGED <<users, generated>>
    BY <1>8 DEF CheckCode
  <2>2. confirmed' \subseteq generated
    BY <1>t, <1>s, <2>1 DEF Sound
  <2>3. PICK new \in Work :
          /\ new = [step |-> "enable", key |-> u, row |-> users[u]]
          /\ Exists(new.key) /\ Sound(new.row, generated', confirmed')
          /\ new.row.secret \in confirmed'
    BY <1>t, <1>s, <2>1 DEF Work, Steps, Sound
  <2> QED
    BY <2>1, <2>2, <2>3, CopyStep DEF Becomes
<1>9. ASSUME NEW r \in Requests, NEW u \in Users, CheckDisable(r, u)
      PROVE  AccInv'
  <2>1. /\ Exists(u) /\ Becomes(r, [step |-> "disable", key |-> u, row |-> users[u]])
        /\ UNCHANGED <<users, generated, confirmed>>
    BY <1>9 DEF CheckDisable
  <2>2. PICK new \in Work :
          /\ new = [step |-> "disable", key |-> u, row |-> users[u]]
          /\ new.step = "disable" /\ Exists(new.key) /\ Sound(new.row, generated, confirmed)
    BY <1>t, <1>s, <2>1 DEF Work, Steps
  <2> QED
    BY <1>t, <2>1, <2>2, CopyStep DEF Becomes
<1>10. ASSUME NEW r \in Requests, Enable2FA(r)
       PROVE  AccInv'
  <2>1. PICK u \in Users : u = request[r].key /\ Exists(u)
    BY <1>10, <1>t DEF Enable2FA, At, AccInv, CopiesSound, Work
  <2>2. request[r].row.secret \in confirmed
    BY <1>10 DEF Enable2FA, AccInv, CopiesSound
  <2>3. PICK row \in User :
          /\ row = [users[u] EXCEPT !.secret = request[r].row.secret, !.codes = TRUE, !.enabled = TRUE]
          /\ Sound(row, generated, confirmed)
          /\ row.email = users[u].email /\ row.name = users[u].name /\ row.google = users[u].google
    <3>1. LET row == [users[u] EXCEPT !.secret = request[r].row.secret, !.codes = TRUE, !.enabled = TRUE]
           IN  /\ row \in User
               /\ Sound(row, generated, confirmed)
               /\ row.email = users[u].email /\ row.name = users[u].name /\ row.google = users[u].google
      BY <1>t, <2>1, <2>2 DEF User, Sound
    <3> QED
      BY <3>1
  <2>4. /\ users' = [users EXCEPT ![u] = row]
        /\ request' = [q \in Requests |-> IF q \in {r} THEN Idle ELSE request[q]]
        /\ UNCHANGED <<generated, confirmed>>
    BY <1>10, <2>1, <2>3, AnswerIdles DEF Enable2FA, AccInv, TypeOK
  <2>5. Unique(u, row)
    BY <2>1, <2>3, StaysUnique
  <2>6. Sound(row, generated', confirmed') /\ generated \subseteq generated' /\ generated' \subseteq Secrets
    BY <1>t, <2>3, <2>4
  <2>7. u \in Users /\ row \in User /\ {r} \in SUBSET Requests
    BY <2>1, <2>3, <1>10
  <2> QED
    BY <2>4, <2>5, <2>6, <2>7, WriteStep
<1>11. ASSUME NEW r \in Requests, Disable2FA(r)
       PROVE  AccInv'
  <2>1. PICK u \in Users : u = request[r].key /\ Exists(u)
    BY <1>11, <1>t DEF Disable2FA, At, AccInv, CopiesSound, Work
  <2>2. PICK row \in User :
          /\ row = [users[u] EXCEPT !.secret = None, !.codes = FALSE, !.enabled = FALSE]
          /\ Sound(row, generated, confirmed)
          /\ row.email = users[u].email /\ row.name = users[u].name /\ row.google = users[u].google
    <3>1. LET row == [users[u] EXCEPT !.secret = None, !.codes = FALSE, !.enabled = FALSE]
           IN  /\ row \in User
               /\ Sound(row, generated, confirmed)
               /\ row.email = users[u].email /\ row.name = users[u].name /\ row.google = users[u].google
      BY <1>t, <2>1 DEF User, Sound
    <3> QED
      BY <3>1
  <2>3. /\ users' = [users EXCEPT ![u] = row]
        /\ request' = [q \in Requests |-> IF q \in {r} THEN Idle ELSE request[q]]
        /\ UNCHANGED <<generated, confirmed>>
    BY <1>11, <2>1, <2>2, AnswerIdles DEF Disable2FA, AccInv, TypeOK
  <2>4. Unique(u, row)
    BY <2>1, <2>2, StaysUnique
  <2>5. Sound(row, generated', confirmed') /\ generated \subseteq generated' /\ generated' \subseteq Secrets
    BY <1>t, <2>2, <2>3
  <2>6. u \in Users /\ row \in User /\ {r} \in SUBSET Requests
    BY <2>1, <2>2, <1>11
  <2> QED
    BY <2>3, <2>4, <2>5, <2>6, WriteStep
<1>12. ASSUME NEW r \in Requests, GiveUp(r)
       PROVE  AccInv'
  <2>1. request' = [request EXCEPT ![r] = Idle] /\ UNCHANGED <<users, generated, confirmed>>
    BY <1>12 DEF GiveUp, Answer, Becomes
  <2>2. Idle \in Work /\ Idle.step = "idle" /\ Sound(Idle.row, generated, confirmed)
    BY IdleFacts DEF Sound
  <2> QED
    BY <1>t, <2>1, <2>2, CopyStep
<1>13. ASSUME NEW u \in Users, Generate2FASecret(u)
       PROVE  AccInv'
  <2>1. PICK s \in Secrets :
          /\ Exists(u)
          /\ users' = [users EXCEPT ![u].secret = s, ![u].enabled = FALSE]
          /\ generated' = generated \cup {s} /\ UNCHANGED <<request, confirmed>>
    BY <1>13 DEF Generate2FASecret
  <2>2. PICK row \in User :
          /\ row = [users[u] EXCEPT !.secret = s, !.enabled = FALSE]
          /\ Sound(row, generated', confirmed')
          /\ row.email = users[u].email /\ row.name = users[u].name /\ row.google = users[u].google
    <3>1. LET row == [users[u] EXCEPT !.secret = s, !.enabled = FALSE]
           IN  /\ row \in User
               /\ Sound(row, generated', confirmed')
               /\ row.email = users[u].email /\ row.name = users[u].name /\ row.google = users[u].google
      BY <1>t, <2>1 DEF User, Sound
    <3> QED
      BY <3>1
  <2>3. /\ users' = [users EXCEPT ![u] = row]
        /\ request' = [q \in Requests |-> IF q \in {} THEN Idle ELSE request[q]]
    BY <1>t, <2>1, <2>2 DEF AccInv, TypeOK
  <2>4. Unique(u, row)
    BY <2>1, <2>2, StaysUnique
  <2>5. /\ Sound(row, generated', confirmed') /\ confirmed' = confirmed
        /\ generated \subseteq generated' /\ generated' \subseteq Secrets
    BY <1>t, <2>1, <2>2
  <2>6. u \in Users /\ row \in User /\ {} \in SUBSET Requests
    BY <2>1, <2>2
  <2> QED
    BY <2>3, <2>4, <2>5, <2>6, WriteStep
<1>14. CASE UNCHANGED accountVars
  BY <1>14 DEF accountVars, AccInv, TypeOK, OneUserEach, RowsSound, CopiesSound, Sound, Exists, At
<1> QED
  BY <1>1, <1>2, <1>3, <1>4, <1>5, <1>6, <1>7, <1>8, <1>9, <1>10, <1>11, <1>12, <1>13, <1>14 DEF Next

-----------------------------------------------------------------------------
\* The inductive invariant.
THEOREM AccountsInvariant == Spec => []AccInv
BY AccInit, AccNext, PTL DEF Spec

\* The table and every copy of a row are well-formed.
THEOREM AccountsTypes == Spec => []TypeOK
<1>1. AccInv => TypeOK
  BY DEF AccInv
<1> QED
  BY <1>1, AccountsInvariant, PTL

\* No two users ever share an address, a name or a Google account.
THEOREM AccountsUnique == Spec => []OneUserEach
<1>1. AccInv => OneUserEach
  BY DEF AccInv
<1> QED
  BY <1>1, AccountsInvariant, PTL

\* A user of whom a second factor is asked has one, and recovery codes.
THEOREM AccountsUsable == Spec => []EnabledIsUsable
<1>1. AccInv => EnabledIsUsable
  BY AccountsAssumption DEF AccInv, TypeOK, RowsSound, Sound, EnabledIsUsable, AccountsAssumption
<1> QED
  BY <1>1, AccountsInvariant, PTL

\* It is one whose code the user has shown.
THEOREM AccountsConfirmed == Spec => []EnabledIsConfirmed
<1>1. AccInv => EnabledIsConfirmed
  BY DEF AccInv, RowsSound, Sound, EnabledIsConfirmed
<1> QED
  BY <1>1, AccountsInvariant, PTL
=============================================================================
