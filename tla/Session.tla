------------------------------ MODULE Session ------------------------------
(***************************************************************************)
(* hotline::net::Session: the server's side of the login choreography.     *)
(*                                                                         *)
(* process() is given every transaction a connection dispatches, and       *)
(* returns the reply to queue, if any.  A client may send any transaction  *)
(* in any state, log in again, as somebody else too, and repeat or forge   *)
(* replies.  The user database behind lookup_user belongs to the server    *)
(* application and changes while the session lives.                        *)
(***************************************************************************)
EXTENDS Naturals

CONSTANTS
  RawLogins,     \* login names as sent, unscrambled
  Logins,        \* normalized login names
  Normal,        \* normalize_login(): lower case, '\r' to '-'
  Passwords,     \* scrambled passwords, compared as they are
  AccessMasks,   \* access rights
  NoAccess,      \* the mask of a session that never logged in
  NoLogin,       \* its empty login name
  Ids,           \* transaction ids
  None           \* no reply, a field that is missing, a user not found

ASSUME SessionAssumption ==
  /\ Normal \in [RawLogins -> Logins]
  /\ NoAccess \in AccessMasks
  /\ NoLogin \notin Logins
  /\ None \notin Passwords \cup RawLogins

VARIABLES
  state,    \* state_
  login,    \* login_
  access,   \* access_
  reply,    \* what process() returned last
  users,    \* the user database lookup_user consults
  granted   \* who was given which rights on an exact password (history)

vars == <<state, login, access, reply, users, granted>>

States == {"fresh", "awaiting_agreement", "active", "closed"}

UserRecord == [password : Passwords, access : AccessMasks]
Replies    == [id : Ids, error : {0, 1}]

\* What a Login transaction may carry: fields that do not decode, or a name
\* and a password, each possibly missing (an empty name counts as missing).
LoginBody == [decodes : BOOLEAN, name : RawLogins \cup {None},
              password : Passwords \cup {None}]

\* login_ and access_ only ever hold a normalized name and a mask.
TypeOK ==
  /\ state \in States
  /\ login \in Logins \cup {NoLogin}
  /\ access \in AccessMasks
  /\ reply = None \/ reply \in Replies
  /\ users \in [Logins -> UserRecord \cup {None}]
  /\ granted \subseteq Logins \X AccessMasks

Init ==
  /\ state = "fresh"
  /\ login = NoLogin
  /\ access = NoAccess
  /\ reply = None
  /\ users \in [Logins -> UserRecord \cup {None}]
  /\ granted = {}

---------------------------------------------------------------------------

WellFormed(body) ==
  body.decodes /\ body.name # None /\ body.password # None

\* What the database vouches for: the rights of the account a name and a
\* password belong to.
Vouched(body) ==
  {<<n, users[n].access>> : n \in {m \in Logins :
     m = Normal[body.name] /\ users[m] # None /\ users[m].password = body.password}}

\* Faulty: an account is enough, whatever the password.
MatchesAnyPassword(body) == users[Normal[body.name]] # None

\* The lookup succeeds and the password is exactly the stored one.
Matches(body) ==
  LET user == users[Normal[body.name]]
  IN  user # None /\ body.password = user.password

\* Every failure of a Login closes the session and is answered.
LoginFails(id) ==
  \E body \in LoginBody :
    /\ state # "closed"
    /\ ~(WellFormed(body) /\ Matches(body))
    /\ state' = "closed"
    /\ reply' = [id |-> id, error |-> 1]
    /\ UNCHANGED <<login, access, users, granted>>

\* Faulty: a second login keeps the rights of the first.
LoginKeepsAccess(id) ==
  \E body \in LoginBody :
    /\ state # "closed"
    /\ WellFormed(body) /\ Matches(body)
    /\ login' = Normal[body.name]
    /\ access' = IF state = "fresh" THEN users[login'].access ELSE access
    /\ state' = "awaiting_agreement"
    /\ granted' = granted \cup Vouched(body)
    /\ reply' = [id |-> id, error |-> 0]
    /\ UNCHANGED users

\* Faulty: the name is kept as it was sent.
LoginKeepsRawName(id) ==
  \E body \in LoginBody :
    /\ state # "closed"
    /\ WellFormed(body) /\ Matches(body)
    /\ login' = body.name
    /\ access' = users[Normal[body.name]].access
    /\ state' = "awaiting_agreement"
    /\ granted' = granted \cup Vouched(body)
    /\ reply' = [id |-> id, error |-> 0]
    /\ UNCHANGED users

\* A Login is taken in every state but "closed".
LoginSucceeds(id) ==
  \E body \in LoginBody :
    /\ state # "closed"
    /\ WellFormed(body) /\ Matches(body)
    /\ login' = Normal[body.name]
    /\ access' = users[login'].access
    /\ state' = "awaiting_agreement"
    /\ granted' = granted \cup Vouched(body)
    /\ reply' = [id |-> id, error |-> 0]
    /\ UNCHANGED users

\* Faulty: Agreed activates a session in whatever state it is.
AgreedAnyTime ==
  /\ state' = "active"
  /\ reply' = None
  /\ UNCHANGED <<login, access, users, granted>>

Agreed ==
  /\ state' = IF state = "awaiting_agreement" THEN "active" ELSE state
  /\ reply' = None
  /\ UNCHANGED <<login, access, users, granted>>

\* Replies, other transactions, and anything once the session is closed.
Ignored ==
  /\ reply' = None
  /\ UNCHANGED <<state, login, access, users, granted>>

\* close(), by the server application.
Close ==
  /\ state' = "closed"
  /\ UNCHANGED <<login, access, reply, users, granted>>

\* External: the administrator changes an account.
ChangeUser ==
  /\ \E name \in Logins, user \in UserRecord \cup {None} :
       users' = [users EXCEPT ![name] = user]
  /\ UNCHANGED <<state, login, access, reply, granted>>

Next ==
  \/ \E id \in Ids : LoginFails(id) \/ LoginSucceeds(id)
  \/ Agreed
  \/ Ignored
  \/ Close
  \/ ChangeUser

Spec == Init /\ [][Next]_vars

---------------------------------------------------------------------------
(* Properties.                                                             *)

LoggedIn == state \in {"awaiting_agreement", "active"}

\* A session that is logged in bears a name and the rights the database gave
\* that very name for its exact password, after any number of logins, as
\* different users, and of changes of the database in between.
RightsWereGranted == LoggedIn => <<login, access>> \in granted

\* Becoming active takes an agreement to the last login: the identity of an
\* active session never changes while it stays active, and only a session
\* that awaits the agreement becomes active.
AgreementFollowsLogin ==
  [][/\ state' = "active" => state \in {"awaiting_agreement", "active"}
     /\ state' = "active" => UNCHANGED <<login, access>>
    ]_vars

\* A closed session stays closed, keeps quiet and grants nothing.
ClosedIsFinal ==
  [][state = "closed" =>
       state' = "closed" /\ (reply' \in {None, reply}) /\ granted' = granted]_vars

\* The login choreography goes forward: "login/agreement state machine
\* (fresh -> awaiting_agreement -> active)".
StateGoesForward ==
  [][/\ state = "active" => state' \in {"active", "closed"}
     /\ state = "awaiting_agreement" => state' # "fresh"]_vars

=============================================================================
