--------------------------- MODULE SessionProofs ---------------------------
(* The login session, for any user database and any sequence of requests.  *)
EXTENDS Session, TLAPS

\* What a successful login does to identity and rights.
LEMMA LoginGrants ==
  ASSUME TypeOK, NEW id \in Ids, LoginSucceeds(id)
  PROVE  /\ login' \in Logins /\ access' \in AccessMasks
         /\ <<login', access'>> \in granted'
         /\ granted' \subseteq Logins \X AccessMasks
<1>1. PICK body \in LoginBody :
        /\ WellFormed(body) /\ Matches(body)
        /\ login' = Normal[body.name]
        /\ access' = users[login'].access
        /\ granted' = granted \cup Vouched(body)
  BY DEF LoginSucceeds
<1>2. body.name \in RawLogins
  BY <1>1 DEF LoginBody, WellFormed
<1>3. login' \in Logins
  BY <1>1, <1>2, SessionAssumption
<1>4. users[login'] # None /\ users[login'].password = body.password
  BY <1>1 DEF Matches
<1>5. <<login', access'>> \in Vouched(body)
  BY <1>1, <1>3, <1>4 DEF Vouched
<1>6. \A n \in Logins : users[n] # None => users[n] \in UserRecord
  BY DEF TypeOK
<1>7. Vouched(body) \subseteq Logins \X AccessMasks
  BY <1>6 DEF Vouched, UserRecord
<1>8. access' \in AccessMasks
  BY <1>1, <1>3, <1>4, <1>6 DEF UserRecord
<1>. QED BY <1>1, <1>3, <1>5, <1>7, <1>8 DEF TypeOK

IInv == TypeOK /\ RightsWereGranted

LEMMA InitGood == Init => IInv
  BY SessionAssumption DEF Init, IInv, TypeOK, RightsWereGranted, LoggedIn, States

LEMMA StepGood == IInv /\ [Next]_vars => IInv'
<1> SUFFICES ASSUME IInv, [Next]_vars
             PROVE  IInv'
  OBVIOUS
<1> USE DEF IInv, TypeOK, RightsWereGranted, LoggedIn, States
<1>1. ASSUME NEW id \in Ids, LoginFails(id)
      PROVE  IInv'
  BY <1>1 DEF LoginFails, Replies
<1>2. ASSUME NEW id \in Ids, LoginSucceeds(id)
      PROVE  IInv'
  <2>1. /\ state' = "awaiting_agreement" /\ reply' = [id |-> id, error |-> 0]
        /\ users' = users
    BY <1>2 DEF LoginSucceeds
  <2>2. reply' \in Replies
    BY <2>1 DEF Replies
  <2>. QED BY <1>2, <2>1, <2>2, LoginGrants
<1>3. CASE Agreed
  BY <1>3 DEF Agreed
<1>4. CASE Ignored
  BY <1>4 DEF Ignored
<1>5. CASE Close
  BY <1>5 DEF Close
<1>6. CASE ChangeUser
  BY <1>6 DEF ChangeUser
<1>7. CASE UNCHANGED vars
  BY <1>7 DEF vars
<1>. QED BY <1>1, <1>2, <1>3, <1>4, <1>5, <1>6, <1>7 DEF Next

LEMMA Inductive == Spec => []IInv
<1>. QED BY InitGood, StepGood, PTL DEF Spec

\* The session's fields keep their types.
THEOREM TypeCorrect == Spec => []TypeOK
<1>1. IInv => TypeOK
  BY DEF IInv
<1>. QED BY <1>1, Inductive, PTL

\* A logged-in session bears only rights that the database held for its very
\* name when its exact password was presented.
THEOREM RightsGranted == Spec => []RightsWereGranted
<1>1. IInv => RightsWereGranted
  BY DEF IInv
<1>. QED BY <1>1, Inductive, PTL

\* Nothing reopens a closed session or makes it answer.
THEOREM ClosedForGood == Spec => ClosedIsFinal
<1> DEFINE Final == state = "closed" =>
             state' = "closed" /\ reply' \in {None, reply} /\ granted' = granted
<1>1. [Next]_vars => Final \/ UNCHANGED vars
  BY DEF Next, vars, LoginFails, LoginSucceeds, Agreed, Ignored, Close, ChangeUser
<1>. QED BY <1>1, PTL DEF Spec, ClosedIsFinal

\* Only a session that awaits the agreement becomes active, and neither the
\* step that makes it active nor any while it stays so changes who it is.
THEOREM AgreementBinds == Spec => AgreementFollowsLogin
<1>1. ASSUME [Next]_vars, state' = "active"
      PROVE  state \in {"awaiting_agreement", "active"} /\ UNCHANGED <<login, access>>
  <2>1. ~ \E id \in Ids : LoginFails(id) \/ LoginSucceeds(id)
    BY <1>1 DEF LoginFails, LoginSucceeds
  <2>2. CASE Agreed
    BY <1>1, <2>2 DEF Agreed
  <2>3. CASE Ignored \/ ChangeUser \/ UNCHANGED vars
    BY <1>1, <2>3 DEF Ignored, ChangeUser, vars
  <2>4. ~Close
    BY <1>1 DEF Close
  <2>. QED BY <1>1, <2>1, <2>2, <2>3, <2>4 DEF Next
<1>. QED BY <1>1, PTL DEF Spec, AgreementFollowsLogin

===========================================================================
