---------------------------- MODULE SessionsProofs ----------------------------
(***************************************************************************)
(* Theorems about the console's sessions, for any number of requests,      *)
(* accounts and addresses, any limits and any times.                       *)
(***************************************************************************)
EXTENDS Sessions, FiniteSetTheorems, TLAPS

LEMMA NumbersTyped ==
  /\ Versions \in Nat \ {0} /\ MaxSessions \in Nat \ {0} /\ Idle \in Nat \ {0}
  /\ Absolute \in Nat \ {0} /\ Touch \in Nat /\ Touch < Idle
  /\ \A s \in Sources : Limit(s) \in Nat \ {0} /\ Block(s) \in Nat \ {0}
BY SessionsAssumption DEF Limit, Block

LEMMA NoSessionTyped == NoSession \in Session /\ ~Expired(NoSession) /\ NoSession.fp = 0
BY NumbersTyped DEF NoSession, Session, Users, Expired

LEMMA NoAttemptTyped ==
  ASSUME NEW s \in Sources
  PROVE  NoAttempt(s) \in Attempt /\ NoAttempt(s).blocked = 0
BY NumbersTyped DEF NoAttempt, Attempt, Long

LEMMA StartTyped == Start \in Request
<1>1. (CHOOSE i \in IPs : TRUE) \in IPs /\ (CHOOSE h \in Handles : TRUE) \in Handles
  BY SessionsAssumption
<1>2. [u \in Users |-> 0] \in Creds
  BY NumbersTyped DEF Creds
<1> QED BY <1>1, <1>2, NumbersTyped DEF Start, Request, Users

LEMMA DoneTyped ==
  ASSUME TypeOK, NEW t \in Requests
  PROVE  /\ Done(t) => req' \in [Requests -> Request]
         /\ Created(t) => req' \in [Requests -> Request]
         /\ LetIn(t) => req' \in [Requests -> Request]
<1>1. req \in [Requests -> Request] /\ req[t] \in Request
  BY DEF TypeOK
<1>2. /\ [Start EXCEPT !.at = "clear", !.ip = req[t].ip] \in Request
      /\ [Start EXCEPT !.at = "served", !.h = req[t].h] \in Request
  BY <1>1, StartTyped DEF Request
<1> QED BY <1>1, <1>2, StartTyped DEF Done, Created, LetIn

LEMMA GotoTyped ==
  ASSUME TypeOK, NEW t \in Requests, NEW l \in {"ask", "fail", "count"}, Goto(t, l)
  PROVE  req' \in [Requests -> Request]
<1>1. req \in [Requests -> Request] /\ req[t] \in Request
  BY DEF TypeOK
<1>2. [req[t] EXCEPT !.at = l] \in Request
  BY <1>1 DEF Request
<1> QED BY <1>1, <1>2 DEF Goto

LEMMA SweptTyped ==
  ASSUME TypeOK PROVE Swept(sessions) \in [Handles -> Session]
BY NoSessionTyped DEF TypeOK, Swept

LEMMA ForgottenTyped ==
  ASSUME TypeOK PROVE Forgotten \in [Sources -> Attempt]
<1>1. ASSUME NEW s \in Sources
      PROVE  attempts[s] \in Attempt /\ [attempts[s] EXCEPT !.failures = 0] \in Attempt
  BY DEF TypeOK, Attempt
<1> QED BY <1>1, NoAttemptTyped DEF Forgotten

LEMMA FailedTyped ==
  ASSUME NEW s \in Sources, NEW a \in Attempt
  PROVE  Failed(a, s) \in Attempt
BY NumbersTyped DEF Failed, Attempt

(* A new session, in a handle nobody has.                                  *)
NewSession(t) ==
  [user |-> req[t].user, fp |-> req[t].fp, born |-> 0, seen |-> 0, used |-> 0,
   shaken |-> req[t].shaken]

LEMMA CreateCases ==
  ASSUME TypeOK, NEW t \in Requests, Create(t)
  PROVE  \/ /\ Cardinality(LiveOf(Swept(sessions))) >= MaxSessions
            /\ sessions' = Swept(sessions) /\ Done(t)
         \/ \E ss \in {sessions, Swept(sessions)},
               h \in Handles \ (LiveOf(sessions) \cup Held) :
              /\ ~(Cardinality(LiveOf(ss)) >= MaxSessions) /\ Created(t)
              /\ sessions' = [ss EXCEPT ![h] = NewSession(t)]
<1> DEFINE full == Cardinality(LiveOf(sessions)) >= MaxSessions
           ss == IF full THEN Swept(sessions) ELSE sessions
           free == Handles \ (LiveOf(sessions) \cup Held)
           h == CHOOSE x \in free : TRUE
<1>1. CASE Cardinality(LiveOf(ss)) >= MaxSessions
  BY <1>1 DEF Create
<1>2. CASE ~(Cardinality(LiveOf(ss)) >= MaxSessions)
  <2>1. free # {} /\ Created(t) /\ sessions' = [ss EXCEPT ![h] = NewSession(t)]
    BY <1>2 DEF Create, NewSession
  <2>2. h \in free
    BY <2>1
  <2>3. ss \in {sessions, Swept(sessions)}
    OBVIOUS
  <2> HIDE DEF h, ss, full
  <2> QED BY <1>2, <2>1, <2>2, <2>3
<1> QED BY <1>1, <1>2

-----------------------------------------------------------------------------
(* Types *)

LEMMA TypesInit == Init => TypeOK
<1> SUFFICES ASSUME Init PROVE TypeOK
  OBVIOUS
<1>1. req \in [Requests -> Request] /\ sessions \in [Handles -> Session]
  BY StartTyped, NoSessionTyped DEF Init
<1>2. attempts \in [Sources -> Attempt]
  BY NoAttemptTyped DEF Init
<1> QED BY <1>1, <1>2 DEF Init, TypeOK

LEMMA LoginTypes ==
  ASSUME TypeOK, NEW t \in Requests, Login(t)
  PROVE  TypeOK'
<1>0. req \in [Requests -> Request] /\ req[t] \in Request
  BY DEF TypeOK
<1>1. ASSUME NEW ip \in IPs, Ask(t, ip) PROVE TypeOK'
  <2>1. [req[t] EXCEPT !.at = "ask", !.ip = ip] \in Request
    BY <1>0 DEF Request
  <2> QED BY <1>0, <1>1, <2>1 DEF Ask, TypeOK
<1>2. ASSUME NEW ip \in IPs, Refuse(t, ip) PROVE TypeOK'
  BY <1>2 DEF Refuse, vars, TypeOK
<1>3. CASE Garbled(t)
  BY <1>3, DoneTyped DEF Garbled, TypeOK
<1>4. ASSUME NEW user \in Users, NEW fp \in 0 .. Versions, Verify(t, user, fp) PROVE TypeOK'
  <2>1. [req[t] EXCEPT !.at = "create", !.user = user, !.fp = fp] \in Request
    BY <1>0 DEF Request
  <2>2. req' \in [Requests -> Request]
    BY <1>0, <1>4, <2>1, GotoTyped DEF Verify
  <2> QED BY <1>4, <2>2 DEF Verify, TypeOK
<1>5. CASE Fail(t)
  <2>1. req' \in [Requests -> Request]
    BY <1>5, GotoTyped, DoneTyped DEF Fail
  <2> QED BY <1>5, <2>1 DEF Fail, TypeOK
<1>6. CASE Count(t)
  <2>1. attempts' \in [Sources -> Attempt]
    BY <1>6, FailedTyped DEF Count, TypeOK
  <2>2. late' \in [Sources -> Nat]
    BY <1>6 DEF Count, TypeOK
  <2> QED BY <1>6, <2>1, <2>2, DoneTyped DEF Count, TypeOK
<1>7. CASE Create(t)
  <2>1. attempts' \in [Sources -> Attempt] /\ UNCHANGED <<creds, late>>
    BY <1>7, ForgottenTyped DEF Create, TypeOK
  <2>2. NewSession(t) \in Session
    BY <1>0, NumbersTyped DEF NewSession, Request, Session
  <2>3. sessions' \in [Handles -> Session] /\ req' \in [Requests -> Request]
    BY <1>7, <2>2, CreateCases, SweptTyped, DoneTyped DEF TypeOK
  <2> QED BY <2>1, <2>3 DEF TypeOK
<1>8. CASE Clear(t)
  <2>1. attempts' \in [Sources -> Attempt] /\ late' \in [Sources -> Nat]
    <3>1. req[t].ip \in IPs /\ req[t].ip \in Sources
      BY <1>0 DEF Request, Sources
    <3> QED BY <1>8, <3>1, NoAttemptTyped DEF Clear, TypeOK
  <2> QED BY <1>8, <2>1, DoneTyped DEF Clear, TypeOK
<1> QED BY <1>1, <1>2, <1>3, <1>4, <1>5, <1>6, <1>7, <1>8 DEF Login

LEMMA VisitTypes ==
  ASSUME TypeOK, NEW t \in Requests, Visit(t)
  PROVE  TypeOK'
<1>0. req \in [Requests -> Request] /\ req[t] \in Request /\ req[t].h \in Handles
  BY DEF TypeOK, Request
<1>1. ASSUME NEW h \in Handles, Identify(t, h) PROVE TypeOK'
  <2>1. [req[t] EXCEPT !.at = "look", !.h = h, !.creds = creds, !.fresh = TRUE] \in Request
    <3>1. creds \in Creds
      BY DEF TypeOK
    <3> QED BY <1>0, <3>1 DEF Request
  <2> QED BY <1>0, <1>1, <2>1 DEF Identify, TypeOK
<1>2. CASE Lookup(t)
  <2>1. req' \in [Requests -> Request]
    BY <1>2, DoneTyped DEF Lookup
  <2> DEFINE h == req[t].h
  <2>2. [sessions[h] EXCEPT !.seen = Touched(sessions[h]), !.used = 0] \in Session
    <3>1. sessions[h] \in Session
      BY <1>0 DEF TypeOK
    <3>2. Touched(sessions[h]) \in 0 .. Idle + 1 /\ 0 \in 0 .. Idle + 1
      BY <3>1, NumbersTyped DEF Touched, Session
    <3> HIDE DEF h
    <3> QED BY <3>1, <3>2 DEF Session
  <2>3. sessions' \in [Handles -> Session]
    BY <1>0, <1>2, <2>2, NoSessionTyped DEF Lookup, TypeOK
  <2> QED BY <1>2, <2>1, <2>3 DEF Lookup, TypeOK
<1>3. CASE Serve(t)
  BY <1>3, DoneTyped DEF Serve, TypeOK
<1>4. CASE Logout(t)
  BY <1>0, <1>4, DoneTyped, NoSessionTyped DEF Logout, TypeOK
<1> QED BY <1>1, <1>2, <1>3, <1>4 DEF Visit

LEMMA OtherTypes ==
  ASSUME TypeOK, Sweep \/ Tick \/ \E new \in Creds : Reload(new)
  PROVE  TypeOK'
<1>1. CASE Sweep
  BY <1>1, SweptTyped, ForgottenTyped DEF Sweep, TypeOK
<1>2. CASE Tick
  <2>1. ASSUME NEW h \in Handles
        PROVE  [sessions[h] EXCEPT !.born = Up(@, Absolute + 1), !.seen = Up(@, Idle + 1),
                                   !.used = Up(@, Idle + 1)] \in Session
    <3>1. sessions[h] \in Session
      BY DEF TypeOK
    <3>2. /\ Up(sessions[h].born, Absolute + 1) \in 0 .. Absolute + 1
          /\ Up(sessions[h].seen, Idle + 1) \in 0 .. Idle + 1
          /\ Up(sessions[h].used, Idle + 1) \in 0 .. Idle + 1
      BY <3>1, NumbersTyped DEF Session, Up
    <3> QED BY <3>1, <3>2 DEF Session
  <2>2. ASSUME NEW s \in Sources
        PROVE  [attempts[s] EXCEPT !.blocked = Down(@), !.last = Up(@, Long(s))] \in Attempt
    <3>1. attempts[s] \in Attempt /\ Long(s) \in Nat
      BY NumbersTyped DEF TypeOK, Long
    <3>2. Down(attempts[s].blocked) \in Nat /\ Up(attempts[s].last, Long(s)) \in Nat
      BY <3>1 DEF Attempt, Up, Down
    <3> QED BY <3>1, <3>2 DEF Attempt
  <2>3. sessions' \in [Handles -> Session] /\ attempts' \in [Sources -> Attempt]
        /\ late' \in [Sources -> Nat]
    BY <1>2, <2>1, <2>2 DEF Tick, TypeOK
  <2> QED BY <1>2, <2>3 DEF Tick, TypeOK
<1>3. ASSUME NEW new \in Creds, Reload(new) PROVE TypeOK'
  <2>1. ASSUME NEW h \in Handles, NEW b \in BOOLEAN
        PROVE  [sessions[h] EXCEPT !.shaken = @ \/ b] \in Session
    BY DEF TypeOK, Session
  <2>2. ASSUME NEW t \in Requests, NEW b \in BOOLEAN, NEW c \in BOOLEAN
        PROVE  [req[t] EXCEPT !.fresh = @ /\ b, !.shaken = @ \/ c] \in Request
    <3>1. req[t] \in Request
      BY DEF TypeOK
    <3> QED BY <3>1 DEF Request
  <2>3. sessions' \in [Handles -> Session]
    BY <1>3, <2>1 DEF Reload
  <2>4. req' \in [Requests -> Request]
    BY <1>3, <2>2 DEF Reload
  <2> QED BY <1>3, <2>3, <2>4 DEF Reload, TypeOK
<1> QED BY <1>1, <1>2, <1>3

LEMMA TypesKept == TypeOK /\ [Next]_vars => TypeOK'
<1> SUFFICES ASSUME TypeOK, [Next]_vars PROVE TypeOK'
  OBVIOUS
<1>1. CASE UNCHANGED vars
  BY <1>1 DEF vars, TypeOK
<1> QED BY <1>1, LoginTypes, VisitTypes, OtherTypes DEF Next

(* Every variable of the console's sessions has a value of its kind in     *)
(* every reachable state (session.go:90-138).                              *)
THEOREM SessionTypes == Spec => []TypeOK
BY TypesInit, TypesKept, PTL DEF Spec

-----------------------------------------------------------------------------
(* The credentials behind a session *)

(* A session, or a login about to make one, that is not shaken is of its   *)
(* account as it is; what a request holds of the accounts is what its      *)
(* session is of, unless that is shaken.                                   *)
OfAccount(h) == Live(h) /\ ~sessions[h].shaken => creds[sessions[h].user] = sessions[h].fp
Verified(t) == At(t, "create") /\ ~req[t].shaken => creds[req[t].user] = req[t].fp
LooksUp(t) == At(t, "look") /\ Live(req[t].h) /\ ~sessions[req[t].h].shaken
                => req[t].creds[sessions[req[t].h].user] = sessions[req[t].h].fp
Current(t) == At(t, "look") /\ req[t].fresh => req[t].creds = creds
Steady == /\ \A h \in Handles : OfAccount(h)
          /\ \A t \in Requests : Verified(t) /\ LooksUp(t) /\ Current(t)

LEMMA DoneAt ==
  ASSUME TypeOK, NEW t \in Requests
  PROVE  /\ Done(t) => \A u \in Requests : req'[u] = IF u = t THEN Start ELSE req[u]
         /\ Created(t) => \A u \in Requests : u # t => req'[u] = req[u]
         /\ Created(t) => req'[t].at = "clear"
         /\ LetIn(t) => \A u \in Requests : u # t => req'[u] = req[u]
         /\ LetIn(t) => req'[t].at = "served" /\ req'[t].h = req[t].h
         /\ Start.at = "idle"
BY DEF TypeOK, Done, Created, LetIn, Start

LEMMA SweptSessions ==
  \A h \in Handles : /\ Swept(sessions)[h].fp # 0 => Swept(sessions)[h] = sessions[h]
                      /\ Swept(sessions)[h] \in {NoSession, sessions[h]}
BY NoSessionTyped DEF Swept

(* What goes away, and what stays as it was, disturbs nothing.             *)
LEMMA SteadyFewer ==
  ASSUME TypeOK, Steady, creds' = creds,
         \A h \in Handles : Live(h)' => sessions'[h] = sessions[h],
         \A t \in Requests : req'[t].at \in {"create", "look"} => req'[t] = req[t]
  PROVE  Steady'
<1>1. \A t \in Requests : req[t].h \in Handles
  BY DEF TypeOK, Request
<1> QED BY <1>1 DEF Steady, OfAccount, Verified, LooksUp, Current, Live, At

LEMMA SteadyKept == TypeOK /\ Steady /\ [Next]_vars => Steady'
<1> SUFFICES ASSUME TypeOK, Steady, [Next]_vars PROVE Steady'
  OBVIOUS
<1>0. /\ req \in [Requests -> Request] /\ sessions \in [Handles -> Session]
      /\ \A t \in Requests : req[t].h \in Handles
  BY DEF TypeOK, Request
<1>1. CASE UNCHANGED vars
  BY <1>1, SteadyFewer DEF vars, Live
<1>2. ASSUME NEW t \in Requests, Login(t) PROVE Steady'
  <2>1. ASSUME NEW ip \in IPs, Ask(t, ip) PROVE Steady'
    <3>1. \A u \in Requests : req'[u].at \in {"create", "look"} => req'[u] = req[u]
      BY <1>0, <2>1 DEF Ask
    <3> QED BY <2>1, <3>1, SteadyFewer DEF Ask
  <2>2. ASSUME NEW ip \in IPs, Refuse(t, ip) PROVE Steady'
    BY <2>2, SteadyFewer DEF Refuse, vars
  <2>3. CASE Garbled(t)
    BY <2>3, DoneAt, SteadyFewer DEF Garbled
  <2>4. ASSUME NEW user \in Users, NEW fp \in 0 .. Versions, Verify(t, user, fp) PROVE Steady'
    <3>1. CASE fp # 0 /\ fp = creds[user]
      <4>1. /\ req'[t] = [req[t] EXCEPT !.at = "create", !.user = user, !.fp = fp]
            /\ \A u \in Requests : u # t => req'[u] = req[u]
            /\ UNCHANGED <<creds, sessions>>
        BY <1>0, <2>4, <3>1 DEF Verify
      <4>2. req'[t].at = "create" /\ req'[t].user = user /\ req'[t].fp = fp
        BY <1>0, <4>1 DEF Request
      <4>3. ASSUME NEW u \in Requests PROVE (Verified(u) /\ LooksUp(u) /\ Current(u))'
        <5>1. CASE u = t
          BY <3>1, <4>1, <4>2, <5>1 DEF Verified, LooksUp, Current, At
        <5>2. CASE u # t
          BY <4>1, <5>2 DEF Steady, Verified, LooksUp, Current, At, Live
        <5> QED BY <5>1, <5>2
      <4> QED BY <4>1, <4>3 DEF Steady, OfAccount, Live
    <3>2. CASE ~(fp # 0 /\ fp = creds[user])
      <4>1. \A u \in Requests : req'[u].at \in {"create", "look"} => req'[u] = req[u]
        <5>1. req' = [req EXCEPT ![t].at = "fail"]
          BY <2>4, <3>2 DEF Verify, Goto
        <5>2. req'[t].at = "fail" /\ \A u \in Requests : u # t => req'[u] = req[u]
          BY <1>0, <5>1 DEF Request
        <5> QED BY <5>2
      <4> QED BY <2>4, <4>1, SteadyFewer DEF Verify
    <3> QED BY <3>1, <3>2
  <2>5. CASE Fail(t)
    <3>1. \A u \in Requests : req'[u].at \in {"create", "look"} => req'[u] = req[u]
      <4>1. Done(t) \/ req' = [req EXCEPT ![t].at = "count"]
        BY <2>5 DEF Fail, Goto
      <4>2. req'[t].at \in {"idle", "count"} /\ \A u \in Requests : u # t => req'[u] = req[u]
        BY <1>0, <4>1, DoneAt DEF Request
      <4> QED BY <4>2
    <3> QED BY <2>5, <3>1, SteadyFewer DEF Fail
  <2>6. CASE Count(t)
    BY <2>6, DoneAt, SteadyFewer DEF Count
  <2>7. CASE Create(t)
    <3>1. creds' = creds /\ At(t, "create")
      BY <2>7 DEF Create
    <3>2. CASE sessions' = Swept(sessions) /\ Done(t)
      BY <3>1, <3>2, DoneAt, SweptSessions, SteadyFewer DEF Live
    <3>3. ASSUME NEW ss \in {sessions, Swept(sessions)},
                 NEW h \in Handles \ (LiveOf(sessions) \cup Held),
                 Created(t), sessions' = [ss EXCEPT ![h] = NewSession(t)]
          PROVE  Steady'
      <4>1. /\ \A k \in Handles : k # h /\ sessions'[k].fp # 0 => sessions'[k] = sessions[k]
            /\ sessions'[h] = NewSession(t)
        BY <1>0, <3>3, SweptTyped, SweptSessions
      <4>2. \A u \in Requests : req'[u].at \in {"create", "look"} => u # t /\ req'[u] = req[u]
        BY <3>3, DoneAt
      <4>3. \A u \in Requests : At(u, "look") => req[u].h # h
        BY <3>3 DEF Held, At
      <4> QED BY <1>0, <3>1, <4>1, <4>2, <4>3 DEF Steady, OfAccount, Verified, LooksUp, Current, At, Live, NewSession
    <3> QED BY <2>7, <3>2, <3>3, CreateCases
  <2>8. CASE Clear(t)
    BY <2>8, DoneAt, SteadyFewer DEF Clear
  <2> QED BY <1>2, <2>1, <2>2, <2>3, <2>4, <2>5, <2>6, <2>7, <2>8 DEF Login
<1>3. ASSUME NEW t \in Requests, Visit(t) PROVE Steady'
  <2>1. ASSUME NEW h \in Handles, Identify(t, h) PROVE Steady'
    <3>1. /\ req'[t].at = "look" /\ req'[t].h = h /\ req'[t].creds = creds
          /\ \A u \in Requests : u # t => req'[u] = req[u]
          /\ UNCHANGED <<creds, sessions>>
      BY <1>0, <2>1 DEF Identify, Request
    <3> QED BY <3>1 DEF Steady, OfAccount, Verified, LooksUp, Current, At, Live
  <2>2. CASE Lookup(t)
    <3> DEFINE h == req[t].h
    <3>1. creds' = creds /\ At(t, "look")
      BY <2>2 DEF Lookup
    <3>2. CASE sessions' = [sessions EXCEPT ![h] = NoSession] /\ Done(t)
      BY <1>0, <3>1, <3>2, DoneAt, NoSessionTyped, SteadyFewer DEF Live
    <3>3. CASE /\ sessions' = [sessions EXCEPT ![h].seen = Touched(sessions[h]), ![h].used = 0]
               /\ LetIn(t)
      <4>1. \A k \in Handles : /\ sessions'[k].fp = sessions[k].fp
                                /\ sessions'[k].user = sessions[k].user
                                /\ sessions'[k].shaken = sessions[k].shaken
        BY <1>0, <3>3 DEF Session
      <4>2. \A u \in Requests : req'[u].at \in {"create", "look"} => u # t /\ req'[u] = req[u]
        BY <3>3, DoneAt
      <4> QED BY <1>0, <3>1, <4>1, <4>2 DEF Steady, OfAccount, Verified, LooksUp, Current, At, Live
    <3> QED BY <2>2, <3>2, <3>3 DEF Lookup
  <2>3. CASE Serve(t)
    BY <2>3, DoneAt, SteadyFewer DEF Serve
  <2>4. CASE Logout(t)
    <3>1. \A k \in Handles : Live(k)' => sessions'[k] = sessions[k]
      BY <1>0, <2>4, NoSessionTyped DEF Logout, Live
    <3> QED BY <2>4, <3>1, DoneAt, SteadyFewer DEF Logout
  <2> QED BY <1>3, <2>1, <2>2, <2>3, <2>4 DEF Visit
<1>4. CASE Sweep
  BY <1>4, SweptSessions, SteadyFewer DEF Sweep, Live
<1>5. CASE Tick
  <2>1. \A k \in Handles : /\ sessions'[k].fp = sessions[k].fp
                            /\ sessions'[k].user = sessions[k].user
                            /\ sessions'[k].shaken = sessions[k].shaken
    BY <1>0, <1>5 DEF Tick, Session
  <2>2. UNCHANGED <<creds, req>>
    BY <1>5 DEF Tick
  <2> QED BY <1>0, <2>1, <2>2 DEF Steady, OfAccount, Verified, LooksUp, Current, At, Live
<1>6. ASSUME NEW new \in Creds, Reload(new) PROVE Steady'
  <2>1. /\ creds' = new
        /\ \A h \in Handles :
             /\ sessions'[h].fp = sessions[h].fp /\ sessions'[h].user = sessions[h].user
             /\ sessions'[h].shaken = (sessions[h].shaken \/ (Live(h) /\ new[sessions[h].user] # sessions[h].fp))
    BY <1>0, <1>6 DEF Reload, Session
  <2>2. \A t \in Requests :
          /\ req'[t].at = req[t].at /\ req'[t].h = req[t].h /\ req'[t].creds = req[t].creds
          /\ req'[t].user = req[t].user /\ req'[t].fp = req[t].fp
          /\ req'[t].fresh = (req[t].fresh /\ new = creds)
          /\ req'[t].shaken = (req[t].shaken \/ (At(t, "create") /\ new[req[t].user] # req[t].fp))
    BY <1>0, <1>6 DEF Reload, Request
  <2>3. ASSUME NEW h \in Handles PROVE OfAccount(h)'
    BY <2>1 DEF OfAccount, Live
  <2>4. ASSUME NEW t \in Requests PROVE Verified(t)'
    BY <2>1, <2>2 DEF Verified, At
  <2>5. ASSUME NEW t \in Requests PROVE LooksUp(t)'
    <3> DEFINE h == req[t].h
    <3>1. h \in Handles /\ LooksUp(t)
      BY <1>0 DEF Steady
    <3>2. /\ sessions'[h].fp = sessions[h].fp /\ sessions'[h].user = sessions[h].user
          /\ ~sessions'[h].shaken => ~sessions[h].shaken
      BY <2>1, <3>1
    <3>3. req'[t].at = req[t].at /\ req'[t].h = h /\ req'[t].creds = req[t].creds
      BY <2>2
    <3> QED BY <3>1, <3>2, <3>3 DEF LooksUp, At, Live
  <2>6. ASSUME NEW t \in Requests PROVE Current(t)'
    BY <2>1, <2>2 DEF Steady, Current, At
  <2> QED BY <2>3, <2>4, <2>5, <2>6 DEF Steady
<1> QED BY <1>1, <1>2, <1>3, <1>4, <1>5, <1>6 DEF Next

LEMMA SteadyInit == Init => Steady
BY NoSessionTyped DEF Init, Start, Steady, OfAccount, Verified, LooksUp, Current, At, Live

(* A request is let in only with a session of the account it holds.        *)
LEMMA LetInChecked ==
  ASSUME TypeOK, [Next]_vars, NEW t \in Requests, At(t, "look"), req'[t].at = "served"
  PROVE  req[t].creds[sessions[req[t].h].user] = sessions[req[t].h].fp
<1>0. req \in [Requests -> Request]
  BY DEF TypeOK
<1>1. \A u \in Requests : (u # t => req'[t] = req[t]) \/ ~(Login(u) \/ Visit(u))
  <2>1. ASSUME NEW u \in Requests, u # t, Login(u) PROVE req'[t] = req[t]
    <3>1. CASE Create(u)
      BY <2>1, <3>1, CreateCases, DoneAt
    <3>2. CASE \/ \E ip \in IPs : Ask(u, ip) \/ Refuse(u, ip)
               \/ Garbled(u) \/ Fail(u) \/ Count(u) \/ Clear(u)
      BY <1>0, <2>1, <3>2, DoneAt DEF Ask, Refuse, Garbled, Fail, Count, Clear, Goto, vars
    <3>3. CASE \E user \in Users, fp \in 0 .. Versions : Verify(u, user, fp)
      BY <1>0, <2>1, <3>3 DEF Verify, Goto
    <3> QED BY <2>1, <3>1, <3>2, <3>3 DEF Login
  <2>2. ASSUME NEW u \in Requests, u # t, Visit(u) PROVE req'[t] = req[t]
    BY <1>0, <2>2, DoneAt DEF Visit, Identify, Lookup, Serve, Logout
  <2> QED BY <2>1, <2>2
<1>2. CASE Lookup(t)
  BY <1>2, DoneAt DEF Lookup
<1>3. CASE Login(t) \/ Serve(t) \/ Logout(t) \/ \E h \in Handles : Identify(t, h)
  BY <1>3 DEF Login, Ask, Refuse, Garbled, Verify, Fail, Count, Create, Clear, Serve, Logout, Identify,
              At, vars
<1>4. CASE Sweep \/ Tick \/ UNCHANGED vars
  BY <1>4 DEF Sweep, Tick, vars, At
<1>5. ASSUME NEW new \in Creds, Reload(new) PROVE FALSE
  BY <1>0, <1>5 DEF Reload, At, Request
<1>6. PICK u \in Requests : u = t \/ ~(Login(u) \/ Visit(u)) \/ req'[t] = req[t]
  BY <1>1
<1>7. req'[t] # req[t]
  BY DEF At
<1> QED BY <1>1, <1>2, <1>3, <1>4, <1>5, <1>7 DEF Next, Visit, At

(* A request that begins after the last change of the accounts is let in   *)
(* only with a session of an account as it is now (session.go:97-104,      *)
(* 235-240; auth_handler.go:257-275).                                      *)
THEOREM OldPasswordsEnd == Spec => NoOldPassword
<1>1. TypeOK /\ Steady /\ [Next]_vars =>
        [\A t \in Requests :
          At(t, "look") /\ req'[t].at = "served" /\ req[t].fresh
            => sessions[req[t].h].fp = creds[sessions[req[t].h].user]]_vars
  BY LetInChecked DEF Steady, Current
<1> QED BY <1>1, TypesInit, TypesKept, SteadyInit, SteadyKept, PTL DEF Spec, NoOldPassword

(* How a session may go away.                                              *)
LEMMA GoneForCause ==
  ASSUME TypeOK, Steady, [Next]_vars, NEW h \in Handles, Live(h), sessions'[h].fp = 0
  PROVE  \/ Expired(sessions[h]) \/ sessions[h].shaken
         \/ \E t \in Requests : At(t, "served") /\ req[t].h = h /\ req'[t].at = "idle"
<1>0. sessions \in [Handles -> Session] /\ \A t \in Requests : req[t].h \in Handles
  BY DEF TypeOK, Request
<1>1. sessions' # sessions
  BY DEF Live
<1>2. CASE sessions' = Swept(sessions)
  BY <1>2, NoSessionTyped DEF Swept, Live
<1>3. ASSUME NEW t \in Requests, Login(t)
      PROVE  Expired(sessions[h])
  <2>1. Create(t)
    BY <1>1, <1>3 DEF Login, Ask, Refuse, Garbled, Verify, Fail, Count, Clear, vars
  <2>2. ASSUME NEW ss \in {sessions, Swept(sessions)},
               NEW k \in Handles \ (LiveOf(sessions) \cup Held),
               sessions' = [ss EXCEPT ![k] = NewSession(t)]
        PROVE  Expired(sessions[h])
    <3>1. k # h
      BY DEF LiveOf, Live
    <3>2. sessions'[h] = ss[h]
      BY <1>0, <2>2, <3>1, SweptTyped
    <3> QED BY <3>2 DEF Swept, Live
  <2> QED BY <2>1, <2>2, <1>2, CreateCases, NoSessionTyped DEF Swept, Live
<1>4. ASSUME NEW t \in Requests, Visit(t)
      PROVE  \/ Expired(sessions[h]) \/ sessions[h].shaken
             \/ At(t, "served") /\ req[t].h = h /\ req'[t].at = "idle"
  <2>1. CASE Lookup(t)
    <3>1. req[t].h = h
      BY <1>0, <2>1 DEF Lookup, Live
    <3>2. \/ ~Live(h) \/ Expired(sessions[h]) \/ req[t].creds[sessions[h].user] # sessions[h].fp
          \/ sessions' = [sessions EXCEPT ![h].seen = Touched(sessions[h]), ![h].used = 0]
      BY <2>1, <3>1 DEF Lookup
    <3>3. sessions' # [sessions EXCEPT ![h].seen = Touched(sessions[h]), ![h].used = 0]
      BY <1>0 DEF Live, Session
    <3>4. At(t, "look") /\ LooksUp(t)
      BY <2>1 DEF Lookup, Steady
    <3> QED BY <3>1, <3>2, <3>3, <3>4 DEF LooksUp
  <2>2. CASE Logout(t)
    BY <1>0, <2>2, DoneAt DEF Logout, Live
  <2> QED BY <1>1, <1>4, <2>1, <2>2 DEF Visit, Identify, Serve
<1>5. CASE Sweep
  BY <1>2, <1>5 DEF Sweep
<1>6. CASE Tick
  BY <1>0, <1>6 DEF Tick, Live, Session
<1>7. ASSUME NEW new \in Creds, Reload(new) PROVE FALSE
  BY <1>0, <1>7 DEF Reload, Live, Session
<1> QED BY <1>1, <1>3, <1>4, <1>5, <1>6, <1>7 DEF Next, vars

(* Nobody is logged out without a cause: a request that still holds other  *)
(* accounts can only end a session whose account has changed under it      *)
(* (session.go:213-298).                                                   *)
THEOREM LogoutsHaveCause == Spec => KeptUnlessCause
<1>1. TypeOK /\ Steady /\ [Next]_vars =>
        [\A h \in Handles :
          Live(h) /\ sessions'[h].fp = 0
            => \/ Expired(sessions[h]) \/ sessions[h].shaken
               \/ \E t \in Requests : At(t, "served") /\ req[t].h = h /\ req'[t].at = "idle"]_vars
  BY GoneForCause
<1> QED BY <1>1, TypesInit, TypesKept, SteadyInit, SteadyKept, PTL DEF Spec, KeptUnlessCause

-----------------------------------------------------------------------------
(* What is used is touched *)

LEMMA TouchLagKept == TypeOK /\ TouchLag /\ [Next]_vars => TouchLag'
<1> SUFFICES ASSUME TypeOK, TouchLag, [Next]_vars, NEW h \in Handles, sessions'[h].fp # 0
             PROVE  sessions'[h].seen <= sessions'[h].used + Touch
  BY DEF TouchLag, Live
<1>0. sessions \in [Handles -> Session] /\ \A t \in Requests : req[t].h \in Handles
  BY DEF TypeOK, Request
<1>1. CASE sessions'[h] = sessions[h]
  BY <1>1 DEF TouchLag, Live
<1>2. CASE sessions' = Swept(sessions)
  BY <1>1, <1>2, NoSessionTyped DEF Swept
<1>3. ASSUME NEW t \in Requests, Create(t) PROVE sessions'[h].seen <= sessions'[h].used + Touch
  <2>1. ASSUME NEW ss \in {sessions, Swept(sessions)},
               NEW k \in Handles \ (LiveOf(sessions) \cup Held),
               sessions' = [ss EXCEPT ![k] = NewSession(t)]
        PROVE  sessions'[h].seen <= sessions'[h].used + Touch
    <3>1. CASE k = h
      BY <1>0, <2>1, <3>1, SweptTyped, NumbersTyped DEF NewSession
    <3>2. CASE k # h
      BY <1>0, <1>1, <2>1, <3>2, SweptTyped, SweptSessions, NoSessionTyped
    <3> QED BY <3>1, <3>2
  <2> QED BY <1>2, <1>3, <2>1, CreateCases
<1>4. ASSUME NEW t \in Requests, Login(t) PROVE sessions'[h].seen <= sessions'[h].used + Touch
  BY <1>1, <1>3, <1>4 DEF Login, Ask, Refuse, Garbled, Verify, Fail, Count, Clear, vars
<1>5. ASSUME NEW t \in Requests, Visit(t) PROVE sessions'[h].seen <= sessions'[h].used + Touch
  <2>1. CASE Lookup(t) /\ req[t].h = h
    <3>1. CASE sessions' = [sessions EXCEPT ![h] = NoSession]
      BY <1>0, <3>1, NoSessionTyped
    <3>2. CASE sessions' = [sessions EXCEPT ![h].seen = Touched(sessions[h]), ![h].used = 0]
      <4>1. sessions[h] \in Session
        BY <1>0
      <4>2. sessions'[h].seen = Touched(sessions[h]) /\ sessions'[h].used = 0
        BY <1>0, <3>2 DEF Session
      <4> QED BY <4>1, <4>2, NumbersTyped DEF Touched, Session
    <3> QED BY <2>1, <3>1, <3>2 DEF Lookup
  <2>2. CASE Lookup(t) /\ req[t].h # h
    BY <1>0, <1>1, <2>2 DEF Lookup
  <2>3. CASE Logout(t)
    BY <1>0, <1>1, <2>3, NoSessionTyped DEF Logout
  <2> QED BY <1>1, <1>5, <2>1, <2>2, <2>3 DEF Visit, Identify, Serve
<1>6. CASE Tick
  <2>1. CASE Live(h)
    <3>1. sessions[h] \in Session /\ sessions[h].seen <= sessions[h].used + Touch
      BY <1>0, <2>1 DEF TouchLag
    <3>2. /\ sessions'[h].seen = Up(sessions[h].seen, Idle + 1)
          /\ sessions'[h].used = Up(sessions[h].used, Idle + 1)
      BY <1>0, <1>6, <2>1 DEF Tick, Session
    <3> QED BY <3>1, <3>2, NumbersTyped DEF Up, Session
  <2>2. CASE ~Live(h)
    BY <1>0, <1>1, <1>6, <2>2 DEF Tick
  <2> QED BY <2>1, <2>2
<1>7. ASSUME NEW new \in Creds, Reload(new) PROVE sessions'[h].seen <= sessions'[h].used + Touch
  <2>1. /\ sessions'[h].seen = sessions[h].seen /\ sessions'[h].used = sessions[h].used
        /\ sessions'[h].fp = sessions[h].fp
    BY <1>0, <1>7 DEF Reload, Session
  <2> QED BY <2>1 DEF TouchLag, Live
<1> QED BY <1>1, <1>2, <1>4, <1>5, <1>6, <1>7 DEF Next, Sweep, vars

(* Touching a session only every sessionTouchInterval shortens its idle    *)
(* time by no more than that (session.go:66-68, 242-247).                  *)
THEOREM TouchingCostsLittle == Spec => []TouchLag
<1>1. Init => TouchLag
  BY NoSessionTyped DEF Init, TouchLag, Live
<1> QED BY <1>1, TypesInit, TypesKept, TouchLagKept, PTL DEF Spec

-----------------------------------------------------------------------------
(* Lock-outs *)

(* A lock-out is as long as its time is, and the last failure is no older. *)
Fits(s) == Locked(s) => attempts[s].blocked + attempts[s].last <= Block(s)
LockFits == \A s \in Sources : Fits(s)

(* What a step may do to the failures of one source.                       *)
LEMMA AttemptSteps ==
  ASSUME TypeOK, [Next]_vars, NEW s \in Sources
  PROVE  \/ attempts'[s] = attempts[s] /\ late'[s] = late[s]
         \/ attempts'[s] = Forgotten[s] /\ late'[s] = late[s]
         \/ \E t \in Requests : /\ Count(t) /\ s \in {req[t].ip, Everyone}
                                 /\ attempts'[s] = Failed(attempts[s], s)
                                 /\ late'[s] = IF Locked(s) THEN late[s] + 1 ELSE late[s]
         \/ \E t \in Requests : /\ Clear(t) /\ req[t].ip = s
                                 /\ attempts'[s] = NoAttempt(s) /\ late'[s] = 0
         \/ /\ Tick
            /\ attempts'[s] = [attempts[s] EXCEPT !.blocked = Down(@), !.last = Up(@, Long(s))]
            /\ late'[s] = IF attempts[s].blocked > 1 THEN late[s] ELSE 0
<1> DEFINE Same == attempts'[s] = attempts[s] /\ late'[s] = late[s]
           Fewer == attempts'[s] = Forgotten[s] /\ late'[s] = late[s]
<1>0. attempts \in [Sources -> Attempt] /\ late \in [Sources -> Nat]
  BY DEF TypeOK
<1>1. ASSUME NEW t \in Requests, Login(t)
      PROVE  Same \/ Fewer \/ Count(t) \/ Clear(t)
  BY <1>1 DEF Login, Ask, Refuse, Garbled, Verify, Fail, Create, vars
<1>2. ASSUME NEW t \in Requests, Visit(t) PROVE Same
  BY <1>2 DEF Visit, Identify, Lookup, Serve, Logout
<1>3. ASSUME NEW t \in Requests, Count(t)
      PROVE  \/ Same
             \/ /\ s \in {req[t].ip, Everyone} /\ attempts'[s] = Failed(attempts[s], s)
                /\ late'[s] = IF Locked(s) THEN late[s] + 1 ELSE late[s]
  BY <1>3 DEF Count
<1>4. ASSUME NEW t \in Requests, Clear(t)
      PROVE  Same \/ (req[t].ip = s /\ attempts'[s] = NoAttempt(s) /\ late'[s] = 0)
  BY <1>0, <1>4 DEF Clear
<1>5. CASE Sweep \/ UNCHANGED vars \/ \E new \in Creds : Reload(new)
  BY <1>5 DEF Sweep, Reload, vars
<1>6. CASE Tick
  BY <1>6 DEF Tick
<1> QED BY <1>1, <1>2, <1>3, <1>4, <1>5, <1>6 DEF Next

(* Nothing that is swept is locked out.                                    *)
LEMMA ForgottenFree ==
  ASSUME TypeOK, LockFits, NEW s \in Sources
  PROVE  /\ Locked(s) => Forgotten[s] = attempts[s]
         /\ ~Locked(s) => Forgotten[s].blocked = 0
<1>1. attempts[s] \in Attempt /\ Fits(s)
  BY DEF TypeOK, LockFits
<1>2. Locked(s) => Forgotten[s] = attempts[s]
  BY <1>1, NumbersTyped DEF Forgotten, Fits, Locked, Attempt
<1>3. ~Locked(s) => attempts[s].blocked = 0
  BY <1>1 DEF Locked, Attempt
<1>4. [attempts[s] EXCEPT !.failures = 0].blocked = attempts[s].blocked
  BY <1>1 DEF Attempt
<1>5. ~Locked(s) => Forgotten[s].blocked = 0
  BY <1>3, <1>4, NoAttemptTyped DEF Forgotten
<1> QED BY <1>2, <1>5

LEMMA TickedAttempt ==
  ASSUME TypeOK, NEW s \in Sources,
         attempts'[s] = [attempts[s] EXCEPT !.blocked = Down(@), !.last = Up(@, Long(s))]
  PROVE  attempts'[s].blocked = Down(attempts[s].blocked) /\ attempts'[s].last = Up(attempts[s].last, Long(s))
BY DEF TypeOK, Attempt

LEMMA LockFitsKept == TypeOK /\ LockFits /\ [Next]_vars => LockFits'
<1> SUFFICES ASSUME TypeOK, LockFits, [Next]_vars, NEW s \in Sources PROVE Fits(s)'
  BY DEF LockFits
<1>0. attempts[s] \in Attempt /\ Fits(s)
  BY DEF TypeOK, LockFits
<1>1. CASE attempts'[s] = attempts[s]
  BY <1>0, <1>1 DEF Fits, Locked
<1>2. CASE attempts'[s] = Forgotten[s]
  BY <1>0, <1>2, ForgottenFree DEF Fits, Locked
<1>3. CASE attempts'[s] = Failed(attempts[s], s)
  BY <1>0, <1>3, NumbersTyped DEF Fits, Locked, Failed, Attempt
<1>4. CASE attempts'[s] = NoAttempt(s)
  BY <1>4, NoAttemptTyped DEF Fits, Locked
<1>5. CASE attempts'[s] = [attempts[s] EXCEPT !.blocked = Down(@), !.last = Up(@, Long(s))]
  <2>1. Long(s) \in Nat
    BY NumbersTyped DEF Long
  <2>2. /\ attempts'[s].blocked = Down(attempts[s].blocked)
        /\ attempts'[s].last = Up(attempts[s].last, Long(s))
    BY <1>5, TickedAttempt
  <2> QED BY <1>0, <2>1, <2>2, NumbersTyped DEF Fits, Locked, Down, Up, Attempt
<1> QED BY <1>1, <1>2, <1>3, <1>4, <1>5, AttemptSteps

LEMMA LockFitsInit == Init => LockFits
BY NoAttemptTyped DEF Init, LockFits, Fits, Locked

(* A lock-out ends by time or by a login that succeeds, never by a sweep   *)
(* or a further failure (session.go:282-352).                              *)
THEOREM LockOutsLast == Spec => LockOutLasts
<1>1. TypeOK /\ LockFits /\ [Next]_vars =>
        [\A s \in Sources :
          Locked(s) /\ attempts'[s].blocked = 0
            => \/ attempts[s].blocked = 1 /\ attempts'[s].last > 0
               \/ \E t \in Requests : At(t, "clear") /\ req[t].ip = s]_vars
  <2> SUFFICES ASSUME TypeOK, LockFits, [Next]_vars, NEW s \in Sources,
                      Locked(s), attempts'[s].blocked = 0
               PROVE  \/ attempts[s].blocked = 1 /\ attempts'[s].last > 0
                      \/ \E t \in Requests : At(t, "clear") /\ req[t].ip = s
    OBVIOUS
  <2>0. attempts[s] \in Attempt
    BY DEF TypeOK
  <2>1. CASE attempts'[s] = attempts[s]
    BY <2>0, <2>1 DEF Locked
  <2>2. CASE attempts'[s] = Forgotten[s]
    BY <2>0, <2>2, ForgottenFree DEF Locked
  <2>3. CASE attempts'[s] = Failed(attempts[s], s)
    BY <2>0, <2>3, NumbersTyped DEF Locked, Failed, Attempt
  <2>4. CASE \E t \in Requests : Clear(t) /\ req[t].ip = s
    BY <2>4 DEF Clear
  <2>5. CASE attempts'[s] = [attempts[s] EXCEPT !.blocked = Down(@), !.last = Up(@, Long(s))]
    <3>1. Long(s) \in Nat /\ Long(s) > 0
      BY NumbersTyped DEF Long
    <3>2. /\ attempts'[s].blocked = Down(attempts[s].blocked)
          /\ attempts'[s].last = Up(attempts[s].last, Long(s))
      BY <2>5, TickedAttempt
    <3> QED BY <2>0, <3>1, <3>2 DEF Locked, Down, Up, Attempt
  <2> QED BY <2>1, <2>2, <2>3, <2>4, <2>5, AttemptSteps
<1> QED BY <1>1, TypesInit, TypesKept, LockFitsInit, LockFitsKept, PTL DEF Spec, LockOutLasts

(* The requests that may still record a failure of a source.               *)
Pending(s) == {t \in Requests : req[t].at \in {"ask", "fail", "count"} /\ s \in {req[t].ip, Everyone}}
Late(s) == IF Locked(s) THEN late[s] + Cardinality(Pending(s)) <= Cardinality(Requests) - 1
                        ELSE late[s] = 0
LateFits == \A s \in Sources : Late(s)

LEMMA PendingFinite ==
  /\ Cardinality(Requests) \in Nat
  /\ \A S \in SUBSET Requests : IsFiniteSet(S) /\ Cardinality(S) \in Nat /\ Cardinality(S) <= Cardinality(Requests)
  /\ \A S \in SUBSET Requests : \A T \in SUBSET S : Cardinality(T) <= Cardinality(S)
  /\ \A S \in SUBSET Requests : \A t \in S : Cardinality(S \ {t}) = Cardinality(S) - 1
BY SessionsAssumption, FS_Subset, FS_CardinalityType, FS_RemoveElement

(* A step adds to the requests that may record a failure of a source only  *)
(* when that is not locked out.                                            *)
LEMMA PendingSteps ==
  ASSUME TypeOK, [Next]_vars, NEW s \in Sources
  PROVE  /\ Pending(s)' \in SUBSET Requests /\ Pending(s) \in SUBSET Requests
         /\ Locked(s) => Pending(s)' \subseteq Pending(s)
         /\ \A t \in Requests : Count(t) /\ s \in {req[t].ip, Everyone}
              => t \in Pending(s) /\ t \notin Pending(s)'
<1>0. req \in [Requests -> Request]
  BY DEF TypeOK
<1>1. Pending(s)' \in SUBSET Requests /\ Pending(s) \in SUBSET Requests
  BY DEF Pending
<1>2. ASSUME NEW t \in Requests, Count(t), s \in {req[t].ip, Everyone}
      PROVE  t \in Pending(s) /\ t \notin Pending(s)'
  BY <1>2, DoneAt DEF Count, Pending, At
<1>3. ASSUME Locked(s), NEW u \in Requests, req'[u].at \in {"ask", "fail", "count"},
             s \in {req'[u].ip, Everyone}
      PROVE  req[u].at \in {"ask", "fail", "count"} /\ s \in {req[u].ip, Everyone}
  <2>1. CASE req'[u] = req[u]
    BY <1>3, <2>1
  <2>2. ASSUME NEW t \in Requests, Done(t) \/ Created(t) \/ LetIn(t) PROVE req'[u] = req[u]
    BY <1>3, <2>2, DoneAt DEF Created, LetIn
  <2>3. ASSUME NEW t \in Requests, NEW l \in {"fail", "count"}, Goto(t, l), At(t, "ask") \/ At(t, "fail")
        PROVE  req[u].at \in {"ask", "fail", "count"} /\ s \in {req[u].ip, Everyone}
    <3>1. u # t => req'[u] = req[u]
      BY <1>0, <2>3 DEF Goto
    <3>2. u = t => req'[u].ip = req[u].ip
      BY <1>0, <2>3 DEF Goto, Request
    <3> QED BY <1>3, <2>1, <2>3, <3>1, <3>2 DEF At
  <2>4. ASSUME NEW t \in Requests, NEW ip \in IPs, Ask(t, ip)
        PROVE  req'[u] = req[u]
    <3>1. u # t => req'[u] = req[u]
      BY <1>0, <2>4 DEF Ask
    <3>2. u = t => req'[u].ip = ip
      BY <1>0, <2>4 DEF Ask, Request
    <3>3. s # ip /\ s # Everyone
      BY <1>3, <2>4 DEF Ask, Blocked
    <3> QED BY <1>3, <3>1, <3>2, <3>3
  <2>5. ASSUME NEW t \in Requests, NEW user \in Users, NEW fp \in 0 .. Versions, Verify(t, user, fp)
        PROVE  req[u].at \in {"ask", "fail", "count"} /\ s \in {req[u].ip, Everyone}
    <3>1. CASE Goto(t, "fail")
      BY <2>3, <2>5, <3>1 DEF Verify
    <3>2. CASE req' = [req EXCEPT ![t].at = "create", ![t].user = user, ![t].fp = fp]
      <4>1. req'[t].at = "create" /\ \A v \in Requests : v # t => req'[v] = req[v]
        BY <1>0, <3>2 DEF Request
      <4> QED BY <1>3, <2>1, <4>1
    <3> QED BY <2>5, <3>1, <3>2 DEF Verify
  <2>6. ASSUME NEW t \in Requests, NEW h \in Handles, Identify(t, h)
        PROVE  req'[u] = req[u]
    <3>1. req'[t].at = "look" /\ \A v \in Requests : v # t => req'[v] = req[v]
      BY <1>0, <2>6 DEF Identify, Request
    <3> QED BY <1>3, <3>1
  <2>7. ASSUME NEW t \in Requests, Login(t)
        PROVE  req[u].at \in {"ask", "fail", "count"} /\ s \in {req[u].ip, Everyone}
    <3>1. CASE Garbled(t) \/ Count(t) \/ Clear(t)
      BY <2>1, <2>2, <3>1 DEF Garbled, Count, Clear
    <3>2. CASE Create(t)
      BY <2>1, <2>2, <3>2, CreateCases
    <3>3. CASE Fail(t)
      BY <2>1, <2>2, <2>3, <3>3 DEF Fail
    <3>4. CASE \E ip \in IPs : Refuse(t, ip)
      BY <2>1, <3>4 DEF Refuse, vars
    <3> QED BY <2>1, <2>4, <2>5, <2>7, <3>1, <3>2, <3>3, <3>4 DEF Login
  <2>8. ASSUME NEW t \in Requests, Visit(t)
        PROVE  req[u].at \in {"ask", "fail", "count"} /\ s \in {req[u].ip, Everyone}
    BY <2>1, <2>2, <2>6, <2>8 DEF Visit, Lookup, Serve, Logout
  <2>9. ASSUME NEW new \in Creds, Reload(new)
        PROVE  req[u].at \in {"ask", "fail", "count"} /\ s \in {req[u].ip, Everyone}
    <3>1. req'[u].at = req[u].at /\ req'[u].ip = req[u].ip
      BY <1>0, <2>9 DEF Reload, Request
    <3> QED BY <1>3, <3>1
  <2>10. CASE Sweep \/ Tick \/ UNCHANGED vars
    BY <2>1, <2>10 DEF Sweep, Tick, vars
  <2> QED BY <2>7, <2>8, <2>9, <2>10 DEF Next
<1>4. Locked(s) => Pending(s)' \subseteq Pending(s)
  BY <1>3 DEF Pending
<1> QED BY <1>1, <1>2, <1>4

LEMMA LateFitsKept == TypeOK /\ LockFits /\ LateFits /\ [Next]_vars => LateFits'
<1> SUFFICES ASSUME TypeOK, LockFits, LateFits, [Next]_vars, NEW s \in Sources PROVE Late(s)'
  BY DEF LateFits
<1> DEFINE n == Cardinality(Requests)
           p == Cardinality(Pending(s))
           q == Cardinality(Pending(s)')
<1>0. attempts[s] \in Attempt /\ late[s] \in Nat /\ Late(s)
  BY DEF TypeOK, LateFits
<1>1. n \in Nat /\ p \in Nat /\ q \in Nat /\ q <= n
  BY PendingSteps, PendingFinite
<1>2. Locked(s) => q <= p
  BY PendingSteps, PendingFinite
<1>3. ASSUME NEW t \in Requests, Count(t), s \in {req[t].ip, Everyone}
      PROVE  q <= n - 1 /\ (Locked(s) => q <= p - 1)
  <2>1. /\ t \in Pending(s) /\ t \notin Pending(s)'
        /\ Pending(s) \in SUBSET Requests /\ Pending(s)' \in SUBSET Requests
        /\ Locked(s) => Pending(s)' \subseteq Pending(s)
    BY <1>3, PendingSteps
  <2>2. Pending(s)' \subseteq Requests \ {t} /\ (Locked(s) => Pending(s)' \subseteq Pending(s) \ {t})
    BY <2>1
  <2>3. /\ Cardinality(Requests \ {t}) = n - 1 /\ Cardinality(Pending(s) \ {t}) = p - 1
        /\ Requests \ {t} \in SUBSET Requests /\ Pending(s) \ {t} \in SUBSET Requests
    BY <2>1, PendingFinite
  <2> QED BY <2>2, <2>3, PendingFinite
<1>4. Late(s)' <=> IF attempts'[s].blocked > 0 THEN late'[s] + q <= n - 1 ELSE late'[s] = 0
  BY DEF Late, Locked
<1>5. IF Locked(s) THEN late[s] + p <= n - 1 ELSE late[s] = 0
  BY <1>0 DEF Late
<1> HIDE DEF n, p, q
<1>6. CASE attempts'[s] = attempts[s] /\ late'[s] = late[s]
  BY <1>0, <1>1, <1>2, <1>4, <1>5, <1>6 DEF Locked
<1>7. CASE attempts'[s] = Forgotten[s] /\ late'[s] = late[s]
  BY <1>0, <1>1, <1>2, <1>4, <1>5, <1>7, ForgottenFree DEF Locked
<1>8. ASSUME NEW t \in Requests, Count(t), s \in {req[t].ip, Everyone},
             attempts'[s] = Failed(attempts[s], s), late'[s] = IF Locked(s) THEN late[s] + 1 ELSE late[s]
      PROVE  Late(s)'
  <2>1. Locked(s) => attempts'[s].blocked > 0
    BY <1>0, <1>8, NumbersTyped DEF Failed, Locked, Attempt
  <2> QED BY <1>0, <1>1, <1>3, <1>4, <1>5, <1>8, <2>1
<1>9. CASE attempts'[s] = NoAttempt(s) /\ late'[s] = 0
  BY <1>4, <1>9, NoAttemptTyped
<1>10. CASE /\ attempts'[s] = [attempts[s] EXCEPT !.blocked = Down(@), !.last = Up(@, Long(s))]
            /\ late'[s] = IF attempts[s].blocked > 1 THEN late[s] ELSE 0
  <2>1. attempts'[s].blocked = Down(attempts[s].blocked)
    BY <1>10, TickedAttempt
  <2>2. late'[s] = IF attempts[s].blocked > 1 THEN late[s] ELSE 0
    BY <1>10
  <2> QED BY <1>0, <1>1, <1>2, <1>4, <1>5, <2>1, <2>2 DEF Locked, Down, Attempt
<1> QED BY <1>6, <1>7, <1>8, <1>9, <1>10, AttemptSteps

(* Once a source is locked out, no more passwords are tried from it than   *)
(* there are other requests (session.go:300-345, auth_handler.go:82-150).  *)
THEOREM LateGuessesAreFew == Spec => []LateGuessesBounded
<1>1. Init => LateFits
  BY NoAttemptTyped DEF Init, LateFits, Late, Locked
<1>2. TypeOK /\ LateFits => LateGuessesBounded
  <2> SUFFICES ASSUME TypeOK, LateFits, NEW s \in Sources, Locked(s)
               PROVE  late[s] <= Cardinality(Requests) - 1
    BY DEF LateGuessesBounded
  <2>1. late[s] \in Nat /\ late[s] + Cardinality(Pending(s)) <= Cardinality(Requests) - 1
    BY DEF TypeOK, LateFits, Late
  <2>2. Cardinality(Pending(s)) \in Nat /\ Cardinality(Requests) \in Nat
    BY PendingFinite DEF Pending
  <2> QED BY <2>1, <2>2
<1> QED BY <1>1, <1>2, TypesInit, TypesKept, LockFitsInit, LockFitsKept, LateFitsKept, PTL DEF Spec

-----------------------------------------------------------------------------
(* The number of sessions *)

LEMMA LiveFinite ==
  /\ IsFiniteSet(Handles)
  /\ \A S \in SUBSET Handles : IsFiniteSet(S) /\ Cardinality(S) \in Nat
  /\ \A S \in SUBSET Handles : \A T \in SUBSET S : Cardinality(T) <= Cardinality(S)
  /\ \A S \in SUBSET Handles, h \in Handles : Cardinality(S \cup {h}) <= Cardinality(S) + 1
<1>1. /\ IsFiniteSet(Handles)
      /\ \A S \in SUBSET Handles : IsFiniteSet(S) /\ Cardinality(S) \in Nat
  BY SessionsAssumption, FS_Subset, FS_CardinalityType
<1>2. ASSUME NEW S \in SUBSET Handles, NEW T \in SUBSET S
      PROVE  Cardinality(T) <= Cardinality(S)
  BY <1>1, FS_Subset
<1>3. ASSUME NEW S \in SUBSET Handles, NEW h \in Handles
      PROVE  Cardinality(S \cup {h}) <= Cardinality(S) + 1
  <2>1. IsFiniteSet(S) /\ Cardinality(S) \in Nat
    BY <1>1
  <2>2. Cardinality(S \cup {h}) = IF h \in S THEN Cardinality(S) ELSE Cardinality(S) + 1
    BY <2>1, FS_AddElement
  <2> QED BY <2>1, <2>2
<1> QED BY <1>1, <1>2, <1>3

LEMMA StoreBoundedKept == TypeOK /\ StoreBounded /\ [Next]_vars => StoreBounded'
<1> SUFFICES ASSUME TypeOK, StoreBounded, [Next]_vars PROVE StoreBounded'
  OBVIOUS
<1>0. sessions \in [Handles -> Session] /\ \A t \in Requests : req[t].h \in Handles
  BY DEF TypeOK, Request
<1>1. CASE LiveOf(sessions') \subseteq LiveOf(sessions)
  <2>1. LiveOf(sessions) \in SUBSET Handles /\ LiveOf(sessions') \in SUBSET LiveOf(sessions)
    BY <1>1 DEF LiveOf
  <2>2. /\ Cardinality(LiveOf(sessions')) <= Cardinality(LiveOf(sessions))
        /\ Cardinality(LiveOf(sessions')) \in Nat /\ Cardinality(LiveOf(sessions)) \in Nat
    BY <2>1, LiveFinite
  <2> QED BY <2>2, NumbersTyped DEF StoreBounded
<1>2. ASSUME NEW t \in Requests, Create(t) PROVE StoreBounded'
  <2>1. CASE sessions' = Swept(sessions)
    BY <1>1, <2>1, SweptSessions DEF LiveOf
  <2>2. ASSUME NEW ss \in {sessions, Swept(sessions)}, NEW h \in Handles,
               ~(Cardinality(LiveOf(ss)) >= MaxSessions), sessions' = [ss EXCEPT ![h] = NewSession(t)]
        PROVE  StoreBounded'
    <3>1. LiveOf(sessions') \subseteq LiveOf(ss) \cup {h}
      BY <1>0, <2>2, SweptTyped DEF LiveOf
    <3>2. LiveOf(ss) \in SUBSET Handles /\ LiveOf(ss) \cup {h} \in SUBSET Handles
      BY DEF LiveOf
    <3>3. /\ Cardinality(LiveOf(sessions')) <= Cardinality(LiveOf(ss) \cup {h})
          /\ Cardinality(LiveOf(ss) \cup {h}) <= Cardinality(LiveOf(ss)) + 1
          /\ Cardinality(LiveOf(ss)) \in Nat /\ Cardinality(LiveOf(ss) \cup {h}) \in Nat
          /\ Cardinality(LiveOf(sessions')) \in Nat
      <4>1. LiveOf(sessions') \in SUBSET (LiveOf(ss) \cup {h}) /\ LiveOf(sessions') \in SUBSET Handles
        BY <3>1, <3>2
      <4> QED BY <3>2, <4>1, LiveFinite
    <3> QED BY <2>2, <3>3, NumbersTyped DEF StoreBounded
  <2> QED BY <1>2, <2>1, <2>2, CreateCases
<1>3. ASSUME NEW t \in Requests, Login(t), ~Create(t) PROVE sessions' = sessions
  BY <1>3 DEF Login, Ask, Refuse, Garbled, Verify, Fail, Count, Clear, vars
<1>4. ASSUME NEW t \in Requests, Visit(t) PROVE LiveOf(sessions') \subseteq LiveOf(sessions)
  <2>1. CASE Lookup(t)
    <3>1. CASE sessions' = [sessions EXCEPT ![req[t].h] = NoSession]
      BY <1>0, <3>1, NoSessionTyped DEF LiveOf
    <3>2. CASE sessions' = [sessions EXCEPT ![req[t].h].seen = Touched(sessions[req[t].h]), ![req[t].h].used = 0]
      <4>1. \A h \in Handles : sessions'[h].fp = sessions[h].fp
        BY <1>0, <3>2 DEF Session
      <4> QED BY <4>1 DEF LiveOf
    <3> QED BY <2>1, <3>1, <3>2 DEF Lookup
  <2>2. CASE Logout(t)
    BY <1>0, <2>2, NoSessionTyped DEF Logout, LiveOf
  <2> QED BY <1>4, <2>1, <2>2 DEF Visit, Identify, Serve, LiveOf
<1>5. CASE Sweep
  BY <1>1, <1>5, SweptSessions DEF Sweep, LiveOf
<1>6. CASE Tick \/ \E new \in Creds : Reload(new)
  <2>1. \A h \in Handles : sessions'[h].fp = sessions[h].fp
    <3>1. CASE Tick
      BY <1>0, <3>1 DEF Tick, Session
    <3>2. ASSUME NEW new \in Creds, Reload(new) PROVE \A h \in Handles : sessions'[h].fp = sessions[h].fp
      <4>1. sessions' = [h \in Handles |->
              [sessions[h] EXCEPT !.shaken = @ \/ (Live(h) /\ new[sessions[h].user] # sessions[h].fp)]]
        BY <3>2 DEF Reload
      <4> QED BY <1>0, <4>1 DEF Session
    <3> QED BY <1>6, <3>1, <3>2
  <2> QED BY <1>1, <2>1 DEF LiveOf
<1>7. CASE UNCHANGED vars
  BY <1>1, <1>7 DEF vars, LiveOf
<1> QED BY <1>1, <1>2, <1>3, <1>4, <1>5, <1>6, <1>7 DEF Next

(* There are never more than MaxSessions sessions (session.go:183-189).    *)
THEOREM SessionsBounded == Spec => []StoreBounded
<1>1. Init => StoreBounded
  <2> SUFFICES ASSUME Init PROVE StoreBounded
    OBVIOUS
  <2>1. LiveOf(sessions) = {}
    BY NoSessionTyped DEF Init, LiveOf
  <2> QED BY <2>1, FS_EmptySet, NumbersTyped DEF StoreBounded
<1> QED BY <1>1, TypesInit, TypesKept, StoreBoundedKept, PTL DEF Spec
-----------------------------------------------------------------------------
(* How many passwords may be tried in a period *)

VARIABLES
  tried,    \* failures recorded of a source
  elapsed   \* units of time

counts == <<tried, elapsed>>

Guessed(s) == \E t \in Requests : Count(t) /\ s \in {req[t].ip, Everyone}
Cleared(s) == \E t \in Requests : Clear(t) /\ req[t].ip = s

(* What counts for a source; a period may begin whenever it likes, and     *)
(* begins anew when a login succeeds from there.                           *)
Trial(s) ==
  /\ [Next]_vars
  /\ \/ /\ ~Cleared(s)
        /\ tried' = tried + (IF Guessed(s) THEN 1 ELSE 0)
        /\ elapsed' = elapsed + (IF Tick THEN 1 ELSE 0)
     \/ tried' = 0 /\ elapsed' = 0

TrialSpec(s) == Init /\ tried = 0 /\ elapsed = 0 /\ [][Trial(s)]_<<vars, counts>>

(* The failures that one lock-out stands for: its limit, and those that    *)
(* other requests may record once it has begun.                            *)
Others == Cardinality(Requests) - 1
Few(s) == Limit(s) + Others

GuessesFew(s) == Block(s) * (tried - Others) <= Few(s) * (elapsed + Block(s))

(* g failures of a source in e units of time are paid for: few of them by  *)
(* each lock-out of b, the one under way included, but for l that came     *)
(* late in it; or, when none is under way, all but n, or all but n and     *)
(* those that still count, less what time will pay before they are swept.  *)
Paid(b, n, few, g, e, a, l) ==
  IF a.blocked > 0 THEN b * g <= b * l + few * (e + a.blocked)
  ELSE \/ b * g <= b * n + few * e
       \/ b * g + few * a.last <= b * n + few * e + b * a.failures

LEMMA Products ==
  \A x, y, z \in Nat : /\ x * y \in Nat /\ x * (y + z) = x * y + x * z
                       /\ (x + y) * z = x * z + y * z /\ x * 0 = 0 /\ x * 1 = x
                       /\ y <= z => x * y <= x * z
OBVIOUS

(* One more failure, which may lock out anew.                              *)
LEMMA PaidByGuess ==
  ASSUME NEW b \in Nat, NEW n \in Nat, NEW lim \in Nat, NEW few \in Nat, NEW g \in Nat, NEW e \in Nat,
         NEW a \in Attempt, NEW l \in Nat, NEW c \in Attempt, NEW m \in Nat,
         few = lim + n, Paid(b, n, few, g, e, a, l), a.failures < lim, a.blocked <= b,
         a.blocked = 0 => l = 0, b > 0,
         m = IF a.blocked > 0 THEN l + 1 ELSE l,
         c = IF a.failures + 1 >= lim
               THEN [failures |-> 0, blocked |-> b, last |-> 0]
               ELSE [failures |-> a.failures + 1, blocked |-> a.blocked, last |-> 0]
  PROVE  Paid(b, n, few, g + 1, e, c, m)
<1> DEFINE f == a.failures
           r == a.blocked
<1>1. /\ few \in Nat /\ f \in Nat /\ r \in Nat /\ a.last \in Nat
  BY DEF Attempt
<1>2. /\ b * (g + 1) = b * g + b /\ b * (l + 1) = b * l + b /\ b * (f + 1) = b * f + b
      /\ few * (e + b) = few * e + few * b /\ few * (e + r) = few * e + few * r
      /\ few * b = lim * b + n * b /\ n * b = b * n /\ lim * b = b * lim /\ few * 0 = 0
  BY <1>1, Products
<1>3. /\ b * (f + 1) <= b * lim /\ few * r <= few * b
  BY <1>1, Products
<1>4. /\ b * g \in Nat /\ b * l \in Nat /\ b * f \in Nat /\ few * e \in Nat /\ few * r \in Nat
      /\ few * b \in Nat /\ b * n \in Nat /\ b * lim \in Nat /\ few * a.last \in Nat
  BY <1>1, Products
<1>5. CASE r > 0
  <2>1. b * g <= b * l + (few * e + few * r)
    BY <1>2, <1>5 DEF Paid
  <2>2. b * (g + 1) <= b * (l + 1) + (few * e + few * r)
    BY <1>2, <1>4, <2>1
  <2>3. CASE f + 1 >= lim
    <3>1. c.blocked = b /\ m = l + 1
      BY <1>5, <2>3
    <3>2. b * (g + 1) <= b * (l + 1) + few * (e + b)
      BY <1>2, <1>3, <1>4, <2>2
    <3> QED BY <3>1, <3>2 DEF Paid
  <2>4. CASE ~(f + 1 >= lim)
    <3>1. c.blocked = r /\ m = l + 1
      BY <1>5, <2>4
    <3> QED BY <1>2, <1>5, <2>2, <3>1 DEF Paid
  <2> QED BY <2>3, <2>4
<1>6. CASE ~(r > 0)
  <2>1. b * g <= b * n + few * e + b * f
    <3>1. CASE b * g <= b * n + few * e
      BY <1>4, <3>1
    <3>2. CASE b * g + few * a.last <= b * n + few * e + b * f
      BY <1>4, <3>2
    <3> QED BY <1>6, <3>1, <3>2 DEF Paid
  <2>2. b * (g + 1) <= b * n + few * e + b * (f + 1)
    BY <1>2, <1>4, <2>1
  <2>3. CASE f + 1 >= lim
    <3>1. c.blocked = b /\ m = 0 /\ b * 0 = 0
      BY <1>1, <1>6, <2>3, Products
    <3>2. b * (g + 1) <= few * (e + b)
      BY <1>2, <1>3, <1>4, <2>2
    <3> QED BY <1>4, <3>1, <3>2 DEF Paid
  <2>4. CASE ~(f + 1 >= lim)
    <3>1. ~(c.blocked > 0) /\ c.last = 0 /\ c.failures = f + 1
      BY <1>1, <1>6, <2>4
    <3>2. b * (g + 1) + few * 0 <= b * n + few * e + b * (f + 1)
      BY <1>2, <1>4, <2>2
    <3> QED BY <3>1, <3>2 DEF Paid
  <2> QED BY <2>3, <2>4
<1> QED BY <1>5, <1>6

LEMMA PaidByTime ==
  ASSUME NEW b \in Nat, NEW n \in Nat, NEW few \in Nat, NEW g \in Nat, NEW e \in Nat, NEW long \in Nat,
         NEW a \in Attempt, NEW l \in Nat, NEW c \in Attempt, NEW m \in Nat,
         Paid(b, n, few, g, e, a, l), a.blocked > 0 => l <= n,
         c.failures = a.failures, c.blocked = Down(a.blocked), c.last = Up(a.last, long),
         m = IF a.blocked > 1 THEN l ELSE 0
  PROVE  Paid(b, n, few, g, e + 1, c, m)
<1> DEFINE r == a.blocked
           last == a.last
           now == few * e
<1>1. /\ r \in Nat /\ last \in Nat /\ a.failures \in Nat
  BY DEF Attempt
<1>2. /\ b * g \in Nat /\ b * l \in Nat /\ b * n \in Nat /\ now \in Nat /\ few * last \in Nat
      /\ b * a.failures \in Nat /\ few * 1 = few
      /\ few * (e + 1) = now + few * 1 /\ few * (last + 1) = few * last + few * 1
      /\ few * (e + r) = now + few * r /\ few * r \in Nat /\ b * 0 = 0
  BY <1>1, Products
<1>3. CASE r > 1
  <2>1. c.blocked = r - 1 /\ r - 1 \in Nat /\ c.blocked > 0 /\ m = l
    BY <1>1, <1>3 DEF Down
  <2>2. (e + 1) + (r - 1) = e + r
    BY <1>1
  <2>3. b * g <= b * l + few * (e + r)
    BY <1>1, <1>3 DEF Paid
  <2> QED BY <2>1, <2>2, <2>3 DEF Paid
<1>4. CASE r = 1
  <2>1. ~(c.blocked > 0)
    BY <1>4 DEF Down
  <2>2. b * g <= b * l + few * (e + 1) /\ b * l <= b * n
    BY <1>4, Products DEF Paid
  <2>3. b * g <= b * n + few * (e + 1)
    BY <1>2, <2>2
  <2> QED BY <2>1, <2>3 DEF Paid
<1>5. CASE r = 0
  <2>1. ~(c.blocked > 0)
    BY <1>5 DEF Down
  <2>2. CASE b * g <= b * n + now
    <3>1. b * g <= b * n + few * (e + 1)
      BY <1>2, <2>2
    <3> QED BY <2>1, <3>1 DEF Paid
  <2>3. CASE b * g + few * last <= b * n + now + b * a.failures
    <3>1. c.last = last \/ c.last = last + 1
      BY DEF Up
    <3>2. b * g + few * c.last <= b * n + few * (e + 1) + b * a.failures
      BY <1>2, <2>3, <3>1
    <3> QED BY <2>1, <3>2 DEF Paid
  <2> QED BY <1>5, <2>2, <2>3 DEF Paid
<1> QED BY <1>1, <1>3, <1>4, <1>5

(* Failures that are old enough to be swept have been paid for by time.    *)
LEMMA PaidIfForgotten ==
  ASSUME NEW b \in Nat, NEW n \in Nat, NEW lim \in Nat, NEW few \in Nat, NEW g \in Nat, NEW e \in Nat,
         NEW a \in Attempt, NEW l \in Nat, NEW c \in Attempt,
         few = lim + n, Paid(b, n, few, g, e, a, l), a.failures < lim,
         a.blocked = 0, c.blocked = 0, a.last > 2 * b
  PROVE  Paid(b, n, few, g, e, c, l)
<1> DEFINE f == a.failures
           last == a.last
<1>1. few \in Nat /\ f \in Nat /\ last \in Nat /\ f <= few /\ b <= last
  BY DEF Attempt
<1>2. b * f <= b * few /\ b * few = few * b /\ few * b <= few * last
  BY <1>1, Products
<1>3. /\ b * g \in Nat /\ b * n \in Nat /\ few * e \in Nat /\ b * f \in Nat
      /\ few * last \in Nat /\ few * b \in Nat
  BY <1>1, Products
<1>4. \/ b * g <= b * n + few * e
      \/ b * g + few * last <= b * n + few * e + b * f
  BY DEF Paid
<1>5. b * g <= b * n + few * e
  BY <1>2, <1>3, <1>4
<1> QED BY <1>5 DEF Paid

LEMMA PaidLater ==
  ASSUME NEW b \in Nat, NEW n \in Nat, NEW few \in Nat, NEW g \in Nat, NEW e \in Nat, NEW d \in Nat,
         NEW a \in Attempt, NEW l \in Nat, Paid(b, n, few, g, e, a, l), e <= d
  PROVE  Paid(b, n, few, g, d, a, l)
<1>1. a.blocked \in Nat /\ a.last \in Nat /\ a.failures \in Nat
  BY DEF Attempt
<1>2. /\ few * e <= few * d /\ few * (e + a.blocked) <= few * (d + a.blocked)
      /\ few * e \in Nat /\ few * d \in Nat /\ few * (e + a.blocked) \in Nat /\ few * (d + a.blocked) \in Nat
      /\ b * g \in Nat /\ b * l \in Nat /\ b * n \in Nat /\ b * a.failures \in Nat /\ few * a.last \in Nat
  BY <1>1, Products
<1> QED BY <1>2 DEF Paid

(* The limit is never reached without a lock-out that starts anew.         *)
FewFailures == \A s \in Sources : attempts[s].failures < Limit(s)

LEMMA FewFailuresInit == Init => FewFailures
BY NumbersTyped DEF Init, FewFailures, NoAttempt

LEMMA FewFailuresKept == TypeOK /\ FewFailures /\ [Next]_vars => FewFailures'
<1> SUFFICES ASSUME TypeOK, FewFailures, [Next]_vars, NEW s \in Sources
             PROVE  attempts'[s].failures < Limit(s)
  BY DEF FewFailures
<1>0. attempts[s] \in Attempt /\ attempts[s].failures < Limit(s)
  BY DEF TypeOK, FewFailures
<1>1. CASE attempts'[s] = Forgotten[s]
  <2>1. Forgotten[s] \in {attempts[s], [attempts[s] EXCEPT !.failures = 0], NoAttempt(s)}
    BY DEF Forgotten
  <2> QED BY <1>0, <1>1, <2>1, NumbersTyped DEF Attempt, NoAttempt
<1>2. CASE attempts'[s] = Failed(attempts[s], s)
  BY <1>0, <1>2, NumbersTyped DEF Failed, Attempt
<1>3. CASE attempts'[s] = NoAttempt(s)
  BY <1>3, NumbersTyped DEF NoAttempt
<1>4. CASE attempts'[s] = [attempts[s] EXCEPT !.blocked = Down(@), !.last = Up(@, Long(s))]
  BY <1>0, <1>4 DEF Attempt
<1> QED BY <1>0, <1>1, <1>2, <1>3, <1>4, AttemptSteps

LockInv == TypeOK /\ LockFits /\ LateFits /\ FewFailures

PaidFor(s) ==
  /\ tried \in Nat /\ elapsed \in Nat
  /\ Paid(Block(s), Others, Few(s), tried, elapsed, attempts[s], late[s])

LEMMA SourceFacts ==
  ASSUME LockInv, Requests # {}, NEW s \in Sources
  PROVE  /\ Block(s) \in Nat \ {0} /\ Limit(s) \in Nat \ {0} /\ Others \in Nat /\ Few(s) = Limit(s) + Others
         /\ attempts[s] \in Attempt /\ late[s] \in Nat
         /\ attempts[s].failures < Limit(s) /\ attempts[s].blocked <= Block(s)
         /\ attempts[s].blocked = 0 => late[s] = 0
         /\ late[s] <= Others
<1>1. Block(s) \in Nat \ {0} /\ Limit(s) \in Nat \ {0}
  BY NumbersTyped
<1>2. attempts[s] \in Attempt /\ late[s] \in Nat /\ attempts[s].failures < Limit(s)
  BY DEF LockInv, TypeOK, FewFailures
<1>3. Others \in Nat
  BY SessionsAssumption, FS_EmptySet, FS_CardinalityType DEF Others
<1>4. Cardinality(Pending(s)) \in Nat
  BY PendingFinite DEF Pending
<1>5. IF attempts[s].blocked > 0 THEN late[s] + Cardinality(Pending(s)) <= Others ELSE late[s] = 0
  BY DEF LockInv, LateFits, Late, Locked, Others
<1>6. attempts[s].blocked > 0 => attempts[s].blocked + attempts[s].last <= Block(s)
  BY DEF LockInv, LockFits, Fits, Locked
<1> QED BY <1>1, <1>2, <1>3, <1>4, <1>5, <1>6 DEF Few, Attempt

LEMMA PaidStep ==
  ASSUME LockInv, LockInv', Requests # {}, NEW s \in Sources, PaidFor(s), [Trial(s)]_<<vars, counts>>
  PROVE  PaidFor(s)'
<1> DEFINE Holds(g, e, a, l) == Paid(Block(s), Others, Few(s), g, e, a, l)
<1>1. /\ tried \in Nat /\ elapsed \in Nat /\ Holds(tried, elapsed, attempts[s], late[s])
  BY DEF PaidFor
<1>2. ASSUME tried' \in Nat, elapsed' \in Nat, Holds(tried', elapsed', attempts'[s], late'[s])
      PROVE  PaidFor(s)'
  BY <1>2 DEF PaidFor, Few, Others, Block, Limit
<1>3. /\ Block(s) \in Nat \ {0} /\ Limit(s) \in Nat \ {0} /\ Others \in Nat /\ Few(s) = Limit(s) + Others
      /\ Few(s) \in Nat /\ attempts[s] \in Attempt /\ late[s] \in Nat
      /\ attempts[s].failures < Limit(s) /\ attempts[s].blocked <= Block(s)
      /\ attempts[s].blocked = 0 => late[s] = 0
      /\ late[s] <= Others
  BY SourceFacts
<1>4. attempts'[s] \in Attempt /\ late'[s] \in Nat
  BY DEF LockInv, TypeOK
<1>5. CASE tried' = 0 /\ elapsed' = 0
  <2>1. Holds(0, 0, attempts'[s], late'[s])
    <3> DEFINE r == attempts'[s].blocked
    <3>1. r \in Nat
      BY <1>4 DEF Attempt
    <3>2. /\ Block(s) * 0 = 0 /\ Block(s) * late'[s] \in Nat /\ Block(s) * Others \in Nat
          /\ Few(s) * 0 = 0 /\ Few(s) * (0 + r) \in Nat
      BY <1>3, <1>4, <3>1, Products
    <3> QED BY <3>2 DEF Paid
  <2> QED BY <1>2, <1>5, <2>1
<1>6. CASE UNCHANGED <<vars, counts>>
  BY <1>1, <1>2, <1>6 DEF vars, counts
<1>7. ASSUME Trial(s), ~Cleared(s), tried' = tried + (IF Guessed(s) THEN 1 ELSE 0),
             elapsed' = elapsed + (IF Tick THEN 1 ELSE 0)
      PROVE  PaidFor(s)'
  <2>0. tried' \in Nat /\ elapsed' \in Nat /\ elapsed <= elapsed'
    BY <1>1, <1>7
  <2>1. CASE Guessed(s)
    <3>1. PICK t \in Requests : Count(t) /\ s \in {req[t].ip, Everyone}
      BY <2>1 DEF Guessed
    <3>2. /\ attempts'[s] = Failed(attempts[s], s)
          /\ late'[s] = IF attempts[s].blocked > 0 THEN late[s] + 1 ELSE late[s]
      BY <3>1 DEF Count, Locked
    <3>3. Holds(tried + 1, elapsed, attempts'[s], late'[s])
      <4>1. attempts'[s] = IF attempts[s].failures + 1 >= Limit(s)
              THEN [failures |-> 0, blocked |-> Block(s), last |-> 0]
              ELSE [failures |-> attempts[s].failures + 1, blocked |-> attempts[s].blocked, last |-> 0]
        BY <3>2 DEF Failed
      <4>2. Block(s) > 0 /\ Block(s) \in Nat
        BY <1>3
      <4> QED BY <1>1, <1>3, <1>4, <3>2, <4>1, <4>2, PaidByGuess
    <3>4. tried' = tried + 1 /\ tried + 1 \in Nat
      BY <1>1, <1>7, <2>1
    <3>5. \A d \in Nat : elapsed <= d => Holds(tried + 1, d, attempts'[s], late'[s])
      BY <1>1, <1>3, <1>4, <3>3, <3>4, PaidLater
    <3>6. Holds(tried', elapsed', attempts'[s], late'[s])
      BY <2>0, <3>4, <3>5
    <3> QED BY <1>2, <2>0, <3>6
  <2>2. CASE ~Guessed(s) /\ Tick
    <3>1. /\ attempts'[s] = [attempts[s] EXCEPT !.blocked = Down(@), !.last = Up(@, Long(s))]
          /\ late'[s] = IF attempts[s].blocked > 1 THEN late[s] ELSE 0
      BY <2>2 DEF Tick
    <3>2. /\ attempts'[s].failures = attempts[s].failures
          /\ attempts'[s].blocked = Down(attempts[s].blocked)
          /\ attempts'[s].last = Up(attempts[s].last, Long(s))
      BY <1>3, <3>1 DEF Attempt
    <3>3. Long(s) \in Nat
      BY <1>3 DEF Long
    <3>4. Holds(tried, elapsed + 1, attempts'[s], late'[s])
      BY <1>1, <1>3, <1>4, <3>1, <3>2, <3>3, PaidByTime
    <3> QED BY <1>1, <1>2, <1>7, <2>0, <2>2, <3>4
  <2>3. CASE ~Guessed(s) /\ ~Tick
    <3>1. tried' = tried /\ elapsed' = elapsed
      BY <1>1, <1>7, <2>3
    <3>2. CASE attempts'[s] = attempts[s] /\ late'[s] = late[s]
      BY <1>1, <1>2, <3>1, <3>2
    <3>3. CASE attempts'[s] = Forgotten[s] /\ late'[s] = late[s]
      <4>1. CASE attempts[s].blocked > 0 \/ attempts[s].last <= 2 * Block(s)
        BY <1>1, <1>2, <3>1, <3>3, <4>1, ForgottenFree DEF Forgotten, Locked, LockInv
      <4>2. CASE attempts[s].blocked = 0 /\ attempts[s].last > 2 * Block(s)
        <5>1. attempts'[s].blocked = 0
          <6>1. Forgotten[s].blocked = 0
            BY <1>3, <4>2, NoAttemptTyped DEF Forgotten, Attempt
          <6> QED BY <3>3, <6>1
        <5>2. Holds(tried, elapsed, attempts'[s], late[s])
          BY <1>1, <1>3, <1>4, <4>2, <5>1, PaidIfForgotten
        <5> QED BY <1>1, <1>2, <3>1, <3>3, <5>2
      <4>3. attempts[s].blocked \in Nat /\ attempts[s].last \in Nat
        BY <1>3 DEF Attempt
      <4> QED BY <1>3, <4>1, <4>2, <4>3
    <3>4. [Next]_vars
      BY <1>7 DEF Trial
    <3> QED BY <1>7, <2>3, <3>2, <3>3, <3>4, AttemptSteps DEF LockInv, Guessed, Cleared
  <2> QED BY <2>1, <2>2, <2>3
<1> QED BY <1>5, <1>6, <1>7 DEF Trial

LEMMA FewArePaid ==
  ASSUME LockInv, Requests # {}, NEW s \in Sources, PaidFor(s)
  PROVE  GuessesFew(s)
<1> DEFINE b == Block(s)
           n == Others
           few == Few(s)
           a == attempts[s]
           l == late[s]
<1>1. /\ b \in Nat \ {0} /\ n \in Nat /\ Limit(s) \in Nat /\ few = Limit(s) + n /\ few \in Nat
      /\ a \in Attempt /\ l \in Nat /\ a.failures < Limit(s) /\ a.blocked <= b /\ l <= n
      /\ tried \in Nat /\ elapsed \in Nat /\ Paid(b, n, few, tried, elapsed, a, l)
  BY SourceFacts DEF PaidFor
<1>2. a.blocked \in Nat /\ a.last \in Nat /\ a.failures \in Nat /\ a.failures <= few
  BY <1>1 DEF Attempt
<1> SUFFICES b * (tried - n) <= few * (elapsed + b)
  BY DEF GuessesFew
<1> HIDE DEF b, n, few, a, l
<1>3. b * (tried - n) = b * tried - b * n
  BY <1>1
<1>4. /\ b * tried \in Nat /\ b * l \in Nat /\ b * n \in Nat /\ few * elapsed \in Nat
      /\ few * a.last \in Nat /\ few * b \in Nat /\ few * a.blocked \in Nat /\ b * a.failures \in Nat
      /\ few * (elapsed + b) = few * elapsed + few * b
      /\ few * (elapsed + a.blocked) = few * elapsed + few * a.blocked
      /\ b * l <= b * n /\ few * a.blocked <= few * b
      /\ b * a.failures <= b * few /\ b * few = few * b
  BY <1>1, <1>2, Products
<1>5. b * tried <= b * n + few * elapsed + few * b
  BY <1>1, <1>4 DEF Paid
<1> QED BY <1>3, <1>4, <1>5

(* In any period, from any moment on, in which no login succeeds from a    *)
(* source, at most Limit + Requests - 1 passwords are tried from it for    *)
(* each lock-out that fits into the period, and once more these, and those *)
(* that had asked before: attempts that race, sweeps, and failures during  *)
(* a lock-out yield no more (session.go:282-352, auth_handler.go:82-150).  *)
THEOREM GuessingIsSlow ==
  ASSUME Requests # {}, NEW CONSTANT s \in Sources
  PROVE  TrialSpec(s) => []GuessesFew(s)
<1>1. Init => LockInv
  <2>1. Init => LateFits
    BY NoAttemptTyped DEF Init, LateFits, Late, Locked
  <2> QED BY <2>1, TypesInit, LockFitsInit, FewFailuresInit DEF LockInv
<1>2. LockInv /\ [Next]_vars => LockInv'
  BY TypesKept, LockFitsKept, LateFitsKept, FewFailuresKept DEF LockInv
<1>3. Init /\ tried = 0 /\ elapsed = 0 => PaidFor(s)
  <2> SUFFICES ASSUME Init, tried = 0, elapsed = 0 PROVE PaidFor(s)
    OBVIOUS
  <2>1. LockInv
    BY <1>1
  <2>2. /\ Block(s) \in Nat /\ Others \in Nat /\ Few(s) \in Nat
    BY <2>1, SourceFacts
  <2>3. attempts[s].blocked = 0
    BY NoAttemptTyped DEF Init
  <2>4. Block(s) * 0 = 0 /\ Few(s) * 0 = 0 /\ Block(s) * Others \in Nat
    BY <2>2, Products
  <2> QED BY <2>3, <2>4 DEF PaidFor, Paid
<1>4. LockInv /\ PaidFor(s) => GuessesFew(s)
  BY FewArePaid
<1>5. [Trial(s)]_<<vars, counts>> => [Next]_vars
  BY DEF Trial, vars, counts
<1>6. LockInv /\ LockInv' /\ PaidFor(s) /\ [Trial(s)]_<<vars, counts>> => PaidFor(s)'
  BY PaidStep
<1> QED BY <1>1, <1>2, <1>3, <1>4, <1>5, <1>6, PTL DEF TrialSpec
=============================================================================
