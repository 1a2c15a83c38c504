------------------------------ MODULE Sessions ------------------------------
(***************************************************************************)
(* Who is logged in to the console: the store of sessions and of failed    *)
(* logins (session.go), the handlers that log in, check a request and log  *)
(* out (auth_handler.go), and the accounts they check against              *)
(* (admin_users.go), which a reload replaces under their feet.             *)
(*                                                                         *)
(* The store's mutex makes each of its methods a step.  Nothing is held    *)
(* between two of them: a login asks whether its address is locked out,    *)
(* waits for its body, takes the accounts, verifies the password (slowly), *)
(* and only then records what came of it.  A request takes the accounts    *)
(* and then looks its session up.                                          *)
(*                                                                         *)
(* An account is its fingerprint, 0 when there is no such account.  A      *)
(* reload may change any fingerprint, and may bring an old one back, as    *)
(* the rollback of a refused edit does.  (An account with a plaintext      *)
(* password has a new fingerprint after every reload, since its hash is    *)
(* made again.)  admin_token is the account Token.  A request with a       *)
(* bearer token leaves no state and is left out, as are the wording, the   *)
(* cookies and the constant delay.  Time is relative: everything has an    *)
(* age, or the time it still has to last.                                  *)
(***************************************************************************)
EXTENDS Integers, FiniteSets

CONSTANTS
  Requests,      \* goroutines that serve the console
  Handles,       \* of the sessions; one that nobody holds stands for a new one
  Accounts, Token,
  Versions,      \* bound: an account has one of the fingerprints 1 .. Versions
  IPs, Everyone, \* the addresses, and the entry that counts for all of them
  MaxSessions, Idle, Absolute, Touch,    \* maxSessions, session...Timeout, ...
  IPLimit, IPBlock, AllLimit, AllBlock   \* loginMaxFailures..., login...Block...

ASSUME SessionsAssumption ==
  /\ IsFiniteSet(Requests) /\ IsFiniteSet(Handles) /\ Handles # {} /\ IPs # {}
  /\ Token \notin Accounts /\ Everyone \notin IPs
  /\ {Versions, MaxSessions, Idle, Absolute, IPLimit, IPBlock, AllLimit, AllBlock}
       \subseteq Nat \ {0}
  /\ Touch \in Nat /\ Touch < Idle

VARIABLES
  creds,     \* a.adminAccounts and a.adminToken
  sessions,  \* s.sessions
  attempts,  \* s.attempts and s.global
  req,       \* per goroutine: where it is, and what it holds
  late       \* history: failures recorded of a source since it was locked out

vars == <<creds, sessions, attempts, req, late>>

Users == Accounts \cup {Token}
Sources == IPs \cup {Everyone}
Creds == [Users -> 0 .. Versions]

(* used and shaken are history: how long ago a request was let in with the *)
(* session, and whether its account has had another fingerprint since the  *)
(* login took the accounts.                                                *)
Session == [user : Users, fp : 0 .. Versions, born : 0 .. Absolute + 1,
            seen : 0 .. Idle + 1, used : 0 .. Idle + 1, shaken : BOOLEAN]
NoSession == [user |-> Token, fp |-> 0, born |-> 0, seen |-> 0, used |-> 0, shaken |-> FALSE]
Live(h) == sessions[h].fp # 0

(* fresh is history: the accounts are the ones the request has taken.      *)
Request == [at : {"idle", "ask", "fail", "count", "create", "clear", "look", "served"},
            ip : IPs, h : Handles, user : Users, fp : 0 .. Versions,
            creds : Creds, fresh : BOOLEAN, shaken : BOOLEAN]

Limit(s) == IF s = Everyone THEN AllLimit ELSE IPLimit
Block(s) == IF s = Everyone THEN AllBlock ELSE IPBlock
Long(s) == 2 * Block(s) + 1   \* every age above 2 * Block(s)
Attempt == [failures : Nat, blocked : Nat, last : Nat]
NoAttempt(s) == [failures |-> 0, blocked |-> 0, last |-> Long(s)]

At(t, label) == req[t].at = label
Goto(t, label) == req' = [req EXCEPT ![t].at = label]
(* What a goroutine holds is what it may still use. *)
Start == [at |-> "idle", ip |-> CHOOSE i \in IPs : TRUE, h |-> CHOOSE h \in Handles : TRUE,
          user |-> Token, fp |-> 0, creds |-> [u \in Users |-> 0],
          fresh |-> FALSE, shaken |-> FALSE]
Done(t) == req' = [req EXCEPT ![t] = Start]
Created(t) == req' = [req EXCEPT ![t] = [Start EXCEPT !.at = "clear", !.ip = req[t].ip]]
LetIn(t) == req' = [req EXCEPT ![t] = [Start EXCEPT !.at = "served", !.h = req[t].h]]

Locked(s) == attempts[s].blocked > 0
Blocked(ip) == Locked(Everyone) \/ Locked(ip)   \* loginBlocked

(* As if only idleness counted. *)
Unused(s) == s.seen > Idle

Expired(s) == s.born > Absolute \/ s.seen > Idle

Init ==
  /\ creds \in Creds
  /\ sessions = [h \in Handles |-> NoSession]
  /\ attempts = [s \in Sources |-> NoAttempt(s)]
  /\ req = [t \in Requests |-> Start]
  /\ late = [s \in Sources |-> 0]

-----------------------------------------------------------------------------
(* The store *)

(* As if a session were swept once it is not touched. *)
SweptEarly(ss) == [h \in Handles |-> IF ss[h].seen > Touch THEN NoSession ELSE ss[h]]

(* sweepLocked: the sessions, and the failures. *)
Swept(ss) == [h \in Handles |-> IF Expired(ss[h]) THEN NoSession ELSE ss[h]]

Forgotten == [s \in Sources |->
  IF attempts[s].last <= 2 * Block(s) THEN attempts[s]
  ELSE IF s = Everyone THEN [attempts[s] EXCEPT !.failures = 0] ELSE NoAttempt(s)]

LiveOf(ss) == {h \in Handles : ss[h].fp # 0}
Held == {req[t].h : t \in {u \in Requests : req[u].at \in {"look", "served"}}}

(* As if a source's entry were made anew at every failure. *)
FailedAnew(a, s) ==
  [failures |-> (a.failures + 1) % Limit(s),
   blocked |-> IF a.failures + 1 >= Limit(s) THEN Block(s) ELSE 0, last |-> 0]

(* One more failure of a source: at its limit it is locked out anew. *)
Failed(a, s) ==
  IF a.failures + 1 >= Limit(s)
    THEN [failures |-> 0, blocked |-> Block(s), last |-> 0]
    ELSE [failures |-> a.failures + 1, blocked |-> a.blocked, last |-> 0]

-----------------------------------------------------------------------------
(* handleLogin *)

(* As if nobody asked. *)
AskNothing(t, ip) ==
  /\ At(t, "idle")
  /\ req' = [req EXCEPT ![t].at = "ask", ![t].ip = ip]
  /\ UNCHANGED <<creds, sessions, attempts, late>>

Ask(t, ip) ==
  /\ At(t, "idle") /\ ~Blocked(ip)
  /\ req' = [req EXCEPT ![t].at = "ask", ![t].ip = ip]
  /\ UNCHANGED <<creds, sessions, attempts, late>>

(* As if a refused login counted as a failed one. *)
RefusedCounts(t, ip) ==
  /\ At(t, "idle") /\ Blocked(ip)
  /\ attempts' = [attempts EXCEPT ![ip].blocked = IPBlock, ![ip].last = 0]
  /\ UNCHANGED <<creds, sessions, req, late>>

(* A 429 leaves nothing behind. *)
Refuse(t, ip) == At(t, "idle") /\ Blocked(ip) /\ UNCHANGED vars

(* A body that is not JSON. *)
Garbled(t) == At(t, "ask") /\ Done(t) /\ UNCHANGED <<creds, sessions, attempts, late>>

(* The accounts are taken; whether the password is the one for the account *)
(* is decided: it is the one for the fingerprint fp, for none if fp = 0.   *)
Verify(t, user, fp) ==
  /\ At(t, "ask")
  /\ IF fp # 0 /\ fp = creds[user]
       THEN req' = [req EXCEPT ![t].at = "create", ![t].user = user, ![t].fp = fp]
       ELSE Goto(t, "fail")
  /\ UNCHANGED <<creds, sessions, attempts, late>>

(* A failure does not count while no account is configured at all: read    *)
(* without the lock, after the accounts that were verified against.        *)
Fail(t) ==
  /\ At(t, "fail")
  /\ IF \A u \in Users : creds[u] = 0 THEN Done(t) ELSE Goto(t, "count")
  /\ UNCHANGED <<creds, sessions, attempts, late>>

(* recordLoginFailure *)
Count(t) ==
  LET ip == req[t].ip
  IN /\ At(t, "count") /\ Done(t)
     /\ attempts' = [s \in Sources |-> IF s \in {ip, Everyone} THEN Failed(attempts[s], s)
                                       ELSE attempts[s]]
     /\ late' = [s \in Sources |-> IF s \in {ip, Everyone} /\ Locked(s) THEN late[s] + 1
                                   ELSE late[s]]
     /\ UNCHANGED <<creds, sessions>>

(* As if a full store were only swept. *)
CreateAnyway(t) ==
  LET ss == IF Cardinality(LiveOf(sessions)) >= MaxSessions THEN Swept(sessions) ELSE sessions
      free == Handles \ (LiveOf(sessions) \cup Held)
  IN /\ At(t, "create") /\ free # {} /\ Created(t)
     /\ sessions' = [ss EXCEPT ![CHOOSE h \in free : TRUE] =
          [user |-> req[t].user, fp |-> req[t].fp, born |-> 0, seen |-> 0, used |-> 0,
           shaken |-> req[t].shaken]]
     /\ UNCHANGED <<creds, attempts, late>>

(* create: a full store is swept, and then refuses; a store that is swept  *)
(* forgets failures too.                                                   *)
Create(t) ==
  LET full == Cardinality(LiveOf(sessions)) >= MaxSessions
      ss == IF full THEN Swept(sessions) ELSE sessions
      free == Handles \ (LiveOf(sessions) \cup Held)
  IN /\ At(t, "create")
     /\ attempts' = IF full THEN Forgotten ELSE attempts
     /\ IF Cardinality(LiveOf(ss)) >= MaxSessions
          THEN sessions' = ss /\ Done(t)
          ELSE /\ free # {} /\ Created(t)
               /\ sessions' = [ss EXCEPT ![CHOOSE h \in free : TRUE] =
                    [user |-> req[t].user, fp |-> req[t].fp, born |-> 0, seen |-> 0,
                     used |-> 0, shaken |-> req[t].shaken]]
     /\ UNCHANGED <<creds, late>>

(* recordLoginSuccess: the address starts from nothing, locked out or not. *)
Clear(t) ==
  LET ip == req[t].ip
  IN /\ At(t, "clear") /\ Done(t)
     /\ attempts' = [attempts EXCEPT ![ip] = NoAttempt(ip)]
     /\ late' = [late EXCEPT ![ip] = 0]
     /\ UNCHANGED <<creds, sessions>>

Login(t) == \/ \E ip \in IPs : Ask(t, ip) \/ Refuse(t, ip)
            \/ Garbled(t) \/ Fail(t) \/ Count(t) \/ Create(t) \/ Clear(t)
            \/ \E user \in Users, fp \in 0 .. Versions : Verify(t, user, fp)

-----------------------------------------------------------------------------
(* A request with a cookie: identifyAdminRequest, then what it came for *)

Identify(t, h) ==
  /\ At(t, "idle") /\ Live(h)
  /\ req' = [req EXCEPT ![t].at = "look", ![t].h = h, ![t].creds = creds, ![t].fresh = TRUE]
  /\ UNCHANGED <<creds, sessions, attempts, late>>

(* As if the fingerprint were compared at the login only. *)
LookupUnbound(t) ==
  LET h == req[t].h
      s == sessions[h]
      touched == IF s.seen > Touch THEN 0 ELSE s.seen
  IN /\ At(t, "look")
     /\ IF ~Live(h) \/ Expired(s)
          THEN sessions' = [sessions EXCEPT ![h] = NoSession] /\ Done(t)
          ELSE sessions' = [sessions EXCEPT ![h].seen = touched, ![h].used = 0] /\ LetIn(t)
     /\ UNCHANGED <<creds, attempts, late>>

(* As if only the login were a use. *)
Untouched(s) == s.seen

(* lookup: lastSeen follows the requests, but not every one of them. *)
Touched(s) == IF s.seen > Touch THEN 0 ELSE s.seen

Lookup(t) ==
  LET h == req[t].h
      s == sessions[h]
  IN /\ At(t, "look")
     /\ IF ~Live(h) \/ Expired(s) \/ req[t].creds[s.user] # s.fp
          THEN sessions' = [sessions EXCEPT ![h] = NoSession] /\ Done(t)
          ELSE /\ sessions' = [sessions EXCEPT ![h].seen = Touched(s), ![h].used = 0]
               /\ LetIn(t)
     /\ UNCHANGED <<creds, attempts, late>>

(* Anything but a logout, and a logout from another origin. *)
Serve(t) == At(t, "served") /\ Done(t) /\ UNCHANGED <<creds, sessions, attempts, late>>

Logout(t) ==
  /\ At(t, "served") /\ Done(t)
  /\ sessions' = [sessions EXCEPT ![req[t].h] = NoSession]   \* revoke
  /\ UNCHANGED <<creds, attempts, late>>

Visit(t) == (\E h \in Handles : Identify(t, h)) \/ Lookup(t) \/ Serve(t) \/ Logout(t)

-----------------------------------------------------------------------------
(* sessionSweepLoop, reload and the clock *)

Sweep ==
  /\ sessions' = Swept(sessions) /\ attempts' = Forgotten
  /\ UNCHANGED <<creds, req, late>>

Reload(new) ==
  /\ creds' = new
  /\ sessions' = [h \in Handles |->
       [sessions[h] EXCEPT !.shaken = @ \/ (Live(h) /\ new[sessions[h].user] # sessions[h].fp)]]
  /\ req' = [t \in Requests |->
       [req[t] EXCEPT !.fresh = @ /\ new = creds,
                      !.shaken = @ \/ (At(t, "create") /\ new[req[t].user] # req[t].fp)]]
  /\ UNCHANGED <<attempts, late>>

Up(age, cap) == IF age < cap THEN age + 1 ELSE age
Down(rest) == IF rest > 0 THEN rest - 1 ELSE 0

Tick ==
  /\ sessions' = [h \in Handles |-> IF Live(h)
       THEN [sessions[h] EXCEPT !.born = Up(@, Absolute + 1), !.seen = Up(@, Idle + 1),
                                !.used = Up(@, Idle + 1)]
       ELSE sessions[h]]
  /\ attempts' = [s \in Sources |->
       [attempts[s] EXCEPT !.blocked = Down(@), !.last = Up(@, Long(s))]]
  /\ late' = [s \in Sources |-> IF attempts[s].blocked > 1 THEN late[s] ELSE 0]
  /\ UNCHANGED <<creds, req>>

Next == \/ \E t \in Requests : Login(t) \/ Visit(t)
        \/ Sweep \/ Tick
        \/ \E new \in Creds : Reload(new)

Spec == Init /\ [][Next]_vars

(* The clock runs, and the sweeper's ticker fires. *)
FairSpec == Spec /\ WF_vars(Tick) /\ WF_vars(Sweep)

-----------------------------------------------------------------------------
TypeOK ==
  /\ creds \in Creds
  /\ sessions \in [Handles -> Session]
  /\ attempts \in [Sources -> Attempt]
  /\ req \in [Requests -> Request]
  /\ late \in [Sources -> Nat]

(* However many log in at once, there are never more than MaxSessions.     *)
StoreBounded == Cardinality(LiveOf(sessions)) <= MaxSessions

(* While a source is locked out, the passwords still tried from it are     *)
(* those of the requests that had asked before: the limit of guesses is    *)
(* exceeded by the requests that run at once, and by no more.              *)
LateGuessesBounded ==
  \A s \in Sources : Locked(s) => late[s] <= Cardinality(Requests) - 1

(* Touching a session only now and then costs it at most Touch: it is not  *)
(* idle before nobody has used it for Idle - Touch.                        *)
TouchLag == \A h \in Handles : Live(h) => sessions[h].seen <= sessions[h].used + Touch

(* A request that began after the last change of the accounts is let in    *)
(* only with a session of an account as it is now: no session outlives its *)
(* password.                                                               *)
NoOldPassword == [][\A t \in Requests :
  At(t, "look") /\ req'[t].at = "served" /\ req[t].fresh
    => sessions[req[t].h].fp = creds[sessions[req[t].h].user]]_vars

(* Nobody is logged out but for a reason: the session is too old or idle,  *)
(* its own request logs it out, or its account has changed since the login.*)
KeptUnlessCause == [][\A h \in Handles :
  Live(h) /\ sessions'[h].fp = 0
    => \/ Expired(sessions[h]) \/ sessions[h].shaken
       \/ \E t \in Requests : At(t, "served") /\ req[t].h = h /\ req'[t].at = "idle"]_vars

(* A lock-out ends by time, or by a login that succeeds from there; no     *)
(* sweep ends it.                                                          *)
LockOutLasts == [][\A s \in Sources :
  Locked(s) /\ attempts'[s].blocked = 0
    => \/ attempts[s].blocked = 1 /\ attempts'[s].last > 0
       \/ \E t \in Requests : At(t, "clear") /\ req[t].ip = s]_vars

(* No session lasts for ever, however much it is used.                     *)
SessionsEnd == \A h \in Handles : Live(h) ~> ~Live(h)

(* No address is locked out for ever, however often it and the others try. *)
LockOutEnds == \A ip \in IPs : Blocked(ip) ~> ~Blocked(ip)
=============================================================================
