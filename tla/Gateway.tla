------------------------------ MODULE Gateway ------------------------------
(***************************************************************************)
(* The pipeline every request of a listening port goes through (main.go    *)
(* handler), the table of routes it goes by (router.go), the lists of      *)
(* addresses (acl.go), the limiters (ratelimit.go), and the reload that    *)
(* replaces the table while requests are on their way.                     *)
(*                                                                         *)
(* A request loads the table once and keeps it.  A reload makes a new      *)
(* table, takes over the limiters of the routes whose limit is the same,   *)
(* stops the loops of those whose route is gone, and stores the table.     *)
(* Nothing of it can be seen before the store, and reloads exclude one     *)
(* another (a.mu): it is a step.  The certificates, the listeners and the  *)
(* honeypot come after (ConfigTx, Ports), ACME challenges are left out.    *)
(*                                                                         *)
(* A configuration is a constant.  An address list is the set of addresses *)
(* its rules contain; a host is the sequence of its labels; a path is the  *)
(* sequence of what stands between its slashes, and the prefix / is the    *)
(* empty one.  The breaker of a route is in CircuitBreaker, the list of    *)
(* bans in BanList, the listeners in Ports: here each may answer either    *)
(* way.  Limiters nobody can reach any more are forgotten.                 *)
(***************************************************************************)
EXTENDS Integers, Sequences, FiniteSets

CONSTANTS
  Requests,           \* goroutines that serve a request
  Ids,                \* of routes
  Addresses, Junk,    \* client addresses, and a text that is none
  Everyone,           \* the key all requests share under scope "global"
  HostOf,             \* per Host header, the labels it stands for
  Confs, Conf, First, \* configurations, what is in each, and the first one
  Inputs,             \* requests there may be
  Unit,               \* parts of a token: limits and bursts may be fractions
  Idle,               \* after which a bucket is swept
  MaxSlots            \* bound: limiters of a route at a time

VARIABLES
  live,      \* a.table
  lims,      \* the limiters there are: per route, one in each slot
  refused,   \* history: a reload was refused after it had stopped limiters
  req        \* per goroutine: its request

vars == <<live, lims, refused, req>>

Keys == Addresses \cup {Everyone}
Slots == 1 .. MaxSlots
None == [rate |-> 0, burst |-> 0, global |-> FALSE]
Stages == {"idle", "plain", "limit", "circuit", "forwarded"}

-----------------------------------------------------------------------------
(* A configuration. *)

Routes(c) == Conf[c].routes
Enabled(c) == {i \in DOMAIN Routes(c) : Routes(c)[i].enabled}
Has(c, r) == \E i \in Enabled(c) : Routes(c)[i].id = r
At(c, r) == CHOOSE i \in Enabled(c) : Routes(c)[i].id = r

(* rps and burst of a route's limit, in parts of a token; a burst that is  *)
(* not given is 2 * rps, which may be less than a token.                   *)
LimitIn == [c \in Confs |-> [r \in Ids |->
  IF ~Has(c, r) THEN None
  ELSE LET l == Routes(c)[At(c, r)].limit
       IN IF l.rate = 0 THEN None
          ELSE IF l.burst = 0 THEN [l EXCEPT !.burst = 2 * l.rate] ELSE l]]

LimitOf(c, r) == LimitIn[c][r]

Lists(c, i, kind) == {n \in Routes(c)[i].lists : Conf[c].lists[n].kind = kind}

(* resolveRouteACL: a list that is referred to exists, and one that allows *)
(* is not empty.                                                           *)
Resolves(c, i) ==
  /\ Routes(c)[i].lists \subseteq DOMAIN Conf[c].lists
  /\ \A n \in Lists(c, i, "allow") : Conf[c].lists[n].rules # {}

Buildable(c) == Conf[c].fails # "auth" /\ \A i \in Enabled(c) : Resolves(c, i)

(* validate: the lists, and then the routes, that refer to them. *)
ValidLists(c) ==
  \A n \in DOMAIN Conf[c].lists :
    /\ Conf[c].lists[n].kind \in {"allow", "deny"}
    /\ Conf[c].lists[n].kind = "allow" => Conf[c].lists[n].rules # {}

Validated(c) ==
  /\ ValidLists(c)
  /\ \A i, j \in DOMAIN Routes(c) : Routes(c)[i].id = Routes(c)[j].id => i = j
  /\ \A i \in DOMAIN Routes(c) :
       /\ Routes(c)[i].port \in Nat
       /\ Routes(c)[i].lists \subseteq DOMAIN Conf[c].lists

(* Configurations are validated before they are loaded, which bounds       *)
(* neither rate nor burst, and this is what a request can be.              *)
ASSUME GatewayAssumption ==
  /\ Unit \in Nat \ {0} /\ Idle \in Nat /\ MaxSlots \in Nat \ {0}
  /\ First \in Confs /\ Buildable(First)
  /\ Junk \notin Addresses /\ Everyone \notin Addresses
  /\ \A c \in Confs :
       /\ Validated(c)
       /\ Len(Routes(c)) \in Nat /\ DOMAIN Routes(c) = 1 .. Len(Routes(c))
       /\ \A i \in DOMAIN Routes(c) :
            /\ Routes(c)[i].id \in Ids
            /\ Len(Routes(c)[i].host) \in Nat /\ Len(Routes(c)[i].prefix) \in Nat
       /\ \A r \in Ids : LimitOf(c, r) \in [rate : Nat, burst : Nat, global : BOOLEAN]
  /\ Inputs # {}
  /\ \A x \in Inputs : x.remote \in Addresses /\ x.xff \in Seq(Addresses \cup {Junk})

(* The ports a table has an index for. *)
Ports(c) == (Conf[c].ports \cup {Routes(c)[i].port : i \in Enabled(c)}) \ {0}

-----------------------------------------------------------------------------
(* Match: port, host, path. *)

IsPrefix(p, s) == Len(p) <= Len(s) /\ SubSeq(s, 1, Len(p)) = p
IsLabelSuffix(p, s) == Len(p) < Len(s) /\ SubSeq(s, Len(s) - Len(p) + 1, Len(s)) = p

PathMatch(c, i, path) == IsPrefix(Routes(c)[i].prefix, path)
Exact(c, i, host) == host # <<>> /\ ~Routes(c)[i].wild /\ Routes(c)[i].host = host
AnyHost(c, i) == ~Routes(c)[i].wild /\ Routes(c)[i].host = <<>>
Wildcard(c, i, host) == Routes(c)[i].wild /\ IsLabelSuffix(Routes(c)[i].host, host)

(* What sortRoutes puts first: the longest prefix, then the order of the   *)
(* configuration.                                                          *)
Pick(c, S) ==
  CHOOSE i \in S : \A j \in S :
    LET p == Len(Routes(c)[i].prefix)
        o == Len(Routes(c)[j].prefix)
    IN p > o \/ (p = o /\ i <= j)

(* hostIndex.match over the routes S of an index; 0 is no route. *)
MatchHost(c, S, host, path) ==
  LET here == {i \in S : PathMatch(c, i, path)}
      exact == {i \in here : Exact(c, i, host)}
      wild == {i \in here : Wildcard(c, i, host)}
      longest == {i \in wild : \A j \in wild :
                    Len(Routes(c)[i].host) >= Len(Routes(c)[j].host)}
      any == {i \in here : AnyHost(c, i)}
  IN CASE exact # {} -> Pick(c, exact)
       [] exact = {} /\ wild # {} -> Pick(c, longest)
       [] exact = {} /\ wild = {} /\ any # {} -> Pick(c, any)
       [] OTHER -> 0

OfPort(c, port) == {i \in Enabled(c) : Routes(c)[i].port = port}

Match(c, port, host, path) ==
  LET specific == MatchHost(c, OfPort(c, port), host, path)
  IN IF port \notin Ports(c) THEN 0
     ELSE IF specific # 0 THEN specific
     ELSE MatchHost(c, OfPort(c, 0), host, path)

-----------------------------------------------------------------------------
(* Who asks, and whether the lists let him. *)

(* clientIP: behind a trusted proxy the last address of X-Forwarded-For    *)
(* that is an address and no trusted proxy; the one who connected when     *)
(* there is none, and when he is no trusted proxy.                         *)
ClientIP(x, trusted) ==
  LET named == {i \in DOMAIN x.xff : x.xff[i] # Junk /\ x.xff[i] \notin trusted}
  IN IF x.remote \notin trusted \/ named = {} THEN x.remote
     ELSE x.xff[CHOOSE i \in named : \A j \in named : j <= i]

(* decideIP, the global list and then the lists of a route. *)
GloballyDenied(c, ip) == ip \in Conf[c].deny

RouteAllows(c, i, ip) ==
  /\ \/ Lists(c, i, "allow") = {}
     \/ \E n \in Lists(c, i, "allow") : ip \in Conf[c].lists[n].rules
  /\ \A n \in Lists(c, i, "deny") : ip \notin Conf[c].lists[n].rules

WantsRedirect(c, i) == Routes(c)[i].tls /\ Routes(c)[i].redirect

Authenticates(c, i, x) == Routes(c)[i].auth = {} \/ x.cred \in Routes(c)[i].auth

-----------------------------------------------------------------------------
(* Limiters. *)

(* A bucket that is not in the map has no tokens to count: -1.  Its age is *)
(* how long it has not been seen.                                          *)
NoBucket == [tokens |-> -1, age |-> 0]
Buckets == [Keys -> [tokens : Nat \cup {-1}, age : Nat]]
Limiters == [rate : Nat, burst : Nat, global : BOOLEAN, loop : BOOLEAN, buckets : Buckets]

(* NewIPLimiter; no burst is less than a token. *)
NewLimiter(l) ==
  [rate |-> l.rate, burst |-> IF l.burst < Unit THEN Unit ELSE l.burst,
   global |-> l.global, loop |-> l.rate # 0,
   buckets |-> [k \in Keys |-> NoBucket]]

Lower(a, b) == IF a < b THEN a ELSE b

(* A refill that knows no burst. *)
FillAll(m, k) ==
  IF m.buckets[k].tokens = -1 THEN m.burst
  ELSE m.buckets[k].tokens + m.rate * m.buckets[k].age

(* What a bucket holds after its refill; a new one is full. *)
Fill(m, k) ==
  IF m.buckets[k].tokens = -1 THEN m.burst
  ELSE Lower(m.burst, m.buckets[k].tokens + m.rate * m.buckets[k].age)

Key(m, ip) == IF m.global THEN Everyone ELSE ip
Admits(m, k) == Fill(m, k) >= Unit

(* Allow: refill, and take a token if there is one. *)
Taken(m, k) ==
  [m EXCEPT !.buckets[k] =
     [tokens |-> IF Admits(m, k) THEN Fill(m, k) - Unit ELSE Fill(m, k), age |-> 0]]

Stale(m, k) == m.buckets[k].tokens # -1 /\ m.buckets[k].age > Idle

(* For how long a key has not been seen, as far as a sweep can tell. *)
Rests(m, k) ==
  IF m.buckets[k].tokens = -1 THEN Idle + 1 ELSE Lower(m.buckets[k].age, Idle + 1)

(* A unit of time passes, which makes no difference to a bucket that is    *)
(* stale and would be full.                                                *)
Older(m, k) ==
  IF m.buckets[k].tokens = -1 \/ (Stale(m, k) /\ Fill(m, k) = m.burst) THEN m.buckets[k]
  ELSE [m.buckets[k] EXCEPT !.age = @ + 1]

-----------------------------------------------------------------------------
(* reload *)

(* The limiter of r in the table that is built of c, by its slot; 0 is     *)
(* none.  A new one takes a slot no table has that anybody holds.          *)
Held(r, n) == live.lim[r] = n \/ \E q \in Requests : req[q].lim[r] = n
Fresh(r) == CHOOSE n \in Slots : ~Held(r, n)

(* A limiter is made anew whatever was there. *)
NeverReusable(c, r) == FALSE

(* The burst of the old limiter is compared with the configured one, that  *)
(* NewIPLimiter may have raised; the scope is not compared.                *)
Reusable(c, r) ==
  /\ live.lim[r] # 0
  /\ lims[r][live.lim[r]].rate = LimitOf(c, r).rate
  /\ lims[r][live.lim[r]].burst = LimitOf(c, r).burst

Chosen(c, r) ==
  IF LimitOf(c, r).rate = 0 THEN 0
  ELSE IF Reusable(c, r) THEN live.lim[r]
  ELSE Fresh(r)

Table(c) == [conf |-> c, lim |-> [r \in Ids |-> Chosen(c, r)]]

(* Those of all routes are. *)
ClosesAll(c, r, n) == live.lim[r] = n

(* The limiters of routes that are gone are closed. *)
Closes(c, r, n) == live.lim[r] = n /\ ~Has(c, r)

(* What becomes of the limiters; those nobody has any more are forgotten.  *)
Limiter(c, r, n) ==
  IF Held(r, n) /\ (n = Chosen(c, r) \/ \E q \in Requests : req[q].lim[r] = n)
    THEN [lims[r][n] EXCEPT !.loop = @ /\ ~Closes(c, r, n)]
  ELSE NewLimiter(IF n = Chosen(c, r) THEN LimitOf(c, r) ELSE None)

(* Until table.Store.  A configuration that buildTable refuses changes     *)
(* nothing; what follows the store may fail and does not take it back.     *)
Reload(c) ==
  /\ \A r \in Ids : \E n \in Slots : ~Held(r, n)
  /\ Buildable(c) /\ Conf[c].fails # "accounts"
  /\ lims' = [r \in Ids |-> [n \in Slots |-> Limiter(c, r, n)]]
  /\ live' = Table(c)
  /\ UNCHANGED <<refused, req>>

(* newAdminAccounts fails, after the limiters have been closed. *)
ReloadRefused(c) ==
  /\ Buildable(c) /\ Conf[c].fails = "accounts"
  /\ lims' = [r \in Ids |-> [n \in Slots |->
                [lims[r][n] EXCEPT !.loop = @ /\ ~Closes(c, r, n)]]]
  /\ refused' = TRUE
  /\ UNCHANGED <<live, req>>

-----------------------------------------------------------------------------
(* A request.  from and paid are history: the configuration in force when  *)
(* it arrived, and that a limiter gave it a token.                         *)

Request ==
  [stage : Stages, x : Inputs, tbl : Confs, lim : [Ids -> 0 .. MaxSlots],
   ip : Addresses \cup {Junk}, route : Nat, from : Confs, paid : BOOLEAN]

NoLimiters == [r \in Ids |-> 0]
Free == [stage |-> "idle", x |-> CHOOSE x \in Inputs : TRUE, tbl |-> First,
         lim |-> NoLimiters, ip |-> Junk, route |-> 0, from |-> First, paid |-> FALSE]

To(q, stage) == req' = [req EXCEPT ![q].stage = stage]
Answered(q) == req' = [req EXCEPT ![q] = Free]

(* The table is loaded, and with it the client's address.  A request that  *)
(* checkGlobalDeny or the list of bans refuses leaves no trace.            *)
Arrive(q, x) ==
  /\ req[q].stage = "idle"
  /\ ~GloballyDenied(live.conf, ClientIP(x, Conf[live.conf].trusted))
  /\ req' = [req EXCEPT ![q] =
       [stage |-> "plain", x |-> x, tbl |-> live.conf, lim |-> live.lim,
        ip |-> ClientIP(x, Conf[live.conf].trusted), route |-> 0,
        from |-> live.conf, paid |-> FALSE]]
  /\ UNCHANGED <<live, lims, refused>>

MatchOf(q) ==
  Match(req[q].tbl, req[q].x.port, HostOf[req[q].x.host], req[q].x.path)

(* handlePlaintext: a plain request may be sent to HTTPS. *)
Redirected(q) ==
  ~req[q].x.tls /\ MatchOf(q) # 0 /\ WantsRedirect(req[q].tbl, MatchOf(q))

(* Then the route is looked up again, and its lists are asked. *)
Passes(q) == MatchOf(q) # 0 /\ RouteAllows(req[q].tbl, MatchOf(q), req[q].ip)

(* The table is loaded again for the route. *)
RouteLate(q) ==
  /\ req[q].stage = "plain"
  /\ LET i == Match(live.conf, req[q].x.port, HostOf[req[q].x.host], req[q].x.path)
     IN IF Redirected(q) \/ i = 0 \/ ~RouteAllows(live.conf, i, req[q].ip) THEN Answered(q)
        ELSE req' = [req EXCEPT ![q].route = i, ![q].stage = "limit",
                                ![q].tbl = live.conf, ![q].lim = live.lim]
  /\ UNCHANGED <<live, lims, refused>>

Route(q) ==
  /\ req[q].stage = "plain"
  /\ IF Redirected(q) \/ ~Passes(q) THEN Answered(q)
     ELSE req' = [req EXCEPT ![q].route = MatchOf(q), ![q].stage = "limit"]
  /\ UNCHANGED <<live, lims, refused>>

IdOf(q) == Routes(req[q].tbl)[req[q].route].id

Unlimited(q) ==
  /\ req[q].stage = "limit" /\ req[q].lim[IdOf(q)] = 0
  /\ req' = [req EXCEPT ![q].lim = NoLimiters, ![q].stage = "circuit"]
  /\ UNCHANGED <<live, lims, refused>>

CheckRateLimit(q) ==
  /\ req[q].stage = "limit" /\ req[q].lim[IdOf(q)] # 0
  /\ LET r == IdOf(q)
         n == req[q].lim[r]
         k == Key(lims[r][n], req[q].ip)
     IN /\ lims' = [lims EXCEPT ![r][n] = Taken(lims[r][n], k)]
        /\ IF Admits(lims[r][n], k)
           THEN req' = [req EXCEPT ![q].paid = TRUE, ![q].lim = NoLimiters,
                                   ![q].stage = "circuit"]
           ELSE Answered(q)
  /\ UNCHANGED <<live, refused>>

(* checkCircuit: a breaker may refuse.  checkAuth: the credentials decide. *)
Forward(q) ==
  /\ req[q].stage = "circuit"
  /\ Authenticates(req[q].tbl, req[q].route, req[q].x)
  /\ To(q, "forwarded")
  /\ UNCHANGED <<live, lims, refused>>

Refuse(q) ==
  /\ req[q].stage = "circuit"
  /\ \/ Routes(req[q].tbl)[req[q].route].breaker
     \/ ~Authenticates(req[q].tbl, req[q].route, req[q].x)
  /\ Answered(q)
  /\ UNCHANGED <<live, lims, refused>>

(* The backend has answered. *)
Leave(q) ==
  /\ req[q].stage = "forwarded"
  /\ Answered(q)
  /\ UNCHANGED <<live, lims, refused>>

-----------------------------------------------------------------------------
(* Around it. *)

(* cleanupLoop's sweep, of a limiter some table still has. *)
Sweep(r, n) ==
  /\ Held(r, n) /\ lims[r][n].loop
  /\ \E k \in Keys : Stale(lims[r][n], k)
  /\ lims' = [lims EXCEPT ![r][n].buckets =
       [k \in Keys |-> IF Stale(lims[r][n], k) THEN NoBucket
                         ELSE lims[r][n].buckets[k]]]
  /\ UNCHANGED <<live, refused, req>>

Tick ==
  /\ lims' = [r \in Ids |-> [n \in Slots |-> [lims[r][n] EXCEPT !.buckets =
                [k \in Keys |-> Older(lims[r][n], k)]]]]
  /\ UNCHANGED <<live, refused, req>>

(* The first reload, at the start of the process. *)
Init ==
  /\ live = [conf |-> First,
             lim |-> [r \in Ids |-> IF LimitOf(First, r).rate = 0 THEN 0 ELSE 1]]
  /\ lims = [r \in Ids |-> [n \in Slots |->
               NewLimiter(IF n = 1 THEN LimitOf(First, r) ELSE None)]]
  /\ refused = FALSE
  /\ req = [q \in Requests |-> Free]

Next ==
  \/ \E c \in Confs : Reload(c) \/ ReloadRefused(c)
  \/ \E q \in Requests :
       \/ \E x \in Inputs : Arrive(q, x)
       \/ Route(q) \/ Unlimited(q) \/ CheckRateLimit(q)
       \/ Forward(q) \/ Refuse(q) \/ Leave(q)
  \/ \E r \in Ids, n \in Slots : Sweep(r, n)
  \/ Tick

Spec == Init /\ [][Next]_vars

-----------------------------------------------------------------------------
(* Properties. *)

(* Every variable has its type: in particular a bucket never holds more    *)
(* than the burst of its limiter, and a table has a limiter for exactly    *)
(* the routes that have a limit.                                           *)
TypeOK ==
  /\ live \in [conf : Confs, lim : [Ids -> 0 .. MaxSlots]]
  /\ lims \in [Ids -> [Slots -> Limiters]]
  /\ \A r \in Ids, n \in Slots, k \in Keys :
       lims[r][n].buckets[k].tokens <= lims[r][n].burst
  /\ \A r \in Ids : live.lim[r] = 0 <=> LimitOf(live.conf, r).rate = 0
  /\ refused \in BOOLEAN
  /\ req \in [Requests -> Request]
  /\ \A q \in Requests : req[q].route \in {0} \cup Enabled(req[q].tbl)

(* What a configuration says of a request, without the indexes: the source *)
(* is the last of the chain of addresses that is no trusted proxy, and the *)
(* route the most specific one that fits.                                  *)
Source(x, trusted) ==
  LET chain == x.xff \o <<x.remote>>
      outside == {i \in DOMAIN chain : chain[i] # Junk /\ chain[i] \notin trusted}
  IN IF outside = {} THEN x.remote
     ELSE chain[CHOOSE i \in outside : \A j \in outside : j <= i]

Fits(c, i, x) ==
  /\ i \in Enabled(c) /\ Routes(c)[i].port \in {0, x.port}
  /\ PathMatch(c, i, x.path)
  /\ Exact(c, i, HostOf[x.host]) \/ Wildcard(c, i, HostOf[x.host]) \/ AnyHost(c, i)

Rank(c, i) ==
  <<IF Routes(c)[i].port = 0 THEN 0 ELSE 1,
    IF AnyHost(c, i) THEN 0 ELSE IF Routes(c)[i].wild THEN 1 ELSE 2,
    Len(Routes(c)[i].host), Len(Routes(c)[i].prefix), -i>>

Outranks(a, b) ==
  \E n \in DOMAIN a : a[n] > b[n] /\ \A m \in 1 .. n - 1 : a[m] = b[m]

(* c, all of it and nothing else, lets the request through by its route.   *)
Justified(q, c) ==
  LET x == req[q].x
      i == req[q].route
      ip == Source(x, Conf[c].trusted)
  IN /\ ~GloballyDenied(c, ip)
     /\ Fits(c, i, x)
     /\ ~\E j \in DOMAIN Routes(c) : Fits(c, j, x) /\ Outranks(Rank(c, j), Rank(c, i))
     /\ x.tls \/ ~WantsRedirect(c, i)
     /\ RouteAllows(c, i, ip)
     /\ LimitOf(c, Routes(c)[i].id).rate # 0 => req[q].paid
     /\ Authenticates(c, i, x)

(* Whatever reloads happen while a request is on its way, it is forwarded  *)
(* only as the configuration in force when it arrived says: never past the *)
(* lists of one to a route of another (main.go:462).                       *)
OneTable ==
  \A q \in Requests : req[q].stage = "forwarded" => Justified(q, req[q].from)

(* What a live limiter has let through and time has not made good, and how *)
(* long a key has not been seen.                                           *)
Owed(r, k) ==
  IF live.lim[r] = 0 THEN 0
  ELSE lims[r][live.lim[r]].burst - Fill(lims[r][live.lim[r]], k)

Quiet(r, k) ==
  IF live.lim[r] = 0 THEN Idle + 1 ELSE Rests(lims[r][live.lim[r]], k)

Debts == [r \in Ids |-> [k \in Keys |-> Owed(r, k)]]
Quiets == [r \in Ids |-> [k \in Keys |-> Quiet(r, k)]]

Limits == [r \in Ids |-> [rate |-> LimitOf(live.conf, r).rate,
                          burst |-> LimitOf(live.conf, r).burst]]

Metered == INSTANCE Meter WITH limit <- Limits, debt <- Debts, quiet <- Quiets

(* The limiters implement the meter: the lazy refill and the reloads give  *)
(* nobody a token more than his rate while the limit stays what it is,     *)
(* except that a limit with a burst below one token starts anew at every   *)
(* reload (router.go:239, against router.go:174); and a sweep gives no     *)
(* more than what the rate has not made good in the time a bucket must be  *)
(* idle, which is nothing for usual bursts (ratelimit.go:44-101).          *)
ImplementsMeter == Metered!Spec

(* The buckets of a limiter in use are swept, so that they do not          *)
(* accumulate (ratelimit.go:77); unless a reload has failed after it had   *)
(* closed limiters, which the table that stays still has.                  *)
SweptUnlessRefused ==
  \A r \in Ids :
    live.lim[r] # 0 => refused \/ lims[r][live.lim[r]].loop
=============================================================================
