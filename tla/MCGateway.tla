----------------------------- MODULE MCGateway -----------------------------
(* The gateway on small instances. *)
EXTENDS Gateway, TLC

CONSTANTS c1, c2, c3, c4, r1, r2, a1, a2, proxy, nobody, pw

(* In thirds of a token: a limit with a burst of two tokens, more than the *)
(* rate makes good while a bucket is idle, and one whose burst is not      *)
(* given and comes to less than a token.                                   *)
Slow == [rate |-> 4, burst |-> 6, global |-> FALSE]
Slower == [rate |-> 1, burst |-> 0, global |-> TRUE]

(* Everything goes to r1, slowly; the API of the hosts under x to r2, for  *)
(* the office, with a password; that of a.x may want HTTPS.                *)
All(limit) ==
  [id |-> r1, port |-> 0, wild |-> FALSE, host |-> <<>>, prefix |-> <<>>,
   enabled |-> TRUE, tls |-> FALSE, redirect |-> TRUE, limit |-> limit,
   lists |-> {}, auth |-> {}, breaker |-> FALSE]
Api == [All(None) EXCEPT
          !.id = r2, !.port = 80, !.wild = TRUE, !.host = <<"x">>, !.prefix = <<"api">>,
          !.lists = {"office"}, !.auth = {pw}, !.breaker = TRUE]
Host == [All(None) EXCEPT !.id = r2, !.host = <<"a", "x">>, !.prefix = <<"api">>,
                         !.tls = TRUE]

Base == [ports |-> {80}, routes |-> <<All(Slow), Api>>, deny |-> {}, trusted |-> {proxy},
         lists |-> [office |-> [kind |-> "allow", rules |-> {a1}],
                    bots |-> [kind |-> "deny", rules |-> {a2}]],
         fails |-> ""]

(* c1 the first; c2 denies an address, trusts no proxy, changes the limit  *)
(* of r1 and makes another route of r2; c3 drops r1; c4 too, but its       *)
(* accounts fail.                                                          *)
MCConf ==
     c1 :> Base
  @@ c2 :> [Base EXCEPT !.routes = <<[All(Slower) EXCEPT !.lists = {"bots"}], Host>>,
                        !.deny = {a2}, !.trusted = {}]
  @@ c3 :> [Base EXCEPT !.routes = <<[Api EXCEPT !.auth = {"other"}]>>]
  @@ c4 :> [Base EXCEPT !.routes = <<Api>>, !.fails = "accounts"]

MCHostOf == "A.X:80" :> <<"a", "x">> @@ "b.y" :> <<"b", "y">>

Get(remote, xff, path) ==
  [remote |-> remote, xff |-> xff, port |-> 80, host |-> "A.X:80", path |-> path,
   tls |-> FALSE, cred |-> pw]

(* A call of the API from the office, and one of its neighbour by a proxy. *)
MCInputs ==
  {Get(a1, <<>>, <<"api", "v">>),
   [Get(proxy, <<a1, a2, nobody, proxy>>, <<"apis">>) EXCEPT !.tls = TRUE]}

Symmetric == Permutations(Requests)

(* Bound: two requests under way at a time are not alike, and there is one *)
(* once a reload was refused: what they take of a limiter is one step each *)
(* and one that is stopped meets any number of others that are not.        *)
Busy == {q \in Requests : req[q].stage # "idle"}
Apart == \A p, q \in Busy : p # q => ~refused /\ req[p].x # req[q].x
=============================================================================
