------------------------------- MODULE Meter -------------------------------
(***************************************************************************)
(* What a rate limit does, without buckets, refills or reloads: a leaky    *)
(* bucket as a meter.  Every route has a limit, and every key of a route   *)
(* (an address, or Everyone when the route counts all requests together)   *)
(* a debt: a request that is admitted adds a token, a unit of time takes   *)
(* off the rate, and no debt exceeds the burst, or one token if the burst  *)
(* is less.  Tokens are counted in parts, Unit to a token: limits may be   *)
(* fractions.                                                              *)
(*                                                                         *)
(* A debt is forgiven without having been paid in two cases, no more.  A   *)
(* key that has been quiet for longer than Idle is forgotten, and with it  *)
(* what it still owes, if the burst is more than the rate makes good in    *)
(* that time.  And a reload forgives the debts of a route, unless the old  *)
(* limit and the new one agree and hold at least one token.                *)
(***************************************************************************)
EXTENDS Integers

CONSTANTS Ids, Keys, Unit, Idle

VARIABLES
  limit,  \* per route: rate (0: there is no limit) and burst
  debt,   \* per route and key
  quiet   \* per route and key: for how long, up to Idle + 1

vars == <<limit, debt, quiet>>

Limit == [rate : Nat, burst : Nat]

(* What a key may owe, and what it may still owe when it is forgotten. *)
Room(l) == IF l.burst < Unit THEN Unit ELSE l.burst
Excess(l) ==
  IF Room(l) > l.rate * (Idle + 1) THEN Room(l) - l.rate * (Idle + 1) ELSE 0

Init ==
  /\ limit \in [Ids -> Limit]
  /\ debt = [r \in Ids |-> [k \in Keys |-> 0]]
  /\ quiet = [r \in Ids |-> [k \in Keys |-> Idle + 1]]

Admit(r, k) ==
  /\ limit[r].rate # 0
  /\ debt[r][k] + Unit <= Room(limit[r])
  /\ debt' = [debt EXCEPT ![r][k] = @ + Unit]
  /\ quiet' = [quiet EXCEPT ![r][k] = 0]
  /\ UNCHANGED limit

Refuse(r, k) ==
  /\ limit[r].rate # 0
  /\ debt[r][k] + Unit > Room(limit[r])
  /\ quiet' = [quiet EXCEPT ![r][k] = 0]
  /\ UNCHANGED <<limit, debt>>

Drained(r, k) ==
  IF debt[r][k] > limit[r].rate THEN debt[r][k] - limit[r].rate ELSE 0

Longer(r, k) == IF quiet[r][k] > Idle THEN quiet[r][k] ELSE quiet[r][k] + 1

Drain ==
  /\ debt' = [r \in Ids |-> [k \in Keys |-> Drained(r, k)]]
  /\ quiet' = [r \in Ids |-> [k \in Keys |-> Longer(r, k)]]
  /\ UNCHANGED limit

Forget(r, K) ==
  /\ \A k \in K : quiet[r][k] > Idle /\ debt[r][k] <= Excess(limit[r])
  /\ debt' = [debt EXCEPT ![r] = [k \in Keys |-> IF k \in K THEN 0 ELSE debt[r][k]]]
  /\ UNCHANGED <<limit, quiet>>

Kept(l, m) == m.rate = l.rate /\ m.burst = Room(l)

Change ==
  /\ limit' \in [Ids -> Limit]
  /\ debt' = [r \in Ids |-> [k \in Keys |->
                IF Kept(limit[r], limit'[r]) THEN debt[r][k] ELSE 0]]
  /\ quiet' = [r \in Ids |-> [k \in Keys |->
                IF Kept(limit[r], limit'[r]) THEN quiet[r][k] ELSE Idle + 1]]

Next ==
  \/ Change
  \/ Drain
  \/ \E r \in Ids, k \in Keys : Admit(r, k) \/ Refuse(r, k)
  \/ \E r \in Ids, K \in SUBSET Keys : Forget(r, K)

Spec == Init /\ [][Next]_vars
=============================================================================
