--------------------------- MODULE CircuitBreaker ---------------------------
(***************************************************************************)
(* The per-route circuit breaker (circuitbreaker.go) under the requests of *)
(* one route (main.go: checkCircuit, checkAuth, the forward, Record).  The *)
(* breaker takes no lock: every atomic load, store, add and compare-and-   *)
(* swap on state, openedAt, halfUsed and halfOK is a step of its own here. *)
(* The window's buckets are coarser: counting a call is one step, and so   *)
(* are summing the window and resetting it; and a bucket leaves the window *)
(* when its slot's next second begins, where the code clears the slot at   *)
(* that second's first call.                                               *)
(*                                                                         *)
(* Time is relative.  openAge is the age of the timestamp in openedAt, in  *)
(* seconds, saturated at OpenSecs (0, its value at start, is "long ago");  *)
(* bucket[a] is the bucket of the second that began a seconds ago.         *)
(***************************************************************************)
EXTENDS Integers, FiniteSets, FiniteSetsExt

CONSTANTS
  Handlers,       \* goroutines serving requests of the route
  HalfOpenCalls, OpenSecs, WindowSecs, MinCalls,   \* CBConfig after normalize
  RateNum, RateDen,  \* CBConfig.ErrorRate = RateNum / RateDen
  Fails,          \* the outcomes the backend may give: a subset of BOOLEAN
  MaxCalls        \* bound: no request is forwarded while the window counts more

ASSUME CBAssumption ==
  /\ IsFiniteSet(Handlers)
  /\ HalfOpenCalls \in Nat \ {0} /\ OpenSecs \in Nat \ {0}
  /\ WindowSecs \in Nat \ {0, 1} /\ MinCalls \in Nat \ {0}
  /\ RateNum \in Nat \ {0} /\ RateDen \in Nat /\ RateNum <= RateDen
  /\ Fails \in SUBSET BOOLEAN /\ MaxCalls \in Nat \ {0}

VARIABLES
  cbState,   \* cb.state
  openAge,   \* age of cb.openedAt
  halfUsed,  \* cb.halfUsed; every value above HalfOpenCalls is one
  halfOK,    \* cb.halfOK; every value from HalfOpenCalls on is one
  bucket,    \* cb.buckets by age
  req,       \* per handler: where it is, the outcome, the age of Record's now
  sinceOpen, \* history: seconds since the CAS that opened the breaker
  probes     \* history: requests admitted since the CAS to half_open

atomics == <<cbState, openAge, halfUsed, halfOK>>
vars == <<atomics, bucket, req, sinceOpen, probes>>

Ages == 0 .. WindowSecs - 1
Lesser(a, b) == IF a <= b THEN a ELSE b

Labels == {"idle", "opened", "cas", "zeroUsed", "zeroOK", "half", "admitted",
           "count", "load", "addOK", "close", "reset", "stats", "trip", "storeOpened"}
\* Record has read the clock and may still use it.
Recording == {"count", "load", "addOK", "close", "reset", "stats", "trip", "storeOpened"}

Request == [at : Labels, failed : BOOLEAN, age : Ages]
Idle == [at |-> "idle", failed |-> FALSE, age |-> 0]

At(h, label) == req[h].at = label
Goto(h, label) == req' = [req EXCEPT ![h].at = label]
Finish(h) == req' = [req EXCEPT ![h] = Idle]
AdmitProbe(h) == Goto(h, "admitted") /\ probes' = probes + 1

Init ==
  /\ cbState = "closed" /\ openAge = OpenSecs /\ halfUsed = 0 /\ halfOK = 0
  /\ bucket = [a \in Ages |-> [calls |-> 0, fails |-> 0]]
  /\ req = [h \in Handlers |-> Idle]
  /\ sinceOpen = 0 /\ probes = 0

-----------------------------------------------------------------------------
(* Allow *)

AllowLoad(h) ==
  /\ At(h, "idle")
  /\ Goto(h, CASE cbState = "closed" -> "admitted"
               [] cbState = "open" -> "opened"
               [] OTHER -> "half")
  /\ UNCHANGED <<atomics, bucket, sinceOpen, probes>>

\* Mutant: a rejected request restarts the cooling.
RestartCooling(h) ==
  /\ At(h, "opened")
  /\ IF openAge < OpenSecs THEN Finish(h) /\ openAge' = 0 ELSE Goto(h, "cas") /\ UNCHANGED openAge
  /\ UNCHANGED <<cbState, halfUsed, halfOK, bucket, sinceOpen, probes>>

\* Before OpenSecs a 503; a cooled breaker lets the request try the CAS.
AllowCooled(h) ==
  /\ At(h, "opened")
  /\ IF openAge < OpenSecs THEN Finish(h) ELSE Goto(h, "cas")
  /\ UNCHANGED <<atomics, bucket, sinceOpen, probes>>

\* The request that loses the CAS is admitted like the one that wins it.
AllowCAS(h) ==
  /\ At(h, "cas")
  /\ IF cbState = "open"
     THEN cbState' = "half_open" /\ probes' = 1 /\ Goto(h, "zeroUsed")
     ELSE AdmitProbe(h) /\ UNCHANGED cbState
  /\ UNCHANGED <<openAge, halfUsed, halfOK, bucket, sinceOpen>>

AllowZeroUsed(h) ==
  /\ At(h, "zeroUsed") /\ Goto(h, "zeroOK") /\ halfUsed' = 0
  /\ UNCHANGED <<cbState, openAge, halfOK, bucket, sinceOpen, probes>>

AllowZeroOK(h) ==
  /\ At(h, "zeroOK") /\ Goto(h, "admitted") /\ halfOK' = 0
  /\ UNCHANGED <<cbState, openAge, halfUsed, bucket, sinceOpen, probes>>

\* Mutant: a probe slot is never refused.
UncountedSlot(h) ==
  /\ At(h, "half") /\ AdmitProbe(h)
  /\ UNCHANGED <<atomics, bucket, sinceOpen>>

AllowHalf(h) ==
  /\ At(h, "half")
  /\ halfUsed' = Lesser(halfUsed + 1, HalfOpenCalls + 1)
  /\ IF halfUsed + 1 <= HalfOpenCalls THEN AdmitProbe(h) ELSE Finish(h) /\ UNCHANGED probes
  /\ UNCHANGED <<cbState, openAge, halfOK, bucket, sinceOpen>>

Allow(h) == \/ AllowLoad(h) \/ AllowCooled(h) \/ AllowCAS(h)
            \/ AllowZeroUsed(h) \/ AllowZeroOK(h) \/ AllowHalf(h)

-----------------------------------------------------------------------------
(* Between Allow and Record *)

\* Mutant: the request gives back a slot, whether or not it took one.
GiveSlotBack(h) ==
  /\ At(h, "admitted") /\ Finish(h) /\ halfUsed' = halfUsed - 1
  /\ UNCHANGED <<cbState, openAge, halfOK, bucket, sinceOpen, probes>>

\* checkAuth answers 401, or ServeHTTP panics because the client went away:
\* either way the handler returns and Record is never called.
LeaveUnrecorded(h) ==
  /\ At(h, "admitted") /\ Finish(h)
  /\ UNCHANGED <<atomics, bucket, sinceOpen, probes>>

\* windowStats, for a Record whose clock is a seconds old.
WindowCalls(a) == MapThenSumSet(LAMBDA b : bucket[b].calls, a .. WindowSecs - 1)
WindowFails(a) == MapThenSumSet(LAMBDA b : bucket[b].fails, a .. WindowSecs - 1)
Tripping(a) == /\ WindowCalls(a) >= MinCalls
               /\ WindowFails(a) * RateDen >= RateNum * WindowCalls(a)

\* The backend answers; Record(isBackendFailure(code)) reads the clock.
Forward(h) ==
  /\ At(h, "admitted") /\ WindowCalls(0) < MaxCalls
  /\ \E f \in Fails : req' = [req EXCEPT ![h].at = "count", ![h].failed = f]
  /\ UNCHANGED <<atomics, bucket, sinceOpen, probes>>

-----------------------------------------------------------------------------
(* Record *)

Count(h) ==
  /\ At(h, "count") /\ Goto(h, "load")
  /\ bucket' = [bucket EXCEPT ![req[h].age] =
                  [calls |-> @.calls + 1, fails |-> @.fails + (IF req[h].failed THEN 1 ELSE 0)]]
  /\ UNCHANGED <<atomics, sinceOpen, probes>>

RecordLoad(h) ==
  /\ At(h, "load")
  /\ \/ cbState = "closed" /\ Goto(h, "stats")
     \/ cbState = "half_open" /\ Goto(h, IF req[h].failed THEN "trip" ELSE "addOK")
     \/ cbState = "open" /\ Finish(h)
  /\ UNCHANGED <<atomics, bucket, sinceOpen, probes>>

AddOK(h) ==
  /\ At(h, "addOK")
  /\ halfOK' = Lesser(halfOK + 1, HalfOpenCalls)
  /\ IF halfOK + 1 >= HalfOpenCalls THEN Goto(h, "close") ELSE Finish(h)
  /\ UNCHANGED <<cbState, openAge, halfUsed, bucket, sinceOpen, probes>>

CloseCAS(h) ==
  /\ At(h, "close")
  /\ IF cbState = "half_open" THEN cbState' = "closed" /\ Goto(h, "reset")
                              ELSE Finish(h) /\ UNCHANGED cbState
  /\ UNCHANGED <<openAge, halfUsed, halfOK, bucket, sinceOpen, probes>>

ResetWindow(h) ==
  /\ At(h, "reset") /\ Finish(h)
  /\ bucket' = [a \in Ages |-> [calls |-> 0, fails |-> 0]]
  /\ UNCHANGED <<atomics, sinceOpen, probes>>

Stats(h) ==
  /\ At(h, "stats")
  /\ IF Tripping(req[h].age) THEN Goto(h, "trip") ELSE Finish(h)
  /\ UNCHANGED <<atomics, bucket, sinceOpen, probes>>

\* toOpen: the load-and-CAS loop, whatever the state it finds ...
Trip(h) ==
  /\ At(h, "trip")
  /\ IF cbState = "open"
     THEN Finish(h) /\ UNCHANGED <<cbState, sinceOpen>>
     ELSE cbState' = "open" /\ sinceOpen' = 0 /\ Goto(h, "storeOpened")
  /\ UNCHANGED <<openAge, halfUsed, halfOK, bucket, probes>>

\* Mutant: toOpen reads the clock again for the store.
StoreNow(h) ==
  /\ At(h, "storeOpened") /\ Finish(h) /\ openAge' = 0
  /\ UNCHANGED <<cbState, halfUsed, halfOK, bucket, sinceOpen, probes>>

\* ... and only then the store of openedAt.
StoreOpened(h) ==
  /\ At(h, "storeOpened") /\ Finish(h)
  /\ openAge' = Lesser(req[h].age, OpenSecs)
  /\ UNCHANGED <<cbState, halfUsed, halfOK, bucket, sinceOpen, probes>>

Record(h) == \/ Count(h) \/ RecordLoad(h) \/ AddOK(h) \/ CloseCAS(h) \/ ResetWindow(h)
             \/ Stats(h) \/ Trip(h) \/ StoreOpened(h)

-----------------------------------------------------------------------------

\* A second passes.  Bound: no Record is still running WindowSecs seconds after
\* it read the clock.
Tick ==
  /\ \A h \in Handlers : req[h].age < WindowSecs - 1
  /\ openAge' = Lesser(openAge + 1, OpenSecs)
  /\ sinceOpen' = Lesser(sinceOpen + 1, OpenSecs)
  /\ req' = [h \in Handlers |-> IF req[h].at \in Recording
                                THEN [req[h] EXCEPT !.age = @ + 1] ELSE req[h]]
  /\ bucket' = [a \in Ages |-> IF a = 0 THEN [calls |-> 0, fails |-> 0] ELSE bucket[a - 1]]
  /\ UNCHANGED <<cbState, halfUsed, halfOK, probes>>

Next == Tick \/ \E h \in Handlers : Allow(h) \/ LeaveUnrecorded(h) \/ Forward(h) \/ Record(h)

\* The clock runs, and every goroutine that can take a step takes it; the route
\* never runs out of requests.
Fairness == /\ WF_vars(Tick)
            /\ \A h \in Handlers : WF_vars(Allow(h)) /\ WF_vars(Forward(h)) /\ WF_vars(Record(h))

Spec == Init /\ [][Next]_vars
FairSpec == Spec /\ Fairness

-----------------------------------------------------------------------------

\* Every variable holds a value of its kind (circuitbreaker.go:72-84).
TypeOK ==
  /\ cbState \in {"closed", "open", "half_open"}
  /\ openAge \in 0 .. OpenSecs /\ sinceOpen \in 0 .. OpenSecs
  /\ halfUsed \in 0 .. HalfOpenCalls + 1 /\ halfOK \in 0 .. HalfOpenCalls
  /\ bucket \in [Ages -> [calls : Nat, fails : Nat]]
  /\ req \in [Handlers -> Request]
  /\ probes \in Nat

\* Cooling never lasts longer than OpenSecs after the trip: however the stores
\* of openedAt are delayed and reordered, the timestamp Allow compares with the
\* clock is never younger than the last CAS to open (toOpen, Allow's open case).
NeverOverCooled == cbState = "open" => openAge >= sinceOpen

\* However the stores that reset the slots are delayed, a half-open breaker lets
\* at most HalfOpenCalls + 1 requests through for each handler that races.  One
\* request after another that is HalfOpenCalls + 1: the winner of the CAS takes
\* no slot, so it is one more than HalfOpenCalls, which circuitbreaker.go:36
\* calls the number of probes let through in half-open.
ProbesBounded ==
  cbState = "half_open" => probes <= (HalfOpenCalls + 1) * Cardinality(Handlers)

\* While requests keep coming an open breaker does not stay open: it lets a
\* probe through (Allow's open case; "then half-open", circuitbreaker.go:33).
OpenEndsWithTraffic == cbState = "open" ~> cbState # "open"

\* governance_test.go:84, "the probes all succeed -> back to closed": with a
\* backend that answers every request it is given, half-open does not last.
HalfOpenResolves == cbState = "half_open" ~> cbState # "half_open"
=============================================================================
