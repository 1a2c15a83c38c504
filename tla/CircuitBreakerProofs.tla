------------------------ MODULE CircuitBreakerProofs ------------------------
(***************************************************************************)
(* What holds of the circuit breaker for every number of handlers and      *)
(* every configuration: its types, the length of the cooling, and the      *)
(* bound on the requests a half-open breaker lets through.                 *)
(***************************************************************************)
EXTENDS CircuitBreaker, FiniteSetTheorems, TLAPS

LEMMA LabelsUsed ==
  {"idle", "opened", "cas", "zeroUsed", "zeroOK", "half", "admitted", "count", "load",
   "addOK", "close", "reset", "stats", "trip", "storeOpened"} \subseteq Labels
BY DEF Labels

\* A step that moves one request leaves every request well formed.
LEMMA GotoTyped ==
  ASSUME TypeOK, NEW h \in Handlers, NEW l \in Labels, Goto(h, l)
  PROVE  req' \in [Handlers -> Request]
<1>1. [req[h] EXCEPT !.at = l] \in Request
  BY DEF TypeOK, Request
<1> QED BY <1>1 DEF TypeOK, Goto

LEMMA FinishTyped ==
  ASSUME TypeOK, NEW h \in Handlers, Finish(h)
  PROVE  req' \in [Handlers -> Request]
<1>1. Idle \in Request
  BY CBAssumption DEF Idle, Request, Labels, Ages
<1> QED BY <1>1 DEF TypeOK, Finish

LEMMA AdmitTyped ==
  ASSUME TypeOK, NEW h \in Handlers, AdmitProbe(h)
  PROVE  req' \in [Handlers -> Request] /\ probes' \in Nat
BY GotoTyped, LabelsUsed DEF AdmitProbe, TypeOK

LEMMA TypesInit == Init => TypeOK
BY CBAssumption DEF Init, TypeOK, Idle, Request, Labels, Ages

LEMMA TypesKept == TypeOK /\ [Next]_vars => TypeOK'
<1> SUFFICES ASSUME TypeOK, [Next]_vars PROVE TypeOK'
  OBVIOUS
<1> USE CBAssumption
<1>1. CASE Tick
  <2>1. req' \in [Handlers -> Request]
    <3>1. ASSUME NEW h \in Handlers
          PROVE  (IF req[h].at \in Recording THEN [req[h] EXCEPT !.age = @ + 1] ELSE req[h]) \in Request
      <4>1. req[h] \in Request /\ req[h].age < WindowSecs - 1
        BY <1>1 DEF TypeOK, Tick
      <4>2. req[h].age + 1 \in Ages
        BY <4>1 DEF Request, Ages
      <4>3. [req[h] EXCEPT !.age = @ + 1] \in Request
        BY <4>1, <4>2 DEF Request
      <4> QED BY <4>1, <4>3
    <3> QED BY <1>1, <3>1 DEF Tick
  <2>2. bucket' \in [Ages -> [calls : Nat, fails : Nat]]
    <3>1. ASSUME NEW a \in Ages, a # 0 PROVE bucket[a - 1] \in [calls : Nat, fails : Nat]
      BY <3>1 DEF TypeOK, Ages
    <3>2. [calls |-> 0, fails |-> 0] \in [calls : Nat, fails : Nat]
      OBVIOUS
    <3> QED BY <1>1, <3>1, <3>2 DEF Tick
  <2>3. openAge' \in 0 .. OpenSecs /\ sinceOpen' \in 0 .. OpenSecs
    BY <1>1 DEF TypeOK, Tick, Lesser
  <2> QED BY <1>1, <2>1, <2>2, <2>3 DEF TypeOK, Tick
<1>2. ASSUME NEW h \in Handlers, Allow(h) PROVE TypeOK'
  <2>1. CASE AllowLoad(h)
    <3>1. Goto(h, "admitted") \/ Goto(h, "opened") \/ Goto(h, "half")
      BY <2>1 DEF AllowLoad
    <3>2. req' \in [Handlers -> Request]
      BY <3>1, GotoTyped, LabelsUsed
    <3> QED BY <2>1, <3>2 DEF TypeOK, AllowLoad, atomics
  <2>2. CASE AllowCooled(h)
    <3>1. req' \in [Handlers -> Request]
      BY <2>2, GotoTyped, FinishTyped, LabelsUsed DEF AllowCooled
    <3> QED BY <2>2, <3>1 DEF TypeOK, AllowCooled, atomics
  <2>3. CASE AllowCAS(h)
    <3>1. CASE cbState = "open"
      <4>1. req' \in [Handlers -> Request]
        BY <2>3, <3>1, GotoTyped, LabelsUsed DEF AllowCAS
      <4> QED BY <2>3, <3>1, <4>1 DEF TypeOK, AllowCAS
    <3>2. CASE cbState # "open"
      BY <2>3, <3>2, GotoTyped, FinishTyped, AdmitTyped DEF TypeOK, AllowCAS, AdmitProbe
    <3> QED BY <3>1, <3>2
  <2>4. CASE AllowZeroUsed(h)
    <3>1. req' \in [Handlers -> Request]
      BY <2>4, GotoTyped, LabelsUsed DEF AllowZeroUsed
    <3> QED BY <2>4, <3>1 DEF TypeOK, AllowZeroUsed
  <2>5. CASE AllowZeroOK(h)
    <3>1. req' \in [Handlers -> Request]
      BY <2>5, GotoTyped, LabelsUsed DEF AllowZeroOK
    <3> QED BY <2>5, <3>1 DEF TypeOK, AllowZeroOK
  <2>6. CASE AllowHalf(h)
    <3>1. req' \in [Handlers -> Request] /\ probes' \in Nat
      BY <2>6, FinishTyped, AdmitTyped DEF TypeOK, AllowHalf
    <3> QED BY <2>6, <3>1 DEF TypeOK, AllowHalf, Lesser
  <2> QED BY <1>2, <2>1, <2>2, <2>3, <2>4, <2>5, <2>6 DEF Allow
<1>3. ASSUME NEW h \in Handlers, LeaveUnrecorded(h) PROVE TypeOK'
  <2>1. req' \in [Handlers -> Request]
    BY <1>3, FinishTyped DEF LeaveUnrecorded
  <2> QED BY <1>3, <2>1 DEF TypeOK, LeaveUnrecorded, atomics
<1>4. ASSUME NEW h \in Handlers, Forward(h) PROVE TypeOK'
  <2>1. PICK f \in Fails : req' = [req EXCEPT ![h].at = "count", ![h].failed = f]
    BY <1>4 DEF Forward
  <2>2. req' \in [Handlers -> Request]
    <3>1. [req[h] EXCEPT !.at = "count", !.failed = f] \in Request
      <4>1. req[h] \in Request /\ "count" \in Labels /\ f \in BOOLEAN
        BY LabelsUsed, CBAssumption DEF TypeOK
      <4> QED BY <4>1 DEF Request
    <3> QED BY <2>1, <3>1 DEF TypeOK
  <2> QED BY <1>4, <2>2 DEF TypeOK, Forward, atomics
<1>5. ASSUME NEW h \in Handlers, Record(h) PROVE TypeOK'
  <2>1. CASE Count(h)
    <3>1. req[h].age \in Ages
      BY DEF TypeOK, Request
    <3>2. bucket' \in [Ages -> [calls : Nat, fails : Nat]]
      <4> DEFINE b == bucket[req[h].age]
      <4>1. b.calls \in Nat /\ b.fails \in Nat
        BY <3>1 DEF TypeOK
      <4>2. [calls |-> b.calls + 1, fails |-> b.fails + (IF req[h].failed THEN 1 ELSE 0)]
              \in [calls : Nat, fails : Nat]
        BY <4>1
      <4> QED BY <2>1, <3>1, <4>2 DEF TypeOK, Count
    <3>3. req' \in [Handlers -> Request]
      BY <2>1, GotoTyped, LabelsUsed DEF Count
    <3> QED BY <2>1, <3>2, <3>3 DEF TypeOK, Count, atomics
  <2>2. CASE RecordLoad(h)
    <3>1. req' \in [Handlers -> Request]
      BY <2>2, GotoTyped, FinishTyped, LabelsUsed DEF RecordLoad
    <3> QED BY <2>2, <3>1 DEF TypeOK, RecordLoad, atomics
  <2>3. CASE AddOK(h)
    <3>1. req' \in [Handlers -> Request]
      BY <2>3, GotoTyped, FinishTyped, LabelsUsed DEF AddOK
    <3> QED BY <2>3, <3>1 DEF TypeOK, AddOK, Lesser
  <2>4. CASE CloseCAS(h)
    <3>1. req' \in [Handlers -> Request]
      BY <2>4, GotoTyped, FinishTyped, LabelsUsed DEF CloseCAS
    <3> QED BY <2>4, <3>1 DEF TypeOK, CloseCAS
  <2>5. CASE ResetWindow(h)
    <3>1. req' \in [Handlers -> Request]
      BY <2>5, GotoTyped, FinishTyped, LabelsUsed DEF ResetWindow
    <3> QED BY <2>5, <3>1 DEF TypeOK, ResetWindow, atomics
  <2>6. CASE Stats(h)
    <3>1. req' \in [Handlers -> Request]
      BY <2>6, GotoTyped, FinishTyped, LabelsUsed DEF Stats
    <3> QED BY <2>6, <3>1 DEF TypeOK, Stats, atomics
  <2>7. CASE Trip(h)
    <3>1. req' \in [Handlers -> Request]
      BY <2>7, GotoTyped, FinishTyped, LabelsUsed DEF Trip
    <3> QED BY <2>7, <3>1 DEF TypeOK, Trip
  <2>8. CASE StoreOpened(h)
    <3>1. req' \in [Handlers -> Request]
      BY <2>8, FinishTyped DEF StoreOpened
    <3>2. req[h].age \in Nat
      BY DEF TypeOK, Request, Ages
    <3> QED BY <2>8, <3>1, <3>2 DEF TypeOK, StoreOpened, Lesser
  <2> QED BY <1>5, <2>1, <2>2, <2>3, <2>4, <2>5, <2>6, <2>7, <2>8 DEF Record
<1>6. CASE UNCHANGED vars
  BY <1>6 DEF TypeOK, vars, atomics
<1> QED BY <1>1, <1>2, <1>3, <1>4, <1>5, <1>6 DEF Next

\* Every variable holds a value of its kind in every reachable state
\* (circuitbreaker.go:72-84).
THEOREM BreakerTypes == Spec => []TypeOK
BY TypesInit, TypesKept, PTL DEF Spec

-----------------------------------------------------------------------------
(* The cooling *)

\* A store of openedAt still to come carries a time no younger than the trip.
StoresInTime ==
  cbState = "open" => \A h \in Handlers : At(h, "storeOpened") => req[h].age >= sinceOpen

CoolingInv == TypeOK /\ NeverOverCooled /\ StoresInTime

\* What every step does but a tick, a trip and a store of openedAt: the breaker
\* does not open and no request arrives at that store.
NoTrip ==
  /\ cbState' = "open" => cbState = "open"
  /\ UNCHANGED <<openAge, sinceOpen>>
  /\ \A h \in Handlers : req'[h].at = "storeOpened" => At(h, "storeOpened") /\ req'[h].age = req[h].age

LEMMA NoTripKeepsCooling ==
  ASSUME CoolingInv, NoTrip
  PROVE  NeverOverCooled' /\ StoresInTime'
BY DEF CoolingInv, NoTrip, NeverOverCooled, StoresInTime, At

LEMMA MovesElsewhere ==
  ASSUME TypeOK, NEW h \in Handlers, NEW l, l # "storeOpened",
         Goto(h, l) \/ Finish(h) \/ AdmitProbe(h)
  PROVE  \A k \in Handlers : req'[k].at = "storeOpened" => At(k, "storeOpened") /\ req'[k].age = req[k].age
<1>1. CASE Goto(h, l)
  BY <1>1 DEF Goto, At, TypeOK, Request
<1>2. CASE Finish(h)
  BY <1>2 DEF Finish, Idle, At, TypeOK
<1>3. CASE AdmitProbe(h)
  BY <1>3 DEF AdmitProbe, Goto, At, TypeOK, Request
<1> QED BY <1>1, <1>2, <1>3

\* Everything a request does before Record leaves the cooling alone.
LEMMA AllowIsNoTrip ==
  ASSUME TypeOK, NEW h \in Handlers, Allow(h) \/ LeaveUnrecorded(h) \/ Forward(h)
  PROVE  NoTrip
<1>1. CASE AllowLoad(h)
  <2>1. Goto(h, "admitted") \/ Goto(h, "opened") \/ Goto(h, "half")
    BY <1>1 DEF AllowLoad
  <2>2. \A k \in Handlers : req'[k].at = "storeOpened" => At(k, "storeOpened") /\ req'[k].age = req[k].age
    BY <2>1, MovesElsewhere
  <2> QED BY <1>1, <2>2 DEF AllowLoad, NoTrip, atomics
<1>2. CASE AllowCooled(h)
  BY <1>2, MovesElsewhere DEF AllowCooled, NoTrip, atomics
<1>3. CASE AllowCAS(h)
  <2>1. CASE cbState = "open"
    BY <1>3, <2>1, MovesElsewhere DEF AllowCAS, NoTrip
  <2>2. CASE cbState # "open"
    BY <1>3, <2>2, MovesElsewhere DEF AllowCAS, NoTrip
  <2> QED BY <2>1, <2>2
<1>4. CASE AllowZeroUsed(h)
  BY <1>4, MovesElsewhere DEF AllowZeroUsed, NoTrip
<1>5. CASE AllowZeroOK(h)
  BY <1>5, MovesElsewhere DEF AllowZeroOK, NoTrip
<1>6. CASE AllowHalf(h)
  BY <1>6, MovesElsewhere DEF AllowHalf, NoTrip
<1>7. CASE LeaveUnrecorded(h)
  BY <1>7, MovesElsewhere DEF LeaveUnrecorded, NoTrip, atomics
<1>8. CASE Forward(h)
  BY <1>8 DEF Forward, NoTrip, At, atomics, TypeOK, Request
<1> QED BY <1>1, <1>2, <1>3, <1>4, <1>5, <1>6, <1>7, <1>8 DEF Allow

\* So does everything Record does up to a trip.
LEMMA RecordIsNoTrip ==
  ASSUME TypeOK, NEW h \in Handlers,
         Count(h) \/ RecordLoad(h) \/ AddOK(h) \/ CloseCAS(h) \/ ResetWindow(h) \/ Stats(h)
  PROVE  NoTrip
<1>1. CASE Count(h)
  BY <1>1, MovesElsewhere DEF Count, NoTrip, atomics
<1>2. CASE RecordLoad(h)
  <2>1. Finish(h) \/ Goto(h, "stats") \/ Goto(h, "trip") \/ Goto(h, "addOK")
    BY <1>2 DEF RecordLoad
  <2>2. \A k \in Handlers : req'[k].at = "storeOpened" => At(k, "storeOpened") /\ req'[k].age = req[k].age
    BY <2>1, MovesElsewhere
  <2> QED BY <1>2, <2>2 DEF RecordLoad, NoTrip, atomics
<1>3. CASE AddOK(h)
  BY <1>3, MovesElsewhere DEF AddOK, NoTrip
<1>4. CASE CloseCAS(h)
  BY <1>4, MovesElsewhere DEF CloseCAS, NoTrip
<1>5. CASE ResetWindow(h)
  BY <1>5, MovesElsewhere DEF ResetWindow, NoTrip, atomics
<1>6. CASE Stats(h)
  BY <1>6, MovesElsewhere DEF Stats, NoTrip, atomics
<1> QED BY <1>1, <1>2, <1>3, <1>4, <1>5, <1>6

LEMMA CoolingKept == CoolingInv /\ [Next]_vars => CoolingInv'
<1> SUFFICES ASSUME CoolingInv, [Next]_vars PROVE NeverOverCooled' /\ StoresInTime'
  BY TypesKept DEF CoolingInv
<1>0. TypeOK /\ NeverOverCooled /\ StoresInTime
  BY DEF CoolingInv
<1> USE <1>0, CBAssumption
<1>1. CASE Tick
  <2>1. NeverOverCooled'
    BY <1>1 DEF Tick, NeverOverCooled, TypeOK, Lesser
  <2>2. ASSUME cbState' = "open", NEW h \in Handlers, req'[h].at = "storeOpened"
        PROVE  req'[h].age >= sinceOpen'
    <3>1. req[h].age \in Nat /\ (At(h, "storeOpened") => req'[h].age = req[h].age + 1)
      <4>1. req[h] \in Request
        BY DEF TypeOK
      <4>2. At(h, "storeOpened") => req'[h] = [req[h] EXCEPT !.age = @ + 1]
        BY <1>1 DEF Tick, Recording, At
      <4> QED BY <4>1, <4>2 DEF Request, Ages
    <3>2. req'[h].at = req[h].at
      BY <1>1 DEF Tick, TypeOK, Request
    <3>3. req[h].age >= sinceOpen
      BY <1>1, <2>2, <3>2 DEF Tick, StoresInTime, At
    <3>4. sinceOpen' <= sinceOpen + 1 /\ sinceOpen \in Nat /\ sinceOpen' \in Nat
      BY <1>1 DEF Tick, TypeOK, Lesser
    <3>5. req'[h].age = req[h].age + 1
      BY <2>2, <3>1, <3>2 DEF At
    <3> QED BY <3>1, <3>3, <3>4, <3>5
  <2> QED BY <2>1, <2>2 DEF StoresInTime, At
<1>2. ASSUME NEW h \in Handlers, Trip(h) PROVE NeverOverCooled' /\ StoresInTime'
  <2>1. CASE cbState = "open"
    <3>1. NoTrip
      BY <1>2, <2>1, MovesElsewhere DEF Trip, NoTrip
    <3> QED BY <3>1, NoTripKeepsCooling
  <2>2. CASE cbState # "open"
    <3>1. \A k \in Handlers : req'[k].age \in Nat
      BY <1>2, TypesKept DEF TypeOK, Request, Ages
    <3>2. sinceOpen' = 0 /\ openAge' = openAge
      BY <1>2, <2>2 DEF Trip
    <3> QED BY <3>1, <3>2 DEF NeverOverCooled, StoresInTime, TypeOK
  <2> QED BY <2>1, <2>2
<1>3. ASSUME NEW h \in Handlers, StoreOpened(h) PROVE NeverOverCooled' /\ StoresInTime'
  <2>1. req[h].age \in Nat
    BY DEF TypeOK, Request, Ages
  <2>2. NeverOverCooled'
    BY <1>3, <2>1 DEF StoreOpened, NeverOverCooled, StoresInTime, TypeOK, Lesser
  <2>3. \A k \in Handlers : req'[k].at = "storeOpened" => At(k, "storeOpened") /\ req'[k].age = req[k].age
    BY <1>3, MovesElsewhere DEF StoreOpened
  <2> QED BY <1>3, <2>2, <2>3 DEF StoreOpened, StoresInTime, At
<1>4. ASSUME NEW h \in Handlers, Allow(h) \/ LeaveUnrecorded(h) \/ Forward(h)
      PROVE  NeverOverCooled' /\ StoresInTime'
  BY <1>4, AllowIsNoTrip, NoTripKeepsCooling
<1>5. ASSUME NEW h \in Handlers, Record(h) PROVE NeverOverCooled' /\ StoresInTime'
  BY <1>2, <1>3, <1>5, RecordIsNoTrip, NoTripKeepsCooling DEF Record
<1>6. CASE UNCHANGED vars
  BY <1>6 DEF vars, atomics, NeverOverCooled, StoresInTime, At
<1> QED BY <1>1, <1>4, <1>5, <1>6 DEF Next

\* However late and in whatever order the stores of openedAt run, no trip keeps
\* the breaker cooling longer than OpenSecs (toOpen, circuitbreaker.go:154-166).
THEOREM CoolingBounded == Spec => []NeverOverCooled
<1>1. Init => CoolingInv
  BY TypesInit DEF CoolingInv, Init, NeverOverCooled, StoresInTime
<1>2. CoolingInv => NeverOverCooled
  BY DEF CoolingInv
<1> QED BY <1>1, <1>2, CoolingKept, PTL DEF Spec

-----------------------------------------------------------------------------
(* The probes *)

Zeroing == {h \in Handlers : At(h, "zeroUsed")}           \* about to reset halfUsed
Losers == {h \in Handlers : At(h, "opened") \/ At(h, "cas")} \* past the load of open
FreeSlots ==   \* that somebody can take who is not about to reset them
  IF halfUsed < HalfOpenCalls /\ Zeroing # Handlers THEN HalfOpenCalls - halfUsed ELSE 0

\* The probes admitted, and those that what is under way may still admit.
ProbeBudget ==
  cbState = "half_open" =>
    probes + FreeSlots + HalfOpenCalls * Cardinality(Zeroing) + Cardinality(Losers)
      <= HalfOpenCalls * Cardinality(Handlers) + Cardinality(Handlers)

ProbeInv == TypeOK /\ ProbeBudget

LEMMA Counted ==
  /\ IsFiniteSet(Zeroing) /\ IsFiniteSet(Losers)
  /\ Cardinality(Zeroing) \in Nat /\ Cardinality(Losers) \in Nat
  /\ Cardinality(Handlers) \in Nat
BY CBAssumption, FS_Subset, FS_CardinalityType DEF Zeroing, Losers

\* The winner of the CAS leaves room for what it and the others may admit.
LEMMA BudgetAtCAS ==
  Zeroing # {} /\ FreeSlots \in Nat /\ FreeSlots <= HalfOpenCalls =>
    1 + FreeSlots + HalfOpenCalls * Cardinality(Zeroing) + Cardinality(Losers)
      <= HalfOpenCalls * Cardinality(Handlers) + Cardinality(Handlers)
<1> SUFFICES ASSUME Zeroing # {}, FreeSlots \in Nat, FreeSlots <= HalfOpenCalls
             PROVE  1 + FreeSlots + HalfOpenCalls * Cardinality(Zeroing) + Cardinality(Losers)
                      <= HalfOpenCalls * Cardinality(Handlers) + Cardinality(Handlers)
  OBVIOUS
<1> DEFINE z == Cardinality(Zeroing)  l == Cardinality(Losers)  n == Cardinality(Handlers)
           f == FreeSlots
<1>1. Zeroing \cap Losers = {} /\ Zeroing \cup Losers \subseteq Handlers /\ Zeroing \subseteq Handlers
  BY DEF Zeroing, Losers, At
<1>2. Cardinality(Zeroing \cup Losers) = z + l
  <2>1. Cardinality(Zeroing \cap Losers) = 0
    BY <1>1, FS_EmptySet
  <2>2. Cardinality(Zeroing \cup Losers) = z + l - Cardinality(Zeroing \cap Losers)
    BY Counted, FS_Union
  <2>3. z \in Nat /\ l \in Nat
    BY Counted
  <2> HIDE DEF z, l
  <2> QED BY <1>1, <2>1, <2>2, <2>3
<1>3. z + l <= n
  BY <1>1, <1>2, CBAssumption, FS_Subset
<1>4. z \in Nat /\ l \in Nat /\ n \in Nat /\ HalfOpenCalls \in Nat /\ HalfOpenCalls >= 1
  BY Counted, CBAssumption
<1>5. z >= 1
  <2>1. z # 0
    BY Counted, FS_EmptySet
  <2>2. z \in Nat
    BY Counted
  <2> HIDE DEF z
  <2> QED BY <2>1, <2>2
<1>6. z = n => f = 0
  <2>1. z = n => Zeroing = Handlers
    BY <1>1, CBAssumption, FS_Subset
  <2> QED BY <2>1 DEF FreeSlots
<1>7. f \in Nat /\ f <= HalfOpenCalls
  OBVIOUS
<1> HIDE DEF z, l, n, f
<1>8. CASE z = n
  <2>1. l = 0 /\ f = 0 /\ n >= 1
    BY <1>3, <1>4, <1>5, <1>6, <1>8
  <2>2. HalfOpenCalls * n \in Nat
    BY <1>4
  <2>3. 1 + f + HalfOpenCalls * z + l <= HalfOpenCalls * n + n
    BY <1>4, <1>8, <2>1, <2>2
  <2> QED BY <2>3 DEF z, l, n, f
<1>9. CASE z # n
  <2>1. z + 1 <= n
    BY <1>3, <1>4, <1>9
  <2>2. HalfOpenCalls * (z + 1) <= HalfOpenCalls * n
    BY <1>4, <2>1
  <2>3. HalfOpenCalls * (z + 1) = HalfOpenCalls * z + HalfOpenCalls
    BY <1>4
  <2>4. HalfOpenCalls * z \in Nat /\ HalfOpenCalls * n \in Nat
    BY <1>4
  <2>5. 1 + f + HalfOpenCalls * z + l <= HalfOpenCalls * n + n
    BY <1>3, <1>4, <1>5, <1>7, <2>2, <2>3, <2>4
  <2> QED BY <2>5 DEF z, l, n, f
<1> QED BY <1>8, <1>9

\* A step that lets nobody through and gives nobody a chance to.
NoProbe ==
  cbState' = "half_open" =>
    /\ cbState = "half_open" /\ UNCHANGED <<probes, halfUsed>>
    /\ Zeroing' \subseteq Zeroing /\ Losers' \subseteq Losers
    /\ Zeroing = Handlers => Zeroing' = Handlers

LEMMA NoProbeKeepsBudget ==
  ASSUME ProbeInv, NoProbe
  PROVE  ProbeBudget'
<1> SUFFICES ASSUME cbState' = "half_open"
             PROVE  probes' + FreeSlots' + HalfOpenCalls * Cardinality(Zeroing') + Cardinality(Losers')
                      <= HalfOpenCalls * Cardinality(Handlers) + Cardinality(Handlers)
  BY DEF ProbeBudget
<1> DEFINE z == Cardinality(Zeroing)  l == Cardinality(Losers)  n == Cardinality(Handlers)
           zz == Cardinality(Zeroing')  ll == Cardinality(Losers')
<1>1. Zeroing' \in SUBSET Zeroing /\ Losers' \in SUBSET Losers
  BY DEF NoProbe
<1>2. zz <= z /\ ll <= l /\ zz \in Nat /\ ll \in Nat
  BY <1>1, Counted, FS_Subset, FS_CardinalityType
<1>3. z \in Nat /\ l \in Nat /\ n \in Nat /\ HalfOpenCalls \in Nat
  BY Counted, CBAssumption
<1>4. FreeSlots' = FreeSlots /\ probes' = probes /\ FreeSlots \in Nat /\ probes \in Nat
  <2>1. Zeroing = Handlers <=> Zeroing' = Handlers
    <3>1. Zeroing \subseteq Handlers
      BY DEF Zeroing
    <3> QED BY <1>1, <3>1 DEF NoProbe
  <2>2. probes' = probes /\ halfUsed' = halfUsed /\ probes \in Nat /\ halfUsed \in Nat
    BY DEF NoProbe, ProbeInv, TypeOK
  <2> QED BY <2>1, <2>2, CBAssumption DEF FreeSlots
<1>5. probes + FreeSlots + HalfOpenCalls * z + l <= HalfOpenCalls * n + n
  BY DEF NoProbe, ProbeInv, ProbeBudget
<1> HIDE DEF z, l, n, zz, ll
<1>6. HalfOpenCalls * zz <= HalfOpenCalls * z
  BY <1>2, <1>3
<1>7. HalfOpenCalls * zz \in Nat /\ HalfOpenCalls * z \in Nat /\ HalfOpenCalls * n \in Nat
  BY <1>2, <1>3
<1>8. probes + FreeSlots + HalfOpenCalls * zz + ll <= HalfOpenCalls * n + n
  BY <1>2, <1>3, <1>4, <1>5, <1>6, <1>7
<1> QED BY <1>4, <1>8 DEF zz, ll, n

LEMMA MovesAway ==
  ASSUME TypeOK, NEW h \in Handlers, NEW l, l \notin {"zeroUsed", "opened", "cas"},
         Goto(h, l) \/ Finish(h) \/ AdmitProbe(h)
  PROVE  Zeroing' \subseteq Zeroing /\ Losers' \subseteq Losers
<1>1. CASE Goto(h, l)
  BY <1>1 DEF Goto, At, Zeroing, Losers, TypeOK, Request
<1>2. CASE Finish(h)
  BY <1>2 DEF Finish, Idle, At, Zeroing, Losers, TypeOK
<1>3. CASE AdmitProbe(h)
  BY <1>3 DEF AdmitProbe, Goto, At, Zeroing, Losers, TypeOK, Request
<1> QED BY <1>1, <1>2, <1>3

\* Only the end of the cooling, the reset of the slots and the slots themselves
\* bear on how many get through.
LEMMA MostAreNoProbe ==
  ASSUME TypeOK, NEW h \in Handlers,
         \/ AllowLoad(h) \/ AllowCooled(h) \/ AllowZeroOK(h)
         \/ LeaveUnrecorded(h) \/ Forward(h) \/ Record(h)
  PROVE  NoProbe
<1>0. ~At(h, "zeroUsed")
  BY DEF AllowLoad, AllowCooled, AllowZeroOK, LeaveUnrecorded, Forward, At, Record, Count,
         RecordLoad, AddOK, CloseCAS, ResetWindow, Stats, Trip, StoreOpened
<1>14. Zeroing # Handlers
  BY <1>0 DEF Zeroing
<1>1. CASE AllowLoad(h)
  <2>1. cbState = "half_open" => Goto(h, "half")
    BY <1>1 DEF AllowLoad
  <2> QED BY <1>1, <2>1, MovesAway, <1>14 DEF AllowLoad, NoProbe, atomics
<1>2. CASE AllowCooled(h)
  <2>1. CASE Finish(h)
    BY <1>2, <2>1, MovesAway, <1>14 DEF AllowCooled, NoProbe, atomics
  <2>2. CASE Goto(h, "cas")
    <3>1. Zeroing' \subseteq Zeroing /\ Losers' \subseteq Losers
      BY <1>2, <2>2 DEF AllowCooled, Goto, At, Zeroing, Losers, TypeOK, Request
    <3> QED BY <1>2, <3>1, <1>14 DEF AllowCooled, NoProbe, atomics
  <2> QED BY <1>2, <2>1, <2>2 DEF AllowCooled
<1>3. CASE AllowZeroOK(h)
  BY <1>3, MovesAway, <1>14 DEF AllowZeroOK, NoProbe
<1>4. CASE LeaveUnrecorded(h)
  BY <1>4, MovesAway, <1>14 DEF LeaveUnrecorded, NoProbe, atomics
<1>5. CASE Forward(h)
  <2>1. Zeroing' \subseteq Zeroing /\ Losers' \subseteq Losers
    BY <1>5 DEF Forward, At, Zeroing, Losers, TypeOK, Request
  <2> QED BY <1>5, <2>1, <1>14 DEF Forward, NoProbe, atomics
<1>6. CASE Count(h)
  BY <1>6, MovesAway, <1>14 DEF Count, NoProbe, atomics
<1>7. CASE RecordLoad(h)
  <2>1. Finish(h) \/ Goto(h, "stats") \/ Goto(h, "trip") \/ Goto(h, "addOK")
    BY <1>7 DEF RecordLoad
  <2>2. Zeroing' \subseteq Zeroing /\ Losers' \subseteq Losers
    BY <2>1, MovesAway
  <2> QED BY <1>7, <2>2, <1>14 DEF RecordLoad, NoProbe, atomics
<1>8. CASE AddOK(h)
  BY <1>8, MovesAway, <1>14 DEF AddOK, NoProbe
<1>9. CASE CloseCAS(h)
  BY <1>9, MovesAway, <1>14 DEF CloseCAS, NoProbe
<1>10. CASE ResetWindow(h)
  BY <1>10, MovesAway, <1>14 DEF ResetWindow, NoProbe, atomics
<1>11. CASE Stats(h)
  BY <1>11, MovesAway, <1>14 DEF Stats, NoProbe, atomics
<1>12. CASE Trip(h)
  BY <1>12, MovesAway, <1>14 DEF Trip, NoProbe
<1>13. CASE StoreOpened(h)
  BY <1>13, MovesAway, <1>14 DEF StoreOpened, NoProbe
<1> QED BY <1>1, <1>2, <1>3, <1>4, <1>5, <1>6, <1>7, <1>8, <1>9, <1>10, <1>11, <1>12, <1>13 DEF Record

LEMMA BudgetKept == ProbeInv /\ [Next]_vars => ProbeInv'
<1> SUFFICES ASSUME ProbeInv, [Next]_vars PROVE ProbeBudget'
  BY TypesKept DEF ProbeInv
<1> USE DEF ProbeInv
<1>1. CASE Tick
  <2>1. \A k \in Handlers : req'[k].at = req[k].at
    BY <1>1 DEF Tick, TypeOK, Request
  <2>2. Zeroing' = Zeroing /\ Losers' = Losers
    BY <2>1 DEF Zeroing, Losers, At
  <2> QED BY <1>1, <2>2, NoProbeKeepsBudget DEF Tick, NoProbe
<1>2. ASSUME NEW h \in Handlers, AllowCAS(h) PROVE ProbeBudget'
  <2> DEFINE z == Cardinality(Zeroing)  l == Cardinality(Losers)  n == Cardinality(Handlers)
             zz == Cardinality(Zeroing')  ll == Cardinality(Losers')
  <2>0. n \in Nat /\ HalfOpenCalls \in Nat /\ HalfOpenCalls * n \in Nat
    BY Counted, CBAssumption
  <2>1. CASE cbState = "open"
    <3>1. probes' = 1 /\ halfUsed' = halfUsed /\ TypeOK'
      BY <1>2, <2>1, TypesKept DEF AllowCAS
    <3>2. FreeSlots' \in Nat /\ FreeSlots' <= HalfOpenCalls
      BY <3>1, CBAssumption DEF FreeSlots, TypeOK
    <3>3. h \in Zeroing'
      BY <1>2, <2>1 DEF AllowCAS, Goto, At, Zeroing, TypeOK, Request
    <3>4. 1 + FreeSlots' + HalfOpenCalls * zz + ll <= HalfOpenCalls * n + n
      <4>1. (Zeroing # {} /\ FreeSlots \in Nat /\ FreeSlots <= HalfOpenCalls =>
               1 + FreeSlots + HalfOpenCalls * Cardinality(Zeroing) + Cardinality(Losers)
                 <= HalfOpenCalls * Cardinality(Handlers) + Cardinality(Handlers))'
        BY BudgetAtCAS, PTL
      <4> QED BY <3>2, <3>3, <4>1
    <3> QED BY <3>1, <3>4 DEF ProbeBudget
  <2>2. CASE cbState # "open"
    <3>1. AdmitProbe(h) /\ UNCHANGED <<cbState, halfUsed>> /\ At(h, "cas")
      BY <1>2, <2>2 DEF AllowCAS
    <3>2. Zeroing' = Zeroing /\ Losers' = Losers \ {h} /\ h \in Losers
      BY <3>1 DEF AdmitProbe, Goto, At, Zeroing, Losers, TypeOK, Request
    <3>3. zz = z /\ ll = l - 1
      BY <3>2, Counted, FS_RemoveElement
    <3>4. probes' = probes + 1 /\ FreeSlots' = FreeSlots /\ FreeSlots \in Nat /\ probes \in Nat
      BY <3>1, <3>2, CBAssumption DEF AdmitProbe, FreeSlots, TypeOK
    <3>5. z \in Nat /\ l \in Nat /\ HalfOpenCalls * z \in Nat
      BY <2>0, Counted
    <3>6. cbState = "half_open" => probes + FreeSlots + HalfOpenCalls * z + l <= HalfOpenCalls * n + n
      BY DEF ProbeBudget
    <3> HIDE DEF z, l, zz, ll, n
    <3>7. cbState' = "half_open" => probes' + FreeSlots' + HalfOpenCalls * zz + ll <= HalfOpenCalls * n + n
      BY <2>0, <3>1, <3>3, <3>4, <3>5, <3>6
    <3> QED BY <3>7 DEF zz, ll, n, ProbeBudget
  <2> QED BY <2>1, <2>2
<1>3. ASSUME NEW h \in Handlers, AllowZeroUsed(h) PROVE ProbeBudget'
  <2> DEFINE z == Cardinality(Zeroing)  l == Cardinality(Losers)  n == Cardinality(Handlers)
             zz == Cardinality(Zeroing')  ll == Cardinality(Losers')
  <2>1. Zeroing' = Zeroing \ {h} /\ Losers' = Losers /\ h \in Zeroing
    BY <1>3 DEF AllowZeroUsed, Goto, At, Zeroing, Losers, TypeOK, Request
  <2>2. zz = z - 1 /\ ll = l /\ z \in Nat /\ l \in Nat /\ n \in Nat
    BY <2>1, Counted, FS_RemoveElement
  <2>3. FreeSlots' = HalfOpenCalls /\ FreeSlots \in Nat /\ HalfOpenCalls \in Nat
    BY <1>3, <2>1, CBAssumption DEF AllowZeroUsed, FreeSlots, TypeOK
  <2>4. probes' = probes /\ cbState' = cbState /\ probes \in Nat
    BY <1>3 DEF AllowZeroUsed, TypeOK
  <2>5. cbState = "half_open" => probes + FreeSlots + HalfOpenCalls * z + l <= HalfOpenCalls * n + n
    BY DEF ProbeBudget
  <2> HIDE DEF z, l, zz, ll, n
  <2>6. HalfOpenCalls * zz = HalfOpenCalls * z - HalfOpenCalls
    BY <2>2, <2>3
  <2>7. HalfOpenCalls * z \in Nat /\ HalfOpenCalls * n \in Nat
    BY <2>2, <2>3
  <2>8. cbState' = "half_open" => probes' + FreeSlots' + HalfOpenCalls * zz + ll <= HalfOpenCalls * n + n
    BY <2>2, <2>3, <2>4, <2>5, <2>6, <2>7
  <2> QED BY <2>8 DEF zz, ll, n, ProbeBudget
<1>4. ASSUME NEW h \in Handlers, AllowHalf(h) PROVE ProbeBudget'
  <2> DEFINE z == Cardinality(Zeroing)  l == Cardinality(Losers)  n == Cardinality(Handlers)
             zz == Cardinality(Zeroing')  ll == Cardinality(Losers')
             free == FreeSlots'  admitted == probes'
  <2>1. Zeroing' \in SUBSET Zeroing /\ Losers' \in SUBSET Losers
    BY <1>4, MovesAway DEF AllowHalf
  <2>2. zz <= z /\ ll <= l /\ zz \in Nat /\ ll \in Nat
    BY <2>1, Counted, FS_Subset, FS_CardinalityType
  <2>3. z \in Nat /\ l \in Nat /\ n \in Nat /\ HalfOpenCalls \in Nat
    BY Counted, CBAssumption
  <2>14. Zeroing # Handlers /\ Zeroing' # Handlers
    BY <1>4, <2>1 DEF AllowHalf, Zeroing, At
  <2>4. admitted + free <= probes + FreeSlots /\ cbState' = cbState
    BY <1>4, <2>14, CBAssumption DEF AllowHalf, AdmitProbe, FreeSlots, Lesser, TypeOK
  <2>5. FreeSlots \in Nat /\ free \in Nat /\ probes \in Nat /\ admitted \in Nat
    BY <1>4, <2>14, CBAssumption DEF AllowHalf, AdmitProbe, FreeSlots, Lesser, TypeOK
  <2>6. cbState = "half_open" => probes + FreeSlots + HalfOpenCalls * z + l <= HalfOpenCalls * n + n
    BY DEF ProbeBudget
  <2> HIDE DEF z, l, zz, ll, n, free, admitted
  <2>7. HalfOpenCalls * zz <= HalfOpenCalls * z
    BY <2>2, <2>3
  <2>8. HalfOpenCalls * z \in Nat /\ HalfOpenCalls * zz \in Nat /\ HalfOpenCalls * n \in Nat
    BY <2>2, <2>3
  <2> DEFINE p == HalfOpenCalls * zz  q == HalfOpenCalls * z  r == HalfOpenCalls * n
             f == probes + FreeSlots  ff == admitted + free
  <2>9. p <= q /\ p \in Nat /\ q \in Nat /\ r \in Nat
    BY <2>7, <2>8
  <2>10. f \in Nat /\ ff \in Nat /\ ff <= f
    BY <2>4, <2>5
  <2>11. cbState = "half_open" => f + q + l <= r + n
    BY <2>6
  <2> HIDE DEF p, q, r, f, ff
  <2>12. f + q + l <= r + n => ff + p + ll <= r + n
    BY <2>2, <2>3, <2>9, <2>10
  <2>13. cbState' = "half_open" => ff + p + ll <= r + n
    BY <2>4, <2>11, <2>12
  <2> QED BY <2>13 DEF f, ff, free, admitted, p, r, zz, ll, n, ProbeBudget
<1>5. CASE UNCHANGED vars
  <2>1. NoProbe
    BY <1>5 DEF vars, atomics, NoProbe, Zeroing, Losers, At
  <2> QED BY <2>1, NoProbeKeepsBudget
<1>6. ASSUME NEW h \in Handlers, Allow(h) \/ LeaveUnrecorded(h) \/ Forward(h) \/ Record(h)
      PROVE  ProbeBudget'
  BY <1>2, <1>3, <1>4, <1>6, MostAreNoProbe, NoProbeKeepsBudget DEF Allow
<1> QED BY <1>1, <1>5, <1>6 DEF Next

\* For any number of concurrent requests, a half-open breaker lets through at
\* most HalfOpenCalls + 1 for each of them; so at most one more
\* than configured when there is one at a time (Allow, circuitbreaker.go:95-120).
THEOREM HalfOpenAdmitsFew == Spec => []ProbesBounded
<1>1. Init => ProbeInv
  BY TypesInit DEF ProbeInv, Init, ProbeBudget
<1>2. ProbeInv => ProbesBounded
  <2> SUFFICES ASSUME ProbeInv, cbState = "half_open"
               PROVE  probes <= (HalfOpenCalls + 1) * Cardinality(Handlers)
    BY DEF ProbesBounded
  <2> DEFINE z == Cardinality(Zeroing)  l == Cardinality(Losers)  n == Cardinality(Handlers)
  <2>1. probes + FreeSlots + HalfOpenCalls * z + l <= HalfOpenCalls * n + n
    BY DEF ProbeInv, ProbeBudget
  <2>2. z \in Nat /\ l \in Nat /\ n \in Nat /\ HalfOpenCalls \in Nat /\ probes \in Nat /\ FreeSlots \in Nat
    BY Counted, CBAssumption DEF ProbeInv, TypeOK, FreeSlots
  <2> HIDE DEF z, l, n
  <2>3. HalfOpenCalls * z \in Nat /\ HalfOpenCalls * n \in Nat
    BY <2>2
  <2>4. (HalfOpenCalls + 1) * n = HalfOpenCalls * n + n
    BY <2>2
  <2>5. probes <= (HalfOpenCalls + 1) * n
    BY <2>1, <2>2, <2>3, <2>4
  <2> QED BY <2>5 DEF n
<1> QED BY <1>1, <1>2, BudgetKept, PTL DEF Spec
=============================================================================
