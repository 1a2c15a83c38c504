---------------------------- MODULE BanListProofs ----------------------------
(***************************************************************************)
(* What holds of the list of bans for every set of addresses, of requests  *)
(* to the console, and every limit: its types, that the snapshot requests  *)
(* look up agrees with the list, that no ban falls between the list and    *)
(* the table, and that the list keeps to its bound.                        *)
(***************************************************************************)
EXTENDS BanList, FiniteSetTheorems, TLAPS

LEMMA AbsentTyped == Absent \in Row /\ NoRows \in Table /\ NoBatch \in Batch
BY BanAssumption DEF Absent, Row, NoRows, Table, NoBatch, Batch

LEMMA WithoutTyped ==
  ASSUME NEW t \in Table, NEW S
  PROVE  Without(t, S) \in Table
BY AbsentTyped DEF Without, Table

LEMMA SnapshotTyped ==
  ASSUME NEW t \in Table, NEW now
  PROVE  Snapshot(t, now) \in Table
BY AbsentTyped DEF Snapshot, Table

LEMMA EvictedFinite ==
  ASSUME NEW t
  PROVE  Evicted(t) \in SUBSET IPs /\ Cardinality(Evicted(t)) \in Nat
<1>1. Evicted(t) \in SUBSET IPs
  BY DEF Evicted, Present
<1> QED BY <1>1, BanAssumption, FS_Subset, FS_CardinalityType

LEMMA QueueTyped ==
  ASSUME TypeOK, NEW touched \in SUBSET IPs, NEW t \in Table, NEW n \in Nat, Queue(touched, t, n)
  PROVE  pending' \in Batch /\ rewrite' \in BOOLEAN /\ wake' \in BOOLEAN
<1>1. rewrite' \in BOOLEAN /\ wake' \in BOOLEAN
  BY DEF Queue, TypeOK
<1>2. CASE rewrite \/ pending.n + n > QueueMax
  BY <1>1, <1>2, AbsentTyped DEF Queue
<1>3. CASE ~(rewrite \/ pending.n + n > QueueMax)
  <2>1. pending' = Longer(touched, t, n)
    BY <1>3 DEF Queue
  <2>2. pending \in Batch /\ pending.n + n \in 0 .. QueueMax
    BY <1>3, BanAssumption DEF TypeOK, Batch
  <2>3. [ip \in IPs |-> IF ip \in touched THEN t[ip] ELSE pending.rows[ip]] \in Table
    BY <2>2 DEF Batch, Table
  <2>4. pending.touched \cup touched \in SUBSET IPs
    BY <2>2 DEF Batch
  <2> QED BY <1>1, <2>1, <2>2, <2>3, <2>4 DEF Longer, Batch
<1> QED BY <1>2, <1>3

LEMMA SettleTyped ==
  ASSUME TypeOK, NEW touched \in SUBSET IPs, NEW t \in Table, NEW n \in Nat, NEW now,
         Settle(t, now, touched, n)
  PROVE  /\ mem' \in Table /\ snap' \in Table
         /\ pending' \in Batch /\ rewrite' \in BOOLEAN /\ wake' \in BOOLEAN
<1> DEFINE out == Evicted(t)  kept == Without(t, out)
<1>1. kept \in Table /\ out \in SUBSET IPs /\ Cardinality(out) \in Nat
  BY WithoutTyped, EvictedFinite
<1>2. mem' = kept /\ snap' = Snapshot(kept, now)
  BY DEF Settle
<1>3. mem' \in Table /\ snap' \in Table
  BY <1>1, <1>2, SnapshotTyped
<1>4. UNCHANGED queue \/ Queue(touched \cup out, kept, n + Cardinality(out))
  BY DEF Settle
<1>5. CASE UNCHANGED queue
  BY <1>3, <1>5 DEF queue, TypeOK
<1>6. CASE Queue(touched \cup out, kept, n + Cardinality(out))
  <2>1. touched \cup out \in SUBSET IPs /\ n + Cardinality(out) \in Nat
    BY <1>1
  <2> HIDE DEF out, kept
  <2> QED BY <1>1, <1>3, <1>6, <2>1, QueueTyped
<1> QED BY <1>4, <1>5, <1>6

\* Where a flusher is and what it holds.
Holder == [at : Labels, batch : Batch, then : {"idle", "read", "stopped"}]

LEMMA IdleTyped == Idle \in Holder
BY AbsentTyped DEF Idle, Holder, Labels

LEMMA GotoTyped ==
  ASSUME TypeOK, NEW f \in Flushers, NEW l \in Labels, Goto(f, l)
  PROVE  flusher' \in [Flushers -> Holder]
<1>1. flusher \in [Flushers -> Holder]
  BY DEF TypeOK, Holder
<1>2. [flusher[f] EXCEPT !.at = l] \in Holder
  BY <1>1 DEF Holder
<1> QED BY <1>1, <1>2 DEF Goto

LEMMA FinishTyped ==
  ASSUME TypeOK, NEW f \in Flushers, Finish(f)
  PROVE  flusher' \in [Flushers -> Holder]
<1>1. flusher \in [Flushers -> Holder]
  BY DEF TypeOK, Holder
<1>2. [Idle EXCEPT !.at = flusher[f].then] \in Holder
  BY <1>1, IdleTyped DEF Holder, Labels
<1> QED BY <1>1, <1>2 DEF Finish

LEMMA LoopFlushTyped ==
  ASSUME TypeOK, NEW then \in {"idle", "read", "stopped"}, LoopFlush(then)
  PROVE  flusher' \in [Flushers -> Holder]
<1>1. flusher \in [Flushers -> Holder] /\ "loop" \in Flushers
  BY DEF TypeOK, Holder, Flushers
<1>2. [flusher["loop"] EXCEPT !.at = "take", !.then = then] \in Holder
  BY <1>1 DEF Holder, Labels
<1> QED BY <1>1, <1>2 DEF LoopFlush

LEMMA PutTyped ==
  ASSUME TypeOK, NEW ip \in IPs, NEW row \in Row, NEW now \in 0 .. MaxClock, Put(ip, row, now)
  PROVE  /\ mem' \in Table /\ snap' \in Table /\ saved' \in SUBSET IPs /\ clock' \in 0 .. MaxClock
         /\ pending' \in Batch /\ rewrite' \in BOOLEAN /\ wake' \in BOOLEAN
<1>1. [mem EXCEPT ![ip] = row] \in Table
  BY DEF TypeOK, Table
<1> QED BY <1>1, SettleTyped DEF Put, TypeOK

-----------------------------------------------------------------------------
(* Types *)

LEMMA TypesInit == Init => TypeOK
<1> SUFFICES ASSUME Init PROVE TypeOK
  OBVIOUS
<1>1. flusher \in [Flushers -> Holder]
  BY IdleTyped DEF Init
<1>2. 0 \in 0 .. MaxClock
  BY BanAssumption
<1> QED BY <1>1, <1>2, AbsentTyped DEF Init, TypeOK, Holder

LEMMA ListTypes ==
  ASSUME TypeOK,
         \/ Sweep \/ \E ip \in IPs : TrapHit(ip)
         \/ \E a \in Admins : AdminClear(a) \/ \E ip \in IPs : AdminBan(a, ip) \/ AdminRemove(a, ip)
  PROVE  TypeOK'
<1> USE DEF Holder
<1>1. ASSUME NEW ip \in IPs, NEW now, now = clock + 1, now <= MaxClock, NEW d \in Durations
      PROVE  now \in 0 .. MaxClock /\ [last |-> now, until |-> now + d] \in Row
             /\ [last |-> now, until |-> IF Active(mem[ip], now) THEN mem[ip].until ELSE now + d] \in Row
  <2>1. now \in Nat /\ d \in Nat /\ now \in 0 .. MaxClock
    BY <1>1, BanAssumption DEF TypeOK
  <2>2. mem[ip].until \in Nat
    BY DEF TypeOK, Table, Row
  <2> QED BY <2>1, <2>2 DEF Row
<1>2. ASSUME NEW ip \in IPs, TrapHit(ip) PROVE TypeOK'
  <2>1. PICK d \in Durations :
          Put(ip, [last |-> clock + 1,
                   until |-> IF Active(mem[ip], clock + 1) THEN mem[ip].until ELSE clock + 1 + d], clock + 1)
    BY <1>2 DEF TrapHit
  <2>2. clock + 1 <= MaxClock /\ UNCHANGED <<up, loop, db, lost>>
    BY <1>2 DEF TrapHit
  <2> QED BY <1>1, <2>1, <2>2, PutTyped DEF TypeOK, loop
<1>3. CASE Sweep
  <2> DEFINE gone == {k \in Present(mem) : Stale(mem[k], clock)}
  <2>1. gone \in SUBSET IPs /\ Cardinality(gone) \in Nat
    <3>1. gone \in SUBSET IPs
      BY DEF Present
    <3> QED BY <3>1, BanAssumption, FS_Subset, FS_CardinalityType
  <2>2. Settle(Without(mem, gone), clock, gone, Cardinality(gone)) /\ saved' = saved \cap Present(mem')
        /\ UNCHANGED <<up, clock, loop, db, lost>>
    BY <1>3 DEF Sweep
  <2>3. Without(mem, gone) \in Table
    BY WithoutTyped DEF TypeOK
  <2> HIDE DEF gone
  <2> QED BY <2>1, <2>2, <2>3, SettleTyped DEF TypeOK, loop
<1>4. ASSUME NEW a \in Admins, NEW ip \in IPs, AdminBan(a, ip) PROVE TypeOK'
  <2>1. PICK d \in Durations : Put(ip, [last |-> clock + 1, until |-> clock + 1 + d], clock + 1)
    BY <1>4 DEF AdminBan
  <2>2. clock + 1 <= MaxClock /\ UNCHANGED <<up, rows, db, lost>> /\ Goto(a, "take")
    BY <1>4 DEF AdminBan
  <2>3. flusher' \in [Flushers -> Holder]
    BY <2>2, GotoTyped DEF Flushers, Labels
  <2> QED BY <1>1, <2>1, <2>2, <2>3, PutTyped DEF TypeOK
<1>5. ASSUME NEW a \in Admins, NEW ip \in IPs, AdminRemove(a, ip) PROVE TypeOK'
  <2>1. flusher' \in [Flushers -> Holder]
    BY <1>5, GotoTyped DEF AdminRemove, Flushers, Labels
  <2>2. mem' \in Table /\ snap' \in Table
    BY <1>5, WithoutTyped, SnapshotTyped DEF AdminRemove, TypeOK
  <2>3. pending' \in Batch /\ rewrite' \in BOOLEAN /\ wake' \in BOOLEAN
    BY <1>5, QueueTyped, AbsentTyped DEF AdminRemove
  <2> QED BY <1>5, <2>1, <2>2, <2>3 DEF AdminRemove, TypeOK
<1>6. ASSUME NEW a \in Admins, AdminClear(a) PROVE TypeOK'
  <2>1. flusher' \in [Flushers -> Holder]
    BY <1>6, GotoTyped DEF AdminClear, Flushers, Labels
  <2> QED BY <1>6, <2>1, AbsentTyped DEF AdminClear, TypeOK
<1> QED BY <1>2, <1>3, <1>4, <1>5, <1>6

LEMMA FlushTypes ==
  ASSUME TypeOK, NEW f \in Flushers, Flush(f)
  PROVE  TypeOK'
<1> USE DEF Holder
<1>0. flusher[f] \in Holder
  BY DEF TypeOK
<1>1. CASE Take(f)
  <2>1. flusher' \in [Flushers -> Holder]
    <3>1. CASE Finish(f)
      BY <3>1, FinishTyped
    <3>2. ASSUME NEW b \in Batch, flusher' = [flusher EXCEPT ![f].at = "tx", ![f].batch = b]
          PROVE  flusher' \in [Flushers -> Holder]
      <4>1. [flusher[f] EXCEPT !.at = "tx", !.batch = b] \in Holder
        BY <1>0 DEF Labels
      <4> QED BY <3>2, <4>1 DEF TypeOK
    <3>3. pending \in Batch /\ [touched |-> IPs, rows |-> mem, n |-> 0, all |-> TRUE] \in Batch
      BY BanAssumption DEF TypeOK, Batch
    <3> QED BY <1>1, <3>1, <3>2, <3>3 DEF Take
  <2> QED BY <1>1, <2>1, AbsentTyped DEF Take, TypeOK, list
<1>2. CASE Commit(f)
  <2>1. flusher' \in [Flushers -> Holder]
    BY <1>2, GotoTyped DEF Commit, Labels
  <2>2. db' \in Table
    BY <1>0, <1>2 DEF Commit, TypeOK, Table, Batch
  <2> QED BY <1>2, <2>1, <2>2 DEF Commit, TypeOK, list, queue
<1>3. CASE Fail(f)
  <2>1. flusher' \in [Flushers -> Holder]
    BY <1>3, FinishTyped DEF Fail
  <2>2. {flusher[f].batch.rows[ip].last : ip \in flusher[f].batch.touched} \in SUBSET Nat
    BY <1>0 DEF Batch, Table, Row
  <2>3. lost' \in SUBSET Nat
    BY <1>3, <2>2 DEF Fail, TypeOK
  <2> QED BY <1>3, <2>1, <2>3 DEF Fail, TypeOK, list, queue
<1>4. CASE Mark(f)
  <2>1. flusher' \in [Flushers -> Holder]
    BY <1>4, FinishTyped DEF Mark
  <2>2. saved' \in SUBSET IPs
    BY <1>4 DEF Mark, TypeOK, Present
  <2> QED BY <1>4, <2>1, <2>2 DEF Mark, TypeOK, queue
<1> QED BY <1>1, <1>2, <1>3, <1>4 DEF Flush

LEMMA LoopTypes ==
  ASSUME TypeOK, Loop
  PROVE  TypeOK'
<1> USE DEF Holder
<1>0. "loop" \in Flushers
  BY DEF Flushers
<1>1. CASE LoopWake
  <2>1. flusher' \in [Flushers -> Holder]
    BY <1>0, <1>1, GotoTyped DEF LoopWake, Labels
  <2> QED BY <1>1, <2>1 DEF LoopWake, TypeOK, list
<1>2. CASE LoopDebounced
  BY <1>2, LoopFlushTyped DEF LoopDebounced, TypeOK, list, queue
<1>3. CASE LoopTick
  BY <1>3, LoopFlushTyped DEF LoopTick, TypeOK, list, queue
<1>4. CASE LoopStop
  BY <1>4, LoopFlushTyped DEF LoopStop, TypeOK, list, queue
<1>5. CASE Read
  <2>1. flusher' \in [Flushers -> Holder]
    BY <1>0, <1>5, GotoTyped DEF Read, Labels
  <2> QED BY <1>5, <2>1 DEF Read, TypeOK, list, queue
<1>6. CASE ReadFails
  <2>1. flusher' \in [Flushers -> Holder]
    BY <1>0, <1>6, GotoTyped DEF ReadFails, Labels
  <2> QED BY <1>6, <2>1 DEF ReadFails, TypeOK, list, queue
<1>7. CASE Merge
  <2>1. flusher' \in [Flushers -> Holder]
    BY <1>0, <1>7, GotoTyped DEF Merge, Labels
  <2>2. PICK m, newer : /\ m \in Table /\ newer \in SUBSET IPs
                        /\ Settle(m, clock, {}, 0) /\ saved' = (saved \cup newer) \cap Present(mem')
    <3> DEFINE known == {ip \in Present(rows) : ~Stale(rows[ip], clock)}
               dropped == (Present(mem) \cap saved) \ known
               newer == {ip \in known : rows[ip].last > mem[ip].last}
               m == [ip \in IPs |-> IF ip \in newer THEN rows[ip]
                                    ELSE IF ip \in dropped THEN Absent ELSE mem[ip]]
    <3>1. m \in Table /\ newer \in SUBSET IPs
      BY AbsentTyped DEF TypeOK, Table, Present
    <3>2. Settle(m, clock, {}, 0) /\ saved' = (saved \cup newer) \cap Present(mem')
      BY <1>7 DEF Merge
    <3> HIDE DEF m, newer
    <3> QED BY <3>1, <3>2
  <2>3. mem' \in Table /\ snap' \in Table /\ pending' \in Batch /\ rewrite' \in BOOLEAN /\ wake' \in BOOLEAN
    BY <2>2, SettleTyped
  <2>4. saved' \in SUBSET IPs
    BY <2>2 DEF Present
  <2> QED BY <1>7, <2>1, <2>3, <2>4, AbsentTyped DEF Merge, TypeOK
<1> QED BY <1>1, <1>2, <1>3, <1>4, <1>5, <1>6, <1>7 DEF Loop

LEMMA OtherTypes ==
  ASSUME TypeOK, Tick \/ Close \/ Exit \/ Boot \/ \E S \in SUBSET IPs : Unban(S)
  PROVE  TypeOK'
<1>1. CASE Tick
  BY <1>1, BanAssumption DEF Tick, TypeOK, list, queue, loop
<1>2. CASE Close
  BY <1>2 DEF Close, TypeOK, list, queue, loop
<1>3. CASE Exit
  <2>1. flusher' \in [Flushers -> Holder]
    BY <1>3, IdleTyped DEF Exit
  <2>2. mem' \in Table /\ snap' \in Table /\ rows' \in Table /\ pending' \in Batch
    BY <1>3, AbsentTyped DEF Exit
  <2>3. /\ up' = "down" /\ saved' = {} /\ rewrite' = FALSE /\ wake' = FALSE
        /\ lost' = {} /\ UNCHANGED <<clock, db>>
    BY <1>3 DEF Exit
  <2> QED BY <2>1, <2>2, <2>3 DEF TypeOK, Holder
<1>4. CASE Boot
  <2> DEFINE t == Without(db, {ip \in IPs : Stale(db[ip], clock)})
  <2>1. t \in Table
    BY WithoutTyped DEF TypeOK
  <2>2. Settle(t, clock, {}, 0) /\ saved' = Present(mem') /\ up' = "up" /\ UNCHANGED <<clock, loop, db, lost>>
    BY <1>4 DEF Boot
  <2> HIDE DEF t
  <2>3. mem' \in Table /\ snap' \in Table /\ pending' \in Batch /\ rewrite' \in BOOLEAN /\ wake' \in BOOLEAN
    BY <2>1, <2>2, SettleTyped
  <2> QED BY <2>2, <2>3 DEF TypeOK, loop, Present
<1>5. ASSUME NEW S \in SUBSET IPs, Unban(S) PROVE TypeOK'
  BY <1>5, WithoutTyped DEF Unban, TypeOK, list, queue, loop
<1> QED BY <1>1, <1>2, <1>3, <1>4, <1>5

LEMMA TypesKept == TypeOK /\ [Next]_vars => TypeOK'
<1> SUFFICES ASSUME TypeOK, [Next]_vars PROVE TypeOK'
  OBVIOUS
<1>1. CASE UNCHANGED vars
  BY <1>1 DEF vars, list, queue, loop, TypeOK
<1> QED BY <1>1, ListTypes, FlushTypes, LoopTypes, OtherTypes DEF Next

\* Every variable holds a value of its kind in every reachable state; the queue
\* never holds more than QueueMax operations (banlist.go:98-201, 462-477).
THEOREM BanTypes == Spec => []TypeOK
BY TypesInit, TypesKept, PTL DEF Spec

-----------------------------------------------------------------------------
(* The snapshot *)

\* Where the snapshot differs from the list, the ban it lacks or has is over.
SnapshotClose ==
  \A ip \in IPs : snap[ip] = mem[ip] \/ (~Active(snap[ip], clock) /\ ~Active(mem[ip], clock))

LEMMA SettleSnapshot ==
  ASSUME NEW t \in Table, NEW now \in Nat, NEW touched, NEW n, Settle(t, now, touched, n)
  PROVE  \A ip \in IPs : snap'[ip] = mem'[ip] \/ (~Active(snap'[ip], now) /\ ~Active(mem'[ip], now))
<1>1. ~Active(Absent, now)
  BY DEF Active, Absent
<1>2. PICK kept \in Table : mem' = kept /\ snap' = Snapshot(kept, now)
  BY WithoutTyped DEF Settle
<1> QED BY <1>1, <1>2 DEF Snapshot

LEMMA SnapshotKept == TypeOK /\ SnapshotClose /\ [Next]_vars => SnapshotClose'
<1> SUFFICES ASSUME TypeOK, SnapshotClose, [Next]_vars PROVE SnapshotClose'
  OBVIOUS
<1>0. clock \in Nat /\ clock + 1 \in Nat /\ mem \in Table /\ db \in Table
  BY DEF TypeOK
<1>1. CASE UNCHANGED <<mem, snap, clock>>
  BY <1>1 DEF SnapshotClose
<1>2. ASSUME NEW t \in Table, NEW now \in Nat, NEW touched, NEW n, Settle(t, now, touched, n), clock' = now
      PROVE  SnapshotClose'
  BY <1>2, SettleSnapshot DEF SnapshotClose
<1>3. ASSUME NEW ip \in IPs, NEW row \in Row, Put(ip, row, clock + 1) PROVE SnapshotClose'
  <2>1. [mem EXCEPT ![ip] = row] \in Table
    BY <1>0 DEF Table
  <2> QED BY <1>0, <1>2, <1>3, <2>1 DEF Put
<1>4. ASSUME NEW ip \in IPs, TrapHit(ip) PROVE SnapshotClose'
  <2>1. PICK d \in Durations :
          Put(ip, [last |-> clock + 1,
                   until |-> IF Active(mem[ip], clock + 1) THEN mem[ip].until ELSE clock + 1 + d], clock + 1)
    BY <1>4 DEF TrapHit
  <2>2. [last |-> clock + 1,
         until |-> IF Active(mem[ip], clock + 1) THEN mem[ip].until ELSE clock + 1 + d] \in Row
    BY <1>0, BanAssumption DEF Row, Table
  <2> QED BY <1>3, <2>1, <2>2
<1>5. ASSUME NEW a \in Admins, NEW ip \in IPs, AdminBan(a, ip) PROVE SnapshotClose'
  <2>1. PICK d \in Durations : Put(ip, [last |-> clock + 1, until |-> clock + 1 + d], clock + 1)
    BY <1>5 DEF AdminBan
  <2>2. [last |-> clock + 1, until |-> clock + 1 + d] \in Row
    BY <1>0, BanAssumption DEF Row
  <2> QED BY <1>3, <2>1, <2>2
<1>6. ASSUME NEW a \in Admins, NEW ip \in IPs, AdminRemove(a, ip) PROVE SnapshotClose'
  <2>1. ~Active(Absent, clock)
    BY <1>0 DEF Active, Absent
  <2>2. snap' = Snapshot(mem', clock) /\ clock' = clock /\ mem' \in Table
    BY <1>0, <1>6, WithoutTyped DEF AdminRemove
  <2> QED BY <2>1, <2>2 DEF SnapshotClose, Snapshot
<1>7. ASSUME NEW a \in Admins, AdminClear(a) PROVE SnapshotClose'
  BY <1>7 DEF AdminClear, SnapshotClose
<1>8. CASE Sweep
  <2>1. PICK t, touched, n : t \in Table /\ Settle(t, clock, touched, n)
    BY <1>0, <1>8, WithoutTyped DEF Sweep
  <2> QED BY <1>0, <1>2, <1>8, <2>1 DEF Sweep
<1>9. ASSUME NEW f \in Flushers, Flush(f) PROVE SnapshotClose'
  BY <1>1, <1>9 DEF Flush, Take, Commit, Fail, Mark, list
<1>10. CASE Loop
  <2>1. CASE Merge
    <3>1. PICK t \in Table : Settle(t, clock, {}, 0)
      <4> DEFINE known == {ip \in Present(rows) : ~Stale(rows[ip], clock)}
                 dropped == (Present(mem) \cap saved) \ known
                 newer == {ip \in known : rows[ip].last > mem[ip].last}
                 m == [ip \in IPs |-> IF ip \in newer THEN rows[ip]
                                      ELSE IF ip \in dropped THEN Absent ELSE mem[ip]]
      <4>1. m \in Table
        BY AbsentTyped DEF TypeOK, Table, Present
      <4>2. Settle(m, clock, {}, 0)
        BY <2>1 DEF Merge
      <4> HIDE DEF m
      <4> QED BY <4>1, <4>2
    <3> QED BY <1>0, <1>2, <2>1, <3>1 DEF Merge
  <2>2. CASE ~Merge
    BY <1>1, <1>10, <2>2 DEF Loop, LoopWake, LoopDebounced, LoopTick, LoopStop, Read, ReadFails, list
  <2> QED BY <2>1, <2>2
<1>11. CASE Tick
  <2>1. clock' = clock + 1 /\ UNCHANGED <<mem, snap>>
    BY <1>11 DEF Tick, list
  <2>2. \A ip \in IPs : mem[ip].until \in Nat /\ snap[ip].until \in Nat
    BY DEF TypeOK, Table, Row
  <2> QED BY <1>0, <2>1, <2>2 DEF SnapshotClose, Active
<1>12. CASE Exit
  BY <1>12 DEF Exit, SnapshotClose
<1>13. CASE Boot
  <2>1. PICK t \in Table : Settle(t, clock, {}, 0)
    BY <1>0, <1>13, WithoutTyped DEF Boot
  <2> QED BY <1>0, <1>2, <1>13, <2>1 DEF Boot
<1>14. CASE Close \/ \E S \in SUBSET IPs : Unban(S)
  BY <1>1, <1>14 DEF Close, Unban, list
<1>15. CASE UNCHANGED vars
  BY <1>1, <1>15 DEF vars, list
<1> QED BY <1>4, <1>5, <1>6, <1>7, <1>8, <1>9, <1>10, <1>11, <1>12, <1>13, <1>14, <1>15 DEF Next

\* In every reachable state a request is refused exactly if the list holds a
\* ban in force (lookup, rebuildLocked, banlist.go:259-278, 448-460).
THEOREM SnapshotAgrees == Spec => []SnapshotExact
<1>1. Init => SnapshotClose
  BY DEF Init, SnapshotClose
<1>2. SnapshotClose => SnapshotExact
  BY DEF SnapshotClose, SnapshotExact
<1> QED BY <1>1, <1>2, TypesInit, TypesKept, SnapshotKept, PTL DEF Spec

-----------------------------------------------------------------------------
(* From the list to the table *)

Queued(ip) == rewrite \/ (ip \in pending.touched /\ pending.rows[ip] = mem[ip])
Carries(f, ip) == /\ At(f, "tx") \/ At(f, "mark")
                  /\ ip \in flusher[f].batch.touched /\ flusher[f].batch.rows[ip] = mem[ip]

LEMMA CoveredParts ==
  ASSUME NEW ip
  PROVE  Covered(ip) <=> (Queued(ip) \/ (\E f \in Flushers : Carries(f, ip)) \/ mem[ip].last \in lost)
BY DEF Covered, Queued, Carries

LEMMA QueueCovers ==
  ASSUME TypeOK, NEW touched \in SUBSET IPs, NEW t \in Table, NEW n, Queue(touched, t, n), NEW ip \in IPs
  PROVE  /\ ip \in touched => rewrite' \/ (ip \in pending'.touched /\ pending'.rows[ip] = t[ip])
         /\ ip \notin touched /\ Queued(ip)
              => rewrite' \/ (ip \in pending'.touched /\ pending'.rows[ip] = mem[ip])
<1>1. CASE rewrite \/ pending.n + n > QueueMax
  BY <1>1 DEF Queue
<1>2. CASE ~(rewrite \/ pending.n + n > QueueMax)
  BY <1>2 DEF Queue, Longer, Queued
<1> QED BY <1>1, <1>2

LEMMA SettleCovers ==
  ASSUME TypeOK, NEW touched \in SUBSET IPs, NEW t \in Table, NEW n, NEW now,
         Settle(t, now, touched, n), NEW ip \in IPs, mem'[ip] # Absent
  PROVE  /\ mem'[ip] = t[ip]
         /\ ip \in touched => Queued(ip)'
         /\ ip \notin touched /\ mem'[ip] = mem[ip] /\ Queued(ip) => Queued(ip)'
<1> DEFINE out == Evicted(t)  kept == Without(t, out)
<1>1. mem' = kept /\ kept \in Table /\ out \in SUBSET IPs
  BY WithoutTyped, EvictedFinite DEF Settle
<1>2. ip \notin out /\ mem'[ip] = t[ip]
  BY <1>1 DEF Without
<1>3. CASE touched \cup out = {}
  <2>1. UNCHANGED queue
    BY <1>3 DEF Settle
  <2> QED BY <1>2, <1>3, <2>1 DEF queue, Queued
<1>4. CASE touched \cup out # {}
  <2>1. Queue(touched \cup out, kept, n + Cardinality(out))
    BY <1>4 DEF Settle
  <2>2. touched \cup out \in SUBSET IPs
    BY <1>1
  <2> HIDE DEF out, kept
  <2>3. ip \in touched => rewrite' \/ (ip \in pending'.touched /\ pending'.rows[ip] = kept[ip])
    BY <1>1, <2>1, <2>2, QueueCovers
  <2>4. ip \notin touched /\ Queued(ip)
          => rewrite' \/ (ip \in pending'.touched /\ pending'.rows[ip] = mem[ip])
    BY <1>1, <1>2, <2>1, <2>2, QueueCovers
  <2> QED BY <1>1, <1>2, <2>3, <2>4 DEF Queued
<1> QED BY <1>3, <1>4

UnsavedAt(ip) == ip \in IPs /\ mem[ip] # Absent /\ ip \notin saved

\* An unsaved entry that stays as it is stays covered.
LEMMA StillCovered ==
  ASSUME UnsavedIsCovered, NEW ip \in IPs, UnsavedAt(ip), mem'[ip] = mem[ip],
         Queued(ip) => Queued(ip)', \A f \in Flushers : Carries(f, ip) => Carries(f, ip)', lost \subseteq lost'
  PROVE  Covered(ip)'
<1>1. Covered(ip)
  BY DEF UnsavedIsCovered, UnsavedAt, Present
<1> QED BY <1>1 DEF Covered, Queued, Carries

\* So does one that stays as it is while nobody that flushes moves.
LEMMA CoveredAtRest ==
  ASSUME UnsavedIsCovered, NEW ip \in IPs, UnsavedAt(ip), mem'[ip] = mem[ip],
         Queued(ip) => Queued(ip)', UNCHANGED <<flusher, lost>>
  PROVE  Covered(ip)'
<1>1. \A f \in Flushers : Carries(f, ip) => Carries(f, ip)'
  BY DEF Carries, At
<1> QED BY <1>1, StillCovered

\* So does one that stays as it is while a flusher without a batch moves.
LEMMA CoveredWhileOneMoves ==
  ASSUME TypeOK, UnsavedIsCovered, NEW ip \in IPs, UnsavedAt(ip), mem'[ip] = mem[ip],
         Queued(ip) => Queued(ip)', lost' = lost,
         NEW f \in Flushers, ~At(f, "tx") /\ ~At(f, "mark"),
         \A g \in Flushers \ {f} : flusher'[g] = flusher[g]
  PROVE  Covered(ip)'
<1>1. \A g \in Flushers : Carries(g, ip) => Carries(g, ip)'
  BY DEF Carries, At
<1> QED BY <1>1, StillCovered

LEMMA PutCovers ==
  ASSUME TypeOK, UnsavedIsCovered, NEW k \in IPs, NEW row \in Row, NEW now, Put(k, row, now),
         NEW ip \in IPs, UnsavedAt(ip)'
  PROVE  Queued(ip)' \/ (mem'[ip] = mem[ip] /\ UnsavedAt(ip) /\ ~Queued(ip))
<1>1. [mem EXCEPT ![k] = row] \in Table
  BY DEF TypeOK, Table
<1>2. Settle([mem EXCEPT ![k] = row], now, {k}, 1)
  BY DEF Put
<1>3. /\ mem'[ip] = [mem EXCEPT ![k] = row][ip] /\ (ip = k => Queued(ip)')
      /\ ip # k /\ mem'[ip] = mem[ip] /\ Queued(ip) => Queued(ip)'
  BY <1>1, <1>2, SettleCovers DEF UnsavedAt
<1>4. CASE ip = k
  BY <1>3, <1>4
<1>5. CASE ip # k
  <2>1. mem'[ip] = mem[ip]
    BY <1>3, <1>5 DEF TypeOK, Table
  <2>2. ip \notin Evicted([mem EXCEPT ![k] = row])
    BY <1>2 DEF Settle, Without, UnsavedAt
  <2>3. ip \notin saved
    BY <1>5, <2>2 DEF Put, UnsavedAt
  <2> QED BY <1>3, <1>5, <2>1, <2>3 DEF UnsavedAt
<1> QED BY <1>4, <1>5

LEMMA CoveredByList ==
  ASSUME TypeOK, UnsavedIsCovered,
         \/ Sweep \/ \E k \in IPs : TrapHit(k)
         \/ \E a \in Admins : AdminClear(a) \/ \E k \in IPs : AdminBan(a, k) \/ AdminRemove(a, k),
         NEW ip \in IPs, UnsavedAt(ip)'
  PROVE  Covered(ip)'
<1>0. mem \in Table /\ clock + 1 \in Nat /\ mem'[ip] # Absent
  BY DEF TypeOK, UnsavedAt
<1>1. ASSUME NEW k \in IPs, TrapHit(k) PROVE Covered(ip)'
  <2>1. PICK row \in Row : Put(k, row, clock + 1)
    <3>1. PICK d \in Durations :
            Put(k, [last |-> clock + 1,
                    until |-> IF Active(mem[k], clock + 1) THEN mem[k].until ELSE clock + 1 + d], clock + 1)
      BY <1>1 DEF TrapHit
    <3>2. [last |-> clock + 1,
           until |-> IF Active(mem[k], clock + 1) THEN mem[k].until ELSE clock + 1 + d] \in Row
      BY <1>0, BanAssumption DEF Row, Table
    <3> QED BY <3>1, <3>2
  <2>2. UNCHANGED <<flusher, lost>>
    BY <1>1 DEF TrapHit, loop
  <2>3. CASE Queued(ip)'
    BY <2>3 DEF Covered, Queued
  <2>4. CASE mem'[ip] = mem[ip] /\ UnsavedAt(ip) /\ ~Queued(ip)
    BY <2>2, <2>4, CoveredAtRest
  <2> QED BY <2>1, <2>3, <2>4, PutCovers
<1>2. ASSUME NEW a \in Admins, NEW k \in IPs, AdminBan(a, k) PROVE Covered(ip)'
  <2>1. PICK row \in Row : Put(k, row, clock + 1)
    <3>1. PICK d \in Durations : Put(k, [last |-> clock + 1, until |-> clock + 1 + d], clock + 1)
      BY <1>2 DEF AdminBan
    <3>2. [last |-> clock + 1, until |-> clock + 1 + d] \in Row
      BY <1>0, BanAssumption DEF Row
    <3> QED BY <3>1, <3>2
  <2>2. /\ a \in Flushers /\ At(a, "idle") /\ lost' = lost
        /\ \A g \in Flushers \ {a} : flusher'[g] = flusher[g]
    BY <1>2 DEF AdminBan, Goto, Flushers, TypeOK
  <2>3. CASE Queued(ip)'
    BY <2>3 DEF Covered, Queued
  <2>4. CASE mem'[ip] = mem[ip] /\ UnsavedAt(ip) /\ ~Queued(ip)
    BY <2>2, <2>4, CoveredWhileOneMoves DEF At
  <2> QED BY <2>1, <2>3, <2>4, PutCovers
<1>3. ASSUME NEW a \in Admins, NEW k \in IPs, AdminRemove(a, k) PROVE Covered(ip)'
  <2>1. ip # k /\ mem'[ip] = mem[ip] /\ UnsavedAt(ip)
    BY <1>0, <1>3 DEF AdminRemove, Without, UnsavedAt
  <2>2. Queued(ip) => Queued(ip)'
    <3>1. Queue({k}, NoRows, 1) /\ {k} \in SUBSET IPs /\ NoRows \in Table
      BY <1>3, AbsentTyped DEF AdminRemove
    <3> QED BY <2>1, <3>1, QueueCovers DEF Queued
  <2>3. /\ a \in Flushers /\ At(a, "idle") /\ lost' = lost
        /\ \A g \in Flushers \ {a} : flusher'[g] = flusher[g]
    BY <1>3 DEF AdminRemove, Goto, Flushers, TypeOK
  <2> QED BY <2>1, <2>2, <2>3, CoveredWhileOneMoves DEF At
<1>4. ASSUME NEW a \in Admins, AdminClear(a) PROVE Covered(ip)'
  BY <1>4 DEF AdminClear, Covered
<1>5. CASE Sweep
  <2> DEFINE gone == {k \in Present(mem) : Stale(mem[k], clock)}
  <2>1. gone \in SUBSET IPs /\ Without(mem, gone) \in Table
    BY <1>0, WithoutTyped DEF Present
  <2>2. Settle(Without(mem, gone), clock, gone, Cardinality(gone))
    BY <1>5 DEF Sweep
  <2>3. saved' = saved \cap Present(mem') /\ UNCHANGED <<flusher, lost>>
    BY <1>5 DEF Sweep, loop
  <2> HIDE DEF gone
  <2>4. mem'[ip] = Without(mem, gone)[ip]
    BY <1>0, <2>1, <2>2, SettleCovers
  <2>5. ip \notin gone /\ mem'[ip] = mem[ip]
    BY <1>0, <2>4 DEF Without
  <2>6. Queued(ip) => Queued(ip)'
    BY <1>0, <2>1, <2>2, <2>5, SettleCovers
  <2>7. UnsavedAt(ip)
    BY <1>0, <2>3, <2>5 DEF UnsavedAt, Present
  <2> QED BY <2>3, <2>5, <2>6, <2>7, CoveredAtRest
<1> QED BY <1>1, <1>2, <1>3, <1>4, <1>5

LEMMA CoveredByFlush ==
  ASSUME TypeOK, UnsavedIsCovered, NEW f \in Flushers, Flush(f), NEW ip \in IPs, UnsavedAt(ip)'
  PROVE  Covered(ip)'
<1>0. mem' = mem /\ UnsavedAt(ip)
  BY DEF Flush, Take, Commit, Fail, Mark, list, UnsavedAt
<1>1. CASE Take(f)
  <2>1. \A g \in Flushers \ {f} : flusher'[g] = flusher[g]
    BY <1>1 DEF Take, Finish, TypeOK
  <2>2. At(f, "take") /\ lost' = lost
    BY <1>1 DEF Take
  <2>3. CASE Queued(ip)
    <3>1. CASE pending.touched = {} /\ ~rewrite
      BY <2>3, <3>1 DEF Queued
    <3>2. CASE ~(pending.touched = {} /\ ~rewrite)
      <4> DEFINE b == IF rewrite THEN [touched |-> IPs, rows |-> mem, n |-> 0, all |-> TRUE] ELSE pending
      <4>1. flusher' = [flusher EXCEPT ![f].at = "tx", ![f].batch = b]
        BY <1>1, <3>2 DEF Take
      <4>2. ip \in b.touched /\ b.rows[ip] = mem[ip]
        BY <2>3 DEF Queued
      <4> HIDE DEF b
      <4>3. flusher'[f].at = "tx" /\ flusher'[f].batch = b
        BY <4>1 DEF TypeOK
      <4>4. Carries(f, ip)'
        BY <1>0, <4>2, <4>3 DEF Carries, At
      <4> QED BY <4>4 DEF Covered, Carries
    <3> QED BY <3>1, <3>2
  <2>4. CASE ~Queued(ip)
    BY <1>0, <2>1, <2>2, <2>4, CoveredWhileOneMoves DEF At
  <2> QED BY <2>3, <2>4
<1>2. CASE Commit(f)
  <2>1. \A g \in Flushers : Carries(g, ip) => Carries(g, ip)'
    BY <1>0, <1>2 DEF Commit, Goto, Carries, At, TypeOK
  <2>2. (Queued(ip) => Queued(ip)') /\ lost' = lost
    BY <1>2 DEF Commit, queue, list, Queued
  <2> QED BY <1>0, <2>1, <2>2, StillCovered
<1>3. CASE Fail(f)
  <2>1. \A g \in Flushers \ {f} : flusher'[g] = flusher[g]
    BY <1>3 DEF Fail, Finish, TypeOK
  <2>2. CASE Carries(f, ip)
    <3>1. mem[ip].last \in lost'
      BY <1>3, <2>2 DEF Fail, Carries
    <3> QED BY <1>0, <3>1 DEF Covered
  <2>3. CASE ~Carries(f, ip)
    <3>1. \A g \in Flushers : Carries(g, ip) => Carries(g, ip)'
      BY <1>0, <2>1, <2>3 DEF Carries, At
    <3>2. (Queued(ip) => Queued(ip)') /\ lost \subseteq lost'
      BY <1>3 DEF Fail, queue, list, Queued
    <3> QED BY <1>0, <3>1, <3>2, StillCovered
  <2> QED BY <2>2, <2>3
<1>4. CASE Mark(f)
  <2>1. \A g \in Flushers \ {f} : flusher'[g] = flusher[g]
    BY <1>4 DEF Mark, Finish, TypeOK
  <2>2. ~Carries(f, ip)
    <3>1. ip \notin saved' /\ mem[ip] # Absent
      BY <1>0 DEF UnsavedAt
    <3> QED BY <1>4, <3>1 DEF Mark, Carries, Present
  <2>3. \A g \in Flushers : Carries(g, ip) => Carries(g, ip)'
    BY <1>0, <2>1, <2>2 DEF Carries, At
  <2>4. (Queued(ip) => Queued(ip)') /\ lost' = lost
    BY <1>4 DEF Mark, queue, Queued
  <2> QED BY <1>0, <2>3, <2>4, StillCovered
<1> QED BY <1>1, <1>2, <1>3, <1>4 DEF Flush

LEMMA CoveredByLoop ==
  ASSUME TypeOK, UnsavedIsCovered, Loop, NEW ip \in IPs, UnsavedAt(ip)'
  PROVE  Covered(ip)'
<1>0. "loop" \in Flushers /\ mem'[ip] # Absent
  BY DEF Flushers, UnsavedAt
<1>1. /\ ~At("loop", "tx") /\ ~At("loop", "mark") /\ lost' = lost
      /\ \A g \in Flushers \ {"loop"} : flusher'[g] = flusher[g]
  <2>1. ~At("loop", "tx") /\ ~At("loop", "mark") /\ lost' = lost
    BY DEF Loop, LoopWake, LoopDebounced, LoopTick, LoopStop, Read, ReadFails, Merge, At
  <2>2. \E v : flusher' = [flusher EXCEPT !["loop"] = v]
    BY DEF Loop, LoopWake, LoopDebounced, LoopTick, LoopStop, Read, ReadFails, Merge, Goto, LoopFlush
  <2> QED BY <2>1, <2>2 DEF TypeOK
<1>2. CASE Merge
  <2>1. PICK m \in Table, newer \in SUBSET IPs :
          /\ Settle(m, clock, {}, 0) /\ saved' = (saved \cup newer) \cap Present(mem')
          /\ ip \in newer \/ m[ip] = mem[ip] \/ m[ip] = Absent
    <3> DEFINE known == {k \in Present(rows) : ~Stale(rows[k], clock)}
               dropped == (Present(mem) \cap saved) \ known
               newer == {k \in known : rows[k].last > mem[k].last}
               m == [k \in IPs |-> IF k \in newer THEN rows[k]
                                   ELSE IF k \in dropped THEN Absent ELSE mem[k]]
    <3>1. m \in Table /\ newer \in SUBSET IPs
      BY AbsentTyped DEF TypeOK, Table, Present
    <3>2. Settle(m, clock, {}, 0) /\ saved' = (saved \cup newer) \cap Present(mem')
      BY <1>2 DEF Merge
    <3>3. ip \in newer \/ m[ip] = mem[ip] \/ m[ip] = Absent
      OBVIOUS
    <3> HIDE DEF m, newer
    <3> QED BY <3>1, <3>2, <3>3
  <2>2. mem'[ip] = m[ip] /\ (mem'[ip] = mem[ip] /\ Queued(ip) => Queued(ip)')
    BY <1>0, <2>1, SettleCovers
  <2>3. ip \notin newer /\ ip \notin saved
    BY <1>0, <2>1 DEF UnsavedAt, Present
  <2>4. mem'[ip] = mem[ip] /\ UnsavedAt(ip)
    BY <1>0, <2>1, <2>2, <2>3 DEF UnsavedAt
  <2> QED BY <1>0, <1>1, <2>2, <2>4, CoveredWhileOneMoves
<1>3. CASE ~Merge
  <2>1. UNCHANGED <<list, pending, rewrite>>
    BY <1>3 DEF Loop, LoopWake, LoopDebounced, LoopTick, LoopStop, Read, ReadFails, queue
  <2>2. mem'[ip] = mem[ip] /\ UnsavedAt(ip) /\ (Queued(ip) => Queued(ip)')
    BY <2>1 DEF list, UnsavedAt, Queued
  <2> QED BY <1>0, <1>1, <2>2, CoveredWhileOneMoves
<1> QED BY <1>2, <1>3

LEMMA CoveredKept == TypeOK /\ UnsavedIsCovered /\ [Next]_vars => UnsavedIsCovered'
<1> SUFFICES ASSUME TypeOK, UnsavedIsCovered, [Next]_vars, NEW ip \in IPs, UnsavedAt(ip)'
             PROVE  Covered(ip)'
  BY DEF UnsavedIsCovered, UnsavedAt, Present
<1>1. CASE UNCHANGED <<list, pending, rewrite, flusher, lost>>
  BY <1>1, CoveredAtRest DEF list, UnsavedAt, Queued
<1>2. CASE Exit \/ Boot
  <2>1. mem'[ip] # Absent /\ ip \notin saved'
    BY DEF UnsavedAt
  <2> QED BY <1>2, <2>1 DEF Exit, Boot, NoRows, Present
<1>3. CASE Tick \/ Close \/ (\E S \in SUBSET IPs : Unban(S)) \/ UNCHANGED vars
  BY <1>1, <1>3 DEF Tick, Close, Unban, vars, queue, loop
<1> QED BY <1>2, <1>3, CoveredByList, CoveredByFlush, CoveredByLoop DEF Next

\* For any number of addresses and console requests and any limits, a version of
\* an entry that is not marked as saved is queued, in a batch under way, or was in
\* a transaction that failed (queueLocked, flush, markPersisted).
THEOREM NoBanFallsBetween == Spec => []UnsavedIsCovered
<1>1. Init => UnsavedIsCovered
  BY DEF Init, UnsavedIsCovered, Present, NoRows
<1> QED BY <1>1, TypesInit, TypesKept, CoveredKept, PTL DEF Spec

-----------------------------------------------------------------------------
(* The bound of the list *)

\* A version is from before now, and one address's alone.
Dated == \A ip \in IPs : \A v \in Versions(ip) : v = Absent \/ v.last \in 1 .. clock
Owned == \A i, j \in IPs : \A v \in Versions(i), w \in Versions(j) :
           v.last = w.last => i = j \/ (v = Absent /\ w = Absent)
Distinct == Dated /\ Owned

LEMMA NoBatchIsEmpty == /\ NoBatch.rows = NoRows /\ Idle.batch = NoBatch
                        /\ \A ip \in IPs : NoRows[ip] = Absent
                        /\ Absent.last = 0
BY DEF NoBatch, Idle, NoRows, Absent

LEMMA DistinctInit == Init => Distinct
<1> SUFFICES ASSUME Init PROVE Distinct
  OBVIOUS
<1>1. \A ip \in IPs : Versions(ip) = {Absent}
  BY NoBatchIsEmpty DEF Init, Versions
<1> QED BY <1>1 DEF Distinct, Dated, Owned

\* A step that makes no new versions.
LEMMA FewerVersions ==
  ASSUME Distinct, clock \in Nat, clock' \in Nat, clock' >= clock,
         \A ip \in IPs : Versions(ip)' \subseteq Versions(ip)
  PROVE  Distinct'
<1>1. Dated'
  BY DEF Distinct, Dated
<1>2. Owned'
  BY DEF Distinct, Owned
<1> QED BY <1>1, <1>2 DEF Distinct

\* One that makes a new version of one address.
LEMMA NewVersion ==
  ASSUME Distinct, clock \in Nat, clock' = clock + 1, NEW k \in IPs, NEW new,
         new.last = clock + 1,
         \A ip \in IPs : Versions(ip)' \subseteq Versions(ip) \cup (IF ip = k THEN {new} ELSE {})
  PROVE  Distinct'
<1>1. \A ip \in IPs : \A v \in Versions(ip) : v.last \in 0 .. clock
  BY NoBatchIsEmpty DEF Distinct, Dated
<1>2. \A ip \in IPs : \A v \in Versions(ip)' : v \in Versions(ip) \/ (ip = k /\ v = new)
  OBVIOUS
<1>3. Dated'
  BY <1>2 DEF Distinct, Dated
<1>4. ASSUME NEW i \in IPs, NEW j \in IPs, NEW v \in Versions(i)', NEW w \in Versions(j)',
             v.last = w.last
      PROVE  i = j \/ (v = Absent /\ w = Absent)
  <2>1. CASE v \in Versions(i) /\ w \in Versions(j)
    BY <1>4, <2>1 DEF Distinct, Owned
  <2>2. CASE ~(v \in Versions(i) /\ w \in Versions(j))
    BY <1>1, <1>2, <1>4, <2>2
  <2> QED BY <2>1, <2>2
<1> QED BY <1>3, <1>4 DEF Distinct, Owned

\* What Settle makes of a list is of that list, of the queue, or nothing.
LEMMA SettleVersions ==
  ASSUME TypeOK, NEW t \in Table, NEW now, NEW touched \in SUBSET IPs, NEW n \in Nat,
         Settle(t, now, touched, n), NEW ip \in IPs
  PROVE  /\ mem'[ip] \in {Absent, t[ip]}
         /\ pending'.rows[ip] \in {Absent, t[ip], pending.rows[ip]}
<1> DEFINE out == Evicted(t)  kept == Without(t, out)
<1>1. mem' = kept /\ kept[ip] \in {Absent, t[ip]}
  BY DEF Settle, Without
<1>2. UNCHANGED queue \/ Queue(touched \cup out, kept, n + Cardinality(out))
  BY DEF Settle
<1> HIDE DEF out, kept
<1>3. CASE UNCHANGED queue
  BY <1>1, <1>3 DEF queue
<1>4. CASE Queue(touched \cup out, kept, n + Cardinality(out))
  <2>1. pending' = NoBatch \/ pending' = Longer(touched \cup out, kept, n + Cardinality(out))
    BY <1>4 DEF Queue
  <2>2. Longer(touched \cup out, kept, n + Cardinality(out)).rows[ip] \in {kept[ip], pending.rows[ip]}
    BY DEF Longer
  <2> QED BY <1>1, <2>1, <2>2, NoBatchIsEmpty
<1> QED BY <1>1, <1>2, <1>3, <1>4

\* A list that is trimmed has no more than MaxRows entries: each that stays has
\* its own number of later ones, below MaxRows.
LEMMA TrimBounds ==
  ASSUME NEW t \in Table,
         \A i, j \in Present(Without(t, Evicted(t))) : t[i].last = t[j].last => i = j
  PROVE  Cardinality(Present(Without(t, Evicted(t)))) <= MaxRows
<1> DEFINE P == Present(Without(t, Evicted(t)))
           Later(ip) == {k \in IPs : t[k].last > t[ip].last}
           rank == [ip \in P |-> Cardinality(Later(ip))]
           T == 0 .. MaxRows - 1
<1>1. P \in SUBSET IPs /\ \A ip \in P : ip \in Present(t) /\ ip \notin Evicted(t)
  BY DEF Present, Without
<1>2. \A ip \in IPs : IsFiniteSet(Later(ip)) /\ Cardinality(Later(ip)) \in Nat
  BY BanAssumption, FS_Subset, FS_CardinalityType
<1>3. IsFiniteSet(P) /\ Cardinality(P) \in Nat /\ MaxRows \in Nat \ {0}
  BY <1>1, BanAssumption, FS_Subset, FS_CardinalityType
<1>4. \A ip \in P : Cardinality(Later(ip)) \in T
  <2> SUFFICES ASSUME NEW ip \in P PROVE Cardinality(Later(ip)) \in T
    OBVIOUS
  <2>1. ip \in IPs /\ Cardinality(Later(ip)) \in Nat
    BY <1>1, <1>2
  <2>2. ~(Cardinality(Later(ip)) >= MaxRows)
    BY <1>1 DEF Evicted
  <2> HIDE DEF Later
  <2> QED BY <1>3, <2>1, <2>2
<1>5. rank \in [P -> T]
  BY <1>4
<1>6. IsFiniteSet(T) /\ Cardinality(T) = MaxRows
  <2>1. 0 \in Int /\ MaxRows - 1 \in Int /\ ~(0 > MaxRows - 1) /\ MaxRows - 1 - 0 + 1 = MaxRows
    BY <1>3
  <2>2. IsFiniteSet(T) /\ Cardinality(T) = MaxRows - 1 - 0 + 1
    BY <2>1, FS_Interval
  <2> HIDE DEF T
  <2> QED BY <2>1, <2>2
<1>7. ASSUME NEW i \in P, NEW j \in P, t[i].last > t[j].last
      PROVE  rank[i] # rank[j]
  <2>1. i \in IPs /\ j \in IPs /\ t[i].last \in Nat /\ t[j].last \in Nat
    BY <1>1 DEF Table, Row
  <2>2. \A k \in IPs : t[k].last \in Nat
    BY DEF Table, Row
  <2>3. Later(i) \in SUBSET Later(j) /\ i \in Later(j) /\ i \notin Later(i)
    BY <1>7, <2>1, <2>2
  <2>4. IsFiniteSet(Later(j)) /\ Later(i) # Later(j)
    BY <1>2, <2>1, <2>3
  <2> HIDE DEF Later
  <2>5. Cardinality(Later(i)) # Cardinality(Later(j))
    BY <2>3, <2>4, FS_Subset
  <2> QED BY <2>5
<1>8. \A i, j \in P : i # j => rank[i] # rank[j]
  <2> TAKE i \in P, j \in P
  <2> HAVE i # j
  <2>1. t[i].last \in Nat /\ t[j].last \in Nat /\ t[i].last # t[j].last
    BY <1>1 DEF Table, Row
  <2> HIDE DEF rank, P
  <2> QED BY <1>7, <2>1
<1>9. CASE Cardinality(P) > MaxRows
  <2> HIDE DEF P, rank, T
  <2>1. \E i, j \in P : i # j /\ rank[i] = rank[j]
    BY <1>3, <1>5, <1>6, <1>9, FS_PigeonHole
  <2> QED BY <1>8, <2>1
<1> QED BY <1>3, <1>9

LEMMA VersionsFrom ==
  ASSUME NEW ip \in IPs, NEW S, Versions(ip) \subseteq S,
         mem'[ip] \in S, rows'[ip] \in S, db'[ip] \in S, pending'.rows[ip] \in S,
         \A f \in Flushers : flusher'[f].batch.rows[ip] \in S
  PROVE  Versions(ip)' \subseteq S
BY DEF Versions

LEMMA VersionsAre ==
  ASSUME NEW ip \in IPs
  PROVE  /\ {Absent, mem[ip], rows[ip], db[ip], pending.rows[ip]} \subseteq Versions(ip)
         /\ \A f \in Flushers : flusher[f].batch.rows[ip] \in Versions(ip)
BY DEF Versions

\* What a flusher holds after it has moved on, or is done.
LEMMA MovesOn ==
  ASSUME TypeOK, NEW f \in Flushers
  PROVE  /\ \A l : Goto(f, l) => \A g \in Flushers : flusher'[g].batch = flusher[g].batch
         /\ \A then : LoopFlush(then) => \A g \in Flushers : flusher'[g].batch = flusher[g].batch
         /\ Finish(f) => \A g \in Flushers : flusher'[g].batch = IF g = f THEN NoBatch ELSE flusher[g].batch
<1>1. flusher \in [Flushers -> Holder] /\ \A g \in Flushers : flusher[g] \in Holder
  BY DEF TypeOK, Holder
<1>2. \A l : \A g \in Flushers : [flusher[g] EXCEPT !.at = l].batch = flusher[g].batch
  BY <1>1 DEF Holder
<1>3. \A then : \A g \in Flushers : [flusher[g] EXCEPT !.at = "take", !.then = then].batch = flusher[g].batch
  BY <1>1 DEF Holder
<1>4. \A l : [Idle EXCEPT !.at = l].batch = NoBatch
  BY DEF Idle
<1>5. "loop" \in Flushers
  BY DEF Flushers
<1>6. ASSUME NEW l, Goto(f, l), NEW g \in Flushers PROVE flusher'[g].batch = flusher[g].batch
  BY <1>1, <1>2, <1>6 DEF Goto
<1>7. ASSUME NEW then, LoopFlush(then), NEW g \in Flushers PROVE flusher'[g].batch = flusher[g].batch
  BY <1>1, <1>3, <1>5, <1>7 DEF LoopFlush
<1>8. ASSUME Finish(f), NEW g \in Flushers
      PROVE  flusher'[g].batch = IF g = f THEN NoBatch ELSE flusher[g].batch
  BY <1>1, <1>4, <1>8 DEF Finish
<1> QED BY <1>6, <1>7, <1>8

LEMMA FlushVersions ==
  ASSUME TypeOK, NEW f \in Flushers, Flush(f), NEW ip \in IPs
  PROVE  Versions(ip)' \subseteq Versions(ip)
<1> DEFINE S == Versions(ip)
<1>0. /\ {Absent, mem[ip], rows[ip], db[ip], pending.rows[ip]} \subseteq S
      /\ \A g \in Flushers : flusher[g].batch.rows[ip] \in S
      /\ NoBatch.rows[ip] = Absent
  BY VersionsAre, NoBatchIsEmpty
<1> HIDE DEF S
<1>1. CASE Take(f)
  <2>1. UNCHANGED <<mem, rows, db>> /\ pending' = NoBatch
    BY <1>1 DEF Take, list
  <2>2. \A g \in Flushers : flusher'[g].batch.rows[ip] \in S
    <3>1. CASE Finish(f)
      BY <1>0, <3>1, MovesOn
    <3>2. ASSUME NEW b, b.rows[ip] \in S, flusher' = [flusher EXCEPT ![f].at = "tx", ![f].batch = b]
          PROVE  \A g \in Flushers : flusher'[g].batch.rows[ip] \in S
      <4>1. flusher \in [Flushers -> Holder]
        BY DEF TypeOK, Holder
      <4>2. [flusher[f] EXCEPT !.at = "tx", !.batch = b].batch = b
        BY <4>1 DEF Holder
      <4> QED BY <1>0, <3>2, <4>1, <4>2
    <3>3. pending.rows[ip] \in S /\ [touched |-> IPs, rows |-> mem, n |-> 0, all |-> TRUE].rows[ip] \in S
      BY <1>0
    <3> QED BY <1>1, <3>1, <3>2, <3>3 DEF Take
  <2> QED BY <1>0, <2>1, <2>2, VersionsFrom DEF S
<1>2. CASE Commit(f)
  <2>1. UNCHANGED <<mem, rows, pending>> /\ \A g \in Flushers : flusher'[g].batch = flusher[g].batch
    BY <1>2, MovesOn DEF Commit, list, queue
  <2>2. db'[ip] \in S
    BY <1>0, <1>2 DEF Commit
  <2> QED BY <1>0, <2>1, <2>2, VersionsFrom DEF S
<1>3. CASE Fail(f) \/ Mark(f)
  <2>1. UNCHANGED <<mem, rows, db, pending>> /\ Finish(f)
    BY <1>3 DEF Fail, Mark, list, queue
  <2>2. \A g \in Flushers : flusher'[g].batch.rows[ip] \in S
    BY <1>0, <2>1, MovesOn
  <2> QED BY <1>0, <2>1, <2>2, VersionsFrom DEF S
<1> QED BY <1>1, <1>2, <1>3 DEF Flush

\* A list that is settled from known versions.
LEMMA SettledVersions ==
  ASSUME TypeOK, NEW t \in Table, NEW now, NEW touched \in SUBSET IPs, NEW n \in Nat,
         Settle(t, now, touched, n), NEW ip \in IPs, NEW S, Versions(ip) \subseteq S,
         t[ip] \in S, rows'[ip] \in S, db' = db,
         \A g \in Flushers : flusher'[g].batch = flusher[g].batch
  PROVE  Versions(ip)' \subseteq S
<1>1. /\ {Absent, mem[ip], rows[ip], db[ip], pending.rows[ip]} \subseteq S
      /\ \A g \in Flushers : flusher[g].batch.rows[ip] \in S
  BY VersionsAre
<1>2. mem'[ip] \in S /\ pending'.rows[ip] \in S
  BY <1>1, SettleVersions
<1> QED BY <1>1, <1>2, VersionsFrom

\* What a step may do to the versions and to the list: give a new ban, or only
\* drop bans and find later ones again, or let time pass.
Gives(k, ban) ==
  /\ clock' = clock + 1 /\ ban.last = clock + 1 /\ mem'[k] = ban
  /\ \A ip \in IPs : Versions(ip)' \subseteq Versions(ip) \cup (IF ip = k THEN {ban} ELSE {})
  /\ \A ip \in IPs \ {k} : mem'[ip] \in {mem[ip], Absent}

Desk == {a \in Admins : ~At(a, "idle")}   \* the requests to the console under way

GivesAnew(k) ==
  \E ban \in Row, d \in Durations :
    /\ Gives(k, ban)
    /\ \/ /\ Desk' = Desk
          /\ ban.until = IF clock + 1 < mem[k].until THEN mem[k].until ELSE clock + 1 + d
       \/ /\ \E a \in Admins \ Desk : Desk' = Desk \cup {a}
          /\ ban.until = clock + 1 + d

Found(ip) == {v \in Versions(ip) : v.last > mem[ip].last}

Reviews ==
  /\ clock' = clock
  /\ \A ip \in IPs : /\ Versions(ip)' \subseteq Versions(ip)
                     /\ mem'[ip] \in {mem[ip], Absent} \cup Found(ip)

Passes ==
  /\ clock' = clock + 1 /\ Desk' = Desk
  /\ \A ip \in IPs : Versions(ip)' = Versions(ip) /\ mem'[ip] = mem[ip]

\* A new ban is in force at once: being the latest, it is not what is trimmed.
LEMMA PutGives ==
  ASSUME TypeOK, Distinct, NEW k \in IPs, NEW until \in Nat,
         Put(k, [last |-> clock + 1, until |-> until], clock + 1),
         rows' = rows, db' = db,
         \A g \in Flushers : flusher'[g].batch = flusher[g].batch
  PROVE  Gives(k, [last |-> clock + 1, until |-> until])
<1> DEFINE new == [last |-> clock + 1, until |-> until]
           t == [mem EXCEPT ![k] = new]
           S(ip) == Versions(ip) \cup (IF ip = k THEN {new} ELSE {})
<1>1. clock \in Nat /\ mem \in Table /\ new \in Row /\ t \in Table /\ new.last = clock + 1
  BY DEF TypeOK, Row, Table
<1>2. Settle(t, clock + 1, {k}, 1) /\ clock' = clock + 1
  BY DEF Put
<1>3. \A ip \in IPs : t[ip] \in S(ip) /\ rows[ip] \in S(ip) /\ Versions(ip) \subseteq S(ip)
  BY VersionsAre DEF TypeOK, Table
<1>4. t[k] = new /\ \A ip \in IPs \ {k} : t[ip] = mem[ip]
  BY <1>1 DEF Table
<1>5. \A ip \in IPs : t[ip].last \in 0 .. clock + 1
  <2> TAKE ip \in IPs
  <2>1. mem[ip] = Absent \/ mem[ip].last \in 1 .. clock
    BY VersionsAre DEF Distinct, Dated
  <2> HIDE DEF new, t
  <2> QED BY <1>1, <1>4, <2>1, NoBatchIsEmpty
<1> HIDE DEF new, t
<1>6. k \notin Evicted(t)
  <2>1. \A ip \in IPs : ~(t[ip].last > t[k].last)
    BY <1>1, <1>4, <1>5
  <2>2. {ip \in IPs : t[ip].last > t[k].last} = {}
    BY <2>1
  <2>3. Cardinality({ip \in IPs : t[ip].last > t[k].last}) = 0
    BY <2>2, FS_EmptySet
  <2>4. ~(Cardinality({ip \in IPs : t[ip].last > t[k].last}) >= MaxRows)
    BY <2>3, BanAssumption
  <2> QED BY <2>4 DEF Evicted
<1>7. mem'[k] = new
  BY <1>2, <1>4, <1>6 DEF Settle, Without
<1>8. {k} \in SUBSET IPs /\ 1 \in Nat
  OBVIOUS
<1>9. \A ip \in IPs : Versions(ip)' \subseteq S(ip)
  <2> TAKE ip \in IPs
  <2> HIDE DEF S
  <2> QED BY <1>1, <1>2, <1>3, <1>8, SettledVersions
<1>10. \A ip \in IPs \ {k} : mem'[ip] \in {mem[ip], Absent}
  BY <1>1, <1>2, <1>4, <1>8, SettleVersions
<1>11. Gives(k, new)
  BY <1>1, <1>2, <1>7, <1>9, <1>10 DEF Gives
<1> QED BY <1>11 DEF new

\* A list that is settled from what is written down.
LEMMA SettleReviews ==
  ASSUME TypeOK, NEW t \in Table, NEW touched \in SUBSET IPs, NEW n \in Nat,
         Settle(t, clock, touched, n), clock' = clock, db' = db,
         \A ip \in IPs : t[ip] \in {mem[ip], Absent} \cup Found(ip) /\ rows'[ip] \in Versions(ip),
         \A g \in Flushers : flusher'[g].batch = flusher[g].batch
  PROVE  Reviews
<1> SUFFICES ASSUME NEW ip \in IPs
             PROVE  /\ Versions(ip)' \subseteq Versions(ip)
                    /\ mem'[ip] \in {mem[ip], Absent} \cup Found(ip)
  BY DEF Reviews
<1>1. t[ip] \in Versions(ip)
  BY VersionsAre DEF Found
<1>2. Versions(ip)' \subseteq Versions(ip)
  BY <1>1, SettledVersions
<1>3. mem'[ip] \in {Absent, t[ip]}
  BY SettleVersions
<1> QED BY <1>2, <1>3

LEMMA ListSteps ==
  ASSUME TypeOK, Distinct,
         \/ Sweep \/ \E ip \in IPs : TrapHit(ip)
         \/ \E a \in Admins : AdminClear(a) \/ \E ip \in IPs : AdminBan(a, ip) \/ AdminRemove(a, ip)
  PROVE  Reviews \/ \E k \in IPs : GivesAnew(k)
<1>0. clock \in Nat /\ mem \in Table /\ \A a \in Admins : a \in Flushers
  BY DEF TypeOK, Flushers
<1>1. ASSUME NEW k \in IPs, TrapHit(k) PROVE GivesAnew(k)
  <2> DEFINE until(d) == IF Active(mem[k], clock + 1) THEN mem[k].until ELSE clock + 1 + d
  <2>1. PICK d \in Durations : Put(k, [last |-> clock + 1, until |-> until(d)], clock + 1)
    BY <1>1 DEF TrapHit
  <2>2. /\ until(d) \in Nat
        /\ until(d) = IF clock + 1 < mem[k].until THEN mem[k].until ELSE clock + 1 + d
    <3>1. mem[k].until \in Nat /\ d \in Nat \ {0}
      BY <1>0, BanAssumption DEF Table, Row
    <3> QED BY <1>0, <3>1 DEF Active
  <2>3. UNCHANGED <<rows, db, flusher>>
    BY <1>1 DEF TrapHit, loop
  <2> HIDE DEF until
  <2> DEFINE ban == [last |-> clock + 1, until |-> until(d)]
  <2>4. Gives(k, ban)
    BY <2>1, <2>2, <2>3, PutGives
  <2>5. ban \in Row /\ ban.until = until(d)
    BY <1>0, <2>2 DEF Row
  <2>6. ban.until = IF clock + 1 < mem[k].until THEN mem[k].until ELSE clock + 1 + d
    BY <2>2, <2>5
  <2>7. Desk' = Desk
    BY <2>3 DEF Desk, At
  <2> HIDE DEF ban
  <2> QED BY <2>4, <2>5, <2>6, <2>7 DEF GivesAnew
<1>2. ASSUME NEW a \in Admins, NEW k \in IPs, AdminBan(a, k) PROVE GivesAnew(k)
  <2>1. PICK d \in Durations : Put(k, [last |-> clock + 1, until |-> clock + 1 + d], clock + 1)
    BY <1>2 DEF AdminBan
  <2>2. clock + 1 + d \in Nat /\ clock + 1 + d > clock + 1
    BY <1>0, BanAssumption
  <2>3. UNCHANGED <<rows, db>> /\ \A g \in Flushers : flusher'[g].batch = flusher[g].batch
    BY <1>0, <1>2, MovesOn DEF AdminBan
  <2> DEFINE ban == [last |-> clock + 1, until |-> clock + 1 + d]
  <2>4. Gives(k, ban)
    BY <2>1, <2>2, <2>3, PutGives
  <2>5. ban \in Row /\ ban.until = clock + 1 + d
    BY <1>0, <2>2 DEF Row
  <2>6. a \in Admins \ Desk /\ Desk' = Desk \cup {a}
    <3>1. At(a, "idle") /\ flusher' = [flusher EXCEPT ![a].at = "take"]
      BY <1>2 DEF AdminBan, Goto
    <3>2. flusher'[a].at = "take" /\ \A b \in Admins \ {a} : flusher'[b].at = flusher[b].at
      BY <1>0, <3>1 DEF TypeOK, Flushers
    <3> QED BY <3>1, <3>2 DEF Desk, At
  <2> HIDE DEF ban
  <2> QED BY <2>4, <2>5, <2>6 DEF GivesAnew
<1>3. ASSUME NEW a \in Admins, NEW ip \in IPs, AdminRemove(a, ip) PROVE Reviews
  <2>1. UNCHANGED <<clock, rows, db>> /\ \A g \in Flushers : flusher'[g].batch = flusher[g].batch
    BY <1>0, <1>3, MovesOn DEF AdminRemove
  <2>2. \A k \in IPs : mem'[k] \in {mem[k], Absent}
    BY <1>3 DEF AdminRemove, Without
  <2>3. \A k \in IPs : pending'.rows[k] \in {Absent, pending.rows[k]}
    <3>1. pending' = NoBatch \/ pending' = Longer({ip}, NoRows, 1)
      BY <1>3 DEF AdminRemove, Queue
    <3>2. \A k \in IPs : Longer({ip}, NoRows, 1).rows[k] \in {Absent, pending.rows[k]}
      BY NoBatchIsEmpty DEF Longer
    <3> QED BY <3>1, <3>2, NoBatchIsEmpty
  <2>4. \A k \in IPs : Versions(k)' \subseteq Versions(k)
    BY <2>1, <2>2, <2>3, VersionsAre, VersionsFrom
  <2> QED BY <2>1, <2>2, <2>4 DEF Reviews
<1>4. ASSUME NEW a \in Admins, AdminClear(a) PROVE Reviews
  <2>1. UNCHANGED <<clock, rows, db>> /\ \A g \in Flushers : flusher'[g].batch = flusher[g].batch
    BY <1>0, <1>4, MovesOn DEF AdminClear
  <2>2. mem' = NoRows /\ pending' = NoBatch
    BY <1>4 DEF AdminClear
  <2>3. \A k \in IPs : Versions(k)' \subseteq Versions(k)
    BY <2>1, <2>2, NoBatchIsEmpty, VersionsAre, VersionsFrom
  <2> QED BY <2>1, <2>2, <2>3, NoBatchIsEmpty DEF Reviews
<1>5. CASE Sweep
  <2> DEFINE gone == {k \in Present(mem) : Stale(mem[k], clock)}
             t == Without(mem, gone)
  <2>1. gone \in SUBSET IPs /\ Cardinality(gone) \in Nat
    <3>1. gone \in SUBSET IPs
      BY DEF Present
    <3> QED BY <3>1, BanAssumption, FS_Subset, FS_CardinalityType
  <2>2. Settle(t, clock, gone, Cardinality(gone)) /\ UNCHANGED <<clock, rows, flusher, db>>
    BY <1>5 DEF Sweep, loop
  <2>3. t \in Table /\ \A ip \in IPs : t[ip] \in {mem[ip], Absent}
    BY <1>0, WithoutTyped DEF Without
  <2> HIDE DEF gone, t
  <2> QED BY <2>1, <2>2, <2>3, VersionsAre, SettleReviews
<1> QED BY <1>1, <1>2, <1>3, <1>4, <1>5

LEMMA LoopSteps ==
  ASSUME TypeOK, Loop
  PROVE  Reviews
<1>0. "loop" \in Flushers
  BY DEF Flushers
<1>1. clock' = clock /\ db' = db /\ \A g \in Flushers : flusher'[g].batch = flusher[g].batch
  BY <1>0, MovesOn DEF Loop, LoopWake, LoopDebounced, LoopTick, LoopStop, Read, ReadFails, Merge
<1>2. CASE ~Merge
  <2>1. UNCHANGED <<mem, pending>> /\ rows' \in {rows, db}
    BY <1>2 DEF Loop, LoopWake, LoopDebounced, LoopTick, LoopStop, Read, ReadFails, list, queue
  <2>2. \A ip \in IPs : Versions(ip)' \subseteq Versions(ip)
    BY <1>1, <2>1, VersionsAre, VersionsFrom
  <2> QED BY <1>1, <2>1, <2>2 DEF Reviews
<1>3. CASE Merge
  <2> DEFINE known == {ip \in Present(rows) : ~Stale(rows[ip], clock)}
             dropped == (Present(mem) \cap saved) \ known
             newer == {ip \in known : rows[ip].last > mem[ip].last}
             m == [ip \in IPs |-> IF ip \in newer THEN rows[ip]
                                  ELSE IF ip \in dropped THEN Absent ELSE mem[ip]]
  <2>1. m \in Table
    BY AbsentTyped DEF TypeOK, Table
  <2>2. \A ip \in IPs : m[ip] \in {mem[ip], Absent} \cup Found(ip)
    BY VersionsAre DEF Found
  <2>3. Settle(m, clock, {}, 0) /\ rows' = NoRows
    BY <1>3 DEF Merge
  <2> HIDE DEF m, newer
  <2>4. \A ip \in IPs : rows'[ip] \in Versions(ip)
    BY <2>3, NoBatchIsEmpty, VersionsAre
  <2>5. {} \in SUBSET IPs /\ 0 \in Nat
    OBVIOUS
  <2> QED BY <1>1, <2>1, <2>2, <2>3, <2>4, <2>5, SettleReviews
<1> QED BY <1>2, <1>3

\* A process that has ended holds nothing, and none of its loops runs.
DownIsEmpty == up = "down" => mem = NoRows /\ \A f \in Flushers : At(f, "idle")

LEMMA OtherSteps ==
  ASSUME TypeOK, Distinct, DownIsEmpty,
         Tick \/ Close \/ Exit \/ Boot \/ (\E S \in SUBSET IPs : Unban(S)) \/ UNCHANGED vars
  PROVE  Reviews \/ Passes
<1>1. CASE Tick
  <2>1. UNCHANGED <<mem, rows, db, pending, flusher>> /\ clock' = clock + 1
    BY <1>1 DEF Tick, list, queue, loop
  <2> QED BY <2>1 DEF Passes, Versions, Desk, At
<1>2. CASE Close \/ UNCHANGED vars
  <2>1. UNCHANGED <<clock, mem, rows, db, pending, flusher>>
    BY <1>2 DEF Close, vars, list, queue, loop
  <2> QED BY <2>1 DEF Reviews, Versions
<1>3. CASE Exit
  <2>1. /\ mem' = NoRows /\ rows' = NoRows /\ pending' = NoBatch /\ UNCHANGED <<clock, db>>
        /\ \A f \in Flushers : flusher'[f].batch = NoBatch
    BY <1>3, NoBatchIsEmpty DEF Exit
  <2>2. \A ip \in IPs : Versions(ip)' \subseteq Versions(ip)
    BY <2>1, NoBatchIsEmpty, VersionsAre, VersionsFrom
  <2> QED BY <2>1, <2>2, NoBatchIsEmpty DEF Reviews
<1>4. ASSUME NEW S \in SUBSET IPs, Unban(S) PROVE Reviews
  <2>1. UNCHANGED <<clock, mem, rows, pending, flusher>> /\ \A ip \in IPs : db'[ip] \in {Absent, db[ip]}
    BY <1>4 DEF Unban, Without, list, queue, loop
  <2>2. \A ip \in IPs : Versions(ip)' \subseteq Versions(ip)
    BY <2>1, VersionsAre, VersionsFrom
  <2> QED BY <2>1, <2>2 DEF Reviews
<1>5. CASE Boot
  <2> DEFINE t == Without(db, {ip \in IPs : Stale(db[ip], clock)})
  <2>1. t \in Table /\ \A ip \in IPs : t[ip] \in {Absent, db[ip]}
    BY WithoutTyped DEF TypeOK, Without
  <2>2. Settle(t, clock, {}, 0) /\ UNCHANGED <<clock, rows, flusher, db>>
    BY <1>5 DEF Boot, loop
  <2> HIDE DEF t
  <2>3. \A ip \in IPs : t[ip] \in {mem[ip], Absent} \cup Found(ip)
    <3> TAKE ip \in IPs
    <3>1. mem[ip].last = 0
      BY <1>5, NoBatchIsEmpty DEF Boot, DownIsEmpty
    <3>2. db[ip] = Absent \/ db[ip].last \in 1 .. clock
      BY VersionsAre DEF Distinct, Dated
    <3>3. db[ip] = Absent \/ db[ip].last > mem[ip].last
      BY <3>1, <3>2
    <3> QED BY <2>1, <3>3, VersionsAre DEF Found
  <2>4. {} \in SUBSET IPs /\ 0 \in Nat
    OBVIOUS
  <2> QED BY <2>1, <2>2, <2>3, <2>4, VersionsAre, SettleReviews
<1> QED BY <1>1, <1>2, <1>3, <1>4, <1>5

LEMMA StepIs ==
  TypeOK /\ Distinct /\ DownIsEmpty /\ [Next]_vars => Reviews \/ Passes \/ \E k \in IPs : GivesAnew(k)
<1> SUFFICES ASSUME TypeOK, Distinct, DownIsEmpty, [Next]_vars
             PROVE  Reviews \/ Passes \/ \E k \in IPs : GivesAnew(k)
  OBVIOUS
<1>1. ASSUME NEW f \in Flushers, Flush(f) PROVE Reviews
  <2>1. UNCHANGED <<clock, mem>>
    BY <1>1 DEF Flush, Take, Commit, Fail, Mark, list
  <2> QED BY <1>1, <2>1, FlushVersions DEF Reviews
<1> QED BY <1>1, ListSteps, LoopSteps, OtherSteps DEF Next

LEMMA DistinctKept == TypeOK /\ Distinct /\ DownIsEmpty /\ [Next]_vars => Distinct'
<1> SUFFICES ASSUME TypeOK, Distinct, DownIsEmpty, [Next]_vars PROVE Distinct'
  OBVIOUS
<1>0. clock \in Nat
  BY DEF TypeOK
<1>1. CASE Reviews \/ Passes
  <2>1. clock' \in {clock, clock + 1} /\ \A ip \in IPs : Versions(ip)' \subseteq Versions(ip)
    BY <1>1 DEF Reviews, Passes
  <2> QED BY <1>0, <2>1, FewerVersions
<1>2. ASSUME NEW k \in IPs, GivesAnew(k) PROVE Distinct'
  BY <1>0, <1>2, NewVersion DEF GivesAnew, Gives
<1> QED BY <1>1, <1>2, StepIs

LEMMA DownKept == TypeOK /\ DownIsEmpty /\ [Next]_vars => DownIsEmpty'
<1> SUFFICES ASSUME TypeOK, DownIsEmpty, [Next]_vars, up' = "down"
             PROVE  mem' = NoRows /\ \A f \in Flushers : flusher'[f].at = "idle"
  BY DEF DownIsEmpty, At
<1>1. CASE Exit
  BY <1>1 DEF Exit, Idle
<1>2. CASE ~Exit
  <2>1. up = "down"
    BY <1>2 DEF Next, TrapHit, Unban, AdminBan, AdminRemove, AdminClear, Flush, Take, Commit, Fail, Mark,
       Loop, LoopWake, LoopDebounced, LoopTick, LoopStop, Read, ReadFails, Merge, Sweep, Tick, Close, Boot, vars
  <2>2. mem = NoRows /\ \A f \in Flushers : flusher[f].at = "idle"
    BY <2>1 DEF DownIsEmpty, At
  <2>3. UNCHANGED <<mem, flusher>>
    <3>1. ~Loop /\ \A f \in Flushers : ~Flush(f)
      BY <2>1, <2>2 DEF Loop, LoopWake, LoopDebounced, LoopTick, LoopStop, Read, ReadFails, Merge,
         Flush, Take, Commit, Fail, Mark, At, Flushers
    <3> QED BY <1>2, <2>1, <3>1 DEF Next, TrapHit, Unban, AdminBan, AdminRemove, AdminClear, Sweep, Tick,
            Close, Boot, vars, list, loop
  <2> QED BY <2>2, <2>3
<1> QED BY <1>1, <1>2

LEMMA DownInit == Init => DownIsEmpty
BY DEF Init, DownIsEmpty

LEMMA Always == Spec => [](TypeOK /\ Distinct /\ DownIsEmpty)
BY TypesInit, TypesKept, DistinctInit, DistinctKept, DownInit, DownKept, PTL DEF Spec

\* The copies of the list, in memory, in the table and on their way between the
\* two, for any number of addresses and console requests, through failures and
\* restarts, only ever do what a list of bans promises: above all, no hit moves
\* the end of a ban in force (add, addManual, putLocked, flush, resync and load,
\* banlist.go:284-401, 611-652, 710-861).
THEOREM BansAreAsGiven == Spec => RefusesAsGiven
<1> DEFINE known == [ip \in IPs |-> Versions(ip) \ {Absent}]
<1>1. Init => Given!Init
  <2> SUFFICES ASSUME Init PROVE Given!Init
    OBVIOUS
  <2>1. \A ip \in IPs : Versions(ip) = {Absent}
    BY NoBatchIsEmpty DEF Init, Versions
  <2>2. known = [ip \in IPs |-> {}]
    BY <2>1
  <2>3. Desk = {}
    BY DEF Init, Desk, At, Idle, Flushers
  <2> QED BY <2>2, <2>3 DEF Init, Given!Init, NoRows, Absent, Given!Nothing, Desk
<1>2. TypeOK /\ Distinct /\ DownIsEmpty /\ [Next]_vars => [Given!Next]_Given!vars
  <2> SUFFICES ASSUME TypeOK, Distinct, DownIsEmpty, [Next]_vars PROVE Given!Next
    OBVIOUS
  <2>0. /\ mem \in Table /\ clock \in Nat /\ Given!Nothing = Absent
        /\ \A ip \in IPs : known[ip] = Versions(ip) \ {Absent} /\ known'[ip] = Versions(ip)' \ {Absent}
    BY DEF TypeOK, Given!Nothing, Absent
  <2>1. CASE Reviews
    <3>1. clock' = clock /\ \A ip \in IPs : known'[ip] \subseteq known[ip]
      BY <2>0, <2>1 DEF Reviews
    <3>2. ASSUME NEW ip \in IPs
          PROVE  mem'[ip] \in {mem[ip], Absent} \cup {v \in known[ip] : v.last > mem[ip].last}
      <4>1. mem'[ip] \in {mem[ip], Absent} \cup Found(ip)
        BY <2>1 DEF Reviews
      <4> QED BY <2>0, <4>1 DEF Found
    <3>3. Desk' \in SUBSET Admins
      BY DEF Desk
    <3> QED BY <2>0, <3>1, <3>2, <3>3 DEF Given!Next, Given!Review, Given!Forget, Desk
  <2>2. CASE Passes
    <3>1. clock' = clock + 1 /\ Desk' = Desk /\ \A ip \in IPs : known'[ip] = known[ip]
      BY <2>0, <2>2 DEF Passes
    <3>2. known' = known
      BY <2>2 DEF Passes
    <3>3. mem' = mem
      BY <2>0, <2>2, TypesKept DEF Passes, TypeOK, Table
    <3> QED BY <3>1, <3>2, <3>3 DEF Given!Next, Given!Pass, Desk
  <2>3. ASSUME NEW k \in IPs, GivesAnew(k)
        PROVE  Given!Hit(k) \/ \E a \in Admins : Given!Order(a, k)
    <3>1. PICK ban \in Row, d \in Durations :
            /\ Gives(k, ban)
            /\ \/ /\ Desk' = Desk
                  /\ ban.until = IF clock + 1 < mem[k].until THEN mem[k].until ELSE clock + 1 + d
               \/ /\ \E a \in Admins \ Desk : Desk' = Desk \cup {a}
                  /\ ban.until = clock + 1 + d
      BY <2>3 DEF GivesAnew
    <3>2. clock' = clock + 1 /\ mem'[k] = ban /\ ban.last = clock'
      BY <3>1 DEF Gives
    <3>3. mem'[k] = [last |-> clock', until |-> ban.until]
      BY <3>2 DEF Row
    <3>4. \A ip \in IPs : known'[ip] \subseteq known[ip] \cup (IF ip = k THEN {ban} ELSE {})
      BY <2>0, <3>1 DEF Gives
    <3>5. \A ip \in IPs \ {k} : mem'[ip] \in {mem[ip], Absent}
      BY <3>1 DEF Gives
    <3> HIDE DEF known
    <3>6. known'[k] \subseteq known[k] \cup {mem'[k]} /\ \A ip \in IPs \ {k} : known'[ip] \subseteq known[ip]
      BY <3>2, <3>4
    <3>7. Given!Give(k, ban.until)
      BY <2>0, <3>2, <3>3, <3>5, <3>6 DEF Given!Give, Given!Forget, known
    <3>8. CASE Desk' = Desk /\ ban.until = IF clock + 1 < mem[k].until THEN mem[k].until ELSE clock + 1 + d
      BY <3>2, <3>7, <3>8 DEF Given!Hit, Desk
    <3>9. CASE ban.until = clock + 1 + d /\ \E a \in Admins \ Desk : Desk' = Desk \cup {a}
      BY <3>2, <3>7, <3>9 DEF Given!Order, Desk
    <3> QED BY <3>1, <3>8, <3>9
  <2> QED BY <2>1, <2>2, <2>3, StepIs DEF Given!Next
<1> QED BY <1>1, <1>2, Always, PTL DEF Spec, RefusesAsGiven, Given!Spec

\* What is settled is trimmed.
LEMMA SettleBounds ==
  ASSUME Distinct', NEW t \in Table, NEW now, NEW touched, NEW n, Settle(t, now, touched, n)
  PROVE  RowsBounded'
<1> DEFINE kept == Without(t, Evicted(t))
<1>1. mem' = kept /\ \A ip \in Present(kept) : ip \in IPs /\ kept[ip] = t[ip] /\ kept[ip] # Absent
  BY DEF Settle, Without, Present
<1>2. \A ip \in Present(kept) : mem'[ip] \in Versions(ip)' /\ mem'[ip] = t[ip]
  BY <1>1 DEF Versions
<1> HIDE DEF kept
<1>3. \A i, j \in Present(kept) : t[i].last = t[j].last => i = j
  BY <1>1, <1>2 DEF Distinct, Owned
<1> QED BY <1>1, <1>3, TrimBounds DEF kept, RowsBounded

\* A list that only loses entries.
LEMMA FewerBounds ==
  ASSUME RowsBounded, TypeOK, \A ip \in IPs : mem'[ip] \in {Absent, mem[ip]}
  PROVE  RowsBounded'
<1>1. Present(mem) \in SUBSET IPs /\ Present(mem') \in SUBSET Present(mem)
  BY DEF Present
<1>2. IsFiniteSet(Present(mem)) /\ Cardinality(Present(mem)) \in Nat /\ Cardinality(Present(mem')) \in Nat
      /\ Cardinality(Present(mem')) <= Cardinality(Present(mem))
  BY <1>1, BanAssumption, FS_Subset, FS_CardinalityType
<1> QED BY <1>2, BanAssumption DEF RowsBounded

LEMMA BoundKept == TypeOK /\ RowsBounded /\ Distinct' /\ [Next]_vars => RowsBounded'
<1> SUFFICES ASSUME TypeOK, RowsBounded, Distinct', [Next]_vars PROVE RowsBounded'
  OBVIOUS
<1>0. mem \in Table /\ db \in Table /\ rows \in Table /\ clock \in Nat
  BY DEF TypeOK
<1>1. CASE \A ip \in IPs : mem'[ip] \in {Absent, mem[ip]}
  BY <1>1, FewerBounds
<1>2. ASSUME NEW ip \in IPs, NEW row \in Row, NEW now, Put(ip, row, now) PROVE RowsBounded'
  <2>1. [mem EXCEPT ![ip] = row] \in Table
    BY <1>0 DEF Table
  <2> QED BY <1>2, <2>1, SettleBounds DEF Put
<1>3. ASSUME NEW ip \in IPs, TrapHit(ip) PROVE RowsBounded'
  <2>1. PICK d \in Durations :
          Put(ip, [last |-> clock + 1,
                   until |-> IF Active(mem[ip], clock + 1) THEN mem[ip].until ELSE clock + 1 + d], clock + 1)
    BY <1>3 DEF TrapHit
  <2>2. [last |-> clock + 1,
         until |-> IF Active(mem[ip], clock + 1) THEN mem[ip].until ELSE clock + 1 + d] \in Row
    BY <1>0, BanAssumption DEF Row, Table
  <2> QED BY <1>2, <2>1, <2>2
<1>4. ASSUME NEW a \in Admins, NEW ip \in IPs, AdminBan(a, ip) PROVE RowsBounded'
  <2>1. PICK d \in Durations : Put(ip, [last |-> clock + 1, until |-> clock + 1 + d], clock + 1)
    BY <1>4 DEF AdminBan
  <2>2. [last |-> clock + 1, until |-> clock + 1 + d] \in Row
    BY <1>0, BanAssumption DEF Row
  <2> QED BY <1>2, <2>1, <2>2
<1>5. ASSUME NEW a \in Admins, AdminClear(a) \/ \E ip \in IPs : AdminRemove(a, ip) PROVE RowsBounded'
  BY <1>1, <1>5, NoBatchIsEmpty DEF AdminClear, AdminRemove, Without
<1>6. CASE Sweep
  BY <1>0, <1>6, WithoutTyped, SettleBounds DEF Sweep
<1>7. CASE Boot
  BY <1>0, <1>7, WithoutTyped, SettleBounds DEF Boot
<1>8. CASE Merge
  <2> DEFINE known == {ip \in Present(rows) : ~Stale(rows[ip], clock)}
             dropped == (Present(mem) \cap saved) \ known
             newer == {ip \in known : rows[ip].last > mem[ip].last}
             m == [ip \in IPs |-> IF ip \in newer THEN rows[ip]
                                  ELSE IF ip \in dropped THEN Absent ELSE mem[ip]]
  <2>1. m \in Table
    BY <1>0, AbsentTyped DEF Table
  <2>2. Settle(m, clock, {}, 0)
    BY <1>8 DEF Merge
  <2> HIDE DEF m
  <2> QED BY <2>1, <2>2, SettleBounds
<1>9. CASE Loop /\ ~Merge
  BY <1>1, <1>9 DEF Loop, LoopWake, LoopDebounced, LoopTick, LoopStop, Read, ReadFails, list
<1>10. ASSUME NEW f \in Flushers, Flush(f) PROVE RowsBounded'
  BY <1>1, <1>10 DEF Flush, Take, Commit, Fail, Mark, list
<1>11. CASE Exit
  BY <1>1, <1>11, NoBatchIsEmpty DEF Exit
<1>12. CASE Tick \/ Close \/ (\E S \in SUBSET IPs : Unban(S)) \/ UNCHANGED vars
  BY <1>1, <1>12 DEF Tick, Close, Unban, vars, list
<1> QED BY <1>3, <1>4, <1>5, <1>6, <1>7, <1>8, <1>9, <1>10, <1>11, <1>12 DEF Next

\* However many addresses are banned, by traps and by hand, and whatever is read
\* back from the table, the list has no more than MaxRows entries (trimLocked,
\* banlist.go:428-446).
THEOREM ListIsBounded == Spec => []RowsBounded
<1>1. Init => RowsBounded
  <2> SUFFICES ASSUME Init PROVE RowsBounded
    OBVIOUS
  <2>1. Present(mem) = {}
    BY NoBatchIsEmpty DEF Init, Present
  <2> QED BY <2>1, BanAssumption, FS_EmptySet DEF RowsBounded
<1>2. TypeOK /\ RowsBounded /\ Distinct' /\ [Next]_vars => RowsBounded'
  BY BoundKept
<1> QED BY <1>1, <1>2, Always, PTL DEF Spec
=============================================================================
