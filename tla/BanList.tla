------------------------------ MODULE BanList ------------------------------
(***************************************************************************)
(* The list of banned addresses (banlist.go) and its three copies: the     *)
(* list itself (all, under mu), the snapshot requests look up (cur), and   *)
(* the table ban_entries.  The honeypot and the console change the list    *)
(* and queue what they changed; persistLoop and the console's handlers     *)
(* flush the queue into the table; persistLoop also reads the table back,  *)
(* because the command line (-unban) changes the table alone.              *)
(*                                                                         *)
(* A step is one critical section of mu, or one transaction.  Reading the  *)
(* clock is part of the critical section after it.  Two things may turn a  *)
(* trap's hit down without touching what is modelled here, and are left    *)
(* out: the exemptions and the limit on bursts.                            *)
(*                                                                         *)
(* The clock moves on at every change of an entry, so that a LastAt names  *)
(* one version of one entry, which is how markPersisted uses it.  Of the   *)
(* queued operations on one address only the last matters to the table and *)
(* to markPersisted: a batch keeps that one, and how many there were.      *)
(***************************************************************************)
EXTENDS Integers, FiniteSets

CONSTANTS
  IPs,
  Admins,      \* requests to the console, one at a time each
  QueueMax,    \* 4096: a longer queue becomes a rewrite of the whole table
  MaxRows,     \* banMaxRows
  Keep,        \* banRowKeep
  Durations,   \* how long a ban may be for: the ladder's rungs and the console's choice
  Faults,      \* TRUE: a transaction on the table may fail
  MaxClock     \* bound on the clock

ASSUME BanAssumption ==
  /\ IsFiniteSet(IPs) /\ "loop" \notin Admins
  /\ QueueMax \in Nat \ {0} /\ MaxRows \in Nat \ {0} /\ Keep \in Nat \ {0}
  /\ Durations \subseteq Nat \ {0} /\ Faults \in BOOLEAN /\ MaxClock \in Nat

VARIABLES
  up,        \* the process: "up", "stopping" after Close, "down"
  clock,
  mem,       \* b.all, without the flag persisted
  saved,     \* the addresses whose entry has persisted = TRUE
  snap,      \* b.cur
  pending,   \* b.pending
  rewrite,   \* b.rewrite
  wake,      \* the token in b.wake
  flusher,   \* who flushes, persistLoop and the console's handlers: where it is,
             \* its batch, and where it goes when its flush is over
  rows,      \* persistLoop: what readBans returned to resync
  db,        \* the table ban_entries
  lost       \* history: the versions a failed transaction was to write

list == <<mem, saved, snap>>
queue == <<pending, rewrite, wake>>
loop == <<flusher, rows>>
vars == <<up, clock, list, queue, loop, db, lost>>

Flushers == Admins \cup {"loop"}

Absent == [last |-> 0, until |-> 0]
Row == [last : Nat, until : Nat]   \* LastAt and ExpiresAt
Table == [IPs -> Row]
NoRows == [ip \in IPs |-> Absent]

Batch == [touched : SUBSET IPs, rows : Table, n : 0 .. QueueMax, all : BOOLEAN]
NoBatch == [touched |-> {}, rows |-> NoRows, n |-> 0, all |-> FALSE]

Labels == {"idle", "debounce", "take", "tx", "mark", "read", "merge", "stopped"}
Idle == [at |-> "idle", batch |-> NoBatch, then |-> "idle"]

Present(t) == {ip \in IPs : t[ip] # Absent}
Active(row, now) == now < row.until
Stale(row, now) == now - row.last > Keep
Snapshot(t, now) == [ip \in IPs |-> IF Active(t[ip], now) THEN t[ip] ELSE Absent]

\* trimLocked: all but the MaxRows entries with the latest LastAt.
Evicted(t) == {ip \in Present(t) : Cardinality({k \in IPs : t[k].last > t[ip].last}) >= MaxRows}
Without(t, S) == [ip \in IPs |-> IF ip \in S THEN Absent ELSE t[ip]]

Init ==
  /\ up = "up" /\ clock = 0 /\ mem = NoRows /\ saved = {} /\ snap = NoRows
  /\ pending = NoBatch /\ rewrite = FALSE /\ wake = FALSE
  /\ flusher = [f \in Flushers |-> Idle] /\ rows = NoRows
  /\ db = NoRows /\ lost = {}

-----------------------------------------------------------------------------
(* The list, under mu *)

Longer(touched, t, n) ==
  [touched |-> pending.touched \cup touched, n |-> pending.n + n, all |-> FALSE,
   rows |-> [ip \in IPs |-> IF ip \in touched THEN t[ip] ELSE pending.rows[ip]]]

\* Mutant: a full queue is thrown away and the table is not rewritten.
QueueDrop(touched, t, n) ==
  /\ wake' = TRUE /\ UNCHANGED rewrite
  /\ pending' = IF rewrite \/ pending.n + n > QueueMax THEN NoBatch ELSE Longer(touched, t, n)

\* queueLocked, for n operations that bring the table's rows of touched to t.
Queue(touched, t, n) ==
  LET over == rewrite \/ pending.n + n > QueueMax IN
    /\ pending' = IF over THEN NoBatch ELSE Longer(touched, t, n)
    /\ rewrite' = over /\ wake' = TRUE

\* Mutant: the list grows without limit.
SettleUntrimmed(t, now, touched, n) ==
  /\ mem' = t /\ snap' = Snapshot(t, now)
  /\ IF touched = {} THEN UNCHANGED queue ELSE Queue(touched, t, n)

\* trimLocked, rebuildLocked at the time now, and the queueing of what was
\* trimmed with the changes that the caller queues itself.
Settle(t, now, touched, n) ==
  LET out == Evicted(t)  kept == Without(t, out) IN
    /\ mem' = kept /\ snap' = Snapshot(kept, now)
    /\ IF out \cup touched = {} THEN UNCHANGED queue
       ELSE Queue(touched \cup out, kept, n + Cardinality(out))

\* putLocked: the new version is in force at once, and not yet in the table.
Put(ip, row, now) ==
  /\ Settle([mem EXCEPT ![ip] = row], now, {ip}, 1)
  /\ saved' = saved \ ({ip} \cup Evicted([mem EXCEPT ![ip] = row]))
  /\ clock' = now

\* Mutant: a hit during a ban is taken for the first of a new one.
TrapHitAgain(ip) ==
  LET now == clock + 1 IN
    /\ up # "down" /\ now <= MaxClock
    /\ \E d \in Durations : Put(ip, [last |-> now, until |-> now + d], now)
    /\ UNCHANGED <<up, loop, db, lost>>

\* add: a hit during a ban is counted, and neither prolongs nor raises it.
TrapHit(ip) ==
  LET now == clock + 1 IN
    /\ up # "down" /\ now <= MaxClock
    /\ \E d \in Durations :
         Put(ip, [last |-> now, until |-> IF Active(mem[ip], now) THEN mem[ip].until ELSE now + d], now)
    /\ UNCHANGED <<up, loop, db, lost>>

\* sweep
Sweep ==
  LET gone == {ip \in Present(mem) : Stale(mem[ip], clock)} IN
    /\ up # "down"
    /\ Settle(Without(mem, gone), clock, gone, Cardinality(gone))
    /\ saved' = saved \cap Present(mem')
    /\ UNCHANGED <<up, clock, loop, db, lost>>

-----------------------------------------------------------------------------
(* flush: whoever calls it takes the queue, runs the transaction, marks. *)

At(f, label) == flusher[f].at = label
Goto(f, label) == flusher' = [flusher EXCEPT ![f].at = label]

Finish(f) == flusher' = [flusher EXCEPT ![f] = [Idle EXCEPT !.at = flusher[f].then]]

\* Mutant: a rewrite forgets to copy the list.
TakePending(f) ==
  /\ At(f, "take")
  /\ pending' = NoBatch /\ rewrite' = FALSE
  /\ IF pending.touched = {} /\ ~rewrite THEN Finish(f)
     ELSE flusher' = [flusher EXCEPT ![f].at = "tx", ![f].batch = pending]
  /\ UNCHANGED <<up, clock, list, wake, rows, db, lost>>

Take(f) ==
  LET all == [touched |-> IPs, rows |-> mem, n |-> 0, all |-> TRUE] IN
    /\ At(f, "take")
    /\ pending' = NoBatch /\ rewrite' = FALSE
    /\ IF pending.touched = {} /\ ~rewrite THEN Finish(f)
       ELSE flusher' = [flusher EXCEPT ![f].at = "tx", ![f].batch = IF rewrite THEN all ELSE pending]
    /\ UNCHANGED <<up, clock, list, wake, rows, db, lost>>

Commit(f) ==
  LET batch == flusher[f].batch IN
    /\ At(f, "tx") /\ Goto(f, "mark")
    /\ db' = [ip \in IPs |-> IF ip \in batch.touched THEN batch.rows[ip] ELSE db[ip]]
    /\ UNCHANGED <<up, clock, list, queue, rows, lost>>

\* A failed transaction is logged, and its batch is not queued again.
Fail(f) ==
  /\ Faults /\ At(f, "tx") /\ Finish(f)
  /\ lost' = lost \cup {flusher[f].batch.rows[ip].last : ip \in flusher[f].batch.touched}
  /\ UNCHANGED <<up, clock, list, queue, rows, db>>

\* markPersisted: the entries written that have not changed since; after a
\* rewrite, every entry there is by now.
Mark(f) ==
  LET batch == flusher[f].batch
      same == {ip \in batch.touched : batch.all \/ mem[ip].last = batch.rows[ip].last} IN
    /\ At(f, "mark") /\ Finish(f)
    /\ saved' = saved \cup (same \cap Present(mem))
    /\ UNCHANGED <<up, clock, mem, snap, queue, rows, db, lost>>

Flush(f) == Take(f) \/ Commit(f) \/ Fail(f) \/ Mark(f)

-----------------------------------------------------------------------------
(* The console: each handler changes the list, then flushes. *)

\* handleBanCreate
AdminBan(a, ip) ==
  LET now == clock + 1 IN
    /\ up # "down" /\ now <= MaxClock /\ At(a, "idle") /\ Goto(a, "take")
    /\ \E d \in Durations : Put(ip, [last |-> now, until |-> now + d], now)
    /\ UNCHANGED <<up, rows, db, lost>>

\* Mutant: the snapshot is not rebuilt.
AdminRemoveQuietly(a, ip) ==
  /\ up # "down" /\ At(a, "idle") /\ Goto(a, "take")
  /\ mem' = Without(mem, {ip}) /\ saved' = saved \ {ip}
  /\ Queue({ip}, NoRows, 1)
  /\ UNCHANGED <<up, clock, snap, rows, db, lost>>

\* handleBanRemove
AdminRemove(a, ip) ==
  /\ up # "down" /\ At(a, "idle") /\ Goto(a, "take")
  /\ mem' = Without(mem, {ip}) /\ snap' = Snapshot(mem', clock) /\ saved' = saved \ {ip}
  /\ Queue({ip}, NoRows, 1)
  /\ UNCHANGED <<up, clock, rows, db, lost>>

\* handleBanRemove with "all"
AdminClear(a) ==
  /\ up # "down" /\ At(a, "idle") /\ Goto(a, "take")
  /\ mem' = NoRows /\ snap' = NoRows /\ saved' = {}
  /\ rewrite' = TRUE /\ pending' = NoBatch /\ wake' = TRUE
  /\ UNCHANGED <<up, clock, rows, db, lost>>

-----------------------------------------------------------------------------
(* persistLoop *)

\* A wake lets more arrive for 1.5 s before the flush.
LoopWake ==
  /\ up # "down" /\ At("loop", "idle") /\ wake
  /\ wake' = FALSE /\ Goto("loop", "debounce")
  /\ UNCHANGED <<up, clock, list, pending, rewrite, rows, db, lost>>

LoopFlush(then) == flusher' = [flusher EXCEPT !["loop"].at = "take", !["loop"].then = then]

LoopDebounced ==
  /\ At("loop", "debounce") /\ LoopFlush("idle")
  /\ UNCHANGED <<up, clock, list, queue, rows, db, lost>>

LoopTick ==
  /\ up # "down" /\ At("loop", "idle") /\ LoopFlush("read")
  /\ UNCHANGED <<up, clock, list, queue, rows, db, lost>>

LoopStop ==
  /\ up = "stopping" /\ (At("loop", "idle") \/ At("loop", "debounce"))
  /\ LoopFlush("stopped")
  /\ UNCHANGED <<up, clock, list, queue, rows, db, lost>>

\* resync: readBans, whose failure ends the round (ReadFails) ...
Read ==
  /\ At("loop", "read") /\ Goto("loop", "merge") /\ rows' = db
  /\ UNCHANGED <<up, clock, list, queue, db, lost>>

ReadFails ==
  /\ Faults /\ At("loop", "read") /\ Goto("loop", "idle")
  /\ UNCHANGED <<up, clock, list, queue, rows, db, lost>>

\* Mutant: rows are taken in, and nothing is dropped.
MergeAdds ==
  LET newer == {ip \in Present(rows) : ~Stale(rows[ip], clock) /\ rows[ip].last > mem[ip].last} IN
    /\ At("loop", "merge") /\ Goto("loop", "idle")
    /\ Settle([ip \in IPs |-> IF ip \in newer THEN rows[ip] ELSE mem[ip]], clock, {}, 0)
    /\ saved' = (saved \cup newer) \cap Present(mem') /\ rows' = NoRows
    /\ UNCHANGED <<up, clock, db, lost>>

\* ... then, under mu, the comparison with the list: an entry the table lost is
\* dropped if it was saved, a row that is new or newer is taken in.
Merge ==
  LET known == {ip \in Present(rows) : ~Stale(rows[ip], clock)}
      dropped == (Present(mem) \cap saved) \ known
      newer == {ip \in known : rows[ip].last > mem[ip].last}
      merged == [ip \in IPs |-> IF ip \in newer THEN rows[ip]
                                ELSE IF ip \in dropped THEN Absent ELSE mem[ip]] IN
    /\ At("loop", "merge") /\ Goto("loop", "idle")
    /\ Settle(merged, clock, {}, 0)
    /\ saved' = (saved \cup newer) \cap Present(mem')
    /\ rows' = NoRows
    /\ UNCHANGED <<up, clock, db, lost>>

-----------------------------------------------------------------------------
(* The command line, time, and the process *)

\* goproxy -unban <ip|all>: another process, one transaction.
Unban(S) ==
  /\ db # Without(db, S)
  /\ db' = Without(db, S)
  /\ UNCHANGED <<up, clock, list, queue, loop, lost>>

Tick == /\ clock < MaxClock /\ clock' = clock + 1
        /\ UNCHANGED <<up, list, queue, loop, db, lost>>

\* Run, after the signal: Close closes the channel stop and does not wait.
Close == /\ up = "up" /\ up' = "stopping"
         /\ UNCHANGED <<clock, list, queue, loop, db, lost>>

\* The process ends, after Close or by a crash: memory is gone.
Exit ==
  /\ up # "down" /\ up' = "down"
  /\ mem' = NoRows /\ saved' = {} /\ snap' = NoRows
  /\ pending' = NoBatch /\ rewrite' = FALSE /\ wake' = FALSE
  /\ flusher' = [f \in Flushers |-> Idle] /\ rows' = NoRows /\ lost' = {}
  /\ UNCHANGED <<clock, db>>

\* load
Boot ==
  /\ up = "down" /\ up' = "up"
  /\ Settle(Without(db, {ip \in IPs : Stale(db[ip], clock)}), clock, {}, 0)
  /\ saved' = Present(mem')
  /\ UNCHANGED <<clock, loop, db, lost>>

Loop == LoopWake \/ LoopDebounced \/ LoopTick \/ LoopStop \/ Read \/ ReadFails \/ Merge

Next ==
  \/ \E ip \in IPs : TrapHit(ip) \/ Unban({ip}) \/ \E a \in Admins : AdminBan(a, ip) \/ AdminRemove(a, ip)
  \/ \E a \in Admins : AdminClear(a)
  \/ \E f \in Flushers : Flush(f)
  \/ Loop \/ Sweep \/ Unban(IPs) \/ Tick \/ Close \/ Exit \/ Boot

\* persistLoop and the handlers run; the ticker ticks, and select picks at
\* random among what is ready, so that a wake does not always win over it.  The
\* table can be read now and then.  A process told to stop ends (30 s at most).
Fairness == /\ WF_vars(Loop) /\ SF_vars(LoopTick) /\ SF_vars(Read)
            /\ WF_vars(up = "stopping" /\ Exit)
            /\ \A f \in Flushers : WF_vars(Flush(f))

Spec == Init /\ [][Next]_vars
FairSpec == Spec /\ Fairness

-----------------------------------------------------------------------------

\* Every variable holds a value of its kind (banlist.go:98-201).
TypeOK ==
  /\ up \in {"up", "stopping", "down"} /\ clock \in 0 .. MaxClock
  /\ mem \in Table /\ snap \in Table /\ db \in Table /\ rows \in Table
  /\ saved \in SUBSET IPs /\ lost \in SUBSET Nat
  /\ pending \in Batch /\ rewrite \in BOOLEAN /\ wake \in BOOLEAN
  /\ flusher \in [Flushers -> [at : Labels, batch : Batch, then : {"idle", "read", "stopped"}]]

\* A request is refused exactly while the list holds a ban in force: no change
\* of the list, and no expiry, leaves the lock-free snapshot behind (lookup and
\* rebuildLocked, banlist.go:259-278, 448-460).
SnapshotExact == \A ip \in IPs : Active(snap[ip], clock) <=> Active(mem[ip], clock)

\* What is on its way to the table, or was and failed.
Covered(ip) ==
  \/ rewrite
  \/ ip \in pending.touched /\ pending.rows[ip] = mem[ip]
  \/ \E f \in Flushers : /\ At(f, "tx") \/ At(f, "mark")
                         /\ ip \in flusher[f].batch.touched /\ flusher[f].batch.rows[ip] = mem[ip]
  \/ mem[ip].last \in lost

\* No ban falls between the list and the table: a version that is not marked as
\* saved is queued, in someone's batch, or was in a transaction that failed
\* (queueLocked, flush and markPersisted, "rather write more than lose any").
UnsavedIsCovered == \A ip \in Present(mem) : ip \in saved \/ Covered(ip)

\* The list stays within its bound, whatever the table holds (trimLocked).
RowsBounded == Cardinality(Present(mem)) <= MaxRows

\* The versions of a row there are, anywhere.
Versions(ip) ==
  {Absent, mem[ip], rows[ip], db[ip], pending.rows[ip]}
    \cup {flusher[f].batch.rows[ip] : f \in Flushers}

Given == INSTANCE Bans WITH Addresses <- IPs, Clerks <- Admins, now <- clock,
                            desk <- {a \in Admins : ~At(a, "idle")}, inForce <- mem,
                            known <- [ip \in IPs |-> Versions(ip) \ {Absent}]

\* Whatever is queued, written, lost, read back and restarted: an address is
\* refused by a ban given to it, which is in force at once, whose end no hit
\* moves while it lasts ("no renewal", banlist.go:316-327) and only the console
\* sets anew, and which comes back only from a copy that is left (add,
\* addManual, putLocked, resync and load, banlist.go:284-401, 611-652, 803-861).
RefusesAsGiven == Given!Spec

\* What the command line removes from the table is removed from the list too,
\* unless the table has it again: "the command line's unban converges"
\* (resync, banlist.go:796-802).
ExternalUnbanConverges ==
  \A ip \in IPs : (ip \in saved /\ db[ip] = Absent) ~> (ip \notin saved \/ db[ip] # Absent)

\* Nobody has written the entry yet, nor is about to say so.
Unwritten(ip) ==
  /\ ip \notin saved
  /\ \A f \in Flushers : At(f, "mark") => flusher[f].batch.rows[ip] # mem[ip]

\* The entry was removed or trimmed, and the table is to follow.
Lifted(ip) ==
  mem[ip] = Absent /\ (rewrite \/ (ip \in pending.touched /\ pending.rows[ip] = Absent))

\* A ban that is given comes to be in the table, unless its transaction fails,
\* the process ends, a later version takes its place or it is lifted: what a
\* rewrite marks before it is written (banlist.go:774-779), and resync drops for
\* that, is still queued (persistLoop, flush).
BanGetsWritten ==
  \A ip \in IPs : \A v \in 1 .. MaxClock :
    (mem[ip].last = v /\ Unwritten(ip))
      ~> (db[ip].last = v \/ v \in lost \/ up = "down" \/ mem[ip].last > v \/ Lifted(ip))
=============================================================================
