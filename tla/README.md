# goproxy in TLA+

Models, model-checking runs and proofs for goproxy, the L7 reverse proxy in `src/`: one Go
process (one package) that listens on several ports, chooses a route for each request by
port, host and path, and sends it to the route's backend; a console and an admin API change
the configuration while it runs; the configuration and the bans live in an SQLite database
that the command line, another process, opens too.

Modules are checked with `tlc -config X.cfg M` and proved with `tlapm M.tla`.
`PROJECT.json` lists the runs, the line of code behind every definition, the mutants that
show that each property depends on the code, the findings and the hazards.

## 1. Inventory

| Part | Files | State | Operations | What makes it correct |
|---|---|---|---|---|
| Circuit breaker | `circuitbreaker.go` | four atomics (`state`, `openedAt`, `halfUsed`, `halfOK`), a ring of per-second buckets | `Allow` before the forward, `Record` after it; no lock | opens on the error rate, cools for `OpenSecs` and no longer, lets a few probes through, closes when they succeed |
| Ban list | `banlist.go`, `banapi.go` | `all` under `mu`; snapshot `cur`; queue `pending`/`rewrite`; table `ban_entries` | hits of traps, console, sweep, `flush`, `resync`, `-unban` | the snapshot is the list; nothing is lost on its way to the table; what was removed outside goes; the list is bounded |
| Configuration | `admin_api.go`, `configstore.go`, `main.go` | tables and history in the database; in memory table, accounts, TLS, listeners | `mutate` (read, edit, validate, save, reload, roll back), `reload`, import, start | what runs is what is stored; no lost update; a refused edit leaves no trace; every version replaced is kept |
| Listeners | `listener.go` | the server of each port | `Sync` (by `reload`), `ShutdownAll` | exactly the ports of the configuration are served, with their TLS attribute |
| Honeypot | `honeypot.go`, `honeypotstore.go` | sockets and traps by port | `Sync`, probes, `Close` | a trap on every configured port that no route has; every probe is counted once |
| Sessions | `session.go`, `auth_handler.go`, `admin_users.go` | sessions, failed logins by address and overall | login, lookup, logout, sweep, and `reload` of the accounts | a session ends with its credentials and its time and for no other reason; guesses are limited, lock-outs last and end |
| Request pipeline | `main.go`, `proxy.go`, `router.go`, `acl.go`, `ratelimit.go`, `auth.go`, `jwt.go` | the table (replaced by `reload`), limiters | the checks of one request in order | a request is checked by one table from end to end, and every refusal comes before the backend |
| Certificates | `tls.go`, `tlsconfig.go` | certificates by name, ACME cache | load, hot reload, choice by SNI | no TLS port without a certificate that was checked |
| Self-upgrade | `upgrade*.go` | staged file, backup, binary, a parked binary | upload, install, roll back, restart; by the console and by a command | there is always a binary to put back, the one in place was verified, the backup is the way back |
| Observation | `metrics.go`, `stats.go`, `accesslog.go` | counters, the curve of the last minutes, a ring of entries, its subscribers | count, sample, add, read, subscribe | nothing is counted twice or lost; a page that follows the log knows what it lacks |
| Location of addresses | `ipgeo.go` | a cache | look up | nothing else depends on it |
| Console, installer | `web/`, `install.sh`, `scripts/` | none of the server's | HTTP requests | |

How they interact. A request goes through the global deny list, the ban list's snapshot,
the route's list, its limiter, its breaker and its authentication, in this order, and then
to the backend (`App.handler`). Two facts matter for the models: the breaker is asked
*before* authentication and told only *after* the forward, and the ban list is read without
its lock. The honeypot calls the ban list for every probe. `mutate` and
`POST /_goproxy/reload` call `reload`, which replaces the table, the accounts, the
certificates and then calls `Sync` of the listeners and of the honeypot. The database is
shared by the configuration, the bans and the command line; so are the files of an upgrade
by the console and the command line. Every request of a port ends with its entry in the
log, which the console's pages follow.

What is hard here: atomics without a lock (breaker); three copies of one list, one of them
changed by another process (bans); a transaction made of several steps, each of which may
fail, on a store that somebody else writes (configuration); asynchronous closing beside
opening (listeners, traps); a lock that is not held between asking and acting (sessions);
a table that is replaced under a request (pipeline); crashes between two renames, and two
processes on the same files (upgrade); readers that nobody waits for (log). `PROJECT.json`
"hazards" names each at its line, with the properties that cover it.

## 2. Plan

Done, in this order, each with its runs and proofs:

1. `CircuitBreaker`, `BanList`, `ConfigTx`: the parts with the hardest interleavings.
2. `Ports`: listeners and traps under concurrent reloads.
3. `Sessions`: logins, lookups and reloads that change accounts; limits on attempts.
4. `Gateway` over `Meter`: routing, lists and limiters under the reloads that replace them,
   and an abstract specification of a rate limit, which the limiters implement.
5. `Upgrade`: the files of an upgrade, two processes, a crash at any step.
6. `Observe`: the counters, the log and the pages that follow it.
7. `Bans` and `Follower`: what the ban list and a configuration that is reloaded promise,
   which `BanList` and `ConfigTx` implement.

Left for later:

- UDP traps, the recording of probes, `ShutdownAll` and the end of the process in `Ports`.
- A module of the certificates by name, their hot reload and the ACME cache.
- Abstract specifications of the sessions, the traps and the replacement of the binary.
- The buckets of the breaker, atomic by atomic.

## 3. Models

### CircuitBreaker

The atomics are variables, and every atomic operation of `Allow`, `Record` and `toOpen` is
an action of a handler, a request being served: `AllowLoad`, `AllowCooled`, `AllowCAS`,
`AllowZeroUsed`, `AllowZeroOK`, `AllowHalf`; `Forward` (the backend answers and `Record`
reads the clock) or `LeaveUnrecorded` (401, or the client went away); `Count`,
`RecordLoad`, `AddOK`, `CloseCAS`, `ResetWindow`, `Stats`, `Trip`, `StoreOpened`. Time is
relative: `openAge` is the age of the stored timestamp and saturates at `OpenSecs`, past
which the code does not tell ages apart; a bucket is known by the age of its second.
Counters saturate where the code only compares. Two history variables state the
properties: the seconds since the trip, and the requests admitted since the breaker became
half-open. Their bound is `HalfOpenCalls + 1` for each handler that races: the winner of the
CAS takes no slot, so that requests that come one after another are one more than
`HalfOpenCalls` too.

Coarser than the code: counting in a bucket is one step (the code claims a bucket with a
CAS and clears it afterwards), and so are summing and resetting the window.

### BanList and Bans

A step is a critical section of `mu` or a transaction on the table. `TrapHit` is
`onTrapProbe` and `add`, with the trimming, the snapshot and the queueing (`Settle`,
`Queue`) inside it; `AdminBan`, `AdminRemove`, `AdminClear` are the console's handlers,
which then flush themselves; `Take`, `Commit`, `Fail`, `Mark` are `flush`, run by
`persistLoop` or by a handler; `LoopWake` to `LoopStop` are `persistLoop`; `Read` and
`Merge` are `resync`, before and under the lock; `Unban` is the command line; `Close`,
`Exit`, `Boot` are the process. A row is its `LastAt` and its `ExpiresAt`.

Left out: exemptions and the limit on bursts (they turn hits down without changing what is
modelled), samples and reasons, and the ladder (a ban lasts any duration of `Durations`).
The clock moves at every change of an entry, so that `LastAt` names one version, as
`markPersisted` assumes; the milliseconds that the table drops are left out. Of several
operations on one address in one batch only the last is kept, and their number.

`Bans` is what a list of bans promises, without queue, table, batches or restarts: a ban is
given to an address and is in force at once and as long as it was given. A hit while it is in
force (`Hit`) leaves its end where it is; a hit after it gives it anew; only an order of a
clerk at the desk, a request of the console (`Order`), sets another end to a ban in force. A
ban may be lifted at any time; one that is written down somewhere may be found
again, one of which no copy is left may not. The refinement mapping takes the list for what
is in force, and for what is written down every version of a row there is: in the list, the
table, what `resync` has read, the queue and the batches of the flushers (`Versions`). A
failed transaction, a crash or a trim only loses copies.

### ConfigTx and Follower

`Parse`, `Save`, `Restore` and their failures are `mutate`, under `writeMu`; `Load`,
`Swap`, `Apply` and their failures are `reload`, under `mu`, called by `mutate` once or
twice and by `POST /_goproxy/reload` (`Reloader`) at any time; `Swap` is the store of table
and accounts, `Apply` the store of the certificate manager after `newTLSManager`, so that
`ApplyFails` leaves a new table with an old manager, as the code does. What the ports then
serve is `Ports`. `Write` is the transaction of
`configStore.write` with `archiveRawTx`; the code orders the history by `created_at` and then
by `rowid`, the model by insertion, which is the same as long as the machine's clock does not
go back. `Import` is the command line; `Crash` and `Boot`
the process. A configuration maps routes to what they ask of certificates, because that is
what makes a valid configuration fail later: a manual route needs its files, an automatic
one the directory of the ACME cache, and both come and go (`CertsChange`, `CacheChanges`).
`drifted` is a history variable: since the last load somebody imported, or a caller was
told that a load or a rollback failed.

`Follower` is what a copy of a source promises: it takes what the source has, puts it in
place some time later, or drops it, and never puts in place what it took earlier than what
is there. `ConfigTx` implements it twice, for the table and the accounts (`Routed`, where
`Swap` puts in place what `Load` has taken) and for the certificates (`Secured`, where
`Apply` does), with the database as the source: that is what `App.mu` is for.

### Ports

`bound` is the operating system's view of a port: free, a server's, a dropped server's that
its goroutine has not closed yet (`Die`), a trap's. `servers`, `lns` and `traps` are the
maps of `ListenerManager` and of the honeypot. A goroutine (`task`) is a reload or a request
that sets the honeypot. A reload waits for `mu` (`Load`), drops what is not wanted in this
way (`Drop`), listens port by port (`Listen`) and reads the settings of the honeypot
(`ReadTraps`); the console's request writes them (`Set`) and reads the configuration without
a lock (`LoadBase`). Both then run `honeypot.Sync`: `Sync` closes, then for each port `Open`
looks it up, `Bind` listens, `SetConn` and `SetTrap`, or `SetFailed`, store, each in its own
critical section, so that two of these can run through each other. `Save` starts a reload
with any configuration: a write, an import followed by a reload, or a reload alone, also
while another one is under way. A port's setting is nothing, plain HTTP, or TLS with the
certificates of its routes. `settled` is a history variable: the goroutine that ended last
had run alone and had been able to read what it needed.

Left out: UDP, whose ports are other ports; the port of the console, which does not change;
other programs on the machine; the command line's write of the settings, which nothing
applies until a reload; the end of the process.

### Sessions

The store's mutex makes each method of `sessionStore` a step; nothing is held between two
of them. `Ask`, `Verify`, `Fail`, `Count`, `Create`, `Clear` are `handleLogin`
(`loginBlocked`, the accounts and the password, `recordLoginFailure`, `create`,
`recordLoginSuccess`); `Identify` and `Lookup` are `identifyAdminRequest` (the accounts are
taken, then the session is looked up); `Logout` is `handleLogout`; `Sweep` the sweeper;
`Reload` the accounts that `reload` stores. An account is its fingerprint: a reload may
change any of them and bring an old one back, as the rollback of a refused edit does. Times
are ages that saturate. History variables: whether what a request holds of the accounts is
still current (`fresh`), whether a session's account has changed since the login
(`shaken`), when a session was last used (`used`), and the failures recorded of a source
since it was locked out (`late`).

### Upgrade

`file` says what each name of a file stands for; `writing` which name a process has open
for writing, for a rename carries a writer along. A copy is two steps (truncated, then
whole), each rename one. `Upload` to `Check` is the upload, `Install` and `Rollback` begin
a replacement, `Copy` to `PutBack` are `swapBinary`; the same actions serve the daemon,
whose `busy` lets one handler work at a time, and the command, which knows nothing of
`busy`. `Restart` is `restartSoon`, `RestartService` what the command ends with, `Start`
systemd or an operator, `Boot` the clearing of leftovers and the reading of the
configuration, `Crash` ends either process anywhere. A version that does not know `-config-check` (not one of
`Checks`) has no `Problem`: its preflight is skipped, and it is installed without force,
whether it reads the configuration or not, as `configcheck.go:211-212` means it to be.
`raced` and `alone` are history: the
code does not promise anything of two processes that replace the binary at a time, and in
the model they can lose every copy of it.

### Gateway and Meter

A configuration is a constant: its routes, lists, limits, trusted proxies. `Match` is the
index by port, host and prefix; `ClientIP`, `RouteAllows`, `Authenticates` the decisions;
`Fill`, `Taken`, `Sweep` the token bucket. Rates and bursts are fractions in the code and
parts of a token here, `Unit` to a token; `NewLimiter` raises a burst below a token to one,
and `Reusable` compares what it made of it with what is configured, as `router.go:239` does.
No assumption bounds a rate or a burst. `Arrive` loads the table and the client's
address, `Route` redirects or finds the route and asks its lists, `CheckRateLimit` takes a
token, `Forward` and `Refuse` are the breaker (either answer) and the credentials. `Reload`
replaces the table, takes over the limiters whose rate and burst are the same and closes
those of routes that are gone; `ReloadRefused` fails after it has closed them, and leaves
the table. A limiter that no table has any more keeps serving the requests that hold it.

`Meter` is what a rate limit does, without buckets, lazy refills or tables: a debt per route
and key that a request adds a token to and time takes the rate from, and that never exceeds
the burst, or a token (`Room`). A debt is forgiven in two ways and no other. A key that has
been quiet for longer than `Idle` may be forgotten with what it still owes, which is no more
than what its burst exceeds the rate's work in that time by (`Excess`, nothing for most
limits). And a reload forgives all debts of a route unless it keeps the limit (`Kept`): the
rate is the same, and so is the burst, if it is a token at least. The refinement mapping
takes for a debt what the live limiter's bucket, refilled to now, lacks of its burst, and for
the quiet the age of the bucket (`Rests`). `GatewayProofs` counts on top of it: `passed`,
`elapsed` and `swept` are what a key has got, how long it took and how often its bucket was
swept since a moment that `PeriodSpec` may choose freely, and that every reload which does
not keep the limit chooses anew.

### Observe

`Add` is the ring with its broadcast; `Forward`, `Answer`, `ObserveDuration`, `IncRequest`,
`LogAccess` are the calls of one request, each with its own lock, and `Abort` the panic of
the reverse proxy that skips all but the last; `Sample` takes a point of the curve. `Begin`
and `Subscribe` are `handleEvents` (the header is flushed before the subscription),
`HandleLogs` the reading of the history, at any time before, in or after these,
`LoadHistory` the arrival of the answer, which replaces what the page shows, `Deliver` the
stream, `Cancel` its end. That a page keeps only its last entries and may be paused is left
out. History variables: from which entry on a page follows the log and up to which it has
read it (`from`, `upto`), what its answer replaced (`cut`), the totals at every point that was taken (`marks`), what the pages that have gone had lacked (`lacked`), and how many
requests were sent on, broke off or are counted nowhere.

## 4. Runs

| Run | Instance | Checks |
|---|---|---|
| `breaker` | 2 handlers, 2 probes, 2 s cooling and window, opens at 1 failure of 2 | `TypeOK`, `NeverOverCooled`, `ProbesBounded`, `OpenEndsWithTraffic` |
| `breaker_stuck` | the same; fair | finds `HalfOpenResolves` false |
| `banlist` | 2 addresses (symmetric), list of 1, queue of 1, failing transactions, clock to 3 | `SnapshotExact`, `UnsavedIsCovered`, `RowsBounded`, `RefusesAsGiven` |
| `ban_sync` | 1 address, queue of 1, failing transactions, clock to 2; fair | `ExternalUnbanConverges`, `BanGetsWritten` |
| `configtx` | 2 editors and a reloader, 1 route of 3 kinds, history of 2, imports only between writes; fair | `LiveMatchesStore`, `ServesInOrder`, `NoSilentOverwrite`, `ReplacedIsKept`, `WritesEnd` |
| `config_import` | the same, imports at any time | finds `NoSilentOverwrite` false |
| `ports` | 1 port, 2 reloads and 1 setting at a time, nothing, plain or TLS; fair | `SocketsOwned`, `NoWrongServer`, `TrapsFollow`, `RemovedPortCloses` |
| `ports_route` | 1 port, 1 reload, 1 setting, no TLS | finds `RoutesServed` false |
| `sessions` | 2 requests, 1 address, the token alone with 1 fingerprint (or none), 2 handles of which 1 is kept, idle 2, absolute 3, touch 1, lock-outs of 2 and 1; fair | `StoreBounded`, `LateGuessesBounded`, `TouchLag`, `NoOldPassword`, `KeptUnlessCause`, `LockOutLasts`, `SessionsEnd`, `LockOutEnds` |
| `upgrade` | 3 versions (1 reads the configuration, 1 says that it does not, 1 cannot be asked), 1 file that does not run, 1 upload, 1 command, 1 crash; fair | `SurvivingCopy`, `ExeSound`, `BackupIsRunning`, `VerifiedIsPlaced`, `TakesEffect` |
| `gateway` | 2 requests (symmetric), 4 configurations of 2 routes, 2 clients and a proxy; thirds of a token, a limit whose burst is more than the rate makes good until a sweep, one whose burst is less than a token; buckets swept after 1; two requests that are under way are not alike, and there is one after a refused reload | `TypeOK`, `OneTable`, `SweptUnlessRefused`, `ImplementsMeter` |
| `observe` | 2 requests, 2 pages (symmetric), a ring of 2, channels of 1, 3 entries, a curve of 2 with 3 points; pages only before the first point and the first error | `FeedsAccounted`, `HistoryMeetsStream`, `CountsAddUp` |

Why the bounds are enough to be interesting. Two handlers are the fewest for which a
straggler meets a probe, two requests race for the CAS, and a store is late; two seconds of
cooling and window let a bucket be young, old and gone. `MaxCalls` bounds the calls the
window counts. A list of one entry with two addresses trims at every second ban, and a
queue of one overflows at the first trim; three values of the clock are enough for a ban to
expire, to be hit while it is in force and again when it is over, and to become stale. In
`ban_sync` one address and a queue of one make every second change a rewrite, so that a hit
between its copy and its mark is marked too early, is dropped by the reading back, and must
be written all the same. One route of three kinds gives four
configurations: enough for an edit that validates and does not start, and for a rollback;
in a history of two, a third version pushes one out, and a version that comes back may be
there already, as the next to go. Ports only meet in the order
in which one goroutine visits them, so one port, with all who may want it, has the cases; two
reloads are the fewest of which one waits for the other and loads a configuration that the
first has not seen. In `sessions` no account and a fingerprint of 1 are enough for a password
to change and come back, and a store of one is full at the first login; the limit of an
address is one failure, that of all is two. In `upgrade` the console's upload overwrites what is staged while a command's replacement is
under way, installs and rollbacks follow one another without bound, and the crash falls
anywhere; a second upload only repeats this with another file. In `gateway` the four configurations differ in lists, trusted proxies, limits,
routes and passwords, so that a request checked by two of them would be seen; two slots of
a route hold a limiter in use and one that a request still has. A
third of a token per unit of time makes the smaller limit one that every reload forgives; a
burst of two tokens at four thirds per unit leaves something to gain by a sweep. The
constraint `Apart` keeps two requests from being alike: what they take of a limiter is one
step each, and one that is stopped meets any number of others that are not. In `observe` a ring of two
forgets the first of three entries and a channel of one drops the second; pages and points
share nothing but the requests, and the constraint `Apart` keeps them from multiplying; one page at a time asks for the
history, which changes nothing for the other.
The theorems below hold without these bounds.

What the violated runs show (each is a finding):

- `breaker_stuck`: probe slots are never given back. After `HalfOpenCalls` probes that end
  in 401, or whose clients go away, the route answers 503 for ever.
- `config_import`: an import between the read and the save of `mutate` is overwritten.
- `ports_route`: a route put on a trap's port is not served. The listen comes first and finds
  the port taken; the trap is closed afterwards.

Other disagreements between code and text that the models contain, and that no run is spent
on (the hazards have their lines):

- `HalfOpenCalls` is not "the number of probes let through in half-open"
  (`circuitbreaker.go:36`): one more gets through even when requests come one after another,
  and as many more for each request that races for the CAS or resets the slots late.
- After a rewrite `markPersisted` marks every entry of the list as written, also one given
  since the rewrite copied it, although its comment says that only entries which have not
  changed are marked (`banlist.go:768-771`, `banlist.go:779`). The `resync` that follows in
  the same loop then takes the entry for one removed outside: a ban given in these moments is
  out of force until its row, which is still queued, has been written and read back. If the
  queue overflows before that, with changes of other addresses, the ban is lost.
- `Close` does not wait for the last flush, although `Run` counts on it.
- Rows that `resync` read before taking the lock make it drop a ban that a console request
  saved meanwhile; the next `resync` takes it in again.
- A port that turns from plain HTTP to TLS, or back, is not served if the goroutine that
  shuts the old server down has not closed its socket yet. A TLS port that stays open keeps
  the certificates it was opened with.
- Between the two renames of `swapBinary` the path is empty; a crash there leaves it so.
- A change of a limit's scope alone is ignored: the limiter that is taken over goes on
  counting by the old scope.
- A limit whose burst comes to less than a token, say 0.2 requests a second without a burst,
  is forgiven at every reload: `NewIPLimiter` raises the burst, and `router.go:239` compares
  the raised one with the configured one, against `router.go:174`.
- A burst of more than 600 times the rate gains by the sweep: a key that has used it up and
  stays away for ten minutes finds it full (`ratelimit.go:92`), which the rate would not have
  made good. No validation excludes it.
- A limiter that a reload replaces is not closed, and its goroutine stays for ever:
  `main.go:304` closes only those whose route is gone.
- `stats.go:125` says that a page drops by `seq` what it has from both history and stream. It
  does not (`LogsPage.tsx:129-137`): what is logged between the subscription and the reading
  of the history is shown twice if its delivery comes after the answer
  (Subscribe, LogAccess, HandleLogs, LoadHistory, Deliver).
- `LogsPage.tsx:126` says that reading the history first leaves no gap. It does: what is
  logged between the reading and the subscription is in neither (HandleLogs, LogAccess,
  Subscribe). Nor are the two requests ordered by anything, and an answer that comes late
  replaces what the stream has brought since the history was read (Subscribe, HandleLogs,
  LogAccess, Deliver, LoadHistory).
- A reverse proxy that panics leaves its request in the gauge of requests in progress.

## 5. Fairness

`CircuitBreaker`: the clock runs, a goroutine that can take its next atomic step takes it,
requests keep coming and backends answer; that a request *leaves* unrecorded is never
required. `BanList`: `persistLoop` and the handlers go on (weak fairness of their steps);
Go's `select` picks at random among ready cases, so that the ticker is not always
beaten by a wake, and the database can be read now and then (strong fairness of `LoopTick`
and `Read`); a process told to stop ends. `ConfigTx`: an editor's own steps and the inside
of `reload` go on (weak); a thread that waits for `mu` gets it (strong fairness of `Load`),
because Go's mutex hands itself to a waiter that has starved for a millisecond. `Ports`:
every goroutine goes on, the ones that shut a server down included. `Sessions`: the clock
runs and the sweeper's ticker fires; no request is obliged to go on. `Upgrade`: a restart
that was announced happens, and the system starts and stops what it was told to; a body may
never arrive, and nobody is obliged to install. `Gateway` and `Observe` state safety only.
Nobody is obliged to
edit, import, reload, crash or change a file.

## 6. Proofs

The proofs hold for all values of the constants that satisfy the modules' assumptions
(finite sets of handlers and addresses, positive limits, distinct names).

| Theorem | Statement | Inductive invariant |
|---|---|---|
| `BreakerTypes` | `Spec => []TypeOK` | `TypeOK` |
| `CoolingBounded` | `Spec => []NeverOverCooled` | `CoolingInv`: also, while the breaker is open, every store of `openedAt` still to come carries a time that is no younger than the last trip (`StoresInTime`) |
| `HalfOpenAdmitsFew` | `Spec => []ProbesBounded`, `HalfOpenCalls + 1` for each handler | `ProbeInv`: probes, free slots, `HalfOpenCalls` for each reset still to come, and losers of the CAS never exceed the budget |
| `BanTypes` | `Spec => []TypeOK` | `TypeOK` |
| `SnapshotAgrees` | `Spec => []SnapshotExact` | `SnapshotClose`: the snapshot's row is the list's row, or both are out of force and stay so |
| `NoBanFallsBetween` | `Spec => []UnsavedIsCovered` | with `TypeOK`, it is inductive |
| `ListIsBounded` | `Spec => []RowsBounded` | `Distinct`: every version of a row, in the list, the queue, a batch or the table, is from before now, and no two addresses share a time; then the entries `Evicted` leaves have distinct ranks below `MaxRows` (pigeonhole) |
| `BansAreAsGiven` | `Spec => RefusesAsGiven` | `Distinct`, and nothing is in memory while the process is down (`DownIsEmpty`); every critical section and every transaction is a step of `Bans`: a trap's hit is `Hit`, the console's request `Order`, and the others let time pass or lift and find again (`Review`) |
| `ConfigTypes` | `Spec => []TypeOK` | in parts: the store, the editors, the lock, what is live |
| `LiveAgrees` | `Spec => []LiveMatchesStore` | `LiveInv`: also in the middle of a reload what was read is what the database has, and at rest what is live is, unless an editor that has written since is still to reload |
| `WritesAreIncremental` | `QuietImports /\ Spec => NoSilentOverwrite` | `WriterInv`: until its save the writer has parsed what is stored, after it what is stored is what it saved |
| `ReplacedStays` | `Spec => ReplacedIsKept` | `TypeOK`; archiving keeps the newest, and the newest is what was replaced; what is archived again moves, so that nothing is there twice |
| `ReloadsServeInOrder` | `Spec => ServesInOrder` | `CopyInv`: `LiveInv`, and a configuration has been taken only while somebody holds `mu`; so each step of `reload` is a step of `Follower` for either copy, and a write changes the source alone |
| `PortTypes` | `Spec => []TypeOK` | `TypeOK` |
| `SocketsAreOwned` | `Spec => []SocketsOwned` | `SocketInv`: also, a socket that is opened and not yet stored is one goroutine's and no trap's (`OneHolder`), and a goroutine opens one port at a time, a reload only ports it has loaded (`TasksOK`) |
| `NoServerIsWrong` | `Spec => []NoWrongServer` | `ReloadInv`: one reload at a time; past its drop no server contradicts what it has loaded; unless another waits, it has loaded what the database has |
| `TrapsFollowSettings` | `Spec => []TrapsFollow` | `AloneInv`: a goroutine that has run alone knows the database, and every trap that is missing has failed or is still ahead |
| `SessionTypes` | `Spec => []TypeOK` | `TypeOK` |
| `OldPasswordsEnd` | `Spec => NoOldPassword` | `Steady`: a session that is not shaken is of its account as it is, and so is what a login or a lookup under way holds |
| `LogoutsHaveCause` | `Spec => KeptUnlessCause` | `Steady` |
| `TouchingCostsLittle` | `Spec => []TouchLag` | with `TypeOK`, it is inductive |
| `LockOutsLast` | `Spec => LockOutLasts` | `LockFits`: what is left of a lock-out and the age of the last failure add up to no more than its length, so that no sweep finds it old |
| `LateGuessesAreFew` | `Spec => []LateGuessesBounded` | `LateFits`: failures recorded since and requests that may still record one are together fewer than the requests |
| `GuessingIsSlow` | `TrialSpec(s) => []GuessesFew(s)`, if there are requests at all | `LockInv` (`LockFits`, `LateFits`, and failures below their limit) with `PaidFor`: each lock-out, past or under way, pays for `Limit + Requests - 1` failures; what was not locked out for is less than the limit or old enough to be forgotten |
| `SessionsBounded` | `Spec => []StoreBounded` | with `TypeOK`, it is inductive |
| `UpgradeTypes` | `Spec => []TypeOK` | `TypeOK` |
| `CopySurvives`, `ExeIsSound`, `BackupLeadsBack` | `Spec => []SurvivingCopy`, ... | `Parts`: who has which file open (`Writers`), which jobs there are (`Workers`), what a process that is alone has read is still so (`Lonely`), every copy is one that was verified (`Copies`), what the daemon runs is in place or backed up (`Untouched`, `Backup`), and while the name is empty another has the binary, also through the clearing of leftovers (`WayBack`) |
| `VerifiedThenPlaced` | `Spec => VerifiedIsPlaced` | `Lonely` of `Parts` |
| `GatewayTypes`, `LimitersAreSwept` | `Spec => []TypeOK`, `[]SweptUnlessRefused` | `IInv`, next row |
| `OneTableEach` | `Spec => []OneTable` | `IInv`: the live limiters are those the configuration asks for (`Current`), and what a request has passed, it has passed by the table of its arrival (`Rightful`); it uses the next two |
| `SourceIsClient` | `Source(x, trusted) = ClientIP(x, trusted)` | none: a fact about the operators |
| `IndexesFindTheBest` | `Match` finds a route that fits and none outranks, or none fits | none: a fact about the operators; lengths of prefixes are compared host by host |
| `LimitersImplementMeter` | `Spec => ImplementsMeter` | `IInv`; every step of the gateway is a step of `Meter` or leaves all debts as they are. A stale bucket lacks no more than `Excess` (`StaleOwesLittle`), a limiter that is taken over had a limit that is `Kept`, and one that is not had none (`ReloadKeeps`) |
| `RateIsKept` | `PeriodSpec(r, k) => []RateKept(r, k)`: `Unit * passed <= Room + rate * elapsed + Excess * swept` | with `IInv`, `Accounted`: what was let through is still owed, or the time since or a sweep has made it good |
| `HistoryIsWhole` | `Spec => []HistoryMeetsStream` | `HistoryInv`: the places before the head hold the last entries in order, whatever the size of the ring (`RingOK`), a page has a channel exactly while its stream is open, and its history ends with the newest entry there was when it was read (`VisitsOK`, `AnswersOK`); with `FeedsAccounted` |
| `FeedsAreAccounted` | `Spec => []FeedsAccounted` | `FeedInv`: also, all entries of a feed are newer than its page, in order; then an entry is missing from exactly the channels that were full when it came |
| `CountsAreExact` | `Spec => []CountsAddUp` | `CountInv`: also, the ring of the curve holds the differences of the last marks at their places (`SeriesOK`) |

`NeverOverCooled` alone is not inductive: an open breaker may have a late store pending, so
the age of every pending store has to be bounded too. `ProbesBounded` counts requests that
were admitted, and needs to know how many more can be: each request stopped between the CAS
and the reset of `halfUsed` still owes a full set of slots. `LiveMatchesStore` speaks of
rest, and every path to rest passes through states where memory and database differ; so do
`NoWrongServer` and `TrapsFollow`. `LateGuessesBounded` counts failures, and has to know how
many more are under way. `SurvivingCopy` needs to know that a backup is whole before the
binary moves, and that a start which clears what is parked finds another copy. `OneTable`
is about a request at its end, and every check before it must have been by the same table.

`RefusesAsGiven` is about every copy of a row, and so needs to know that no two versions of
it carry one time. `RateIsKept` is not inductive either: how much more may pass depends on
what the bucket still has, and `Accounted` ties the two together. `GuessesFew` says that all
those limits together bound what they are there for: in any period without a login that
succeeds, and counted from any moment, the passwords tried from an address, or by everybody,
are `Limit + Requests - 1` for each lock-out that fits in, and no interplay of races, sweeps
and late failures yields more.

Only model-checked: liveness (`OpenEndsWithTraffic`, `ExternalUnbanConverges`,
`BanGetsWritten`, `WritesEnd`, `RemovedPortCloses`, `SessionsEnd`, `LockOutEnds`,
`TakesEffect`), which is out of the prover's reach. `RateIsKept` and `GuessingIsSlow` are only
proved: their counters grow without bound. The type invariants of `BanList`, `ConfigTx`, `Ports`, `Sessions` and
`Upgrade` are proved, and no run spends its properties on them.

## 7. Not modelled

`PROJECT.json` lists every part with its status. Planned, not yet there: UDP traps and the
recording of probes, the end of the process, certificates by name and their renewal. Not
planned: ACME (the library's), what the reverse proxy does to headers and bodies, the
verification of tokens and hashes, the texts of `/metrics` and `/stats`, the location of
addresses, the browser program, the installer and the scripts, none of which the rest of the system's state depends on.
