------------------------------ MODULE ConfigTx ------------------------------
(***************************************************************************)
(* How the configuration changes: the transaction behind every write of    *)
(* the admin API (App.mutate), the reload it ends with (App.reload, also   *)
(* POST /_goproxy/reload and the start of the process), the database the   *)
(* configuration lives in with its history (configStore.write), and the    *)
(* command line, another process that imports a configuration into the     *)
(* same database.                                                          *)
(*                                                                         *)
(* mutate holds writeMu throughout; reload holds mu.  A transaction on the *)
(* database is one step; what mutate and reload do between two of them, or *)
(* between two stores a request can see, is one step.                      *)
(*                                                                         *)
(* Of a configuration only what makes it load or not is kept: how each     *)
(* route gets its certificate.  A manual route needs its files, which      *)
(* validate() and newTLSManager both read; an auto route needs the cache   *)
(* directory, which only newTLSManager tries.  Both live outside the       *)
(* database and come and go.  guardSelfLockout and the rules of validate() *)
(* that look at the configuration alone only refuse an edit: left out.     *)
(***************************************************************************)
EXTENDS Integers, Sequences

CONSTANTS
  Editors,      \* requests to the admin API that write, one at a time each
  Reloader,     \* the handler of POST /_goproxy/reload
  Nobody,
  Ids,          \* names of routes
  HistoryKeep,  \* 20
  QuietImports  \* TRUE: the operator imports only while no write is under way

ASSUME ConfigAssumption ==
  /\ Ids # {} /\ Reloader \notin Editors /\ Nobody \notin Editors \cup {Reloader}
  /\ HistoryKeep \in Nat \ {0} /\ QuietImports \in BOOLEAN

VARIABLES
  db, history,   \* the tables of the configuration, and config_history
  up,            \* the process runs
  writeMu, mu,   \* who holds the lock
  pc,            \* where each editor is in mutate
  ifMatch,       \* the configuration its If-Match names, NoConfig without one
  raw, next,     \* the configuration it parsed, and what it made of it
  cfg, swapped,  \* reload: the configuration it read; it has stored a.table
  table, tls,    \* the configuration behind a.table (with the accounts and the
                 \* access log), and behind a.tlsmgr and a.tlsCfg (redirects,
                 \* challenges); what each port serves is Ports'
  certs, cache,  \* the certificate files are readable; the cache dir can be made
  drifted        \* history variable: since a reload last read the database, it was
                 \* imported into, or a caller was told that it could not be loaded

store == <<db, history>>
editors == <<pc, ifMatch, raw, next>>
reloading == <<mu, cfg, swapped>>
live == <<table, tls>>
outside == <<certs, cache>>
vars == <<store, up, writeMu, editors, reloading, live, outside, drifted>>

Absent == "absent"
Kinds == {"off", "manual", "auto"}
Config == [Ids -> Kinds \cup {Absent}]
NoConfig == [i \in {} |-> Absent]
Threads == Editors \cup {Reloader}

Uses(c, kind) == \E i \in Ids : c[i] = kind

(* validateTLS, as parse, load and import run it. *)
Validates(c) == Uses(c, "manual") => certs

(* newTLSManager. *)
Starts(c) == Validates(c) /\ (Uses(c, "auto") => cache)

(* archiveRawTx: what is replaced, unless the history has it; the newest   *)
(* stay.  The code goes by created_at and then rowid (configstore.go:990), *)
(* the model by insertion: the same unless the machine's clock goes back.  *)
Newest(s) == IF Len(s) > HistoryKeep THEN Tail(s) ELSE s
Archived(before) ==
  IF \E k \in 1 .. Len(history) : history[k] = before
    THEN history ELSE Newest(Append(history, before))

(* As if what is written were archived, not what it replaces. *)
WriteArchivesNew(c) ==
  /\ db' = c
  /\ history' = IF c = db THEN history ELSE Archived(c)

(* configStore.write, in one transaction. *)
Write(c) ==
  /\ db' = c
  /\ history' = IF c = db THEN history ELSE Archived(db)

Finished(e) ==
  /\ pc' = [pc EXCEPT ![e] = "idle"]
  /\ ifMatch' = [ifMatch EXCEPT ![e] = NoConfig]
  /\ raw' = [raw EXCEPT ![e] = NoConfig]
  /\ next' = [next EXCEPT ![e] = NoConfig]
  /\ writeMu' = Nobody

-----------------------------------------------------------------------------
(* The handlers of routes: one is created, replaced or patched, or deleted *)
(* if it is there.                                                         *)
Edits(c) ==
  {[c EXCEPT ![i] = k] : i \in Ids, k \in Kinds}
    \cup {[c EXCEPT ![i] = Absent] : i \in {j \in Ids : c[j] # Absent}}

(* As if the lock were taken after the database is read. *)
ParseUnlocked(e) ==
  /\ up /\ pc[e] = "idle"
  /\ \E i \in Ids, k \in Kinds \cup {Absent} :
       /\ Validates([db EXCEPT ![i] = k])
       /\ next' = [next EXCEPT ![e] = [db EXCEPT ![i] = k]]
  /\ raw' = [raw EXCEPT ![e] = db]
  /\ pc' = [pc EXCEPT ![e] = "parsed"]
  /\ writeMu' = e
  /\ UNCHANGED <<store, up, ifMatch, reloading, live, outside, drifted>>

(* mutate: lock, parse, compare the ETag, edit, validate.  A request that is *)
(* refused here has changed nothing.                                         *)
Parse(e) ==
  /\ up /\ pc[e] = "idle" /\ writeMu = Nobody
  /\ \E tag \in {NoConfig} \cup Config, edited \in Edits(db) :
       /\ tag \in {NoConfig, db}
       /\ Validates(edited)
       /\ next' = [next EXCEPT ![e] = edited]
       /\ ifMatch' = [ifMatch EXCEPT ![e] = tag]
  /\ raw' = [raw EXCEPT ![e] = db]
  /\ pc' = [pc EXCEPT ![e] = "parsed"]
  /\ writeMu' = e
  /\ UNCHANGED <<store, up, reloading, live, outside, drifted>>

Save(e) ==
  /\ pc[e] = "parsed"
  /\ Write(next[e])
  /\ pc' = [pc EXCEPT ![e] = "saved"]
  /\ UNCHANGED <<up, writeMu, ifMatch, raw, next, reloading, live, outside, drifted>>

SaveFails(e) ==
  /\ pc[e] = "parsed"
  /\ Finished(e)
  /\ UNCHANGED <<store, up, reloading, live, outside, drifted>>

(* As if the rollback left the running process alone. *)
RestoreQuietly(e) ==
  /\ pc[e] = "refused" /\ Validates(raw[e])
  /\ Write(raw[e])
  /\ Finished(e)
  /\ UNCHANGED <<up, reloading, live, outside, drifted>>

(* restoreConfig, which validates what it restores. *)
Restore(e) ==
  /\ pc[e] = "refused" /\ Validates(raw[e])
  /\ Write(raw[e])
  /\ pc' = [pc EXCEPT ![e] = "restored"]
  /\ UNCHANGED <<up, writeMu, ifMatch, raw, next, reloading, live, outside, drifted>>

RestoreFails(e) ==
  /\ pc[e] = "refused"
  /\ Finished(e)
  /\ drifted' = TRUE
  /\ UNCHANGED <<store, up, reloading, live, outside>>

-----------------------------------------------------------------------------
(* reload.  Returned is what its caller does next: mutate answers, or goes   *)
(* on to the rollback when the reload after Save has failed.                 *)
Returned(t, ok) ==
  IF t \in Editors /\ pc[t] = "saved" /\ ~ok
    THEN /\ pc' = [pc EXCEPT ![t] = "refused"]
         /\ UNCHANGED <<writeMu, ifMatch, raw, next, drifted>>
    ELSE /\ IF t \in Editors THEN Finished(t) ELSE UNCHANGED <<writeMu, editors>>
         /\ drifted' = (drifted \/ ~ok)

Calls(t) == up /\ (t \in Editors => pc[t] \in {"saved", "restored"})

(* As if reload took writeMu too. *)
LoadTakesBoth(t) ==
  /\ Calls(t) /\ mu = Nobody /\ writeMu = Nobody /\ Validates(db)
  /\ mu' = t
  /\ cfg' = db
  /\ drifted' = FALSE
  /\ UNCHANGED <<store, up, writeMu, editors, swapped, live, outside>>

Load(t) ==
  /\ Calls(t) /\ mu = Nobody /\ Validates(db)
  /\ mu' = t
  /\ cfg' = db
  /\ drifted' = FALSE
  /\ UNCHANGED <<store, up, writeMu, editors, swapped, live, outside>>

LoadFails(t) ==
  /\ Calls(t) /\ mu = Nobody /\ ~Validates(db)
  /\ Returned(t, FALSE)
  /\ UNCHANGED <<store, up, reloading, live, outside>>

(* As if reload were handed the configuration that mutate has made. *)
SwapMade(t) ==
  /\ mu = t /\ ~swapped
  /\ table' = IF t \in Editors THEN next[t] ELSE cfg
  /\ swapped' = TRUE
  /\ UNCHANGED <<store, up, writeMu, editors, mu, cfg, tls, outside, drifted>>

Swap(t) ==
  /\ mu = t /\ ~swapped
  /\ table' = cfg
  /\ swapped' = TRUE
  /\ UNCHANGED <<store, up, writeMu, editors, mu, cfg, tls, outside, drifted>>

Leave == mu' = Nobody /\ cfg' = NoConfig /\ swapped' = FALSE

Apply(t) ==
  /\ mu = t /\ swapped /\ Starts(cfg)
  /\ tls' = cfg
  /\ Leave
  /\ Returned(t, TRUE)
  /\ UNCHANGED <<store, up, table, outside>>

ApplyFails(t) ==
  /\ mu = t /\ swapped /\ ~Starts(cfg)
  /\ Leave
  /\ Returned(t, FALSE)
  /\ UNCHANGED <<store, up, live, outside>>

-----------------------------------------------------------------------------
(* importJSON from the command line, another process with the same database. *)
Import ==
  /\ QuietImports => writeMu = Nobody
  /\ \E c \in Config \ {db} : Validates(c) /\ Write(c)
  /\ drifted' = TRUE
  /\ UNCHANGED <<up, writeMu, editors, reloading, live, outside>>

CertsChange ==
  /\ certs' = ~certs
  /\ UNCHANGED <<store, up, writeMu, editors, reloading, live, cache, drifted>>

CacheChanges ==
  /\ cache' = ~cache
  /\ UNCHANGED <<store, up, writeMu, editors, reloading, live, certs, drifted>>

Crash ==
  /\ up /\ up' = FALSE
  /\ writeMu' = Nobody /\ Leave
  /\ pc' = [e \in Editors |-> "idle"]
  /\ ifMatch' = [e \in Editors |-> NoConfig]
  /\ raw' = [e \in Editors |-> NoConfig]
  /\ next' = [e \in Editors |-> NoConfig]
  /\ table' = NoConfig /\ tls' = NoConfig
  /\ drifted' = TRUE
  /\ UNCHANGED <<store, outside>>

(* Run: no request is served before its reload is over; when it fails the    *)
(* process exits.                                                            *)
Boot ==
  /\ ~up /\ Starts(db)
  /\ up' = TRUE
  /\ table' = db /\ tls' = db
  /\ drifted' = FALSE
  /\ UNCHANGED <<store, writeMu, editors, reloading, outside>>

Init ==
  /\ db \in {c \in Config : \A i \in Ids : c[i] \in {"off", Absent}}
  /\ history = <<>>
  /\ up = TRUE
  /\ writeMu = Nobody /\ mu = Nobody
  /\ pc = [e \in Editors |-> "idle"]
  /\ ifMatch = [e \in Editors |-> NoConfig]
  /\ raw = [e \in Editors |-> NoConfig]
  /\ next = [e \in Editors |-> NoConfig]
  /\ cfg = NoConfig /\ swapped = FALSE
  /\ table = db /\ tls = db
  /\ certs = TRUE /\ cache = TRUE
  /\ drifted = FALSE

Mutate(e) == Parse(e) \/ Save(e) \/ SaveFails(e) \/ Restore(e) \/ RestoreFails(e)
Reload(t) == Load(t) \/ LoadFails(t) \/ Swap(t) \/ Apply(t) \/ ApplyFails(t)

Next ==
  \/ \E e \in Editors : Mutate(e)
  \/ \E t \in Threads : Reload(t)
  \/ Import \/ CertsChange \/ CacheChanges \/ Crash \/ Boot

Spec == Init /\ [][Next]_vars

(* A thread goes on.  Go's mutexes hand themselves to whoever has waited for *)
(* long, so that a thread which can take mu again and again takes it.        *)
FairSpec ==
  /\ Spec
  /\ \A e \in Editors : WF_vars(Save(e) \/ SaveFails(e) \/ Restore(e) \/ RestoreFails(e))
  /\ \A e \in Editors : SF_vars(Load(e) \/ LoadFails(e))
  /\ \A t \in Threads : WF_vars(Swap(t) \/ Apply(t) \/ ApplyFails(t))
-----------------------------------------------------------------------------
(* Every variable holds a value of its kind; who is in mutate holds writeMu, *)
(* and so the reads and writes of one mutate are never mixed with another's. *)
TypeOK ==
  /\ db \in Config
  /\ history \in Seq(Config) /\ Len(history) <= HistoryKeep
  /\ up \in BOOLEAN /\ certs \in BOOLEAN /\ cache \in BOOLEAN /\ drifted \in BOOLEAN
  /\ writeMu \in Editors \cup {Nobody} /\ mu \in Threads \cup {Nobody}
  /\ pc \in [Editors -> {"idle", "parsed", "saved", "refused", "restored"}]
  /\ ifMatch \in [Editors -> Config \cup {NoConfig}]
  /\ raw \in [Editors -> Config \cup {NoConfig}]
  /\ next \in [Editors -> Config \cup {NoConfig}]
  /\ \A e \in Editors :
       /\ pc[e] # "idle" <=> writeMu = e
       /\ pc[e] # "idle" => raw[e] \in Config /\ next[e] \in Config
  /\ cfg \in Config \cup {NoConfig} /\ swapped \in BOOLEAN
  /\ mu # Nobody => cfg \in Config
  /\ table \in Config \cup {NoConfig} /\ tls \in Config \cup {NoConfig}

(* Requests are routed, and certificates managed, by a configuration the     *)
(* database had in full, and by a later one only later: two reloads at a     *)
(* time, of a write and of POST /reload, never leave the older of the two    *)
(* configurations they read in place (App.reload, main.go:273).              *)
Routed == INSTANCE Follower WITH
  Values <- Config, None <- NoConfig, source <- db, copy <- table,
  taken <- IF swapped THEN NoConfig ELSE cfg
Secured == INSTANCE Follower WITH
  Values <- Config, None <- NoConfig, source <- db, copy <- tls, taken <- cfg
ServesInOrder == Routed!Spec /\ Secured!Spec

(* When no write and no reload is under way, requests are routed, and the   *)
(* certificates managed, by the configuration in the database, unless it    *)
(* was imported, or a failed reload or rollback was reported, since:        *)
(* whichever way a write ended, and whatever reloads ran beside it.         *)
LiveMatchesStore ==
  up /\ writeMu = Nobody /\ mu = Nobody /\ ~drifted => table = db /\ tls = db

(* Every write of mutate replaces the configuration its writer thinks is    *)
(* there: a save what was parsed, and what If-Match named; a rollback what  *)
(* was saved.                                                               *)
NoSilentOverwrite ==
  [][\A e \in Editors :
       /\ Save(e) => db = raw[e] /\ ifMatch[e] \in {NoConfig, db}
       /\ Restore(e) => db = next[e]]_vars

(* When a configuration is replaced, by a save, a rollback or an import, the *)
(* history has it: the version before any write can be gone back to, however *)
(* little the history keeps and whatever it had before.  And the history has *)
(* no version twice, so that none pushes another out in vain (archiveRawTx,  *)
(* configstore.go:966).                                                      *)
ReplacedIsKept ==
  [][/\ db' # db => \E k \in 1 .. Len(history') : history'[k] = db
     /\ Len(history') <= HistoryKeep
     /\ \A k, l \in 1 .. Len(history') : history'[k] = history'[l] => k = l]_vars

(* A write that has begun gives writeMu back, however its save, its reload  *)
(* and its rollback end.                                                    *)
WritesEnd == \A e \in Editors : (writeMu = e) ~> (writeMu # e)
=============================================================================
