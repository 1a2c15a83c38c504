------------------------------- MODULE Ports -------------------------------
(***************************************************************************)
(* Who listens on which TCP port: the servers of the routes                *)
(* (listener.go, Sync) and the traps of the honeypot (honeypot.go, Sync),  *)
(* brought in line with the database by App.reload, one at a time under    *)
(* its lock mu, and by the console's handler that writes the honeypot's    *)
(* settings (banapi.go), which does not take that lock.                    *)
(*                                                                         *)
(* ListenerManager.Sync holds its own lock and nobody else opens or drops  *)
(* a server; but each net.Listen is a step, because a server it dropped    *)
(* closes its socket in a goroutine of its own, and traps come and go.     *)
(* honeypot.Sync takes its lock to drop, to look a port up, to store a     *)
(* socket and to store a trap; net.Listen comes in between.                *)
(*                                                                         *)
(* A port's setting is what the configuration wants on it: nothing, plain  *)
(* HTTP, or TLS with the certificates of its routes.  A reload that fails  *)
(* before it gets to the ports is ConfigTx's.  Traps on UDP, which has its *)
(* own ports, work in the same way and are left out, as are the port of    *)
(* the console, which never changes, and other programs.                   *)
(***************************************************************************)
EXTENDS FiniteSets

CONSTANTS
  PortNumbers,
  Certs,     \* what the certificates of a port's routes may be
  Reloaders, \* requests, and imports, that end with a reload
  Setters    \* the console's requests that write the honeypot's settings

ASSUME PortsAssumption ==
  /\ IsFiniteSet(PortNumbers) /\ Reloaders \cap Setters = {}
  /\ {"none", "plain"} \cap Certs = {}

VARIABLES
  conf,      \* the database: what the configuration wants on each port
  wanted,    \* the database: the ports of the honeypot, none when it is off
  bound,     \* the operating system: whose listening socket the port has
  servers,   \* m.servers: the setting each server was started with
  lns,       \* h.lns: the ports with a trap's socket
  traps,     \* h.traps: the trap last stored, "failed" with a bindErr
  task,      \* per goroutine: where it is, what it has read, what it has to do
  settled    \* history: the goroutine that ended last had run alone, and had
             \* read the configuration

vars == <<conf, wanted, bound, servers, lns, traps, task, settled>>
database == <<conf, wanted>>
honeypot == <<lns, traps>>

Threads == Reloaders \cup Setters
Settings == {"none", "plain"} \cup Certs
Config == [PortNumbers -> Settings]
NoConfig == [p \in PortNumbers |-> "none"]

TLS(setting) == setting \in Certs
Routed(c) == {p \in PortNumbers : c[p] # "none"}   \* allListenPorts

Labels == {"idle", "load", "drop", "listen", "base", "sync", "open", "bind",
           "conn", "trap", "failed"}
Task == [at : Labels, conf : Config, ports : SUBSET PortNumbers,
         todo : SUBSET PortNumbers, now : SUBSET PortNumbers, alone : BOOLEAN]
Idle == [at |-> "idle", conf |-> NoConfig, ports |-> {}, todo |-> {}, now |-> {}, alone |-> FALSE]

At(t, label) == task[t].at = label
Goto(t, label) == task' = [task EXCEPT ![t].at = label]

Opened(t) == task' = [task EXCEPT ![t].at = "open", ![t].now = {}]
Finish(t) == /\ task' = [task EXCEPT ![t] = Idle]
             /\ settled' = task[t].alone

\* A goroutine begins: from here on the others do not run alone.
Begin(t, first) ==
  /\ At(t, "idle")
  /\ task' = [u \in Threads |->
                IF u = t THEN [first EXCEPT !.alone = \A v \in Threads : At(v, "idle")]
                         ELSE [task[u] EXCEPT !.alone = FALSE]]

Init ==
  /\ conf = NoConfig /\ wanted = {}
  /\ bound = [p \in PortNumbers |-> "free"]
  /\ servers = NoConfig
  /\ lns = {} /\ traps = [p \in PortNumbers |-> "none"]
  /\ task = [t \in Threads |-> Idle] /\ settled = TRUE

-----------------------------------------------------------------------------
(* reload *)

\* mutate saves and calls reload; POST /_goproxy/reload only calls it, or
\* after an import.
Save(t, c) ==
  /\ Begin(t, [Idle EXCEPT !.at = "load"])
  /\ conf' = c
  /\ UNCHANGED <<wanted, bound, servers, honeypot, settled>>

\* Under mu, from here on.
Load(t) ==
  /\ At(t, "load") /\ \A u \in Reloaders : task[u].at \in {"idle", "load"}
  /\ task' = [task EXCEPT ![t].at = "drop", ![t].conf = conf]
  /\ UNCHANGED <<database, bound, servers, honeypot, settled>>

\* Mutant: a server is kept whenever its port is still wanted.
DropByNumber(t) ==
  LET c == task[t].conf
      out == {p \in PortNumbers : servers[p] # "none" /\ c[p] = "none"} IN
    /\ At(t, "drop")
    /\ servers' = [p \in PortNumbers |-> IF p \in out THEN "none" ELSE servers[p]]
    /\ bound' = [p \in PortNumbers |-> IF p \in out THEN "dying" ELSE bound[p]]
    /\ task' = [task EXCEPT ![t].at = "listen",
                            ![t].todo = {p \in Routed(c) : servers'[p] = "none"}]
    /\ UNCHANGED <<database, honeypot, settled>>

\* Mutant: a server dropped from the map goes on listening.
DropUnclosed(t) ==
  LET c == task[t].conf
      out == {p \in PortNumbers : servers[p] # "none" /\ (c[p] = "none" \/ TLS(c[p]) # TLS(servers[p]))} IN
    /\ At(t, "drop")
    /\ servers' = [p \in PortNumbers |-> IF p \in out THEN "none" ELSE servers[p]]
    /\ task' = [task EXCEPT ![t].at = "listen",
                            ![t].todo = {p \in Routed(c) : servers'[p] = "none"}]
    /\ UNCHANGED <<database, bound, honeypot, settled>>

\* Sync: servers whose port is not wanted, or not in this way, leave the map,
\* and a goroutine is to shut each of them down.
Drop(t) ==
  LET c == task[t].conf
      out == {p \in PortNumbers : servers[p] # "none" /\ (c[p] = "none" \/ TLS(c[p]) # TLS(servers[p]))} IN
    /\ At(t, "drop")
    /\ servers' = [p \in PortNumbers |-> IF p \in out THEN "none" ELSE servers[p]]
    /\ bound' = [p \in PortNumbers |-> IF p \in out THEN "dying" ELSE bound[p]]
    /\ task' = [task EXCEPT ![t].at = "listen",
                            ![t].todo = {p \in Routed(c) : servers'[p] = "none"}]
    /\ UNCHANGED <<database, honeypot, settled>>

\* Shutdown, as far as the listening socket goes.
Die(p) ==
  /\ bound[p] = "dying" /\ bound' = [bound EXCEPT ![p] = "free"]
  /\ UNCHANGED <<database, servers, honeypot, task, settled>>

\* net.Listen and Serve; a port that is taken is logged and left.
Listen(t, p) ==
  /\ At(t, "listen") /\ p \in task[t].todo
  /\ task' = [task EXCEPT ![t].todo = @ \ {p}]
  /\ IF bound[p] = "free"
     THEN /\ bound' = [bound EXCEPT ![p] = "server"]
          /\ servers' = [servers EXCEPT ![p] = task[t].conf[p]]
     ELSE UNCHANGED <<bound, servers>>
  /\ UNCHANGED <<database, honeypot, settled>>

\* readHoneypot; reload leaves the traps as they are when it fails.
ReadTrapsFails(t) ==
  /\ At(t, "listen") /\ task[t].todo = {}
  /\ task' = [task EXCEPT ![t] = Idle] /\ settled' = FALSE
  /\ UNCHANGED <<database, bound, servers, honeypot>>

ReadTraps(t) ==
  /\ At(t, "listen") /\ task[t].todo = {}
  /\ task' = [task EXCEPT ![t].at = "sync", ![t].ports = wanted]
  /\ UNCHANGED <<database, bound, servers, honeypot, settled>>

-----------------------------------------------------------------------------
(* handleHoneypotUpdate *)

\* writeHoneypot
Set(t, S) ==
  /\ Begin(t, [Idle EXCEPT !.at = "base", !.ports = S])
  /\ wanted' = S
  /\ UNCHANGED <<conf, bound, servers, honeypot, settled>>

LoadBase(t) ==
  /\ At(t, "base")
  /\ task' = [task EXCEPT ![t].at = "sync", ![t].conf = conf]
  /\ UNCHANGED <<database, bound, servers, honeypot, settled>>

\* Its error is ignored: no port counts as taken then.
LoadBaseFails(t) ==
  /\ At(t, "base")
  /\ task' = [task EXCEPT ![t].at = "sync", ![t].conf = NoConfig, ![t].alone = FALSE]
  /\ UNCHANGED <<database, bound, servers, honeypot, settled>>

-----------------------------------------------------------------------------
(* applyHoneypot: the honeypot's Sync, with the configuration's ports taken *)

\* Mutant: the routes' ports are not excluded.
SyncAll(t) ==
  LET desired == task[t].ports  out == lns \ desired IN
    /\ At(t, "sync")
    /\ lns' = lns \ out
    /\ traps' = [p \in PortNumbers |-> IF p \in out THEN "none" ELSE traps[p]]
    /\ bound' = [p \in PortNumbers |-> IF p \in out THEN "free" ELSE bound[p]]
    /\ task' = [task EXCEPT ![t].at = "open", ![t].todo = desired]
    /\ UNCHANGED <<database, servers, settled>>

\* Mutant: a trap dropped from the map goes on listening.
SyncUnclosed(t) ==
  LET desired == task[t].ports \ Routed(task[t].conf)  out == lns \ desired IN
    /\ At(t, "sync")
    /\ lns' = lns \ out
    /\ traps' = [p \in PortNumbers |-> IF p \in out THEN "none" ELSE traps[p]]
    /\ task' = [task EXCEPT ![t].at = "open", ![t].todo = desired]
    /\ UNCHANGED <<database, bound, servers, settled>>

\* What is not desired is closed; the trap of a failed bind stays stored.
Sync(t) ==
  LET desired == task[t].ports \ Routed(task[t].conf)  out == lns \ desired IN
    /\ At(t, "sync")
    /\ lns' = lns \ out
    /\ traps' = [p \in PortNumbers |-> IF p \in out THEN "none" ELSE traps[p]]
    /\ bound' = [p \in PortNumbers |-> IF p \in out THEN "free" ELSE bound[p]]
    /\ task' = [task EXCEPT ![t].at = "open", ![t].todo = desired]
    /\ UNCHANGED <<database, servers, settled>>

Open(t, p) ==
  /\ At(t, "open") /\ p \in task[t].todo
  /\ task' = [task EXCEPT ![t].todo = @ \ {p},
                ![t].at = IF p \in lns THEN "open" ELSE "bind",
                ![t].now = IF p \in lns THEN {} ELSE {p}]
  /\ UNCHANGED <<database, bound, servers, honeypot, settled>>

Bind(t, p) ==
  /\ At(t, "bind") /\ p \in task[t].now
  /\ IF bound[p] = "free" THEN bound' = [bound EXCEPT ![p] = "trap"] /\ Goto(t, "conn")
                          ELSE UNCHANGED bound /\ Goto(t, "failed")
  /\ UNCHANGED <<database, servers, honeypot, settled>>

SetConn(t, p) ==
  /\ At(t, "conn") /\ p \in task[t].now /\ Goto(t, "trap")
  /\ lns' = lns \cup {p}
  /\ UNCHANGED <<database, bound, servers, traps, settled>>

SetTrap(t, p) ==
  /\ At(t, "trap") /\ p \in task[t].now /\ Opened(t)
  /\ traps' = [traps EXCEPT ![p] = "ok"]
  /\ UNCHANGED <<database, bound, servers, lns, settled>>

SetFailed(t, p) ==
  /\ At(t, "failed") /\ p \in task[t].now /\ Opened(t)
  /\ traps' = [traps EXCEPT ![p] = "failed"]
  /\ UNCHANGED <<database, bound, servers, lns, settled>>

Done(t) ==
  /\ At(t, "open") /\ task[t].todo = {} /\ Finish(t)
  /\ UNCHANGED <<database, bound, servers, honeypot>>

-----------------------------------------------------------------------------

Reload(t) == Load(t) \/ Drop(t) \/ (\E p \in PortNumbers : Listen(t, p)) \/ ReadTraps(t)

Apply(t) ==
  \/ Sync(t) \/ Done(t)
  \/ \E p \in PortNumbers : Open(t, p) \/ Bind(t, p) \/ SetConn(t, p) \/ SetTrap(t, p) \/ SetFailed(t, p)

Next ==
  \/ \E t \in Reloaders : Reload(t) \/ ReadTrapsFails(t) \/ \E c \in Config : Save(t, c)
  \/ \E p \in PortNumbers : Die(p)
  \/ \E t \in Setters : LoadBase(t) \/ LoadBaseFails(t) \/ \E S \in SUBSET PortNumbers : Set(t, S)
  \/ \E t \in Threads : Apply(t)

\* Goroutines run.
Fairness == /\ \A t \in Reloaders : WF_vars(Reload(t))
            /\ \A p \in PortNumbers : WF_vars(Die(p))
            /\ \A t \in Setters : WF_vars(LoadBase(t))
            /\ \A t \in Threads : WF_vars(Apply(t))

Spec == Init /\ [][Next]_vars
FairSpec == Spec /\ Fairness

-----------------------------------------------------------------------------

\* Every variable holds a value of its kind (listener.go:42-53,
\* honeypot.go:108-184).
TypeOK ==
  /\ conf \in Config /\ wanted \in SUBSET PortNumbers
  /\ bound \in [PortNumbers -> {"free", "server", "dying", "trap"}]
  /\ servers \in Config
  /\ lns \in SUBSET PortNumbers /\ traps \in [PortNumbers -> {"none", "ok", "failed"}]
  /\ task \in [Threads -> Task] /\ settled \in BOOLEAN
  /\ \A t \in Threads : task[t].at \in {"bind", "conn", "trap", "failed"} \/ task[t].now = {}

Opening(t, p) == At(t, "conn") /\ p \in task[t].now

\* No socket is lost and none is closed behind its owner's back: a port is held
\* by a server of the map, by a trap of the map, or by a Sync that has just
\* opened it and stores it next, however many Syncs of the honeypot run at a
\* time (Sync, setConn; ListenerManager.Sync).
SocketsOwned ==
  \A p \in PortNumbers :
    /\ bound[p] = "server" <=> servers[p] # "none"
    /\ bound[p] = "trap" <=> p \in lns \/ \E t \in Threads : Opening(t, p)

AtRest == \A t \in Threads : At(t, "idle")

\* When nobody is at work no server runs on a port that the configuration does
\* not want, and none speaks plain HTTP where it wants TLS, or the reverse.
NoWrongServer ==
  AtRest => \A p \in PortNumbers :
              servers[p] # "none" => conf[p] # "none" /\ TLS(servers[p]) = TLS(conf[p])

\* When nobody is at work and the last one ran alone: the traps are those the
\* settings want and no route's port is among them; one that is missing is
\* shown with the error of its bind.
TrapsFollow ==
  AtRest /\ settled =>
    /\ lns \subseteq wanted \ Routed(conf)
    /\ \A p \in (wanted \ Routed(conf)) \ lns : traps[p] = "failed"

\* The port of a route that is gone is let go ("ports are switched at once",
\* README.md:14).
RemovedPortCloses ==
  \A p \in PortNumbers :
    conf[p] = "none" ~> (bound[p] \notin {"server", "dying"} \/ conf[p] # "none")

\* listener.go:59, "the ports listened on are the ports wanted": after a reload
\* that ran alone every route's port has its server.
RoutesServed ==
  AtRest /\ settled => \A p \in PortNumbers : conf[p] # "none" => servers[p] # "none"
=============================================================================
