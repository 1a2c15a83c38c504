---------------------------- MODULE PortsProofs ----------------------------
(***************************************************************************)
(* What holds of servers and traps for any number of ports, certificates,  *)
(* reloads and settings of the honeypot.                                   *)
(***************************************************************************)
EXTENDS Ports, TLAPS

LEMMA LabelsUsed ==
  {"idle", "load", "drop", "listen", "base", "sync", "open", "bind", "conn", "trap", "failed"}
     = Labels
BY DEF Labels

LEMMA IdleTyped == Idle \in Task /\ NoConfig \in Config /\ Idle.at = "idle" /\ Idle.now = {}
BY DEF Idle, Task, Labels, NoConfig, Config, Settings

-----------------------------------------------------------------------------
(* Types *)

LEMMA TypesInit == Init => TypeOK
BY IdleTyped DEF Init, TypeOK, At, NoConfig, Config, Settings

\* A request that begins, and what the others then are.
LEMMA BeginTyped ==
  ASSUME TypeOK, NEW t \in Threads, NEW first \in Task, first.now = {}, Begin(t, first)
  PROVE  /\ task' \in [Threads -> Task]
         /\ \A u \in Threads : task'[u].at \in {"bind", "conn", "trap", "failed"} \/ task'[u].now = {}
<1> DEFINE alone == \A v \in Threads : At(v, "idle")
<1>1. [first EXCEPT !.alone = alone] \in Task /\ [first EXCEPT !.alone = alone].now = {}
  BY DEF Task
<1>2. \A u \in Threads : /\ [task[u] EXCEPT !.alone = FALSE] \in Task
                         /\ [task[u] EXCEPT !.alone = FALSE].at = task[u].at
                         /\ [task[u] EXCEPT !.alone = FALSE].now = task[u].now
  BY DEF TypeOK, Task
<1>3. task' = [u \in Threads |-> IF u = t THEN [first EXCEPT !.alone = alone]
                                           ELSE [task[u] EXCEPT !.alone = FALSE]]
  BY DEF Begin
<1> HIDE DEF alone
<1>4. ASSUME NEW u \in Threads, u # t PROVE task'[u].now = task[u].now /\ task'[u].at = task[u].at
  BY <1>2, <1>3, <1>4
<1>5. task'[t].now = {}
  BY <1>1, <1>3
<1> QED BY <1>1, <1>2, <1>3, <1>4, <1>5 DEF TypeOK, At

\* A step of one goroutine that is under way.
LEMMA MoveTyped ==
  ASSUME TypeOK, NEW t \in Threads, NEW v \in Task,
         v.at \in {"bind", "conn", "trap", "failed"} \/ v.now = {},
         task' = [task EXCEPT ![t] = v]
  PROVE  /\ task' \in [Threads -> Task]
         /\ \A u \in Threads : task'[u].at \in {"bind", "conn", "trap", "failed"} \/ task'[u].now = {}
BY DEF TypeOK

LEMMA FinishTyped ==
  ASSUME TypeOK, NEW t \in Threads, task' = [task EXCEPT ![t] = Idle]
  PROVE  /\ task' \in [Threads -> Task]
         /\ \A u \in Threads : task'[u].at \in {"bind", "conn", "trap", "failed"} \/ task'[u].now = {}
BY IdleTyped DEF TypeOK, At

\* A setting is nothing, plain, or certificates, and dropping servers makes none.
LEMMA DropTyped ==
  ASSUME TypeOK, NEW t \in Threads, Drop(t)
  PROVE  /\ servers' \in Config /\ bound' \in [PortNumbers -> {"free", "server", "dying", "trap"}]
BY DEF TypeOK, Drop, Config, Settings

LEMMA ReloadTypesKept ==
  ASSUME TypeOK, NEW t \in Reloaders,
         Reload(t) \/ ReadTrapsFails(t) \/ \E c \in Config : Save(t, c)
  PROVE  TypeOK'
<1>0. t \in Threads
  BY DEF Threads
<1>1. ASSUME NEW c \in Config, Save(t, c) PROVE TypeOK'
  <2>1. [Idle EXCEPT !.at = "load"] \in Task /\ [Idle EXCEPT !.at = "load"].now = {}
    BY DEF Idle, Task, Labels, NoConfig, Config, Settings
  <2>2. Begin(t, [Idle EXCEPT !.at = "load"])
    BY <1>1 DEF Save
  <2> QED BY <1>0, <1>1, <2>1, <2>2, BeginTyped DEF TypeOK, Save, At, honeypot
<1>2. CASE Load(t)
  <2> DEFINE v == [task[t] EXCEPT !.at = "drop", !.conf = conf]
  <2>1. task[t] \in Task /\ task[t].now = {} /\ conf \in Config
    BY <1>0, <1>2 DEF TypeOK, Load, At
  <2>2. v \in Task /\ v.now = {}
    BY <2>1 DEF TypeOK, Task, Labels
  <2>3. task' = [task EXCEPT ![t] = v]
    BY <1>0, <1>2 DEF Load, TypeOK
  <2>4. /\ task' \in [Threads -> Task]
        /\ \A u \in Threads : task'[u].at \in {"bind", "conn", "trap", "failed"} \/ task'[u].now = {}
    BY <1>0, <2>2, <2>3, MoveTyped
  <2> QED BY <1>2, <2>4 DEF TypeOK, Load, database, honeypot
<1>3. CASE Drop(t)
  <2> DEFINE todo == {p \in Routed(task[t].conf) : servers'[p] = "none"}
             v == [task[t] EXCEPT !.at = "listen", !.todo = todo]
  <2>1. task[t] \in Task /\ task[t].now = {}
    BY <1>0, <1>3 DEF TypeOK, Drop, At
  <2>2. todo \in SUBSET PortNumbers
    BY DEF Routed
  <2>3. v \in Task /\ v.now = {}
    BY <2>1, <2>2 DEF Task, Labels
  <2>4. task' = [task EXCEPT ![t] = v]
    BY <1>0, <1>3 DEF Drop, TypeOK
  <2>5. /\ task' \in [Threads -> Task]
        /\ \A u \in Threads : task'[u].at \in {"bind", "conn", "trap", "failed"} \/ task'[u].now = {}
    BY <1>0, <2>3, <2>4, MoveTyped
  <2> QED BY <1>0, <1>3, <2>5, DropTyped DEF TypeOK, Drop, database, honeypot
<1>4. ASSUME NEW p \in PortNumbers, Listen(t, p) PROVE TypeOK'
  <2> DEFINE v == [task[t] EXCEPT !.todo = @ \ {p}]
  <2>1. task[t] \in Task /\ task[t].now = {} /\ task[t].conf[p] \in Settings
    BY <1>0, <1>4 DEF TypeOK, Listen, At, Task, Config
  <2>2. v \in Task /\ v.now = {}
    BY <2>1 DEF Task
  <2>3. task' = [task EXCEPT ![t] = v]
    BY <1>0, <1>4 DEF Listen, TypeOK
  <2>4. /\ task' \in [Threads -> Task]
        /\ \A u \in Threads : task'[u].at \in {"bind", "conn", "trap", "failed"} \/ task'[u].now = {}
    BY <1>0, <2>2, <2>3, MoveTyped
  <2>5. servers' \in Config /\ bound' \in [PortNumbers -> {"free", "server", "dying", "trap"}]
    BY <1>4, <2>1 DEF Listen, TypeOK, Config
  <2> QED BY <1>4, <2>4, <2>5 DEF TypeOK, Listen, database, honeypot
<1>5. CASE ReadTraps(t)
  <2> DEFINE v == [task[t] EXCEPT !.at = "sync", !.ports = wanted]
  <2>1. task[t] \in Task /\ task[t].now = {} /\ wanted \in SUBSET PortNumbers
    BY <1>0, <1>5 DEF TypeOK, ReadTraps, At
  <2>2. v \in Task /\ v.now = {}
    BY <2>1 DEF TypeOK, Task, Labels
  <2>3. task' = [task EXCEPT ![t] = v]
    BY <1>0, <1>5 DEF ReadTraps, TypeOK
  <2>4. /\ task' \in [Threads -> Task]
        /\ \A u \in Threads : task'[u].at \in {"bind", "conn", "trap", "failed"} \/ task'[u].now = {}
    BY <1>0, <2>2, <2>3, MoveTyped
  <2> QED BY <1>5, <2>4 DEF TypeOK, ReadTraps, database, honeypot
<1>6. CASE ReadTrapsFails(t)
  BY <1>0, <1>6, FinishTyped DEF TypeOK, ReadTrapsFails, At, database, honeypot
<1> QED BY <1>1, <1>2, <1>3, <1>4, <1>5, <1>6 DEF Reload

LEMMA SettingTypesKept ==
  ASSUME TypeOK, NEW t \in Setters,
         LoadBase(t) \/ LoadBaseFails(t) \/ \E S \in SUBSET PortNumbers : Set(t, S)
  PROVE  TypeOK'
<1>0. t \in Threads
  BY DEF Threads
<1>1. ASSUME NEW S \in SUBSET PortNumbers, Set(t, S) PROVE TypeOK'
  <2> DEFINE first == [Idle EXCEPT !.at = "base", !.ports = S]
  <2>1. first \in Task /\ first.now = {}
    BY DEF Idle, Task, Labels, NoConfig, Config, Settings
  <2>2. Begin(t, first)
    BY <1>1 DEF Set
  <2> QED BY <1>0, <1>1, <2>1, <2>2, BeginTyped DEF TypeOK, Set, At, honeypot
<1>2. CASE LoadBase(t)
  <2> DEFINE v == [task[t] EXCEPT !.at = "sync", !.conf = conf]
  <2>1. task[t] \in Task /\ task[t].now = {} /\ conf \in Config
    BY <1>0, <1>2 DEF TypeOK, LoadBase, At
  <2>2. v \in Task /\ v.now = {}
    BY <2>1 DEF TypeOK, Task, Labels
  <2>3. task' = [task EXCEPT ![t] = v]
    BY <1>0, <1>2 DEF LoadBase, TypeOK
  <2>4. /\ task' \in [Threads -> Task]
        /\ \A u \in Threads : task'[u].at \in {"bind", "conn", "trap", "failed"} \/ task'[u].now = {}
    BY <1>0, <2>2, <2>3, MoveTyped
  <2> QED BY <1>2, <2>4 DEF TypeOK, LoadBase, database, honeypot
<1>3. CASE LoadBaseFails(t)
  <2> DEFINE v == [task[t] EXCEPT !.at = "sync", !.conf = NoConfig, !.alone = FALSE]
  <2>1. task[t] \in Task /\ task[t].now = {}
    BY <1>0, <1>3 DEF TypeOK, LoadBaseFails, At
  <2>2. v \in Task /\ v.now = {}
    BY <2>1, IdleTyped DEF Task, Labels
  <2>3. task' = [task EXCEPT ![t] = v]
    BY <1>0, <1>3 DEF LoadBaseFails, TypeOK
  <2>4. /\ task' \in [Threads -> Task]
        /\ \A u \in Threads : task'[u].at \in {"bind", "conn", "trap", "failed"} \/ task'[u].now = {}
    BY <1>0, <2>2, <2>3, MoveTyped
  <2> QED BY <1>0, <1>3, <2>4 DEF TypeOK, LoadBaseFails, At, database, honeypot
<1> QED BY <1>1, <1>2, <1>3

LEMMA ApplyTypesKept ==
  ASSUME TypeOK, NEW t \in Threads, Apply(t)
  PROVE  TypeOK'
<1>1. CASE Sync(t)
  <2> DEFINE desired == task[t].ports \ Routed(task[t].conf)
             v == [task[t] EXCEPT !.at = "open", !.todo = desired]
  <2>1. task[t] \in Task /\ task[t].now = {}
    BY <1>1 DEF TypeOK, Sync, At
  <2>2. v \in Task /\ v.now = {}
    BY <2>1 DEF Task, Labels
  <2>3. task' = [task EXCEPT ![t] = v]
    BY <1>1 DEF Sync, TypeOK
  <2>4. /\ task' \in [Threads -> Task]
        /\ \A u \in Threads : task'[u].at \in {"bind", "conn", "trap", "failed"} \/ task'[u].now = {}
    BY <2>2, <2>3, MoveTyped
  <2> QED BY <1>1, <2>4 DEF TypeOK, Sync, At, database
<1>2. CASE Done(t)
  BY <1>2, FinishTyped DEF TypeOK, Done, Finish, At, Task, database, honeypot
<1>3. ASSUME NEW p \in PortNumbers, Open(t, p) PROVE TypeOK'
  <2> DEFINE v == [task[t] EXCEPT !.todo = @ \ {p}, !.at = IF p \in lns THEN "open" ELSE "bind",
                                  !.now = IF p \in lns THEN {} ELSE {p}]
  <2>1. task[t] \in Task
    BY DEF TypeOK
  <2>2. v \in Task /\ (v.at \in {"bind", "conn", "trap", "failed"} \/ v.now = {})
    BY <2>1 DEF Task, Labels
  <2>3. task' = [task EXCEPT ![t] = v]
    BY <1>3 DEF Open, TypeOK
  <2>4. /\ task' \in [Threads -> Task]
        /\ \A u \in Threads : task'[u].at \in {"bind", "conn", "trap", "failed"} \/ task'[u].now = {}
    BY <2>2, <2>3, MoveTyped
  <2> QED BY <1>3, <2>4 DEF TypeOK, Open, database, honeypot
<1>4. ASSUME NEW p \in PortNumbers, Bind(t, p) PROVE TypeOK'
  BY <1>4 DEF TypeOK, Bind, Goto, Task, Labels, At, database, honeypot
<1>5. ASSUME NEW p \in PortNumbers, SetConn(t, p) PROVE TypeOK'
  BY <1>5 DEF TypeOK, SetConn, Goto, Task, Labels, At, database
<1>6. ASSUME NEW p \in PortNumbers, SetTrap(t, p) PROVE TypeOK'
  BY <1>6 DEF TypeOK, SetTrap, Opened, Task, Labels, At, database
<1>7. ASSUME NEW p \in PortNumbers, SetFailed(t, p) PROVE TypeOK'
  BY <1>7 DEF TypeOK, SetFailed, Opened, Task, Labels, At, database
<1> QED BY <1>1, <1>2, <1>3, <1>4, <1>5, <1>6, <1>7 DEF Apply

LEMMA TypesKept == TypeOK /\ [Next]_vars => TypeOK'
<1> SUFFICES ASSUME TypeOK, [Next]_vars PROVE TypeOK'
  OBVIOUS
<1>1. ASSUME NEW p \in PortNumbers, Die(p) PROVE TypeOK'
  BY <1>1 DEF TypeOK, Die, At, database, honeypot
<1>2. CASE UNCHANGED vars
  BY <1>2 DEF TypeOK, vars, At, database, honeypot
<1> QED BY <1>1, <1>2, ReloadTypesKept, SettingTypesKept, ApplyTypesKept DEF Next

\* Every variable of servers, traps and goroutines keeps its type, with any
\* number of reloads and settings at a time (listener.go, honeypot.go).
THEOREM PortTypes == Spec => []TypeOK
BY TypesInit, TypesKept, PTL DEF Spec
-----------------------------------------------------------------------------
(* Sockets and their owners *)

\* Only ports of the configuration are listened on, and a Sync of the honeypot
\* opens one port at a time.
TaskOK(v) == /\ v.at = "listen" => v.todo \subseteq Routed(v.conf)
             /\ \A p, q \in v.now : p = q
TasksOK == \A t \in Threads : TaskOK(task[t])

\* Whoever begins makes the others run beside it, and moves none of them.
LEMMA BeginMoves ==
  ASSUME TypeOK, NEW t \in Threads, NEW first \in Task, Begin(t, first)
  PROVE  /\ \A u \in Threads \ {t} :
              /\ task'[u].at = task[u].at /\ task'[u].now = task[u].now /\ task'[u].todo = task[u].todo
              /\ task'[u].conf = task[u].conf /\ ~task'[u].alone
         /\ task'[t].at = first.at /\ task'[t].now = first.now
         /\ task'[t].ports = first.ports /\ task'[t].conf = first.conf
         /\ task'[t].alone => \A v \in Threads : At(v, "idle")
         /\ At(t, "idle")
<1> DEFINE alone == \A v \in Threads : At(v, "idle")
<1>1. task' = [u \in Threads |-> IF u = t THEN [first EXCEPT !.alone = alone]
                                           ELSE [task[u] EXCEPT !.alone = FALSE]]
  BY DEF Begin
<1>2. alone \in BOOLEAN
  OBVIOUS
<1> HIDE DEF alone
<1>3. ASSUME NEW u \in Threads \ {t}
      PROVE  /\ task'[u].at = task[u].at /\ task'[u].now = task[u].now /\ task'[u].todo = task[u].todo
             /\ task'[u].conf = task[u].conf /\ ~task'[u].alone
  <2>1. task'[u] = [task[u] EXCEPT !.alone = FALSE] /\ task[u] \in Task
    BY <1>1, <1>3 DEF TypeOK
  <2> QED BY <2>1 DEF Task
<1>4. /\ task'[t].at = first.at /\ task'[t].now = first.now
      /\ task'[t].ports = first.ports /\ task'[t].conf = first.conf
      /\ task'[t].alone = alone
  <2>1. task'[t] = [first EXCEPT !.alone = alone]
    BY <1>1
  <2> QED BY <1>2, <2>1 DEF Task
<1> QED BY <1>3, <1>4 DEF Begin, alone

LEMMA BeginTasks ==
  ASSUME TypeOK, TasksOK, NEW t \in Threads, NEW first \in Task, first.at \in {"load", "base"},
         first.now = {}, Begin(t, first)
  PROVE  /\ TasksOK'
         /\ \A u \in Threads, p \in PortNumbers : Opening(u, p)' <=> Opening(u, p)
<1>1. ASSUME NEW u \in Threads, u # t
      PROVE  TaskOK(task'[u]) /\ \A p \in PortNumbers : Opening(u, p)' <=> Opening(u, p)
  BY <1>1, BeginMoves DEF TasksOK, TaskOK, Opening, At
<1>2. TaskOK(task'[t]) /\ \A p \in PortNumbers : Opening(t, p)' <=> Opening(t, p)
  BY BeginMoves DEF TaskOK, Opening, At
<1> QED BY <1>1, <1>2 DEF TasksOK

\* The steps of a goroutine that neither bind a port nor store what was bound.
LEMMA MoveTasks ==
  ASSUME TypeOK, TasksOK, NEW t \in Threads, NEW v, TaskOK(v), ~At(t, "conn"), v.at # "conn",
         task' = [task EXCEPT ![t] = v]
  PROVE  /\ TasksOK'
         /\ \A u \in Threads, p \in PortNumbers : Opening(u, p)' <=> Opening(u, p)
BY DEF TypeOK, TasksOK, TaskOK, Opening, At

Quiet(t) == \/ Load(t) \/ Drop(t) \/ ReadTraps(t) \/ ReadTrapsFails(t) \/ LoadBase(t) \/ LoadBaseFails(t)
            \/ Sync(t) \/ Done(t)
            \/ \E p \in PortNumbers : Listen(t, p) \/ Open(t, p) \/ SetTrap(t, p) \/ SetFailed(t, p)

LEMMA QuietTasks ==
  ASSUME TypeOK, TasksOK, NEW t \in Threads, Quiet(t)
  PROVE  /\ TasksOK'
         /\ \A u \in Threads, p \in PortNumbers : Opening(u, p)' <=> Opening(u, p)
<1> DEFINE v == task'[t]
<1>0. task[t] \in Task /\ TaskOK(task[t])
  BY DEF TypeOK, TasksOK
<1>1. /\ ~At(t, "conn") /\ v.at # "conn" /\ task' = [task EXCEPT ![t] = v]
      /\ TaskOK(v)
  <2>1. CASE Load(t)
    <3>1. v.at = "drop" /\ v.now = task[t].now /\ task' = [task EXCEPT ![t] = v]
      BY <1>0, <2>1 DEF Load, TypeOK, Task
    <3> QED BY <1>0, <2>1, <3>1 DEF Load, At, TaskOK
  <2>2. CASE Drop(t)
    <3>1. /\ v.at = "listen" /\ v.now = task[t].now /\ task' = [task EXCEPT ![t] = v]
          /\ v.conf = task[t].conf
          /\ v.todo = {p \in Routed(task[t].conf) : servers'[p] = "none"}
      BY <1>0, <2>2 DEF Drop, TypeOK, Task
    <3> QED BY <1>0, <2>2, <3>1 DEF Drop, At, TaskOK
  <2>3. CASE ReadTraps(t)
    <3>1. v.at = "sync" /\ v.now = task[t].now /\ task' = [task EXCEPT ![t] = v]
      BY <1>0, <2>3 DEF ReadTraps, TypeOK, Task
    <3> QED BY <1>0, <2>3, <3>1 DEF ReadTraps, At, TaskOK
  <2>4. CASE ReadTrapsFails(t)
    <3>1. v = Idle /\ task' = [task EXCEPT ![t] = v]
      BY <1>0, <2>4 DEF ReadTrapsFails, TypeOK
    <3> QED BY <2>4, <3>1 DEF ReadTrapsFails, At, TaskOK, Idle
  <2>5. CASE LoadBase(t) \/ LoadBaseFails(t)
    <3>1. v.at = "sync" /\ v.now = task[t].now /\ task' = [task EXCEPT ![t] = v]
      BY <1>0, <2>5 DEF LoadBase, LoadBaseFails, TypeOK, Task
    <3> QED BY <1>0, <2>5, <3>1 DEF LoadBase, LoadBaseFails, At, TaskOK
  <2>6. CASE Sync(t)
    <3>1. v.at = "open" /\ v.now = task[t].now /\ task' = [task EXCEPT ![t] = v]
      BY <1>0, <2>6 DEF Sync, TypeOK, Task
    <3> QED BY <1>0, <2>6, <3>1 DEF Sync, At, TaskOK
  <2>7. CASE Done(t)
    <3>1. v = Idle /\ task' = [task EXCEPT ![t] = v]
      BY <1>0, <2>7 DEF Done, Finish, TypeOK
    <3> QED BY <2>7, <3>1 DEF Done, At, TaskOK, Idle
  <2>8. ASSUME NEW p \in PortNumbers, Listen(t, p)
        PROVE  /\ ~At(t, "conn") /\ v.at # "conn" /\ task' = [task EXCEPT ![t] = v]
               /\ TaskOK(v)
    <3>1. /\ v.at = "listen" /\ v.now = task[t].now /\ v.conf = task[t].conf
          /\ v.todo = task[t].todo \ {p} /\ task' = [task EXCEPT ![t] = v]
      BY <1>0, <2>8 DEF Listen, At, TypeOK, Task
    <3> QED BY <1>0, <2>8, <3>1 DEF Listen, At, TaskOK
  <2>9. ASSUME NEW p \in PortNumbers, Open(t, p)
        PROVE  /\ ~At(t, "conn") /\ v.at # "conn" /\ task' = [task EXCEPT ![t] = v]
               /\ TaskOK(v)
    <3>1. /\ v.at \in {"open", "bind"} /\ v.now \in {{}, {p}} /\ task' = [task EXCEPT ![t] = v]
      BY <1>0, <2>9 DEF Open, TypeOK, Task
    <3> QED BY <2>9, <3>1 DEF Open, At, TaskOK
  <2>10. ASSUME NEW p \in PortNumbers, SetTrap(t, p) \/ SetFailed(t, p)
         PROVE  /\ ~At(t, "conn") /\ v.at # "conn" /\ task' = [task EXCEPT ![t] = v]
                /\ TaskOK(v)
    <3>1. /\ v.at = "open" /\ v.now = {} /\ task' = [task EXCEPT ![t] = v]
      BY <1>0, <2>10 DEF SetTrap, SetFailed, Opened, TypeOK, Task
    <3> QED BY <2>10, <3>1 DEF SetTrap, SetFailed, At, TaskOK
  <2> QED BY <2>1, <2>2, <2>3, <2>4, <2>5, <2>6, <2>7, <2>8, <2>9, <2>10 DEF Quiet
<1> HIDE DEF v
<1> QED BY <1>1, MoveTasks

\* A socket that is opened and not yet stored is one Sync's, and not a trap of
\* the map.
OneHolder ==
  \A t \in Threads, p \in PortNumbers :
    Opening(t, p) => p \notin lns /\ \A u \in Threads : Opening(u, p) => u = t

SocketInv == TypeOK /\ TasksOK /\ SocketsOwned /\ OneHolder

LEMMA SocketInit == Init => SocketInv
<1> SUFFICES ASSUME Init PROVE SocketInv
  OBVIOUS
<1>1. TypeOK
  BY TypesInit
<1>2. \A t \in Threads : task[t].at = "idle" /\ task[t].now = {}
  BY IdleTyped DEF Init
<1>3. TasksOK /\ OneHolder
  BY <1>2 DEF TasksOK, TaskOK, OneHolder, Opening, At
<1>4. SocketsOwned
  BY <1>2 DEF SocketsOwned, Opening, At, Init, NoConfig
<1> QED BY <1>1, <1>3, <1>4 DEF SocketInv

\* What leaves ports and owners alone.
LEMMA StillOwned ==
  ASSUME SocketInv, UNCHANGED <<bound, servers, lns>>,
         \A u \in Threads, p \in PortNumbers : Opening(u, p)' <=> Opening(u, p)
  PROVE  SocketsOwned' /\ OneHolder'
BY DEF SocketInv, SocketsOwned, OneHolder

LEMMA QuietOwned ==
  ASSUME SocketInv, NEW t \in Threads, Quiet(t)
  PROVE  TasksOK' /\ SocketsOwned' /\ OneHolder'
<1> USE DEF SocketInv
<1>1. /\ TasksOK'
      /\ \A u \in Threads, p \in PortNumbers : Opening(u, p)' <=> Opening(u, p)
  BY QuietTasks
<1>2. CASE UNCHANGED <<bound, servers, lns>>
  BY <1>1, <1>2, StillOwned
<1>3. CASE Drop(t)
  <2>1. lns' = lns
    BY <1>3 DEF Drop, honeypot
  <2>2. ASSUME NEW p \in PortNumbers
        PROVE  \/ servers'[p] = servers[p] /\ bound'[p] = bound[p]
               \/ servers[p] # "none" /\ servers'[p] = "none" /\ bound'[p] = "dying"
    BY <1>3 DEF Drop
  <2>3. SocketsOwned'
    BY <1>1, <2>1, <2>2 DEF SocketsOwned
  <2>4. OneHolder'
    BY <1>1, <2>1 DEF OneHolder
  <2> QED BY <1>1, <2>3, <2>4
<1>4. ASSUME NEW p \in PortNumbers, Listen(t, p)
      PROVE  TasksOK' /\ SocketsOwned' /\ OneHolder'
  <2>1. CASE bound[p] # "free"
    BY <1>1, <1>4, <2>1, StillOwned DEF Listen, honeypot
  <2>2. CASE bound[p] = "free"
    <3>1. /\ bound' = [bound EXCEPT ![p] = "server"] /\ lns' = lns
          /\ servers' = [servers EXCEPT ![p] = task[t].conf[p]]
      BY <1>4, <2>2 DEF Listen, honeypot
    <3>2. task[t].conf[p] # "none"
      BY <1>4 DEF Listen, At, TasksOK, TaskOK, Routed
    <3>3. SocketsOwned'
      BY <1>1, <2>2, <3>1, <3>2 DEF SocketsOwned, TypeOK, Config
    <3>4. OneHolder'
      BY <1>1, <3>1 DEF OneHolder
    <3> QED BY <1>1, <3>3, <3>4
  <2> QED BY <2>1, <2>2
<1>5. CASE Sync(t)
  <2>1. PICK out \in SUBSET lns : /\ lns' = lns \ out /\ servers' = servers
                                  /\ bound' = [p \in PortNumbers |-> IF p \in out THEN "free" ELSE bound[p]]
    BY <1>5 DEF Sync
  <2>2. \A p \in out, u \in Threads : ~Opening(u, p)
    BY DEF OneHolder, TypeOK
  <2>3. SocketsOwned'
    BY <1>1, <2>1, <2>2 DEF SocketsOwned, TypeOK
  <2>4. OneHolder'
    BY <1>1, <2>1 DEF OneHolder
  <2> QED BY <1>1, <2>3, <2>4
<1>6. CASE \/ Load(t) \/ ReadTraps(t) \/ ReadTrapsFails(t) \/ LoadBase(t) \/ LoadBaseFails(t) \/ Done(t)
           \/ \E p \in PortNumbers : Open(t, p) \/ SetTrap(t, p) \/ SetFailed(t, p)
  BY <1>2, <1>6 DEF Load, ReadTraps, ReadTrapsFails, LoadBase, LoadBaseFails, Done, Open, SetTrap,
                    SetFailed, honeypot
<1> QED BY <1>3, <1>4, <1>5, <1>6 DEF Quiet

\* A Sync of the honeypot binds a free port; nobody else can store it.
LEMMA BindOwned ==
  ASSUME SocketInv, NEW t \in Threads, NEW p \in PortNumbers, Bind(t, p)
  PROVE  TasksOK' /\ SocketsOwned' /\ OneHolder'
<1> USE DEF SocketInv
<1>0. task[t] \in Task /\ TaskOK(task[t]) /\ At(t, "bind") /\ task[t].now = {p}
  BY DEF TypeOK, TasksOK, TaskOK, Bind
<1>1. PICK l \in {"conn", "failed"} : Goto(t, l) /\ (l = "conn" <=> bound[p] = "free")
  BY DEF Bind
<1>2. /\ task'[t].at = l /\ task'[t].now = {p} /\ \A u \in Threads \ {t} : task'[u] = task[u]
  BY <1>0, <1>1 DEF Goto, TypeOK, Task
<1>3. TasksOK'
  BY <1>1, <1>2 DEF TasksOK, TaskOK
<1>4. \A u \in Threads, q \in PortNumbers :
        Opening(u, q)' <=> Opening(u, q) \/ (u = t /\ q = p /\ bound[p] = "free")
  BY <1>0, <1>1, <1>2 DEF Opening, At
<1>5. CASE bound[p] # "free"
  BY <1>3, <1>4, <1>5, StillOwned DEF Bind, honeypot
<1>6. CASE bound[p] = "free"
  <2>1. bound' = [bound EXCEPT ![p] = "trap"] /\ UNCHANGED <<servers, lns>>
    BY <1>6 DEF Bind, honeypot
  <2>2. p \notin lns /\ \A u \in Threads : ~Opening(u, p)
    BY <1>6 DEF SocketsOwned
  <2>3. SocketsOwned'
    BY <1>4, <1>6, <2>1 DEF SocketsOwned, TypeOK
  <2>4. OneHolder'
    BY <1>4, <1>6, <2>1, <2>2 DEF OneHolder
  <2> QED BY <1>3, <2>3, <2>4
<1> QED BY <1>5, <1>6

LEMMA StoreOwned ==
  ASSUME SocketInv, NEW t \in Threads, NEW p \in PortNumbers, SetConn(t, p)
  PROVE  TasksOK' /\ SocketsOwned' /\ OneHolder'
<1> USE DEF SocketInv
<1>0. task[t] \in Task /\ TaskOK(task[t]) /\ Opening(t, p) /\ task[t].now = {p}
  BY DEF TypeOK, TasksOK, TaskOK, SetConn, Opening
<1>1. /\ task'[t].at = "trap" /\ task'[t].now = {p} /\ \A u \in Threads \ {t} : task'[u] = task[u]
  BY <1>0 DEF SetConn, Goto, TypeOK, Task
<1>2. TasksOK'
  BY <1>1 DEF TasksOK, TaskOK
<1>3. \A u \in Threads, q \in PortNumbers : Opening(u, q)' <=> Opening(u, q) /\ u # t
  BY <1>1 DEF Opening, At
<1>4. UNCHANGED <<bound, servers>> /\ lns' = lns \cup {p}
  BY DEF SetConn
<1>5. \A q \in PortNumbers : Opening(t, q) => q = p
  BY <1>0 DEF Opening
<1>6. SocketsOwned'
  BY <1>0, <1>3, <1>4, <1>5 DEF SocketsOwned
<1>7. OneHolder'
  BY <1>0, <1>3, <1>4 DEF OneHolder
<1> QED BY <1>2, <1>6, <1>7

LEMMA BeginOwned ==
  ASSUME SocketInv, NEW t \in Threads, NEW first \in Task, first.at \in {"load", "base"},
         first.now = {}, Begin(t, first), UNCHANGED <<bound, servers, lns>>
  PROVE  TasksOK' /\ SocketsOwned' /\ OneHolder'
BY BeginTasks, StillOwned DEF SocketInv

LEMMA SocketsKept == SocketInv /\ [Next]_vars => SocketInv'
<1> SUFFICES ASSUME SocketInv, [Next]_vars PROVE TasksOK' /\ SocketsOwned' /\ OneHolder'
  BY TypesKept DEF SocketInv
<1>0. Reloaders \subseteq Threads /\ Setters \subseteq Threads
  BY DEF Threads
<1>1. ASSUME NEW t \in Reloaders, NEW c \in Config, Save(t, c)
      PROVE  TasksOK' /\ SocketsOwned' /\ OneHolder'
  <2> DEFINE first == [Idle EXCEPT !.at = "load"]
  <2>1. first \in Task /\ first.at = "load" /\ first.now = {}
    BY DEF Idle, Task, Labels, NoConfig, Config, Settings
  <2>2. Begin(t, first) /\ UNCHANGED <<bound, servers, lns>>
    BY <1>1 DEF Save, honeypot
  <2> HIDE DEF first
  <2> QED BY <1>0, <2>1, <2>2, BeginOwned
<1>2. ASSUME NEW t \in Setters, NEW S \in SUBSET PortNumbers, Set(t, S)
      PROVE  TasksOK' /\ SocketsOwned' /\ OneHolder'
  <2> DEFINE first == [Idle EXCEPT !.at = "base", !.ports = S]
  <2>1. first \in Task /\ first.at = "base" /\ first.now = {}
    BY DEF Idle, Task, Labels, NoConfig, Config, Settings
  <2>2. Begin(t, first) /\ UNCHANGED <<bound, servers, lns>>
    BY <1>2 DEF Set, honeypot
  <2> HIDE DEF first
  <2> QED BY <1>0, <2>1, <2>2, BeginOwned
<1>3. ASSUME NEW p \in PortNumbers, Die(p)
      PROVE  TasksOK' /\ SocketsOwned' /\ OneHolder'
  <2>1. task' = task /\ servers' = servers /\ lns' = lns /\ bound[p] = "dying"
        /\ bound' = [bound EXCEPT ![p] = "free"]
    BY <1>3 DEF Die, honeypot
  <2> QED BY <2>1 DEF SocketInv, TasksOK, TaskOK, SocketsOwned, OneHolder, Opening, At, TypeOK
<1>4. CASE UNCHANGED vars
  BY <1>4 DEF vars, honeypot, SocketInv, TasksOK, TaskOK, SocketsOwned, OneHolder, Opening, At
<1>5. ASSUME NEW t \in Reloaders, Reload(t) \/ ReadTrapsFails(t) PROVE Quiet(t)
  BY <1>5 DEF Reload, Quiet
<1>6. ASSUME NEW t \in Threads, Apply(t)
      PROVE  TasksOK' /\ SocketsOwned' /\ OneHolder'
  <2>1. Quiet(t) \/ \E p \in PortNumbers : Bind(t, p) \/ SetConn(t, p)
    BY <1>6 DEF Apply, Quiet
  <2> QED BY <2>1, QuietOwned, BindOwned, StoreOwned
<1>7. ASSUME NEW t \in Setters, LoadBase(t) \/ LoadBaseFails(t) PROVE Quiet(t)
  BY <1>7 DEF Quiet
<1> QED BY <1>0, <1>1, <1>2, <1>3, <1>4, <1>5, <1>6, <1>7, QuietOwned DEF Next

\* Whatever reloads, settings and closing servers do at a time, every listening
\* socket has exactly its owner (ListenerManager.Sync, honeypot.Sync, setConn).
THEOREM SocketsAreOwned == Spec => []SocketsOwned
<1>1. SocketInv => SocketsOwned
  BY DEF SocketInv
<1> QED BY <1>1, SocketInit, SocketsKept, PTL DEF Spec
-----------------------------------------------------------------------------
(* Servers and the configuration *)

\* Holding mu; past the drop, no server contradicts what was loaded.
InSection(t) == task[t].at \notin {"idle", "load", "base"}
RightFor(c) ==
  \A p \in PortNumbers : servers[p] # "none" => c[p] # "none" /\ TLS(servers[p]) = TLS(c[p])

\* One reload at a time is under way.  Unless another one is still to load, it
\* has loaded what the database has.
ReloadInv ==
  /\ \A t, u \in Reloaders : InSection(t) /\ InSection(u) => t = u
  /\ \A t \in Reloaders : InSection(t) /\ ~At(t, "drop") => RightFor(task[t].conf)
  /\ (\A t \in Reloaders : ~At(t, "load")) => \A t \in Reloaders : InSection(t) => task[t].conf = conf
  /\ (\A t \in Reloaders : At(t, "idle")) => RightFor(conf)

LEMMA ReloadInit == Init => ReloadInv
<1> SUFFICES ASSUME Init PROVE ReloadInv
  OBVIOUS
<1>1. \A t \in Reloaders : task[t].at = "idle"
  BY IdleTyped DEF Init, Threads
<1>2. \A c : RightFor(c)
  BY DEF RightFor, Init, NoConfig
<1> QED BY <1>1, <1>2 DEF ReloadInv, InSection, At

\* Steps that do not concern a reload.
LEMMA ElsewhereKeepsReload ==
  ASSUME ReloadInv, UNCHANGED <<conf, servers>>,
         \A t \in Reloaders : task'[t].at = task[t].at /\ task'[t].conf = task[t].conf
  PROVE  ReloadInv'
<1>1. \A t \in Reloaders : (InSection(t)' <=> InSection(t)) /\ (\A l : At(t, l)' <=> At(t, l))
  BY DEF InSection, At
<1>2. \A c : RightFor(c)' <=> RightFor(c)
  BY DEF RightFor, TLS
<1>3. \A t \in Reloaders : RightFor(task[t].conf)' <=> RightFor(task[t].conf)
  BY <1>2 DEF RightFor, TLS
<1> QED BY <1>1, <1>2, <1>3 DEF ReloadInv, InSection, At, RightFor

\* Steps of a reload behind its drop, the last one included.
LEMMA OnwardKeepsReload ==
  ASSUME ReloadInv, NEW t \in Reloaders, InSection(t), ~At(t, "drop"), conf' = conf,
         \A u \in Reloaders \ {t} : task'[u] = task[u],
         \/ /\ InSection(t)' /\ ~At(t, "drop")' /\ task'[t].conf = task[t].conf
            /\ RightFor(task[t].conf)'
         \/ At(t, "idle")' /\ UNCHANGED servers
  PROVE  ReloadInv'
<1>1. \A u \in Reloaders \ {t} : ~InSection(u) /\ ~InSection(u)'
  BY DEF ReloadInv, InSection
<1>2. RightFor(task[t].conf)
  BY DEF ReloadInv
<1>3. CASE /\ InSection(t)' /\ ~At(t, "drop")' /\ task'[t].conf = task[t].conf
           /\ RightFor(task[t].conf)'
  <2>1. RightFor(task[t].conf)'
    BY <1>3
  <2>2. (\A u \in Reloaders : ~At(u, "load")') => task'[t].conf = conf'
    <3> SUFFICES ASSUME \A u \in Reloaders : ~At(u, "load")' PROVE task[t].conf = conf
      BY <1>3
    <3>1. \A u \in Reloaders : ~At(u, "load")
      BY DEF InSection, At
    <3> QED BY <3>1 DEF ReloadInv
  <2>3. ~At(t, "idle")'
    BY <1>3 DEF InSection, At
  <2> QED BY <1>1, <1>3, <2>1, <2>2, <2>3 DEF ReloadInv
<1>4. CASE At(t, "idle")' /\ UNCHANGED servers
  <2>1. ~InSection(t)'
    BY <1>4 DEF InSection, At
  <2>2. (\A u \in Reloaders : At(u, "idle")') => RightFor(conf)'
    <3> SUFFICES ASSUME \A u \in Reloaders : At(u, "idle")' PROVE RightFor(conf)'
      OBVIOUS
    <3>1. \A u \in Reloaders : ~At(u, "load")
      BY DEF InSection, At
    <3>2. task[t].conf = conf
      BY <3>1 DEF ReloadInv
    <3> QED BY <1>2, <1>4, <3>2 DEF RightFor, TLS
  <2> QED BY <1>1, <2>1, <2>2 DEF ReloadInv
<1> QED BY <1>3, <1>4

LEMMA ReloadStepKept ==
  ASSUME SocketInv, ReloadInv, NEW t \in Reloaders, Reload(t) \/ ReadTrapsFails(t)
  PROVE  ReloadInv'
<1> USE DEF SocketInv
<1>0. t \in Threads /\ task[t] \in Task /\ Reloaders \subseteq Threads
  BY DEF Threads, TypeOK
<1>1. CASE Load(t)
  <2>1. /\ task'[t].at = "drop" /\ task'[t].conf = conf /\ UNCHANGED <<conf, servers>>
        /\ \A u \in Threads \ {t} : task'[u] = task[u]
    BY <1>0, <1>1 DEF Load, TypeOK, Task, database
  <2>2. \A u \in Reloaders \ {t} : ~InSection(u) /\ ~InSection(u)'
    BY <1>0, <1>1, <2>1 DEF Load, InSection
  <2> QED BY <1>0, <2>1, <2>2 DEF ReloadInv, At
<1>2. CASE Drop(t)
  <2>1. /\ task'[t].at = "listen" /\ task'[t].conf = task[t].conf /\ conf' = conf
        /\ \A u \in Threads \ {t} : task'[u] = task[u]
    BY <1>0, <1>2 DEF Drop, TypeOK, Task, database
  <2>2. RightFor(task[t].conf)'
    BY <1>0, <1>2, <2>1 DEF Drop, RightFor, TLS
  <2>3. InSection(t) /\ \A u \in Reloaders \ {t} : ~InSection(u) /\ ~InSection(u)'
    BY <1>0, <1>2, <2>1 DEF Drop, At, InSection, ReloadInv
  <2>4. (\A u \in Reloaders : ~At(u, "load")') => task'[t].conf = conf'
    <3> SUFFICES ASSUME \A u \in Reloaders : ~At(u, "load")' PROVE task[t].conf = conf
      BY <2>1
    <3>1. \A u \in Reloaders : ~At(u, "load")
      BY <1>0, <2>1, <2>3 DEF InSection, At
    <3> QED BY <2>3, <3>1 DEF ReloadInv
  <2> QED BY <2>1, <2>2, <2>3, <2>4 DEF ReloadInv, At
<1>3. ASSUME NEW p \in PortNumbers, Listen(t, p) PROVE ReloadInv'
  <2>1. /\ task'[t].at = "listen" /\ task'[t].conf = task[t].conf /\ conf' = conf /\ At(t, "listen")
        /\ \A u \in Threads \ {t} : task'[u] = task[u]
    BY <1>0, <1>3 DEF Listen, At, TypeOK, Task, database
  <2>2. RightFor(task[t].conf)
    BY <2>1 DEF ReloadInv, InSection, At
  <2>3. task[t].conf[p] # "none"
    BY <1>0, <1>3 DEF Listen, At, TasksOK, TaskOK, Routed
  <2>4. servers' = servers \/ servers' = [servers EXCEPT ![p] = task[t].conf[p]]
    BY <1>3 DEF Listen
  <2>5. RightFor(task[t].conf)'
    BY <2>1, <2>2, <2>3, <2>4 DEF RightFor, TLS, TypeOK, Config
  <2> QED BY <1>0, <2>1, <2>5, OnwardKeepsReload DEF InSection, At
<1>4. CASE ReadTraps(t)
  <2>1. /\ task'[t].at = "sync" /\ task'[t].conf = task[t].conf /\ UNCHANGED <<conf, servers>>
        /\ At(t, "listen") /\ \A u \in Threads \ {t} : task'[u] = task[u]
    BY <1>0, <1>4 DEF ReadTraps, TypeOK, Task, database
  <2>2. RightFor(task[t].conf)'
    BY <2>1 DEF ReloadInv, InSection, At, RightFor, TLS
  <2> QED BY <1>0, <2>1, <2>2, OnwardKeepsReload DEF InSection, At
<1>5. CASE ReadTrapsFails(t)
  <2>1. /\ task'[t].at = "idle" /\ UNCHANGED <<conf, servers>>
        /\ At(t, "listen") /\ \A u \in Threads \ {t} : task'[u] = task[u]
    BY <1>0, <1>5, IdleTyped DEF ReadTrapsFails, TypeOK, database
  <2> QED BY <1>0, <2>1, OnwardKeepsReload DEF InSection, At
<1> QED BY <1>1, <1>2, <1>3, <1>4, <1>5 DEF Reload

\* What the honeypot's Sync does to a goroutine, whoever runs it.
LEMMA ApplyMoves ==
  ASSUME TypeOK, NEW t \in Threads, Apply(t)
  PROVE  /\ UNCHANGED <<conf, servers, wanted>>
         /\ \A u \in Threads \ {t} : task'[u] = task[u]
         /\ task[t].at \in {"sync", "open", "bind", "conn", "trap", "failed"}
         /\ \/ /\ task'[t].at \in {"open", "bind", "conn", "trap", "failed"}
               /\ task'[t].conf = task[t].conf /\ task'[t].ports = task[t].ports
               /\ task'[t].alone = task[t].alone /\ settled' = settled
            \/ task'[t] = Idle /\ Done(t)
<1>0. task[t] \in Task
  BY DEF TypeOK
<1>1. CASE Sync(t)
  BY <1>0, <1>1 DEF Sync, At, TypeOK, Task, database
<1>2. CASE Done(t)
  BY <1>0, <1>2 DEF Done, Finish, At, TypeOK, database
<1>3. ASSUME NEW p \in PortNumbers, Open(t, p) \/ Bind(t, p)
      PROVE  /\ UNCHANGED <<conf, servers, wanted, settled>>
             /\ \A u \in Threads \ {t} : task'[u] = task[u]
             /\ task[t].at \in {"open", "bind"}
             /\ task'[t].at \in {"open", "bind", "conn", "failed"}
             /\ task'[t].conf = task[t].conf /\ task'[t].ports = task[t].ports
             /\ task'[t].alone = task[t].alone
  BY <1>0, <1>3 DEF Open, Bind, Goto, At, TypeOK, Task, database
<1>4. ASSUME NEW p \in PortNumbers, SetConn(t, p) \/ SetTrap(t, p) \/ SetFailed(t, p)
      PROVE  /\ UNCHANGED <<conf, servers, wanted, settled>>
             /\ \A u \in Threads \ {t} : task'[u] = task[u]
             /\ task[t].at \in {"conn", "trap", "failed"} /\ task'[t].at \in {"trap", "open"}
             /\ task'[t].conf = task[t].conf /\ task'[t].ports = task[t].ports
             /\ task'[t].alone = task[t].alone
  BY <1>0, <1>4 DEF SetConn, SetTrap, SetFailed, Opened, Goto, At, TypeOK, Task, database
<1> QED BY <1>1, <1>2, <1>3, <1>4 DEF Apply

LEMMA ReloadsKept == SocketInv /\ ReloadInv /\ [Next]_vars => ReloadInv'
<1> SUFFICES ASSUME SocketInv, ReloadInv, [Next]_vars PROVE ReloadInv'
  OBVIOUS
<1>0. Reloaders \subseteq Threads /\ Setters \subseteq Threads /\ Reloaders \cap Setters = {} /\ TypeOK
  BY PortsAssumption DEF Threads, SocketInv
<1>1. ASSUME NEW t \in Reloaders, NEW c \in Config, Save(t, c) PROVE ReloadInv'
  <2> DEFINE first == [Idle EXCEPT !.at = "load"]
  <2>1. first \in Task /\ first.at = "load" /\ first.now = {}
    BY DEF Idle, Task, Labels, NoConfig, Config, Settings
  <2>2. Begin(t, first) /\ servers' = servers
    BY <1>1 DEF Save
  <2> HIDE DEF first
  <2>4. task'[t].at = "load"
    BY <1>0, <2>1, <2>2, BeginMoves
  <2>5. \A u \in Reloaders \ {t} : task'[u].at = task[u].at /\ task'[u].conf = task[u].conf
    BY <1>0, <2>1, <2>2, BeginMoves
  <2>6. \A u \in Reloaders \ {t} : RightFor(task[u].conf)' <=> RightFor(task[u].conf)
    BY <2>2, <2>5 DEF RightFor, TLS
  <2> QED BY <2>4, <2>5, <2>6 DEF ReloadInv, InSection, At
<1>2. ASSUME NEW t \in Setters, NEW S \in SUBSET PortNumbers, Set(t, S) PROVE ReloadInv'
  <2> DEFINE first == [Idle EXCEPT !.at = "base", !.ports = S]
  <2>1. first \in Task /\ first.at = "base" /\ first.now = {}
    BY DEF Idle, Task, Labels, NoConfig, Config, Settings
  <2>2. Begin(t, first) /\ UNCHANGED <<conf, servers>>
    BY <1>2 DEF Set
  <2> HIDE DEF first
  <2>3. \A u \in Reloaders : task'[u].at = task[u].at /\ task'[u].conf = task[u].conf
    BY <1>0, <2>1, <2>2, BeginMoves
  <2> QED BY <2>2, <2>3, ElsewhereKeepsReload
<1>3. ASSUME NEW t \in Setters, LoadBase(t) \/ LoadBaseFails(t) PROVE ReloadInv'
  <2>1. \A u \in Reloaders : task'[u] = task[u]
    BY <1>0, <1>3 DEF LoadBase, LoadBaseFails, TypeOK
  <2> QED BY <1>3, <2>1, ElsewhereKeepsReload DEF LoadBase, LoadBaseFails, database
<1>4. ASSUME NEW p \in PortNumbers, Die(p) PROVE ReloadInv'
  BY <1>4, ElsewhereKeepsReload DEF Die, database
<1>5. CASE UNCHANGED vars
  BY <1>5, ElsewhereKeepsReload DEF vars, database
<1>6. ASSUME NEW t \in Setters, Apply(t) PROVE ReloadInv'
  <2>1. UNCHANGED <<conf, servers>> /\ \A u \in Reloaders : task'[u] = task[u]
    BY <1>0, <1>6, ApplyMoves
  <2> QED BY <2>1, ElsewhereKeepsReload
<1>7. ASSUME NEW t \in Reloaders, Apply(t) PROVE ReloadInv'
  <2>1. /\ UNCHANGED <<conf, servers>> /\ \A u \in Reloaders \ {t} : task'[u] = task[u]
        /\ InSection(t) /\ ~At(t, "drop")
        /\ \/ task'[t].at \in {"open", "bind", "conn", "trap", "failed"} /\ task'[t].conf = task[t].conf
           \/ task'[t].at = "idle"
    BY <1>0, <1>7, ApplyMoves, IdleTyped DEF InSection, At
  <2>2. RightFor(task[t].conf)
    BY <2>1 DEF ReloadInv
  <2>3. task'[t].conf = task[t].conf => RightFor(task[t].conf)'
    BY <2>1, <2>2 DEF RightFor, TLS
  <2> QED BY <2>1, <2>3, OnwardKeepsReload DEF InSection, At
<1> QED BY <1>1, <1>2, <1>3, <1>4, <1>5, <1>6, <1>7, ReloadStepKept DEF Next, Threads

\* However many reloads and writes come at a time, no server is left that the
\* configuration contradicts once all of them are through (ListenerManager.Sync,
\* App.reload, mutate).
THEOREM NoServerIsWrong == Spec => []NoWrongServer
<1>1. SocketInv /\ ReloadInv => NoWrongServer
  BY DEF ReloadInv, RightFor, NoWrongServer, AtRest, Threads
<1> QED BY <1>1, SocketInit, SocketsKept, ReloadInit, ReloadsKept, PTL DEF Spec
-----------------------------------------------------------------------------
(* Traps and settings *)

Applying == {"open", "bind", "conn", "trap", "failed"}
Desired(t) == task[t].ports \ Routed(task[t].conf)
Ahead(t) == task[t].todo \cup task[t].now

\* A goroutine that has run alone knows the database; in the honeypot's Sync no
\* trap is unwanted, and those missing have failed or are still ahead.
SoloOK(t) ==
  /\ ~At(t, "load") /\ ~At(t, "base") => task[t].conf = conf
  /\ At(t, "base") \/ At(t, "sync") \/ task[t].at \in Applying => task[t].ports = wanted
  /\ task[t].at \in Applying =>
       /\ lns \cup Ahead(t) \subseteq Desired(t)
       /\ \A p \in Desired(t) \ (lns \cup Ahead(t)) : traps[p] = "failed"
  /\ At(t, "trap") => task[t].now \subseteq lns

Follow == /\ lns \subseteq wanted \ Routed(conf)
          /\ \A p \in (wanted \ Routed(conf)) \ lns : traps[p] = "failed"

AloneInv ==
  /\ \A t \in Threads : task[t].alone =>
       ~At(t, "idle") /\ (\A u \in Threads \ {t} : At(u, "idle")) /\ SoloOK(t)
  /\ AtRest /\ settled => Follow

LEMMA AloneInit == Init => AloneInv
<1> SUFFICES ASSUME Init PROVE AloneInv
  OBVIOUS
<1>1. \A t \in Threads : ~task[t].alone
  BY DEF Init, Idle
<1>2. Follow
  BY DEF Init, Follow
<1> QED BY <1>1, <1>2 DEF AloneInv

\* A goroutine under way: the others do not run alone.
LEMMA OthersIdle ==
  ASSUME AloneInv, NEW t \in Threads, ~At(t, "idle")
  PROVE  \A u \in Threads \ {t} : ~task[u].alone
BY DEF AloneInv

\* So a step of it, the last excepted, only has to keep what it knows.
LEMMA SoloStep ==
  ASSUME AloneInv, NEW t \in Threads, ~At(t, "idle"), task'[t].at # "idle",
         \A u \in Threads \ {t} : task'[u] = task[u],
         task'[t].alone => task[t].alone,
         SoloOK(t) /\ task'[t].alone => SoloOK(t)'
  PROVE  AloneInv'
<1>1. \A u \in Threads \ {t} : ~task'[u].alone
  BY OthersIdle
<1>2. ~AtRest'
  BY DEF AtRest, At
<1>3. task'[t].alone => SoloOK(t)' /\ \A u \in Threads \ {t} : At(u, "idle")'
  BY DEF AloneInv, At
<1> QED BY <1>1, <1>2, <1>3 DEF AloneInv, At

LEMMA FirstStep ==
  ASSUME TypeOK, AloneInv, NEW t \in Threads, NEW first \in Task, first.at \in {"load", "base"},
         Begin(t, first), first.at = "base" => first.ports = wanted'
  PROVE  AloneInv'
<1>1. \A u \in Threads \ {t} : ~task'[u].alone
  BY BeginMoves
<1>2. task'[t].at = first.at /\ task'[t].ports = first.ports
  BY BeginMoves
<1>3. ~AtRest' /\ SoloOK(t)'
  BY <1>2 DEF AtRest, SoloOK, At, Applying
<1>4. task'[t].alone => \A u \in Threads \ {t} : At(u, "idle")'
  BY BeginMoves DEF At
<1> QED BY <1>1, <1>2, <1>3, <1>4 DEF AloneInv, At

LEMMA RestStep ==
  ASSUME AloneInv, UNCHANGED <<task, settled, conf, wanted, lns, traps>>
  PROVE  AloneInv'
<1>1. \A t \in Threads : SoloOK(t)' <=> SoloOK(t)
  BY DEF SoloOK, At, Ahead, Desired, Routed
<1>2. (Follow' <=> Follow) /\ (AtRest' <=> AtRest)
  BY DEF Follow, AtRest, At, Routed
<1> QED BY <1>1, <1>2 DEF AloneInv, At

LEMMA ReadingAlone ==
  ASSUME TypeOK, AloneInv, NEW t \in Threads,
         \/ Load(t) \/ Drop(t) \/ ReadTraps(t) \/ LoadBase(t) \/ LoadBaseFails(t)
         \/ \E p \in PortNumbers : Listen(t, p)
  PROVE  AloneInv'
<1>0. task[t] \in Task /\ conf \in Config
  BY DEF TypeOK
<1>1. CASE Load(t) \/ LoadBase(t)
  <2>1. /\ task[t].at \in {"load", "base"} /\ task'[t].conf = conf /\ UNCHANGED <<conf, wanted>>
        /\ task'[t].at = IF task[t].at = "load" THEN "drop" ELSE "sync"
        /\ task'[t].ports = task[t].ports /\ task'[t].alone = task[t].alone
        /\ \A u \in Threads \ {t} : task'[u] = task[u]
    BY <1>0, <1>1 DEF Load, LoadBase, At, TypeOK, Task, database
  <2>2. SoloOK(t) => SoloOK(t)'
    BY <2>1 DEF SoloOK, At, Applying
  <2> QED BY <2>1, <2>2, SoloStep DEF At
<1>2. CASE LoadBaseFails(t)
  <2>1. /\ task[t].at = "base" /\ task'[t].at = "sync" /\ ~task'[t].alone
        /\ \A u \in Threads \ {t} : task'[u] = task[u]
    BY <1>0, <1>2 DEF LoadBaseFails, At, TypeOK, Task
  <2> QED BY <2>1, SoloStep DEF At
<1>3. CASE Drop(t) \/ \E p \in PortNumbers : Listen(t, p)
  <2>1. /\ task[t].at \in {"drop", "listen"} /\ task'[t].at = "listen" /\ UNCHANGED <<conf, wanted>>
        /\ task'[t].conf = task[t].conf /\ task'[t].alone = task[t].alone
        /\ \A u \in Threads \ {t} : task'[u] = task[u]
    BY <1>0, <1>3 DEF Drop, Listen, At, TypeOK, Task, database
  <2>2. SoloOK(t) => SoloOK(t)'
    BY <2>1 DEF SoloOK, At, Applying
  <2> QED BY <2>1, <2>2, SoloStep DEF At
<1>4. CASE ReadTraps(t)
  <2>1. /\ task[t].at = "listen" /\ task'[t].at = "sync" /\ UNCHANGED <<conf, wanted>>
        /\ task'[t].ports = wanted
        /\ task'[t].conf = task[t].conf /\ task'[t].alone = task[t].alone
        /\ \A u \in Threads \ {t} : task'[u] = task[u]
    BY <1>0, <1>4 DEF ReadTraps, At, TypeOK, Task, database
  <2>2. SoloOK(t) => SoloOK(t)'
    BY <2>1 DEF SoloOK, At, Applying
  <2> QED BY <2>1, <2>2, SoloStep DEF At
<1> QED BY <1>1, <1>2, <1>3, <1>4

LEMMA LastStep ==
  ASSUME TypeOK, AloneInv, NEW t \in Threads, Done(t) \/ ReadTrapsFails(t)
  PROVE  AloneInv'
<1>1. /\ task'[t] = Idle /\ ~At(t, "idle") /\ UNCHANGED <<conf, wanted, lns, traps>>
      /\ \A u \in Threads \ {t} : task'[u] = task[u]
  BY DEF Done, Finish, ReadTrapsFails, At, TypeOK, database, honeypot
<1>2. \A u \in Threads : ~task'[u].alone
  BY <1>1, OthersIdle DEF Idle
<1>3. settled' => Follow'
  <2> SUFFICES ASSUME settled' PROVE Follow'
    OBVIOUS
  <2>1. Done(t) /\ task[t].alone /\ SoloOK(t)
    BY DEF Done, Finish, ReadTrapsFails, AloneInv
  <2>2. At(t, "open") /\ Ahead(t) = {}
    BY <2>1 DEF Done, Ahead, TypeOK, At
  <2>3. task[t].ports = wanted /\ task[t].conf = conf
    BY <2>1, <2>2 DEF SoloOK, At, Applying
  <2>4. Follow
    BY <2>1, <2>2, <2>3 DEF SoloOK, Follow, Applying, At, Desired
  <2> QED BY <1>1, <2>4 DEF Follow, Routed
<1> QED BY <1>2, <1>3 DEF AloneInv

\* The steps of the honeypot's Sync keep what SoloOK says of traps and ports ahead.
LEMMA ApplyingAlone ==
  ASSUME SocketInv, AloneInv, NEW t \in Threads, Apply(t), ~Done(t)
  PROVE  AloneInv'
<1> USE DEF SocketInv
<1>0. task[t] \in Task /\ TaskOK(task[t])
  BY DEF TypeOK, TasksOK
<1>1. /\ UNCHANGED <<conf, wanted>> /\ \A u \in Threads \ {t} : task'[u] = task[u]
      /\ task[t].at \in {"sync"} \cup Applying /\ task'[t].at \in Applying
      /\ task'[t].conf = task[t].conf /\ task'[t].ports = task[t].ports
      /\ task'[t].alone = task[t].alone
  BY ApplyMoves DEF Applying
<1>2. Desired(t)' = Desired(t)
  BY <1>1 DEF Desired, Routed
<1>3. SUFFICES ASSUME SoloOK(t)
               PROVE  /\ lns' \cup Ahead(t)' \subseteq Desired(t)
                      /\ \A p \in Desired(t) \ (lns' \cup Ahead(t)') : traps'[p] = "failed"
                      /\ task'[t].at = "trap" => task'[t].now \subseteq lns'
  <2>1. SoloOK(t) => SoloOK(t)'
    BY <1>1, <1>2, <1>3 DEF SoloOK, At, Applying
  <2> QED BY <1>1, <2>1, SoloStep DEF At, Applying
<1> DEFINE Goal == /\ lns' \cup Ahead(t)' \subseteq Desired(t)
                   /\ \A p \in Desired(t) \ (lns' \cup Ahead(t)') : traps'[p] = "failed"
                   /\ task'[t].at = "trap" => task'[t].now \subseteq lns'
<1>4. CASE Sync(t)
  <2>1. /\ task'[t].at = "open" /\ task'[t].todo = Desired(t) /\ task'[t].now = {}
    BY <1>0, <1>4 DEF Sync, Desired, At, TypeOK, Task
  <2>2. lns' \subseteq Desired(t)
    BY <1>4 DEF Sync, Desired
  <2> QED BY <2>1, <2>2 DEF Ahead
<1>5. ASSUME NEW p \in PortNumbers, Open(t, p) PROVE Goal
  <2>1. /\ UNCHANGED <<lns, traps>> /\ task'[t].todo = task[t].todo \ {p} /\ p \in task[t].todo
        /\ task[t].at = "open" /\ task[t].now = {} /\ task'[t].at # "trap"
        /\ task'[t].now = IF p \in lns THEN {} ELSE {p}
    BY <1>0, <1>5 DEF Open, At, TypeOK, Task, honeypot
  <2>2. lns' \cup Ahead(t)' = lns \cup Ahead(t)
    BY <2>1 DEF Ahead
  <2> QED BY <1>3, <2>1, <2>2 DEF SoloOK, Applying
<1>6. ASSUME NEW p \in PortNumbers, Bind(t, p) PROVE Goal
  <2>1. /\ UNCHANGED <<lns, traps>> /\ task'[t].todo = task[t].todo /\ task'[t].now = task[t].now
        /\ task[t].at = "bind" /\ task'[t].at # "trap"
    BY <1>0, <1>6 DEF Bind, Goto, At, TypeOK, Task, honeypot
  <2> QED BY <1>3, <2>1 DEF SoloOK, Applying, Ahead
<1>7. ASSUME NEW p \in PortNumbers, SetConn(t, p) PROVE Goal
  <2>1. /\ traps' = traps /\ lns' = lns \cup {p} /\ task'[t].todo = task[t].todo
        /\ task'[t].now = {p} /\ task[t].now = {p} /\ task[t].at = "conn"
    BY <1>0, <1>7 DEF SetConn, Goto, At, TypeOK, Task, TaskOK
  <2> QED BY <1>3, <2>1 DEF SoloOK, Applying, Ahead
<1>8. ASSUME NEW p \in PortNumbers, SetTrap(t, p) PROVE Goal
  <2>1. /\ lns' = lns /\ task'[t].todo = task[t].todo /\ task'[t].now = {}
        /\ task[t].now = {p} /\ task[t].at = "trap" /\ task'[t].at = "open"
        /\ traps' = [traps EXCEPT ![p] = "ok"]
    BY <1>0, <1>8 DEF SetTrap, Opened, At, TypeOK, Task, TaskOK
  <2>2. p \in lns /\ lns \cup Ahead(t) = lns' \cup Ahead(t)'
    BY <1>3, <2>1 DEF SoloOK, At, Ahead
  <2> QED BY <1>3, <2>1, <2>2 DEF SoloOK, Applying, TypeOK
<1>9. ASSUME NEW p \in PortNumbers, SetFailed(t, p) PROVE Goal
  <2>1. /\ lns' = lns /\ task'[t].todo = task[t].todo /\ task'[t].now = {}
        /\ task[t].now = {p} /\ task[t].at = "failed" /\ task'[t].at = "open"
        /\ traps' = [traps EXCEPT ![p] = "failed"]
    BY <1>0, <1>9 DEF SetFailed, Opened, At, TypeOK, Task, TaskOK
  <2>2. Desired(t) \subseteq PortNumbers
    BY <1>0 DEF Desired, Task
  <2> QED BY <1>3, <2>1, <2>2 DEF SoloOK, Applying, Ahead, TypeOK
<1> QED BY <1>4, <1>5, <1>6, <1>7, <1>8, <1>9 DEF Apply

LEMMA AloneKept == SocketInv /\ AloneInv /\ [Next]_vars => AloneInv'
<1> SUFFICES ASSUME SocketInv, AloneInv, [Next]_vars PROVE AloneInv'
  OBVIOUS
<1>0. Reloaders \subseteq Threads /\ Setters \subseteq Threads /\ TypeOK
  BY DEF Threads, SocketInv
<1>1. ASSUME NEW t \in Reloaders, NEW c \in Config, Save(t, c) PROVE AloneInv'
  <2> DEFINE first == [Idle EXCEPT !.at = "load"]
  <2>1. first \in Task /\ first.at = "load"
    BY DEF Idle, Task, Labels, NoConfig, Config, Settings
  <2>2. Begin(t, first)
    BY <1>1 DEF Save
  <2> HIDE DEF first
  <2> QED BY <1>0, <2>1, <2>2, FirstStep
<1>2. ASSUME NEW t \in Setters, NEW S \in SUBSET PortNumbers, Set(t, S) PROVE AloneInv'
  <2> DEFINE first == [Idle EXCEPT !.at = "base", !.ports = S]
  <2>1. first \in Task /\ first.at = "base" /\ first.ports = S
    BY DEF Idle, Task, Labels, NoConfig, Config, Settings
  <2>2. Begin(t, first) /\ wanted' = S
    BY <1>2 DEF Set
  <2> HIDE DEF first
  <2> QED BY <1>0, <2>1, <2>2, FirstStep
<1>3. ASSUME NEW p \in PortNumbers, Die(p) PROVE AloneInv'
  BY <1>3, RestStep DEF Die, database, honeypot
<1>4. CASE UNCHANGED vars
  BY <1>4, RestStep DEF vars, database, honeypot
<1>5. ASSUME NEW t \in Reloaders, Reload(t) \/ ReadTrapsFails(t) PROVE AloneInv'
  BY <1>0, <1>5, ReadingAlone, LastStep DEF Reload
<1>6. ASSUME NEW t \in Setters, LoadBase(t) \/ LoadBaseFails(t) PROVE AloneInv'
  BY <1>0, <1>6, ReadingAlone
<1>7. ASSUME NEW t \in Threads, Apply(t) PROVE AloneInv'
  BY <1>0, <1>7, ApplyingAlone, LastStep
<1> QED BY <1>1, <1>2, <1>3, <1>4, <1>5, <1>6, <1>7 DEF Next

\* Whatever ran together before, one change that runs alone leaves the traps as
\* the settings want them and off every route's port (honeypot.Sync,
\* applyHoneypot).
THEOREM TrapsFollowSettings == Spec => []TrapsFollow
<1>1. AloneInv => TrapsFollow
  BY DEF AloneInv, Follow, TrapsFollow
<1> QED BY <1>1, SocketInit, SocketsKept, AloneInit, AloneKept, PTL DEF Spec
=============================================================================
