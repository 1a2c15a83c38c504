--------------------------- MODULE UpgradeProofs ---------------------------
(***************************************************************************)
(* What holds of upgrades for any set of versions and files, and any       *)
(* number of uploads, commands and crashes.                                *)
(***************************************************************************)
EXTENDS Upgrade, TLAPS

LEMMA PathsDiffer ==
  /\ \A p \in Procs : Other(p) \in Procs /\ Other(p) # p /\ Parked(p) \in Paths /\ Src(p) \in Paths
  /\ \A p \in Procs : Parked(p) \notin {"exe", "old", "staged", "rollback", "none"}
  /\ \A p \in Procs : Src(p) \notin {"exe", "old", "parkedDaemon", "parkedCommand", "none"}
  /\ \A p, q \in Procs : q = p \/ q = Other(p)
BY DEF Procs, Other, Parked, Src, Paths

LEMMA IdleTyped ==
  /\ Idle \in Job /\ Idle.op = "none" /\ Idle.at = "none" /\ Idle.alone = FALSE
BY DEF Idle, Job, Ops, Steps, Contents

-----------------------------------------------------------------------------
(* What a step does to the jobs. *)

LEMMA JobsKept ==
  ASSUME TypeOK, NEW p \in Procs, NEW v \in Job, job' = [job EXCEPT ![p] = v]
  PROVE  /\ job' \in [Procs -> Job] /\ job'[p] = v
         /\ \A q \in Procs : q # p => job'[q] = job[q]
BY DEF TypeOK

LEMMA EndJobs ==
  ASSUME TypeOK, NEW p \in Procs, End(p)
  PROVE  /\ job' \in [Procs -> Job] /\ job'[p] = Idle
         /\ \A q \in Procs : q # p => job'[q] = job[q]
BY JobsKept, IdleTyped DEF End

LEMMA GotoJobs ==
  ASSUME TypeOK, NEW p \in Procs, NEW s \in Steps, Goto(p, s)
  PROVE  /\ job' \in [Procs -> Job]
         /\ job'[p].at = s /\ job'[p].op = job[p].op /\ job'[p].has = job[p].has
         /\ job'[p].from = job[p].from /\ job'[p].alone = job[p].alone
         /\ \A q \in Procs : q # p => job'[q] = job[q]
<1> DEFINE v == [job[p] EXCEPT !.at = s]
<1>1. job[p] \in Job
  BY DEF TypeOK
<1>2. /\ v \in Job /\ v.at = s /\ v.op = job[p].op /\ v.has = job[p].has
      /\ v.from = job[p].from /\ v.alone = job[p].alone
  BY <1>1 DEF Job
<1>3. job' = [job EXCEPT ![p] = v]
  BY DEF Goto
<1> HIDE DEF v
<1> QED BY <1>2, <1>3, JobsKept

LEMMA VerifyJobs ==
  ASSUME TypeOK, NEW p \in Procs, NEW c \in Contents,
         job' = [job EXCEPT ![p].at = "copy", ![p].has = c, ![p].force = FALSE]
  PROVE  /\ job' \in [Procs -> Job]
         /\ job'[p].at = "copy" /\ job'[p].op = job[p].op /\ job'[p].has = c
         /\ job'[p].alone = job[p].alone
         /\ \A q \in Procs : q # p => job'[q] = job[q]
<1> DEFINE v == [job[p] EXCEPT !.at = "copy", !.has = c, !.force = FALSE]
<1>1. job[p] \in Job
  BY DEF TypeOK
<1>2. /\ v \in Job /\ v.at = "copy" /\ v.op = job[p].op /\ v.has = c /\ v.alone = job[p].alone
  BY <1>1 DEF Job, Steps
<1>3. job' = [job EXCEPT ![p] = v]
  OBVIOUS
<1> HIDE DEF v
<1> QED BY <1>2, <1>3, JobsKept

LEMMA CopyJobs ==
  ASSUME TypeOK, NEW p \in Procs, NEW c \in Contents,
         job' = [job EXCEPT ![p].at = "copying", ![p].from = c]
  PROVE  /\ job' \in [Procs -> Job]
         /\ job'[p].at = "copying" /\ job'[p].op = job[p].op /\ job'[p].has = job[p].has
         /\ job'[p].from = c /\ job'[p].alone = job[p].alone
         /\ \A q \in Procs : q # p => job'[q] = job[q]
<1> DEFINE v == [job[p] EXCEPT !.at = "copying", !.from = c]
<1>1. job[p] \in Job
  BY DEF TypeOK
<1>2. /\ v \in Job /\ v.at = "copying" /\ v.op = job[p].op /\ v.has = job[p].has
      /\ v.from = c /\ v.alone = job[p].alone
  BY <1>1 DEF Job, Steps
<1>3. job' = [job EXCEPT ![p] = v]
  OBVIOUS
<1> HIDE DEF v
<1> QED BY <1>2, <1>3, JobsKept

\* A process begins, alone if the other is idle, which is not alone any more.
LEMMA BeginJobs ==
  ASSUME TypeOK, NEW p \in Procs, NEW first \in Job, Begin(p, first)
  PROVE  /\ job' \in [Procs -> Job] /\ job[p] = Idle
         /\ job'[p].at = first.at /\ job'[p].op = first.op
         /\ job'[p].alone = (job[Other(p)] = Idle)
         /\ \A q \in Procs : q # p => /\ job'[q].at = job[q].at /\ job'[q].op = job[q].op
                                      /\ job'[q].from = job[q].from
                                      /\ ~job'[q].alone
                                      /\ job[q] = Idle => job'[q] = Idle
<1> DEFINE alone == (job[Other(p)] = Idle)
<1>1. /\ [first EXCEPT !.alone = alone] \in Job
      /\ [first EXCEPT !.alone = alone].at = first.at
      /\ [first EXCEPT !.alone = alone].op = first.op
      /\ [first EXCEPT !.alone = alone].alone = alone
  BY DEF Job
<1>2. \A q \in Procs : LET w == [job[q] EXCEPT !.alone = FALSE] IN
        /\ w \in Job /\ w.at = job[q].at /\ w.op = job[q].op /\ w.from = job[q].from /\ ~w.alone
  BY DEF TypeOK, Job
<1>3. [Idle EXCEPT !.alone = FALSE] = Idle
  <2>1. \A r \in Job : r.alone = FALSE => [r EXCEPT !.alone = FALSE] = r
    BY DEF Job
  <2> QED BY <2>1, IdleTyped
<1>4. job' = [q \in Procs |-> IF q = p THEN [first EXCEPT !.alone = alone]
                                       ELSE [job[q] EXCEPT !.alone = FALSE]]
  BY DEF Begin
<1>5. job[p] = Idle
  BY DEF Begin
<1> HIDE DEF alone
<1>6. job'[p] = [first EXCEPT !.alone = alone]
  BY <1>4
<1>7. \A q \in Procs : q # p => job'[q] = [job[q] EXCEPT !.alone = FALSE]
  BY <1>4
<1>8. job' \in [Procs -> Job]
  BY <1>1, <1>2, <1>4
<1>9. job'[p].alone = (job[Other(p)] = Idle)
  BY <1>1, <1>6 DEF alone
<1>10. ASSUME NEW q \in Procs, q # p
      PROVE  /\ job'[q].at = job[q].at /\ job'[q].op = job[q].op
             /\ job'[q].from = job[q].from /\ ~job'[q].alone
             /\ job[q] = Idle => job'[q] = Idle
  <2>1. job'[q] = [job[q] EXCEPT !.alone = FALSE]
    BY <1>7, <1>10
  <2>2. job[q] = Idle => job'[q] = Idle
    BY <2>1, <1>3
  <2> QED BY <1>2, <2>1, <2>2
<1> QED BY <1>1, <1>5, <1>6, <1>8, <1>9, <1>10

\* The daemon's process ends.
LEMMA StopJobs ==
  ASSUME TypeOK, NEW at, NEW runs, NEW after \in [Procs -> Job], Stop(at, runs, after)
  PROVE  /\ job' \in [Procs -> Job] /\ job'["daemon"] = Idle /\ job'["command"] = after["command"]
         /\ writing' \in [Procs -> Paths \cup {"none"}]
         /\ writing'["daemon"] = "none" /\ writing'["command"] = writing["command"]
         /\ daemon'.at = at /\ daemon'.runs = runs /\ pending' = FALSE
<1>1. job' = [after EXCEPT !["daemon"] = Idle] /\ pending' = FALSE
  BY DEF Stop
<1>2. writing' = [writing EXCEPT !["daemon"] = "none"] /\ writing \in [Procs -> Paths \cup {"none"}]
  BY DEF Stop, TypeOK
<1>3. daemon' = [at |-> at, runs |-> runs]
  BY DEF Stop
<1>4. daemon'.at = at /\ daemon'.runs = runs
  BY <1>3
<1>5. "daemon" \in Procs /\ "command" \in Procs
  BY DEF Procs
<1>6. /\ job' \in [Procs -> Job] /\ job'["daemon"] = Idle /\ job'["command"] = after["command"]
  BY <1>1, <1>5, IdleTyped
<1>7. /\ writing' \in [Procs -> Paths \cup {"none"}]
      /\ writing'["daemon"] = "none" /\ writing'["command"] = writing["command"]
  BY <1>2, <1>5
<1> QED BY <1>1, <1>4, <1>6, <1>7
-----------------------------------------------------------------------------
(* Types *)

\* The first jobs of a handler and a command.
LEMMA FirstJobs ==
  /\ [Idle EXCEPT !.op = "upload", !.at = "write"] \in Job
  /\ \A force \in BOOLEAN : [Idle EXCEPT !.op = "install", !.at = "verify", !.force = force] \in Job
  /\ [Idle EXCEPT !.op = "rollback", !.at = "copyback"] \in Job
BY DEF Idle, Job, Ops, Steps, Contents

LEMMA FirstSteps ==
  /\ [Idle EXCEPT !.op = "upload", !.at = "write"].at = "write"
  /\ [Idle EXCEPT !.op = "upload", !.at = "write"].op = "upload"
  /\ \A force \in BOOLEAN :
       /\ [Idle EXCEPT !.op = "install", !.at = "verify", !.force = force].at = "verify"
       /\ [Idle EXCEPT !.op = "install", !.at = "verify", !.force = force].op = "install"
  /\ [Idle EXCEPT !.op = "rollback", !.at = "copyback"].at = "copyback"
  /\ [Idle EXCEPT !.op = "rollback", !.at = "copyback"].op = "rollback"
BY DEF Idle

LEMMA TypesInit == Init => TypeOK
<1> SUFFICES ASSUME Init PROVE TypeOK
  OBVIOUS
<1>1. First \in Versions /\ First \in Contents /\ "absent" \in Contents
  BY UpgradeAssumption DEF Contents
<1>2. file \in [Paths -> Contents] /\ daemon \in [at : {"serve", "boot", "down"}, runs : Versions]
  BY <1>1 DEF Init
<1>3. used \in [uploads : 0..MaxUploads, commands : 0..MaxCommands, crashes : 0..MaxCrashes]
  <2>1. 0 \in 0..MaxUploads /\ 0 \in 0..MaxCommands /\ 0 \in 0..MaxCrashes
    BY UpgradeAssumption
  <2> QED BY <2>1 DEF Init
<1>4. job \in [Procs -> Job] /\ writing \in [Procs -> Paths \cup {"none"}]
  BY IdleTyped DEF Init
<1>5. tries \in 0..2
  BY DEF Init
<1>7. pending \in BOOLEAN /\ forced \in BOOLEAN /\ raced \in BOOLEAN
  BY Zenon DEF Init
<1>6. writable \in BOOLEAN /\ systemd \in BOOLEAN
  BY DEF Init
<1> QED BY <1>2, <1>3, <1>4, <1>5, <1>6, <1>7 DEF TypeOK

\* Bounds are kept by counting below them.
LEMMA UseTyped ==
  ASSUME TypeOK
  PROVE  /\ used.uploads < MaxUploads /\ Use("uploads") =>
              used' \in [uploads : 0..MaxUploads, commands : 0..MaxCommands, crashes : 0..MaxCrashes]
         /\ used.commands < MaxCommands /\ Use("commands") =>
              used' \in [uploads : 0..MaxUploads, commands : 0..MaxCommands, crashes : 0..MaxCrashes]
         /\ used.crashes < MaxCrashes /\ Use("crashes") =>
              used' \in [uploads : 0..MaxUploads, commands : 0..MaxCommands, crashes : 0..MaxCrashes]
<1> DEFINE T == [uploads : 0..MaxUploads, commands : 0..MaxCommands, crashes : 0..MaxCrashes]
<1>1. used \in T
  BY DEF TypeOK
<1>2. /\ used.uploads < MaxUploads => [used EXCEPT !["uploads"] = @ + 1] \in T
      /\ used.commands < MaxCommands => [used EXCEPT !["commands"] = @ + 1] \in T
      /\ used.crashes < MaxCrashes => [used EXCEPT !["crashes"] = @ + 1] \in T
  BY <1>1, UpgradeAssumption
<1> QED BY <1>2 DEF Use

LEMMA UploadTyped ==
  ASSUME TypeOK, Upload \/ UploadFails \/ Check \/ \E b \in Versions \cup Junk : Uploaded(b)
  PROVE  TypeOK'
<1>0. "daemon" \in Procs /\ "staged" \in Paths /\ {"absent", "torn"} \subseteq Contents
  BY DEF Procs, Paths, Contents
<1>1. CASE Upload
  <2>1. Begin("daemon", [Idle EXCEPT !.op = "upload", !.at = "write"])
    BY <1>1 DEF Upload
  <2>2. job' \in [Procs -> Job]
    BY <1>0, <2>1, FirstJobs, BeginJobs
  <2> QED BY <1>0, <1>1, <2>2, UseTyped DEF TypeOK, Upload, fixed, history
<1>2. CASE UploadFails
  <2>1. job' \in [Procs -> Job]
    BY <1>0, <1>2, EndJobs DEF UploadFails
  <2> QED BY <1>0, <1>2, <2>1 DEF TypeOK, UploadFails, Remove, fixed, history
<1>3. CASE Check
  <2>1. job' \in [Procs -> Job]
    BY <1>0, <1>3, EndJobs DEF Check
  <2> QED BY <1>0, <1>3, <2>1 DEF TypeOK, Check, Remove, fixed, history
<1>4. ASSUME NEW b \in Versions \cup Junk, Uploaded(b) PROVE TypeOK'
  <2>1. job' \in [Procs -> Job]
    BY <1>0, <1>4, GotoJobs DEF Uploaded, Steps
  <2>2. b \in Contents
    BY DEF Contents
  <2> QED BY <1>0, <1>4, <2>1, <2>2 DEF TypeOK, Uploaded, fixed, history
<1> QED BY <1>1, <1>2, <1>3, <1>4

LEMMA SourceTyped ==
  ASSUME TypeOK, NEW p \in Procs,
         (\E force \in BOOLEAN : Install(p, force)) \/ Rollback(p) \/ CopyBack(p) \/ Verify(p)
  PROVE  TypeOK'
<1>0. {"staged", "rollback", "old"} \subseteq Paths /\ {"absent", "torn"} \subseteq Contents
  BY DEF Paths, Contents
<1>1. ASSUME NEW force \in BOOLEAN, Install(p, force) PROVE TypeOK'
  <2>1. Begin(p, [Idle EXCEPT !.op = "install", !.at = "verify", !.force = force])
    BY <1>1 DEF Install
  <2>2. job' \in [Procs -> Job]
    BY <2>1, FirstJobs, BeginJobs
  <2>3. used' \in [uploads : 0..MaxUploads, commands : 0..MaxCommands, crashes : 0..MaxCrashes]
    BY <1>1, UseTyped DEF Install, MayBegin, TypeOK
  <2> QED BY <1>0, <1>1, <2>2, <2>3 DEF TypeOK, Install, fixed, history
<1>2. CASE Rollback(p)
  <2>1. Begin(p, [Idle EXCEPT !.op = "rollback", !.at = "copyback"])
    BY <1>2 DEF Rollback
  <2>2. job' \in [Procs -> Job]
    BY <2>1, FirstJobs, BeginJobs
  <2>3. used' \in [uploads : 0..MaxUploads, commands : 0..MaxCommands, crashes : 0..MaxCrashes]
    BY <1>2, UseTyped DEF Rollback, MayBegin, TypeOK
  <2> QED BY <1>0, <1>2, <2>2, <2>3 DEF TypeOK, Rollback, fixed, history
<1>3. CASE CopyBack(p)
  <2>1. job' \in [Procs -> Job]
    BY <1>3, GotoJobs, EndJobs DEF CopyBack, Steps
  <2>2. file' \in [Paths -> Contents]
    BY <1>0, <1>3 DEF TypeOK, CopyBack
  <2> QED BY <1>0, <1>3, <2>1, <2>2 DEF TypeOK, CopyBack, fixed, history
<1>4. CASE Verify(p)
  <2>1. file[Src(p)] \in Contents
    BY PathsDiffer DEF TypeOK
  <2>2. job' \in [Procs -> Job]
    BY <1>4, <2>1, VerifyJobs, EndJobs DEF Verify
  <2>3. job[p].force \in BOOLEAN
    BY DEF TypeOK, Job
  <2>4. file' \in [Paths -> Contents] /\ forced' \in BOOLEAN
    BY <1>0, <1>4, <2>3 DEF TypeOK, Verify, Remove
  <2> QED BY <1>4, <2>2, <2>4 DEF TypeOK, Verify, fixed
<1> QED BY <1>1, <1>2, <1>3, <1>4

LEMMA AbandonTyped ==
  ASSUME TypeOK, NEW p \in Procs, Abandon(p)
  PROVE  job' \in [Procs -> Job] /\ file' \in [Paths -> Contents]
BY EndJobs DEF TypeOK, Abandon, Remove, Contents, Paths

LEMMA SwapTyped ==
  ASSUME TypeOK, NEW p \in Procs,
         Copy(p) \/ Copied(p) \/ Move(p) \/ Place(p) \/ PlaceFails(p) \/ PutBack(p)
  PROVE  TypeOK'
<1>0. {"exe", "old", "rollback"} \subseteq Paths /\ {"absent", "torn"} \subseteq Contents
  BY DEF Paths, Contents
<1>a. job[p].from \in Contents /\ job[p].alone \in BOOLEAN
  BY DEF TypeOK, Job
<1>1. CASE Copy(p)
  <2>1. file["exe"] \in Contents
    BY <1>0 DEF TypeOK
  <2>2. job' \in [Procs -> Job] /\ file' \in [Paths -> Contents]
    BY <1>0, <1>1, <2>1, CopyJobs, AbandonTyped DEF Copy, TypeOK
  <2>3. tries' \in 0..2
    BY <1>1 DEF TypeOK, Copy
  <2> QED BY <1>1, <2>2, <2>3 DEF TypeOK, Copy, fixed
<1>2. CASE Copied(p)
  <2>1. job' \in [Procs -> Job] /\ file' \in [Paths -> Contents]
    BY <1>0, <1>a, <1>2, GotoJobs, AbandonTyped DEF Copied, TypeOK, Steps
  <2> QED BY <1>2, <2>1 DEF TypeOK, Copied, fixed, history
<1>3. CASE Move(p)
  <2>1. job' \in [Procs -> Job]
    BY <1>3, GotoJobs, AbandonTyped DEF Move, Steps
  <2>2. file' \in [Paths -> Contents] /\ writing' \in [Procs -> Paths \cup {"none"}]
    BY <1>0, <1>3, AbandonTyped, PathsDiffer DEF TypeOK, Move, Rename
  <2> QED BY <1>3, <2>1, <2>2 DEF TypeOK, Move, fixed, history
<1>4. CASE Place(p)
  <2>1. job' \in [Procs -> Job] /\ pending' \in BOOLEAN
    BY <1>4, GotoJobs, EndJobs DEF Place, Steps, TypeOK
  <2>2. PICK kept \in {file[Parked(p)], "absent"} :
          file' = [file EXCEPT ![Src(p)] = "absent", !["exe"] = file[Src(p)], ![Parked(p)] = kept]
    BY <1>4 DEF Place
  <2>3. file[Src(p)] \in Contents /\ kept \in Contents
    BY <1>0, PathsDiffer DEF TypeOK
  <2>4. file' \in [Paths -> Contents]
    BY <1>0, <2>2, <2>3 DEF TypeOK
  <2>5. writing' \in [Procs -> Paths \cup {"none"}] /\ raced' \in BOOLEAN
    BY <1>0, <1>a, <1>4 DEF TypeOK, Place
  <2> QED BY <1>4, <2>1, <2>4, <2>5 DEF TypeOK, Place, fixed
<1>5. CASE PlaceFails(p)
  <2>1. job' \in [Procs -> Job]
    BY <1>5, GotoJobs DEF PlaceFails, Steps
  <2> QED BY <1>5, <2>1 DEF TypeOK, PlaceFails, fixed, history
<1>6. CASE PutBack(p)
  <2>1. job' \in [Procs -> Job]
    BY <1>6, EndJobs DEF PutBack
  <2>2. file[Parked(p)] \in Contents
    BY PathsDiffer DEF TypeOK
  <2>3. file' \in [Paths -> Contents] /\ writing' \in [Procs -> Paths \cup {"none"}]
    BY <1>0, <1>6, <2>2 DEF TypeOK, PutBack
  <2> QED BY <1>6, <2>1, <2>3 DEF TypeOK, PutBack, fixed, history
<1> QED BY <1>1, <1>2, <1>3, <1>4, <1>5, <1>6

LEMMA StopTyped ==
  ASSUME TypeOK, NEW at \in {"serve", "boot", "down"}, NEW runs \in Versions,
         NEW after \in [Procs -> Job], Stop(at, runs, after)
  PROVE  /\ job' \in [Procs -> Job] /\ pending' \in BOOLEAN
         /\ writing' \in [Procs -> Paths \cup {"none"}]
         /\ daemon' \in [at : {"serve", "boot", "down"}, runs : Versions]
<1>1. daemon' = [at |-> at, runs |-> runs]
  BY DEF Stop
<1> QED BY <1>1, StopJobs

LEMMA StartedTyped ==
  ASSUME TypeOK, Started
  PROVE  tries' \in 0..2 /\ raced' \in BOOLEAN
BY DEF Started, TypeOK

LEMMA RestartsTyped ==
  ASSUME TypeOK, Restart \/ RestartService \/ Start \/ Boot \/ \E p \in Procs : Crash(p)
  PROVE  TypeOK'
<1>0. daemon.runs \in Versions /\ "command" \in Procs /\ job \in [Procs -> Job]
  BY DEF TypeOK, Procs
<1>1. CASE Restart
  <2>1. CASE file["exe"] \in Versions
    <3>1. Stop("boot", file["exe"], job) /\ Started
      BY <1>1, <2>1 DEF Restart
    <3> QED BY <1>0, <1>1, <2>1, <3>1, StopTyped, StartedTyped DEF TypeOK, Restart, fixed
  <2>2. CASE file["exe"] \notin Versions /\ Stop("down", daemon.runs, job) /\ UNCHANGED <<tries, raced>>
    BY <1>0, <1>1, <2>2, StopTyped DEF TypeOK, Restart, fixed
  <2>3. CASE file["exe"] \notin Versions /\ pending' = FALSE /\ UNCHANGED <<daemon, job, writing, tries, raced>>
    BY <1>0, <1>1, <2>3 DEF TypeOK, Restart, fixed
  <2> QED BY <1>1, <2>1, <2>2, <2>3 DEF Restart
<1>2. CASE RestartService
  <2>1. CASE systemd
    <3>1. [job EXCEPT !["command"] = Idle] \in [Procs -> Job]
      BY <1>0, IdleTyped
    <3>2. Stop("down", daemon.runs, [job EXCEPT !["command"] = Idle])
      BY <1>2, <2>1 DEF RestartService
    <3> QED BY <1>0, <1>2, <3>1, <3>2, StopTyped DEF TypeOK, RestartService, fixed, history
  <2>2. CASE ~systemd
    BY <1>0, <1>2, <2>2, EndJobs DEF TypeOK, RestartService, fixed, history
  <2> QED BY <2>1, <2>2
<1>3. CASE Start
  BY <1>3, StartedTyped DEF TypeOK, Start, fixed
<1>4. CASE Boot
  <2>1. daemon' \in [at : {"serve", "boot", "down"}, runs : Versions]
    BY <1>4 DEF Boot, TypeOK
  <2>2. file' \in [Paths -> Contents]
    BY <1>4 DEF Boot, TypeOK, Contents
  <2>3. writing' \in [Procs -> Paths \cup {"none"}]
    BY <1>4 DEF Boot, TypeOK
  <2> QED BY <1>4, <2>1, <2>2, <2>3 DEF TypeOK, Boot, fixed, history
<1>5. ASSUME NEW p \in Procs, Crash(p) PROVE TypeOK'
  <2>1. used' \in [uploads : 0..MaxUploads, commands : 0..MaxCommands, crashes : 0..MaxCrashes]
    BY <1>5, UseTyped DEF Crash
  <2>2. CASE p = "daemon"
    <3>1. Stop("down", daemon.runs, job)
      BY <1>5, <2>2 DEF Crash
    <3> QED BY <1>0, <1>5, <2>1, <3>1, StopTyped DEF TypeOK, Crash, fixed, history
  <2>3. CASE p # "daemon"
    BY <1>0, <1>5, <2>1, <2>3, EndJobs DEF TypeOK, Crash, fixed, history
  <2> QED BY <2>2, <2>3
<1> QED BY <1>1, <1>2, <1>3, <1>4, <1>5

LEMMA TypesKept == TypeOK /\ [Next]_vars => TypeOK'
<1> SUFFICES ASSUME TypeOK, [Next]_vars PROVE TypeOK'
  OBVIOUS
<1>1. CASE UNCHANGED vars
  BY <1>1 DEF TypeOK, vars
<1>2. CASE Next
  BY <1>2, UploadTyped, SourceTyped, SwapTyped, RestartsTyped DEF Next, Replace
<1> QED BY <1>1, <1>2

\* Types: every file is a binary, another upload, cut off or absent, and the
\* daemon never runs anything but a version.
THEOREM UpgradeTypes == Spec => []TypeOK
<1>1. TypeOK /\ [Next]_vars => TypeOK'
  BY TypesKept
<1> QED BY TypesInit, <1>1, PTL DEF Spec
-----------------------------------------------------------------------------
(* The inductive invariant, in parts. *)

\* A version that may be in place: if it says that it does not read the
\* configuration, one was forced.
Held(c) == c \in Versions /\ (Problem(c) => forced)

Swapping == {"copying", "move", "place", "putback", "restart"}

\* A process that is not copying has no file open; what the daemon's upload is
\* writing leaves its name only in a race.
Writers ==
  /\ \A p \in Procs : writing[p] # "none" => job[p].at \in {"write", "copyback"}
  /\ writing["command"] \in {"none", "rollback"}
  /\ writing["daemon"] \notin {"old", "rollback"}
  /\ ~raced => writing["daemon"] \in {"none", "staged"}

\* Only a daemon that serves has a job, and jobs are what they are.
Workers ==
  /\ daemon.at # "serve" => job["daemon"] = Idle
  /\ job["command"].at # "write"
  /\ \A p \in Procs : job[p].at = "copyback" => job[p].op = "rollback"

\* What a process that is alone has read is still so, or gone.
Lonely(p) ==
  job[p].alone =>
    /\ job[Other(p)] = Idle
    /\ job[p].at = "copyback" => writing[p] \in {Src(p), "none"}
    /\ job[p].at = "copyback" /\ writing[p] = "none" => ~Exists(Src(p))
    /\ job[p].at \in {"copyback", "verify"} /\ job[p].op = "rollback" /\ ~raced =>
         file[Src(p)] \in {"absent", "torn"} \/ Held(file[Src(p)])
    /\ job[p].at \in {"copy", "copying", "move", "place"} =>
         /\ file[Src(p)] \in {"absent", job[p].has} /\ job[p].has \in Versions
         /\ ~raced => Held(job[p].has)

\* Without a race every copy of the binary is one that was held.
Copies ==
  ~raced =>
    /\ \A f \in {"exe", "parkedDaemon", "parkedCommand"} : file[f] = "absent" \/ Held(file[f])
    /\ file["old"] \in {"absent", "torn"} \/ Held(file["old"])
    /\ \A p \in Procs : job[p].at = "copying" => Held(job[p].from)

\* What the daemon runs, and the way back to it.
Untouched ==
  daemon.at # "down" /\ tries = 0 =>
    /\ file["exe"] = daemon.runs /\ writing["daemon"] # "exe"
    /\ \A p \in Procs : job[p].at \notin Swapping
Backup ==
  daemon.at # "down" /\ tries = 1 =>
    /\ file["old"] \in {"torn", daemon.runs}
    /\ \A p \in Procs : job[p].at = "copying" => job[p].from = daemon.runs

\* While the name is without a file, there is a parked one, or the backup;
\* and the backup where the start of the daemon will clear what is parked.
WayBack ==
  ~raced =>
    /\ ~Exists("exe") => \E f \in {"old", "parkedDaemon", "parkedCommand"} : file[f] \in Versions
    /\ daemon.at = "boot" /\ (~Exists("exe") \/ job["command"].at = "move") =>
         file["old"] \in Versions

Parts ==
  /\ Writers /\ Workers /\ (\A p \in Procs : Lonely(p))
  /\ Copies /\ Untouched /\ Backup /\ WayBack

IInv == TypeOK /\ Parts

LEMMA InitParts == Init => Parts
<1> SUFFICES ASSUME Init PROVE Parts
  OBVIOUS
<1>1. /\ \A p \in Procs : job[p] = Idle /\ writing[p] = "none"
      /\ "daemon" \in Procs /\ "command" \in Procs
  BY DEF Init, Procs
<1>2. /\ \A f \in Paths : f # "exe" => file[f] = "absent"
      /\ file["exe"] = First /\ First \in Versions /\ First \in Reads /\ First # "absent"
      /\ daemon.at = "serve" /\ daemon.runs = First /\ tries = 0
  BY UpgradeAssumption DEF Init, Paths
<1>3. Writers /\ Workers
  BY <1>1, <1>2, IdleTyped DEF Writers, Workers
<1>4. \A p \in Procs : Lonely(p)
  BY <1>1, IdleTyped DEF Lonely
<1>5. Copies
  BY <1>1, <1>2, IdleTyped DEF Copies, Held, Problem, Paths
<1>6. Untouched /\ Backup
  BY <1>1, <1>2, IdleTyped DEF Untouched, Backup, Swapping
<1>7. WayBack
  BY <1>1, <1>2 DEF WayBack, Exists
<1> QED BY <1>3, <1>4, <1>5, <1>6, <1>7 DEF Parts

\* What was held stays held: forcing only adds.
LEMMA HeldKept ==
  ASSUME NEW c, Held(c), forced => forced'
  PROVE  Held(c)'
BY DEF Held

LEMMA UploadKeeps ==
  ASSUME IInv, Upload
  PROVE  Parts'
<1> DEFINE first == [Idle EXCEPT !.op = "upload", !.at = "write"]
<1>0. TypeOK /\ "daemon" \in Procs /\ "command" \in Procs /\ Other("daemon") = "command" /\ Other("command") = "daemon"
  BY DEF IInv, Procs, Other
<1>1. first \in Job /\ first.at = "write" /\ first.op = "upload" /\ Begin("daemon", first)
  BY FirstJobs, FirstSteps DEF Upload
<1> HIDE DEF first
<1>2. /\ job["daemon"] = Idle /\ job'["daemon"].at = "write" /\ job'["daemon"].op = "upload"
      /\ job'["daemon"].alone = (job["command"] = Idle)
      /\ job'["command"].at = job["command"].at /\ job'["command"].op = job["command"].op
      /\ job'["command"].from = job["command"].from /\ ~job'["command"].alone
      /\ job["command"] = Idle => job'["command"] = Idle
  BY <1>0, <1>1, BeginJobs
<1>3. /\ \A f \in Paths : file'[f] = IF f = "staged" THEN "torn" ELSE file[f]
      /\ writing'["daemon"] = "staged" /\ writing'["command"] = writing["command"]
      /\ daemon' = daemon /\ daemon.at = "serve" /\ tries' = tries /\ forced' = forced /\ raced' = raced
  BY <1>0 DEF Upload, Serving, TypeOK, history
<1>4. \A p \in Procs : p = "daemon" \/ p = "command"
  BY DEF Procs
<1>5. Writers'
  BY <1>0, <1>2, <1>3, <1>4 DEF IInv, Parts, Writers
<1>6. Workers'
  BY <1>0, <1>2, <1>3, <1>4 DEF IInv, Parts, Workers
<1>7. \A p \in Procs : Lonely(p)'
  BY <1>0, <1>2, <1>4 DEF Lonely
<1>8. Copies'
  BY <1>0, <1>2, <1>3, <1>4 DEF IInv, Parts, Copies, Held, Paths
<1>9. Untouched' /\ Backup'
  BY <1>0, <1>2, <1>3, <1>4 DEF IInv, Parts, Untouched, Backup, Swapping, Paths
<1>10. WayBack'
  BY <1>0, <1>2, <1>3 DEF IInv, Parts, WayBack, Exists, Paths
<1> QED BY <1>5, <1>6, <1>7, <1>8, <1>9, <1>10 DEF Parts
\* The processes, and the names of their files.
LEMMA Names ==
  /\ "daemon" \in Procs /\ "command" \in Procs
  /\ \A p \in Procs : p = "daemon" \/ p = "command"
  /\ Other("daemon") = "command" /\ Other("command") = "daemon"
  /\ Parked("daemon") = "parkedDaemon" /\ Parked("command") = "parkedCommand"
  /\ Src("daemon") = "staged" /\ Src("command") \in {"staged", "rollback"}
  /\ \A p \in Procs : /\ Other(p) \in Procs /\ Other(p) # p /\ Other(Other(p)) = p
                        /\ Parked(p) \in {"parkedDaemon", "parkedCommand"}
                        /\ Src(p) \in {"staged", "rollback"}
  /\ \A c : Held(c) => c \in Versions /\ c # "absent" /\ c # "torn"
BY UpgradeAssumption DEF Procs, Other, Parked, Src, Held

LEMMA UploadedKeeps ==
  ASSUME IInv, NEW b \in Versions \cup Junk, Uploaded(b)
  PROVE  Parts'
<1>0. TypeOK
  BY DEF IInv
<1>1. /\ job["daemon"].at = "write" /\ job'["daemon"].at = "check" /\ job'["daemon"].op = job["daemon"].op
      /\ job'["daemon"].alone = job["daemon"].alone /\ job'["command"] = job["command"]
      /\ job["daemon"] # Idle
  BY <1>0, Names, GotoJobs, IdleTyped DEF Uploaded, At, Steps
<1>2. /\ \A f \in Paths : f # writing["daemon"] => file'[f] = file[f]
      /\ writing'["daemon"] = "none" /\ writing'["command"] = writing["command"]
      /\ daemon' = daemon /\ tries' = tries /\ forced' = forced /\ raced' = raced
  BY <1>0, Names DEF Uploaded, TypeOK, history
<1>3. Writers'
  BY <1>0, <1>1, <1>2, Names DEF IInv, Parts, Writers
<1>4. Workers'
  BY <1>0, <1>1, <1>2, Names DEF IInv, Parts, Workers
<1>5. \A r \in Procs : Lonely(r)'
  BY <1>0, <1>1, <1>2, Names DEF IInv, Parts, Lonely, Held, Exists, Paths, Src
<1>6. Copies'
  BY <1>0, <1>1, <1>2, Names DEF IInv, Parts, Writers, Copies, Held, Paths
<1>7. Untouched'
  BY <1>0, <1>1, <1>2, Names DEF IInv, Parts, Writers, Untouched, Swapping, Paths
<1>8. Backup'
  BY <1>0, <1>1, <1>2, Names DEF IInv, Parts, Writers, Untouched, Backup, Swapping, Paths
<1>9. WayBack'
  BY <1>0, <1>1, <1>2, Names DEF IInv, Parts, Writers, Workers, Copies, Held, WayBack, Exists, Paths
<1> QED BY <1>3, <1>4, <1>5, <1>6, <1>7, <1>8, <1>9 DEF Parts

LEMMA UploadFailsKeeps ==
  ASSUME IInv, UploadFails
  PROVE  Parts'
<1>0. TypeOK
  BY DEF IInv
<1>1. /\ job["daemon"].at = "write" /\ job'["daemon"] = Idle /\ job'["command"] = job["command"]
      /\ job["daemon"] # Idle /\ job'["daemon"].at = "none" /\ ~job'["daemon"].alone
  BY <1>0, Names, EndJobs, IdleTyped DEF UploadFails, At
<1>2. /\ \A f \in Paths : file'[f] = IF f = "staged" THEN "absent" ELSE file[f]
      /\ writing'["daemon"] = "none" /\ writing'["command"] = writing["command"]
      /\ daemon' = daemon /\ tries' = tries /\ forced' = forced /\ raced' = raced
  BY <1>0, Names DEF UploadFails, Remove, TypeOK, history
<1>3. Writers'
  BY <1>0, <1>1, <1>2, Names DEF IInv, Parts, Writers
<1>4. Workers'
  BY <1>0, <1>1, <1>2, Names DEF IInv, Parts, Workers
<1>5. \A r \in Procs : Lonely(r)'
  BY <1>0, <1>1, <1>2, Names DEF IInv, Parts, Lonely, Held, Exists, Paths, Src
<1>6. Copies'
  BY <1>0, <1>1, <1>2, Names DEF IInv, Parts, Writers, Copies, Held, Paths
<1>7. Untouched'
  BY <1>0, <1>1, <1>2, Names DEF IInv, Parts, Writers, Untouched, Swapping, Paths
<1>8. Backup'
  BY <1>0, <1>1, <1>2, Names DEF IInv, Parts, Writers, Untouched, Backup, Swapping, Paths
<1>9. WayBack'
  BY <1>0, <1>1, <1>2, Names DEF IInv, Parts, Writers, Workers, Copies, Held, WayBack, Exists, Paths
<1> QED BY <1>3, <1>4, <1>5, <1>6, <1>7, <1>8, <1>9 DEF Parts

LEMMA CheckKeeps ==
  ASSUME IInv, Check
  PROVE  Parts'
<1>0. TypeOK
  BY DEF IInv
<1>1. /\ job["daemon"].at = "check" /\ job'["daemon"] = Idle /\ job'["command"] = job["command"]
      /\ job["daemon"] # Idle /\ job'["daemon"].at = "none" /\ ~job'["daemon"].alone
  BY <1>0, Names, EndJobs, IdleTyped DEF Check, At
<1>2. /\ \A f \in Paths : f # "staged" => file'[f] = file[f]
      /\ writing' = writing
      /\ daemon' = daemon /\ tries' = tries /\ forced' = forced /\ raced' = raced
  BY <1>0, Names DEF Check, Remove, TypeOK, history
<1>3. Writers'
  BY <1>0, <1>1, <1>2, Names DEF IInv, Parts, Writers
<1>4. Workers'
  BY <1>0, <1>1, <1>2, Names DEF IInv, Parts, Workers
<1>5. \A r \in Procs : Lonely(r)'
  BY <1>0, <1>1, <1>2, Names DEF IInv, Parts, Lonely, Held, Exists, Paths, Src
<1>6. Copies'
  BY <1>0, <1>1, <1>2, Names DEF IInv, Parts, Writers, Copies, Held, Paths
<1>7. Untouched'
  BY <1>0, <1>1, <1>2, Names DEF IInv, Parts, Writers, Untouched, Swapping, Paths
<1>8. Backup'
  BY <1>0, <1>1, <1>2, Names DEF IInv, Parts, Writers, Untouched, Backup, Swapping, Paths
<1>9. WayBack'
  BY <1>0, <1>1, <1>2, Names DEF IInv, Parts, Writers, Workers, Copies, Held, WayBack, Exists, Paths
<1> QED BY <1>3, <1>4, <1>5, <1>6, <1>7, <1>8, <1>9 DEF Parts

LEMMA InstallKeeps ==
  ASSUME IInv, NEW p \in Procs, NEW force \in BOOLEAN, Install(p, force)
  PROVE  Parts'
<1>0. TypeOK
  BY DEF IInv
<1>1. Begin(p, [Idle EXCEPT !.op = "install", !.at = "verify", !.force = force])
  BY DEF Install
<1>2. /\ job'[p].at = "verify" /\ job'[p].op = "install" /\ job[p] = Idle
      /\ job'[p].alone = (job[Other(p)] = Idle)
      /\ \A q \in Procs : q # p => /\ job'[q].at = job[q].at /\ job'[q].op = job[q].op
                                   /\ job'[q].from = job[q].from /\ ~job'[q].alone
                                   /\ job[q] = Idle => job'[q] = Idle
  BY <1>0, <1>1, FirstJobs, FirstSteps, BeginJobs
<1>3. /\ file' = file /\ writing' = writing /\ (p = "daemon" => daemon.at = "serve")
      /\ daemon' = daemon /\ tries' = tries /\ forced' = forced /\ raced' = raced
  BY DEF Install, MayBegin, Serving, history
<1>4. writing[p] = "none"
  BY <1>0, <1>2, Names, IdleTyped DEF IInv, Parts, Writers
<1>5. Writers'
  BY <1>0, <1>1, <1>2, <1>3, <1>4, Names DEF IInv, Parts, Writers
<1>6. Workers'
  BY <1>0, <1>1, <1>2, <1>3, <1>4, Names DEF IInv, Parts, Workers
<1>7. \A r \in Procs : Lonely(r)'
  <2>1. ASSUME NEW r \in Procs, r # p PROVE ~job'[r].alone
    BY <1>0, <1>1, <1>2, <1>3, <1>4, Names, <2>1
  <2>2. Lonely(p)'
    BY <1>0, <1>1, <1>2, <1>3, <1>4, Names DEF Lonely
  <2>3. ASSUME NEW r \in Procs, r # p PROVE Lonely(r)'
    BY <2>1, <2>3 DEF Lonely
  <2> QED BY <2>2, <2>3
<1>8. Copies'
  BY <1>0, <1>1, <1>2, <1>3, <1>4, Names DEF IInv, Parts, Writers, Copies, Held, Paths
<1>9. Untouched'
  BY <1>0, <1>1, <1>2, <1>3, <1>4, Names DEF IInv, Parts, Writers, Untouched, Swapping, Paths
<1>10. Backup'
  BY <1>0, <1>1, <1>2, <1>3, <1>4, Names DEF IInv, Parts, Writers, Untouched, Backup, Swapping, Paths
<1>11. WayBack'
  BY <1>0, <1>1, <1>2, <1>3, <1>4, Names DEF IInv, Parts, Writers, Workers, Copies, Held, WayBack, Exists, Paths
<1> QED BY <1>5, <1>6, <1>7, <1>8, <1>9, <1>10, <1>11 DEF Parts

LEMMA RollbackKeeps ==
  ASSUME IInv, NEW p \in Procs, Rollback(p)
  PROVE  Parts'
<1>0. TypeOK
  BY DEF IInv
<1>1. Begin(p, [Idle EXCEPT !.op = "rollback", !.at = "copyback"])
  BY DEF Rollback
<1>2. /\ job'[p].at = "copyback" /\ job'[p].op = "rollback" /\ job[p] = Idle
      /\ job'[p].alone = (job[Other(p)] = Idle)
      /\ \A q \in Procs : q # p => /\ job'[q].at = job[q].at /\ job'[q].op = job[q].op
                                   /\ job'[q].from = job[q].from /\ ~job'[q].alone
                                   /\ job[q] = Idle => job'[q] = Idle
  BY <1>0, <1>1, FirstJobs, FirstSteps, BeginJobs
<1>3. Src(p)' = IF p = "command" THEN "rollback" ELSE "staged"
  BY <1>2 DEF Src
<1>4. /\ \A f \in Paths : file'[f] = IF f = Src(p)' THEN "torn" ELSE file[f]
      /\ writing'[p] = Src(p)' /\ \A q \in Procs : q # p => writing'[q] = writing[q]
      /\ (p = "daemon" => daemon.at = "serve")
      /\ daemon' = daemon /\ tries' = tries /\ forced' = forced /\ raced' = raced
  BY <1>0, <1>3, Names DEF Rollback, MayBegin, Serving, TypeOK, history
<1>5. Src(p)' \in {"staged", "rollback"} /\ (job'[Other(p)] = Idle \/ ~job'[p].alone)
  BY <1>2, <1>3, Names
<1>6. Writers'
  BY <1>0, <1>1, <1>2, <1>3, <1>4, <1>5, Names DEF IInv, Parts, Writers
<1>7. Workers'
  BY <1>0, <1>1, <1>2, <1>3, <1>4, <1>5, Names DEF IInv, Parts, Workers
<1>8. \A r \in Procs : Lonely(r)'
  BY <1>0, <1>1, <1>2, <1>3, <1>4, <1>5, Names DEF IInv, Parts, Lonely, Held, Exists, Paths, Src
<1>9. Copies'
  BY <1>0, <1>1, <1>2, <1>3, <1>4, <1>5, Names DEF IInv, Parts, Writers, Copies, Held, Paths
<1>10. Untouched'
  BY <1>0, <1>1, <1>2, <1>3, <1>4, <1>5, Names DEF IInv, Parts, Writers, Untouched, Swapping, Paths
<1>11. Backup'
  BY <1>0, <1>1, <1>2, <1>3, <1>4, <1>5, Names DEF IInv, Parts, Writers, Untouched, Backup, Swapping, Paths
<1>12. WayBack'
  BY <1>0, <1>1, <1>2, <1>3, <1>4, <1>5, Names DEF IInv, Parts, Writers, Workers, Copies, Held, WayBack, Exists, Paths
<1> QED BY <1>6, <1>7, <1>8, <1>9, <1>10, <1>11, <1>12 DEF Parts

LEMMA CopyBackKeeps ==
  ASSUME IInv, NEW p \in Procs, CopyBack(p), Goto(p, "verify")
  PROVE  Parts'
<1>0. TypeOK
  BY DEF IInv
<1>1. job[p].at = "copyback" /\ job[p] # Idle /\ job[p].op = "rollback"
  BY <1>0, Names, IdleTyped DEF CopyBack, At, IInv, Parts, Workers
<1>2. /\ job'[p].at = "verify" /\ job'[p].op = job[p].op /\ job'[p].has = job[p].has
      /\ job'[p].from = job[p].from /\ job'[p].alone = job[p].alone
      /\ \A q \in Procs : q # p => job'[q] = job[q]
      /\ Src(p)' = Src(p)
  BY <1>0, GotoJobs DEF Steps, Src
<1>3. \/ \A f \in Paths : file'[f] = IF f = writing[p] THEN file["old"] ELSE file[f]
      \/ \A f \in Paths : file'[f] = file[f]
  BY DEF CopyBack
<1>4. /\ writing'[p] = "none" /\ \A q \in Procs : q # p => writing'[q] = writing[q]
      /\ daemon' = daemon /\ tries' = tries /\ forced' = forced /\ raced' = raced
  BY <1>0, Names DEF CopyBack, TypeOK, history
<1>5. Writers'
  BY <1>0, <1>1, <1>2, <1>3, <1>4, Names DEF IInv, Parts, Writers
<1>6. Workers'
  BY <1>0, <1>1, <1>2, <1>3, <1>4, Names DEF IInv, Parts, Workers
<1>7. \A r \in Procs : Lonely(r)'
  <2>1. Lonely(p)'
    <3> SUFFICES ASSUME job'[p].alone PROVE Lonely(p)'
      BY DEF Lonely
    <3>1. Lonely(p) /\ job[p].alone
      BY <1>0, <1>1, <1>2, <1>3, <1>4, Names DEF IInv, Parts
    <3>2. job'[Other(p)] = Idle /\ (writing[p] = Src(p) \/ writing[p] = "none")
      BY <1>0, <1>1, <1>2, <1>3, <1>4, Names, <3>1 DEF Lonely
    <3>3. ASSUME ~raced' PROVE file'[Src(p)] \in {"absent", "torn"} \/ Held(file'[Src(p)])
      <4>1. file["old"] \in {"absent", "torn"} \/ Held(file["old"])
        BY <1>0, <1>1, <1>2, <1>3, <1>4, Names, <3>3 DEF IInv, Parts, Copies
      <4>2. file'[Src(p)] = file["old"] \/ file'[Src(p)] = file[Src(p)]
        BY <1>0, <1>1, <1>2, <1>3, <1>4, Names DEF Paths
      <4>3. file[Src(p)] \in {"absent", "torn"} \/ Held(file[Src(p)])
        BY <1>0, <1>1, <1>2, <1>3, <1>4, Names, <3>1, <3>3 DEF Lonely
      <4> QED BY <4>1, <4>2, <4>3
    <3> QED BY <1>0, <1>1, <1>2, <1>3, <1>4, Names, <3>2, <3>3 DEF Lonely, Held
  <2>2. ASSUME NEW r \in Procs, r # p PROVE Lonely(r)'
    BY <1>0, <1>1, <1>2, <1>3, <1>4, Names, <2>2 DEF IInv, Parts, Lonely, Held, Exists, Paths, Src
  <2> QED BY <2>1, <2>2
<1>8. Copies'
  BY <1>0, <1>1, <1>2, <1>3, <1>4, Names DEF IInv, Parts, Writers, Copies, Held, Paths
<1>9. Untouched'
  BY <1>0, <1>1, <1>2, <1>3, <1>4, Names DEF IInv, Parts, Writers, Untouched, Swapping, Paths
<1>10. Backup'
  BY <1>0, <1>1, <1>2, <1>3, <1>4, Names DEF IInv, Parts, Writers, Untouched, Backup, Swapping, Paths
<1>11. WayBack'
  BY <1>0, <1>1, <1>2, <1>3, <1>4, Names DEF IInv, Parts, Writers, Workers, Copies, Held, WayBack, Exists, Paths
<1> QED BY <1>5, <1>6, <1>7, <1>8, <1>9, <1>10, <1>11 DEF Parts

LEMMA CopyBackFailsKeeps ==
  ASSUME IInv, NEW p \in Procs, CopyBack(p), End(p), UNCHANGED file
  PROVE  Parts'
<1>0. TypeOK
  BY DEF IInv
<1>1. job[p].at = "copyback" /\ job[p] # Idle
  BY <1>0, Names, IdleTyped DEF CopyBack, At
<1>2. /\ job'[p] = Idle /\ job'[p].at = "none" /\ ~job'[p].alone
      /\ \A q \in Procs : q # p => job'[q] = job[q]
  BY <1>0, EndJobs, IdleTyped
<1>3. /\ file' = file /\ writing'[p] = "none" /\ \A q \in Procs : q # p => writing'[q] = writing[q]
      /\ daemon' = daemon /\ tries' = tries /\ forced' = forced /\ raced' = raced
  BY <1>0, Names DEF CopyBack, TypeOK, history
<1>4. Writers'
  BY <1>0, <1>1, <1>2, <1>3, Names DEF IInv, Parts, Writers
<1>5. Workers'
  BY <1>0, <1>1, <1>2, <1>3, Names DEF IInv, Parts, Workers
<1>6. \A r \in Procs : Lonely(r)'
  BY <1>0, <1>1, <1>2, <1>3, Names DEF IInv, Parts, Lonely, Held, Exists, Paths, Src
<1>7. Copies'
  BY <1>0, <1>1, <1>2, <1>3, Names DEF IInv, Parts, Writers, Copies, Held, Paths
<1>8. Untouched'
  BY <1>0, <1>1, <1>2, <1>3, Names DEF IInv, Parts, Writers, Untouched, Swapping, Paths
<1>9. Backup'
  BY <1>0, <1>1, <1>2, <1>3, Names DEF IInv, Parts, Writers, Untouched, Backup, Swapping, Paths
<1>10. WayBack'
  BY <1>0, <1>1, <1>2, <1>3, Names DEF IInv, Parts, Writers, Workers, Copies, Held, WayBack, Exists, Paths
<1> QED BY <1>4, <1>5, <1>6, <1>7, <1>8, <1>9, <1>10 DEF Parts

LEMMA VerifiedKeeps ==
  ASSUME IInv, NEW p \in Procs, Verify(p), Verified(p)
  PROVE  Parts'
<1>0. TypeOK
  BY DEF IInv
<1>1. job[p].at = "verify" /\ job[p] # Idle /\ file[Src(p)] \in Contents
  BY <1>0, Names, PathsDiffer, IdleTyped DEF Verify, At, TypeOK
<1>2. /\ job'[p].at = "copy" /\ job'[p].op = job[p].op /\ job'[p].has = file[Src(p)]
      /\ job'[p].alone = job[p].alone
      /\ \A q \in Procs : q # p => job'[q] = job[q]
  BY <1>0, <1>1, VerifyJobs DEF Verify
<1>3. /\ file' = file /\ writing' = writing /\ daemon' = daemon /\ tries' = tries /\ raced' = raced
      /\ forced => forced'
  BY DEF Verify
<1>4. Src(p)' = Src(p) /\ file[Src(p)] \in Versions
  BY <1>2 DEF Src, Verified
<1>5. job[p].op # "rollback" => Held(file[Src(p)])'
  BY <1>3, <1>4 DEF Verify, Verified, Held
<1>6. Writers'
  BY <1>0, <1>1, <1>2, <1>3, <1>4, <1>5, Names DEF IInv, Parts, Writers
<1>7. Workers'
  BY <1>0, <1>1, <1>2, <1>3, <1>4, <1>5, Names DEF IInv, Parts, Workers
<1>8. \A r \in Procs : Lonely(r)'
  <2>1. Lonely(p)'
    <3> SUFFICES ASSUME job'[p].alone PROVE Lonely(p)'
      BY DEF Lonely
    <3>1. Lonely(p) /\ job[p].alone
      BY <1>0, <1>1, <1>2, <1>3, <1>4, <1>5, Names DEF IInv, Parts
    <3>2. job'[Other(p)] = Idle
      BY <1>0, <1>1, <1>2, <1>3, <1>4, <1>5, Names, <3>1 DEF Lonely
    <3>3. ASSUME ~raced' PROVE Held(file[Src(p)])'
      <4>1. job[p].op = "rollback" => Held(file[Src(p)])
        BY <1>0, <1>1, <1>2, <1>3, <1>4, <1>5, Names, <3>1, <3>3, UpgradeAssumption DEF Lonely
      <4> QED BY <1>0, <1>1, <1>2, <1>3, <1>4, <1>5, Names, <4>1 DEF Held
    <3> QED BY <1>0, <1>1, <1>2, <1>3, <1>4, <1>5, Names, <3>2, <3>3 DEF Lonely, Held
  <2>2. ASSUME NEW r \in Procs, r # p PROVE Lonely(r)'
    BY <1>0, <1>1, <1>2, <1>3, <1>4, <1>5, Names, <2>2 DEF IInv, Parts, Lonely, Held, Exists, Paths, Src
  <2> QED BY <2>1, <2>2
<1>9. Copies'
  BY <1>0, <1>1, <1>2, <1>3, <1>4, <1>5, Names DEF IInv, Parts, Writers, Copies, Held, Paths
<1>10. Untouched'
  BY <1>0, <1>1, <1>2, <1>3, <1>4, <1>5, Names DEF IInv, Parts, Writers, Untouched, Swapping, Paths
<1>11. Backup'
  BY <1>0, <1>1, <1>2, <1>3, <1>4, <1>5, Names DEF IInv, Parts, Writers, Untouched, Backup, Swapping, Paths
<1>12. WayBack'
  BY <1>0, <1>1, <1>2, <1>3, <1>4, <1>5, Names DEF IInv, Parts, Writers, Workers, Copies, Held, WayBack, Exists, Paths
<1> QED BY <1>6, <1>7, <1>8, <1>9, <1>10, <1>11, <1>12 DEF Parts

LEMMA RefusedKeeps ==
  ASSUME IInv, NEW p \in Procs, Verify(p), ~Verified(p)
  PROVE  Parts'
<1>0. TypeOK
  BY DEF IInv
<1>1. job[p].at = "verify" /\ job[p] # Idle
  BY <1>0, Names, IdleTyped DEF Verify, At
<1>2. /\ job'[p] = Idle /\ job'[p].at = "none" /\ ~job'[p].alone
      /\ \A q \in Procs : q # p => job'[q] = job[q]
  BY <1>0, EndJobs, IdleTyped DEF Verify
<1>3. /\ \A f \in Paths : f # "staged" => file'[f] = file[f]
      /\ (p = "command" => file' = file)
      /\ writing' = writing
      /\ daemon' = daemon /\ tries' = tries /\ forced' = forced /\ raced' = raced
  BY <1>0, Names DEF Verify, Remove, TypeOK
<1>4. Writers'
  BY <1>0, <1>1, <1>2, <1>3, Names DEF IInv, Parts, Writers
<1>5. Workers'
  BY <1>0, <1>1, <1>2, <1>3, Names DEF IInv, Parts, Workers
<1>6. \A r \in Procs : Lonely(r)'
  BY <1>0, <1>1, <1>2, <1>3, Names DEF IInv, Parts, Lonely, Held, Exists, Paths, Src
<1>7. Copies'
  BY <1>0, <1>1, <1>2, <1>3, Names DEF IInv, Parts, Writers, Copies, Held, Paths
<1>8. Untouched'
  BY <1>0, <1>1, <1>2, <1>3, Names DEF IInv, Parts, Writers, Untouched, Swapping, Paths
<1>9. Backup'
  BY <1>0, <1>1, <1>2, <1>3, Names DEF IInv, Parts, Writers, Untouched, Backup, Swapping, Paths
<1>10. WayBack'
  BY <1>0, <1>1, <1>2, <1>3, Names DEF IInv, Parts, Writers, Workers, Copies, Held, WayBack, Exists, Paths
<1> QED BY <1>4, <1>5, <1>6, <1>7, <1>8, <1>9, <1>10 DEF Parts

LEMMA CopyKeeps ==
  ASSUME IInv, NEW p \in Procs, Copy(p), Exists("exe")
  PROVE  Parts'
<1>0. TypeOK
  BY DEF IInv
<1>1. job[p].at = "copy" /\ job[p] # Idle /\ file["exe"] \in Contents /\ file["exe"] # "absent"
  BY <1>0, Names, IdleTyped DEF Copy, At, TypeOK, Exists, Paths
<1>2. /\ job'[p].at = "copying" /\ job'[p].op = job[p].op /\ job'[p].has = job[p].has
      /\ job'[p].from = file["exe"] /\ job'[p].alone = job[p].alone
      /\ \A q \in Procs : q # p => job'[q] = job[q]
  BY <1>0, <1>1, CopyJobs DEF Copy
<1>3. /\ \A f \in Paths : file'[f] = IF f = "old" THEN "torn" ELSE file[f]
      /\ writing' = writing /\ daemon' = daemon /\ forced' = forced /\ raced' = raced
      /\ Src(p)' = Src(p)
  BY <1>0, <1>2 DEF Copy, TypeOK, Src
<1>4. tries \in 0..2 /\ (tries' = IF tries = 2 THEN 2 ELSE tries + 1)
  BY <1>0 DEF Copy, TypeOK
<1>5. tries' # 0 /\ (tries' = 1 => tries = 0)
  BY <1>4
<1>6. Writers'
  BY <1>0, <1>1, <1>2, <1>3, <1>4, <1>5, Names DEF IInv, Parts, Writers
<1>7. Workers'
  BY <1>0, <1>1, <1>2, <1>3, <1>4, <1>5, Names DEF IInv, Parts, Workers
<1>8. \A r \in Procs : Lonely(r)'
  BY <1>0, <1>1, <1>2, <1>3, <1>4, <1>5, Names DEF IInv, Parts, Lonely, Held, Exists, Paths, Src
<1>9. Copies'
  BY <1>0, <1>1, <1>2, <1>3, <1>4, <1>5, Names DEF IInv, Parts, Writers, Copies, Held, Paths
<1>10. Untouched'
  BY <1>0, <1>1, <1>2, <1>3, <1>4, <1>5, Names DEF IInv, Parts, Writers, Untouched, Swapping, Paths
<1>11. Backup'
  BY <1>0, <1>1, <1>2, <1>3, <1>4, <1>5, Names DEF IInv, Parts, Writers, Untouched, Backup, Swapping, Paths
<1>12. WayBack'
  BY <1>0, <1>1, <1>2, <1>3, <1>4, <1>5, Names DEF IInv, Parts, Writers, Workers, Copies, Held, WayBack, Exists, Paths
<1> QED BY <1>6, <1>7, <1>8, <1>9, <1>10, <1>11, <1>12 DEF Parts

LEMMA AbandonKeeps ==
  ASSUME IInv, NEW p \in Procs, Abandon(p), job[p].at \in {"copy", "copying", "move"},
         UNCHANGED <<writing, daemon, tries, forced, raced>>
  PROVE  Parts'
<1>0. TypeOK
  BY DEF IInv
<1>1. job[p] # Idle /\ writing[p] = "none"
  BY <1>0, Names, IdleTyped DEF IInv, Parts, Writers
<1>2. /\ job'[p] = Idle /\ job'[p].at = "none" /\ ~job'[p].alone
      /\ \A q \in Procs : q # p => job'[q] = job[q]
  BY <1>0, EndJobs, IdleTyped DEF Abandon
<1>3. /\ \A f \in Paths : f # "rollback" => file'[f] = file[f]
      /\ (p = "daemon" => file' = file)
      /\ writing' = writing
      /\ daemon' = daemon /\ tries' = tries /\ forced' = forced /\ raced' = raced
  BY <1>0, Names DEF Abandon, Remove, TypeOK
<1>4. Writers'
  BY <1>0, <1>1, <1>2, <1>3, Names DEF IInv, Parts, Writers
<1>5. Workers'
  BY <1>0, <1>1, <1>2, <1>3, Names DEF IInv, Parts, Workers
<1>6. \A r \in Procs : Lonely(r)'
  BY <1>0, <1>1, <1>2, <1>3, Names DEF IInv, Parts, Lonely, Held, Exists, Paths, Src
<1>7. Copies'
  BY <1>0, <1>1, <1>2, <1>3, Names DEF IInv, Parts, Writers, Copies, Held, Paths
<1>8. Untouched'
  BY <1>0, <1>1, <1>2, <1>3, Names DEF IInv, Parts, Writers, Untouched, Swapping, Paths
<1>9. Backup'
  BY <1>0, <1>1, <1>2, <1>3, Names DEF IInv, Parts, Writers, Untouched, Backup, Swapping, Paths
<1>10. WayBack'
  BY <1>0, <1>1, <1>2, <1>3, Names DEF IInv, Parts, Writers, Workers, Copies, Held, WayBack, Exists, Paths
<1> QED BY <1>4, <1>5, <1>6, <1>7, <1>8, <1>9, <1>10 DEF Parts

LEMMA CopiedKeeps ==
  ASSUME IInv, NEW p \in Procs, At(p, "copying"), Goto(p, "move"),
         UNCHANGED <<writing, daemon, tries, forced, raced>>,
         \/ file' = [file EXCEPT !["old"] = job[p].from]
         \/ At(Other(p), "copying") /\ UNCHANGED file
  PROVE  Parts'
<1>0. TypeOK
  BY DEF IInv
<1>1. job[p].at = "copying" /\ job[p] # Idle
  BY <1>0, Names, IdleTyped DEF At
<1>2. /\ job'[p].at = "move" /\ job'[p].op = job[p].op /\ job'[p].has = job[p].has
      /\ job'[p].from = job[p].from /\ job'[p].alone = job[p].alone
      /\ \A q \in Procs : q # p => job'[q] = job[q]
      /\ Src(p)' = Src(p)
  BY <1>0, GotoJobs DEF Steps, Src
<1>3. /\ \/ \A f \in Paths : file'[f] = IF f = "old" THEN job[p].from ELSE file[f]
         \/ file' = file /\ job[Other(p)].at = "copying" /\ job[Other(p)] # Idle
      /\ writing' = writing
      /\ daemon' = daemon /\ tries' = tries /\ forced' = forced /\ raced' = raced
  BY <1>0, Names, IdleTyped DEF TypeOK, At
<1>4. Writers'
  BY <1>0, <1>1, <1>2, <1>3, Names DEF IInv, Parts, Writers
<1>5. Workers'
  BY <1>0, <1>1, <1>2, <1>3, Names DEF IInv, Parts, Workers
<1>6. \A r \in Procs : Lonely(r)'
  BY <1>0, <1>1, <1>2, <1>3, Names DEF IInv, Parts, Lonely, Held, Exists, Paths, Src
<1>7. Copies'
  BY <1>0, <1>1, <1>2, <1>3, Names DEF IInv, Parts, Writers, Copies, Held, Paths
<1>8. Untouched'
  BY <1>0, <1>1, <1>2, <1>3, Names DEF IInv, Parts, Writers, Untouched, Swapping, Paths
<1>9. Backup'
  BY <1>0, <1>1, <1>2, <1>3, Names DEF IInv, Parts, Writers, Untouched, Backup, Swapping, Paths
<1>10. WayBack'
  BY <1>0, <1>1, <1>2, <1>3, Names DEF IInv, Parts, Writers, Workers, Copies, Held, WayBack, Exists, Paths
<1> QED BY <1>4, <1>5, <1>6, <1>7, <1>8, <1>9, <1>10 DEF Parts

LEMMA MoveKeeps ==
  ASSUME IInv, NEW p \in Procs, At(p, "move"), Exists("exe"), Goto(p, "place"), Rename("exe", Parked(p)),
         UNCHANGED <<daemon, tries, forced, raced>>
  PROVE  Parts'
<1>0. TypeOK
  BY DEF IInv
<1>1. job[p].at = "move" /\ job[p] # Idle /\ file["exe"] # "absent"
  BY <1>0, Names, IdleTyped DEF At, Exists
<1>2. /\ job'[p].at = "place" /\ job'[p].op = job[p].op /\ job'[p].has = job[p].has
      /\ job'[p].from = job[p].from /\ job'[p].alone = job[p].alone
      /\ \A q \in Procs : q # p => job'[q] = job[q]
      /\ Src(p)' = Src(p)
  BY <1>0, GotoJobs DEF Steps, Src
<1>3. /\ \A f \in Paths : file'[f] = CASE f = "exe" -> "absent"
                                       [] f = Parked(p) -> file["exe"]
                                       [] OTHER -> file[f]
      /\ \A q \in Procs : writing'[q] = CASE writing[q] = "exe" -> Parked(p)
                                           [] writing[q] = Parked(p) -> "none"
                                           [] OTHER -> writing[q]
      /\ daemon' = daemon /\ tries' = tries /\ forced' = forced /\ raced' = raced
  BY <1>0, Names DEF TypeOK, Rename, Paths
<1>4. Writers'
  BY <1>0, <1>1, <1>2, <1>3, Names DEF IInv, Parts, Writers
<1>5. Workers'
  BY <1>0, <1>1, <1>2, <1>3, Names DEF IInv, Parts, Workers
<1>6. \A r \in Procs : Lonely(r)'
  BY <1>0, <1>1, <1>2, <1>3, Names DEF IInv, Parts, Lonely, Held, Exists, Paths, Src
<1>7. Copies'
  BY <1>0, <1>1, <1>2, <1>3, Names DEF IInv, Parts, Writers, Copies, Held, Paths
<1>8. Untouched'
  BY <1>0, <1>1, <1>2, <1>3, Names DEF IInv, Parts, Writers, Untouched, Swapping, Paths
<1>9. Backup'
  BY <1>0, <1>1, <1>2, <1>3, Names DEF IInv, Parts, Writers, Untouched, Backup, Swapping, Paths
<1>10. WayBack'
  BY <1>0, <1>1, <1>2, <1>3, Names DEF IInv, Parts, Writers, Workers, Copies, Held, WayBack, Exists, Paths
<1> QED BY <1>4, <1>5, <1>6, <1>7, <1>8, <1>9, <1>10 DEF Parts

LEMMA PlaceKeeps ==
  ASSUME IInv, NEW p \in Procs, Place(p)
  PROVE  Parts'
<1>0. TypeOK
  BY DEF IInv
<1>1. job[p].at = "place" /\ job[p] # Idle
  BY <1>0, Names, IdleTyped DEF At, Place
<1>2. /\ \/ job'[p].at = "restart" /\ job'[p].op = job[p].op /\ job'[p].alone = job[p].alone
            /\ p = "command"
         \/ job'[p] = Idle /\ job'[p].at = "none" /\ ~job'[p].alone
      /\ \A q \in Procs : q # p => job'[q] = job[q]
  BY <1>0, Names, GotoJobs, EndJobs, IdleTyped DEF Place, Steps
<1>3. /\ \A f \in Paths : f \notin {Src(p), "exe", Parked(p)} => file'[f] = file[f]
      /\ file'[Src(p)] = "absent" /\ file'["exe"] = file[Src(p)] /\ file[Src(p)] # "absent"
      /\ file'[Parked(p)] = file[Parked(p)] \/ file'[Parked(p)] = "absent"
  BY <1>0, Names DEF Place, TypeOK, Paths, Exists
<1>4. /\ \A q \in Procs : writing'[q] = CASE writing[q] = Src(p) -> "exe"
                                           [] writing[q] \in {"exe", Parked(p)} -> "none"
                                           [] OTHER -> writing[q]
      /\ daemon' = daemon /\ tries' = tries /\ forced' = forced
  BY DEF Place
<1>5. (raced => raced') /\ (~raced' => job[p].alone)
  BY DEF Place
<1>6. ~raced' => /\ job[Other(p)] = Idle /\ writing[Other(p)] = "none" /\ writing[p] = "none"
                 /\ Held(file[Src(p)])
  BY <1>1, <1>3, <1>5, Names, IdleTyped DEF IInv, Parts, Lonely, Writers
<1>7. Writers'
  BY <1>0, <1>1, <1>2, <1>3, <1>4, <1>5, <1>6, Names DEF IInv, Parts, Writers
<1>8. Workers'
  BY <1>0, <1>1, <1>2, <1>3, <1>4, <1>5, <1>6, Names DEF IInv, Parts, Workers
<1>9. \A r \in Procs : Lonely(r)'
  BY <1>0, <1>1, <1>2, <1>3, <1>4, <1>5, <1>6, Names DEF IInv, Parts, Lonely, Held, Exists, Paths, Src
<1>10. Copies'
  BY <1>0, <1>1, <1>2, <1>3, <1>4, <1>5, <1>6, Names DEF IInv, Parts, Writers, Copies, Held, Paths
<1>11. Untouched'
  BY <1>0, <1>1, <1>2, <1>3, <1>4, <1>5, <1>6, Names DEF IInv, Parts, Writers, Untouched, Swapping, Paths
<1>12. Backup'
  BY <1>0, <1>1, <1>2, <1>3, <1>4, <1>5, <1>6, Names DEF IInv, Parts, Writers, Untouched, Backup, Swapping, Paths
<1>13. WayBack'
  BY <1>0, <1>1, <1>2, <1>3, <1>4, <1>5, <1>6, Names DEF IInv, Parts, Writers, Workers, Copies, Held, WayBack, Exists, Paths
<1> QED BY <1>7, <1>8, <1>9, <1>10, <1>11, <1>12, <1>13 DEF Parts

LEMMA PlaceFailsKeeps ==
  ASSUME IInv, NEW p \in Procs, PlaceFails(p)
  PROVE  Parts'
<1>0. TypeOK
  BY DEF IInv
<1>1. job[p].at = "place" /\ job[p] # Idle
  BY <1>0, Names, IdleTyped DEF At, PlaceFails
<1>2. /\ job'[p].at = "putback" /\ job'[p].op = job[p].op /\ job'[p].has = job[p].has
      /\ job'[p].from = job[p].from /\ job'[p].alone = job[p].alone
      /\ \A q \in Procs : q # p => job'[q] = job[q]
      /\ Src(p)' = Src(p)
  BY <1>0, GotoJobs DEF PlaceFails, Steps, Src
<1>3. file' = file /\ writing' = writing
      /\ daemon' = daemon /\ tries' = tries /\ forced' = forced /\ raced' = raced
  BY DEF PlaceFails, history
<1>4. Writers'
  BY <1>0, <1>1, <1>2, <1>3, Names DEF IInv, Parts, Writers
<1>5. Workers'
  BY <1>0, <1>1, <1>2, <1>3, Names DEF IInv, Parts, Workers
<1>6. \A r \in Procs : Lonely(r)'
  BY <1>0, <1>1, <1>2, <1>3, Names DEF IInv, Parts, Lonely, Held, Exists, Paths, Src
<1>7. Copies'
  BY <1>0, <1>1, <1>2, <1>3, Names DEF IInv, Parts, Writers, Copies, Held, Paths
<1>8. Untouched'
  BY <1>0, <1>1, <1>2, <1>3, Names DEF IInv, Parts, Writers, Untouched, Swapping, Paths
<1>9. Backup'
  BY <1>0, <1>1, <1>2, <1>3, Names DEF IInv, Parts, Writers, Untouched, Backup, Swapping, Paths
<1>10. WayBack'
  BY <1>0, <1>1, <1>2, <1>3, Names DEF IInv, Parts, Writers, Workers, Copies, Held, WayBack, Exists, Paths
<1> QED BY <1>4, <1>5, <1>6, <1>7, <1>8, <1>9, <1>10 DEF Parts

LEMMA PutBackKeeps ==
  ASSUME IInv, NEW p \in Procs, PutBack(p)
  PROVE  Parts'
<1>0. TypeOK
  BY DEF IInv
<1>1. job[p].at = "putback" /\ job[p] # Idle
  BY <1>0, Names, IdleTyped DEF At, PutBack
<1>2. /\ job'[p] = Idle /\ job'[p].at = "none" /\ ~job'[p].alone
      /\ \A q \in Procs : q # p => job'[q] = job[q]
  BY <1>0, EndJobs, IdleTyped DEF PutBack
<1>3. /\ \A f \in Paths : f \notin {"rollback", "exe", Parked(p)} => file'[f] = file[f]
      /\ p = "daemon" => file'["rollback"] = file["rollback"]
      /\ \/ /\ file'["exe"] = file[Parked(p)] /\ file'[Parked(p)] = "absent" /\ file[Parked(p)] # "absent"
            /\ \A q \in Procs : writing'[q] = CASE writing[q] = Parked(p) -> "exe"
                                                 [] writing[q] = "exe" -> "none"
                                                 [] OTHER -> writing[q]
         \/ file'["exe"] = file["exe"] /\ file'[Parked(p)] = file[Parked(p)] /\ writing' = writing
      /\ daemon' = daemon /\ tries' = tries /\ forced' = forced /\ raced' = raced
  BY <1>0, Names DEF PutBack, Exists, TypeOK, Paths, history
<1>4. Writers'
  BY <1>0, <1>1, <1>2, <1>3, Names DEF IInv, Parts, Writers
<1>5. Workers'
  BY <1>0, <1>1, <1>2, <1>3, Names DEF IInv, Parts, Workers
<1>6. \A r \in Procs : Lonely(r)'
  BY <1>0, <1>1, <1>2, <1>3, Names DEF IInv, Parts, Lonely, Held, Exists, Paths, Src
<1>7. Copies'
  BY <1>0, <1>1, <1>2, <1>3, Names DEF IInv, Parts, Writers, Copies, Held, Paths
<1>8. Untouched'
  BY <1>0, <1>1, <1>2, <1>3, Names DEF IInv, Parts, Writers, Untouched, Swapping, Paths
<1>9. Backup'
  BY <1>0, <1>1, <1>2, <1>3, Names DEF IInv, Parts, Writers, Untouched, Backup, Swapping, Paths
<1>10. WayBack'
  BY <1>0, <1>1, <1>2, <1>3, Names DEF IInv, Parts, Writers, Workers, Copies, Held, WayBack, Exists, Paths
<1> QED BY <1>4, <1>5, <1>6, <1>7, <1>8, <1>9, <1>10 DEF Parts

LEMMA ExecKeeps ==
  ASSUME IInv, Stop("boot", file["exe"], job), Started, file["exe"] \in Versions,
         UNCHANGED <<file, forced>>
  PROVE  Parts'
<1>0. TypeOK
  BY DEF IInv
<1>1. /\ job'["daemon"] = Idle /\ job'["daemon"].at = "none" /\ ~job'["daemon"].alone
      /\ writing'["daemon"] = "none" /\ writing'["command"] = writing["command"]
      /\ daemon'.at = "boot" /\ daemon'.runs = file["exe"] /\ job'["command"] = job["command"]
  BY <1>0, StopJobs, IdleTyped DEF TypeOK
<1>2. tries' \in {0, 2} /\ (tries' = 0 => job["command"] = Idle)
  BY DEF Started
<1>3. /\ (raced => raced') /\ (~raced' => job["command"] = Idle)
  BY DEF Started
<1>4. file' = file /\ forced' = forced /\ file["exe"] # "absent"
  BY UpgradeAssumption
<1>5. writing["command"] \in {"none", "rollback"} /\ (job["command"] = Idle => job["command"].at = "none")
  BY IdleTyped DEF IInv, Parts, Writers
<1>6. Writers'
  BY <1>0, <1>1, <1>2, <1>3, <1>4, <1>5, Names DEF IInv, Parts, Writers
<1>7. Workers'
  BY <1>0, <1>1, <1>2, <1>3, <1>4, <1>5, Names DEF IInv, Parts, Workers
<1>8. \A r \in Procs : Lonely(r)'
  BY <1>0, <1>1, <1>2, <1>3, <1>4, <1>5, Names DEF IInv, Parts, Lonely, Held, Exists, Paths, Src
<1>9. Copies'
  BY <1>0, <1>1, <1>2, <1>3, <1>4, <1>5, Names DEF IInv, Parts, Writers, Copies, Held, Paths
<1>10. Untouched'
  BY <1>0, <1>1, <1>2, <1>3, <1>4, <1>5, Names DEF IInv, Parts, Writers, Untouched, Swapping, Paths
<1>11. Backup'
  BY <1>0, <1>1, <1>2, <1>3, <1>4, <1>5, Names DEF IInv, Parts, Writers, Untouched, Backup, Swapping, Paths
<1>12. WayBack'
  BY <1>0, <1>1, <1>2, <1>3, <1>4, <1>5, Names DEF IInv, Parts, Writers, Workers, Copies, Held, WayBack, Exists, Paths
<1> QED BY <1>6, <1>7, <1>8, <1>9, <1>10, <1>11, <1>12 DEF Parts

LEMMA StopKeeps ==
  ASSUME IInv, NEW after \in [Procs -> Job], Stop("down", daemon.runs, after),
         after["command"] = job["command"] \/ (after["command"] = Idle /\ At("command", "restart")),
         UNCHANGED <<file, tries, forced, raced>>
  PROVE  Parts'
<1>0. TypeOK
  BY DEF IInv
<1>1. /\ job'["daemon"] = Idle /\ job'["daemon"].at = "none" /\ ~job'["daemon"].alone
      /\ writing'["daemon"] = "none" /\ writing'["command"] = writing["command"]
      /\ daemon'.at = "down" /\ daemon'.runs = daemon.runs
      /\ \/ job'["command"] = job["command"]
         \/ job'["command"] = Idle /\ job["command"].at = "restart"
  BY <1>0, StopJobs, IdleTyped DEF At
<1>2. Idle.at = "none" /\ ~Idle.alone
  BY IdleTyped
<1>3. file' = file /\ tries' = tries /\ forced' = forced /\ raced' = raced
  OBVIOUS
<1>4. Writers'
  BY <1>0, <1>1, <1>2, <1>3, Names DEF IInv, Parts, Writers
<1>5. Workers'
  BY <1>0, <1>1, <1>2, <1>3, Names DEF IInv, Parts, Workers
<1>6. \A r \in Procs : Lonely(r)'
  BY <1>0, <1>1, <1>2, <1>3, Names DEF IInv, Parts, Lonely, Held, Exists, Paths, Src
<1>7. Copies'
  BY <1>0, <1>1, <1>2, <1>3, Names DEF IInv, Parts, Writers, Copies, Held, Paths
<1>8. Untouched'
  BY <1>0, <1>1, <1>2, <1>3, Names DEF IInv, Parts, Writers, Untouched, Swapping, Paths
<1>9. Backup'
  BY <1>0, <1>1, <1>2, <1>3, Names DEF IInv, Parts, Writers, Untouched, Backup, Swapping, Paths
<1>10. WayBack'
  BY <1>0, <1>1, <1>2, <1>3, Names DEF IInv, Parts, Writers, Workers, Copies, Held, WayBack, Exists, Paths
<1> QED BY <1>4, <1>5, <1>6, <1>7, <1>8, <1>9, <1>10 DEF Parts

LEMMA StartKeeps ==
  ASSUME IInv, Start
  PROVE  Parts'
<1>0. TypeOK
  BY DEF IInv
<1>1. /\ daemon.at = "down" /\ daemon'.at = "boot" /\ daemon'.runs = file["exe"] /\ file["exe"] # "absent"
  BY UpgradeAssumption DEF Start
<1>2. /\ file' = file /\ forced' = forced /\ job' = job /\ writing' = writing
  BY DEF Start
<1>3. tries' \in {0, 2} /\ (tries' = 0 => job["command"] = Idle)
  BY DEF Start, Started
<1>4. /\ (raced => raced') /\ (~raced' => job["command"] = Idle)
  BY DEF Start, Started
<1>5. job["daemon"] = Idle /\ writing["daemon"] = "none" /\ Idle.at = "none" /\ ~Idle.alone
  BY <1>1, Names, IdleTyped DEF IInv, Parts, Workers, Writers
<1>6. Writers'
  BY <1>0, <1>1, <1>2, <1>3, <1>4, <1>5, Names DEF IInv, Parts, Writers
<1>7. Workers'
  BY <1>0, <1>1, <1>2, <1>3, <1>4, <1>5, Names DEF IInv, Parts, Workers
<1>8. \A r \in Procs : Lonely(r)'
  BY <1>0, <1>1, <1>2, <1>3, <1>4, <1>5, Names DEF IInv, Parts, Lonely, Held, Exists, Paths, Src
<1>9. Copies'
  BY <1>0, <1>1, <1>2, <1>3, <1>4, <1>5, Names DEF IInv, Parts, Writers, Copies, Held, Paths
<1>10. Untouched'
  BY <1>0, <1>1, <1>2, <1>3, <1>4, <1>5, Names DEF IInv, Parts, Writers, Untouched, Swapping, Paths
<1>11. Backup'
  BY <1>0, <1>1, <1>2, <1>3, <1>4, <1>5, Names DEF IInv, Parts, Writers, Untouched, Backup, Swapping, Paths
<1>12. WayBack'
  BY <1>0, <1>1, <1>2, <1>3, <1>4, <1>5, Names DEF IInv, Parts, Writers, Workers, Copies, Held, WayBack, Exists, Paths
<1> QED BY <1>6, <1>7, <1>8, <1>9, <1>10, <1>11, <1>12 DEF Parts

LEMMA BootKeeps ==
  ASSUME IInv, Boot
  PROVE  Parts'
<1>0. TypeOK
  BY DEF IInv
<1>1. /\ daemon.at = "boot" /\ daemon'.at \in {"serve", "down"} /\ daemon'.runs = daemon.runs
  BY <1>0 DEF Boot, TypeOK
<1>2. /\ \/ /\ \A f \in Paths : file'[f] = IF f \in {"exe", "old"} THEN file[f] ELSE "absent"
            /\ \A q \in Procs : writing'[q] = IF writing[q] \in {"exe", "old"} THEN writing[q] ELSE "none"
         \/ /\ file' = file /\ writing' = writing
      /\ job' = job /\ tries' = tries /\ forced' = forced /\ raced' = raced
  BY <1>0 DEF Boot, TypeOK, Paths, history
<1>3. job["daemon"] = Idle /\ writing["daemon"] = "none" /\ Idle.at = "none" /\ ~Idle.alone
  BY <1>1, Names, IdleTyped DEF IInv, Parts, Workers, Writers
<1>4. Writers'
  BY <1>0, <1>1, <1>2, <1>3, Names DEF IInv, Parts, Writers
<1>5. Workers'
  BY <1>0, <1>1, <1>2, <1>3, Names DEF IInv, Parts, Workers
<1>6. \A r \in Procs : Lonely(r)'
  BY <1>0, <1>1, <1>2, <1>3, Names DEF IInv, Parts, Lonely, Held, Exists, Paths, Src
<1>7. Copies'
  BY <1>0, <1>1, <1>2, <1>3, Names DEF IInv, Parts, Writers, Copies, Held, Paths
<1>8. Untouched'
  BY <1>0, <1>1, <1>2, <1>3, Names DEF IInv, Parts, Writers, Untouched, Swapping, Paths
<1>9. Backup'
  BY <1>0, <1>1, <1>2, <1>3, Names DEF IInv, Parts, Writers, Untouched, Backup, Swapping, Paths
<1>10. WayBack'
  BY <1>0, <1>1, <1>2, <1>3, Names DEF IInv, Parts, Writers, Workers, Copies, Held, WayBack, Exists, Paths
<1> QED BY <1>4, <1>5, <1>6, <1>7, <1>8, <1>9, <1>10 DEF Parts

LEMMA KilledKeeps ==
  ASSUME IInv, job["command"] # Idle, End("command"), writing' = [writing EXCEPT !["command"] = "none"],
         UNCHANGED <<file, daemon, tries, forced, raced>>
  PROVE  Parts'
<1>0. TypeOK
  BY DEF IInv
<1>1. /\ job'["command"] = Idle /\ job'["command"].at = "none" /\ ~job'["command"].alone
      /\ job'["daemon"] = job["daemon"]
  BY <1>0, Names, EndJobs, IdleTyped
<1>2. /\ file' = file /\ writing'["command"] = "none" /\ writing'["daemon"] = writing["daemon"]
      /\ daemon' = daemon /\ tries' = tries /\ forced' = forced /\ raced' = raced
  BY <1>0, Names DEF TypeOK
<1>3. Writers'
  BY <1>0, <1>1, <1>2, Names DEF IInv, Parts, Writers
<1>4. Workers'
  BY <1>0, <1>1, <1>2, Names DEF IInv, Parts, Workers
<1>5. \A r \in Procs : Lonely(r)'
  BY <1>0, <1>1, <1>2, Names DEF IInv, Parts, Lonely, Held, Exists, Paths, Src
<1>6. Copies'
  BY <1>0, <1>1, <1>2, Names DEF IInv, Parts, Writers, Copies, Held, Paths
<1>7. Untouched'
  BY <1>0, <1>1, <1>2, Names DEF IInv, Parts, Writers, Untouched, Swapping, Paths
<1>8. Backup'
  BY <1>0, <1>1, <1>2, Names DEF IInv, Parts, Writers, Untouched, Backup, Swapping, Paths
<1>9. WayBack'
  BY <1>0, <1>1, <1>2, Names DEF IInv, Parts, Writers, Workers, Copies, Held, WayBack, Exists, Paths
<1> QED BY <1>3, <1>4, <1>5, <1>6, <1>7, <1>8, <1>9 DEF Parts

LEMMA FinishedKeeps ==
  ASSUME IInv, At("command", "restart"), End("command"),
         UNCHANGED <<file, writing, daemon, tries, forced, raced>>
  PROVE  Parts'
<1>0. TypeOK
  BY DEF IInv
<1>1. /\ job'["command"] = Idle /\ job'["command"].at = "none" /\ ~job'["command"].alone
      /\ job'["daemon"] = job["daemon"] /\ job["command"].at = "restart" /\ job["command"] # Idle
  BY <1>0, Names, EndJobs, IdleTyped DEF At
<1>2. /\ file' = file /\ writing' = writing
      /\ daemon' = daemon /\ tries' = tries /\ forced' = forced /\ raced' = raced
  OBVIOUS
<1>3. Writers'
  BY <1>0, <1>1, <1>2, Names DEF IInv, Parts, Writers
<1>4. Workers'
  BY <1>0, <1>1, <1>2, Names DEF IInv, Parts, Workers
<1>5. \A r \in Procs : Lonely(r)'
  BY <1>0, <1>1, <1>2, Names DEF IInv, Parts, Lonely, Held, Exists, Paths, Src
<1>6. Copies'
  BY <1>0, <1>1, <1>2, Names DEF IInv, Parts, Writers, Copies, Held, Paths
<1>7. Untouched'
  BY <1>0, <1>1, <1>2, Names DEF IInv, Parts, Writers, Untouched, Swapping, Paths
<1>8. Backup'
  BY <1>0, <1>1, <1>2, Names DEF IInv, Parts, Writers, Untouched, Backup, Swapping, Paths
<1>9. WayBack'
  BY <1>0, <1>1, <1>2, Names DEF IInv, Parts, Writers, Workers, Copies, Held, WayBack, Exists, Paths
<1> QED BY <1>3, <1>4, <1>5, <1>6, <1>7, <1>8, <1>9 DEF Parts

LEMMA SwapKeeps ==
  ASSUME IInv, NEW p \in Procs,
         Copy(p) \/ Copied(p) \/ Move(p) \/ Place(p) \/ PlaceFails(p) \/ PutBack(p)
  PROVE  Parts'
<1>1. CASE Copy(p)
  BY <1>1, CopyKeeps, AbandonKeeps DEF Copy, At
<1>2. CASE Copied(p)
  BY <1>2, CopiedKeeps, AbandonKeeps DEF Copied, At, history
<1>3. CASE Move(p)
  BY <1>3, MoveKeeps, AbandonKeeps DEF Move, At, history
<1> QED BY <1>1, <1>2, <1>3, PlaceKeeps, PlaceFailsKeeps, PutBackKeeps

LEMMA RestartsKeep ==
  ASSUME IInv, Restart \/ RestartService \/ Start \/ Boot \/ \E p \in Procs : Crash(p)
  PROVE  Parts'
<1>0. /\ job \in [Procs -> Job] /\ [job EXCEPT !["command"] = Idle] \in [Procs -> Job]
      /\ [job EXCEPT !["command"] = Idle]["command"] = Idle
  BY Names, IdleTyped DEF IInv, TypeOK
<1>1. CASE Restart
  <2>1. CASE file["exe"] \in Versions
    BY <1>1, <2>1, ExecKeeps DEF Restart
  <2>2. CASE file["exe"] \notin Versions /\ systemd
    BY <1>0, <1>1, <2>2, StopKeeps DEF Restart
  <2>3. CASE file["exe"] \notin Versions /\ ~systemd
    <3>1. UNCHANGED <<writable, systemd, file, writing, job, daemon, tries, forced, raced>>
      BY <1>1, <2>3 DEF Restart, fixed
    <3> QED BY <3>1 DEF IInv, Parts, Writers, Workers, Lonely, Copies, Untouched, Backup, WayBack, Held, Exists, Src
  <2> QED BY <2>1, <2>2, <2>3
<1>2. CASE RestartService
  <2>1. CASE systemd
    BY <1>0, <1>2, <2>1, StopKeeps DEF RestartService, history
  <2>2. CASE ~systemd
    BY <1>2, <2>2, FinishedKeeps DEF RestartService, history
  <2> QED BY <2>1, <2>2
<1>3. ASSUME NEW p \in Procs, Crash(p) PROVE Parts'
  <2>1. CASE p = "daemon"
    BY <1>0, <1>3, <2>1, StopKeeps DEF Crash, history
  <2>2. CASE p = "command"
    BY <1>3, <2>2, KilledKeeps DEF Crash, history
  <2> QED BY <2>1, <2>2, Names
<1> QED BY <1>1, <1>2, <1>3, StartKeeps, BootKeeps

LEMMA Inductive == IInv /\ [Next]_vars => IInv'
<1> SUFFICES ASSUME IInv, [Next]_vars PROVE IInv'
  OBVIOUS
<1>1. TypeOK'
  BY TypesKept DEF IInv
<1>2. CASE UNCHANGED vars
  BY <1>1, <1>2 DEF vars, IInv, Parts, Writers, Workers, Lonely, Copies, Untouched, Backup, WayBack, Held, Exists, Src
<1>3. ASSUME NEW p \in Procs, Replace(p) PROVE Parts'
  <2>1. ASSUME NEW force \in BOOLEAN, Install(p, force) PROVE Parts'
    BY <2>1, InstallKeeps
  <2>2. CASE CopyBack(p)
    BY <2>2, CopyBackKeeps, CopyBackFailsKeeps DEF CopyBack
  <2>3. CASE Verify(p)
    BY <2>3, VerifiedKeeps, RefusedKeeps
  <2> QED BY <1>3, <2>1, <2>2, <2>3, RollbackKeeps, SwapKeeps DEF Replace
<1>4. ASSUME Next PROVE Parts'
  <2>1. \/ Upload \/ UploadFails \/ Check \/ \E b \in Versions \cup Junk : Uploaded(b)
        \/ \E p \in Procs : Replace(p)
        \/ Restart \/ RestartService \/ Start \/ Boot \/ \E p \in Procs : Crash(p)
    BY <1>4 DEF Next
  <2>2. ASSUME NEW b \in Versions \cup Junk, Uploaded(b) PROVE Parts'
    BY <2>2, UploadedKeeps
  <2>3. CASE Upload \/ UploadFails \/ Check
    BY <2>3, UploadKeeps, UploadFailsKeeps, CheckKeeps
  <2>4. CASE Restart \/ RestartService \/ Start \/ Boot \/ \E p \in Procs : Crash(p)
    BY <2>4, RestartsKeep
  <2> QED BY <1>3, <2>1, <2>2, <2>3, <2>4
<1> QED BY <1>1, <1>2, <1>4 DEF IInv

LEMMA Invariant == Spec => []IInv
<1>1. Init => IInv
  BY TypesInit, InitParts DEF IInv
<1> QED BY <1>1, Inductive, PTL DEF Spec

-----------------------------------------------------------------------------
(* What follows. *)

\* A binary that runs is never lost: the backup is whole before the name is
\* given up (swapBinary), and a start clears only what it covers.
THEOREM CopySurvives == Spec => []SurvivingCopy
<1>1. IInv => SurvivingCopy
  BY Names DEF IInv, Parts, WayBack, Copies, SurvivingCopy, Exists
<1> QED BY <1>1, Invariant, PTL

\* Without a race, what has the binary's name runs, and if it can be asked about
\* the configuration it reads it or was forced (preflightConfig, swapBinary).
THEOREM ExeIsSound == Spec => []ExeSound
<1>1. IInv => ExeSound
  BY Names, UpgradeAssumption DEF IInv, Parts, Copies, Held, Problem, ExeSound
<1> QED BY <1>1, Invariant, PTL

\* The backup made by the first replacement is the running version.
THEOREM BackupLeadsBack == Spec => []BackupIsRunning
<1>1. IInv => BackupIsRunning
  BY DEF IInv, Parts, Backup, BackupIsRunning
<1> QED BY <1>1, Invariant, PTL

\* Nothing comes between verifying and placing, for a process that is alone.
THEOREM VerifiedThenPlaced == Spec => VerifiedIsPlaced
<1>1. ASSUME IInv, [Next]_vars
      PROVE  [\A p \in Procs : Place(p) /\ job[p].alone => file'["exe"] = job[p].has]_vars
  <2>1. ASSUME NEW p \in Procs, Place(p), job[p].alone PROVE file'["exe"] = job[p].has
    <3>1. file[Src(p)] = job[p].has
      BY <1>1, <2>1 DEF IInv, Parts, Lonely, Place, At, Exists
    <3>2. file'["exe"] = file[Src(p)]
      BY <1>1, <2>1, Names DEF IInv, TypeOK, Place, Paths
    <3> QED BY <3>1, <3>2
  <2> QED BY <2>1
<1> QED BY <1>1, Invariant, PTL DEF Spec, VerifiedIsPlaced
=============================================================================
