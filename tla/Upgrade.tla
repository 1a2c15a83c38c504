------------------------------ MODULE Upgrade ------------------------------
(***************************************************************************)
(* How a running goproxy is replaced by another version: uploads, installs *)
(* and rollbacks through the console (upgrade_handler.go,                  *)
(* upgrade_manager.go), the commands -upgrade-apply and -upgrade-rollback  *)
(* (upgrade_cli.go), the steps on files both are made of (upgrade_env.go), *)
(* and the restart into what they put in place (upgrade_exec_unix.go).     *)
(*                                                                         *)
(* Two processes work on the same files: the daemon, which serialises its  *)
(* handlers with busy, and the command, which knows nothing of busy.  Each *)
(* rename and remove is a step; a copy is two, for the file is truncated   *)
(* when it starts and whole when it ends.  A file being written is a file  *)
(* and not a name: when the name it had is renamed, the writer writes on.  *)
(*                                                                         *)
(* A binary is one value; Torn is any file that is cut off or mixed.       *)
(* Verifying runs `-version`: Versions answer it, Junk and Torn do not.    *)
(* The daemon starts on the configuration there is if it runs one of       *)
(* Reads; the trial run tells, of the Checks alone, for a version that     *)
(* does not know -config-check cannot be asked.  The name a binary is      *)
(* parked under is new each time; here each process has one, so that a     *)
(* leftover is lost when the process parks again.  Unpacking an archive is *)
(* part of writing the upload.  The console's record of what is staged is  *)
(* only shown, never used, and is left out, as is a daemon without the     *)
(* right to write the directory that is asked to install: it verifies and  *)
(* names the command.                                                      *)
(***************************************************************************)
EXTENDS Naturals

CONSTANTS
  Versions,    \* binaries that run
  Reads,       \* those that accept the configuration there is
  Checks,      \* those that know -config-check: v0.15.0 and later
  Junk,        \* other files somebody may upload
  First,       \* the version installed by install.sh
  MaxUploads, MaxCommands, MaxCrashes   \* bounds on the environment

ASSUME UpgradeAssumption ==
  /\ First \in Reads /\ Reads \subseteq Versions /\ Checks \subseteq Versions
  /\ Versions \cap Junk = {}
  /\ {"absent", "torn"} \cap (Versions \cup Junk) = {}
  /\ MaxUploads \in Nat /\ MaxCommands \in Nat /\ MaxCrashes \in Nat

VARIABLES
  writable,  \* the daemon may write the directory of its binary
  systemd,   \* the daemon is a service of systemd
  file,      \* what each name of a file stands for
  writing,   \* per process: the name of the file it has open for writing
  job,       \* per process: the upload, install or rollback under way
  daemon,    \* where the daemon is, and the version that it runs
  pending,   \* restartSoon sleeps
  used,      \* uploads, commands and crashes so far
  tries,     \* history: replacements begun since the daemon started, 2 for
             \* more or when one was under way then
  forced,    \* history: a version was installed against the trial run
  raced      \* history: a binary was placed by a process that was not alone, or
             \* the daemon started while a command was at work

vars == <<writable, systemd, file, writing, job, daemon, pending, used, tries, forced, raced>>
fixed == <<writable, systemd>>
history == <<tries, forced, raced>>

Procs == {"daemon", "command"}
Other(p) == IF p = "daemon" THEN "command" ELSE "daemon"
Parked(p) == IF p = "daemon" THEN "parkedDaemon" ELSE "parkedCommand"
Paths == {"exe", "old", "staged", "rollback", "parkedDaemon", "parkedCommand"}
Contents == Versions \cup Junk \cup {"absent", "torn"}

Idle == [op |-> "none", at |-> "none", has |-> "absent", from |-> "absent",
         force |-> FALSE, alone |-> FALSE]
Ops == {"none", "upload", "install", "rollback"}
Steps == {"none", "write", "check", "copyback", "verify", "copy", "copying",
          "move", "place", "putback", "restart"}
Job == [op : Ops, at : Steps, has : Contents, from : Contents,
        force : BOOLEAN, alone : BOOLEAN]

At(p, step) == job[p].at = step
Goto(p, step) == job' = [job EXCEPT ![p].at = step]
Exists(path) == file[path] # "absent"
Remove(path) == file' = [file EXCEPT ![path] = "absent"]
Use(what) == used' = [used EXCEPT ![what] = @ + 1]

\* Mutant: the command takes the backup itself for its source.
SrcBackup(p) == IF p = "command" /\ job[p].op = "rollback" THEN "old" ELSE "staged"

\* The file that process p installs: findStaged, or prepareRollbackSource's.
Src(p) == IF p = "command" /\ job[p].op = "rollback" THEN "rollback" ELSE "staged"

Begin(p, first) ==
  /\ job[p] = Idle
  /\ job' = [q \in Procs |-> IF q = p THEN [first EXCEPT !.alone = (job[Other(p)] = Idle)]
                                      ELSE [job[q] EXCEPT !.alone = FALSE]]

\* A handler ends, or a command.
End(p) == job' = [job EXCEPT ![p] = Idle]

Serving == daemon.at = "serve"

Init ==
  /\ writable \in BOOLEAN /\ systemd \in BOOLEAN
  /\ file = [f \in Paths |-> IF f = "exe" THEN First ELSE "absent"]
  /\ writing = [p \in Procs |-> "none"]
  /\ job = [p \in Procs |-> Idle]
  /\ daemon = [at |-> "serve", runs |-> First]
  /\ pending = FALSE
  /\ used = [uploads |-> 0, commands |-> 0, crashes |-> 0]
  /\ tries = 0 /\ forced = FALSE /\ raced = FALSE

-----------------------------------------------------------------------------
(* The upload. *)

Upload ==
  /\ Serving /\ used.uploads < MaxUploads /\ Use("uploads")
  /\ Begin("daemon", [Idle EXCEPT !.op = "upload", !.at = "write"])
  /\ file' = [file EXCEPT !["staged"] = "torn"]
  /\ writing' = [writing EXCEPT !["daemon"] = "staged"]
  /\ UNCHANGED <<fixed, daemon, pending, history>>

\* The body has arrived: it is b, in whatever name the file has by now.
Uploaded(b) ==
  /\ At("daemon", "write") /\ Goto("daemon", "check")
  /\ file' = [f \in Paths |-> IF f = writing["daemon"] THEN b ELSE file[f]]
  /\ writing' = [writing EXCEPT !["daemon"] = "none"]
  /\ UNCHANGED <<fixed, daemon, pending, used, history>>

\* The body breaks off, is too large, or is an archive without a goproxy.
UploadFails ==
  /\ At("daemon", "write") /\ End("daemon")
  /\ Remove("staged") /\ writing' = [writing EXCEPT !["daemon"] = "none"]
  /\ UNCHANGED <<fixed, daemon, pending, used, history>>

\* stageFromDisk: what does not verify is removed.
Check ==
  /\ At("daemon", "check") /\ End("daemon")
  /\ IF file["staged"] \in Versions THEN UNCHANGED file ELSE Remove("staged")
  /\ UNCHANGED <<fixed, writing, daemon, pending, used, history>>

-----------------------------------------------------------------------------
(* What is installed: what was staged, or a copy of the backup. *)

\* The daemon installs only where it can write; a command needs a binary to run.
MayBegin(p) ==
  IF p = "daemon" THEN /\ Serving /\ writable /\ UNCHANGED used
  ELSE /\ file["exe"] \in Versions
       /\ used.commands < MaxCommands /\ Use("commands")

Install(p, force) ==
  /\ MayBegin(p)
  /\ Begin(p, [Idle EXCEPT !.op = "install", !.at = "verify", !.force = force])
  /\ UNCHANGED <<fixed, file, writing, daemon, pending, history>>

Rollback(p) ==
  LET copy == IF p = "command" THEN "rollback" ELSE "staged" IN
    /\ MayBegin(p) /\ Exists("old")
    /\ Begin(p, [Idle EXCEPT !.op = "rollback", !.at = "copyback"])
    /\ file' = [file EXCEPT ![copy] = "torn"]
    /\ writing' = [writing EXCEPT ![p] = copy]
    /\ UNCHANGED <<fixed, daemon, pending, history>>

CopyBack(p) ==
  /\ At(p, "copyback")
  /\ \/ /\ Goto(p, "verify")
        /\ file' = [f \in Paths |-> IF f = writing[p] THEN file["old"] ELSE file[f]]
     \/ End(p) /\ UNCHANGED file
  /\ writing' = [writing EXCEPT ![p] = "none"]
  /\ UNCHANGED <<fixed, daemon, pending, used, history>>

\* Mutant: no run of the binary, only a look whether it is there.
Unverified(p) == file[Src(p)] # "absent"

\* preflightConfig has a Problem; of a version that cannot be asked it has none.
Problem(b) == b \in Checks \ Reads

\* The binary runs; an install asks for the configuration too, a rollback,
\* the way out, does not.
Verified(p) ==
  /\ file[Src(p)] \in Versions
  /\ Problem(file[Src(p)]) => job[p].force \/ job[p].op = "rollback"

\* hashFile and verify (stageFromDisk, runUpgradeApply), then the preflight.
Verify(p) ==
  /\ At(p, "verify")
  /\ IF Verified(p)
     THEN /\ job' = [job EXCEPT ![p].at = "copy", ![p].has = file[Src(p)], ![p].force = FALSE]
          /\ forced' = (forced \/ (job[p].force /\ Problem(file[Src(p)])))
          /\ UNCHANGED file
     ELSE /\ End(p) /\ UNCHANGED forced
          /\ IF p = "daemon" /\ job[p].op = "rollback" THEN Remove("staged") ELSE UNCHANGED file
  /\ UNCHANGED <<fixed, writing, daemon, pending, used, tries, raced>>

-----------------------------------------------------------------------------
(* swapBinary *)

\* The replacement fails; the command removes the copy it had made.
Abandon(p) ==
  /\ End(p)
  /\ IF p = "command" /\ job[p].op = "rollback" THEN Remove("rollback") ELSE UNCHANGED file

\* Mutant: the backup is not made, the binary is moved away at once.
CopyNothing(p) ==
  /\ At(p, "copy") /\ Goto(p, "move")
  /\ tries' = IF tries = 2 THEN 2 ELSE tries + 1
  /\ UNCHANGED <<fixed, file, writing, daemon, pending, used, forced, raced>>

\* copyFile(exe, old) opens both.
Copy(p) ==
  /\ At(p, "copy")
  /\ IF Exists("exe")
     THEN /\ job' = [job EXCEPT ![p].at = "copying", ![p].from = file["exe"]]
          /\ file' = [file EXCEPT !["old"] = "torn"]
          /\ tries' = IF tries = 2 THEN 2 ELSE tries + 1
     ELSE Abandon(p) /\ UNCHANGED tries
  /\ UNCHANGED <<fixed, writing, daemon, pending, used, forced, raced>>

\* Mutant: what is backed up is the new binary.
CopiedNew(p) ==
  /\ At(p, "copying")
  /\ \/ Goto(p, "move") /\ file' = [file EXCEPT !["old"] = job[p].has]
     \/ Abandon(p)
  /\ UNCHANGED <<fixed, writing, daemon, pending, used, history>>

\* The copy ends; two at a time of different binaries may be mixed.
Copied(p) ==
  /\ At(p, "copying")
  /\ \/ /\ Goto(p, "move")
        /\ file' = [file EXCEPT !["old"] = job[p].from]
     \/ /\ Goto(p, "move")
        /\ At(Other(p), "copying") /\ job[Other(p)].from # job[p].from
        /\ UNCHANGED file
     \/ Abandon(p)
  /\ UNCHANGED <<fixed, writing, daemon, pending, used, history>>

\* A rename of a to b, with the eyes of those who are writing one of them.
Rename(a, b) ==
  /\ file' = [file EXCEPT ![a] = "absent", ![b] = file[a]]
  /\ writing' = [q \in Procs |-> CASE writing[q] = a -> b
                                   [] writing[q] = b -> "none"
                                   [] OTHER -> writing[q]]

Move(p) ==
  /\ At(p, "move")
  /\ \/ Exists("exe") /\ Goto(p, "place") /\ Rename("exe", Parked(p))
     \/ Abandon(p) /\ UNCHANGED writing
  /\ UNCHANGED <<fixed, daemon, pending, used, history>>

\* The new binary takes the name; what was parked is removed, if it can be.
Place(p) ==
  /\ At(p, "place") /\ Exists(Src(p))
  /\ \E kept \in {file[Parked(p)], "absent"} :
       file' = [file EXCEPT ![Src(p)] = "absent", !["exe"] = file[Src(p)], ![Parked(p)] = kept]
  /\ writing' = [q \in Procs |-> CASE writing[q] = Src(p) -> "exe"
                                   [] writing[q] \in {"exe", Parked(p)} -> "none"
                                   [] OTHER -> writing[q]]
  /\ raced' = (raced \/ ~job[p].alone)
  /\ IF p = "daemon" THEN End(p) /\ pending' = TRUE
                     ELSE Goto(p, "restart") /\ UNCHANGED pending
  /\ UNCHANGED <<fixed, daemon, used, tries, forced>>

\* It is not there any more, or is on another file system.
PlaceFails(p) ==
  /\ At(p, "place") /\ Goto(p, "putback")
  /\ UNCHANGED <<fixed, file, writing, daemon, pending, used, history>>

PutBack(p) ==
  LET copy == IF p = "command" /\ job[p].op = "rollback" THEN {"rollback"} ELSE {} IN
    /\ At(p, "putback") /\ End(p)
    /\ IF Exists(Parked(p))
       THEN /\ file' = [f \in Paths |-> CASE f = "exe" -> file[Parked(p)]
                                          [] f \in copy \cup {Parked(p)} -> "absent"
                                          [] OTHER -> file[f]]
            /\ writing' = [q \in Procs |-> CASE writing[q] = Parked(p) -> "exe"
                                             [] writing[q] = "exe" -> "none"
                                             [] OTHER -> writing[q]]
       ELSE /\ file' = [f \in Paths |-> IF f \in copy THEN "absent" ELSE file[f]]
            /\ UNCHANGED writing
    /\ UNCHANGED <<fixed, daemon, pending, used, history>>

-----------------------------------------------------------------------------
(* Restarts. *)

\* The daemon's process ends, with what it was doing, as job after is left.
Stop(at, runs, after) ==
  /\ daemon' = [at |-> at, runs |-> runs]
  /\ job' = [after EXCEPT !["daemon"] = Idle]
  /\ writing' = [writing EXCEPT !["daemon"] = "none"]
  /\ pending' = FALSE

\* The history, when the daemon starts.
Started ==
  /\ tries' = IF job["command"] = Idle THEN 0 ELSE 2
  /\ raced' = (raced \/ job["command"] # Idle)

\* Mutant: a restart that finds the manager busy is forgotten.
RestartWhenFree ==
  /\ pending /\ daemon.at # "down"
  /\ IF file["exe"] \in Versions /\ job["daemon"] = Idle
     THEN Stop("boot", file["exe"], job) /\ Started
     ELSE pending' = FALSE /\ UNCHANGED <<daemon, job, writing, tries, raced>>
  /\ UNCHANGED <<fixed, file, used, forced>>

\* restartSoon wakes up and execs what has the name now; when that fails a
\* service exits, another process goes on.
Restart ==
  /\ pending
  /\ IF file["exe"] \in Versions THEN Stop("boot", file["exe"], job) /\ Started
     ELSE \/ systemd /\ Stop("down", daemon.runs, job) /\ UNCHANGED <<tries, raced>>
          \/ ~systemd /\ pending' = FALSE /\ UNCHANGED <<daemon, job, writing, tries, raced>>
  /\ UNCHANGED <<fixed, file, used, forced>>

\* restartServiceAfterApply: systemctl restart, or the advice to restart.
RestartService ==
  /\ At("command", "restart")
  /\ IF systemd THEN Stop("down", daemon.runs, [job EXCEPT !["command"] = Idle])
                ELSE End("command") /\ UNCHANGED <<daemon, writing, pending>>
  /\ UNCHANGED <<fixed, file, used, history>>

\* systemd, or somebody, starts the daemon.
Start ==
  /\ daemon.at = "down" /\ file["exe"] \in Versions
  /\ daemon' = [at |-> "boot", runs |-> file["exe"]] /\ Started
  /\ UNCHANGED <<fixed, file, writing, job, pending, used, forced>>

\* cleanupUpgradeLeftovers, whoever left them or is at work on them, where the
\* daemon may remove files; then the configuration is read.
Boot ==
  LET leftovers == {"staged", "rollback", "parkedDaemon", "parkedCommand"} IN
    /\ daemon.at = "boot"
    /\ daemon' = [daemon EXCEPT !.at = IF daemon.runs \in Reads THEN "serve" ELSE "down"]
    /\ file' = [f \in Paths |->
                  IF writable /\ f \in leftovers THEN "absent" ELSE file[f]]
    /\ writing' = [q \in Procs |-> IF writable /\ writing[q] \in leftovers THEN "none" ELSE writing[q]]
    /\ UNCHANGED <<fixed, job, pending, used, history>>

Crash(p) ==
  /\ used.crashes < MaxCrashes /\ Use("crashes")
  /\ IF p = "daemon" THEN daemon.at # "down" /\ Stop("down", daemon.runs, job)
     ELSE /\ job[p] # Idle /\ End(p)
          /\ writing' = [writing EXCEPT ![p] = "none"] /\ UNCHANGED <<daemon, pending>>
  /\ UNCHANGED <<fixed, file, history>>

-----------------------------------------------------------------------------
Replace(p) ==
  \/ \E force \in BOOLEAN : Install(p, force)
  \/ Rollback(p) \/ CopyBack(p) \/ Verify(p)
  \/ Copy(p) \/ Copied(p) \/ Move(p) \/ Place(p) \/ PlaceFails(p) \/ PutBack(p)

Next ==
  \/ Upload \/ (\E b \in Versions \cup Junk : Uploaded(b)) \/ UploadFails \/ Check
  \/ \E p \in Procs : Replace(p) \/ Crash(p)
  \/ Restart \/ RestartService \/ Start \/ Boot

Spec == Init /\ [][Next]_vars

\* restartSoon sleeps a second and wakes; the system starts and stops what it
\* was told to; a replacement, being local, ends.  A body may never arrive.
FairSpec ==
  /\ Spec /\ WF_vars(Restart) /\ WF_vars(RestartService) /\ WF_vars(Start) /\ WF_vars(Boot)

-----------------------------------------------------------------------------
(* Properties *)

TypeOK ==
  /\ writable \in BOOLEAN /\ systemd \in BOOLEAN
  /\ file \in [Paths -> Contents]
  /\ writing \in [Procs -> Paths \cup {"none"}]
  /\ job \in [Procs -> Job]
  /\ daemon \in [at : {"serve", "boot", "down"}, runs : Versions]
  /\ pending \in BOOLEAN
  /\ used \in [uploads : 0..MaxUploads, commands : 0..MaxCommands, crashes : 0..MaxCrashes]
  /\ tries \in 0..2 /\ forced \in BOOLEAN /\ raced \in BOOLEAN

\* Whatever is interrupted, repeated or broken off, there is a binary that
\* runs to put back: under its own name, as the backup, or parked (swapBinary
\* backs up first).  Two processes that replace it at a time can lose them all.
SurvivingCopy ==
  ~raced => \E f \in {"exe", "old", "parkedDaemon", "parkedCommand"} : file[f] \in Versions

\* Unless two processes have worked at a time, what has the binary's name was
\* verified: a torn or foreign file is never there to be started.  And no
\* version that can say that it does not read the configuration is there,
\* unless it was forced; one older than -config-check may be, which the
\* preflight skips (configcheck.go:188-189, upgrade_handler.go:362-371).
ExeSound ==
  ~raced => /\ file["exe"] \in Versions \cup {"absent"}
            /\ Problem(file["exe"]) => forced

\* The backup is the way back: after one replacement since the daemon
\* started, tried or done, it is the version that the daemon runs.
BackupIsRunning ==
  tries = 1 /\ daemon.at # "down" /\ file["old"] # "torn" => file["old"] = daemon.runs

\* A process that is alone puts in place the very file it has verified, also
\* when that is a copy of the backup, which the replacement overwrites.
VerifiedIsPlaced ==
  [][\A p \in Procs : Place(p) /\ job[p].alone => file'["exe"] = job[p].has]_vars

\* An installation takes effect: the daemon comes to run what has the name,
\* or has gone down with nothing, or something torn, to start.
TakesEffect ==
  pending ~> \/ ~pending /\ daemon.runs = file["exe"]
             \/ file["exe"] \notin Versions
=============================================================================
