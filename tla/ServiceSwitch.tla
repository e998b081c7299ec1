---------------------------- MODULE ServiceSwitch ----------------------------
(***************************************************************************)
(* UninstallDockerService and InstallPouchService with their goroutines:   *)
(* the one that tries to stop docker, the timer, and the one that dials    *)
(* pouchd's socket, with the channels on which the caller waits for them.  *)
(***************************************************************************)
EXTENDS Naturals, Sequences

CONSTANT Faulty \* the commands that may fail: "cp", "systemctl", "rpm"

VARIABLES
    main,        \* where the calling goroutine is
    backups,     \* configuration files copied to *.bk
    stopper,     \* the goroutine of StopDockerService
    attempts,    \* its calls of systemctl
    stopDocker,  \* chan error, 1
    timer,       \* the goroutine that sleeps for 120 s
    timeout,     \* chan bool, 1
    dialer,      \* the goroutine that dials; check is not buffered
    connections, \* connections it has opened, none of which it closes
    dockerd,     \* "up", "stopped" or "removed"
    pouchd       \* "absent", "starting" or "listening"

uninstallVars == <<backups, stopper, attempts, stopDocker, dockerd>>
waitVars == <<timer, timeout, dialer, connections>>
vars == <<main, uninstallVars, waitVars, pouchd>>

TypeOK ==
    /\ main \in {"backup", "stop", "receive", "erase", "install", "select", "ok", "failed"}
    /\ backups \in 0..2
    /\ stopper \in {"none", "trying", "succeeded", "failed", "ended"}
    /\ attempts \in 0..3
    /\ stopDocker \in {<<>>, <<"nil">>, <<"err">>}
    /\ timer \in {"none", "sleeping", "awake", "ended"}
    /\ timeout \in {<<>>, <<"true">>}
    /\ dialer \in {"none", "dialing", "sending"}
    /\ connections \in Nat
    /\ dockerd \in {"up", "stopped", "removed"}
    /\ pouchd \in {"absent", "starting", "listening"}

Init ==
    /\ main = "backup"
    /\ backups = 0
    /\ stopper = "none"
    /\ attempts = 0
    /\ stopDocker = <<>>
    /\ timer = "none"
    /\ timeout = <<>>
    /\ dialer = "none"
    /\ connections = 0
    /\ dockerd = "up"
    /\ pouchd = "absent"

Fails(command) == command \in Faulty

-----------------------------------------------------------------------------
(* UninstallDockerService and StopDockerService. *)

\* Mutant: a failed copy is ignored.
BackupConfig_IgnoresError ==
    /\ main = "backup"
    /\ \/ backups' = backups + 1 /\ main' = IF backups' = 2 THEN "stop" ELSE "backup"
       \/ Fails("cp") /\ main' = "stop" /\ UNCHANGED backups
    /\ UNCHANGED <<stopper, attempts, stopDocker, waitVars, dockerd, pouchd>>

\* The sysconfig file, then daemon.json.
BackupConfig ==
    /\ main = "backup"
    /\ \/ backups' = backups + 1 /\ main' = IF backups' = 2 THEN "stop" ELSE "backup"
       \/ Fails("cp") /\ main' = "failed" /\ UNCHANGED backups
    /\ UNCHANGED <<stopper, attempts, stopDocker, waitVars, dockerd, pouchd>>

GoStop ==
    /\ main = "stop"
    /\ main' = "receive"
    /\ stopper' = "trying"
    /\ UNCHANGED <<backups, attempts, stopDocker, waitVars, dockerd, pouchd>>

\* Mutant: the comparison of the loop is <=.
TryStop_Fourth ==
    /\ stopper = "trying"
    /\ attempts' = attempts + 1
    /\ \/ stopper' = "succeeded" /\ dockerd' = "stopped"
       \/ /\ Fails("systemctl")
          /\ stopper' = IF attempts' <= 3 THEN "trying" ELSE "failed"
          /\ dockerd' \in {dockerd, "stopped"}
    /\ UNCHANGED <<main, backups, stopDocker, waitVars, pouchd>>

\* systemctl may give up waiting for a daemon that stops nevertheless.
TryStop ==
    /\ stopper = "trying"
    /\ attempts' = attempts + 1
    /\ \/ stopper' = "succeeded" /\ dockerd' = "stopped"
       \/ /\ Fails("systemctl")
          /\ stopper' = IF attempts' < 3 THEN "trying" ELSE "failed"
          /\ dockerd' \in {dockerd, "stopped"}
    /\ UNCHANGED <<main, backups, stopDocker, waitVars, pouchd>>

\* Mutant: only the goroutine sees the error.
SendStopped_Nil ==
    /\ stopper \in {"succeeded", "failed"}
    /\ Len(stopDocker) < 1
    /\ stopDocker' = Append(stopDocker, "nil")
    /\ stopper' = "ended"
    /\ UNCHANGED <<main, backups, attempts, waitVars, dockerd, pouchd>>

\* Of the errors of three attempts the last is sent.
SendStopped ==
    /\ stopper \in {"succeeded", "failed"}
    /\ Len(stopDocker) < 1
    /\ stopDocker' = Append(stopDocker, IF stopper = "succeeded" THEN "nil" ELSE "err")
    /\ stopper' = "ended"
    /\ UNCHANGED <<main, backups, attempts, waitVars, dockerd, pouchd>>

ReceiveStopped ==
    /\ main = "receive"
    /\ stopDocker # <<>>
    /\ stopDocker' = Tail(stopDocker)
    /\ main' = IF Head(stopDocker) = "nil" THEN "erase" ELSE "failed"
    /\ UNCHANGED <<backups, stopper, attempts, waitVars, dockerd, pouchd>>

EraseDockerPackage ==
    /\ main = "erase"
    /\ \/ main' = "install" /\ dockerd' = "removed"
       \/ Fails("rpm") /\ main' = "failed" /\ UNCHANGED dockerd
    /\ UNCHANGED <<backups, stopper, attempts, stopDocker, waitVars, pouchd>>

-----------------------------------------------------------------------------
(* InstallPouchService and waitPouchAlive. *)

InstallPouchPackage ==
    /\ main = "install"
    /\ \/ /\ main' = "select"
          /\ pouchd' = "starting"
          /\ timer' = "sleeping"
          /\ dialer' = "dialing"
       \/ Fails("rpm") /\ main' = "failed" /\ UNCHANGED <<pouchd, timer, dialer>>
    /\ UNCHANGED <<uninstallVars, timeout, connections>>

WakeUp ==
    /\ timer = "sleeping"
    /\ timer' = "awake"
    /\ UNCHANGED <<main, uninstallVars, timeout, dialer, connections, pouchd>>

\* Mutant: the goroutine ends without a word.
SendTimeout_Never ==
    /\ timer = "awake"
    /\ timer' = "ended"
    /\ UNCHANGED <<main, uninstallVars, timeout, dialer, connections, pouchd>>

SendTimeout ==
    /\ timer = "awake"
    /\ Len(timeout) < 1
    /\ timeout' = Append(timeout, "true")
    /\ timer' = "ended"
    /\ UNCHANGED <<main, uninstallVars, dialer, connections, pouchd>>

\* Mutant: the dialler does not wait for its message to be taken.
Dial_Buffered ==
    /\ dialer \in {"dialing", "sending"}
    /\ pouchd = "listening"
    /\ connections' = connections + 1
    /\ dialer' = "sending"
    /\ UNCHANGED <<main, uninstallVars, timer, timeout, pouchd>>

\* Mutant: whatever Dial returns is taken for a connection.
Dial_IgnoresError ==
    /\ dialer = "dialing"
    /\ connections' = IF pouchd = "listening" THEN connections + 1 ELSE connections
    /\ dialer' = "sending"
    /\ UNCHANGED <<main, uninstallVars, timer, timeout, pouchd>>

\* A dial that fails is repeated at once, and changes nothing.
Dial ==
    /\ dialer = "dialing"
    /\ pouchd = "listening"
    /\ connections' = connections + 1
    /\ dialer' = "sending"
    /\ UNCHANGED <<main, uninstallVars, timer, timeout, pouchd>>

\* The select takes what is ready; the dialler goes on dialling.
ReceiveCheck ==
    /\ main = "select"
    /\ dialer = "sending"
    /\ main' = "ok"
    /\ dialer' = "dialing"
    /\ UNCHANGED <<uninstallVars, timer, timeout, connections, pouchd>>

ReceiveTimeout ==
    /\ main = "select"
    /\ timeout # <<>>
    /\ timeout' = Tail(timeout)
    /\ main' = "failed"
    /\ UNCHANGED <<uninstallVars, timer, dialer, connections, pouchd>>

\* pouchd gets ready, or crashes and is started again.
PouchStep ==
    /\ \/ pouchd = "starting" /\ pouchd' = "listening"
       \/ pouchd = "listening" /\ pouchd' = "starting"
    /\ UNCHANGED <<main, uninstallVars, waitVars>>

Caller ==
    \/ BackupConfig \/ GoStop \/ ReceiveStopped \/ EraseDockerPackage
    \/ InstallPouchPackage \/ ReceiveCheck \/ ReceiveTimeout

Stopper == TryStop \/ SendStopped

Timer == WakeUp \/ SendTimeout

Next == Caller \/ Stopper \/ Timer \/ Dial \/ PouchStep

Spec == Init /\ [][Next]_vars

\* The scheduler runs every goroutine that is ready, and the sleep ends; when
\* pouchd listens, if ever, and whether a dial meets it then, is left open.
FairSpec == Spec /\ WF_vars(Caller) /\ WF_vars(Stopper) /\ WF_vars(Timer)
-----------------------------------------------------------------------------
(***************************************************************************)
(* docker is not touched before both of its configuration files are safe   *)
(* ("first, backup some config files, in case we may revert migration"),   *)
(* and its package is not erased under a daemon that runs.                 *)
(***************************************************************************)
ErasedSafely ==
    /\ dockerd # "up" => backups = 2
    /\ main = "erase" => dockerd = "stopped"

(***************************************************************************)
(* InstallPouchService reports success only if pouchd has accepted a       *)
(* connection - whichever of the timer, the dialler and pouchd is faster.  *)
(***************************************************************************)
OkIsAnswered == main = "ok" => connections > 0 /\ dockerd = "removed"

(***************************************************************************)
(* The dialler never closes a connection and never ends, but as nobody     *)
(* receives from check a second time, it opens two connections at most,    *)
(* and one if the caller has timed out.                                    *)
(***************************************************************************)
ConnectionsBounded == connections <= IF main = "ok" THEN 2 ELSE 1

(***************************************************************************)
(* Whatever fails, and if pouchd never listens, the calls return: the      *)
(* attempts to stop docker are counted and the sleep of the timer ends.    *)
(***************************************************************************)
Returns == <>(main \in {"ok", "failed"})

-----------------------------------------------------------------------------
(* An inductive invariant: what each place of the caller says of the rest. *)

\* The goroutine of StopDockerService lives while the caller waits for it.
StopperInv ==
    /\ main \in {"backup", "stop"} => stopper = "none" /\ attempts = 0
    /\ main = "receive" => stopper # "none" /\ (stopper = "ended" <=> stopDocker # <<>>)
    /\ main # "receive" => stopper \in {"none", "ended"} /\ stopDocker = <<>>
    /\ stopper = "trying" => attempts < 3
    /\ stopper = "succeeded" \/ stopDocker = <<"nil">> => dockerd = "stopped"

DockerInv ==
    /\ main = "backup" => backups < 2
    /\ main \in {"backup", "stop"} => dockerd = "up"
    /\ main \notin {"backup", "failed"} => backups = 2
    /\ main = "receive" => dockerd # "removed"
    /\ main = "erase" => dockerd = "stopped"
    /\ main \in {"install", "select", "ok"} => dockerd = "removed"
    /\ dockerd # "up" => backups = 2

\* The timer and the dialler outlive the call.
WaitInv ==
    /\ dialer = "none" <=> pouchd = "absent"
    /\ dialer = "none" => timer = "none" /\ connections = 0
    /\ dialer # "none" => main \in {"select", "ok", "failed"} /\ dockerd = "removed"
    /\ main \in {"select", "ok"} => dialer # "none"
    /\ timer \in {"none", "sleeping", "awake"} => timeout = <<>>
    /\ dialer # "none" =>
          connections = (IF main = "ok" THEN 1 ELSE 0) + (IF dialer = "sending" THEN 1 ELSE 0)

(***************************************************************************)
(* Each goroutine is where the caller's place lets it be, and a connection *)
(* is open exactly for each message the dialler has sent or is sending.    *)
(***************************************************************************)
SwitchInv == TypeOK /\ StopperInv /\ DockerInv /\ WaitInv

-----------------------------------------------------------------------------
(* The calls as the migrators see them: effects show when the call returns. *)

callSeen ==
    IF main \in {"backup", "stop", "receive"} THEN "stop"
    ELSE IF main = "select" THEN "install"
    ELSE main

engineSeen ==
    IF callSeen = "stop" \/ dockerd = "up" THEN "docker"
    ELSE IF main = "select" \/ pouchd = "absent" THEN "none"
    ELSE "pouch"

S == INSTANCE EngineSwitch WITH
        call <- callSeen,
        engine <- engineSeen,
        package <- IF dockerd = "removed" THEN "erased" ELSE "installed"

(***************************************************************************)
(* With their goroutines and channels the two functions are the three      *)
(* steps that ColdMigrator and LiveMigrator take them for.                 *)
(***************************************************************************)
ImplementsSwitch == S!SwitchSpec
=============================================================================
