------------------------ MODULE ServiceSwitch_proofs ------------------------
(***************************************************************************)
(* Proofs about ServiceSwitch, for every set of commands that may fail:    *)
(* SwitchInv is inductive, the safety properties follow from it, and every *)
(* step is a step of EngineSwitch or leaves what the migrators see alone.  *)
(***************************************************************************)
EXTENDS ServiceSwitch, TLAPS

LEMMA InitEstablishesInv == Init => SwitchInv
BY DEF Init, SwitchInv, TypeOK, StopperInv, DockerInv, WaitInv

\* One lemma per goroutine.
LEMMA UninstallKeepsInv ==
    ASSUME SwitchInv, BackupConfig \/ GoStop \/ ReceiveStopped \/ EraseDockerPackage
    PROVE  SwitchInv'
<1> USE DEF SwitchInv, TypeOK, StopperInv, DockerInv, WaitInv, uninstallVars, waitVars
<1>1. CASE BackupConfig
    BY <1>1 DEF BackupConfig
<1>2. CASE GoStop
    BY <1>2 DEF GoStop
<1>3. CASE ReceiveStopped
  <2>1. stopDocker \in {<<"nil">>, <<"err">>} /\ Tail(stopDocker) = <<>>
    BY <1>3 DEF ReceiveStopped
  <2>2. stopDocker # <<"nil">> => Head(stopDocker) = "err"
    BY <2>1
  <2> QED
    BY <1>3, <2>1, <2>2 DEF ReceiveStopped
<1>4. CASE EraseDockerPackage
    BY <1>4 DEF EraseDockerPackage
<1> QED
    BY <1>1, <1>2, <1>3, <1>4

LEMMA StopperKeepsInv ==
    ASSUME SwitchInv, Stopper
    PROVE  SwitchInv'
<1> USE DEF SwitchInv, TypeOK, StopperInv, DockerInv, WaitInv, waitVars
<1>1. main = "receive" /\ stopper # "ended"
    BY DEF Stopper, TryStop, SendStopped
<1>2. CASE TryStop
    BY <1>1, <1>2 DEF TryStop
<1>3. CASE SendStopped
  <2>1. stopDocker = <<>>
    BY <1>1
  <2>2. \/ stopper = "succeeded" /\ stopDocker' = <<"nil">>
        \/ stopper = "failed" /\ stopDocker' = <<"err">>
    BY <1>3, <2>1 DEF SendStopped
  <2>3. stopDocker' # <<>>
    BY <2>2
  <2> QED
    BY <1>1, <1>3, <2>2, <2>3 DEF SendStopped
<1> QED
    BY <1>2, <1>3 DEF Stopper

LEMMA InstallKeepsInv ==
    ASSUME SwitchInv, InstallPouchPackage \/ ReceiveCheck \/ ReceiveTimeout
    PROVE  SwitchInv'
<1> USE DEF SwitchInv, TypeOK, StopperInv, DockerInv, WaitInv, uninstallVars, waitVars
<1>1. CASE InstallPouchPackage
    BY <1>1 DEF InstallPouchPackage
<1>2. CASE ReceiveCheck
    BY <1>2 DEF ReceiveCheck
<1>3. CASE ReceiveTimeout
  <2>1. timeout = <<"true">>
    BY <1>3 DEF ReceiveTimeout
  <2>2. timeout' = <<>>
    BY <1>3, <2>1 DEF ReceiveTimeout
  <2>3. timer = "ended" /\ dialer # "none"
    BY <1>3, <2>1 DEF ReceiveTimeout
  <2> QED
    BY <1>3, <2>2, <2>3 DEF ReceiveTimeout
<1> QED
    BY <1>1, <1>2, <1>3

LEMMA WaitersKeepInv ==
    ASSUME SwitchInv, Timer \/ Dial \/ PouchStep
    PROVE  SwitchInv'
<1> USE DEF SwitchInv, TypeOK, StopperInv, DockerInv, WaitInv, uninstallVars, waitVars
<1>1. CASE WakeUp
    BY <1>1 DEF WakeUp
<1>2. CASE SendTimeout
  <2>1. timeout' = <<"true">>
    BY <1>2 DEF SendTimeout
  <2> QED
    BY <1>2, <2>1 DEF SendTimeout
<1>3. CASE Dial
    BY <1>3 DEF Dial
<1>4. CASE PouchStep
    BY <1>4 DEF PouchStep
<1> QED
    BY <1>1, <1>2, <1>3, <1>4 DEF Timer

(***************************************************************************)
(* SwitchInv holds in every reachable state, whatever commands may fail.   *)
(***************************************************************************)
THEOREM SwitchInvHolds == Spec => []SwitchInv
<1>1. SwitchInv /\ [Next]_vars => SwitchInv'
  <2>1. ASSUME SwitchInv, Next PROVE SwitchInv'
    BY <2>1, UninstallKeepsInv, StopperKeepsInv, InstallKeepsInv, WaitersKeepInv
       DEF Next, Caller
  <2>2. ASSUME SwitchInv, UNCHANGED vars PROVE SwitchInv'
    BY <2>2 DEF SwitchInv, TypeOK, StopperInv, DockerInv, WaitInv, vars, uninstallVars,
                waitVars
  <2> QED
    BY <2>1, <2>2
<1> QED
    BY InitEstablishesInv, <1>1, PTL DEF Spec

(***************************************************************************)
(* Every variable keeps its type: the channels hold one value at most, and *)
(* the goroutines are where the code can have them.                        *)
(***************************************************************************)
THEOREM SwitchTypeCorrect == Spec => []TypeOK
<1>1. SwitchInv => TypeOK
    BY DEF SwitchInv
<1> QED
    BY <1>1, SwitchInvHolds, PTL

(***************************************************************************)
(* docker is stopped only with its configuration safe, and its package is  *)
(* never erased under a running daemon.                                    *)
(***************************************************************************)
THEOREM DockerIsErasedSafely == Spec => []ErasedSafely
<1>1. SwitchInv => ErasedSafely
    BY DEF SwitchInv, DockerInv, ErasedSafely
<1> QED
    BY SwitchInvHolds, <1>1, PTL

(***************************************************************************)
(* Success is reported only after pouchd has accepted a connection.        *)
(***************************************************************************)
THEOREM SuccessIsAnswered == Spec => []OkIsAnswered
<1>1. SwitchInv => OkIsAnswered
    BY DEF SwitchInv, TypeOK, DockerInv, WaitInv, OkIsAnswered
<1> QED
    BY SwitchInvHolds, <1>1, PTL

(***************************************************************************)
(* The dialling goroutine, which never ends, leaks two connections at most.*)
(***************************************************************************)
THEOREM LeakIsBounded == Spec => []ConnectionsBounded
<1>1. SwitchInv => ConnectionsBounded
    BY DEF SwitchInv, TypeOK, WaitInv, ConnectionsBounded
<1> QED
    BY SwitchInvHolds, <1>1, PTL

-----------------------------------------------------------------------------
(* Refinement. *)


LEMMA InitIsSwitchInit == Init => S!SwitchInit
BY DEF Init, S!SwitchInit, callSeen, engineSeen

LEMMA StepsAreSwitchSteps ==
    ASSUME SwitchInv, [Next]_vars
    PROVE  [S!SwitchNext]_S!switchVars
<1> USE DEF SwitchInv, TypeOK, StopperInv, DockerInv, WaitInv, callSeen, engineSeen,
            uninstallVars, waitVars, S!SwitchNext, S!switchVars
<1>1. CASE BackupConfig
    BY <1>1 DEF BackupConfig, S!Stop
<1>2. CASE GoStop
    BY <1>2 DEF GoStop
<1>3. CASE ReceiveStopped
  <2>1. CASE Head(stopDocker) = "nil"
    <3>1. stopDocker = <<"nil">>
      BY <1>3, <2>1 DEF ReceiveStopped
    <3> QED
      BY <1>3, <2>1, <3>1 DEF ReceiveStopped, S!Stop
  <2>2. CASE Head(stopDocker) # "nil"
      BY <1>3, <2>2 DEF ReceiveStopped, S!Stop
  <2> QED
      BY <2>1, <2>2
<1>4. CASE EraseDockerPackage
    BY <1>4 DEF EraseDockerPackage, S!Erase
<1>5. CASE InstallPouchPackage
    BY <1>5 DEF InstallPouchPackage, S!Install
<1>6. CASE ReceiveCheck
    BY <1>6 DEF ReceiveCheck, S!Install
<1>7. CASE ReceiveTimeout
    BY <1>7 DEF ReceiveTimeout, S!Install
<1>8. CASE Stopper
    BY <1>8 DEF Stopper, TryStop, SendStopped
<1>9. CASE Timer \/ Dial \/ PouchStep
    BY <1>9 DEF Timer, WakeUp, SendTimeout, Dial, PouchStep
<1>10. CASE UNCHANGED vars
    BY <1>10 DEF vars
<1> QED
    BY <1>1, <1>2, <1>3, <1>4, <1>5, <1>6, <1>7, <1>8, <1>9, <1>10 DEF Next, Caller

(***************************************************************************)
(* To its caller the switch is three atomic calls, as the migrators'       *)
(* modules have it.                                                        *)
(***************************************************************************)
THEOREM SwitchIsThreeCalls == Spec => ImplementsSwitch
<1> QED
    BY InitIsSwitchInit, StepsAreSwitchSteps, SwitchInvHolds, PTL
       DEF Spec, ImplementsSwitch, S!SwitchSpec
=============================================================================
