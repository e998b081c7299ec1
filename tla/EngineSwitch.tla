---------------------------- MODULE EngineSwitch ----------------------------
(***************************************************************************)
(* What the migrators rely on when they replace docker by pouch: three     *)
(* calls in this order, none of which is repeated or taken back.  The stop *)
(* and the installation may have had their effect although they failed; an *)
(* rpm command that fails has had none.                                    *)
(***************************************************************************)
VARIABLES
    call,    \* the call that comes next, "ok" or "failed"
    engine,  \* "docker", "none" or "pouch"
    package  \* docker's package: "installed" or "erased"

switchVars == <<call, engine, package>>

SwitchInit == call = "stop" /\ engine = "docker" /\ package = "installed"

\* dockerd is stopped when the call succeeds, and perhaps when it fails.
Stop ==
    /\ call = "stop"
    /\ \/ call' = "erase" /\ engine' = "none"
       \/ call' = "failed" /\ engine' \in {"docker", "none"}
    /\ UNCHANGED package

Erase ==
    /\ call = "erase"
    /\ \/ call' = "install" /\ package' = "erased"
       \/ call' = "failed" /\ UNCHANGED package
    /\ UNCHANGED engine

Install ==
    /\ call = "install"
    /\ \/ call' = "ok" /\ engine' = "pouch"
       \/ call' = "failed" /\ engine' \in {"none", "pouch"}
    /\ UNCHANGED package

SwitchNext == Stop \/ Erase \/ Install

SwitchSpec == SwitchInit /\ [][SwitchNext]_switchVars
=============================================================================
