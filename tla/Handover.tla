------------------------------ MODULE Handover ------------------------------
(***************************************************************************)
(* What a migration promises, whatever steps it takes: a hand-over of the  *)
(* containers of a host from docker to pouch that is decided once and for  *)
(* all of them.  `sides` tells on which sides a container is complete.     *)
(***************************************************************************)
CONSTANT Containers

VARIABLES
    engine, \* what manages the containers: "docker", "none" or "pouch"
    sides,  \* for each container the sides that could start it with its files
    gone,   \* containers removed by their users
    phase   \* "serving", "moving", "committed" or "stuck"

vars == <<engine, sides, gone, phase>>

Present == Containers \ gone

Init ==
    /\ engine = "docker"
    /\ gone \in SUBSET Containers
    /\ sides = [c \in Containers |-> IF c \in gone THEN {} ELSE {"docker"}]
    /\ phase = "serving"

\* Work on the pouch side of c that docker's side does not notice.
Prepare(c) ==
    /\ phase = "serving"
    /\ c \in Present
    /\ \E s \in SUBSET {"docker", "pouch"} :
          "docker" \in s /\ sides' = [sides EXCEPT ![c] = s]
    /\ UNCHANGED <<engine, gone, phase>>

Begin ==
    /\ phase = "serving"
    /\ phase' = "moving"
    /\ UNCHANGED <<engine, sides, gone>>

\* The files of c travel; they may get stuck on the way.
Transfer(c) ==
    /\ phase = "moving"
    /\ c \in Present
    /\ \E s \in SUBSET {"docker", "pouch"} : sides' = [sides EXCEPT ![c] = s]
    /\ phase' \in {"moving", "stuck"}
    /\ UNCHANGED <<engine, gone>>

\* The attempt is undone only when docker has everything again ...
Abort ==
    /\ phase = "moving"
    /\ \A c \in Present : "docker" \in sides[c]
    /\ phase' = "serving"
    /\ UNCHANGED <<engine, sides, gone>>

\* ... and decided only when pouch has everything.
Commit ==
    /\ phase = "moving"
    /\ \A c \in Present : "pouch" \in sides[c]
    /\ phase' = "committed"
    /\ UNCHANGED <<engine, sides, gone>>

\* The attempt ends where it is, and docker goes on as it can.
GiveUp ==
    /\ engine = "docker"
    /\ phase' = "stuck"
    /\ UNCHANGED <<engine, sides, gone>>

\* Another attempt starts only where docker has everything.
Resume ==
    /\ phase = "stuck"
    /\ engine = "docker"
    /\ \A c \in Present : "docker" \in sides[c]
    /\ phase' = "serving"
    /\ UNCHANGED <<engine, sides, gone>>

Retire ==
    /\ phase = "committed"
    /\ engine = "docker"
    /\ engine' = "none"
    /\ UNCHANGED <<sides, gone, phase>>

TakeOver ==
    /\ phase = "committed"
    /\ engine = "none"
    /\ engine' = "pouch"
    /\ UNCHANGED <<sides, gone, phase>>

Delete(c) ==
    /\ engine = "docker"
    /\ gone' = gone \union {c}
    /\ sides' = [sides EXCEPT ![c] = {}]
    /\ UNCHANGED <<engine, phase>>

Next ==
    \/ \E c \in Containers : Prepare(c) \/ Transfer(c) \/ Delete(c)
    \/ Begin \/ Abort \/ Commit \/ GiveUp \/ Resume \/ Retire \/ TakeOver

Spec == Init /\ [][Next]_vars
=============================================================================
