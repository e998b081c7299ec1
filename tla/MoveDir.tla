------------------------------- MODULE MoveDir -------------------------------
(***************************************************************************)
(* utils.MoveDir: the shell command  mv src/* dst  by which the legacy     *)
(* content of a container travels between the two upper directories.  A    *)
(* directory is the set of its top-level entries; Hidden are the entries   *)
(* whose name starts with a dot, which the shell's * does not match.       *)
(***************************************************************************)
CONSTANTS
    Files,   \* top-level entries an upper directory may hold
    Hidden   \* those of them that are dotfiles

ASSUME HiddenAssumption == Hidden \subseteq Files

\* What src/* expands to.
Glob(dir) == dir \ Hidden

(***************************************************************************)
(* What the command can do to a directory that holds src: `moved` entries  *)
(* have left for dst, and `ok` is the exit status.  When nothing matches,  *)
(* mv is given the literal src/* and fails; when it breaks off half-way    *)
(* (mayFail) any part of the entries may have been moved.                  *)
(***************************************************************************)
MoveDir(src, mayFail) ==
    {r \in [moved: SUBSET Glob(src), ok: BOOLEAN] :
        /\ r.ok => r.moved = Glob(src) /\ Glob(src) # {}
        /\ r.ok \/ mayFail \/ Glob(src) = {}}
=============================================================================
