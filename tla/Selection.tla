------------------------------ MODULE Selection ------------------------------
(***************************************************************************)
(* The loop that appends what it does not skip, in the converter of schema *)
(* 1 manifests and in that of capabilities.                                *)
(***************************************************************************)
EXTENDS Naturals, Sequences

\* The entries of s that are not in E, in their order: the SelectSeq of the
\* standard modules, as a function that can be reasoned about.
Skip(s, E) ==
    LET skipped[n \in 0..Len(s)] ==
            IF n = 0 THEN <<>>
            ELSE IF s[n] \in E THEN skipped[n - 1]
            ELSE Append(skipped[n - 1], s[n])
    IN  skipped[Len(s)]
=============================================================================
