---------------------------- MODULE MCImageStore ----------------------------
(* Small instances of ImageStore. *)
EXTENDS ImageStore, TLC

CONSTANTS c1, c2, app, l1, l2, l3

\* What users may write for the hub's app, and an image by its digest.
Full == [registry |-> "hub", namespace |-> "library", repo |-> app, tag |-> "latest",
         digest |-> ""]
Short == [Full EXCEPT !.registry = "", !.namespace = "", !.tag = ""]
Digested == [Full EXCEPT !.registry = "private", !.namespace = "user", !.tag = "",
                         !.digest = "sha256"]

FullNames == [c \in Containers |-> IF c = c1 THEN Full ELSE Digested]
ShortNames == [c \in Containers |-> Short]
SameName == [c \in Containers |-> Full]

\* The image of c1 was first tagged "app:latest"; the other has no tag.
Tags == [c \in Containers |-> IF c = c1 THEN <<[Short EXCEPT !.tag = "latest"]>> ELSE <<>>]
Digests == [c \in Containers |-> <<Digested>>]

\* The app, built for this platform and for another one; and its next version.
Built(sum) == Manifest(Config(<<>>, <<sum>>), <<Layer(sum)>>)
App == [type |-> "index", refs |-> {Built("amd"), Built("arm")}, matching |-> {Built("amd")}]
NextApp == [type |-> "index", refs |-> {Built("new")}, matching |-> {Built("new")}]

\* An old image, newest entry first; blob "e" is in it twice, the second time
\* without a word on its size.  And manifests that no registry should have.
Entry(created, throwaway, size) ==
    [created |-> created, throwaway |-> throwaway, size |-> size]
Old == Schema1Manifest(<<"e", "b", "e", "a">>,
           <<Entry(4, "true", "unset"), Entry(3, "unset", "some"),
             Entry(2, "unset", "unset"), Entry(1, "false", "zero")>>, <<"shorter">>)
Odd == {Schema1Manifest(<<"a">>, <<>>, <<"equal">>), Schema1Manifest(<<>>, <<>>, <<"shorter">>),
        Schema1Manifest(<<>>, <<>>, <<"longer">>), Schema1Manifest(<<>>, <<>>, <<>>)}

Registered == (Full :> {App} \union Odd) @@ (Digested :> {Old})
MovingTag == (Full :> {App, NextApp}) @@ (Digested :> {Old})
OldApp == (Full :> {Old}) @@ (Digested :> {App})
Images == [c \in Containers |-> IF c = c1 THEN App ELSE Old]

LeaseSymmetry == Permutations({l1, l2, l3})
=============================================================================
