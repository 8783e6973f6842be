----------------------- MODULE MCContainerRecursion -----------------------
(***************************************************************************)
(* Small trees for ContainerRecursion: a root and two contents that may    *)
(* hold each other and themselves.                                         *)
(***************************************************************************)
EXTENDS ContainerRecursion, TLC

CONSTANTS r, a, b

Of(o, trait) == [object |-> o, trait |-> trait]
A == Of(a, "taken")
B == Of(b, "taken")

\* An object of a form, with nothing wrong with it.
Sound(form, bytes, members) ==
    [form |-> form, bytes |-> bytes, damaged |-> FALSE, partial |-> "COMPLETE", members |-> members]

UpTo2(S) == {<<>>} \cup {<<m>> : m \in S} \cup {<<m, n>> : m \in S, n \in S}

RootArchives ==
    {Sound("archive", 2, m) :
        m \in UpTo2({A, B, Of(a, "refused"), Of(b, "ignored"), Of(a, "unreadable"),
                     Of(b, "undecodable"), Of(b, "unlisted")})
             \cup {<<A, B, B>>, <<A, Of(b, "unlisted"), B>>}}
RootDocuments ==
    {[Sound(form, 2, m) EXCEPT !.partial = partial] :
        form \in {"document", "package"}, m \in UpTo2({A, B}),
        partial \in {"COMPLETE", "PARTIAL_UNSUPPORTED"}}
RootStreams == {Sound("stream", 2, <<m>>) : m \in {A, Of(a, "unreadable"), Of(b, "undecodable")}}
RootDisks ==
    {[Sound("disk", 2, m) EXCEPT !.damaged = damaged] :
        m \in UpTo2({A, B, Of(a, "unreadable")}), damaged \in BOOLEAN}

AContents ==
    {Sound(form, bytes, m) : form \in {"archive", "disk"}, bytes \in {0, 2},
                             m \in {<<A>>, <<B, B>>, <<A, B>>}}
      \cup {Sound("stream", 2, <<B>>), Sound("document", 2, <<B>>), Sound("package", 2, <<B>>),
            Sound("corrupt", 2, <<>>), [Sound("plain", 2, <<>>) EXCEPT !.damaged = TRUE]}
BContents ==
    {Sound("plain", bytes, <<>>) : bytes \in {1, 4}}
      \cup {Sound("archive", 1, <<A>>), Sound("unsupported", 1, <<>>), Sound("unopenable", 1, <<>>)}

Trees(roots, as) ==
    {(r :> x) @@ (a :> y) @@ (b :> z) : x \in roots, y \in as, z \in BContents}

\* No disk inside a disk, directly or further down.
FlatTrees ==
    Trees(RootArchives \cup RootDocuments \cup RootStreams,
          {y \in AContents : y.form # "disk"})
      \cup Trees(RootDisks, {y \in AContents : y.form # "disk"})
      \cup {c \in Trees(RootArchives, AContents) :
               c[a].form = "disk" /\ c[b].form # "archive"
                 /\ \A i \in DOMAIN c[a].members : c[a].members[i] = B}

\* A partition that holds a partition table.
NestedDisks == Trees({Sound("disk", 2, <<A>>)}, {Sound("disk", 2, <<B>>)})
===========================================================================
