---------------------------- MODULE MCDependencies ----------------------------
(***************************************************************************)
(* Small instances of Dependencies: four situations to begin with, and     *)
(* what may happen in them.                                                *)
(***************************************************************************)
EXTENDS DependenciesRefinement

Key(namespace, name) == [namespace |-> namespace, name |-> name]

A == Key("apps", "a")
B == Key("infra", "b")
C == Key("apps", "c")

Trio == {A, B, C}

OnA == <<Key("apps", "a")>>
OnB == <<Key("infra", "b")>>

\* Listed twice, A is read twice, and may change in between.
OnATwice == OnA \o OnA

\* Two sources of one key, and one of another.
Repo == [kind |-> "GitRepository", key |-> Key("apps", "repo")]
Bucket == [kind |-> "Bucket", key |-> Key("apps", "repo")]
Image == [kind |-> "OCIRepository", key |-> Key("apps", "image")]

ThreeSources == {Repo, Bucket, Image}

\* A and C leave the namespace out of their references to the source, B names it.
Near(source, dependsOn) ==
  [sourceRef |-> [kind |-> source.kind, ref |-> Key("", source.key.name)],
   dependsOn |-> dependsOn]

Far(source, dependsOn) ==
  [sourceRef |-> [kind |-> source.kind, ref |-> source.key], dependsOn |-> dependsOn]

\* A waits for an object that has not been created.
Waiting == [o \in {A} |-> Near(Repo, OnB)]

\* Nothing in A's way.
Chain == [o \in {A, B} |-> IF o = A THEN Near(Repo, <<>>) ELSE Far(Repo, OnATwice)]

\* The source does not exist yet.
ChainWithoutSource ==
  [o \in {A, B} |-> IF o = A THEN Near(Image, <<>>) ELSE Far(Image, OnA)]

\* C has nothing to do with the ring, but reads from the same source.
RingBesideC ==
  [o \in Trio |-> CASE o = A -> Near(Bucket, OnB) [] o = B -> Far(Bucket, OnA)
                     [] o = C -> Near(Bucket, <<>>)]

Situations == {Waiting, Chain, ChainWithoutSource, RingBesideC}

\* A's dependency comes and goes; B may be created.
Writes ==
  {<<A, Near(Repo, <<>>), Near(Repo, OnB)>>, <<A, Near(Repo, OnB), Near(Repo, <<>>)>>,
   <<B, NoSpec, Far(Repo, OnA)>>}

TrioSpecs ==
  [o \in Trio |-> {s[o] : s \in {t \in Situations : o \in DOMAIN t}}
                    \cup {w[3] : w \in {v \in Writes : v[1] = o}}]

\* The bucket gets its first artifact; the image does not exist and appears with one.
\* Only the source that the objects read from changes.
AtFirst ==
  [s \in Situations |->
     {CASE s = ChainWithoutSource -> [x \in ThreeSources |-> IF x = Image THEN Missing ELSE "r2"]
        [] s = RingBesideC -> [x \in ThreeSources |-> IF x = Bucket THEN NoRevision ELSE "r2"]
        [] OTHER -> [x \in ThreeSources |-> "r1"]}]

Moves == {<<Repo, "r1", "r2">>, <<Bucket, NoRevision, "r1">>, <<Image, Missing, "r1">>}

BrokenB == {<<B, "r2">>}

==============================================================================
