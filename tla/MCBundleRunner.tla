--------------------------- MODULE MCBundleRunner ---------------------------
(***************************************************************************)
(* Small bundles: two documents with up to three pages, intact or not.     *)
(***************************************************************************)
EXTENDS BundleRunner

Content(id, media, size, width) == [id |-> id, media |-> media, size |-> size, width |-> width]
Good == Content("c1", "png", 2, 8)       \* exactly at the limit
Other == Content("c2", "png", 1, 8)
Huge == Content("c3", "png", 3, 8)
SomeContents == {Good, Other, Huge}

PageRecord(id, index, c, width) == [id |-> id, index |-> index, sum |-> c.id, width |-> width]
P1 == PageRecord("p1", 0, Good, 8)
P2 == PageRecord("p2", 1, Other, 8)
P2Wide == PageRecord("p2", 1, Other, 9)     \* not the width of the file
P3 == PageRecord("p3", 0, Huge, 8)

\* One document or two; an id, or an index, that comes twice.
SomeDocuments == {<<[id |-> "a", pages |-> ps]>> : ps \in {<<P1, P2>>, <<P1, P1>>, <<P1, P3>>, <<>>}}
    \cup {<<[id |-> "a", pages |-> ps], [id |-> e, pages |-> <<q>>]>> :
            ps \in {<<P1, P2>>, <<P2Wide>>}, e \in {"a", "b"}, q \in {P1, P3}}
Manifests == [documents : SomeDocuments, revision : {1}, wellFormed : {TRUE}]
             \cup [documents : {<<>>}, revision : {1}, wellFormed : BOOLEAN]

Asset(d, p, path, media) ==
    [doc |-> d, id |-> p.id, sum |-> p.sum, width |-> p.width, path |-> path, media |-> media]
Records == {<<>>, <<Asset("a", P1, "f1", "png"), Asset("a", P2, "f2", "png")>>,
            <<Asset("a", P2Wide, "f2", "png"), Asset("b", P3, "f1", "png")>>,
            <<Asset("a", P1, "f1", "jpeg"), Asset("a", P2, "outside", "png"),
              Asset("b", P3, "f2", "png")>>,
            <<Asset("a", P1, "f1", "png"), Asset("a", P1, "f2", "png")>>,
            <<Asset("a", P2, "f2", "png"), Asset("b", P1, "f1", "png")>>}
Indexes == [records : Records, revision : {1}, wellFormed : {TRUE}]
           \cup [records : {<<>>}, revision : {2}, wellFormed : BOOLEAN]
SomeFiles == {[f1 |-> Good, f2 |-> c] : c \in {Other, Huge, Absent}}
SomeBundles == [manifest : Manifests, assets : Indexes, files : SomeFiles]
=============================================================================
