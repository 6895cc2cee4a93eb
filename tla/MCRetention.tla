---------------------------- MODULE MCRetention -----------------------------
(***************************************************************************)
(* Small instances of Retention.                                           *)
(***************************************************************************)
EXTENDS Retention

CONSTANTS d1, d2, d3,   \* documents
          x1, x2,       \* deletions and purges
          s1,           \* the contents of the uploads
          r1, r2,       \* contents of results
          i1,           \* an Idempotency-Key
          c1            \* a client that reads results

OneDoc == {d1}
TwoDocs == {d1, d2}
ThreeDocs == {d1, d2, d3}
OneRemover == {x1}
TwoRemovers == {x1, x2}
OneReader == {c1}
NoReader == {}
OneResult == {r1}
TwoResults == {r1, r2}
NoIdems == [d \in Docs |-> NoIdem]
\* The first two submissions are one request and its retry.
RetryOfFirst == [d \in Docs |-> IF d = d3 THEN NoIdem ELSE i1]
SameUpload == [d \in Docs |-> s1]
=============================================================================
