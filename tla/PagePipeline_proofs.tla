-------------------------- MODULE PagePipeline_proofs --------------------------
(***************************************************************************)
(* Proofs about PagePipeline and the operators of Recognition, for any      *)
(* documents, regions, readings, VLM outputs and limits.                    *)
(***************************************************************************)
EXTENDS PagePipeline, SequenceLemmas

-----------------------------------------------------------------------------
(* Larger and smaller                                                      *)

LEMMA MaxPair ==
  ASSUME NEW a \in Int, NEW b \in Int
  PROVE  Max({a, b}) = IF a >= b THEN a ELSE b
  <1>1. \E x \in {a, b} : \A y \in {a, b} : x >= y
    OBVIOUS
  <1>2. Max({a, b}) \in {a, b} /\ \A y \in {a, b} : Max({a, b}) >= y
    BY <1>1, Zenon DEF Max
  <1>3. QED BY <1>2

LEMMA MinPair ==
  ASSUME NEW a \in Int, NEW b \in Int
  PROVE  Min({a, b}) = IF a <= b THEN a ELSE b
  <1>1. \E x \in {a, b} : \A y \in {a, b} : x <= y
    OBVIOUS
  <1>2. Min({a, b}) \in {a, b} /\ \A y \in {a, b} : Min({a, b}) <= y
    BY <1>1, Zenon DEF Min
  <1>3. QED BY <1>2

-----------------------------------------------------------------------------
(* Boxes                                                                   *)

Extents == [left : Int, right : Int, top : Int, bottom : Int]
Boxes == [x : Nat, y : Nat, width : Nat \ {0}, height : Nat \ {0}]

LEMMA BBoxTyped ==
  ASSUME NEW r \in Extents
  PROVE  BBox(r) \in Boxes
  <1>1. r.left \in Int /\ r.right \in Int /\ r.top \in Int /\ r.bottom \in Int
    BY DEF Extents
  <1>2. r.right - r.left \in Int /\ r.bottom - r.top \in Int
    BY <1>1
  <1>3. Max({0, r.left}) \in Nat /\ Max({0, r.top}) \in Nat
    BY <1>1, MaxPair
  <1>4. Max({1, r.right - r.left}) \in Nat \ {0} /\ Max({1, r.bottom - r.top}) \in Nat \ {0}
    BY <1>2, MaxPair
  <1>5. QED BY <1>3, <1>4 DEF BBox, Boxes

\* One axis of DetectedRegion.bbox and _clamp_bbox: the side of a region from lo to
\* hi, on a page of the given size.
Axis(lo, hi, size) ==
    LET near == Max({0, lo})
        side == Max({1, hi - lo})
        x == Min({near, Max({0, size - 1})})
        far == Min({size, Max({x + 1, near + side})})
    IN  [at |-> x, side |-> Max({1, far - x})]

Covers(x, width, lo, hi, size) ==
    /\ width >= 1 /\ x >= 0 /\ x + width <= size
    /\ \A v \in Max({0, lo})..(Min({size, hi}) - 1) : v \in x..(x + width - 1)

LEMMA ClampedAxis ==
  ASSUME NEW lo \in Int, NEW hi \in Int, NEW size \in Nat \ {0}
  PROVE  Covers(Axis(lo, hi, size).at, Axis(lo, hi, size).side, lo, hi, size)
  <1> DEFINE near == Max({0, lo})
             side == Max({1, hi - lo})
             last == Max({0, size - 1})
             x == Min({near, last})
             reach == Max({x + 1, near + side})
             far == Min({size, reach})
             width == Max({1, far - x})
  <1>0. Axis(lo, hi, size).at = x /\ Axis(lo, hi, size).side = width
    BY Zenon DEF Axis
  <1>1. near = IF 0 >= lo THEN 0 ELSE lo
    BY MaxPair
  <1>2. side = IF 1 >= hi - lo THEN 1 ELSE hi - lo
    <2>1. hi - lo \in Int
      OBVIOUS
    <2>2. QED BY <2>1, MaxPair
  <1>3. near \in Nat /\ side \in Nat
    BY <1>1, <1>2
  <1>4. last = size - 1 /\ last \in Int
    <2>1. size - 1 \in Int /\ size - 1 >= 0
      OBVIOUS
    <2>2. QED BY <2>1, MaxPair
  <1> HIDE DEF near, side, last
  <1>6. x = IF near <= last THEN near ELSE last
    BY <1>3, <1>4, MinPair
  <1> HIDE DEF x
  <1>7. x \in Nat /\ x + 1 \in Int /\ near + side \in Int
    BY <1>3, <1>4, <1>6
  <1>8. reach = IF x + 1 >= near + side THEN x + 1 ELSE near + side
    BY <1>7, MaxPair
  <1> HIDE DEF reach
  <1>9. reach \in Int
    BY <1>7, <1>8
  <1>10. far = IF size <= reach THEN size ELSE reach
    BY <1>9, MinPair
  <1> HIDE DEF far
  <1>11. far \in Int /\ x + 1 <= far /\ far <= size
    BY <1>4, <1>6, <1>7, <1>8, <1>9, <1>10
  <1>12. width = far - x /\ far - x >= 1 /\ far - x \in Int
    <2>1. PICK w \in Int : w = far - x /\ w >= 1
      BY <1>7, <1>11
    <2>2. Max({1, w}) = IF 1 >= w THEN 1 ELSE w
      <3>1. 1 \in Int
        OBVIOUS
      <3>2. QED BY <3>1, MaxPair, Zenon
    <2>3. far - x = w /\ width = Max({1, w})
      BY <2>1
    <2>4. QED BY <2>1, <2>2, <2>3
  <1> HIDE DEF width
  <1>13. Max({0, lo}) = near /\ Min({size, hi}) = IF size <= hi THEN size ELSE hi
    BY MinPair DEF near
  <1>14. ASSUME NEW v \in near..(Min({size, hi}) - 1) PROVE v \in x..(x + width - 1)
    BY <1>1, <1>2, <1>4, <1>6, <1>7, <1>8, <1>9, <1>10, <1>11, <1>12, <1>13
  <1>15. width \in Nat /\ width >= 1 /\ x + width <= size
    BY <1>7, <1>11, <1>12
  <1>16. QED
    <2>1. \A v \in Max({0, lo})..(Min({size, hi}) - 1) : v \in x..(x + width - 1)
      BY <1>13, <1>14
    <2>2. QED BY <1>0, <1>7, <1>15, <2>1 DEF Covers

\* A block's box, from the region it was made of.
OnPage(bbox, r) ==
    /\ bbox.width >= 1 /\ bbox.height >= 1
    /\ bbox.x >= 0 /\ bbox.x + bbox.width <= Width
    /\ bbox.y >= 0 /\ bbox.y + bbox.height <= Height
    /\ \A x \in Max({0, r.left})..(Min({Width, r.right}) - 1) :
         x \in bbox.x..(bbox.x + bbox.width - 1)
    /\ \A y \in Max({0, r.top})..(Min({Height, r.bottom}) - 1) :
         y \in bbox.y..(bbox.y + bbox.height - 1)

LEMMA ClampedOnPage ==
  ASSUME NEW r \in Extents
  PROVE  OnPage(ClampBBox(BBox(r), Width, Height), r)
  <1>1. r.left \in Int /\ r.right \in Int /\ r.top \in Int /\ r.bottom \in Int
        /\ Width \in Nat \ {0} /\ Height \in Nat \ {0}
    BY ConfigAssumption DEF Extents
  <1> DEFINE c == ClampBBox(BBox(r), Width, Height)
             h == Axis(r.left, r.right, Width)
             v == Axis(r.top, r.bottom, Height)
  <1>2. c.x = h.at /\ c.width = h.side /\ c.y = v.at /\ c.height = v.side
    BY DEF ClampBBox, BBox, Axis
  <1>3. Covers(h.at, h.side, r.left, r.right, Width) /\ Covers(v.at, v.side, r.top, r.bottom, Height)
    BY <1>1, ClampedAxis
  <1> HIDE DEF c, h, v
  <1>4. OnPage(c, r)
    BY <1>2, <1>3 DEF Covers, OnPage
  <1>5. QED BY <1>4 DEF c

-----------------------------------------------------------------------------
(* Candidates and their fusion                                             *)

LEMMA ScoreTyped ==
  ASSUME NEW c \in Candidates
  PROVE  Score(c) \in Int /\ Score(c) >= 0 /\ Score(c) <= 10000
  <1>1. c.confidence \in Int /\ c.confidence >= 0 /\ c.confidence <= 100
    BY DEF Candidates
  <1>2. Consistency(c) \in {80, 100, 70, 15}
    BY Zenon DEF Consistency
  <1>3. PICK k \in Int : k = 85 * c.confidence + 15 * Consistency(c) /\ 0 <= k
    <2>1. 85 * c.confidence + 15 * Consistency(c) \in Int
          /\ 0 <= 85 * c.confidence + 15 * Consistency(c)
      BY <1>1, <1>2
    <2>2. QED BY <2>1, Zenon
  <1>4. PICK top \in Int : top = 10000
    OBVIOUS
  <1>5. Min({top, k}) = IF top <= k THEN top ELSE k
    BY MinPair
  <1>6. Score(c) = Min({top, k})
    BY <1>3, <1>4 DEF Score
  <1>7. QED BY <1>3, <1>4, <1>5, <1>6

\* A number of points, as a member of the interval.
LEMMA PointsAreInts == Points \subseteq Int
  <1>1. PICK top \in Nat : top = 10000
    OBVIOUS
  <1>2. 0..top \subseteq Int
    OBVIOUS
  <1>3. QED BY <1>1, <1>2 DEF Points

LEMMA PointsAre ==
  ASSUME NEW k, k \in Int /\ k >= 0 /\ k <= 10000
  PROVE  k \in Points
  <1>1. PICK top \in Nat : top = 10000
    OBVIOUS
  <1>2. k <= top
    BY <1>1
  <1>3. k \in 0..top
    BY <1>2
  <1>4. QED BY <1>1, <1>3 DEF Points

LEMMA ScoreInPoints ==
  ASSUME NEW c \in Candidates
  PROVE  Score(c) \in Points
  <1>1. PICK k : k = Score(c)
    OBVIOUS
  <1>2. k \in Int /\ k >= 0 /\ k <= 10000
    BY <1>1, ScoreTyped
  <1>3. k \in Points
    BY <1>2, PointsAre
  <1>4. QED BY <1>1, <1>3

LEMMA HeadAndTail ==
  ASSUME NEW S, NEW x \in S, NEW s \in Seq(S)
  PROVE  Range(<<x>> \o s) = {x} \cup Range(s)
  <1> DEFINE t == <<x>> \o s
  <1>1. t \in Seq(S) /\ Len(t) = Len(s) + 1 /\ Len(s) \in Nat /\ t[1] = x
        /\ DOMAIN t = 1..Len(t) /\ DOMAIN s = 1..Len(s)
        /\ \A k \in 1..Len(s) : t[k + 1] = s[k]
    OBVIOUS
  <1> HIDE DEF t
  <1>2. \A y \in {x} \cup Range(s) : y \in Range(t)
    <2>1. x \in Range(t)
      BY <1>1 DEF Range
    <2>2. ASSUME NEW k \in 1..Len(s) PROVE s[k] \in Range(t)
      <3>1. k + 1 \in 1..Len(t) /\ t[k + 1] = s[k]
        BY <1>1
      <3>2. QED BY <1>1, <3>1 DEF Range
    <2>3. QED BY <1>1, <2>1, <2>2 DEF Range
  <1>3. \A y \in Range(t) : y \in {x} \cup Range(s)
    <2>1. ASSUME NEW k \in 1..Len(t) PROVE t[k] \in {x} \cup Range(s)
      <3>1. CASE k = 1
        BY <1>1, <3>1
      <3>2. CASE k # 1
        <4>1. PICK j \in 1..Len(s) : k = j + 1
          <5>1. k - 1 \in 1..Len(s) /\ k = (k - 1) + 1
            BY <1>1, <3>2
          <5>2. QED BY <5>1
        <4>2. t[k] = s[j]
          BY <1>1, <4>1
        <4>3. QED BY <1>1, <4>2 DEF Range
      <3>3. QED BY <3>1, <3>2
    <2>2. QED BY <1>1, <2>1 DEF Range
  <1>4. QED BY <1>2, <1>3 DEF t

\* The ranking of fuse_recognitions.
Ranked(candidates) == StableSort(candidates, LAMBDA a, b : Score(a) > Score(b))

LEMMA RankedPermutes ==
  ASSUME NEW n \in Nat, NEW s, DOMAIN s = 1..n, \A k \in 1..n : s[k] \in Candidates
  PROVE  \E p \in Bijection(1..n, 1..n) : Ranked(s) = [k \in 1..n |-> s[p[k]]]
  <1> DEFINE a == [k \in 1..n |-> -Score(s[k])]
             b == [k \in 1..n |-> 0]
             B(u, v) == Score(u) > Score(v)
             o == CHOOSE p \in [1..n -> 1..n] : \A i, j \in 1..n : i < j =>
                    B(s[p[i]], s[p[j]]) \/ (~B(s[p[j]], s[p[i]]) /\ p[i] < p[j])
             order == CHOOSE p \in [1..n -> 1..n] : \A i, j \in 1..n : i < j =>
                    Precedes(a, b, p[i], p[j]) \/ (~Precedes(a, b, p[j], p[i]) /\ p[i] < p[j])
  <1>1. ASSUME NEW k \in 1..n PROVE Score(s[k]) \in Int
    BY ScoreTyped
  <1>2. a \in [1..n -> Int] /\ b \in [1..n -> Int]
    BY <1>1
  <1>3. order \in Bijection(1..n, 1..n)
    <2> HIDE DEF a, b
    <2> QED BY <1>2, SortByKeys
  <1>4. \A p \in [1..n -> 1..n] : \A i, j \in 1..n :
          Precedes(a, b, p[i], p[j]) <=> B(s[p[i]], s[p[j]])
    <2>1. ASSUME NEW p \in [1..n -> 1..n], NEW i \in 1..n, NEW j \in 1..n
          PROVE  Precedes(a, b, p[i], p[j]) <=> B(s[p[i]], s[p[j]])
      <3>1. p[i] \in 1..n /\ p[j] \in 1..n
        OBVIOUS
      <3>2. PICK u \in Int, v \in Int : u = Score(s[p[i]]) /\ v = Score(s[p[j]])
        BY <1>1, <3>1
      <3>3. a[p[i]] = -u /\ a[p[j]] = -v /\ b[p[i]] = 0 /\ b[p[j]] = 0
        BY <3>1, <3>2
      <3>4. B(s[p[i]], s[p[j]]) <=> u > v
        BY <3>2
      <3> HIDE DEF a, b, B
      <3>5. Precedes(a, b, p[i], p[j]) <=> -u < -v
        BY <3>2, <3>3 DEF Precedes
      <3>6. QED BY <3>2, <3>4, <3>5
    <2>2. QED BY <2>1
  <1>5. o = order
    <2> HIDE DEF B, a, b
    <2> QED BY <1>4
  <1>6. Ranked(s) = [k \in 1..n |-> s[o[k]]]
    BY DEF Ranked, StableSort
  <1>7. QED
    <2> HIDE DEF o, order
    <2> QED BY <1>3, <1>5, <1>6

Warnings == {"ambiguous", "digits", "vlm_used"}
Fusions == [selected : Candidates, alternatives : Seq(Candidates),
            warnings : SUBSET Warnings, confidence : Points]

\* Fusing candidates ranks them, and keeps them all.
LEMMA FuseKeeps ==
  ASSUME NEW s \in Seq(Candidates), s # <<>>
  PROVE  /\ Fuse(s) \in Fusions
         /\ Evidence([fused |-> Fuse(s)]) = Ranked(s)
         /\ Fuse(s).selected \in Range(s)
  <1> DEFINE n == Len(s)
             ranked == Ranked(s)
             f == Fuse(s)
  <1>1. n \in Nat /\ n >= 1 /\ DOMAIN s = 1..n /\ \A k \in 1..n : s[k] \in Candidates
    OBVIOUS
  <1>2. PICK p \in Bijection(1..n, 1..n) : ranked = [k \in 1..n |-> s[p[k]]]
    <2> HIDE DEF n
    <2> QED BY <1>1, RankedPermutes
  <1>3. \A k \in 1..n : p[k] \in 1..n
    BY DEF Bijection, Injection
  <1>4. ranked \in Seq(Candidates) /\ Len(ranked) = n /\ DOMAIN ranked = 1..n
    <2> HIDE DEF n, ranked
    <2>1. ranked \in [1..n -> Candidates]
      BY <1>1, <1>2, <1>3
    <2>2. QED BY <1>1, <2>1
  <1>5. ranked[1] \in Range(s) /\ ranked[1] \in Candidates
    <2> HIDE DEF n, ranked
    <2> QED BY <1>1, <1>2, <1>3 DEF Range
  <1>6. Score(ranked[1]) \in Int /\ Score(ranked[1]) >= 0 /\ Score(ranked[1]) <= 10000
    <2>1. PICK c \in Candidates : c = ranked[1]
      BY <1>5
    <2>2. Score(c) \in Int /\ Score(c) >= 0 /\ Score(c) <= 10000
      BY ScoreTyped
    <2> HIDE DEF ranked
    <2>3. QED BY <2>1, <2>2
  <1>7. f.selected = ranked[1] /\ f.alternatives = Tail(ranked) /\ f.warnings \subseteq Warnings
        /\ (f.confidence = Score(ranked[1]) \/ f.confidence = Max({0, Score(ranked[1]) - 1200}))
        /\ f = [selected |-> f.selected, alternatives |-> f.alternatives,
                warnings |-> f.warnings, confidence |-> f.confidence]
    <2> DEFINE close == Len(ranked) > 1 /\ Score(ranked[1]) - Score(ranked[2]) < AmbiguityMargin
               digits == UNION {DigitsIn(c.text) : c \in Range(ranked)}
               warnings == {w \in {"ambiguous", "digits"} :
                              IF w = "ambiguous" THEN close ELSE Cardinality(digits) > 1}
               best == Score(ranked[1])
    <2>1. f = [selected |-> ranked[1], alternatives |-> Tail(ranked), warnings |-> warnings,
               confidence |-> IF warnings = {} THEN best ELSE Max({0, best - 1200})]
      BY Zenon DEF Fuse, Ranked
    <2>2. warnings \subseteq Warnings
      BY DEF Warnings
    <2> HIDE DEF f, warnings, ranked
    <2>3. QED BY <2>1, <2>2
  <1> HIDE DEF f, ranked
  <1>8. f.confidence \in Int /\ f.confidence >= 0 /\ f.confidence <= 10000
    <2>1. PICK k \in Int : k = Score(ranked[1]) - 1200 /\ k <= 10000
      BY <1>6
    <2>2. Max({0, k}) = IF 0 >= k THEN 0 ELSE k
      <3>1. 0 \in Int
        OBVIOUS
      <3>2. QED BY <3>1, MaxPair, Zenon
    <2>3. QED BY <1>6, <1>7, <2>1, <2>2
  <1>9. f.alternatives \in Seq(Candidates)
    BY <1>1, <1>4, <1>7
  <1>10. f \in Fusions
    <2>1. f.confidence \in Points
      <3>1. PICK k : k = f.confidence
        OBVIOUS
      <3>2. QED BY <1>8, <3>1, PointsAre
    <2>2. QED BY <1>5, <1>7, <1>9, <2>1 DEF Fusions
  <1>11. <<ranked[1]>> \o Tail(ranked) = ranked
    BY <1>1, <1>4
  <1>12. Evidence([fused |-> f]) = ranked
    BY <1>7, <1>11 DEF Evidence
  <1>13. QED BY <1>5, <1>7, <1>10, <1>12 DEF f, ranked

\* PaddleOcrEngine.recognize answers with candidates of its own recognizers.
LEMMA RoutedTyped ==
  ASSUME NEW s \in Routed
  PROVE  s \in Seq(Candidates) /\ \A k \in 1..Len(s) : s[k].kind = "ocr"
  <1>1. PICK a \in ArabicReadings, l \in LatinReadings :
          s = IF Uncertain(Reads(a, "arabic"))
              THEN WithText(Reads(a, "arabic")) \o WithText(Reads(l, "latin"))
              ELSE WithText(Reads(a, "arabic"))
    BY DEF Routed
  <1> DEFINE One(c) == c \in Candidates /\ c.kind = "ocr"
  <1>2. One(Reads(a, "arabic")) /\ One(Reads(l, "latin"))
    <2>1. a \in [text : Texts, confidence : 0..100] /\ l \in [text : Texts, confidence : 0..100]
      BY AnswersAssumption
    <2>2. QED BY <2>1 DEF Reads, Candidates
  <1>3. ASSUME NEW c, One(c)
        PROVE  WithText(c) \in Seq(Candidates) /\ \A k \in 1..Len(WithText(c)) : WithText(c)[k].kind = "ocr"
    <2> HIDE DEF One
    <2>1. WithText(c) = <<>> \/ WithText(c) = <<c>>
      BY Zenon DEF WithText
    <2>2. c \in Candidates /\ c.kind = "ocr"
      BY <1>3 DEF One
    <2>3. CASE WithText(c) = <<>>
      BY <2>3
    <2>4. CASE WithText(c) = <<c>>
      BY <2>2, <2>4
    <2>5. QED BY <2>1, <2>3, <2>4
  <1> HIDE DEF One
  <1>4. CASE s = WithText(Reads(a, "arabic"))
    BY <1>2, <1>3, <1>4
  <1>5. CASE s = WithText(Reads(a, "arabic")) \o WithText(Reads(l, "latin"))
    <2>1. PICK u, v : u = WithText(Reads(a, "arabic")) /\ v = WithText(Reads(l, "latin"))
      OBVIOUS
    <2>2. u \in Seq(Candidates) /\ (\A k \in 1..Len(u) : u[k].kind = "ocr")
          /\ v \in Seq(Candidates) /\ (\A k \in 1..Len(v) : v[k].kind = "ocr")
      BY <1>2, <1>3, <2>1
    <2>3. s = u \o v
      BY <1>5, <2>1
    <2>4. QED BY <2>2, <2>3
  <1>6. QED BY <1>1, <1>4, <1>5

\* The numbers a sequence of candidates holds.
Values(s) == UNION {ValueIn(c.text) : c \in Range(s)}

\* An item or block whose selected text respects the number its recognizers agree on.
Honest(b) == Cardinality(Values(Deterministic(b))) = 1 /\ b.fused.selected.kind = "vlm"
               => ValueIn(b.fused.selected.text) = Values(Deterministic(b))

\* What _run_fallback makes of an accepted output.
LEMMA ReplacedKeeps ==
  ASSUME NEW fused \in Fusions, NEW output \in VlmOutputs, NEW b, b.fused = Replaced(fused, output)
  PROVE  /\ Replaced(fused, output) \in Fusions
         /\ b.fused.selected.kind = "vlm"
         /\ Deterministic(b) = Evidence([fused |-> fused])
         /\ Verdict(fused, output) = "validated" => Honest(b)
  <1> DEFINE r == Replaced(fused, output)
             c == Vlm(output)
  <1>1. output \in [text : Texts, confidence : 0..100]
    BY AnswersAssumption
  <1>2. r.selected = c /\ r.alternatives = <<fused.selected>> \o fused.alternatives
        /\ r.warnings = fused.warnings \cup {"vlm_used"} /\ r.confidence = Score(c)
        /\ r = [selected |-> r.selected, alternatives |-> r.alternatives,
                warnings |-> r.warnings, confidence |-> r.confidence]
    BY DEF Replaced
  <1>3. c.kind = "vlm" /\ c.text = output.text
    BY DEF Vlm
  <1>4. c \in Candidates
    <2>1. Script(output.text) \in {"arabic", "latin", "mixed", "common", "unknown"}
      BY Zenon DEF Script
    <2>2. QED BY <1>1, <2>1 DEF Vlm, Candidates
  <1>5. fused.selected \in Candidates /\ fused.alternatives \in Seq(Candidates)
        /\ fused.warnings \in SUBSET Warnings
    BY DEF Fusions
  <1> HIDE DEF r, c
  <1>6. r \in Fusions
    <2>1. Score(c) \in Points
      BY <1>4, ScoreInPoints
    <2>2. r.alternatives \in Seq(Candidates)
      BY <1>2, <1>5
    <2>3. r.warnings \in SUBSET Warnings
      BY <1>2, <1>5 DEF Warnings
    <2>4. r.selected \in Candidates /\ r.confidence \in Points
      BY <1>2, <1>4, <2>1
    <2>5. r = [selected |-> r.selected, alternatives |-> r.alternatives,
               warnings |-> r.warnings, confidence |-> r.confidence]
      BY <1>2
    <2>6. QED BY <2>2, <2>3, <2>4, <2>5 DEF Fusions
  <1>7. Deterministic(b) = Evidence([fused |-> fused])
    BY <1>2, <1>3 DEF Deterministic, Evidence, r
  <1>8. ASSUME Verdict(fused, output) = "validated" PROVE Honest(b)
    <2>1. AgreedValues(fused) = Values(<<fused.selected>> \o fused.alternatives)
      <3>1. {fused.selected} \cup Range(fused.alternatives)
              = Range(<<fused.selected>> \o fused.alternatives)
        BY <1>5, HeadAndTail
      <3>2. QED BY <3>1 DEF AgreedValues, Values
    <2>2. Cardinality(AgreedValues(fused)) = 1 => ValueIn(output.text) = AgreedValues(fused)
      BY <1>8, Zenon DEF Verdict
    <2>3. Deterministic(b) = <<fused.selected>> \o fused.alternatives
      BY <1>7 DEF Evidence
    <2>4. b.fused.selected.text = output.text
      BY <1>2, <1>3 DEF r
    <2>5. QED BY <2>1, <2>2, <2>3, <2>4 DEF Honest
  <1>9. QED BY <1>2, <1>3, <1>6, <1>7, <1>8 DEF r

-----------------------------------------------------------------------------
(* Reading order                                                           *)

\* ByPosition arranges the items: top to bottom, left to right, in the detector's
\* order where both agree.
Tops(s) == [k \in DOMAIN s |-> s[k].box.y]
Lefts(s) == [k \in DOMAIN s |-> s[k].box.x]

LEMMA ByPositionArranges ==
  ASSUME NEW n \in Nat, NEW s, DOMAIN s = 1..n, \A k \in 1..n : s[k].box \in Boxes
  PROVE  \E p \in Bijection(1..n, 1..n) :
           /\ ByPosition(s) = [k \in 1..n |-> s[p[k]]]
           /\ Arranges(p, ByKeys(Tops(s), Lefts(s), n), n)
  <1> DEFINE a == Tops(s)
             b == Lefts(s)
             B(u, v) == u.box.y < v.box.y \/ (u.box.y = v.box.y /\ u.box.x < v.box.x)
             o == CHOOSE p \in [1..n -> 1..n] : \A i, j \in 1..n : i < j =>
                    B(s[p[i]], s[p[j]]) \/ (~B(s[p[j]], s[p[i]]) /\ p[i] < p[j])
             order == CHOOSE p \in [1..n -> 1..n] : \A i, j \in 1..n : i < j =>
                    Precedes(a, b, p[i], p[j]) \/ (~Precedes(a, b, p[j], p[i]) /\ p[i] < p[j])
  <1>1. a \in [1..n -> Int] /\ b \in [1..n -> Int]
    BY DEF Boxes, Tops, Lefts
  <1>2. order \in Bijection(1..n, 1..n) /\ Arranges(order, ByKeys(a, b, n), n)
    BY <1>1, SortByKeys
  <1>3. \A p \in [1..n -> 1..n] : \A i, j \in 1..n :
          Precedes(a, b, p[i], p[j]) <=> B(s[p[i]], s[p[j]])
    BY DEF Precedes, Tops, Lefts
  <1>4. o = order
    <2> HIDE DEF B, a, b
    <2> QED BY <1>3
  <1>5. ByPosition(s) = [k \in 1..n |-> s[o[k]]]
    BY DEF ByPosition, StableSort
  <1>6. QED
    <2> HIDE DEF o, order
    <2> QED BY <1>2, <1>4, <1>5

\* The recursion for the bands has a solution: each item's band begins at an item.
LEMMA BandsTyped ==
  ASSUME NEW n \in Nat, NEW s, DOMAIN s = 1..n
  PROVE  Bands(s) \in [1..n -> 1..n]
  <1> DEFINE Turn(f, k) == IF k > 1 /\ SameBand(s, f[k - 1]..(k - 1), k) THEN f[k - 1] ELSE k
             T == {m \in Nat : \E f \in [1..m -> 1..m] : \A k \in 1..m : f[k] = Turn(f, k)}
  <1>1. 0 \in T
    <2>1. [k \in 1..0 |-> k] \in [1..0 -> 1..0]
      OBVIOUS
    <2>2. \A k \in 1..0 : [j \in 1..0 |-> j][k] = Turn([j \in 1..0 |-> j], k)
      OBVIOUS
    <2> HIDE DEF Turn
    <2>3. QED BY <2>1, <2>2
  <1>2. ASSUME NEW m \in Nat, m \in T PROVE m + 1 \in T
    <2>1. PICK f \in [1..m -> 1..m] : \A k \in 1..m : f[k] = Turn(f, k)
      BY <1>2
    <2> DEFINE g == [k \in 1..(m + 1) |-> IF k = m + 1 THEN Turn(f, k) ELSE f[k]]
    <2>2. g \in [1..(m + 1) -> 1..(m + 1)]
      OBVIOUS
    <2>3. \A k \in 1..(m + 1) : k > 1 => g[k - 1] = f[k - 1]
      OBVIOUS
    <2>4. \A k \in 1..(m + 1) : g[k] = Turn(f, k)
      BY <2>1
    <2>5. \A k \in 1..(m + 1) : Turn(f, k) = Turn(g, k)
      <3> HIDE DEF g
      <3> QED BY <2>3
    <2>6. \A k \in 1..(m + 1) : g[k] = Turn(g, k)
      BY <2>4, <2>5
    <2> HIDE DEF g, Turn
    <2>7. QED BY <2>2, <2>6
  <1>3. n \in T
    <2> HIDE DEF T
    <2>1. \A m \in Nat : m \in T
      BY <1>1, <1>2, SetInduction
    <2>2. QED BY <2>1
  <1>4. \E f \in [1..n -> 1..n] : \A k \in 1..n : f[k] = Turn(f, k)
    BY <1>3
  <1>5. QED
    BY <1>4 DEF Bands

\* order_recognized_regions loses no item and invents none.
LEMMA ReadingOrderPermutes ==
  ASSUME NEW n \in Nat, NEW s, DOMAIN s = 1..n, \A k \in 1..n : s[k].box \in Boxes
  PROVE  \E q \in Bijection(1..n, 1..n) : ReadingOrder(s) = [k \in 1..n |-> s[q[k]]]
  <1>1. PICK p \in Bijection(1..n, 1..n) : ByPosition(s) = [k \in 1..n |-> s[p[k]]]
    BY ByPositionArranges
  <1> DEFINE sorted == ByPosition(s)
             start == Bands(sorted)
             Band(k) == {i \in DOMAIN sorted : start[i] = k}
             rtl(k) == {i \in Band(k) : RightToLeft(sorted[i].fused.selected.text)}
             Left(k) == 2 * Cardinality(rtl(k)) >= Cardinality(Band(k))
             b == [k \in 1..n |-> IF Left(start[k]) THEN -sorted[k].box.x ELSE sorted[k].box.x]
             B(i, j) == \/ start[i] < start[j]
                        \/ start[i] = start[j] /\ InDirection(sorted, Band(start[i]), i, j)
             places == [k \in DOMAIN sorted |-> k]
             o == CHOOSE f \in [1..n -> 1..n] : \A i, j \in 1..n : i < j =>
                    B(places[f[i]], places[f[j]]) \/ (~B(places[f[j]], places[f[i]]) /\ f[i] < f[j])
             order == CHOOSE f \in [1..n -> 1..n] : \A i, j \in 1..n : i < j =>
                    Precedes(start, b, f[i], f[j]) \/ (~Precedes(start, b, f[j], f[i]) /\ f[i] < f[j])
  <1>2. DOMAIN sorted = 1..n /\ \A k \in 1..n : sorted[k].box \in Boxes
    BY <1>1 DEF Bijection, Injection
  <1>3. start \in [1..n -> Int] /\ b \in [1..n -> Int]
    <2> HIDE DEF sorted
    <2>1. start \in [1..n -> 1..n]
      BY <1>2, BandsTyped
    <2>2. \A k \in 1..n : sorted[k].box.x \in Int
      BY <1>2 DEF Boxes
    <2> HIDE DEF Left, start
    <2>3. QED BY <2>1, <2>2
  <1>4. order \in Bijection(1..n, 1..n)
    <2> HIDE DEF start, b
    <2> QED BY <1>3, SortByKeys
  <1>5. \A i, j \in 1..n : Precedes(start, b, i, j) <=> B(i, j)
    <2> HIDE DEF start, sorted
    <2>1. ASSUME NEW i \in 1..n, NEW j \in 1..n PROVE Precedes(start, b, i, j) <=> B(i, j)
      <3>1. sorted[i].box.x \in Int /\ sorted[j].box.x \in Int
        BY <1>2 DEF Boxes
      <3>2. InDirection(sorted, Band(start[i]), i, j)
              <=> IF Left(start[i]) THEN sorted[i].box.x > sorted[j].box.x
                                    ELSE sorted[i].box.x < sorted[j].box.x
        <4> HIDE DEF Band
        <4> QED BY Zenon DEF InDirection
      <3> HIDE DEF Left, Band
      <3>3. b[i] = (IF Left(start[i]) THEN -sorted[i].box.x ELSE sorted[i].box.x)
            /\ b[j] = (IF Left(start[j]) THEN -sorted[j].box.x ELSE sorted[j].box.x)
        OBVIOUS
      <3> HIDE DEF b
      <3>4. start[i] = start[j] => (b[i] < b[j] <=> InDirection(sorted, Band(start[i]), i, j))
        BY <3>1, <3>2, <3>3
      <3>5. QED BY <3>4, Zenon DEF Precedes
    <2>2. QED BY <2>1
  <1>6. o = order
    <2>1. \A f \in [1..n -> 1..n] : \A i, j \in 1..n :
            Precedes(start, b, f[i], f[j]) <=> B(places[f[i]], places[f[j]])
      <3>1. ASSUME NEW f \in [1..n -> 1..n], NEW i \in 1..n, NEW j \in 1..n
            PROVE  Precedes(start, b, f[i], f[j]) <=> B(places[f[i]], places[f[j]])
        <4>1. f[i] \in 1..n /\ f[j] \in 1..n
          OBVIOUS
        <4>2. places[f[i]] = f[i] /\ places[f[j]] = f[j]
          BY <1>2, <4>1
        <4> HIDE DEF start, b, B, places
        <4>3. QED BY <1>5, <4>1, <4>2
      <3>2. QED BY <3>1
    <2> HIDE DEF start, b, B, places
    <2>2. QED BY <2>1
  <1>7. ReadingOrder(s) = [k \in 1..n |-> sorted[places[o[k]]]]
    <2>1. DOMAIN places = 1..n
      BY <1>2
    <2>2. ReadingOrder(s) = [k \in DOMAIN sorted |-> sorted[
            [m \in DOMAIN places |-> places[(CHOOSE f \in [DOMAIN places -> DOMAIN places] :
              \A i, j \in DOMAIN places : i < j =>
                B(places[f[i]], places[f[j]]) \/ (~B(places[f[j]], places[f[i]]) /\ f[i] < f[j]))[m]]][k]]]
      BY Zenon DEF ReadingOrder, BandByBand, StableSort
    <2> HIDE DEF sorted, B, places
    <2>3. QED BY <1>2, <2>1, <2>2
  <1> DEFINE q == [k \in 1..n |-> p[o[k]]]
  <1>8. q \in Bijection(1..n, 1..n)
    <2> HIDE DEF o, order
    <2>1. o \in [1..n -> 1..n] /\ p \in [1..n -> 1..n]
      BY <1>4, <1>6 DEF Bijection, Injection
    <2>2. q \in [1..n -> 1..n]
      BY <2>1
    <2>3. ASSUME NEW i \in 1..n, NEW j \in 1..n, q[i] = q[j] PROVE i = j
      <3>1. p[o[i]] = p[o[j]] /\ o[i] \in 1..n /\ o[j] \in 1..n
        BY <2>1, <2>3
      <3>2. o[i] = o[j]
        BY <3>1 DEF Bijection, Injection, IsInjective
      <3>3. QED BY <1>4, <1>6, <3>2 DEF Bijection, Injection, IsInjective
    <2>4. q \in Injection(1..n, 1..n)
      <3> HIDE DEF q
      <3> QED BY <2>2, <2>3 DEF Injection, IsInjective
    <2>5. IsFiniteSet(1..n)
      BY FS_Interval
    <2> HIDE DEF q
    <2>6. q \in Surjection(1..n, 1..n)
      BY <2>4, <2>5, FS_Injection
    <2>7. QED BY <2>4, <2>6 DEF Bijection
  <1>9. ReadingOrder(s) = [k \in 1..n |-> s[q[k]]]
    <2>1. \A k \in 1..n : o[k] \in 1..n
      <3> HIDE DEF o, order
      <3> QED BY <1>4, <1>6 DEF Bijection, Injection
    <2> HIDE DEF o
    <2>2. QED BY <1>1, <1>2, <1>7, <2>1
  <1>10. QED
    <2> HIDE DEF q
    <2> QED BY <1>8, <1>9

\* When no two items have the same corner, the order they are given in is lost.
LEMMA PositionDecides ==
  ASSUME NEW n \in Nat, NEW s, DOMAIN s = 1..n, \A k \in 1..n : s[k].box \in Boxes,
         \A i, j \in 1..n : s[i].box.x = s[j].box.x /\ s[i].box.y = s[j].box.y => i = j,
         NEW p \in Bijection(1..n, 1..n)
  PROVE  ReadingOrder([k \in 1..n |-> s[p[k]]]) = ReadingOrder(s)
  <1> DEFINE t == [k \in 1..n |-> s[p[k]]]
             R == ByKeys(Tops(s), Lefts(s), n)
             Q == ByKeys(Tops(t), Lefts(t), n)
  <1>1. p \in [1..n -> 1..n] /\ \A i, j \in 1..n : p[i] = p[j] => i = j
    BY DEF Bijection, Injection, IsInjective
  <1>2. DOMAIN t = 1..n /\ (\A k \in 1..n : p[k] \in 1..n /\ t[k] = s[p[k]])
    BY <1>1
  <1> HIDE DEF t
  <1>3. \A k \in 1..n : t[k].box \in Boxes
    BY <1>2
  <1>4. PICK a \in Bijection(1..n, 1..n) : ByPosition(s) = [k \in 1..n |-> s[a[k]]] /\ Arranges(a, R, n)
    BY ByPositionArranges
  <1>5. PICK b \in Bijection(1..n, 1..n) : ByPosition(t) = [k \in 1..n |-> t[b[k]]] /\ Arranges(b, Q, n)
    BY <1>2, <1>3, ByPositionArranges
  <1>6. TotalOrder(R, n) /\ TotalOrder(Q, n)
    <2>1. Tops(s) \in [1..n -> Int] /\ Lefts(s) \in [1..n -> Int]
      BY DEF Tops, Lefts, Boxes
    <2>2. Tops(t) \in [1..n -> Int] /\ Lefts(t) \in [1..n -> Int]
      BY <1>2, <1>3 DEF Tops, Lefts, Boxes
    <2>3. QED BY <2>1, <2>2, ByKeysIsTotal
  <1> DEFINE c == [k \in 1..n |-> p[b[k]]]
  <1>7. b \in [1..n -> 1..n] /\ c \in [1..n -> 1..n] /\ a \in [1..n -> 1..n]
    BY <1>1 DEF Bijection, Injection
  <1>8. ASSUME NEW u \in 1..n, NEW v \in 1..n, <<u, v>> \in Q PROVE <<p[u], p[v]>> \in R
    <2>1. u # v
      BY <1>6, <1>8 DEF TotalOrder
    <2>2. PICK i \in 1..n, j \in 1..n : i = p[u] /\ j = p[v] /\ i # j
      BY <1>1, <2>1
    <2>3. /\ Tops(t)[u] = s[i].box.y /\ Tops(t)[v] = s[j].box.y
          /\ Lefts(t)[u] = s[i].box.x /\ Lefts(t)[v] = s[j].box.x
          /\ Tops(s)[i] = s[i].box.y /\ Tops(s)[j] = s[j].box.y
          /\ Lefts(s)[i] = s[i].box.x /\ Lefts(s)[j] = s[j].box.x
      BY <1>2, <2>2 DEF Tops, Lefts
    <2>4. s[i].box.y \in Int /\ s[j].box.y \in Int /\ s[i].box.x \in Int /\ s[j].box.x \in Int
      BY DEF Boxes
    <2>5. s[i].box.x # s[j].box.x \/ s[i].box.y # s[j].box.y
      BY <2>2
    <2>6. Precedes(Tops(t), Lefts(t), u, v) \/ ~Precedes(Tops(t), Lefts(t), v, u)
      BY <1>8 DEF ByKeys
    <2>7. Precedes(Tops(s), Lefts(s), i, j)
      BY <2>3, <2>4, <2>5, <2>6 DEF Precedes
    <2>8. QED BY <2>2, <2>7 DEF ByKeys
  <1>9. Arranges(c, R, n)
    <2>1. ASSUME NEW i \in 1..n, NEW j \in 1..n, i < j PROVE <<c[i], c[j]>> \in R
      <3>1. b[i] \in 1..n /\ b[j] \in 1..n /\ <<b[i], b[j]>> \in Q
        BY <1>5, <1>7, <2>1 DEF Arranges
      <3>2. <<p[b[i]], p[b[j]]>> \in R
        BY <1>8, <3>1
      <3>3. QED BY <3>2
    <2> HIDE DEF c, R
    <2>2. QED BY <2>1 DEF Arranges
  <1>10. a = c
    <2> HIDE DEF c, R
    <2> QED BY <1>4, <1>6, <1>7, <1>9, SortUnique
  <1>11. ByPosition(t) = ByPosition(s)
    <2>1. \A k \in 1..n : b[k] \in 1..n /\ t[b[k]] = s[c[k]]
      BY <1>2, <1>7
    <2> HIDE DEF c
    <2>2. QED BY <1>4, <1>5, <1>10, <2>1
  <1>12. ReadingOrder(t) = ReadingOrder(s)
    BY <1>11, Zenon DEF ReadingOrder
  <1>13. QED BY <1>12 DEF t

-----------------------------------------------------------------------------
(* The inductive invariant                                                 *)

Items == [at : Nat, box : Boxes, fused : Fusions]
Accounts == [kind : {"native_pdf", "ocr"}, count : [Statuses -> Nat]]
EventRecords == [at : Nat, status : Statuses, before : Int, after : Int]

Typed ==
    /\ source \in Sources
    /\ phase \in {"inspect", "page", "regions", "done", "failed"}
    /\ pages \in Seq(Accounts) /\ Len(pages) <= Len(source.pages)
    /\ phase = "regions" => MorePages
    /\ detected \in Seq(Extents) /\ detected \in Layouts \cup {<<>>}
    /\ read \in Seq(Seq(Candidates)) /\ Len(read) <= Len(detected)
    /\ recognized \in Seq(Items)
    /\ \A k \in 1..Len(recognized) :
         /\ recognized[k].at \in 1..Len(read)
         /\ recognized[k].box = BBox(detected[recognized[k].at])
    /\ attempts \in Nat /\ attempts <= FallbackLimit
    /\ events \in Seq(EventRecords)
    /\ \A k \in 1..Len(events) : events[k].at \in 1..Len(read)

\* Every call is counted, and the calls had run out before each region passed over.
Counted ==
    /\ attempts = Cardinality(Calls)
    /\ \A k \in 1..Len(events) : events[k].status = "skipped" =>
         Cardinality({c \in Calls : c < k}) = FallbackLimit

\* The regions that had candidates, in the detector's order, each once.
Listed ==
    /\ \A j, k \in 1..Len(recognized) : j < k => recognized[j].at < recognized[k].at
    /\ \A i \in 1..Len(read) :
         read[i] # <<>> <=> \E k \in 1..Len(recognized) : recognized[k].at = i

\* Each recognized region has all its evidence, whatever happened to it.
Accepted(i, told) == \E k \in 1..Len(told) : told[k].at = i /\ told[k].status = "accepted"
Grounded(item, seen, told) ==
    /\ ToBag(Deterministic(item)) = ToBag(seen[item.at]) /\ Honest(item)
    /\ item.fused.selected.kind = "vlm" <=> Accepted(item.at, told)
Explained == \A k \in 1..Len(recognized) : Grounded(recognized[k], read, events)

\* The blocks of the last OCR page are made of its recognized regions.
Blocks(items) ==
    [k \in DOMAIN ReadingOrder(items) |->
       [at |-> ReadingOrder(items)[k].at, fused |-> ReadingOrder(items)[k].fused,
        bbox |-> ClampBBox(ReadingOrder(items)[k].box, Width, Height)]]
Composed ==
    /\ phase = "inspect" => pages = <<>>
    /\ Built => At > Len(detected) /\ blocks = Blocks(recognized)

\* Each page is of the kind its source calls for, and has no more calls than allowed.
Called(p) == p.count["accepted"] + p.count["rejected"] + p.count["failed"]
Tallied ==
    /\ phase = "regions" => ~Trusted(Page)
    /\ \A k \in 1..Len(pages) :
         /\ pages[k].kind = "native_pdf" <=> Trusted(source.pages[k])
         /\ Called(pages[k]) <= IF pages[k].kind = "ocr" THEN FallbackLimit ELSE 0

\* What Finish makes of the pages.
Column(status) == [k \in DOMAIN pages |-> pages[k].count[status]]
Totals == [status \in Statuses |-> SumFunction(Column(status))]
OfKind(kind) == {k \in DOMAIN pages : pages[k].kind = kind}
Reported == phase = "done" =>
    /\ ~MorePages
    /\ metadata = [native |-> Cardinality(OfKind("native_pdf")), ocr |-> Cardinality(OfKind("ocr")),
                   attempted |-> SumFunction(Totals), vlm |-> Totals]

IInv == Typed /\ Counted /\ Listed /\ Explained /\ Composed /\ Tallied /\ Reported

-----------------------------------------------------------------------------
(* One turn of the loop over the regions                                   *)

\* The item that is recorded for the region at hand, from its candidates ...
Made(item, s) ==
    /\ item \in Items /\ item.at = At /\ item.box = BBox(detected[At])
    /\ ToBag(Deterministic(item)) = ToBag(s) /\ Honest(item)

\* ... and what the metadata will be told of it.
Told(item) ==
    \/ item.fused.selected.kind = "ocr" /\ UNCHANGED <<attempts, events>>
    \/ \E e \in EventRecords :
         /\ e.at = At /\ events' = Append(events, e)
         /\ item.fused.selected.kind = "vlm" <=> e.status = "accepted"
         /\ IF e.status = "skipped" THEN attempts >= FallbackLimit /\ attempts' = attempts
                                    ELSE attempts < FallbackLimit /\ attempts' = attempts + 1

Entry(fused) == [at |-> At, box |-> BBox(detected[At]), fused |-> fused]

LEMMA EntryMade ==
  ASSUME Typed, At <= Len(detected), NEW s \in Seq(Candidates), s # <<>>,
         \A k \in 1..Len(s) : s[k].kind = "ocr"
  PROVE  /\ Made(Entry(Fuse(s)), s) /\ Fuse(s).selected.kind = "ocr" /\ Fuse(s).confidence \in Int
         /\ \A output \in VlmOutputs : Verdict(Fuse(s), output) = "validated" =>
              LET after == Replaced(Fuse(s), output)
              IN  Made(Entry(after), s) /\ after.selected.kind = "vlm" /\ after.confidence \in Int
  <1>1. Len(read) \in Nat /\ At \in 1..Len(detected) /\ detected[At] \in Extents
    BY DEF Typed, At
  <1>2. BBox(detected[At]) \in Boxes /\ At \in Nat
    BY <1>1, BBoxTyped
  <1>3. Fuse(s) \in Fusions /\ Evidence([fused |-> Fuse(s)]) = Ranked(s) /\ Fuse(s).selected \in Range(s)
    BY FuseKeeps
  <1>4. Fuse(s).selected.kind = "ocr"
    BY <1>3 DEF Range
  <1>5. ToBag(Ranked(s)) = ToBag(s)
    <2>1. PICK n \in Nat : n = Len(s)
      OBVIOUS
    <2>2. DOMAIN s = 1..n /\ \A k \in 1..n : s[k] \in Candidates
      BY <2>1
    <2>3. PICK p \in Bijection(1..n, 1..n) : Ranked(s) = [k \in 1..n |-> s[p[k]]]
      BY <2>2, RankedPermutes
    <2>4. QED BY <2>2, <2>3, RearrangedBag
  <1>6. ASSUME NEW f \in Fusions
        PROVE  Entry(f) \in Items /\ Entry(f).at = At /\ Entry(f).box = BBox(detected[At])
               /\ Entry(f).fused = f /\ f.confidence \in Int
    <2>1. Entry(f) \in Items
      BY <1>2 DEF Entry, Items
    <2>2. f.confidence \in Int
      <3>1. f.confidence \in Points
        BY DEF Fusions
      <3>2. QED BY <3>1, PointsAreInts
    <2>3. QED BY <2>1, <2>2 DEF Entry
  <1>7. Made(Entry(Fuse(s)), s)
    <2>1. Entry(Fuse(s)).fused = Fuse(s)
      BY <1>3, <1>6
    <2>2. Deterministic(Entry(Fuse(s))) = Ranked(s)
      BY <1>3, <1>4, <2>1 DEF Deterministic, Evidence
    <2>3. Honest(Entry(Fuse(s)))
      BY <1>4, <2>1 DEF Honest
    <2>4. QED BY <1>3, <1>5, <1>6, <2>2, <2>3 DEF Made
  <1>8. ASSUME NEW output \in VlmOutputs, Verdict(Fuse(s), output) = "validated"
        PROVE  LET after == Replaced(Fuse(s), output)
               IN  Made(Entry(after), s) /\ after.selected.kind = "vlm" /\ after.confidence \in Int
    <2> DEFINE after == Replaced(Fuse(s), output)
               e == Entry(after)
    <2>1. e.fused = after
      BY DEF Entry
    <2>2. after \in Fusions /\ e.fused.selected.kind = "vlm"
          /\ Deterministic(e) = Evidence([fused |-> Fuse(s)]) /\ Honest(e)
      BY <1>3, <1>8, <2>1, ReplacedKeeps
    <2> HIDE DEF after
    <2>3. e \in Items /\ e.at = At /\ e.box = BBox(detected[At]) /\ after.confidence \in Int
      BY <1>6, <2>2
    <2> HIDE DEF e
    <2>4. Made(e, s)
      BY <1>3, <1>5, <2>2, <2>3 DEF Made
    <2>5. after.selected.kind = "vlm"
      BY <2>1, <2>2
    <2>6. QED BY <2>3, <2>4, <2>5 DEF after, e
  <1>9. QED BY <1>3, <1>4, <1>6, <1>7, <1>8

LEMMA Turn ==
  ASSUME Typed, ReadRegion
  PROVE  /\ phase = "regions" /\ UNCHANGED <<source, detected, blocks, pages, metadata>>
         /\ \/ phase' = "failed" /\ UNCHANGED <<read, recognized, attempts, events>>
            \/ \E s \in Seq(Candidates) :
                 /\ phase' = phase /\ At <= Len(detected) /\ read' = Append(read, s)
                 /\ \/ s = <<>> /\ UNCHANGED <<recognized, attempts, events>>
                    \/ /\ s # <<>>
                       /\ \E item \in Items : Made(item, s) /\ Told(item)
                            /\ recognized' = Append(recognized, item)
  <1>1. phase = "regions" /\ UNCHANGED <<source, detected, blocks, pages, metadata>>
        /\ At <= Len(detected)
    BY DEF ReadRegion
  <1>2. CASE phase' = "failed" /\ UNCHANGED <<read, recognized, attempts, events>>
    BY <1>1, <1>2
  <1>3. ASSUME NEW s \in Routed, read' = Append(read, s), phase' = phase,
               IF s = <<>> THEN UNCHANGED <<recognized, attempts, events>>
               ELSE IF FallbackEnabled /\ Trigger(Fuse(s)) # "none"
                    THEN Skip(Fuse(s)) \/ RunFallback(Fuse(s)) ELSE Keep(Fuse(s))
        PROVE  /\ s \in Seq(Candidates)
               /\ \/ s = <<>> /\ UNCHANGED <<recognized, attempts, events>>
                  \/ /\ s # <<>>
                     /\ \E item \in Items : Made(item, s) /\ Told(item)
                          /\ recognized' = Append(recognized, item)
    <2>1. s \in Seq(Candidates) /\ \A k \in 1..Len(s) : s[k].kind = "ocr"
      BY <1>3, RoutedTyped
    <2>2. CASE s = <<>>
      BY <1>3, <2>1, <2>2
    <2>3. CASE s # <<>>
      <3> DEFINE fused == Fuse(s)
      <3>1. Made(Entry(fused), s) /\ fused.selected.kind = "ocr" /\ fused.confidence \in Int
            /\ \A output \in VlmOutputs : Verdict(fused, output) = "validated" =>
                 /\ Made(Entry(Replaced(fused, output)), s)
                 /\ Replaced(fused, output).selected.kind = "vlm"
                 /\ Replaced(fused, output).confidence \in Int
        BY <1>1, <2>1, <2>3, EntryMade
      <3>2. At \in Nat
        BY DEF Typed, At
      <3>3. Skip(fused) \/ RunFallback(fused) \/ Keep(fused)
        BY <1>3, <2>3
      <3> HIDE DEF fused
      <3>4. \A f : Entry(f).fused = f
        BY DEF Entry
      <3>5. CASE Keep(fused)
        <4>1. recognized' = Append(recognized, Entry(fused)) /\ UNCHANGED <<attempts, events>>
          BY <3>5 DEF Keep, Entry
        <4>2. Told(Entry(fused))
          BY <3>1, <3>4, <4>1 DEF Told
        <4>3. QED BY <2>1, <2>3, <3>1, <4>1, <4>2 DEF Made
      <3>6. CASE Skip(fused)
        <4> DEFINE e == Event("skipped", fused.confidence, -1)
        <4>1. recognized' = Append(recognized, Entry(fused)) /\ events' = Append(events, e)
              /\ attempts >= FallbackLimit /\ attempts' = attempts
          BY <3>6 DEF Skip, Entry
        <4>2. e \in EventRecords /\ e.at = At /\ e.status = "skipped"
          BY <3>1, <3>2 DEF Event, EventRecords, Statuses
        <4> HIDE DEF e
        <4>3. Told(Entry(fused))
          BY <3>1, <3>4, <4>1, <4>2 DEF Told
        <4>4. QED BY <2>1, <2>3, <3>1, <4>1, <4>3 DEF Made
      <3>7. CASE RunFallback(fused)
        <4>1. PICK status \in {"accepted", "rejected", "failed"}, output \in VlmOutputs :
                LET after == IF status = "accepted" THEN Replaced(fused, output) ELSE fused
                IN  /\ status = "accepted" => Verdict(fused, output) = "validated"
                    /\ attempts' = CountAttempt(status)
                    /\ events' = Append(events, Event(status, fused.confidence, after.confidence))
                    /\ recognized' = Append(recognized, Entry(after))
          BY <3>7 DEF RunFallback, Entry
        <4> DEFINE after == IF status = "accepted" THEN Replaced(fused, output) ELSE fused
                   e == Event(status, fused.confidence, after.confidence)
        <4>2. Made(Entry(after), s) /\ (after.selected.kind = "vlm" <=> status = "accepted")
              /\ after.confidence \in Int
          BY <3>1, <4>1
        <4>3. attempts < FallbackLimit /\ attempts' = attempts + 1 /\ events' = Append(events, e)
              /\ recognized' = Append(recognized, Entry(after))
          BY <3>7, <4>1 DEF RunFallback, CountAttempt
        <4> HIDE DEF after
        <4>4. e \in EventRecords /\ e.at = At /\ e.status = status /\ status # "skipped"
          BY <3>1, <3>2, <4>2 DEF Event, EventRecords, Statuses
        <4> HIDE DEF e
        <4>5. Told(Entry(after))
          BY <3>4, <4>2, <4>3, <4>4 DEF Told
        <4>6. QED BY <2>1, <2>3, <4>2, <4>3, <4>5 DEF Made
      <3>8. QED BY <3>3, <3>5, <3>6, <3>7
    <2>4. QED BY <2>2, <2>3
  <1>4. \/ phase' = "failed" /\ UNCHANGED <<read, recognized, attempts, events>>
        \/ \E s \in Routed : /\ read' = Append(read, s) /\ phase' = phase
             /\ IF s = <<>> THEN UNCHANGED <<recognized, attempts, events>>
                ELSE IF FallbackEnabled /\ Trigger(Fuse(s)) # "none"
                     THEN Skip(Fuse(s)) \/ RunFallback(Fuse(s)) ELSE Keep(Fuse(s))
    BY Zenon DEF ReadRegion
  <1>5. QED BY <1>1, <1>2, <1>3, <1>4

-----------------------------------------------------------------------------
(* Each part of the invariant holds at the start and after every step       *)

LEMMA Initially == Init => IInv
  <1> SUFFICES ASSUME Init PROVE IInv
    OBVIOUS
  <1>1. Typed
    <2>1. Len(source.pages) \in Nat /\ 0 <= Len(source.pages)
      BY SourcesAssumption DEF Init
    <2>2. FallbackLimit \in Nat
      BY ConfigAssumption
    <2>3. QED BY <2>1, <2>2 DEF Init, Typed
  <1>2. Calls = {}
    BY DEF Init, Calls
  <1>3. Counted
    BY <1>2, FS_EmptySet DEF Init, Counted
  <1>4. Listed
    BY DEF Init, Listed
  <1>5. Explained
    BY DEF Init, Explained
  <1>6. Composed
    BY DEF Init, Composed, Built
  <1>7. Tallied /\ Reported
    BY DEF Init, Tallied, Reported
  <1>8. QED BY <1>1, <1>3, <1>4, <1>5, <1>6, <1>7 DEF IInv

LEMMA SourcePages ==
  ASSUME Typed
  PROVE  Len(source.pages) \in Nat /\ DOMAIN source.pages = 1..Len(source.pages)
  BY SourcesAssumption DEF Typed

LEMMA TypedStep ==
  ASSUME Typed, [Next]_vars
  PROVE  Typed'
  <1>1. CASE UNCHANGED vars
    BY <1>1 DEF Typed, vars, MorePages
  <1>2. CASE Inspect
    BY <1>2 DEF Typed, Inspect, MorePages
  <1>3. CASE NativePage
    <2>1. [kind |-> "native_pdf", count |-> NoCount] \in Accounts
      BY DEF Accounts, NoCount
    <2>2. pages' \in Seq(Accounts) /\ Len(pages') <= Len(source.pages)
      BY <1>3, <2>1, SourcePages DEF NativePage, Typed, MorePages
    <2>3. UNCHANGED <<source, phase, detected, read, recognized, attempts, events>> /\ phase = "page"
      BY <1>3 DEF NativePage
    <2>4. QED BY <2>2, <2>3 DEF Typed, MorePages
  <1>4. CASE OpenPage
    <2>1. CASE phase' = "failed" /\ UNCHANGED <<detected, read, recognized, events, attempts, blocks>>
      BY <1>4, <2>1 DEF OpenPage, Typed, MorePages
    <2>2. CASE ~(phase' = "failed" /\ UNCHANGED <<detected, read, recognized, events, attempts, blocks>>)
      <3>1. detected' \in Layouts /\ read' = <<>> /\ recognized' = <<>> /\ events' = <<>>
            /\ attempts' = 0 /\ phase' = "regions" /\ UNCHANGED <<source, pages>> /\ MorePages
        BY <1>4, <2>2 DEF OpenPage
      <3>2. detected' \in Seq(Extents)
        BY <3>1, AnswersAssumption DEF Extents
      <3>3. FallbackLimit \in Nat /\ Len(detected') \in Nat
        BY <3>2, ConfigAssumption
      <3>4. MorePages'
        BY <3>1 DEF MorePages
      <3>5. QED BY <3>1, <3>2, <3>3, <3>4 DEF Typed
    <2>3. QED BY <2>1, <2>2
  <1>5. CASE ReadRegion
    <2>1. UNCHANGED <<source, detected, pages>>
      BY <1>5, Turn
    <2>2. CASE phase' = "failed" /\ UNCHANGED <<read, recognized, attempts, events>>
      BY <2>1, <2>2 DEF Typed, MorePages
    <2>3. ASSUME NEW s \in Seq(Candidates), phase' = phase, At <= Len(detected), read' = Append(read, s)
          PROVE  /\ read' \in Seq(Seq(Candidates)) /\ Len(read') <= Len(detected') /\ Len(read') = At
                 /\ At \in Nat
      BY <2>1, <2>3 DEF Typed, At
    <2>4. ASSUME NEW s \in Seq(Candidates), phase' = phase, At <= Len(detected), read' = Append(read, s),
                 UNCHANGED <<recognized, attempts, events>>
          PROVE  Typed'
      <3>1. \A i \in 1..Len(read) : i \in 1..Len(read')
        BY <2>3, <2>4 DEF At, Typed
      <3>2. QED BY <2>1, <2>3, <2>4, <3>1 DEF Typed, MorePages
    <2>5. ASSUME NEW s \in Seq(Candidates), phase' = phase, At <= Len(detected), read' = Append(read, s),
                 NEW item \in Items, Made(item, s), Told(item), recognized' = Append(recognized, item)
          PROVE  Typed'
      <3>1. (\A i \in 1..Len(read) : i \in 1..Len(read')) /\ At \in 1..Len(read')
        BY <2>3, <2>5 DEF At, Typed
      <3>2. recognized' \in Seq(Items) /\ \A k \in 1..Len(recognized') :
              recognized'[k].at \in 1..Len(read') /\ recognized'[k].box = BBox(detected'[recognized'[k].at])
        <4>1. recognized' \in Seq(Items) /\ Len(recognized') = Len(recognized) + 1
              /\ Len(recognized) \in Nat /\ recognized'[Len(recognized) + 1] = item
              /\ \A k \in 1..Len(recognized) : recognized'[k] = recognized[k]
          BY <2>5 DEF Typed
        <4>2. item.at = At /\ item.box = BBox(detected[At])
          BY <2>5 DEF Made
        <4>3. ASSUME NEW k \in 1..Len(recognized')
              PROVE  recognized'[k].at \in 1..Len(read')
                     /\ recognized'[k].box = BBox(detected'[recognized'[k].at])
          <5>1. CASE k = Len(recognized) + 1
            BY <2>1, <3>1, <4>1, <4>2, <5>1
          <5>2. CASE k # Len(recognized) + 1
            <6>1. k \in 1..Len(recognized)
              BY <4>1, <5>2
            <6>2. QED BY <2>1, <3>1, <4>1, <6>1 DEF Typed
          <5>3. QED BY <5>1, <5>2
        <4>4. QED BY <4>1, <4>3
      <3>3. attempts' \in Nat /\ attempts' <= FallbackLimit
        BY <2>5, ConfigAssumption DEF Told, Typed
      <3>4. events' \in Seq(EventRecords) /\ \A k \in 1..Len(events') : events'[k].at \in 1..Len(read')
        <4>1. CASE UNCHANGED events
          BY <3>1, <4>1 DEF Typed
        <4>2. ASSUME NEW e \in EventRecords, e.at = At, events' = Append(events, e)
              PROVE  events' \in Seq(EventRecords)
                     /\ \A k \in 1..Len(events') : events'[k].at \in 1..Len(read')
          <5>1. events' \in Seq(EventRecords) /\ Len(events') = Len(events) + 1
                /\ Len(events) \in Nat /\ events'[Len(events) + 1] = e
                /\ \A k \in 1..Len(events) : events'[k] = events[k]
            BY <4>2 DEF Typed
          <5>2. ASSUME NEW k \in 1..Len(events') PROVE events'[k].at \in 1..Len(read')
            <6>1. CASE k = Len(events) + 1
              BY <3>1, <4>2, <5>1, <6>1
            <6>2. CASE k # Len(events) + 1
              <7>1. k \in 1..Len(events)
                BY <5>1, <6>2
              <7>2. QED BY <3>1, <5>1, <7>1 DEF Typed
            <6>3. QED BY <6>1, <6>2
          <5>3. QED BY <5>1, <5>2
        <4>3. QED BY <2>5, <4>1, <4>2 DEF Told
      <3>5. read' \in Seq(Seq(Candidates)) /\ Len(read') <= Len(detected')
        BY <2>3, <2>5
      <3>6. QED BY <2>1, <2>5, <3>2, <3>3, <3>4, <3>5 DEF Typed, MorePages
    <2>6. QED BY <1>5, <2>2, <2>4, <2>5, Turn
  <1>6. CASE BuildPage
    <2> DEFINE a == [kind |-> "ocr", count |-> [status \in Statuses |->
                       Cardinality({k \in DOMAIN events : events[k].status = status})]]
    <2>1. a \in Accounts
      <3>1. IsFiniteSet(DOMAIN events)
        <4>1. DOMAIN events = 1..Len(events) /\ Len(events) \in Nat
          BY DEF Typed
        <4>2. QED BY <4>1, FS_Interval
      <3>2. \A status : Cardinality({k \in DOMAIN events : events[k].status = status}) \in Nat
        BY <3>1, FS_Subset, FS_CardinalityType
      <3>3. QED BY <3>2 DEF Accounts
    <2>2. pages' = Append(pages, a) /\ UNCHANGED <<source, detected, read, recognized, attempts, events>>
          /\ phase' = "page" /\ phase = "regions"
      BY <1>6 DEF BuildPage
    <2> HIDE DEF a
    <2>3. pages' \in Seq(Accounts) /\ Len(pages') = Len(pages) + 1 /\ Len(pages') <= Len(source.pages)
      BY <2>1, <2>2, SourcePages DEF Typed, MorePages
    <2>4. QED BY <2>2, <2>3 DEF Typed, MorePages
  <1>7. CASE Finish
    BY <1>7 DEF Typed, Finish, MorePages
  <1>8. QED BY <1>1, <1>2, <1>3, <1>4, <1>5, <1>6, <1>7 DEF Next

LEMMA CallsFinite ==
  ASSUME Typed
  PROVE  IsFiniteSet(Calls) /\ Calls \subseteq 1..Len(events) /\ Cardinality(Calls) \in Nat
  <1>1. DOMAIN events = 1..Len(events) /\ Len(events) \in Nat
    BY DEF Typed
  <1>2. IsFiniteSet(1..Len(events)) /\ Calls \subseteq 1..Len(events)
    BY <1>1, FS_Interval DEF Calls
  <1>3. QED BY <1>2, FS_Subset, FS_CardinalityType

LEMMA CountedStep ==
  ASSUME Typed, Counted, [Next]_vars
  PROVE  Counted'
  <1>1. CASE UNCHANGED <<attempts, events>>
    BY <1>1 DEF Counted, Calls
  <1>2. CASE OpenPage /\ ~UNCHANGED <<attempts, events>>
    <2>1. events' = <<>> /\ attempts' = 0
      BY <1>2 DEF OpenPage
    <2>2. Calls' = {}
      BY <2>1 DEF Calls
    <2>3. QED BY <2>1, <2>2, FS_EmptySet DEF Counted
  <1>3. CASE ReadRegion
    <2>1. ASSUME NEW e \in EventRecords, events' = Append(events, e),
                 IF e.status = "skipped" THEN attempts >= FallbackLimit /\ attempts' = attempts
                                         ELSE attempts < FallbackLimit /\ attempts' = attempts + 1
          PROVE  Counted'
      <3> DEFINE n == Len(events)
      <3>1. n \in Nat /\ DOMAIN events = 1..n /\ Len(events') = n + 1 /\ DOMAIN events' = 1..(n + 1)
            /\ events'[n + 1] = e /\ \A k \in 1..n : events'[k] = events[k]
        BY <2>1 DEF Typed
      <3>2. attempts \in Nat /\ attempts <= FallbackLimit /\ FallbackLimit \in Nat
            /\ attempts = Cardinality(Calls)
        BY ConfigAssumption DEF Typed, Counted
      <3>3. IsFiniteSet(Calls) /\ Calls \subseteq 1..n
        BY CallsFinite
      <3> HIDE DEF n
      <3>4. \A k \in 1..(n + 1) : k \in Calls' <=> k \in Calls \/ (k = n + 1 /\ e.status # "skipped")
        <4>1. ASSUME NEW k \in 1..n PROVE k \in Calls' <=> k \in Calls
          BY <3>1, <4>1 DEF Calls
        <4>2. n + 1 \in Calls' <=> e.status # "skipped"
          BY <3>1 DEF Calls
        <4>3. n + 1 \notin Calls
          BY <3>1, <3>3
        <4>4. \A k \in 1..(n + 1) : k \in 1..n \/ k = n + 1
          BY <3>1
        <4>5. \A k \in 1..n : k # n + 1
          BY <3>1
        <4>6. QED BY <4>1, <4>2, <4>3, <4>4, <4>5
      <3>5. Calls' \subseteq 1..(n + 1)
        BY <3>1 DEF Calls
      <3>6. ASSUME NEW k \in 1..(n + 1) PROVE {c \in Calls' : c < k} = {c \in Calls : c < k}
        <4>1. \A c \in 1..n : c \in 1..(n + 1)
          BY <3>1
        <4>2. \A c \in 1..(n + 1) : c < k => c # n + 1
          BY <3>1
        <4>3. \A c : c \in Calls' /\ c < k <=> c \in Calls /\ c < k
          BY <3>3, <3>4, <3>5, <4>1, <4>2, Zenon
        <4>4. QED BY <4>3, Zenon
      <3>7. attempts' = Cardinality(Calls')
        <4>1. CASE e.status = "skipped"
          <5>1. Calls' = Calls
            <6>1. \A c \in 1..n : c \in 1..(n + 1)
              BY <3>1
            <6>2. QED BY <3>3, <3>4, <3>5, <4>1, <6>1, Zenon
          <5>2. QED BY <2>1, <3>2, <4>1, <5>1
        <4>2. CASE e.status # "skipped"
          <5>1. Calls' = Calls \cup {n + 1} /\ n + 1 \notin Calls
            <6>1. (\A c \in 1..n : c \in 1..(n + 1) /\ c # n + 1) /\ n + 1 \in 1..(n + 1)
              BY <3>1
            <6>2. \A c : c \in Calls' <=> c \in Calls \/ c = n + 1
              BY <3>3, <3>4, <3>5, <4>2, <6>1, Zenon
            <6>3. QED BY <3>3, <6>1, <6>2, Zenon
          <5>2. Cardinality(Calls') = Cardinality(Calls) + 1
            BY <3>3, <5>1, FS_AddElement
          <5>3. QED BY <2>1, <3>2, <4>2, <5>2
        <4>3. QED BY <4>1, <4>2
      <3>8. ASSUME NEW k \in 1..(n + 1), events'[k].status = "skipped"
            PROVE  Cardinality({c \in Calls' : c < k}) = FallbackLimit
        <4>1. CASE k = n + 1
          <5>1. {c \in Calls : c < k} = Calls
            <6>1. \A c \in 1..n : c < k
              BY <3>1, <4>1
            <6>2. QED BY <3>3, <6>1, Zenon
          <5>2. e.status = "skipped"
            BY <3>1, <3>8, <4>1
          <5>3. attempts = FallbackLimit
            BY <2>1, <3>2, <5>2
          <5>4. QED BY <3>2, <3>6, <5>1, <5>3
        <4>2. CASE k # n + 1
          <5>1. k \in 1..n /\ events[k].status = "skipped"
            BY <3>1, <3>8, <4>2
          <5>2. Cardinality({c \in Calls : c < k}) = FallbackLimit
            BY <5>1 DEF Counted, n
          <5>3. QED BY <3>6, <5>2
        <4>3. QED BY <4>1, <4>2
      <3>9. QED BY <3>1, <3>7, <3>8 DEF Counted
    <2>2. CASE ~UNCHANGED <<attempts, events>>
      <3>1. PICK item \in Items : Told(item)
        BY <1>3, <2>2, Turn
      <3>2. QED BY <2>1, <2>2, <3>1 DEF Told
    <2>3. QED BY <1>1, <2>2
  <1>4. QED BY <1>1, <1>2, <1>3 DEF Next, vars, Inspect, NativePage, BuildPage, Finish

LEMMA ListedStep ==
  ASSUME Typed, Listed, [Next]_vars
  PROVE  Listed'
  <1>1. CASE UNCHANGED <<read, recognized>>
    BY <1>1 DEF Listed
  <1>2. CASE OpenPage /\ ~UNCHANGED <<read, recognized>>
    <2>1. read' = <<>> /\ recognized' = <<>>
      BY <1>2 DEF OpenPage
    <2>2. QED BY <2>1 DEF Listed
  <1>3. ASSUME NEW s \in Seq(Candidates), read' = Append(read, s),
               \/ s = <<>> /\ UNCHANGED recognized
               \/ s # <<>> /\ \E item \in Items : item.at = At /\ recognized' = Append(recognized, item)
        PROVE  Listed'
    <2> DEFINE m == Len(read)
               n == Len(recognized)
    <2>1. m \in Nat /\ n \in Nat /\ Len(read') = m + 1 /\ read'[m + 1] = s /\ At = m + 1
          /\ \A i \in 1..m : read'[i] = read[i]
      <3>1. read \in Seq(Seq(Candidates)) /\ recognized \in Seq(Items)
        BY DEF Typed
      <3>2. m \in Nat /\ n \in Nat /\ At = m + 1
        BY <3>1 DEF At
      <3> HIDE DEF n
      <3>3. Len(read') = m + 1 /\ read'[m + 1] = s /\ \A i \in 1..m : read'[i] = read[i]
        BY <1>3, <3>1
      <3>4. QED BY <3>2, <3>3
    <2>2. \A k \in 1..n : recognized[k].at \in 1..m
      BY DEF Typed
    <2>3. (\A j, k \in 1..n : j < k => recognized[j].at < recognized[k].at)
          /\ \A i \in 1..m : read[i] # <<>> <=> \E k \in 1..n : recognized[k].at = i
      BY DEF Listed
    <2>4. CASE s = <<>>
      <3>1. recognized' = recognized
        BY <1>3, <2>4
      <3>2. ASSUME NEW i \in 1..(m + 1)
            PROVE  read'[i] # <<>> <=> \E k \in 1..n : recognized[k].at = i
        <4>1. CASE i = m + 1
          BY <2>1, <2>2, <2>4, <4>1
        <4>2. CASE i # m + 1
          <5>1. i \in 1..m
            BY <2>1, <4>2
          <5>2. QED BY <2>1, <2>3, <5>1
        <4>3. QED BY <4>1, <4>2
      <3> HIDE DEF m
      <3>3. QED BY <2>1, <2>3, <3>1, <3>2 DEF Listed
    <2>5. CASE s # <<>>
      <3>1. PICK item \in Items : item.at = At /\ recognized' = Append(recognized, item)
        BY <1>3, <2>5
      <3>2. Len(recognized') = n + 1 /\ recognized'[n + 1] = item
            /\ \A k \in 1..n : recognized'[k] = recognized[k]
        BY <3>1 DEF Typed
      <3> HIDE DEF m, n
      <3>3. \A k \in 1..(n + 1) : k \in 1..n \/ k = n + 1
        BY <2>1
      <3>4. ASSUME NEW j \in 1..(n + 1), NEW k \in 1..(n + 1), j < k
            PROVE  recognized'[j].at < recognized'[k].at
        <4>1. j \in 1..n
          BY <2>1, <3>4
        <4>2. CASE k = n + 1
          BY <2>1, <2>2, <3>1, <3>2, <4>1, <4>2
        <4>3. CASE k \in 1..n
          BY <2>3, <3>2, <3>4, <4>1, <4>3
        <4>4. QED BY <3>3, <4>2, <4>3
      <3>5. ASSUME NEW i \in 1..(m + 1)
            PROVE  read'[i] # <<>> <=> \E k \in 1..(n + 1) : recognized'[k].at = i
        <4>1. CASE i = m + 1
          <5>1. n + 1 \in 1..(n + 1) /\ recognized'[n + 1].at = i
            BY <2>1, <3>1, <3>2, <4>1
          <5>2. QED BY <2>1, <2>5, <4>1, <5>1
        <4>2. CASE i # m + 1
          <5>1. i \in 1..m /\ read'[i] = read[i]
            BY <2>1, <4>2
          <5>2. recognized'[n + 1].at # i
            BY <2>1, <3>1, <3>2, <4>2
          <5>3. \A k \in 1..n : k \in 1..(n + 1)
            BY <2>1
          <5>4. QED BY <2>3, <3>2, <3>3, <5>1, <5>2, <5>3
        <4>3. QED BY <4>1, <4>2
      <3>6. QED BY <2>1, <3>2, <3>4, <3>5 DEF Listed
    <2>6. QED BY <2>4, <2>5
  <1>4. CASE ReadRegion
    <2>1. CASE ~UNCHANGED <<read, recognized>>
      <3>1. PICK s \in Seq(Candidates) : /\ read' = Append(read, s)
               /\ \/ s = <<>> /\ UNCHANGED recognized
                  \/ s # <<>> /\ \E item \in Items : Made(item, s) /\ recognized' = Append(recognized, item)
        BY <1>4, <2>1, Turn
      <3>2. QED BY <1>3, <3>1 DEF Made
    <2>2. QED BY <1>1, <2>1
  <1>5. QED BY <1>1, <1>2, <1>4 DEF Next, vars, Inspect, NativePage, BuildPage, Finish

LEMMA ExplainedStep ==
  ASSUME Typed, Explained, [Next]_vars
  PROVE  Explained'
  <1>1. CASE UNCHANGED <<read, recognized, events>>
    BY <1>1 DEF Explained
  <1>2. CASE OpenPage /\ ~UNCHANGED <<read, recognized, events>>
    <2>1. recognized' = <<>>
      BY <1>2 DEF OpenPage
    <2>2. QED BY <2>1 DEF Explained
  <1>3. CASE ReadRegion /\ ~UNCHANGED <<read, recognized, events>>
    <2>1. PICK s \in Seq(Candidates) : /\ read' = Append(read, s)
             /\ \/ s = <<>> /\ UNCHANGED <<recognized, events>>
                \/ \E item \in Items : Made(item, s) /\ Told(item) /\ recognized' = Append(recognized, item)
      BY <1>3, Turn
    <2>2. Len(read) \in Nat /\ At = Len(read) + 1 /\ read'[At] = s
          /\ \A i \in 1..Len(read) : read'[i] = read[i] /\ i # At
      BY <2>1 DEF Typed, At
    <2>3. ASSUME NEW i \in 1..Len(read) PROVE Accepted(i, events') <=> Accepted(i, events)
      <3>1. CASE UNCHANGED events
        BY <3>1 DEF Accepted
      <3>2. ASSUME NEW e \in EventRecords, e.at = At, events' = Append(events, e)
            PROVE  Accepted(i, events') <=> Accepted(i, events)
        <4>1. Len(events) \in Nat /\ Len(events') = Len(events) + 1 /\ events'[Len(events) + 1] = e
              /\ \A k \in 1..Len(events) : events'[k] = events[k] /\ k \in 1..Len(events')
          BY <3>2 DEF Typed
        <4>2. \A k \in 1..Len(events') : k \in 1..Len(events) \/ k = Len(events) + 1
          BY <4>1
        <4>3. e.at # i
          BY <2>2, <3>2
        <4>4. QED BY <4>1, <4>2, <4>3 DEF Accepted
      <3>3. QED BY <2>1, <3>1, <3>2 DEF Told
    <2> DEFINE Fine(item) == Grounded(item, read', events')
    <2>4. ASSUME NEW k \in 1..Len(recognized) PROVE Fine(recognized[k])
      <3>1. PICK item : item = recognized[k]
        OBVIOUS
      <3>2. Grounded(item, read, events)
        BY <3>1 DEF Explained
      <3>3. item.at \in 1..Len(read)
        BY <3>1 DEF Typed
      <3>4. read'[item.at] = read[item.at]
        BY <2>2, <3>3
      <3>5. Accepted(item.at, events') <=> Accepted(item.at, events)
        BY <2>3, <3>3
      <3>6. Fine(item)
        BY <3>2, <3>4, <3>5 DEF Grounded
      <3> HIDE DEF Fine
      <3>7. QED BY <3>1, <3>6
    <2>5. ASSUME NEW item \in Items, Made(item, s), Told(item) PROVE Fine(item)
      <3>1. item.at = At /\ ToBag(Deterministic(item)) = ToBag(s) /\ Honest(item)
        BY <2>5 DEF Made
      <3>2. \A k \in 1..Len(events) : events[k].at # At
        BY <2>2 DEF Typed
      <3>3. item.fused.selected.kind = "vlm" <=> Accepted(item.at, events')
        <4>1. CASE item.fused.selected.kind = "ocr" /\ UNCHANGED events
          BY <3>1, <3>2, <4>1 DEF Accepted
        <4>2. ASSUME NEW e \in EventRecords, e.at = At, events' = Append(events, e),
                     item.fused.selected.kind = "vlm" <=> e.status = "accepted"
              PROVE  item.fused.selected.kind = "vlm" <=> Accepted(item.at, events')
          <5>1. Len(events) \in Nat /\ Len(events') = Len(events) + 1 /\ events'[Len(events) + 1] = e
                /\ \A k \in 1..Len(events) : events'[k] = events[k]
            BY <4>2 DEF Typed
          <5>2. Len(events) + 1 \in 1..Len(events')
                /\ \A k \in 1..Len(events') : k \in 1..Len(events) \/ k = Len(events) + 1
            BY <5>1
          <5>3. QED BY <3>1, <3>2, <4>2, <5>1, <5>2 DEF Accepted
        <4>3. QED BY <2>5, <4>1, <4>2 DEF Told
      <3>4. QED BY <2>2, <3>1, <3>3 DEF Grounded
    <2>6. ASSUME NEW k \in 1..Len(recognized') PROVE Fine(recognized'[k])
      <3>1. CASE UNCHANGED recognized
        <4> HIDE DEF Fine
        <4> QED BY <2>4, <2>6, <3>1
      <3>2. ASSUME NEW item \in Items, Made(item, s), Told(item), recognized' = Append(recognized, item)
            PROVE  Fine(recognized'[k])
        <4>1. Len(recognized) \in Nat /\ Len(recognized') = Len(recognized) + 1
              /\ recognized'[Len(recognized) + 1] = item
              /\ \A j \in 1..Len(recognized) : recognized'[j] = recognized[j]
          BY <3>2 DEF Typed
        <4>2. k \in 1..Len(recognized) \/ k = Len(recognized) + 1
          BY <4>1
        <4>3. Fine(item)
          BY <2>5, <3>2
        <4> HIDE DEF Fine
        <4>4. QED BY <2>4, <4>1, <4>2, <4>3
      <3>3. QED BY <2>1, <3>1, <3>2
    <2> HIDE DEF Fine
    <2>7. QED BY <2>6 DEF Explained, Fine
  <1>4. QED BY <1>1, <1>2, <1>3 DEF Next, vars, Inspect, NativePage, BuildPage, Finish

LEMMA ComposedStep ==
  ASSUME Typed, Composed, [Next]_vars
  PROVE  Composed'
  <1>1. CASE UNCHANGED vars
    BY <1>1 DEF vars, Composed, Built, At
  <1>2. CASE Inspect
    <2>1. pages' = <<>> /\ phase' # "inspect"
      BY <1>2 DEF Inspect, Composed
    <2>2. QED BY <2>1 DEF Composed, Built
  <1>3. CASE NativePage
    <2>1. pages' \in Seq(Accounts) /\ Last(pages').kind = "native_pdf" /\ phase' # "inspect"
      <3> DEFINE a == [kind |-> "native_pdf", count |-> NoCount]
      <3>1. pages' = Append(pages, a) /\ phase' # "inspect" /\ a \in Accounts
        BY <1>3 DEF NativePage, Accounts, NoCount
      <3>2. a.kind = "native_pdf"
        OBVIOUS
      <3> HIDE DEF a
      <3>3. QED BY <3>1, <3>2 DEF Typed, Last
    <2>2. QED BY <2>1 DEF Composed, Built
  <1>4. CASE OpenPage \/ ReadRegion \/ Finish
    <2>1. phase' \in {"regions", "failed", "done"}
      <3>1. CASE OpenPage
        BY <3>1 DEF OpenPage
      <3>2. CASE ReadRegion
        BY <3>2, Turn
      <3>3. CASE Finish
        BY <3>3 DEF Finish
      <3>4. QED BY <1>4, <3>1, <3>2, <3>3
    <2>2. QED BY <2>1 DEF Composed, Built
  <1>5. CASE BuildPage
    <2>1. phase' = "page" /\ At > Len(detected) /\ UNCHANGED <<read, detected, recognized>>
      BY <1>5 DEF BuildPage
    <2>2. blocks' = Blocks(recognized)
      BY <1>5, Zenon DEF BuildPage, Blocks
    <2>3. Blocks(recognized)' = Blocks(recognized) /\ (At > Len(detected))'
      BY <2>1 DEF At
    <2>4. QED BY <2>1, <2>2, <2>3 DEF Composed
  <1>6. QED BY <1>1, <1>2, <1>3, <1>4, <1>5 DEF Next

LEMMA ElementsTyped ==
  ASSUME Typed
  PROVE  /\ DOMAIN pages = 1..Len(pages) /\ Len(pages) \in Nat
         /\ \A k \in 1..Len(pages) :
              pages[k].kind \in {"native_pdf", "ocr"} /\ pages[k].count \in [Statuses -> Nat]
         /\ DOMAIN events = 1..Len(events) /\ Len(events) \in Nat
         /\ \A k \in 1..Len(events) : events[k].status \in Statuses
  <1>1. pages \in Seq(Accounts) /\ events \in Seq(EventRecords)
    BY DEF Typed
  <1>2. ASSUME NEW p \in Accounts PROVE p.kind \in {"native_pdf", "ocr"} /\ p.count \in [Statuses -> Nat]
    BY DEF Accounts
  <1>3. ASSUME NEW e \in EventRecords PROVE e.status \in Statuses
    BY DEF EventRecords
  <1>4. \A k \in 1..Len(pages) : pages[k] \in Accounts
    BY <1>1
  <1>5. \A k \in 1..Len(events) : events[k] \in EventRecords
    BY <1>1
  <1>6. DOMAIN pages = 1..Len(pages) /\ Len(pages) \in Nat
        /\ DOMAIN events = 1..Len(events) /\ Len(events) \in Nat
    BY <1>1
  <1>7. QED BY <1>2, <1>3, <1>4, <1>5, <1>6

LEMMA TalliedStep ==
  ASSUME Typed, Counted, Tallied, [Next]_vars
  PROVE  Tallied'
  <1>1. CASE UNCHANGED <<source, phase, pages>>
    BY <1>1 DEF Tallied, Trusted, Page, Called
  <1>2. ASSUME NEW a \in Accounts, pages' = Append(pages, a), UNCHANGED source, phase' = "page",
               a.kind = "native_pdf" <=> Trusted(Page),
               Called(a) <= IF a.kind = "ocr" THEN FallbackLimit ELSE 0
        PROVE  Tallied'
    <2>1. Len(pages) \in Nat /\ Len(pages') = Len(pages) + 1 /\ pages'[Len(pages) + 1] = a
          /\ \A k \in 1..Len(pages) : pages'[k] = pages[k]
      BY <1>2 DEF Typed
    <2>2. ASSUME NEW k \in 1..Len(pages')
          PROVE  /\ pages'[k].kind = "native_pdf" <=> Trusted(source.pages[k])
                 /\ Called(pages'[k]) <= IF pages'[k].kind = "ocr" THEN FallbackLimit ELSE 0
      <3>1. CASE k = Len(pages) + 1
        BY <1>2, <2>1, <3>1 DEF Page
      <3>2. CASE k # Len(pages) + 1
        <4>1. k \in 1..Len(pages)
          BY <2>1, <3>2
        <4>2. pages'[k] = pages[k]
          BY <2>1, <4>1
        <4>3. /\ pages[k].kind = "native_pdf" <=> Trusted(source.pages[k])
              /\ Called(pages[k]) <= IF pages[k].kind = "ocr" THEN FallbackLimit ELSE 0
          BY <4>1 DEF Tallied
        <4>4. QED BY <4>2, <4>3
      <3>3. QED BY <3>1, <3>2
    <2>3. source' = source
      BY <1>2
    <2>4. QED BY <1>2, <2>2, <2>3 DEF Tallied, Trusted, Called
  <1>3. CASE NativePage
    <2> DEFINE a == [kind |-> "native_pdf", count |-> NoCount]
    <2>1. pages' = Append(pages, a) /\ UNCHANGED source /\ phase' = "page" /\ Trusted(Page)
      BY <1>3 DEF NativePage
    <2>2. a \in Accounts /\ a.kind = "native_pdf" /\ Called(a) = 0
      BY DEF Accounts, NoCount, Called, Statuses
    <2> HIDE DEF a
    <2>3. Called(a) <= IF a.kind = "ocr" THEN FallbackLimit ELSE 0
      BY <2>2
    <2>4. QED BY <1>2, <2>1, <2>2, <2>3
  <1>4. CASE BuildPage
    <2> DEFINE n == [status \in Statuses |-> Cardinality({k \in DOMAIN events : events[k].status = status})]
               a == [kind |-> "ocr", count |-> n]
    <2>1. pages' = Append(pages, a) /\ UNCHANGED source /\ phase' = "page" /\ ~Trusted(Page)
      BY <1>4 DEF BuildPage, Tallied
    <2>2. IsFiniteSet(DOMAIN events) /\ DOMAIN events = 1..Len(events)
      <3>1. DOMAIN events = 1..Len(events) /\ Len(events) \in Nat
        BY DEF Typed
      <3>2. QED BY <3>1, FS_Interval
    <2> DEFINE Of(status) == {k \in DOMAIN events : events[k].status = status}
    <2>3. \A status : IsFiniteSet(Of(status)) /\ Cardinality(Of(status)) \in Nat
      BY <2>2, FS_Subset, FS_CardinalityType
    <2>4. a \in Accounts /\ a.kind = "ocr"
      BY <2>3 DEF Accounts
    <2>5. Called(a) = Cardinality(Of("accepted")) + Cardinality(Of("rejected")) + Cardinality(Of("failed"))
      BY DEF Called, Statuses
    <2>6. Calls = (Of("accepted") \cup Of("rejected")) \cup Of("failed")
      <3>1. \A k \in DOMAIN events : events[k].status \in Statuses
        BY ElementsTyped
      <3>2. QED BY <3>1 DEF Calls, Statuses
    <2>7. Cardinality(Calls) = Called(a)
      <3>1. Of("accepted") \cap Of("rejected") = {}
            /\ (Of("accepted") \cup Of("rejected")) \cap Of("failed") = {}
        OBVIOUS
      <3> HIDE DEF Of, a
      <3>2. IsFiniteSet(Of("accepted") \cup Of("rejected"))
            /\ Cardinality(Of("accepted") \cup Of("rejected"))
                 = Cardinality(Of("accepted")) + Cardinality(Of("rejected"))
        BY <2>3, <3>1, DisjointUnion
      <3>3. Cardinality(Calls) = Cardinality(Of("accepted") \cup Of("rejected")) + Cardinality(Of("failed"))
        BY <2>3, <2>6, <3>1, <3>2, DisjointUnion
      <3>4. QED BY <2>3, <2>5, <3>2, <3>3
    <2>8. Called(a) <= IF a.kind = "ocr" THEN FallbackLimit ELSE 0
      BY <2>4, <2>7 DEF Typed, Counted
    <2> HIDE DEF a
    <2>9. QED BY <1>2, <2>1, <2>4, <2>8
  <1>5. CASE Inspect \/ OpenPage \/ ReadRegion \/ Finish
    <2>1. UNCHANGED <<source, pages>> /\ (phase' = "regions" => ~Trusted(Page))
      <3>1. CASE Inspect
        BY <3>1 DEF Inspect
      <3>2. CASE OpenPage
        BY <3>2 DEF OpenPage
      <3>3. CASE ReadRegion
        BY <3>3, Turn DEF Tallied
      <3>4. CASE Finish
        BY <3>4 DEF Finish
      <3>5. QED BY <1>5, <3>1, <3>2, <3>3, <3>4
    <2>2. QED BY <2>1 DEF Tallied, Trusted, Page, Called
  <1>6. QED BY <1>1, <1>3, <1>4, <1>5 DEF Next, vars

LEMMA ReportedStep ==
  ASSUME Reported, [Next]_vars
  PROVE  Reported'
  <1>1. CASE UNCHANGED vars
    BY <1>1 DEF vars, Reported, MorePages, OfKind, Totals, Column
  <1>2. CASE Finish
    <2>1. UNCHANGED <<source, pages>> /\ ~MorePages
      BY <1>2 DEF Finish
    <2>2. metadata' = [native |-> Cardinality(OfKind("native_pdf")), ocr |-> Cardinality(OfKind("ocr")),
                       attempted |-> SumFunction(Totals), vlm |-> Totals]
      BY <1>2, Zenon DEF Finish, OfKind, Totals, Column
    <2>3. QED BY <2>1, <2>2 DEF Reported, MorePages, OfKind, Totals, Column
  <1>3. CASE Inspect \/ NativePage \/ OpenPage \/ ReadRegion \/ BuildPage
    <2>1. phase' # "done"
      BY <1>3 DEF Inspect, NativePage, OpenPage, ReadRegion, BuildPage
    <2>2. QED BY <2>1 DEF Reported
  <1>4. QED BY <1>1, <1>2, <1>3 DEF Next

LEMMA Invariant == Spec => []IInv
  <1>1. Init => IInv
    BY Initially
  <1>2. IInv /\ [Next]_vars => IInv'
    BY TypedStep, CountedStep, ListedStep, ExplainedStep, ComposedStep, TalliedStep, ReportedStep
       DEF IInv
  <1>3. QED BY <1>1, <1>2, PTL DEF Spec

-----------------------------------------------------------------------------
(* Theorems                                                                *)

LEMMA RecordsTyped ==
  ASSUME Typed
  PROVE  /\ DOMAIN recognized = 1..Len(recognized) /\ Len(recognized) \in Nat
         /\ \A k \in 1..Len(recognized) :
              /\ recognized[k].at \in Nat /\ recognized[k].at \in 1..Len(read)
              /\ recognized[k].box \in Boxes
              /\ recognized[k].box = BBox(detected[recognized[k].at])
              /\ recognized[k].fused \in Fusions
  <1>1. recognized \in Seq(Items)
    BY DEF Typed
  <1>2. ASSUME NEW i \in Items PROVE i.at \in Nat /\ i.box \in Boxes /\ i.fused \in Fusions
    BY DEF Items
  <1>3. ASSUME NEW k \in 1..Len(recognized)
        PROVE  recognized[k].at \in Nat /\ recognized[k].box \in Boxes /\ recognized[k].fused \in Fusions
    <2>1. recognized[k] \in Items
      BY <1>1
    <2>2. QED BY <1>2, <2>1
  <1>4. DOMAIN recognized = 1..Len(recognized) /\ Len(recognized) \in Nat
    BY <1>1
  <1>5. QED BY <1>3, <1>4 DEF Typed

\* The blocks of a page are its recognized regions, each once.
LEMMA BlocksPermute ==
  ASSUME Typed, NEW n, n = Len(recognized)
  PROVE  /\ n \in Nat /\ DOMAIN recognized = 1..n
         /\ \E q \in Bijection(1..n, 1..n) :
              Blocks(recognized) = [k \in 1..n |-> [at |-> recognized[q[k]].at,
                 fused |-> recognized[q[k]].fused,
                 bbox |-> ClampBBox(recognized[q[k]].box, Width, Height)]]
  <1>1. n \in Nat /\ DOMAIN recognized = 1..n /\ \A k \in 1..n : recognized[k].box \in Boxes
    BY RecordsTyped
  <1>2. PICK q \in Bijection(1..n, 1..n) : ReadingOrder(recognized) = [k \in 1..n |-> recognized[q[k]]]
    BY <1>1, ReadingOrderPermutes
  <1>3. DOMAIN ReadingOrder(recognized) = 1..n
    BY <1>2
  <1>4. Blocks(recognized) = [k \in 1..n |-> [at |-> recognized[q[k]].at,
                 fused |-> recognized[q[k]].fused,
                 bbox |-> ClampBBox(recognized[q[k]].box, Width, Height)]]
    BY <1>2, <1>3 DEF Blocks
  <1>5. QED BY <1>1, <1>4

\* Types: what TypeOK says of every variable.
THEOREM TypeCorrect == Spec => []TypeOK
  <1>1. IInv => TypeOK
    <2> SUFFICES ASSUME Typed PROVE TypeOK
      BY DEF IInv
    <2>1. \A p \in Range(pages) : p.kind \in {"native_pdf", "ocr"} /\ p.count \in [Statuses -> Nat]
      <3>1. ASSUME NEW p \in Accounts PROVE p.kind \in {"native_pdf", "ocr"} /\ p.count \in [Statuses -> Nat]
        BY DEF Accounts
      <3>2. \A p \in Range(pages) : p \in Accounts
        <4>1. pages \in Seq(Accounts)
          BY DEF Typed
        <4>2. QED BY <4>1 DEF Range
      <3>3. QED BY <3>1, <3>2
    <2>2. ASSUME NEW i \in Range(recognized)
          PROVE  /\ i.at \in DOMAIN detected /\ i.box = BBox(detected[i.at])
                 /\ {i.fused.selected} \cup Range(i.fused.alternatives) \subseteq Candidates
                 /\ i.fused.confidence \in Points
      <3>1. PICK k \in 1..Len(recognized) : i = recognized[k]
        BY RecordsTyped DEF Range
      <3>2. i.at \in 1..Len(read) /\ i.box = BBox(detected[i.at]) /\ i.fused \in Fusions
        BY <3>1, RecordsTyped
      <3>3. i.at \in DOMAIN detected
        BY <3>2 DEF Typed
      <3>4. ASSUME NEW f \in Fusions
            PROVE  /\ {f.selected} \cup Range(f.alternatives) \subseteq Candidates
                   /\ f.confidence \in Points
        <4>1. f.selected \in Candidates /\ f.alternatives \in Seq(Candidates) /\ f.confidence \in Points
          BY DEF Fusions
        <4>2. Range(f.alternatives) \subseteq Candidates
          BY <4>1 DEF Range
        <4>3. QED BY <4>1, <4>2
      <3>5. PICK f \in Fusions : f = i.fused
        BY <3>2
      <3>6. {i.fused.selected} \cup Range(i.fused.alternatives) \subseteq Candidates
        BY <3>4, <3>5
      <3>7. i.fused.confidence \in Points
        BY <3>4, <3>5
      <3>8. QED BY <3>2, <3>3, <3>6, <3>7
    <2>3. attempts \in 0..FallbackLimit
      BY ConfigAssumption DEF Typed
    <2>4. ASSUME NEW e \in Range(events) PROVE e.at \in DOMAIN detected /\ e.status \in Statuses
      <3>1. PICK k \in 1..Len(events) : e = events[k] /\ e \in EventRecords
        BY DEF Typed, Range
      <3>2. e.at \in 1..Len(read)
        BY <3>1 DEF Typed
      <3>3. e.at \in DOMAIN detected
        BY <3>2 DEF Typed
      <3>4. e.status \in Statuses
        BY <3>1 DEF EventRecords
      <3>5. QED BY <3>3, <3>4
    <2>5. source \in Sources /\ phase \in {"inspect", "page", "regions", "done", "failed"}
          /\ Len(pages) <= Len(source.pages) /\ detected \in Layouts \cup {<<>>} /\ Len(read) <= Len(detected)
      BY DEF Typed
    <2>6. QED BY <2>1, <2>2, <2>3, <2>4, <2>5 DEF TypeOK
  <1>2. QED BY <1>1, Invariant, PTL

\* The VLM is called at most FallbackLimit times on a page, and a region is passed
\* over only when the calls are used up (the counting in _process_page_ocr).
THEOREM CallsCapped == Spec => []FallbackCapped
  <1>1. IInv => FallbackCapped
    <2>1. ASSUME Typed, Counted PROVE FallbackCapped
      <3>1. DOMAIN events = 1..Len(events)
        BY <2>1 DEF Typed
      <3>2. QED BY <2>1, <3>1 DEF Typed, Counted, FallbackCapped
    <2>2. QED BY <2>1 DEF IInv
  <1>2. QED BY <1>1, Invariant, PTL

\* A VLM text that replaces the recognizers' holds the number they agree on
\* (validate_fallback, through the ordering and the blocks).
THEOREM AgreedNumbersStay == Spec => []NumbersGuarded
  <1>1. IInv => NumbersGuarded
    <2> SUFFICES ASSUME IInv, Built, NEW b \in Range(blocks) PROVE Honest(b)
      BY Zenon DEF NumbersGuarded, Honest, Values
    <2>1. PICK n : n = Len(recognized)
      OBVIOUS
    <2>2. PICK q \in Bijection(1..n, 1..n) :
            blocks = [k \in 1..n |-> [at |-> recognized[q[k]].at, fused |-> recognized[q[k]].fused,
                        bbox |-> ClampBBox(recognized[q[k]].box, Width, Height)]]
      BY <2>1, BlocksPermute DEF IInv, Composed
    <2>3. PICK k \in 1..n : b.fused = recognized[q[k]].fused /\ q[k] \in 1..n
      BY <2>2 DEF Range, Bijection, Injection
    <2>4. Honest(recognized[q[k]])
      BY <2>1, <2>3 DEF IInv, Explained, Grounded
    <2>5. Deterministic(b) = Deterministic(recognized[q[k]])
      BY <2>3 DEF Deterministic, Evidence
    <2>6. QED BY <2>3, <2>4, <2>5 DEF Honest
  <1>2. QED BY <1>1, Invariant, PTL

\* Each block's box lies on the page and covers what its region has of it
\* (_clamp_bbox after DetectedRegion.bbox).
THEOREM BlocksOnPage == Spec => []BoxesOnPage
  <1>1. IInv => BoxesOnPage
    <2> SUFFICES ASSUME IInv, Built, NEW b \in Range(blocks) PROVE OnPage(b.bbox, detected[b.at])
      BY Zenon DEF BoxesOnPage, OnPage
    <2>1. PICK n : n = Len(recognized)
      OBVIOUS
    <2>2. PICK q \in Bijection(1..n, 1..n) :
            blocks = [k \in 1..n |-> [at |-> recognized[q[k]].at, fused |-> recognized[q[k]].fused,
                        bbox |-> ClampBBox(recognized[q[k]].box, Width, Height)]]
      BY <2>1, BlocksPermute DEF IInv, Composed
    <2>3. PICK j \in 1..n : b.at = recognized[j].at /\ b.bbox = ClampBBox(recognized[j].box, Width, Height)
      BY <2>2 DEF Range, Bijection, Injection
    <2>4. b.bbox = ClampBBox(BBox(detected[b.at]), Width, Height) /\ detected[b.at] \in Extents
      BY <2>1, <2>3 DEF IInv, Typed
    <2>5. QED BY <2>4, ClampedOnPage
  <1>2. QED BY <1>1, Invariant, PTL

\* No evidence is lost between the recognizers and the blocks
\* (fuse_recognitions, _run_fallback, order_recognized_regions, the blocks).
THEOREM NoEvidenceLost == Spec => []EvidenceKept
  <1>1. IInv => EvidenceKept
    <2> SUFFICES ASSUME IInv, Built PROVE EvidenceKept
      BY DEF EvidenceKept
    <2>1. PICK n : n = Len(recognized)
      OBVIOUS
    <2>2. PICK q \in Bijection(1..n, 1..n) :
            blocks = [k \in 1..n |-> [at |-> recognized[q[k]].at, fused |-> recognized[q[k]].fused,
                        bbox |-> ClampBBox(recognized[q[k]].box, Width, Height)]]
      BY <2>1, BlocksPermute DEF IInv, Composed
    <2>3. n \in Nat /\ q \in [1..n -> 1..n] /\ (\A i, j \in 1..n : q[i] = q[j] => i = j)
          /\ (\A k \in 1..n : \E i \in 1..n : q[i] = k)
      <3>1. n \in Nat
        BY <2>1, BlocksPermute DEF IInv
      <3>2. QED BY <3>1 DEF Bijection, Injection, Surjection, IsInjective
    <2>4. DOMAIN blocks = 1..n /\ \A k \in 1..n : blocks[k].at = recognized[q[k]].at
            /\ blocks[k].fused = recognized[q[k]].fused
      BY <2>2
    <2>5. Len(read) = Len(detected) /\ DOMAIN detected = 1..Len(detected) /\ DOMAIN events = 1..Len(events)
      BY DEF IInv, Composed, Typed, At
    <2>6. ASSUME NEW i \in DOMAIN detected
          PROVE  Cardinality({k \in DOMAIN blocks : blocks[k].at = i}) = IF read[i] = <<>> THEN 0 ELSE 1
      <3> DEFINE D == {k \in DOMAIN blocks : blocks[k].at = i}
      <3>1. i \in 1..Len(read)
        BY <2>5
      <3>2. read[i] # <<>> <=> \E k \in 1..n : recognized[k].at = i
        BY <2>1, <3>1 DEF IInv, Listed
      <3>3. \A j, k \in 1..n : recognized[j].at = recognized[k].at => j = k
        <4>1. \A j, k \in 1..n : j < k => recognized[j].at < recognized[k].at
          BY <2>1 DEF IInv, Listed
        <4>2. \A k \in 1..n : recognized[k].at \in Nat
          BY <2>1 DEF IInv, Typed, Items
        <4>3. ASSUME NEW j \in 1..n, NEW k \in 1..n, recognized[j].at = recognized[k].at PROVE j = k
          <5>1. j \in Int /\ k \in Int /\ recognized[j].at \in Nat
            BY <2>3, <4>2, <4>3
          <5>2. ~(j < k) /\ ~(k < j)
            BY <4>1, <4>3, <5>1
          <5>3. QED BY <5>1, <5>2
        <4>4. QED BY <4>3
      <3>4. CASE read[i] = <<>>
        <4>1. D = {}
          <5>1. ASSUME NEW k \in 1..n PROVE blocks[k].at # i
            <6>1. q[k] \in 1..n
              BY <2>3
            <6>2. recognized[q[k]].at # i
              BY <3>2, <3>4, <6>1
            <6>3. QED BY <2>4, <6>2
          <5>2. QED BY <2>4, <5>1, Zenon
        <4>2. QED BY <3>4, <4>1, FS_EmptySet
      <3>5. CASE read[i] # <<>>
        <4>1. PICK k \in 1..n : recognized[q[k]].at = i
          BY <2>3, <3>2, <3>5
        <4>2. D = {k}
          <5>1. ASSUME NEW j \in 1..n PROVE blocks[j].at = i <=> j = k
            <6>1. q[j] \in 1..n /\ q[k] \in 1..n
              BY <2>3
            <6>2. recognized[q[j]].at = i <=> q[j] = q[k]
              BY <3>3, <4>1, <6>1
            <6>3. QED BY <2>3, <2>4, <6>2
          <5>2. QED BY <2>4, <5>1, Zenon
        <4>3. QED BY <3>5, <4>2, FS_Singleton
      <3>6. QED BY <3>4, <3>5
    <2>7. ASSUME NEW b \in Range(blocks)
          PROVE  /\ ToBag(Deterministic(b)) = ToBag(read[b.at])
                 /\ b.fused.selected.kind = "vlm" <=>
                      \E e \in Range(events) : e.at = b.at /\ e.status = "accepted"
      <3>1. PICK j \in 1..n : b.at = recognized[j].at /\ b.fused = recognized[j].fused
        <4>1. PICK k \in 1..n : b = blocks[k]
          BY <2>4 DEF Range
        <4>2. q[k] \in 1..n
          BY <2>3
        <4>3. QED BY <2>4, <4>1, <4>2
      <3>2. Grounded(recognized[j], read, events)
        BY <2>1, <3>1 DEF IInv, Explained
      <3>3. Deterministic(b) = Deterministic(recognized[j])
        BY <3>1 DEF Deterministic, Evidence
      <3>4. (\E e \in Range(events) : e.at = b.at /\ e.status = "accepted") <=> Accepted(b.at, events)
        BY <2>5 DEF Range, Accepted
      <3>5. QED BY <3>1, <3>2, <3>3, <3>4 DEF Grounded
    <2>8. QED BY <2>6, <2>7, Zenon DEF EvidenceKept
  <1>2. QED BY <1>1, Invariant, PTL

\* The reading order does not depend on the detector's, unless two corners are the
\* same (order_recognized_regions).
THEOREM OrderStable == Spec => []ReadingOrderStable
  <1>1. IInv => ReadingOrderStable
    <2> DEFINE corner(i) == <<i.box.x, i.box.y>>
               D == DOMAIN recognized
    <2> SUFFICES ASSUME IInv, Cardinality({corner(i) : i \in Range(recognized)}) = Len(recognized),
                        NEW p \in Bijection(D, D)
                 PROVE  ReadingOrder([k \in D |-> recognized[p[k]]]) = ReadingOrder(recognized)
      BY Zenon DEF ReadingOrderStable
    <2>1. PICK n \in Nat : n = Len(recognized) /\ D = 1..n
      BY RecordsTyped DEF IInv
    <2>2. \A k \in 1..n : recognized[k].box \in Boxes
      BY <2>1, RecordsTyped DEF IInv
    <2> DEFINE c == [k \in 1..n |-> corner(recognized[k])]
    <2>3. Range(c) = {corner(i) : i \in Range(recognized)}
      BY <2>1 DEF Range
    <2>4. Cardinality(Range(c)) = n
      BY <2>1, <2>3
    <2>5. \A i, j \in 1..n : c[i] = c[j] => i = j
      <3>1. DOMAIN c = 1..n /\ c = [k \in 1..n |-> c[k]]
        OBVIOUS
      <3> HIDE DEF c
      <3>2. QED BY <2>4, <3>1, DistinctInjective
    <2>6. \A i, j \in 1..n : recognized[i].box.x = recognized[j].box.x
                               /\ recognized[i].box.y = recognized[j].box.y => i = j
      BY <2>5
    <2>7. p \in Bijection(1..n, 1..n) /\ DOMAIN recognized = 1..n
      BY <2>1
    <2>8. ReadingOrder([k \in 1..n |-> recognized[p[k]]]) = ReadingOrder(recognized)
      BY <2>2, <2>6, <2>7, PositionDecides
    <2>9. QED BY <2>1, <2>8
  <1>2. QED BY <1>1, Invariant, PTL

\* The total of the calls: the sum over the statuses, and each over the pages.
LEMMA CallsBounded ==
  ASSUME Typed, Tallied
  PROVE  SumFunction(Totals) - Totals["skipped"] <= FallbackLimit * Cardinality(OfKind("ocr"))
  <1>1. PICK n \in Nat : n = Len(pages) /\ DOMAIN pages = 1..n
    BY ElementsTyped
  <1>2. \A k \in 1..n : pages[k].kind \in {"native_pdf", "ocr"} /\ pages[k].count \in [Statuses -> Nat]
    BY <1>1, ElementsTyped
  <1>3. \A status \in Statuses : Column(status) \in [1..n -> Int]
    BY <1>1, <1>2 DEF Column
  <1>4. IsFiniteSet(1..n)
    BY FS_Interval
  <1> DEFINE Good(g, status) ==
               /\ g \in [SUBSET (1..n) -> Int] /\ Totals[status] = g[1..n] /\ g[{}] = 0
               /\ \A s \in SUBSET (1..n) : \A x \in s : g[s] = pages[x].count[status] + g[s \ {x}]
  <1>5. ASSUME NEW status \in Statuses PROVE \E g : Good(g, status)
    <2>1. PICK f \in [1..n -> Int] : f = Column(status)
      BY <1>3
    <2>s. PICK g : SumOver(g, f, 1..n)
      BY <1>4, SumSteps
    <2>2. /\ g \in [SUBSET (1..n) -> Int] /\ SumFunction(f) = g[1..n] /\ g[{}] = 0
          /\ \A s \in SUBSET (1..n) : \A x \in s : g[s] = f[x] + g[s \ {x}]
      BY <2>s DEF SumOver
    <2>3. \A x \in 1..n : f[x] = pages[x].count[status]
      BY <1>1, <2>1 DEF Column
    <2>4. Totals[status] = g[1..n]
      BY <2>1, <2>2 DEF Totals
    <2>5. ASSUME NEW s \in SUBSET (1..n), NEW x \in s
          PROVE  g[s] = pages[x].count[status] + g[s \ {x}]
      BY <2>2, <2>3
    <2>6. Good(g, status)
      BY <2>2, <2>4, <2>5
    <2> HIDE DEF Good
    <2>7. QED BY <2>6
  <1> HIDE DEF Good
  <1>6. PICK a, r, f : Good(a, "accepted") /\ Good(r, "rejected") /\ Good(f, "failed")
    <2>1. "accepted" \in Statuses /\ "rejected" \in Statuses /\ "failed" \in Statuses
      BY DEF Statuses
    <2>2. QED BY <1>5, <2>1
  <1> DEFINE Ocr(m) == {k \in 1..m : pages[k].kind = "ocr"}
             T == {m \in Nat : m <= n =>
                     a[1..m] + r[1..m] + f[1..m] <= FallbackLimit * Cardinality(Ocr(m))}
  <1>7. FallbackLimit \in Nat
    BY ConfigAssumption
  <1>8. \A m \in Nat : IsFiniteSet(Ocr(m)) /\ Cardinality(Ocr(m)) \in Nat
    <2>1. ASSUME NEW m \in Nat PROVE IsFiniteSet(1..m) /\ Ocr(m) \subseteq 1..m
      BY FS_Interval
    <2> HIDE DEF Ocr
    <2>2. QED BY <2>1, FS_Subset, FS_CardinalityType
  <1>9. 0 \in T
    <2>1. 1..0 = {} /\ Ocr(0) = {}
      OBVIOUS
    <2>2. a[{}] = 0 /\ r[{}] = 0 /\ f[{}] = 0 /\ Cardinality({}) = 0
      BY <1>6, FS_EmptySet DEF Good
    <2> HIDE DEF Ocr
    <2>3. QED BY <1>7, <2>1, <2>2
  <1>10. ASSUME NEW m \in Nat, m \in T PROVE m + 1 \in T
    <2>1. SUFFICES ASSUME m + 1 <= n
          PROVE  a[1..(m + 1)] + r[1..(m + 1)] + f[1..(m + 1)]
                   <= FallbackLimit * Cardinality(Ocr(m + 1))
      OBVIOUS
    <2>2. 1..(m + 1) \in SUBSET (1..n) /\ 1..m \in SUBSET (1..n) /\ m + 1 \in 1..(m + 1)
          /\ (1..(m + 1)) \ {m + 1} = 1..m /\ m + 1 \in 1..n
      BY <2>1
    <2>3. ASSUME NEW g, NEW status, Good(g, status)
          PROVE  g[1..(m + 1)] = pages[m + 1].count[status] + g[1..m] /\ g[1..m] \in Int
      <3>1. \A s \in SUBSET (1..n) : \A x \in s : g[s] = pages[x].count[status] + g[s \ {x}]
        BY <2>3 DEF Good
      <3>2. g[1..(m + 1)] = pages[m + 1].count[status] + g[(1..(m + 1)) \ {m + 1}]
        BY <2>2, <3>1
      <3>3. g[1..m] \in Int
        BY <2>2, <2>3 DEF Good
      <3>4. QED BY <2>2, <3>2, <3>3
    <2>4. PICK a0 \in Int, r0 \in Int, f0 \in Int : a0 = a[1..m] /\ r0 = r[1..m] /\ f0 = f[1..m]
      BY <1>6, <2>3
    <2>5. PICK da \in Nat, dr \in Nat, df \in Nat :
            /\ da = pages[m + 1].count["accepted"] /\ dr = pages[m + 1].count["rejected"]
            /\ df = pages[m + 1].count["failed"]
      BY <1>2, <2>2 DEF Statuses
    <2>6. /\ a0 + r0 + f0 <= FallbackLimit * Cardinality(Ocr(m))
          /\ a[1..(m + 1)] + r[1..(m + 1)] + f[1..(m + 1)] = (a0 + r0 + f0) + (da + dr + df)
      <3>1. a0 + r0 + f0 <= FallbackLimit * Cardinality(Ocr(m))
        BY <1>10, <2>1, <2>4
      <3>2. a[1..(m + 1)] = da + a0 /\ r[1..(m + 1)] = dr + r0 /\ f[1..(m + 1)] = df + f0
        BY <1>6, <2>3, <2>4, <2>5
      <3>3. QED BY <3>1, <3>2
    <2>7. da + dr + df <= IF pages[m + 1].kind = "ocr" THEN FallbackLimit ELSE 0
      <3>1. Called(pages[m + 1]) <= IF pages[m + 1].kind = "ocr" THEN FallbackLimit ELSE 0
        BY <1>1, <2>2 DEF Tallied
      <3>2. Called(pages[m + 1]) = da + dr + df
        BY <2>5 DEF Called
      <3>3. QED BY <3>1, <3>2
    <2> DEFINE c == Cardinality(Ocr(m))
    <2>8. c \in Nat /\ IsFiniteSet(Ocr(m))
      BY <1>8
    <2>9. CASE pages[m + 1].kind = "ocr"
      <3>1. Ocr(m + 1) = Ocr(m) \cup {m + 1} /\ m + 1 \notin Ocr(m)
        BY <2>9
      <3> HIDE DEF Ocr
      <3>2. Cardinality(Ocr(m + 1)) = c + 1
        BY <2>8, <3>1, FS_AddElement
      <3> HIDE DEF c
      <3>3. PICK w \in Int : w = FallbackLimit * c /\ FallbackLimit * (c + 1) = w + FallbackLimit
        BY <1>7, <2>8
      <3>4. da + dr + df <= FallbackLimit
        BY <2>7, <2>9
      <3>5. a0 + r0 + f0 <= w
        BY <2>6, <3>3 DEF c
      <3>6. (a0 + r0 + f0) + (da + dr + df) <= w + FallbackLimit
        BY <1>7, <3>4, <3>5
      <3>7. QED BY <2>6, <3>2, <3>3, <3>6
    <2>10. CASE pages[m + 1].kind # "ocr"
      <3>1. Ocr(m + 1) = Ocr(m)
        BY <2>10
      <3> HIDE DEF Ocr
      <3>2. da + dr + df <= 0
        BY <2>7, <2>10
      <3>3. PICK w \in Int : w = FallbackLimit * c
        BY <1>7, <2>8
      <3>4. a0 + r0 + f0 <= w
        BY <2>6, <3>3
      <3> HIDE DEF c
      <3>5. (a0 + r0 + f0) + (da + dr + df) <= w
        BY <3>2, <3>4
      <3>6. QED BY <2>6, <3>1, <3>3, <3>5 DEF c
    <2>11. QED BY <2>9, <2>10
  <1>11. a[1..n] + r[1..n] + f[1..n] <= FallbackLimit * Cardinality(Ocr(n))
    <2>1. n \in T
      <3> HIDE DEF T
      <3> QED BY <1>9, <1>10, SetInduction
    <2>2. QED BY <2>1
  <1>12. SumFunction(Totals) - Totals["skipped"] = a[1..n] + r[1..n] + f[1..n]
    <2>1. Totals \in [Statuses -> Int]
      <3>1. ASSUME NEW status \in Statuses PROVE SumFunction(Column(status)) \in Int
        <4>1. PICK g : Good(g, status)
          BY <1>5
        <4>2. Totals[status] = SumFunction(Column(status))
          BY DEF Totals
        <4>3. Totals[status] = g[1..n] /\ g \in [SUBSET (1..n) -> Int]
          BY <4>1 DEF Good
        <4>4. g[1..n] \in Int
          BY <4>3
        <4>5. QED BY <4>2, <4>3, <4>4
      <3>2. QED BY <3>1 DEF Totals
    <2>2. IsFiniteSet(Statuses)
      <3>1. IsFiniteSet({}) /\ \A s, x : IsFiniteSet(s) => IsFiniteSet(s \cup {x})
        BY FS_EmptySet, FS_AddElement
      <3>2. Statuses = ((({} \cup {"accepted"}) \cup {"rejected"}) \cup {"failed"}) \cup {"skipped"}
        BY DEF Statuses
      <3>3. QED BY <3>1, <3>2, Zenon
    <2>s. PICK g : SumOver(g, Totals, Statuses)
      BY <2>1, <2>2, SumSteps
    <2>3. /\ g \in [SUBSET Statuses -> Int] /\ SumFunction(Totals) = g[Statuses] /\ g[{}] = 0
          /\ \A s \in SUBSET Statuses : \A x \in s : g[s] = Totals[x] + g[s \ {x}]
      BY <2>s DEF SumOver
    <2> DEFINE s3 == Statuses \ {"skipped"}
               s2 == s3 \ {"accepted"}
               s1 == s2 \ {"rejected"}
    <2>4. Statuses \in SUBSET Statuses /\ s3 \in SUBSET Statuses /\ s2 \in SUBSET Statuses
          /\ s1 \in SUBSET Statuses /\ "skipped" \in Statuses /\ "accepted" \in s3
          /\ "rejected" \in s2 /\ "failed" \in s1 /\ s1 \ {"failed"} = {}
      BY DEF Statuses
    <2> HIDE DEF s3, s2, s1
    <2>5. /\ g[Statuses] = Totals["skipped"] + g[s3] /\ g[s3] = Totals["accepted"] + g[s2]
          /\ g[s2] = Totals["rejected"] + g[s1] /\ g[s1] = Totals["failed"] + g[{}]
      BY <2>3, <2>4 DEF s3, s2, s1
    <2>6. Totals["skipped"] \in Int /\ Totals["accepted"] \in Int /\ Totals["rejected"] \in Int
          /\ Totals["failed"] \in Int
      BY <2>1 DEF Statuses
    <2>7. Totals["accepted"] = a[1..n] /\ Totals["rejected"] = r[1..n] /\ Totals["failed"] = f[1..n]
      BY <1>6 DEF Good
    <2>8. QED BY <2>3, <2>5, <2>6, <2>7
  <1>13. QED BY <1>1, <1>11, <1>12 DEF OfKind

\* A finished document has all its pages, and its metadata agrees with them
\* (process_input, the metadata of the document).
THEOREM MetadataComplete == Spec => []DocumentComplete
  <1>1. IInv => DocumentComplete
    <2> SUFFICES ASSUME IInv, phase = "done" PROVE DocumentComplete
      BY DEF DocumentComplete
    <2>1. PICK n \in Nat : n = Len(pages) /\ DOMAIN pages = 1..n /\ n <= Len(source.pages)
          /\ ~(n < Len(source.pages)) /\ Len(source.pages) \in Nat
          /\ DOMAIN source.pages = 1..Len(source.pages)
      BY SourcePages DEF IInv, Typed, Reported, MorePages
    <2>2. n = Len(source.pages)
      BY <2>1
    <2>3. metadata.native = Cardinality(OfKind("native_pdf")) /\ metadata.ocr = Cardinality(OfKind("ocr"))
          /\ metadata.attempted = SumFunction(Totals) /\ metadata.vlm = Totals
      BY DEF IInv, Reported
    <2>4. metadata.native + metadata.ocr = n
      <3>1. \A k \in 1..n : pages[k].kind \in {"native_pdf", "ocr"}
        BY <2>1, ElementsTyped DEF IInv
      <3>2. OfKind("native_pdf") \cup OfKind("ocr") = 1..n /\ OfKind("native_pdf") \cap OfKind("ocr") = {}
        BY <2>1, <3>1 DEF OfKind
      <3>3. IsFiniteSet(1..n) /\ Cardinality(1..n) = n
        BY FS_Interval
      <3>4. IsFiniteSet(OfKind("native_pdf")) /\ IsFiniteSet(OfKind("ocr"))
        BY <3>2, <3>3, FS_Subset
      <3>5. n = Cardinality(OfKind("native_pdf")) + Cardinality(OfKind("ocr"))
        BY <3>2, <3>3, <3>4, DisjointUnion
      <3>6. QED BY <2>3, <3>5
    <2>5. metadata.native = Cardinality({k \in DOMAIN source.pages :
            source.kind = "pdf" /\ Assess(source.pages[k].native) = "plausible_text_layer"})
      <3>1. \A k \in 1..n : pages[k].kind = "native_pdf" <=> Trusted(source.pages[k])
        BY <2>1 DEF IInv, Tallied
      <3>2. OfKind("native_pdf") = {k \in DOMAIN source.pages : Trusted(source.pages[k])}
        BY <2>1, <2>2, <3>1 DEF OfKind
      <3>3. QED BY <2>3, <3>2 DEF Trusted
    <2>6. metadata.attempted - metadata.vlm["skipped"] <= FallbackLimit * metadata.ocr
      BY <2>3, CallsBounded DEF IInv
    <2>7. QED BY <2>1, <2>2, <2>4, <2>5, <2>6 DEF DocumentComplete
  <1>2. QED BY <1>1, Invariant, PTL
=============================================================================
