---------------------------- MODULE Recognition -----------------------------
(***************************************************************************)
(* What the page pipeline decides about one region and one page, as         *)
(* functions: script routing and scores, the fusion of two recognizers, the *)
(* guard of the VLM fallback, reading order, boxes, and the quality gate    *)
(* of native text (ocr.py, fallback.py, text.py, pipeline.py).              *)
(*                                                                         *)
(* A text is a record of what these functions look at: the scripts of its  *)
(* letters, the one number it may hold as it is written, the script of its  *)
(* digits, and a flaw.  Probabilities are percentages, scores are in ten-   *)
(* thousandths, coordinates are whole pixels.                              *)
(***************************************************************************)
EXTENDS Integers, FiniteSets, Sequences, SequencesExt

CONSTANTS AmbiguityMargin,      \* PipelineConfig.ambiguity_margin: 800
          ConfidenceThreshold,  \* fallback_confidence_threshold: 5800
          MinimumGain,          \* fallback_minimum_gain: 800
          RouteThreshold        \* PaddleOcrEngine.route_threshold: 82

\* Scores.
Points == 0..10000

ASSUME ThresholdsAssumption ==
    /\ AmbiguityMargin \in Points /\ ConfidenceThreshold \in Points
    /\ MinimumGain \in Points /\ RouteThreshold \in 1..100

\* A number as written: 1190 is [whole |-> 1190, cents |-> NoCents].
NoCents == -1
NoNumber == [whole |-> -1, cents |-> NoCents]
Numbers == {NoNumber} \cup [whole : Nat, cents : {NoCents} \cup 0..99]
Texts == [letters : SUBSET {"arabic", "latin"}, number : Numbers,
          digits : {"european", "arabic"}, flaw : {"none", "blank", "long", "control"}]

\* _numbers: the value, whichever way it is written (in hundredths).
ValueIn(t) == IF t.number = NoNumber THEN {}
              ELSE {100 * t.number.whole + Max({0, t.number.cents})}
\* _digits: the digits in a row, without the decimal mark.
DigitsIn(t) == CASE t.number = NoNumber -> {}
                 [] t.number.cents = NoCents -> {t.number.whole}
                 [] OTHER -> {100 * t.number.whole + t.number.cents}

\* classify_text.  Arabic-Indic digits have ARABIC in their Unicode name, so
\* they count as Arabic script, but not as right-to-left characters.
Script(t) ==
    LET arabic == "arabic" \in t.letters
                    \/ (t.number # NoNumber /\ t.digits = "arabic")
        latin  == "latin" \in t.letters
    IN  CASE arabic /\ latin -> "mixed"
          [] arabic -> "arabic"
          [] latin -> "latin"
          [] OTHER -> IF t.flaw = "blank" THEN "unknown" ELSE "common"
RightToLeft(t) == t.letters = {"arabic"}

-----------------------------------------------------------------------------
(* Candidates and their fusion                                             *)

\* A Recognition; expected is the script its recognizer is made for.
Candidates == [text : Texts, confidence : 0..100, kind : {"ocr", "vlm"},
               expected : {"arabic", "latin", "mixed", "common", "unknown"}]

Consistency(c) ==
    LET script == Script(c.text)
    IN  CASE script = "common" -> 80
          [] script = c.expected -> 100
          [] script = "mixed" -> 70
          [] OTHER -> 15
Score(c) == Min({10000, 85 * c.confidence + 15 * Consistency(c)})

\* PaddleOcrEngine.recognize: does the Latin recognizer have to run as well?
Uncertain(c) == \/ c.confidence < RouteThreshold
                \/ Script(c.text) \notin {"arabic", "mixed"}
                \/ c.text.flaw = "blank"

\* A stable sort of a sequence by an order on its elements: the one arrangement in
\* which i comes before j if it does in that order, or in the sequence if neither does.
StableSort(s, Before(_, _)) ==
    LET First(i, j) == Before(s[i], s[j]) \/ (~Before(s[j], s[i]) /\ i < j)
        order == CHOOSE p \in [DOMAIN s -> DOMAIN s] :
                   \A i, j \in DOMAIN s : i < j => First(p[i], p[j])
    IN  [k \in DOMAIN s |-> s[order[k]]]

\* fuse_recognitions
Fuse(candidates) ==
    LET ranked == StableSort(candidates, LAMBDA a, b : Score(a) > Score(b))
        close == Len(ranked) > 1 /\ Score(ranked[1]) - Score(ranked[2]) < AmbiguityMargin
        digits == UNION {DigitsIn(c.text) : c \in Range(ranked)}
        warnings == {w \in {"ambiguous", "digits"} :
                       IF w = "ambiguous" THEN close ELSE Cardinality(digits) > 1}
        best == Score(ranked[1])
    IN  [selected |-> ranked[1], alternatives |-> Tail(ranked), warnings |-> warnings,
         confidence |-> IF warnings = {} THEN best ELSE Max({0, best - 1200})]

\* _fallback_trigger
Trigger(fused) == CASE fused.confidence < ConfidenceThreshold -> "low_confidence"
                    [] "digits" \in fused.warnings -> "digit_disagreement"
                    [] "ambiguous" \in fused.warnings -> "ambiguous_recognition"
                    [] OTHER -> "none"

-----------------------------------------------------------------------------
(* The guard of the fallback                                               *)

\* The candidate made of a VLM output: it expects the script it has.
Vlm(output) == [text |-> output.text, confidence |-> output.confidence,
                kind |-> "vlm", expected |-> Script(output.text)]

\* Mutant of AgreedValues: only the selected candidate is asked.
AgreedValues_Selected(fused) == ValueIn(fused.selected.text)
AgreedValues(fused) ==
    UNION {ValueIn(c.text) : c \in {fused.selected} \cup Range(fused.alternatives)}

\* validate_fallback: the reason of its decision.
Verdict(fused, output) ==
    LET agreed == AgreedValues(fused)
    IN  CASE output.text.flaw = "blank" -> "empty_output"
          [] output.text.flaw = "long" -> "output_too_long"
          [] output.text.flaw = "control" -> "control_characters"
          [] Cardinality(agreed) = 1 /\ ValueIn(output.text) # agreed -> "digit_conflict"
          [] Score(Vlm(output)) < fused.confidence + MinimumGain -> "insufficient_gain"
          [] OTHER -> "validated"

\* Mutant of Replaced: the recognition that is replaced is forgotten.
Replaced_Forgotten(fused, output) ==
    [selected |-> Vlm(output), alternatives |-> fused.alternatives,
     warnings |-> fused.warnings, confidence |-> Score(Vlm(output))]
\* _run_fallback after an accepted output.
Replaced(fused, output) ==
    [selected |-> Vlm(output), alternatives |-> <<fused.selected>> \o fused.alternatives,
     warnings |-> fused.warnings \cup {"vlm_used"}, confidence |-> Score(Vlm(output))]

-----------------------------------------------------------------------------
(* Geometry                                                                *)

\* DetectedRegion.bbox; a region is given by the extent of its polygon.
BBox(r) == [x |-> Max({0, r.left}), y |-> Max({0, r.top}),
            width |-> Max({1, r.right - r.left}), height |-> Max({1, r.bottom - r.top})]

\* Mutant of ClampBBox: the far corner is not clamped.
ClampBBox_NearCorner(b, width, height) ==
    LET x == Min({b.x, Max({0, width - 1})})
        y == Min({b.y, Max({0, height - 1})})
    IN  [x |-> x, y |-> y, width |-> b.width, height |-> b.height]
\* _clamp_bbox
ClampBBox(b, width, height) ==
    LET x == Min({b.x, Max({0, width - 1})})
        y == Min({b.y, Max({0, height - 1})})
        right  == Min({width, Max({x + 1, b.x + b.width})})
        bottom == Min({height, Max({y + 1, b.y + b.height})})
    IN  [x |-> x, y |-> y, width |-> Max({1, right - x}), height |-> Max({1, bottom - y})]

\* Mutant of ByPosition: the detector's order is taken.
ByPosition_Detected(items) == items
ByPosition(items) == StableSort(items, LAMBDA a, b :
    a.box.y < b.box.y \/ (a.box.y = b.box.y /\ a.box.x < b.box.x))

\* Does item k belong to a horizontal band?  Its top is within 0.6 of the tallest
\* box, or 4 pixels, of the band's mean top.
SameBand(items, band, k) ==
    LET n == Cardinality(band)
        tops == SumFunction([j \in band |-> items[j].box.y])
        tallest == Max({items[j].box.height : j \in band})
        off == items[k].box.y * n - tops
    IN  5 * Max({off, -off}) <= n * Max({20, 3 * tallest})

\* Where each item's band begins: where that of the item before it does, or here.
Bands(items) == CHOOSE start \in [DOMAIN items -> DOMAIN items] : \A k \in DOMAIN items :
    start[k] = IF k > 1 /\ SameBand(items, start[k - 1]..(k - 1), k) THEN start[k - 1] ELSE k

\* Inside a band from left to right, unless at least half of it is Arabic.
InDirection(items, band, i, j) ==
    LET rtl == {k \in band : RightToLeft(items[k].fused.selected.text)}
        X(k) == items[k].box.x
    IN  IF 2 * Cardinality(rtl) >= Cardinality(band) THEN X(i) > X(j) ELSE X(i) < X(j)

\* The bands one below the other, each in its direction.
BandByBand(sorted) ==
    LET start == Bands(sorted)
        Band(n) == {k \in DOMAIN sorted : start[k] = n}
        order == StableSort([k \in DOMAIN sorted |-> k], LAMBDA i, j :
                   \/ start[i] < start[j]
                   \/ start[i] = start[j] /\ InDirection(sorted, Band(start[i]), i, j))
    IN  [k \in DOMAIN sorted |-> sorted[order[k]]]

\* order_recognized_regions
ReadingOrder(items) == BandByBand(ByPosition(items))

-----------------------------------------------------------------------------
\* assess_native_text: the reason for which a native text layer is refused, or
\* "plausible_text_layer".  A layer is given by its character and line counts
\* and the share of the page its images cover, in percent.
Assess(t) ==
    CASE t.visible = 0 -> "empty_text_layer"
      [] 100 * t.replacement > t.length -> "replacement_chars"
      [] 200 * t.controls > t.length -> "control_chars"
      [] 200 * t.privateUse > t.length -> "private_use_glyphs"
      [] t.visible < 32 /\ t.coverage > 15 -> "sparse_overlay_on_image"
      [] t.visible >= 20 /\ 100 * t.alphanumeric < 15 * t.visible -> "implausible_glyphs"
      [] t.visible >= 20 /\ 2 * t.dominant > t.visible -> "repeated_glyphs"
      [] t.lines >= 4 /\ 100 * t.distinctLines < 35 * t.lines -> "phantom_repeated_lines"
      [] OTHER -> "plausible_text_layer"
=============================================================================
