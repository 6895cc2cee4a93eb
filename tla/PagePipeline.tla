---------------------------- MODULE PagePipeline ----------------------------
(***************************************************************************)
(* HybridPipeline.process_input (pipeline.py): one document, page by page.  *)
(* A trusted native text becomes a page at once; any other page is          *)
(* rendered, its regions are detected once, recognized one after the other, *)
(* some of them put before the VLM fallback, and then ordered.  The first   *)
(* exception outside the fallback ends the whole document; an exception     *)
(* inside it does not.                                                     *)
(*                                                                         *)
(* PDFium, the detector, the recognizers and the VLM are outside: each may  *)
(* answer anything of the sets below, or raise.                            *)
(***************************************************************************)
EXTENDS Recognition

CONSTANTS Sources,          \* the inputs: kind "pdf" or "image", and pages
          Layouts,          \* what the detector may return: sequences of regions
          ArabicReadings,   \* what the recognizers may read: text, confidence
          LatinReadings,
          VlmOutputs,       \* what the VLM may answer: text, confidence
          Width, Height,    \* of a rendered page, in pixels
          MaxPages,         \* PipelineConfig.max_pages
          FallbackEnabled,  \* fallback_enabled, and an adapter is there
          FallbackLimit     \* fallback_max_regions_per_page

ASSUME ConfigAssumption ==
    /\ MaxPages \in Nat \ {0} /\ FallbackLimit \in Nat \ {0}
    /\ Width \in Nat \ {0} /\ Height \in Nat \ {0}
    /\ FallbackEnabled \in BOOLEAN
ASSUME SourcesAssumption == \A s \in Sources :
    s.kind \in {"pdf", "image"} /\ s.pages # <<>> /\ s.pages \in Seq(Range(s.pages))
ASSUME AnswersAssumption ==
    /\ Layouts \subseteq Seq([left : Int, right : Int, top : Int, bottom : Int])
    /\ ArabicReadings \cup LatinReadings \cup VlmOutputs \subseteq [text : Texts, confidence : 0..100]

VARIABLES source,     \* the DocumentInput
          phase,      \* "inspect", "page", "regions", "done" or "failed"
          detected,   \* regions of the page at hand
          read,       \* the candidates of each region recognized so far
          recognized, \* the regions that had candidates, fused
          attempts,   \* fallback_attempts
          events,     \* the events of the page at hand
          blocks,     \* the blocks of the last OCR page
          pages,      \* built_pages: what the metadata counts of each
          metadata    \* of the finished document

vars == <<source, phase, detected, read, recognized, attempts, events, blocks,
          pages, metadata>>

Statuses == {"accepted", "rejected", "failed", "skipped"}
NoCount == [status \in Statuses |-> 0]
NoMetadata == [native |-> 0, ocr |-> 0, attempted |-> 0, vlm |-> NoCount]

TypeOK ==
    /\ source \in Sources
    /\ phase \in {"inspect", "page", "regions", "done", "failed"}
    /\ Len(pages) <= Len(source.pages)
    /\ \A p \in Range(pages) : p.kind \in {"native_pdf", "ocr"} /\ p.count \in [Statuses -> Nat]
    /\ detected \in Layouts \cup {<<>>} /\ Len(read) <= Len(detected)
    /\ \A i \in Range(recognized) :
         /\ i.at \in DOMAIN detected /\ i.box = BBox(detected[i.at])
         /\ {i.fused.selected} \cup Range(i.fused.alternatives) \subseteq Candidates
         /\ i.fused.confidence \in Points
    /\ attempts \in 0..FallbackLimit
    /\ \A e \in Range(events) : e.at \in DOMAIN detected /\ e.status \in Statuses

Init ==
    /\ source \in Sources
    /\ phase = "inspect"
    /\ detected = <<>> /\ read = <<>> /\ recognized = <<>> /\ attempts = 0
    /\ events = <<>> /\ blocks = <<>> /\ pages = <<>> /\ metadata = NoMetadata

-----------------------------------------------------------------------------
Page == source.pages[Len(pages) + 1]
MorePages == Len(pages) < Len(source.pages)

\* NativePdfInspector.inspect reads every page or raises; it and process_input
\* both refuse a document with too many pages.  An image is not inspected.
Inspect ==
    /\ phase = "inspect"
    /\ phase' \in IF source.kind = "pdf"
                  THEN IF Len(source.pages) > MaxPages THEN {"failed"}
                       ELSE {"page", "failed"}
                  ELSE {"page"}
    /\ UNCHANGED <<source, detected, read, recognized, attempts, events, blocks,
                   pages, metadata>>

\* Mutant of Trusted: any text that is there is taken.
Trusted_AnyText(page) == source.kind = "pdf" /\ page.native.visible > 0
Trusted(page) ==
    source.kind = "pdf" /\ Assess(page.native) = "plausible_text_layer"

NativePage ==
    /\ phase = "page" /\ MorePages /\ Trusted(Page)
    /\ pages' = Append(pages, [kind |-> "native_pdf", count |-> NoCount])
    /\ UNCHANGED <<source, phase, detected, read, recognized, attempts, events,
                   blocks, metadata>>

\* The page is rendered, or the image decoded, and the detector runs once.  A
\* page over the pixel limit is refused, and each of the three may raise.
OpenPage ==
    /\ phase = "page" /\ MorePages /\ ~Trusted(Page)
    /\ \/ /\ ~Page.oversize
          /\ detected' \in Layouts
          /\ read' = <<>> /\ recognized' = <<>> /\ events' = <<>> /\ attempts' = 0
          /\ phase' = "regions" /\ blocks' = <<>>
       \/ /\ phase' = "failed"
          /\ UNCHANGED <<detected, read, recognized, events, attempts, blocks>>
    /\ UNCHANGED <<source, pages, metadata>>

\* PaddleOcrEngine.recognize: the Arabic recognizer, and the Latin one if the
\* first is not sure.
Reads(reading, script) == [text |-> reading.text, confidence |-> reading.confidence,
                           kind |-> "ocr", expected |-> script]
\* Candidates without text are dropped.
WithText(candidate) == IF candidate.text.flaw = "blank" THEN <<>> ELSE <<candidate>>
Routed ==
    {LET arabic == Reads(a, "arabic")
     IN  IF Uncertain(arabic) THEN WithText(arabic) \o WithText(Reads(l, "latin"))
         ELSE WithText(arabic) : a \in ArabicReadings, l \in LatinReadings}

At == Len(read) + 1

\* Mutants of CountAttempt: only an accepted output counts; it is counted when
\* the call starts and again when it ends.
CountAttempt_Accepted(status) == IF status = "accepted" THEN attempts + 1 ELSE attempts
CountAttempt_Twice(status) == attempts + 2
\* The attempt is counted before the VLM is called.
CountAttempt(status) == attempts + 1

Event(status, before, after) ==
    [at |-> At, status |-> status, before |-> before, after |-> after]

\* The region is kept with what the deterministic cascade made of it ...
Keep(fused) ==
    /\ recognized' = Append(recognized, [at |-> At, box |-> BBox(detected[At]), fused |-> fused])
    /\ UNCHANGED <<attempts, events>>

\* ... or the cap of the page is reached: an event says so, nothing is called ...
Skip(fused) ==
    /\ attempts >= FallbackLimit
    /\ events' = Append(events, Event("skipped", fused.confidence, -1))
    /\ recognized' = Append(recognized, [at |-> At, box |-> BBox(detected[At]), fused |-> fused])
    /\ UNCHANGED attempts

\* ... or _run_fallback: the VLM raises, or answers and is judged.
RunFallback(fused) ==
    /\ attempts < FallbackLimit
    /\ \E status \in {"accepted", "rejected", "failed"}, output \in VlmOutputs :
         LET after == IF status = "accepted" THEN Replaced(fused, output) ELSE fused
         IN  /\ status = "accepted" => Verdict(fused, output) = "validated"
             /\ status = "rejected" => Verdict(fused, output) # "validated"
             /\ attempts' = CountAttempt(status)
             /\ events' = Append(events, Event(status, fused.confidence, after.confidence))
             /\ recognized' = Append(recognized,
                                [at |-> At, box |-> BBox(detected[At]), fused |-> after])

\* One turn of the loop over the regions.  A recognizer that raises fails all.
ReadRegion ==
    /\ phase = "regions" /\ At <= Len(detected)
    /\ \/ \E candidates \in Routed :
            /\ read' = Append(read, candidates)
            /\ IF candidates = <<>>
               THEN UNCHANGED <<recognized, attempts, events>>
               ELSE LET fused == Fuse(candidates)
                    IN  IF FallbackEnabled /\ Trigger(fused) # "none"
                        THEN Skip(fused) \/ RunFallback(fused)
                        ELSE Keep(fused)
            /\ UNCHANGED phase
       \/ phase' = "failed" /\ UNCHANGED <<read, recognized, attempts, events>>
    /\ UNCHANGED <<source, detected, blocks, pages, metadata>>

\* The blocks of the page, in reading order, each in a box on the page.
BuildPage ==
    /\ phase = "regions" /\ At > Len(detected)
    /\ LET ordered == ReadingOrder(recognized)
       IN  blocks' = [k \in DOMAIN ordered |->
             [at |-> ordered[k].at, fused |-> ordered[k].fused,
              bbox |-> ClampBBox(ordered[k].box, Width, Height)]]
    /\ pages' = Append(pages, [kind |-> "ocr", count |->
         [status \in Statuses |-> Cardinality({k \in DOMAIN events : events[k].status = status})]])
    /\ phase' = "page"
    /\ UNCHANGED <<source, detected, read, recognized, attempts, events, metadata>>

\* The document: its pages and what its metadata says of them.
Finish ==
    LET Of(kind) == {k \in DOMAIN pages : pages[k].kind = kind}
        vlm == [status \in Statuses |-> SumFunction([k \in DOMAIN pages |-> pages[k].count[status]])]
    IN  /\ phase = "page" /\ ~MorePages
        /\ phase' = "done"
        /\ metadata' = [native |-> Cardinality(Of("native_pdf")), ocr |-> Cardinality(Of("ocr")),
                        attempted |-> SumFunction(vlm), vlm |-> vlm]
        /\ UNCHANGED <<source, detected, read, recognized, attempts, events, blocks, pages>>

Next == Inspect \/ NativePage \/ OpenPage \/ ReadRegion \/ BuildPage \/ Finish

Spec == Init /\ [][Next]_vars

-----------------------------------------------------------------------------
(* Properties                                                              *)

Built == phase = "page" /\ pages # <<>> /\ Last(pages).kind = "ocr"
Evidence(b) == <<b.fused.selected>> \o b.fused.alternatives
Deterministic(b) == IF b.fused.selected.kind = "vlm" THEN b.fused.alternatives ELSE Evidence(b)
Calls == {k \in DOMAIN events : events[k].status # "skipped"}

\* No evidence is lost: each region with a legible candidate is one block, in
\* which every candidate is still there, selected or as an alternative, and the
\* selected one is a VLM's only if an event says it was accepted (the chain
\* fuse_recognitions, _run_fallback, order_recognized_regions, blocks).
EvidenceKept == Built =>
    /\ \A i \in DOMAIN detected :
         Cardinality({k \in DOMAIN blocks : blocks[k].at = i}) = IF read[i] = <<>> THEN 0 ELSE 1
    /\ \A b \in Range(blocks) :
         /\ ToBag(Deterministic(b)) = ToBag(read[b.at])
         /\ b.fused.selected.kind = "vlm" <=>
              \E e \in Range(events) : e.at = b.at /\ e.status = "accepted"

\* The VLM is called at most FallbackLimit times on a page, also when calls fail
\* or are rejected, and a region is passed over only when the calls are used up.
FallbackCapped ==
    /\ Cardinality(Calls) <= FallbackLimit
    /\ \A k \in DOMAIN events : events[k].status = "skipped" =>
         Cardinality({c \in Calls : c < k}) = FallbackLimit

\* When the recognizers that saw a number in a region saw the same one, a VLM
\* text that replaces theirs holds it and no other (validate_fallback).
NumbersGuarded == Built => \A b \in Range(blocks) :
    LET values == UNION {ValueIn(c.text) : c \in Range(Deterministic(b))}
    IN  Cardinality(values) = 1 /\ b.fused.selected.kind = "vlm"
          => ValueIn(b.fused.selected.text) = values

\* The reading order does not depend on the order in which the detector lists
\* the regions, unless two of them have the same corner
\* (order_recognized_regions).
ReadingOrderStable == Built =>
    LET corner(i) == <<i.box.x, i.box.y>>
    IN  Cardinality({corner(i) : i \in Range(recognized)}) = Len(recognized)
          => \A p \in Bijection(DOMAIN recognized, DOMAIN recognized) :
               ReadingOrder([k \in DOMAIN recognized |-> recognized[p[k]]])
                 = ReadingOrder(recognized)

\* Each block's box lies on the page, is not empty, and covers all of its region
\* that is on the page (_clamp_bbox after DetectedRegion.bbox).
BoxesOnPage == Built => \A b \in Range(blocks) :
    LET r == detected[b.at]
    IN  /\ b.bbox.width >= 1 /\ b.bbox.height >= 1
        /\ b.bbox.x >= 0 /\ b.bbox.x + b.bbox.width <= Width
        /\ b.bbox.y >= 0 /\ b.bbox.y + b.bbox.height <= Height
        /\ \A x \in Max({0, r.left})..(Min({Width, r.right}) - 1) :
             x \in b.bbox.x..(b.bbox.x + b.bbox.width - 1)
        /\ \A y \in Max({0, r.top})..(Min({Height, r.bottom}) - 1) :
             y \in b.bbox.y..(b.bbox.y + b.bbox.height - 1)

\* A finished document has all its pages, and its metadata agrees with them: the
\* pages of each kind, and no more VLM calls than its OCR pages allow.
DocumentComplete == phase = "done" =>
    /\ Len(pages) = Len(source.pages)
    /\ metadata.native + metadata.ocr = Len(pages)
    /\ metadata.native = Cardinality({k \in DOMAIN source.pages :
         source.kind = "pdf" /\ Assess(source.pages[k].native) = "plausible_text_layer"})
    /\ metadata.attempted - metadata.vlm["skipped"] <= FallbackLimit * metadata.ocr
=============================================================================
