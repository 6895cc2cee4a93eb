-------------------------- MODULE BundleRunner_proofs --------------------------
(***************************************************************************)
(* Proofs about BundleRunner, for any bundles, files, limits and numbers of *)
(* writes.                                                                 *)
(***************************************************************************)
EXTENDS BundleRunner, SequenceLemmas

Pages == PagesOf(manifest)

\* What a manifest lists, in no order.
Listed(m) == UNION {{[doc |-> m.documents[k].id, page |-> p] :
                       p \in Range(m.documents[k].pages)} : k \in DOMAIN m.documents}

Outcomes == [doc : {q.doc : q \in Listed(manifest)}, id : {q.page.id : q \in Listed(manifest)},
             status : {"success", "missing", "crashed"},
             bytes : Contents \cup {Absent}, raised : BOOLEAN]

Extractions == [doc : {d.id : d \in Range(manifest.documents)}, pages : (SUBSET Nat) \ {{}}]

\* The page at hand has no record, or no file.
Missing == ~Searched \/ File = Absent

Sampling == {"measure", "read", "verify"}

Typed ==
    /\ bundle \in Bundles
    /\ files \in [DOMAIN bundle.files -> Contents \cup {Absent}]
    /\ writes \in 0..MaxWrites /\ phase \in Phases
    /\ data \in Contents \cup {Absent}
    /\ data # Absent <=> phase = "verify"
    /\ samples \in Seq(Outcomes)
    /\ Len(samples) <= Len(Pages)
    /\ phase \in Sampling => /\ Len(samples) < Len(Pages)
                             /\ Record # {} /\ \A a \in Record : a.path \in DOMAIN files
    /\ extractions \in Seq(Extractions)

\* The pages of a manifest are a sequence of what it lists.
LEMMA PagesListed ==
  ASSUME NEW b \in Bundles
  PROVE  PagesOf(b.manifest) \in Seq(Listed(b.manifest))
  <1> DEFINE m == b.manifest
             S == Listed(m)
             PagesOfDocument(k) == [i \in DOMAIN m.documents[k].pages |->
                        [doc |-> m.documents[k].id, page |-> m.documents[k].pages[i]]]
             ss == [k \in DOMAIN m.documents |-> PagesOfDocument(k)]
  <1>1. PagesOf(m) = FlattenSeq(ss)
    BY DEF PagesOf, Map
  <1>2. DOMAIN m.documents = 1..Len(m.documents) /\ Len(m.documents) \in Nat
    BY BundlesAssumption
  <1>3. ASSUME NEW k \in DOMAIN m.documents PROVE PagesOfDocument(k) \in Seq(S)
    <2> DEFINE pages == m.documents[k].pages
    <2>1. pages \in Seq(Range(pages))
      BY <1>3, BundlesAssumption
    <2>2. Len(pages) \in Nat /\ DOMAIN pages = 1..Len(pages)
      BY <2>1
    <2>3. \A i \in 1..Len(pages) : [doc |-> m.documents[k].id, page |-> pages[i]] \in S
      <3> TAKE i \in 1..Len(pages)
      <3> DEFINE OfDocument == {[doc |-> m.documents[k].id, page |-> p] : p \in Range(pages)}
      <3>1. pages[i] \in Range(pages)
        BY <2>2 DEF Range
      <3>2. [doc |-> m.documents[k].id, page |-> pages[i]] \in OfDocument
        BY <3>1
      <3>3. OfDocument \subseteq S
        BY <1>3, Zenon DEF Listed
      <3>4. QED BY <3>2, <3>3
    <2>4. QED BY <2>2, <2>3
  <1>4. ss \in Seq(Seq(S))
    BY <1>2, <1>3
  <1>5. QED
    <2> HIDE DEF ss, S, m
    <2> QED BY <1>1, <1>4, FlattenTyped DEF S, m

LEMMA PagesTyped ==
  ASSUME Typed
  PROVE  /\ Len(Pages) \in Nat /\ DOMAIN Pages = 1..Len(Pages)
         /\ \A k \in 1..Len(Pages) : Pages[k] \in Listed(manifest)
         /\ \A q \in Listed(manifest) : q.doc \in {d.id : d \in Range(manifest.documents)}
         /\ Len(samples) \in Nat /\ DOMAIN samples = 1..Len(samples)
         /\ \A k \in 1..Len(samples) : samples[k] \in Outcomes
         /\ Len(extractions) \in Nat /\ DOMAIN extractions = 1..Len(extractions)
         /\ \A n \in 1..Len(extractions) : extractions[n] \in Extractions
  <1>1. Pages \in Seq(Listed(manifest))
    BY PagesListed DEF Typed, manifest, Pages
  <1>2. \A q \in Listed(manifest) : q.doc \in {d.id : d \in Range(manifest.documents)}
    BY DEF Listed, Range
  <1>3. QED BY <1>1, <1>2 DEF Typed

-----------------------------------------------------------------------------
(* What a step does to the samples                                         *)

\* The page at hand gets its sample; a success or a failure has its reason.
Grew(status, raised) ==
    /\ phase \in Sampling \cup {"find"} /\ Len(samples) < Len(Pages)
    /\ Sample(status, raised)
    /\ status = "success" => Genuine /\ Matches
    /\ status = "success" \/ raised \/ Missing
         \/ (phase = "measure" /\ TooBig(File))
         \/ (phase = "verify" /\ ~(Genuine /\ Matches))
    /\ UNCHANGED <<bundle, files, writes, extractions>>

LEMMA SampleSteps ==
  ASSUME Typed, [Next]_vars
  PROVE  /\ bundle' = bundle
         /\ \/ samples' = samples
            \/ \E status \in {"success", "missing", "crashed"}, raised \in BOOLEAN :
                 Grew(status, raised)
  <1>1. CASE Find
    <2>1. Continue("measure") \/ Continue("aborted") \/ Grew("missing", FALSE)
      BY <1>1, Zenon DEF Find, Grew, Sampling, Pages, Missing, Refused
    <2>2. QED BY <1>1, <2>1 DEF Find, Continue
  <1>2. CASE Measure
    <2>1. Len(samples) < Len(Pages) /\ phase = "measure"
      BY <1>2 DEF Measure, Typed, Sampling
    <2>2. Continue("read") \/ Grew("missing", TRUE) \/ Grew("crashed", FALSE)
      BY <1>2, <2>1 DEF Measure, Grew, Sampling, Unreadable
    <2>3. QED BY <1>2, <2>2 DEF Measure, Continue
  <1>3. CASE Read
    <2>1. Len(samples) < Len(Pages) /\ phase = "read"
      BY <1>3 DEF Read, Typed, Sampling
    <2>2. UNCHANGED samples \/ Grew("missing", TRUE)
      BY <1>3, <2>1 DEF Read, Grew, Sampling, Unreadable
    <2>3. QED BY <1>3, <2>2 DEF Read
  <1>4. CASE Verify
    <2>1. Len(samples) < Len(Pages) /\ phase = "verify"
      BY <1>4 DEF Verify, Typed, Sampling
    <2>2. Grew("success", FALSE) \/ Grew("crashed", FALSE) \/ Grew("crashed", TRUE)
      BY <1>4, <2>1, Zenon DEF Verify, Grew, Sampling
    <2>3. QED BY <1>4, <2>2 DEF Verify
  <1>5. CASE Validate \/ EndSamples \/ Extract \/ Report \/ Rewrite \/ UNCHANGED vars
    BY <1>5 DEF Validate, EndSamples, Continue, Extract, Report, Rewrite, vars
  <1>6. QED BY <1>1, <1>2, <1>3, <1>4, <1>5 DEF Next

\* The new sample is that of the next page; the others stay.
LEMMA Growth ==
  ASSUME Typed, NEW status \in {"success", "missing", "crashed"},
         NEW raised \in BOOLEAN, Grew(status, raised)
  PROVE  /\ At = Pages[Len(samples) + 1] /\ At \in Listed(manifest)
         /\ samples' \in Seq(Outcomes) /\ Len(samples') = Len(samples) + 1
         /\ DOMAIN samples' = 1..(Len(samples) + 1) /\ Len(samples) + 1 \in 1..Len(Pages)
         /\ \A k \in 1..Len(samples) : samples'[k] = samples[k]
         /\ samples'[Len(samples) + 1] =
              [doc |-> At.doc, id |-> At.page.id, status |-> status,
               bytes |-> data, raised |-> raised]
  <1> DEFINE n == Len(samples) + 1
             s == [doc |-> At.doc, id |-> At.page.id, status |-> status,
                   bytes |-> data, raised |-> raised]
  <1>1. At = Pages[n] /\ n \in 1..Len(Pages) /\ At \in Listed(manifest)
    BY PagesTyped DEF Grew, At, Pages
  <1>2. s \in Outcomes
    BY <1>1 DEF Outcomes, Typed
  <1>3. samples' = Append(samples, s)
    BY DEF Grew, Sample
  <1> HIDE DEF s
  <1>4. samples \in Seq(Outcomes)
    BY DEF Typed
  <1>5. /\ samples' \in Seq(Outcomes) /\ Len(samples') = n /\ DOMAIN samples' = 1..n
        /\ \A k \in 1..Len(samples) : samples'[k] = samples[k]
        /\ samples'[n] = s
    BY <1>2, <1>3, <1>4
  <1>6. QED BY <1>1, <1>5 DEF s

-----------------------------------------------------------------------------
(* Types                                                                   *)

LEMMA TypedInit == Init => Typed
  <1>1. SUFFICES ASSUME Init PROVE Typed
    OBVIOUS
  <1>2. PagesOf(bundle.manifest) \in Seq(Listed(bundle.manifest))
    BY <1>1, PagesListed DEF Init
  <1>3. bundle.files \in [DOMAIN bundle.files -> Contents \cup {Absent}]
    BY <1>1, BundlesAssumption DEF Init
  <1>4. Len(Pages) \in Nat
    BY <1>2 DEF Pages, manifest
  <1>5. QED
    BY <1>1, <1>3, <1>4, BytesAssumption DEF Init, Typed, Phases, Sampling

LEMMA TypedStep == Typed /\ [Next]_vars => Typed'
  <1>1. SUFFICES ASSUME Typed, [Next]_vars PROVE Typed'
    OBVIOUS
  <1>2. /\ bundle' = bundle /\ bundle \in Bundles /\ Pages' = Pages
        /\ manifest' = manifest /\ Outcomes' = Outcomes
        /\ Extractions' = Extractions
    BY <1>1, SampleSteps DEF Typed, Pages, manifest, Outcomes, Extractions
  <1>3. samples' \in Seq(Outcomes') /\ Len(samples') <= Len(Pages')
    <2>1. CASE samples' = samples
      BY <1>1, <1>2, <2>1 DEF Typed
    <2>2. ASSUME NEW status \in {"success", "missing", "crashed"},
                 NEW raised \in BOOLEAN, Grew(status, raised)
          PROVE  samples' \in Seq(Outcomes') /\ Len(samples') <= Len(Pages')
      <3>1. /\ samples' \in Seq(Outcomes) /\ Len(samples') = Len(samples) + 1
            /\ Len(samples) + 1 \in 1..Len(Pages)
        BY <1>1, <2>2, Growth
      <3>2. QED
        BY <1>2, <3>1, <1>1, PagesTyped
    <2>3. QED BY <1>1, <2>1, <2>2, SampleSteps
  <1>4. /\ data' \in Contents \cup {Absent} /\ phase' \in Phases
        /\ data' # Absent <=> phase' = "verify"
    <2>1. CASE Validate
      BY <1>1, <2>1 DEF Validate, Typed, Phases
    <2>2. CASE Find
      BY <1>1, <2>2 DEF Find, Refused, Sample, Continue, Typed, Phases
    <2>3. CASE Measure
      BY <1>1, <2>3 DEF Measure, Unreadable, Sample, Continue, Typed, Phases
    <2>4. CASE Read
      <3>1. phase = "read" => File \in Contents \cup {Absent}
        BY <1>1, Zenon DEF Typed, Sampling, File
      <3>2. QED
        BY <1>1, <2>4, <3>1 DEF Read, Unreadable, Sample, Typed, Phases
    <2>5. CASE Verify
      BY <1>1, <2>5 DEF Verify, Sample, Typed, Phases
    <2>6. CASE EndSamples \/ Extract \/ Report \/ Rewrite \/ UNCHANGED vars
      BY <1>1, <2>6 DEF EndSamples, Finished, Continue, Extract, Report, Rewrite, Typed, Phases, vars
    <2>7. QED BY <1>1, <2>1, <2>2, <2>3, <2>4, <2>5, <2>6 DEF Next
  <1>5. phase' \in Sampling => /\ Len(samples') < Len(Pages')
                                /\ Record' # {} /\ \A a \in Record' : a.path \in DOMAIN files'
    <2>1. SUFFICES ASSUME phase' \in Sampling
                   PROVE  /\ Len(samples') < Len(Pages')
                          /\ Record' # {} /\ \A a \in Record' : a.path \in DOMAIN files'
      OBVIOUS
    <2>2. UNCHANGED samples /\ Record' = Record /\ DOMAIN files' = DOMAIN files
      <3>1. UNCHANGED samples
        BY <1>1, <2>1, SampleSteps DEF Grew, Sample, Sampling
      <3>2. DOMAIN files' = DOMAIN files
        BY <1>1 DEF Next, vars, Validate, Find, Measure, Read, Verify, EndSamples, Extract,
           Report, Rewrite, Typed
      <3>3. QED BY <1>2, <3>1, <3>2 DEF Record, At
    <2>3. \/ phase \in Sampling
          \/ /\ Len(samples) < Len(Pages)
             /\ Record # {} /\ \A a \in Record : a.path \in DOMAIN files
      BY <1>1, <2>1 DEF Next, vars, Sampling, Validate, Find, Measure, Read, Verify,
         EndSamples, Extract, Report, Rewrite, Unreadable, Refused, Searched, Sample,
         Continue, Pages
    <2>4. QED BY <1>1, <1>2, <2>2, <2>3 DEF Typed
  <1>6. writes' \in 0..MaxWrites /\ files' \in [DOMAIN bundle.files -> Contents \cup {Absent}]
    <2>1. CASE Rewrite
      BY <1>1, <2>1, BytesAssumption DEF Rewrite, Typed
    <2>2. CASE UNCHANGED <<writes, files>>
      BY <1>1, <2>2 DEF Typed
    <2>3. QED BY <1>1, <2>1, <2>2 DEF Next, vars, Validate, Find, Measure, Read, Verify,
              EndSamples, Extract, Report
  <1>7. extractions' \in Seq(Extractions')
    <2>1. CASE UNCHANGED extractions
      BY <1>1, <1>2, <2>1 DEF Typed
    <2>2. CASE Extract /\ extractions' # extractions
      <3>1. PICK k \in Due : extractions' = Append(extractions,
                  [doc |-> manifest.documents[k].id, pages |-> PagesFor(manifest.documents[k].id)])
        BY <2>2 DEF Extract
      <3>2. manifest.documents[k].id \in {d.id : d \in Range(manifest.documents)}
        BY DEF Due, Range
      <3>3. PagesFor(manifest.documents[k].id) \in (SUBSET Nat) \ {{}}
        <4>1. DOMAIN samples \subseteq Nat
          BY <1>1, PagesTyped
        <4>2. QED BY <4>1 DEF Due, PagesFor
      <3> DEFINE e == [doc |-> manifest.documents[k].id,
                       pages |-> PagesFor(manifest.documents[k].id)]
      <3>4. e \in Extractions
        BY <3>2, <3>3 DEF Extractions
      <3>5. extractions \in Seq(Extractions)
        BY <1>1 DEF Typed
      <3>6. QED
        <4> HIDE DEF e
        <4>1. extractions' = Append(extractions, e)
          BY <3>1 DEF e
        <4>2. QED BY <4>1, <3>4, <3>5, <1>2
    <2>3. QED BY <1>1, <2>1, <2>2 DEF Next, vars, Validate, Find, Measure, Read, Verify,
              EndSamples, Continue, Report, Rewrite
  <1>8. QED BY <1>2, <1>3, <1>4, <1>5, <1>6, <1>7 DEF Typed

LEMMA InvTyped == Spec => []Typed
  BY TypedInit, TypedStep, PTL DEF Spec

\* Every value has its type, for any bundles and limits.
THEOREM TypeCorrect == Spec => []TypeOK
  <1>1. ASSUME Typed PROVE TypeOK
    <2>1. \A k \in DOMAIN samples : samples[k].status \in {"success", "missing", "crashed"}
      BY <1>1, PagesTyped DEF Outcomes
    <2>2. \A n \in DOMAIN extractions : extractions[n].pages # {}
      BY <1>1, PagesTyped DEF Extractions
    <2>3. QED BY <1>1, <2>1, <2>2 DEF Typed, TypeOK
  <1>2. QED BY <1>1, InvTyped, PTL

-----------------------------------------------------------------------------
(* Every page is sampled, in order                                         *)

\* The samples are those of the first pages, of a valid bundle, and of all pages
\* once sampling has ended, unless it ended while a path was looked up.
InOrder ==
    /\ \A k \in DOMAIN samples :
         samples[k].doc = Pages[k].doc /\ samples[k].id = Pages[k].page.id
    /\ samples # <<>> \/ phase \notin {"validate", "aborted"} =>
         ValidManifest(manifest) /\ ValidAssets(bundle.assets, manifest)
    /\ phase = "validate" => samples = <<>>
    /\ phase \in {"extract", "done"} => Len(samples) = Len(Pages)
    /\ phase = "aborted" => Len(samples) \in {0, Len(Pages)} \/ Searched

LEMMA InOrderStep == Typed /\ InOrder /\ [Next]_vars => InOrder'
  <1>1. SUFFICES ASSUME Typed, InOrder, [Next]_vars PROVE InOrder'
    OBVIOUS
  <1>2. /\ bundle' = bundle /\ Pages' = Pages /\ manifest' = manifest
    BY <1>1, SampleSteps DEF Pages, manifest
  <1>3. \A k \in DOMAIN samples' :
          samples'[k].doc = Pages'[k].doc /\ samples'[k].id = Pages'[k].page.id
    <2>1. CASE samples' = samples
      BY <1>1, <1>2, <2>1 DEF InOrder
    <2>2. ASSUME NEW status \in {"success", "missing", "crashed"},
                 NEW raised \in BOOLEAN, Grew(status, raised), NEW k \in DOMAIN samples'
          PROVE  samples'[k].doc = Pages[k].doc /\ samples'[k].id = Pages[k].page.id
      <3> DEFINE n == Len(samples) + 1
      <3>1. /\ At = Pages[n] /\ k \in 1..n
            /\ \A i \in 1..(n - 1) : samples'[i] = samples[i]
            /\ samples'[n].doc = At.doc /\ samples'[n].id = At.page.id
        <4>1. /\ At = Pages[n] /\ k \in 1..n /\ Len(samples) = n - 1 /\ n - 1 \in Nat
              /\ \A i \in 1..Len(samples) : samples'[i] = samples[i]
              /\ samples'[n] = [doc |-> At.doc, id |-> At.page.id, status |-> status,
                                 bytes |-> data, raised |-> raised]
          BY <1>1, <2>2, Growth, PagesTyped
        <4>2. QED BY <4>1
      <3>2. CASE k = n
        BY <3>1, <3>2
      <3>3. CASE k \in 1..(n - 1)
        <4>1. k \in DOMAIN samples
          BY <1>1, <3>3, PagesTyped
        <4>2. samples[k].doc = Pages[k].doc /\ samples[k].id = Pages[k].page.id
          BY <1>1, <4>1 DEF InOrder
        <4>3. QED BY <3>1, <3>3, <4>2
      <3>4. QED BY <1>1, <3>1, <3>2, <3>3, PagesTyped
    <2>3. QED BY <1>1, <1>2, <2>1, <2>2, SampleSteps
  <1>4. samples' # <<>> \/ phase' \notin {"validate", "aborted"} =>
          ValidManifest(manifest) /\ ValidAssets(bundle.assets, manifest)
    <2>1. CASE Validate
      BY <1>1, <2>1 DEF Validate, InOrder
    <2>2. CASE phase \notin {"validate", "aborted"}
      BY <1>1, <2>2 DEF InOrder
    <2>3. CASE samples' = samples /\ phase' = phase
      BY <1>1, <2>3 DEF InOrder
    <2>4. QED
      BY <1>1, <2>1, <2>2, <2>3 DEF Next, vars, Find, Measure, Read, Verify, EndSamples,
         Finished, Extract, Report, Rewrite
  <1>5. phase' = "validate" => samples' = <<>>
    BY <1>1 DEF InOrder, Next, vars, Validate, Find, Measure, Read, Verify, EndSamples,
       Finished, Extract, Report, Rewrite, Unreadable, Refused, Sample, Continue
  <1>6. phase' \in {"extract", "done"} => Len(samples') = Len(Pages)
    BY <1>1 DEF InOrder, Next, vars, Validate, Find, Measure, Read, Verify, EndSamples,
       Finished, Extract, Report, Rewrite, Unreadable, Refused, Sample, Continue, Pages
  <1>7. phase' = "aborted" => Len(samples') \in {0, Len(Pages)} \/ Searched'
    <2>1. CASE Find
      <3>1. phase' = "aborted" => Searched /\ UNCHANGED <<samples, files>>
        BY <2>1 DEF Find, Refused, Sample, Continue
      <3>2. UNCHANGED <<samples, files>> => Searched' = Searched
        BY <1>2 DEF Searched, Record, At
      <3>3. QED BY <3>1, <3>2
    <2>2. CASE UNCHANGED vars
      BY <1>1, <1>2, <2>2 DEF InOrder, Searched, Record, At, vars
    <2>3. QED
      BY <1>1, <2>1, <2>2 DEF InOrder, Next, Validate, Measure, Read, Verify, EndSamples,
         Extract, Report, Rewrite, Unreadable, Sample, Continue
  <1>8. QED BY <1>2, <1>3, <1>4, <1>5, <1>6, <1>7 DEF InOrder

LEMMA InvInOrder == Spec => [](Typed /\ InOrder)
  <1>1. Init => InOrder
    BY DEF Init, InOrder
  <1>2. QED BY <1>1, InOrderStep, InvTyped, PTL DEF Spec

\* A valid manifest has no page id twice.
LEMMA PageIdsApart ==
  ASSUME Typed, ValidManifest(manifest)
  PROVE  \A i, j \in 1..Len(Pages) : Pages[i].page.id = Pages[j].page.id => i = j
  <1> DEFINE ids == [k \in DOMAIN Pages |-> Pages[k].page.id]
  <1>1. Distinct(ids)
    BY DEF ValidManifest, PageIdsDistinct, Map, Pages
  <1>2. Len(Pages) \in Nat /\ DOMAIN Pages = 1..Len(Pages)
    BY PagesTyped
  <1>3. Len(ids) = Len(Pages)
    BY <1>2
  <1>4. \A i, j \in 1..Len(Pages) : ids[i] = ids[j] => i = j
    <2>1. DOMAIN ids = 1..Len(Pages) /\ ids = [k \in 1..Len(Pages) |-> ids[k]]
      BY <1>2
    <2>2. Cardinality(Range(ids)) = Len(Pages)
      BY <1>1, <1>3 DEF Distinct
    <2> HIDE DEF ids
    <2>3. QED BY <2>1, <2>2, <1>2, DistinctInjective
  <1>5. QED BY <1>2, <1>4

\* The pages are sampled in order, none twice; a run that gets as far as the pack
\* has sampled all of them, and one that ends between two pages does so over a
\* path inside the root.
THEOREM PagesSampled == Spec => []EveryPageSampled
  <1>1. ASSUME Typed, InOrder PROVE EveryPageSampled
    <2> DEFINE n == Len(samples)
               ids == [k \in DOMAIN samples |-> samples[k].id]
               all == [k \in DOMAIN Pages |-> Pages[k].page.id]
    <2>1. /\ n \in Nat /\ DOMAIN samples = 1..n /\ n <= Len(Pages)
          /\ Len(Pages) \in Nat /\ DOMAIN Pages = 1..Len(Pages)
      BY <1>1, PagesTyped DEF Typed
    <2>2. \A k \in 1..n : ids[k] = all[k] /\ k \in 1..Len(Pages)
      <3>1. \A k \in 1..n : samples[k].id = Pages[k].page.id
        BY <1>1, <2>1 DEF InOrder
      <3>2. QED BY <2>1, <3>1
    <2>3. ids = SubSeq(all, 1, n)
      <3> DEFINE S == Range(all)
      <3>1. all \in Seq(S) /\ Len(all) = Len(Pages)
        BY <2>1 DEF Range
      <3>2. ids \in Seq(S) /\ Len(ids) = n
        <4>1. \A k \in 1..n : ids[k] \in S
          BY <2>1, <2>2 DEF Range
        <4>2. ids = [k \in 1..n |-> ids[k]]
          BY <2>1
        <4> HIDE DEF ids, S
        <4>3. QED BY <2>1, <4>1, <4>2
      <3> HIDE DEF ids, all, S
      <3>3. /\ SubSeq(all, 1, n) \in Seq(S) /\ Len(SubSeq(all, 1, n)) = n
            /\ \A k \in 1..n : SubSeq(all, 1, n)[k] = all[k]
        BY <2>1, <3>1
      <3>4. QED BY <2>2, <3>2, <3>3
    <2>4. Distinct(ids)
      <3>1. CASE n = 0
        BY <2>1, <3>1, FS_EmptySet DEF Distinct, Range
      <3>2. CASE n # 0
        <4>1. ValidManifest(manifest)
          <5>1. samples # <<>>
            BY <2>1, <3>2
          <5>2. QED BY <1>1, <5>1 DEF InOrder
        <4>2. \A i, j \in 1..n : ids[i] = ids[j] => i = j
          <5>1. TAKE i, j \in 1..n
          <5>2. ids[i] = Pages[i].page.id /\ ids[j] = Pages[j].page.id
            BY <2>1, <2>2
          <5>3. QED BY <1>1, <2>2, <4>1, <5>2, PageIdsApart
        <4>3. DOMAIN ids = 1..n /\ ids = [k \in 1..n |-> ids[k]] /\ Len(ids) = n
          BY <2>1
        <4> HIDE DEF ids
        <4>4. Cardinality(Range(ids)) = n
          BY <2>1, <4>2, <4>3, InjectiveDistinct
        <4>5. QED BY <4>3, <4>4 DEF Distinct
      <3>3. QED BY <3>1, <3>2
    <2>5. /\ phase \in {"extract", "done"} => Len(samples) = Len(Pages)
          /\ phase = "aborted" => Len(samples) \in {0, Len(Pages)} \/ Searched
      BY <1>1 DEF InOrder
    <2>6. QED BY <2>3, <2>4, <2>5 DEF EveryPageSampled, Map, Pages
  <1>2. QED BY <1>1, InvInOrder, PTL

-----------------------------------------------------------------------------
(* What a success has read                                                 *)

\* What counts as a success was read once and is what the manifest says of the
\* page, whoever writes the files meanwhile.
THEOREM SuccessesAreGenuine == Spec => []VerifiedBytes
  <1>1. Init => VerifiedBytes
    BY DEF Init, VerifiedBytes
  <1>2. Typed /\ VerifiedBytes /\ [Next]_vars => VerifiedBytes'
    <2>1. SUFFICES ASSUME Typed, VerifiedBytes, [Next]_vars PROVE VerifiedBytes'
      OBVIOUS
    <2>2. bundle' = bundle /\ Pages' = Pages
      BY <2>1, SampleSteps DEF Pages, manifest
    <2>3. CASE samples' = samples
      BY <2>1, <2>2, <2>3 DEF VerifiedBytes, Pages
    <2>4. ASSUME NEW status \in {"success", "missing", "crashed"},
                 NEW raised \in BOOLEAN, Grew(status, raised)
          PROVE  VerifiedBytes'
      <3> DEFINE n == Len(samples) + 1
      <3>1. /\ At = Pages[n] /\ DOMAIN samples' = 1..n
            /\ \A k \in 1..(n - 1) : samples'[k] = samples[k]
            /\ samples'[n].status = status /\ samples'[n].bytes = data
        <4>1. /\ At = Pages[n] /\ DOMAIN samples' = 1..n
              /\ Len(samples) = n - 1 /\ n - 1 \in Nat
              /\ \A i \in 1..Len(samples) : samples'[i] = samples[i]
              /\ samples'[n] = [doc |-> At.doc, id |-> At.page.id, status |-> status,
                                 bytes |-> data, raised |-> raised]
          BY <2>1, <2>4, Growth, PagesTyped
        <4>2. QED BY <4>1
      <3>2. status = "success" => Genuine /\ Matches
        BY <2>4 DEF Grew
      <3>3. ASSUME NEW k \in DOMAIN samples', samples'[k].status = "success"
            PROVE  /\ samples'[k].bytes.id = Pages[k].page.sum
                   /\ samples'[k].bytes.width = Pages[k].page.width
                   /\ samples'[k].bytes.size <= MaxBytes
        <4>1. CASE k = n
          BY <3>1, <3>2, <3>3, <4>1 DEF Genuine, Matches, Digest
        <4>2. CASE k \in 1..(n - 1)
          BY <2>1, <3>1, <3>3, <4>2, PagesTyped DEF VerifiedBytes, Pages
        <4>3. QED BY <2>1, <3>1, <4>1, <4>2, PagesTyped
      <3>4. QED BY <2>2, <3>3 DEF VerifiedBytes, Pages
    <2>5. QED BY <2>1, <2>3, <2>4, SampleSteps
  <1>3. QED BY <1>1, <1>2, InvTyped, PTL DEF Spec

-----------------------------------------------------------------------------
(* Intact pages                                                            *)

\* While nobody has written, what was read is what is there.
Unwritten == writes = 0 /\ phase = "verify" => data = File

LEMMA UnwrittenStep == Typed /\ Unwritten /\ [Next]_vars => Unwritten'
  <1>1. SUFFICES ASSUME Typed, Unwritten, [Next]_vars, writes' = 0, phase' = "verify"
                 PROVE  data' = File'
    BY DEF Unwritten
  <1>2. CASE Read
    <2>1. data' = File /\ UNCHANGED <<bundle, files, samples>>
      BY <1>1, <1>2 DEF Read, Unreadable, Sample
    <2>2. File' = File
      BY <2>1 DEF File, Record, At, manifest
    <2>3. QED BY <2>1, <2>2
  <1>3. CASE UNCHANGED vars
    BY <1>1, <1>3 DEF vars, Unwritten, File, Record, At, manifest
  <1>4. ~Rewrite
    BY <1>1 DEF Rewrite, Typed
  <1>5. QED
    BY <1>1, <1>2, <1>3, <1>4 DEF Next, Validate, Find, Measure, Verify, EndSamples,
       Extract, Report, Unreadable, Refused, Sample, Continue

\* A valid index has one record for a page at most.
LEMMA RecordsApart ==
  ASSUME Typed, ValidAssets(bundle.assets, manifest),
         NEW a \in Range(bundle.assets.records), NEW b \in Range(bundle.assets.records),
         a.doc = b.doc, a.id = b.id
  PROVE  a = b
  <1> DEFINE records == bundle.assets.records
             keys == [k \in DOMAIN records |-> <<records[k].doc, records[k].id>>]
  <1>1. Len(records) \in Nat /\ DOMAIN records = 1..Len(records)
    BY BundlesAssumption DEF Typed
  <1>2. Distinct(keys)
    BY DEF ValidAssets, Map
  <1>3. /\ DOMAIN keys = 1..Len(records) /\ Len(keys) = Len(records)
        /\ keys = [k \in 1..Len(records) |-> keys[k]]
    BY <1>1
  <1>4. \A i, j \in 1..Len(records) : keys[i] = keys[j] => i = j
    <2>1. Cardinality(Range(keys)) = Len(records)
      BY <1>2, <1>3 DEF Distinct
    <2> HIDE DEF keys, records
    <2>2. QED BY <1>1, <1>3, <2>1, DistinctInjective
  <1>5. PICK i \in 1..Len(records) : a = records[i]
    BY <1>1 DEF Range
  <1>6. PICK j \in 1..Len(records) : b = records[j]
    BY <1>1 DEF Range
  <1>7. keys[i] = <<a.doc, a.id>> /\ keys[j] = <<b.doc, b.id>>
    BY <1>1, <1>5, <1>6
  <1>8. QED BY <1>4, <1>5, <1>6, <1>7

\* What a record's file would have to be for its page to succeed.
Intact(a, page) ==
    /\ a.path \in DOMAIN files /\ files[a.path] # Absent
    /\ LET c == files[a.path]
       IN  c.id = page.sum /\ c.media = a.media /\ c.width = page.width /\ c.size <= MaxBytes

\* A page that nobody touched and that agrees with the manifest fails only if
\* reading or processing it raises: each of the checks would have to fail on the
\* file that the page's one record names.
THEOREM IntactSucceed == Spec => []IntactPagesSucceed
  <1>1. Init => IntactPagesSucceed /\ Unwritten
    BY DEF Init, IntactPagesSucceed, Unwritten
  <1>2. Typed /\ InOrder /\ Unwritten /\ IntactPagesSucceed /\ [Next]_vars => IntactPagesSucceed'
    <2>1. SUFFICES ASSUME Typed, InOrder, Unwritten, IntactPagesSucceed, [Next]_vars, writes' = 0
                   PROVE  IntactPagesSucceed'
      BY DEF IntactPagesSucceed
    <2>2. writes = 0 /\ files' = files /\ bundle' = bundle /\ Pages' = Pages
      <3>1. bundle' = bundle /\ Pages' = Pages
        BY <2>1, SampleSteps DEF Pages, manifest
      <3>2. ~Rewrite
        BY <2>1 DEF Rewrite, Typed
      <3>3. UNCHANGED <<writes, files>>
        BY <2>1, <3>2 DEF Next, vars, Validate, Find, Measure, Read, Verify, EndSamples,
           Extract, Report
      <3>4. QED BY <2>1, <3>1, <3>3
    <2>3. CASE samples' = samples
      BY <2>1, <2>2, <2>3 DEF IntactPagesSucceed, Pages
    <2>4. ASSUME NEW status \in {"success", "missing", "crashed"},
                 NEW raised \in BOOLEAN, Grew(status, raised)
          PROVE  IntactPagesSucceed'
      <3> DEFINE n == Len(samples) + 1
      <3>1. /\ At = Pages[n] /\ DOMAIN samples' = 1..n
            /\ \A k \in 1..(n - 1) : samples'[k] = samples[k]
            /\ samples'[n].doc = At.doc
            /\ samples'[n].status = status /\ samples'[n].raised = raised
        <4>1. /\ At = Pages[n] /\ DOMAIN samples' = 1..n
              /\ Len(samples) = n - 1 /\ n - 1 \in Nat
              /\ \A i \in 1..Len(samples) : samples'[i] = samples[i]
              /\ samples'[n] = [doc |-> At.doc, id |-> At.page.id, status |-> status,
                                 bytes |-> data, raised |-> raised]
          BY <2>1, <2>4, Growth, PagesTyped
        <4>2. QED BY <4>1
      <3>2. ASSUME NEW a \in Range(bundle.assets.records), a.doc = At.doc, a.id = At.page.id,
                   Intact(a, At.page)
            PROVE  status = "success" \/ raised
        <4>1. ValidAssets(bundle.assets, manifest)
          BY <2>1, <2>4 DEF InOrder, Grew, Sampling
        <4>2. Record = {a}
          BY <2>1, <3>2, <4>1, RecordsApart DEF Record
        <4>3. File = files[a.path] /\ a.path \in DOMAIN files /\ File # Absent
          BY <3>2, <4>2 DEF File, Intact
        <4>4. ~Missing
          BY <4>2, <4>3 DEF Missing, Searched
        <4>5. phase = "measure" => ~TooBig(File)
          <5>1. File.size <= MaxBytes
            BY <3>2, <4>3 DEF Intact
          <5>2. File \in Contents
            BY <2>1, <4>3 DEF Typed
          <5>3. QED BY <5>1, <5>2, ContentsAssumption, BytesAssumption DEF TooBig
        <4>6. phase = "verify" => Genuine /\ Matches
          BY <2>1, <2>2, <3>2, <4>2, <4>3 DEF Unwritten, Genuine, Matches, Digest, Intact
        <4>7. QED BY <2>4, <4>4, <4>5, <4>6 DEF Grew
      <3>3. ASSUME NEW k \in DOMAIN samples', NEW a \in Range(bundle.assets.records),
                   a.doc = samples'[k].doc, a.id = Pages[k].page.id, Intact(a, Pages[k].page)
            PROVE  samples'[k].status = "success" \/ samples'[k].raised
        <4>1. CASE k = n
          BY <3>1, <3>2, <3>3, <4>1
        <4>2. CASE k \in 1..(n - 1)
          BY <2>1, <2>2, <3>1, <3>3, <4>2, PagesTyped DEF IntactPagesSucceed, Pages, Intact
        <4>3. QED BY <2>1, <3>1, <4>1, <4>2, <3>3, PagesTyped
      <3>4. QED BY <2>2, <3>3 DEF IntactPagesSucceed, Pages, Intact
    <2>5. QED BY <2>1, <2>3, <2>4, SampleSteps
  <1>3. QED BY <1>1, <1>2, UnwrittenStep, InvInOrder, PTL DEF Spec

-----------------------------------------------------------------------------
(* Extractions                                                             *)

\* Extractions are made of the final samples, one for a document, each of all
\* successes of its document, and the report waits for the last one.
OnePerDocument ==
    /\ extractions # <<>> => phase \in {"extract", "done", "aborted"}
    /\ \A n \in DOMAIN extractions : extractions[n].pages = PagesFor(extractions[n].doc)
    /\ \A m, n \in DOMAIN extractions : extractions[m].doc = extractions[n].doc => m = n
    /\ phase = "done" /\ HasPack => Due = {}

LEMMA OnePerDocumentStep == Typed /\ OnePerDocument /\ [Next]_vars => OnePerDocument'
  <1>1. SUFFICES ASSUME Typed, OnePerDocument, [Next]_vars PROVE OnePerDocument'
    OBVIOUS
  <1>2. CASE Extract
    <2>1. PICK k \in Due :
            LET d == manifest.documents[k].id
            IN  \/ /\ extractions' = Append(extractions, [doc |-> d, pages |-> PagesFor(d)])
                   /\ UNCHANGED phase
                \/ phase' = "aborted" /\ UNCHANGED extractions
      BY <1>2 DEF Extract
    <2>2. phase = "extract" /\ UNCHANGED <<bundle, samples>>
      BY <1>2 DEF Extract
    <2>3. \A d : PagesFor(d)' = PagesFor(d)
      BY <2>2 DEF PagesFor
    <2>4. CASE UNCHANGED extractions
      BY <1>1, <2>1, <2>2, <2>3, <2>4 DEF OnePerDocument
    <2>5. CASE ~UNCHANGED extractions
      <3> DEFINE d == manifest.documents[k].id
                 e == [doc |-> d, pages |-> PagesFor(d)]
                 n == Len(extractions)
      <3>1. extractions' = Append(extractions, e) /\ phase' = "extract"
        BY <2>1, <2>2, <2>5
      <3>2. e.doc = d /\ e.pages = PagesFor(d) /\ d \notin Extracted
        BY DEF Due
      <3>3. extractions \in Seq(Extractions) /\ n \in Nat /\ DOMAIN extractions = 1..n
        BY <1>1, PagesTyped DEF Typed
      <3> HIDE DEF e
      <3>4. /\ DOMAIN extractions' = 1..(n + 1) /\ extractions'[n + 1] = e
            /\ \A i \in 1..n : extractions'[i] = extractions[i]
        BY <3>1, <3>3
      <3>5. \A i \in DOMAIN extractions' : extractions'[i].pages = PagesFor(extractions'[i].doc)
        BY <1>1, <3>2, <3>3, <3>4 DEF OnePerDocument
      <3>6. \A i, j \in DOMAIN extractions' : extractions'[i].doc = extractions'[j].doc => i = j
        <4>1. \A i \in 1..n : extractions[i].doc # d
          BY <3>2, <3>3 DEF Extracted
        <4>2. QED BY <1>1, <3>2, <3>3, <3>4, <4>1 DEF OnePerDocument
      <3>7. QED BY <2>3, <3>1, <3>5, <3>6 DEF OnePerDocument
    <2>6. QED BY <2>4, <2>5
  <1>3. CASE Report
    <2>1. UNCHANGED <<bundle, samples, extractions>> /\ (HasPack => Due = {})
          /\ phase' \in {"done", "aborted"}
      BY <1>3 DEF Report
    <2>2. /\ \A d : PagesFor(d)' = PagesFor(d)
          /\ Due' = Due
      BY <2>1 DEF PagesFor, Due, Extracted, manifest
    <2>3. QED BY <1>1, <2>1, <2>2 DEF OnePerDocument
  <1>4. CASE UNCHANGED <<bundle, samples, extractions, phase>>
    BY <1>1, <1>4 DEF OnePerDocument, PagesFor, Due, Extracted, manifest
  <1>5. CASE Validate \/ Find \/ Measure \/ Read \/ Verify \/ EndSamples
    <2>1. extractions = <<>> /\ UNCHANGED extractions /\ phase' # "done"
      BY <1>1, <1>5 DEF OnePerDocument, Validate, Find, Measure, Read, Verify, EndSamples,
         Finished, Unreadable, Refused, Sample, Continue
    <2>2. DOMAIN extractions' = {}
      BY <2>1
    <2>3. QED BY <2>1, <2>2 DEF OnePerDocument
  <1>6. QED BY <1>1, <1>2, <1>3, <1>4, <1>5 DEF Next, Rewrite, vars

\* Each page that succeeded is handed to the pack once, with its document's other
\* successes, and no page that failed is.
THEOREM SuccessesExtracted == Spec => []ExtractedFromSuccesses
  <1>1. Init => OnePerDocument
    BY DEF Init, OnePerDocument
  <1>2. ASSUME Typed, InOrder, OnePerDocument PROVE ExtractedFromSuccesses
    <2> DEFINE good == {k \in DOMAIN samples : samples[k].status = "success"}
               Of(k) == {n \in DOMAIN extractions : k \in extractions[n].pages}
    <2>1. SUFFICES ASSUME phase = "done", HasPack
                   PROVE  /\ \A n \in DOMAIN extractions :
                               extractions[n].pages = {k \in good : samples[k].doc = extractions[n].doc}
                          /\ \A k \in good : Cardinality(Of(k)) = 1
      BY DEF ExtractedFromSuccesses
    <2>2. \A n \in DOMAIN extractions :
            extractions[n].pages = {k \in good : samples[k].doc = extractions[n].doc}
      BY <1>2 DEF OnePerDocument, PagesFor, Extractable
    <2>3. ASSUME NEW k \in good PROVE Cardinality(Of(k)) = 1
      <3>1. samples[k].doc \in {d.id : d \in Range(manifest.documents)}
        BY <1>2, PagesTyped DEF Outcomes
      <3>2. PICK i \in DOMAIN manifest.documents : manifest.documents[i].id = samples[k].doc
        BY <3>1 DEF Range
      <3>3. k \in PagesFor(samples[k].doc)
        BY DEF PagesFor, Extractable
      <3>4. samples[k].doc \in Extracted
        BY <1>2, <2>1, <3>2, <3>3 DEF OnePerDocument, Due
      <3>5. PICK n \in DOMAIN extractions : extractions[n].doc = samples[k].doc
        BY <3>4 DEF Extracted
      <3>6. Of(k) = {n}
        <4>1. n \in Of(k)
          BY <2>2, <3>5
        <4>2. ASSUME NEW m \in Of(k) PROVE m = n
          <5>1. extractions[m].doc = samples[k].doc
            BY <2>2, <4>2
          <5>2. QED BY <1>2, <3>5, <4>2, <5>1 DEF OnePerDocument
        <4>3. QED BY <4>1, <4>2
      <3>7. QED BY <3>6, FS_Singleton
    <2>4. QED BY <2>2, <2>3
  <1>3. QED BY <1>1, <1>2, OnePerDocumentStep, InvInOrder, PTL DEF Spec
=============================================================================
