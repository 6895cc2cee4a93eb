----------------------------- MODULE BundleRunner -----------------------------
(***************************************************************************)
(* PublicBundleRunner.run (benchmark.py): a manifest and an asset index are *)
(* validated against each other, then each page of the manifest is sampled  *)
(* in turn: its file is found, measured, read, verified and processed.  A   *)
(* page that fails leaves a failed sample; what fails outside a sample, or  *)
(* raises while a path is looked up, ends the run without a report.        *)
(*                                                                         *)
(* The files belong to others, who may write or remove one between any two  *)
(* steps.  A file's content is a record of what the runner tells apart; its *)
(* digest is its id.  The pipeline and the document pack may raise.         *)
(***************************************************************************)
EXTENDS Integers, FiniteSets, Sequences, SequencesExt

CONSTANTS Bundles,    \* [manifest, assets, files]: what a run may start with
          Contents,   \* contents of files: id, media, size, width
          Absent,     \* no file
          MaxBytes,   \* PipelineConfig.max_bytes
          MaxWrites,  \* bound: writes and removals of files in one behaviour
          HasPack     \* a document pack is configured

ASSUME BytesAssumption == MaxBytes \in Nat \ {0} /\ MaxWrites \in Nat
ASSUME ContentsAssumption ==
    /\ Absent \notin Contents /\ \A c \in Contents : c.size \in Nat
    /\ HasPack \in BOOLEAN
\* The artifacts are JSON, so what they list are sequences.
ASSUME BundlesAssumption == \A b \in Bundles :
    /\ b.files \in [DOMAIN b.files -> Contents \cup {Absent}]
    /\ b.assets.records \in Seq(Range(b.assets.records))
    /\ b.manifest.documents \in Seq(Range(b.manifest.documents))
    /\ \A k \in DOMAIN b.manifest.documents :
         LET pages == b.manifest.documents[k].pages IN pages \in Seq(Range(pages))

VARIABLES bundle,       \* the two JSON artifacts, as loaded
          files,        \* the files under the asset root
          writes,       \* how often others have written them
          phase,        \* "validate", "find", "measure", "read", "verify",
                        \* "extract", "done" or "aborted"
          data,         \* the bytes of the page at hand, once they are read
          samples,      \* the outcome of each page so far
          extractions   \* the samples each document was extracted from, by place

vars == <<bundle, files, writes, phase, data, samples, extractions>>

manifest == bundle.manifest
Init ==
    /\ bundle \in Bundles
    /\ files = bundle.files /\ writes = 0
    /\ phase = "validate" /\ data = Absent
    /\ samples = <<>> /\ extractions = <<>>

-----------------------------------------------------------------------------
(* Validation.  wellFormed stands for the checks that look at one value      *)
(* alone: keys, types, patterns, enumerations, positive numbers.           *)

Distinct(s) == Cardinality(Range(s)) = Len(s)
Map(s, Op(_)) == [k \in DOMAIN s |-> Op(s[k])]

\* The pages of a manifest in order, each with the document it is listed under.
PagesOf(m) == FlattenSeq(Map(m.documents, LAMBDA d :
                Map(d.pages, LAMBDA p : [doc |-> d.id, page |-> p])))

\* Mutant of PageIdsDistinct: the set of page ids starts anew in each document.
PageIdsDistinct_PerDocument(m) ==
    \A d \in Range(m.documents) : Distinct(Map(d.pages, LAMBDA p : p.id))
PageIdsDistinct(m) == Distinct(Map(PagesOf(m), LAMBDA q : q.page.id))

ValidManifest(m) ==
    /\ m.wellFormed
    /\ Distinct(Map(m.documents, LAMBDA d : d.id))
    /\ PageIdsDistinct(m)
    /\ \A d \in Range(m.documents) :
         d.pages # <<>> /\ Distinct(Map(d.pages, LAMBDA p : p.index))

\* _validate_assets: one record for a page of the manifest at most, none for
\* another page, and each says of its page what the manifest says.
ValidAssets(assets, m) ==
    /\ assets.wellFormed /\ assets.revision = m.revision
    /\ Distinct(Map(assets.records, LAMBDA a : <<a.doc, a.id>>))
    /\ \A a \in Range(assets.records) : \E q \in Range(PagesOf(m)) :
         /\ q.doc = a.doc /\ q.page.id = a.id
         /\ a.sum = q.page.sum /\ a.width = q.page.width

\* The artifacts and the asset root are readable and valid, or BundleError.
Validate ==
    /\ phase = "validate"
    /\ phase' = IF ValidManifest(manifest) /\ ValidAssets(bundle.assets, manifest)
                THEN "find" ELSE "aborted"
    /\ UNCHANGED <<bundle, files, writes, data, samples, extractions>>

-----------------------------------------------------------------------------
(* _sample                                                                 *)

At == PagesOf(manifest)[Len(samples) + 1]
Record == {a \in Range(bundle.assets.records) : a.doc = At.doc /\ a.id = At.page.id}
File == files[(CHOOSE a \in Record : TRUE).path]

Sample(status, raised) ==
    /\ samples' = Append(samples, [doc |-> At.doc, id |-> At.page.id, status |-> status,
                                   bytes |-> data, raised |-> raised])
    /\ phase' = "find" /\ data' = Absent
Continue(to) == phase' = to /\ UNCHANGED <<data, samples>>

\* The page has a record, with a path that stays inside the root.
Searched == Record # {} /\ \A a \in Record : a.path \in DOMAIN files

\* Mutant of Refused: the BundleError of _asset_path is not caught.
Refused_Raises == Continue("aborted")
Refused == Sample("missing", FALSE)

\* No record, a path that leaves the root, or one that is no file.  Looking the
\* path up may raise what _asset_path does not turn into a BundleError (is_file
\* on a name too long or a directory closed to us, resolve on a loop of links):
\* _sample does not catch it, and the run ends.
Find ==
    /\ phase = "find" /\ Len(samples) < Len(PagesOf(manifest))
    /\ IF ~Searched THEN Refused
       ELSE \/ Continue("aborted")
            \/ IF File = Absent THEN Refused ELSE Continue("measure")
    /\ UNCHANGED <<bundle, files, writes, extractions>>

\* An OSError while the file is measured or read is caught.
Unreadable == Sample("missing", TRUE)

\* Mutant of TooBig: the limit itself is refused.
TooBig_AtLimit(content) == content.size >= MaxBytes
TooBig(content) == content.size > MaxBytes

Measure ==
    /\ phase = "measure"
    /\ IF File = Absent THEN Unreadable
       ELSE IF TooBig(File) THEN Sample("crashed", FALSE) ELSE Continue("read")
    /\ UNCHANGED <<bundle, files, writes, extractions>>

\* The whole file, however long it is by now; reading it may fail.
Read ==
    /\ phase = "read"
    /\ \/ Unreadable
       \/ File # Absent /\ data' = File /\ phase' = "verify" /\ UNCHANGED samples
    /\ UNCHANGED <<bundle, files, writes, extractions>>

\* Mutant of Digest: the file is hashed, not the bytes that were read.
Digest_OfFile(bytes) == IF File = Absent THEN "none" ELSE File.id
Digest(bytes) == bytes.id

\* What is verified before the page is processed, and what is after it.
\* SecureIngestor.from_bytes applies the byte limit to what was read.
Genuine == LET a == CHOOSE a \in Record : TRUE
           IN  Digest(data) = At.page.sum /\ data.media = a.media
Matches == data.size <= MaxBytes /\ data.width = At.page.width

Verify ==
    /\ phase = "verify"
    /\ IF ~Genuine THEN Sample("crashed", FALSE)
       ELSE \/ Sample(IF Matches THEN "success" ELSE "crashed", FALSE)
            \/ Sample("crashed", TRUE)
    /\ UNCHANGED <<bundle, files, writes, extractions>>

Finished == phase = "find" /\ Len(samples) = Len(PagesOf(manifest))
EndSamples ==
    /\ Finished
    /\ Continue("extract")
    /\ UNCHANGED <<bundle, files, writes, extractions>>

-----------------------------------------------------------------------------
(* _extractions and the report                                             *)

\* Mutant of Extractable: failed pages are handed to the pack as well.
Extractable_All(s) == TRUE
Extractable(s) == s.status = "success"

PagesFor(d) == {k \in DOMAIN samples : samples[k].doc = d /\ Extractable(samples[k])}
Extracted == {extractions[n].doc : n \in DOMAIN extractions}

\* The documents still to come, by their places in the manifest.
\* Mutant of Due: documents without a page are not passed over.
Due_All == {k \in DOMAIN manifest.documents : manifest.documents[k].id \notin Extracted}
Due == {k \in DOMAIN manifest.documents :
          /\ manifest.documents[k].id \notin Extracted
          /\ PagesFor(manifest.documents[k].id) # {}}

\* The next document with a page; a pack that raises ends the run.
Extract ==
    /\ phase = "extract" /\ HasPack
    /\ \E k \in Due :
         /\ \A other \in Due : k <= other
         /\ LET d == manifest.documents[k].id
            IN  \/ /\ extractions' = Append(extractions, [doc |-> d, pages |-> PagesFor(d)])
                   /\ UNCHANGED phase
                \/ phase' = "aborted" /\ UNCHANGED extractions
    /\ UNCHANGED <<bundle, files, writes, data, samples>>

\* write_json, which may fail too.
Report ==
    /\ phase = "extract" /\ (HasPack => Due = {})
    /\ phase' \in {"done", "aborted"}
    /\ UNCHANGED <<bundle, files, writes, data, samples, extractions>>

-----------------------------------------------------------------------------
\* Somebody writes or removes a file.
Rewrite ==
    /\ writes < MaxWrites /\ writes' = writes + 1
    /\ phase \in {"find", "measure", "read", "verify"}
    /\ \E path \in DOMAIN files, content \in Contents \cup {Absent} :
         /\ content # files[path]
         /\ files' = [files EXCEPT ![path] = content]
    /\ UNCHANGED <<bundle, phase, data, samples, extractions>>

Next == Validate \/ Find \/ Measure \/ Read \/ Verify \/ EndSamples \/ Extract
            \/ Report \/ Rewrite

Spec == Init /\ [][Next]_vars

-----------------------------------------------------------------------------
(* Properties                                                              *)

Phases == {"validate", "find", "measure", "read", "verify", "extract", "done", "aborted"}
TypeOK ==
    /\ bundle \in Bundles
    /\ \A path \in DOMAIN files : files[path] \in Contents \cup {Absent}
    /\ writes \in 0..MaxWrites /\ phase \in Phases
    /\ data # Absent <=> phase = "verify"
    /\ \A k \in DOMAIN samples : samples[k].status \in {"success", "missing", "crashed"}
    /\ \A n \in DOMAIN extractions : extractions[n].pages # {}

\* The pages are sampled in the manifest's order, none twice, and a run that gets
\* as far as the pack has a sample of every page: no page that is missing,
\* unreadable, wrong or raises costs the run another one.  Between two pages a
\* run ends only over a path inside the root (_validate_manifest, and the except
\* clauses of _sample).
EveryPageSampled ==
    LET all == PagesOf(manifest)
        ids == Map(samples, LAMBDA s : s.id)
    IN  /\ ids = SubSeq(Map(all, LAMBDA q : q.page.id), 1, Len(samples))
        /\ Distinct(ids)
        /\ phase \in {"extract", "done"} => Len(samples) = Len(all)
        /\ phase = "aborted" => Len(samples) \in {0, Len(all)} \/ Searched

\* What the pipeline was given for a page that counts as a success is what the
\* manifest promises of that page, also when the file was written meanwhile
\* (the digest is that of the bytes read).
VerifiedBytes == \A k \in DOMAIN samples : samples[k].status = "success" =>
    LET q == PagesOf(manifest)[k]
    IN  /\ samples[k].bytes.id = q.page.sum /\ samples[k].bytes.width = q.page.width
        /\ samples[k].bytes.size <= MaxBytes

\* A page whose file nobody touched and which agrees with the manifest fails only
\* if reading or processing it raises; the byte limit is the same each time it is applied.
IntactPagesSucceed == writes = 0 => \A k \in DOMAIN samples :
    LET page == PagesOf(manifest)[k].page
    IN  (\E a \in Range(bundle.assets.records) :
           /\ a.doc = samples[k].doc /\ a.id = page.id /\ a.path \in DOMAIN files
           /\ files[a.path] # Absent
           /\ LET c == files[a.path]
              IN  c.id = page.sum /\ c.media = a.media
                    /\ c.width = page.width /\ c.size <= MaxBytes)
        => samples[k].status = "success" \/ samples[k].raised

\* Each page that succeeded is handed to the pack once, with its document's other
\* successes, and no page that failed is (_extractions).
ExtractedFromSuccesses == phase = "done" /\ HasPack =>
    LET good == {k \in DOMAIN samples : samples[k].status = "success"}
    IN  /\ \A n \in DOMAIN extractions :
             extractions[n].pages = {k \in good : samples[k].doc = extractions[n].doc}
        /\ \A k \in good :
             Cardinality({n \in DOMAIN extractions : k \in extractions[n].pages}) = 1
=============================================================================
