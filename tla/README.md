# DzDoc engine: verification project

TLA+ models of the multi-worker service of this repository (`src/dzdoc_service`)
and of the engine it runs (`src/dzdoc`), checked with TLC on small instances and
proved with TLAPS for every value of the constants. File names below are relative
to the repository's root.

## The system

DzDoc is an OCR engine (`src/dzdoc`) behind a service (`src/dzdoc_service`): a
FastAPI process takes uploads, any number of worker processes run the engine on
them, and all of them meet in a SQL database and an object store.

| Part | State | Operations | Interacts through |
| --- | --- | --- | --- |
| Job queue (`db.py` `claim_job`) | table `jobs`: status, attempt_count, lease_token, lease_expires_at, available_at | submit, claim, settle, fail | rows written by every worker; no row locks, no version column |
| Worker (`worker.py` `Worker`) | the token and the rows its session has loaded | `run_once` = claim, read back, first session, pipeline, second session, `_fail` | jobs, documents, usage records, webhook deliveries, object store |
| Documents and retention (`service.py`) | table `documents`: status, keys, delete_after, deleted_at | `submit`, `delete_document`, `purge_expired`, `result`, `correct` | database and object store, with no common transaction |
| Object store (`storage.py`) | a set of objects named by the hash of their content, shared by all tenants | put, get, delete | called outside every database session |
| Webhook dispatcher (`worker.py`) | table `webhook_deliveries`: status, attempt_count, available_at | claim, post, record the outcome | the outbox `_process` fills; remote endpoints |
| Worker process (`cli.py` `worker_main`) | none | one turn of worker, dispatcher and, hourly, purge, in one thread | restarted by `compose.yaml` |
| Accounts and keys (`service.py`) | tables `tenants`, `api_keys` | bootstrap, authenticate, create key, add webhook | HTTP API |
| HTTP API (`api.py`) | none | routing, JSON views; optional embedded worker thread | service |
| Review client, SDKs (`apps/web`, `sdk`) | current job, result, error | upload, wait for the job, correct | HTTP API |
| Hybrid pipeline (`pipeline.py`, `ocr.py`, `fallback.py`) | the document at hand: pages built, regions read, fallback calls, events | native page, OCR page, fusion, guarded fallback, reading order | called by the worker, the CLI and the benchmark runner; calls the PDF, OCR and VLM runtimes, any of which may raise |
| Native text gate (`text.py`, `native_pdf.py`) | none | inspect, assess, classify | called by the pipeline |
| Invoice pack (`document_packs/invoice_dz.py`) | the fields found so far | extract, validate | reads the pipeline's blocks in reading order |
| Benchmark runner (`benchmark.py`) | samples, extractions; files it does not own | validate, sample, extract, report | runs pipeline and pack on files others may write |
| Model, exporters, ingestion, rendering, VLM adapter | none | data, formatting, library calls | called by the pipeline and the CLI |

### What is hard here

Every database session reads rows and commits later; workers, deletions and
purges run in between. Writes go by primary key and, in the ORM, cover only the
columns whose value differs from the one that was loaded. So the code depends on
what it checks *before* a commit still being true *at* the commit:

* a lease may run out under a slow worker, whose late outcome meets the worker
  that took the job over;
* a claim works through a list of candidates read some time ago;
* objects are put before the row that names them is committed, and deleted after
  a query said no row names them, while equal contents share one object;
* an attempt can be lost to a crash at any point, the last attempt included;
* a webhook may be delivered although the answer is lost, and an answer may
  arrive after the delivery was claimed again.

The engine runs one document in one thread, and is hard for other reasons: a
decision is made in several steps, each on what the ones before left over.

* the fallback is called per region under a cap per page, may fail or be refused,
  and replaces evidence that later steps still need;
* reading order is grown greedily from the regions as the detector lists them;
* the invoice pack reads each block several times; which reading wins depends on
  blocks before and after, and its checks read the fields again at the end;
* one exception in the wrong place loses the document, or the whole benchmark;
* the benchmark's files are found, measured, read and hashed in separate steps.

`PROJECT.json` lists these hazards at their lines, with the properties that watch
over each.

### What makes each part correct

* *Queue*: one worker per job at a time; a success is billed once; what has ended
  stays so; attempts are counted right; every job ends; the two tables agree.
* *Retention*: a live document never loses an object; deleted documents leave
  nothing behind; overdue documents are deleted; one idempotency key, one
  document.
* *Dispatcher*: one poster per delivery; no more attempts than the limit and those
  that were lost; what is closed stays closed; while losses are bounded, everything
  is closed in the end.
* *Pipeline*: no candidate is lost or invented on the way into a block; the VLM is
  called no more than allowed and changes no number the recognizers agree on;
  boxes lie on the page; the reading order is the page's, not the detector's.
* *Invoice pack*: a label beats a shape; a block belongs to one line item unless it
  is a number that can be a description; an amount is what the block a field points
  to reads as; recovered totals pass the check.
* *Benchmark runner*: one sample per page, on the bytes the manifest promises, and
  no page costs another, except by a path that raises when it is looked up.

## Modules

| Module | Models |
| --- | --- |
| `JobLifecycle` | the promise of the queue, without tokens, sessions or clocks |
| `JobQueue` | `claim_job`, `run_once`, `_process`, `_fail`; implements `JobLifecycle` |
| `Retention` | `submit`, `result`, `delete_document`, `purge_expired`, `_safe_delete_objects`, and the worker's object reads and writes |
| `WebhookDispatch` | `WebhookDispatcher.run_once` and the rows of `_queue_webhooks` |
| `Recognition` | what the engine decides about a region or a page, as operators: scores, fusion, the fallback's guard, order, boxes, the native text gate |
| `PagePipeline` | `HybridPipeline.process_input` over `Recognition` |
| `InvoiceDz` | `InvoiceDzPack.extract` and its checks |
| `BundleRunner` | `PublicBundleRunner.run` |
| `MC...` | the small instances TLC checks |
| `JobQueue_proofs`, `JobQueueRows_proofs` | theorems about `JobQueue`: under its timing assumptions, and row by row under any timing |
| `Retention_proofs`, `WebhookDispatch_proofs`, `PagePipeline_proofs`, `InvoiceDz_proofs`, `BundleRunner_proofs` | theorems about those modules |
| `SequenceLemmas` | lemmas about sequences, sorting and sums that the engine's proofs share |

### JobQueue

`job` and `doc` are the rows, `completions[j]` counts the usage records
committed for job `j` (and with them the batches of webhook deliveries: same
transaction), `worker[w]` is what a worker process remembers, `issued` numbers
the random lease tokens. A clock is reduced to the comparison made with it:
`lease` is live or expired, `due` says whether `available_at` has passed.

Each step of the code between two points where another process can act is one
action: `SelectCandidates` (the candidate query), `TryClaim` (one conditional
UPDATE and its commit or rollback), `ReadBack` (`session.get` after the commit),
`Begin` (first session), `SettleRead` and `SettleCommit` (second session),
`Raise`, `FailRead`, `FailCommit` (the except clause and `_fail`), `Crash`.
`Flushed` is the ORM's rule that an unchanged column is not written.
`Submit` and `Tombstone` are the other writers of these rows.

Two assumptions about time are constants, because the code does not enforce
them. `LeaseOutlivesWork`: no lease (`lease_seconds`, 900 by default) runs out
while its worker is still at the job. `ShortSessions`: no other worker's claim
lands between the read and the commit of a session on the row. Each property
says which it needs; with neither, `BilledOnce` fails (below).

### Retention

A submission is three steps (look up the idempotency key, put the object,
commit the rows), an attempt four (find the document, fetch, put the result,
commit its key), a removal one step for the rows it reads, one for the
tombstones, and then, per document, one for the in-use queries and one for each
delete. Three of the code's windows are constants too. `QuietStore`: no put and
its commit overlap an in-use query and its deletes for the same key.
`DeletesWait`: no removal reads and tombstones a document during an attempt on
it. Attempts are taken one at a time, as `JobLifecycle` promises. A reader
(`result`) reads the row in one step and the object in the next.

### WebhookDispatch

A row stays `pending` while it is posted; the claim counts the attempt and moves
`available_at` 60 seconds ahead. That a post (10 seconds per socket operation) and
the recording of its outcome are over before that is nowhere enforced: `ComesDue`
may come first, and `overrun` remembers that it has. What the hold is there for is
stated for as long as `overrun` is false, the end of every delivery for any timing. A post
reaches the endpoint or not, and its answer comes or not; `Crash` (of the process)
and `Escape` (an exception other than `URLError` and `TimeoutError`, such as a
connection dropped without a response) lose the attempt: the retry limit is not
looked at and the row comes up again. The code bounds neither; `MaxCrashes` (in all)
and `MaxEscapes` (per delivery) are the model's bounds, and `Losses` counts both.
An operator's switching the endpoint off (`Deactivate`) is external: no code in
the repository does it, but the dispatcher looks at the flag.

### Recognition and PagePipeline

A text is what the code's functions look at: the scripts of its letters, one
number as it is written (`1190`, `1190.00`) and the script of its digits, and a
flaw (blank, too long, control characters). Probabilities are percentages, scores
ten-thousandths, so the thresholds 0.58, 0.08, 0.82 and the weights 0.85 and 0.15
are exact integers; coordinates are whole pixels. `Recognition` has no state:
`Fuse`, `Verdict`, `ReadingOrder`, `ClampBBox` and `Assess` are the functions of
`ocr.py`, `fallback.py`, `pipeline.py` and `text.py`. Python's sorts are stable:
`StableSort` is the one arrangement of the places that follows the key, and the
old places where keys agree. The bands of a page are what the greedy loop leaves:
for each item, the place at which its band begins.

`PagePipeline` is the loop around them. `Inspect` reads the PDF or fails,
`NativePage` takes a trusted text layer, `OpenPage` renders and detects,
`ReadRegion` is one turn of the region loop (recognize, fuse, and keep, skip or
call the fallback), `BuildPage` orders the regions and makes blocks, `Finish`
counts. Each step outside the fallback may raise and then ends the document; in
`RunFallback` it makes an event instead. Detector, recognizers and VLM answer
anything of the sets the instance gives. Block types, normalized text,
confidences of regions and wording are left out.

### InvoiceDz

A block of text is a record of what the regular expressions find in it: a number
or date with its label or only by shape, a company and whether its name runs on,
amounts after a label, the amount the whole block reads as, its numbers, whether
it can be a description or a quantity. None of these excludes another:
Arabic-Indic digits are letters to the description's pattern, and an amount
behind a label is all the digits there read as one number, so it need not be one
of the block's numbers. Amounts are hundredths, after rounding; more than
`MaxAmount` makes `Decimal.quantize` raise (for amounts only: a field's value is
otherwise the length of a company's name, which has no limit). One action per
pass of `extract`: `Labels` and `Shapes` (block by block), `Items`, `Total`,
`Tables`, `Checks`. A table has one header that names all four columns, and full
rows; a cell may read as nothing. The document's identifier is short enough that
a field's identifier, which contains it, stays within 200 characters.

### BundleRunner

Manifest and asset index are records; what `_validate_*` checks of one value alone
is one flag, what it checks between values (unique ids and indexes, records that
match pages) is spelled out. A sample is `Find`, `Measure`, `Read` and `Verify`,
and between any two of them `Rewrite` may write or remove a file. A file is known
by its digest, type, size and width. Looking up a path inside the root may raise
(`is_file` on a name too long or in a closed directory, `resolve` on a loop of
links), which ends the run. An extraction is the set of places of the
samples it is made of; `Due` are the documents still to be extracted, and
`Extract` takes the first of them in the manifest. Pipeline, pack and report may
raise.

## Runs

| Run | Checks | Instance |
| --- | --- | --- |
| `queue_slow_attempts` | types, `BilledOnce`, `DocMirrorsJob`, `NoFreeBills`, `EndedStaysEnded`, `ClaimsOnlyClaimable`, `KeepsPromise` (refinement) | 2 jobs, 2 workers, 2 attempts, 1 crash; leases run out under workers |
| `queue_ends` | `ExclusiveAttempt`, `EndsUnlessAbandoned` (liveness) | 2 jobs, 2 workers, 2 attempts, 1 candidate, 1 crash; ample leases, sessions overlap |
| `queue_double_bill` | violates `BilledOnce` | 1 job, neither timing assumption |
| `queue_lost_last_attempt` | violates `EveryJobEnds` | 1 crash |
| `retention_safety` | types, `LiveObjectsPresent`, `NothingLeftBehind`, `OneAnswerPerKey`, `FailedReadsAreDeletions` | 3 submissions (2 with one key), 2 removers, 1 reader, batches of 2, 1 crash |
| `retention_live` | `DeletionErases`, `RetentionEnforced` | 2 documents, 2 removers, 2 results, 2 attempts, batches of 1 |
| `retention_shared_object` | violates `LiveObjectsPresent` | 2 documents, 1 remover, puts overlap deletes |
| `retention_late_result` | violates `DeletionErases` | 1 document, deleted while processed |
| `webhook_dispatch` | types, `TriesBounded`, `NoSharedPost`, `DeliveredOnce`, `ClosedForGood`, `EveryDeliveryCloses` (liveness) | 1 delivery, 2 dispatchers, 2 tries, 1 crash, 2 escapes; any timing |
| `page_pipeline` | types, `EvidenceKept`, `FallbackCapped`, `NumbersGuarded`, `ReadingOrderStable`, `BoxesOnPage`, `DocumentComplete` | documents of 1 to 3 pages, up to 3 regions, 4 Arabic and 3 Latin readings, 3 VLM outputs, 1 call a page |
| `invoice_dz` | types, `RecoveredTotalAgrees`, `ItemsShareOnlyNumerals`, `LabelsWin`, `AmountsAsRead`, `FailsOnlyOnOversize` | all sequences of up to 3 of 12 header blocks, of 4 of 7, 5 of 6 and 6 of 3 item blocks; tables of 1 and 2 rows |
| `bundle` | types, `EveryPageSampled`, `VerifiedBytes`, `IntactPagesSucceed`, `ExtractedFromSuccesses` | 2 documents, up to 3 pages, 2 files, 3 contents, 2 writes |

**Bounds.** Rows do not interact except in candidate lists and shared objects,
so two jobs (a list with a rest) and two or three documents are enough for every
interaction of rows; deliveries meet in candidate lists only and a list of one goes
stale as well, so one is enough to race for; two workers are the fewest that can
overlap (the theorems below speak of any number). Two attempts distinguish a
first from a last try.
Crashes are bounded by `MaxCrashes`: one suffices for every finding, and a
second repeats what the first does to another attempt. For `EveryDeliveryCloses`
the bounds on losses are not a convenience but its assumption: without them it is
false. In `webhook_dispatch` three losses exceed the limit of two tries, so a row goes
past the limit and still closes. Limits of the code (8
candidates, 100 rows per batch, 8 tries) are constants made small so that they
are reached. Deadlock is not checked: when all work has ended, every process
polls, which is a stutter, and a document or a benchmark that is done is done.

For the engine, three regions are the fewest whose bands can depend on the order
in which they are taken, and enough to call the fallback, be refused and skip;
two OCR pages show that the cap starts anew. The readings include each routing
(a sure Arabic line, digits only, an unsure one, a blank), a number written in
two ways and outputs that keep it, change it and are empty. Three blocks hold an
HT, a TVA and a total in any order, or a label on either side of a shape; five
and six blocks hold windows of four that overlap in three blocks and in two. Two
writes let a file change and change back between reading and hashing.

**Fairness.** Weak fairness of each worker's, dispatcher's and remover's turn
(`worker_main` loops for ever and is restarted by `compose.yaml`; the purge is
started again every hour), of a submission that has begun, and of clocks. Nobody
has to submit, delete, switch off or crash, and nothing is strongly fair: no
property relies on a try succeeding.

## What the runs show

Under the stated timing the queue keeps its promise, and the modules say exactly
what that costs. Four disagreements with the repository's own statements:

* **Double billing.** The token is checked when the second session reads the row,
  not in the UPDATE (`worker.py:86-110`): a claim in between bills the job twice.
  It takes an attempt longer than its lease.
* **Lost last attempt.** `claim_job` wants `attempt_count < max_attempts`
  (`db.py:186`) and only `_fail` dead-letters: a crash in the last attempt leaves
  the job in `processing` for good.
* **Shared object lost.** A submission of content that is just being deleted finds
  the object present, then loses it (`service.py:160`, `:311`).
* **Late result.** A document deleted while it is processed receives its result
  afterwards (`worker.py:97`), and that object is never removed.

The engine's properties hold: through fusion, fallback and ordering each region's
candidates arrive in its block, a refused or failed call costs nothing but the
call, and a benchmark page counts only if its bytes are the manifest's.

The dispatcher needs the hold of 60 seconds for what it does row by row. Without it
late outcomes reopen closed rows, and still each delivery closes in the end, if only
so many of its attempts are lost.

### Observed

Met on the way, not checked by a run. In the service:

* `docs/architecture/platform.md:25-26` has objects removed before the tombstone;
  the code commits the tombstone first (`service.py:335`), and a crash or store
  error in between leaves objects nothing will ever remove. (`retention_live` with
  `MaxCrashes = 1` violates `DeletionErases`.)
* A request that loses the insert race for its idempotency key, or dies between
  put and commit, leaves its object behind (`NothingLeftBehind` excludes both); a
  repeated submission is answered with the first document even if that was
  deleted; with the embedded worker nothing purges, and an uncaught exception ends
  its thread for good.
* Webhook attempts exceed the limit by those that were lost (`TriesBounded`). An
  endpoint that drops every connection raises past `worker.py:244` each time, and a
  URL that `Request` refuses at line 225; such a delivery is tried again every 60
  seconds for ever, although `docs/architecture/platform.md:27` speaks of bounded
  backoff.

In the engine:

* The fallback's gain is measured against the confidence *after* the penalty of
  0.12 for warnings (`ocr.py:118-119`, `fallback.py:69`), while ADR 0003 speaks of
  the candidate score: a VLM text of score 0.88 may replace a reading of 0.915.
* The number guard works when the recognizers agree; where none saw a number, or
  they disagree, the VLM's is taken.
* Arabic-Indic digits count as Arabic script (`text.py:55`), so a sure reading of
  digits only is not sent to the Latin recognizer, which ADR 0002 asks for.
* A region over the left or upper edge keeps its full width and height
  (`ocr.py:41-42`), so its box reaches further right or down than it does.
* `vlm_attempted_regions` counts skipped regions.
* A total of zero is no total to the invoice pack (`if value := _money(...)`); a
  longer buyer found later may be lost to a merged name that beats the first; line
  items found in a sequence and in a table are both summed.
* A number in Arabic-Indic digits matches the description's pattern and the
  quantity's (`invoice_dz.py:273-276`): of the blocks «حاسوب», «٢», «٥٠٠», «١٠٠٠»,
  «١٠٠٠» the windows of the first and the second are both line items and share three
  blocks.
* A labelled amount is every digit behind the label, joined and rounded:
  `TVA 19% : 190,00 (2)` reads as 190002. Such an amount is not printed anywhere in
  its source block.
* A pack that raises for one document ends the benchmark without a report, and so
  does `is_file` (`benchmark.py:257`) or `resolve` for one path, although
  `docs/architecture/system.md:37-40` has each page processed once; the memory
  sampler's peak is written by two threads.

## What is proved

Every theorem holds for all values of the constants that satisfy the named
assumptions of its module (`...Assumption`, which TLC evaluates in each run): any
number of jobs, documents, workers, regions or pages, any limits, any answers of
the runtimes. "Assumes" is what a theorem needs beyond them.

| Module | Theorem | States | Assumes |
| --- | --- | --- | --- |
| `JobQueue_proofs` | `TypeCorrect` | `[]TypeOK` | |
| | `NoDoubleBill` | `[]BilledOnce` | `LeaseOutlivesWork` or `ShortSessions` |
| | `NoSharedAttempt` | `[]ExclusiveAttempt` | `LeaseOutlivesWork` |
| | `DocsFollowJobs` | `[]DocMirrorsJob` | as `NoDoubleBill` |
| | `PromiseKept` | `KeepsPromise`: every step is a step of `JobLifecycle` or stutters | as `NoDoubleBill` |
| `JobQueueRows_proofs` | `ClaimsAreDue` | `ClaimsOnlyClaimable` | |
| | `BillsArePaid` | `[]NoFreeBills` | |
| | `EndedIsEnded` | `EndedStaysEnded` | as `NoDoubleBill` |
| `Retention_proofs` | `TypeCorrect` | `[]TypeOK` | |
| | `AnswersAgree` | `[]OneAnswerPerKey` | |
| | `LiveKeysPresent` | `[]LiveObjectsPresent` | `QuietStore` |
| | `ReadsFailByDeletion` | `[]FailedReadsAreDeletions` | `QuietStore` |
| | `DeletionsComplete` | `[]NothingLeftBehind` | `DeletesWait` |
| `WebhookDispatch_proofs` | `TypeCorrect` | `[]TypeOK` | |
| | `OnePoster` | `[]NoSharedPost` | |
| | `ClosedStaysClosed` | `ClosedForGood` | |
| | `RetriesEnd` | `[]TriesBounded` | |
| | `AcknowledgedOnce` | `[]DeliveredOnce` | |
| `PagePipeline_proofs` | `TypeCorrect` | `[]TypeOK` | |
| | `CallsCapped` | `[]FallbackCapped` | |
| | `AgreedNumbersStay` | `[]NumbersGuarded` | |
| | `BlocksOnPage` | `[]BoxesOnPage` | |
| | `NoEvidenceLost` | `[]EvidenceKept` | |
| | `OrderStable` | `[]ReadingOrderStable` | |
| | `MetadataComplete` | `[]DocumentComplete` | |
| `BundleRunner_proofs` | `TypeCorrect` | `[]TypeOK` | |
| | `PagesSampled` | `[]EveryPageSampled` | |
| | `SuccessesAreGenuine` | `[]VerifiedBytes` | |
| | `IntactSucceed` | `[]IntactPagesSucceed` | |
| | `SuccessesExtracted` | `[]ExtractedFromSuccesses` | |
| `InvoiceDz_proofs` | `TypeCorrect` | `[]TypeOK` | |
| | `LabelsDecide` | `[]LabelsWin` | |
| | `ItemsApart` | `[]ItemsShareOnlyNumerals` | |
| | `AmountsAreRead` | `[]AmountsAsRead` | |
| | `LostToOversize` | `[]FailsOnlyOnOversize` | |
| | `RecoveredPasses` | `[]RecoveredTotalAgrees` | |

The timing assumptions are those the properties state; the runs that violate
`BilledOnce` and `LiveObjectsPresent` show that they are needed.

### The arguments

None of the properties is inductive alone. Each proof module states what has to be
added, proves it step by step (one lemma or one proof step per action), and
combines the steps by temporal logic.

**Queue.** `BilledOnce` is kept by a commit only if the session's token is still
the row's, so the invariant `Fence` says how tokens, rows and sessions fit: a row
has a token exactly while it is processing and it was issued (`RowsAgree`); tokens
of different rows and of workers that hold them differ (`TokensApart`); a worker
inside a session owns the row it has loaded (`SessionsOwn`, this is where
`ShortSessions` enters); with ample leases every engaged worker owns its row and no
lease of its is expired (`AmpleLeases`); candidate lists are never ahead of the
rows (`CandidatesAge`: the attempt count only grows, so an unchanged count means
an unchanged claim, and a candidate listed as processing whose row has not been
claimed since still has an expired lease). `Mirror` adds what a session remembers
of the document's status, which decides what the ORM writes.

Three results need less. `CandidatesAge` alone, under any timing, makes the count
that the UPDATE compares stand for the lease it does not compare (`ClaimsAreDue`).
For `BillsArePaid` each attempt is a coin: a claim adds one and puts one worker at
the job, a bill takes that worker off it, so bills plus workers still at a job
never exceed its attempts (`PaidFor`); and `_fail` judges by a count that is never
ahead of the row's (`TriesTrue`, `DeadSpent`).

**Retention.** A key is in use (a live row names it), being put, or being deleted.
`Kept`: what is being put is there (`PutsKept`), what is being deleted is neither
in use nor being put (`DeletionsFree`, kept by the in-use query under
`QuietStore`). For readers: a settled attempt never runs again (`SettledOnce`), so
a key a reader has seen stays the row's (`ReadersKnow`). For
`NothingLeftBehind`, every object is at all times *in hand*: named, being put,
being deleted, or in the list of a removal that has yet to look at it
(`NoneLost`). A tombstone keeps this true only if the removal's list still agrees
with the rows (`PairsTrue`) and nobody works on a deleted document
(`WorkOnLive`); both need `DeletesWait`. The proof needs no `QuietStore`: this
part of the promise survives overlapping puts and deletes. `OneDocPerKey` is the
unique constraint and what `submit` answers after losing the insert.

**Dispatcher.** `Ownership`: a row that is held is pending and not due, and its
holder knows its status and count (`HoldersKnow`); a candidate whose count still
stands is not held (`CandidatesAge`). It lasts until a post outlives its hold, so
the invariant is `overrun \/ Ownership`. `TriesLeft` says what the outcome before a
claim left behind, which bounds the next one; `AcksKept` counts an
acknowledgement with the dispatcher that keeps it until it has settled the row.

**Pipeline.** The invariant `IInv` has seven parts: types; the calls are counted
as they are made (`Counted`); each region with candidates is recognized once, in
order (`Listed`); each recognized region still has all its candidates, as a bag,
and respects the number they agree on, and has a VLM text exactly if an event
accepts one (`Explained`); the blocks of the page just built are those regions in
reading order, clamped (`Composed`); each page is of the kind its source calls
for, within the cap (`Tallied`); the metadata is computed from them (`Reported`).
The rest is about operators, proved once for every input: boxes clamped on one
axis (`ClampedAxis`); fusion ranks its candidates and keeps them all
(`FuseKeeps`), a replacement adds one and keeps the others (`ReplacedKeeps`); the
bands and the order inside them only rearrange the items
(`ReadingOrderPermutes`); when corners are distinct, sorting by corner undoes any
rearrangement of the detector's list (`PositionDecides`), so the bands, which see
only the sorted list, cannot tell the difference (`OrderStable`).

**Benchmark runner.** `InOrder`: the samples are those of the first pages of a
valid bundle. A success carries the bytes that were read, checked against the
manifest (`Unwritten` ties them to the file while nobody writes). `OnePerDocument`:
an extraction holds all successes of its document, no document has two, and the
report waits until none is due; that every success is in exactly one then follows
because each page belongs to one document.

**Invoice pack.** `WellSourced` says of each field where it comes from: its amount
is a reading of its source block (`Grounded`), a line item outside tables is from a
window of four blocks (`Placed`), and its amount fits; every action is shown once to
keep the old fields and add such fields, or to fail on an amount that is read in a
block or a row (`LabelsStep` to `ChecksStep`). Of two windows that share a block the
later begins with a quantity or an amount of the earlier one, and with a description
(`WindowsApart`). `LabelsFound`: in the first loop every label passed has its field,
and after it a missing name has no label anywhere. `TotalsFound` says this of totals,
so one is recovered only where none is labelled. `TotalRecovered`: without a label
there is no total before `Total` looks for one, and afterwards its value is the sum
of the HT and TVA that count; table rows, added later, have other names
(`OthersAdded`).

**Sequences.** `SequenceLemmas` holds what the library does not: a sequence
without repetitions and its range have one size, a total order on places has
exactly one arrangement (`SortExists`, `SortUnique`; with them `StableSort` can be
reasoned about), a rearranged sequence has the same bag, and what
`SumFunction` and `FlattenSeq`, which are recursive functions, do. The provers
cannot take a predicate as a parameter, which the library's induction theorems
ask for; `SetInduction` takes the set of numbers with the predicate instead, and
follows from well-foundedness.

### Only model-checked

* Liveness under fairness, which is out of the provers' reach:
  `EndsUnlessAbandoned`, `DeletionErases`, `RetentionEnforced`,
  `EveryDeliveryCloses`; and the violations above, which are single behaviours.

## Not modelled

* HTTP routing and JSON views, configuration, SDKs, exporters, the canonical
  model: no state of their own, or none that two parties share.
* Accounts: lookups in one statement, hashing, token formats. Two bootstraps at
  once (`service.py:74`) are a hazard without a model.
* The review client: one component's state; that it waits for `failed` and not for
  `dead_letter`, and that two uploads share one result, are hazards without a
  model.
* `correct`: a correction of a deleted document is a row nothing reads again.
* The PDF, OCR and VLM runtimes, regular expressions, normalization of text, block
  types, signatures of files: what they answer is an input of the modules above.

`PROJECT.json` gives the reason for each part.

## Plan

Every safety property of a passing run has its theorem. What is left are two parts
that have hazards and no model: `ReviewClient`, against the life of a job, and
`Accounts`; and a statement of the retention promise without its steps, which
`Retention` would be shown to implement.
