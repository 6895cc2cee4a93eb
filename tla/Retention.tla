----------------------------- MODULE Retention ------------------------------
(***************************************************************************)
(* Documents and the content-addressed object store they point into:       *)
(* submit, result, delete_document and purge_expired of service.py, the    *)
(* object reads and writes of Worker._process, and storage.py.             *)
(*                                                                         *)
(* The database and the object store share no transaction.  A submission   *)
(* and a worker PUT an object first and commit the row that names it       *)
(* later; a deletion commits the tombstone first, then asks which keys     *)
(* live documents still use, then deletes the others one by one.  Equal    *)
(* contents share one key, so these steps of different requests meet.      *)
(*                                                                         *)
(* The queue is taken at its word (JobLifecycle): one attempt at a time.   *)
(* The status columns are JobQueue's and are left out here; so are tenants,*)
(* because keys are hashes of contents and tenants share the store.        *)
(***************************************************************************)
EXTENDS Naturals, FiniteSets, Sequences, Functions

CONSTANTS Docs,           \* submissions; each that is accepted is a document
          Removers,       \* deletion requests and the workers' purge loops
          Readers,        \* clients that ask for results
          Source,         \* Source[d]: key of the uploaded bytes
          Idem,           \* Idem[d]: Idempotency-Key of the request, or NoIdem
          NoIdem,
          Results,        \* keys the extraction results may hash to
          NoKey,          \* result_object_key IS NULL
          BatchLimit,     \* LIMIT of the purge query (100 in the code)
          MaxAttempts,    \* ServiceSettings.max_attempts
          MaxCrashes,     \* bound: crashes and store errors in one behaviour
          QuietStore,     \* no put-to-commit overlaps a check-to-delete
          DeletesWait     \* no deletion overlaps an attempt on the document

ASSUME BatchAssumption == BatchLimit \in Nat \ {0}
ASSUME AttemptsAssumption == MaxAttempts \in Nat \ {0}
ASSUME BudgetAssumption == MaxCrashes \in Nat
ASSUME EnvironmentAssumption == QuietStore \in BOOLEAN /\ DeletesWait \in BOOLEAN
ASSUME KeysAssumption == NoKey \notin Results /\ \A d \in Docs : Source[d] # NoKey

VARIABLES doc,        \* the documents table
          submission, \* where each submit request stands
          answer,     \* answer[d]: the document request d was answered with
          attempt,    \* the job of each document, as far as it touches
                      \* objects: its phase, the attempts used, and the key
                      \* the running attempt has put
          remover,    \* the local state of each deletion or purge
          objects,    \* keys present in the object store
          crashes,    \* crashes and store errors so far
          reader      \* reader[c]: the row and key a request has read, if any

vars == <<doc, submission, answer, attempt, remover, objects, crashes, reader>>

Keys == {Source[d] : d \in Docs} \cup Results
NoDoc == [exists |-> FALSE, deleted |-> FALSE, due |-> FALSE, result |-> NoKey]
Resting == [phase |-> "idle", pairs |-> {}, keys |-> <<>>]

\* What a deletion remembers of a row: the document and its keys.
Pairs == [doc : Docs, source : Keys, result : Results \cup {NoKey}]

Phases == {"none", "pending", "working", "fetched", "stored", "done", "dead"}

TypeOK ==
    /\ doc \in [Docs -> [exists : BOOLEAN, deleted : BOOLEAN, due : BOOLEAN,
                         result : Results \cup {NoKey}]]
    /\ submission \in [Docs -> {"new", "checked", "stored", "answered",
                             "conceded", "lost"}]
    /\ answer \in [Docs -> SUBSET Docs] /\ \A d \in Docs : Cardinality(answer[d]) <= 1
    /\ attempt \in [Docs -> [phase : Phases, tries : 0..MaxAttempts,
                             output : Results \cup {NoKey}]]
    /\ \A x \in Removers :
         /\ remover[x].phase \in {"idle", "loaded", "removing", "deleting"}
         /\ remover[x].pairs \subseteq Pairs
         /\ Range(remover[x].keys) \subseteq Keys
    /\ objects \subseteq Keys
    /\ crashes \in 0..MaxCrashes
    /\ reader \in [Readers -> SUBSET [doc : Docs, key : Results]]

Init ==
    /\ doc = [d \in Docs |-> NoDoc]
    /\ submission = [d \in Docs |-> "new"]
    /\ answer = [d \in Docs |-> {}]
    /\ attempt = [d \in Docs |-> [phase |-> "none", tries |-> 0, output |-> NoKey]]
    /\ remover = [x \in Removers |-> Resting]
    /\ objects = {}
    /\ crashes = 0
    /\ reader = [c \in Readers |-> {}]

-----------------------------------------------------------------------------
Live(d) == doc[d].exists /\ ~doc[d].deleted
AtWork(d) == attempt[d].phase \in {"working", "fetched", "stored"}

\* A key somebody has put and not yet committed, and a key somebody is about
\* to delete: the two windows QuietStore keeps apart.
BeingPut(k) == \E d \in Docs :
    \/ submission[d] = "stored" /\ Source[d] = k
    \/ attempt[d].phase = "stored" /\ attempt[d].output = k
BeingDeleted(k) == \E x \in Removers : k \in Range(remover[x].keys)

\* store.put: present already or written now, the key is there afterwards.
Put(k) ==
    /\ QuietStore => ~BeingDeleted(k)
    /\ objects' = objects \cup {k}

-----------------------------------------------------------------------------
(* submit                                                                  *)

\* The documents whose job carries the idempotency key of request d.
SameRequest(d) ==
    {e \in Docs : doc[e].exists /\ Idem[d] # NoIdem /\ Idem[e] = Idem[d]}

Answer(d, e, how) ==
    /\ answer' = [answer EXCEPT ![d] = {e}]
    /\ submission' = [submission EXCEPT ![d] = how]

\* The lookup by key, tombstones included, before anything is stored.
SubmitCheck(d) ==
    /\ submission[d] = "new"
    /\ \/ \E e \in SameRequest(d) : Answer(d, e, "answered")
       \/ /\ SameRequest(d) = {}
          /\ submission' = [submission EXCEPT ![d] = "checked"]
          /\ UNCHANGED answer
    /\ UNCHANGED <<doc, attempt, remover, objects, crashes, reader>>

SubmitPut(d) ==
    /\ submission[d] = "checked"
    /\ Put(Source[d])
    /\ submission' = [submission EXCEPT ![d] = "stored"]
    /\ UNCHANGED <<doc, answer, attempt, remover, crashes, reader>>

\* Mutant of Taken: the jobs table has no unique index.
Taken_Never(d) == FALSE
\* The unique index on (tenant_id, idempotency_key).
Taken(d) == SameRequest(d) # {}

\* The insert of document and job, or the IntegrityError and its lookup.
SubmitCommit(d) ==
    /\ submission[d] = "stored"
    /\ \/ /\ ~Taken(d)
          /\ doc' = [doc EXCEPT ![d] = [NoDoc EXCEPT !.exists = TRUE]]
          /\ attempt' = [attempt EXCEPT ![d].phase = "pending"]
          /\ Answer(d, d, "answered")
       \/ /\ Taken(d)
          /\ \E e \in SameRequest(d) : Answer(d, e, "conceded")
          /\ UNCHANGED <<doc, attempt>>
    /\ UNCHANGED <<remover, objects, crashes, reader>>

-----------------------------------------------------------------------------
(* Worker._process                                                         *)

\* A deletion has read the row of d and has not tombstoned it yet.
BeingTombstoned(d) == \E x \in Removers :
    remover[x].phase = "loaded" /\ d \in {p.doc : p \in remover[x].pairs}

\* _fail, or the lease that runs out after a crash: the job is queued again,
\* or no attempt is left and its objects are not touched again.
AfterFailure(d, n) ==
    attempt' = [attempt EXCEPT
        ![d] = [phase |-> IF n < MaxAttempts THEN "pending" ELSE "dead",
                tries |-> n, output |-> NoKey]]

\* An attempt begins: the first session finds the document, or fails with
\* document_missing.
AttemptStart(d) ==
    /\ attempt[d].phase = "pending"
    /\ DeletesWait => ~BeingTombstoned(d)
    /\ \/ /\ Live(d)
          /\ attempt' = [attempt EXCEPT
               ![d] = [attempt[d] EXCEPT !.phase = "working", !.tries = @ + 1]]
       \/ ~Live(d) /\ AfterFailure(d, attempt[d].tries + 1)
    /\ UNCHANGED <<doc, submission, answer, remover, objects, crashes, reader>>

\* store.get of the source; a missing object raises and the attempt fails.
Fetch(d) ==
    /\ attempt[d].phase = "working"
    /\ Source[d] \in objects
    /\ attempt' = [attempt EXCEPT ![d].phase = "fetched"]
    /\ UNCHANGED <<doc, submission, answer, remover, objects, crashes, reader>>

\* The attempt raises.  (After the PUT only a commit can fail; that is counted
\* with the crashes below.)
AttemptFails(d) ==
    /\ attempt[d].phase \in {"working", "fetched"}
    /\ AfterFailure(d, attempt[d].tries)
    /\ UNCHANGED <<doc, submission, answer, remover, objects, crashes, reader>>

PutResult(d) ==
    /\ attempt[d].phase = "fetched"
    /\ \E k \in Results :
         /\ Put(k)
         /\ attempt' = [attempt EXCEPT ![d] = [@ EXCEPT !.phase = "stored",
                                                      !.output = k]]
    /\ UNCHANGED <<doc, submission, answer, remover, crashes, reader>>

\* The second session records the result key.  deleted_at is not looked at.
Settle(d) ==
    /\ attempt[d].phase = "stored"
    /\ doc' = [doc EXCEPT ![d].result = attempt[d].output]
    /\ attempt' = [attempt EXCEPT ![d] = [@ EXCEPT !.phase = "done",
                                                 !.output = NoKey]]
    /\ UNCHANGED <<submission, answer, remover, objects, crashes, reader>>

-----------------------------------------------------------------------------
(* delete_document, purge_expired                                          *)

\* The clock passes delete_after.
Expire(d) ==
    /\ doc[d].exists /\ ~doc[d].due
    /\ doc' = [doc EXCEPT ![d].due = TRUE]
    /\ UNCHANGED <<submission, answer, attempt, remover, objects, crashes, reader>>

\* The rows a deletion is about to tombstone, with the keys they hold NOW.
Load(x, ds) ==
    /\ remover[x].phase = "idle"
    /\ DeletesWait => \A d \in ds : ~AtWork(d)
    /\ remover' = [remover EXCEPT ![x] =
         [phase |-> "loaded", keys |-> <<>>,
          pairs |-> {[doc |-> d, source |-> Source[d], result |-> doc[d].result] :
                       d \in ds}]]
    /\ UNCHANGED <<doc, submission, answer, attempt, objects, crashes, reader>>

\* delete_document: a document tombstoned already is answered at once.
LoadForDelete(x) == \E d \in Docs : Live(d) /\ Load(x, {d})

\* Mutant of Overdue: only documents that have a result are looked at.
Overdue_Processed == {d \in Docs : Live(d) /\ doc[d].due /\ doc[d].result # NoKey}
Overdue == {d \in Docs : Live(d) /\ doc[d].due}

\* purge_expired: one batch of at most BatchLimit rows, in no given order.
LoadForPurge(x) == \E ds \in SUBSET Overdue :
    /\ ds # {}
    /\ Cardinality(ds) <= BatchLimit
    /\ Cardinality(ds) < BatchLimit => ds = Overdue
    /\ Load(x, ds)

\* The commit of deleted_at, by primary key.
Tombstone(x) ==
    /\ remover[x].phase = "loaded"
    /\ doc' = [d \in Docs |-> IF d \in {p.doc : p \in remover[x].pairs}
                              THEN [doc[d] EXCEPT !.deleted = TRUE] ELSE doc[d]]
    /\ remover' = [remover EXCEPT ![x].phase = "removing"]
    /\ UNCHANGED <<submission, answer, attempt, objects, crashes, reader>>

\* Mutants of InUse: only source keys are looked at; tombstones count as use.
InUse_SourceOnly(k) == \E d \in Docs : Live(d) /\ Source[d] = k
InUse_Tombstones(k) == \E d \in Docs :
    doc[d].exists /\ k \in {Source[d], doc[d].result}
InUse(k) == \E d \in Docs : Live(d) /\ k \in {Source[d], doc[d].result}

\* Mutant of Doomed: the NULL key and a key seen twice are not left out.
Doomed_Unfiltered(p) ==
    (IF InUse(p.source) THEN <<>> ELSE <<p.source>>)
    \o (IF InUse(p.result) THEN <<>> ELSE <<p.result>>)
\* The keys of a pair that _safe_delete_objects will delete, source first.
Doomed(p) ==
    (IF InUse(p.source) THEN <<>> ELSE <<p.source>>)
    \o (IF p.result \in {NoKey, p.source} \/ InUse(p.result)
        THEN <<>> ELSE <<p.result>>)

\* _safe_delete_objects for one pair: the in-use queries.
CheckInUse(x) ==
    /\ remover[x].phase = "removing"
    /\ \E p \in remover[x].pairs :
         /\ QuietStore => ~BeingPut(p.source) /\ ~BeingPut(p.result)
         /\ remover' = [remover EXCEPT ![x] =
              [phase |-> IF Doomed(p) # <<>> THEN "deleting"
                         ELSE IF remover[x].pairs = {p} THEN "idle"
                         ELSE "removing",
               pairs |-> remover[x].pairs \ {p}, keys |-> Doomed(p)]]
    /\ UNCHANGED <<doc, submission, answer, attempt, objects, crashes, reader>>

\* store.delete of the next key.
DeleteObject(x) ==
    /\ remover[x].phase = "deleting"
    /\ objects' = objects \ {Head(remover[x].keys)}
    /\ remover' = [remover EXCEPT ![x] =
         [phase |-> IF Len(remover[x].keys) > 1 THEN "deleting"
                    ELSE IF remover[x].pairs = {} THEN "idle"
                    ELSE "removing",
          pairs |-> remover[x].pairs, keys |-> Tail(remover[x].keys)]]
    /\ UNCHANGED <<doc, submission, answer, attempt, crashes, reader>>

-----------------------------------------------------------------------------
(* result                                                                  *)

\* get_document: the row of a live document with a result; any other request
\* is answered with "not found" and changes nothing.
ReadRow(c) ==
    /\ reader[c] = {}
    /\ \E d \in Docs :
         /\ Live(d) /\ doc[d].result # NoKey
         /\ reader' = [reader EXCEPT ![c] = {[doc |-> d, key |-> doc[d].result]}]
    /\ UNCHANGED <<doc, submission, answer, attempt, remover, objects, crashes>>

\* store.get with the key of the row: the object, or an error if it is gone.
ReadObject(c) ==
    /\ reader[c] # {}
    /\ reader' = [reader EXCEPT ![c] = {}]
    /\ UNCHANGED <<doc, submission, answer, attempt, remover, objects, crashes>>

-----------------------------------------------------------------------------
(* Crashes: of the process, of a store call or of a commit.  What was done   *)
(* stays done and the rest of the request is never run.                    *)

Crash ==
    /\ crashes < MaxCrashes
    /\ crashes' = crashes + 1
    /\ \/ \E d \in Docs :
            /\ submission[d] \in {"checked", "stored"}
            /\ submission' = [submission EXCEPT ![d] = "lost"]
            /\ UNCHANGED <<attempt, remover>>
       \/ \E d \in Docs :
            /\ AtWork(d)
            /\ AfterFailure(d, attempt[d].tries)
            /\ UNCHANGED <<submission, remover>>
       \/ \E x \in Removers :
            /\ remover[x].phase # "idle"
            /\ remover' = [remover EXCEPT ![x] = Resting]
            /\ UNCHANGED <<submission, attempt>>
    /\ UNCHANGED <<doc, answer, objects, reader>>

-----------------------------------------------------------------------------
Submitting(d) == SubmitCheck(d) \/ SubmitPut(d) \/ SubmitCommit(d)
Processing(d) ==
    AttemptStart(d) \/ Fetch(d) \/ AttemptFails(d) \/ PutResult(d) \/ Settle(d)
Removing(x) == Tombstone(x) \/ CheckInUse(x) \/ DeleteObject(x)

Next ==
    \/ \E d \in Docs : Submitting(d) \/ Processing(d) \/ Expire(d)
    \/ \E x \in Removers : LoadForDelete(x) \/ LoadForPurge(x) \/ Removing(x)
    \/ \E c \in Readers : ReadRow(c) \/ ReadObject(c)
    \/ Crash

Spec == Init /\ [][Next]_vars

\* A request that has begun goes on, workers keep working, and worker_main
\* starts a purge again and again.  Nobody has to submit or to delete.
FairSpec ==
    /\ Spec
    /\ \A d \in Docs : WF_vars(Submitting(d) /\ submission[d] # "new")
    /\ \A d \in Docs : WF_vars(Processing(d))
    /\ \A x \in Removers : WF_vars(Removing(x)) /\ WF_vars(LoadForPurge(x))

-----------------------------------------------------------------------------
(* Properties                                                              *)

\* Every key a live document names is in the store: a deletion never takes an
\* object that another live document shares, and no result is named that was
\* not kept (_safe_delete_objects against submit and _process).
\* Needs QuietStore.
LiveObjectsPresent == \A d \in Docs :
    Live(d) => Source[d] \in objects /\ doc[d].result \in objects \cup {NoKey}

Named(k) == \E d \in Docs : Live(d) /\ k \in {Source[d], doc[d].result}

\* When every request has come to its end, each object left is one a live
\* document names: deletion and retention leave nothing behind.
\* Needs DeletesWait, no crash, and no request that had put its object when
\* another of the same idempotency key was inserted first.
AtRest ==
    /\ \A d \in Docs : submission[d] \notin {"checked", "stored"} /\ ~AtWork(d)
    /\ \A x \in Removers : remover[x].phase = "idle"
NothingLeftBehind ==
    AtRest /\ crashes = 0 /\ (\A d \in Docs : submission[d] # "conceded")
        => \A k \in objects : Named(k)

\* Requests with one idempotency key are answered with one document, even if
\* they race between the lookup and the insert.
OneAnswerPerKey == \A d, e \in Docs :
    Idem[d] # NoIdem /\ Idem[d] = Idem[e] =>
      answer[d] = answer[e] \/ answer[d] = {} \/ answer[e] = {}

\* A request for a result fails for one reason only: the very document it asked
\* for has been deleted meanwhile, never the deletion or the expiry of another
\* one with the same result (result against _safe_delete_objects).
\* Needs QuietStore.
FailedReadsAreDeletions == \A c \in Readers : \A r \in reader[c] :
    r.key \notin objects => doc[r.doc].deleted

Erased(d) == \A k \in {Source[d], doc[d].result} \ {NoKey} :
    k \in objects => Named(k)

\* The objects of a deleted document go in the end, unless a live document
\* names them (delete_document and purge_expired call _safe_delete_objects).
\* Needs QuietStore and DeletesWait, and no crash.
DeletionErases == \A d \in Docs : doc[d].deleted ~> Erased(d)

\* Retention: a document past its date is tombstoned, whatever else runs
\* (purge_expired's batches).
RetentionEnforced == \A d \in Docs : doc[d].due ~> doc[d].deleted
=============================================================================
