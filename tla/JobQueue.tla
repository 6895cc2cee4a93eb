------------------------------ MODULE JobQueue ------------------------------
(***************************************************************************)
(* The database-backed lease queue of dzdoc_service: db.claim_job and the  *)
(* Worker of worker.py that runs what it claims.                           *)
(*                                                                         *)
(* The tables jobs and documents are shared by every worker process.  A    *)
(* worker takes no row lock and keeps no version column: each of its       *)
(* sessions READS rows, and later COMMITS what it assigned, so every       *)
(* session is two steps here and other workers run in between.  ORM        *)
(* updates go by primary key and write only the attributes whose value     *)
(* differs from the one loaded; that is why a session remembers what it    *)
(* read (tries, docSeen).                                                  *)
(*                                                                         *)
(* Clocks are abstracted to what the code compares: a lease is live or     *)
(* expired, a retry is due or not yet.  Jobs are numbered in the order of  *)
(* created_at; priority, never set by any caller, is left out.             *)
(***************************************************************************)
EXTENDS Naturals, FiniteSets

CONSTANTS Jobs,             \* jobs that may be submitted, by creation time
          Workers,          \* worker processes
          GpuJobs,          \* jobs submitted with capability "gpu"
          GpuWorkers,       \* workers started with --capability gpu
          MaxAttempts,      \* ServiceSettings.max_attempts
          CandidateLimit,   \* LIMIT of the candidate query (8 in the code)
          MaxCrashes,       \* bound: worker crashes in one behaviour
          LeaseOutlivesWork, \* no lease runs out under a worker still at it
          ShortSessions     \* no claim lands inside another worker's session

ASSUME JobsAssumption == Jobs \subseteq Nat \ {0}
ASSUME AttemptsAssumption == MaxAttempts \in Nat \ {0}
ASSUME LimitAssumption == CandidateLimit \in Nat \ {0}
ASSUME CrashesAssumption == MaxCrashes \in Nat
ASSUME TimingAssumption == /\ LeaseOutlivesWork \in BOOLEAN
                           /\ ShortSessions \in BOOLEAN

VARIABLES job,          \* rows of table jobs
          doc,          \* the row of table documents each job points to
          completions,  \* completions[j]: UsageRecord rows (and batches of
                        \* WebhookDelivery rows) committed for job j
          issued,       \* lease tokens drawn so far: none is ever drawn twice
          worker,       \* the local state of each worker process
          crashes       \* crashes so far

vars == <<job, doc, completions, issued, worker, crashes>>

NoJob == 0
NoToken == 0

JobStatus == {"absent", "queued", "processing", "succeeded", "dead_letter"}
DocStatus == {"absent", "queued", "succeeded", "failed", "deleted"}
Leases == {"none", "live", "expired"}

\* What the candidate query returns of a row.
Candidates == [job : Jobs, status : {"queued", "processing"},
               attempts : 0..(MaxAttempts - 1)]

\* Phases between the commit of a claim and the end of the attempt, and,
\* among them, the ones inside a database session on the claimed row.
Engaged == {"taken", "claimed", "working", "settling", "raised", "failing"}
InSession == {"taken", "settling", "failing"}

JobRows == [status : JobStatus, attempts : 0..MaxAttempts, token : Nat,
            lease : Leases, due : BOOLEAN]
DocRows == [status : DocStatus, deleted : BOOLEAN, result : Nat]
WorkerStates == [phase : {"idle", "claiming"} \cup Engaged,
                 rows : SUBSET Candidates, job : Jobs \cup {NoJob},
                 token : Nat, tries : Nat, docSeen : DocStatus]

TypeOK ==
    /\ job \in [Jobs -> JobRows]
    /\ doc \in [Jobs -> DocRows]
    /\ completions \in [Jobs -> Nat]
    /\ issued \in Nat
    /\ worker \in [Workers -> WorkerStates]
    /\ crashes \in Nat

-----------------------------------------------------------------------------
Idle == [phase |-> "idle", rows |-> {}, job |-> NoJob, token |-> NoToken,
         tries |-> 0, docSeen |-> "absent"]

Init ==
    /\ job = [j \in Jobs |-> [status |-> "absent", attempts |-> 0,
                              token |-> NoToken, lease |-> "none", due |-> TRUE]]
    /\ doc = [j \in Jobs |-> [status |-> "absent", deleted |-> FALSE,
                              result |-> 0]]
    /\ completions = [j \in Jobs |-> 0]
    /\ issued = 0
    /\ worker = [w \in Workers |-> Idle]
    /\ crashes = 0

-----------------------------------------------------------------------------
(* The rest of the platform, as the queue sees it.                         *)

\* submit commits the document and its job in one transaction.
Submit(j) ==
    /\ job[j].status = "absent"
    /\ job' = [job EXCEPT ![j].status = "queued"]
    /\ doc' = [doc EXCEPT ![j].status = "queued"]
    /\ UNCHANGED <<completions, issued, worker, crashes>>

\* delete_document or purge_expired tombstones the document; neither looks
\* at the job.
Tombstone(j) ==
    /\ doc[j].status # "absent" /\ ~doc[j].deleted
    /\ doc' = [doc EXCEPT ![j] = [@ EXCEPT !.deleted = TRUE, !.status = "deleted"]]
    /\ UNCHANGED <<job, completions, issued, worker, crashes>>

\* The clock passes lease_expires_at.  LeaseOutlivesWork is the assumption
\* that lease_seconds exceeds every attempt: then only the lease of a worker
\* that is gone runs out.
LeaseExpires(j) ==
    /\ job[j].status = "processing" /\ job[j].lease = "live"
    /\ LeaseOutlivesWork =>
         \A w \in Workers : ~(worker[w].phase \in Engaged /\ worker[w].job = j)
    /\ job' = [job EXCEPT ![j].lease = "expired"]
    /\ UNCHANGED <<doc, completions, issued, worker, crashes>>

\* The clock passes available_at.
BackoffElapses(j) ==
    /\ ~job[j].due
    /\ job' = [job EXCEPT ![j].due = TRUE]
    /\ UNCHANGED <<doc, completions, issued, worker, crashes>>

-----------------------------------------------------------------------------
(* claim_job: a SELECT of candidates, then one conditional UPDATE per      *)
(* candidate until one of them matches a row.                              *)

\* Mutant of AttemptsLeft: off by one.
AttemptsLeft_OneMore(j) == job[j].attempts <= MaxAttempts
AttemptsLeft(j) == job[j].attempts < MaxAttempts

\* Mutants of LeaseOver: a live lease counts as over; an expired one does not.
LeaseOver_Ignored(j) == job[j].lease # "none"
LeaseOver_Never(j) == job[j].lease = "none"
LeaseOver(j) == job[j].lease = "expired"

Claimable(w, j) ==
    /\ (j \in GpuJobs) <=> (w \in GpuWorkers)
    /\ AttemptsLeft(j)
    /\ job[j].due
    /\ \/ job[j].status = "queued"
       \/ job[j].status = "processing" /\ LeaseOver(j)

\* The oldest claimable jobs, at most CandidateLimit of them.
Eligible(w) ==
    {j \in Jobs :
        /\ Claimable(w, j)
        /\ Cardinality({i \in Jobs : Claimable(w, i) /\ i < j}) < CandidateLimit}

SelectCandidates(w) ==
    /\ worker[w].phase = "idle"
    /\ Eligible(w) # {}
    /\ worker' = [worker EXCEPT
         ![w] = [@ EXCEPT
                   !.phase = "claiming",
                   !.rows = {[job |-> j, status |-> job[j].status,
                              attempts |-> job[j].attempts] : j \in Eligible(w)}]]
    /\ UNCHANGED <<job, doc, completions, issued, crashes>>

\* The candidate the loop is at: the oldest one not tried yet.
Oldest(rows, r) == r \in rows /\ \A q \in rows : r.job <= q.job

\* Mutants of RowUnchanged: one of the two comparisons is forgotten.
RowUnchanged_StatusOnly(r) == job[r.job].status = r.status
RowUnchanged_CountOnly(r) == job[r.job].attempts = r.attempts
\* The WHERE clause of the conditional UPDATE.
RowUnchanged(r) ==
    /\ job[r.job].status = r.status
    /\ job[r.job].attempts = r.attempts

ClaimWon(w, r) ==
    /\ RowUnchanged(r)
    /\ issued' = issued + 1
    /\ job' = [job EXCEPT ![r.job] = [status |-> "processing",
                                      attempts |-> r.attempts + 1,
                                      token |-> issued + 1,
                                      lease |-> "live",
                                      due |-> @.due]]
    /\ worker' = [worker EXCEPT ![w] = [@ EXCEPT !.phase = "taken",
                                                 !.rows = {},
                                                 !.job = r.job,
                                                 !.token = issued + 1]]

ClaimLost(w, r) ==
    /\ ~RowUnchanged(r)
    /\ \/ worker[w].rows = {r} /\ worker' = [worker EXCEPT ![w] = Idle]
       \/ worker[w].rows # {r} /\ worker' = [worker EXCEPT ![w].rows = @ \ {r}]
    /\ UNCHANGED <<job, issued>>

\* ShortSessions is the assumption that a session on the row is over before
\* any other worker's UPDATE reaches it; the code does not enforce it.
Undisturbed(w, j) ==
    ShortSessions => \A v \in Workers \ {w} :
        ~(worker[v].phase \in InSession /\ worker[v].job = j)

TryClaim(w) ==
    /\ worker[w].phase = "claiming"
    /\ \E r \in worker[w].rows :
         /\ Oldest(worker[w].rows, r)
         /\ Undisturbed(w, r.job)
         /\ ClaimWon(w, r) \/ ClaimLost(w, r)
    /\ UNCHANGED <<doc, completions, crashes>>

\* claim_job returns session.get after its commit: the row is read afresh,
\* and run_once passes on whatever lease token it holds by now.
ReadBack(w) ==
    /\ worker[w].phase = "taken"
    /\ worker' = [worker EXCEPT
         ![w] = [@ EXCEPT !.phase = "claimed", !.token = job[worker[w].job].token]]
    /\ UNCHANGED <<job, doc, completions, issued, crashes>>

-----------------------------------------------------------------------------
(* Worker._process                                                         *)

\* Mutant of Owns: any lease on the row will do.
Owns_AnyLease(w) ==
    /\ worker[w].token # NoToken
    /\ job[worker[w].job].token # NoToken
\* job.lease_token == lease_token, for a token that is one.
Owns(w) ==
    /\ worker[w].token # NoToken
    /\ job[worker[w].job].token = worker[w].token

\* A session that will call _fail has loaded the job and its document.
LoadForFail(w) ==
    worker' = [worker EXCEPT
        ![w] = [@ EXCEPT !.phase = "failing",
                         !.tries = job[worker[w].job].attempts,
                         !.docSeen = doc[worker[w].job].status]]

\* The first session: give up, fail with document_missing, or go to work.
Begin(w) ==
    LET j == worker[w].job IN
    /\ worker[w].phase = "claimed"
    /\ \/ /\ ~(Owns(w) /\ job[j].status = "processing")
          /\ worker' = [worker EXCEPT ![w] = Idle]
       \/ /\ Owns(w) /\ job[j].status = "processing" /\ doc[j].deleted
          /\ LoadForFail(w)
       \/ /\ Owns(w) /\ job[j].status = "processing" /\ ~doc[j].deleted
          /\ worker' = [worker EXCEPT ![w].phase = "working"]
    /\ UNCHANGED <<job, doc, completions, issued, crashes>>

\* The pipeline has run and its result is stored: the second session reads
\* the rows.  It compares the token and nothing else.
SettleRead(w) ==
    /\ worker[w].phase = "working"
    /\ \/ /\ Owns(w)
          /\ worker' = [worker EXCEPT
               ![w] = [@ EXCEPT !.phase = "settling",
                                !.docSeen = doc[worker[w].job].status]]
       \/ ~Owns(w) /\ worker' = [worker EXCEPT ![w] = Idle]
    /\ UNCHANGED <<job, doc, completions, issued, crashes>>

\* What documents.status holds once w has flushed new: the attribute is
\* written only if new differs from the value w loaded.
Flushed(w, new) ==
    IF worker[w].docSeen = new THEN doc[worker[w].job].status ELSE new

\* Mutant of EndAttempt: the commit is sent again.
EndAttempt_Resend(w) == worker' = [worker EXCEPT ![w].rows = {}]
EndAttempt(w) == worker' = [worker EXCEPT ![w] = Idle]

SettleCommit(w) ==
    LET j == worker[w].job IN
    /\ worker[w].phase = "settling"
    /\ job' = [job EXCEPT ![j] = [@ EXCEPT !.status = "succeeded",
                                           !.token = NoToken, !.lease = "none"]]
    /\ doc' = [doc EXCEPT
         ![j] = [@ EXCEPT !.status = Flushed(w, "succeeded"),
                          !.result = worker[w].token]]
    /\ completions' = [completions EXCEPT ![j] = @ + 1]
    /\ EndAttempt(w)
    /\ UNCHANGED <<issued, crashes>>

\* Anything the try block runs may raise, the commit included.
Raise(w) ==
    /\ worker[w].phase \in {"working", "settling"}
    /\ worker' = [worker EXCEPT ![w].phase = "raised"]
    /\ UNCHANGED <<job, doc, completions, issued, crashes>>

\* The session of the except clause compares the token again.
FailRead(w) ==
    /\ worker[w].phase = "raised"
    /\ \/ Owns(w) /\ LoadForFail(w)
       \/ ~Owns(w) /\ worker' = [worker EXCEPT ![w] = Idle]
    /\ UNCHANGED <<job, doc, completions, issued, crashes>>

\* _fail: the verdict follows the attempt count that was loaded.
\* Mutant of LastTry: off by one.
LastTry_OneMore(w) == worker[w].tries > MaxAttempts
LastTry(w) == worker[w].tries >= MaxAttempts

FailCommit(w) ==
    LET j == worker[w].job IN
    /\ worker[w].phase = "failing"
    /\ \/ /\ LastTry(w)
          /\ job' = [job EXCEPT ![j] = [@ EXCEPT !.status = "dead_letter",
                                                 !.token = NoToken,
                                                 !.lease = "none"]]
          /\ doc' = [doc EXCEPT ![j].status = Flushed(w, "failed")]
       \/ /\ ~LastTry(w)
          /\ job' = [job EXCEPT ![j] = [@ EXCEPT !.status = "queued",
                                                 !.token = NoToken,
                                                 !.lease = "none",
                                                 !.due = FALSE]]
          /\ doc' = [doc EXCEPT ![j].status = Flushed(w, "queued")]
    /\ EndAttempt(w)
    /\ UNCHANGED <<completions, issued, crashes>>

\* The process dies, or an exception leaves run_once, and it is restarted.
Crash(w) ==
    /\ worker[w].phase # "idle"
    /\ crashes < MaxCrashes
    /\ crashes' = crashes + 1
    /\ worker' = [worker EXCEPT ![w] = Idle]
    /\ UNCHANGED <<job, doc, completions, issued>>

-----------------------------------------------------------------------------
\* One turn of a worker's loop, a step at a time.
Work(w) ==
    \/ SelectCandidates(w) \/ TryClaim(w) \/ ReadBack(w) \/ Begin(w)
    \/ SettleRead(w) \/ SettleCommit(w) \/ Raise(w)
    \/ FailRead(w) \/ FailCommit(w)

Clock(j) == LeaseExpires(j) \/ BackoffElapses(j)

Next ==
    \/ \E j \in Jobs : Submit(j) \/ Tombstone(j) \/ Clock(j)
    \/ \E w \in Workers : Work(w) \/ Crash(w)

Spec == Init /\ [][Next]_vars

\* Workers keep looping (worker_main, run_worker) and clocks keep running.
\* Nobody has to submit, delete or crash.
Fairness ==
    /\ \A w \in Workers : WF_vars(Work(w))
    /\ \A j \in Jobs : WF_vars(Clock(j))

FairSpec == Spec /\ Fairness

-----------------------------------------------------------------------------
(* Properties.  Which of them need which timing assumption is said with    *)
(* each; the runs and JobQueue_proofs pair them up.                        *)

Ended == {"succeeded", "dead_letter"}

\* A usage record is written once for a job that succeeded and never for one
\* that did not (_process, the token check before the commit), although a
\* slow worker may come back after its job was taken over.
\* Needs LeaseOutlivesWork or ShortSessions.
BilledOnce == \A j \in Jobs :
    completions[j] = IF job[j].status = "succeeded" THEN 1 ELSE 0

MirrorOf == [absent |-> "absent", queued |-> "queued", processing |-> "queued",
             succeeded |-> "succeeded", dead_letter |-> "failed"]

\* The two tables tell one story: a live document is succeeded, failed or
\* queued as its job is succeeded, dead or still pending, and only a job that
\* succeeded leaves a result key (_process, _fail write both rows).
\* Needs LeaseOutlivesWork or ShortSessions.
DocMirrorsJob == \A j \in Jobs :
    /\ ~doc[j].deleted => doc[j].status = MirrorOf[job[j].status]
    /\ doc[j].result # 0 <=> job[j].status = "succeeded"

\* Two workers are never at work on one job at the same time (claim_job's
\* conditional UPDATE against candidate lists read earlier).
\* Needs LeaseOutlivesWork.
ExclusiveAttempt == \A w, v \in Workers :
    /\ worker[w].phase \in Engaged /\ worker[v].phase \in Engaged
    /\ worker[w].job = worker[v].job
    => w = v

\* A job is billed at most once per attempt it was given, and is dead-lettered
\* only when its attempts are used up: this much survives any timing.
NoFreeBills == \A j \in Jobs :
    /\ completions[j] <= job[j].attempts
    /\ job[j].status = "dead_letter" => job[j].attempts = MaxAttempts

\* What has ended never runs again: a late worker does not put a finished job
\* back in the queue.  Needs LeaseOutlivesWork or ShortSessions.
EndedStaysEnded ==
    [][\A j \in Jobs : job[j].status \in Ended => job'[j].status = job[j].status]_vars

\* A claim takes a row that is claimable NOW, although its candidate list was
\* read some time ago: attempts remain, and the row is queued or its lease
\* has run out (claim_job's UPDATE compares status and attempt_count
\* only).  Holds under any timing.
ClaimsOnlyClaimable ==
    [][\A j \in Jobs :
         job'[j].token \notin {NoToken, job[j].token} =>
           /\ job[j].attempts < MaxAttempts
           /\ job'[j].attempts = job[j].attempts + 1
           /\ \/ job[j].status = "queued"
              \/ job[j].status = "processing" /\ job[j].lease = "expired"]_vars

\* Some worker can run the job at all.
Servable(j) == \E w \in Workers : (j \in GpuJobs) <=> (w \in GpuWorkers)
Pending(j) == job[j].status \in {"queued", "processing"}

\* Nobody works on the job's last attempt any more.
Abandoned(j) ==
    /\ job[j].status = "processing" /\ job[j].attempts = MaxAttempts
    /\ \A w \in Workers : ~(worker[w].phase \in Engaged /\ worker[w].job = j)

\* Every submitted job that some worker can run ends, succeeded or
\* dead-lettered: _fail applies the retry limit, and lease expiry brings back
\* what a crash interrupted.  The exception is a crash during the last attempt,
\* after which claim_job does not look at the row again.
\* Needs LeaseOutlivesWork or ShortSessions.
EndsUnlessAbandoned ==
    \A j \in Jobs : Servable(j) /\ Pending(j)
        ~> job[j].status \in Ended \/ (crashes > 0 /\ Abandoned(j))

\* The same without the exception: leases, retry limits and dead-letter
\* status make the queue safe (docs/architecture/platform.md).
EveryJobEnds ==
    \A j \in Jobs : Servable(j) /\ Pending(j) ~> job[j].status \in Ended

\* Refinement: where each row stands in the life JobLifecycle describes.
PhaseOf == [absent |-> "absent", queued |-> "waiting", processing |-> "granted",
            succeeded |-> "done", dead_letter |-> "dead"]
Phase == [j \in Jobs |-> PhaseOf[job[j].status]]
Tries == [j \in Jobs |-> job[j].attempts]

Lifecycle == INSTANCE JobLifecycle WITH
    phase <- Phase, tries <- Tries, bills <- completions

\* The queue implements the promise of JobLifecycle: claim_job grants, _process
\* completes, _fail gives back or buries, and nothing else touches a job.
\* Needs LeaseOutlivesWork or ShortSessions.
KeepsPromise == Lifecycle!LSpec
=============================================================================
