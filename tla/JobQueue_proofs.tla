--------------------------- MODULE JobQueue_proofs ---------------------------
(***************************************************************************)
(* Proofs about JobQueue, for any jobs, workers, limits and crash budget.  *)
(***************************************************************************)
EXTENDS JobQueue, TLAPS

(***************************************************************************)
(* Type correctness holds under any timing.  The type invariant is         *)
(* inductive once it says that an engaged worker has a job.                *)
(***************************************************************************)
EngagedHasJob ==
    \A w \in Workers : worker[w].phase \in Engaged => worker[w].job \in Jobs

Typed == TypeOK /\ EngagedHasJob

LEMMA IdleTyped == Idle \in WorkerStates
  BY DEF Idle, WorkerStates, NoJob, NoToken, DocStatus

LEMMA InitTyped == Init => Typed
  <1> SUFFICES ASSUME Init PROVE Typed
    OBVIOUS
  <1>1. job \in [Jobs -> JobRows]
    BY AttemptsAssumption DEF Init, JobRows, JobStatus, Leases, NoToken
  <1>2. doc \in [Jobs -> DocRows]
    BY DEF Init, DocRows, DocStatus
  <1>3. worker \in [Workers -> WorkerStates]
    BY IdleTyped DEF Init
  <1>4. EngagedHasJob
    BY DEF Init, EngagedHasJob, Engaged, Idle
  <1> QED BY <1>1, <1>2, <1>3, <1>4 DEF Init, Typed, TypeOK

(***************************************************************************)
(* A step that changes one worker only.                                    *)
(***************************************************************************)
LEMMA WorkerStepTyped ==
  ASSUME Typed, UNCHANGED <<job, doc, completions, issued>>,
         crashes' \in Nat,
         NEW w \in Workers, NEW s \in WorkerStates,
         s.phase \in Engaged => s.job \in Jobs,
         worker' = [worker EXCEPT ![w] = s]
  PROVE  Typed'
  <1>1. worker' \in [Workers -> WorkerStates]
    BY DEF Typed, TypeOK
  <1>2. EngagedHasJob'
    BY DEF Typed, TypeOK, EngagedHasJob
  <1> QED BY <1>1, <1>2 DEF Typed, TypeOK

LEMMA NextTyped == Typed /\ [Next]_vars => Typed'
  <1> SUFFICES ASSUME Typed, [Next]_vars PROVE Typed'
    OBVIOUS
  <1>0. /\ job \in [Jobs -> JobRows] /\ doc \in [Jobs -> DocRows]
        /\ worker \in [Workers -> WorkerStates]
        /\ completions \in [Jobs -> Nat] /\ issued \in Nat /\ crashes \in Nat
        /\ EngagedHasJob
    BY DEF Typed, TypeOK
  <1>idle. /\ Idle \in WorkerStates
           /\ Idle.phase \notin Engaged
    BY IdleTyped DEF Idle, Engaged
  <1>1. ASSUME NEW j \in Jobs, Submit(j) PROVE Typed'
    <2>1. job' \in [Jobs -> JobRows]
      BY <1>0, <1>1 DEF Submit, JobRows, JobStatus
    <2>2. doc' \in [Jobs -> DocRows]
      BY <1>0, <1>1 DEF Submit, DocRows, DocStatus
    <2> QED BY <1>0, <1>1, <2>1, <2>2 DEF Submit, Typed, TypeOK, EngagedHasJob
  <1>2. ASSUME NEW j \in Jobs, Tombstone(j) PROVE Typed'
    <2>1. doc' \in [Jobs -> DocRows]
      BY <1>0, <1>2 DEF Tombstone, DocRows, DocStatus
    <2> QED BY <1>0, <1>2, <2>1 DEF Tombstone, Typed, TypeOK, EngagedHasJob
  <1>3. ASSUME NEW j \in Jobs, LeaseExpires(j) PROVE Typed'
    <2>1. job' \in [Jobs -> JobRows]
      BY <1>0, <1>3 DEF LeaseExpires, JobRows, Leases
    <2> QED BY <1>0, <1>3, <2>1 DEF LeaseExpires, Typed, TypeOK, EngagedHasJob
  <1>4. ASSUME NEW j \in Jobs, BackoffElapses(j) PROVE Typed'
    <2>1. job' \in [Jobs -> JobRows]
      BY <1>0, <1>4 DEF BackoffElapses, JobRows
    <2> QED BY <1>0, <1>4, <2>1 DEF BackoffElapses, Typed, TypeOK, EngagedHasJob
  <1>5. ASSUME NEW w \in Workers, SelectCandidates(w) PROVE Typed'
    <2> DEFINE rows == {[job |-> j, status |-> job[j].status,
                         attempts |-> job[j].attempts] : j \in Eligible(w)}
    <2> DEFINE s == [worker[w] EXCEPT !.phase = "claiming", !.rows = rows]
    <2>1. rows \subseteq Candidates
      <3> SUFFICES ASSUME NEW j \in Jobs, Claimable(w, j)
                   PROVE [job |-> j, status |-> job[j].status,
                          attempts |-> job[j].attempts] \in Candidates
        BY DEF Eligible
      <3>1. job[j].attempts \in 0..MaxAttempts
        BY <1>0 DEF JobRows
      <3>2. job[j].attempts \in 0..(MaxAttempts - 1)
        BY <3>1, AttemptsAssumption DEF Claimable, AttemptsLeft
      <3> QED BY <3>2 DEF Claimable, Candidates
    <2>2. s \in WorkerStates /\ s.phase = "claiming"
      BY <1>0, <2>1 DEF WorkerStates
    <2>3. worker' = [worker EXCEPT ![w] = s]
      BY <1>5 DEF SelectCandidates
    <2> HIDE DEF s, rows
    <2> QED BY <1>0, <1>5, <2>2, <2>3, WorkerStepTyped
            DEF SelectCandidates, Engaged
  <1>6. ASSUME NEW w \in Workers, TryClaim(w) PROVE Typed'
    <2>1. PICK r \in worker[w].rows : ClaimWon(w, r) \/ ClaimLost(w, r)
      BY <1>6 DEF TryClaim
    <2>2. /\ r \in Candidates
          /\ worker[w].phase = "claiming"
      BY <1>0, <1>6 DEF WorkerStates, TryClaim
    <2>3. UNCHANGED <<doc, completions, crashes>>
      BY <1>6 DEF TryClaim
    <2>4. CASE ClaimWon(w, r)
      <3>1. /\ r.job \in Jobs /\ r.attempts + 1 \in 0..MaxAttempts
        BY <2>2, AttemptsAssumption DEF Candidates
      <3>2. job' \in [Jobs -> JobRows]
        BY <1>0, <2>4, <3>1 DEF ClaimWon, JobRows, JobStatus, Leases
      <3> DEFINE s == [worker[w] EXCEPT !.phase = "taken", !.rows = {},
                                        !.job = r.job, !.token = issued + 1]
      <3>3. s \in WorkerStates /\ s.job \in Jobs
        <4>1. /\ "taken" \in {"idle", "claiming"} \cup Engaged
              /\ {} \in SUBSET Candidates
              /\ issued + 1 \in Nat
          BY <1>0 DEF Engaged
        <4>2. worker[w] \in WorkerStates
          BY <1>0
        <4> QED BY <3>1, <4>1, <4>2 DEF WorkerStates
      <3>4. worker' = [worker EXCEPT ![w] = s]
        BY <2>4 DEF ClaimWon
      <3> HIDE DEF s
      <3>5. worker' \in [Workers -> WorkerStates] /\ EngagedHasJob'
        BY <1>0, <3>3, <3>4 DEF EngagedHasJob
      <3> QED BY <1>0, <2>3, <2>4, <3>2, <3>5 DEF ClaimWon, Typed, TypeOK
    <2>5. CASE ClaimLost(w, r)
      <3> DEFINE s == [worker[w] EXCEPT !.rows = worker[w].rows \ {r}]
      <3>1. s \in WorkerStates /\ s.phase \notin Engaged
        BY <1>0, <2>2 DEF WorkerStates, Engaged
      <3>2. \/ worker' = [worker EXCEPT ![w] = s]
            \/ worker' = [worker EXCEPT ![w] = Idle]
        BY <2>5 DEF ClaimLost
      <3> HIDE DEF s
      <3> QED BY <1>0, <1>idle, <2>3, <2>5, <3>1, <3>2, WorkerStepTyped
              DEF ClaimLost
    <2> QED BY <2>1, <2>4, <2>5
  <1>7. ASSUME NEW w \in Workers, ReadBack(w) PROVE Typed'
    <2> DEFINE s == [worker[w] EXCEPT !.phase = "claimed",
                                      !.token = job[worker[w].job].token]
    <2>1. worker[w].job \in Jobs
      BY <1>0, <1>7 DEF ReadBack, EngagedHasJob, Engaged
    <2>2. job[worker[w].job].token \in Nat
      BY <1>0, <2>1 DEF JobRows
    <2>3. s \in WorkerStates /\ s.job \in Jobs
      BY <1>0, <2>1, <2>2 DEF WorkerStates, Engaged
    <2>4. worker' = [worker EXCEPT ![w] = s]
      BY <1>7 DEF ReadBack
    <2> HIDE DEF s
    <2> QED BY <1>0, <1>7, <2>3, <2>4, WorkerStepTyped DEF ReadBack
  <1>load. ASSUME NEW w \in Workers, worker[w].phase \in Engaged, LoadForFail(w),
                  UNCHANGED <<job, doc, completions, issued, crashes>>
           PROVE  Typed'
    <2> DEFINE s == [worker[w] EXCEPT !.phase = "failing",
                                      !.tries = job[worker[w].job].attempts,
                                      !.docSeen = doc[worker[w].job].status]
    <2>1. worker[w].job \in Jobs
      BY <1>0, <1>load DEF EngagedHasJob
    <2>2. job[worker[w].job].attempts \in Nat
      BY <1>0, <2>1, AttemptsAssumption DEF JobRows
    <2>3. doc[worker[w].job].status \in DocStatus
      BY <1>0, <2>1 DEF DocRows
    <2>4. s \in WorkerStates /\ s.job \in Jobs
      BY <1>0, <2>1, <2>2, <2>3 DEF WorkerStates, Engaged
    <2>5. worker' = [worker EXCEPT ![w] = s]
      BY <1>load DEF LoadForFail
    <2> HIDE DEF s
    <2> QED BY <1>0, <1>load, <2>4, <2>5, WorkerStepTyped
  <1>rest. ASSUME NEW w \in Workers, worker' = [worker EXCEPT ![w] = Idle],
                  UNCHANGED <<job, doc, completions, issued>>, crashes' \in Nat
           PROVE  Typed'
    BY <1>0, <1>rest, <1>idle, WorkerStepTyped
  <1>move. ASSUME NEW w \in Workers, NEW p \in Engaged, worker[w].phase \in Engaged,
                  worker' = [worker EXCEPT ![w].phase = p],
                  UNCHANGED <<job, doc, completions, issued, crashes>>
           PROVE  Typed'
    <2> DEFINE s == [worker[w] EXCEPT !.phase = p]
    <2>1. worker[w].job \in Jobs
      BY <1>0, <1>move DEF EngagedHasJob
    <2>2. s \in WorkerStates /\ s.job \in Jobs
      BY <1>0, <2>1 DEF WorkerStates
    <2>3. worker' = [worker EXCEPT ![w] = s]
      BY <1>move
    <2> HIDE DEF s
    <2> QED BY <1>0, <1>move, <2>2, <2>3, WorkerStepTyped
  <1>8. ASSUME NEW w \in Workers, Begin(w) PROVE Typed'
    BY <1>0, <1>8, <1>load, <1>rest, <1>move DEF Begin, Engaged
  <1>9. ASSUME NEW w \in Workers, SettleRead(w) PROVE Typed'
    <2> DEFINE s == [worker[w] EXCEPT !.phase = "settling",
                                      !.docSeen = doc[worker[w].job].status]
    <2>1. worker[w].job \in Jobs
      BY <1>0, <1>9 DEF SettleRead, EngagedHasJob, Engaged
    <2>2. doc[worker[w].job].status \in DocStatus
      BY <1>0, <2>1 DEF DocRows
    <2>3. s \in WorkerStates /\ s.job \in Jobs
      BY <1>0, <2>1, <2>2 DEF WorkerStates, Engaged
    <2>4. worker' = [worker EXCEPT ![w] = s] \/ worker' = [worker EXCEPT ![w] = Idle]
      BY <1>9 DEF SettleRead
    <2> HIDE DEF s
    <2> QED BY <1>0, <1>9, <1>rest, <2>3, <2>4, WorkerStepTyped DEF SettleRead
  <1>commit. ASSUME NEW w \in Workers, worker[w].phase \in Engaged,
                    worker' = [worker EXCEPT ![w] = Idle],
                    job' \in [Jobs -> JobRows], doc' \in [Jobs -> DocRows],
                    completions' \in [Jobs -> Nat], UNCHANGED <<issued, crashes>>
             PROVE  Typed'
    <2>1. worker' \in [Workers -> WorkerStates] /\ EngagedHasJob'
      BY <1>0, <1>idle, <1>commit DEF EngagedHasJob
    <2> QED BY <1>0, <1>commit, <2>1 DEF Typed, TypeOK
  <1>10. ASSUME NEW w \in Workers, SettleCommit(w) PROVE Typed'
    <2>1. worker[w].job \in Jobs /\ worker[w].token \in Nat
      BY <1>0, <1>10 DEF SettleCommit, EngagedHasJob, Engaged, WorkerStates
    <2>2. job' \in [Jobs -> JobRows]
      <3> DEFINE row == [job[worker[w].job] EXCEPT
                           !.status = "succeeded", !.token = NoToken, !.lease = "none"]
      <3>1. job[worker[w].job] \in JobRows
        BY <1>0, <2>1
      <3>2. row \in JobRows
        BY <3>1 DEF JobRows, JobStatus, Leases, NoToken
      <3>3. job' = [job EXCEPT ![worker[w].job] = row]
        BY <1>10 DEF SettleCommit
      <3> HIDE DEF row
      <3> QED BY <1>0, <2>1, <3>2, <3>3
    <2>3. doc' \in [Jobs -> DocRows]
      <3>1. Flushed(w, "succeeded") \in DocStatus
        BY <1>0, <2>1 DEF Flushed, DocRows, DocStatus
      <3> QED BY <1>0, <1>10, <2>1, <3>1 DEF SettleCommit, DocRows
    <2>4. completions' \in [Jobs -> Nat]
      BY <1>0, <1>10, <2>1 DEF SettleCommit
    <2> QED BY <1>10, <1>commit, <2>2, <2>3, <2>4
            DEF SettleCommit, EndAttempt, Engaged
  <1>11. ASSUME NEW w \in Workers, Raise(w) PROVE Typed'
    BY <1>11, <1>move DEF Raise, Engaged
  <1>12. ASSUME NEW w \in Workers, FailRead(w) PROVE Typed'
    BY <1>0, <1>12, <1>load, <1>rest DEF FailRead, Engaged
  <1>13. ASSUME NEW w \in Workers, FailCommit(w) PROVE Typed'
    <2>1. worker[w].job \in Jobs
      BY <1>0, <1>13 DEF FailCommit, EngagedHasJob, Engaged
    <2>2. job' \in [Jobs -> JobRows]
      <3> DEFINE row(st, due) == [job[worker[w].job] EXCEPT
                                    !.status = st, !.token = NoToken,
                                    !.lease = "none", !.due = due]
                 dead == [job[worker[w].job] EXCEPT
                            !.status = "dead_letter", !.token = NoToken,
                            !.lease = "none"]
      <3>1. row("queued", FALSE) \in JobRows /\ dead \in JobRows
        <4>1. job[worker[w].job] \in JobRows
          BY <1>0, <2>1
        <4> QED BY <4>1 DEF JobRows, JobStatus, Leases, NoToken
      <3>2. \/ job' = [job EXCEPT ![worker[w].job] = dead]
            \/ job' = [job EXCEPT ![worker[w].job] = row("queued", FALSE)]
        BY <1>13 DEF FailCommit
      <3> HIDE DEF row, dead
      <3> QED BY <1>0, <3>1, <3>2
    <2>3. doc' \in [Jobs -> DocRows]
      <3>1. Flushed(w, "failed") \in DocStatus /\ Flushed(w, "queued") \in DocStatus
        BY <1>0, <2>1 DEF Flushed, DocRows, DocStatus
      <3> QED BY <1>0, <1>13, <2>1, <3>1 DEF FailCommit, DocRows
    <2> QED BY <1>0, <1>13, <1>commit, <2>2, <2>3
            DEF FailCommit, EndAttempt, Engaged
  <1>14. ASSUME NEW w \in Workers, Crash(w) PROVE Typed'
    <2>1. crashes' \in Nat
      BY <1>0, <1>14 DEF Crash
    <2> QED BY <1>14, <1>rest, <2>1 DEF Crash
  <1>15. CASE UNCHANGED vars
    BY <1>0, <1>15 DEF vars, Typed, TypeOK, EngagedHasJob
  <1> QED
    BY <1>1, <1>2, <1>3, <1>4, <1>5, <1>6, <1>7, <1>8, <1>9, <1>10, <1>11,
       <1>12, <1>13, <1>14, <1>15
    DEF Next, Clock, Work

\* Every row, every worker and every counter keeps its type, whatever the
\* timing and however often workers crash.
THEOREM TypeCorrect == Spec => []TypeOK
  <1>1. Typed => TypeOK
    BY DEF Typed
  <1> QED BY InitTyped, NextTyped, <1>1, PTL DEF Spec

-----------------------------------------------------------------------------
(***************************************************************************)
(* The fence.  If no lease runs out under a working worker, or no claim    *)
(* lands inside a session of another worker, then a worker that is inside  *)
(* a session on its job still owns the job: the read-check-commit sequence *)
(* of _process behaves as one conditional update.                          *)
(***************************************************************************)
Timely == LeaseOutlivesWork \/ ShortSessions

\* The three columns that say a job is taken agree.
RowsAgree == \A j \in Jobs :
    /\ job[j].status = "processing" <=> job[j].token # NoToken
    /\ job[j].status = "processing" <=> job[j].lease # "none"
    /\ job[j].token <= issued

\* Every attempt goes by a token of its own.
TokensApart ==
    /\ \A w \in Workers : worker[w].phase \in Engaged =>
         worker[w].token # NoToken /\ worker[w].token <= issued
    /\ \A w, v \in Workers :
         /\ worker[w].phase \in Engaged /\ worker[v].phase \in Engaged
         /\ worker[w].token = worker[v].token
         => w = v

SessionsOwn == \A w \in Workers : worker[w].phase \in InSession => Owns(w)

AmpleLeases == LeaseOutlivesWork => \A w \in Workers :
    worker[w].phase \in Engaged =>
      Owns(w) /\ job[worker[w].job].lease = "live"

\* A candidate list is old, but attempt counts only grow, and a lease seen
\* expired stays expired until the next attempt.
CandidatesAge == \A w \in Workers : \A r \in worker[w].rows :
    /\ r.attempts <= job[r.job].attempts
    /\ r.status = "processing" /\ RowUnchanged(r) => job[r.job].lease = "expired"

Fence == /\ Typed /\ RowsAgree /\ TokensApart /\ SessionsOwn
         /\ AmpleLeases /\ CandidatesAge /\ BilledOnce

LEMMA InitFence == Init => Fence
  <1> SUFFICES ASSUME Init PROVE Fence
    OBVIOUS
  <1>1. \A w \in Workers : worker[w].phase \notin Engaged /\ worker[w].rows = {}
    BY DEF Init, Idle, Engaged
  <1>2. RowsAgree /\ BilledOnce
    BY DEF Init, RowsAgree, BilledOnce, NoToken
  <1>3. TokensApart /\ SessionsOwn /\ AmpleLeases /\ CandidatesAge
    BY <1>1 DEF TokensApart, SessionsOwn, AmpleLeases, CandidatesAge,
                Engaged, InSession
  <1> QED BY InitTyped, <1>2, <1>3 DEF Fence

\* A worker that drops its attempt, or part of its list, disturbs nobody.
LEMMA DropFence ==
  ASSUME Fence, Typed', UNCHANGED <<job, completions, issued>>,
         NEW w \in Workers, NEW s, worker' = [worker EXCEPT ![w] = s],
         s.phase \notin Engaged, s.rows \subseteq worker[w].rows
  PROVE  Fence'
  <1>1. /\ worker'[w] = s
        /\ \A v \in Workers : v # w => worker'[v] = worker[v]
    BY DEF Fence, Typed, TypeOK
  <1>2. \A v \in Workers : worker'[v].phase \in Engaged =>
          v # w /\ worker'[v] = worker[v]
    BY <1>1
  <1>3. RowsAgree' /\ BilledOnce'
    BY DEF Fence, RowsAgree, BilledOnce
  <1>4. TokensApart'
    BY <1>2 DEF Fence, TokensApart
  <1>5. SessionsOwn' /\ AmpleLeases'
    BY <1>2 DEF Fence, SessionsOwn, AmpleLeases, Owns, Engaged, InSession
  <1>6. CandidatesAge'
    BY <1>1 DEF Fence, CandidatesAge, RowUnchanged
  <1> QED BY <1>3, <1>4, <1>5, <1>6 DEF Fence

\* A worker that moves on within its attempt, and enters a session only on a
\* row it owns.
LEMMA MoveFence ==
  ASSUME Fence, Typed', UNCHANGED <<job, completions, issued>>,
         NEW w \in Workers, NEW s, worker' = [worker EXCEPT ![w] = s],
         worker[w].phase \in Engaged,
         s.token = worker[w].token, s.job = worker[w].job,
         s.rows = worker[w].rows,
         s.phase \in InSession => Owns(w)
  PROVE  Fence'
  <1>1. /\ worker'[w] = s
        /\ \A v \in Workers : v # w => worker'[v] = worker[v]
    BY DEF Fence, Typed, TypeOK
  <1>2. \A v \in Workers :
          /\ worker'[v].token = worker[v].token /\ worker'[v].job = worker[v].job
          /\ worker'[v].rows = worker[v].rows
          /\ worker'[v].phase \in Engaged => worker[v].phase \in Engaged
          /\ worker'[v].phase \in InSession =>
               worker[v].phase \in InSession \/ Owns(v)
    BY <1>1
  <1>3. RowsAgree' /\ BilledOnce'
    BY DEF Fence, RowsAgree, BilledOnce
  <1>4. TokensApart'
    BY <1>2 DEF Fence, TokensApart
  <1>5. SessionsOwn' /\ AmpleLeases'
    BY <1>2 DEF Fence, SessionsOwn, AmpleLeases, Owns
  <1>6. CandidatesAge'
    BY <1>2 DEF Fence, CandidatesAge, RowUnchanged
  <1> QED BY <1>3, <1>4, <1>5, <1>6 DEF Fence

\* The commit that ends an attempt whose worker owns the row.
LEMMA CommitFence ==
  ASSUME Fence, Typed', UNCHANGED issued,
         NEW w \in Workers, worker[w].phase \in InSession,
         worker' = [worker EXCEPT ![w] = Idle],
         NEW row, row.status # "processing", row.token = NoToken,
         row.lease = "none",
         row.attempts = job[worker[w].job].attempts,
         job' = [job EXCEPT ![worker[w].job] = row],
         completions' = [completions EXCEPT ![worker[w].job] =
                           IF row.status = "succeeded" THEN @ + 1 ELSE @]
  PROVE  Fence'
  <1> DEFINE k == worker[w].job
  <1>1. k \in Jobs /\ worker[w].phase \in Engaged
    BY DEF Fence, Typed, EngagedHasJob, Engaged, InSession
  <1>2. /\ job[k].token = worker[w].token /\ job[k].token # NoToken
        /\ job[k].status = "processing" /\ completions[k] = 0
    BY <1>1 DEF Fence, SessionsOwn, Owns, RowsAgree, BilledOnce
  <1>3. /\ worker'[w].phase \notin Engaged /\ worker'[w].rows = {}
        /\ \A v \in Workers : v # w => worker'[v] = worker[v]
    BY DEF Fence, Typed, TypeOK, Idle, Engaged
  <1>4. /\ job'[k] = row
        /\ \A j \in Jobs : j # k => job'[j] = job[j]
        /\ \A j \in Jobs : j # k => completions'[j] = completions[j]
        /\ completions'[k] = IF row.status = "succeeded" THEN 1 ELSE 0
    BY <1>1, <1>2 DEF Fence, Typed, TypeOK
  <1> HIDE DEF k
  <1>5. \A v \in Workers : worker'[v].phase \in Engaged =>
          /\ v # w /\ worker'[v] = worker[v]
          /\ worker[v].token # worker[w].token
          /\ worker[v].job \in Jobs
    BY <1>1, <1>3 DEF Fence, TokensApart, Typed, EngagedHasJob
  <1>6. \A v \in Workers : worker'[v].phase \in Engaged /\ Owns(v) =>
          worker[v].job # k /\ job'[worker[v].job] = job[worker[v].job]
    BY <1>2, <1>4, <1>5 DEF Owns
  <1>7. RowsAgree' /\ BilledOnce'
    <2>1. row.token <= issued'
      BY DEF Fence, Typed, TypeOK, NoToken
    <2> QED BY <1>4, <2>1 DEF Fence, RowsAgree, BilledOnce
  <1>8. TokensApart'
    BY <1>5 DEF Fence, TokensApart
  <1>9. SessionsOwn' /\ AmpleLeases'
    BY <1>5, <1>6 DEF Fence, SessionsOwn, AmpleLeases, Owns, Engaged, InSession
  <1>10. CandidatesAge'
    <2> SUFFICES ASSUME NEW v \in Workers, NEW r \in worker'[v].rows
                 PROVE /\ r.attempts <= job'[r.job].attempts
                       /\ r.status = "processing" /\ RowUnchanged(r)' =>
                            job'[r.job].lease = "expired"
      BY DEF CandidatesAge
    <2>1. v # w /\ r \in worker[v].rows
      BY <1>3
    <2>2. r.job \in Jobs
      BY <2>1 DEF Fence, Typed, TypeOK, WorkerStates, Candidates
    <2>3. /\ r.attempts <= job[r.job].attempts
          /\ r.status = "processing" /\ RowUnchanged(r) => job[r.job].lease = "expired"
      BY <2>1 DEF Fence, CandidatesAge
    <2>4. CASE r.job = k
      BY <1>4, <2>3, <2>4 DEF RowUnchanged, k
    <2>5. CASE r.job # k
      BY <1>4, <2>2, <2>3, <2>5 DEF RowUnchanged
    <2> QED BY <2>4, <2>5
  <1> QED BY <1>7, <1>8, <1>9, <1>10 DEF Fence

\* A claim that matched its row.  A worker inside a session on that row would
\* own it, so the row would be leased: under LeaseOutlivesWork its lease is
\* live and the list cannot hold it, under ShortSessions there is none.
LEMMA ClaimFence ==
  ASSUME Timely, Fence, Typed', NEW w \in Workers, NEW r \in worker[w].rows,
         worker[w].phase = "claiming",
         Undisturbed(w, r.job), ClaimWon(w, r), UNCHANGED completions
  PROVE  Fence'
  <1> DEFINE k == r.job
  <1>1. /\ k \in Jobs /\ issued \in Nat
        /\ r.status \in {"queued", "processing"} /\ r.attempts \in Nat
    BY DEF Fence, Typed, TypeOK, WorkerStates, Candidates
  <1>2. /\ \A j \in Jobs : j # k => job'[j] = job[j]
        /\ job'[k].status = "processing" /\ job'[k].token = issued + 1
        /\ job'[k].lease = "live" /\ job'[k].attempts = r.attempts + 1
        /\ issued' = issued + 1
    BY <1>1 DEF ClaimWon, Fence, Typed, TypeOK
  <1>3. /\ \A v \in Workers : v # w => worker'[v] = worker[v]
        /\ worker'[w].phase = "taken" /\ worker'[w].rows = {}
        /\ worker'[w].job = k /\ worker'[w].token = issued + 1
    BY DEF ClaimWon, Fence, Typed, TypeOK, WorkerStates
  <1>4. /\ job[k].status = r.status /\ job[k].attempts = r.attempts
        /\ r.status = "processing" => job[k].lease = "expired"
    BY DEF ClaimWon, RowUnchanged, Fence, CandidatesAge
  <1> HIDE DEF k
  <1>5. \A v \in Workers : v # w /\ worker[v].phase \in Engaged =>
          /\ worker[v].job \in Jobs /\ worker[v].token \in Nat
          /\ worker[v].token <= issued /\ worker[v].token # NoToken
    BY DEF Fence, Typed, TypeOK, EngagedHasJob, WorkerStates, TokensApart
  <1>6. \A v \in Workers : v # w /\ worker[v].phase \in InSession =>
          worker[v].job # k
    <2> SUFFICES ASSUME NEW v \in Workers, v # w, worker[v].phase \in InSession,
                        worker[v].job = k
                 PROVE FALSE
      OBVIOUS
    <2>1. worker[v].phase \in Engaged
      BY DEF Engaged, InSession
    <2>2. CASE ShortSessions
      BY <2>2 DEF Undisturbed, k
    <2>3. CASE LeaseOutlivesWork
      <3>1. Owns(v) /\ job[k].lease = "live"
        BY <2>1, <2>3 DEF Fence, AmpleLeases
      <3>2. job[k].status = "processing"
        BY <1>1, <3>1 DEF Owns, Fence, RowsAgree
      <3> QED BY <1>4, <3>1, <3>2
    <2> QED BY <2>2, <2>3 DEF Timely
  <1>7. LeaseOutlivesWork => \A v \in Workers :
          v # w /\ worker[v].phase \in Engaged => worker[v].job # k
    <2> SUFFICES ASSUME LeaseOutlivesWork, NEW v \in Workers, v # w,
                        worker[v].phase \in Engaged, worker[v].job = k
                 PROVE FALSE
      OBVIOUS
    <2>1. Owns(v) /\ job[k].lease = "live"
      BY DEF Fence, AmpleLeases
    <2>2. job[k].status = "processing"
      BY <1>1, <2>1 DEF Owns, Fence, RowsAgree
    <2> QED BY <1>4, <2>1, <2>2
  <1>8. RowsAgree'
    <2> SUFFICES ASSUME NEW j \in Jobs
                 PROVE /\ job'[j].status = "processing" <=> job'[j].token # NoToken
                       /\ job'[j].status = "processing" <=> job'[j].lease # "none"
                       /\ job'[j].token <= issued'
      BY DEF RowsAgree
    <2>1. CASE j = k
      BY <1>1, <1>2, <2>1 DEF NoToken
    <2>2. CASE j # k
      <3>1. job[j].token \in Nat
        BY DEF Fence, Typed, TypeOK, JobRows
      <3> QED BY <1>1, <1>2, <2>2, <3>1 DEF Fence, RowsAgree
    <2> QED BY <2>1, <2>2
  <1>9. BilledOnce'
    <2>1. completions[k] = 0
      BY <1>1, <1>4 DEF Fence, BilledOnce
    <2> QED BY <1>2, <2>1 DEF Fence, BilledOnce
  <1>10. TokensApart'
    <2>1. \A v \in Workers : worker'[v].phase \in Engaged =>
            worker'[v].token # NoToken /\ worker'[v].token <= issued'
      BY <1>1, <1>2, <1>3, <1>5 DEF NoToken
    <2>2. ASSUME NEW u \in Workers, NEW v \in Workers,
                 worker'[u].phase \in Engaged, worker'[v].phase \in Engaged,
                 worker'[u].token = worker'[v].token
          PROVE  u = v
      <3>1. CASE u = w \/ v = w
        BY <1>1, <1>3, <1>5, <2>2, <3>1
      <3>2. CASE u # w /\ v # w
        BY <1>3, <2>2, <3>2 DEF Fence, TokensApart
      <3> QED BY <3>1, <3>2
    <2> QED BY <2>1, <2>2 DEF TokensApart
  <1>11. SessionsOwn'
    <2> SUFFICES ASSUME NEW v \in Workers, worker'[v].phase \in InSession
                 PROVE  Owns(v)'
      BY DEF SessionsOwn
    <2>1. CASE v = w
      BY <1>1, <1>2, <1>3, <2>1 DEF Owns, NoToken
    <2>2. CASE v # w
      <3>1. Owns(v) /\ worker[v].job \in Jobs
        BY <1>3, <1>5, <2>2 DEF Fence, SessionsOwn, Engaged, InSession
      <3> QED BY <1>2, <1>3, <1>6, <2>2, <3>1 DEF Owns
    <2> QED BY <2>1, <2>2
  <1>12. AmpleLeases'
    <2> SUFFICES ASSUME LeaseOutlivesWork, NEW v \in Workers,
                        worker'[v].phase \in Engaged
                 PROVE  Owns(v)' /\ job'[worker'[v].job].lease = "live"
      BY DEF AmpleLeases
    <2>1. CASE v = w
      BY <1>1, <1>2, <1>3, <2>1 DEF Owns, NoToken
    <2>2. CASE v # w
      <3>1. Owns(v) /\ job[worker[v].job].lease = "live"
        BY <1>3, <2>2 DEF Fence, AmpleLeases
      <3> QED BY <1>2, <1>3, <1>5, <1>7, <2>2, <3>1 DEF Owns
    <2> QED BY <2>1, <2>2
  <1>13. CandidatesAge'
    <2> SUFFICES ASSUME NEW v \in Workers, NEW q \in worker'[v].rows
                 PROVE /\ q.attempts <= job'[q.job].attempts
                       /\ q.status = "processing" /\ RowUnchanged(q)' =>
                            job'[q.job].lease = "expired"
      BY DEF CandidatesAge
    <2>1. v # w /\ q \in worker[v].rows
      BY <1>3
    <2>2. q.job \in Jobs /\ q.attempts \in Nat
      BY <2>1 DEF Fence, Typed, TypeOK, WorkerStates, Candidates
    <2>3. /\ q.attempts <= job[q.job].attempts
          /\ q.status = "processing" /\ RowUnchanged(q) => job[q.job].lease = "expired"
      BY <2>1 DEF Fence, CandidatesAge
    <2>4. CASE q.job = k
      BY <1>1, <1>2, <1>4, <2>2, <2>3, <2>4 DEF RowUnchanged
    <2>5. CASE q.job # k
      BY <1>2, <2>2, <2>3, <2>5 DEF RowUnchanged
    <2> QED BY <2>4, <2>5
  <1> QED BY <1>8, <1>9, <1>10, <1>11, <1>12, <1>13 DEF Fence

\* A row whose status, token and attempts stay, while its lease may turn from
\* live to expired when no worker is engaged on it (or leases are not ample).
LEMMA RowFence ==
  ASSUME Fence, Typed', UNCHANGED <<worker, completions, issued>>,
         NEW j \in Jobs, NEW row, job' = [job EXCEPT ![j] = row],
         row.token = job[j].token, row.attempts = job[j].attempts,
         row.status = "processing" <=> job[j].status = "processing",
         row.status = "succeeded" <=> job[j].status = "succeeded",
         \/ row.lease = job[j].lease
         \/ /\ job[j].status = "processing" /\ row.lease = "expired"
            /\ LeaseOutlivesWork => \A w \in Workers :
                 ~(worker[w].phase \in Engaged /\ worker[w].job = j)
  PROVE  Fence'
  <1>1. /\ job'[j] = row
        /\ \A i \in Jobs : i # j => job'[i] = job[i]
    BY DEF Fence, Typed, TypeOK
  <1>2. \A w \in Workers : worker[w].phase \in Engaged => worker[w].job \in Jobs
    BY DEF Fence, Typed, EngagedHasJob
  <1>3. \A i \in Jobs : job'[i].token = job[i].token
    BY <1>1
  <1>4. RowsAgree' /\ BilledOnce'
    BY <1>1 DEF Fence, RowsAgree, BilledOnce
  <1>5. TokensApart'
    BY DEF Fence, TokensApart
  <1>6. SessionsOwn'
    BY <1>2, <1>3 DEF Fence, SessionsOwn, Owns, Engaged, InSession
  <1>7. AmpleLeases'
    BY <1>1, <1>2, <1>3 DEF Fence, AmpleLeases, Owns
  <1>8. CandidatesAge'
    <2> SUFFICES ASSUME NEW v \in Workers, NEW r \in worker[v].rows
                 PROVE /\ r.attempts <= job'[r.job].attempts
                       /\ r.status = "processing" /\ RowUnchanged(r)' =>
                            job'[r.job].lease = "expired"
      BY DEF CandidatesAge
    <2>1. r.job \in Jobs
      BY DEF Fence, Typed, TypeOK, WorkerStates, Candidates
    <2>2. /\ r.attempts <= job[r.job].attempts
          /\ r.status = "processing" /\ RowUnchanged(r) => job[r.job].lease = "expired"
      BY DEF Fence, CandidatesAge
    <2>3. CASE r.job = j
      BY <1>1, <2>2, <2>3 DEF RowUnchanged
    <2>4. CASE r.job # j
      BY <1>1, <2>1, <2>2, <2>4 DEF RowUnchanged
    <2> QED BY <2>3, <2>4
  <1> QED BY <1>4, <1>5, <1>6, <1>7, <1>8 DEF Fence

LEMMA NextFence == Timely /\ Fence /\ [Next]_vars => Fence'
  <1> SUFFICES ASSUME Timely, Fence, [Next]_vars PROVE Fence'
    OBVIOUS
  <1>0. /\ Typed' /\ job \in [Jobs -> JobRows]
        /\ worker \in [Workers -> WorkerStates]
        /\ completions \in [Jobs -> Nat]
        /\ \A w \in Workers : worker[w].phase \in Engaged => worker[w].job \in Jobs
    BY NextTyped DEF Fence, Typed, TypeOK, EngagedHasJob
  <1>idle. Idle.phase \notin Engaged /\ Idle.rows = {}
    BY DEF Idle, Engaged
  <1>rest. ASSUME NEW w \in Workers, worker' = [worker EXCEPT ![w] = Idle],
                  UNCHANGED <<job, completions, issued>>
           PROVE  Fence'
    BY <1>0, <1>idle, <1>rest, DropFence
  <1>1. ASSUME NEW j \in Jobs, Submit(j) PROVE Fence'
    <2> DEFINE row == [job[j] EXCEPT !.status = "queued"]
    <2>1. /\ row.token = job[j].token /\ row.attempts = job[j].attempts
          /\ row.lease = job[j].lease /\ row.status = "queued"
          /\ job[j].status = "absent"
      BY <1>0, <1>1 DEF Submit, JobRows
    <2>2. job' = [job EXCEPT ![j] = row]
      BY <1>1 DEF Submit
    <2> HIDE DEF row
    <2> QED BY <1>0, <1>1, <2>1, <2>2, RowFence DEF Submit
  <1>2. ASSUME NEW j \in Jobs, Tombstone(j) PROVE Fence'
    BY <1>0, <1>2 DEF Tombstone, Fence, RowsAgree, TokensApart, SessionsOwn,
       AmpleLeases, CandidatesAge, BilledOnce, Owns, RowUnchanged
  <1>3. ASSUME NEW j \in Jobs, LeaseExpires(j) PROVE Fence'
    <2> DEFINE row == [job[j] EXCEPT !.lease = "expired"]
    <2>1. /\ row.token = job[j].token /\ row.attempts = job[j].attempts
          /\ row.lease = "expired" /\ row.status = job[j].status
      BY <1>0 DEF JobRows
    <2>2. job' = [job EXCEPT ![j] = row]
      BY <1>3 DEF LeaseExpires
    <2> HIDE DEF row
    <2> QED BY <1>0, <1>3, <2>1, <2>2, RowFence DEF LeaseExpires
  <1>4. ASSUME NEW j \in Jobs, BackoffElapses(j) PROVE Fence'
    <2> DEFINE row == [job[j] EXCEPT !.due = TRUE]
    <2>1. /\ row.token = job[j].token /\ row.attempts = job[j].attempts
          /\ row.lease = job[j].lease /\ row.status = job[j].status
      BY <1>0 DEF JobRows
    <2>2. job' = [job EXCEPT ![j] = row]
      BY <1>4 DEF BackoffElapses
    <2> HIDE DEF row
    <2> QED BY <1>0, <1>4, <2>1, <2>2, RowFence DEF BackoffElapses
  <1>5. ASSUME NEW w \in Workers, SelectCandidates(w) PROVE Fence'
    <2>1. /\ worker[w].phase = "idle" /\ worker'[w].phase = "claiming"
          /\ worker'[w].rows = {[job |-> j, status |-> job[j].status,
                                attempts |-> job[j].attempts] : j \in Eligible(w)}
          /\ \A v \in Workers : v # w => worker'[v] = worker[v]
          /\ UNCHANGED <<job, completions, issued>>
      BY <1>0, <1>5 DEF SelectCandidates, WorkerStates
    <2>2. \A v \in Workers : worker'[v].phase \in Engaged =>
            v # w /\ worker'[v] = worker[v]
      BY <2>1 DEF Engaged
    <2>3. RowsAgree' /\ BilledOnce'
      BY <2>1 DEF Fence, RowsAgree, BilledOnce
    <2>4. TokensApart'
      BY <2>1, <2>2 DEF Fence, TokensApart
    <2>5. SessionsOwn' /\ AmpleLeases'
      BY <2>1, <2>2 DEF Fence, SessionsOwn, AmpleLeases, Owns, Engaged, InSession
    <2>6. CandidatesAge'
      <3> SUFFICES ASSUME NEW v \in Workers, NEW r \in worker'[v].rows
                   PROVE /\ r.attempts <= job[r.job].attempts
                         /\ r.status = "processing" /\ RowUnchanged(r) =>
                              job[r.job].lease = "expired"
        BY <2>1 DEF CandidatesAge, RowUnchanged
      <3>1. CASE v = w
        <4>1. PICK j \in Eligible(w) :
                r = [job |-> j, status |-> job[j].status, attempts |-> job[j].attempts]
          BY <2>1, <3>1
        <4>2. j \in Jobs /\ Claimable(w, j)
          BY DEF Eligible
        <4>3. job[j].attempts \in Nat
          BY <1>0, <4>2, AttemptsAssumption DEF JobRows
        <4>4. r.job = j /\ r.status = job[j].status /\ r.attempts = job[j].attempts
          BY <4>1
        <4> QED BY <4>2, <4>3, <4>4 DEF Claimable, LeaseOver
      <3>2. CASE v # w
        BY <2>1, <3>2 DEF Fence, CandidatesAge
      <3> QED BY <3>1, <3>2
    <2> QED BY <1>0, <2>3, <2>4, <2>5, <2>6 DEF Fence
  <1>6. ASSUME NEW w \in Workers, TryClaim(w) PROVE Fence'
    <2>1. PICK r \in worker[w].rows :
            Undisturbed(w, r.job) /\ (ClaimWon(w, r) \/ ClaimLost(w, r))
      BY <1>6 DEF TryClaim
    <2>2. UNCHANGED <<doc, completions, crashes>> /\ worker[w].phase = "claiming"
      BY <1>6 DEF TryClaim
    <2>3. CASE ClaimWon(w, r)
      BY <1>0, <2>1, <2>2, <2>3, ClaimFence
    <2>4. CASE ClaimLost(w, r)
      <3> DEFINE s == [worker[w] EXCEPT !.rows = worker[w].rows \ {r}]
      <3>1. /\ s.phase = worker[w].phase
            /\ s.rows \subseteq worker[w].rows
        BY <1>0 DEF WorkerStates
      <3>2. \/ worker' = [worker EXCEPT ![w] = s]
            \/ worker' = [worker EXCEPT ![w] = Idle]
        BY <2>4 DEF ClaimLost
      <3>3. s.phase \notin Engaged
        BY <2>2, <3>1 DEF Engaged
      <3> HIDE DEF s
      <3> QED BY <1>0, <1>rest, <2>2, <2>4, <3>1, <3>2, <3>3, DropFence
              DEF ClaimLost
    <2> QED BY <2>1, <2>3, <2>4
  <1>7. ASSUME NEW w \in Workers, ReadBack(w) PROVE Fence'
    <2> DEFINE s == [worker[w] EXCEPT !.phase = "claimed",
                                      !.token = job[worker[w].job].token]
    <2>1. worker[w].phase \in Engaged /\ worker[w].phase \in InSession
      BY <1>7 DEF ReadBack, Engaged, InSession
    <2>2. job[worker[w].job].token = worker[w].token
      BY <2>1 DEF Fence, SessionsOwn, Owns
    <2>3. /\ s.phase = "claimed" /\ s.token = worker[w].token
          /\ s.job = worker[w].job /\ s.rows = worker[w].rows
      BY <1>0, <2>2 DEF WorkerStates
    <2>4. worker' = [worker EXCEPT ![w] = s]
      BY <1>7 DEF ReadBack
    <2>5. s.phase \notin InSession
      BY <2>3 DEF InSession
    <2> HIDE DEF s
    <2> QED BY <1>0, <1>7, <2>1, <2>3, <2>4, <2>5, MoveFence DEF ReadBack
  <1>load. ASSUME NEW w \in Workers, worker[w].phase \in Engaged, Owns(w),
                  LoadForFail(w), UNCHANGED <<job, doc, completions, issued, crashes>>
           PROVE  Fence'
    <2> DEFINE s == [worker[w] EXCEPT !.phase = "failing",
                                      !.tries = job[worker[w].job].attempts,
                                      !.docSeen = doc[worker[w].job].status]
    <2>1. /\ s.token = worker[w].token /\ s.job = worker[w].job
          /\ s.rows = worker[w].rows
      BY <1>0 DEF WorkerStates
    <2>2. worker' = [worker EXCEPT ![w] = s]
      BY <1>load DEF LoadForFail
    <2> HIDE DEF s
    <2> QED BY <1>0, <1>load, <2>1, <2>2, MoveFence
  <1>move. ASSUME NEW w \in Workers, NEW p, p \notin InSession,
                  worker[w].phase \in Engaged,
                  worker' = [worker EXCEPT ![w].phase = p],
                  UNCHANGED <<job, doc, completions, issued, crashes>>
           PROVE  Fence'
    <2> DEFINE s == [worker[w] EXCEPT !.phase = p]
    <2>1. /\ s.token = worker[w].token /\ s.job = worker[w].job
          /\ s.rows = worker[w].rows /\ s.phase = p
      BY <1>0 DEF WorkerStates
    <2>2. worker' = [worker EXCEPT ![w] = s]
      BY <1>move
    <2> HIDE DEF s
    <2> QED BY <1>0, <1>move, <2>1, <2>2, MoveFence
  <1>8. ASSUME NEW w \in Workers, Begin(w) PROVE Fence'
    BY <1>8, <1>load, <1>rest, <1>move DEF Begin, Engaged, InSession
  <1>9. ASSUME NEW w \in Workers, SettleRead(w) PROVE Fence'
    <2>1. CASE Owns(w)
      <3> DEFINE s == [worker[w] EXCEPT !.phase = "settling",
                                        !.docSeen = doc[worker[w].job].status]
      <3>1. /\ s.token = worker[w].token /\ s.job = worker[w].job
            /\ s.rows = worker[w].rows
        BY <1>0 DEF WorkerStates
      <3>2. worker' = [worker EXCEPT ![w] = s]
        BY <1>9, <2>1 DEF SettleRead
      <3>3. worker[w].phase \in Engaged
        BY <1>9 DEF SettleRead, Engaged
      <3> HIDE DEF s
      <3> QED BY <1>0, <1>9, <2>1, <3>1, <3>2, <3>3, MoveFence DEF SettleRead
    <2>2. CASE ~Owns(w)
      BY <1>9, <1>rest, <2>2 DEF SettleRead
    <2> QED BY <2>1, <2>2
  <1>10. ASSUME NEW w \in Workers, SettleCommit(w) PROVE Fence'
    <2> DEFINE row == [job[worker[w].job] EXCEPT !.status = "succeeded",
                                                 !.token = NoToken, !.lease = "none"]
    <2>1. worker[w].phase \in InSession /\ worker[w].job \in Jobs
      BY <1>0, <1>10 DEF SettleCommit, InSession, Engaged
    <2>2. /\ row.status = "succeeded" /\ row.token = NoToken /\ row.lease = "none"
          /\ row.attempts = job[worker[w].job].attempts
      BY <1>0, <2>1 DEF JobRows
    <2>3. job' = [job EXCEPT ![worker[w].job] = row]
      BY <1>10 DEF SettleCommit
    <2>4. /\ worker' = [worker EXCEPT ![w] = Idle] /\ UNCHANGED issued
          /\ completions' = [completions EXCEPT ![worker[w].job] = @ + 1]
      BY <1>10 DEF SettleCommit, EndAttempt
    <2> HIDE DEF row
    <2>5. completions' = [completions EXCEPT ![worker[w].job] =
                            IF row.status = "succeeded" THEN @ + 1 ELSE @]
      BY <2>2, <2>4
    <2> QED BY <1>0, <2>1, <2>2, <2>3, <2>4, <2>5, CommitFence
  <1>11. ASSUME NEW w \in Workers, Raise(w) PROVE Fence'
    <2>1. "raised" \notin InSession /\ worker[w].phase \in Engaged
      BY <1>11 DEF Raise, Engaged, InSession
    <2>2. worker' = [worker EXCEPT ![w].phase = "raised"]
      BY <1>11 DEF Raise
    <2>3. UNCHANGED <<job, doc, completions, issued, crashes>>
      BY <1>11 DEF Raise
    <2> QED BY <1>move, <2>1, <2>2, <2>3
  <1>12. ASSUME NEW w \in Workers, FailRead(w) PROVE Fence'
    BY <1>12, <1>load, <1>rest DEF FailRead, Engaged
  <1>13. ASSUME NEW w \in Workers, FailCommit(w) PROVE Fence'
    <2> DEFINE dead == [job[worker[w].job] EXCEPT
                          !.status = "dead_letter", !.token = NoToken,
                          !.lease = "none"]
               back == [job[worker[w].job] EXCEPT
                          !.status = "queued", !.token = NoToken,
                          !.lease = "none", !.due = FALSE]
    <2>1. worker[w].phase \in InSession /\ worker[w].job \in Jobs
      BY <1>0, <1>13 DEF FailCommit, InSession, Engaged
    <2>2. /\ dead.status = "dead_letter" /\ dead.token = NoToken
          /\ dead.lease = "none"
          /\ dead.attempts = job[worker[w].job].attempts
          /\ back.status = "queued" /\ back.token = NoToken
          /\ back.lease = "none"
          /\ back.attempts = job[worker[w].job].attempts
      BY <1>0, <2>1 DEF JobRows
    <2>3. \/ job' = [job EXCEPT ![worker[w].job] = dead]
          \/ job' = [job EXCEPT ![worker[w].job] = back]
      BY <1>13 DEF FailCommit
    <2>4. /\ worker' = [worker EXCEPT ![w] = Idle]
          /\ UNCHANGED <<issued, completions>>
      BY <1>13 DEF FailCommit, EndAttempt
    <2> HIDE DEF dead, back
    <2>5. completions' = [completions EXCEPT ![worker[w].job] = @]
      BY <1>0, <2>4
    <2>6. CASE job' = [job EXCEPT ![worker[w].job] = dead]
      BY <1>0, <2>1, <2>2, <2>4, <2>5, <2>6, CommitFence
    <2>7. CASE job' = [job EXCEPT ![worker[w].job] = back]
      BY <1>0, <2>1, <2>2, <2>4, <2>5, <2>7, CommitFence
    <2> QED BY <2>3, <2>6, <2>7
  <1>14. ASSUME NEW w \in Workers, Crash(w) PROVE Fence'
    BY <1>14, <1>rest DEF Crash
  <1>15. CASE UNCHANGED vars
    BY <1>0, <1>15 DEF vars, Fence, RowsAgree, TokensApart, SessionsOwn,
       AmpleLeases, CandidatesAge, BilledOnce, Owns, RowUnchanged
  <1> QED
    BY <1>1, <1>2, <1>3, <1>4, <1>5, <1>6, <1>7, <1>8, <1>9, <1>10, <1>11,
       <1>12, <1>13, <1>14, <1>15
    DEF Next, Clock, Work

LEMMA FenceHolds == ASSUME Timely PROVE Spec => []Fence
  BY InitFence, NextFence, PTL DEF Spec

\* A job that succeeded is billed once, any other job never, provided leases
\* outlive the work or sessions are short: a worker whose job was taken over
\* finds its token gone before it commits.
THEOREM NoDoubleBill == ASSUME Timely PROVE Spec => []BilledOnce
  <1>1. Fence => BilledOnce
    BY DEF Fence
  <1> QED BY FenceHolds, <1>1, PTL

\* With leases that outlive the work, two workers are never at work on the
\* same job: both would hold the one token that is on the row.
THEOREM NoSharedAttempt ==
  ASSUME LeaseOutlivesWork PROVE Spec => []ExclusiveAttempt
  <1>1. Timely
    BY DEF Timely
  <1>2. Fence => ExclusiveAttempt
    BY DEF Fence, AmpleLeases, TokensApart, Owns, ExclusiveAttempt
  <1> QED BY FenceHolds, <1>1, <1>2, PTL

-----------------------------------------------------------------------------
(***************************************************************************)
(* What a session has loaded is still true of the row it is about to       *)
(* write, and the documents follow their jobs.                             *)
(***************************************************************************)
Loaded == \A w \in Workers :
    /\ worker[w].phase = "failing" =>
         worker[w].tries = job[worker[w].job].attempts
    /\ worker[w].phase \in {"settling", "failing"} =>
         worker[w].docSeen \in {"queued", "deleted"}

\* A tombstoned document under a job that has not ended may still be put back
\* to "queued" by _fail, but goes no further.
DeletedDocs == \A j \in Jobs :
    Pending(j) => doc[j].status \in {"queued", "deleted"}

Mirror == Loaded /\ DeletedDocs /\ DocMirrorsJob

LEMMA InitMirror == Init => Mirror
  BY DEF Init, Mirror, Loaded, DeletedDocs, DocMirrorsJob, Pending, Idle, MirrorOf

\* A step of one worker that writes no row.
LEMMA WorkerStepMirror ==
  ASSUME Fence, Mirror, UNCHANGED <<job, doc>>,
         NEW w \in Workers, NEW s, worker' = [worker EXCEPT ![w] = s],
         s.phase = "failing" =>
           s.tries = job[s.job].attempts,
         s.phase \in {"settling", "failing"} => s.docSeen \in {"queued", "deleted"}
  PROVE  Mirror'
  <1>1. /\ worker'[w] = s
        /\ \A v \in Workers : v # w => worker'[v] = worker[v]
    BY DEF Fence, Typed, TypeOK
  <1>2. Loaded'
    BY <1>1 DEF Mirror, Loaded
  <1> QED BY <1>2 DEF Mirror, DeletedDocs, DocMirrorsJob, Pending

\* A step that writes rows of job k and leaves the sessions that go on alone.
LEMMA RowStepMirror ==
  ASSUME Fence, Mirror, NEW k \in Jobs, NEW row, NEW d,
         job' = [job EXCEPT ![k] = row], doc' = [doc EXCEPT ![k] = d],
         \A v \in Workers : worker'[v].phase \in {"settling", "failing"} =>
            /\ worker'[v] = worker[v]
            /\ worker[v].job = k => row.attempts = job[k].attempts,
         row.status \in {"queued", "processing"} => d.status \in {"queued", "deleted"},
         ~d.deleted => d.status = MirrorOf[row.status],
         d.result # 0 <=> row.status = "succeeded"
  PROVE  Mirror'
  <1>1. /\ job'[k] = row /\ doc'[k] = d
        /\ \A j \in Jobs : j # k => job'[j] = job[j] /\ doc'[j] = doc[j]
    BY DEF Fence, Typed, TypeOK
  <1>2. \A v \in Workers : worker[v].phase \in {"settling", "failing"} =>
          worker[v].job \in Jobs
    BY DEF Fence, Typed, EngagedHasJob, Engaged
  <1>3. Loaded'
    <2> SUFFICES ASSUME NEW v \in Workers,
                        worker'[v].phase \in {"settling", "failing"}
                 PROVE  /\ worker'[v].phase = "failing" =>
                             worker'[v].tries = job'[worker'[v].job].attempts
                        /\ worker'[v].docSeen \in {"queued", "deleted"}
      BY DEF Loaded
    <2>1. worker'[v] = worker[v] /\ worker[v].job \in Jobs
      BY <1>2
    <2>2. job'[worker[v].job].attempts = job[worker[v].job].attempts
      BY <1>1, <2>1
    <2> QED BY <2>1, <2>2 DEF Mirror, Loaded
  <1>4. DeletedDocs'
    BY <1>1 DEF Mirror, DeletedDocs, Pending
  <1>5. DocMirrorsJob'
    BY <1>1 DEF Mirror, DocMirrorsJob
  <1> QED BY <1>3, <1>4, <1>5 DEF Mirror

\* Inside a session the row is still the one the worker claimed.
LEMMA SessionRow ==
  ASSUME Fence, NEW w \in Workers, worker[w].phase \in InSession
  PROVE  /\ worker[w].job \in Jobs
         /\ job[worker[w].job].status = "processing"
         /\ worker[w].token # NoToken
         /\ \A v \in Workers : v # w /\ worker[v].phase \in InSession =>
              worker[v].job # worker[w].job
  <1>1. /\ worker[w].phase \in Engaged /\ worker[w].job \in Jobs
        /\ Owns(w) /\ worker[w].token # NoToken
    BY DEF Fence, Typed, EngagedHasJob, SessionsOwn, TokensApart, Engaged, InSession
  <1>2. job[worker[w].job].status = "processing"
    BY <1>1 DEF Fence, RowsAgree, Owns
  <1>3. ASSUME NEW v \in Workers, v # w, worker[v].phase \in InSession
        PROVE  worker[v].job # worker[w].job
    <2>1. worker[v].phase \in Engaged /\ Owns(v)
      BY <1>3 DEF Fence, SessionsOwn, Engaged, InSession
    <2>2. worker[v].token # worker[w].token
      BY <1>1, <1>3, <2>1 DEF Fence, TokensApart
    <2> QED BY <1>1, <2>1, <2>2 DEF Owns
  <1> QED BY <1>1, <1>2, <1>3

LEMMA NextMirror == Fence /\ Fence' /\ Mirror /\ [Next]_vars => Mirror'
  <1> SUFFICES ASSUME Fence, Fence', Mirror, [Next]_vars PROVE Mirror'
    OBVIOUS
  <1>0. /\ job \in [Jobs -> JobRows] /\ doc \in [Jobs -> DocRows]
        /\ worker \in [Workers -> WorkerStates]
        /\ \A w \in Workers : worker[w].phase \in Engaged => worker[w].job \in Jobs
    BY DEF Fence, Typed, TypeOK, EngagedHasJob
  <1>idle. Idle.phase = "idle"
    BY DEF Idle
  <1>rest. ASSUME NEW w \in Workers, worker' = [worker EXCEPT ![w] = Idle],
                  UNCHANGED <<job, doc>>
           PROVE  Mirror'
    BY <1>idle, <1>rest, WorkerStepMirror
  <1>calm. ASSUME NEW w \in Workers, NEW s, worker' = [worker EXCEPT ![w] = s],
                  UNCHANGED <<job, doc>>, s.phase \notin {"settling", "failing"}
           PROVE  Mirror'
    BY <1>calm, WorkerStepMirror
  <1>1. ASSUME NEW j \in Jobs, Submit(j) PROVE Mirror'
    <2> DEFINE row == [job[j] EXCEPT !.status = "queued"]
               d == [doc[j] EXCEPT !.status = "queued"]
    <2>1. /\ row.status = "queued" /\ row.attempts = job[j].attempts
          /\ d.status = "queued" /\ d.result = doc[j].result
      BY <1>0 DEF JobRows, DocRows
    <2>2. /\ job' = [job EXCEPT ![j] = row] /\ doc' = [doc EXCEPT ![j] = d]
          /\ worker' = worker /\ job[j].status = "absent"
      BY <1>1 DEF Submit
    <2>3. d.result = 0
      BY <2>1, <2>2 DEF Mirror, DocMirrorsJob
    <2>4. MirrorOf["queued"] = "queued"
      BY DEF MirrorOf
    <2> HIDE DEF row, d
    <2>5. /\ row.status \in {"queued", "processing"} => d.status \in {"queued", "deleted"}
          /\ ~d.deleted => d.status = MirrorOf[row.status]
          /\ d.result # 0 <=> row.status = "succeeded"
      BY <2>1, <2>3, <2>4
    <2>6. \A v \in Workers : worker'[v].phase \in {"settling", "failing"} =>
            /\ worker'[v] = worker[v]
            /\ worker[v].job = j => row.attempts = job[j].attempts
      BY <2>1, <2>2
    <2> QED BY <2>2, <2>5, <2>6, RowStepMirror
  <1>2. ASSUME NEW j \in Jobs, Tombstone(j) PROVE Mirror'
    <2>1. /\ doc'[j].status = "deleted" /\ doc'[j].deleted
          /\ doc'[j].result = doc[j].result
          /\ \A i \in Jobs : i # j => doc'[i] = doc[i]
          /\ UNCHANGED <<job, worker>>
      BY <1>0, <1>2 DEF Tombstone, DocRows
    <2> QED BY <2>1 DEF Mirror, Loaded, DeletedDocs, DocMirrorsJob, Pending
  <1>clock. ASSUME NEW j \in Jobs, NEW row, row.status = job[j].status,
                   row.attempts = job[j].attempts,
                   job' = [job EXCEPT ![j] = row], UNCHANGED <<doc, worker>>
            PROVE  Mirror'
    <2>1. /\ \A i \in Jobs : job'[i].status = job[i].status
                           /\ job'[i].attempts = job[i].attempts
      BY <1>0, <1>clock
    <2> QED BY <1>0, <1>clock, <2>1
            DEF Mirror, Loaded, DeletedDocs, DocMirrorsJob, Pending, Engaged
  <1>3. ASSUME NEW j \in Jobs, LeaseExpires(j) PROVE Mirror'
    <2> DEFINE row == [job[j] EXCEPT !.lease = "expired"]
    <2>1. row.status = job[j].status /\ row.attempts = job[j].attempts
      BY <1>0 DEF JobRows
    <2>2. job' = [job EXCEPT ![j] = row] /\ UNCHANGED <<doc, worker>>
      BY <1>3 DEF LeaseExpires
    <2> HIDE DEF row
    <2> QED BY <1>clock, <2>1, <2>2
  <1>4. ASSUME NEW j \in Jobs, BackoffElapses(j) PROVE Mirror'
    <2> DEFINE row == [job[j] EXCEPT !.due = TRUE]
    <2>1. row.status = job[j].status /\ row.attempts = job[j].attempts
      BY <1>0 DEF JobRows
    <2>2. job' = [job EXCEPT ![j] = row] /\ UNCHANGED <<doc, worker>>
      BY <1>4 DEF BackoffElapses
    <2> HIDE DEF row
    <2> QED BY <1>clock, <2>1, <2>2
  <1>5. ASSUME NEW w \in Workers, SelectCandidates(w) PROVE Mirror'
    <2> DEFINE s == [worker[w] EXCEPT
                 !.phase = "claiming",
                 !.rows = {[job |-> j, status |-> job[j].status,
                            attempts |-> job[j].attempts] : j \in Eligible(w)}]
    <2>1. s.phase = "claiming"
      BY <1>0 DEF WorkerStates
    <2>2. worker' = [worker EXCEPT ![w] = s] /\ UNCHANGED <<job, doc>>
      BY <1>5 DEF SelectCandidates
    <2> HIDE DEF s
    <2> QED BY <1>calm, <2>1, <2>2
  <1>6. ASSUME NEW w \in Workers, TryClaim(w) PROVE Mirror'
    <2>1. PICK r \in worker[w].rows : ClaimWon(w, r) \/ ClaimLost(w, r)
      BY <1>6 DEF TryClaim
    <2>2. /\ doc' = doc /\ worker[w].phase = "claiming" /\ r.job \in Jobs
          /\ r.status \in {"queued", "processing"}
      BY <1>0, <1>6 DEF TryClaim, WorkerStates, Candidates
    <2>3. CASE ClaimWon(w, r)
      <3> DEFINE k == r.job
                 row == [status |-> "processing", attempts |-> r.attempts + 1,
                         token |-> issued + 1, lease |-> "live",
                         due |-> job[k].due]
      <3>1. /\ job' = [job EXCEPT ![k] = row]
            /\ doc' = [doc EXCEPT ![k] = doc[k]]
        BY <1>0, <2>2, <2>3 DEF ClaimWon
      <3>2. /\ worker'[w].phase = "taken" /\ worker'[w].job = k
            /\ \A v \in Workers : v # w => worker'[v] = worker[v]
        BY <1>0, <2>3 DEF ClaimWon, WorkerStates
      <3>3. \A v \in Workers : v # w /\ worker'[v].phase \in InSession =>
              worker'[v].job # k
        <4> SUFFICES ASSUME NEW v \in Workers, v # w,
                            worker'[v].phase \in InSession, worker'[v].job = k
                     PROVE  FALSE
          OBVIOUS
        <4>1. /\ worker'[w].phase \in InSession /\ worker'[w].phase \in Engaged
              /\ worker'[v].phase \in Engaged
          BY <3>2 DEF InSession, Engaged
        <4>2. Owns(w)' /\ Owns(v)'
          BY <4>1 DEF Fence, SessionsOwn
        <4>3. worker'[w].token # worker'[v].token
          BY <4>1 DEF Fence, TokensApart
        <4> QED BY <3>2, <4>2, <4>3 DEF Owns
      <3>4. /\ job[k].status \in {"queued", "processing"}
        BY <2>2, <2>3 DEF ClaimWon, RowUnchanged
      <3>5. /\ doc[k].status \in {"queued", "deleted"}
            /\ ~doc[k].deleted => doc[k].status = "queued"
            /\ doc[k].result = 0
        BY <2>2, <3>4 DEF Mirror, DeletedDocs, Pending, DocMirrorsJob, MirrorOf
      <3>6. \A v \in Workers : worker'[v].phase \in {"settling", "failing"} =>
              worker'[v] = worker[v] /\ worker[v].job # k
        BY <3>2, <3>3 DEF InSession
      <3>7. row.status = "processing" /\ MirrorOf["processing"] = "queued"
        BY DEF MirrorOf
      <3> HIDE DEF row, k
      <3>8. k \in Jobs
        BY <2>2 DEF k
      <3> QED BY <3>1, <3>5, <3>6, <3>7, <3>8, RowStepMirror
    <2>4. CASE ClaimLost(w, r)
      <3> DEFINE s == [worker[w] EXCEPT !.rows = worker[w].rows \ {r}]
      <3>1. s.phase = "claiming"
        BY <1>0, <2>2 DEF WorkerStates
      <3>2. \/ worker' = [worker EXCEPT ![w] = s]
            \/ worker' = [worker EXCEPT ![w] = Idle]
        BY <2>4 DEF ClaimLost
      <3>3. UNCHANGED <<job, doc>>
        BY <2>2, <2>4 DEF ClaimLost
      <3> HIDE DEF s
      <3> QED BY <1>rest, <1>calm, <3>1, <3>2, <3>3
    <2> QED BY <2>1, <2>3, <2>4
  <1>7. ASSUME NEW w \in Workers, ReadBack(w) PROVE Mirror'
    <2> DEFINE s == [worker[w] EXCEPT !.phase = "claimed",
                                      !.token = job[worker[w].job].token]
    <2>1. s.phase = "claimed"
      BY <1>0 DEF WorkerStates
    <2>2. worker' = [worker EXCEPT ![w] = s] /\ UNCHANGED <<job, doc>>
      BY <1>7 DEF ReadBack
    <2> HIDE DEF s
    <2> QED BY <1>calm, <2>1, <2>2
  <1>owned. ASSUME NEW w \in Workers, worker[w].phase \in Engaged, Owns(w)
            PROVE  doc[worker[w].job].status \in {"queued", "deleted"}
    BY <1>0, <1>owned DEF Owns, Fence, RowsAgree, Mirror, DeletedDocs, Pending
  <1>load. ASSUME NEW w \in Workers, worker[w].phase \in Engaged, Owns(w),
                  LoadForFail(w), UNCHANGED <<job, doc>>
           PROVE  Mirror'
    <2> DEFINE s == [worker[w] EXCEPT !.phase = "failing",
                                      !.tries = job[worker[w].job].attempts,
                                      !.docSeen = doc[worker[w].job].status]
    <2>1. /\ s.tries = job[s.job].attempts
          /\ s.docSeen \in {"queued", "deleted"}
      BY <1>0, <1>load, <1>owned DEF WorkerStates
    <2>2. worker' = [worker EXCEPT ![w] = s]
      BY <1>load DEF LoadForFail
    <2> HIDE DEF s
    <2> QED BY <1>load, <2>1, <2>2, WorkerStepMirror
  <1>move. ASSUME NEW w \in Workers, NEW p, p \notin {"settling", "failing"},
                  worker' = [worker EXCEPT ![w].phase = p],
                  UNCHANGED <<job, doc>>
           PROVE  Mirror'
    <2> DEFINE s == [worker[w] EXCEPT !.phase = p]
    <2>1. s.phase = p
      BY <1>0 DEF WorkerStates
    <2>2. worker' = [worker EXCEPT ![w] = s]
      BY <1>move
    <2> HIDE DEF s
    <2> QED BY <1>move, <1>calm, <2>1, <2>2
  <1>8. ASSUME NEW w \in Workers, Begin(w) PROVE Mirror'
    <2>1. worker[w].phase \in Engaged /\ UNCHANGED <<job, doc>>
      BY <1>8 DEF Begin, Engaged
    <2>2. CASE worker' = [worker EXCEPT ![w].phase = "working"]
      <3>1. "working" \notin {"settling", "failing"}
        OBVIOUS
      <3> QED BY <1>move, <2>1, <2>2, <3>1
    <2>3. CASE worker' # [worker EXCEPT ![w].phase = "working"]
      BY <1>8, <1>load, <1>rest, <2>1, <2>3 DEF Begin
    <2> QED BY <2>2, <2>3
  <1>9. ASSUME NEW w \in Workers, SettleRead(w) PROVE Mirror'
    <2>1. CASE Owns(w)
      <3> DEFINE s == [worker[w] EXCEPT !.phase = "settling",
                                        !.docSeen = doc[worker[w].job].status]
      <3>1. worker[w].phase \in Engaged
        BY <1>9 DEF SettleRead, Engaged
      <3>2. s.phase = "settling" /\ s.docSeen \in {"queued", "deleted"}
        BY <1>0, <1>owned, <2>1, <3>1 DEF WorkerStates
      <3>3. worker' = [worker EXCEPT ![w] = s] /\ UNCHANGED <<job, doc>>
        BY <1>9, <2>1 DEF SettleRead
      <3> HIDE DEF s
      <3> QED BY <3>2, <3>3, WorkerStepMirror
    <2>2. CASE ~Owns(w)
      BY <1>9, <1>rest, <2>2 DEF SettleRead
    <2> QED BY <2>1, <2>2
  <1>commit. ASSUME NEW w \in Workers, worker[w].phase \in {"settling", "failing"},
                    worker' = [worker EXCEPT ![w] = Idle], NEW row, NEW d,
                    job' = [job EXCEPT ![worker[w].job] = row],
                    doc' = [doc EXCEPT ![worker[w].job] = d],
                    row.attempts = job[worker[w].job].attempts,
                    row.status = "queued" => d.status \in {"queued", "deleted"},
                    row.status # "processing",
                    ~d.deleted => d.status = MirrorOf[row.status],
                    d.result # 0 <=> row.status = "succeeded"
             PROVE  Mirror'
    <2>1. worker[w].job \in Jobs
      BY <1>0, <1>commit DEF Engaged
    <2>2. \A v \in Workers : worker'[v].phase \in {"settling", "failing"} =>
            /\ worker'[v] = worker[v]
            /\ worker[v].job = worker[w].job =>
                 row.attempts = job[worker[w].job].attempts
      BY <1>0, <1>idle, <1>commit
    <2>3. /\ row.status \in {"queued", "processing"} => d.status \in {"queued", "deleted"}
          /\ ~d.deleted => d.status = MirrorOf[row.status]
          /\ d.result # 0 <=> row.status = "succeeded"
          /\ job' = [job EXCEPT ![worker[w].job] = row]
          /\ doc' = [doc EXCEPT ![worker[w].job] = d]
          /\ row.attempts = job[worker[w].job].attempts
      BY <1>commit
    <2> QED BY <2>1, <2>2, <2>3, RowStepMirror
  <1>10. ASSUME NEW w \in Workers, SettleCommit(w) PROVE Mirror'
    <2> DEFINE k == worker[w].job
               row == [job[k] EXCEPT !.status = "succeeded", !.token = NoToken,
                                     !.lease = "none"]
               d == [doc[k] EXCEPT !.status = Flushed(w, "succeeded"),
                                   !.result = worker[w].token]
    <2>1. worker[w].phase = "settling" /\ worker[w].phase \in InSession
      BY <1>10 DEF SettleCommit, InSession
    <2>2. k \in Jobs /\ worker[w].token # NoToken
      BY <2>1, SessionRow
    <2>3. Flushed(w, "succeeded") = "succeeded"
      BY <2>1 DEF Flushed, Mirror, Loaded
    <2>4. /\ row.attempts = job[k].attempts /\ row.status = "succeeded"
          /\ d.status = "succeeded" /\ d.result # 0
      BY <1>0, <2>2, <2>3 DEF JobRows, DocRows, NoToken
    <2>5. /\ job' = [job EXCEPT ![k] = row] /\ doc' = [doc EXCEPT ![k] = d]
          /\ worker' = [worker EXCEPT ![w] = Idle]
      BY <1>10 DEF SettleCommit, EndAttempt
    <2>6. MirrorOf["succeeded"] = "succeeded"
      BY DEF MirrorOf
    <2> HIDE DEF row, d
    <2>7. /\ row.status = "queued" => d.status \in {"queued", "deleted"}
          /\ row.status # "processing"
          /\ ~d.deleted => d.status = MirrorOf[row.status]
          /\ d.result # 0 <=> row.status = "succeeded"
      BY <2>4, <2>6
    <2>8. worker[w].phase \in {"settling", "failing"}
      BY <2>1
    <2> HIDE DEF k
    <2>9. CASE job' = [job EXCEPT ![k] = row] /\ doc' = [doc EXCEPT ![k] = d]
      BY <1>commit, <2>4, <2>5, <2>7, <2>8, <2>9 DEF k
    <2> QED BY <2>5, <2>9
  <1>11. ASSUME NEW w \in Workers, Raise(w) PROVE Mirror'
    <2>1. "raised" \notin {"settling", "failing"}
      OBVIOUS
    <2>2. /\ worker' = [worker EXCEPT ![w].phase = "raised"]
          /\ UNCHANGED <<job, doc>>
      BY <1>11 DEF Raise
    <2> QED BY <1>move, <2>1, <2>2
  <1>12. ASSUME NEW w \in Workers, FailRead(w) PROVE Mirror'
    <2>1. worker[w].phase \in Engaged
      BY <1>12 DEF FailRead, Engaged
    <2> QED BY <1>12, <1>load, <1>rest, <2>1 DEF FailRead
  <1>13. ASSUME NEW w \in Workers, FailCommit(w) PROVE Mirror'
    <2> DEFINE k == worker[w].job
               dead == [job[k] EXCEPT !.status = "dead_letter",
                                      !.token = NoToken, !.lease = "none"]
               back == [job[k] EXCEPT !.status = "queued", !.token = NoToken,
                                      !.lease = "none", !.due = FALSE]
               failed == [doc[k] EXCEPT !.status = Flushed(w, "failed")]
               queued == [doc[k] EXCEPT !.status = Flushed(w, "queued")]
    <2>1. worker[w].phase = "failing" /\ worker[w].phase \in InSession
      BY <1>13 DEF FailCommit, InSession
    <2>2. k \in Jobs /\ job[k].status = "processing"
      BY <2>1, SessionRow
    <2>3. /\ doc[k].status \in {"queued", "deleted"} /\ doc[k].result = 0
          /\ ~doc[k].deleted => doc[k].status = "queued"
      BY <2>2 DEF Mirror, DeletedDocs, Pending, DocMirrorsJob, MirrorOf
    <2>4. /\ Flushed(w, "failed") = "failed"
          /\ Flushed(w, "queued") \in {"queued", "deleted"}
          /\ ~doc[k].deleted => Flushed(w, "queued") = "queued"
      BY <2>1, <2>3 DEF Flushed, Mirror, Loaded
    <2>5. /\ dead.attempts = job[k].attempts /\ dead.status = "dead_letter"
          /\ back.attempts = job[k].attempts /\ back.status = "queued"
      BY <1>0, <2>2 DEF JobRows
    <2>6. /\ failed.status = Flushed(w, "failed") /\ failed.result = doc[k].result
          /\ queued.status = Flushed(w, "queued") /\ queued.result = doc[k].result
          /\ queued.deleted = doc[k].deleted
      BY <1>0, <2>2 DEF DocRows
    <2>7. \/ /\ job' = [job EXCEPT ![k] = dead]
             /\ doc' = [doc EXCEPT ![k] = failed]
          \/ /\ job' = [job EXCEPT ![k] = back]
             /\ doc' = [doc EXCEPT ![k] = queued]
      BY <1>13 DEF FailCommit
    <2>8. worker' = [worker EXCEPT ![w] = Idle]
      BY <1>13 DEF FailCommit, EndAttempt
    <2>9. MirrorOf["dead_letter"] = "failed" /\ MirrorOf["queued"] = "queued"
      BY DEF MirrorOf
    <2> HIDE DEF dead, back, failed, queued
    <2>10. /\ back.status = "queued" => queued.status \in {"queued", "deleted"}
           /\ back.status # "processing"
           /\ ~queued.deleted => queued.status = MirrorOf[back.status]
           /\ queued.result # 0 <=> back.status = "succeeded"
      BY <2>3, <2>4, <2>5, <2>6, <2>9
    <2>11. /\ dead.status = "queued" => failed.status \in {"queued", "deleted"}
           /\ dead.status # "processing"
           /\ ~failed.deleted => failed.status = MirrorOf[dead.status]
           /\ failed.result # 0 <=> dead.status = "succeeded"
      BY <2>3, <2>4, <2>5, <2>6, <2>9
    <2>12. worker[w].phase \in {"settling", "failing"}
      BY <2>1
    <2> HIDE DEF k
    <2>13. CASE job' = [job EXCEPT ![k] = dead] /\ doc' = [doc EXCEPT ![k] = failed]
      BY <1>commit, <2>5, <2>8, <2>11, <2>12, <2>13 DEF k
    <2>14. CASE job' = [job EXCEPT ![k] = back] /\ doc' = [doc EXCEPT ![k] = queued]
      BY <1>commit, <2>5, <2>8, <2>10, <2>12, <2>14 DEF k
    <2> QED BY <2>7, <2>13, <2>14
  <1>14. ASSUME NEW w \in Workers, Crash(w) PROVE Mirror'
    BY <1>14, <1>rest DEF Crash
  <1>15. CASE UNCHANGED vars
    BY <1>15 DEF vars, Mirror, Loaded, DeletedDocs, DocMirrorsJob, Pending
  <1> QED
    BY <1>1, <1>2, <1>3, <1>4, <1>5, <1>6, <1>7, <1>8, <1>9, <1>10, <1>11,
       <1>12, <1>13, <1>14, <1>15
    DEF Next, Clock, Work

-----------------------------------------------------------------------------
(***************************************************************************)
(* Refinement: the queue keeps the promise of JobLifecycle.                *)
(***************************************************************************)

LEMMA InitPromise == Init => Lifecycle!LInit
  BY DEF Init, Lifecycle!LInit, Phase, Tries, PhaseOf

\* A step that leaves the rows' statuses, attempts and bills alone.
LEMMA Stutter ==
  ASSUME \A j \in Jobs : job'[j].status = job[j].status
                        /\ job'[j].attempts = job[j].attempts,
         UNCHANGED completions
  PROVE  UNCHANGED Lifecycle!lvars
  <1>1. Phase' = Phase /\ Tries' = Tries
    BY DEF Phase, Tries
  <1> QED BY <1>1 DEF Lifecycle!lvars

\* A step that changes one row: what the abstract variables become.
LEMMA OneRow ==
  ASSUME TypeOK, NEW k \in Jobs, NEW row, job' = [job EXCEPT ![k] = row]
  PROVE  /\ Phase' = [Phase EXCEPT ![k] = PhaseOf[row.status]]
         /\ Tries' = [Tries EXCEPT ![k] = row.attempts]
         /\ Phase[k] = PhaseOf[job[k].status] /\ Tries[k] = job[k].attempts
  <1>1. /\ job'[k] = row
        /\ \A j \in Jobs : j # k => job'[j] = job[j]
    BY DEF TypeOK
  <1>2. Phase' = [Phase EXCEPT ![k] = PhaseOf[row.status]]
    <2>1. Phase' = [j \in Jobs |-> IF j = k THEN PhaseOf[row.status]
                                           ELSE PhaseOf[job[j].status]]
      BY <1>1 DEF Phase
    <2>2. [Phase EXCEPT ![k] = PhaseOf[row.status]]
            = [j \in Jobs |-> IF j = k THEN PhaseOf[row.status]
                                      ELSE PhaseOf[job[j].status]]
      BY DEF Phase
    <2> QED BY <2>1, <2>2
  <1>3. Tries' = [Tries EXCEPT ![k] = row.attempts]
    <2>1. Tries' = [j \in Jobs |-> IF j = k THEN row.attempts ELSE job[j].attempts]
      BY <1>1 DEF Tries
    <2>2. [Tries EXCEPT ![k] = row.attempts]
            = [j \in Jobs |-> IF j = k THEN row.attempts ELSE job[j].attempts]
      BY DEF Tries
    <2> QED BY <2>1, <2>2
  <1>4. Phase[k] = PhaseOf[job[k].status] /\ Tries[k] = job[k].attempts
    BY DEF Phase, Tries
  <1> QED BY <1>2, <1>3, <1>4

\* A step that changes one row and not the attempts.
LEMMA OneRowSameTries ==
  ASSUME TypeOK, NEW k \in Jobs, NEW row, job' = [job EXCEPT ![k] = row],
         row.attempts = job[k].attempts
  PROVE  Tries' = Tries
  <1>1. /\ job'[k] = row
        /\ \A j \in Jobs : j # k => job'[j] = job[j]
    BY DEF TypeOK
  <1> QED BY <1>1 DEF Tries

LEMMA NextPromise ==
  Fence /\ Mirror /\ [Next]_vars => [Lifecycle!LNext]_(Lifecycle!lvars)
  <1> SUFFICES ASSUME Fence, Mirror, [Next]_vars
               PROVE  Lifecycle!LNext \/ UNCHANGED Lifecycle!lvars
    OBVIOUS
  <1>0. /\ TypeOK /\ job \in [Jobs -> JobRows]
        /\ worker \in [Workers -> WorkerStates]
    BY DEF Fence, Typed, TypeOK
  <1>still. ASSUME UNCHANGED <<job, completions>>
            PROVE  UNCHANGED Lifecycle!lvars
    BY <1>still, Stutter
  <1>1. ASSUME NEW j \in Jobs, Submit(j) PROVE Lifecycle!Accept(j)
    <2> DEFINE row == [job[j] EXCEPT !.status = "queued"]
    <2>1. row.status = "queued" /\ row.attempts = job[j].attempts
      BY <1>0 DEF JobRows
    <2>2. job' = [job EXCEPT ![j] = row] /\ job[j].status = "absent"
          /\ completions' = completions
      BY <1>1 DEF Submit
    <2> HIDE DEF row
    <2>3. /\ Phase' = [Phase EXCEPT ![j] = PhaseOf["queued"]]
          /\ Phase[j] = PhaseOf["absent"] /\ Tries' = Tries
      <3>1. /\ Phase' = [Phase EXCEPT ![j] = PhaseOf[row.status]]
            /\ Tries' = [Tries EXCEPT ![j] = row.attempts]
            /\ Phase[j] = PhaseOf[job[j].status]
            /\ Tries[j] = job[j].attempts
        BY <1>0, <2>1, <2>2, OneRow
      <3>2. Tries' = Tries
        BY <1>0, <2>1, <2>2, OneRowSameTries
      <3> QED BY <1>0, <2>1, <2>2, <3>1, <3>2
    <2>4. PhaseOf["queued"] = "waiting" /\ PhaseOf["absent"] = "absent"
      BY DEF PhaseOf
    <2> QED BY <2>2, <2>3, <2>4 DEF Lifecycle!Accept
  <1>2. ASSUME NEW j \in Jobs, Tombstone(j) PROVE UNCHANGED Lifecycle!lvars
    BY <1>2, <1>still DEF Tombstone
  <1>3. ASSUME NEW j \in Jobs, Clock(j) PROVE UNCHANGED Lifecycle!lvars
    <2>1. \A i \in Jobs : job'[i].status = job[i].status
                        /\ job'[i].attempts = job[i].attempts
      BY <1>0, <1>3 DEF Clock, LeaseExpires, BackoffElapses, JobRows
    <2>2. UNCHANGED completions
      BY <1>3 DEF Clock, LeaseExpires, BackoffElapses
    <2> QED BY <2>1, <2>2, Stutter
  <1>4. ASSUME NEW w \in Workers, TryClaim(w)
        PROVE  Lifecycle!LNext \/ UNCHANGED Lifecycle!lvars
    <2>1. PICK r \in worker[w].rows : ClaimWon(w, r) \/ ClaimLost(w, r)
      BY <1>4 DEF TryClaim
    <2>2. /\ completions' = completions /\ r.job \in Jobs
          /\ r.status \in {"queued", "processing"}
          /\ r.attempts \in Nat /\ r.attempts < MaxAttempts
      BY <1>0, <1>4, AttemptsAssumption DEF TryClaim, WorkerStates, Candidates
    <2>3. CASE ClaimWon(w, r)
      <3> DEFINE k == r.job
                 row == [status |-> "processing", attempts |-> r.attempts + 1,
                         token |-> issued + 1, lease |-> "live",
                         due |-> job[k].due]
      <3>1. job' = [job EXCEPT ![k] = row]
        BY <2>3 DEF ClaimWon
      <3>2. /\ job[k].status \in {"queued", "processing"}
            /\ job[k].attempts = r.attempts
        BY <2>2, <2>3 DEF ClaimWon, RowUnchanged
      <3>3. row.status = "processing" /\ row.attempts = r.attempts + 1
        OBVIOUS
      <3> HIDE DEF row
      <3>4. /\ Phase' = [Phase EXCEPT ![k] = PhaseOf["processing"]]
            /\ Tries' = [Tries EXCEPT ![k] = r.attempts + 1]
            /\ Phase[k] = PhaseOf[job[k].status] /\ Tries[k] = r.attempts
        <4>1. /\ Phase' = [Phase EXCEPT ![k] = PhaseOf[row.status]]
              /\ Tries' = [Tries EXCEPT ![k] = row.attempts]
              /\ Phase[k] = PhaseOf[job[k].status]
              /\ Tries[k] = job[k].attempts
          BY <1>0, <2>2, <3>1, OneRow
        <4> QED BY <1>0, <2>2, <3>1, <3>2, <3>3, <4>1
      <3>5. PhaseOf["processing"] = "granted" /\ PhaseOf["queued"] = "waiting"
        BY DEF PhaseOf
      <3>6. Tries' = [Tries EXCEPT ![k] = @ + 1]
        BY <3>4
      <3>7. Lifecycle!Grant(k)
        BY <2>2, <3>2, <3>4, <3>5, <3>6 DEF Lifecycle!Grant
      <3> QED BY <2>2, <3>7 DEF Lifecycle!LNext
    <2>4. CASE ClaimLost(w, r)
      BY <1>still, <2>2, <2>4 DEF ClaimLost
    <2> QED BY <2>1, <2>3, <2>4
  <1>5. ASSUME NEW w \in Workers, SettleCommit(w)
        PROVE  Lifecycle!Complete(worker[w].job) /\ worker[w].job \in Jobs
    <2> DEFINE row == [job[worker[w].job] EXCEPT
                         !.status = "succeeded", !.token = NoToken,
                         !.lease = "none"]
    <2>1. worker[w].phase \in InSession
      BY <1>5 DEF SettleCommit, InSession
    <2>2. worker[w].job \in Jobs /\ job[worker[w].job].status = "processing"
      BY <2>1, SessionRow
    <2>3. row.status = "succeeded" /\ row.attempts = job[worker[w].job].attempts
      BY <1>0, <2>2 DEF JobRows
    <2>4. /\ job' = [job EXCEPT ![worker[w].job] = row]
          /\ completions' = [completions EXCEPT ![worker[w].job] = @ + 1]
      BY <1>5 DEF SettleCommit
    <2> HIDE DEF row
    <2>5. /\ Phase' = [Phase EXCEPT ![worker[w].job] = PhaseOf["succeeded"]]
          /\ Phase[worker[w].job] = PhaseOf["processing"] /\ Tries' = Tries
      <3>1. /\ Phase' = [Phase EXCEPT ![worker[w].job] = PhaseOf[row.status]]
            /\ Tries' = [Tries EXCEPT ![worker[w].job] = row.attempts]
            /\ Phase[worker[w].job] = PhaseOf[job[worker[w].job].status]
            /\ Tries[worker[w].job] = job[worker[w].job].attempts
        BY <1>0, <2>2, <2>3, <2>4, OneRow
      <3>2. Tries' = Tries
        BY <1>0, <2>2, <2>3, <2>4, OneRowSameTries
      <3> QED BY <1>0, <2>2, <2>3, <2>4, <3>1, <3>2
    <2>6. PhaseOf["succeeded"] = "done" /\ PhaseOf["processing"] = "granted"
      BY DEF PhaseOf
    <2> QED BY <2>2, <2>4, <2>5, <2>6 DEF Lifecycle!Complete
  <1>6. ASSUME NEW w \in Workers, FailCommit(w)
        PROVE  Lifecycle!LNext
    <2> DEFINE k == worker[w].job
               dead == [job[worker[w].job] EXCEPT
                          !.status = "dead_letter", !.token = NoToken,
                          !.lease = "none"]
               back == [job[worker[w].job] EXCEPT
                          !.status = "queued", !.token = NoToken,
                          !.lease = "none", !.due = FALSE]
    <2>1. worker[w].phase = "failing" /\ worker[w].phase \in InSession
      BY <1>6 DEF FailCommit, InSession
    <2>2. k \in Jobs /\ job[k].status = "processing"
      BY <2>1, SessionRow
    <2>3. worker[w].tries = job[k].attempts /\ job[k].attempts \in 0..MaxAttempts
      BY <1>0, <2>1, <2>2 DEF Mirror, Loaded, JobRows
    <2>4. /\ dead.attempts = job[k].attempts /\ dead.status = "dead_letter"
          /\ back.attempts = job[k].attempts /\ back.status = "queued"
      BY <1>0, <2>2 DEF JobRows
    <2>5. /\ LastTry(w) => job' = [job EXCEPT ![k] = dead]
          /\ ~LastTry(w) => job' = [job EXCEPT ![k] = back]
          /\ completions' = completions
      BY <1>6 DEF FailCommit
    <2>6. /\ PhaseOf["dead_letter"] = "dead" /\ PhaseOf["queued"] = "waiting"
          /\ PhaseOf["processing"] = "granted"
      BY DEF PhaseOf
    <2> HIDE DEF dead, back, k
    <2>7. Phase[k] = "granted" /\ Tries[k] = job[k].attempts
      BY <2>2, <2>6 DEF Phase, Tries
    <2>8. CASE LastTry(w)
      <3>1. Phase' = [Phase EXCEPT ![k] = "dead"] /\ Tries' = Tries
        BY <1>0, <2>2, <2>4, <2>5, <2>6, <2>8, OneRow, OneRowSameTries
      <3>2. Tries[k] = MaxAttempts
        BY <2>3, <2>7, <2>8, AttemptsAssumption DEF LastTry
      <3>3. Lifecycle!Bury(k)
        BY <2>5, <2>7, <3>1, <3>2 DEF Lifecycle!Bury
      <3> QED BY <2>2, <3>3 DEF Lifecycle!LNext
    <2>9. CASE ~LastTry(w)
      <3>1. Phase' = [Phase EXCEPT ![k] = "waiting"] /\ Tries' = Tries
        BY <1>0, <2>2, <2>4, <2>5, <2>6, <2>9, OneRow, OneRowSameTries
      <3>2. Tries[k] < MaxAttempts
        BY <2>3, <2>7, <2>9, AttemptsAssumption DEF LastTry
      <3>3. Lifecycle!GiveBack(k)
        BY <2>5, <2>7, <3>1, <3>2 DEF Lifecycle!GiveBack
      <3> QED BY <2>2, <3>3 DEF Lifecycle!LNext
    <2> QED BY <2>8, <2>9
  <1>7. ASSUME NEW w \in Workers,
               \/ SelectCandidates(w) \/ ReadBack(w) \/ Begin(w) \/ SettleRead(w)
               \/ Raise(w) \/ FailRead(w) \/ Crash(w)
        PROVE  UNCHANGED Lifecycle!lvars
    BY <1>7, <1>still DEF SelectCandidates, ReadBack, Begin, SettleRead, Raise,
                          FailRead, Crash
  <1>8. CASE UNCHANGED vars
    BY <1>8, <1>still DEF vars
  <1> QED
    BY <1>1, <1>2, <1>3, <1>4, <1>5, <1>6, <1>7, <1>8
    DEF Next, Work, Lifecycle!LNext

LEMMA MirrorHolds == ASSUME Timely PROVE Spec => [](Fence /\ Mirror)
  <1>1. Init => Fence /\ Mirror
    BY InitFence, InitMirror
  <1>2. Fence /\ Mirror /\ [Next]_vars => Fence' /\ Mirror'
    BY NextFence, NextMirror
  <1> QED BY <1>1, <1>2, PTL DEF Spec

\* The documents table follows the jobs table: a live document is succeeded,
\* failed or queued as its job is, and only success leaves a result key.
THEOREM DocsFollowJobs == ASSUME Timely PROVE Spec => []DocMirrorsJob
  <1>1. Mirror => DocMirrorsJob
    BY DEF Mirror
  <1> QED BY MirrorHolds, <1>1, PTL

\* The queue implements JobLifecycle: every step of the database, of a worker
\* or of a clock grants, completes, gives back or buries a job, or is unseen.
THEOREM PromiseKept == ASSUME Timely PROVE Spec => KeepsPromise
  <1>1. Fence /\ Mirror /\ [Next]_vars => [Lifecycle!LNext]_(Lifecycle!lvars)
    BY NextPromise
  <1> QED
    BY MirrorHolds, InitPromise, <1>1, PTL
    DEF Spec, KeepsPromise, Lifecycle!LSpec
=============================================================================
