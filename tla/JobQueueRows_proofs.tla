------------------------- MODULE JobQueueRows_proofs ---------------------------
(***************************************************************************)
(* What a step of JobQueue does to one row of table jobs, and what follows *)
(* from that.  Except for the last theorem nothing here assumes anything   *)
(* about timing: leases may run out under a worker that is still at it and *)
(* sessions may overlap.                                                   *)
(***************************************************************************)
EXTENDS JobQueue_proofs, FiniteSetTheorems

\* r is a candidate of w, and w wins the row.
Claims(w, r) == TryClaim(w) /\ r \in worker[w].rows /\ ClaimWon(w, r)

\* The session of w writes the outcome of an attempt to the row it holds.
Settles(w, st) ==
    /\ \/ SettleCommit(w) /\ st = "succeeded"
       \/ FailCommit(w) /\ LastTry(w) /\ st = "dead_letter"
       \/ FailCommit(w) /\ ~LastTry(w) /\ st = "queued"

LEMMA RowSteps ==
  ASSUME Typed, [Next]_vars, NEW j \in Jobs
  PROVE  \/ /\ job'[j].status = job[j].status /\ job'[j].attempts = job[j].attempts
            /\ job'[j].token = job[j].token
            /\ job'[j].lease \in {job[j].lease, "expired"}
         \/ /\ job[j].status = "absent" /\ job'[j].status = "queued"
            /\ job'[j].attempts = job[j].attempts /\ job'[j].token = job[j].token
         \/ \E w \in Workers : \E r \in worker[w].rows :
              /\ Claims(w, r) /\ r.job = j
              /\ job'[j].status = "processing" /\ job'[j].attempts = r.attempts + 1
         \/ \E w \in Workers, st \in {"succeeded", "dead_letter", "queued"} :
              /\ Settles(w, st) /\ worker[w].job = j /\ job'[j].status = st
              /\ job'[j].attempts = job[j].attempts /\ job'[j].token = NoToken
  <1>0. job \in [Jobs -> JobRows]
    BY DEF Typed, TypeOK
  <1> DEFINE Same == /\ job'[j].status = job[j].status /\ job'[j].attempts = job[j].attempts
                     /\ job'[j].token = job[j].token
                     /\ job'[j].lease \in {job[j].lease, "expired"}
  <1>1. ASSUME NEW i \in Jobs, Submit(i)
        PROVE  \/ Same
               \/ /\ job[j].status = "absent" /\ job'[j].status = "queued"
                  /\ job'[j].attempts = job[j].attempts /\ job'[j].token = job[j].token
    BY <1>0, <1>1 DEF Submit, JobRows
  <1>2. ASSUME NEW i \in Jobs, Clock(i) PROVE Same
    BY <1>0, <1>2 DEF Clock, LeaseExpires, BackoffElapses, JobRows
  <1>3. ASSUME NEW w \in Workers, TryClaim(w)
        PROVE  \/ Same
               \/ \E r \in worker[w].rows :
                    /\ Claims(w, r) /\ r.job = j
                    /\ job'[j].status = "processing" /\ job'[j].attempts = r.attempts + 1
    <2>1. PICK r \in worker[w].rows : ClaimWon(w, r) \/ UNCHANGED job
      BY <1>3 DEF TryClaim, ClaimLost
    <2>2. CASE ClaimWon(w, r)
      BY <1>0, <1>3, <2>2 DEF Claims, ClaimWon
    <2> QED BY <2>1, <2>2
  <1>4. ASSUME NEW w \in Workers, SettleCommit(w)
        PROVE  \/ Same
               \/ /\ worker[w].job = j /\ job'[j].status = "succeeded"
                  /\ job'[j].attempts = job[j].attempts /\ job'[j].token = NoToken
    BY <1>0, <1>4 DEF SettleCommit, JobRows
  <1>5. ASSUME NEW w \in Workers, FailCommit(w)
        PROVE  \/ Same
               \/ /\ worker[w].job = j
                  /\ \/ LastTry(w) /\ job'[j].status = "dead_letter"
                     \/ ~LastTry(w) /\ job'[j].status = "queued"
                  /\ job'[j].attempts = job[j].attempts /\ job'[j].token = NoToken
    <2>1. CASE LastTry(w)
      <3>1. job' = [job EXCEPT ![worker[w].job] =
                      [@ EXCEPT !.status = "dead_letter", !.token = NoToken,
                                !.lease = "none"]]
        BY <1>5, <2>1 DEF FailCommit
      <3> QED BY <1>0, <2>1, <3>1 DEF JobRows
    <2>2. CASE ~LastTry(w)
      <3>1. job' = [job EXCEPT ![worker[w].job] =
                      [@ EXCEPT !.status = "queued", !.token = NoToken,
                                !.lease = "none", !.due = FALSE]]
        BY <1>5, <2>2 DEF FailCommit
      <3> QED BY <1>0, <2>2, <3>1 DEF JobRows
    <2> QED BY <2>1, <2>2
  <1>6. CASE UNCHANGED job
    BY <1>6
  <1> QED
    BY <1>1, <1>2, <1>3, <1>4, <1>5, <1>6
    DEF Next, Work, Settles, Tombstone, SelectCandidates, ReadBack, Begin, SettleRead,
        Raise, FailRead, Crash, vars

\* What a worker reads of a row it may claim.
LEMMA CandidateFacts ==
  ASSUME Typed, NEW w \in Workers, NEW r \in worker[w].rows
  PROVE  /\ r \in Candidates /\ r.job \in Jobs /\ r.attempts \in Nat
         /\ r.attempts < MaxAttempts /\ r.status \in {"queued", "processing"}
  BY AttemptsAssumption DEF Typed, TypeOK, WorkerStates, Candidates

\* Attempts are never taken back.
LEMMA AttemptsGrow ==
  ASSUME Typed, [Next]_vars, NEW j \in Jobs
  PROVE  job[j].attempts \in Nat /\ job'[j].attempts \in Nat
         /\ job[j].attempts <= job'[j].attempts /\ job[j].attempts <= MaxAttempts
  <1>1. job[j].attempts \in 0..MaxAttempts
    BY DEF Typed, TypeOK, JobRows
  <1>2. ASSUME NEW w \in Workers, NEW r \in worker[w].rows, Claims(w, r), r.job = j
        PROVE  r.attempts = job[j].attempts
    BY <1>2 DEF Claims, ClaimWon, RowUnchanged
  <1> QED BY <1>1, <1>2, RowSteps, AttemptsAssumption

-----------------------------------------------------------------------------
(***************************************************************************)
(* A claim takes a row as its candidate list showed it: the count that the *)
(* UPDATE compares stands for the lease it does not compare.               *)
(***************************************************************************)
LEMMA InitCandidatesAge == Init => CandidatesAge
  BY DEF Init, CandidatesAge, Idle

LEMMA NextCandidatesAge == Typed /\ CandidatesAge /\ [Next]_vars => CandidatesAge'
  <1> SUFFICES ASSUME Typed, CandidatesAge, [Next]_vars,
                      NEW w \in Workers, NEW r \in worker'[w].rows
               PROVE  /\ r.attempts <= job'[r.job].attempts
                      /\ r.status = "processing" /\ RowUnchanged(r)' =>
                           job'[r.job].lease = "expired"
    BY DEF CandidatesAge
  <1>0. worker \in [Workers -> WorkerStates] /\ job \in [Jobs -> JobRows]
    BY DEF Typed, TypeOK
  <1>1. CASE r \in worker[w].rows
    <2>1. /\ r.job \in Jobs /\ r.attempts \in Nat
          /\ r.attempts <= job[r.job].attempts
          /\ r.status = "processing" /\ RowUnchanged(r) => job[r.job].lease = "expired"
      BY <1>1, CandidateFacts DEF CandidatesAge
    <2>2. r.attempts <= job'[r.job].attempts
      BY <2>1, AttemptsGrow
    <2>3. ASSUME r.status = "processing", RowUnchanged(r)'
          PROVE  job'[r.job].lease = "expired"
      <3>1. job'[r.job].attempts = r.attempts /\ job'[r.job].status = "processing"
        BY <2>3 DEF RowUnchanged
      <3>2. job[r.job].attempts = r.attempts
        BY <2>1, <3>1, AttemptsGrow
      <3>3. ASSUME NEW v \in Workers, NEW q \in worker[v].rows, Claims(v, q), q.job = r.job
            PROVE  q.attempts = job[r.job].attempts /\ q.attempts \in Nat
        BY <3>3, CandidateFacts DEF Claims, ClaimWon, RowUnchanged
      <3>4. /\ job'[r.job].status = job[r.job].status
            /\ job'[r.job].lease \in {job[r.job].lease, "expired"}
        BY <2>1, <3>1, <3>2, <3>3, RowSteps
      <3> QED BY <2>1, <2>3, <3>1, <3>2, <3>4 DEF RowUnchanged
    <2> QED BY <2>2, <2>3
  <1>2. CASE r \notin worker[w].rows
    <2>1. SelectCandidates(w)
      <3>1. Idle.rows = {}
        BY DEF Idle
      <3>s. ASSUME NEW v \in Workers, NEW s, worker' = [worker EXCEPT ![v] = s],
                   s.rows \subseteq worker[v].rows
            PROVE  worker'[w].rows \subseteq worker[w].rows
        BY <1>0, <3>s
      <3>2. ASSUME NEW v \in Workers, Work(v), ~SelectCandidates(v)
            PROVE  worker'[w].rows \subseteq worker[w].rows
        <4>0. worker[v] \in WorkerStates
          BY <1>0
        <4>1. CASE TryClaim(v)
          <5>1. PICK q \in worker[v].rows : ClaimWon(v, q) \/ ClaimLost(v, q)
            BY <4>1 DEF TryClaim
          <5>2. CASE ClaimWon(v, q)
            <6> DEFINE s == [worker[v] EXCEPT !.phase = "taken", !.rows = {}, !.job = q.job,
                                              !.token = issued + 1]
            <6>1. s.rows = {}
              BY <4>0 DEF WorkerStates
            <6>2. worker' = [worker EXCEPT ![v] = s]
              BY <5>2 DEF ClaimWon
            <6> HIDE DEF s
            <6> QED BY <3>s, <6>1, <6>2
          <5>3. CASE ClaimLost(v, q)
            <6> DEFINE s == [worker[v] EXCEPT !.rows = worker[v].rows \ {q}]
            <6>1. s.rows \subseteq worker[v].rows
              BY <4>0 DEF WorkerStates
            <6>2. \/ worker' = [worker EXCEPT ![v] = s]
                  \/ worker' = [worker EXCEPT ![v] = Idle]
              BY <5>3 DEF ClaimLost
            <6> HIDE DEF s
            <6> QED BY <3>1, <3>s, <6>1, <6>2
          <5> QED BY <5>1, <5>2, <5>3
        <4>2. CASE ReadBack(v) \/ Begin(v) \/ SettleRead(v) \/ Raise(v) \/ FailRead(v)
          <5>1. CASE ReadBack(v)
            BY <1>0, <5>1 DEF ReadBack, WorkerStates
          <5>2. CASE LoadForFail(v)
            BY <1>0, <5>2 DEF LoadForFail, WorkerStates
          <5>3. CASE worker' = [worker EXCEPT ![v] = Idle]
            BY <3>1, <3>s, <5>3
          <5>4. ASSUME NEW p, worker' = [worker EXCEPT ![v].phase = p]
                PROVE  worker'[w].rows \subseteq worker[w].rows
            BY <1>0, <5>4 DEF WorkerStates
          <5>5. CASE SettleRead(v)
            <6>1. CASE Owns(v)
              <7>1. \E d : worker' = [worker EXCEPT
                              ![v] = [@ EXCEPT !.phase = "settling", !.docSeen = d]]
                BY <5>5, <6>1 DEF SettleRead
              <7> QED BY <1>0, <7>1 DEF WorkerStates
            <6>2. CASE ~Owns(v)
              BY <5>3, <5>5, <6>2 DEF SettleRead
            <6> QED BY <6>1, <6>2
          <5> QED BY <4>2, <5>1, <5>2, <5>3, <5>4, <5>5 DEF Begin, Raise, FailRead
        <4>3. CASE SettleCommit(v) \/ FailCommit(v)
          BY <3>1, <3>s, <4>3 DEF SettleCommit, FailCommit, EndAttempt
        <4> QED BY <3>2, <4>1, <4>2, <4>3 DEF Work
      <3>3. ASSUME NEW v \in Workers, SelectCandidates(v), v # w
            PROVE  worker'[w] = worker[w]
        BY <1>0, <3>3 DEF SelectCandidates
      <3>4. ASSUME NEW v \in Workers, Crash(v)
            PROVE  worker'[w].rows \subseteq worker[w].rows
        BY <1>0, <3>1, <3>4 DEF Crash
      <3>5. worker' # worker
        BY <1>2
      <3> QED
        BY <1>2, <3>2, <3>3, <3>4, <3>5
        DEF Next, Clock, Submit, Tombstone, LeaseExpires, BackoffElapses, vars
    <2>2. UNCHANGED job
      BY <2>1 DEF SelectCandidates
    <2>3. PICK j \in Eligible(w) :
            r = [job |-> j, status |-> job[j].status, attempts |-> job[j].attempts]
      BY <1>0, <2>1 DEF SelectCandidates, WorkerStates
    <2>4. j \in Jobs /\ Claimable(w, j) /\ job[j].attempts \in Nat
      BY <1>0, AttemptsAssumption DEF Eligible, JobRows
    <2> QED BY <2>2, <2>3, <2>4 DEF Claimable, LeaseOver
  <1> QED BY <1>1, <1>2

LEMMA CandidatesHold == Spec => [](Typed /\ CandidatesAge)
  BY InitTyped, NextTyped, InitCandidatesAge, NextCandidatesAge, PTL DEF Spec

\* A claim takes a row that is claimable now, however old its candidate list:
\* attempts remain, and the row is queued or its lease has run out.
THEOREM ClaimsAreDue == Spec => ClaimsOnlyClaimable
  <1>1. ASSUME Typed, CandidatesAge, [Next]_vars, NEW j \in Jobs,
               job'[j].token \notin {NoToken, job[j].token}
        PROVE  /\ job[j].attempts < MaxAttempts
               /\ job'[j].attempts = job[j].attempts + 1
               /\ \/ job[j].status = "queued"
                  \/ job[j].status = "processing" /\ job[j].lease = "expired"
    <2>1. PICK w \in Workers, r \in UNION {worker[v].rows : v \in Workers} :
            /\ r \in worker[w].rows /\ Claims(w, r) /\ r.job = j
            /\ job'[j].attempts = r.attempts + 1
      BY <1>1, RowSteps
    <2>2. job[j].status = r.status /\ job[j].attempts = r.attempts /\ RowUnchanged(r)
      BY <2>1 DEF Claims, ClaimWon, RowUnchanged
    <2>3. /\ r.attempts < MaxAttempts /\ r.status \in {"queued", "processing"}
          /\ r.status = "processing" => job[j].lease = "expired"
      BY <1>1, <2>1, <2>2, CandidateFacts DEF CandidatesAge
    <2> QED BY <2>1, <2>2, <2>3
  <1>2. Typed /\ CandidatesAge /\ [Next]_vars =>
          [\A j \in Jobs :
             job'[j].token \notin {NoToken, job[j].token} =>
               /\ job[j].attempts < MaxAttempts
               /\ job'[j].attempts = job[j].attempts + 1
               /\ \/ job[j].status = "queued"
                  \/ job[j].status = "processing" /\ job[j].lease = "expired"]_vars
    BY <1>1
  <1> QED BY CandidatesHold, <1>2, PTL DEF Spec, ClaimsOnlyClaimable

-----------------------------------------------------------------------------
(***************************************************************************)
(* Bills.  A claim counts one attempt and puts one worker at the job; a    *)
(* bill takes that worker off it.  So bills and workers still at a job     *)
(* together never exceed its attempts, even when workers overlap.          *)
(***************************************************************************)
At(j) == {w \in Workers : worker[w].phase \in Engaged /\ worker[w].job = j}

PaidFor == \A j \in Jobs :
    IsFiniteSet(At(j)) /\ completions[j] + Cardinality(At(j)) <= job[j].attempts

\* The count _fail judges by is never ahead of the row's.
TriesTrue == \A w \in Workers :
    worker[w].phase = "failing" => worker[w].tries <= job[worker[w].job].attempts

DeadSpent == \A j \in Jobs : job[j].status = "dead_letter" => job[j].attempts = MaxAttempts

\* What a step can do to a worker.
LEMMA WorkerSteps ==
  ASSUME Typed, [Next]_vars, NEW v \in Workers
  PROVE  \/ worker'[v] = worker[v]
         \/ worker'[v].phase \notin Engaged
         \/ \E r \in worker[v].rows :
              /\ Claims(v, r) /\ worker[v].phase = "claiming"
              /\ worker'[v].phase = "taken" /\ worker'[v].job = r.job
         \/ /\ worker[v].phase \in Engaged /\ worker'[v].phase \in Engaged
            /\ worker'[v].job = worker[v].job
            /\ worker'[v].phase = "failing" =>
                 UNCHANGED job /\ worker'[v].tries = job[worker[v].job].attempts
  <1>0. worker \in [Workers -> WorkerStates]
    BY DEF Typed, TypeOK
  <1> DEFINE Goal ==
         \/ worker'[v] = worker[v]
         \/ worker'[v].phase \notin Engaged
         \/ \E r \in worker[v].rows :
              /\ Claims(v, r) /\ worker[v].phase = "claiming"
              /\ worker'[v].phase = "taken" /\ worker'[v].job = r.job
         \/ /\ worker[v].phase \in Engaged /\ worker'[v].phase \in Engaged
            /\ worker'[v].job = worker[v].job
            /\ worker'[v].phase = "failing" =>
                 UNCHANGED job /\ worker'[v].tries = job[worker[v].job].attempts
  <1>1. ASSUME NEW w \in Workers, w # v, Work(w) \/ Crash(w) PROVE worker'[v] = worker[v]
    <2>1. \E s : worker' = [worker EXCEPT ![w] = s]
      <3>1. CASE TryClaim(w)
        BY <3>1 DEF TryClaim, ClaimWon, ClaimLost
      <3>2. CASE ~TryClaim(w)
        BY <1>1, <3>2 DEF Work, SelectCandidates, ReadBack, Begin, SettleRead,
          SettleCommit, Raise, FailRead, FailCommit, LoadForFail, EndAttempt, Crash
      <3> QED BY <3>1, <3>2
    <2> QED BY <1>0, <1>1, <2>1
  <1>2. CASE worker' = [worker EXCEPT ![v] = Idle]
    BY <1>0, <1>2 DEF Idle, Engaged
  <1>3. ASSUME NEW p \in Engaged, worker[v].phase \in Engaged, p # "failing",
               worker' = [worker EXCEPT ![v].phase = p]
        PROVE  Goal
    BY <1>0, <1>3 DEF WorkerStates
  <1>4. CASE SelectCandidates(v)
    BY <1>0, <1>4 DEF SelectCandidates, WorkerStates, Engaged
  <1>5. CASE TryClaim(v)
    <2>1. PICK r \in worker[v].rows : ClaimWon(v, r) \/ ClaimLost(v, r)
      BY <1>5 DEF TryClaim
    <2>2. CASE ClaimWon(v, r)
      <3>1. worker'[v].phase = "taken" /\ worker'[v].job = r.job
        BY <1>0, <2>2 DEF ClaimWon, WorkerStates
      <3> QED BY <1>5, <2>2, <3>1 DEF Claims, TryClaim
    <2>3. CASE worker' = [worker EXCEPT ![v].rows = @ \ {r}]
      BY <1>0, <1>5, <2>3 DEF TryClaim, WorkerStates, Engaged
    <2> QED BY <1>2, <2>1, <2>2, <2>3 DEF ClaimLost
  <1>6. CASE ReadBack(v)
    BY <1>0, <1>6 DEF ReadBack, WorkerStates, Engaged
  <1>7. CASE LoadForFail(v) /\ worker[v].phase \in Engaged /\ UNCHANGED job
    BY <1>0, <1>7 DEF LoadForFail, WorkerStates, Engaged
  <1>8. CASE SettleRead(v)
    <2>1. CASE Owns(v)
      <3>1. \E d : worker' = [worker EXCEPT
                      ![v] = [@ EXCEPT !.phase = "settling", !.docSeen = d]]
        BY <1>8, <2>1 DEF SettleRead
      <3> QED BY <1>0, <1>8, <3>1 DEF WorkerStates, SettleRead, Engaged
    <2>2. CASE ~Owns(v)
      BY <1>2, <1>8, <2>2 DEF SettleRead
    <2> QED BY <2>1, <2>2
  <1>9. CASE Begin(v)
    BY <1>2, <1>3, <1>7, <1>9 DEF Begin, Engaged
  <1>10. CASE Raise(v)
    BY <1>3, <1>10 DEF Raise, Engaged
  <1>11. CASE FailRead(v)
    BY <1>2, <1>7, <1>11 DEF FailRead, Engaged
  <1>12. CASE SettleCommit(v) \/ FailCommit(v) \/ Crash(v)
    BY <1>2, <1>12 DEF SettleCommit, FailCommit, EndAttempt, Crash
  <1>13. CASE UNCHANGED worker
    BY <1>13
  <1>14. \/ UNCHANGED worker
         \/ \E w \in Workers : Work(w) \/ Crash(w)
    BY DEF Next, Clock, Submit, Tombstone, LeaseExpires, BackoffElapses, vars
  <1> QED
    BY <1>1, <1>4, <1>5, <1>6, <1>8, <1>9, <1>10, <1>11, <1>12, <1>13, <1>14 DEF Work

\* Who is at a job, and what it is billed, after a step.
LEMMA EngagementSteps ==
  ASSUME Typed, [Next]_vars, NEW j \in Jobs
  PROVE  \/ At(j)' \subseteq At(j) /\ completions'[j] = completions[j]
         \/ \E w \in Workers, r \in UNION {worker[v].rows : v \in Workers} :
              /\ r \in worker[w].rows /\ Claims(w, r) /\ r.job = j
              /\ w \notin At(j) /\ At(j)' \subseteq At(j) \cup {w}
              /\ completions'[j] = completions[j]
         \/ \E w \in Workers :
              /\ SettleCommit(w) /\ w \in At(j) /\ At(j)' \subseteq At(j) \ {w}
              /\ completions'[j] = completions[j] + 1
  <1>0. worker \in [Workers -> WorkerStates] /\ completions \in [Jobs -> Nat]
    BY DEF Typed, TypeOK
  <1>1. ASSUME NEW w \in Workers, NEW r \in worker[w].rows, Claims(w, r), r.job = j
        PROVE  /\ w \notin At(j) /\ At(j)' \subseteq At(j) \cup {w}
               /\ completions'[j] = completions[j]
    <2>1. worker[w].phase = "claiming" /\ UNCHANGED completions
      BY <1>1 DEF Claims, TryClaim
    <2>2. \A v \in Workers \ {w} : worker'[v] = worker[v]
      BY <1>0, <1>1 DEF Claims, ClaimWon
    <2> QED BY <2>1, <2>2 DEF At, Engaged
  <1>2. ASSUME NEW w \in Workers, SettleCommit(w), worker[w].job = j
        PROVE  /\ w \in At(j) /\ At(j)' \subseteq At(j) \ {w}
               /\ completions'[j] = completions[j] + 1
    <2>1. worker[w].phase \in Engaged
      BY <1>2 DEF SettleCommit, Engaged
    <2>2. worker' = [worker EXCEPT ![w] = Idle]
      BY <1>2 DEF SettleCommit, EndAttempt
    <2>3. \A v \in Workers \ {w} : worker'[v] = worker[v]
      BY <1>0, <2>2
    <2>4. worker'[w].phase \notin Engaged
      BY <1>0, <2>2 DEF Idle, Engaged
    <2>5. completions'[j] = completions[j] + 1
      BY <1>0, <1>2 DEF SettleCommit
    <2> QED BY <1>2, <2>1, <2>3, <2>4, <2>5 DEF At
  <1>3. ASSUME \A w \in Workers : \A r \in worker[w].rows : ~(Claims(w, r) /\ r.job = j)
        PROVE  At(j)' \subseteq At(j)
    <2> SUFFICES ASSUME NEW w \in Workers, worker'[w].phase \in Engaged, worker'[w].job = j
                 PROVE  worker[w].phase \in Engaged /\ worker[w].job = j
      BY DEF At
    <2> QED BY <1>3, WorkerSteps
  <1>4. ASSUME \A w \in Workers : ~(SettleCommit(w) /\ worker[w].job = j)
        PROVE  completions'[j] = completions[j]
    <2>1. ASSUME NEW w \in Workers, SettleCommit(w) PROVE completions'[j] = completions[j]
      BY <1>0, <1>4, <2>1 DEF SettleCommit
    <2>2. ASSUME ~\E w \in Workers : SettleCommit(w) PROVE UNCHANGED completions
      BY <2>2 DEF Next, Clock, Submit, Tombstone, LeaseExpires, BackoffElapses, Work,
        SelectCandidates, TryClaim, ReadBack, Begin, SettleRead, Raise, FailRead,
        FailCommit, Crash, vars
    <2> QED BY <2>1, <2>2
  <1>5. CASE \E w \in Workers : \E r \in worker[w].rows : Claims(w, r) /\ r.job = j
    BY <1>1, <1>5
  <1>6. CASE \E w \in Workers : SettleCommit(w) /\ worker[w].job = j
    BY <1>2, <1>6
  <1> QED BY <1>3, <1>4, <1>5, <1>6

LEMMA NextPaidFor == Typed /\ PaidFor /\ [Next]_vars => PaidFor'
  <1> SUFFICES ASSUME Typed, PaidFor, [Next]_vars, NEW j \in Jobs
               PROVE  /\ IsFiniteSet(At(j)')
                      /\ completions'[j] + Cardinality(At(j)') <= job'[j].attempts
    BY DEF PaidFor
  <1>0. /\ IsFiniteSet(At(j)) /\ completions[j] + Cardinality(At(j)) <= job[j].attempts
        /\ Cardinality(At(j)) \in Nat /\ completions[j] \in Nat
        /\ job[j].attempts \in Nat /\ job'[j].attempts \in Nat
        /\ job[j].attempts <= job'[j].attempts
    BY AttemptsGrow, FS_CardinalityType DEF PaidFor, Typed, TypeOK
  <1>1. CASE At(j)' \subseteq At(j) /\ completions'[j] = completions[j]
    <2>1. /\ IsFiniteSet(At(j)') /\ Cardinality(At(j)') <= Cardinality(At(j))
          /\ Cardinality(At(j)') \in Nat
      BY <1>0, <1>1, FS_Subset, FS_CardinalityType
    <2> QED BY <1>0, <1>1, <2>1
  <1>2. ASSUME NEW w \in Workers, NEW r \in worker[w].rows, Claims(w, r), r.job = j,
               w \notin At(j), At(j)' \subseteq At(j) \cup {w},
               completions'[j] = completions[j]
        PROVE  /\ IsFiniteSet(At(j)')
               /\ completions'[j] + Cardinality(At(j)') <= job'[j].attempts
    <2>1. /\ IsFiniteSet(At(j) \cup {w})
          /\ Cardinality(At(j) \cup {w}) = Cardinality(At(j)) + 1
      BY <1>0, <1>2, FS_AddElement
    <2>2. /\ IsFiniteSet(At(j)') /\ Cardinality(At(j)') <= Cardinality(At(j)) + 1
          /\ Cardinality(At(j)') \in Nat
      BY <1>2, <2>1, FS_Subset, FS_CardinalityType
    <2>3. job'[j].attempts = job[j].attempts + 1
      <3>1. r.attempts = job[j].attempts
        BY <1>2 DEF Claims, ClaimWon, RowUnchanged
      <3> QED BY <1>2, <3>1 DEF Claims, ClaimWon, Typed, TypeOK
    <2> QED BY <1>0, <1>2, <2>2, <2>3
  <1>3. ASSUME NEW w \in Workers, w \in At(j), At(j)' \subseteq At(j) \ {w},
               completions'[j] = completions[j] + 1
        PROVE  /\ IsFiniteSet(At(j)')
               /\ completions'[j] + Cardinality(At(j)') <= job'[j].attempts
    <2>1. /\ IsFiniteSet(At(j) \ {w})
          /\ Cardinality(At(j) \ {w}) = Cardinality(At(j)) - 1
      BY <1>0, <1>3, FS_RemoveElement
    <2>2. /\ IsFiniteSet(At(j)') /\ Cardinality(At(j)') <= Cardinality(At(j)) - 1
          /\ Cardinality(At(j)') \in Nat
      BY <1>3, <2>1, FS_Subset, FS_CardinalityType
    <2> QED BY <1>0, <1>3, <2>2
  <1> QED BY <1>1, <1>2, <1>3, EngagementSteps

LEMMA NextTriesTrue == Typed /\ TriesTrue /\ [Next]_vars => TriesTrue'
  <1> SUFFICES ASSUME Typed, TriesTrue, [Next]_vars, NEW w \in Workers,
                      worker'[w].phase = "failing"
               PROVE  worker'[w].tries <= job'[worker'[w].job].attempts
    BY DEF TriesTrue
  <1>1. worker'[w].phase \in Engaged
    BY DEF Engaged
  <1>2. CASE worker'[w] = worker[w]
    <2>1. worker[w].job \in Jobs /\ worker[w].tries \in Nat
      BY <1>1, <1>2 DEF Typed, TypeOK, EngagedHasJob, WorkerStates
    <2>2. worker[w].tries <= job[worker[w].job].attempts
      BY <1>2 DEF TriesTrue
    <2> QED BY <1>2, <2>1, <2>2, AttemptsGrow
  <1>3. CASE /\ worker[w].phase \in Engaged /\ worker'[w].job = worker[w].job
             /\ UNCHANGED job /\ worker'[w].tries = job[worker[w].job].attempts
    <2>1. job[worker[w].job].attempts \in Nat
      BY <1>3, AttemptsGrow DEF Typed, EngagedHasJob
    <2> QED BY <1>3, <2>1
  <1> QED BY <1>1, <1>2, <1>3, WorkerSteps

LEMMA NextDeadSpent == Typed /\ TriesTrue /\ DeadSpent /\ [Next]_vars => DeadSpent'
  <1> SUFFICES ASSUME Typed, TriesTrue, DeadSpent, [Next]_vars, NEW j \in Jobs,
                      job'[j].status = "dead_letter"
               PROVE  job'[j].attempts = MaxAttempts
    BY DEF DeadSpent
  <1>1. CASE job'[j].status = job[j].status /\ job'[j].attempts = job[j].attempts
    BY <1>1 DEF DeadSpent
  <1>2. ASSUME NEW w \in Workers, FailCommit(w), LastTry(w), worker[w].job = j,
               job'[j].attempts = job[j].attempts
        PROVE  job'[j].attempts = MaxAttempts
    <2>1. MaxAttempts <= worker[w].tries /\ worker[w].tries <= job[j].attempts
          /\ worker[w].tries \in Nat
      BY <1>2 DEF FailCommit, LastTry, TriesTrue, Typed, TypeOK, WorkerStates
    <2> QED BY <1>2, <2>1, AttemptsGrow, AttemptsAssumption
  <1> QED BY <1>1, <1>2, RowSteps DEF Settles

\* A job is billed at most once per attempt it was given, and is dead-lettered
\* only when its attempts are used up, whatever the timing.
THEOREM BillsArePaid == Spec => []NoFreeBills
  <1>1. Init => PaidFor /\ TriesTrue /\ DeadSpent
    <2> SUFFICES ASSUME Init PROVE PaidFor /\ TriesTrue /\ DeadSpent
      OBVIOUS
    <2>1. \A j \in Jobs : At(j) = {}
      BY DEF Init, At, Idle, Engaged
    <2>2. PaidFor
      <3>1. IsFiniteSet({}) /\ Cardinality({}) = 0
        BY FS_EmptySet
      <3>2. \A j \in Jobs : completions[j] = 0 /\ job[j].attempts = 0
        BY DEF Init
      <3> QED BY <2>1, <3>1, <3>2 DEF PaidFor
    <2> QED BY <2>2 DEF Init, TriesTrue, DeadSpent, Idle
  <1>2. Typed /\ PaidFor /\ DeadSpent => NoFreeBills
    <2> SUFFICES ASSUME Typed, PaidFor, NEW j \in Jobs
                 PROVE  completions[j] <= job[j].attempts
      BY DEF NoFreeBills, DeadSpent
    <2>1. completions[j] \in Nat /\ job[j].attempts \in Nat
      BY AttemptsAssumption DEF Typed, TypeOK, JobRows
    <2>2. Cardinality(At(j)) \in Nat
      BY FS_CardinalityType DEF PaidFor
    <2> QED BY <2>1, <2>2 DEF PaidFor
  <1> QED
    BY InitTyped, NextTyped, NextPaidFor, NextTriesTrue, NextDeadSpent, <1>1, <1>2, PTL
    DEF Spec

-----------------------------------------------------------------------------
\* What has ended never runs again, provided leases outlive the work or
\* sessions are short: a late worker does not put a finished job back.
THEOREM EndedIsEnded == ASSUME Timely PROVE Spec => EndedStaysEnded
  <1>1. ASSUME Fence, [Next]_vars, NEW j \in Jobs, job[j].status \in Ended
        PROVE  job'[j].status = job[j].status
    <2>1. ASSUME NEW w \in Workers, SettleCommit(w) \/ FailCommit(w), worker[w].job = j
          PROVE  job[j].status = "processing"
      BY <1>1, <2>1, SessionRow DEF SettleCommit, FailCommit, InSession
    <2>2. ASSUME NEW w \in Workers, NEW r \in worker[w].rows, Claims(w, r), r.job = j
          PROVE  job[j].status \in {"queued", "processing"}
      BY <1>1, <2>2, CandidateFacts DEF Fence, Claims, ClaimWon, RowUnchanged
    <2>3. Typed /\ job[j].status \notin {"absent", "queued", "processing"}
      BY <1>1 DEF Fence, Ended
    <2> QED BY <1>1, <2>1, <2>2, <2>3, RowSteps DEF Settles
  <1>2. Fence /\ [Next]_vars =>
          [\A j \in Jobs : job[j].status \in Ended => job'[j].status = job[j].status]_vars
    BY <1>1
  <1> QED BY FenceHolds, <1>2, PTL DEF Spec, EndedStaysEnded

=============================================================================
