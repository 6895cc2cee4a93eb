----------------------------- MODULE MCJobQueue -----------------------------
(***************************************************************************)
(* Small instances of JobQueue.  Jobs are numbers (creation order), so     *)
(* only workers are symmetric.                                             *)
(***************************************************************************)
EXTENDS JobQueue, TLC

CONSTANTS w1, w2, w3    \* worker processes

OneJob == {1}
TwoJobs == {1, 2}
TwoWorkers == {w1, w2}
ThreeWorkers == {w1, w2, w3}
AllCpu == {}
SecondJob == {2}        \* the job submitted for a GPU worker
LastWorker == {w3}

\* Sound for safety: no constant tells the workers apart.
WorkerSymmetry == Permutations(Workers)
=============================================================================
