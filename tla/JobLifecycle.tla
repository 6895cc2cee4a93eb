---------------------------- MODULE JobLifecycle ----------------------------
(***************************************************************************)
(* What the lease queue of dzdoc_service promises about a job, with no     *)
(* word on how: tokens, snapshots, sessions and clocks are absent.         *)
(*                                                                         *)
(* A submitted job waits, is granted to one worker at a time, at most      *)
(* MaxAttempts times in all, and ends once: completed and billed exactly   *)
(* once, or buried when its last attempt was used.  Nothing leaves an end. *)
(***************************************************************************)
EXTENDS Naturals

CONSTANTS Jobs,         \* the jobs that may be submitted
          MaxAttempts   \* attempts a job is given

VARIABLES phase,        \* phase[j]: where job j stands
          tries,        \* tries[j]: attempts granted so far
          bills         \* bills[j]: usage records written for job j

lvars == <<phase, tries, bills>>

Phases == {"absent", "waiting", "granted", "done", "dead"}

LifecycleTypeOK ==
    /\ phase \in [Jobs -> Phases]
    /\ tries \in [Jobs -> 0..MaxAttempts]
    /\ bills \in [Jobs -> {0, 1}]

LInit ==
    /\ phase = [j \in Jobs |-> "absent"]
    /\ tries = [j \in Jobs |-> 0]
    /\ bills = [j \in Jobs |-> 0]

Accept(j) ==
    /\ phase[j] = "absent"
    /\ phase' = [phase EXCEPT ![j] = "waiting"]
    /\ UNCHANGED <<tries, bills>>

\* A waiting job is granted, and a granted one may be granted afresh (its
\* worker is taken for lost), while attempts remain.
Grant(j) ==
    /\ phase[j] \in {"waiting", "granted"}
    /\ tries[j] < MaxAttempts
    /\ phase' = [phase EXCEPT ![j] = "granted"]
    /\ tries' = [tries EXCEPT ![j] = @ + 1]
    /\ UNCHANGED bills

Complete(j) ==
    /\ phase[j] = "granted"
    /\ phase' = [phase EXCEPT ![j] = "done"]
    /\ bills' = [bills EXCEPT ![j] = @ + 1]
    /\ UNCHANGED tries

GiveBack(j) ==
    /\ phase[j] = "granted"
    /\ tries[j] < MaxAttempts
    /\ phase' = [phase EXCEPT ![j] = "waiting"]
    /\ UNCHANGED <<tries, bills>>

Bury(j) ==
    /\ phase[j] = "granted"
    /\ tries[j] = MaxAttempts
    /\ phase' = [phase EXCEPT ![j] = "dead"]
    /\ UNCHANGED <<tries, bills>>

LNext == \E j \in Jobs :
    Accept(j) \/ Grant(j) \/ Complete(j) \/ GiveBack(j) \/ Bury(j)

LSpec == LInit /\ [][LNext]_lvars
=============================================================================
