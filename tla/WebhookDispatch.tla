-------------------------- MODULE WebhookDispatch ---------------------------
(***************************************************************************)
(* WebhookDispatcher.run_once of worker.py: the table webhook_deliveries   *)
(* as an outbox that every worker process empties.                         *)
(*                                                                         *)
(* A dispatcher claims a row by counting the attempt and moving            *)
(* available_at 60 seconds ahead; the row stays "pending" while it posts.  *)
(* Nothing but that minute keeps two dispatchers apart: the session that   *)
(* records the outcome looks at neither status nor attempt_count.  A crash *)
(* or an exception urlopen does not wrap (RemoteDisconnected, say) loses   *)
(* the attempt: the row comes up again, whatever its attempt_count.        *)
(***************************************************************************)
EXTENDS Naturals, FiniteSets

CONSTANTS Deliveries,      \* rows the workers may queue
          NoDelivery,      \* a dispatcher holds no row
          Dispatchers,     \* one per worker process
          MaxTries,        \* 8 in the code
          CandidateLimit,  \* LIMIT of the candidate query (4 in the code)
          MaxCrashes,      \* bound: deaths of a dispatcher's process
          MaxEscapes       \* bound: uncaught exceptions for one delivery

ASSUME NoDeliveryAssumption == NoDelivery \notin Deliveries
ASSUME TriesAssumption == MaxTries \in Nat \ {0}
ASSUME LimitAssumption == CandidateLimit \in Nat \ {0}
ASSUME CrashAssumption == MaxCrashes \in Nat
ASSUME EscapeAssumption == MaxEscapes \in Nat

VARIABLES row,        \* rows of webhook_deliveries
          active,     \* the endpoint is active
          dispatcher, \* the local state of each dispatcher
          received,   \* received[d]: posts that reached the endpoint
          acked,      \* acked[d]: 2xx answers a dispatcher got
          crashes,    \* crashes so far
          escapes,    \* escapes[d]: posts of d that ended in an uncaught exception
          overrun     \* some post has not been over before its 60 seconds were

vars == <<row, active, dispatcher, received, acked, crashes, escapes, overrun>>

Closed == {"delivered", "dead_letter", "cancelled"}
Answers == {"ok", "error"}

\* What the candidate query returns of a row.
Candidates == [id : Deliveries, tries : Nat]

\* Phases that hold a claimed row.
Holding == {"taken", "cancelling", "posting", "answered", "settling"}

RowStates == [status : {"absent", "pending"} \cup Closed, tries : Nat,
              due : BOOLEAN]

TypeOK ==
    /\ row \in [Deliveries -> RowStates]
    /\ active \in BOOLEAN
    /\ \A x \in Dispatchers :
         /\ dispatcher[x].phase \in {"idle", "claiming"} \cup Holding
         /\ dispatcher[x].rows \subseteq Candidates /\ dispatcher[x].tries \in Nat
         /\ dispatcher[x].phase \in Holding <=> dispatcher[x].id \in Deliveries
         /\ dispatcher[x].answer \in Answers \cup {"none"}
         /\ dispatcher[x].seen \in {"none", "pending"} \cup Closed
    /\ received \in [Deliveries -> Nat] /\ acked \in [Deliveries -> Nat]
    /\ crashes \in 0..MaxCrashes /\ escapes \in [Deliveries -> 0..MaxEscapes]
    /\ overrun \in BOOLEAN

-----------------------------------------------------------------------------
Idle == [phase |-> "idle", rows |-> {}, id |-> NoDelivery, tries |-> 0,
         answer |-> "none", seen |-> "none"]

Init ==
    /\ row = [d \in Deliveries |-> [status |-> "absent", tries |-> 0, due |-> TRUE]]
    /\ active = TRUE
    /\ dispatcher = [x \in Dispatchers |-> Idle]
    /\ received = [d \in Deliveries |-> 0]
    /\ acked = [d \in Deliveries |-> 0]
    /\ crashes = 0
    /\ escapes = [d \in Deliveries |-> 0]
    /\ overrun = FALSE

-----------------------------------------------------------------------------
\* _queue_webhooks adds the row in the transaction that ends the job, for
\* endpoints active at that time.
Enqueue(d) ==
    /\ row[d].status = "absent" /\ active
    /\ row' = [row EXCEPT ![d].status = "pending"]
    /\ UNCHANGED <<active, dispatcher, received, acked, crashes, escapes, overrun>>

\* An operator switches the endpoint off; no code of the repository does.
Deactivate ==
    /\ active
    /\ active' = FALSE
    /\ UNCHANGED <<row, dispatcher, received, acked, crashes, escapes, overrun>>

\* The clock passes available_at, perhaps under a dispatcher still at work on the
\* row: a post is 10 seconds per socket operation, not 10 seconds.
ComesDue(d) ==
    /\ ~row[d].due
    /\ row' = [row EXCEPT ![d].due = TRUE]
    /\ overrun' = (overrun \/ \E x \in Dispatchers : dispatcher[x].id = d)
    /\ UNCHANGED <<active, dispatcher, received, acked, crashes, escapes>>

-----------------------------------------------------------------------------
(* The claiming session                                                    *)

\* Mutant of Sendable: the query stops at the retry limit, as claim_job's does.
Sendable_WithinLimit(d) ==
    row[d].status = "pending" /\ row[d].due /\ row[d].tries < MaxTries
Sendable(d) == row[d].status = "pending" /\ row[d].due

\* The candidates, at most CandidateLimit.  Which come first (ORDER BY
\* available_at) depends on backoffs past; any choice is allowed.
SelectCandidates(x) ==
    /\ dispatcher[x].phase = "idle"
    /\ \E ds \in SUBSET {d \in Deliveries : Sendable(d)} :
         /\ ds # {}
         /\ Cardinality(ds) <= CandidateLimit
         /\ Cardinality(ds) < CandidateLimit => \A d \in Deliveries : Sendable(d) => d \in ds
         /\ dispatcher' = [dispatcher EXCEPT
              ![x] = [Idle EXCEPT !.phase = "claiming",
                        !.rows = {[id |-> d, tries |-> row[d].tries] : d \in ds}]]
    /\ UNCHANGED <<row, active, received, acked, crashes, escapes, overrun>>

\* Mutant of RowUnchanged: the attempt count is not compared.
RowUnchanged_StatusOnly(r) == row[r.id].status = "pending"
\* The WHERE clause of the conditional UPDATE; available_at is not in it.
RowUnchanged(r) == row[r.id].status = "pending" /\ row[r.id].tries = r.tries

TryClaim(x) ==
    /\ dispatcher[x].phase = "claiming"
    /\ \E r \in dispatcher[x].rows :
         \/ /\ RowUnchanged(r)
            /\ row' = [row EXCEPT ![r.id] = [@ EXCEPT !.tries = r.tries + 1,
                                                      !.due = FALSE]]
            /\ dispatcher' = [dispatcher EXCEPT
                 ![x] = [Idle EXCEPT !.phase = "taken", !.id = r.id]]
         \/ /\ ~RowUnchanged(r)
            /\ dispatcher' = [dispatcher EXCEPT
                 ![x] = IF dispatcher[x].rows = {r} THEN Idle
                        ELSE [dispatcher[x] EXCEPT !.rows = @ \ {r}]]
            /\ UNCHANGED row
    /\ UNCHANGED <<active, received, acked, crashes, escapes, overrun>>

\* After the commit the row is read afresh, then its endpoint.
ReadBack(x) ==
    /\ dispatcher[x].phase = "taken"
    /\ dispatcher' = [dispatcher EXCEPT
         ![x] = [@ EXCEPT !.phase = IF active THEN "posting" ELSE "cancelling",
                          !.tries = row[dispatcher[x].id].tries,
                          !.seen = row[dispatcher[x].id].status]]
    /\ UNCHANGED <<row, active, received, acked, crashes, escapes, overrun>>

\* The row's status once a session that saw dispatcher[x].seen has assigned
\* new: an attribute that does not change is not written.
Flushed(x, new) ==
    IF dispatcher[x].seen = new THEN row[dispatcher[x].id].status ELSE new

Cancel(x) ==
    /\ dispatcher[x].phase = "cancelling"
    /\ row' = [row EXCEPT ![dispatcher[x].id].status = Flushed(x, "cancelled")]
    /\ dispatcher' = [dispatcher EXCEPT ![x] = Idle]
    /\ UNCHANGED <<active, received, acked, crashes, escapes, overrun>>

-----------------------------------------------------------------------------
(* The post, outside any session                                           *)

\* The endpoint may have processed a post whose answer is lost; an answer in
\* the 200s always means that it has.
Post(x) ==
    /\ dispatcher[x].phase = "posting"
    /\ \E answer \in Answers, reached \in BOOLEAN :
         /\ answer = "ok" => reached
         /\ dispatcher' = [dispatcher EXCEPT
              ![x] = [@ EXCEPT !.phase = "answered", !.answer = answer,
                               !.seen = "none"]]
         /\ received' = [received EXCEPT
              ![dispatcher[x].id] = @ + (IF reached THEN 1 ELSE 0)]
         /\ acked' = [acked EXCEPT
              ![dispatcher[x].id] = @ + (IF answer = "ok" THEN 1 ELSE 0)]
    /\ UNCHANGED <<row, active, crashes, escapes, overrun>>

-----------------------------------------------------------------------------
(* The settling session                                                    *)

SettleRead(x) ==
    /\ dispatcher[x].phase = "answered"
    /\ dispatcher' = [dispatcher EXCEPT
         ![x] = [@ EXCEPT !.phase = "settling",
                          !.seen = row[dispatcher[x].id].status]]
    /\ UNCHANGED <<row, active, received, acked, crashes, escapes, overrun>>

\* Mutants of Verdict: off by one; a rejection passes for a delivery; a status
\* no reader of the table knows.
Verdict_OneMore(x) ==
    IF dispatcher[x].answer = "ok" THEN "delivered"
    ELSE IF dispatcher[x].tries > MaxTries THEN "dead_letter" ELSE "pending"
Verdict_AnyAnswer(x) == "delivered"
Verdict_Failed(x) ==
    IF dispatcher[x].answer = "ok" THEN "delivered"
    ELSE IF dispatcher[x].tries >= MaxTries THEN "failed" ELSE "pending"
Verdict(x) ==
    IF dispatcher[x].answer = "ok" THEN "delivered"
    ELSE IF dispatcher[x].tries >= MaxTries THEN "dead_letter" ELSE "pending"

SettleCommit(x) ==
    LET d == dispatcher[x].id IN
    /\ dispatcher[x].phase = "settling"
    /\ row' = [row EXCEPT
         ![d] = [row[d] EXCEPT !.status = Flushed(x, Verdict(x)),
                               !.due = @ /\ Verdict(x) # "pending"]]
    /\ dispatcher' = [dispatcher EXCEPT ![x] = Idle]
    /\ UNCHANGED <<active, received, acked, crashes, escapes, overrun>>

-----------------------------------------------------------------------------
(* Failures: the process ends and is restarted (compose.yaml).             *)

Crash(x) ==
    /\ dispatcher[x].phase # "idle" /\ crashes < MaxCrashes
    /\ crashes' = crashes + 1
    /\ dispatcher' = [dispatcher EXCEPT ![x] = Idle]
    /\ UNCHANGED <<row, active, received, acked, escapes, overrun>>

\* An exception that is neither URLError nor TimeoutError leaves run_once in
\* the middle of a post, which may have reached the endpoint: no outcome is
\* recorded and the limit is not looked at.  The endpoint decides how often
\* (it drops the connection); the code sets no limit, MaxEscapes is the
\* model's.
Escape(x) ==
    LET d == dispatcher[x].id IN
    /\ dispatcher[x].phase = "posting" /\ escapes[d] < MaxEscapes
    /\ escapes' = [escapes EXCEPT ![d] = @ + 1]
    /\ dispatcher' = [dispatcher EXCEPT ![x] = Idle]
    /\ \E reached \in {0, 1} : received' = [received EXCEPT ![d] = @ + reached]
    /\ UNCHANGED <<row, active, acked, crashes, overrun>>

-----------------------------------------------------------------------------
Turn(x) ==
    \/ SelectCandidates(x) \/ TryClaim(x) \/ ReadBack(x) \/ Cancel(x)
    \/ Post(x) \/ SettleRead(x) \/ SettleCommit(x)

Next ==
    \/ \E d \in Deliveries : Enqueue(d) \/ ComesDue(d)
    \/ Deactivate
    \/ \E x \in Dispatchers : Turn(x) \/ Crash(x) \/ Escape(x)

Spec == Init /\ [][Next]_vars

\* Dispatchers keep looping (worker_main) and the clock keeps running.
FairSpec ==
    /\ Spec
    /\ \A x \in Dispatchers : WF_vars(Turn(x))
    /\ \A d \in Deliveries : WF_vars(ComesDue(d))

-----------------------------------------------------------------------------
(* Properties                                                              *)

\* The attempts that a crash or an uncaught exception may have cost d.
Losses(d) == crashes + escapes[d]

\* A row is tried MaxTries times, and beyond that only for attempts that were
\* lost, one for one: the retry limit is applied to recorded outcomes alone, so
\* it bounds the posts only as far as crashes and escapes are bounded.  This and
\* the three properties that follow hold as long as no post outlives its hold.
TriesBounded == ~overrun => \A d \in Deliveries : row[d].tries <= MaxTries + Losses(d)

\* Two dispatchers never post one row at the same time, although the row
\* stays pending while it is posted (the count and available_at of the claim).
Exclusive == \A x, y \in Dispatchers :
    /\ dispatcher[x].phase \in Holding /\ dispatcher[y].phase \in Holding
    /\ dispatcher[x].id = dispatcher[y].id
    => x = y
NoSharedPost == ~overrun => Exclusive

\* What is delivered was received, and what was acknowledged is not posted to
\* success again unless a crash lost the acknowledgement; an escape costs none.
DeliveredOnce == ~overrun => \A d \in Deliveries :
    /\ row[d].status = "delivered" => received[d] > 0
    /\ acked[d] <= 1 + crashes

\* A delivery that was closed is not reopened, nor closed otherwise, by a claim
\* or an outcome that rests on what the row was before.
ClosedForGood ==
    [][~overrun => \A d \in Deliveries :
         row[d].status \in Closed => row'[d].status = row[d].status]_vars

\* Every delivery that was queued is closed in the end and then stays so, under
\* any timing: posts may outlive their hold and late outcomes reopen the row for
\* a while (the retry limit of SettleCommit, the minute after a claim).  But only
\* so many attempts may crash or escape: MaxCrashes and MaxEscapes are that
\* assumption.  An endpoint that drops every connection keeps its row pending
\* for ever.
EveryDeliveryCloses == \A d \in Deliveries :
    row[d].status = "pending" ~> [](row[d].status \in Closed)
=============================================================================
