------------------------ MODULE WebhookDispatch_proofs -------------------------
(***************************************************************************)
(* Proofs about WebhookDispatch, for any deliveries, dispatchers, limits   *)
(* and crash budget.                                                       *)
(***************************************************************************)
EXTENDS WebhookDispatch, TLAPS

(***************************************************************************)
(* Type correctness holds under any timing.                                *)
(***************************************************************************)
DispatcherStates ==
    [phase : {"idle", "claiming"} \cup Holding, rows : SUBSET Candidates,
     id : Deliveries \cup {NoDelivery}, tries : Nat,
     answer : Answers \cup {"none"}, seen : {"none", "pending"} \cup Closed]

\* No dispatcher knows of a row that was not queued; this keeps "absent" out of
\* what it sees.
OnlyQueued == \A x \in Dispatchers :
    /\ dispatcher[x].phase \in Holding => row[dispatcher[x].id].status # "absent"
    /\ \A r \in dispatcher[x].rows : row[r.id].status # "absent"

Typed == TypeOK /\ dispatcher \in [Dispatchers -> DispatcherStates] /\ OnlyQueued

\* The states a dispatcher may be put into.
Sound(s) == s \in DispatcherStates /\ (s.phase \in Holding <=> s.id \in Deliveries)

LEMMA IdleSound == Sound(Idle) /\ Idle.phase \notin Holding /\ Idle.rows = {}
  BY NoDeliveryAssumption
  DEF Sound, Idle, DispatcherStates, Holding, Answers, Closed

LEMMA TypedFacts ==
  ASSUME Typed
  PROVE  /\ row \in [Deliveries -> RowStates] /\ active \in BOOLEAN
         /\ dispatcher \in [Dispatchers -> DispatcherStates]
         /\ \A x \in Dispatchers : Sound(dispatcher[x])
         /\ received \in [Deliveries -> Nat] /\ acked \in [Deliveries -> Nat]
         /\ crashes \in 0..MaxCrashes /\ crashes \in Nat
         /\ escapes \in [Deliveries -> 0..MaxEscapes] /\ overrun \in BOOLEAN
  BY CrashAssumption DEF Typed, TypeOK, Sound

\* Conversely, the parts of Typed, one by one, after a step.
LEMMA TypedStep ==
  ASSUME Typed,
         row' \in [Deliveries -> RowStates], active' \in BOOLEAN,
         received' \in [Deliveries -> Nat], acked' \in [Deliveries -> Nat],
         crashes' \in 0..MaxCrashes, escapes' \in [Deliveries -> 0..MaxEscapes],
         overrun' \in BOOLEAN,
         \A d \in Deliveries : row'[d].status = "absent" => row[d].status = "absent",
         \/ dispatcher' = dispatcher
         \/ \E x \in Dispatchers : \E s :
              /\ Sound(s) /\ dispatcher' = [dispatcher EXCEPT ![x] = s]
              /\ s.phase \in Holding => row[s.id].status # "absent"
              /\ \A r \in s.rows : row[r.id].status # "absent"
  PROVE  Typed'
  <1>1. /\ dispatcher' \in [Dispatchers -> DispatcherStates]
        /\ \A x \in Dispatchers : Sound(dispatcher'[x])
    BY TypedFacts DEF Sound
  <1>2. \A x \in Dispatchers :
          /\ dispatcher'[x].phase \in {"idle", "claiming"} \cup Holding
          /\ dispatcher'[x].rows \subseteq Candidates /\ dispatcher'[x].tries \in Nat
          /\ dispatcher'[x].answer \in Answers \cup {"none"}
          /\ dispatcher'[x].seen \in {"none", "pending"} \cup Closed
    BY <1>1 DEF DispatcherStates
  <1>3. OnlyQueued'
    <2>1. \A x \in Dispatchers : \A r \in dispatcher'[x].rows : r.id \in Deliveries
      BY <1>1 DEF Sound, DispatcherStates, Candidates
    <2>2. \A x \in Dispatchers :
            /\ dispatcher'[x].phase \in Holding =>
                 row[dispatcher'[x].id].status # "absent"
            /\ \A r \in dispatcher'[x].rows : row[r.id].status # "absent"
      BY TypedFacts DEF Typed, OnlyQueued
    <2> QED BY <1>1, <2>1, <2>2 DEF OnlyQueued, Sound
  <1> QED BY <1>1, <1>2, <1>3 DEF Typed, TypeOK, Sound

LEMMA InitTyped == Init => Typed
  <1> SUFFICES ASSUME Init PROVE Typed
    OBVIOUS
  <1>1. row \in [Deliveries -> RowStates]
    BY DEF Init, RowStates
  <1>2. dispatcher \in [Dispatchers -> DispatcherStates]
        /\ \A x \in Dispatchers : Sound(dispatcher[x])
    BY IdleSound DEF Init, Sound
  <1>3. \A x \in Dispatchers :
          /\ dispatcher[x].phase \in {"idle", "claiming"} \cup Holding
          /\ dispatcher[x].rows \subseteq Candidates /\ dispatcher[x].tries \in Nat
          /\ dispatcher[x].answer \in Answers \cup {"none"}
          /\ dispatcher[x].seen \in {"none", "pending"} \cup Closed
    BY <1>2 DEF DispatcherStates
  <1>4. /\ received \in [Deliveries -> Nat] /\ acked \in [Deliveries -> Nat]
        /\ active \in BOOLEAN /\ crashes \in 0..MaxCrashes
        /\ escapes \in [Deliveries -> 0..MaxEscapes]
    BY CrashAssumption, EscapeAssumption DEF Init
  <1>o. overrun \in BOOLEAN
    BY DEF Init
  <1>5. OnlyQueued
    BY IdleSound DEF Init, OnlyQueued
  <1> QED BY <1>1, <1>2, <1>3, <1>4, <1>5, <1>o DEF Typed, TypeOK, Sound

LEMMA NextTyped == Typed /\ [Next]_vars => Typed'
  <1> SUFFICES ASSUME Typed, [Next]_vars PROVE Typed'
    OBVIOUS
  <1>0. /\ row \in [Deliveries -> RowStates] /\ active \in BOOLEAN
        /\ dispatcher \in [Dispatchers -> DispatcherStates]
        /\ \A x \in Dispatchers : Sound(dispatcher[x])
        /\ received \in [Deliveries -> Nat] /\ acked \in [Deliveries -> Nat]
        /\ crashes \in 0..MaxCrashes /\ crashes \in Nat
         /\ escapes \in [Deliveries -> 0..MaxEscapes]
    BY TypedFacts
  <1>q. OnlyQueued
    BY DEF Typed
  <1>h. \A x \in Dispatchers : dispatcher[x].phase \in Holding =>
          dispatcher[x].id \in Deliveries
    BY <1>0 DEF Sound
  <1>o. overrun' \in BOOLEAN
    BY TypedFacts DEF Next, Turn, Enqueue, ComesDue, Deactivate, SelectCandidates,
       TryClaim, ReadBack, Cancel, Post, SettleRead, SettleCommit, Crash, Escape, vars
  <1>1. ASSUME NEW d \in Deliveries, Enqueue(d) PROVE Typed'
    <2>1. row' \in [Deliveries -> RowStates]
      BY <1>0, <1>1 DEF Enqueue, RowStates
    <2>2. \A e \in Deliveries : row'[e].status = "absent" => row[e].status = "absent"
      BY <1>0, <1>1 DEF Enqueue, RowStates
    <2> QED BY <1>0, <1>1, <2>1, <2>2, <1>o, TypedStep DEF Enqueue
  <1>2. ASSUME NEW d \in Deliveries, ComesDue(d) PROVE Typed'
    <2>1. row' \in [Deliveries -> RowStates]
      BY <1>0, <1>2 DEF ComesDue, RowStates
    <2>2. \A e \in Deliveries : row'[e].status = row[e].status
      BY <1>0, <1>2 DEF ComesDue, RowStates
    <2> QED BY <1>0, <1>2, <2>1, <2>2, <1>o, TypedStep DEF ComesDue
  <1>3. ASSUME Deactivate PROVE Typed'
    BY <1>0, <1>3, <1>o, TypedStep DEF Deactivate
  <1>4. ASSUME NEW x \in Dispatchers, SelectCandidates(x) PROVE Typed'
    <2>1. PICK ds \in SUBSET {d \in Deliveries : Sendable(d)} :
            dispatcher' = [dispatcher EXCEPT
              ![x] = [Idle EXCEPT !.phase = "claiming",
                        !.rows = {[id |-> d, tries |-> row[d].tries] : d \in ds}]]
      BY <1>4 DEF SelectCandidates
    <2> DEFINE rows == {[id |-> d, tries |-> row[d].tries] : d \in ds}
               s == [Idle EXCEPT !.phase = "claiming", !.rows = rows]
    <2>2. rows \subseteq Candidates /\ \A r \in rows : row[r.id].status # "absent"
      BY <1>0 DEF Candidates, RowStates, Sendable
    <2>3. /\ Sound(s) /\ s.phase \notin Holding
          /\ \A r \in s.rows : row[r.id].status # "absent"
      BY <2>2, IdleSound, NoDeliveryAssumption
      DEF Sound, DispatcherStates, Idle, Holding, Answers, Closed
    <2>4. dispatcher' = [dispatcher EXCEPT ![x] = s]
      BY <2>1
    <2> HIDE DEF s
    <2> QED BY <1>0, <1>4, <2>3, <2>4, <1>o, TypedStep DEF SelectCandidates
  <1>5. ASSUME NEW x \in Dispatchers, TryClaim(x) PROVE Typed'
    <2>1. PICK r \in dispatcher[x].rows :
         \/ /\ RowUnchanged(r)
            /\ row' = [row EXCEPT ![r.id] = [@ EXCEPT !.tries = r.tries + 1,
                                                      !.due = FALSE]]
            /\ dispatcher' = [dispatcher EXCEPT
                 ![x] = [Idle EXCEPT !.phase = "taken", !.id = r.id]]
         \/ /\ ~RowUnchanged(r)
            /\ dispatcher' = [dispatcher EXCEPT
                 ![x] = IF dispatcher[x].rows = {r} THEN Idle
                        ELSE [dispatcher[x] EXCEPT !.rows = @ \ {r}]]
            /\ UNCHANGED row
      BY <1>5 DEF TryClaim
    <2>2. r.id \in Deliveries /\ r.tries \in Nat /\ dispatcher[x].phase \notin Holding
      BY <1>0, <1>5, <2>1 DEF Sound, DispatcherStates, Candidates, TryClaim, Holding
    <2>3. /\ row' \in [Deliveries -> RowStates]
          /\ \A e \in Deliveries : row'[e].status = row[e].status
      <3> DEFINE claimed == [row[r.id] EXCEPT !.tries = r.tries + 1, !.due = FALSE]
      <3>1. claimed \in RowStates /\ claimed.status = row[r.id].status
        <4>1. row[r.id] \in RowStates
          BY <1>0, <2>2
        <4>2. r.tries + 1 \in Nat
          BY <2>2
        <4> QED BY <4>1, <4>2 DEF RowStates
      <3>2. row' = row \/ row' = [row EXCEPT ![r.id] = claimed]
        BY <2>1, Zenon
      <3> HIDE DEF claimed
      <3> QED BY <1>0, <2>2, <3>1, <3>2
    <2> DEFINE won == [Idle EXCEPT !.phase = "taken", !.id = r.id]
               lost == IF dispatcher[x].rows = {r} THEN Idle
                       ELSE [dispatcher[x] EXCEPT !.rows = dispatcher[x].rows \ {r}]
    <2>4. Sound(won) /\ won.rows = {} /\ won.id = r.id
      BY <2>2, IdleSound DEF Sound, DispatcherStates, Idle, Holding, Answers, Closed
    <2>5. Sound(lost) /\ lost.phase \notin Holding /\ lost.rows \subseteq dispatcher[x].rows
      BY <1>0, <2>2, IdleSound DEF Sound, DispatcherStates
    <2>6. dispatcher' = [dispatcher EXCEPT ![x] = won]
          \/ dispatcher' = [dispatcher EXCEPT ![x] = lost]
      BY <2>1, Zenon
    <2>7. row[r.id].status # "absent"
      BY <1>q, <2>1 DEF OnlyQueued
    <2> HIDE DEF won, lost
    <2>8. CASE dispatcher' = [dispatcher EXCEPT ![x] = won]
      BY <1>0, <1>5, <2>3, <2>4, <2>7, <2>8, <1>o, TypedStep DEF TryClaim
    <2>9. CASE dispatcher' = [dispatcher EXCEPT ![x] = lost]
      <3>1. \A q \in lost.rows : row[q.id].status # "absent"
        BY <1>q, <2>5 DEF OnlyQueued
      <3> QED BY <1>0, <1>5, <2>3, <2>5, <2>9, <3>1, <1>o, TypedStep DEF TryClaim
    <2> QED BY <2>6, <2>8, <2>9
  \* A dispatcher that goes on with the row it holds.
  <1>move. ASSUME NEW x \in Dispatchers, dispatcher[x].phase \in Holding,
                  NEW s, s \in DispatcherStates, s.phase \in Holding,
                  s.id = dispatcher[x].id, s.rows = dispatcher[x].rows,
                  dispatcher' = [dispatcher EXCEPT ![x] = s],
                  UNCHANGED <<row, active, crashes, escapes>>,
                  received' \in [Deliveries -> Nat], acked' \in [Deliveries -> Nat]
           PROVE  Typed'
    <2>1. Sound(s)
      BY <1>0, <1>move DEF Sound
    <2>2. /\ row[s.id].status # "absent"
          /\ \A r \in s.rows : row[r.id].status # "absent"
      BY <1>q, <1>move DEF OnlyQueued
    <2>3. /\ row' \in [Deliveries -> RowStates] /\ active' \in BOOLEAN
          /\ crashes' \in 0..MaxCrashes /\ escapes' \in [Deliveries -> 0..MaxEscapes]
          /\ \A d \in Deliveries : row'[d].status = row[d].status
      BY <1>0, <1>move
    <2> QED BY <1>move, <2>1, <2>2, <2>3, <1>o, TypedStep
  \* A dispatcher that lets go of it.
  <1>idle. ASSUME NEW x \in Dispatchers,
                  dispatcher' = [dispatcher EXCEPT ![x] = Idle],
                  row' \in [Deliveries -> RowStates], UNCHANGED <<active, acked>>,
                  \A e \in Deliveries : row'[e].status = "absent" => row[e].status = "absent",
                  received' \in [Deliveries -> Nat], crashes' \in 0..MaxCrashes,
                  escapes' \in [Deliveries -> 0..MaxEscapes]
           PROVE  Typed'
    BY <1>0, <1>idle, IdleSound, <1>o, TypedStep
  <1>6. ASSUME NEW x \in Dispatchers, ReadBack(x) PROVE Typed'
    <2> DEFINE s == [dispatcher[x] EXCEPT
                       !.phase = IF active THEN "posting" ELSE "cancelling",
                       !.tries = row[dispatcher[x].id].tries,
                       !.seen = row[dispatcher[x].id].status]
    <2>1. dispatcher[x].phase \in Holding
      BY <1>6 DEF ReadBack, Holding
    <2>2. /\ row[dispatcher[x].id].status \in {"pending"} \cup Closed
          /\ row[dispatcher[x].id].tries \in Nat
      BY <1>0, <1>h, <1>q, <2>1 DEF OnlyQueued, RowStates
    <2>3. dispatcher[x] \in DispatcherStates
      BY <1>0
    <2>4. s \in DispatcherStates /\ s.phase \in Holding
          /\ s.id = dispatcher[x].id /\ s.rows = dispatcher[x].rows
      BY <2>2, <2>3 DEF DispatcherStates, Holding
    <2>5. dispatcher' = [dispatcher EXCEPT ![x] = s]
      BY <1>6 DEF ReadBack
    <2> HIDE DEF s
    <2> QED BY <1>0, <1>6, <1>move, <2>1, <2>4, <2>5 DEF ReadBack
  <1>7. ASSUME NEW x \in Dispatchers, Cancel(x) PROVE Typed'
    <2>1. dispatcher[x].id \in Deliveries
      BY <1>7, <1>h DEF Cancel, Holding
    <2>2. Flushed(x, "cancelled") \in {"cancelled", row[dispatcher[x].id].status}
      BY DEF Flushed
    <2>3. /\ row' \in [Deliveries -> RowStates]
          /\ \A e \in Deliveries : row'[e].status = "absent" => row[e].status = "absent"
      BY <1>0, <1>7, <2>1, <2>2 DEF Cancel, RowStates, Closed
    <2> QED BY <1>0, <1>7, <1>idle, <2>3 DEF Cancel
  <1>8. ASSUME NEW x \in Dispatchers, Post(x) PROVE Typed'
    <2>1. PICK answer \in Answers, reached \in BOOLEAN :
         /\ dispatcher' = [dispatcher EXCEPT
              ![x] = [@ EXCEPT !.phase = "answered", !.answer = answer,
                               !.seen = "none"]]
         /\ received' = [received EXCEPT
              ![dispatcher[x].id] = @ + (IF reached THEN 1 ELSE 0)]
         /\ acked' = [acked EXCEPT
              ![dispatcher[x].id] = @ + (IF answer = "ok" THEN 1 ELSE 0)]
      BY <1>8 DEF Post
    <2> DEFINE s == [dispatcher[x] EXCEPT !.phase = "answered", !.answer = answer,
                                          !.seen = "none"]
    <2>2. dispatcher[x].phase \in Holding /\ dispatcher[x] \in DispatcherStates
      BY <1>0, <1>8 DEF Post, Holding
    <2>3. s \in DispatcherStates /\ s.phase \in Holding
          /\ s.id = dispatcher[x].id /\ s.rows = dispatcher[x].rows
      BY <2>2 DEF DispatcherStates, Holding
    <2>4. received' \in [Deliveries -> Nat] /\ acked' \in [Deliveries -> Nat]
      BY <1>0, <1>h, <2>1, <2>2
    <2>5. dispatcher' = [dispatcher EXCEPT ![x] = s]
      BY <2>1
    <2> HIDE DEF s
    <2> QED BY <1>0, <1>8, <1>move, <2>2, <2>3, <2>4, <2>5 DEF Post
  <1>9. ASSUME NEW x \in Dispatchers, SettleRead(x) PROVE Typed'
    <2> DEFINE s == [dispatcher[x] EXCEPT !.phase = "settling",
                                          !.seen = row[dispatcher[x].id].status]
    <2>1. dispatcher[x].phase \in Holding /\ dispatcher[x] \in DispatcherStates
      BY <1>0, <1>9 DEF SettleRead, Holding
    <2>2. row[dispatcher[x].id].status \in {"pending"} \cup Closed
      BY <1>0, <1>h, <1>q, <2>1 DEF OnlyQueued, RowStates
    <2>3. s \in DispatcherStates /\ s.phase \in Holding
          /\ s.id = dispatcher[x].id /\ s.rows = dispatcher[x].rows
      BY <2>1, <2>2 DEF DispatcherStates, Holding
    <2>4. dispatcher' = [dispatcher EXCEPT ![x] = s]
      BY <1>9 DEF SettleRead
    <2> HIDE DEF s
    <2> QED BY <1>0, <1>9, <1>move, <2>1, <2>3, <2>4 DEF SettleRead
  <1>10. ASSUME NEW x \in Dispatchers, SettleCommit(x) PROVE Typed'
    <2>1. dispatcher[x].id \in Deliveries
      BY <1>10, <1>h DEF SettleCommit, Holding
    <2>2. Flushed(x, Verdict(x)) \in {"delivered", "dead_letter", "pending",
                                      row[dispatcher[x].id].status}
      BY DEF Flushed, Verdict
    <2>3. row[dispatcher[x].id] \in RowStates
      BY <1>0, <2>1
    <2> DEFINE r == [row[dispatcher[x].id] EXCEPT !.status = Flushed(x, Verdict(x)),
                       !.due = row[dispatcher[x].id].due /\ Verdict(x) # "pending"]
    <2>4. /\ r \in RowStates
          /\ r.status = "absent" => row[dispatcher[x].id].status = "absent"
      BY <2>2, <2>3 DEF RowStates, Closed
    <2>5. row' = [row EXCEPT ![dispatcher[x].id] = r]
      BY <1>10, Zenon DEF SettleCommit
    <2> HIDE DEF r
    <2>6. /\ row' \in [Deliveries -> RowStates]
          /\ \A e \in Deliveries : row'[e].status = "absent" => row[e].status = "absent"
      BY <1>0, <2>1, <2>4, <2>5
    <2> QED BY <1>0, <1>10, <1>idle, <2>6 DEF SettleCommit
  <1>11. ASSUME NEW x \in Dispatchers, Crash(x) PROVE Typed'
    <2>1. crashes' \in 0..MaxCrashes
      BY <1>0, <1>11, CrashAssumption DEF Crash
    <2> QED BY <1>0, <1>11, <1>idle, <2>1 DEF Crash
  <1>12. ASSUME NEW x \in Dispatchers, Escape(x) PROVE Typed'
    <2>1. dispatcher[x].id \in Deliveries
      BY <1>12, <1>h DEF Escape, Holding
    <2>2. escapes' \in [Deliveries -> 0..MaxEscapes]
      BY <1>0, <1>12, <2>1, EscapeAssumption DEF Escape
    <2>3. received' \in [Deliveries -> Nat]
      BY <1>0, <1>12, <2>1 DEF Escape
    <2> QED BY <1>0, <1>12, <1>idle, <2>2, <2>3 DEF Escape
  <1>13. CASE UNCHANGED vars
    BY <1>13, <1>0, <1>o, TypedStep DEF vars
  <1> QED
    BY <1>1, <1>2, <1>3, <1>4, <1>5, <1>6, <1>7, <1>8, <1>9, <1>10, <1>11,
       <1>12, <1>13
    DEF Next, Turn

\* Every row and every dispatcher keeps its type, whatever the timing and
\* however often attempts are lost; what a dispatcher sees of its row is never
\* a row that was not queued.
THEOREM TypeCorrect == Spec => []TypeOK
  <1>1. Typed => TypeOK
    BY DEF Typed
  <1> QED BY InitTyped, NextTyped, <1>1, PTL DEF Spec

-----------------------------------------------------------------------------
(***************************************************************************)
(* Ownership.  The row stays "pending" while it is posted, so what keeps   *)
(* two dispatchers apart is the claim: it moves available_at ahead, which  *)
(* keeps the row out of new candidate lists, and it counts the attempt,    *)
(* which spoils the old ones.                                              *)
(***************************************************************************)
Held(d) == \E x \in Dispatchers :
    dispatcher[x].phase \in Holding /\ dispatcher[x].id = d

\* A row that is held is pending and not due, and its holder knows it as it is.
HoldersKnow == \A x \in Dispatchers : dispatcher[x].phase \in Holding =>
    LET d == dispatcher[x].id
    IN  /\ row[d].status = "pending" /\ ~row[d].due
        /\ dispatcher[x].phase \in {"cancelling", "settling"} =>
             dispatcher[x].seen = "pending"
        /\ dispatcher[x].phase \in {"posting", "answered", "settling"} =>
             dispatcher[x].tries = row[d].tries

\* A candidate whose count still stands has not been claimed since.
CandidatesAge == \A x \in Dispatchers : \A r \in dispatcher[x].rows :
    /\ r.tries <= row[r.id].tries
    /\ r.tries = row[r.id].tries => ~Held(r.id)

Ownership == Typed /\ Exclusive /\ HoldersKnow /\ CandidatesAge

LEMMA InitOwnership == Init => Ownership
  <1> SUFFICES ASSUME Init PROVE Ownership
    OBVIOUS
  <1>1. \A x \in Dispatchers :
          dispatcher[x].phase \notin Holding /\ dispatcher[x].rows = {}
    BY IdleSound DEF Init
  <1> QED BY <1>1, InitTyped DEF Ownership, Exclusive, HoldersKnow, CandidatesAge

\* A dispatcher goes on with the row it holds.
LEMMA MoveOwnership ==
  ASSUME Ownership, Typed', UNCHANGED row,
         NEW x \in Dispatchers, NEW s, dispatcher' = [dispatcher EXCEPT ![x] = s],
         dispatcher[x].phase \in Holding, s.phase \in Holding,
         s.id = dispatcher[x].id, s.rows = dispatcher[x].rows,
         s.phase \in {"cancelling", "settling"} => s.seen = row[s.id].status,
         s.phase \in {"posting", "answered", "settling"} => s.tries = row[s.id].tries
  PROVE  Ownership'
  <1>1. /\ dispatcher'[x] = s
        /\ \A y \in Dispatchers : y # x => dispatcher'[y] = dispatcher[y]
    BY TypedFacts DEF Ownership
  <1>2. \A y \in Dispatchers :
          /\ dispatcher'[y].phase \in Holding <=> dispatcher[y].phase \in Holding
          /\ dispatcher'[y].id = dispatcher[y].id
          /\ dispatcher'[y].rows = dispatcher[y].rows
    BY <1>1
  <1>3. Exclusive'
    BY <1>2 DEF Ownership, Exclusive
  <1>4. HoldersKnow'
    BY <1>1 DEF Ownership, HoldersKnow
  <1>5. CandidatesAge'
    BY <1>2 DEF Ownership, CandidatesAge, Held
  <1> QED BY <1>3, <1>4, <1>5 DEF Ownership

\* A dispatcher lets go of its row, or of part of its list; the row of a holder
\* may change, but not its count, and no other row does.
LEMMA DropOwnership ==
  ASSUME Ownership, Typed',
         NEW x \in Dispatchers, NEW s, dispatcher' = [dispatcher EXCEPT ![x] = s],
         s.phase \notin Holding, s.rows \subseteq dispatcher[x].rows,
         \A d \in Deliveries :
           /\ row'[d].tries = row[d].tries
           /\ \/ dispatcher[x].phase \in Holding /\ dispatcher[x].id = d
              \/ row'[d] = row[d]
  PROVE  Ownership'
  <1>0. /\ dispatcher \in [Dispatchers -> DispatcherStates]
        /\ \A y \in Dispatchers : Sound(dispatcher[y])
    BY TypedFacts DEF Ownership
  <1>1. /\ dispatcher'[x] = s
        /\ \A y \in Dispatchers : y # x => dispatcher'[y] = dispatcher[y]
    BY <1>0
  <1>2. \A y \in Dispatchers : dispatcher'[y].phase \in Holding =>
          /\ y # x /\ dispatcher'[y] = dispatcher[y] /\ dispatcher[y].phase \in Holding
          /\ row'[dispatcher[y].id] = row[dispatcher[y].id]
    BY <1>0, <1>1 DEF Ownership, Exclusive, Sound
  <1>3. Exclusive'
    BY <1>2 DEF Ownership, Exclusive
  <1>4. HoldersKnow'
    BY <1>2 DEF Ownership, HoldersKnow
  <1>5. CandidatesAge'
    <2>1. \A d : Held(d)' => Held(d)
      BY <1>2 DEF Held
    <2>2. \A y \in Dispatchers : \A r \in dispatcher'[y].rows :
            r \in dispatcher[y].rows /\ r.id \in Deliveries
      BY <1>0, <1>1 DEF Sound, DispatcherStates, Candidates
    <2> QED BY <2>1, <2>2 DEF Ownership, CandidatesAge
  <1> QED BY <1>3, <1>4, <1>5 DEF Ownership

\* Nobody but the dispatchers changes a row that is held.
LEMMA RowOwnership ==
  ASSUME Ownership, Typed', UNCHANGED dispatcher,
         \A d \in Deliveries :
           row'[d].tries = row[d].tries /\ (Held(d) => row'[d] = row[d])
  PROVE  Ownership'
  <1>0. \A y \in Dispatchers : Sound(dispatcher[y])
    BY TypedFacts DEF Ownership
  <1>1. Exclusive'
    BY DEF Ownership, Exclusive
  <1>2. HoldersKnow'
    <2>1. \A y \in Dispatchers : dispatcher[y].phase \in Holding =>
            row'[dispatcher[y].id] = row[dispatcher[y].id]
      BY <1>0 DEF Held, Sound
    <2> QED BY <2>1 DEF Ownership, HoldersKnow
  <1>3. CandidatesAge'
    BY <1>0 DEF Ownership, CandidatesAge, Held, Sound, DispatcherStates, Candidates
  <1> QED BY <1>1, <1>2, <1>3 DEF Ownership

LEMMA SelectOwnership ==
  ASSUME Ownership, Typed', NEW x \in Dispatchers, SelectCandidates(x)
  PROVE  Ownership'
  <1>0. /\ dispatcher \in [Dispatchers -> DispatcherStates]
        /\ row \in [Deliveries -> RowStates]
    BY TypedFacts DEF Ownership
  <1>1. PICK ds \in SUBSET {d \in Deliveries : Sendable(d)} :
            dispatcher' = [dispatcher EXCEPT
              ![x] = [Idle EXCEPT !.phase = "claiming",
                        !.rows = {[id |-> d, tries |-> row[d].tries] : d \in ds}]]
    BY DEF SelectCandidates
  <1>2. row' = row
    BY DEF SelectCandidates
  <1>3. /\ dispatcher'[x].phase = "claiming"
        /\ dispatcher'[x].rows = {[id |-> d, tries |-> row[d].tries] : d \in ds}
        /\ \A y \in Dispatchers : y # x => dispatcher'[y] = dispatcher[y]
    BY <1>0, <1>1 DEF Idle
  <1>4. \A y \in Dispatchers : dispatcher'[y].phase \in Holding =>
          y # x /\ dispatcher'[y] = dispatcher[y]
    BY <1>3 DEF Holding
  <1>5. Exclusive' /\ HoldersKnow'
    BY <1>2, <1>4 DEF Ownership, Exclusive, HoldersKnow
  <1>6. CandidatesAge'
    <2>1. \A d : Held(d)' => Held(d)
      BY <1>4 DEF Held
    <2>2. \A d \in ds : ~Held(d)
      BY DEF Sendable, Held, Ownership, HoldersKnow
    <2>3. \A r \in dispatcher'[x].rows : r.tries = row[r.id].tries /\ ~Held(r.id)
      BY <1>3, <2>2
    <2>4. \A r \in dispatcher'[x].rows : r.tries \in Nat
      BY <1>0, <1>3 DEF RowStates
    <2>5. \A y \in Dispatchers : \A r \in dispatcher'[y].rows :
            /\ r.tries <= row[r.id].tries
            /\ r.tries = row[r.id].tries => ~Held(r.id)
      BY <1>3, <2>3, <2>4 DEF Ownership, CandidatesAge
    <2> QED BY <1>2, <2>1, <2>5 DEF CandidatesAge
  <1> QED BY <1>5, <1>6 DEF Ownership

LEMMA ClaimOwnership ==
  ASSUME Ownership, Typed', NEW x \in Dispatchers, TryClaim(x)
  PROVE  Ownership'
  <1>0. /\ dispatcher \in [Dispatchers -> DispatcherStates]
        /\ \A y \in Dispatchers : Sound(dispatcher[y])
        /\ row \in [Deliveries -> RowStates]
    BY TypedFacts DEF Ownership
  <1>1. PICK r \in dispatcher[x].rows :
         \/ /\ RowUnchanged(r)
            /\ row' = [row EXCEPT ![r.id] = [@ EXCEPT !.tries = r.tries + 1,
                                                      !.due = FALSE]]
            /\ dispatcher' = [dispatcher EXCEPT
                 ![x] = [Idle EXCEPT !.phase = "taken", !.id = r.id]]
         \/ /\ ~RowUnchanged(r)
            /\ dispatcher' = [dispatcher EXCEPT
                 ![x] = IF dispatcher[x].rows = {r} THEN Idle
                        ELSE [dispatcher[x] EXCEPT !.rows = @ \ {r}]]
            /\ UNCHANGED row
    BY DEF TryClaim
  <1>2. r.id \in Deliveries /\ r.tries \in Nat /\ dispatcher[x].phase \notin Holding
    BY <1>0, <1>1 DEF Sound, DispatcherStates, Candidates, TryClaim, Holding
  <1>3. CASE ~RowUnchanged(r)
    <2> DEFINE s == IF dispatcher[x].rows = {r} THEN Idle
                    ELSE [dispatcher[x] EXCEPT !.rows = dispatcher[x].rows \ {r}]
    <2>1. s.phase \notin Holding /\ s.rows \subseteq dispatcher[x].rows
      BY <1>0, <1>2, IdleSound DEF DispatcherStates
    <2>2. dispatcher' = [dispatcher EXCEPT ![x] = s] /\ row' = row
      BY <1>1, <1>3, Zenon
    <2> HIDE DEF s
    <2> QED BY <2>1, <2>2, DropOwnership
  <1>4. CASE RowUnchanged(r)
    <2>1. /\ row'[r.id].status = "pending" /\ ~row'[r.id].due
          /\ row'[r.id].tries = r.tries + 1 /\ row[r.id].tries = r.tries
          /\ \A d \in Deliveries : d # r.id => row'[d] = row[d]
      <3>1. row' = [row EXCEPT ![r.id] = [@ EXCEPT !.tries = r.tries + 1, !.due = FALSE]]
        BY <1>1, <1>4
      <3> QED BY <1>0, <1>2, <1>4, <3>1 DEF RowUnchanged, RowStates
    <2>2. dispatcher' = [dispatcher EXCEPT ![x] = [Idle EXCEPT !.phase = "taken", !.id = r.id]]
      BY <1>1, <1>4
    <2>3. /\ dispatcher'[x].phase = "taken" /\ dispatcher'[x].id = r.id
          /\ dispatcher'[x].rows = {}
          /\ \A y \in Dispatchers : y # x => dispatcher'[y] = dispatcher[y]
      BY <1>0, <2>2 DEF Idle
    <2>4. ~Held(r.id)
      BY <1>1, <2>1 DEF Ownership, CandidatesAge
    <2>5. \A y \in Dispatchers : y # x /\ dispatcher[y].phase \in Holding =>
            dispatcher[y].id \in Deliveries /\ dispatcher[y].id # r.id
      BY <1>0, <2>4 DEF Held, Sound
    <2>6. Exclusive'
      BY <2>3, <2>5 DEF Ownership, Exclusive
    <2>7. HoldersKnow'
      BY <2>1, <2>3, <2>5 DEF Ownership, HoldersKnow
    <2>8. CandidatesAge'
      <3> SUFFICES ASSUME NEW y \in Dispatchers, NEW q \in dispatcher'[y].rows
                   PROVE  /\ q.tries <= row'[q.id].tries
                          /\ q.tries = row'[q.id].tries => ~Held(q.id)'
        BY DEF CandidatesAge
      <3>1. y # x /\ q \in dispatcher[y].rows
        BY <2>3
      <3>2. q.id \in Deliveries /\ q.tries \in Nat /\ q.tries <= row[q.id].tries
        BY <1>0, <3>1 DEF Ownership, CandidatesAge, Sound, DispatcherStates, Candidates
      <3>3. CASE q.id = r.id
        BY <1>2, <2>1, <3>2, <3>3
      <3>4. CASE q.id # r.id
        <4>1. Held(q.id)' => Held(q.id)
          BY <2>3, <3>4 DEF Held
        <4> QED BY <2>1, <3>1, <3>2, <3>4, <4>1 DEF Ownership, CandidatesAge
      <3> QED BY <3>3, <3>4
    <2> QED BY <2>6, <2>7, <2>8 DEF Ownership
  <1> QED BY <1>3, <1>4

LEMMA NextOwnership == ~overrun' /\ Ownership /\ [Next]_vars => Ownership'
  <1> SUFFICES ASSUME ~overrun', Ownership, [Next]_vars PROVE Ownership'
    OBVIOUS
  <1>t. Typed'
    BY NextTyped DEF Ownership
  <1>0. /\ dispatcher \in [Dispatchers -> DispatcherStates]
        /\ \A y \in Dispatchers : Sound(dispatcher[y])
        /\ row \in [Deliveries -> RowStates]
    BY TypedFacts DEF Ownership
  <1>1. ASSUME NEW d \in Deliveries, Enqueue(d) PROVE Ownership'
    <2>1. ~Held(d)
      BY <1>1 DEF Enqueue, Held, Ownership, HoldersKnow
    <2>2. \A e \in Deliveries : row'[e].tries = row[e].tries /\ (e # d => row'[e] = row[e])
      BY <1>0, <1>1 DEF Enqueue, RowStates
    <2> QED BY <1>1, <1>t, <2>1, <2>2, RowOwnership DEF Enqueue
  <1>2. ASSUME NEW d \in Deliveries, ComesDue(d) PROVE Ownership'
    <2>1. ~Held(d)
      BY <1>2 DEF ComesDue, Held
    <2>2. \A e \in Deliveries : row'[e].tries = row[e].tries /\ (e # d => row'[e] = row[e])
      BY <1>0, <1>2 DEF ComesDue, RowStates
    <2> QED BY <1>2, <1>t, <2>1, <2>2, RowOwnership DEF ComesDue
  <1>3. CASE Deactivate \/ UNCHANGED vars
    BY <1>3, <1>t, RowOwnership DEF Deactivate, vars
  <1>4. ASSUME NEW x \in Dispatchers, SelectCandidates(x) PROVE Ownership'
    BY <1>4, <1>t, SelectOwnership
  <1>5. ASSUME NEW x \in Dispatchers, TryClaim(x) PROVE Ownership'
    BY <1>5, <1>t, ClaimOwnership
  <1>6. ASSUME NEW x \in Dispatchers, ReadBack(x) PROVE Ownership'
    <2> DEFINE s == [dispatcher[x] EXCEPT
                       !.phase = IF active THEN "posting" ELSE "cancelling",
                       !.tries = row[dispatcher[x].id].tries,
                       !.seen = row[dispatcher[x].id].status]
    <2>1. dispatcher' = [dispatcher EXCEPT ![x] = s] /\ row' = row
      BY <1>6 DEF ReadBack
    <2>2. dispatcher[x].phase \in Holding
      BY <1>6 DEF ReadBack, Holding
    <2>3. /\ s.phase \in Holding /\ s.id = dispatcher[x].id /\ s.rows = dispatcher[x].rows
          /\ s.seen = row[s.id].status /\ s.tries = row[s.id].tries
      BY <1>0 DEF DispatcherStates, Holding
    <2> HIDE DEF s
    <2> QED BY <1>t, <2>1, <2>2, <2>3, MoveOwnership
  <1>7. ASSUME NEW x \in Dispatchers, Post(x) PROVE Ownership'
    <2>1. PICK answer \in Answers : dispatcher' = [dispatcher EXCEPT
              ![x] = [@ EXCEPT !.phase = "answered", !.answer = answer, !.seen = "none"]]
      BY <1>7 DEF Post
    <2> DEFINE s == [dispatcher[x] EXCEPT !.phase = "answered", !.answer = answer,
                                          !.seen = "none"]
    <2>2. dispatcher' = [dispatcher EXCEPT ![x] = s] /\ row' = row
      BY <1>7, <2>1 DEF Post
    <2>3. dispatcher[x].phase = "posting" /\ dispatcher[x].phase \in Holding
      BY <1>7 DEF Post, Holding
    <2>4. /\ s.phase = "answered" /\ s.phase \in Holding
          /\ s.id = dispatcher[x].id /\ s.rows = dispatcher[x].rows
          /\ s.tries = dispatcher[x].tries
      BY <1>0 DEF DispatcherStates, Holding
    <2>5. s.tries = row[s.id].tries
      BY <2>3, <2>4 DEF Ownership, HoldersKnow
    <2> HIDE DEF s
    <2> QED BY <1>t, <2>2, <2>3, <2>4, <2>5, MoveOwnership
  <1>8. ASSUME NEW x \in Dispatchers, SettleRead(x) PROVE Ownership'
    <2> DEFINE s == [dispatcher[x] EXCEPT !.phase = "settling",
                                          !.seen = row[dispatcher[x].id].status]
    <2>1. dispatcher' = [dispatcher EXCEPT ![x] = s] /\ row' = row
      BY <1>8 DEF SettleRead
    <2>2. dispatcher[x].phase = "answered" /\ dispatcher[x].phase \in Holding
      BY <1>8 DEF SettleRead, Holding
    <2>3. /\ s.phase = "settling" /\ s.phase \in Holding
          /\ s.id = dispatcher[x].id /\ s.rows = dispatcher[x].rows
          /\ s.seen = row[s.id].status /\ s.tries = dispatcher[x].tries
      BY <1>0 DEF DispatcherStates, Holding
    <2>4. s.tries = row[s.id].tries
      BY <2>2, <2>3 DEF Ownership, HoldersKnow
    <2> HIDE DEF s
    <2> QED BY <1>t, <2>1, <2>2, <2>3, <2>4, MoveOwnership
  <1>9. ASSUME NEW x \in Dispatchers, Cancel(x) \/ SettleCommit(x) PROVE Ownership'
    <2>1. dispatcher[x].phase \in Holding /\ dispatcher[x].id \in Deliveries
      BY <1>0, <1>9 DEF Cancel, SettleCommit, Holding, Sound
    <2>2. dispatcher' = [dispatcher EXCEPT ![x] = Idle]
      BY <1>9 DEF Cancel, SettleCommit
    <2>3. \A d \in Deliveries : /\ row'[d].tries = row[d].tries
                                /\ d = dispatcher[x].id \/ row'[d] = row[d]
      <3>1. CASE Cancel(x)
        BY <1>0, <2>1, <3>1 DEF Cancel, RowStates
      <3>2. CASE SettleCommit(x)
        BY <1>0, <2>1, <3>2 DEF SettleCommit, RowStates
      <3> QED BY <1>9, <3>1, <3>2
    <2> QED BY <1>t, <2>1, <2>2, <2>3, IdleSound, DropOwnership
  <1>10. ASSUME NEW x \in Dispatchers, Crash(x) \/ Escape(x) PROVE Ownership'
    BY <1>10, <1>t, IdleSound, DropOwnership DEF Crash, Escape
  <1> QED
    BY <1>1, <1>2, <1>3, <1>4, <1>5, <1>6, <1>7, <1>8, <1>9, <1>10
    DEF Next, Turn

\* What has been missed once stays missed.
LEMMA OverrunStays == overrun /\ [Next]_vars => overrun'
  BY DEF Next, Turn, Enqueue, ComesDue, Deactivate, SelectCandidates, TryClaim,
     ReadBack, Cancel, Post, SettleRead, SettleCommit, Crash, Escape, vars

\* Ownership lasts until a post outlives its hold.
LEMMA OwnershipHolds == Spec => [](overrun \/ Ownership)
  BY InitOwnership, NextOwnership, OverrunStays, PTL DEF Spec

\* Two dispatchers never post one row at the same time, although the row stays
\* pending while it is posted, as long as no post outlives its hold.
THEOREM OnePoster == Spec => []NoSharedPost
  <1>1. overrun \/ Ownership => NoSharedPost
    BY DEF Ownership, NoSharedPost
  <1> QED BY OwnershipHolds, <1>1, PTL

-----------------------------------------------------------------------------
(***************************************************************************)
(* What a step can do to a row.  Everything below follows from this: a     *)
(* count grows only when a pending row that nobody holds is claimed, and a *)
(* status changes only when the row is queued or its holder settles it.    *)
(***************************************************************************)
LEMMA RowSteps ==
  ASSUME Ownership, [Next]_vars, NEW d \in Deliveries
  PROVE  \/ row'[d].status = row[d].status /\ row'[d].tries = row[d].tries
         \/ \E x \in Dispatchers :
              /\ TryClaim(x) /\ row[d].status = "pending" /\ ~Held(d)
              /\ row'[d].status = "pending" /\ row'[d].tries = row[d].tries + 1
              /\ dispatcher'[x].phase = "taken" /\ dispatcher'[x].id = d
         \/ /\ Enqueue(d) /\ row[d].status = "absent"
            /\ row'[d].status = "pending" /\ row'[d].tries = row[d].tries
         \/ \E x \in Dispatchers :
              /\ dispatcher[x].id = d /\ row[d].status = "pending"
              /\ row'[d].tries = row[d].tries
              /\ \/ Cancel(x) /\ row'[d].status = "cancelled"
                 \/ SettleCommit(x) /\ row'[d].status = Verdict(x)
  <1>0. /\ dispatcher \in [Dispatchers -> DispatcherStates]
        /\ \A y \in Dispatchers : Sound(dispatcher[y])
        /\ row \in [Deliveries -> RowStates]
    BY TypedFacts DEF Ownership
  <1> DEFINE Same == row'[d].status = row[d].status /\ row'[d].tries = row[d].tries
  <1>1. ASSUME NEW e \in Deliveries, Enqueue(e)
        PROVE  Same \/ (e = d /\ row[d].status = "absent"
                        /\ row'[d].status = "pending" /\ row'[d].tries = row[d].tries)
    BY <1>0, <1>1 DEF Enqueue, RowStates
  <1>2. ASSUME NEW e \in Deliveries, ComesDue(e) PROVE Same
    BY <1>0, <1>2 DEF ComesDue, RowStates
  <1>3. ASSUME NEW x \in Dispatchers, TryClaim(x)
        PROVE  \/ Same
               \/ /\ row[d].status = "pending" /\ ~Held(d)
                  /\ row'[d].status = "pending" /\ row'[d].tries = row[d].tries + 1
                  /\ dispatcher'[x].phase = "taken" /\ dispatcher'[x].id = d
    <2>1. PICK r \in dispatcher[x].rows :
         \/ row' = row
         \/ /\ RowUnchanged(r)
            /\ row' = [row EXCEPT ![r.id] = [@ EXCEPT !.tries = r.tries + 1,
                                                      !.due = FALSE]]
            /\ dispatcher' = [dispatcher EXCEPT
                 ![x] = [Idle EXCEPT !.phase = "taken", !.id = r.id]]
      BY <1>3 DEF TryClaim
    <2>2. r.id \in Deliveries
      BY <1>0 DEF Sound, DispatcherStates, Candidates
    <2>3. CASE row' = row
      BY <2>3
    <2>4. CASE row' # row
      <3>1. /\ row[r.id].status = "pending" /\ row[r.id].tries = r.tries
            /\ row' = [row EXCEPT ![r.id] = [@ EXCEPT !.tries = r.tries + 1,
                                                      !.due = FALSE]]
            /\ dispatcher' = [dispatcher EXCEPT
                 ![x] = [Idle EXCEPT !.phase = "taken", !.id = r.id]]
        BY <2>1, <2>4 DEF RowUnchanged
      <3>2. ~Held(r.id)
        BY <3>1 DEF Ownership, CandidatesAge
      <3>3. /\ row'[r.id].status = "pending" /\ row'[r.id].tries = r.tries + 1
            /\ d # r.id => row'[d] = row[d]
        BY <1>0, <2>2, <3>1 DEF RowStates
      <3>4. dispatcher'[x].phase = "taken" /\ dispatcher'[x].id = r.id
        BY <1>0, <3>1 DEF Idle
      <3> QED BY <3>1, <3>2, <3>3, <3>4
    <2> QED BY <2>3, <2>4
  <1>4. ASSUME NEW x \in Dispatchers, Cancel(x)
        PROVE  \/ Same
               \/ /\ dispatcher[x].id = d /\ row[d].status = "pending"
                  /\ row'[d].tries = row[d].tries /\ row'[d].status = "cancelled"
    <2>1. /\ dispatcher[x].phase = "cancelling" /\ dispatcher[x].phase \in Holding
          /\ row' = [row EXCEPT ![dispatcher[x].id].status = Flushed(x, "cancelled")]
      BY <1>4 DEF Cancel, Holding
    <2>2. /\ dispatcher[x].id \in Deliveries /\ dispatcher[x].seen = "pending"
          /\ row[dispatcher[x].id].status = "pending"
      BY <1>0, <2>1 DEF Ownership, HoldersKnow, Sound
    <2>3. Flushed(x, "cancelled") = "cancelled"
      BY <2>2 DEF Flushed
    <2> QED BY <1>0, <2>1, <2>2, <2>3 DEF RowStates
  <1>5. ASSUME NEW x \in Dispatchers, SettleCommit(x)
        PROVE  \/ Same
               \/ /\ dispatcher[x].id = d /\ row[d].status = "pending"
                  /\ row'[d].tries = row[d].tries /\ row'[d].status = Verdict(x)
    <2>1. /\ dispatcher[x].phase = "settling" /\ dispatcher[x].phase \in Holding
          /\ row' = [row EXCEPT ![dispatcher[x].id] =
                 [row[dispatcher[x].id] EXCEPT !.status = Flushed(x, Verdict(x)),
                                               !.due = @ /\ Verdict(x) # "pending"]]
      BY <1>5, Zenon DEF SettleCommit, Holding
    <2>2. /\ dispatcher[x].id \in Deliveries /\ dispatcher[x].seen = "pending"
          /\ row[dispatcher[x].id].status = "pending"
      BY <1>0, <2>1 DEF Ownership, HoldersKnow, Sound
    <2>3. Flushed(x, Verdict(x)) = Verdict(x)
      BY <2>2 DEF Flushed
    <2> QED BY <1>0, <2>1, <2>2, <2>3 DEF RowStates
  <1>6. ASSUME NEW x \in Dispatchers,
               \/ SelectCandidates(x) \/ ReadBack(x) \/ Post(x) \/ SettleRead(x)
               \/ Crash(x) \/ Escape(x)
        PROVE  Same
    BY <1>6 DEF SelectCandidates, ReadBack, Post, SettleRead, Crash, Escape
  <1>7. CASE Deactivate \/ UNCHANGED vars
    BY <1>7 DEF Deactivate, vars
  <1> QED
    BY <1>1, <1>2, <1>3, <1>4, <1>5, <1>6, <1>7 DEF Next, Turn

\* A delivery that was closed is not reopened, nor closed otherwise, by a claim
\* or an outcome that rests on what the row was before, as long as no post
\* outlives its hold.
THEOREM ClosedStaysClosed == Spec => ClosedForGood
  <1>1. ASSUME Ownership, [Next]_vars, NEW d \in Deliveries, row[d].status \in Closed
        PROVE  row'[d].status = row[d].status
    BY <1>1, RowSteps DEF Closed
  <1>2. (overrun \/ Ownership) /\ [Next]_vars =>
          [~overrun => \A d \in Deliveries :
             row[d].status \in Closed => row'[d].status = row[d].status]_vars
    BY <1>1
  <1> QED BY OwnershipHolds, <1>2, PTL DEF Spec, ClosedForGood

-----------------------------------------------------------------------------
(***************************************************************************)
(* The retry limit.  TriesBounded is not inductive alone: that a claim may *)
(* count one more try rests on what the outcome before it left behind.     *)
(***************************************************************************)
TriesLeft == \A d \in Deliveries :
    /\ row[d].tries <= MaxTries + Losses(d)
    /\ row[d].status = "absent" => row[d].tries = 0
    /\ row[d].status = "pending" /\ ~Held(d) => row[d].tries < MaxTries + Losses(d)

LEMMA InitTriesLeft == Init => TriesLeft
  BY TriesAssumption, CrashAssumption DEF Init, TriesLeft, Losses

\* A row that is let go of while it stays pending has tries left, or the
\* attempt was lost.
LEMMA LetGo ==
  ASSUME Ownership, [Next]_vars, NEW d \in Deliveries, Held(d), ~Held(d)',
         row'[d].status = "pending"
  PROVE  Losses(d)' = Losses(d) + 1 \/ row[d].tries < MaxTries
  <1>0. /\ dispatcher \in [Dispatchers -> DispatcherStates]
        /\ \A y \in Dispatchers : Sound(dispatcher[y])
        /\ row \in [Deliveries -> RowStates]
    BY TypedFacts DEF Ownership
  <1>1. PICK x \in Dispatchers : dispatcher[x].phase \in Holding /\ dispatcher[x].id = d
    BY DEF Held
  <1>2. /\ row[d].status = "pending"
        /\ dispatcher[x].phase \in {"cancelling", "settling"} =>
             dispatcher[x].seen = "pending"
        /\ dispatcher[x].phase \in {"posting", "answered", "settling"} =>
             dispatcher[x].tries = row[d].tries
    BY <1>1 DEF Ownership, HoldersKnow
  <1>3. ~(dispatcher'[x].phase \in Holding /\ dispatcher'[x].id = d)
    BY DEF Held
  <1>4. ASSUME NEW y \in Dispatchers, y # x,
               \/ SelectCandidates(y) \/ TryClaim(y) \/ ReadBack(y) \/ Cancel(y)
               \/ Post(y) \/ SettleRead(y) \/ SettleCommit(y) \/ Crash(y) \/ Escape(y)
        PROVE  FALSE
    <2>1. \E s : dispatcher' = [dispatcher EXCEPT ![y] = s]
      BY <1>4 DEF SelectCandidates, TryClaim, ReadBack, Cancel, Post, SettleRead,
                  SettleCommit, Crash, Escape
    <2> QED BY <1>0, <1>1, <1>3, <1>4, <2>1
  <1>5. CASE SelectCandidates(x) \/ TryClaim(x)
    BY <1>1, <1>5 DEF SelectCandidates, TryClaim, Holding
  <1>6. CASE ReadBack(x) \/ Post(x) \/ SettleRead(x)
    <2>1. CASE ReadBack(x)
      <3>1. \E p \in {"posting", "cancelling"} : \E n, s :
              dispatcher' = [dispatcher EXCEPT
                ![x] = [@ EXCEPT !.phase = p, !.tries = n, !.seen = s]]
        BY <2>1 DEF ReadBack
      <3> QED BY <1>0, <1>1, <1>3, <3>1 DEF DispatcherStates, Holding
    <2>2. CASE Post(x)
      <3>1. \E a : dispatcher' = [dispatcher EXCEPT
                ![x] = [@ EXCEPT !.phase = "answered", !.answer = a, !.seen = "none"]]
        BY <2>2 DEF Post
      <3> QED BY <1>0, <1>1, <1>3, <3>1 DEF DispatcherStates, Holding
    <2>3. CASE SettleRead(x)
      <3>1. \E s : dispatcher' = [dispatcher EXCEPT
                ![x] = [@ EXCEPT !.phase = "settling", !.seen = s]]
        BY <2>3 DEF SettleRead
      <3> QED BY <1>0, <1>1, <1>3, <3>1 DEF DispatcherStates, Holding
    <2> QED BY <1>6, <2>1, <2>2, <2>3
  <1>7. CASE Cancel(x)
    <2>1. Flushed(x, "cancelled") = "cancelled"
      BY <1>2, <1>7 DEF Cancel, Flushed
    <2> QED BY <1>0, <1>1, <1>7, <2>1 DEF Cancel, RowStates
  <1>8. CASE SettleCommit(x)
    <2>1. /\ dispatcher[x].seen = "pending" /\ dispatcher[x].tries = row[d].tries
          /\ row' = [row EXCEPT ![d] =
                 [row[d] EXCEPT !.status = Flushed(x, Verdict(x)),
                                !.due = @ /\ Verdict(x) # "pending"]]
      BY <1>1, <1>2, <1>8 DEF SettleCommit
    <2>2. Flushed(x, Verdict(x)) = Verdict(x)
      BY <1>1, <1>2, <2>1 DEF Flushed
    <2>3. row'[d].status = Verdict(x)
      BY <1>0, <2>1, <2>2 DEF RowStates
    <2>4. ~(row[d].tries >= MaxTries) /\ row[d].tries \in Nat
      BY <1>0, <2>1, <2>3 DEF Verdict, RowStates
    <2> QED BY <2>4, TriesAssumption
  <1>9. CASE Crash(x) \/ Escape(x)
    <2>1. /\ crashes \in Nat /\ escapes \in [Deliveries -> 0..MaxEscapes]
          /\ dispatcher[x].id = d
      BY <1>1, TypedFacts DEF Ownership
    <2> QED BY <1>9, <2>1, EscapeAssumption DEF Crash, Escape, Losses
  <1>10. CASE dispatcher' = dispatcher
    BY <1>1, <1>3, <1>10
  <1>11. \/ dispatcher' = dispatcher
         \/ \E y \in Dispatchers :
               \/ SelectCandidates(y) \/ TryClaim(y) \/ ReadBack(y) \/ Cancel(y)
               \/ Post(y) \/ SettleRead(y) \/ SettleCommit(y) \/ Crash(y) \/ Escape(y)
    BY DEF Next, Turn, Enqueue, ComesDue, Deactivate, vars
  <1> QED BY <1>4, <1>5, <1>6, <1>7, <1>8, <1>9, <1>10, <1>11

LEMMA LossesGrow ==
  ASSUME Typed, [Next]_vars, NEW d \in Deliveries
  PROVE  /\ Losses(d) \in Nat /\ Losses(d)' \in Nat
         /\ Losses(d)' = Losses(d) \/ Losses(d)' = Losses(d) + 1
  <1>0. /\ crashes \in Nat /\ escapes \in [Deliveries -> 0..MaxEscapes]
        /\ escapes[d] \in Nat
        /\ \A x \in Dispatchers : Sound(dispatcher[x])
    BY TypedFacts, EscapeAssumption
  <1>1. ASSUME NEW x \in Dispatchers, Crash(x)
        PROVE  crashes' = crashes + 1 /\ escapes' = escapes
    BY <1>1 DEF Crash
  <1>2. ASSUME NEW x \in Dispatchers, Escape(x)
        PROVE  /\ crashes' = crashes
               /\ escapes'[d] = escapes[d] \/ escapes'[d] = escapes[d] + 1
    BY <1>0, <1>2 DEF Escape
  <1>3. ASSUME NEW x \in Dispatchers, Turn(x)
        PROVE  UNCHANGED <<crashes, escapes>>
    BY <1>3 DEF Turn, SelectCandidates, TryClaim, ReadBack, Cancel, Post, SettleRead,
                SettleCommit
  <1>4. CASE Deactivate \/ (\E e \in Deliveries : Enqueue(e) \/ ComesDue(e))
    BY <1>0, <1>4 DEF Deactivate, Enqueue, ComesDue, Losses
  <1>5. CASE UNCHANGED vars
    BY <1>0, <1>5 DEF vars, Losses
  <1> QED BY <1>0, <1>1, <1>2, <1>3, <1>4, <1>5 DEF Next, Losses

LEMMA NextTriesLeft == Ownership /\ Ownership' /\ TriesLeft /\ [Next]_vars => TriesLeft'
  <1> SUFFICES ASSUME Ownership, Ownership', TriesLeft, [Next]_vars, NEW d \in Deliveries
               PROVE  /\ row'[d].tries <= MaxTries + Losses(d)'
                      /\ row'[d].status = "absent" => row'[d].tries = 0
                      /\ row'[d].status = "pending" /\ ~Held(d)' =>
                           row'[d].tries < MaxTries + Losses(d)'
    BY DEF TriesLeft
  <1>0. /\ Losses(d) \in Nat /\ Losses(d)' \in Nat
        /\ Losses(d)' = Losses(d) \/ Losses(d)' = Losses(d) + 1
        /\ MaxTries \in Nat \ {0} /\ row[d].tries \in Nat
    BY TriesAssumption, LossesGrow, TypedFacts DEF Ownership, RowStates
  <1>1. /\ row[d].tries <= MaxTries + Losses(d)
        /\ row[d].status = "absent" => row[d].tries = 0
        /\ row[d].status = "pending" /\ ~Held(d) => row[d].tries < MaxTries + Losses(d)
    BY DEF TriesLeft
  <1>2. CASE row'[d].status = row[d].status /\ row'[d].tries = row[d].tries
    <2>1. CASE row[d].status = "pending" /\ Held(d) /\ ~Held(d)'
      <3>1. Losses(d)' = Losses(d) + 1 \/ row[d].tries < MaxTries
        BY <1>2, <2>1, LetGo
      <3> QED BY <1>0, <1>1, <1>2, <3>1
    <2> QED BY <1>0, <1>1, <1>2, <2>1
  <1>3. ASSUME NEW x \in Dispatchers, TryClaim(x), row[d].status = "pending", ~Held(d),
               row'[d].status = "pending", row'[d].tries = row[d].tries + 1,
               dispatcher'[x].phase = "taken", dispatcher'[x].id = d
        PROVE  /\ row'[d].tries <= MaxTries + Losses(d)'
               /\ row'[d].status = "absent" => row'[d].tries = 0
               /\ row'[d].status = "pending" /\ ~Held(d)' =>
                    row'[d].tries < MaxTries + Losses(d)'
    <2>1. Held(d)'
      BY <1>3 DEF Held, Holding
    <2> QED BY <1>0, <1>1, <1>3, <2>1
  <1>4. CASE /\ row[d].status = "absent" /\ row'[d].status = "pending"
             /\ row'[d].tries = row[d].tries
    BY <1>0, <1>1, <1>4
  <1>5. ASSUME NEW x \in Dispatchers, row[d].status = "pending",
               row'[d].tries = row[d].tries,
               \/ row'[d].status = "cancelled"
               \/ row'[d].status = Verdict(x)
        PROVE  /\ row'[d].tries <= MaxTries + Losses(d)'
               /\ row'[d].status = "absent" => row'[d].tries = 0
               /\ row'[d].status = "pending" /\ ~Held(d)' =>
                    row'[d].tries < MaxTries + Losses(d)'
    <2>1. row'[d].status # "absent"
      BY <1>5 DEF Verdict
    <2>2. CASE row'[d].status = "pending"
      BY <1>2, <1>5, <2>2
    <2> QED BY <1>0, <1>1, <1>5, <2>1, <2>2
  <1> QED BY <1>2, <1>3, <1>4, <1>5, RowSteps

\* A row is tried MaxTries times, and beyond that once for each attempt that a
\* crash or an uncaught exception lost, however many they are, as long as no
\* post outlives its hold.
THEOREM RetriesEnd == Spec => []TriesBounded
  <1>1. Ownership /\ Ownership' /\ TriesLeft /\ [Next]_vars => TriesLeft'
    BY NextTriesLeft
  <1>2. overrun \/ TriesLeft => TriesBounded
    BY DEF TriesLeft, TriesBounded
  <1> QED BY OwnershipHolds, OverrunStays, InitTriesLeft, <1>1, <1>2, PTL DEF Spec

-----------------------------------------------------------------------------
(***************************************************************************)
(* Acknowledgements.  An answer in the 200s is kept by the dispatcher that *)
(* got it until it has settled the row; only a crash forgets one.          *)
(***************************************************************************)
Acks(s, d) == s.phase \in {"answered", "settling"} /\ s.answer = "ok" /\ s.id = d

Acknowledged(d) == \E x \in Dispatchers : Acks(dispatcher[x], d)

AcksKept == \A d \in Deliveries :
    /\ row[d].status = "delivered" \/ Acknowledged(d) => received[d] > 0
    /\ acked[d] <= 1 + crashes
    /\ row[d].status \in {"absent", "pending"} /\ ~Acknowledged(d) => acked[d] <= crashes

LEMMA InitAcksKept == Init => AcksKept
  BY IdleSound DEF Init, AcksKept, Acknowledged, Acks, Holding

\* What a dispatcher's step does to the acknowledgements held.
LEMMA AckMove ==
  ASSUME Typed, NEW x \in Dispatchers, NEW s, dispatcher' = [dispatcher EXCEPT ![x] = s],
         NEW d \in Deliveries
  PROVE  Acknowledged(d)' <=>
           Acks(s, d) \/ \E y \in Dispatchers \ {x} : Acks(dispatcher[y], d)
  <1>1. /\ dispatcher'[x] = s
        /\ \A y \in Dispatchers \ {x} : dispatcher'[y] = dispatcher[y]
    BY TypedFacts
  <1> QED BY <1>1 DEF Acknowledged, Acks

\* Nobody else has an acknowledgement of a row that x holds.
LEMMA SoleHolder ==
  ASSUME Ownership, NEW x \in Dispatchers, dispatcher[x].phase \in Holding,
         NEW y \in Dispatchers \ {x}
  PROVE  ~Acks(dispatcher[y], dispatcher[x].id)
  BY DEF Ownership, Exclusive, Acks, Holding

LEMMA NextAcksKept == Ownership /\ AcksKept /\ [Next]_vars => AcksKept'
  <1> SUFFICES ASSUME Ownership, AcksKept, [Next]_vars, NEW d \in Deliveries
               PROVE  /\ row'[d].status = "delivered" \/ Acknowledged(d)' => received'[d] > 0
                      /\ acked'[d] <= 1 + crashes'
                      /\ row'[d].status \in {"absent", "pending"} /\ ~Acknowledged(d)' =>
                           acked'[d] <= crashes'
    BY DEF AcksKept
  <1> DEFINE Goal == /\ row'[d].status = "delivered" \/ Acknowledged(d)' => received'[d] > 0
                     /\ acked'[d] <= 1 + crashes'
                     /\ row'[d].status \in {"absent", "pending"} /\ ~Acknowledged(d)' =>
                          acked'[d] <= crashes'
  <1>0. /\ Typed /\ row \in [Deliveries -> RowStates]
        /\ dispatcher \in [Dispatchers -> DispatcherStates]
        /\ \A x \in Dispatchers : Sound(dispatcher[x])
        /\ received \in [Deliveries -> Nat] /\ acked \in [Deliveries -> Nat]
        /\ received[d] \in Nat /\ acked[d] \in Nat /\ crashes \in Nat
    BY TypedFacts DEF Ownership
  <1>1. /\ row[d].status = "delivered" \/ Acknowledged(d) => received[d] > 0
        /\ acked[d] <= 1 + crashes
        /\ row[d].status \in {"absent", "pending"} /\ ~Acknowledged(d) => acked[d] <= crashes
    BY DEF AcksKept
  \* Steps that touch neither posts nor acknowledgements.
  <1>2. ASSUME UNCHANGED <<received, acked, crashes>>, Acknowledged(d)' <=> Acknowledged(d),
               \/ row'[d].status = row[d].status
               \/ row[d].status = "absent" /\ row'[d].status = "pending"
               \/ row'[d].status = "cancelled"
        PROVE  Goal
    BY <1>1, <1>2
  <1>3. ASSUME \/ Deactivate \/ UNCHANGED vars
               \/ \E e \in Deliveries : Enqueue(e) \/ ComesDue(e)
        PROVE  Goal
    <2>1. UNCHANGED <<received, acked, crashes, dispatcher>>
      BY <1>3 DEF Deactivate, Enqueue, ComesDue, vars
    <2>2. \/ row'[d].status = row[d].status
          \/ row[d].status = "absent" /\ row'[d].status = "pending"
      BY <1>0, <1>3 DEF Deactivate, Enqueue, ComesDue, vars, RowStates
    <2>3. Acknowledged(d)' <=> Acknowledged(d)
      BY <2>1 DEF Acknowledged, Acks
    <2> QED BY <1>2, <2>1, <2>2, <2>3
  <1>4. ASSUME NEW x \in Dispatchers, NEW s, dispatcher' = [dispatcher EXCEPT ![x] = s],
               Acks(s, d) <=> Acks(dispatcher[x], d),
               UNCHANGED <<received, acked, crashes>>,
               row'[d].status = row[d].status \/ row'[d].status = "cancelled"
        PROVE  Goal
    <2>1. Acknowledged(d)' <=> Acknowledged(d)
      BY <1>0, <1>4, AckMove DEF Acknowledged
    <2> QED BY <1>2, <1>4, <2>1
  <1>5. ASSUME NEW x \in Dispatchers, SelectCandidates(x) PROVE Goal
    <2>1. \E rs : dispatcher' = [dispatcher EXCEPT
                  ![x] = [Idle EXCEPT !.phase = "claiming", !.rows = rs]]
      BY <1>5 DEF SelectCandidates
    <2>2. \A rs : ~Acks([Idle EXCEPT !.phase = "claiming", !.rows = rs], d)
      BY DEF Acks, Idle
    <2>3. ~Acks(dispatcher[x], d) /\ UNCHANGED <<row, received, acked, crashes>>
      BY <1>5 DEF SelectCandidates, Acks
    <2> QED BY <1>4, <2>1, <2>2, <2>3
  <1>6. ASSUME NEW x \in Dispatchers, TryClaim(x) PROVE Goal
    <2>1. PICK r \in dispatcher[x].rows :
         \/ /\ row[r.id].status = "pending"
            /\ row' = [row EXCEPT ![r.id] = [@ EXCEPT !.tries = r.tries + 1,
                                                      !.due = FALSE]]
            /\ dispatcher' = [dispatcher EXCEPT
                 ![x] = [Idle EXCEPT !.phase = "taken", !.id = r.id]]
         \/ /\ dispatcher' = [dispatcher EXCEPT
                 ![x] = IF dispatcher[x].rows = {r} THEN Idle
                        ELSE [dispatcher[x] EXCEPT !.rows = @ \ {r}]]
            /\ UNCHANGED row
      BY <1>6 DEF TryClaim, RowUnchanged
    <2>2. ~Acks(dispatcher[x], d) /\ UNCHANGED <<received, acked, crashes>>
      BY <1>6 DEF TryClaim, Acks
    <2>3. /\ ~Acks([Idle EXCEPT !.phase = "taken", !.id = r.id], d)
          /\ ~Acks(IF dispatcher[x].rows = {r} THEN Idle
                   ELSE [dispatcher[x] EXCEPT !.rows = @ \ {r}], d)
      BY <1>0, <1>6 DEF TryClaim, Acks, Idle, DispatcherStates
    <2>4. row'[d].status = row[d].status
      <3>1. r.id \in Deliveries
        BY <1>0 DEF Sound, DispatcherStates, Candidates
      <3>2. CASE d = r.id
        BY <1>0, <2>1, <3>1, <3>2 DEF RowStates
      <3>3. CASE d # r.id
        BY <1>0, <2>1, <3>1, <3>3
      <3> QED BY <3>2, <3>3
    <2> QED BY <1>4, <2>1, <2>2, <2>3, <2>4
  <1>7. ASSUME NEW x \in Dispatchers, ReadBack(x) PROVE Goal
    <2>1. /\ \E p \in {"posting", "cancelling"} : \E n, t :
               dispatcher' = [dispatcher EXCEPT
                 ![x] = [@ EXCEPT !.phase = p, !.tries = n, !.seen = t]]
          /\ UNCHANGED <<row, received, acked, crashes>>
      BY <1>7 DEF ReadBack
    <2>2. \A p \in {"posting", "cancelling"} : \A n, t :
            ~Acks([dispatcher[x] EXCEPT !.phase = p, !.tries = n, !.seen = t], d)
      BY <1>0 DEF Acks, DispatcherStates
    <2>3. ~Acks(dispatcher[x], d)
      BY <1>7 DEF ReadBack, Acks
    <2> QED BY <1>4, <2>1, <2>2, <2>3
  <1>8. ASSUME NEW x \in Dispatchers, Cancel(x) PROVE Goal
    <2>1. ~Acks(dispatcher[x], d) /\ ~Acks(Idle, d)
      BY <1>8, IdleSound DEF Cancel, Acks, Holding
    <2>2. row'[d].status = row[d].status \/ row'[d].status = "cancelled"
      BY <1>0, <1>8 DEF Cancel, Flushed, RowStates
    <2> QED BY <1>4, <1>8, <2>1, <2>2 DEF Cancel
  <1>9. ASSUME NEW x \in Dispatchers, Post(x) PROVE Goal
    <2> DEFINE e == dispatcher[x].id
    <2>1. PICK answer \in Answers, reached \in BOOLEAN :
         /\ answer = "ok" => reached
         /\ dispatcher' = [dispatcher EXCEPT
              ![x] = [@ EXCEPT !.phase = "answered", !.answer = answer,
                               !.seen = "none"]]
         /\ received' = [received EXCEPT ![e] = @ + (IF reached THEN 1 ELSE 0)]
         /\ acked' = [acked EXCEPT ![e] = @ + (IF answer = "ok" THEN 1 ELSE 0)]
      BY <1>9 DEF Post
    <2> DEFINE s == [dispatcher[x] EXCEPT !.phase = "answered", !.answer = answer,
                                          !.seen = "none"]
    <2>2. /\ dispatcher[x].phase = "posting" /\ dispatcher[x].phase \in Holding
          /\ UNCHANGED <<row, active, crashes>>
      BY <1>9 DEF Post, Holding
    <2>3. e \in Deliveries /\ row[e].status = "pending"
      BY <1>0, <2>2 DEF Ownership, HoldersKnow, Sound
    <2>4. Acks(s, d) <=> answer = "ok" /\ e = d
      BY <1>0 DEF Acks, DispatcherStates
    <2>5. ~Acks(dispatcher[x], d)
      BY <2>2 DEF Acks
    <2>6. dispatcher' = [dispatcher EXCEPT ![x] = s]
      BY <2>1
    <2> HIDE DEF s
    <2>7. Acknowledged(d)' <=> (answer = "ok" /\ e = d) \/ Acknowledged(d)
      BY <1>0, <2>4, <2>5, <2>6, AckMove DEF Acknowledged
    <2>8. CASE e = d
      <3>1. ~Acknowledged(d)
        BY <2>2, <2>5, <2>8, SoleHolder DEF Acknowledged
      <3>2. /\ acked[d] <= crashes /\ row'[d].status = "pending"
            /\ row[d].status # "delivered"
        BY <1>1, <2>2, <2>3, <2>8, <3>1
      <3>3. CASE answer = "ok"
        <4>1. received'[d] = received[d] + 1 /\ acked'[d] = acked[d] + 1
          BY <1>0, <2>1, <2>8, <3>3
        <4> QED BY <1>0, <2>2, <2>7, <2>8, <3>2, <3>3, <4>1
      <3>4. CASE answer # "ok"
        <4>1. acked'[d] = acked[d]
          BY <1>0, <2>1, <2>8, <3>4
        <4> QED BY <1>0, <2>2, <2>7, <2>8, <3>1, <3>2, <3>4, <4>1
      <3> QED BY <3>3, <3>4
    <2>9. CASE e # d
      <3>1. received'[d] = received[d] /\ acked'[d] = acked[d]
        BY <1>0, <2>1, <2>9
      <3> QED BY <1>1, <2>2, <2>7, <2>9, <3>1
    <2> QED BY <2>8, <2>9
  <1>10. ASSUME NEW x \in Dispatchers, SettleRead(x) PROVE Goal
    <2>1. /\ dispatcher[x].phase = "answered"
          /\ dispatcher' = [dispatcher EXCEPT
               ![x] = [@ EXCEPT !.phase = "settling",
                                !.seen = row[dispatcher[x].id].status]]
          /\ UNCHANGED <<row, received, acked, crashes>>
      BY <1>10 DEF SettleRead
    <2>2. Acks([dispatcher[x] EXCEPT !.phase = "settling",
                                     !.seen = row[dispatcher[x].id].status], d)
            <=> Acks(dispatcher[x], d)
      BY <1>0, <2>1 DEF Acks, DispatcherStates
    <2> QED BY <1>4, <2>1, <2>2
  <1>11. ASSUME NEW x \in Dispatchers, SettleCommit(x) PROVE Goal
    <2> DEFINE e == dispatcher[x].id
    <2>1. /\ dispatcher[x].phase = "settling" /\ dispatcher[x].phase \in Holding
          /\ row' = [row EXCEPT ![e] = [row[e] EXCEPT !.status = Flushed(x, Verdict(x)),
                                               !.due = @ /\ Verdict(x) # "pending"]]
          /\ dispatcher' = [dispatcher EXCEPT ![x] = Idle]
          /\ UNCHANGED <<active, received, acked, crashes>>
      BY <1>11, Zenon DEF SettleCommit, Holding
    <2>2. e \in Deliveries /\ dispatcher[x].seen = "pending" /\ row[e].status = "pending"
      BY <1>0, <2>1 DEF Ownership, HoldersKnow, Sound
    <2>3. ~Acks(Idle, d)
      BY IdleSound DEF Acks, Holding
    <2>4. Acknowledged(d)' <=> \E y \in Dispatchers \ {x} : Acks(dispatcher[y], d)
      BY <1>0, <2>1, <2>3, AckMove
    <2>5. CASE e = d
      <3>1. ~Acknowledged(d)'
        BY <2>1, <2>4, <2>5, SoleHolder
      <3>2. row'[d].status = Verdict(x)
        BY <1>0, <2>1, <2>2, <2>5 DEF Flushed, RowStates
      <3>3. Acknowledged(d) <=> dispatcher[x].answer = "ok"
        BY <2>1, <2>5, SoleHolder DEF Acknowledged, Acks
      <3>4. row'[d].status = "delivered" <=> dispatcher[x].answer = "ok"
        BY <3>2 DEF Verdict
      <3> QED BY <1>1, <2>1, <2>2, <2>5, <3>1, <3>3, <3>4
    <2>6. CASE e # d
      <3>1. Acknowledged(d)' <=> Acknowledged(d)
        BY <2>4, <2>6 DEF Acknowledged, Acks
      <3> QED BY <1>2, <2>1, <2>6, <3>1
    <2> QED BY <2>5, <2>6
  <1>12. ASSUME NEW x \in Dispatchers, Crash(x) PROVE Goal
    <2>1. /\ crashes' = crashes + 1 /\ dispatcher' = [dispatcher EXCEPT ![x] = Idle]
          /\ UNCHANGED <<row, received, acked>>
      BY <1>12 DEF Crash
    <2>2. ~Acks(Idle, d)
      BY IdleSound DEF Acks, Holding
    <2>3. Acknowledged(d)' => Acknowledged(d)
      BY <1>0, <2>1, <2>2, AckMove DEF Acknowledged
    <2> QED BY <1>0, <1>1, <2>1, <2>3
  \* A post that escapes has no answer to forget.
  <1>13. ASSUME NEW x \in Dispatchers, Escape(x) PROVE Goal
    <2>1. /\ dispatcher' = [dispatcher EXCEPT ![x] = Idle]
          /\ UNCHANGED <<row, acked, crashes>>
      BY <1>13 DEF Escape
    <2>2. received'[d] \in Nat /\ received'[d] >= received[d]
      BY <1>0, <1>13 DEF Escape
    <2>3. ~Acks(Idle, d) /\ ~Acks(dispatcher[x], d)
      BY <1>13, IdleSound DEF Acks, Holding, Escape
    <2>4. Acknowledged(d)' <=> Acknowledged(d)
      BY <1>0, <2>1, <2>3, AckMove DEF Acknowledged
    <2> QED BY <1>0, <1>1, <2>1, <2>2, <2>4
  <1> HIDE DEF Goal
  <1>14. Goal
    BY <1>3, <1>5, <1>6, <1>7, <1>8, <1>9, <1>10, <1>11, <1>12, <1>13 DEF Next, Turn
  <1> QED BY <1>14 DEF Goal

\* As long as no post outlives its hold, what is delivered was received, and what
\* was acknowledged is not posted to success again unless a crash lost the
\* acknowledgement; an escape costs none.
THEOREM AcknowledgedOnce == Spec => []DeliveredOnce
  <1>1. overrun \/ AcksKept => DeliveredOnce
    BY DEF AcksKept, DeliveredOnce
  <1> QED BY OwnershipHolds, OverrunStays, InitAcksKept, NextAcksKept, <1>1, PTL DEF Spec

=============================================================================
