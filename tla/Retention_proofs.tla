--------------------------- MODULE Retention_proofs ----------------------------
(***************************************************************************)
(* Proofs about Retention, for any documents, contents, idempotency keys,  *)
(* deletions, readers and limits.                                          *)
(***************************************************************************)
EXTENDS Retention, FiniteSetTheorems, TLAPS

DocStates == [exists : BOOLEAN, deleted : BOOLEAN, due : BOOLEAN,
              result : Results \cup {NoKey}]

AttemptStates == [phase : Phases, tries : 0..MaxAttempts,
                  output : Results \cup {NoKey}]

RemoverStates == [phase : {"idle", "loaded", "removing", "deleting"},
                  pairs : SUBSET Pairs, keys : Seq(Keys)]

\* A queued job has an attempt left, a result that was put has a key, and keys
\* are held by a deletion in its last phase only.
JobTyped(a) ==
    /\ a \in AttemptStates
    /\ a.phase \in {"none", "pending"} => a.tries < MaxAttempts
    /\ a.phase = "stored" => a.output \in Results

RemoverTyped(r) ==
    /\ r \in RemoverStates
    /\ r.phase = "deleting" <=> r.keys # <<>>
    /\ r.phase = "idle" => r.pairs = {}

Typed ==
    /\ doc \in [Docs -> DocStates]
    /\ submission \in [Docs -> {"new", "checked", "stored", "answered",
                                "conceded", "lost"}]
    /\ answer \in [Docs -> SUBSET Docs]
    /\ \A d \in Docs : answer[d] = {} \/ \E e \in Docs : answer[d] = {e}
    /\ attempt \in [Docs -> AttemptStates] /\ \A d \in Docs : JobTyped(attempt[d])
    /\ remover \in [Removers -> RemoverStates]
    /\ \A x \in Removers : RemoverTyped(remover[x])
    /\ objects \in SUBSET Keys
    /\ crashes \in 0..MaxCrashes
    /\ reader \in [Readers -> SUBSET [doc : Docs, key : Results]]

LEMMA NoKeyApart == NoKey \notin Keys
  BY KeysAssumption DEF Keys

\* What taking the head off a sequence of keys leaves.
LEMMA HeadAndTail ==
  ASSUME NEW S, NEW s \in Seq(S), s # <<>>
  PROVE  /\ Head(s) \in S /\ Tail(s) \in Seq(S)
         /\ Len(s) > 1 <=> Tail(s) # <<>>
         /\ Range(s) = {Head(s)} \cup Range(Tail(s))
  <1>1. Len(s) \in Nat \ {0} /\ DOMAIN s = 1..Len(s) /\ \A i \in 1..Len(s) : s[i] \in S
    OBVIOUS
  <1>2. /\ Head(s) = s[1] /\ Tail(s) \in Seq(S) /\ Len(Tail(s)) = Len(s) - 1
        /\ \A i \in 1..(Len(s) - 1) : Tail(s)[i] = s[i + 1]
    BY <1>1
  <1>3. Len(s) > 1 <=> Tail(s) # <<>>
    <2>1. \A t \in Seq(S) : t = <<>> <=> Len(t) = 0
      OBVIOUS
    <2>2. Tail(s) = <<>> <=> Len(s) - 1 = 0
      BY <1>2, <2>1
    <2> QED BY <1>1, <2>2
  <1>4. DOMAIN Tail(s) = 1..(Len(s) - 1)
    BY <1>2
  <1>5. Range(s) \subseteq {Head(s)} \cup Range(Tail(s))
    <2> SUFFICES ASSUME NEW i \in 1..Len(s), i # 1 PROVE s[i] \in Range(Tail(s))
      BY <1>1, <1>2 DEF Range
    <2>1. i - 1 \in 1..(Len(s) - 1) /\ (i - 1) + 1 = i
      BY <1>1
    <2> QED BY <1>2, <1>4, <2>1 DEF Range
  <1>6. {Head(s)} \cup Range(Tail(s)) \subseteq Range(s)
    BY <1>1, <1>2, <1>4 DEF Range
  <1> QED BY <1>1, <1>2, <1>3, <1>5, <1>6

\* _safe_delete_objects deletes the keys of a pair that nobody uses, each once,
\* and never the NULL key.
LEMMA DoomedKeys ==
  ASSUME NEW p \in Pairs
  PROVE  /\ Doomed(p) \in Seq(Keys)
         /\ Range(Doomed(p)) = {k \in {p.source, p.result} \ {NoKey} : ~InUse(k)}
  <1>1. p.source \in Keys /\ p.result \in Keys \cup {NoKey} /\ p.source # NoKey
    BY NoKeyApart DEF Pairs, Keys
  <1> DEFINE a == IF InUse(p.source) THEN <<>> ELSE <<p.source>>
             b == IF p.result \in {NoKey, p.source} \/ InUse(p.result)
                  THEN <<>> ELSE <<p.result>>
  <1>2. Doomed(p) = a \o b
    BY DEF Doomed
  <1>3. /\ a = <<>> \/ a = <<p.source>>
        /\ b = <<>> \/ (b = <<p.result>> /\ p.result \in Keys)
    BY <1>1
  <1>4. a \o b \in Seq(Keys) /\ Range(a \o b) = Range(a) \cup Range(b)
    <2>1. a \in Seq(Keys) /\ b \in Seq(Keys)
      BY <1>1, <1>3
    <2> HIDE DEF a, b
    <2>2. /\ a \o b \in Seq(Keys) /\ Len(a \o b) = Len(a) + Len(b)
          /\ Len(a) \in Nat /\ Len(b) \in Nat
          /\ DOMAIN a = 1..Len(a) /\ DOMAIN b = 1..Len(b)
          /\ DOMAIN (a \o b) = 1..(Len(a) + Len(b))
          /\ \A i \in 1..(Len(a) + Len(b)) :
               (a \o b)[i] = IF i <= Len(a) THEN a[i] ELSE b[i - Len(a)]
      BY <2>1
    <2>3. Range(a \o b) \subseteq Range(a) \cup Range(b)
      <3> SUFFICES ASSUME NEW i \in 1..(Len(a) + Len(b))
                   PROVE  (a \o b)[i] \in Range(a) \cup Range(b)
        BY <2>2 DEF Range
      <3>1. CASE i <= Len(a)
        BY <2>2, <3>1 DEF Range
      <3>2. CASE ~(i <= Len(a))
        <4>1. i - Len(a) \in 1..Len(b)
          BY <2>2, <3>2
        <4> QED BY <2>2, <3>2, <4>1 DEF Range
      <3> QED BY <3>1, <3>2
    <2>4. Range(a) \subseteq Range(a \o b)
      BY <2>2 DEF Range
    <2>5. Range(b) \subseteq Range(a \o b)
      <3> SUFFICES ASSUME NEW j \in 1..Len(b) PROVE b[j] \in Range(a \o b)
        BY <2>2 DEF Range
      <3>1. /\ j + Len(a) \in 1..(Len(a) + Len(b)) /\ ~(j + Len(a) <= Len(a))
            /\ (j + Len(a)) - Len(a) = j
        BY <2>2
      <3> QED BY <2>2, <3>1 DEF Range
    <2> QED BY <2>2, <2>3, <2>4, <2>5
  <1>5. Range(a) = {k \in {p.source} : ~InUse(k)}
    BY DEF Range
  <1>6. Range(b) = {k \in {p.result} \ {NoKey, p.source} : ~InUse(k)}
    BY DEF Range
  <1> QED BY <1>1, <1>2, <1>4, <1>5, <1>6

LEMMA TypedTypeOK == Typed => TypeOK
  <1> SUFFICES ASSUME Typed PROVE TypeOK
    OBVIOUS
  <1>1. \A d \in Docs : Cardinality(answer[d]) <= 1
    <2>1. Cardinality({}) = 0 /\ \A e \in Docs : Cardinality({e}) = 1
      BY FS_EmptySet, FS_Singleton
    <2> QED BY <2>1 DEF Typed
  <1>2. \A x \in Removers :
          /\ remover[x].phase \in {"idle", "loaded", "removing", "deleting"}
          /\ remover[x].pairs \subseteq Pairs
          /\ Range(remover[x].keys) \subseteq Keys
    BY DEF Typed, RemoverStates, Range
  <1> QED BY <1>1, <1>2 DEF Typed, TypeOK, DocStates, AttemptStates

LEMMA InitTyped == Init => Typed
  <1> SUFFICES ASSUME Init PROVE Typed
    OBVIOUS
  <1>1. doc \in [Docs -> DocStates]
    BY DEF Init, NoDoc, DocStates
  <1>2. attempt \in [Docs -> AttemptStates] /\ \A d \in Docs : JobTyped(attempt[d])
    BY AttemptsAssumption DEF Init, AttemptStates, JobTyped, Phases
  <1>3. RemoverTyped(Resting)
    BY DEF Resting, RemoverTyped, RemoverStates
  <1>4. /\ remover \in [Removers -> RemoverStates]
        /\ \A x \in Removers : RemoverTyped(remover[x])
    BY <1>3 DEF Init, RemoverTyped
  <1>5. /\ submission \in [Docs -> {"new", "checked", "stored", "answered",
                                    "conceded", "lost"}]
        /\ answer \in [Docs -> SUBSET Docs]
        /\ \A d \in Docs : answer[d] = {}
        /\ objects \in SUBSET Keys /\ crashes \in 0..MaxCrashes
        /\ reader \in [Readers -> SUBSET [doc : Docs, key : Results]]
    BY BudgetAssumption DEF Init
  <1> QED BY <1>1, <1>2, <1>4, <1>5 DEF Typed

\* The attempt of d is set to a, or the remover x to r; the rest stays.
LEMMA AttemptStep ==
  ASSUME Typed, NEW d \in Docs, NEW a, JobTyped(a), attempt' = [attempt EXCEPT ![d] = a]
  PROVE  /\ attempt' \in [Docs -> AttemptStates]
         /\ \A e \in Docs : JobTyped(attempt'[e])
         /\ attempt'[d] = a /\ \A e \in Docs \ {d} : attempt'[e] = attempt[e]
  BY DEF Typed, JobTyped

LEMMA RemoverStep ==
  ASSUME Typed, NEW x \in Removers, NEW r, RemoverTyped(r),
         remover' = [remover EXCEPT ![x] = r]
  PROVE  /\ remover' \in [Removers -> RemoverStates]
         /\ \A y \in Removers : RemoverTyped(remover'[y])
         /\ remover'[x] = r /\ \A y \in Removers \ {x} : remover'[y] = remover[y]
  BY DEF Typed, RemoverTyped

LEMMA RestingTyped == RemoverTyped(Resting)
  BY DEF Resting, RemoverTyped, RemoverStates

\* A failed attempt leaves the job queued with attempts left, or dead.
LEMMA FailureTyped ==
  ASSUME Typed, NEW d \in Docs, NEW n \in 0..MaxAttempts, AfterFailure(d, n)
  PROVE  /\ attempt' \in [Docs -> AttemptStates]
         /\ \A e \in Docs : JobTyped(attempt'[e])
         /\ attempt'[d].phase \in {"pending", "dead"} /\ attempt'[d].output = NoKey
         /\ \A e \in Docs \ {d} : attempt'[e] = attempt[e]
  <1> DEFINE a == [phase |-> IF n < MaxAttempts THEN "pending" ELSE "dead",
                   tries |-> n, output |-> NoKey]
  <1>1. JobTyped(a) /\ a.phase \in {"pending", "dead"} /\ a.output = NoKey
    <2>1. CASE n < MaxAttempts
      BY <2>1 DEF JobTyped, AttemptStates, Phases
    <2>2. CASE ~(n < MaxAttempts)
      BY <2>2 DEF JobTyped, AttemptStates, Phases
    <2> QED BY <2>1, <2>2
  <1>2. attempt' = [attempt EXCEPT ![d] = a]
    BY DEF AfterFailure
  <1> HIDE DEF a
  <1> QED BY <1>1, <1>2, AttemptStep

LEMMA AnswerTyped ==
  ASSUME Typed, NEW d \in Docs, NEW e \in Docs, NEW how \in {"answered", "conceded"},
         Answer(d, e, how)
  PROVE  /\ submission' \in [Docs -> {"new", "checked", "stored", "answered",
                                    "conceded", "lost"}]
         /\ answer' \in [Docs -> SUBSET Docs]
         /\ \A f \in Docs : answer'[f] = {} \/ \E g \in Docs : answer'[f] = {g}
  BY DEF Typed, Answer

\* The rows a deletion looks at name keys.
LEMMA LoadTyped ==
  ASSUME Typed, NEW x \in Removers, NEW ds \in SUBSET Docs, Load(x, ds)
  PROVE  \E r : /\ RemoverTyped(r) /\ r.phase = "loaded" /\ r.keys = <<>>
               /\ remover' = [remover EXCEPT ![x] = r]
               /\ r.pairs = {[doc |-> d, source |-> Source[d], result |-> doc[d].result] :
                              d \in ds}
  <1> DEFINE ps == {[doc |-> d, source |-> Source[d], result |-> doc[d].result] : d \in ds}
             r == [phase |-> "loaded", keys |-> <<>>, pairs |-> ps]
  <1>1. ps \subseteq Pairs
    BY DEF Typed, DocStates, Pairs, Keys
  <1>2. RemoverTyped(r)
    BY <1>1 DEF RemoverTyped, RemoverStates
  <1>3. remover' = [remover EXCEPT ![x] = r]
    BY DEF Load
  <1> HIDE DEF ps
  <1>4. r.phase = "loaded" /\ r.keys = <<>> /\ r.pairs = ps
    OBVIOUS
  <1> HIDE DEF r
  <1> QED BY <1>2, <1>3, <1>4 DEF ps

\* The keys a pair leaves to delete, and what is left after one is deleted.
LEMMA CheckTyped ==
  ASSUME Typed, NEW x \in Removers, CheckInUse(x)
  PROVE  \E p \in remover[x].pairs : \E r :
           /\ p \in Pairs /\ remover[x].phase = "removing"
           /\ QuietStore => ~BeingPut(p.source) /\ ~BeingPut(p.result)
           /\ RemoverTyped(r) /\ remover' = [remover EXCEPT ![x] = r]
           /\ r.keys = Doomed(p) /\ r.pairs = remover[x].pairs \ {p}
           /\ r.phase \in {"idle", "removing", "deleting"}
  <1>0. remover[x].phase = "removing" /\ remover[x].pairs \subseteq Pairs
    BY DEF CheckInUse, Typed, RemoverStates
  <1>1. PICK p \in remover[x].pairs :
         /\ QuietStore => ~BeingPut(p.source) /\ ~BeingPut(p.result)
         /\ remover' = [remover EXCEPT ![x] =
              [phase |-> IF Doomed(p) # <<>> THEN "deleting"
                         ELSE IF remover[x].pairs = {p} THEN "idle"
                         ELSE "removing",
               pairs |-> remover[x].pairs \ {p}, keys |-> Doomed(p)]]
    BY DEF CheckInUse
  <1> DEFINE ph == IF Doomed(p) # <<>> THEN "deleting"
                   ELSE IF remover[x].pairs = {p} THEN "idle" ELSE "removing"
             r == [phase |-> ph, pairs |-> remover[x].pairs \ {p}, keys |-> Doomed(p)]
  <1>2. Doomed(p) \in Seq(Keys) /\ p \in Pairs
    BY <1>0, DoomedKeys
  <1>3. /\ ph \in {"idle", "removing", "deleting"}
        /\ ph = "deleting" <=> Doomed(p) # <<>>
        /\ ph = "idle" => remover[x].pairs = {p}
    OBVIOUS
  <1>4. remover' = [remover EXCEPT ![x] = r]
    BY <1>1, Zenon
  <1> HIDE DEF ph
  <1>5. RemoverTyped(r)
    BY <1>0, <1>2, <1>3 DEF RemoverTyped, RemoverStates
  <1>6. r.keys = Doomed(p) /\ r.pairs = remover[x].pairs \ {p} /\ r.phase = ph
    OBVIOUS
  <1> HIDE DEF r
  <1> QED BY <1>0, <1>1, <1>2, <1>3, <1>4, <1>5, <1>6

LEMMA DeleteTyped ==
  ASSUME Typed, NEW x \in Removers, DeleteObject(x)
  PROVE  \E r :
           /\ RemoverTyped(r) /\ remover' = [remover EXCEPT ![x] = r]
           /\ r.pairs = remover[x].pairs /\ r.keys \in Seq(Keys)
           /\ remover[x].phase = "deleting" /\ r.phase # "loaded"
           /\ Head(remover[x].keys) \in Keys
           /\ Range(remover[x].keys) = {Head(remover[x].keys)} \cup Range(r.keys)
           /\ r.pairs # {} \/ r.keys # <<>> => r.phase \in {"removing", "deleting"}
  <1>0. /\ remover[x].phase = "deleting" /\ remover[x].pairs \subseteq Pairs
        /\ remover[x].keys \in Seq(Keys) /\ remover[x].keys # <<>>
    BY DEF DeleteObject, Typed, RemoverStates, RemoverTyped
  <1> DEFINE ks == remover[x].keys
             ph == IF Len(ks) > 1 THEN "deleting"
                   ELSE IF remover[x].pairs = {} THEN "idle" ELSE "removing"
             r == [phase |-> ph, pairs |-> remover[x].pairs, keys |-> Tail(ks)]
  <1>1. /\ Head(ks) \in Keys /\ Tail(ks) \in Seq(Keys)
        /\ Len(ks) > 1 <=> Tail(ks) # <<>>
        /\ Range(ks) = {Head(ks)} \cup Range(Tail(ks))
    BY <1>0, HeadAndTail
  <1>2. remover' = [remover EXCEPT ![x] = r]
    BY Zenon DEF DeleteObject
  <1>3. /\ ph \in {"idle", "removing", "deleting"}
        /\ ph = "deleting" <=> Tail(ks) # <<>>
        /\ ph = "idle" => remover[x].pairs = {}
    BY <1>1
  <1> HIDE DEF ph
  <1>4. RemoverTyped(r)
    BY <1>0, <1>1, <1>3 DEF RemoverTyped, RemoverStates
  <1>5. r.keys = Tail(ks) /\ r.pairs = remover[x].pairs /\ r.phase = ph
    OBVIOUS
  <1> HIDE DEF r
  <1> QED BY <1>0, <1>1, <1>2, <1>3, <1>4, <1>5

\* A submission that is not settled yet has no row and no job.
Unsubmitted == \A d \in Docs :
    submission[d] \in {"new", "checked", "stored"} =>
      ~doc[d].exists /\ attempt[d].phase = "none"

LEMMA NextTyped == Typed /\ Unsubmitted /\ [Next]_vars => Typed'
  <1> SUFFICES ASSUME Typed, Unsubmitted, [Next]_vars PROVE Typed'
    OBVIOUS
  <1>0. /\ doc \in [Docs -> DocStates] /\ objects \in SUBSET Keys
        /\ \A d \in Docs : JobTyped(attempt[d])
        /\ \A d \in Docs : Source[d] \in Keys
        /\ Results \subseteq Keys
    BY DEF Typed, Keys
  <1>1. ASSUME NEW d \in Docs, SubmitCheck(d) PROVE Typed'
    <2>1. CASE \E e \in SameRequest(d) : Answer(d, e, "answered")
      BY <1>1, <2>1, AnswerTyped DEF SubmitCheck, SameRequest, Typed
    <2>2. CASE submission' = [submission EXCEPT ![d] = "checked"] /\ UNCHANGED answer
      BY <1>1, <2>2 DEF SubmitCheck, Typed
    <2> QED BY <1>1, <2>1, <2>2 DEF SubmitCheck
  <1>2. ASSUME NEW d \in Docs, SubmitPut(d) PROVE Typed'
    BY <1>0, <1>2 DEF SubmitPut, Put, Typed
  <1>3. ASSUME NEW d \in Docs, SubmitCommit(d) PROVE Typed'
    <2>1. CASE /\ doc' = [doc EXCEPT ![d] = [NoDoc EXCEPT !.exists = TRUE]]
               /\ attempt' = [attempt EXCEPT ![d].phase = "pending"]
               /\ Answer(d, d, "answered")
      <3>1. doc' \in [Docs -> DocStates]
        BY <1>0, <2>1 DEF DocStates, NoDoc
      <3> DEFINE a == [attempt[d] EXCEPT !.phase = "pending"]
      <3>2. JobTyped(a)
        BY <1>0, <1>3 DEF SubmitCommit, Unsubmitted, JobTyped, AttemptStates, Phases
      <3>3. attempt' = [attempt EXCEPT ![d] = a]
        BY <2>1
      <3> HIDE DEF a
      <3>4. /\ attempt' \in [Docs -> AttemptStates]
            /\ \A e \in Docs : JobTyped(attempt'[e])
        BY <3>2, <3>3, AttemptStep
      <3> QED BY <1>3, <2>1, <3>1, <3>4, AnswerTyped DEF SubmitCommit, Typed
    <2>2. CASE (\E e \in SameRequest(d) : Answer(d, e, "conceded"))
               /\ UNCHANGED <<doc, attempt>>
      BY <1>3, <2>2, AnswerTyped DEF SubmitCommit, SameRequest, Typed
    <2> QED BY <1>3, <2>1, <2>2 DEF SubmitCommit
  <1>4. ASSUME NEW d \in Docs, AttemptStart(d) PROVE Typed'
    <2>1. attempt[d].phase = "pending" /\ attempt[d].tries + 1 \in 0..MaxAttempts
      BY <1>0, <1>4, AttemptsAssumption DEF AttemptStart, JobTyped, AttemptStates
    <2>2. CASE attempt' = [attempt EXCEPT
               ![d] = [attempt[d] EXCEPT !.phase = "working", !.tries = @ + 1]]
      <3> DEFINE a == [attempt[d] EXCEPT !.phase = "working", !.tries = @ + 1]
      <3>1. JobTyped(a)
        BY <1>0, <2>1 DEF JobTyped, AttemptStates, Phases
      <3>2. attempt' = [attempt EXCEPT ![d] = a]
        BY <2>2
      <3> HIDE DEF a
      <3> QED BY <1>4, <3>1, <3>2, AttemptStep DEF AttemptStart, Typed
    <2>3. CASE AfterFailure(d, attempt[d].tries + 1)
      BY <1>4, <2>1, <2>3, FailureTyped DEF AttemptStart, Typed
    <2> QED BY <1>4, <2>2, <2>3 DEF AttemptStart
  <1>5. ASSUME NEW d \in Docs, Fetch(d) PROVE Typed'
    <2> DEFINE a == [attempt[d] EXCEPT !.phase = "fetched"]
    <2>1. JobTyped(a)
      BY <1>0 DEF JobTyped, AttemptStates, Phases
    <2>2. attempt' = [attempt EXCEPT ![d] = a]
      BY <1>5 DEF Fetch
    <2> HIDE DEF a
    <2> QED BY <1>5, <2>1, <2>2, AttemptStep DEF Fetch, Typed
  <1>6. ASSUME NEW d \in Docs, AttemptFails(d) PROVE Typed'
    <2>1. attempt[d].tries \in 0..MaxAttempts
      BY <1>0 DEF JobTyped, AttemptStates
    <2> QED BY <1>6, <2>1, FailureTyped DEF AttemptFails, Typed
  <1>7. ASSUME NEW d \in Docs, PutResult(d) PROVE Typed'
    <2>1. PICK k \in Results :
         /\ objects' = objects \cup {k}
         /\ attempt' = [attempt EXCEPT ![d] = [@ EXCEPT !.phase = "stored", !.output = k]]
      BY <1>7 DEF PutResult, Put
    <2> DEFINE a == [attempt[d] EXCEPT !.phase = "stored", !.output = k]
    <2>2. JobTyped(a)
      BY <1>0 DEF JobTyped, AttemptStates, Phases
    <2>3. attempt' = [attempt EXCEPT ![d] = a]
      BY <2>1
    <2>4. objects' \in SUBSET Keys
      BY <1>0, <2>1
    <2> HIDE DEF a
    <2> QED BY <1>7, <2>2, <2>3, <2>4, AttemptStep DEF PutResult, Typed
  <1>8. ASSUME NEW d \in Docs, Settle(d) PROVE Typed'
    <2> DEFINE a == [attempt[d] EXCEPT !.phase = "done", !.output = NoKey]
    <2>1. JobTyped(a)
      BY <1>0 DEF JobTyped, AttemptStates, Phases
    <2>2. attempt' = [attempt EXCEPT ![d] = a]
      BY <1>8 DEF Settle
    <2>3. doc' \in [Docs -> DocStates]
      <3>1. attempt[d].output \in Results
        BY <1>0, <1>8 DEF Settle, JobTyped
      <3> QED BY <1>0, <1>8, <3>1 DEF Settle, DocStates
    <2> HIDE DEF a
    <2> QED BY <1>8, <2>1, <2>2, <2>3, AttemptStep DEF Settle, Typed
  <1>9. ASSUME NEW d \in Docs, Expire(d) PROVE Typed'
    <2>1. doc' \in [Docs -> DocStates]
      BY <1>0, <1>9 DEF Expire, DocStates
    <2> QED BY <1>9, <2>1 DEF Expire, Typed
  <1>10. ASSUME NEW x \in Removers, NEW ds \in SUBSET Docs, Load(x, ds) PROVE Typed'
    <2>1. /\ remover' \in [Removers -> RemoverStates]
          /\ \A y \in Removers : RemoverTyped(remover'[y])
      BY <1>10, LoadTyped, RemoverStep
    <2> QED BY <1>10, <2>1 DEF Load, Typed
  <1>11. ASSUME NEW x \in Removers, Tombstone(x) PROVE Typed'
    <2> DEFINE r == [remover[x] EXCEPT !.phase = "removing"]
    <2>1. RemoverTyped(r)
      BY <1>11 DEF Tombstone, Typed, RemoverTyped, RemoverStates
    <2>2. remover' = [remover EXCEPT ![x] = r]
      BY <1>11 DEF Tombstone
    <2>3. doc' \in [Docs -> DocStates]
      <3>1. \A d \in Docs : doc[d] \in DocStates
                          /\ [doc[d] EXCEPT !.deleted = TRUE] \in DocStates
        BY <1>0 DEF DocStates
      <3> QED BY <1>11, <3>1 DEF Tombstone
    <2> HIDE DEF r
    <2> QED BY <1>11, <2>1, <2>2, <2>3, RemoverStep DEF Tombstone, Typed
  <1>12. ASSUME NEW x \in Removers, CheckInUse(x) PROVE Typed'
    <2>1. \E r : RemoverTyped(r) /\ remover' = [remover EXCEPT ![x] = r]
      BY <1>12, CheckTyped
    <2> QED BY <1>12, <2>1, RemoverStep DEF CheckInUse, Typed
  <1>13. ASSUME NEW x \in Removers, DeleteObject(x) PROVE Typed'
    <2>1. \E r : RemoverTyped(r) /\ remover' = [remover EXCEPT ![x] = r]
      BY <1>13, DeleteTyped
    <2>2. objects' \in SUBSET Keys
      BY <1>0, <1>13 DEF DeleteObject
    <2> QED BY <1>13, <2>1, <2>2, RemoverStep DEF DeleteObject, Typed
  <1>14. ASSUME NEW c \in Readers, ReadRow(c) \/ ReadObject(c) PROVE Typed'
    <2>1. reader' \in [Readers -> SUBSET [doc : Docs, key : Results]]
      <3>1. CASE ReadRow(c)
        <4>1. PICK d \in Docs :
                /\ doc[d].result # NoKey
                /\ reader' = [reader EXCEPT ![c] = {[doc |-> d, key |-> doc[d].result]}]
          BY <3>1 DEF ReadRow
        <4>2. doc[d].result \in Results
          BY <1>0, <4>1 DEF DocStates
        <4> QED BY <4>1, <4>2 DEF Typed
      <3>2. CASE ReadObject(c)
        BY <3>2 DEF ReadObject, Typed
      <3> QED BY <1>14, <3>1, <3>2
    <2> QED BY <1>14, <2>1 DEF ReadRow, ReadObject, Typed
  <1>15. ASSUME Crash PROVE Typed'
    <2>0. crashes' \in 0..MaxCrashes /\ UNCHANGED <<doc, answer, objects, reader>>
      BY <1>15, BudgetAssumption DEF Crash, Typed
    <2>1. ASSUME NEW d \in Docs, submission' = [submission EXCEPT ![d] = "lost"],
                 UNCHANGED <<attempt, remover>>
          PROVE  Typed'
      BY <2>0, <2>1 DEF Typed
    <2>2. ASSUME NEW d \in Docs, AfterFailure(d, attempt[d].tries),
                 UNCHANGED <<submission, remover>>
          PROVE  Typed'
      <3>1. attempt[d].tries \in 0..MaxAttempts
        BY <1>0 DEF JobTyped, AttemptStates
      <3> QED BY <2>0, <2>2, <3>1, FailureTyped DEF Typed
    <2>3. ASSUME NEW x \in Removers, remover' = [remover EXCEPT ![x] = Resting],
                 UNCHANGED <<submission, attempt>>
          PROVE  Typed'
      BY <2>0, <2>3, RestingTyped, RemoverStep DEF Typed
    <2> QED BY <1>15, <2>1, <2>2, <2>3 DEF Crash
  <1>16. CASE UNCHANGED vars
    BY <1>16 DEF vars, Typed
  <1>17. ASSUME NEW x \in Removers, LoadForDelete(x) \/ LoadForPurge(x)
         PROVE  \E ds \in SUBSET Docs : Load(x, ds)
    BY <1>17 DEF LoadForDelete, LoadForPurge, Overdue
  <1> QED
    BY <1>1, <1>2, <1>3, <1>4, <1>5, <1>6, <1>7, <1>8, <1>9, <1>10, <1>11, <1>12,
       <1>13, <1>14, <1>15, <1>16, <1>17
    DEF Next, Submitting, Processing, Removing

LEMMA InitUnsubmitted == Init => Unsubmitted
  BY DEF Init, Unsubmitted, NoDoc

LEMMA NextUnsubmitted == Typed /\ Unsubmitted /\ [Next]_vars => Unsubmitted'
  <1> SUFFICES ASSUME Typed, Unsubmitted, [Next]_vars PROVE Unsubmitted'
    OBVIOUS
  <1>0. /\ doc \in [Docs -> DocStates] /\ attempt \in [Docs -> AttemptStates]
        /\ submission \in [Docs -> {"new", "checked", "stored", "answered",
                                    "conceded", "lost"}]
    BY DEF Typed
  <1> DEFINE Early(d) == submission[d] \in {"new", "checked", "stored"}
             Nothing(d) == ~doc[d].exists /\ attempt[d].phase = "none"
  <1>1. ASSUME \A d \in Docs : Early(d)' => Early(d) /\ (Nothing(d) => Nothing(d)')
        PROVE  Unsubmitted'
    BY <1>1 DEF Unsubmitted
  <1>2. ASSUME NEW d \in Docs, Submitting(d) PROVE Unsubmitted'
    <2>1. CASE SubmitCommit(d) /\ ~UNCHANGED <<doc, attempt>>
      BY <1>0, <1>1, <2>1 DEF SubmitCommit, Answer
    <2>2. CASE UNCHANGED <<doc, attempt>>
      BY <1>0, <1>1, <1>2, <2>2 DEF Submitting, SubmitCheck, SubmitPut, SubmitCommit, Answer
    <2> QED BY <1>2, <2>1, <2>2 DEF Submitting, SubmitCheck, SubmitPut
  <1>3. ASSUME NEW d \in Docs, attempt[d].phase # "none",
               \A e \in Docs \ {d} : attempt'[e] = attempt[e],
               \A e \in Docs : doc'[e].exists = doc[e].exists,
               UNCHANGED submission
        PROVE  Unsubmitted'
    BY <1>0, <1>3 DEF Unsubmitted
  <1>4. ASSUME NEW d \in Docs, Processing(d) PROVE Unsubmitted'
    <2>1. attempt[d].phase # "none" /\ UNCHANGED submission
      BY <1>4 DEF Processing, AttemptStart, Fetch, AttemptFails, PutResult, Settle
    <2>2. \A e \in Docs \ {d} : attempt'[e] = attempt[e]
      BY <1>4 DEF Processing, AttemptStart, Fetch, AttemptFails, PutResult, Settle,
                  AfterFailure, Typed
    <2>3. \A e \in Docs : doc'[e].exists = doc[e].exists
      <3>1. CASE Settle(d)
        BY <1>0, <3>1 DEF Settle, DocStates
      <3>2. CASE UNCHANGED doc
        BY <3>2
      <3> QED BY <1>4, <3>1, <3>2 DEF Processing, AttemptStart, Fetch, AttemptFails, PutResult
    <2> QED BY <1>3, <2>1, <2>2, <2>3
  <1>5. ASSUME NEW d \in Docs, Expire(d) PROVE Unsubmitted'
    BY <1>0, <1>5 DEF Expire, DocStates, Unsubmitted
  <1>6. ASSUME NEW x \in Removers, Tombstone(x) PROVE Unsubmitted'
    BY <1>0, <1>6 DEF Tombstone, DocStates, Unsubmitted
  <1>7. CASE UNCHANGED <<doc, submission, attempt>>
    BY <1>7 DEF Unsubmitted
  <1>8. ASSUME Crash PROVE Unsubmitted'
    <2>1. UNCHANGED doc
      BY <1>8 DEF Crash
    <2>2. ASSUME NEW d \in Docs, submission' = [submission EXCEPT ![d] = "lost"],
                 UNCHANGED attempt
          PROVE  Unsubmitted'
      BY <1>0, <2>1, <2>2 DEF Unsubmitted
    <2>3. ASSUME NEW d \in Docs, AtWork(d), AfterFailure(d, attempt[d].tries),
                 UNCHANGED submission
          PROVE  Unsubmitted'
      BY <1>0, <1>3, <2>1, <2>3 DEF AfterFailure, AtWork
    <2> QED BY <1>7, <1>8, <2>1, <2>2, <2>3 DEF Crash
  <1> QED
    BY <1>2, <1>4, <1>5, <1>6, <1>7, <1>8
    DEF Next, Removing, CheckInUse, DeleteObject, LoadForDelete, LoadForPurge, Load,
        ReadRow, ReadObject, vars

LEMMA AlwaysTyped == Spec => [](Typed /\ Unsubmitted)
  BY InitTyped, NextTyped, InitUnsubmitted, NextUnsubmitted, PTL DEF Spec

\* Every variable keeps to its type, whatever overlaps and whatever crashes.
THEOREM TypeCorrect == Spec => []TypeOK
  BY AlwaysTyped, TypedTypeOK, PTL

-----------------------------------------------------------------------------
(***************************************************************************)
(* What a step can do to the row of a document, and to the submissions and *)
(* jobs that put objects.  The invariants below follow from these.         *)
(***************************************************************************)
LEMMA RowSteps ==
  ASSUME Typed, [Next]_vars, NEW d \in Docs
  PROVE  \/ doc'[d] = doc[d]
         \/ /\ SubmitCommit(d) /\ submission[d] = "stored" /\ ~Taken(d)
            /\ answer' = [answer EXCEPT ![d] = {d}]
            /\ doc'[d] = [NoDoc EXCEPT !.exists = TRUE]
         \/ /\ Settle(d) /\ attempt[d].phase = "stored"
            /\ doc'[d] = [doc[d] EXCEPT !.result = attempt[d].output]
         \/ Expire(d) /\ doc'[d] = [doc[d] EXCEPT !.due = TRUE]
         \/ \E x \in Removers :
              /\ Tombstone(x) /\ d \in {p.doc : p \in remover[x].pairs}
              /\ doc'[d] = [doc[d] EXCEPT !.deleted = TRUE]
  <1>0. doc \in [Docs -> DocStates]
    BY DEF Typed
  <1>1. ASSUME NEW e \in Docs, SubmitCommit(e), ~UNCHANGED doc
        PROVE  \/ doc'[d] = doc[d]
               \/ /\ e = d /\ submission[d] = "stored" /\ ~Taken(d)
                  /\ answer' = [answer EXCEPT ![d] = {d}]
                  /\ doc'[d] = [NoDoc EXCEPT !.exists = TRUE]
    BY <1>0, <1>1 DEF SubmitCommit, Answer
  <1>2. ASSUME NEW e \in Docs, Settle(e)
        PROVE  \/ doc'[d] = doc[d]
               \/ /\ e = d /\ attempt[d].phase = "stored"
                  /\ doc'[d] = [doc[d] EXCEPT !.result = attempt[d].output]
    BY <1>0, <1>2 DEF Settle
  <1>3. ASSUME NEW e \in Docs, Expire(e)
        PROVE  doc'[d] = doc[d] \/ (e = d /\ doc'[d] = [doc[d] EXCEPT !.due = TRUE])
    BY <1>0, <1>3 DEF Expire
  <1>4. ASSUME NEW x \in Removers, Tombstone(x)
        PROVE  \/ doc'[d] = doc[d]
               \/ /\ d \in {p.doc : p \in remover[x].pairs}
                  /\ doc'[d] = [doc[d] EXCEPT !.deleted = TRUE]
    BY <1>4, Zenon DEF Tombstone
  <1> QED
    BY <1>1, <1>2, <1>3, <1>4
    DEF Next, Submitting, SubmitCheck, SubmitPut, Processing, AttemptStart, Fetch,
        AttemptFails, PutResult, Removing, CheckInUse, DeleteObject, LoadForDelete,
        LoadForPurge, Load, ReadRow, ReadObject, Crash, vars

\* A row comes from a submission, and its result from a settled attempt.
LEMMA FieldSteps ==
  ASSUME Typed, [Next]_vars, NEW d \in Docs
  PROVE  /\ doc'[d].exists = doc[d].exists \/ (SubmitCommit(d) /\ ~Taken(d))
         /\ doc'[d].result = doc[d].result \/ doc'[d].result = NoKey \/ Settle(d)
  <1>0. doc[d] \in DocStates
    BY DEF Typed
  <1>1. CASE doc'[d] = doc[d]
    BY <1>1
  <1>2. CASE SubmitCommit(d) /\ ~Taken(d) /\ doc'[d] = [NoDoc EXCEPT !.exists = TRUE]
    BY <1>2 DEF NoDoc
  <1>3. CASE Settle(d) /\ doc'[d] = [doc[d] EXCEPT !.result = attempt[d].output]
    BY <1>0, <1>3 DEF DocStates
  <1>4. CASE \/ doc'[d] = [doc[d] EXCEPT !.due = TRUE]
             \/ doc'[d] = [doc[d] EXCEPT !.deleted = TRUE]
    BY <1>0, <1>4 DEF DocStates
  <1> QED BY <1>1, <1>2, <1>3, <1>4, RowSteps

\* Rows are never removed, and a tombstone is never lifted.
LEMMA RowsStay ==
  ASSUME Typed, Unsubmitted, [Next]_vars, NEW d \in Docs, doc[d].exists
  PROVE  /\ doc'[d].exists
         /\ doc[d].deleted => doc'[d].deleted
         /\ doc'[d].result = doc[d].result \/ Settle(d)
         /\ doc'[d].deleted = doc[d].deleted \/ \E x \in Removers :
               Tombstone(x) /\ d \in {p.doc : p \in remover[x].pairs}
  <1>1. doc[d] \in DocStates
    BY DEF Typed
  <1>2. submission[d] # "stored"
    BY DEF Unsubmitted
  <1> QED BY <1>1, <1>2, RowSteps DEF DocStates

\* What a step can do to the job of a document.
LEMMA JobSteps ==
  ASSUME Typed, Unsubmitted, [Next]_vars, NEW d \in Docs
  PROVE  \/ attempt'[d] = attempt[d]
         \/ /\ attempt'[d].phase \in {"pending", "dead"} /\ attempt[d].phase # "done"
            /\ attempt[d].phase = "stored" => crashes' = crashes + 1
         \/ AttemptStart(d) /\ Live(d) /\ attempt'[d].phase = "working"
         \/ Fetch(d) /\ attempt[d].phase = "working" /\ attempt'[d].phase = "fetched"
         \/ PutResult(d) /\ attempt[d].phase = "fetched" /\ attempt'[d].phase = "stored"
         \/ Settle(d) /\ attempt[d].phase = "stored" /\ attempt'[d].phase = "done"
  <1>0. attempt \in [Docs -> AttemptStates]
    BY DEF Typed
  <1> DEFINE Stopped == /\ attempt'[d].phase \in {"pending", "dead"}
                        /\ attempt[d].phase # "done"
                        /\ attempt[d].phase = "stored" => crashes' = crashes + 1
  <1>1. ASSUME NEW e \in Docs, SubmitCommit(e) PROVE attempt'[d] = attempt[d] \/ Stopped
    <2>1. \/ UNCHANGED attempt
          \/ attempt' = [attempt EXCEPT ![e].phase = "pending"]
      BY <1>1 DEF SubmitCommit
    <2>2. attempt[e].phase = "none"
      BY <1>1 DEF SubmitCommit, Unsubmitted
    <2> QED BY <1>0, <2>1, <2>2 DEF AttemptStates
  <1>2. ASSUME NEW e \in Docs, NEW n, AfterFailure(e, n), attempt[e].phase # "done",
               attempt[e].phase = "stored" => crashes' = crashes + 1
        PROVE  attempt'[d] = attempt[d] \/ Stopped
    <2>1. e # d => attempt'[d] = attempt[d]
      BY <1>0, <1>2 DEF AfterFailure
    <2>2. attempt'[e].phase \in {"pending", "dead"}
      BY <1>0, <1>2 DEF AfterFailure
    <2> QED BY <1>2, <2>1, <2>2
  <1>3. ASSUME NEW e \in Docs, AttemptStart(e)
        PROVE  \/ attempt'[d] = attempt[d] \/ Stopped
               \/ e = d /\ Live(d) /\ attempt'[d].phase = "working"
    <2>1. CASE Live(e)
      BY <1>0, <1>3, <2>1 DEF AttemptStart, AttemptStates
    <2>2. CASE AfterFailure(e, attempt[e].tries + 1)
      BY <1>2, <1>3, <2>2 DEF AttemptStart
    <2> QED BY <1>3, <2>1, <2>2 DEF AttemptStart
  <1>4. ASSUME NEW e \in Docs, Fetch(e)
        PROVE  \/ attempt'[d] = attempt[d]
               \/ e = d /\ attempt[d].phase = "working" /\ attempt'[d].phase = "fetched"
    BY <1>0, <1>4 DEF Fetch, AttemptStates
  <1>5. ASSUME NEW e \in Docs, AttemptFails(e) PROVE attempt'[d] = attempt[d] \/ Stopped
    BY <1>2, <1>5 DEF AttemptFails
  <1>6. ASSUME NEW e \in Docs, PutResult(e)
        PROVE  \/ attempt'[d] = attempt[d]
               \/ e = d /\ attempt[d].phase = "fetched" /\ attempt'[d].phase = "stored"
    BY <1>0, <1>6 DEF PutResult, AttemptStates
  <1>7. ASSUME NEW e \in Docs, Settle(e)
        PROVE  \/ attempt'[d] = attempt[d]
               \/ e = d /\ attempt[d].phase = "stored" /\ attempt'[d].phase = "done"
    BY <1>0, <1>7 DEF Settle, AttemptStates
  <1>8. ASSUME Crash PROVE attempt'[d] = attempt[d] \/ Stopped
    BY <1>2, <1>8 DEF Crash, AtWork
  <1> QED
    BY <1>1, <1>3, <1>4, <1>5, <1>6, <1>7, <1>8
    DEF Next, Submitting, SubmitCheck, SubmitPut, Processing, Expire, Removing,
        Tombstone, CheckInUse, DeleteObject, LoadForDelete, LoadForPurge, Load,
        ReadRow, ReadObject, vars

\* An answer changes only when the request it belongs to is answered.
LEMMA AnswerSteps ==
  ASSUME Typed, [Next]_vars, NEW d \in Docs, answer'[d] # answer[d]
  PROVE  \/ \E e \in SameRequest(d) : answer'[d] = {e} /\ UNCHANGED doc
         \/ SubmitCommit(d) /\ ~Taken(d) /\ answer'[d] = {d}
  <1>0. answer \in [Docs -> SUBSET Docs]
    BY DEF Typed
  <1>1. ASSUME NEW e \in Docs, SubmitCheck(e) \/ SubmitCommit(e)
        PROVE  \/ \E f \in SameRequest(d) : answer'[d] = {f} /\ UNCHANGED doc
               \/ SubmitCommit(d) /\ ~Taken(d) /\ answer'[d] = {d}
    BY <1>0, <1>1 DEF SubmitCheck, SubmitCommit, Answer, SameRequest
  <1> QED
    BY <1>1
    DEF Next, Submitting, SubmitPut, Processing, AttemptStart, Fetch,
        AttemptFails, PutResult, Settle, Expire, Removing, Tombstone, CheckInUse,
        DeleteObject, LoadForDelete, LoadForPurge, Load, ReadRow, ReadObject, Crash, vars

-----------------------------------------------------------------------------
(***************************************************************************)
(* One document for one idempotency key.                                   *)
(***************************************************************************)
OneDocPerKey ==
    /\ \A d, e \in Docs : doc[d].exists /\ e \in SameRequest(d) => d = e
    /\ \A d \in Docs : Idem[d] # NoIdem => answer[d] \subseteq SameRequest(d)

LEMMA NextOneDocPerKey ==
  Typed /\ Unsubmitted /\ OneDocPerKey /\ [Next]_vars => OneDocPerKey'
  <1> SUFFICES ASSUME Typed, Unsubmitted, OneDocPerKey, [Next]_vars PROVE OneDocPerKey'
    OBVIOUS
  <1>1. \A d \in Docs : SameRequest(d) \subseteq SameRequest(d)'
    BY RowsStay DEF SameRequest
  <1>2. ASSUME NEW d \in Docs, doc'[d].exists, ~doc[d].exists
        PROVE  /\ SubmitCommit(d) /\ SameRequest(d) = {}
               /\ \A e \in Docs \ {d} : doc'[e] = doc[e]
    <2>1. SubmitCommit(d) /\ ~Taken(d)
      BY <1>2, FieldSteps
    <2>2. doc' = [doc EXCEPT ![d] = [NoDoc EXCEPT !.exists = TRUE]]
      BY <2>1 DEF SubmitCommit
    <2> QED BY <2>1, <2>2 DEF Taken, Typed
  <1>3. ASSUME NEW d \in Docs, NEW e \in Docs, doc'[d].exists, e \in SameRequest(d)'
        PROVE  d = e
    <2>1. doc'[e].exists /\ Idem[d] # NoIdem /\ Idem[e] = Idem[d]
      BY <1>3 DEF SameRequest
    <2>2. CASE doc[d].exists /\ doc[e].exists
      BY <2>1, <2>2 DEF OneDocPerKey, SameRequest
    <2>3. CASE ~doc[d].exists
      <3>1. SameRequest(d) = {} /\ \A f \in Docs \ {d} : doc'[f] = doc[f]
        BY <1>2, <1>3, <2>3
      <3> QED BY <2>1, <3>1 DEF SameRequest
    <2>4. CASE ~doc[e].exists
      <3>1. SameRequest(e) = {} /\ \A f \in Docs \ {e} : doc'[f] = doc[f]
        BY <1>2, <2>1, <2>4
      <3> QED BY <1>3, <2>1, <3>1 DEF SameRequest
    <2> QED BY <2>2, <2>3, <2>4
  <1>4. ASSUME NEW d \in Docs, Idem[d] # NoIdem
        PROVE  answer'[d] \subseteq SameRequest(d)'
    <2>1. CASE answer'[d] = answer[d]
      BY <1>1, <1>4, <2>1 DEF OneDocPerKey
    <2>2. CASE \E e \in SameRequest(d) : answer'[d] = {e} /\ UNCHANGED doc
      BY <2>2 DEF SameRequest
    <2>3. CASE SubmitCommit(d) /\ ~Taken(d) /\ answer'[d] = {d}
      <3>1. doc'[d].exists
        BY <2>3 DEF SubmitCommit, Typed, NoDoc, DocStates
      <3> QED BY <1>4, <2>3, <3>1 DEF SameRequest
    <2> QED BY <2>1, <2>2, <2>3, AnswerSteps
  <1> QED BY <1>3, <1>4 DEF OneDocPerKey

\* Requests with one idempotency key are answered with one document, however
\* they race between the lookup and the insert and whatever crashes.
THEOREM AnswersAgree == Spec => []OneAnswerPerKey
  <1>1. Init => OneDocPerKey
    BY DEF Init, OneDocPerKey, SameRequest, NoDoc
  <1>2. Typed /\ OneDocPerKey => OneAnswerPerKey
    <2> SUFFICES ASSUME Typed, OneDocPerKey, NEW d \in Docs, NEW e \in Docs,
                        Idem[d] # NoIdem, Idem[d] = Idem[e],
                        NEW f \in answer[d], NEW g \in answer[e]
                 PROVE  answer[d] = answer[e]
      BY DEF OneAnswerPerKey
    <2>1. f \in SameRequest(d) /\ g \in SameRequest(e)
      BY DEF OneDocPerKey
    <2>2. f = g
      BY <2>1 DEF OneDocPerKey, SameRequest
    <2>3. answer[d] = {f} /\ answer[e] = {g}
      BY DEF Typed
    <2> QED BY <2>2, <2>3
  <1> QED BY AlwaysTyped, NextOneDocPerKey, <1>1, <1>2, PTL DEF Spec

-----------------------------------------------------------------------------
(***************************************************************************)
(* Objects and the rows that name them.  Under QuietStore a key that is    *)
(* being put is there and stays there, and a key that is being deleted is  *)
(* nobody's.                                                               *)
(***************************************************************************)
PutsKept == \A k \in Keys : BeingPut(k) => k \in objects

DeletionsFree == \A k \in Keys : BeingDeleted(k) => ~InUse(k) /\ ~BeingPut(k)

Kept == LiveObjectsPresent /\ PutsKept /\ DeletionsFree

\* The three facts after a step, from what the step does to the keys in use,
\* being put, being deleted and present.
LEMMA KeptStep ==
  ASSUME Typed, Typed', Kept,
         \A k \in Keys : InUse(k)' => InUse(k) \/ BeingPut(k),
         \A k \in Keys : BeingPut(k)' =>
            BeingPut(k) \/ (k \in objects' /\ ~BeingDeleted(k)'),
         \A k \in Keys : BeingDeleted(k)' =>
            BeingDeleted(k) \/ (~InUse(k)' /\ ~BeingPut(k)'),
         \A k \in objects : k \in objects' \/ BeingDeleted(k)
  PROVE  Kept'
  <1>1. \A d \in Docs : Source[d] \in Keys /\ doc[d].result \in Keys \cup {NoKey}
                       /\ doc'[d].result \in Keys \cup {NoKey}
    BY DEF Typed, DocStates, Keys
  <1>2. \A k \in Keys : InUse(k) => k \in objects
    BY NoKeyApart DEF Kept, LiveObjectsPresent, InUse
  <1>3. \A k \in Keys : InUse(k)' => k \in objects'
    BY <1>2 DEF Kept, PutsKept, DeletionsFree
  <1>4. LiveObjectsPresent'
    BY <1>1, <1>3 DEF LiveObjectsPresent, InUse
  <1>5. PutsKept'
    BY DEF Kept, PutsKept, DeletionsFree
  <1>6. DeletionsFree'
    BY DEF Kept, DeletionsFree
  <1> QED BY <1>4, <1>5, <1>6 DEF Kept

LEMMA InitKept == Init => Kept
  BY DEF Init, Kept, LiveObjectsPresent, PutsKept, DeletionsFree, Live, NoDoc, BeingPut,
         BeingDeleted, InUse, Resting, Range

\* A key comes into use by a commit of somebody who has put it.
LEMMA UseSteps ==
  ASSUME Typed, [Next]_vars, NEW k \in Keys, InUse(k)'
  PROVE  InUse(k) \/ BeingPut(k)
  <1>1. PICK d \in Docs : /\ doc'[d].exists /\ ~doc'[d].deleted
                          /\ k \in {Source[d], doc'[d].result}
    BY DEF InUse, Live
  <1>2. doc[d] \in DocStates /\ k # NoKey
    BY NoKeyApart DEF Typed
  <1>3. CASE doc'[d] = doc[d] \/ doc'[d] = [doc[d] EXCEPT !.due = TRUE]
    BY <1>1, <1>2, <1>3 DEF InUse, Live, DocStates
  <1>4. CASE submission[d] = "stored" /\ doc'[d] = [NoDoc EXCEPT !.exists = TRUE]
    BY <1>1, <1>2, <1>4 DEF NoDoc, BeingPut
  <1>5. CASE /\ attempt[d].phase = "stored"
             /\ doc'[d] = [doc[d] EXCEPT !.result = attempt[d].output]
    BY <1>1, <1>2, <1>5 DEF InUse, Live, BeingPut, DocStates
  <1>6. CASE doc'[d] = [doc[d] EXCEPT !.deleted = TRUE]
    BY <1>1, <1>2, <1>6 DEF DocStates
  <1> QED BY <1>3, <1>4, <1>5, <1>6, RowSteps

\* What a step can do to a submission that is about to commit.
LEMMA SubmissionSteps ==
  ASSUME Typed, [Next]_vars, NEW d \in Docs
  PROVE  \/ submission'[d] = submission[d]
         \/ /\ submission[d] \in {"new", "checked"}
            /\ submission'[d] \in {"answered", "checked", "lost"}
         \/ SubmitPut(d) /\ submission[d] # "stored" /\ submission'[d] = "stored"
         \/ SubmitCommit(d) /\ ~Taken(d) /\ submission'[d] = "answered"
         \/ SubmitCommit(d) /\ submission'[d] = "conceded"
         \/ crashes' = crashes + 1 /\ submission'[d] = "lost"
  <1>0. DOMAIN submission = Docs
    BY DEF Typed
  <1>1. ASSUME NEW e \in Docs, Submitting(e)
        PROVE  \/ submission'[d] = submission[d]
               \/ submission[d] = "new" /\ submission'[d] \in {"answered", "checked"}
               \/ SubmitPut(d) /\ submission[d] # "stored" /\ submission'[d] = "stored"
               \/ SubmitCommit(d) /\ ~Taken(d) /\ submission'[d] = "answered"
               \/ SubmitCommit(d) /\ submission'[d] = "conceded"
    BY <1>0, <1>1 DEF Submitting, SubmitCheck, SubmitPut, SubmitCommit, Answer
  <1>2. ASSUME Crash
        PROVE  \/ submission'[d] = submission[d]
               \/ crashes' = crashes + 1 /\ submission'[d] = "lost"
    BY <1>0, <1>2 DEF Crash
  <1> QED
    BY <1>1, <1>2
    DEF Next, Processing, AttemptStart, Fetch, AttemptFails, PutResult, Settle, Expire,
        Removing, Tombstone, CheckInUse, DeleteObject, LoadForDelete, LoadForPurge, Load,
        ReadRow, ReadObject, vars

\* A key is being put from its PUT on.
LEMMA PutSteps ==
  ASSUME Typed, Unsubmitted, [Next]_vars, NEW k \in Keys, BeingPut(k)', ~BeingPut(k)
  PROVE  Put(k) /\ UNCHANGED remover
  <1>1. PICK d \in Docs : \/ submission'[d] = "stored" /\ Source[d] = k
                          \/ attempt'[d].phase = "stored" /\ attempt'[d].output = k
    BY DEF BeingPut
  <1>2. CASE submission'[d] = "stored" /\ Source[d] = k
    <2>1. submission[d] # "stored"
      BY <1>2 DEF BeingPut
    <2>2. SubmitPut(d)
      BY <1>2, <2>1, SubmissionSteps
    <2> QED BY <1>2, <2>2 DEF SubmitPut
  <1>3. CASE attempt'[d].phase = "stored" /\ attempt'[d].output = k
    <2>1. attempt'[d] # attempt[d]
      BY <1>3 DEF BeingPut
    <2>2. PutResult(d)
      BY <1>3, <2>1, JobSteps
    <2>3. PICK j \in Results : /\ Put(j)
                               /\ attempt' = [attempt EXCEPT ![d] =
                                    [@ EXCEPT !.phase = "stored", !.output = j]]
      BY <2>2 DEF PutResult
    <2>4. attempt'[d].output = j
      BY <2>3 DEF Typed, AttemptStates
    <2> QED BY <1>3, <2>2, <2>3, <2>4 DEF PutResult
  <1> QED BY <1>1, <1>2, <1>3

\* What a step can do to a deletion.
LEMMA RemoverSteps ==
  ASSUME Typed, [Next]_vars, NEW x \in Removers
  PROVE  \/ remover'[x] = remover[x]
         \/ \E ds \in SUBSET Docs :
              /\ Load(x, ds) /\ \A d \in ds : Live(d)
              /\ remover'[x].phase = "loaded" /\ remover'[x].keys = <<>>
              /\ remover'[x].pairs =
                   {[doc |-> d, source |-> Source[d], result |-> doc[d].result] : d \in ds}
         \/ /\ Tombstone(x) /\ remover'[x].phase = "removing"
            /\ remover'[x].keys = remover[x].keys /\ remover'[x].pairs = remover[x].pairs
         \/ \E p \in remover[x].pairs :
              /\ CheckInUse(x) /\ p \in Pairs /\ remover[x].phase = "removing"
              /\ QuietStore => ~BeingPut(p.source) /\ ~BeingPut(p.result)
              /\ remover'[x].phase \in {"idle", "removing", "deleting"}
              /\ remover'[x].keys = Doomed(p) /\ remover'[x].pairs = remover[x].pairs \ {p}
         \/ /\ DeleteObject(x) /\ remover[x].phase = "deleting"
            /\ remover'[x].phase # "loaded" /\ remover'[x].pairs = remover[x].pairs
            /\ Range(remover[x].keys) =
                 {Head(remover[x].keys)} \cup Range(remover'[x].keys)
         \/ crashes' = crashes + 1 /\ remover'[x] = Resting
  <1>0. remover \in [Removers -> RemoverStates]
    BY DEF Typed
  <1>1. ASSUME NEW y \in Removers, NEW ds \in SUBSET Docs, Load(y, ds)
        PROVE  \/ remover'[x] = remover[x]
               \/ /\ y = x /\ remover'[x].phase = "loaded" /\ remover'[x].keys = <<>>
                  /\ remover'[x].pairs =
                       {[doc |-> d, source |-> Source[d], result |-> doc[d].result] :
                        d \in ds}
    BY <1>0, <1>1, LoadTyped, RemoverStep
  <1>2. ASSUME NEW y \in Removers, Tombstone(y)
        PROVE  \/ remover'[x] = remover[x]
               \/ /\ y = x /\ remover'[x].phase = "removing"
                  /\ remover'[x].keys = remover[x].keys
                  /\ remover'[x].pairs = remover[x].pairs
    BY <1>0, <1>2 DEF Tombstone, RemoverStates
  <1>3. ASSUME NEW y \in Removers, CheckInUse(y)
        PROVE  \/ remover'[x] = remover[x]
               \/ y = x /\ \E p \in remover[x].pairs :
                    /\ p \in Pairs /\ remover[x].phase = "removing"
                    /\ QuietStore => ~BeingPut(p.source) /\ ~BeingPut(p.result)
                    /\ remover'[x].phase \in {"idle", "removing", "deleting"}
                    /\ remover'[x].keys = Doomed(p)
                    /\ remover'[x].pairs = remover[x].pairs \ {p}
    <2>1. PICK p \in remover[y].pairs : \E r :
           /\ p \in Pairs /\ remover[y].phase = "removing"
           /\ QuietStore => ~BeingPut(p.source) /\ ~BeingPut(p.result)
           /\ RemoverTyped(r) /\ remover' = [remover EXCEPT ![y] = r]
           /\ r.keys = Doomed(p) /\ r.pairs = remover[y].pairs \ {p}
           /\ r.phase \in {"idle", "removing", "deleting"}
      BY <1>3, CheckTyped
    <2>2. CASE x = y
      BY <1>0, <2>1, <2>2
    <2>3. CASE x # y
      BY <1>0, <2>1, <2>3
    <2> QED BY <2>2, <2>3
  <1>4. ASSUME NEW y \in Removers, DeleteObject(y)
        PROVE  \/ remover'[x] = remover[x]
               \/ /\ y = x /\ remover[x].phase = "deleting"
                  /\ remover'[x].phase # "loaded" /\ remover'[x].pairs = remover[x].pairs
                  /\ Range(remover[x].keys) =
                       {Head(remover[x].keys)} \cup Range(remover'[x].keys)
    <2>1. PICK r :
           /\ RemoverTyped(r) /\ remover' = [remover EXCEPT ![y] = r]
           /\ r.pairs = remover[y].pairs
           /\ remover[y].phase = "deleting" /\ r.phase # "loaded"
           /\ Range(remover[y].keys) = {Head(remover[y].keys)} \cup Range(r.keys)
      BY <1>4, DeleteTyped
    <2> QED BY <1>0, <2>1
  <1>5. ASSUME Crash
        PROVE  remover'[x] = remover[x] \/ (crashes' = crashes + 1 /\ remover'[x] = Resting)
    BY <1>0, <1>5 DEF Crash
  <1>6. ASSUME NEW y \in Removers, LoadForDelete(y) \/ LoadForPurge(y)
        PROVE  \E ds \in SUBSET Docs : Load(y, ds) /\ \A d \in ds : Live(d)
    <2>1. CASE LoadForDelete(y)
      <3>1. PICK d \in Docs : Live(d) /\ Load(y, {d})
        BY <2>1 DEF LoadForDelete
      <3> QED BY <3>1
    <2>2. CASE LoadForPurge(y)
      BY <2>2 DEF LoadForPurge, Overdue
    <2> QED BY <1>6, <2>1, <2>2
  <1> QED
    BY <1>1, <1>2, <1>3, <1>4, <1>5, <1>6
    DEF Next, Submitting, SubmitCheck, SubmitPut, SubmitCommit, Processing, AttemptStart,
        Fetch, AttemptFails, PutResult, Settle, Expire, Removing, ReadRow, ReadObject, vars

\* Under QuietStore a deletion takes up a key only while nobody uses or puts it.
LEMMA DeletionSteps ==
  ASSUME Typed, Unsubmitted, [Next]_vars, QuietStore, NEW k \in Keys,
         BeingDeleted(k)', ~BeingDeleted(k)
  PROVE  ~InUse(k)' /\ ~BeingPut(k)'
  <1>1. PICK x \in Removers : k \in Range(remover'[x].keys)
    BY DEF BeingDeleted
  <1>2. k \notin Range(remover[x].keys)
    BY DEF BeingDeleted
  <1>3. k \notin Range(<<>>)
    BY DEF Range
  <1>4. PICK p \in remover[x].pairs :
          /\ CheckInUse(x) /\ p \in Pairs /\ ~BeingPut(p.source) /\ ~BeingPut(p.result)
          /\ remover'[x].keys = Doomed(p)
    BY <1>1, <1>2, <1>3, RemoverSteps DEF Resting
  <1>5. ~InUse(k) /\ ~BeingPut(k)
    BY <1>1, <1>4, DoomedKeys
  <1>6. UNCHANGED <<doc, submission, attempt>>
    BY <1>4 DEF CheckInUse
  <1> QED BY <1>5, <1>6 DEF InUse, Live, BeingPut

\* An object goes only by a deletion that has taken it up.
LEMMA ObjectSteps ==
  ASSUME Typed, [Next]_vars, NEW k \in objects, k \notin objects'
  PROVE  \E x \in Removers :
           DeleteObject(x) /\ k = Head(remover[x].keys) /\ k \in Range(remover[x].keys)
  <1>1. PICK x \in Removers : DeleteObject(x)
    BY DEF Next, Submitting, SubmitCheck, SubmitPut, SubmitCommit, Put, Processing,
           AttemptStart, Fetch, AttemptFails, PutResult, Settle, Expire, Removing, Tombstone,
           CheckInUse, LoadForDelete, LoadForPurge, Load, ReadRow, ReadObject, Crash, vars
  <1>2. k = Head(remover[x].keys)
    BY <1>1 DEF DeleteObject
  <1> QED BY <1>1, <1>2, DeleteTyped

LEMMA NextKept ==
  ASSUME QuietStore
  PROVE  Typed /\ Typed' /\ Unsubmitted /\ Kept /\ [Next]_vars => Kept'
  <1> SUFFICES ASSUME Typed, Typed', Unsubmitted, Kept, [Next]_vars PROVE Kept'
    OBVIOUS
  <1>1. ASSUME NEW k \in Keys, BeingPut(k)', ~BeingPut(k)
        PROVE  k \in objects' /\ ~BeingDeleted(k)'
    BY <1>1, PutSteps DEF Put, BeingDeleted
  <1>2. \A k \in objects : k \in objects' \/ BeingDeleted(k)
    BY ObjectSteps DEF BeingDeleted
  <1> QED BY <1>1, <1>2, UseSteps, DeletionSteps, KeptStep

LEMMA AlwaysKept == ASSUME QuietStore PROVE Spec => [](Typed /\ Unsubmitted /\ Kept)
  <1>1. Typed /\ Typed' /\ Unsubmitted /\ Kept /\ [Next]_vars => Kept'
    BY NextKept
  <1> QED BY AlwaysTyped, InitKept, <1>1, PTL DEF Spec

\* Every key a live document names is in the store.
THEOREM LiveKeysPresent == ASSUME QuietStore PROVE Spec => []LiveObjectsPresent
  <1>1. Kept => LiveObjectsPresent
    BY DEF Kept
  <1> QED BY AlwaysKept, <1>1, PTL

-----------------------------------------------------------------------------
(***************************************************************************)
(* Readers.  A row that a reader has seen keeps its result key, because an *)
(* attempt that has settled is never run again; only a tombstone can make  *)
(* the key vanish under the reader.                                        *)
(***************************************************************************)
SettledOnce == \A d \in Docs : doc[d].result # NoKey => attempt[d].phase = "done"

ReadersKnow == \A c \in Readers : \A r \in reader[c] :
    doc[r.doc].exists /\ (doc[r.doc].deleted \/ doc[r.doc].result = r.key)

LEMMA NextSettledOnce == Typed /\ Unsubmitted /\ SettledOnce /\ [Next]_vars => SettledOnce'
  <1> SUFFICES ASSUME Typed, Unsubmitted, SettledOnce, [Next]_vars, NEW d \in Docs,
                      doc'[d].result # NoKey
               PROVE  attempt'[d].phase = "done"
    BY DEF SettledOnce
  <1>1. CASE Settle(d)
    BY <1>1 DEF Settle, Typed, AttemptStates
  <1>2. CASE ~Settle(d)
    <2>1. doc'[d].result = doc[d].result
      BY <1>2, FieldSteps
    <2>2. attempt[d].phase = "done"
      BY <2>1 DEF SettledOnce
    <2> QED BY <2>2, JobSteps DEF AttemptStart
  <1> QED BY <1>1, <1>2

LEMMA NextReadersKnow ==
  Typed /\ Unsubmitted /\ SettledOnce /\ ReadersKnow /\ [Next]_vars => ReadersKnow'
  <1> SUFFICES ASSUME Typed, Unsubmitted, SettledOnce, ReadersKnow, [Next]_vars,
                      NEW c \in Readers, NEW r \in reader'[c]
               PROVE  doc'[r.doc].exists
                      /\ (doc'[r.doc].deleted \/ doc'[r.doc].result = r.key)
    BY DEF ReadersKnow
  <1>1. CASE r \in reader[c]
    <2>1. /\ r.doc \in Docs /\ r.key # NoKey /\ doc[r.doc].exists
          /\ doc[r.doc].deleted \/ doc[r.doc].result = r.key
      BY <1>1, KeysAssumption DEF Typed, ReadersKnow
    <2>2. Settle(r.doc) => doc[r.doc].result = NoKey
      BY <2>1 DEF Settle, SettledOnce
    <2> QED BY <2>1, <2>2, RowsStay
  <1>2. CASE r \notin reader[c]
    <2>1. ReadRow(c)
      BY <1>2
      DEF Typed, Next, Submitting, SubmitCheck, SubmitPut, SubmitCommit, Processing,
          AttemptStart, Fetch, AttemptFails, PutResult, Settle, Expire, Removing, Tombstone,
          CheckInUse, DeleteObject, LoadForDelete, LoadForPurge, Load, ReadRow, ReadObject,
          Crash, vars
    <2>2. PICK d \in Docs :
            /\ Live(d)
            /\ reader' = [reader EXCEPT ![c] = {[doc |-> d, key |-> doc[d].result]}]
      BY <2>1 DEF ReadRow
    <2>3. r = [doc |-> d, key |-> doc[d].result] /\ UNCHANGED doc
      BY <2>1, <2>2 DEF Typed, ReadRow
    <2> QED BY <2>2, <2>3 DEF Live
  <1> QED BY <1>1, <1>2

\* A request for a result fails only if the very document it asked for has been
\* deleted meanwhile.
THEOREM ReadsFailByDeletion == ASSUME QuietStore PROVE Spec => []FailedReadsAreDeletions
  <1>1. Init => SettledOnce /\ ReadersKnow
    BY DEF Init, SettledOnce, ReadersKnow, NoDoc
  <1>2. Typed /\ Kept /\ ReadersKnow => FailedReadsAreDeletions
    <2> SUFFICES ASSUME Typed, Kept, ReadersKnow, NEW c \in Readers, NEW r \in reader[c],
                        ~doc[r.doc].deleted
                 PROVE  r.key \in objects
      BY DEF FailedReadsAreDeletions
    <2>1. r.doc \in Docs /\ r.key # NoKey
      BY KeysAssumption DEF Typed
    <2>2. doc[r.doc].exists /\ doc[r.doc].result = r.key
      BY DEF ReadersKnow
    <2> QED BY <2>1, <2>2 DEF Kept, LiveObjectsPresent, Live
  <1> QED
    BY AlwaysKept, NextSettledOnce, NextReadersKnow, <1>1, <1>2, PTL DEF Spec

-----------------------------------------------------------------------------
(***************************************************************************)
(* What deletion and retention leave behind.  Every object is named by a   *)
(* live document, or somebody has it in hand: a request that will commit a *)
(* row that names it, or a deletion that has still to look at it.  Two     *)
(* facts keep that true when rows are tombstoned: a deletion knows the     *)
(* keys of its rows, and no attempt is at work on a deleted document.      *)
(***************************************************************************)
PairsTrue == \A x \in Removers : \A p \in remover[x].pairs :
    /\ p.source = Source[p.doc] /\ doc[p.doc].exists
    /\ remover[x].phase = "loaded" => p.result = doc[p.doc].result /\ ~AtWork(p.doc)

WorkOnLive == \A d \in Docs : AtWork(d) => Live(d)

Awaiting(k) == \E x \in Removers :
    /\ remover[x].phase \in {"removing", "deleting"}
    /\ \E p \in remover[x].pairs : k \in {p.source, p.result}

InHand(k) == Named(k) \/ BeingPut(k) \/ BeingDeleted(k) \/ Awaiting(k)

NoneLost == crashes = 0 /\ (\A d \in Docs : submission[d] # "conceded")
              => \A k \in objects : InHand(k)

Accounted == Typed /\ Unsubmitted /\ SettledOnce /\ PairsTrue /\ WorkOnLive /\ NoneLost

LEMMA NextPairsTrue ==
  ASSUME DeletesWait, Typed, Unsubmitted, PairsTrue, [Next]_vars
  PROVE  PairsTrue'
  <1> SUFFICES ASSUME NEW x \in Removers, NEW p \in remover'[x].pairs
               PROVE  /\ p.source = Source[p.doc] /\ doc'[p.doc].exists
                      /\ remover'[x].phase = "loaded" =>
                           p.result = doc'[p.doc].result /\ ~AtWork(p.doc)'
    BY DEF PairsTrue
  <1>1. CASE p \in remover[x].pairs
    <2>1. /\ p.doc \in Docs /\ p.source = Source[p.doc] /\ doc[p.doc].exists
          /\ remover[x].phase = "loaded" => p.result = doc[p.doc].result /\ ~AtWork(p.doc)
      BY <1>1 DEF Typed, RemoverStates, Pairs, PairsTrue
    <2>2. doc'[p.doc].exists
      BY <2>1, RowsStay
    <2>3. ASSUME remover'[x].phase = "loaded", remover[x].phase = "loaded"
          PROVE  p.result = doc'[p.doc].result /\ ~AtWork(p.doc)'
      <3>1. ~Settle(p.doc)
        BY <2>1, <2>3 DEF Settle, AtWork
      <3>2. BeingTombstoned(p.doc)
        BY <1>1, <2>3 DEF BeingTombstoned
      <3>3. ~AttemptStart(p.doc)
        BY <3>2 DEF AttemptStart
      <3>4. ~AtWork(p.doc)'
        BY <2>1, <2>3, <3>3, JobSteps DEF AtWork
      <3> QED BY <2>1, <2>3, <3>1, <3>4, RowsStay
    <2>4. ASSUME remover'[x].phase = "loaded", remover[x].phase # "loaded"
          PROVE  remover[x].phase = "idle"
      BY <2>4, RemoverSteps DEF Load, Resting
    <2>5. remover[x].phase # "idle"
      BY <1>1 DEF Typed, RemoverTyped
    <2> QED BY <2>1, <2>2, <2>3, <2>4, <2>5
  <1>2. CASE p \notin remover[x].pairs
    <2>1. PICK ds \in SUBSET Docs :
            /\ Load(x, ds) /\ \A d \in ds : Live(d)
            /\ remover'[x].pairs =
                 {[doc |-> d, source |-> Source[d], result |-> doc[d].result] : d \in ds}
      BY <1>2, RemoverSteps DEF Resting
    <2>2. PICK d \in ds : p = [doc |-> d, source |-> Source[d], result |-> doc[d].result]
      BY <2>1
    <2>3. UNCHANGED <<doc, attempt>> /\ ~AtWork(d)
      BY <2>1 DEF Load
    <2> QED BY <2>1, <2>2, <2>3 DEF Live, AtWork
  <1> QED BY <1>1, <1>2

LEMMA NextWorkOnLive ==
  ASSUME Typed, Unsubmitted, PairsTrue, WorkOnLive, [Next]_vars
  PROVE  WorkOnLive'
  <1> SUFFICES ASSUME NEW d \in Docs, AtWork(d)' PROVE Live(d)'
    BY DEF WorkOnLive
  <1>1. CASE AtWork(d)
    <2>1. Live(d)
      BY <1>1 DEF WorkOnLive
    <2>2. ASSUME NEW x \in Removers, Tombstone(x), d \in {p.doc : p \in remover[x].pairs}
          PROVE  FALSE
      BY <1>1, <2>2 DEF Tombstone, PairsTrue
    <2> QED BY <2>1, <2>2, RowsStay DEF Live, Typed, DocStates
  <1>2. CASE ~AtWork(d)
    <2>1. AttemptStart(d) /\ Live(d)
      BY <1>2, JobSteps DEF AtWork
    <2> QED BY <2>1 DEF AttemptStart, Live
  <1> QED BY <1>1, <1>2

\* An object appears only by the PUT of somebody who will commit its key.
LEMMA ObjectsAppear ==
  ASSUME Typed, [Next]_vars, NEW k \in objects', k \notin objects
  PROVE  BeingPut(k)'
  <1>1. PICK d \in Docs : SubmitPut(d) \/ PutResult(d)
    BY DEF Next, Submitting, SubmitCheck, SubmitCommit, Processing, AttemptStart, Fetch,
           AttemptFails, Settle, Expire, Removing, Tombstone, CheckInUse, DeleteObject,
           LoadForDelete, LoadForPurge, Load, ReadRow, ReadObject, Crash, vars
  <1>2. CASE SubmitPut(d)
    BY <1>2 DEF SubmitPut, Put, BeingPut, Typed
  <1>3. CASE PutResult(d)
    <2>1. PICK j \in Results :
         /\ objects' = objects \cup {j}
         /\ attempt' = [attempt EXCEPT ![d] = [@ EXCEPT !.phase = "stored", !.output = j]]
      BY <1>3 DEF PutResult, Put
    <2>2. attempt'[d].phase = "stored" /\ attempt'[d].output = j /\ k = j
      BY <2>1 DEF Typed, AttemptStates
    <2> QED BY <2>2 DEF BeingPut
  <1> QED BY <1>1, <1>2, <1>3

\* A key in hand stays in hand while nothing crashes and no request concedes.
LEMMA StaysInHand ==
  ASSUME Accounted, Typed', [Next]_vars, crashes = 0, crashes' = 0,
         \A d \in Docs : submission'[d] # "conceded",
         NEW k \in objects, k \in objects', InHand(k)
  PROVE  InHand(k)'
  <1>0. /\ k # NoKey /\ Typed /\ Unsubmitted /\ SettledOnce /\ PairsTrue /\ WorkOnLive
        /\ crashes' # crashes + 1
        /\ k \notin Range(<<>>)
    BY NoKeyApart DEF Accounted, Typed, Range
  <1>1. CASE Named(k)
    <2>1. PICK d \in Docs : Live(d) /\ k \in {Source[d], doc[d].result}
      BY <1>1 DEF Named
    <2>2. k \in {Source[d], doc'[d].result} /\ doc'[d].exists
      BY <1>0, <2>1, RowsStay DEF Live, Settle, SettledOnce
    <2>3. CASE doc'[d].deleted = doc[d].deleted
      BY <2>1, <2>2, <2>3 DEF InHand, Named, Live
    <2>4. CASE doc'[d].deleted # doc[d].deleted
      <3>1. PICK x \in Removers : Tombstone(x) /\ d \in {p.doc : p \in remover[x].pairs}
        BY <1>0, <2>1, <2>4, RowsStay DEF Live
      <3>2. PICK p \in remover[x].pairs : p.doc = d
        BY <3>1
      <3>3. p.source = Source[d] /\ p.result = doc[d].result
        BY <1>0, <3>1, <3>2 DEF PairsTrue, Tombstone
      <3>4. remover'[x].phase = "removing" /\ remover'[x].pairs = remover[x].pairs
        BY <1>0, <3>1 DEF Tombstone, Typed, RemoverStates
      <3> QED BY <2>1, <3>2, <3>3, <3>4 DEF InHand, Awaiting
    <2> QED BY <2>3, <2>4 DEF InHand
  <1>2. CASE BeingPut(k)
    <2>1. PICK d \in Docs : \/ submission[d] = "stored" /\ Source[d] = k
                            \/ attempt[d].phase = "stored" /\ attempt[d].output = k
      BY <1>2 DEF BeingPut
    <2>2. CASE submission[d] = "stored" /\ Source[d] = k
      <3>1. submission'[d] = "stored" \/ (SubmitCommit(d) /\ ~Taken(d))
        BY <1>0, <2>2, SubmissionSteps
      <3>2. CASE submission'[d] = "stored"
        BY <2>2, <3>2 DEF InHand, BeingPut
      <3>3. CASE SubmitCommit(d) /\ ~Taken(d)
        <4>1. Live(d)'
          BY <1>0, <3>3 DEF SubmitCommit, Typed, NoDoc, Live
        <4> QED BY <2>2, <4>1 DEF InHand, Named
      <3> QED BY <3>1, <3>2, <3>3
    <2>3. CASE attempt[d].phase = "stored" /\ attempt[d].output = k
      <3>1. attempt'[d] = attempt[d] \/ Settle(d)
        BY <1>0, <2>3, JobSteps DEF AttemptStart, Fetch
      <3>2. CASE attempt'[d] = attempt[d]
        BY <2>3, <3>2 DEF InHand, BeingPut
      <3>3. CASE Settle(d)
        <4>1. Live(d)
          BY <1>0, <2>3 DEF WorkOnLive, AtWork
        <4>2. Live(d)' /\ doc'[d].result = k
          BY <1>0, <2>3, <3>3, <4>1 DEF Settle, Typed, DocStates, Live
        <4> QED BY <4>2 DEF InHand, Named
      <3> QED BY <3>1, <3>2, <3>3
    <2> QED BY <2>1, <2>2, <2>3
  <1>3. CASE BeingDeleted(k)
    <2>1. PICK x \in Removers : k \in Range(remover[x].keys)
      BY <1>3 DEF BeingDeleted
    <2>2. remover[x].phase = "deleting"
      BY <1>0, <2>1 DEF Typed, RemoverTyped
    <2>3. k \in Range(remover'[x].keys)
      <3>1. DeleteObject(x) => k # Head(remover[x].keys)
        BY DEF DeleteObject
      <3> QED BY <1>0, <2>1, <2>2, <3>1, RemoverSteps DEF Load, Tombstone
    <2> QED BY <2>3 DEF InHand, BeingDeleted
  <1>4. CASE Awaiting(k)
    <2>0. PICK x \in Removers :
            /\ remover[x].phase \in {"removing", "deleting"}
            /\ \E p \in remover[x].pairs : k \in {p.source, p.result}
      BY <1>4 DEF Awaiting
    <2>1. PICK p \in remover[x].pairs :
            remover[x].phase \in {"removing", "deleting"} /\ k \in {p.source, p.result}
      BY <2>0
    <2>2. ASSUME p \in remover'[x].pairs, remover'[x].phase # "loaded"
          PROVE  InHand(k)'
      <3>1. remover'[x].phase \in {"removing", "deleting"}
        BY <2>2 DEF Typed, RemoverTyped, RemoverStates
      <3> QED BY <2>1, <2>2, <3>1 DEF InHand, Awaiting
    <2>3. ASSUME p \notin remover'[x].pairs \/ remover'[x].phase = "loaded"
          PROVE  InHand(k)'
      <3>1. /\ CheckInUse(x) /\ p \in Pairs
            /\ remover'[x].keys = Doomed(p)
        BY <1>0, <2>1, <2>3, RemoverSteps DEF Load, Tombstone
      <3>2. CASE InUse(k)
        BY <3>1, <3>2 DEF CheckInUse, InUse, Live, InHand, Named
      <3>3. CASE ~InUse(k)
        BY <1>0, <2>1, <3>1, <3>3, DoomedKeys DEF InHand, BeingDeleted
      <3> QED BY <3>2, <3>3
    <2> QED BY <2>2, <2>3
  <1> QED BY <1>1, <1>2, <1>3, <1>4 DEF InHand

LEMMA NextNoneLost == Accounted /\ Typed' /\ [Next]_vars => NoneLost'
  <1> SUFFICES ASSUME Accounted, Typed', [Next]_vars, crashes' = 0,
                      \A d \in Docs : submission'[d] # "conceded",
                      NEW k \in objects'
               PROVE  InHand(k)'
    BY DEF NoneLost
  <1>1. Typed
    BY DEF Accounted
  <1>2. crashes = 0
    <2>1. crashes \in Nat
      BY <1>1, BudgetAssumption DEF Typed
    <2>2. CASE Crash
      BY <2>1, <2>2 DEF Crash
    <2>3. CASE ~Crash
      BY <2>3
      DEF Next, Submitting, SubmitCheck, SubmitPut, SubmitCommit, Processing,
          AttemptStart, Fetch, AttemptFails, PutResult, Settle, Expire, Removing, Tombstone,
          CheckInUse, DeleteObject, LoadForDelete, LoadForPurge, Load, ReadRow, ReadObject,
          vars
    <2> QED BY <2>2, <2>3
  <1>3. ASSUME NEW d \in Docs PROVE submission[d] # "conceded"
    BY <1>1, <1>2, SubmissionSteps DEF SubmitCommit, SubmitPut
  <1>4. CASE k \in objects
    <2>1. InHand(k)
      BY <1>2, <1>3, <1>4 DEF Accounted, NoneLost
    <2> QED BY <1>2, <1>4, <2>1, StaysInHand
  <1>5. CASE k \notin objects
    BY <1>1, <1>5, ObjectsAppear DEF InHand
  <1> QED BY <1>4, <1>5

\* When every request has come to its end, each object left is one a live
\* document names: deletion and retention leave nothing behind.
THEOREM DeletionsComplete == ASSUME DeletesWait PROVE Spec => []NothingLeftBehind
  <1>1. Init => SettledOnce /\ PairsTrue /\ WorkOnLive /\ NoneLost
    BY DEF Init, SettledOnce, PairsTrue, WorkOnLive, NoneLost, NoDoc, Resting, AtWork
  <1>2. Accounted /\ [Next]_vars => Accounted'
    <2>1. Accounted /\ [Next]_vars => Typed' /\ Unsubmitted' /\ SettledOnce'
      BY NextTyped, NextUnsubmitted, NextSettledOnce DEF Accounted
    <2>2. Accounted /\ [Next]_vars => PairsTrue' /\ WorkOnLive'
      BY NextPairsTrue, NextWorkOnLive DEF Accounted
    <2> QED BY <2>1, <2>2, NextNoneLost DEF Accounted
  <1>3. Accounted => NothingLeftBehind
    <2> SUFFICES ASSUME Accounted, AtRest, crashes = 0,
                        \A d \in Docs : submission[d] # "conceded", NEW k \in objects
                 PROVE  Named(k)
      BY DEF NothingLeftBehind
    <2>1. ~BeingPut(k)
      BY DEF AtRest, BeingPut, AtWork
    <2>2. \A x \in Removers : remover[x].keys = <<>>
      BY DEF AtRest, Accounted, Typed, RemoverTyped
    <2>3. ~BeingDeleted(k)
      BY <2>2 DEF BeingDeleted, Range
    <2>4. ~Awaiting(k)
      BY DEF AtRest, Awaiting
    <2> QED BY <2>1, <2>3, <2>4 DEF Accounted, NoneLost, InHand
  <1>4. Init => Accounted
    BY <1>1, InitTyped, InitUnsubmitted DEF Accounted
  <1> QED BY <1>2, <1>3, <1>4, PTL DEF Spec

=============================================================================
