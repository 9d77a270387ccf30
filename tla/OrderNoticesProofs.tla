-------------------------- MODULE OrderNoticesProofs --------------------------
(***************************************************************************)
(* The outbox and the path of an order's notice, for any rows, replicas    *)
(* and limits.  Of the relay: what is marked was taken by the broker, and  *)
(* a row is taken twice only after a fault of its own.  Of the path: it is *)
(* a relay and a queue, so that what was proved of each of them holds of   *)
(* it, and a notice that is marked as published is never lost.             *)
(***************************************************************************)
EXTENDS OrderNotices, TLAPS

QueueFacts == INSTANCE RetryQueueProofs WITH Messages <- Rows

-----------------------------------------------------------------------------
(* The leases of the relay. *)

\* The update of a row leaves it with the lease it had, or published.
LEMMA SetPublishedAtKeepsTypes ==
  ASSUME TypeOK, NEW w \in Replicas, NEW r \in Rows, r \in inserted, inserted' = inserted,
         SetPublishedAt(w, r) \/ UNCHANGED <<published, holder, lapsed>>
  PROVE  /\ published' \subseteq inserted' /\ published' \ {r} = published \ {r}
         /\ holder' \in [Rows -> Replicas \cup {None}] /\ lapsed' \subseteq lapsed
<1>1. CASE UNCHANGED <<published, holder, lapsed>>
  BY <1>1 DEF TypeOK
<1>2. CASE /\ published' = published \cup {r}
           /\ holder' = [holder EXCEPT ![r] = None]
           /\ lapsed' = lapsed \ {r}
  <2>1. holder' \in [Rows -> Replicas \cup {None}]
    BY <1>2 DEF TypeOK
  <2> QED BY <1>2, <2>1 DEF TypeOK
<1> QED BY <1>1, <1>2 DEF SetPublishedAt

LEMMA OnceIsSmall == ASSUME NEW n \in 0..2 PROVE Once(n) \in 1..2 /\ (n = 0 => Once(n) = 1)
BY DEF Once

\* The row the loop is at is unique.
LEMMA CurrentIsUnique ==
  ASSUME TypeOK, NEW w \in Replicas, NEW r \in Rows, NEW s \in Rows, Current(w, r), Current(w, s)
  PROVE  r = s
BY OutboxAssumption DEF TypeOK, Current

-----------------------------------------------------------------------------
(* Type correctness. *)

LEMMA NextRowKeepsTypes ==
  ASSUME TypeOK, NEW w \in Replicas, NEW r \in Rows, NextRow(w, r), inserted' = inserted,
         ~ At(w, "idle")
  PROVE  /\ pub' \in [Replicas -> {"idle", "publish", "mark", "release"}]
         /\ claims' \in [Replicas -> SUBSET inserted']
         /\ \A v \in Replicas : (pub'[v] = "idle") <=> (claims'[v] = {})
BY DEF TypeOK, NextRow, At, Current

LEMMA GotoKeepsTypes ==
  ASSUME TypeOK, NEW w \in Replicas, NEW r \in Rows, inserted' = inserted,
         Goto(w, r, "mark") \/ Goto(w, r, "release")
  PROVE  /\ pub' \in [Replicas -> {"idle", "publish", "mark", "release"}]
         /\ claims' \in [Replicas -> SUBSET inserted']
         /\ \A v \in Replicas : (pub'[v] = "idle") <=> (claims'[v] = {})
BY DEF TypeOK, Goto, Current

LEMMA TypeOKInductive == TypeOK /\ [Next]_vars => TypeOK'
<1> SUFFICES ASSUME TypeOK, [Next]_vars PROVE TypeOK'
  OBVIOUS
<1>1. CASE UNCHANGED vars
  BY <1>1 DEF vars, TypeOK
<1>2. ASSUME NEW r \in Rows, Insert(r) \/ LeaseLapses(r) \/ DelayEnds(r) PROVE TypeOK'
  BY <1>2 DEF Insert, LeaseLapses, DelayEnds, TypeOK
<1>3. ASSUME NEW w \in Replicas, ClaimBatch(w) PROVE TypeOK'
  BY <1>3 DEF ClaimBatch, Claimable, TypeOK, At
<1>4. ASSUME NEW w \in Replicas, TickEnds(w) PROVE TypeOK'
  BY <1>4 DEF TickEnds, TypeOK
<1>5. ASSUME NEW w \in Replicas, NEW r \in Rows,
             PublishConfirmed(w, r) \/ PublishUnconfirmed(w, r) \/ PublishFails(w, r)
      PROVE  TypeOK'
  <2>1. accepted[r] \in 0..2 /\ Once(accepted[r]) \in 0..2
    BY OnceIsSmall DEF TypeOK
  <2> QED
    BY <1>5, <2>1, GotoKeepsTypes
    DEF PublishConfirmed, PublishUnconfirmed, PublishFails, TypeOK
<1>6. ASSUME NEW w \in Replicas, NEW r \in Rows, MarkPublished(w, r) PROVE TypeOK'
  <2>1. r \in inserted
    BY <1>6 DEF MarkPublished, NextRow, Current, TypeOK
  <2> QED
    BY <1>6, <2>1, NextRowKeepsTypes, SetPublishedAtKeepsTypes DEF MarkPublished, At, TypeOK
<1>7. ASSUME NEW w \in Replicas, NEW r \in Rows, MarkFails(w, r) PROVE TypeOK'
  <2>1. r \in inserted
    BY <1>7 DEF MarkFails, Goto, Current, TypeOK
  <2> QED
    BY <1>7, <2>1, GotoKeepsTypes, SetPublishedAtKeepsTypes DEF MarkFails, TypeOK
<1>8. ASSUME NEW w \in Replicas, NEW r \in Rows, ReleaseOnFailure(w, r) PROVE TypeOK'
  BY <1>8, NextRowKeepsTypes DEF ReleaseOnFailure, At, TypeOK
<1> QED
  BY <1>1, <1>2, <1>3, <1>4, <1>5, <1>6, <1>7, <1>8 DEF Next

\* Tables, leases and publishers keep their types.
THEOREM TypeCorrect == Spec => []TypeOK
<1>1. Init => TypeOK
  BY OutboxAssumption DEF Init, TypeOK
<1> QED
  BY <1>1, TypeOKInductive, PTL DEF Spec

-----------------------------------------------------------------------------
(* Marked rows were taken by the broker. *)

\* A publisher comes to "mark" only behind the broker's confirm.
MarksAreConfirmed ==
  \A w \in Replicas, r \in Rows : At(w, "mark") /\ Current(w, r) => accepted[r] > 0

LEMMA AcceptedGrows ==
  ASSUME TypeOK, [Next]_vars, NEW r \in Rows, accepted[r] > 0
  PROVE  accepted'[r] > 0
<1>1. ASSUME NEW w \in Replicas, NEW s \in Rows,
             PublishConfirmed(w, s) \/ PublishUnconfirmed(w, s)
      PROVE  accepted'[r] > 0
  <2>1. Once(accepted[s]) > 0
    BY OnceIsSmall DEF TypeOK
  <2> QED
    BY <1>1, <2>1 DEF PublishConfirmed, PublishUnconfirmed, TypeOK
<1> QED
  BY <1>1 DEF Next, vars, Insert, LeaseLapses, DelayEnds, ClaimBatch, TickEnds, PublishFails,
              MarkPublished, MarkFails, ReleaseOnFailure

\* published_at is set only for a row the broker has taken.
THEOREM PublishedWasAcceptedHolds == Spec => []PublishedWasAccepted
<1> DEFINE IInv == TypeOK /\ PublishedWasAccepted /\ MarksAreConfirmed
<1>1. Init => IInv
  BY OutboxAssumption DEF Init, TypeOK, PublishedWasAccepted, MarksAreConfirmed, Current
<1>2. IInv /\ [Next]_vars => IInv'
  <2> SUFFICES ASSUME IInv, [Next]_vars PROVE PublishedWasAccepted' /\ MarksAreConfirmed'
    BY TypeOKInductive
  <2>1. PublishedWasAccepted'
    <3>1. ASSUME NEW w \in Replicas, NEW s \in Rows, MarkPublished(w, s) \/ MarkFails(w, s)
          PROVE  published' \subseteq published \cup {s} /\ accepted[s] > 0
      BY <3>1 DEF MarkPublished, MarkFails, SetPublishedAt, NextRow, Goto, MarksAreConfirmed
    <3>2. \A r \in published' : accepted[r] > 0
      BY <3>1 DEF Next, vars, Insert, LeaseLapses, DelayEnds, ClaimBatch, TickEnds,
                  PublishConfirmed, PublishUnconfirmed, PublishFails, ReleaseOnFailure,
                  PublishedWasAccepted
    <3>3. published' \subseteq Rows
      BY TypeOKInductive DEF TypeOK
    <3> QED
      BY <3>2, <3>3, AcceptedGrows DEF PublishedWasAccepted
  <2>2. MarksAreConfirmed'
    <3> SUFFICES ASSUME NEW w \in Replicas, NEW r \in Rows, At(w, "mark")', Current(w, r)'
                 PROVE  accepted'[r] > 0
      BY DEF MarksAreConfirmed
    <3>1. CASE At(w, "mark") /\ Current(w, r)
      BY <3>1, AcceptedGrows DEF MarksAreConfirmed
    <3>2. CASE ~ (At(w, "mark") /\ Current(w, r))
      <4>1. PICK s \in Rows : PublishConfirmed(w, s)
        BY <3>2 DEF Next, vars, Insert, LeaseLapses, DelayEnds, ClaimBatch, TickEnds,
                    PublishConfirmed, PublishUnconfirmed, PublishFails, MarkPublished, MarkFails,
                    ReleaseOnFailure, NextRow, Goto, At, Current, TypeOK
      <4>2. Current(w, s) /\ Current(w, r)
        BY <4>1 DEF PublishConfirmed, Goto, Current
      <4>3. r = s /\ Once(accepted[s]) > 0
        BY <4>2, CurrentIsUnique, OnceIsSmall DEF TypeOK
      <4> QED
        BY <4>1, <4>3 DEF PublishConfirmed, TypeOK
    <3> QED
      BY <3>1, <3>2
  <2> QED
    BY <2>1, <2>2
<1> QED
  BY <1>1, <1>2, PTL DEF Spec

-----------------------------------------------------------------------------
(* No duplicates without a cause. *)

AwaitsMark(w, r) == At(w, "mark") /\ Current(w, r)

\* A row without a fault of its own: its lease stands, the replica that has it in its
\* batch holds the lease, and the broker took it only if that replica is about to mark
\* it, or died before it could (then the lease keeps others away), or marked it.
LeaseOK(r) ==
  /\ accepted[r] <= 1 /\ r \notin lapsed
  /\ accepted[r] = 1 => r \in published \/ holder[r] # None
  /\ \A w \in Replicas : r \in claims[w] =>
       /\ holder[r] = w /\ r \notin published
       /\ ~ AwaitsMark(w, r) => accepted[r] = 0

LeasesOK == \A r \in Rows \ excused : LeaseOK(r)

\* The loop of w moves on from row s.
LEMMA OthersAwaitAsBefore ==
  ASSUME TypeOK, NEW w \in Replicas, NEW s \in Rows, NEW v \in Replicas, NEW r \in Rows,
         \/ NextRow(w, s)
         \/ \E label \in {"mark", "release"} : Goto(w, s, label)
         \/ claims' = [claims EXCEPT ![w] = {}] /\ pub' = [pub EXCEPT ![w] = "idle"],
         r # s \/ v # w, r \in claims'[v]
  PROVE  r \in claims[v] /\ (AwaitsMark(v, r) => AwaitsMark(v, r)')
<1>1. CASE v # w
  BY <1>1 DEF TypeOK, NextRow, Goto, AwaitsMark, At, Current
<1>2. CASE v = w /\ r # s
  <2>1. r \in claims[v]
    BY <1>2 DEF TypeOK, NextRow, Goto
  <2>2. (\E label \in {"mark", "release"} : Goto(w, s, label)) \/ NextRow(w, s) => Current(w, s)
    BY DEF Goto, NextRow
  <2>3. ~ Current(w, r) \/ claims' = [claims EXCEPT ![w] = {}]
    BY <1>2, <2>2, CurrentIsUnique
  <2> QED
    BY <1>2, <2>1, <2>3 DEF TypeOK, AwaitsMark
<1> QED
  BY <1>1, <1>2

\* A row is taken twice only after a fault of its own.
THEOREM DuplicatesHaveACauseHolds == Spec => []DuplicatesHaveACause
<1> DEFINE IInv == TypeOK /\ LeasesOK
<1>1. Init => IInv
  BY OutboxAssumption DEF Init, TypeOK, LeasesOK, LeaseOK
<1>2. IInv /\ [Next]_vars => IInv'
  <2> SUFFICES ASSUME IInv, [Next]_vars, NEW r \in Rows, r \notin excused' PROVE LeaseOK(r)'
    BY TypeOKInductive DEF LeasesOK
  <2>1. r \notin excused
    BY DEF Next, vars, Insert, LeaseLapses, DelayEnds, ClaimBatch, TickEnds, PublishConfirmed,
           PublishUnconfirmed, PublishFails, MarkPublished, MarkFails, ReleaseOnFailure
  <2>2. LeaseOK(r)
    BY <2>1 DEF LeasesOK
  <2>3. CASE UNCHANGED vars
    BY <2>2, <2>3 DEF vars, LeaseOK, AwaitsMark, At, Current
  <2>4. ASSUME NEW s \in Rows, Insert(s) \/ LeaseLapses(s) \/ DelayEnds(s) PROVE LeaseOK(r)'
    BY <2>2, <2>4 DEF Insert, LeaseLapses, DelayEnds, LeaseOK, AwaitsMark, At, Current
  <2>5. ASSUME NEW w \in Replicas, ClaimBatch(w) PROVE LeaseOK(r)'
    <3>1. PICK batch \in SUBSET Claimable :
            /\ At(w, "idle")
            /\ holder' = [q \in Rows |-> IF q \in batch THEN w ELSE holder[q]]
            /\ lapsed' = lapsed \ batch
            /\ claims' = [claims EXCEPT ![w] = batch]
            /\ pub' = [pub EXCEPT ![w] = "publish"]
            /\ UNCHANGED <<inserted, published, delayed, accepted, excused>>
      BY <2>5 DEF ClaimBatch
    <3>2. CASE r \in batch
      <4>1. r \notin published /\ holder[r] = None /\ accepted[r] = 0
        BY <2>2, <3>2 DEF Claimable, LeaseOK, TypeOK
      <4>2. \A v \in Replicas : r \in claims'[v] => v = w
        BY <2>2, <3>1, <4>1, OutboxAssumption DEF LeaseOK, TypeOK
      <4>3. holder'[r] = w /\ r \notin lapsed' /\ accepted'[r] = 0 /\ r \notin published'
        BY <3>1, <3>2, <4>1
      <4> QED
        BY <4>2, <4>3, OutboxAssumption DEF LeaseOK
    <3>3. CASE r \notin batch
      <4>1. \A v \in Replicas : r \in claims'[v] =>
              v # w /\ r \in claims[v] /\ (AwaitsMark(v, r) => AwaitsMark(v, r)')
        BY <3>1, <3>3 DEF AwaitsMark, At, Current, TypeOK
      <4>2. holder'[r] = holder[r] /\ r \notin lapsed' /\ accepted' = accepted
            /\ published' = published
        BY <2>2, <3>1, <3>3 DEF LeaseOK
      <4> QED
        BY <2>2, <4>1, <4>2 DEF LeaseOK
    <3> QED
      BY <3>2, <3>3
  <2>6. ASSUME NEW w \in Replicas, TickEnds(w) PROVE LeaseOK(r)'
    <3>1. \A v \in Replicas : r \in claims'[v] =>
            r \in claims[v] /\ (AwaitsMark(v, r) => AwaitsMark(v, r)')
      BY <2>6 DEF TickEnds, AwaitsMark, At, Current, TypeOK
    <3> QED
      BY <2>2, <2>6, <3>1 DEF TickEnds, LeaseOK
  <2>7. ASSUME NEW w \in Replicas, NEW s \in Rows,
               PublishConfirmed(w, s) \/ PublishUnconfirmed(w, s) \/ PublishFails(w, s)
        PROVE  LeaseOK(r)'
    <3>1. At(w, "publish") /\ Current(w, s) /\ s \in claims[w]
      BY <2>7 DEF PublishConfirmed, PublishUnconfirmed, PublishFails, Goto, Current
    <3>2. \A v \in Replicas : r \in claims'[v] /\ (r # s \/ v # w) =>
            r \in claims[v] /\ (AwaitsMark(v, r) => AwaitsMark(v, r)')
      BY <2>7, OthersAwaitAsBefore DEF PublishConfirmed, PublishUnconfirmed, PublishFails
    <3>3. holder' = holder /\ lapsed' = lapsed /\ published' = published /\ claims' = claims
      BY <2>7 DEF PublishConfirmed, PublishUnconfirmed, PublishFails, Goto
    <3>4. CASE r # s
      <4>1. accepted'[r] = accepted[r]
        BY <2>7, <3>4 DEF PublishConfirmed, PublishUnconfirmed, PublishFails, TypeOK
      <4> QED
        BY <2>2, <3>2, <3>3, <3>4, <4>1 DEF LeaseOK
    <3>5. CASE r = s
      <4>1. accepted[r] = 0 /\ holder[r] = w /\ r \notin published
        BY <2>2, <3>1, <3>5 DEF LeaseOK, AwaitsMark, At
      <4>2. \A v \in Replicas : r \in claims[v] => v = w
        BY <2>2, <4>1 DEF LeaseOK
      <4>3. CASE PublishConfirmed(w, s)
        <5>1. accepted'[r] = 1 /\ AwaitsMark(w, r)'
          BY <3>1, <3>5, <4>1, <4>3, OnceIsSmall
          DEF PublishConfirmed, Goto, AwaitsMark, At, Current, TypeOK
        <5> QED
          BY <2>2, <3>3, <4>1, <4>2, <5>1, OutboxAssumption DEF LeaseOK
      <4>4. CASE PublishUnconfirmed(w, s)
        BY <3>5, <4>4 DEF PublishUnconfirmed
      <4>5. CASE PublishFails(w, s)
        BY <2>2, <3>3, <4>1, <4>5 DEF PublishFails, LeaseOK
      <4> QED
        BY <2>7, <4>3, <4>4, <4>5
    <3> QED
      BY <3>4, <3>5
  <2>8. ASSUME NEW w \in Replicas, NEW s \in Rows, MarkPublished(w, s) PROVE LeaseOK(r)'
    <3>1. \A v \in Replicas : r \in claims'[v] /\ (r # s \/ v # w) =>
            r \in claims[v] /\ (AwaitsMark(v, r) => AwaitsMark(v, r)')
      BY <2>8, OthersAwaitAsBefore DEF MarkPublished
    <3>2. s \in claims[w] /\ s \notin claims'[w] /\ accepted' = accepted
      BY <2>8 DEF MarkPublished, NextRow, Current, TypeOK
    <3>3. CASE r # s
      <4>1. holder'[r] = holder[r] /\ (r \in published' <=> r \in published) /\ r \notin lapsed'
        BY <2>2, <2>8, <3>3 DEF MarkPublished, SetPublishedAt, LeaseOK, TypeOK
      <4> QED
        BY <2>2, <3>1, <3>2, <3>3, <4>1 DEF LeaseOK
    <3>4. CASE r = s
      <4>1. r \in published' /\ r \notin lapsed'
        BY <2>2, <2>8, <3>2, <3>4 DEF MarkPublished, SetPublishedAt, LeaseOK, TypeOK
      <4>2. \A v \in Replicas : r \notin claims'[v]
        BY <2>2, <3>1, <3>2, <3>4 DEF LeaseOK
      <4> QED
        BY <2>2, <3>2, <4>1, <4>2 DEF LeaseOK
    <3> QED
      BY <3>3, <3>4
  <2>9. ASSUME NEW w \in Replicas, NEW s \in Rows, MarkFails(w, s) PROVE LeaseOK(r)'
    <3>1. r # s
      BY <2>9 DEF MarkFails
    <3>2. \A v \in Replicas : r \in claims'[v] =>
            r \in claims[v] /\ (AwaitsMark(v, r) => AwaitsMark(v, r)')
      BY <2>9, <3>1, OthersAwaitAsBefore DEF MarkFails
    <3>3. holder'[r] = holder[r] /\ (r \in published' <=> r \in published) /\ r \notin lapsed'
          /\ accepted' = accepted
      BY <2>2, <2>9, <3>1 DEF MarkFails, SetPublishedAt, LeaseOK, TypeOK
    <3> QED
      BY <2>2, <3>2, <3>3 DEF LeaseOK
  <2>10. ASSUME NEW w \in Replicas, NEW s \in Rows, ReleaseOnFailure(w, s) PROVE LeaseOK(r)'
    <3>1. \A v \in Replicas : r \in claims'[v] /\ (r # s \/ v # w) =>
            r \in claims[v] /\ (AwaitsMark(v, r) => AwaitsMark(v, r)')
      BY <2>10, OthersAwaitAsBefore DEF ReleaseOnFailure
    <3>2. s \in claims[w] /\ s \notin claims'[w] /\ accepted' = accepted
          /\ published' = published
      BY <2>10 DEF ReleaseOnFailure, NextRow, Current, TypeOK
    <3>3. CASE r # s
      <4>1. holder'[r] = holder[r] /\ r \notin lapsed'
        BY <2>2, <2>10, <3>3 DEF ReleaseOnFailure, LeaseOK, TypeOK
      <4> QED
        BY <2>2, <3>1, <3>2, <3>3, <4>1 DEF LeaseOK
    <3>4. CASE r = s
      <4>1. accepted[r] = 0 /\ r \notin lapsed'
        BY <2>2, <2>10, <3>2, <3>4 DEF ReleaseOnFailure, LeaseOK, AwaitsMark, At
      <4>2. \A v \in Replicas : r \notin claims'[v]
        BY <2>2, <3>1, <3>2, <3>4 DEF LeaseOK
      <4> QED
        BY <2>2, <3>2, <4>1, <4>2 DEF LeaseOK
    <3> QED
      BY <3>3, <3>4
  <2> QED
    BY <2>3, <2>4, <2>5, <2>6, <2>7, <2>8, <2>9, <2>10 DEF Next
<1>3. IInv => DuplicatesHaveACause
  BY DEF TypeOK, LeasesOK, LeaseOK, DuplicatesHaveACause
<1> QED
  BY <1>1, <1>2, <1>3, PTL DEF Spec
-----------------------------------------------------------------------------
(* The two parts. *)

LEMMA StepsAreRelaySteps == [NoticesNext]_noticeVars => [Next]_vars
<1> SUFFICES ASSUME [NoticesNext]_noticeVars PROVE [Next]_vars
  OBVIOUS
<1>1. CASE UNCHANGED vars
  BY <1>1 DEF vars
<1>2. ASSUME NEW r \in Rows,
             CommitRow(r) \/ AbandonedLeaseLapses(r) \/ LeaseLapsesInUse(r) \/ DelayPasses(r)
      PROVE  Next
  BY <1>2 DEF CommitRow, AbandonedLeaseLapses, LeaseLapsesInUse, DelayPasses, Next
<1>3. ASSUME NEW w \in Replicas, Claim(w) \/ ReleaseFails(w) PROVE Next
  BY <1>3 DEF Claim, ReleaseFails, Next
<1>4. ASSUME NEW w \in Replicas, NEW r \in Rows,
             \/ SendConfirmed(w, r) \/ SendUnconfirmed(w, r) \/ SendFails(w, r)
             \/ Mark(w, r) \/ MarkThrows(w, r) \/ Release(w, r)
      PROVE  Next
  BY <1>4 DEF SendConfirmed, SendUnconfirmed, SendFails, Mark, MarkThrows,
    Release, Next
<1>5. ASSUME NEW w \in Replicas, Die(w) PROVE Next \/ UNCHANGED vars
  BY <1>5 DEF Die, Next, TickEnds, vars
<1> QED
  BY <1>1, <1>2, <1>3, <1>4, <1>5
  DEF NoticesNext, noticeVars, Time, Publisher, Faults, Connect, Drop, RetryExpires, Deliver,
    TaskStep, PublishRefused

LEMMA StepsAreQueueSteps == [NoticesNext]_noticeVars => [Queue!Next]_(Queue!vars)
<1> SUFFICES ASSUME [NoticesNext]_noticeVars PROVE [Queue!Next]_(Queue!vars)
  OBVIOUS
<1>1. CASE UNCHANGED queueVars
  BY <1>1 DEF queueVars, Queue!vars
<1>2. ASSUME NEW w \in Replicas, NEW r \in Rows,
             SendConfirmed(w, r) \/ SendUnconfirmed(w, r)
      PROVE  Queue!Next
  BY <1>2 DEF SendConfirmed, SendUnconfirmed, Queue!Next
<1>3. ASSUME NEW w \in Replicas, Connect(w) \/ Drop(w) \/ Die(w) PROVE Queue!Next
  BY <1>3 DEF Connect, Drop, Die, Queue!Next
<1>4. ASSUME NEW c \in Copies, RetryExpires(c) \/ \E w \in Replicas : Deliver(w, c)
      PROVE  Queue!Next
  BY <1>4 DEF RetryExpires, Deliver, Queue!Next
<1>5. ASSUME NEW w \in Replicas, NEW k \in Tasks, TaskStep(w, k) \/ PublishRefused(w, k)
      PROVE  Queue!Next
  BY <1>5 DEF TaskStep, PublishRefused, Queue!Next
<1> QED
  BY <1>1, <1>2, <1>3, <1>4, <1>5
  DEF NoticesNext, noticeVars, Time, Publisher, Faults, CommitRow, Claim, SendFails, Mark,
    MarkThrows, Release, ReleaseFails, AbandonedLeaseLapses, LeaseLapsesInUse, DelayPasses

\* Worker replicas that relay and consume over the same channels keep to the protocol of
\* the relay.
THEOREM ImplementsRelay == NoticesSpec => Spec
<1>1. NoticesInit => Init
  BY DEF NoticesInit
<1> QED
  BY <1>1, StepsAreRelaySteps, PTL DEF NoticesSpec, Spec

\* They keep to the protocol of the queue, too, whose producer is the relay.
THEOREM ImplementsQueue == NoticesSpec => Queue!Spec
<1>1. NoticesInit => Queue!Init
  BY DEF NoticesInit
<1> QED
  BY <1>1, StepsAreQueueSteps, PTL DEF NoticesSpec, Queue!Spec

-----------------------------------------------------------------------------
(* The theorems about the queue are cited through an instance of their own *)
(* module: the definitions of both instances are the same.                 *)

LEMMA SameQueueInit == Queue!Init => QueueFacts!Init
BY DEF Queue!Init, QueueFacts!Init, Queue!Idle, QueueFacts!Idle

LEMMA SameQueueNext == [Queue!Next]_(Queue!vars) => [QueueFacts!Next]_(QueueFacts!vars)
BY DEF Queue!Next, QueueFacts!Next, Queue!vars, QueueFacts!vars,
  Queue!Send, QueueFacts!Send, Queue!HasRoom, QueueFacts!HasRoom,
  Queue!NewCopy, QueueFacts!NewCopy, Queue!Fresh, QueueFacts!Fresh,
  Queue!RetryExpires, QueueFacts!RetryExpires, Queue!Connect, QueueFacts!Connect,
  Queue!Drop, QueueFacts!Drop, Queue!Die, QueueFacts!Die,
  Queue!Requeued, QueueFacts!Requeued, Queue!Deliver, QueueFacts!Deliver,
  Queue!NewTask, QueueFacts!NewTask, Queue!Idle, QueueFacts!Idle,
  Queue!TaskStep, QueueFacts!TaskStep, Queue!HandlerReturns, QueueFacts!HandlerReturns,
  Queue!HandlerThrows, QueueFacts!HandlerThrows, Queue!Ack, QueueFacts!Ack,
  Queue!PublishCopy, QueueFacts!PublishCopy, Queue!GiveUp, QueueFacts!GiveUp,
  Queue!PublishRefused, QueueFacts!PublishRefused, Queue!Goto, QueueFacts!Goto,
  Queue!Becomes, QueueFacts!Becomes

LEMMA RelayFactsHold == NoticesSpec => [](TypeOK /\ PublishedWasAccepted)
BY ImplementsRelay, TypeCorrect, PublishedWasAcceptedHolds, PTL

LEMMA QueueFactsHold ==
  NoticesSpec => [](QueueFacts!TypeOK /\ QueueFacts!NeverLost /\ QueueFacts!DeadLettersWereRetried)
<1>1. Queue!Spec => QueueFacts!Spec
  BY SameQueueInit, SameQueueNext, PTL DEF Queue!Spec, QueueFacts!Spec
<1>2. /\ Unsupported \subseteq Rows
      /\ MaxRetries \in Nat /\ None \notin Copies \cup QueueFacts!Copy
  BY NoticesAssumption DEF Queue!Copy, QueueFacts!Copy
<1> QED
  BY <1>1, <1>2, ImplementsQueue, QueueFacts!TypeCorrect, QueueFacts!NeverLostHolds,
    QueueFacts!DeadLettersWereRetriedHolds, PTL

\* Rows and leases, copies and calls keep their types on the whole path.
THEOREM NoticesTypesHold == NoticesSpec => []NoticesTypeOK
<1>1. QueueFacts!TypeOK => Queue!TypeOK
  BY DEF QueueFacts!TypeOK, Queue!TypeOK, QueueFacts!HeldOK, Queue!HeldOK, QueueFacts!Copy,
    Queue!Copy, QueueFacts!Busy, Queue!Busy, QueueFacts!Idle, Queue!Idle
<1> DEFINE FaultsOK == faults \in 0..MaxFaults
<1>2. NoticesInit => FaultsOK
  BY NoticesAssumption DEF NoticesInit
<1>3. FaultsOK /\ [NoticesNext]_noticeVars => FaultsOK'
  BY NoticesAssumption DEF NoticesNext, noticeVars, Time, Publisher, Faults, Fault, NoFault,
    CommitRow, Claim, SendConfirmed, SendUnconfirmed, SendFails, Mark, MarkThrows, Release,
    ReleaseFails, AbandonedLeaseLapses, LeaseLapsesInUse, DelayPasses, Connect, Drop, RetryExpires,
    Deliver, TaskStep, PublishRefused, Die
<1>4. TypeOK /\ Queue!TypeOK /\ FaultsOK => NoticesTypeOK
  BY DEF NoticesTypeOK
<1> HIDE DEF FaultsOK
<1> QED
  BY <1>1, <1>2, <1>3, <1>4, RelayFactsHold, QueueFactsHold, PTL DEF NoticesSpec

-----------------------------------------------------------------------------
(* From the relay to the queue. *)

\* What the broker took from the relay is a message of the queue.
AcceptedWasSent == \A r \in Rows : accepted[r] > 0 => r \in sent

\* The relay counts a row as accepted, and a message leaves the producer.
LEMMA AcceptedWasSentInductive ==
  ASSUME TypeOK, AcceptedWasSent, [NoticesNext]_noticeVars
  PROVE  AcceptedWasSent'
<1>1. ASSUME UNCHANGED accepted, sent \subseteq sent' PROVE AcceptedWasSent'
  BY <1>1 DEF AcceptedWasSent
<1>2. ASSUME NEW w \in Replicas, NEW r \in Rows,
             SendConfirmed(w, r) \/ SendUnconfirmed(w, r)
      PROVE  AcceptedWasSent'
  <2>1. sent' = sent \cup {r}
    BY <1>2 DEF SendConfirmed, SendUnconfirmed, Queue!Send
  <2>2. \A s \in Rows \ {r} : accepted'[s] = accepted[s]
    BY <1>2 DEF SendConfirmed, SendUnconfirmed, PublishConfirmed,
      PublishUnconfirmed, TypeOK
  <2> QED
    BY <2>1, <2>2 DEF AcceptedWasSent
<1>3. CASE \/ UNCHANGED noticeVars
           \/ \E r \in Rows : \/ CommitRow(r) \/ AbandonedLeaseLapses(r)
                              \/ LeaseLapsesInUse(r) \/ DelayPasses(r)
           \/ \E w \in Replicas : Claim(w) \/ ReleaseFails(w)
           \/ \E w \in Replicas, r \in Rows : \/ SendFails(w, r) \/ Mark(w, r)
                                              \/ MarkThrows(w, r) \/ Release(w, r)
  <2>1. UNCHANGED <<accepted, sent>>
    BY <1>3 DEF noticeVars, vars, queueVars, CommitRow, AbandonedLeaseLapses, LeaseLapsesInUse,
      DelayPasses, Claim, ReleaseFails, SendFails, Mark, MarkThrows,
      Release, Insert, LeaseLapses, DelayEnds, ClaimBatch,
      TickEnds, PublishFails, MarkPublished, MarkFails,
      ReleaseOnFailure
  <2> QED
    BY <1>1, <2>1
<1>4. ASSUME NEW w \in Replicas,
             \/ Connect(w) \/ Drop(w) \/ Die(w)
             \/ \E c \in Copies : Deliver(w, c)
             \/ \E k \in Tasks : TaskStep(w, k) \/ PublishRefused(w, k)
      PROVE  AcceptedWasSent'
  <2>1. UNCHANGED accepted
    BY <1>4 DEF vars, Connect, Drop, Die, Deliver, TaskStep, PublishRefused,
      TickEnds
  <2>2. UNCHANGED sent
    BY <1>4 DEF Connect, Drop, Die, Deliver, TaskStep, PublishRefused,
      Queue!Connect, Queue!Drop, Queue!Die, Queue!Deliver, Queue!TaskStep,
      Queue!HandlerReturns, Queue!HandlerThrows, Queue!Ack, Queue!PublishCopy, Queue!GiveUp,
      Queue!PublishRefused
  <2> QED
    BY <1>1, <2>1, <2>2
<1>5. CASE \E c \in Copies : RetryExpires(c)
  <2>1. UNCHANGED <<accepted, sent>>
    BY <1>5 DEF RetryExpires, Queue!RetryExpires, vars
  <2> QED
    BY <1>1, <2>1
<1> QED
  BY <1>2, <1>3, <1>4, <1>5 DEF NoticesNext, Time, Publisher, Faults

\* A row that is marked as published reached the broker, which from then on has it until
\* its handler returns or the dlq takes it, whichever replicas, channels and leases die.
THEOREM NoticeIsNeverLostHolds == NoticesSpec => []NoticeIsNeverLost
<1>1. NoticesInit => AcceptedWasSent
  BY DEF NoticesInit, Init, AcceptedWasSent
<1>2. TypeOK /\ AcceptedWasSent /\ [NoticesNext]_noticeVars => AcceptedWasSent'
  BY AcceptedWasSentInductive
<1>3. ASSUME TypeOK, PublishedWasAccepted, QueueFacts!NeverLost, AcceptedWasSent
      PROVE  NoticeIsNeverLost
  <2> SUFFICES ASSUME NEW r \in published PROVE accepted[r] > 0 /\ Queue!Kept(r)
    BY DEF NoticeIsNeverLost
  <2>1. accepted[r] > 0 /\ r \in Rows
    BY <1>3 DEF PublishedWasAccepted, TypeOK
  <2>2. QueueFacts!Kept(r)
    BY <1>3, <2>1 DEF AcceptedWasSent, QueueFacts!NeverLost
  <2> QED
    BY <2>1, <2>2 DEF Queue!Kept, QueueFacts!Kept
<1> QED
  BY <1>1, <1>2, <1>3, RelayFactsHold, QueueFactsHold, PTL DEF NoticesSpec
=============================================================================
