----------------------------- MODULE OutboxRelay -----------------------------
(***************************************************************************)
(* The outbox relay of the worker: TypeOrmOutboxStore and the tick of      *)
(* OutboxPublisher.  Replicas of the worker lease rows of outbox_events in *)
(* batches, publish each row to the broker with a publisher confirm and    *)
(* mark it while they still own its lease.  What the broker does with a    *)
(* message is the business of RetryQueue.                                  *)
(***************************************************************************)
EXTENDS Integers, FiniteSets, FiniteSetsExt

CONSTANTS
  Rows,        \* rows of outbox_events, numbered in the order of occurred_at
  Replicas,    \* worker processes; each has one publisher
  BatchSize,   \* claimBatch(20)
  None

ASSUME OutboxAssumption ==
  /\ Rows \subseteq Nat /\ BatchSize \in Nat \ {0} /\ None \notin Replicas

VARIABLES
  inserted,  \* rows committed by settlements
  published, \* rows with a published_at
  holder,    \* holder[r]: the replica whose locked_until the row carries
  lapsed,    \* rows whose locked_until is not later than now
  delayed,   \* rows whose available_at is later than now
  pub,       \* pub[w]: "idle" (no tick), "publish", "mark" or "release"
  claims,    \* claims[w]: rows of the batch still to publish
  accepted,  \* history: accepted[r], how often the broker took r, counted to 2
  excused    \* history: rows that met a fault which may publish them twice

vars == <<inserted, published, holder, lapsed, delayed, pub, claims, accepted,
          excused>>

\* A locked_until tells its owner: the lease of a row grows with each claim, and a
\* replica runs one tick at a time ("running"), so that its latest claim is its only
\* one.
TypeOK ==
  /\ inserted \subseteq Rows /\ published \subseteq inserted
  /\ holder \in [Rows -> Replicas \cup {None}]
  /\ lapsed \subseteq Rows /\ delayed \subseteq Rows
  /\ pub \in [Replicas -> {"idle", "publish", "mark", "release"}]
  /\ claims \in [Replicas -> SUBSET inserted]
  /\ \A w \in Replicas : (pub[w] = "idle") <=> (claims[w] = {})
  /\ accepted \in [Rows -> 0..2] /\ excused \subseteq Rows

Init ==
  /\ inserted = {} /\ published = {} /\ lapsed = {} /\ delayed = {} /\ excused = {}
  /\ holder = [r \in Rows |-> None]
  /\ pub = [w \in Replicas |-> "idle"]
  /\ claims = [w \in Replicas |-> {}]
  /\ accepted = [r \in Rows |-> 0]

Once(n) == IF n < 2 THEN n + 1 ELSE 2

\* The loop of w is at row r.
Current(w, r) == r \in claims[w] /\ \A s \in claims[w] : r <= s

\* The loop goes on with the next row, or the tick ends.
NextRow(w, r) ==
  /\ Current(w, r)
  /\ claims' = [claims EXCEPT ![w] = @ \ {r}]
  /\ pub' = [pub EXCEPT ![w] = IF claims[w] = {r} THEN "idle" ELSE "publish"]

At(w, label) == pub[w] = label
Goto(w, r, label) == Current(w, r) /\ pub' = [pub EXCEPT ![w] = label] /\ UNCHANGED claims

-----------------------------------------------------------------------------
\* The settlement transaction of a confirmed order commits.
Insert(r) ==
  /\ r \notin inserted
  /\ inserted' = inserted \cup {r}
  /\ UNCHANGED <<published, holder, lapsed, delayed, pub, claims, accepted, excused>>

\* Mutant of Claimable: a lease that lapsed is still somebody's.
ClaimableIfFree == {r \in inserted \ published : r \notin delayed /\ holder[r] = None}

Claimable == {r \in inserted \ published : r \notin delayed /\ (holder[r] = None \/ r \in lapsed)}

\* Mutant of ClaimBatch: the lease of another replica does not count.
ClaimBatchUnleased(w) ==
  LET batch == inserted \ (published \cup delayed) IN
    /\ At(w, "idle") /\ batch # {}
    /\ holder' = [r \in Rows |-> IF r \in batch THEN w ELSE holder[r]]
    /\ lapsed' = lapsed \ batch
    /\ claims' = [claims EXCEPT ![w] = batch]
    /\ pub' = [pub EXCEPT ![w] = "publish"]
    /\ UNCHANGED <<inserted, published, delayed, accepted, excused>>

\* The oldest rows first.  SKIP LOCKED makes concurrent claims disjoint, as one
\* after the other would be.
ClaimBatch(w) ==
  \E batch \in SUBSET Claimable :
    /\ At(w, "idle") /\ batch # {}
    /\ Cardinality(batch) = Min({BatchSize, Cardinality(Claimable)})
    /\ \A r \in batch, s \in Claimable \ batch : r < s
    /\ holder' = [r \in Rows |-> IF r \in batch THEN w ELSE holder[r]]
    /\ lapsed' = lapsed \ batch
    /\ claims' = [claims EXCEPT ![w] = batch]
    /\ pub' = [pub EXCEPT ![w] = "publish"]
    /\ UNCHANGED <<inserted, published, delayed, accepted, excused>>

\* publish: the broker takes the message and confirms it.
PublishConfirmed(w, r) ==
  /\ At(w, "publish") /\ Goto(w, r, "mark")
  /\ accepted' = [accepted EXCEPT ![r] = Once(@)]
  /\ UNCHANGED <<inserted, published, holder, lapsed, delayed, excused>>

\* The channel dies before the confirm arrives, and the broker has the message.
PublishUnconfirmed(w, r) ==
  /\ At(w, "publish") /\ Goto(w, r, "release")
  /\ excused' = excused \cup {r}
  /\ accepted' = [accepted EXCEPT ![r] = Once(@)]
  /\ UNCHANGED <<inserted, published, holder, lapsed, delayed>>

\* There is no channel, or it dies before the message reaches the broker.
PublishFails(w, r) ==
  /\ At(w, "publish") /\ Goto(w, r, "release")
  /\ UNCHANGED <<inserted, published, holder, lapsed, delayed, accepted, excused>>

\* The conditional update of published_at.
SetPublishedAt(w, r) ==
  IF r \notin published /\ holder[r] = w
    THEN /\ published' = published \cup {r}
         /\ holder' = [holder EXCEPT ![r] = None]
         /\ lapsed' = lapsed \ {r}
    ELSE UNCHANGED <<published, holder, lapsed>>

\* A missed mark is logged and the loop goes on.
MarkPublished(w, r) ==
  /\ At(w, "mark") /\ NextRow(w, r)
  /\ SetPublishedAt(w, r)
  /\ UNCHANGED <<inserted, delayed, accepted, excused>>

\* The update throws, perhaps after it took effect; the catch block releases the
\* row that was published.
MarkFails(w, r) ==
  /\ At(w, "mark") /\ Goto(w, r, "release")
  /\ SetPublishedAt(w, r) \/ UNCHANGED <<published, holder, lapsed>>
  /\ excused' = excused \cup {r}
  /\ UNCHANGED <<inserted, delayed, accepted>>

\* Mutant of ReleaseOnFailure: the row counts as published.
ReleaseAsPublished(w, r) ==
  /\ At(w, "release") /\ NextRow(w, r)
  /\ published' = published \cup {r}
  /\ holder' = [holder EXCEPT ![r] = None]
  /\ lapsed' = lapsed \ {r}
  /\ UNCHANGED <<inserted, delayed, accepted, excused>>

ReleaseOnFailure(w, r) ==
  /\ At(w, "release") /\ NextRow(w, r)
  /\ IF r \notin published /\ holder[r] = w
       THEN /\ holder' = [holder EXCEPT ![r] = None]
            /\ lapsed' = lapsed \ {r}
            /\ delayed' = delayed \cup {r}
       ELSE UNCHANGED <<holder, lapsed, delayed>>
  /\ UNCHANGED <<inserted, published, accepted, excused>>

\* releaseOnFailure throws out of the loop, or the process dies: the rest of the
\* batch stays leased until the lease lapses.
TickEnds(w) ==
  /\ ~ At(w, "idle")
  /\ pub' = [pub EXCEPT ![w] = "idle"]
  /\ claims' = [claims EXCEPT ![w] = {}]
  /\ UNCHANGED <<inserted, published, holder, lapsed, delayed, accepted, excused>>

LeaseLapses(r) ==
  /\ holder[r] # None /\ r \notin lapsed
  /\ lapsed' = lapsed \cup {r} /\ excused' = excused \cup {r}
  /\ UNCHANGED <<inserted, published, holder, delayed, pub, claims, accepted>>

DelayEnds(r) ==
  /\ delayed' = delayed \ {r} /\ r \in delayed
  /\ UNCHANGED <<inserted, published, holder, lapsed, pub, claims, accepted, excused>>

Next ==
  \/ \E r \in Rows : Insert(r) \/ LeaseLapses(r) \/ DelayEnds(r)
  \/ \E w \in Replicas : ClaimBatch(w) \/ TickEnds(w)
  \/ \E w \in Replicas, r \in Rows :
       \/ PublishConfirmed(w, r) \/ PublishUnconfirmed(w, r) \/ PublishFails(w, r)
       \/ MarkPublished(w, r) \/ MarkFails(w, r) \/ ReleaseOnFailure(w, r)

Spec == Init /\ [][Next]_vars

-----------------------------------------------------------------------------
\* published_at is set only for a row the broker has taken, whoever held the lease
\* and whatever failed between publish and mark.
PublishedWasAccepted == \A r \in published : accepted[r] > 0

\* Replicas that poll one table publish a row once, unless its lease lapsed, its
\* confirm was lost or its mark failed: SKIP LOCKED and the lease keep them apart.
DuplicatesHaveACause == \A r \in Rows : accepted[r] > 1 => r \in excused
=============================================================================
