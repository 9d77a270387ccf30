---------------------------- MODULE OrderNotices ----------------------------
(***************************************************************************)
(* From the outbox row of a confirmed order to the notification: every     *)
(* worker replica publishes as OutboxRelay has it and consumes with        *)
(* RetryQueue over the one channel of its RabbitConnectionManager.  A row  *)
(* and its message have the same name.                                     *)
(***************************************************************************)
EXTENDS OutboxRelay

CONSTANTS
  Unsupported, Copies, Tasks, MaxRetries,      \* see RetryQueue
  MaxFaults     \* bounds the steps that are faults

VARIABLES
  copy, dead, task, connected, sent, handled, failures,
  faults    \* faults so far

queueVars == <<copy, dead, task, connected, sent, handled, failures>>
noticeVars == <<vars, queueVars, faults>>

Queue == INSTANCE RetryQueue WITH Messages <- Rows

\* What Queue assumes of its constants.
ASSUME NoticesAssumption ==
  /\ Unsupported \subseteq Rows
  /\ MaxRetries \in Nat /\ None \notin Copies \cup Queue!Copy
  /\ MaxFaults \in Nat

NoticesTypeOK ==
  TypeOK /\ Queue!TypeOK /\ faults \in 0..MaxFaults

NoticesInit == Init /\ Queue!Init /\ faults = 0

NoFault == UNCHANGED faults
Fault == faults < MaxFaults /\ faults' = faults + 1

-----------------------------------------------------------------------------
CommitRow(r) == Insert(r) /\ NoFault /\ UNCHANGED queueVars

Claim(w) == ClaimBatch(w) /\ NoFault /\ UNCHANGED queueVars

SendConfirmed(w, r) ==
  /\ w \in connected
  /\ PublishConfirmed(w, r) /\ Queue!Send(r) /\ NoFault

\* The confirm is lost with another message of the channel that the broker refuses.
SendUnconfirmed(w, r) ==
  /\ w \in connected
  /\ PublishUnconfirmed(w, r) /\ Queue!Send(r) /\ Fault

SendFails(w, r) ==
  /\ w \notin connected
  /\ PublishFails(w, r) /\ NoFault /\ UNCHANGED queueVars

Mark(w, r) == MarkPublished(w, r) /\ NoFault /\ UNCHANGED queueVars
MarkThrows(w, r) == MarkFails(w, r) /\ Fault /\ UNCHANGED queueVars
Release(w, r) == ReleaseOnFailure(w, r) /\ NoFault /\ UNCHANGED queueVars
ReleaseFails(w) ==
  pub[w] = "release" /\ TickEnds(w) /\ Fault /\ UNCHANGED queueVars

\* A lease that nobody works under lapses; so does, as a fault, that of a replica
\* which takes longer than leaseMs for its batch.
AbandonedLeaseLapses(r) ==
  /\ \A w \in Replicas : holder[r] = w => r \notin claims[w]
  /\ LeaseLapses(r) /\ NoFault /\ UNCHANGED queueVars

LeaseLapsesInUse(r) ==
  /\ \E w \in Replicas : holder[r] = w /\ r \in claims[w]
  /\ LeaseLapses(r) /\ Fault /\ UNCHANGED queueVars

DelayPasses(r) == DelayEnds(r) /\ NoFault /\ UNCHANGED queueVars

Publisher(w) ==
  \/ Claim(w)
  \/ \E r \in Rows : \/ SendConfirmed(w, r) \/ SendFails(w, r)
                    \/ Mark(w, r) \/ Release(w, r)

-----------------------------------------------------------------------------
\* Calls of dispatch that lost their channel end before the timer of
\* scheduleReconnect; RabbitConsumer has those that do not.
Connect(w) ==
  /\ ~ Queue!Stale(w)
  /\ Queue!Connect(w) /\ NoFault /\ UNCHANGED vars
Drop(w) == Queue!Drop(w) /\ Fault /\ UNCHANGED vars
RetryExpires(c) == Queue!RetryExpires(c) /\ NoFault /\ UNCHANGED vars
Deliver(w, c) == Queue!Deliver(w, c) /\ NoFault /\ UNCHANGED vars
TaskStep(w, k) == Queue!TaskStep(w, k) /\ NoFault /\ UNCHANGED vars
PublishRefused(w, k) == Queue!PublishRefused(w, k) /\ Fault /\ UNCHANGED vars

\* The process of a replica dies, in a tick or between two.
Die(w) ==
  /\ Queue!Die(w) /\ Fault
  /\ \/ TickEnds(w)
     \/ pub[w] = "idle" /\ UNCHANGED vars

Faults ==
  \/ \E r \in Rows : LeaseLapsesInUse(r)
  \/ \E w \in Replicas :
       \/ ReleaseFails(w) \/ Drop(w) \/ Die(w)
       \/ \E r \in Rows : SendUnconfirmed(w, r) \/ MarkThrows(w, r)
       \/ \E k \in Tasks : PublishRefused(w, k)

\* Leases, delays and the TTL of the retry queue run out.
Time ==
  \/ \E r \in Rows : AbandonedLeaseLapses(r) \/ DelayPasses(r)
  \/ \E c \in Copies : RetryExpires(c)

NoticesNext ==
  \/ \E r \in Rows : CommitRow(r)
  \/ Time
  \/ \E w \in Replicas :
       \/ Publisher(w) \/ Connect(w)
       \/ \E k \in Tasks : TaskStep(w, k)
       \/ \E c \in Copies : Deliver(w, c)
  \/ Faults

\* The interval ticks, the manager reconnects, handlers return, and the broker
\* delivers to a consumer that is free.  Faults need not happen.
Fairness ==
  /\ WF_noticeVars(Time)
  /\ \A w \in Replicas :
       /\ WF_noticeVars(Publisher(w)) /\ WF_noticeVars(Connect(w))
       /\ WF_noticeVars(\E k \in Tasks : TaskStep(w, k))
       /\ WF_noticeVars(\E c \in Copies : Deliver(w, c))

NoticesSpec == NoticesInit /\ [][NoticesNext]_noticeVars /\ Fairness

-----------------------------------------------------------------------------
\* A row that is marked as published reached the broker, which from then on has it
\* until its handler returns or the dlq takes it, whatever dies on the way.
NoticeIsNeverLost == \A r \in published : accepted[r] > 0 /\ Queue!Kept(r)

\* Every outbox row is handled or ends in the dlq, where somebody finds it.
EveryNoticeArrives == \A r \in Rows : (r \in inserted) ~> (r \in handled \cup dead)
=============================================================================
