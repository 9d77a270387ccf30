----------------------------- MODULE RetryQueue -----------------------------
(***************************************************************************)
(* The consumer side of a queue triplet (main, retry, dlq): delivery,      *)
(* RabbitConnectionManager.dispatch and handleConsumerFailure, over a      *)
(* broker that keeps what was not acknowledged and over channels that die  *)
(* under running handlers.  How a channel comes back is the business of    *)
(* RabbitConsumer.                                                         *)
(***************************************************************************)
EXTENDS Integers, FiniteSets

CONSTANTS
  Messages,
  Unsupported,  \* messages whose handler throws DeadLetterError
  Copies,       \* identities of the copies the broker may hold at once
  Replicas,     \* what consumes on a channel of its own: processes, or connections of one
  Tasks,        \* calls of dispatch that a replica may have in flight
  MaxRetries,   \* MAX_RETRY_ATTEMPTS
  None

\* A copy in the broker; count is x-retry-count.
Copy == [msg : Messages, count : 0..MaxRetries, at : {"main", "retry", "unacked"}]

ASSUME QueueAssumption ==
  /\ Unsupported \subseteq Messages
  /\ MaxRetries \in Nat /\ None \notin Copies \cup Copy

VARIABLES
  copy,      \* copy[c]: a Copy, or None
  dead,      \* messages in the dlq
  task,      \* task[w][k]: a call of dispatch; held is None when its channel died
  connected, \* replicas that have a channel and their consumer on it
  sent,      \* history: messages a producer got into the main queue
  handled,   \* history: messages whose handler returned
  failures   \* history: failures[m], how often a handler threw on m

vars == <<copy, dead, task, connected, sent, handled, failures>>

Idle == [pc |-> "idle", msg |-> None, count |-> 0, held |-> None]

Busy == [pc : {"handle", "ack", "fail", "deadletter", "confirm"}, msg : Messages,
         count : 0..MaxRetries, held : Copies \cup {None}]

\* A task holds an unacknowledged copy of its message, and no two hold the same.
HeldOK ==
  /\ \A w \in Replicas, k \in Tasks : LET t == task[w][k] IN
       t.held # None => /\ w \in connected
                        /\ copy[t.held] = [msg |-> t.msg, count |-> t.count, at |-> "unacked"]
  /\ \A w, v \in Replicas, k, l \in Tasks :
       task[w][k].held = task[v][l].held => task[w][k].held = None \/ (w = v /\ k = l)

TypeOK ==
  /\ copy \in [Copies -> Copy \cup {None}]
  /\ dead \subseteq Messages /\ sent \subseteq Messages /\ handled \subseteq Messages
  /\ task \in [Replicas -> [Tasks -> Busy \cup {Idle}]]
  /\ connected \subseteq Replicas
  /\ failures \in [Messages -> 0..MaxRetries + 1]
  /\ HeldOK

Init ==
  /\ copy = [c \in Copies |-> None] /\ dead = {}
  /\ task = [w \in Replicas |-> [k \in Tasks |-> Idle]]
  /\ connected = {}
  /\ sent = {} /\ handled = {} /\ failures = [m \in Messages |-> 0]

Fresh(c) == copy[c] = None

\* The identity of the next copy, if one is left.
NewCopy == CHOOSE c \in Copies : Fresh(c)
HasRoom == \E c \in Copies : Fresh(c)

\* A call of dispatch whose channel died runs on.
Stale(w) == \E k \in Tasks : task[w][k] # Idle /\ task[w][k].held = None

\* The place of the next call of dispatch, if one is left.
NewTask(w) == CHOOSE k \in Tasks : task[w][k] = Idle

Becomes(w, k, t) == task' = [task EXCEPT ![w][k] = t]
Goto(w, k, label) == task' = [task EXCEPT ![w][k].pc = label]

-----------------------------------------------------------------------------
\* A producer's message reaches the main queue.
Send(m) ==
  /\ HasRoom
  /\ copy' = [copy EXCEPT ![NewCopy] = [msg |-> m, count |-> 0, at |-> "main"]]
  /\ sent' = sent \cup {m}
  /\ UNCHANGED <<dead, task, connected, handled, failures>>

Connect(w) ==
  /\ w \notin connected
  /\ connected' = connected \cup {w}
  /\ UNCHANGED <<copy, dead, task, sent, handled, failures>>

\* The broker takes back what w had not acknowledged.
Requeued(w) ==
  [c \in Copies |->
    IF \E k \in Tasks : task[w][k].held = c THEN [copy[c] EXCEPT !.at = "main"] ELSE copy[c]]

\* Mutant of Drop: the calls of dispatch still acknowledge what was requeued.
DropUnnoticed(w) ==
  /\ w \in connected
  /\ connected' = connected \ {w}
  /\ copy' = Requeued(w)
  /\ UNCHANGED <<dead, task, sent, handled, failures>>

\* The channel of w dies.  Its calls of dispatch go on without it.
Drop(w) ==
  /\ w \in connected
  /\ connected' = connected \ {w}
  /\ copy' = Requeued(w)
  /\ task' = [task EXCEPT ![w] = [k \in Tasks |-> [@[k] EXCEPT !.held = None]]]
  /\ UNCHANGED <<dead, sent, handled, failures>>

\* The TTL of the retry queue dead-letters the copy to the main queue.
RetryExpires(c) ==
  /\ ~ Fresh(c) /\ copy[c].at = "retry"
  /\ copy' = [copy EXCEPT ![c].at = "main"]
  /\ UNCHANGED <<dead, task, connected, sent, handled, failures>>

\* prefetch(1): a channel has one unacknowledged delivery.
Deliver(w, c) ==
  /\ w \in connected /\ \E k \in Tasks : task[w][k] = Idle
  /\ \A l \in Tasks : task[w][l].held = None
  /\ ~ Fresh(c) /\ copy[c].at = "main"
  /\ copy' = [copy EXCEPT ![c].at = "unacked"]
  /\ Becomes(w, NewTask(w),
             [pc |-> "handle", msg |-> copy[c].msg, count |-> copy[c].count, held |-> c])
  /\ UNCHANGED <<dead, connected, sent, handled, failures>>

HandlerReturns(w, k) ==
  LET t == task[w][k] IN
    /\ t.pc = "handle" /\ t.msg \notin Unsupported
    /\ Goto(w, k, "ack")
    /\ handled' = handled \cup {t.msg}
    /\ UNCHANGED <<copy, dead, connected, sent, failures>>

HandlerThrows(w, k) ==
  LET t == task[w][k] IN
    /\ t.pc = "handle"
    /\ Goto(w, k, IF t.msg \in Unsupported THEN "deadletter" ELSE "fail")
    /\ failures' = [failures EXCEPT ![t.msg] = IF @ > MaxRetries THEN @ ELSE @ + 1]
    /\ UNCHANGED <<copy, dead, connected, sent, handled>>

Ack(w, k) ==
  LET t == task[w][k] IN
    /\ t.pc \in {"ack", "confirm"} /\ t.held # None
    /\ copy' = [copy EXCEPT ![t.held] = None]
    /\ Becomes(w, k, Idle)
    /\ UNCHANGED <<dead, connected, sent, handled, failures>>

\* Mutant of PublishCopy: the count is compared after it was raised.
OneRetryLess(w, k) ==
  LET t == task[w][k] IN
    /\ t.pc \in {"fail", "deadletter"} /\ t.held # None
    /\ Goto(w, k, "confirm")
    /\ IF t.pc = "fail" /\ t.count + 1 < MaxRetries
         THEN /\ HasRoom /\ UNCHANGED dead
              /\ copy' = [copy EXCEPT ![NewCopy] =
                           [msg |-> t.msg, count |-> t.count + 1, at |-> "retry"]]
         ELSE dead' = dead \cup {t.msg} /\ UNCHANGED copy
    /\ UNCHANGED <<connected, sent, handled, failures>>

\* decideRetry, and the copy reaches its queue; the confirm is still to come.
PublishCopy(w, k) ==
  LET t == task[w][k] IN
    /\ t.pc \in {"fail", "deadletter"} /\ t.held # None
    /\ Goto(w, k, "confirm")
    /\ IF t.pc = "fail" /\ t.count < MaxRetries
         THEN /\ HasRoom /\ UNCHANGED dead
              /\ copy' = [copy EXCEPT ![NewCopy] =
                           [msg |-> t.msg, count |-> t.count + 1, at |-> "retry"]]
         ELSE dead' = dead \cup {t.msg} /\ UNCHANGED copy
    /\ UNCHANGED <<connected, sent, handled, failures>>

\* Mutant of PublishRefused: nack without requeue; the main queue has no dead-letter
\* exchange.
NackWithoutRequeue(w, k) ==
  /\ task[w][k].pc \in {"fail", "deadletter"} /\ task[w][k].held # None
  /\ connected' = connected \ {w}
  /\ copy' = [Requeued(w) EXCEPT ![task[w][k].held] = None]
  /\ task' = [task EXCEPT ![w] =
               [l \in Tasks |-> IF l = k THEN Idle ELSE [@[l] EXCEPT !.held = None]]]
  /\ UNCHANGED <<dead, sent, handled, failures>>

\* The broker refuses the copy: nack(requeue), and recoverChannel drops the channel.
PublishRefused(w, k) ==
  /\ task[w][k].pc \in {"fail", "deadletter"} /\ task[w][k].held # None
  /\ connected' = connected \ {w}
  /\ copy' = Requeued(w)
  /\ task' = [task EXCEPT ![w] =
               [l \in Tasks |-> IF l = k THEN Idle ELSE [@[l] EXCEPT !.held = None]]]
  /\ UNCHANGED <<dead, sent, handled, failures>>

\* Acknowledging, publishing or waiting for a confirm on a dead channel fails, and
\* so does the nack.  What recoverChannel then does is a matter of the connections.
GiveUp(w, k) ==
  /\ task[w][k].pc \in {"ack", "fail", "deadletter", "confirm"} /\ task[w][k].held = None
  /\ Becomes(w, k, Idle)
  /\ UNCHANGED <<copy, dead, connected, sent, handled, failures>>

\* The process dies with its calls of dispatch.
Die(w) ==
  /\ connected' = connected \ {w}
  /\ copy' = Requeued(w)
  /\ task' = [task EXCEPT ![w] = [k \in Tasks |-> Idle]]
  /\ UNCHANGED <<dead, sent, handled, failures>>

TaskStep(w, k) ==
  \/ HandlerReturns(w, k) \/ HandlerThrows(w, k) \/ Ack(w, k) \/ PublishCopy(w, k)
  \/ GiveUp(w, k)

Next ==
  \/ \E m \in Messages : Send(m)
  \/ \E c \in Copies : RetryExpires(c)
  \/ \E w \in Replicas :
       \/ Connect(w) \/ Drop(w) \/ Die(w)
       \/ \E c \in Copies : Deliver(w, c)
       \/ \E k \in Tasks : TaskStep(w, k) \/ PublishRefused(w, k)

Spec == Init /\ [][Next]_vars

-----------------------------------------------------------------------------
\* The broker or the dlq has message m, or its handler has returned; a copy whose
\* task is past its handler is as good as gone.
Kept(m) ==
  \/ m \in handled \cup dead
  \/ \E c \in Copies :
       /\ copy[c] # None /\ copy[c].msg = m
       /\ \A w \in Replicas, k \in Tasks :
            task[w][k].held = c => task[w][k].pc \notin {"ack", "confirm"}

\* What reached the main queue is handled or kept, whichever channels and processes
\* die: a delivery is acknowledged only after the handler returned or the copy for
\* the retry queue is safe, and what was not acknowledged comes back (ADR 0008).
NeverLost == \A m \in sent : Kept(m)

\* A message of a supported version reaches the dlq only after its handler threw on
\* the first attempt and on MaxRetries more.
DeadLettersWereRetried ==
  \A m \in dead : m \in Unsupported \/ failures[m] > MaxRetries
=============================================================================
