-------------------------- MODULE RetryQueueProofs --------------------------
(***************************************************************************)
(* The retry and dead-letter protocol of dispatch, for any messages,       *)
(* replicas and retry limit, and for any channels and processes that die.  *)
(***************************************************************************)
EXTENDS RetryQueue, TLAPS

-----------------------------------------------------------------------------
(* The queue: types. *)

Task(w, k) == task[w][k]

LEMMA NewCopyIsFresh == ASSUME HasRoom PROVE NewCopy \in Copies /\ Fresh(NewCopy)
BY DEF HasRoom, NewCopy

LEMMA NewTaskIsIdle ==
  ASSUME NEW w \in Replicas, \E k \in Tasks : task[w][k] = Idle
  PROVE  NewTask(w) \in Tasks /\ task[w][NewTask(w)] = Idle
BY DEF NewTask

\* The fields of a task, running or idle.
LEMMA TaskFields ==
  ASSUME TypeOK, NEW w \in Replicas, NEW k \in Tasks
  PROVE  /\ Task(w, k) \in Busy \cup {Idle} /\ Task(w, k) = task[w][k]
         /\ Task(w, k).pc # "idle" =>
              /\ Task(w, k) \in Busy /\ Task(w, k).msg \in Messages
              /\ Task(w, k).count \in 0..MaxRetries
         /\ Task(w, k).held \in Copies \cup {None}
         /\ Task(w, k).held # None => Task(w, k).pc # "idle"
BY DEF TypeOK, Busy, Idle, Task

LEMMA CopyFields ==
  ASSUME TypeOK, NEW c \in Copies, copy[c] # None
  PROVE  /\ copy[c] \in Copy
         /\ copy[c] = [msg |-> copy[c].msg, count |-> copy[c].count, at |-> copy[c].at]
         /\ copy[c].msg \in Messages /\ copy[c].count \in 0..MaxRetries
BY DEF TypeOK, Copy

\* The broker takes copies back without changing them otherwise.
LEMMA RequeuedKeepsCopies ==
  ASSUME TypeOK, NEW w \in Replicas
  PROVE  /\ Requeued(w) \in [Copies -> Copy \cup {None}]
         /\ \A c \in Copies :
              /\ (Requeued(w)[c] = None) <=> (copy[c] = None)
              /\ copy[c] # None => /\ Requeued(w)[c].msg = copy[c].msg
                                   /\ Requeued(w)[c].count = copy[c].count
              /\ (\A k \in Tasks : task[w][k].held # c) => Requeued(w)[c] = copy[c]
<1> SUFFICES ASSUME NEW c \in Copies
             PROVE  /\ Requeued(w)[c] \in Copy \cup {None}
                    /\ (Requeued(w)[c] = None) <=> (copy[c] = None)
                    /\ copy[c] # None => /\ Requeued(w)[c].msg = copy[c].msg
                                         /\ Requeued(w)[c].count = copy[c].count
                    /\ (\A k \in Tasks : task[w][k].held # c) => Requeued(w)[c] = copy[c]
  BY DEF Requeued
<1>1. CASE \E k \in Tasks : task[w][k].held = c
  <2>1. copy[c] \in Copy
    <3>1. PICK k \in Tasks : task[w][k].held = c
      BY <1>1
    <3>2. c # None
      BY QueueAssumption
    <3>3. copy[c] = [msg |-> task[w][k].msg, count |-> task[w][k].count, at |-> "unacked"]
      BY <3>1, <3>2 DEF TypeOK, HeldOK
    <3>4. task[w][k].msg \in Messages /\ task[w][k].count \in 0..MaxRetries
      BY <3>1, <3>2, TaskFields DEF Task
    <3> QED
      BY <3>3, <3>4 DEF Copy
  <2>2. Requeued(w)[c] = [copy[c] EXCEPT !.at = "main"]
    BY <1>1 DEF Requeued
  <2>3. [copy[c] EXCEPT !.at = "main"] \in Copy
    BY <2>1 DEF Copy
  <2>4. copy[c] # None /\ Requeued(w)[c] # None
    BY <2>1, <2>2, <2>3, QueueAssumption
  <2>5. Requeued(w)[c].msg = copy[c].msg /\ Requeued(w)[c].count = copy[c].count
    BY <2>1, <2>2 DEF Copy
  <2> QED
    BY <1>1, <2>2, <2>3, <2>4, <2>5
<1>2. CASE ~ \E k \in Tasks : task[w][k].held = c
  BY <1>2 DEF Requeued, TypeOK
<1> QED
  BY <1>1, <1>2

-----------------------------------------------------------------------------
(* The four ways to lose a channel, and what they have in common. *)

\* The channel of w is gone: its copies are back, its tasks hold nothing and are as
\* they were or ended.
LosesChannel(w) ==
  /\ connected' = connected \ {w} /\ copy' = Requeued(w)
  /\ UNCHANGED <<dead, sent, handled, failures>>
  /\ task' \in [Replicas -> [Tasks -> Busy \cup {Idle}]]
  /\ \A v \in Replicas \ {w} : task'[v] = task[v]
  /\ \A k \in Tasks :
       /\ task'[w][k].held = None
       /\ task'[w][k] # Idle =>
            /\ task[w][k] # Idle /\ task'[w][k].pc = task[w][k].pc
            /\ task'[w][k].msg = task[w][k].msg /\ task'[w][k].count = task[w][k].count

LEMMA ChannelLosses ==
  ASSUME TypeOK, NEW w \in Replicas,
         \/ Drop(w) \/ Die(w)
         \/ \E k \in Tasks : PublishRefused(w, k)
  PROVE  LosesChannel(w)
<1>1. \A l \in Tasks : LET t == [task[w][l] EXCEPT !.held = None] IN
        /\ t \in Busy \cup {Idle} /\ t.held = None
        /\ t # Idle => task[w][l] # Idle
        /\ t.pc = task[w][l].pc /\ t.msg = task[w][l].msg /\ t.count = task[w][l].count
  <2> SUFFICES ASSUME NEW l \in Tasks
               PROVE  LET t == [task[w][l] EXCEPT !.held = None] IN
                        /\ t \in Busy \cup {Idle} /\ t.held = None
                        /\ t # Idle => task[w][l] # Idle
                        /\ t.pc = task[w][l].pc /\ t.msg = task[w][l].msg
                        /\ t.count = task[w][l].count
    OBVIOUS
  <2>1. task[w][l] \in Busy \/ task[w][l] = Idle
    BY DEF TypeOK
  <2> QED
    BY <2>1 DEF Busy, Idle
<1>2. Idle.held = None
  BY DEF Idle
<1>3. CASE Drop(w)
  BY <1>1, <1>3 DEF Drop, LosesChannel, TypeOK
<1>4. CASE Die(w)
  BY <1>2, <1>4 DEF Die, LosesChannel, TypeOK
<1>5. ASSUME NEW k \in Tasks, PublishRefused(w, k)
      PROVE  LosesChannel(w)
  <2> DEFINE f == [l \in Tasks |-> IF l = k THEN Idle ELSE [task[w][l] EXCEPT !.held = None]]
  <2>1. task' = [task EXCEPT ![w] = f]
    BY <1>5 DEF PublishRefused, TypeOK
  <2>2. f \in [Tasks -> Busy \cup {Idle}] /\ \A l \in Tasks : f[l].held = None
    BY <1>1, <1>2
  <2>3. \A l \in Tasks : f[l] # Idle =>
          /\ task[w][l] # Idle /\ f[l].pc = task[w][l].pc
          /\ f[l].msg = task[w][l].msg /\ f[l].count = task[w][l].count
    BY <1>1
  <2> HIDE DEF f
  <2>4. task'[w] = f /\ \A v \in Replicas \ {w} : task'[v] = task[v]
    BY <2>1 DEF TypeOK
  <2>5. task' \in [Replicas -> [Tasks -> Busy \cup {Idle}]]
    BY <2>1, <2>2 DEF TypeOK
  <2> QED
    BY <1>5, <2>2, <2>3, <2>4, <2>5 DEF PublishRefused, LosesChannel
<1> QED
  BY <1>3, <1>4, <1>5

LEMMA LosingAChannelKeepsTypes ==
  ASSUME TypeOK, NEW w \in Replicas, LosesChannel(w) PROVE TypeOK'
<1>1. copy' \in [Copies -> Copy \cup {None}]
  BY RequeuedKeepsCopies DEF LosesChannel
<1>2. \A v \in Replicas, k \in Tasks : task'[v][k].held # None =>
        v # w /\ task'[v][k] = task[v][k]
  BY DEF LosesChannel
<1>3. \A v \in Replicas, k \in Tasks : task'[v][k].held # None =>
        /\ v \in connected'
        /\ copy'[task'[v][k].held] =
             [msg |-> task'[v][k].msg, count |-> task'[v][k].count, at |-> "unacked"]
  <2> SUFFICES ASSUME NEW v \in Replicas, NEW k \in Tasks, task'[v][k].held # None
               PROVE  /\ v \in connected'
                      /\ copy'[task'[v][k].held] = [msg |-> task'[v][k].msg,
                            count |-> task'[v][k].count, at |-> "unacked"]
    OBVIOUS
  <2>1. v # w /\ task'[v][k] = task[v][k]
    BY <1>2
  <2>2. task[v][k].held \in Copies /\ v \in connected
    BY <2>1, TaskFields DEF Task, TypeOK, HeldOK
  <2>3. \A l \in Tasks : task[w][l].held # task[v][k].held
    BY <2>1 DEF TypeOK, HeldOK
  <2>4. copy'[task[v][k].held] = copy[task[v][k].held]
    BY <2>2, <2>3, RequeuedKeepsCopies DEF LosesChannel
  <2> QED
    BY <2>1, <2>2, <2>4 DEF LosesChannel, TypeOK, HeldOK
<1>4. \A v, u \in Replicas, k, l \in Tasks :
        task'[v][k].held = task'[u][l].held => task'[v][k].held = None \/ (v = u /\ k = l)
  BY <1>2 DEF TypeOK, HeldOK
<1>5. HeldOK'
  BY <1>3, <1>4 DEF HeldOK
<1> QED
  BY <1>1, <1>5 DEF LosesChannel, TypeOK

-----------------------------------------------------------------------------
(* Type correctness. *)

LEMMA HeldAreUnacknowledged ==
  ASSUME TypeOK, NEW w \in Replicas, NEW k \in Tasks, task[w][k].held # None
  PROVE  /\ task[w][k].held \in Copies /\ w \in connected
         /\ copy[task[w][k].held] \in Copy /\ copy[task[w][k].held] # None
         /\ copy[task[w][k].held].at = "unacked"
         /\ copy[task[w][k].held].msg = task[w][k].msg
         /\ copy[task[w][k].held].count = task[w][k].count
<1>1. copy[task[w][k].held] = [msg |-> task[w][k].msg, count |-> task[w][k].count,
                               at |-> "unacked"]
  BY DEF TypeOK, HeldOK
<1>2. task[w][k].held \in Copies /\ w \in connected
  BY TaskFields DEF Task, TypeOK, HeldOK
<1>3. task[w][k].msg \in Messages /\ task[w][k].count \in 0..MaxRetries
  BY TaskFields DEF Task
<1>4. copy[task[w][k].held] \in Copy
  BY <1>1, <1>3 DEF Copy
<1> QED
  BY <1>1, <1>2, <1>4, QueueAssumption

\* A step of one task that leaves the held copies alone.
LEMMA HeldAfterATaskStep ==
  ASSUME TypeOK, NEW w \in Replicas, NEW k \in Tasks, connected' = connected,
         \A v \in Replicas, l \in Tasks : v # w \/ l # k => task'[v][l] = task[v][l],
         \/ task'[w][k].held = None
         \/ /\ task'[w][k].held = task[w][k].held
            /\ task'[w][k].msg = task[w][k].msg /\ task'[w][k].count = task[w][k].count,
         \A v \in Replicas, l \in Tasks : task'[v][l].held # None =>
           copy'[task'[v][l].held] = copy[task'[v][l].held]
  PROVE  HeldOK'
<1>1. \A v \in Replicas, l \in Tasks : task'[v][l].held # None =>
        /\ task'[v][l].held = task[v][l].held
        /\ task'[v][l].msg = task[v][l].msg /\ task'[v][l].count = task[v][l].count
  OBVIOUS
<1>2. \A v \in Replicas, l \in Tasks : task'[v][l].held # None =>
        /\ v \in connected'
        /\ copy'[task'[v][l].held] =
             [msg |-> task'[v][l].msg, count |-> task'[v][l].count, at |-> "unacked"]
  <2> SUFFICES ASSUME NEW v \in Replicas, NEW l \in Tasks, task'[v][l].held # None
               PROVE  /\ v \in connected'
                      /\ copy'[task'[v][l].held] = [msg |-> task'[v][l].msg,
                            count |-> task'[v][l].count, at |-> "unacked"]
    OBVIOUS
  <2>1. task'[v][l].held = task[v][l].held
        /\ task'[v][l].msg = task[v][l].msg /\ task'[v][l].count = task[v][l].count
    BY <1>1
  <2>2. copy'[task'[v][l].held] = copy[task[v][l].held]
    BY <2>1
  <2>3. v \in connected /\ copy[task[v][l].held] =
          [msg |-> task[v][l].msg, count |-> task[v][l].count, at |-> "unacked"]
    BY <2>1 DEF TypeOK, HeldOK
  <2> QED
    BY <2>1, <2>2, <2>3
<1>3. \A v, u \in Replicas, i, j \in Tasks :
        task'[v][i].held = task'[u][j].held => task'[v][i].held = None \/ (v = u /\ i = j)
  BY <1>1 DEF TypeOK, HeldOK
<1> QED
  BY <1>2, <1>3 DEF HeldOK

\* A fresh copy appears and nobody holds it.
LEMMA AddingACopy ==
  ASSUME TypeOK, HasRoom, NEW x \in Copy, copy' = [copy EXCEPT ![NewCopy] = x]
  PROVE  /\ copy' \in [Copies -> Copy \cup {None}]
         /\ NewCopy \in Copies /\ copy[NewCopy] = None /\ copy'[NewCopy] = x /\ x # None
         /\ \A c \in Copies : copy[c] # None => copy'[c] = copy[c]
BY NewCopyIsFresh, QueueAssumption DEF Fresh, TypeOK

LEMMA EndingATask ==
  ASSUME TypeOK, NEW w \in Replicas, NEW k \in Tasks, Becomes(w, k, Idle)
  PROVE  /\ task' \in [Replicas -> [Tasks -> Busy \cup {Idle}]]
         /\ task'[w][k] = Idle /\ task'[w][k].held = None
         /\ \A v \in Replicas, l \in Tasks : v # w \/ l # k => task'[v][l] = task[v][l]
<1>1. Idle \in Busy \cup {Idle} /\ Idle.held = None
  BY DEF Idle
<1>2. task' = [task EXCEPT ![w][k] = Idle] /\ task \in [Replicas -> [Tasks -> Busy \cup {Idle}]]
  BY DEF Becomes, TypeOK
<1> QED
  BY <1>1, <1>2

LEMMA MovingATask ==
  ASSUME TypeOK, NEW w \in Replicas, NEW k \in Tasks, task[w][k].pc # "idle",
         NEW pc \in {"handle", "ack", "fail", "deadletter", "confirm"}, Goto(w, k, pc)
  PROVE  /\ task' \in [Replicas -> [Tasks -> Busy \cup {Idle}]]
         /\ task'[w][k].pc = pc /\ task'[w][k] # Idle
         /\ task'[w][k].held = task[w][k].held
         /\ task'[w][k].msg = task[w][k].msg /\ task'[w][k].count = task[w][k].count
         /\ \A v \in Replicas, l \in Tasks : v # w \/ l # k => task'[v][l] = task[v][l]
<1> DEFINE t == [task[w][k] EXCEPT !.pc = pc]
<1>1. task[w][k] \in Busy
  BY TaskFields DEF Task
<1>2. t \in Busy /\ t.pc = pc /\ t.held = task[w][k].held
      /\ t.msg = task[w][k].msg /\ t.count = task[w][k].count
  BY <1>1 DEF Busy
<1>3. task' = [task EXCEPT ![w][k] = t]
  BY DEF Goto, TypeOK
<1> HIDE DEF t
<1>4. /\ task' \in [Replicas -> [Tasks -> Busy \cup {Idle}]] /\ task'[w][k] = t
      /\ \A v \in Replicas, l \in Tasks : v # w \/ l # k => task'[v][l] = task[v][l]
  <2>1. t \in Busy \cup {Idle}
    BY <1>2
  <2>2. task \in [Replicas -> [Tasks -> Busy \cup {Idle}]]
    BY DEF TypeOK
  <2> QED BY <1>3, <2>1, <2>2
<1> QED
  BY <1>2, <1>4 DEF Idle

LEMMA TypeOKInductive == TypeOK /\ [Next]_vars => TypeOK'
<1> SUFFICES ASSUME TypeOK, [Next]_vars PROVE TypeOK'
  OBVIOUS
<1>1. ASSUME NEW m \in Messages, Send(m) PROVE TypeOK'
  <2> DEFINE x == [msg |-> m, count |-> 0, at |-> "main"]
  <2>1. x \in Copy
    BY QueueAssumption DEF Copy
  <2>2. copy' = [copy EXCEPT ![NewCopy] = x] /\ HasRoom
    BY <1>1 DEF Send
  <2> HIDE DEF x
  <2>3. /\ copy' \in [Copies -> Copy \cup {None}]
        /\ \A c \in Copies : copy[c] # None => copy'[c] = copy[c]
    BY <2>1, <2>2, AddingACopy
  <2>4. HeldOK'
    BY <1>1, <2>3, HeldAreUnacknowledged DEF Send, HeldOK, TypeOK
  <2> QED
    BY <1>1, <2>3, <2>4 DEF Send, TypeOK
<1>2. ASSUME NEW c \in Copies, RetryExpires(c) PROVE TypeOK'
  <2>1. copy[c] \in Copy /\ copy' = [copy EXCEPT ![c] = [copy[c] EXCEPT !.at = "main"]]
    BY <1>2, CopyFields DEF RetryExpires, Fresh, TypeOK
  <2>2. [copy[c] EXCEPT !.at = "main"] \in Copy
    BY <2>1 DEF Copy
  <2>3. copy' \in [Copies -> Copy \cup {None}]
    BY <2>1, <2>2 DEF TypeOK
  <2>4. \A w \in Replicas, k \in Tasks : task[w][k].held # None => task[w][k].held # c
    BY <1>2, HeldAreUnacknowledged DEF RetryExpires
  <2>5. \A w \in Replicas, k \in Tasks :
          task[w][k].held # None => copy'[task[w][k].held] = copy[task[w][k].held]
    BY <2>1, <2>4, HeldAreUnacknowledged DEF TypeOK
  <2>6. HeldOK'
    BY <1>2, <2>5 DEF RetryExpires, HeldOK, TypeOK
  <2> QED
    BY <1>2, <2>3, <2>6 DEF RetryExpires, TypeOK
<1>3. ASSUME NEW w \in Replicas, Connect(w) PROVE TypeOK'
  BY <1>3 DEF Connect, TypeOK, HeldOK
<1>4. ASSUME NEW w \in Replicas, NEW c \in Copies, Deliver(w, c) PROVE TypeOK'
  <2> DEFINE k == NewTask(w)
             t == [pc |-> "handle", msg |-> copy[c].msg, count |-> copy[c].count, held |-> c]
  <2>1. copy[c] \in Copy /\ c # None
    BY <1>4, CopyFields, QueueAssumption DEF Deliver, Fresh
  <2>2. t \in Busy /\ t.held = c /\ t.msg = copy[c].msg /\ t.count = copy[c].count
    BY <2>1 DEF Busy, Copy
  <2>3. k \in Tasks /\ task' = [task EXCEPT ![w][k] = t]
    BY <1>4, NewTaskIsIdle DEF Deliver, Becomes
  <2> HIDE DEF t, k
  <2>4. /\ task' \in [Replicas -> [Tasks -> Busy \cup {Idle}]] /\ task'[w][k] = t
        /\ \A v \in Replicas, l \in Tasks : v # w \/ l # k => task'[v][l] = task[v][l]
    <3>1. t \in Busy \cup {Idle}
      BY <2>2
    <3>2. task \in [Replicas -> [Tasks -> Busy \cup {Idle}]]
      BY DEF TypeOK
    <3> QED BY <2>3, <3>1, <3>2
  <2>5. /\ [copy[c] EXCEPT !.at = "unacked"] \in Copy
        /\ [copy[c] EXCEPT !.at = "unacked"] =
             [msg |-> t.msg, count |-> t.count, at |-> "unacked"]
    BY <2>1, <2>2 DEF Copy
  <2>6. /\ copy' = [copy EXCEPT ![c] = [copy[c] EXCEPT !.at = "unacked"]]
        /\ copy' \in [Copies -> Copy \cup {None}]
    BY <1>4, <2>5 DEF Deliver, TypeOK
  <2>7. copy'[c] = [msg |-> t.msg, count |-> t.count, at |-> "unacked"]
        /\ \A d \in Copies : d # c => copy'[d] = copy[d]
    BY <2>5, <2>6 DEF TypeOK
  <2>8. \A v \in Replicas, l \in Tasks : task[v][l].held # c
    BY <1>4, <2>1, HeldAreUnacknowledged DEF Deliver
  <2>9. \A v \in Replicas, l \in Tasks : task'[v][l].held # None =>
          /\ v \in connected'
          /\ copy'[task'[v][l].held] =
               [msg |-> task'[v][l].msg, count |-> task'[v][l].count, at |-> "unacked"]
    <3> SUFFICES ASSUME NEW v \in Replicas, NEW l \in Tasks, task'[v][l].held # None
                 PROVE  /\ v \in connected'
                        /\ copy'[task'[v][l].held] = [msg |-> task'[v][l].msg,
                              count |-> task'[v][l].count, at |-> "unacked"]
      OBVIOUS
    <3>1. CASE v = w /\ l = k
      BY <1>4, <2>2, <2>4, <2>7, <3>1 DEF Deliver
    <3>2. CASE v # w \/ l # k
      <4>1. task'[v][l] = task[v][l]
        BY <2>4, <3>2
      <4>2. task[v][l].held \in Copies /\ task[v][l].held # c
        BY <2>8, <4>1, HeldAreUnacknowledged
      <4> QED
        BY <1>4, <2>7, <4>1, <4>2 DEF Deliver, TypeOK, HeldOK
    <3> QED
      BY <3>1, <3>2
  <2>10. \A v, u \in Replicas, i, j \in Tasks :
           task'[v][i].held = task'[u][j].held => task'[v][i].held = None \/ (v = u /\ i = j)
    BY <2>2, <2>4, <2>8 DEF TypeOK, HeldOK
  <2>11. HeldOK'
    BY <2>9, <2>10 DEF HeldOK
  <2> QED
    BY <1>4, <2>4, <2>6, <2>11 DEF Deliver, TypeOK
<1>5. ASSUME NEW w \in Replicas, NEW k \in Tasks, HandlerReturns(w, k) PROVE TypeOK'
  <2>1. /\ task' \in [Replicas -> [Tasks -> Busy \cup {Idle}]]
        /\ task'[w][k].held = task[w][k].held
        /\ task'[w][k].msg = task[w][k].msg /\ task'[w][k].count = task[w][k].count
        /\ \A v \in Replicas, l \in Tasks : v # w \/ l # k => task'[v][l] = task[v][l]
    BY <1>5, MovingATask DEF HandlerReturns
  <2>2. HeldOK'
    BY <1>5, <2>1, HeldAfterATaskStep DEF HandlerReturns
  <2>3. task[w][k].msg \in Messages
    BY <1>5, TaskFields DEF HandlerReturns, Task
  <2> QED
    BY <1>5, <2>1, <2>2, <2>3 DEF HandlerReturns, TypeOK
<1>6. ASSUME NEW w \in Replicas, NEW k \in Tasks, HandlerThrows(w, k) PROVE TypeOK'
  <2>1. /\ task' \in [Replicas -> [Tasks -> Busy \cup {Idle}]]
        /\ task'[w][k].held = task[w][k].held
        /\ task'[w][k].msg = task[w][k].msg /\ task'[w][k].count = task[w][k].count
        /\ \A v \in Replicas, l \in Tasks : v # w \/ l # k => task'[v][l] = task[v][l]
    BY <1>6, MovingATask DEF HandlerThrows
  <2>2. HeldOK'
    BY <1>6, <2>1, HeldAfterATaskStep DEF HandlerThrows
  <2>3. failures' \in [Messages -> 0..MaxRetries + 1]
    <3>1. task[w][k].msg \in Messages
      BY <1>6, TaskFields DEF HandlerThrows, Task
    <3>2. failures[task[w][k].msg] \in 0..MaxRetries + 1
      BY <3>1 DEF TypeOK
    <3> QED
      BY <1>6, <3>1, <3>2, QueueAssumption DEF HandlerThrows, TypeOK
  <2> QED
    BY <1>6, <2>1, <2>2, <2>3 DEF HandlerThrows, TypeOK
<1>7. ASSUME NEW w \in Replicas, NEW k \in Tasks, Ack(w, k) PROVE TypeOK'
  <2> DEFINE c == task[w][k].held
  <2>1. c \in Copies /\ copy' = [copy EXCEPT ![c] = None]
    BY <1>7, HeldAreUnacknowledged DEF Ack
  <2>2. /\ task' \in [Replicas -> [Tasks -> Busy \cup {Idle}]] /\ task'[w][k] = Idle
        /\ \A v \in Replicas, l \in Tasks : v # w \/ l # k => task'[v][l] = task[v][l]
    BY <1>7, EndingATask DEF Ack
  <2>3. task'[w][k].held = None
    BY <1>7, EndingATask DEF Ack
  <2>4. \A v \in Replicas, l \in Tasks : task'[v][l].held # None =>
          task'[v][l].held = task[v][l].held /\ task[v][l].held # c
    <3> SUFFICES ASSUME NEW v \in Replicas, NEW l \in Tasks, task'[v][l].held # None
                 PROVE  task'[v][l].held = task[v][l].held /\ task[v][l].held # c
      OBVIOUS
    <3>1. v # w \/ l # k
      BY <2>3
    <3>2. task'[v][l] = task[v][l]
      BY <2>2, <3>1
    <3>3. task[w][k].held # None /\ task[v][l].held # None
      BY <2>1, <3>2, QueueAssumption
    <3> QED BY <3>1, <3>2, <3>3 DEF TypeOK, HeldOK
  <2>5. \A v \in Replicas, l \in Tasks : task'[v][l].held # None =>
          copy'[task'[v][l].held] = copy[task'[v][l].held]
    BY <2>1, <2>4, HeldAreUnacknowledged DEF TypeOK
  <2>6. connected' = connected
    BY <1>7 DEF Ack
  <2>7. HeldOK'
    BY <2>2, <2>3, <2>5, <2>6, HeldAfterATaskStep
  <2> QED
    BY <1>7, <2>1, <2>2, <2>7 DEF Ack, TypeOK
<1>8. ASSUME NEW w \in Replicas, NEW k \in Tasks, PublishCopy(w, k) PROVE TypeOK'
  <2>1. /\ task' \in [Replicas -> [Tasks -> Busy \cup {Idle}]]
        /\ task'[w][k].held = task[w][k].held
        /\ task'[w][k].msg = task[w][k].msg /\ task'[w][k].count = task[w][k].count
        /\ \A v \in Replicas, l \in Tasks : v # w \/ l # k => task'[v][l] = task[v][l]
    BY <1>8, MovingATask DEF PublishCopy
  <2>2. task[w][k].msg \in Messages /\ task[w][k].count \in 0..MaxRetries
    BY <1>8, TaskFields DEF PublishCopy, Task
  <2>3. /\ copy' \in [Copies -> Copy \cup {None}] /\ dead' \subseteq Messages
        /\ \A c \in Copies : copy[c] # None => copy'[c] = copy[c]
    <3>1. CASE task[w][k].pc = "fail" /\ task[w][k].count < MaxRetries
      <4> DEFINE x == [msg |-> task[w][k].msg, count |-> task[w][k].count + 1, at |-> "retry"]
      <4>1. x \in Copy
        BY <2>2, <3>1, QueueAssumption DEF Copy
      <4>2. copy' = [copy EXCEPT ![NewCopy] = x] /\ HasRoom /\ dead' = dead
        BY <1>8, <3>1 DEF PublishCopy
      <4> HIDE DEF x
      <4> QED
        BY <4>1, <4>2, AddingACopy DEF TypeOK
    <3>2. CASE ~ (task[w][k].pc = "fail" /\ task[w][k].count < MaxRetries)
      BY <1>8, <2>2, <3>2 DEF PublishCopy, TypeOK
    <3> QED
      BY <3>1, <3>2
  <2>4. \A v \in Replicas, l \in Tasks : task'[v][l].held # None =>
          copy'[task'[v][l].held] = copy[task'[v][l].held]
    BY <2>1, <2>3, HeldAreUnacknowledged
  <2>5. HeldOK'
    BY <1>8, <2>1, <2>4, HeldAfterATaskStep DEF PublishCopy
  <2> QED
    BY <1>8, <2>1, <2>3, <2>5 DEF PublishCopy, TypeOK
<1>9. ASSUME NEW w \in Replicas, NEW k \in Tasks, GiveUp(w, k) PROVE TypeOK'
  <2>1. /\ task' \in [Replicas -> [Tasks -> Busy \cup {Idle}]] /\ task'[w][k] = Idle
        /\ \A v \in Replicas, l \in Tasks : v # w \/ l # k => task'[v][l] = task[v][l]
    BY <1>9, EndingATask DEF GiveUp
  <2>2. task'[w][k].held = None
    BY <1>9, EndingATask DEF GiveUp
  <2>3. HeldOK'
    BY <1>9, <2>1, <2>2, HeldAfterATaskStep DEF GiveUp
  <2> QED
    BY <1>9, <2>1, <2>3 DEF GiveUp, TypeOK
<1>10. ASSUME NEW w \in Replicas,
              \/ Drop(w) \/ Die(w)
              \/ \E k \in Tasks : PublishRefused(w, k)
       PROVE  TypeOK'
  BY <1>10, ChannelLosses, LosingAChannelKeepsTypes
<1>11. CASE UNCHANGED vars
  BY <1>11 DEF vars, TypeOK, HeldOK
<1> QED
  BY <1>1, <1>2, <1>3, <1>4, <1>5, <1>6, <1>7, <1>8, <1>9, <1>10, <1>11
  DEF Next, TaskStep

LEMMA TypeOKInitially == Init => TypeOK
<1> SUFFICES ASSUME Init PROVE TypeOK
  OBVIOUS
<1>1. \A w \in Replicas, k \in Tasks : task[w][k] = Idle /\ Idle.held = None
  BY DEF Init, Idle
<1>2. HeldOK
  BY <1>1 DEF HeldOK
<1> QED
  BY <1>2, QueueAssumption DEF Init, TypeOK

\* Copies, tasks and queues stay well-formed, and no two calls of dispatch ever hold
\* the same delivery.
THEOREM TypeCorrect == Spec => []TypeOK
BY TypeOKInitially, TypeOKInductive, PTL DEF Spec

-----------------------------------------------------------------------------
(* Nothing is lost. *)

\* c is a copy of m whose task, if it has one, still depends on it.
Keeps(c, m) ==
  /\ copy[c] # None /\ copy[c].msg = m
  /\ \A w \in Replicas, k \in Tasks :
       task[w][k].held = c => task[w][k].pc \notin {"ack", "confirm"}

\* The copies that keep m are kept by the step, and so is m.
LEMMA KeptStep ==
  ASSUME NEW m \in Messages, Kept(m), handled \subseteq handled', dead \subseteq dead',
         \A c \in Copies : Keeps(c, m) => Keeps(c, m)' \/ Kept(m)'
  PROVE  Kept(m)'
BY DEF Kept, Keeps

LEMMA NeverLostInductive == TypeOK /\ NeverLost /\ [Next]_vars => NeverLost'
<1> SUFFICES ASSUME TypeOK, NeverLost, [Next]_vars PROVE NeverLost'
  OBVIOUS
<1>1. ASSUME NEW m \in Messages, Send(m) PROVE NeverLost'
  <2> DEFINE x == [msg |-> m, count |-> 0, at |-> "main"]
  <2>1. x \in Copy /\ x.msg = m
    BY QueueAssumption DEF Copy
  <2>2. copy' = [copy EXCEPT ![NewCopy] = x] /\ HasRoom
    BY <1>1 DEF Send
  <2> HIDE DEF x
  <2>3. /\ NewCopy \in Copies /\ copy[NewCopy] = None /\ copy'[NewCopy] = x /\ x # None
        /\ \A c \in Copies : copy[c] # None => copy'[c] = copy[c]
    BY <2>1, <2>2, AddingACopy
  <2>4. \A w \in Replicas, k \in Tasks : task[w][k].held # NewCopy
    BY <2>3, HeldAreUnacknowledged, QueueAssumption
  <2>5. Kept(m)'
    BY <1>1, <2>1, <2>3, <2>4 DEF Send, Kept
  <2>6. \A n \in sent : Kept(n)'
    BY <1>1, <2>3 DEF Send, Kept, NeverLost, TypeOK
  <2> QED
    BY <1>1, <2>5, <2>6 DEF Send, NeverLost
<1>2. ASSUME NEW c \in Copies, RetryExpires(c) PROVE NeverLost'
  <2>1. copy[c] \in Copy /\ copy' = [copy EXCEPT ![c] = [copy[c] EXCEPT !.at = "main"]]
    BY <1>2, CopyFields DEF RetryExpires, Fresh, TypeOK
  <2>2. [copy[c] EXCEPT !.at = "main"] \in Copy
        /\ [copy[c] EXCEPT !.at = "main"].msg = copy[c].msg
    BY <2>1 DEF Copy
  <2>3. \A d \in Copies : copy[d] # None => copy'[d] # None /\ copy'[d].msg = copy[d].msg
    BY <2>1, <2>2, QueueAssumption DEF TypeOK
  <2> QED
    BY <1>2, <2>3 DEF RetryExpires, NeverLost, Kept
<1>3. ASSUME NEW w \in Replicas, Connect(w) PROVE NeverLost'
  BY <1>3 DEF Connect, NeverLost, Kept
<1>4. ASSUME NEW w \in Replicas, NEW c \in Copies, Deliver(w, c) PROVE NeverLost'
  <2> DEFINE k == NewTask(w)
             t == [pc |-> "handle", msg |-> copy[c].msg, count |-> copy[c].count, held |-> c]
  <2>1. copy[c] \in Copy
    BY <1>4, CopyFields DEF Deliver, Fresh
  <2>2. t \in Busy /\ t.pc = "handle"
    BY <2>1 DEF Busy, Copy
  <2>3. k \in Tasks /\ task' = [task EXCEPT ![w][k] = t]
    BY <1>4, NewTaskIsIdle DEF Deliver, Becomes
  <2> HIDE DEF t, k
  <2>4. /\ task' \in [Replicas -> [Tasks -> Busy \cup {Idle}]] /\ task'[w][k] = t
        /\ \A v \in Replicas, l \in Tasks : v # w \/ l # k => task'[v][l] = task[v][l]
    <3>1. t \in Busy \cup {Idle}
      BY <2>2
    <3>2. task \in [Replicas -> [Tasks -> Busy \cup {Idle}]]
      BY DEF TypeOK
    <3> QED BY <2>3, <3>1, <3>2
  <2>5. [copy[c] EXCEPT !.at = "unacked"] \in Copy
        /\ [copy[c] EXCEPT !.at = "unacked"].msg = copy[c].msg
    BY <2>1 DEF Copy
  <2>6. copy' = [copy EXCEPT ![c] = [copy[c] EXCEPT !.at = "unacked"]]
    BY <1>4 DEF Deliver
  <2>7. \A d \in Copies : copy[d] # None => copy'[d] # None /\ copy'[d].msg = copy[d].msg
    BY <2>5, <2>6, QueueAssumption DEF TypeOK
  <2>8. \A d \in Copies, m \in Messages : Keeps(d, m) => Keeps(d, m)'
    BY <2>2, <2>4, <2>7 DEF Keeps
  <2>9. \A m \in Messages : Kept(m) => Kept(m)'
    BY <1>4, <2>8, KeptStep DEF Deliver
  <2> QED
    BY <1>4, <2>9 DEF Deliver, NeverLost, TypeOK
<1>5. ASSUME NEW w \in Replicas, NEW k \in Tasks, HandlerReturns(w, k) PROVE NeverLost'
  <2>1. \A v \in Replicas, l \in Tasks : v # w \/ l # k => task'[v][l] = task[v][l]
    BY <1>5, MovingATask DEF HandlerReturns
  <2>2. task'[w][k].held = task[w][k].held
    BY <1>5, MovingATask DEF HandlerReturns
  <2>3. \A d \in Copies, m \in Messages : Keeps(d, m) => Keeps(d, m)' \/ Kept(m)'
    <3> SUFFICES ASSUME NEW d \in Copies, NEW m \in Messages, Keeps(d, m)
                 PROVE  Keeps(d, m)' \/ Kept(m)'
      OBVIOUS
    <3>1. CASE task[w][k].held = d
      <4>1. d # None
        BY QueueAssumption
      <4>2. task[w][k].msg = m
        BY <3>1, <4>1, HeldAreUnacknowledged DEF Keeps
      <4> QED
        BY <1>5, <4>2 DEF HandlerReturns, Kept
    <3>2. CASE task[w][k].held # d
      <4>1. \A v \in Replicas, l \in Tasks : task'[v][l].held = d =>
              task'[v][l] = task[v][l]
        BY <2>1, <2>2, <3>2
      <4> QED
        BY <1>5, <4>1 DEF HandlerReturns, Keeps
    <3> QED
      BY <3>1, <3>2
  <2>4. \A m \in Messages : Kept(m) => Kept(m)'
    BY <1>5, <2>3, KeptStep DEF HandlerReturns
  <2> QED
    BY <1>5, <2>4 DEF HandlerReturns, NeverLost, TypeOK
<1>6. ASSUME NEW w \in Replicas, NEW k \in Tasks, HandlerThrows(w, k) PROVE NeverLost'
  <2> DEFINE pc == IF task[w][k].msg \in Unsupported THEN "deadletter" ELSE "fail"
  <2>1. pc \in {"handle", "ack", "fail", "deadletter", "confirm"} /\ pc \notin {"ack", "confirm"}
    OBVIOUS
  <2>2. task[w][k].pc # "idle" /\ Goto(w, k, pc)
    BY <1>6 DEF HandlerThrows
  <2> HIDE DEF pc
  <2>3. /\ task'[w][k].pc = pc
        /\ \A v \in Replicas, l \in Tasks : v # w \/ l # k => task'[v][l] = task[v][l]
    BY <2>1, <2>2, MovingATask
  <2>4. \A d \in Copies, m \in Messages : Keeps(d, m) => Keeps(d, m)'
    BY <1>6, <2>1, <2>3 DEF HandlerThrows, Keeps
  <2>5. \A m \in Messages : Kept(m) => Kept(m)'
    BY <1>6, <2>4, KeptStep DEF HandlerThrows
  <2> QED
    BY <1>6, <2>5 DEF HandlerThrows, NeverLost, TypeOK
<1>7. ASSUME NEW w \in Replicas, NEW k \in Tasks, Ack(w, k) PROVE NeverLost'
  <2> DEFINE c == task[w][k].held
  <2>1. c \in Copies /\ copy' = [copy EXCEPT ![c] = None]
    BY <1>7, HeldAreUnacknowledged DEF Ack
  <2>2. \A v \in Replicas, l \in Tasks : v # w \/ l # k => task'[v][l] = task[v][l]
    BY <1>7, EndingATask DEF Ack
  <2>3. task'[w][k].held = None
    BY <1>7, EndingATask DEF Ack
  <2>4. \A d \in Copies, m \in Messages : Keeps(d, m) => Keeps(d, m)'
    <3> SUFFICES ASSUME NEW d \in Copies, NEW m \in Messages, Keeps(d, m)
                 PROVE  Keeps(d, m)'
      OBVIOUS
    <3>1. d # c
      BY <1>7 DEF Ack, Keeps
    <3>2. copy'[d] = copy[d]
      BY <2>1, <3>1 DEF TypeOK
    <3>3. d # None
      BY QueueAssumption
    <3> QED
      BY <2>2, <2>3, <3>2, <3>3 DEF Keeps
  <2>5. \A m \in Messages : Kept(m) => Kept(m)'
    BY <1>7, <2>4, KeptStep DEF Ack
  <2> QED
    BY <1>7, <2>5 DEF Ack, NeverLost, TypeOK
<1>8. ASSUME NEW w \in Replicas, NEW k \in Tasks, PublishCopy(w, k) PROVE NeverLost'
  <2>1. PICK n \in Messages : n = task[w][k].msg
    BY <1>8, TaskFields DEF PublishCopy, Task
  <2>2. /\ task'[w][k].held = task[w][k].held
        /\ \A v \in Replicas, l \in Tasks : v # w \/ l # k => task'[v][l] = task[v][l]
    BY <1>8, MovingATask DEF PublishCopy
  <2>3. /\ \A c \in Copies : copy[c] # None => copy'[c] = copy[c]
        /\ Kept(n)' /\ dead \subseteq dead'
    <3>1. CASE task[w][k].pc = "fail" /\ task[w][k].count < MaxRetries
      <4> DEFINE x == [msg |-> n, count |-> task[w][k].count + 1, at |-> "retry"]
      <4>1. x \in Copy /\ x.msg = n
        <5>1. task[w][k].count \in 0..MaxRetries
          BY <1>8, TaskFields DEF PublishCopy, Task
        <5> QED
          BY <3>1, <5>1, QueueAssumption DEF Copy
      <4>2. copy' = [copy EXCEPT ![NewCopy] = x] /\ HasRoom /\ dead' = dead
        BY <1>8, <2>1, <3>1 DEF PublishCopy
      <4> HIDE DEF x
      <4>3. /\ NewCopy \in Copies /\ copy[NewCopy] = None /\ copy'[NewCopy] = x /\ x # None
            /\ \A c \in Copies : copy[c] # None => copy'[c] = copy[c]
        BY <4>1, <4>2, AddingACopy
      <4>4. \A v \in Replicas, l \in Tasks : task[v][l].held # NewCopy
        BY <4>3, HeldAreUnacknowledged, QueueAssumption
      <4>5. \A v \in Replicas, l \in Tasks : task'[v][l].held # NewCopy
        BY <2>2, <4>4
      <4>6. Kept(n)'
        BY <4>1, <4>3, <4>5 DEF Kept
      <4> QED
        BY <4>2, <4>3, <4>6
    <3>2. CASE ~ (task[w][k].pc = "fail" /\ task[w][k].count < MaxRetries)
      <4>1. copy' = copy /\ dead' = dead \cup {n}
        BY <1>8, <2>1, <3>2 DEF PublishCopy
      <4> QED
        BY <4>1 DEF Kept
    <3> QED
      BY <3>1, <3>2
  <2>4. \A d \in Copies, m \in Messages : Keeps(d, m) => Keeps(d, m)' \/ Kept(m)'
    <3> SUFFICES ASSUME NEW d \in Copies, NEW m \in Messages, Keeps(d, m)
                 PROVE  Keeps(d, m)' \/ Kept(m)'
      OBVIOUS
    <3>1. CASE task[w][k].held = d
      <4>1. d # None
        BY QueueAssumption
      <4>2. n = m
        BY <2>1, <3>1, <4>1, HeldAreUnacknowledged DEF Keeps
      <4> QED
        BY <2>3, <4>2
    <3>2. CASE task[w][k].held # d
      <4>1. \A v \in Replicas, l \in Tasks : task'[v][l].held = d =>
              task'[v][l] = task[v][l]
        BY <2>2, <3>2
      <4> QED
        BY <2>3, <4>1 DEF Keeps
    <3> QED
      BY <3>1, <3>2
  <2>5. \A m \in Messages : Kept(m) => Kept(m)'
    BY <1>8, <2>3, <2>4, KeptStep DEF PublishCopy
  <2> QED
    BY <1>8, <2>5 DEF PublishCopy, NeverLost, TypeOK
<1>9. ASSUME NEW w \in Replicas, NEW k \in Tasks, GiveUp(w, k) PROVE NeverLost'
  <2>1. \A v \in Replicas, l \in Tasks : v # w \/ l # k => task'[v][l] = task[v][l]
    BY <1>9, EndingATask DEF GiveUp
  <2>2. task'[w][k].held = None
    BY <1>9, EndingATask DEF GiveUp
  <2>3. \A d \in Copies, m \in Messages : Keeps(d, m) => Keeps(d, m)'
    BY <1>9, <2>1, <2>2, QueueAssumption DEF GiveUp, Keeps
  <2>4. \A m \in Messages : Kept(m) => Kept(m)'
    BY <1>9, <2>3, KeptStep DEF GiveUp
  <2> QED
    BY <1>9, <2>4 DEF GiveUp, NeverLost, TypeOK
<1>10. ASSUME NEW w \in Replicas,
              \/ Drop(w) \/ Die(w)
              \/ \E k \in Tasks : PublishRefused(w, k)
       PROVE  NeverLost'
  <2>1. LosesChannel(w)
    BY <1>10, ChannelLosses
  <2>2. \A d \in Copies : copy[d] # None => copy'[d] # None /\ copy'[d].msg = copy[d].msg
    BY <2>1, RequeuedKeepsCopies DEF LosesChannel
  <2>3. \A v \in Replicas, l \in Tasks : task'[v][l].held # None =>
          task'[v][l] = task[v][l]
    BY <2>1 DEF LosesChannel
  <2>4. \A d \in Copies, m \in Messages : Keeps(d, m) => Keeps(d, m)'
    BY <2>2, <2>3, QueueAssumption DEF Keeps
  <2>5. \A m \in Messages : Kept(m) => Kept(m)'
    BY <2>1, <2>4, KeptStep DEF LosesChannel
  <2> QED
    BY <2>1, <2>5 DEF LosesChannel, NeverLost, TypeOK
<1>11. CASE UNCHANGED vars
  BY <1>11 DEF vars, NeverLost, Kept
<1> QED
  BY <1>1, <1>2, <1>3, <1>4, <1>5, <1>6, <1>7, <1>8, <1>9, <1>10, <1>11
  DEF Next, TaskStep

\* What a producer got into the main queue is handled, in the dlq or with the broker,
\* for any losses of channels and processes.
THEOREM NeverLostHolds == Spec => []NeverLost
<1>1. Init => NeverLost
  BY DEF Init, NeverLost
<1> QED
  BY <1>1, TypeCorrect, NeverLostInductive, PTL DEF Spec

-----------------------------------------------------------------------------
(* The dlq is the last resort. *)

\* x-retry-count never runs ahead of the failures there were, in the broker or in a
\* task, and a task whose handler threw has one failure more than its delivery counts.
FailuresCounted ==
  /\ \A c \in Copies : copy[c] # None => copy[c].count <= failures[copy[c].msg]
  /\ \A w \in Replicas, k \in Tasks : LET t == task[w][k] IN
       /\ t.pc # "idle" => t.count <= failures[t.msg]
       /\ t.pc = "fail" => t.count < failures[t.msg]
       /\ t.pc = "deadletter" => t.msg \in Unsupported

DeadInv == FailuresCounted /\ DeadLettersWereRetried

\* A step that runs no handler, makes no copy and fills no dlq keeps DeadInv, if every
\* copy and every task is as one was before.
LEMMA CountsStay ==
  ASSUME DeadInv, failures' = failures, dead' = dead,
         \A c \in Copies : copy'[c] # None =>
           /\ copy[c] # None /\ copy'[c].msg = copy[c].msg /\ copy'[c].count = copy[c].count,
         \A w \in Replicas, k \in Tasks : task'[w][k].pc # "idle" =>
           /\ task[w][k].pc # "idle"
           /\ task'[w][k].pc \in {"fail", "deadletter"} => task[w][k].pc = task'[w][k].pc
           /\ task'[w][k].msg = task[w][k].msg /\ task'[w][k].count = task[w][k].count
  PROVE  DeadInv'
BY DEF DeadInv, FailuresCounted, DeadLettersWereRetried

LEMMA DeadInvInductive == TypeOK /\ DeadInv /\ [Next]_vars => DeadInv'
<1> SUFFICES ASSUME TypeOK, DeadInv, [Next]_vars PROVE DeadInv'
  OBVIOUS
<1>0. \A m \in Messages : failures[m] \in 0..MaxRetries + 1
  BY DEF TypeOK
<1>1. ASSUME NEW m \in Messages, Send(m) PROVE DeadInv'
  <2> DEFINE x == [msg |-> m, count |-> 0, at |-> "main"]
  <2>1. x \in Copy /\ x.msg = m /\ x.count = 0
    BY QueueAssumption DEF Copy
  <2>2. copy' = [copy EXCEPT ![NewCopy] = x] /\ HasRoom
    BY <1>1 DEF Send
  <2> HIDE DEF x
  <2>3. \A c \in Copies : copy'[c] = copy[c] \/ copy'[c] = x
    BY <2>2 DEF TypeOK
  <2> QED
    BY <1>0, <1>1, <2>1, <2>3
    DEF Send, DeadInv, FailuresCounted, DeadLettersWereRetried
<1>2. ASSUME NEW c \in Copies, RetryExpires(c) PROVE DeadInv'
  <2>1. copy[c] \in Copy /\ copy' = [copy EXCEPT ![c] = [copy[c] EXCEPT !.at = "main"]]
    BY <1>2, CopyFields DEF RetryExpires, Fresh, TypeOK
  <2>2. /\ [copy[c] EXCEPT !.at = "main"].msg = copy[c].msg
        /\ [copy[c] EXCEPT !.at = "main"].count = copy[c].count
    BY <2>1 DEF Copy
  <2>3. \A d \in Copies : copy'[d] # None =>
          copy[d] # None /\ copy'[d].msg = copy[d].msg /\ copy'[d].count = copy[d].count
    BY <1>2, <2>1, <2>2 DEF RetryExpires, Fresh, TypeOK
  <2> QED
    BY <1>2, <2>3, CountsStay DEF RetryExpires
<1>3. ASSUME NEW w \in Replicas, Connect(w) PROVE DeadInv'
  BY <1>3, CountsStay DEF Connect
<1>4. ASSUME NEW w \in Replicas, NEW c \in Copies, Deliver(w, c) PROVE DeadInv'
  <2> DEFINE k == NewTask(w)
             t == [pc |-> "handle", msg |-> copy[c].msg, count |-> copy[c].count, held |-> c]
  <2>1. copy[c] \in Copy /\ copy[c] # None /\ copy[c].count <= failures[copy[c].msg]
    BY <1>4, CopyFields DEF Deliver, Fresh, DeadInv, FailuresCounted
  <2>2. /\ t \in Busy /\ t.pc = "handle" /\ t.msg = copy[c].msg
        /\ t.count <= failures[t.msg]
    BY <2>1 DEF Busy, Copy
  <2>3. k \in Tasks /\ task' = [task EXCEPT ![w][k] = t]
    BY <1>4, NewTaskIsIdle DEF Deliver, Becomes
  <2> HIDE DEF t, k
  <2>4. /\ task' \in [Replicas -> [Tasks -> Busy \cup {Idle}]] /\ task'[w][k] = t
        /\ \A v \in Replicas, l \in Tasks : v # w \/ l # k => task'[v][l] = task[v][l]
    BY <2>2, <2>3 DEF TypeOK
  <2>5. /\ [copy[c] EXCEPT !.at = "unacked"].msg = copy[c].msg
        /\ [copy[c] EXCEPT !.at = "unacked"].count = copy[c].count
    BY <2>1 DEF Copy
  <2>6. copy' = [copy EXCEPT ![c] = [copy[c] EXCEPT !.at = "unacked"]]
        /\ failures' = failures /\ dead' = dead
    BY <1>4 DEF Deliver
  <2>7. \A d \in Copies : copy'[d] # None =>
          copy[d] # None /\ copy'[d].msg = copy[d].msg /\ copy'[d].count = copy[d].count
    BY <2>1, <2>5, <2>6 DEF TypeOK
  <2> QED
    BY <2>2, <2>4, <2>6, <2>7 DEF DeadInv, FailuresCounted, DeadLettersWereRetried
<1>5. ASSUME NEW w \in Replicas, NEW k \in Tasks, HandlerReturns(w, k) PROVE DeadInv'
  <2>1. /\ task'[w][k].pc = "ack"
        /\ task'[w][k].msg = task[w][k].msg /\ task'[w][k].count = task[w][k].count
        /\ \A v \in Replicas, l \in Tasks : v # w \/ l # k => task'[v][l] = task[v][l]
    BY <1>5, MovingATask DEF HandlerReturns
  <2> QED
    BY <1>5, <2>1, CountsStay DEF HandlerReturns
<1>6. ASSUME NEW w \in Replicas, NEW k \in Tasks, HandlerThrows(w, k) PROVE DeadInv'
  <2> DEFINE pc == IF task[w][k].msg \in Unsupported THEN "deadletter" ELSE "fail"
  <2>1. pc \in {"handle", "ack", "fail", "deadletter", "confirm"}
    OBVIOUS
  <2>2. task[w][k].pc # "idle" /\ Goto(w, k, pc)
    BY <1>6 DEF HandlerThrows
  <2>3. /\ pc = "deadletter" => task[w][k].msg \in Unsupported
        /\ pc \in {"fail", "deadletter"}
    OBVIOUS
  <2> HIDE DEF pc
  <2>4. /\ task'[w][k].pc = pc
        /\ task'[w][k].msg = task[w][k].msg /\ task'[w][k].count = task[w][k].count
        /\ \A v \in Replicas, l \in Tasks : v # w \/ l # k => task'[v][l] = task[v][l]
    BY <2>1, <2>2, MovingATask
  <2>5. /\ task[w][k].msg \in Messages /\ task[w][k].count \in 0..MaxRetries
        /\ task[w][k].count <= failures[task[w][k].msg]
    BY <2>2, TaskFields DEF Task, DeadInv, FailuresCounted
  <2>6. /\ \A m \in Messages : failures'[m] \in 0..MaxRetries + 1 /\ failures[m] <= failures'[m]
        /\ task[w][k].count < failures'[task[w][k].msg]
    BY <1>0, <1>6, <2>5, QueueAssumption DEF HandlerThrows, TypeOK
  <2>7. copy' = copy /\ dead' = dead
    BY <1>6 DEF HandlerThrows
  <2>8. \A c \in Copies : copy'[c] # None => copy'[c].count <= failures'[copy'[c].msg]
    <3> SUFFICES ASSUME NEW c \in Copies, copy[c] # None
                 PROVE  copy[c].count <= failures'[copy[c].msg]
      BY <2>7
    <3>1. copy[c].msg \in Messages /\ copy[c].count \in 0..MaxRetries
      BY CopyFields
    <3>2. copy[c].count <= failures[copy[c].msg]
      BY DEF DeadInv, FailuresCounted
    <3> QED
      BY <1>0, <2>6, <3>1, <3>2, QueueAssumption
  <2>9. \A v \in Replicas, l \in Tasks : LET t == task'[v][l] IN
          /\ t.pc # "idle" => t.count <= failures'[t.msg]
          /\ t.pc = "fail" => t.count < failures'[t.msg]
          /\ t.pc = "deadletter" => t.msg \in Unsupported
    <3> SUFFICES ASSUME NEW v \in Replicas, NEW l \in Tasks, task'[v][l].pc # "idle"
                 PROVE  /\ task'[v][l].count <= failures'[task'[v][l].msg]
                        /\ task'[v][l].pc = "fail" =>
                             task'[v][l].count < failures'[task'[v][l].msg]
                        /\ task'[v][l].pc = "deadletter" => task'[v][l].msg \in Unsupported
      OBVIOUS
    <3>1. CASE v = w /\ l = k
      BY <2>3, <2>4, <2>5, <2>6, <3>1
    <3>2. CASE v # w \/ l # k
      <4>1. task'[v][l] = task[v][l]
        BY <2>4, <3>2
      <4>2. task[v][l].msg \in Messages /\ task[v][l].count \in 0..MaxRetries
        BY <4>1, TaskFields DEF Task
      <4> QED
        BY <1>0, <2>6, <4>1, <4>2, QueueAssumption DEF DeadInv, FailuresCounted
    <3> QED
      BY <3>1, <3>2
  <2>10. DeadLettersWereRetried'
    BY <1>0, <2>6, <2>7, QueueAssumption DEF DeadInv, DeadLettersWereRetried, TypeOK
  <2> QED
    BY <2>8, <2>9, <2>10 DEF DeadInv, FailuresCounted
<1>7. ASSUME NEW w \in Replicas, NEW k \in Tasks, Ack(w, k) PROVE DeadInv'
  <2> DEFINE c == task[w][k].held
  <2>1. copy' = [copy EXCEPT ![c] = None]
    BY <1>7 DEF Ack
  <2>2. \A d \in Copies : copy'[d] # None => copy'[d] = copy[d]
    BY <2>1 DEF TypeOK
  <2>3. \A v \in Replicas, l \in Tasks : v # w \/ l # k => task'[v][l] = task[v][l]
    BY <1>7, EndingATask DEF Ack
  <2>4. task'[w][k].pc = "idle"
    BY <1>7, EndingATask DEF Ack, Idle
  <2> QED
    BY <1>7, <2>2, <2>3, <2>4, CountsStay DEF Ack
<1>8. ASSUME NEW w \in Replicas, NEW k \in Tasks, PublishCopy(w, k) PROVE DeadInv'
  <2>1. PICK n \in Messages : n = task[w][k].msg
    BY <1>8, TaskFields DEF PublishCopy, Task
  <2>2. PICK i \in 0..MaxRetries : i = task[w][k].count
    BY <1>8, TaskFields DEF PublishCopy, Task
  <2>3. /\ task'[w][k].pc = "confirm" /\ task'[w][k].msg = n /\ task'[w][k].count = i
        /\ \A v \in Replicas, l \in Tasks : v # w \/ l # k => task'[v][l] = task[v][l]
    BY <1>8, <2>1, <2>2, MovingATask DEF PublishCopy
  <2>4. failures' = failures /\ i <= failures[n]
    BY <1>8, <2>1, <2>2 DEF PublishCopy, DeadInv, FailuresCounted
  <2>5. \A v \in Replicas, l \in Tasks : LET t == task'[v][l] IN
          /\ t.pc # "idle" => t.count <= failures'[t.msg]
          /\ t.pc = "fail" => t.count < failures'[t.msg]
          /\ t.pc = "deadletter" => t.msg \in Unsupported
    BY <2>3, <2>4 DEF DeadInv, FailuresCounted
  <2>6. CASE task[w][k].pc = "fail" /\ task[w][k].count < MaxRetries
    <3> DEFINE x == [msg |-> n, count |-> i + 1, at |-> "retry"]
    <3>1. x.msg = n /\ x.count = i + 1
      OBVIOUS
    <3>2. copy' = [copy EXCEPT ![NewCopy] = x] /\ dead' = dead
      BY <1>8, <2>1, <2>2, <2>6 DEF PublishCopy
    <3> HIDE DEF x
    <3>3. \A c \in Copies : copy'[c] = copy[c] \/ copy'[c] = x
      BY <3>2 DEF TypeOK
    <3>4. i < failures[n]
      BY <2>1, <2>2, <2>6 DEF DeadInv, FailuresCounted
    <3>5. x.count <= failures[x.msg]
      BY <1>0, <3>1, <3>4
    <3> QED
      BY <2>4, <2>5, <3>2, <3>3, <3>5
      DEF DeadInv, FailuresCounted, DeadLettersWereRetried
  <2>7. CASE ~ (task[w][k].pc = "fail" /\ task[w][k].count < MaxRetries)
    <3>1. copy' = copy /\ dead' = dead \cup {n}
      BY <1>8, <2>1, <2>7 DEF PublishCopy
    <3>2. n \in Unsupported \/ failures[n] > MaxRetries
      <4>1. CASE task[w][k].pc = "deadletter"
        BY <2>1, <4>1 DEF DeadInv, FailuresCounted
      <4>2. CASE task[w][k].pc = "fail"
        <5>1. i >= MaxRetries
          BY <2>2, <2>7, <4>2, QueueAssumption
        <5>2. i < failures[n]
          BY <2>1, <2>2, <4>2 DEF DeadInv, FailuresCounted
        <5> QED
          BY <1>0, <5>1, <5>2, QueueAssumption
      <4> QED
        BY <1>8, <4>1, <4>2 DEF PublishCopy
    <3> QED
      BY <2>4, <2>5, <3>1, <3>2 DEF DeadInv, FailuresCounted, DeadLettersWereRetried
  <2> QED
    BY <2>6, <2>7
<1>9. ASSUME NEW w \in Replicas, NEW k \in Tasks, GiveUp(w, k) PROVE DeadInv'
  <2>1. \A v \in Replicas, l \in Tasks : v # w \/ l # k => task'[v][l] = task[v][l]
    BY <1>9, EndingATask DEF GiveUp
  <2>2. task'[w][k].pc = "idle"
    BY <1>9, EndingATask DEF GiveUp, Idle
  <2> QED
    BY <1>9, <2>1, <2>2, CountsStay DEF GiveUp
<1>10. ASSUME NEW w \in Replicas,
              \/ Drop(w) \/ Die(w)
              \/ \E k \in Tasks : PublishRefused(w, k)
       PROVE  DeadInv'
  <2>1. LosesChannel(w)
    BY <1>10, ChannelLosses
  <2>2. \A d \in Copies : copy'[d] # None =>
          copy[d] # None /\ copy'[d].msg = copy[d].msg /\ copy'[d].count = copy[d].count
    BY <2>1, RequeuedKeepsCopies DEF LosesChannel
  <2>3. \A v \in Replicas, l \in Tasks : task'[v][l].pc # "idle" =>
          /\ task'[v][l].pc = task[v][l].pc
          /\ task'[v][l].msg = task[v][l].msg /\ task'[v][l].count = task[v][l].count
    <3> SUFFICES ASSUME NEW v \in Replicas, NEW l \in Tasks, task'[v][l].pc # "idle"
                 PROVE  /\ task'[v][l].pc = task[v][l].pc
                        /\ task'[v][l].msg = task[v][l].msg
                        /\ task'[v][l].count = task[v][l].count
      OBVIOUS
    <3>1. task'[v][l] # Idle
      BY DEF Idle
    <3> QED
      BY <2>1, <3>1 DEF LosesChannel
  <2> QED
    BY <2>1, <2>2, <2>3, CountsStay DEF LosesChannel
<1>11. CASE UNCHANGED vars
  BY <1>11, CountsStay DEF vars
<1> QED
  BY <1>1, <1>2, <1>3, <1>4, <1>5, <1>6, <1>7, <1>8, <1>9, <1>10, <1>11
  DEF Next, TaskStep

\* Whatever is redelivered and whoever dies, a message is dead-lettered only after
\* MaxRetries + 1 failures of its handler, unless its version is not supported.
THEOREM DeadLettersWereRetriedHolds == Spec => []DeadLettersWereRetried
<1>1. Init => DeadInv
  <2> SUFFICES ASSUME Init PROVE DeadInv
    OBVIOUS
  <2>1. \A w \in Replicas, k \in Tasks : task[w][k] = Idle /\ Idle.pc = "idle"
    BY DEF Init, Idle
  <2> QED
    BY <2>1 DEF Init, DeadInv, FailuresCounted, DeadLettersWereRetried
<1>2. DeadInv => DeadLettersWereRetried
  BY DEF DeadInv
<1> QED
  BY <1>1, <1>2, TypeCorrect, DeadInvInductive, PTL DEF Spec
=============================================================================
