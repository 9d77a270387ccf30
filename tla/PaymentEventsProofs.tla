------------------------ MODULE PaymentEventsProofs ------------------------
(***************************************************************************)
(* The consumer of payment events, for any messages, connections and limits: *)
(* the connection manager takes no step that the theorems about RetryQueue *)
(* do not cover, a manager that runs never waits for nothing, and what the *)
(* webhook acknowledged is kept.                                           *)
(***************************************************************************)
EXTENDS PaymentEvents, RetryQueueProofs

-----------------------------------------------------------------------------
(* The queue under the connections. *)

LEMMA BindIsAQueueStep ==
  ASSUME NEW c \in Replicas, NEW q, Bind(c, q) PROVE [Next]_vars
<1>1. CASE Connect(c)
  BY <1>1 DEF Next
<1>2. CASE UNCHANGED queueVars
  BY <1>2 DEF queueVars, vars
<1> QED
  BY <1>1, <1>2 DEF Bind, queueVars

\* Whatever the manager does, its queue sees a step of RetryQueue.
LEMMA ConsumerStepIsAQueueStep ==
  ASSUME attempt.conn \in Replicas \cup {None}, binding \in Replicas \cup {None},
         attempt.pc = "rebind" => attempt.conn # None,
         ConsumerStep
  PROVE  [Next]_vars
<1>1. CASE Start \/ ConsumeLate \/ ConnectReplies \/ Declared \/ AttemptFails \/ TimerFires \/ Stop
  BY <1>1 DEF Start, ConsumeLate, ConnectReplies, Declared, AttemptFails, TimerFires, Stop,
    queueVars, vars
<1>2. CASE BindLate
  BY <1>2, BindIsAQueueStep DEF BindLate
<1>3. CASE RebindNext
  BY <1>3, BindIsAQueueStep DEF RebindNext, queueVars, vars
<1>4. ASSUME NEW c \in Replicas, Closes(c) \/ Breaks(c) PROVE [Next]_vars
  <2>1. Ends(c)
    BY <1>4 DEF Closes, Breaks
  <2> QED
    BY <2>1 DEF Ends, Next, queueVars, vars
<1>5. ASSUME NEW c \in Replicas, CloseEvent(c) PROVE [Next]_vars
  BY <1>5 DEF CloseEvent, queueVars, vars
<1>6. CASE Expiry
  BY <1>6 DEF Expiry, Next
<1>7. ASSUME NEW c \in Replicas, Deliveries(c) PROVE [Next]_vars
  BY <1>7 DEF Deliveries, Next
<1>8. ASSUME NEW c \in Replicas, NEW k \in Tasks, Dispatch(c, k) PROVE [Next]_vars
  <2>1. TaskStep(c, k)
    BY <1>8 DEF Dispatch, DispatchFails, TaskStep
  <2> QED
    BY <2>1 DEF Next
<1>9. ASSUME NEW c \in Replicas, NEW k \in Tasks, CopyRefused(c, k) PROVE [Next]_vars
  BY <1>9 DEF CopyRefused, Next
<1> QED
  BY <1>1, <1>2, <1>3, <1>4, <1>5, <1>6, <1>7, <1>8, <1>9 DEF ConsumerStep, Progress

-----------------------------------------------------------------------------
(* The connection manager. *)

\* Nothing was delivered on connection c, and it has no consumer.
Untouched(c) == c \notin connected /\ \A k \in Tasks : task[c][k] = Idle

\* What the manager relies on, however timers, events and replies are ordered:
\* a connection it has not bound yet is untouched; the channel it has is alive or its
\* end will be heard of; and so is the one it rebinds, unless a timer is set already.
ManagerOK ==
  /\ attempt \in [pc : {"idle", "connect", "declare", "rebind"},
                  conn : used \cup {None}, next : Nat]
  /\ used \subseteq Replicas /\ usable \subseteq used
  /\ channel \in used \cup {None} /\ binding \in used \cup {None}
  /\ attempt.pc \in {"declare", "rebind"} => attempt.conn # None
  /\ stopped => registered = <<>>
  /\ \A c \in Replicas \ used : Untouched(c)
  /\ attempt.pc = "declare" =>
       /\ Untouched(attempt.conn) /\ channel # attempt.conn
       /\ attempt.conn \in open => attempt.conn \in usable
  /\ attempt.pc = "rebind" => timer \/ stopped \/ attempt.conn \in usable \cup events
  /\ channel # None => channel \in usable \cup events

LEMMA IdleFields == Idle.pc = "idle" /\ Idle.held = None
BY DEF Idle

\* The queue touches only connections that it was given.
LEMMA UntouchedStays ==
  ASSUME TypeOK, NEW c \in Replicas, Untouched(c), NEW w \in Replicas,
         \/ UNCHANGED vars
         \/ Connect(w) /\ w # c
         \/ Drop(w)
         \/ \E x \in Copies : Deliver(w, x)
         \/ \E k \in Tasks : TaskStep(w, k) \/ PublishRefused(w, k)
  PROVE  Untouched(c)'
<1>1. CASE UNCHANGED vars
  BY <1>1 DEF vars, Untouched
<1>2. CASE Connect(w) /\ w # c
  BY <1>2 DEF Connect, Untouched
<1>3. ASSUME w # c, task'[c] = task[c], connected' \subseteq connected PROVE Untouched(c)'
  BY <1>3 DEF Untouched
<1>4. CASE Drop(w)
  <2>1. w # c
    BY <1>4 DEF Drop, Untouched
  <2>2. task'[c] = task[c] /\ connected' \subseteq connected
    BY <1>4, <2>1 DEF Drop, TypeOK
  <2> QED
    BY <1>3, <2>1, <2>2
<1>5. ASSUME NEW x \in Copies, Deliver(w, x) PROVE Untouched(c)'
  <2>1. w # c
    BY <1>5 DEF Deliver, Untouched
  <2>2. task'[c] = task[c] /\ connected' \subseteq connected
    BY <1>5, <2>1 DEF Deliver, Becomes, TypeOK
  <2> QED
    BY <1>3, <2>1, <2>2
<1>6. ASSUME NEW k \in Tasks, TaskStep(w, k) PROVE Untouched(c)'
  <2>1. task[w][k].pc # "idle"
    BY <1>6 DEF TaskStep, HandlerReturns, HandlerThrows, Ack, PublishCopy, GiveUp
  <2>2. w # c
    BY <2>1, IdleFields DEF Untouched
  <2>3. task'[c] = task[c] /\ connected' \subseteq connected
    BY <1>6, <2>2 DEF TaskStep, HandlerReturns, HandlerThrows, Ack, PublishCopy, GiveUp,
      Becomes, Goto, TypeOK
  <2> QED
    BY <1>3, <2>2, <2>3
<1>7. ASSUME NEW k \in Tasks, PublishRefused(w, k) PROVE Untouched(c)'
  <2>1. task[w][k].pc # "idle"
    BY <1>7 DEF PublishRefused
  <2>2. w # c
    BY <2>1, IdleFields DEF Untouched
  <2>3. task'[c] = task[c] /\ connected' \subseteq connected
    BY <1>7, <2>2 DEF PublishRefused, TypeOK
  <2> QED
    BY <1>3, <2>2, <2>3
<1> QED
  BY <1>1, <1>2, <1>4, <1>5, <1>6, <1>7

\* A connection with a call on it is in use, and bound.
LEMMA CallsAreOnBoundConnections ==
  ASSUME ManagerOK, NEW c \in Replicas, NEW k \in Tasks, task[c][k].pc # "idle"
  PROVE  c \in used /\ (attempt.pc = "declare" => c # attempt.conn)
BY IdleFields DEF ManagerOK, Untouched

\* ManagerOK is kept by every step.
LEMMA ManagerInductive ==
  ASSUME TypeOK, ManagerOK, ConsumerStep PROVE ManagerOK'
<1> DEFINE U == \A c \in Replicas : Untouched(c) => Untouched(c)'
<1>1. UNCHANGED queueVars => U
  BY DEF Untouched, queueVars, vars
<1>2. CASE Start
  BY <1>1, <1>2 DEF Start, EnsureConnected, NoAttempt, ManagerOK, Untouched, queueVars, vars,
    socketVars
<1>3. CASE ConsumeLate
  BY <1>1, <1>3 DEF ConsumeLate, EnsureConnected, NoAttempt, ManagerOK, Untouched, queueVars, vars,
    socketVars
<1>4. CASE BindLate
  <2>1. U
    BY <1>1, <1>4, ConsumerAssumption DEF BindLate, Bind
  <2> QED
    BY <1>4, <2>1 DEF BindLate, ManagerOK, socketVars
<1>5. CASE ConnectReplies
  <2>1. NextConn \in Replicas \ used /\ NextConn # None
    BY <1>5, ConsumerAssumption DEF ConnectReplies, NextConn, ManagerOK
  <2>2. Untouched(NextConn) /\ channel # NextConn /\ NextConn \notin usable
    BY <2>1 DEF ManagerOK
  <2>3. CASE stopped
    <3>1. attempt' = NoAttempt /\ UNCHANGED socketVars
      BY <1>5, <2>3 DEF ConnectReplies
    <3> QED
      BY <1>1, <1>5, <2>1, <3>1 DEF ConnectReplies, NoAttempt, ManagerOK, socketVars
  <2>4. CASE ~ stopped
    <3>1. /\ attempt' = [attempt EXCEPT !.pc = "declare", !.conn = NextConn]
          /\ open' = open \cup {NextConn} /\ usable' = usable \cup {NextConn}
          /\ events' = events
      BY <1>5, <2>4 DEF ConnectReplies
    <3>2. attempt'.pc = "declare" /\ attempt'.conn = NextConn /\ attempt'.next \in Nat
      BY <3>1 DEF ManagerOK
    <3>3. attempt' \in [pc : {"idle", "connect", "declare", "rebind"},
                       conn : used' \cup {None}, next : Nat]
      BY <1>5, <3>1 DEF ConnectReplies, ManagerOK
    <3> QED
      BY <1>1, <1>5, <2>1, <2>2, <3>1, <3>2, <3>3 DEF ConnectReplies, ManagerOK
  <2> QED
    BY <2>3, <2>4
<1>6. CASE AttemptFails
  BY <1>1, <1>6 DEF AttemptFails, NoAttempt, ManagerOK, socketVars
<1>7. CASE Declared
  BY <1>1, <1>7 DEF Declared, ManagerOK, socketVars
<1>8. CASE RebindNext
  <2>1. attempt.pc = "rebind" /\ attempt.conn \in used /\ attempt.conn \in Replicas
    BY <1>8 DEF RebindNext, ManagerOK
  <2>2. CASE attempt.next <= Len(registered)
    <3>1. /\ Bind(attempt.conn, registered[attempt.next])
          /\ attempt' = [attempt EXCEPT !.next = @ + 1]
      BY <1>8, <2>2 DEF RebindNext
    <3>2. \A c \in Replicas \ used : Untouched(c)'
      <4> SUFFICES ASSUME NEW c \in Replicas \ used PROVE Untouched(c)'
        OBVIOUS
      <4>1. Untouched(c) /\ c # attempt.conn
        BY <2>1 DEF ManagerOK
      <4>2. CASE Connect(attempt.conn)
        BY <2>1, <4>1, <4>2, UntouchedStays
      <4>3. CASE UNCHANGED queueVars
        BY <4>1, <4>3, <1>1
      <4> QED
        BY <3>1, <4>2, <4>3 DEF Bind, queueVars
    <3>3. /\ attempt' \in [pc : {"idle", "connect", "declare", "rebind"},
                          conn : used \cup {None}, next : Nat]
          /\ attempt'.pc = "rebind" /\ attempt'.conn = attempt.conn
      BY <2>1, <3>1 DEF ManagerOK
    <3> QED
      BY <1>8, <2>1, <3>2, <3>3 DEF RebindNext, ManagerOK, socketVars
  <2>3. CASE ~ attempt.next <= Len(registered)
    BY <1>1, <1>8, <2>3 DEF RebindNext, NoAttempt, ManagerOK, socketVars
  <2> QED
    BY <2>2, <2>3
<1>9. ASSUME NEW c \in Replicas, Ends(c) PROVE ManagerOK'
  <2>1. \A d \in Replicas : Untouched(d) => Untouched(d)'
    BY <1>1, <1>9, UntouchedStays DEF Ends
  <2>2. /\ UNCHANGED <<stopped, timer, channel, attempt, registered, binding, used>>
        /\ open' = open \ {c} /\ usable' = usable \ {c}
    BY <1>9 DEF Ends
  <2>3. CASE attempt.pc = "declare" /\ attempt.conn = c
    <3>1. events' = events /\ channel # c
      BY <1>9, <2>3 DEF Ends, ManagerOK
    <3> QED
      BY <2>1, <2>2, <2>3, <3>1 DEF ManagerOK
  <2>4. CASE ~ (attempt.pc = "declare" /\ attempt.conn = c)
    <3>1. events' = events \cup {c}
      BY <1>9, <2>4 DEF Ends
    <3> QED
      BY <2>1, <2>2, <2>4, <3>1 DEF ManagerOK
  <2> QED
    BY <2>3, <2>4
<1>10. ASSUME NEW c \in Replicas, CloseEvent(c) PROVE ManagerOK'
  BY <1>1, <1>10 DEF CloseEvent, ScheduleReconnect, ManagerOK
<1>11. CASE TimerFires
  BY <1>1, <1>11 DEF TimerFires, EnsureConnected, NoAttempt, ManagerOK, socketVars
<1>12. CASE Stop
  BY <1>1, <1>12 DEF Stop, ManagerOK
<1>13. CASE Expiry
  BY <1>13 DEF Expiry, RetryExpires, ManagerOK, managerVars, socketVars, Untouched
<1>14. ASSUME NEW c \in Replicas, Deliveries(c) PROVE ManagerOK'
  BY <1>14, UntouchedStays DEF Deliveries, ManagerOK, managerVars, socketVars
<1>15. ASSUME NEW c \in Replicas, NEW k \in Tasks, RecoverChannel(c),
             task[c][k].pc # "idle", U
       PROVE ManagerOK'
  BY <1>15, CallsAreOnBoundConnections DEF RecoverChannel, ScheduleReconnect, ManagerOK
<1>16. ASSUME NEW c \in Replicas, NEW k \in Tasks, Dispatch(c, k) PROVE ManagerOK'
  <2>1. TaskStep(c, k) /\ task[c][k].pc # "idle"
    BY <1>16 DEF Dispatch, DispatchFails, TaskStep, HandlerReturns, HandlerThrows, Ack,
      PublishCopy, GiveUp
  <2>2. U
    BY <2>1, UntouchedStays
  <2>3. CASE UNCHANGED managerVars
    BY <2>2, <2>3 DEF ManagerOK, managerVars, socketVars
  <2>4. CASE RecoverChannel(c)
    BY <1>15, <2>1, <2>2, <2>4
  <2> QED
    BY <1>16, <2>3, <2>4 DEF Dispatch, DispatchFails
<1>17. ASSUME NEW c \in Replicas, NEW k \in Tasks, CopyRefused(c, k) PROVE ManagerOK'
  <2>1. PublishRefused(c, k) /\ task[c][k].pc # "idle" /\ RecoverChannel(c)
    BY <1>17 DEF CopyRefused, PublishRefused
  <2>2. U
    BY <2>1, UntouchedStays
  <2> QED
    BY <1>15, <2>1, <2>2
<1> QED
  BY <1>2, <1>3, <1>4, <1>5, <1>6, <1>7, <1>8, <1>9, <1>10, <1>11, <1>12, <1>13, <1>14, <1>16,
    <1>17 DEF ConsumerStep, Progress, Closes, Breaks

-----------------------------------------------------------------------------
(* Never waiting for nothing. *)

LEMMA NeverWedgedInductive ==
  ASSUME ManagerOK, NeverWedged, ConsumerStep PROVE NeverWedged'
<1>1. CASE Start \/ ConsumeLate
  <2>1. ~ stopped /\ UNCHANGED <<stopped, channel, usable, events>> /\ EnsureConnected
    <3>1. <<First>> # <<>>
      OBVIOUS
    <3>2. ~ stopped
      BY <1>1, <3>1 DEF Start, ConsumeLate, ManagerOK
    <3> QED
      BY <1>1, <3>2 DEF Start, ConsumeLate, socketVars
  <2>2. CASE channel # None
    BY <2>1, <2>2 DEF ManagerOK, NeverWedged
  <2>3. CASE channel = None /\ attempt.pc # "idle"
    BY <2>1, <2>3 DEF EnsureConnected, NeverWedged
  <2>4. CASE channel = None /\ attempt.pc = "idle"
    <3>1. attempt' = [NoAttempt EXCEPT !.pc = "connect"]
      BY <2>1, <2>4 DEF EnsureConnected
    <3> QED
      BY <3>1 DEF NoAttempt, NeverWedged
  <2> QED
    BY <2>2, <2>3, <2>4
<1>2. CASE BindLate \/ Declared
  <2>1. attempt' = attempt \/ attempt'.pc = "rebind"
    BY <1>2 DEF BindLate, Declared, ManagerOK
  <2> QED
    BY <1>2, <2>1 DEF BindLate, Declared, NeverWedged, socketVars
<1>3. CASE ConnectReplies
  <2>1. CASE stopped
    BY <1>3, <2>1 DEF ConnectReplies, ManagerOK, NeverWedged
  <2>2. CASE ~ stopped
    BY <1>3, <2>2 DEF ConnectReplies, NeverWedged
  <2> QED
    BY <2>1, <2>2
<1>4. CASE AttemptFails
  BY <1>4 DEF AttemptFails, ScheduleReconnect, ManagerOK, NeverWedged
<1>5. CASE RebindNext
  BY <1>5 DEF RebindNext, ManagerOK, NeverWedged, socketVars
<1>6. ASSUME NEW c \in Replicas, Ends(c) PROVE NeverWedged'
  BY <1>6 DEF Ends, NeverWedged
<1>7. ASSUME NEW c \in Replicas, CloseEvent(c) PROVE NeverWedged'
  BY <1>7 DEF CloseEvent, ScheduleReconnect, ManagerOK, NeverWedged
<1>8. CASE TimerFires
  <2>1. CASE attempt' = attempt /\ attempt.pc # "idle"
    BY <1>8, <2>1 DEF TimerFires, NeverWedged
  <2>2. CASE attempt' = [NoAttempt EXCEPT !.pc = "connect"]
    BY <1>8, <2>2 DEF NoAttempt, NeverWedged
  <2>3. CASE stopped \/ channel # None
    BY <1>8, <2>3 DEF TimerFires, ManagerOK, NeverWedged, socketVars
  <2> QED
    BY <1>8, <2>1, <2>2, <2>3 DEF TimerFires, EnsureConnected
<1>9. CASE Stop
  BY <1>9 DEF Stop, NeverWedged
<1>10. CASE UNCHANGED managerVars
  BY <1>10 DEF managerVars, socketVars, NeverWedged
<1>11. ASSUME NEW c \in Replicas, RecoverChannel(c) PROVE NeverWedged'
  BY <1>11 DEF RecoverChannel, ScheduleReconnect, ManagerOK, NeverWedged
<1> QED
  BY <1>1, <1>2, <1>3, <1>4, <1>5, <1>6, <1>7, <1>8, <1>9, <1>10, <1>11
  DEF ConsumerStep, Progress, Closes, Breaks, Expiry, Deliveries, Dispatch, DispatchFails,
    CopyRefused

-----------------------------------------------------------------------------
(* The webhook in front. *)

\* A step of the system is one of the manager and its queue, or one of the webhook.
LEMMA EventsSteps ==
  ASSUME [EventsNext]_eventVars
  PROVE  \/ ConsumerStep /\ UNCHANGED ingressVars
         \/ /\ UNCHANGED managerVars
            /\ UNCHANGED queueVars \/ \E m \in Messages : Send(m)
BY DEF EventsNext, Webhook, WompiPosts, PublishConfirmed, NoChannel, PublishBreaks, ApiConnects,
  eventVars, consumerVars, ingressVars

EventsInv == TypeOK /\ ManagerOK /\ NeverWedged

LEMMA EventsStepsAreQueueSteps ==
  ASSUME ManagerOK, [EventsNext]_eventVars PROVE [Next]_vars
<1>1. CASE ConsumerStep
  BY <1>1, ConsumerStepIsAQueueStep DEF ManagerOK
<1>2. CASE UNCHANGED queueVars
  BY <1>2 DEF queueVars, vars
<1>3. ASSUME NEW m \in Messages, Send(m) PROVE [Next]_vars
  BY <1>3 DEF Next
<1> QED
  BY <1>1, <1>2, <1>3, EventsSteps

LEMMA EventsInvInductive == EventsInv /\ [EventsNext]_eventVars => EventsInv'
<1> SUFFICES ASSUME EventsInv, [EventsNext]_eventVars PROVE EventsInv'
  OBVIOUS
<1>1. TypeOK'
  BY EventsStepsAreQueueSteps, TypeOKInductive DEF EventsInv
<1>2. CASE ConsumerStep
  BY <1>1, <1>2, ManagerInductive, NeverWedgedInductive DEF EventsInv
<1>3. CASE UNCHANGED managerVars
  <2>1. NeverWedged'
    BY <1>3 DEF EventsInv, NeverWedged, managerVars, socketVars
  <2>2. ASSUME UNCHANGED <<task, connected>> PROVE ManagerOK'
    BY <1>3, <2>2 DEF EventsInv, ManagerOK, Untouched, managerVars, socketVars
  <2>3. CASE ConsumerStep
    BY <1>2, <2>3
  <2>4. CASE UNCHANGED queueVars
    BY <1>1, <2>1, <2>2, <2>4 DEF EventsInv, queueVars, vars
  <2>5. ASSUME NEW m \in Messages, Send(m) PROVE EventsInv'
    BY <1>1, <2>1, <2>2, <2>5 DEF EventsInv, Send
  <2> QED
    BY <2>3, <2>4, <2>5, EventsSteps
<1> QED
  BY <1>2, <1>3, EventsSteps

LEMMA EventsInvInitially == EventsInit => EventsInv /\ Init
<1> SUFFICES ASSUME EventsInit PROVE EventsInv /\ Init
  OBVIOUS
<1>1. Init
  BY DEF EventsInit, ConsumerInit
<1>2. TypeOK
  BY <1>1, TypeOKInitially
<1>3. ManagerOK
  BY <1>1 DEF EventsInit, ConsumerInit, Init, NoAttempt, ManagerOK, Untouched
<1>4. NeverWedged
  BY DEF EventsInit, ConsumerInit, NeverWedged
<1> QED
  BY <1>1, <1>2, <1>3, <1>4 DEF EventsInv

\* The consumer under a manager that connects, loses, drops and replaces connections
\* implements the queue in which channels come and go as they like: what is proved of
\* RetryQueue holds of it.
THEOREM ImplementsRetryQueue == EventsSpec => Spec
<1>1. EventsInv /\ [EventsNext]_eventVars => [Next]_vars
  BY EventsStepsAreQueueSteps DEF EventsInv
<1> QED
  BY <1>1, EventsInvInitially, EventsInvInductive, PTL DEF EventsSpec, Spec

\* No order of timers, stale close events, recoveries and replies leaves a manager that
\* is not stopped without a connection, an attempt, a timer or an event to come.
THEOREM NeverWedgedHolds == EventsSpec => []NeverWedged
<1>1. EventsInv => NeverWedged
  BY DEF EventsInv
<1> QED
  BY <1>1, EventsInvInitially, EventsInvInductive, PTL DEF EventsSpec

\* What got a 200 was sent.
AcknowledgedWasSent == \A m \in Messages : webhook[m] = "200" => m \in sent

SentInv ==
  /\ webhook \in [Messages -> Unanswered \cup {"publish", "200"}]
  /\ AcknowledgedWasSent

LEMMA SentGrows == ASSUME [Next]_vars PROVE sent \subseteq sent'
<1>1. ASSUME NEW m \in Messages, Send(m) PROVE sent \subseteq sent'
  BY <1>1 DEF Send
<1>2. ASSUME NEW w \in Replicas, Connect(w) \/ Drop(w) \/ Die(w) PROVE sent' = sent
  BY <1>2 DEF Connect, Drop, Die
<1>3. ASSUME NEW c \in Copies, RetryExpires(c) \/ \E w \in Replicas : Deliver(w, c)
      PROVE  sent' = sent
  BY <1>3 DEF RetryExpires, Deliver
<1>4. ASSUME NEW w \in Replicas, NEW k \in Tasks, TaskStep(w, k) \/ PublishRefused(w, k)
      PROVE  sent' = sent
  BY <1>4 DEF TaskStep, PublishRefused, HandlerReturns, HandlerThrows, Ack, PublishCopy, GiveUp
<1> QED BY <1>1, <1>2, <1>3, <1>4 DEF Next, vars

LEMMA SentInvInductive ==
  ASSUME SentInv, ManagerOK, [EventsNext]_eventVars PROVE SentInv'
<1>1. sent \subseteq sent'
  BY SentGrows, EventsStepsAreQueueSteps
<1>2. CASE UNCHANGED webhook
  BY <1>1, <1>2 DEF SentInv, AcknowledgedWasSent
<1>3. ASSUME NEW m \in Messages, NEW code \in {"publish", "503", "hangs"}, Answer(m, code)
      PROVE  SentInv'
  BY <1>1, <1>3 DEF SentInv, AcknowledgedWasSent, Answer, Unanswered
<1>4. ASSUME NEW m \in Messages, PublishConfirmed(m) PROVE SentInv'
  <2>1. m \in sent'
    BY <1>4 DEF PublishConfirmed, Send
  <2> QED
    BY <1>1, <1>4, <2>1 DEF PublishConfirmed, SentInv, AcknowledgedWasSent, Answer, Unanswered
<1> QED
  BY <1>2, <1>3, <1>4 DEF EventsNext, Webhook, WompiPosts, NoChannel, PublishBreaks, ApiConnects,
    eventVars, ingressVars

\* A payment event that was answered with 200 is with the broker, its handler or the dlq,
\* whatever connections die: the answer waits for the confirm, and what the queue got it
\* keeps.
THEOREM AcknowledgedIsKeptHolds == EventsSpec => []AcknowledgedIsKept
<1>1. EventsInit => SentInv
  BY DEF EventsInit, SentInv, AcknowledgedWasSent, Unanswered
<1>2. SentInv /\ EventsInv /\ [EventsNext]_eventVars => SentInv'
  BY SentInvInductive DEF EventsInv
<1>3. SentInv /\ NeverLost => AcknowledgedIsKept
  BY DEF SentInv, AcknowledgedWasSent, NeverLost, AcknowledgedIsKept
<1> QED
  BY <1>1, <1>2, <1>3, EventsInvInitially, EventsInvInductive, ImplementsRetryQueue,
    NeverLostHolds, PTL DEF EventsSpec

-----------------------------------------------------------------------------
(* The types of the whole path of an event. *)

\* A call that outlives its channel runs on a connection that is not usable, so what
\* recoverChannel takes away there was gone already.
StaleIsUnusable ==
  \A c \in usable : \A k \in Tasks : task[c][k] # Idle => task[c][k].held # None

BooksOK ==
  /\ stopped \in BOOLEAN /\ timer \in BOOLEAN
  /\ attempt.next \in 1..3
  /\ registered \in {<<>>, <<First>>, <<First, Late>>}
  /\ open \subseteq used /\ usable \subseteq open /\ closing \subseteq open
  /\ events \subseteq used \ open
  /\ bound \subseteq usable \X QueueNames
  /\ connected = {c \in Replicas : <<c, First>> \in bound}
  /\ faults \in 0..MaxFaults
  /\ StaleIsUnusable

\* What a consumer that is bound on a usable connection changes.
LEMMA BindKeepsBooks ==
  ASSUME BooksOK, NEW c \in Replicas, NEW q \in QueueNames, Bind(c, q)
  PROVE  /\ bound' \subseteq usable \X QueueNames
         /\ connected' = {d \in Replicas : <<d, First>> \in bound'}
         /\ task' = task
<1>1. CASE c \in usable /\ c \notin closing
  <2>1. bound' = bound \cup {<<c, q>>}
    BY <1>1 DEF Bind
  <2>2. IF q = First THEN connected' = connected \cup {c} ELSE connected' = connected
    BY <1>1 DEF Bind, Connect, queueVars, vars
  <2>3. task' = task
    BY <1>1 DEF Bind, Connect, queueVars, vars
  <2> QED BY <1>1, <2>1, <2>2, <2>3 DEF BooksOK
<1>2. CASE ~ (c \in usable /\ c \notin closing)
  BY <1>2 DEF Bind, BooksOK, queueVars, vars
<1> QED BY <1>1, <1>2

\* The last consumer of a connection goes with it.
LEMMA UnboundIsDisconnected ==
  ASSUME BooksOK, NEW c, bound' = {b \in bound : b[1] # c}, usable' = usable \ {c},
         connected' = connected \ {c}
  PROVE  /\ bound' \subseteq usable' \X QueueNames
         /\ connected' = {d \in Replicas : <<d, First>> \in bound'}
BY DEF BooksOK

\* A usable connection is not the one of a stale call.
LEMMA GivingUpIsUnusable ==
  ASSUME BooksOK, NEW c \in Replicas, NEW k \in Tasks, GiveUp(c, k)
  PROVE  c \notin usable /\ c \notin connected
<1>1. c \notin usable
  BY IdleFields DEF GiveUp, BooksOK, StaleIsUnusable
<1> QED BY <1>1 DEF BooksOK

\* The calls on usable connections hold what they handle.
LEMMA CallsHoldTheirCopies ==
  ASSUME TypeOK, StaleIsUnusable, usable \subseteq Replicas, usable' \subseteq usable,
         NEW w \in Replicas,
         \/ task' = task
         \/ Drop(w) /\ w \notin usable'
         \/ \E x \in Copies : Deliver(w, x)
         \/ \E k \in Tasks : TaskStep(w, k)
         \/ \E k \in Tasks : PublishRefused(w, k) /\ w \notin usable'
  PROVE  StaleIsUnusable'
<1>1. CASE task' = task
  BY <1>1 DEF StaleIsUnusable
<1>2. ASSUME \A c \in Replicas \ {w} : task'[c] = task[c], w \notin usable'
      PROVE  StaleIsUnusable'
  BY <1>2 DEF StaleIsUnusable
<1>3. CASE Drop(w) /\ w \notin usable'
  BY <1>2, <1>3 DEF Drop, TypeOK
<1>4. ASSUME NEW k \in Tasks, PublishRefused(w, k), w \notin usable' PROVE StaleIsUnusable'
  BY <1>2, <1>4 DEF PublishRefused, TypeOK
<1>5. ASSUME NEW k \in Tasks, NEW t, Becomes(w, k, t), t # Idle => t.held # None
      PROVE  StaleIsUnusable'
  BY <1>5 DEF StaleIsUnusable, Becomes, TypeOK
<1>6. ASSUME NEW x \in Copies, Deliver(w, x) PROVE StaleIsUnusable'
  <2>1. NewTask(w) \in Tasks
    BY <1>6, NewTaskIsIdle DEF Deliver
  <2>2. x # None
    BY QueueAssumption
  <2> DEFINE t == [pc |-> "handle", msg |-> copy[x].msg, count |-> copy[x].count, held |-> x]
  <2>3. Becomes(w, NewTask(w), t)
    BY <1>6 DEF Deliver
  <2> QED BY <1>5, <2>1, <2>2, <2>3
<1>7. ASSUME NEW k \in Tasks, TaskStep(w, k) PROVE StaleIsUnusable'
  <2>1. CASE Ack(w, k) \/ GiveUp(w, k)
    BY <1>5, <2>1 DEF Ack, GiveUp
  <2>2. ASSUME NEW label, Goto(w, k, label), task[w][k].pc # "idle" PROVE StaleIsUnusable'
    <3>1. /\ \A c \in Replicas \ {w} : task'[c] = task[c]
          /\ \A l \in Tasks \ {k} : task'[w][l] = task[w][l]
          /\ task'[w][k].held = task[w][k].held
      BY <2>2, TaskFields DEF Goto, TypeOK
    <3> QED BY <2>2, <3>1, IdleFields DEF StaleIsUnusable
  <2>3. CASE HandlerReturns(w, k) \/ HandlerThrows(w, k) \/ PublishCopy(w, k)
    BY <2>2, <2>3 DEF HandlerReturns, HandlerThrows, PublishCopy
  <2> QED BY <1>7, <2>1, <2>3 DEF TaskStep
<1> QED BY <1>1, <1>3, <1>4, <1>6, <1>7

\* Nothing a step of the consumer does puts the books of the manager out of order.
LEMMA BooksInductive ==
  ASSUME TypeOK, ManagerOK, BooksOK, ConsumerStep PROVE BooksOK'
<1> USE DEF ManagerOK
<1>a. usable \subseteq Replicas
  OBVIOUS
<1>b. ASSUME task' = task, usable' \subseteq usable PROVE StaleIsUnusable'
  BY <1>b DEF BooksOK, StaleIsUnusable
<1>1. CASE Start \/ ConsumeLate
  BY <1>1, <1>b DEF Start, ConsumeLate, EnsureConnected, NoAttempt, BooksOK, queueVars, vars,
    socketVars
<1>2. CASE BindLate
  <2>1. binding \in Replicas /\ Late \in QueueNames
    BY <1>2 DEF BindLate, QueueNames
  <2> QED BY <1>2, <1>b, <2>1, BindKeepsBooks DEF BindLate, BooksOK, socketVars
<1>3. CASE ConnectReplies
  <2>1. NextConn \in Replicas \ used
    BY <1>3 DEF ConnectReplies, NextConn
  <2>2. CASE stopped
    BY <1>3, <1>b, <2>1, <2>2 DEF ConnectReplies, NoAttempt, BooksOK, queueVars, vars, socketVars
  <2>3. CASE ~ stopped
    <3>1. \A k \in Tasks : task[NextConn][k] = Idle
      BY <2>1 DEF Untouched
    <3>2. StaleIsUnusable'
      BY <1>3, <2>3, <3>1 DEF ConnectReplies, BooksOK, StaleIsUnusable, queueVars, vars
    <3> HIDE DEF StaleIsUnusable
    <3>3. /\ open' \subseteq used' /\ usable' \subseteq open' /\ closing' \subseteq open'
          /\ events' \subseteq used' \ open' /\ bound' \subseteq usable' \X QueueNames
      BY <1>3, <2>1, <2>3 DEF ConnectReplies, BooksOK
    <3>4. connected' = {c \in Replicas : <<c, First>> \in bound'}
      BY <1>3, <2>3 DEF ConnectReplies, BooksOK, queueVars, vars
    <3>5. /\ stopped' \in BOOLEAN /\ timer' \in BOOLEAN /\ attempt'.next \in 1..3
          /\ registered' \in {<<>>, <<First>>, <<First, Late>>} /\ faults' \in 0..MaxFaults
      BY <1>3, <2>3 DEF ConnectReplies, BooksOK
    <3> QED BY <3>2, <3>3, <3>4, <3>5 DEF BooksOK
  <2> QED BY <2>2, <2>3
<1>4. CASE AttemptFails \/ Declared \/ TimerFires \/ Stop
  <2>1. CASE AttemptFails
    BY <1>b, <2>1, ConsumerAssumption DEF AttemptFails, NoAttempt, ScheduleReconnect, Fault,
      NoFault, BooksOK, queueVars, vars, socketVars
  <2>2. CASE Declared
    <3>1. attempt'.next = attempt.next
      BY <2>2 DEF Declared
    <3> QED BY <1>b, <2>2, <3>1 DEF Declared, BooksOK, queueVars, vars, socketVars
  <2>3. CASE TimerFires
    <3>1. attempt'.next \in 1..3
      BY <2>3 DEF TimerFires, EnsureConnected, NoAttempt, BooksOK
    <3> QED BY <1>b, <2>3, <3>1 DEF TimerFires, BooksOK, queueVars, vars, socketVars
  <2>4. CASE Stop
    BY <1>b, <2>4 DEF Stop, BooksOK, queueVars, vars
  <2> QED BY <1>4, <2>1, <2>2, <2>3, <2>4
<1>5. CASE RebindNext
  <2>1. CASE attempt.next <= Len(registered)
    <3>1. attempt.conn \in Replicas
      BY <1>5 DEF RebindNext
    <3>2. registered[attempt.next] \in QueueNames /\ attempt.next + 1 \in 1..3
      BY <2>1 DEF BooksOK, QueueNames
    <3>3. Bind(attempt.conn, registered[attempt.next]) /\ attempt'.next = attempt.next + 1
      BY <1>5, <2>1 DEF RebindNext
    <3> QED BY <1>5, <1>b, <3>1, <3>2, <3>3, BindKeepsBooks DEF RebindNext, BooksOK, socketVars
  <2>2. CASE ~ attempt.next <= Len(registered)
    BY <1>5, <1>b, <2>2 DEF RebindNext, NoAttempt, BooksOK, queueVars, vars, socketVars
  <2> QED BY <2>1, <2>2
<1>6. ASSUME NEW c \in Replicas, Ends(c), faults' \in 0..MaxFaults PROVE BooksOK'
  <2>1. connected' = connected \ {c}
    BY <1>6 DEF Ends, Drop, queueVars, vars
  <2>2. /\ bound' \subseteq usable' \X QueueNames
        /\ connected' = {d \in Replicas : <<d, First>> \in bound'}
    BY <1>6, <2>1, UnboundIsDisconnected DEF Ends
  <2>3. StaleIsUnusable'
    BY <1>6, <1>a, CallsHoldTheirCopies DEF Ends, BooksOK, queueVars, vars
  <2> QED BY <1>6, <2>2, <2>3 DEF Ends, BooksOK
<1>7. ASSUME NEW c \in Replicas, Closes(c) \/ Breaks(c) PROVE BooksOK'
  <2>1. faults' \in 0..MaxFaults
    BY <1>7, ConsumerAssumption DEF Closes, Breaks, Fault, NoFault, BooksOK
  <2> QED BY <1>6, <1>7, <2>1 DEF Closes, Breaks
<1>8. ASSUME NEW c \in Replicas, CloseEvent(c) PROVE BooksOK'
  BY <1>8, <1>b DEF CloseEvent, ScheduleReconnect, BooksOK, queueVars, vars
<1>9. CASE Expiry
  BY <1>9, <1>b DEF Expiry, RetryExpires, NoFault, BooksOK, managerVars, socketVars
<1>10. ASSUME NEW c \in Replicas, Deliveries(c) PROVE BooksOK'
  <2>1. StaleIsUnusable' /\ connected' = connected
    BY <1>10, <1>a, CallsHoldTheirCopies DEF Deliveries, BooksOK, managerVars, socketVars, Deliver
  <2> QED BY <1>10, <2>1 DEF Deliveries, NoFault, BooksOK, managerVars, socketVars
<1>11. ASSUME NEW c \in Replicas, RecoverChannel(c), StaleIsUnusable',
              connected' = connected \ {c}, faults' \in 0..MaxFaults
       PROVE  BooksOK'
  <2>1. /\ bound' \subseteq usable' \X QueueNames
        /\ connected' = {d \in Replicas : <<d, First>> \in bound'}
    BY <1>11, UnboundIsDisconnected DEF RecoverChannel
  <2> QED BY <1>11, <2>1 DEF RecoverChannel, ScheduleReconnect, BooksOK
<1>12. ASSUME NEW c \in Replicas, NEW k \in Tasks, Dispatch(c, k) PROVE BooksOK'
  <2>1. TaskStep(c, k) /\ usable' \subseteq usable
    BY <1>12 DEF Dispatch, DispatchFails, TaskStep, managerVars, socketVars, RecoverChannel
  <2>2. StaleIsUnusable'
    BY <1>a, <2>1, CallsHoldTheirCopies DEF BooksOK
  <2>3. connected' = connected /\ faults' = faults
    BY <1>12 DEF Dispatch, DispatchFails, HandlerReturns, HandlerThrows, Ack, PublishCopy,
      GiveUp, NoFault
  <2>4. CASE UNCHANGED managerVars
    BY <2>2, <2>3, <2>4 DEF BooksOK, managerVars, socketVars
  <2>5. CASE GiveUp(c, k) /\ RecoverChannel(c)
    BY <1>11, <2>2, <2>3, <2>5, GivingUpIsUnusable DEF BooksOK
  <2> QED BY <1>12, <2>4, <2>5 DEF Dispatch, DispatchFails
<1>13. ASSUME NEW c \in Replicas, NEW k \in Tasks, CopyRefused(c, k) PROVE BooksOK'
  <2>1. StaleIsUnusable'
    BY <1>13, <1>a, CallsHoldTheirCopies DEF CopyRefused, RecoverChannel, BooksOK
  <2>2. connected' = connected \ {c} /\ faults' \in 0..MaxFaults
    BY <1>13, ConsumerAssumption DEF CopyRefused, PublishRefused, Fault, BooksOK
  <2> QED BY <1>11, <1>13, <2>1, <2>2 DEF CopyRefused
<1> QED
  BY <1>1, <1>2, <1>3, <1>4, <1>5, <1>7, <1>8, <1>9, <1>10, <1>12, <1>13
  DEF ConsumerStep, Progress

EventsBooksOK == BooksOK /\ apiChannel \in BOOLEAN

\* Nor does the webhook in front of it.
LEMMA EventsBooksInductive ==
  ASSUME EventsInv, EventsBooksOK, [EventsNext]_eventVars
  PROVE  EventsBooksOK'
<1> USE DEF EventsBooksOK
<1>1. apiChannel' \in BOOLEAN
  BY DEF EventsNext, Webhook, WompiPosts, PublishConfirmed, NoChannel, PublishBreaks, ApiConnects,
    eventVars, ingressVars
<1>2. CASE ConsumerStep
  BY <1>1, <1>2, BooksInductive DEF EventsInv
<1>3. CASE ~ ConsumerStep
  <2>1. UNCHANGED <<managerVars, task, connected>>
    BY <1>3, EventsSteps DEF Send, queueVars, vars
  <2>2. faults' \in 0..MaxFaults
    BY <1>3, ConsumerAssumption DEF EventsNext, Webhook, WompiPosts, PublishConfirmed, NoChannel,
      PublishBreaks, ApiConnects, eventVars, consumerVars, Fault, BooksOK
  <2> QED BY <1>1, <2>1, <2>2 DEF BooksOK, StaleIsUnusable, managerVars, socketVars
<1> QED BY <1>1, <1>2, <1>3

\* Every variable of the path of an event keeps its type, for any messages, connections
\* and limits; among them that the broker has a consumer on a connection exactly when
\* the manager bound one there and its channel lives.
THEOREM PaymentEventsTypesHold == EventsSpec => []PaymentEventsTypeOK
<1>1. EventsInit => EventsBooksOK /\ SentInv
  <2> SUFFICES ASSUME EventsInit PROVE EventsBooksOK /\ SentInv
    OBVIOUS
  <2>1. EventsBooksOK
    <3>1. 0 \in 0..MaxFaults /\ attempt.next \in 1..3
      BY ConsumerAssumption DEF EventsInit, ConsumerInit, NoAttempt
    <3>2. StaleIsUnusable
      BY DEF EventsInit, ConsumerInit, StaleIsUnusable
    <3> QED BY <3>1, <3>2 DEF EventsInit, ConsumerInit, Init, EventsBooksOK, BooksOK
  <2>2. SentInv
    BY DEF EventsInit, SentInv, AcknowledgedWasSent, Unanswered
  <2> QED BY <2>1, <2>2
<1>2. EventsInv /\ EventsBooksOK /\ [EventsNext]_eventVars => EventsBooksOK'
  BY EventsBooksInductive
<1>3. EventsInv /\ SentInv /\ [EventsNext]_eventVars => SentInv'
  BY SentInvInductive DEF EventsInv
<1>4. EventsInv /\ EventsBooksOK /\ SentInv => PaymentEventsTypeOK
  BY DEF EventsInv, ManagerOK, EventsBooksOK, BooksOK, SentInv, PaymentEventsTypeOK, ConsumerTypeOK
<1> QED
  BY <1>1, <1>2, <1>3, <1>4, EventsInvInitially, EventsInvInductive, PTL DEF EventsSpec
=============================================================================
