--------------------------- MODULE RabbitConsumer ---------------------------
(***************************************************************************)
(* The RabbitConnectionManager of the worker under its payment consumer:   *)
(* how it connects, binds its consumers, loses and drops connections and   *)
(* connects again, over RetryQueue for the queue the first consumer reads. *)
(* A replica of RetryQueue is here one connection of the process with its  *)
(* channel; the process opens them one after the other.                    *)
(***************************************************************************)
EXTENDS RetryQueue, Sequences

CONSTANTS
  Late,      \* the queue of the consumer that registers second
  Slow,      \* connections whose calls of dispatch may outlast reconnectDelayMs
  MaxFaults  \* bounds the steps that are faults

\* The first consumer's queue is the one RetryQueue has.
First == "payments"
QueueNames == {First, Late}

ASSUME ConsumerAssumption ==
  Late # First /\ None \notin Replicas /\ MaxFaults \in Nat

VARIABLES
  stopped, timer,  \* stopped; reconnectTimer is set
  channel,         \* this.channel and this.connection, or None
  attempt,         \* the connectOnce that this.connecting waits for
  registered,      \* the queues of this.consumers, in order
  binding,         \* the connection on which consume attaches Late itself, or None
  used, open,      \* connections that were opened, that are alive
  usable,          \* connections whose channel is alive
  closing,         \* connections that close() was called on
  events,          \* dead connections whose "close" the process has not seen yet
  bound,           \* pairs of a connection and a queue it has a consumer of
  faults           \* faults so far

queueVars   == vars
socketVars  == <<open, usable, closing, events>>
managerVars == <<stopped, timer, channel, attempt, registered, binding, used, socketVars, bound>>
consumerVars == <<queueVars, managerVars, faults>>

NoAttempt == [pc |-> "idle", conn |-> None, next |-> 1]

ConsumerTypeOK ==
  /\ TypeOK
  /\ stopped \in BOOLEAN /\ timer \in BOOLEAN
  /\ channel \in Replicas \cup {None} /\ binding \in Replicas \cup {None}
  /\ attempt \in [pc : {"idle", "connect", "declare", "rebind"},
                  conn : Replicas \cup {None}, next : 1..3]
  /\ registered \in {<<>>, <<First>>, <<First, Late>>}
  /\ open \subseteq used /\ used \subseteq Replicas
  /\ usable \subseteq open /\ closing \subseteq open /\ events \subseteq used \ open
  /\ bound \subseteq usable \X QueueNames
  /\ connected = {c \in Replicas : <<c, First>> \in bound}
  /\ faults \in 0..MaxFaults

ConsumerInit ==
  /\ Init
  /\ stopped = FALSE /\ timer = FALSE /\ channel = None /\ binding = None
  /\ attempt = NoAttempt /\ registered = <<>>
  /\ used = {} /\ open = {} /\ usable = {} /\ closing = {} /\ events = {}
  /\ bound = {} /\ faults = 0

NoFault == UNCHANGED faults
Fault == faults < MaxFaults /\ faults' = faults + 1

-----------------------------------------------------------------------------
\* ensureConnected, called with the primed values of stopped and channel.
EnsureConnected ==
  attempt' = IF stopped' \/ channel' # None \/ attempt.pc # "idle"
               THEN attempt ELSE [NoAttempt EXCEPT !.pc = "connect"]

ScheduleReconnect == timer' = (timer \/ ~ stopped)

\* PaymentEventConsumer.onModuleInit: start, and consume finds no channel yet.
Start ==
  /\ registered = <<>> /\ ~ stopped
  /\ registered' = <<First>>
  /\ UNCHANGED <<stopped, channel>> /\ EnsureConnected
  /\ UNCHANGED <<queueVars, timer, binding, used, socketVars, bound, faults>>

\* The consume of the second consumer, whenever its module gets to it: on a channel
\* it attaches itself, without one it waits for the next connectOnce.
ConsumeLate ==
  /\ registered = <<First>>
  /\ registered' = <<First, Late>>
  /\ binding' = channel
  /\ UNCHANGED <<stopped, channel>> /\ EnsureConnected
  /\ UNCHANGED <<queueVars, timer, used, socketVars, bound, faults>>

\* bindConsumer on connection c; on a dead channel it throws.
Bind(c, q) ==
  IF c \in usable /\ c \notin closing
    THEN /\ bound' = bound \cup {<<c, q>>}
         /\ IF q = First THEN Connect(c) ELSE UNCHANGED queueVars
    ELSE UNCHANGED <<queueVars, bound>>

BindLate ==
  /\ binding # None /\ binding \notin events
  /\ Bind(binding, Late)
  /\ binding' = None
  /\ UNCHANGED <<stopped, timer, channel, attempt, registered, used, socketVars, faults>>

-----------------------------------------------------------------------------
\* connectOnce: amqp.connect resolves, for a manager that was stopped too late.
NextConn == CHOOSE c \in Replicas : c \notin used

ConnectReplies ==
  /\ attempt.pc = "connect" /\ used # Replicas
  /\ used' = used \cup {NextConn}
  /\ IF stopped
       THEN attempt' = NoAttempt /\ UNCHANGED socketVars
       ELSE /\ attempt' = [attempt EXCEPT !.pc = "declare", !.conn = NextConn]
            /\ open' = open \cup {NextConn} /\ usable' = usable \cup {NextConn}
            /\ UNCHANGED <<closing, events>>
  /\ UNCHANGED <<queueVars, stopped, timer, channel, registered, binding, bound, faults>>

\* The catch of connectOnce.
AttemptFails ==
  /\ \/ attempt.pc = "connect" /\ Fault
     \/ attempt.pc = "declare" /\ attempt.conn \notin open /\ NoFault
  /\ attempt' = NoAttempt /\ channel' = None /\ ScheduleReconnect
  /\ UNCHANGED <<queueVars, stopped, registered, binding, used, socketVars, bound>>

\* The queues are declared and the listeners attached.  stopped is not looked at.
Declared ==
  /\ attempt.pc = "declare" /\ attempt.conn \in open
  /\ channel' = attempt.conn
  /\ attempt' = [attempt EXCEPT !.pc = "rebind"]
  /\ UNCHANGED <<queueVars, stopped, timer, registered, binding, used, socketVars, bound, faults>>

\* Mutant of RebindNext: consumers that were registered before stay unbound.
RebindsNobody ==
  /\ attempt.pc = "rebind" /\ attempt' = NoAttempt
  /\ UNCHANGED <<queueVars, bound, stopped, timer, channel, registered, binding, used>>
  /\ UNCHANGED <<socketVars, faults>>

\* One turn of rebindConsumers, over the array as it is now; after the last turn
\* connecting is null again.
RebindNext ==
  /\ attempt.pc = "rebind" /\ attempt.conn \notin events
  /\ IF attempt.next <= Len(registered)
       THEN /\ Bind(attempt.conn, registered[attempt.next])
            /\ attempt' = [attempt EXCEPT !.next = @ + 1]
       ELSE attempt' = NoAttempt /\ UNCHANGED <<queueVars, bound>>
  /\ UNCHANGED <<stopped, timer, channel, registered, binding, used, socketVars, faults>>

-----------------------------------------------------------------------------
\* Connection c ends; it is heard of unless connectOnce still declares the queues.
Ends(c) ==
  /\ c \in open
  /\ open' = open \ {c} /\ usable' = usable \ {c} /\ closing' = closing \ {c}
  /\ events' = IF attempt.pc = "declare" /\ attempt.conn = c THEN events ELSE events \cup {c}
  /\ bound' = {b \in bound : b[1] # c}
  /\ IF c \in connected THEN Drop(c) ELSE UNCHANGED queueVars
  /\ UNCHANGED <<stopped, timer, channel, attempt, registered, binding, used>>

Closes(c) == c \in closing /\ Ends(c) /\ NoFault
Breaks(c) == c \notin closing /\ Ends(c) /\ Fault

\* Mutant of CloseEvent: the listener forgets to reconnect.
CloseEventIgnored(c) ==
  /\ c \in events /\ events' = events \ {c}
  /\ channel' = None
  /\ UNCHANGED <<queueVars, stopped, timer, attempt, registered, binding, used, bound, faults>>
  /\ UNCHANGED <<open, usable, closing>>

\* The listeners of c clear whatever channel the manager has by now.
CloseEvent(c) ==
  /\ c \in events /\ events' = events \ {c}
  /\ channel' = None /\ ScheduleReconnect
  /\ UNCHANGED <<queueVars, stopped, attempt, registered, binding, used, bound, faults>>
  /\ UNCHANGED <<open, usable, closing>>

\* A rejection reaches rebindConsumers long before a timer of seconds.
TimerFires ==
  /\ timer /\ timer' = FALSE
  /\ ~ (attempt.pc = "rebind" /\ attempt.conn \notin usable \cup events)
  /\ \A c \in Replicas : Stale(c) => c \in Slow
  /\ UNCHANGED <<stopped, channel>> /\ EnsureConnected
  /\ UNCHANGED <<queueVars, registered, binding, used, socketVars, bound, faults>>

Stop ==
  /\ ~ stopped /\ registered # <<>>
  /\ stopped' = TRUE /\ timer' = FALSE /\ channel' = None /\ registered' = <<>>
  /\ closing' = closing \cup ({channel} \cap open)
  /\ UNCHANGED <<queueVars, attempt, binding, used, open, usable, events, bound, faults>>

-----------------------------------------------------------------------------
\* recoverChannel for the channel of c: the connection it closes is the one the
\* manager has now.
RecoverChannel(c) ==
  /\ channel' = IF channel = c THEN None ELSE channel
  /\ closing' = closing \cup ({channel} \cap open)
  /\ usable' = usable \ {c} /\ bound' = {b \in bound : b[1] # c}
  /\ ScheduleReconnect
  /\ UNCHANGED <<stopped, attempt, registered, binding, used, open, events>>

\* The broker refuses the copy for the retry queue or the dlq.
CopyRefused(c, k) == PublishRefused(c, k) /\ Fault /\ RecoverChannel(c)

\* A call of dispatch ends on a dead channel: unseen, if it only had to acknowledge
\* and the process does not know of the death yet.
DispatchFails(c, k) ==
  /\ GiveUp(c, k) /\ NoFault
  /\ IF c \in events THEN task[c][k].pc = "ack" /\ UNCHANGED managerVars
                     ELSE RecoverChannel(c)

Dispatch(c, k) ==
  \/ /\ HandlerReturns(c, k) \/ HandlerThrows(c, k) \/ Ack(c, k) \/ PublishCopy(c, k)
     /\ NoFault /\ UNCHANGED managerVars
  \/ DispatchFails(c, k)

Deliveries(c) ==
  c \notin closing /\ (\E x \in Copies : Deliver(c, x)) /\ NoFault /\ UNCHANGED managerVars

Expiry == (\E x \in Copies : RetryExpires(x)) /\ NoFault /\ UNCHANGED managerVars

\* What happens by itself: replies, events, the timer, deliveries and their handlers.
Progress ==
  \/ Start \/ ConsumeLate \/ BindLate
  \/ ConnectReplies \/ Declared \/ RebindNext
  \/ \E c \in Replicas : Closes(c) \/ CloseEvent(c)

ConsumerStep ==
  \/ Progress \/ TimerFires \/ Expiry \/ AttemptFails \/ Stop
  \/ \E c \in Replicas :
       \/ Deliveries(c) \/ Breaks(c)
       \/ \E k \in Tasks : Dispatch(c, k) \/ CopyRefused(c, k)

\* Replies come, events are emitted, the timer runs out, the broker delivers to a
\* consumer that is free and expires copies, and handlers end.
ConsumerFairness ==
  /\ WF_consumerVars(Progress) /\ WF_consumerVars(Expiry)
  /\ WF_consumerVars(TimerFires)
  /\ WF_consumerVars(attempt.pc = "declare" /\ AttemptFails)
  /\ \A c \in Replicas :
       /\ WF_consumerVars(Deliveries(c))
       /\ WF_consumerVars(\E k \in Tasks : Dispatch(c, k))

-----------------------------------------------------------------------------
\* A manager that is not stopped has a live connection, is about to open one, or
\* will hear of something that makes it do so: no order of timers, stale close
\* events, recoveries and replies leaves it waiting for nothing.
NeverWedged ==
  registered # <<>> =>
    timer \/ attempt.pc # "idle" \/ events # {} \/ usable # {}

\* "Consumer registrations survive reconnects": when faults cease, a connection
\* stays that has a consumer of every registered queue.
RegistrationsSurvive ==
  <>[](stopped \/ \E c \in usable : \A q \in QueueNames : <<c, q>> \in bound)
=============================================================================
