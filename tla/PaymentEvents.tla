---------------------------- MODULE PaymentEvents ----------------------------
(***************************************************************************)
(* A payment event on its way from Wompi to the handler of the worker:     *)
(* the webhook of the API, which answers 200 once the message has a        *)
(* publisher confirm and 503 otherwise, Wompi, which posts an event again  *)
(* until it is answered with 2xx, and the consumer of RabbitConsumer.  An  *)
(* event and its message have the same name.  Bodies that the webhook      *)
(* rejects or ignores change nothing and are left out.                     *)
(***************************************************************************)
EXTENDS RabbitConsumer

VARIABLES
  webhook,   \* webhook[m]: where the last POST of m is, or how it was answered
  apiChannel \* the manager of the API has a channel

ingressVars == <<webhook, apiChannel>>
eventVars == <<consumerVars, ingressVars>>

Unanswered == {"unsent", "hangs", "503"}

PaymentEventsTypeOK ==
  /\ ConsumerTypeOK
  /\ webhook \in [Messages -> Unanswered \cup {"publish", "200"}]
  /\ apiChannel \in BOOLEAN

EventsInit ==
  ConsumerInit /\ webhook = [m \in Messages |-> "unsent"] /\ apiChannel = FALSE

Answer(m, code) == webhook' = [webhook EXCEPT ![m] = code]

-----------------------------------------------------------------------------
\* Wompi posts the event, or posts it again when it got no 2xx, and the webhook finds
\* it well signed and about a payment.
WompiPosts(m) ==
  /\ webhook[m] \in Unanswered
  /\ Answer(m, "publish")
  /\ UNCHANGED <<apiChannel, consumerVars>>

\* Mutant of PublishConfirmed: the answer does not wait for the confirm.
AnswersUnconfirmed(m) ==
  /\ webhook[m] = "publish" /\ apiChannel
  /\ Answer(m, "200")
  /\ UNCHANGED <<apiChannel, consumerVars>>

PublishConfirmed(m) ==
  /\ webhook[m] = "publish" /\ apiChannel
  /\ Send(m)
  /\ Answer(m, "200")
  /\ UNCHANGED <<apiChannel, managerVars, faults>>

\* Mutant of NoChannel: the catch answers 200.
SwallowsUnavailable(m) ==
  /\ webhook[m] = "publish" /\ ~ apiChannel
  /\ Answer(m, "200")
  /\ UNCHANGED <<apiChannel, consumerVars>>

\* publish throws RabbitUnavailableError.
NoChannel(m) ==
  /\ webhook[m] = "publish" /\ ~ apiChannel
  /\ Answer(m, "503")
  /\ UNCHANGED <<apiChannel, consumerVars>>

\* The channel dies under publish, before or after the broker has the message.  The
\* wait for the confirm is rejected; a wait for "drain" never ends.
PublishBreaks(m) ==
  /\ webhook[m] = "publish" /\ apiChannel
  /\ apiChannel' = FALSE /\ Fault
  /\ Send(m) \/ UNCHANGED queueVars
  /\ \E code \in {"503", "hangs"} : Answer(m, code)
  /\ UNCHANGED managerVars

ApiConnects == ~ apiChannel /\ apiChannel' = TRUE /\ UNCHANGED <<webhook, consumerVars>>

Webhook(m) == WompiPosts(m) \/ PublishConfirmed(m) \/ NoChannel(m)

EventsNext ==
  \/ \E m \in Messages : Webhook(m) \/ PublishBreaks(m)
  \/ ApiConnects
  \/ ConsumerStep /\ UNCHANGED ingressVars

\* Wompi does not give up on an event, and the API's manager reconnects.
EventsSpec ==
  /\ EventsInit /\ [][EventsNext]_eventVars
  /\ ConsumerFairness
  /\ WF_eventVars(ApiConnects)
  /\ \A m \in Messages : SF_eventVars(PublishConfirmed(m)) /\ WF_eventVars(Webhook(m))

-----------------------------------------------------------------------------
\* ADR 0008: the API "publishes ... with publisher confirms, then returns 200".  A
\* payment event that Wompi will not send again is with the broker, the dlq or its
\* handler, whatever connection of the API or the worker dies.
AcknowledgedIsKept == \A m \in Messages : webhook[m] = "200" => Kept(m)

\* A payment event is handled or ends in the dlq, however often a channel on either
\* side dies, unless the worker is stopped.
PaymentsArrive ==
  \A m \in Messages : (webhook[m] # "unsent") ~> (m \in handled \cup dead \/ stopped)
=============================================================================
