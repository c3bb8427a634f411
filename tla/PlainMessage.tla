---------------------------- MODULE PlainMessage ----------------------------
(***************************************************************************)
(* A plain message (a "_normal" topic) from the publisher to its handlers: *)
(*   Jy.RabbitMQ/client/PublishQueueExecutor.cs, ExecuteAsync and          *)
(*     HandleAsync: publish, and publish again after an exception;         *)
(*   Jy.RabbitMQ/client/RabbitMQConsumerClient.cs: listen, and hand every  *)
(*     delivery over; in this mode nothing acknowledges it;                *)
(*   Jy.RabbitMQ/Operate/QueueOperation.cs, SubscribeTopic, ProcessEvent   *)
(*     and ExecuteHandlersSync: a task per delivery runs the subscribed    *)
(*     handlers one after the other.                                       *)
(* The handlers of user_delete_deleteuser_normal are the case in point:    *)
(* the first deletes the users from the database, the second their index.  *)
(*                                                                         *)
(* The task is started by an async void event handler, so an exception in  *)
(* a task ends the consumer process.  When the process ends, the broker    *)
(* puts back what it had not acknowledged, which is everything it was ever *)
(* given.  (Messages also expire after ten days, which is left out.)       *)
(***************************************************************************)
EXTENDS Integers, SequencesExt

CONSTANTS
  Messages,       \* what is published
  FlakyMessages,  \* those whose publishing may throw
  H,              \* the handlers subscribed to the topic, in order
  LastFailed,     \* the 4 of if (message.FailedTimes <= 4)
  MaxEnds         \* how often the consumer process may end

ASSUME FlakyAssumption    == FlakyMessages \subseteq Messages
ASSUME HandlersAssumption == H \in Nat \ {0}
ASSUME LastAssumption     == LastFailed \in Nat /\ MaxEnds \in Nat

VARIABLES
  publisher,    \* publisher[m]: where the publisher of m is
  failedTimes,  \* failedTimes[m]: FailedTimes
  topic,        \* the broker's queue of the topic
  deliveries,   \* what the consumer process was given, each with its task
  subscribed,   \* how many handlers the starting process has subscribed
  called,       \* called[h]: the messages handler h was called for and returned
  ends          \* how often the consumer process has ended

process == <<subscribed, called, ends>>
pVars   == <<publisher, failedTimes, topic, deliveries, process>>

(* A task enumerates the list of handlers: seen is the length the list had *)
(* when the enumeration began, 0 before; next is the handler to run next,  *)
(* beyond H when the task is over or there never was one.                  *)
Deliveries == [msg : Messages, seen : 0..H, next : 1..(H + 1)]

MessageTypes ==
  /\ publisher   \in [Messages -> {"publish", "sent", "givenUp"}]
  /\ failedTimes \in [Messages -> 0..(LastFailed + 1)]
  /\ topic       \in Seq(Messages)
  /\ deliveries  \in Seq(Deliveries)
  /\ subscribed  \in 0..H
  /\ called      \in [1..H -> SUBSET Messages]
  /\ ends        \in 0..MaxEnds

PInit ==
  /\ publisher   = [m \in Messages |-> "publish"]
  /\ failedTimes = [m \in Messages |-> 0]
  /\ topic       = <<>>
  /\ deliveries  = <<>>
  /\ subscribed  = 0
  /\ called      = [h \in 1..H |-> {}]
  /\ ends        = 0

-----------------------------------------------------------------------------
(***************************************************************************)
(* The publisher.                                                          *)
(***************************************************************************)
PublishMessage(m) ==
  /\ publisher[m] = "publish"
  /\ topic' = Append(topic, m)
  /\ publisher' = [publisher EXCEPT ![m] = "sent"]
  /\ UNCHANGED <<failedTimes, deliveries, process>>

PublishesAgain(n) == n <= LastFailed

(* Publishing throws, before or after the broker has the message: sleep    *)
(* and publish again, or give up with a line in the log.                   *)
PublishThrows(m) ==
  /\ publisher[m] = "publish" /\ m \in FlakyMessages
  /\ topic' \in {topic, Append(topic, m)}
  /\ IF PublishesAgain(failedTimes[m])
     THEN failedTimes' = [failedTimes EXCEPT ![m] = @ + 1] /\ UNCHANGED publisher
     ELSE publisher' = [publisher EXCEPT ![m] = "givenUp"] /\ UNCHANGED failedTimes
  /\ UNCHANGED <<deliveries, process>>

-----------------------------------------------------------------------------
(***************************************************************************)
(* The consumer process.                                                   *)
(***************************************************************************)

(* SubscribeTopic, once per handler.  The first call listens to the queue  *)
(* before it attaches the handler and subscribes it.                       *)
Subscribe ==
  /\ subscribed < H
  /\ subscribed' = subscribed + 1
  /\ UNCHANGED <<publisher, failedTimes, topic, deliveries, called, ends>>

(* OnConsumerReceived: a task for the delivery, or nothing when no handler *)
(* is there yet.                                                           *)
Deliver ==
  /\ topic # <<>>
  /\ topic' = Tail(topic)
  /\ deliveries' = Append(deliveries,
                          [msg |-> Head(topic), seen |-> 0,
                           next |-> IF subscribed = 0 THEN H + 1 ELSE 1])
  /\ UNCHANGED <<publisher, failedTimes, process>>

(* The next handler of a task that is not over.                            *)
Handler(i) == deliveries[i].next

Active(i) == i \in DOMAIN deliveries /\ Handler(i) <= H

(* ExecuteHandlersSync begins to enumerate the list of handlers.           *)
TaskStarts(i) ==
  /\ Active(i) /\ deliveries[i].seen = 0
  /\ deliveries' = [deliveries EXCEPT ![i].seen = subscribed]
  /\ UNCHANGED <<publisher, failedTimes, topic, process>>

(* The enumeration goes on: the list is the one it began with.             *)
Enumerates(i) == Active(i) /\ deliveries[i].seen = subscribed

(* slips: the last handler is run first; the first handler is the only one *)
HandlerRunsReversed(i) ==
  /\ Enumerates(i) /\ Handler(i) <= subscribed
  /\ called' = [called EXCEPT ![subscribed + 1 - Handler(i)] = @ \cup {deliveries[i].msg}]
  /\ deliveries' = [deliveries EXCEPT ![i].next = @ + 1]
  /\ UNCHANGED <<publisher, failedTimes, topic, subscribed, ends>>

HandlerRunsOnce(i) ==
  /\ Enumerates(i) /\ Handler(i) <= subscribed
  /\ called' = [called EXCEPT ![Handler(i)] = @ \cup {deliveries[i].msg}]
  /\ deliveries' = [deliveries EXCEPT ![i].next = H + 1]
  /\ UNCHANGED <<publisher, failedTimes, topic, subscribed, ends>>

HandlerRuns(i) ==
  /\ Enumerates(i) /\ Handler(i) <= subscribed
  /\ called' = [called EXCEPT ![Handler(i)] = @ \cup {deliveries[i].msg}]
  /\ deliveries' = [deliveries EXCEPT ![i].next = @ + 1]
  /\ UNCHANGED <<publisher, failedTimes, topic, subscribed, ends>>

(* The task has run all the handlers its list has.                         *)
TaskEnds(i) ==
  /\ Enumerates(i) /\ Handler(i) > subscribed
  /\ deliveries' = [deliveries EXCEPT ![i].next = H + 1]
  /\ UNCHANGED <<publisher, failedTimes, topic, process>>

(* The consumer process ends and is started again; the broker puts back    *)
(* what it has delivered.                                                  *)
ProcessRestarts ==
  /\ topic' = [i \in DOMAIN deliveries |-> deliveries[i].msg] \o topic
  /\ deliveries' = <<>>
  /\ subscribed' = 0
  /\ UNCHANGED <<publisher, failedTimes, called>>

(* A handler has been subscribed since the enumeration began: the next     *)
(* step of it throws, and nobody catches that.                             *)
EnumerationThrows(i) ==
  /\ Active(i) /\ deliveries[i].seen \notin {0, subscribed}
  /\ ProcessRestarts
  /\ UNCHANGED ends

(* The process is stopped, or a handler throws, which nobody catches.      *)
ProcessEnds ==
  /\ ends < MaxEnds
  /\ ends' = ends + 1
  /\ ProcessRestarts

TaskStep(i) ==
  TaskStarts(i) \/ HandlerRuns(i) \/ TaskEnds(i) \/ EnumerationThrows(i)

PNext ==
  \/ \E m \in Messages : PublishMessage(m) \/ PublishThrows(m)
  \/ Subscribe \/ Deliver \/ ProcessEnds
  \/ \E i \in DOMAIN deliveries : TaskStep(i)

PSpec == PInit /\ [][PNext]_pVars

(* Publishers publish, the process subscribes its handlers, the broker     *)
(* delivers, and the tasks of the process run.  It need not end.           *)
PFairSpec ==
  /\ PSpec
  /\ \A m \in Messages : WF_pVars(PublishMessage(m) \/ PublishThrows(m))
  /\ WF_pVars(Subscribe)
  /\ WF_pVars(Deliver)
  /\ WF_pVars(\E i \in DOMAIN deliveries : TaskStep(i))

-----------------------------------------------------------------------------
(***************************************************************************)
(* Properties.                                                             *)
(***************************************************************************)
Held == {deliveries[i].msg : i \in DOMAIN deliveries}

(* The broker keeps what it was sent: whenever the consumer process ends,  *)
(* the message will be there for the next one.                             *)
NothingForgotten ==
  \A m \in Messages : publisher[m] = "sent" => m \in Held \cup Range(topic)

(* A later handler is never called for a message that an earlier one was   *)
(* not called for, in whatever process: the index of a user is not deleted *)
(* before the user.                                                        *)
HandlersInOrder ==
  \A h \in 1..(H - 1) : called[h + 1] \subseteq called[h]

(* The broker keeps a plain message for as long as it has not been         *)
(* acknowledged, and the handlers have been called in their order.         *)
PlainIsKeptInOrder == MessageTypes /\ NothingForgotten /\ HandlersInOrder

(* A delivery that is taken up when all handlers are subscribed is handed  *)
(* to each of them, or comes back because the process ended.               *)
AllHandlersCalled ==
  \A m \in Messages :
    (\E i \in DOMAIN deliveries : deliveries[i].msg = m /\ deliveries[i].seen = H)
      ~> (\A h \in 1..H : m \in called[h]) \/ m \in Range(topic)

-----------------------------------------------------------------------------
(***************************************************************************)
(* What a comment of the code says of it, and it does not do.              *)
(***************************************************************************)

(* Automatic acknowledgement is off and messages are acknowledged by hand, *)
(* so one that has been through its handlers is acknowledged.              *)
AcknowledgedByHand ==
  \A m \in Messages : (\A h \in 1..H : m \in called[h]) ~> m \notin Held
=============================================================================
