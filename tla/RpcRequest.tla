----------------------------- MODULE RpcRequest -----------------------------
(***************************************************************************)
(* The rpc of the message queue, end to end:                               *)
(*   Jy.QueueService/QueueSerivce.cs, Request: send, retry on exceptions;  *)
(*   Jy.RabbitMQ/client/PublishQueueExecutor.cs, RequestPublish: publish,  *)
(*     wait on a monitor all requests share, and read the reply from a     *)
(*     field all requests share (the executor is a singleton);             *)
(*   Jy.RabbitMQ/client/RabbitMQConsumerClient.cs: run the handler, reply, *)
(*     acknowledge;                                                        *)
(* and between them the broker: a request queue and a reply queue, both    *)
(* durable, with manual acknowledgements.                                  *)
(*                                                                         *)
(* Each request is a thread and names its message; a reply is the message  *)
(* it answers, with the bytes the handler returned or without.             *)
(* RequestPublish opens a reply consumer of its own for every attempt and  *)
(* never closes it, so a reply goes to any of those opened so far, on a    *)
(* channel with delivery tags of its own.                                  *)
(* What the code does while it owns the monitor is one step.               *)
(***************************************************************************)
EXTENDS Integers, SequencesExt

CONSTANTS
  Requests,      \* the calls of Request, with a message each
  NoReply,       \* returnMsg before the first reply
  LastRun,       \* the 4 of if (runcnt <= 4)
  Flaky,         \* those whose calls of the broker, or succHandle, may throw
  Failing,       \* those whose ProcessMsg may throw, or not be run at all
  MaxCrashes     \* how often the consumer process may be restarted

ASSUME ReplyAssumption  == NoReply \notin Requests \X BOOLEAN
ASSUME BoundsAssumption == LastRun \in Nat /\ MaxCrashes \in Nat
ASSUME FailsAssumption  == Flaky \subseteq Requests /\ Failing \subseteq Requests

VARIABLES
  pc,         \* where each request is
  run,        \* run[r]: runcnt
  result,     \* result[r]: the reply handed to succHandle
  waiters,    \* the threads in Monitor.Wait, in the order Pulse takes them
  returnMsg,  \* the executor's field: the last reply received
  tag,        \* _deliveryTag, its delivery tag
  open,       \* the reply channels that are open
  sent,       \* sent[ch]: how much was delivered on ch: the last delivery tag
  out,        \* out[ch]: what was delivered on ch and not acknowledged
  queue,      \* the broker's request queue
  replies,    \* the broker's reply queue
  cpc,        \* where the consumer is in OnConsumerReceived
  unacked,    \* what the consumer was given and has not acknowledged
  replyOpen,  \* whether the consumer's reply channel is open
  inserts,    \* inserts[r]: how often the handler has stored r's entity
  skipped,    \* the messages that were answered with no handler run
  crashes     \* how often the consumer has been restarted

client   == <<pc, run, result, waiters, returnMsg, tag, open, sent, out>>
consumer == <<cpc, unacked, replyOpen, inserts, skipped, crashes>>
vars     == <<client, queue, replies, consumer>>

Channels == Requests \X (0..(LastRun + 1))

(* A message and whether MessageBodyReturnByte is set.                     *)
Replies == Requests \X BOOLEAN

(* The reply channel of r's current attempt.                               *)
Channel(r) == <<r, run[r]>>

TypeOK ==
  /\ pc        \in [Requests -> {"start", "publish", "published", "waiting",
                                 "ready", "received", "done", "failed"}]
  /\ run       \in [Requests -> 0..(LastRun + 1)]
  /\ result    \in [Requests -> Replies \cup {NoReply}]
  /\ waiters   \in Seq(Requests)
  /\ returnMsg \in Replies \cup {NoReply}
  /\ tag       \in Nat
  /\ open      \in SUBSET Channels
  /\ sent      \in [Channels -> Nat]
  /\ out       \in [Channels -> Seq([tag : Nat, reply : Replies])]
  /\ queue     \in Seq(Requests)
  /\ replies   \in Seq(Replies)
  /\ cpc       \in {"idle", "handling", "handled", "skipped", "acking"}
  /\ unacked   \in Seq(Requests)
  /\ replyOpen \in BOOLEAN
  /\ inserts   \in [Requests -> Nat]
  /\ skipped   \in SUBSET Requests
  /\ crashes   \in 0..MaxCrashes

Init ==
  /\ pc        = [r \in Requests |-> "start"]
  /\ run       = [r \in Requests |-> 0]
  /\ result    = [r \in Requests |-> NoReply]
  /\ waiters   = <<>>
  /\ returnMsg = NoReply
  /\ tag       = 0
  /\ open      = {}
  /\ sent      = [ch \in Channels |-> 0]
  /\ out       = [ch \in Channels |-> <<>>]
  /\ queue     = <<>>
  /\ replies   = <<>>
  /\ cpc       = "idle"
  /\ unacked   = <<>>
  /\ replyOpen = TRUE
  /\ inserts   = [r \in Requests |-> 0]
  /\ skipped   = {}
  /\ crashes   = 0

-----------------------------------------------------------------------------
(***************************************************************************)
(* RequestPublish.                                                         *)
(***************************************************************************)

(* Bind the reply queue and consume from it on a new channel.              *)
Consume(r) ==
  /\ pc[r] = "start"
  /\ open' = open \cup {Channel(r)}
  /\ pc' = [pc EXCEPT ![r] = "publish"]
  /\ UNCHANGED <<run, result, waiters, returnMsg, tag, sent, out, queue, replies, consumer>>

Publish(r) ==
  /\ pc[r] = "publish"
  /\ queue' = Append(queue, r)
  /\ pc' = [pc EXCEPT ![r] = "published"]
  /\ UNCHANGED <<run, result, waiters, returnMsg, tag, open, sent, out, replies, consumer>>

Resends(n) == n <= LastRun

(* Request catches what r throws, sleeps and calls itself again.           *)
CountRun(r)  == run' = [run EXCEPT ![r] = IF Resends(@) THEN @ + 1 ELSE @]
AfterThat(r) == [pc EXCEPT ![r] = IF Resends(run[r]) THEN "start" ELSE "failed"]

(* Anything up to the publish throws, and so does Monitor.Pulse in the     *)
(* finally, for want of the monitor; what was published stays published.   *)
(* Or succHandle throws, when the message has been handled already.        *)
RequestThrows(r) ==
  /\ r \in Flaky
  /\ pc[r] \in {"start", "publish"} \/ (pc[r] = "received" /\ result[r][2])
  /\ queue' \in {queue} \cup (IF pc[r] = "publish" THEN {Append(queue, r)} ELSE {})
  /\ CountRun(r) /\ pc' = AfterThat(r)
  /\ UNCHANGED <<result, waiters, returnMsg, tag, open, sent, out, replies, consumer>>

(* Monitor.Enter and Monitor.Wait.                                         *)
Wait(r) ==
  /\ pc[r] = "published"
  /\ waiters' = Append(waiters, r)
  /\ pc' = [pc EXCEPT ![r] = "waiting"]
  /\ UNCHANGED <<run, result, returnMsg, tag, open, sent, out, queue, replies, consumer>>

(* Monitor.Pulse: the first waiter, if there is one, may have the monitor  *)
(* back.                                                                   *)
Pulse(p) ==
  IF waiters = <<>>
  THEN pc' = p /\ UNCHANGED waiters
  ELSE pc' = [p EXCEPT ![Head(waiters)] = "ready"] /\ waiters' = Tail(waiters)

(* The channel is closed, and the broker puts back what was outstanding.   *)
CloseChannel(ch) ==
  /\ replies' = [i \in DOMAIN out[ch] |-> out[ch][i].reply] \o replies
  /\ out'  = [out EXCEPT ![ch] = <<>>]
  /\ open' = open \ {ch}

(* BasicAck of one delivery.  A tag that is not outstanding on the channel *)
(* makes the broker close it.                                              *)
AckReply(ch, n) ==
  \/ \E i \in DOMAIN out[ch] :
       /\ out[ch][i].tag = n
       /\ out' = [out EXCEPT ![ch] = RemoveAt(@, i)]
       /\ UNCHANGED <<open, replies>>
  \/ (\A i \in DOMAIN out[ch] : out[ch][i].tag # n) /\ CloseChannel(ch)

(* Awake, with the monitor: acknowledge, take the reply that is there, and *)
(* pulse and exit in the finally.                                          *)
Return(r) ==
  /\ pc[r] = "ready"
  /\ result' = [result EXCEPT ![r] = returnMsg]
  /\ AckReply(Channel(r), tag)
  /\ Pulse([pc EXCEPT ![r] = "received"])
  /\ UNCHANGED <<run, returnMsg, tag, sent, queue, consumer>>

(* The acknowledgement, or what disposes of the channel after it, throws   *)
(* as the connection is lost; the reply is not taken.                      *)
ReturnThrows(r) ==
  /\ r \in Flaky /\ pc[r] = "ready"
  /\ CloseChannel(Channel(r)) \/ AckReply(Channel(r), tag)
  /\ CountRun(r) /\ Pulse(AfterThat(r))
  /\ UNCHANGED <<result, returnMsg, tag, sent, queue, consumer>>

(* succHandle, if there are bytes, and the end of Request.                 *)
Succeeds(r) ==
  /\ pc[r] = "received" /\ pc' = [pc EXCEPT ![r] = "done"]
  /\ UNCHANGED <<run, result, waiters, returnMsg, tag, open, sent, out, queue,
                 replies, consumer>>

(* The broker chooses one of the reply channels for the first reply.       *)
DeliverReply(ch) ==
  /\ replies # <<>> /\ ch \in open
  /\ replies' = Tail(replies)
  /\ sent' = [sent EXCEPT ![ch] = @ + 1]
  /\ out' = [out EXCEPT ![ch] = Append(@, [tag |-> sent[ch] + 1, reply |-> Head(replies)])]

(* a slip: the waiters are pulsed before the reply is there *)
OnReplyPulseOnly(ch) ==
  /\ DeliverReply(ch)
  /\ tag' = sent[ch] + 1
  /\ Pulse(pc)
  /\ UNCHANGED <<run, result, returnMsg, open, queue, consumer>>

(* OnReplyConsumerReceived: keep the reply and its tag, and pulse.         *)
OnReply(ch) ==
  /\ DeliverReply(ch)
  /\ returnMsg' = Head(replies)
  /\ tag' = sent[ch] + 1
  /\ Pulse(pc)
  /\ UNCHANGED <<run, result, open, queue, consumer>>

-----------------------------------------------------------------------------
(***************************************************************************)
(* OnConsumerReceived, in response mode, one delivery after the other.     *)
(***************************************************************************)
Current == Last(unacked)

(* a slip: BasicConsume with automatic acknowledgement *)
ReceiveAutoAck ==
  /\ cpc = "idle" /\ queue # <<>>
  /\ cpc' = "handling"
  /\ unacked' = <<Head(queue)>>
  /\ queue' = Tail(queue)
  /\ UNCHANGED <<client, replies, replyOpen, inserts, skipped, crashes>>

Receive ==
  /\ cpc = "idle" /\ queue # <<>>
  /\ cpc' = "handling"
  /\ unacked' = Append(unacked, Head(queue))
  /\ queue' = Tail(queue)
  /\ UNCHANGED <<client, replies, replyOpen, inserts, skipped, crashes>>

HandlerReturns ==
  /\ cpc = "handling"
  /\ cpc' = "handled"
  /\ inserts' = [inserts EXCEPT ![Current] = @ + 1]
  /\ UNCHANGED <<client, queue, replies, unacked, replyOpen, skipped, crashes>>

(* No handler is run, and nothing says so: the queue is listened to before *)
(* the handler is attached to it, and RunLock gives up when it is refused  *)
(* the lock too often.                                                     *)
HandlerSkipped ==
  /\ cpc = "handling" /\ Current \in Failing
  /\ cpc' = "skipped"
  /\ skipped' = skipped \cup {Current}
  /\ UNCHANGED <<client, queue, replies, unacked, replyOpen, inserts, crashes>>

(* The delivery is rejected on the reply channel, which never saw it: the  *)
(* broker closes that channel.  The message is neither answered nor        *)
(* acknowledged.                                                           *)
HandlerThrows ==
  /\ cpc = "handling" /\ Current \in Failing
  /\ cpc' = "idle"
  /\ replyOpen' = FALSE
  /\ UNCHANGED <<client, queue, replies, unacked, inserts, skipped, crashes>>

(* Publish the reply; on a closed channel that throws.                     *)
Reply ==
  /\ cpc \in {"handled", "skipped"}
  /\ \/ /\ replyOpen
        /\ replies' = Append(replies, <<Current, cpc = "handled">>)
        /\ cpc' = "acking"
     \/ /\ ~ replyOpen
        /\ cpc' = "idle"
        /\ UNCHANGED replies
  /\ UNCHANGED <<client, queue, unacked, replyOpen, inserts, skipped, crashes>>

AckRequest ==
  /\ cpc = "acking"
  /\ cpc' = "idle"
  /\ unacked' = Front(unacked)
  /\ UNCHANGED <<client, queue, replies, replyOpen, inserts, skipped, crashes>>

(* a slip: what was not acknowledged is gone with the consumer *)
RestartEmpty ==
  /\ crashes < MaxCrashes
  /\ crashes' = crashes + 1
  /\ unacked' = <<>>
  /\ cpc' = "idle"
  /\ replyOpen' = TRUE
  /\ UNCHANGED <<client, queue, replies, inserts, skipped>>

(* The consumer process dies and comes back: the broker puts what it had   *)
(* not acknowledged back in front.                                         *)
Restart ==
  /\ crashes < MaxCrashes
  /\ crashes' = crashes + 1
  /\ queue' = unacked \o queue
  /\ unacked' = <<>>
  /\ cpc' = "idle"
  /\ replyOpen' = TRUE
  /\ UNCHANGED <<client, replies, inserts, skipped>>

ClientStep(r) ==
  \/ Consume(r) \/ Publish(r) \/ RequestThrows(r) \/ Wait(r)
  \/ Return(r) \/ ReturnThrows(r) \/ Succeeds(r)

ConsumerStep ==
  Receive \/ HandlerReturns \/ HandlerSkipped \/ HandlerThrows \/ Reply \/ AckRequest

Next ==
  \/ \E r \in Requests : ClientStep(r)
  \/ \E ch \in Channels : OnReply(ch)
  \/ ConsumerStep
  \/ Restart

Spec == Init /\ [][Next]_vars

(* Threads run, the broker delivers what it has to a consumer that is      *)
(* there, and a handler returns or throws.  The consumer need not crash.   *)
FairSpec ==
  /\ Spec
  /\ \A r \in Requests : WF_vars(ClientStep(r))
  /\ WF_vars(\E ch \in Channels : OnReply(ch))
  /\ WF_vars(ConsumerStep)

-----------------------------------------------------------------------------
(***************************************************************************)
(* Properties.                                                             *)
(***************************************************************************)
Sent(r) == pc[r] \in {"published", "waiting", "ready", "received", "done"}

(* A published request can be lost in one way only, by being answered      *)
(* without being handled; whatever the consumer does otherwise and however *)
(* often it dies, the request was handled or will be delivered.            *)
HandledOrKept ==
  \A r \in Requests :
    Sent(r) => \/ inserts[r] > 0
               \/ r \in Range(queue) \cup Range(unacked) \cup skipped

(* Nobody reports success with a reply that no handler produced: a woken   *)
(* request finds a reply, and when that carries returned bytes, with which *)
(* succHandle updates the cache, the entity it names has been stored.      *)
ResultWasStored ==
  \A r \in Requests :
    pc[r] \in {"received", "done"} =>
      /\ result[r] # NoReply
      /\ result[r][2] => inserts[result[r][1]] > 0

(* The consumer has been through with r and keeps it: its handler threw,   *)
(* or its reply did.                                                       *)
LeftOver(r) ==
  r \in Range(unacked) /\ ~ (cpc # "idle" /\ r = Current)

(* A published request is handled sooner or later, consumer crashes or     *)
(* not, unless its handler fails.                                          *)
SentIsHandled ==
  \A r \in Requests :
    pc[r] = "published" ~>
      \/ inserts[r] > 0
      \/ r \in Failing /\ (r \in skipped \/ LeftOver(r))

-----------------------------------------------------------------------------
(***************************************************************************)
(* What comments of the code say of it, and it does not do.                *)
(***************************************************************************)

(* RequestPublish waits until OnReplyConsumerReceived has run, and then    *)
(* goes on.                                                                *)
RequestReturns ==
  \A r \in Requests : pc[r] = "published" ~> pc[r] = "done"

(* The reply a request gets is the receipt of its own message.             *)
OwnReply ==
  \A r \in Requests : result[r] # NoReply => result[r][1] = r

=============================================================================
