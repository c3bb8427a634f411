--------------------------- MODULE MessageProofs ---------------------------
(***************************************************************************)
(* Proofs about the two ways of a message.  RpcRequest: for any requests,  *)
(* any number of retries and of restarts, and any requests whose           *)
(* publishing or handling may fail.  PlainMessage: for any messages and    *)
(* any number of handlers, retries and ends of the consumer process.       *)
(***************************************************************************)
EXTENDS RpcRequest, PlainMessage, TLAPS

Places == {"start", "publish", "published", "waiting", "ready", "received",
           "done", "failed"}

(* The variables that decide what becomes of a request.                    *)
Shape ==
  /\ pc      \in [Requests -> Places]
  /\ waiters \in Seq(Requests)
  /\ queue   \in Seq(Requests)
  /\ unacked \in Seq(Requests)
  /\ inserts \in [Requests -> Nat]
  /\ cpc     \in {"idle", "handling", "handled", "skipped", "acking"}

(* Who waits for a pulse waits once.                                       *)
WaitersWait ==
  /\ \A i \in DOMAIN waiters : pc[waiters[i]] = "waiting"
  /\ \A i, j \in DOMAIN waiters : i # j => waiters[i] # waiters[j]

(* What the consumer is about to answer or to acknowledge is the last that *)
(* it was given, and it has been handled or skipped.                       *)
AnsweredWasHandled ==
  /\ cpc # "idle" => unacked # <<>>
  /\ cpc = "handled" => inserts[Current] > 0
  /\ cpc = "skipped" => Current \in skipped
  /\ cpc = "acking"  => inserts[Current] > 0 \/ Current \in skipped

Inv == Shape /\ WaitersWait /\ AnsweredWasHandled /\ HandledOrKept

-----------------------------------------------------------------------------
(* What is in a sequence after the operations of the queues.               *)
LEMMA WithOneMore ==
  ASSUME NEW S, NEW s \in Seq(S), NEW r \in S
  PROVE  /\ Append(s, r) \in Seq(S) /\ Append(s, r) # <<>>
         /\ Range(Append(s, r)) = Range(s) \cup {r} /\ Last(Append(s, r)) = r
<1>1. Len(s) \in Nat /\ DOMAIN s = 1..Len(s)
  OBVIOUS
<1>2. /\ Append(s, r) \in Seq(S) /\ DOMAIN Append(s, r) = 1..(Len(s) + 1)
      /\ Append(s, r)[Len(s) + 1] = r /\ Len(Append(s, r)) = Len(s) + 1
      /\ \A i \in 1..Len(s) : Append(s, r)[i] = s[i]
  BY <1>1
<1>3. Range(Append(s, r)) = Range(s) \cup {r}
  BY <1>1, <1>2 DEF Range
<1>4. Last(Append(s, r)) = r /\ Append(s, r) # <<>>
  BY <1>1, <1>2 DEF Last
<1> QED
  BY <1>2, <1>3, <1>4

LEMMA Together ==
  ASSUME NEW S, NEW s \in Seq(S), NEW t \in Seq(S)
  PROVE  s \o t \in Seq(S) /\ Range(s \o t) = Range(s) \cup Range(t)
<1>1. /\ Len(s) \in Nat /\ DOMAIN s = 1..Len(s)
      /\ Len(t) \in Nat /\ DOMAIN t = 1..Len(t)
  OBVIOUS
<1>2. /\ s \o t \in Seq(S) /\ DOMAIN (s \o t) = 1..(Len(s) + Len(t))
      /\ \A i \in 1..(Len(s) + Len(t)) :
           (s \o t)[i] = IF i <= Len(s) THEN s[i] ELSE t[i - Len(s)]
  BY <1>1
<1>3. Range(s \o t) = Range(s) \cup Range(t)
  <2> DEFINE u == s \o t
  <2>1. /\ DOMAIN u = 1..(Len(s) + Len(t))
        /\ \A i \in 1..Len(s) : i \in DOMAIN u /\ u[i] = s[i]
        /\ \A i \in 1..Len(t) : i + Len(s) \in DOMAIN u /\ u[i + Len(s)] = t[i]
    BY <1>1, <1>2
  <2>2. \A i \in DOMAIN u : \/ i \in 1..Len(s)
                            \/ i - Len(s) \in 1..Len(t) /\ u[i] = t[i - Len(s)]
    BY <1>1, <1>2, <2>1
  <2> HIDE DEF u
  <2>3. \A x \in Range(u) : x \in Range(s) \cup Range(t)
    BY <1>1, <2>1, <2>2 DEF Range
  <2>4. \A x \in Range(s) \cup Range(t) : x \in Range(u)
    BY <1>1, <2>1 DEF Range
  <2> QED
    BY <2>3, <2>4 DEF u
<1> QED
  BY <1>2, <1>3

LEMMA WithoutEnds ==
  ASSUME NEW S, NEW s \in Seq(S), s # <<>>
  PROVE  /\ Head(s) \in S /\ Tail(s) \in Seq(S)
         /\ Range(s) = Range(Tail(s)) \cup {Head(s)}
         /\ Last(s) \in S /\ Front(s) \in Seq(S)
         /\ Range(s) = Range(Front(s)) \cup {Last(s)}
<1>1. /\ Len(s) \in Nat \ {0} /\ DOMAIN s = 1..Len(s)
      /\ \A i \in 1..Len(s) : s[i] \in S
  OBVIOUS
<1>2. Last(s) = s[Len(s)] /\ Front(s) = SubSeq(s, 1, Len(s) - 1)
  BY DEF Last, Front
<1>3. /\ Head(s) = s[1] /\ Tail(s) \in Seq(S)
      /\ DOMAIN Tail(s) = 1..(Len(s) - 1)
      /\ \A i \in 1..(Len(s) - 1) : Tail(s)[i] = s[i + 1]
  BY <1>1
<1>4. /\ Front(s) \in Seq(S) /\ DOMAIN Front(s) = 1..(Len(s) - 1)
      /\ \A i \in 1..(Len(s) - 1) : Front(s)[i] = s[i]
  BY <1>1, <1>2
<1> DEFINE n == Len(s)
<1>5. /\ 1 \in 1..n /\ n \in 1..n
      /\ \A i \in 1..(n - 1) : i \in 1..n /\ i + 1 \in 1..n
      /\ \A i \in 1..n : i = 1 \/ \E j \in 1..(n - 1) : i = j + 1
      /\ \A i \in 1..n : i = n \/ i \in 1..(n - 1)
  <2>1. \A i \in 1..n : i = 1 \/ (i - 1 \in 1..(n - 1) /\ i = (i - 1) + 1)
    BY <1>1
  <2> HIDE DEF n
  <2>2. n \in Nat \ {0}
    BY <1>1 DEF n
  <2>3. \A i \in 1..n : i = n \/ i \in 1..(n - 1)
    BY <2>2
  <2> QED
    BY <2>1, <2>2, <2>3
<1> HIDE DEF n
<1>6. Range(s) = Range(Tail(s)) \cup {s[1]}
  <2>1. ASSUME NEW x \in Range(s), x # s[1] PROVE x \in Range(Tail(s))
    <3>1. PICK i \in 1..n : s[i] = x
      BY <1>1 DEF Range, n
    <3>2. PICK j \in 1..(n - 1) : i = j + 1
      BY <1>5, <2>1, <3>1
    <3>3. j \in DOMAIN Tail(s) /\ Tail(s)[j] = x
      BY <1>3, <3>1, <3>2 DEF n
    <3> QED
      BY <3>3 DEF Range
  <2>2. \A x \in Range(Tail(s)) \cup {s[1]} : x \in Range(s)
    BY <1>1, <1>3, <1>5 DEF Range, n
  <2> QED
    BY <2>1, <2>2
<1>7. Range(s) = Range(Front(s)) \cup {s[n]}
  <2>1. \A x \in Range(s) : x \in Range(Front(s)) \cup {s[n]}
    BY <1>1, <1>4, <1>5 DEF Range, n
  <2>2. \A x \in Range(Front(s)) \cup {s[n]} : x \in Range(s)
    BY <1>1, <1>4, <1>5 DEF Range, n
  <2> QED
    BY <2>1, <2>2
<1>8. Last(s) \in S /\ Last(s) = s[n] /\ Head(s) \in S
  BY <1>1, <1>2, <1>3, <1>5 DEF n
<1> QED
  BY <1>3, <1>4, <1>6, <1>7, <1>8

LEMMA Elements ==
  ASSUME NEW S, NEW s \in Seq(S)
  PROVE  \A x \in Range(s) : x \in S
  BY DEF Range

LEMMA WithoutOne ==
  ASSUME NEW S, NEW s \in Seq(S), NEW i \in DOMAIN s
  PROVE  RemoveAt(s, i) \in Seq(S) /\ Range(RemoveAt(s, i)) \subseteq Range(s)
<1> DEFINE a == SubSeq(s, 1, i - 1)
           b == SubSeq(s, i + 1, Len(s))
<1>1. Len(s) \in Nat /\ i \in 1..Len(s) /\ DOMAIN s = 1..Len(s)
  OBVIOUS
<1>2. /\ a \in Seq(S) /\ DOMAIN a = 1..(i - 1)
      /\ \A j \in 1..(i - 1) : a[j] = s[j] /\ j \in 1..Len(s)
  BY <1>1
<1>3. /\ b \in Seq(S) /\ DOMAIN b = 1..(Len(s) - i)
      /\ \A j \in 1..(Len(s) - i) : b[j] = s[i + j] /\ i + j \in 1..Len(s)
  BY <1>1
<1> HIDE DEF a, b
<1>4. Range(a) \subseteq Range(s) /\ Range(b) \subseteq Range(s)
  BY <1>1, <1>2, <1>3 DEF Range
<1>5. RemoveAt(s, i) = a \o b
  BY DEF RemoveAt, a, b
<1> QED
  BY <1>2, <1>3, <1>4, <1>5, Together

(* The image of a sequence, element by element.                            *)
LEMMA Mapped ==
  ASSUME NEW S, NEW T, NEW s \in Seq(S), NEW t,
         DOMAIN t = DOMAIN s, t = [i \in DOMAIN s |-> t[i]],
         \A i \in DOMAIN s : t[i] \in T
  PROVE  t \in Seq(T) /\ Len(t) = Len(s)
<1>1. Len(s) \in Nat /\ DOMAIN s = 1..Len(s)
  OBVIOUS
<1>2. t \in [1..Len(s) -> T]
  BY <1>1
<1> QED
  BY <1>1, <1>2

-----------------------------------------------------------------------------
LEMMA InitInv == Init => Inv
  BY DEF Init, Inv, Shape, Places, WaitersWait, AnsweredWasHandled, HandledOrKept, Sent

(* A thread that does not wait takes a step, with no pulse, and published  *)
(* what it goes on with.                                                   *)
LEMMA ThreadMoves ==
  ASSUME Inv, NEW r \in Requests, pc[r] # "waiting",
         NEW l \in {"start", "publish", "published", "done", "failed"},
         pc' = [pc EXCEPT ![r] = l], queue' \in {queue, Append(queue, r)},
         l \in {"published", "done"} => Sent(r) \/ queue' = Append(queue, r),
         UNCHANGED <<waiters, consumer>>
  PROVE  Inv'
<1> USE DEF Inv
<1>1. queue' \in Seq(Requests) /\ Range(queue) \subseteq Range(queue')
        /\ (queue' = Append(queue, r) => r \in Range(queue'))
  <2>1. queue \in Seq(Requests)
    BY DEF Shape
  <2>2. /\ Append(queue, r) \in Seq(Requests)
        /\ Range(Append(queue, r)) = Range(queue) \cup {r}
    BY <2>1, WithOneMore
  <2> QED
    BY <2>1, <2>2
<1>2. Shape'
  BY <1>1 DEF Shape, Places, consumer
<1>3. WaitersWait'
  BY DEF Shape, WaitersWait
<1>4. AnsweredWasHandled'
  BY DEF AnsweredWasHandled, consumer, Current
<1>5. \A q \in Requests : Sent(q)' => Sent(q) \/ q \in Range(queue')
  BY <1>1 DEF Shape, Sent
<1>6. HandledOrKept'
  BY <1>1, <1>5 DEF HandledOrKept, consumer
<1> QED
  BY <1>2, <1>3, <1>4, <1>6

LEMMA ConsumeInv ==
  ASSUME Inv, NEW r \in Requests, Consume(r)
  PROVE  Inv'
  BY ThreadMoves DEF Consume, consumer

LEMMA PublishInv ==
  ASSUME Inv, NEW r \in Requests, Publish(r)
  PROVE  Inv'
  BY ThreadMoves DEF Publish, consumer

LEMMA RequestThrowsInv ==
  ASSUME Inv, NEW r \in Requests, RequestThrows(r)
  PROVE  Inv'
<1>1. /\ pc[r] # "waiting" /\ queue' \in {queue, Append(queue, r)}
      /\ UNCHANGED <<waiters, consumer>>
  BY DEF RequestThrows, consumer
<1>2. pc' = [pc EXCEPT ![r] = "start"] \/ pc' = [pc EXCEPT ![r] = "failed"]
  BY DEF RequestThrows, AfterThat
<1> QED
  BY <1>1, <1>2, ThreadMoves

LEMMA SucceedsInv ==
  ASSUME Inv, NEW r \in Requests, Succeeds(r)
  PROVE  Inv'
  BY ThreadMoves DEF Succeeds, Sent, consumer

LEMMA WaitInv ==
  ASSUME Inv, NEW r \in Requests, Wait(r)
  PROVE  Inv'
<1> USE DEF Inv
<1>1. /\ pc[r] = "published" /\ pc' = [pc EXCEPT ![r] = "waiting"]
      /\ waiters' = Append(waiters, r) /\ UNCHANGED <<queue, consumer>>
  BY DEF Wait, consumer
<1>2. Shape'
  BY <1>1 DEF Shape, Places, consumer
<1>3. WaitersWait'
  <2>1. /\ waiters \in Seq(Requests) /\ Len(waiters) \in Nat
        /\ DOMAIN waiters = 1..Len(waiters)
        /\ DOMAIN waiters' = 1..(Len(waiters) + 1)
        /\ waiters'[Len(waiters) + 1] = r
        /\ \A i \in 1..Len(waiters) : waiters'[i] = waiters[i]
    BY <1>1 DEF Shape
  <2>2. \A i \in 1..Len(waiters) : pc[waiters[i]] = "waiting" /\ waiters[i] # r
    BY <1>1, <2>1 DEF WaitersWait
  <2>3. \A i \in 1..(Len(waiters) + 1) : pc'[waiters'[i]] = "waiting"
    BY <1>1, <2>1, <2>2 DEF Shape
  <2>4. \A i, j \in 1..(Len(waiters) + 1) : i # j => waiters'[i] # waiters'[j]
    BY <2>1, <2>2 DEF WaitersWait
  <2> QED
    BY <2>1, <2>3, <2>4 DEF WaitersWait
<1>4. AnsweredWasHandled'
  BY <1>1 DEF AnsweredWasHandled, consumer, Current
<1>5. HandledOrKept'
  BY <1>1 DEF Shape, HandledOrKept, Sent, consumer
<1> QED
  BY <1>2, <1>3, <1>4, <1>5

(* A pulse wakes one that waits; the one that pulses, r, has its reply or  *)
(* an exception, or it is the consumer of the replies and no request moves.*)
LEMMA PulseInv ==
  ASSUME Inv, NEW p, Pulse(p), UNCHANGED <<queue, consumer>>,
         p = pc \/ \E r \in Requests, l \in {"received", "start", "failed"} :
                     pc[r] = "ready" /\ p = [pc EXCEPT ![r] = l]
  PROVE  Inv'
<1> USE DEF Inv
<1>1. /\ p \in [Requests -> Places]
      /\ \A i \in DOMAIN waiters : p[waiters[i]] = "waiting"
      /\ \A q \in Requests :
           p[q] \in {"published", "waiting", "ready", "received", "done"} => Sent(q)
  <2>1. CASE p = pc
    BY <2>1 DEF Shape, WaitersWait, Sent
  <2>2. CASE p # pc
    <3>1. PICK r \in Requests, l \in {"received", "start", "failed"} :
            pc[r] = "ready" /\ p = [pc EXCEPT ![r] = l]
      BY <2>2
    <3>2. \A i \in DOMAIN waiters : waiters[i] \in Requests /\ waiters[i] # r
      BY <3>1 DEF Shape, WaitersWait
    <3>3. p \in [Requests -> Places]
      BY <3>1 DEF Shape, Places
    <3>4. \A i \in DOMAIN waiters : p[waiters[i]] = "waiting"
      BY <3>1, <3>2 DEF Shape, WaitersWait
    <3>5. ASSUME NEW q \in Requests,
                 p[q] \in {"published", "waiting", "ready", "received", "done"}
          PROVE  Sent(q)
      BY <3>1, <3>5 DEF Shape, Sent
    <3> QED
      BY <3>3, <3>4, <3>5
  <2> QED
    BY <2>1, <2>2
<1>2. AnsweredWasHandled'
  BY DEF AnsweredWasHandled, consumer, Current
<1>3. CASE waiters = <<>>
  <2>1. pc' = p /\ waiters' = waiters
    BY <1>3 DEF Pulse
  <2>2. Shape'
    BY <1>1, <2>1 DEF Shape, consumer
  <2>3. WaitersWait'
    BY <1>1, <2>1 DEF WaitersWait
  <2>4. HandledOrKept'
    BY <1>1, <2>1 DEF HandledOrKept, Sent, consumer
  <2> QED
    BY <1>2, <2>2, <2>3, <2>4
<1>4. CASE waiters # <<>>
  <2> DEFINE h == Head(waiters)
  <2>1. /\ Len(waiters) \in Nat \ {0} /\ DOMAIN waiters = 1..Len(waiters)
        /\ h = waiters[1] /\ h \in Requests /\ waiters \in Seq(Requests)
        /\ waiters' = Tail(waiters) /\ pc' = [p EXCEPT ![h] = "ready"]
    BY <1>4 DEF Shape, Pulse
  <2> HIDE DEF h
  <2>2. /\ waiters' \in Seq(Requests) /\ DOMAIN waiters' = 1..(Len(waiters) - 1)
        /\ \A i \in 1..(Len(waiters) - 1) :
             waiters'[i] = waiters[i + 1] /\ i + 1 \in 1..Len(waiters) /\ i + 1 # 1
    BY <2>1
  <2>3. p[h] = "waiting"
    BY <1>1, <2>1
  <2>4. Shape'
    BY <1>1, <2>1, <2>2 DEF Shape, Places, consumer
  <2>5. WaitersWait'
    <3>1. \A i \in DOMAIN waiters' : waiters'[i] # h /\ waiters'[i] \in Requests
      BY <2>1, <2>2 DEF WaitersWait
    <3>2. \A i \in DOMAIN waiters' : pc'[waiters'[i]] = "waiting"
      BY <1>1, <2>1, <2>2, <3>1
    <3>3. \A i, j \in DOMAIN waiters' : i # j => waiters'[i] # waiters'[j]
      BY <2>1, <2>2 DEF WaitersWait
    <3> QED
      BY <3>2, <3>3 DEF WaitersWait
  <2>6. HandledOrKept'
    BY <1>1, <2>1, <2>3 DEF HandledOrKept, Sent, consumer
  <2> QED
    BY <1>2, <2>4, <2>5, <2>6
<1> QED
  BY <1>3, <1>4

LEMMA ReturnInv ==
  ASSUME Inv, NEW r \in Requests, Return(r)
  PROVE  Inv'
  BY PulseInv DEF Return, consumer

LEMMA ReturnThrowsInv ==
  ASSUME Inv, NEW r \in Requests, ReturnThrows(r)
  PROVE  Inv'
<1>1. /\ pc[r] = "ready" /\ Pulse(AfterThat(r))
      /\ UNCHANGED <<queue, consumer>>
  BY DEF ReturnThrows, consumer
<1>2. \E l \in {"received", "start", "failed"} : AfterThat(r) = [pc EXCEPT ![r] = l]
  BY DEF AfterThat
<1> QED
  BY <1>1, <1>2, PulseInv

LEMMA OnReplyInv ==
  ASSUME Inv, NEW ch \in Channels, OnReply(ch)
  PROVE  Inv'
  BY PulseInv DEF OnReply, consumer

-----------------------------------------------------------------------------
LEMMA ReceiveInv ==
  ASSUME Inv, Receive
  PROVE  Inv'
<1> USE DEF Inv
<1>1. /\ queue # <<>> /\ queue' = Tail(queue) /\ unacked' = Append(unacked, Head(queue))
      /\ cpc' = "handling" /\ UNCHANGED <<pc, waiters, inserts, skipped>>
  BY DEF Receive, client
<1>2. /\ Head(queue) \in Requests /\ queue' \in Seq(Requests)
      /\ Range(queue) = Range(queue') \cup {Head(queue)}
  BY <1>1, WithoutEnds DEF Shape
<1>3. /\ unacked' \in Seq(Requests) /\ unacked' # <<>>
      /\ Range(unacked') = Range(unacked) \cup {Head(queue)}
  <2>1. unacked \in Seq(Requests)
    BY DEF Shape
  <2> QED
    BY <1>1, <1>2, <2>1, WithOneMore
<1>4. Shape'
  BY <1>1, <1>2, <1>3 DEF Shape
<1>5. WaitersWait'
  BY <1>1 DEF WaitersWait
<1>6. AnsweredWasHandled'
  BY <1>1, <1>3 DEF AnsweredWasHandled
<1>7. HandledOrKept'
  BY <1>1, <1>2, <1>3 DEF HandledOrKept, Sent
<1> QED
  BY <1>4, <1>5, <1>6, <1>7

(* The consumer goes on with what it has.                                  *)
LEMMA HandlerInv ==
  ASSUME Inv, HandlerReturns \/ HandlerSkipped \/ HandlerThrows \/ Reply
  PROVE  Inv'
<1> USE DEF Inv
<1>1. UNCHANGED <<pc, waiters, queue, unacked>> /\ cpc # "idle"
  BY DEF HandlerReturns, HandlerSkipped, HandlerThrows, Reply, client
<1>2. Current \in Requests /\ UNCHANGED Current
  BY <1>1, WithoutEnds DEF Shape, AnsweredWasHandled, Current
<1>3. /\ inserts' \in [Requests -> Nat] /\ skipped \subseteq skipped'
      /\ \A r \in Requests : inserts[r] > 0 => inserts'[r] > 0
  <2>1. CASE HandlerReturns
    BY <1>2, <2>1 DEF HandlerReturns, Shape
  <2>2. CASE ~ HandlerReturns
    BY <2>2 DEF HandlerSkipped, HandlerThrows, Reply, Shape
  <2> QED
    BY <2>1, <2>2
<1>4. WaitersWait'
  BY <1>1 DEF WaitersWait
<1>5. HandledOrKept'
  BY <1>1, <1>3 DEF HandledOrKept, Sent
<1>6. CASE HandlerReturns
  <2>1. cpc' = "handled" /\ inserts'[Current] > 0
    BY <1>2, <1>6 DEF HandlerReturns, Shape
  <2>2. Shape' /\ AnsweredWasHandled'
    BY <1>1, <1>2, <1>3, <2>1 DEF Shape, AnsweredWasHandled
  <2> QED
    BY <1>4, <1>5, <2>2
<1>7. CASE HandlerSkipped
  <2>1. Shape' /\ AnsweredWasHandled'
    BY <1>1, <1>2, <1>3, <1>7 DEF HandlerSkipped, Shape, AnsweredWasHandled
  <2> QED
    BY <1>4, <1>5, <2>1
<1>8. CASE HandlerThrows
  <2>1. Shape' /\ AnsweredWasHandled'
    BY <1>1, <1>3, <1>8 DEF HandlerThrows, Shape, AnsweredWasHandled
  <2> QED
    BY <1>4, <1>5, <2>1
<1>9. CASE Reply
  <2>1. Shape' /\ AnsweredWasHandled'
    BY <1>1, <1>2, <1>3, <1>9 DEF Reply, Shape, AnsweredWasHandled
  <2> QED
    BY <1>4, <1>5, <2>1
<1> QED
  BY <1>6, <1>7, <1>8, <1>9

(* Only what was handled or skipped is acknowledged.                       *)
LEMMA AckRequestInv ==
  ASSUME Inv, AckRequest
  PROVE  Inv'
<1> USE DEF Inv
<1>1. /\ cpc = "acking" /\ cpc' = "idle" /\ unacked' = Front(unacked)
      /\ UNCHANGED <<pc, waiters, queue, inserts, skipped>>
  BY DEF AckRequest, client
<1>2. /\ unacked' \in Seq(Requests) /\ Current \in Requests
      /\ Range(unacked) = Range(unacked') \cup {Current}
  BY <1>1, WithoutEnds DEF Shape, AnsweredWasHandled, Current
<1>3. inserts[Current] > 0 \/ Current \in skipped
  BY <1>1 DEF AnsweredWasHandled
<1>4. Shape' /\ WaitersWait' /\ AnsweredWasHandled'
  BY <1>1, <1>2 DEF Shape, WaitersWait, AnsweredWasHandled
<1>5. HandledOrKept'
  BY <1>1, <1>2, <1>3 DEF HandledOrKept, Sent
<1> QED
  BY <1>4, <1>5

LEMMA RestartInv ==
  ASSUME Inv, Restart
  PROVE  Inv'
<1> USE DEF Inv
<1>1. /\ cpc' = "idle" /\ unacked' = <<>> /\ queue' = unacked \o queue
      /\ UNCHANGED <<pc, waiters, inserts, skipped>>
  BY DEF Restart, client
<1>2. queue' \in Seq(Requests) /\ Range(queue') = Range(unacked) \cup Range(queue)
  BY <1>1, Together DEF Shape
<1>3. Shape' /\ WaitersWait' /\ AnsweredWasHandled'
  BY <1>1, <1>2 DEF Shape, WaitersWait, AnsweredWasHandled
<1>4. HandledOrKept'
  BY <1>1, <1>2 DEF HandledOrKept, Sent
<1> QED
  BY <1>3, <1>4

LEMMA StepInv == Inv /\ [Next]_vars => Inv'
<1> SUFFICES ASSUME Inv, [Next]_vars PROVE Inv'
  OBVIOUS
<1>1. CASE UNCHANGED vars
  BY <1>1 DEF Inv, Shape, WaitersWait, AnsweredWasHandled, Current, HandledOrKept,
              Sent, vars, client, consumer
<1>2. CASE Next
  BY <1>2, ConsumeInv, PublishInv, RequestThrowsInv, WaitInv, ReturnInv, ReturnThrowsInv,
     SucceedsInv, OnReplyInv, ReceiveInv, HandlerInv, AckRequestInv, RestartInv DEF Next, ClientStep, ConsumerStep
<1> QED
  BY <1>1, <1>2

(* However many requests there are, whatever throws, and however often the *)
(* consumer dies, a request that was published has been handled, or has    *)
(* been answered without a handler, or is kept by the broker.              *)
THEOREM RequestsAreKept == Spec => []HandledOrKept
<1>1. Inv => HandledOrKept
  BY DEF Inv
<1> QED
  BY <1>1, InitInv, StepInv, PTL DEF Spec

-----------------------------------------------------------------------------
(***************************************************************************)
(* What the replies are worth.                                             *)
(***************************************************************************)

(* A reply that carries returned bytes names an entity that is stored.     *)
Backed(m) == m[2] => inserts[m[1]] > 0

(* Wherever a reply is: with the broker, on a channel, in the field all    *)
(* requests share, or taken by a request.                                  *)
RepliesAreBacked ==
  /\ \A m \in Range(replies) : Backed(m)
  /\ \A ch \in Channels : \A d \in Range(out[ch]) : Backed(d.reply)
  /\ returnMsg # NoReply => Backed(returnMsg)
  /\ \A r \in Requests : result[r] # NoReply => Backed(result[r])

(* Nobody is woken before the field has been set.                          *)
WokenFindReply ==
  \A r \in Requests :
    /\ pc[r] = "ready" => returnMsg # NoReply
    /\ pc[r] \in {"received", "done"} => result[r] # NoReply

ReplyInv == Inv /\ TypeOK /\ RepliesAreBacked /\ WokenFindReply

LEMMA ReplyInit == Init => ReplyInv
<1> SUFFICES ASSUME Init PROVE TypeOK /\ RepliesAreBacked /\ WokenFindReply
  BY InitInv DEF ReplyInv
<1>1. TypeOK
  BY BoundsAssumption DEF Init, TypeOK
<1>2. RepliesAreBacked /\ WokenFindReply
  BY DEF Init, RepliesAreBacked, WokenFindReply, Range
<1> QED
  BY <1>1, <1>2

(* The count of the runs stays within what Request counts to.              *)
LEMMA RunsAreCounted ==
  ASSUME run \in [Requests -> 0..(LastRun + 1)], NEW r \in Requests, CountRun(r)
  PROVE  run' \in [Requests -> 0..(LastRun + 1)]
<1>1. LastRun \in Nat
  BY BoundsAssumption
<1>2. (IF Resends(run[r]) THEN run[r] + 1 ELSE run[r]) \in 0..(LastRun + 1)
  BY <1>1 DEF Resends
<1> QED
  BY <1>2 DEF CountRun

(* A step of a request that touches no reply and wakes nobody.             *)
LEMMA QuietSteps ==
  ASSUME ReplyInv, Inv', NEW r \in Requests,
         Consume(r) \/ Publish(r) \/ RequestThrows(r) \/ Wait(r) \/ Succeeds(r)
  PROVE  ReplyInv'
<1>1. /\ UNCHANGED <<result, returnMsg, tag, sent, out, replies, consumer>>
      /\ \E l \in {"publish", "published", "start", "failed", "waiting", "done"} :
           pc' = [pc EXCEPT ![r] = l] /\ (l = "done" => pc[r] = "received")
  BY DEF Consume, Publish, RequestThrows, AfterThat, Wait, Succeeds
<1>2. /\ run' \in [Requests -> 0..(LastRun + 1)]
      /\ open' \in SUBSET Channels
  <2>1. run \in [Requests -> 0..(LastRun + 1)] /\ open \in SUBSET Channels
    BY DEF ReplyInv, TypeOK
  <2>2. CASE RequestThrows(r)
    BY <2>1, <2>2, RunsAreCounted DEF RequestThrows
  <2>3. CASE Consume(r)
    BY <2>1, <2>3 DEF Consume, Channel, Channels
  <2> QED
    BY <2>1, <2>2, <2>3 DEF Publish, Wait, Succeeds
<1>3. TypeOK'
  BY <1>1, <1>2 DEF ReplyInv, TypeOK, Inv, Shape, Places, consumer
<1>4. RepliesAreBacked'
  BY <1>1 DEF ReplyInv, RepliesAreBacked, Backed, consumer
<1>5. WokenFindReply'
  BY <1>1 DEF ReplyInv, WokenFindReply, TypeOK
<1> QED
  BY <1>3, <1>4, <1>5 DEF ReplyInv

(* Whom a pulse wakes.                                                     *)
LEMMA PulseWakes ==
  ASSUME NEW S, NEW p \in [Requests -> S], Pulse(p), NEW q \in Requests,
         waiters \in Seq(Requests)
  PROVE  pc'[q] \in {p[q], "ready"}
<1>1. CASE waiters = <<>>
  BY <1>1 DEF Pulse
<1>2. CASE waiters # <<>>
  <2>1. Head(waiters) \in Requests
    BY <1>2
  <2> QED
    BY <1>2, <2>1 DEF Pulse
<1> QED
  BY <1>1, <1>2

(* What is outstanding when one delivery is acknowledged, or all come back.*)
LEMMA AckReplyKeeps ==
  ASSUME TypeOK, RepliesAreBacked, NEW ch \in Channels, NEW n,
         AckReply(ch, n) \/ CloseChannel(ch), UNCHANGED inserts
  PROVE  /\ out' \in [Channels -> Seq([tag : Nat, reply : Replies])]
         /\ replies' \in Seq(Replies) /\ open' \in SUBSET Channels
         /\ \A m \in Range(replies') : Backed(m)'
         /\ \A c \in Channels : \A d \in Range(out'[c]) : Backed(d.reply)'
<1> DEFINE D == [tag : Nat, reply : Replies]
<1>1. /\ out \in [Channels -> Seq(D)] /\ out[ch] \in Seq(D)
      /\ replies \in Seq(Replies) /\ open \in SUBSET Channels
  BY DEF TypeOK
<1>2. /\ \A m \in Range(replies) : Backed(m)
      /\ \A c \in Channels : \A d \in Range(out[c]) : Backed(d.reply)
      /\ \A m : Backed(m)' <=> Backed(m)
  BY DEF RepliesAreBacked, Backed
<1> HIDE DEF D
<1>3. ASSUME NEW i \in DOMAIN out[ch], out' = [out EXCEPT ![ch] = RemoveAt(@, i)],
             UNCHANGED <<open, replies>>
      PROVE  /\ out' \in [Channels -> Seq(D)]
             /\ \A c \in Channels : \A d \in Range(out'[c]) : Backed(d.reply)
  <2>1. /\ RemoveAt(out[ch], i) \in Seq(D)
        /\ Range(RemoveAt(out[ch], i)) \subseteq Range(out[ch])
    BY <1>1, WithoutOne
  <2>2. \A c \in Channels : Range(out'[c]) \subseteq Range(out[c])
    BY <1>1, <1>3, <2>1
  <2> QED
    BY <1>1, <1>2, <1>3, <2>1, <2>2
<1>4. ASSUME replies' = [i \in DOMAIN out[ch] |-> out[ch][i].reply] \o replies,
             out' = [out EXCEPT ![ch] = <<>>], open' = open \ {ch}
      PROVE  /\ out' \in [Channels -> Seq(D)] /\ replies' \in Seq(Replies)
             /\ \A m \in Range(replies') : Backed(m)
             /\ \A c \in Channels : \A d \in Range(out'[c]) : Backed(d.reply)
  <2> DEFINE back == [i \in DOMAIN out[ch] |-> out[ch][i].reply]
  <2>1. back \in Seq(Replies)
    <3>1. \A i \in DOMAIN out[ch] : out[ch][i] \in D
      BY <1>1
    <3>2. \A i \in DOMAIN out[ch] : back[i] \in Replies
      BY <3>1 DEF D
    <3> QED
      BY <1>1, <3>2, Mapped
  <2>2. \A m \in Range(back) : Backed(m)
    BY <1>2 DEF Range
  <2>6. replies' = back \o replies
    BY <1>4
  <2> HIDE DEF back
  <2>3. replies' \in Seq(Replies) /\ Range(replies') = Range(back) \cup Range(replies)
    <3>1. replies \in Seq(Replies)
      BY <1>1
    <3> QED
      BY <2>1, <2>6, <3>1, Together
  <2>4. \A c \in Channels : out'[c] = out[c] \/ out'[c] = <<>>
    BY <1>1, <1>4
  <2>5. Range(<<>>) = {} /\ <<>> \in Seq(D)
    BY DEF Range
  <2> QED
    BY <1>1, <1>2, <1>4, <2>2, <2>3, <2>4, <2>5
<1>5. CASE \E i \in DOMAIN out[ch] :
             /\ out' = [out EXCEPT ![ch] = RemoveAt(@, i)]
             /\ UNCHANGED <<open, replies>>
  BY <1>1, <1>2, <1>3, <1>5 DEF D
<1>6. CASE /\ replies' = [i \in DOMAIN out[ch] |-> out[ch][i].reply] \o replies
           /\ out' = [out EXCEPT ![ch] = <<>>] /\ open' = open \ {ch}
  BY <1>1, <1>2, <1>4, <1>6 DEF D
<1> QED
  BY <1>5, <1>6 DEF AckReply, CloseChannel

(* The one that was woken goes on, with the reply or with an exception,    *)
(* and wakes the next.                                                     *)
LEMMA ReturnReplyInv ==
  ASSUME ReplyInv, Inv', NEW r \in Requests, Return(r) \/ ReturnThrows(r)
  PROVE  ReplyInv'
<1>1. /\ pc[r] = "ready" /\ result' \in {result, [result EXCEPT ![r] = returnMsg]}
      /\ AckReply(Channel(r), tag) \/ CloseChannel(Channel(r))
      /\ UNCHANGED <<returnMsg, tag, sent, consumer>>
  BY DEF Return, ReturnThrows
<1>2. /\ TypeOK /\ RepliesAreBacked /\ WokenFindReply
      /\ returnMsg # NoReply /\ returnMsg \in Replies /\ Channel(r) \in Channels
  BY <1>1 DEF ReplyInv, TypeOK, WokenFindReply, Channel, Channels
<1>3. /\ out' \in [Channels -> Seq([tag : Nat, reply : Replies])]
      /\ replies' \in Seq(Replies) /\ open' \in SUBSET Channels
      /\ \A m \in Range(replies') : Backed(m)'
      /\ \A c \in Channels : \A d \in Range(out'[c]) : Backed(d.reply)'
  BY <1>1, <1>2, AckReplyKeeps DEF consumer
<1>4. /\ result' \in [Requests -> Replies \cup {NoReply}]
      /\ run' \in [Requests -> 0..(LastRun + 1)]
  BY <1>1, <1>2, RunsAreCounted DEF TypeOK, Return, ReturnThrows
<1>5. TypeOK'
  BY <1>1, <1>2, <1>3, <1>4 DEF TypeOK, Inv, Shape, Places, consumer
<1>6. RepliesAreBacked'
  BY <1>1, <1>2, <1>3 DEF TypeOK, RepliesAreBacked, Backed, consumer
<1>7. PICK l \in {"received", "start", "failed"} :
        /\ Pulse([pc EXCEPT ![r] = l])
        /\ l = "received" => result' = [result EXCEPT ![r] = returnMsg]
  BY DEF Return, ReturnThrows, AfterThat
<1>8. WokenFindReply'
  <2>1. ASSUME NEW q \in Requests PROVE pc'[q] \in {IF q = r THEN l ELSE pc[q], "ready"}
    <3>1. [pc EXCEPT ![r] = l] \in [Requests -> Places] /\ waiters \in Seq(Requests)
      BY <1>2 DEF TypeOK, Places
    <3>2. pc'[q] \in {[pc EXCEPT ![r] = l][q], "ready"}
      BY <1>7, <3>1, PulseWakes
    <3> QED
      BY <1>2, <3>2 DEF TypeOK
  <2>2. ASSUME NEW q \in Requests, pc'[q] \in {"received", "done"}
        PROVE  result'[q] # NoReply
    <3>1. CASE q = r
      BY <1>2, <1>7, <2>1, <2>2, <3>1 DEF TypeOK
    <3>2. CASE q # r
      BY <1>1, <1>2, <2>1, <2>2, <3>2 DEF WokenFindReply, TypeOK
    <3> QED
      BY <3>1, <3>2
  <2> QED
    BY <1>1, <1>2, <2>2 DEF WokenFindReply
<1> QED
  BY <1>5, <1>6, <1>8 DEF ReplyInv

LEMMA OnReplyReplyInv ==
  ASSUME ReplyInv, Inv', NEW ch \in Channels, OnReply(ch)
  PROVE  ReplyInv'
<1> DEFINE D == [tag : Nat, reply : Replies]
           d == [tag |-> sent[ch] + 1, reply |-> Head(replies)]
<1>1. /\ replies # <<>> /\ replies' = Tail(replies)
      /\ sent' = [sent EXCEPT ![ch] = @ + 1] /\ tag' = sent[ch] + 1
      /\ out' = [out EXCEPT ![ch] = Append(@, d)]
      /\ returnMsg' = Head(replies) /\ Pulse(pc)
      /\ UNCHANGED <<run, result, open, consumer>>
  BY DEF OnReply, DeliverReply
<1>2. /\ TypeOK /\ RepliesAreBacked /\ WokenFindReply
      /\ replies \in Seq(Replies) /\ sent[ch] \in Nat /\ out[ch] \in Seq(D)
  BY DEF ReplyInv, TypeOK
<1>3. /\ Head(replies) \in Replies /\ Tail(replies) \in Seq(Replies)
      /\ Range(replies) = Range(Tail(replies)) \cup {Head(replies)}
  BY <1>1, <1>2, WithoutEnds
<1>4. d \in D /\ d.reply = Head(replies)
  BY <1>2, <1>3
<1> HIDE DEF d, D
<1>5. /\ Append(out[ch], d) \in Seq(D)
      /\ Range(Append(out[ch], d)) = Range(out[ch]) \cup {d}
  BY <1>2, <1>4, WithOneMore
<1>6. /\ out' \in [Channels -> Seq(D)]
      /\ \A c \in Channels : Range(out'[c]) \subseteq Range(out[c]) \cup {d}
  BY <1>1, <1>2, <1>5 DEF TypeOK, D
<1>7. TypeOK'
  <2>1. sent' \in [Channels -> Nat] /\ tag' \in Nat
    BY <1>1, <1>2 DEF TypeOK
  <2>2. /\ replies' \in Seq(Replies) /\ returnMsg' \in Replies
        /\ out' \in [Channels -> Seq([tag : Nat, reply : Replies])]
    BY <1>1, <1>3, <1>6 DEF D
  <2> QED
    BY <1>1, <1>2, <2>1, <2>2 DEF TypeOK, Inv, Shape, Places, consumer
<1>8. RepliesAreBacked'
  BY <1>1, <1>2, <1>3, <1>4, <1>6 DEF RepliesAreBacked, Backed, consumer
<1>9. WokenFindReply'
  <2>1. returnMsg' # NoReply
    BY <1>1, <1>3, ReplyAssumption DEF Replies
  <2>2. pc \in [Requests -> Places] /\ waiters \in Seq(Requests)
    BY <1>2 DEF TypeOK, Places
  <2>3. \A q \in Requests : pc'[q] \in {pc[q], "ready"}
    BY <1>1, <2>2, PulseWakes
  <2> QED
    BY <1>1, <1>2, <2>1, <2>3 DEF WokenFindReply
<1> QED
  BY <1>7, <1>8, <1>9 DEF ReplyInv

(* The consumer: it answers with bytes only what it has just handled.      *)
LEMMA ConsumerReplyInv ==
  ASSUME ReplyInv, Inv', ConsumerStep \/ Restart
  PROVE  ReplyInv'
<1>1. /\ TypeOK /\ RepliesAreBacked /\ WokenFindReply /\ Inv
      /\ UNCHANGED client
  BY DEF ReplyInv, ConsumerStep, Receive, HandlerReturns, HandlerSkipped,
         HandlerThrows, Reply, AckRequest, Restart
<1>2. cpc # "idle" => Current \in Requests
  BY <1>1, WithoutEnds DEF Inv, Shape, AnsweredWasHandled, Current
<1>3. \A m \in Replies : Backed(m) => Backed(m)'
  <2>1. CASE HandlerReturns
    <3>1. inserts' = [inserts EXCEPT ![Current] = @ + 1] /\ inserts \in [Requests -> Nat]
      BY <1>1, <2>1 DEF HandlerReturns, TypeOK
    <3>2. \A r \in Requests : inserts[r] > 0 => inserts'[r] > 0
      BY <3>1
    <3> QED
      BY <3>2 DEF Backed, Replies
  <2>2. CASE ~ HandlerReturns
    <3>1. UNCHANGED inserts
      BY <2>2 DEF ConsumerStep, Receive, HandlerSkipped, HandlerThrows, Reply,
                  AckRequest, Restart
    <3> QED
      BY <3>1 DEF Backed
  <2> QED
    BY <2>1, <2>2
<1>4. /\ replies' \in Seq(Replies)
      /\ \A m \in Range(replies') : m \in Range(replies) \/ Backed(m)
  <2>1. CASE Reply /\ replyOpen
    <3>1. /\ replies' = Append(replies, <<Current, cpc = "handled">>)
          /\ cpc \in {"handled", "skipped"}
      BY <2>1 DEF Reply
    <3>2. <<Current, cpc = "handled">> \in Replies
      BY <1>2, <3>1 DEF Replies
    <3>3. Backed(<<Current, cpc = "handled">>)
      BY <1>1 DEF Inv, AnsweredWasHandled, Backed
    <3> DEFINE said == <<Current, cpc = "handled">>
    <3>4. replies' = Append(replies, said) /\ said \in Replies /\ Backed(said)
      BY <3>1, <3>2, <3>3
    <3>5. replies \in Seq(Replies)
      BY <1>1 DEF TypeOK
    <3> HIDE DEF said
    <3>6. /\ Append(replies, said) \in Seq(Replies)
          /\ Range(Append(replies, said)) = Range(replies) \cup {said}
      BY <3>4, <3>5, WithOneMore
    <3> QED
      BY <3>4, <3>6
  <2>2. CASE ~ (Reply /\ replyOpen)
    <3>1. UNCHANGED replies
      BY <2>2 DEF ConsumerStep, Receive, HandlerReturns, HandlerSkipped,
                  HandlerThrows, Reply, AckRequest, Restart
    <3> QED
      BY <1>1, <3>1 DEF TypeOK
  <2> QED
    BY <2>1, <2>2
<1>5. /\ replyOpen' \in BOOLEAN /\ skipped' \in SUBSET Requests
      /\ crashes' \in 0..MaxCrashes
  <2>1. /\ replyOpen \in BOOLEAN /\ skipped \in SUBSET Requests
        /\ crashes \in 0..MaxCrashes /\ MaxCrashes \in Nat
    BY <1>1, BoundsAssumption DEF TypeOK
  <2>2. CASE HandlerSkipped
    BY <1>2, <2>1, <2>2 DEF HandlerSkipped
  <2>3. CASE Restart
    BY <2>1, <2>3 DEF Restart
  <2>4. CASE ~ HandlerSkipped /\ ~ Restart
    BY <2>1, <2>4 DEF ConsumerStep, Receive, HandlerReturns, HandlerThrows, Reply,
                      AckRequest
  <2> QED
    BY <2>2, <2>3, <2>4
<1>6. TypeOK'
  BY <1>1, <1>4, <1>5 DEF TypeOK, Inv, Shape, Places, client
<1>7. RepliesAreBacked'
  <2>1. \A ch \in Channels : out[ch] \in Seq([tag : Nat, reply : Replies])
    BY <1>1 DEF TypeOK
  <2>2. ASSUME NEW ch \in Channels, NEW d \in Range(out[ch]) PROVE d.reply \in Replies
    <3>1. d \in [tag : Nat, reply : Replies]
      BY <2>1, Elements
    <3> QED
      BY <3>1
  <2>3. \A m \in Range(replies') : Backed(m)'
    <3>1. \A m \in Range(replies') : m \in Replies
      BY <1>4 DEF Range
    <3> QED
      BY <1>1, <1>3, <1>4, <3>1 DEF RepliesAreBacked
  <2>4. \A ch \in Channels : \A d \in Range(out'[ch]) : Backed(d.reply)'
    BY <1>1, <1>3, <2>2 DEF RepliesAreBacked, client
  <2>5. /\ returnMsg' # NoReply => Backed(returnMsg)'
        /\ \A r \in Requests : result'[r] # NoReply => Backed(result[r])'
    BY <1>1, <1>3 DEF RepliesAreBacked, client, TypeOK
  <2> QED
    BY <2>3, <2>4, <2>5 DEF RepliesAreBacked
<1>8. WokenFindReply'
  BY <1>1 DEF WokenFindReply, client
<1> QED
  BY <1>6, <1>7, <1>8 DEF ReplyInv

LEMMA ReplyInductive == Spec => []ReplyInv
<1>1. ReplyInv /\ Inv' /\ [Next]_vars => ReplyInv'
  <2>1. ASSUME ReplyInv, Inv', UNCHANGED vars PROVE ReplyInv'
    BY <2>1 DEF ReplyInv, TypeOK, RepliesAreBacked, Backed, WokenFindReply,
                vars, client, consumer
  <2> QED
    BY <2>1, QuietSteps, ReturnReplyInv, OnReplyReplyInv, ConsumerReplyInv
       DEF Next, ClientStep
<1>2. ReplyInv /\ [Next]_vars => ReplyInv'
  BY <1>1, StepInv DEF ReplyInv
<1> QED
  BY ReplyInit, <1>2, PTL DEF Spec

(* Every variable keeps its type.                                          *)
THEOREM RpcTypes == Spec => []TypeOK
<1>1. ReplyInv => TypeOK
  BY DEF ReplyInv
<1> QED
  BY <1>1, ReplyInductive, PTL

(* Whoever the reply was meant for, a request that reports success has a   *)
(* reply, and when that carries bytes their entity has been stored.        *)
THEOREM ResultsWereStored == Spec => []ResultWasStored
<1>1. ReplyInv => ResultWasStored
  BY DEF ReplyInv, RepliesAreBacked, Backed, WokenFindReply, ResultWasStored
<1> QED
  BY <1>1, ReplyInductive, PTL

-----------------------------------------------------------------------------
(***************************************************************************)
(* Plain messages.                                                         *)
(***************************************************************************)

(* A task that is not over has been through the handlers before its next.  *)
CalledSoFar ==
  \A i \in DOMAIN deliveries :
    Handler(i) <= H =>
      \A h \in 1..(Handler(i) - 1) : deliveries[i].msg \in called[h]

PlainInv == PlainIsKeptInOrder /\ CalledSoFar

USE DEF PlainIsKeptInOrder

LEMMA PlainInit == PInit => PlainInv
<1> SUFFICES ASSUME PInit PROVE PlainInv
  OBVIOUS
<1>1. MessageTypes
  BY HandlersAssumption, LastAssumption DEF PInit, MessageTypes
<1>2. NothingForgotten /\ CalledSoFar
  BY DEF PInit, NothingForgotten, CalledSoFar
<1>3. HandlersInOrder
  BY HandlersAssumption DEF PInit, HandlersInOrder
<1> QED
  BY <1>1, <1>2, <1>3 DEF PlainInv

(* What the process holds, as the range of a sequence.                     *)
LEMMA HeldIs ==
  ASSUME NEW s \in Seq(Deliveries)
  PROVE  {s[i].msg : i \in DOMAIN s} = {d.msg : d \in Range(s)}
  BY DEF Range

LEMMA PublisherInv ==
  ASSUME PlainInv, NEW m \in Messages, PublishMessage(m) \/ PublishThrows(m)
  PROVE  PlainInv'
<1>1. /\ MessageTypes /\ topic \in Seq(Messages) /\ UNCHANGED <<deliveries, process>>
      /\ topic' \in {topic, Append(topic, m)}
  BY DEF PlainInv, MessageTypes, PublishMessage, PublishThrows
<1>2. topic' \in Seq(Messages) /\ Range(topic) \subseteq Range(topic')
        /\ (topic' = Append(topic, m) => m \in Range(topic'))
  <2>1. /\ Append(topic, m) \in Seq(Messages)
        /\ Range(Append(topic, m)) = Range(topic) \cup {m}
    BY <1>1, WithOneMore
  <2> QED
    BY <1>1, <2>1
<1>3. /\ publisher' \in [Messages -> {"publish", "sent", "givenUp"}]
      /\ failedTimes' \in [Messages -> 0..(LastFailed + 1)]
  <2>1. CASE PublishMessage(m)
    BY <1>1, <2>1 DEF PublishMessage, MessageTypes
  <2>2. CASE PublishThrows(m) /\ PublishesAgain(failedTimes[m])
    <3>1. failedTimes[m] + 1 \in 0..(LastFailed + 1)
      BY <1>1, <2>2, LastAssumption DEF MessageTypes, PublishesAgain
    <3> QED
      BY <1>1, <2>2, <3>1 DEF PublishThrows, MessageTypes
  <2>3. CASE PublishThrows(m) /\ ~ PublishesAgain(failedTimes[m])
    BY <1>1, <2>3 DEF PublishThrows, MessageTypes
  <2> QED
    BY <2>1, <2>2, <2>3
<1>4. MessageTypes'
  BY <1>1, <1>2, <1>3 DEF MessageTypes, process
<1>5. NothingForgotten'
  <2>1. ASSUME NEW q \in Messages, publisher'[q] = "sent"
        PROVE  publisher[q] = "sent" \/ (q = m /\ topic' = Append(topic, m))
    BY <1>1, <2>1 DEF PublishMessage, PublishThrows, MessageTypes
  <2> QED
    BY <1>1, <1>2, <2>1 DEF PlainInv, NothingForgotten, Held
<1>6. HandlersInOrder' /\ CalledSoFar'
  BY <1>1 DEF PlainInv, HandlersInOrder, CalledSoFar, Handler, process
<1> QED
  BY <1>4, <1>5, <1>6 DEF PlainInv

LEMMA SubscribeInv ==
  ASSUME PlainInv, Subscribe
  PROVE  PlainInv'
<1>1. MessageTypes'
  BY HandlersAssumption DEF PlainInv, MessageTypes, Subscribe
<1>2. NothingForgotten' /\ HandlersInOrder' /\ CalledSoFar'
  BY DEF PlainInv, NothingForgotten, Held, HandlersInOrder, CalledSoFar, Handler, Subscribe
<1> QED
  BY <1>1, <1>2 DEF PlainInv

(* The message goes from the topic to the process.                         *)
LEMMA DeliverInv ==
  ASSUME PlainInv, Deliver
  PROVE  PlainInv'
<1> DEFINE d == [msg |-> Head(topic), seen |-> 0,
                 next |-> IF subscribed = 0 THEN H + 1 ELSE 1]
<1>1. /\ topic # <<>> /\ topic' = Tail(topic) /\ deliveries' = Append(deliveries, d)
      /\ UNCHANGED <<publisher, failedTimes, process>>
  BY DEF Deliver
<1>2. /\ topic \in Seq(Messages) /\ deliveries \in Seq(Deliveries)
      /\ subscribed \in 0..H /\ MessageTypes
  BY DEF PlainInv, MessageTypes
<1>3. /\ Head(topic) \in Messages /\ topic' \in Seq(Messages)
      /\ Range(topic) = Range(topic') \cup {Head(topic)}
  BY <1>1, <1>2, WithoutEnds
<1>4. /\ d \in Deliveries /\ d.msg = Head(topic)
      /\ d.next <= H => d.next = 1
  BY <1>2, <1>3, HandlersAssumption DEF Deliveries
<1> HIDE DEF d
<1>5. /\ deliveries' \in Seq(Deliveries)
      /\ Range(deliveries') = Range(deliveries) \cup {d}
  BY <1>1, <1>2, <1>4, WithOneMore
<1>6. MessageTypes'
  BY <1>1, <1>2, <1>3, <1>5 DEF MessageTypes, process
<1>7. NothingForgotten'
  <2>1. Held = {e.msg : e \in Range(deliveries)}
    BY <1>2, HeldIs DEF Held
  <2>2. Held' = {e.msg : e \in Range(deliveries')}
    BY <1>5, HeldIs DEF Held
  <2>3. Held \subseteq Held' /\ Head(topic) \in Held'
    BY <1>4, <1>5, <2>1, <2>2
  <2> QED
    BY <1>1, <1>3, <2>3 DEF PlainInv, NothingForgotten
<1>8. HandlersInOrder'
  BY <1>1 DEF PlainInv, HandlersInOrder, process
<1>9. CalledSoFar'
  <2>1. /\ DOMAIN deliveries' = (DOMAIN deliveries) \cup {Len(deliveries) + 1}
        /\ deliveries'[Len(deliveries) + 1] = d
        /\ \A i \in DOMAIN deliveries : deliveries'[i] = deliveries[i]
    BY <1>1, <1>2
  <2>2. called' = called
    BY <1>1 DEF process
  <2>3. d.next <= H => \A h \in 1..(d.next - 1) : FALSE
    BY <1>4
  <2> QED
    BY <2>1, <2>2, <2>3 DEF PlainInv, CalledSoFar, Handler
<1> QED
  BY <1>6, <1>7, <1>8, <1>9 DEF PlainInv

LEMMA DeliveryChanges ==
  ASSUME NEW e \in Deliveries
  PROVE  /\ \A k \in 0..H : LET d == [e EXCEPT !.seen = k]
                           IN  d \in Deliveries /\ d.msg = e.msg /\ d.next = e.next
         /\ \A n \in 1..(H + 1) : LET d == [e EXCEPT !.next = n]
                                 IN  d \in Deliveries /\ d.msg = e.msg /\ d.next = n
  BY DEF Deliveries

(* A step of a task changes its delivery, and keeps the message.           *)
LEMMA TaskInv ==
  ASSUME PlainInv, NEW i \in DOMAIN deliveries,
         TaskStarts(i) \/ HandlerRuns(i) \/ TaskEnds(i)
  PROVE  PlainInv'
<1>1. /\ MessageTypes /\ deliveries \in Seq(Deliveries) /\ deliveries[i] \in Deliveries
      /\ Handler(i) \in 1..H /\ deliveries[i].msg \in Messages
      /\ subscribed \in 0..H /\ H \in Nat \ {0}
      /\ UNCHANGED <<publisher, failedTimes, topic, subscribed, ends>>
  <2>1. MessageTypes /\ deliveries \in Seq(Deliveries) /\ subscribed \in 0..H
    BY DEF PlainInv, MessageTypes
  <2>2. deliveries[i] \in Deliveries
    BY <2>1
  <2>3. Handler(i) <= H
    BY DEF TaskStarts, HandlerRuns, TaskEnds, Enumerates, Active
  <2>4. UNCHANGED <<publisher, failedTimes, topic, subscribed, ends>>
    BY DEF TaskStarts, HandlerRuns, TaskEnds, process
  <2> QED
    BY <2>1, <2>2, <2>3, <2>4, HandlersAssumption DEF Deliveries, Handler
<1>2. PICK d \in Deliveries :
        /\ deliveries' = [deliveries EXCEPT ![i] = d] /\ d.msg = deliveries[i].msg
        /\ d.next \in {Handler(i), Handler(i) + 1, H + 1}
        /\ d.next = Handler(i) + 1 /\ d.next # H + 1 =>
             deliveries[i].msg \in called'[Handler(i)]
  <2> DEFINE e == deliveries[i]
  <2>1. CASE TaskStarts(i)
    <3>1. deliveries' = [deliveries EXCEPT ![i] = [e EXCEPT !.seen = subscribed]]
      BY <2>1 DEF TaskStarts
    <3>2. /\ [e EXCEPT !.seen = subscribed] \in Deliveries
          /\ [e EXCEPT !.seen = subscribed].msg = e.msg
          /\ [e EXCEPT !.seen = subscribed].next = Handler(i)
      BY <1>1, DeliveryChanges DEF Handler
    <3>3. Handler(i) # Handler(i) + 1
      BY <1>1
    <3> QED
      BY <3>1, <3>2, <3>3
  <2>2. CASE HandlerRuns(i)
    <3>1. /\ deliveries' = [deliveries EXCEPT ![i] = [e EXCEPT !.next = e.next + 1]]
          /\ called' = [called EXCEPT ![Handler(i)] = @ \cup {e.msg}]
      BY <2>2 DEF HandlerRuns
    <3>2. e.msg \in called'[Handler(i)]
      BY <1>1, <3>1 DEF MessageTypes
    <3>3. e.next + 1 \in 1..(H + 1)
      BY <1>1 DEF Handler
    <3> QED
      BY <1>1, <3>1, <3>2, <3>3, DeliveryChanges DEF Handler
  <2>3. CASE TaskEnds(i)
    <3>1. deliveries' = [deliveries EXCEPT ![i] = [e EXCEPT !.next = H + 1]]
      BY <2>3 DEF TaskEnds
    <3>2. H + 1 \in 1..(H + 1) /\ Handler(i) + 1 # H + 2
      BY <1>1
    <3> QED
      BY <1>1, <3>1, <3>2, DeliveryChanges
  <2> QED
    BY <2>1, <2>2, <2>3
<1>3. /\ deliveries' \in Seq(Deliveries) /\ DOMAIN deliveries' = DOMAIN deliveries
      /\ deliveries'[i] = d
      /\ \A j \in DOMAIN deliveries : j # i => deliveries'[j] = deliveries[j]
  BY <1>1, <1>2
<1>4. /\ called' \in [1..H -> SUBSET Messages]
      /\ \A h \in 1..H : called[h] \subseteq called'[h]
  <2>1. CASE HandlerRuns(i)
    BY <1>1, <2>1 DEF HandlerRuns, MessageTypes
  <2>2. CASE TaskStarts(i) \/ TaskEnds(i)
    BY <1>1, <2>2 DEF TaskStarts, TaskEnds, process, MessageTypes
  <2> QED
    BY <2>1, <2>2
<1>5. MessageTypes'
  BY <1>1, <1>3, <1>4 DEF MessageTypes
<1>6. NothingForgotten'
  <2>1. Held' = Held
    BY <1>2, <1>3 DEF Held
  <2> QED
    BY <1>1, <2>1 DEF PlainInv, NothingForgotten
<1>7. HandlersInOrder'
  <2>1. CASE HandlerRuns(i)
    <3>1. /\ called' = [called EXCEPT ![Handler(i)] = @ \cup {deliveries[i].msg}]
          /\ called \in [1..H -> SUBSET Messages]
      BY <1>1, <2>1 DEF HandlerRuns, MessageTypes
    <3>2. ASSUME NEW h \in 1..(H - 1) PROVE called'[h + 1] \subseteq called'[h]
      <4>1. h \in 1..H /\ h + 1 \in 1..H
        BY <1>1
      <4>2. called[h + 1] \subseteq called[h] /\ called[h] \subseteq called'[h]
        BY <1>4, <4>1 DEF PlainInv, HandlersInOrder
      <4>3. h + 1 = Handler(i) => deliveries[i].msg \in called[h]
        BY <1>1, <4>1 DEF PlainInv, CalledSoFar
      <4> QED
        BY <3>1, <4>1, <4>2, <4>3
    <3> QED
      BY <3>2 DEF HandlersInOrder
  <2>2. CASE TaskStarts(i) \/ TaskEnds(i)
    BY <2>2 DEF TaskStarts, TaskEnds, process, PlainInv, HandlersInOrder
  <2> QED
    BY <2>1, <2>2
<1>8. CalledSoFar'
  <2>1. ASSUME NEW j \in DOMAIN deliveries, j # i, deliveries[j].next <= H,
               NEW h \in 1..(deliveries[j].next - 1)
        PROVE  deliveries[j].msg \in called'[h]
    <3>1. deliveries[j].msg \in called[h]
      BY <2>1 DEF PlainInv, CalledSoFar, Handler
    <3>2. deliveries[j] \in Deliveries
      BY <1>1
    <3>3. h \in 1..H
      BY <1>1, <2>1, <3>2 DEF Deliveries
    <3> QED
      BY <1>4, <3>1, <3>3
  <2>2. ASSUME d.next <= H, NEW h \in 1..(d.next - 1)
        PROVE  d.msg \in called'[h]
    <3>1. h \in 1..H /\ (h \in 1..(Handler(i) - 1) \/ (h = Handler(i) /\ d.next = Handler(i) + 1))
      BY <1>1, <1>2, <2>2
    <3>2. CASE h \in 1..(Handler(i) - 1)
      <4>1. deliveries[i].msg \in called[h]
        BY <1>1, <3>2 DEF PlainInv, CalledSoFar
      <4> QED
        BY <1>2, <1>4, <3>1, <4>1
    <3>3. CASE h = Handler(i) /\ d.next = Handler(i) + 1
      BY <1>1, <1>2, <2>2, <3>3
    <3> QED
      BY <3>1, <3>2, <3>3
  <2> QED
    BY <1>3, <2>1, <2>2 DEF CalledSoFar, Handler
<1> QED
  BY <1>5, <1>6, <1>7, <1>8 DEF PlainInv

(* The broker puts back what it has delivered.                             *)
LEMMA ProcessEndsInv ==
  ASSUME PlainInv, ProcessRestarts, ends' \in 0..MaxEnds
  PROVE  PlainInv'
<1> DEFINE back == [i \in DOMAIN deliveries |-> deliveries[i].msg]
<1>1. /\ MessageTypes /\ deliveries \in Seq(Deliveries) /\ topic \in Seq(Messages)
      /\ deliveries' = <<>> /\ topic' = back \o topic /\ subscribed' = 0
      /\ UNCHANGED <<publisher, failedTimes, called>>
  BY DEF PlainInv, MessageTypes, ProcessRestarts
<1>2. back \in Seq(Messages)
  <2>1. \A i \in DOMAIN deliveries : deliveries[i] \in Deliveries
    BY <1>1
  <2>2. \A i \in DOMAIN deliveries : back[i] \in Messages
    BY <2>1 DEF Deliveries
  <2> QED
    BY <1>1, <2>2, Mapped
<1>3. Range(back) = Held
  BY DEF Range, Held
<1> HIDE DEF back
<1>4. topic' \in Seq(Messages) /\ Range(topic') = Held \cup Range(topic)
  BY <1>1, <1>2, <1>3, Together
<1>5. MessageTypes'
  BY <1>1, <1>4, HandlersAssumption DEF MessageTypes
<1>6. NothingForgotten'
  BY <1>1, <1>4 DEF PlainInv, NothingForgotten
<1>7. HandlersInOrder' /\ CalledSoFar'
  BY <1>1 DEF PlainInv, HandlersInOrder, CalledSoFar
<1> QED
  BY <1>5, <1>6, <1>7 DEF PlainInv

(* A plain message is with the broker or with the process that was given   *)
(* it, however often that one ends, and a later handler is never called    *)
(* for a message that an earlier one was not called for.                   *)
THEOREM PlainKeptInOrder == PSpec => []PlainIsKeptInOrder
<1>1. PlainInv /\ [PNext]_pVars => PlainInv'
  <2> SUFFICES ASSUME PlainInv, [PNext]_pVars PROVE PlainInv'
    OBVIOUS
  <2>1. CASE UNCHANGED pVars
    BY <2>1 DEF PlainInv, MessageTypes, NothingForgotten, Held, HandlersInOrder,
                CalledSoFar, Handler, pVars, process
  <2>2. CASE ProcessEnds \/ \E i \in DOMAIN deliveries : EnumerationThrows(i)
    <3>1. ends' \in 0..MaxEnds
      BY <2>2, LastAssumption DEF ProcessEnds, EnumerationThrows, PlainInv, MessageTypes
    <3> QED
      BY <2>2, <3>1, ProcessEndsInv DEF ProcessEnds, EnumerationThrows
  <2> QED
    BY <2>1, <2>2, PublisherInv, SubscribeInv, DeliverInv, TaskInv DEF PNext, TaskStep
<1>2. PlainInv => PlainIsKeptInOrder
  BY DEF PlainInv
<1> QED
  BY PlainInit, <1>1, <1>2, PTL DEF PSpec
=============================================================================
