--------------------------- MODULE EffectsProofs ---------------------------
(***************************************************************************)
(* Proofs about what moves on a page: Effects, for any number of           *)
(* animations, and, in the last part, Dialogs, for any number of dialogs.  *)
(***************************************************************************)
EXTENDS Effects, Dialogs, FiniteSetTheorems, TLAPS

USE EffectConstants

States == {"none", "waiting", "running", "resolved", "rejected"}
Slots  == 1..MaxAnimations

Animations == [kind : Kinds, queued : BOOLEAN, short : BOOLEAN, state : States,
               hidden : BOOLEAN, toggles : BOOLEAN, completes : Nat]
Calls == [does : {"dequeue", "start", "complete", "stop", "splice", "finish",
                  "tick", "ticked"},
          a : 0..MaxAnimations, i : Nat, gotoEnd : BOOLEAN, dequeue : BOOLEAN,
          old : Seq(0..MaxAnimations)]

Shape ==
  /\ animations \in 0..MaxAnimations /\ anim \in [Slots -> Animations]
  /\ fxqueue \in Seq(0..MaxAnimations) /\ timers \in Seq(Slots) /\ todo \in Seq(Calls)
  /\ fxshow \in [there : BOOLEAN, knows : BOOLEAN, hidden : BOOLEAN]
  /\ shown \in BOOLEAN /\ finish \in BOOLEAN /\ fxOn \in BOOLEAN /\ rafs \in Nat
  /\ fresh \in BOOLEAN /\ wish \in BOOLEAN /\ plain \in BOOLEAN /\ nested \in BOOLEAN
  /\ \A a \in Slots : anim[a].state = "none" <=> a > animations

(* The loop at the bottom of the stack.                                    *)
Under(does) == todo # <<>> /\ todo[1].does = does

(* A call under way is what its place in the stack allows.                 *)
CallOk(p) ==
  /\ todo[p].does \in {"stop", "finish", "tick", "ticked"} => p = 1
  /\ todo[p].does \in {"dequeue", "start", "tick"} => p = Len(todo)
  /\ todo[p].does \in {"start", "complete", "ticked"} => todo[p].a \in Slots
  /\ todo[p].does = "start" => anim[todo[p].a].state = "waiting"
  /\ todo[p].does \in {"complete", "ticked"} => anim[todo[p].a].state = "resolved"
  /\ todo[p].does \in {"tick", "ticked"} => todo[p].i > 0
  /\ todo[p].does \in {"stop", "finish"} => todo[p].i <= Len(timers)
  /\ todo[p].does = "splice" =>
       /\ p = 2 /\ todo[1].does \in {"stop", "finish"} /\ todo[p].i = todo[1].i + 1
       /\ todo[p].i <= Len(timers) /\ anim[timers[todo[p].i]].state = "resolved"

CallsOk ==
  /\ \A p \in 1..Len(todo) : CallOk(p)
  /\ finish <=> Under("finish")
  /\ finish /\ plain => fxqueue = <<>>

(* What waits: the one a call is to start, and the queue.                  *)
Waits   == Waiting(IF Under("finish") THEN todo[1].old ELSE fxqueue)
Pending == IF Runs("start") THEN <<Now.a>> \o Waits ELSE Waits

Await(an, q, starts) ==
  /\ q \in Seq(Slots)
  /\ \A j, k \in 1..Len(q) : q[j] = q[k] => j = k
  /\ \A j \in 1..Len(q) : /\ an[q[j]].state = "waiting"
                          /\ an[q[j]].queued \/ (starts /\ j = 1)
PendingOk == Await(anim, Pending, Runs("start"))

(* While finish runs what waited, its callbacks queue others.              *)
QueueApart ==
  Under("finish") =>
    /\ Await(anim, Waiting(fxqueue), FALSE)
    /\ \A j \in 1..Len(Waiting(fxqueue)), k \in 1..Len(Pending) :
         Waiting(fxqueue)[j] # Pending[k]

OnceEach ==
  \A a \in Slots :
    /\ anim[a].completes <= 1
    /\ anim[a].state \in {"none", "waiting", "running"} => anim[a].completes = 0

(* What runs has its timer, and the timers have the loop of frames.        *)
TimersRun ==
  /\ \A a \in Slots : anim[a].state = "running" =>
       \E j \in 1..Len(timers) : timers[j] = a
  /\ timers # <<>> => fxOn
  /\ fxOn => rafs > 0
  /\ fresh => fxOn

(* Who will start the next of the queue: an animation of it that runs, or  *)
(* a call under way.                                                       *)
Carries(a) == a \in Slots /\ anim[a].state = "running" /\ anim[a].queued
Token(p)   == \/ todo[p].does = "dequeue"
              \/ todo[p].does \in {"start", "complete"} /\ anim[todo[p].a].queued

SomeCarrier == \E a \in Slots : Carries(a)
SomeToken   == \E p \in 1..Len(todo) : Token(p)

NoneLeftBehind ==
  fxqueue # <<>> => SomeCarrier \/ SomeToken \/ (Under("stop") /\ ~todo[1].gotoEnd)

AtMostOne ==
  /\ \A a, b \in Slots : Carries(a) /\ Carries(b) => a = b
  /\ \A p, q \in 1..Len(todo) : Token(p) /\ Token(q) => p = q
  /\ SomeToken => ~SomeCarrier

(* Unless a loop of stop or finish is under way, the sentinel says so.     *)
SentinelThere ==
  /\ (~Under("stop") /\ ~Under("finish") /\ ~Runs("dequeue")) =>
       (SomeCarrier \/ SomeToken => Busy)
  /\ Under("stop") =>
       /\ \A a \in Slots : Carries(a) =>
            Busy \/ \E j \in 1..Len(timers) : j <= todo[1].i /\ timers[j] = a
       /\ Runs("start") /\ anim[Now.a].queued => Busy

(* finish starts each at once, whatever its callbacks animate.             *)
Strict == plain \/ ~Under("finish")

OneAtATime ==
  ~nested =>
    /\ \A a, b \in Slots : Carries(a) /\ Carries(b) => a = b
    /\ Strict => AtMostOne /\ SentinelThere

(* What the loops of stop and finish have not come to yet.                 *)
LoopsSee ==
  /\ Under("stop") /\ (todo[1].dequeue \/ ~todo[1].gotoEnd) =>
       /\ Len(todo) = 1
       /\ \A a \in Slots : anim[a].state = "running" =>
            \E j \in 1..Len(timers) : j <= todo[1].i /\ timers[j] = a
  /\ Under("finish") =>
       \A a \in Slots : Carries(a) =>
         \E j \in 1..Len(timers) : j <= todo[1].i /\ timers[j] = a

(* Where an animation that runs leads, and what those that wait make of it.*)
Aim == shown /\ \A a \in Slots :
         anim[a].state = "running" /\ anim[a].toggles => anim[a].hidden
Turns(kind, w) == CASE kind = "show" -> TRUE [] kind = "hide" -> FALSE
                    [] kind = "toggle" -> ~w [] OTHER -> w
LeadsTo(an, w, q, end) ==
  \E f \in [0..Len(q) -> BOOLEAN] :
    /\ f[0] = w /\ f[Len(q)] = end
    /\ \A j \in 1..Len(q) : f[j] = Turns(an[q[j]].kind, f[j-1])

AimsAtWish ==
  plain =>
    /\ ~nested /\ ~Under("stop")
    /\ \A a \in Slots : a <= animations => anim[a].queued
    /\ (\A a \in Slots : anim[a].state = "running" => ~anim[a].toggles) =>
         fxshow = NoData
    /\ LeadsTo(anim, Aim, Pending, wish)

EffectsInv ==
  /\ Shape /\ CallsOk /\ PendingOk /\ QueueApart /\ OnceEach /\ TimersRun
  /\ NoneLeftBehind /\ OneAtATime /\ LoopsSee /\ AimsAtWish

-----------------------------------------------------------------------------
(****************************** sequences **********************************)
LEMMA LastAndFront ==
  ASSUME NEW S, NEW s \in Seq(S), s # <<>>
  PROVE  /\ Len(s) \in Nat \ {0} /\ Last(s) \in S /\ Last(s) = s[Len(s)]
         /\ Front(s) \in Seq(S) /\ Len(Front(s)) = Len(s) - 1
         /\ \A k \in 1..Len(s) - 1 : Front(s)[k] = s[k]
<1>1. Len(s) \in Nat \ {0}
  OBVIOUS
<1>2. Last(s) \in S /\ Last(s) = s[Len(s)]
  BY <1>1 DEF Last
<1>3. /\ Front(s) \in Seq(S) /\ DOMAIN Front(s) = 1..Len(s) - 1
      /\ \A k \in 1..Len(s) - 1 : Front(s)[k] = s[k]
  BY <1>1 DEF Front
<1>4. DOMAIN Front(s) = 1..Len(Front(s)) /\ Len(Front(s)) \in Nat
  BY <1>3
<1>5. Len(Front(s)) = Len(s) - 1
  BY <1>1, <1>3, <1>4
<1> QED
  BY <1>1, <1>2, <1>3, <1>5

LEMMA Appended ==
  ASSUME NEW S, NEW s \in Seq(S), NEW x \in S
  PROVE  /\ Append(s, x) \in Seq(S) /\ Len(Append(s, x)) = Len(s) + 1
         /\ \A k \in 1..Len(s) : Append(s, x)[k] = s[k]
         /\ Append(s, x)[Len(s) + 1] = x
  OBVIOUS

LEMMA Joined ==
  ASSUME NEW S, NEW s \in Seq(S), NEW x \in S, NEW y \in S
  PROVE  /\ s \o <<x>> = Append(s, x)
         /\ s \o <<x, y>> = Append(Append(s, x), y)
         /\ s \o <<>> = s /\ <<>> \o s = s
  OBVIOUS

LEMMA HeadAndTail ==
  ASSUME NEW S, NEW s \in Seq(S), s # <<>>
  PROVE  /\ Head(s) = s[1] /\ Head(s) \in S /\ Len(s) \in Nat \ {0}
         /\ Tail(s) \in Seq(S) /\ Len(Tail(s)) = Len(s) - 1
         /\ \A k \in 1..Len(s) - 1 : Tail(s)[k] = s[k + 1]
         /\ s = <<Head(s)>> \o Tail(s)
  OBVIOUS

LEMMA InFront ==
  ASSUME NEW S, NEW s \in Seq(S), NEW x \in S
  PROVE  /\ <<x>> \o s \in Seq(S) /\ Len(<<x>> \o s) = Len(s) + 1
         /\ (<<x>> \o s)[1] = x /\ Head(<<x>> \o s) = x /\ Tail(<<x>> \o s) = s
         /\ \A k \in 1..Len(s) : (<<x>> \o s)[k + 1] = s[k]
         /\ <<x>> \o s # <<>>
  OBVIOUS

LEMMA Together ==
  ASSUME NEW S, NEW b \in Seq(S), NEW e \in Seq(S)
  PROVE  /\ b \o e \in Seq(S) /\ Len(b \o e) = Len(b) + Len(e)
         /\ \A k \in 1..Len(b) + Len(e) :
              (b \o e)[k] = IF k <= Len(b) THEN b[k] ELSE e[k - Len(b)]
  OBVIOUS

LEMMA TakenOff ==
  ASSUME NEW S, NEW s \in Seq(S), NEW i \in 1..Len(s)
  PROVE  /\ RemoveAt(s, i) \in Seq(S) /\ Len(RemoveAt(s, i)) = Len(s) - 1
         /\ \A k \in 1..Len(s) - 1 :
              RemoveAt(s, i)[k] = IF k < i THEN s[k] ELSE s[k + 1]
<1> DEFINE b == SubSeq(s, 1, i - 1)
           e == SubSeq(s, i + 1, Len(s))
<1>1. Len(s) \in Nat /\ i \in Nat /\ i >= 1 /\ i <= Len(s)
  OBVIOUS
<1>2. /\ b \in Seq(S) /\ DOMAIN b = 1..(i - 1)
      /\ \A k \in 1..(i - 1) : b[k] = s[k]
  BY <1>1
<1>3. /\ e \in Seq(S) /\ DOMAIN e = 1..(Len(s) - i)
      /\ \A k \in 1..(Len(s) - i) : e[k] = s[i + k]
  BY <1>1
<1> HIDE DEF b, e
<1>4. /\ Len(b) \in Nat /\ DOMAIN b = 1..Len(b)
      /\ Len(e) \in Nat /\ DOMAIN e = 1..Len(e)
  BY <1>2, <1>3
<1>5. Len(b) = i - 1 /\ Len(e) = Len(s) - i
  BY <1>1, <1>2, <1>3, <1>4
<1>6. RemoveAt(s, i) = b \o e
  BY DEF RemoveAt, b, e
<1>7. /\ b \o e \in Seq(S) /\ Len(b \o e) = Len(s) - 1
      /\ \A k \in 1..Len(b) + Len(e) :
           (b \o e)[k] = IF k <= Len(b) THEN b[k] ELSE e[k - Len(b)]
  <2>1. /\ b \o e \in Seq(S) /\ Len(b \o e) = Len(b) + Len(e)
        /\ \A k \in 1..Len(b) + Len(e) :
             (b \o e)[k] = IF k <= Len(b) THEN b[k] ELSE e[k - Len(b)]
    BY <1>2, <1>3, Together
  <2>2. Len(b) + Len(e) = Len(s) - 1
    BY <1>1, <1>5
  <2> QED
    BY <2>1, <2>2
<1>8. ASSUME NEW k \in 1..Len(s) - 1
      PROVE  (b \o e)[k] = IF k < i THEN s[k] ELSE s[k + 1]
  <2>0. k \in 1..Len(b) + Len(e)
    BY <1>1, <1>5
  <2>1. CASE k < i
    <3>1. k <= Len(b) /\ k \in 1..(i - 1)
      BY <1>1, <1>5, <2>1
    <3> QED
      BY <1>2, <1>7, <2>0, <2>1, <3>1
  <2>2. CASE ~(k < i)
    <3>1. /\ k - Len(b) \in 1..(Len(s) - i) /\ i + (k - Len(b)) = k + 1
          /\ ~(k <= Len(b))
      BY <1>1, <1>5, <2>2
    <3> QED
      BY <1>3, <1>7, <2>0, <2>2, <3>1
  <2> QED
    BY <2>1, <2>2
<1> QED
  BY <1>6, <1>7, <1>8

(******************************** calls ************************************)
LEMMA CallFields ==
  ASSUME NEW f \in Calls
  PROVE  /\ f.does \in {"dequeue", "start", "complete", "stop", "splice", "finish",
                        "tick", "ticked"}
         /\ f.a \in 0..MaxAnimations /\ f.i \in Nat /\ f.gotoEnd \in BOOLEAN
         /\ f.dequeue \in BOOLEAN /\ f.old \in Seq(0..MaxAnimations)
  BY DEF Calls

LEMMA NewCalls ==
  /\ LET c == Call("dequeue") IN c \in Calls /\ c.does = "dequeue"
  /\ \A a \in Slots, does \in {"start", "complete"} :
       LET c == Of(does, a) IN c \in Calls /\ c.does = does /\ c.a = a
  /\ \A i \in Nat, does \in {"splice", "tick"} :
       LET c == At(does, i) IN c \in Calls /\ c.does = does /\ c.i = i
  /\ \A i \in Nat, g \in BOOLEAN :
       LET c == [At("stop", i) EXCEPT !.gotoEnd = g, !.dequeue = TRUE] IN
       c \in Calls /\ c.does = "stop" /\ c.i = i /\ c.gotoEnd = g /\ c.dequeue
  /\ \A i \in Nat, q \in Seq(0..MaxAnimations) :
       LET c == [At("finish", i) EXCEPT !.old = q] IN
       c \in Calls /\ c.does = "finish" /\ c.i = i /\ c.old = q
  /\ \A i \in Nat, a \in Slots :
       LET c == [At("ticked", i) EXCEPT !.a = a] IN
       c \in Calls /\ c.does = "ticked" /\ c.i = i /\ c.a = a
<1>1. <<>> \in Seq(0..MaxAnimations) /\ 0 \in 0..MaxAnimations
  OBVIOUS
<1>2. Slots \subseteq 0..MaxAnimations
  BY DEF Slots
<1>3. LET c == Call("dequeue") IN c \in Calls /\ c.does = "dequeue"
  BY <1>1 DEF Call, Calls
<1>4. \A a \in Slots, does \in {"start", "complete"} :
        LET c == Of(does, a) IN c \in Calls /\ c.does = does /\ c.a = a
  BY <1>1, <1>2 DEF Of, Call, Calls
<1>5. \A i \in Nat, does \in {"splice", "tick"} :
        LET c == At(does, i) IN c \in Calls /\ c.does = does /\ c.i = i
  BY <1>1 DEF At, Call, Calls
<1>6. \A i \in Nat, g \in BOOLEAN :
        LET c == [At("stop", i) EXCEPT !.gotoEnd = g, !.dequeue = TRUE] IN
        c \in Calls /\ c.does = "stop" /\ c.i = i /\ c.gotoEnd = g /\ c.dequeue
  BY <1>1 DEF At, Call, Calls
<1>7. \A i \in Nat, q \in Seq(0..MaxAnimations) :
        LET c == [At("finish", i) EXCEPT !.old = q] IN
        c \in Calls /\ c.does = "finish" /\ c.i = i /\ c.old = q
  BY <1>1 DEF At, Call, Calls
<1>8. \A i \in Nat, a \in Slots :
        LET c == [At("ticked", i) EXCEPT !.a = a] IN
        c \in Calls /\ c.does = "ticked" /\ c.i = i /\ c.a = a
  BY <1>1, <1>2 DEF At, Call, Calls
<1> QED
  BY <1>3, <1>4, <1>5, <1>6, <1>7, <1>8

(* The stack is never what a loop sees of it alone: its top and the rest.  *)
LEMMA TopOfStack ==
  ASSUME Shape, CallsOk, todo # <<>>
  PROVE  /\ Len(todo) \in Nat \ {0} /\ Now \in Calls /\ Now = todo[Len(todo)]
         /\ Callers \in Seq(Calls) /\ Len(Callers) = Len(todo) - 1
         /\ \A p \in 1..Len(todo) - 1 : Callers[p] = todo[p]
         /\ CallOk(Len(todo))
         /\ \A p \in 1..Len(todo) : todo[p] \in Calls
<1>1. todo \in Seq(Calls)
  BY DEF Shape
<1>2. Len(todo) \in Nat \ {0}
  BY <1>1
<1> QED
  BY <1>1, <1>2, LastAndFront DEF Now, Callers, CallsOk

LEMMA CallNamed ==
  ASSUME NEW a \in Slots, NEW i \in Nat
  PROVE  /\ Of("start", a) \in Calls /\ Of("start", a).does = "start"
         /\ Of("start", a).a = a
         /\ Of("complete", a) \in Calls /\ Of("complete", a).does = "complete"
         /\ Of("complete", a).a = a
         /\ At("splice", i) \in Calls /\ At("splice", i).does = "splice"
         /\ At("splice", i).i = i
         /\ At("tick", i) \in Calls /\ At("tick", i).does = "tick" /\ At("tick", i).i = i
<1>1. <<>> \in Seq(0..MaxAnimations) /\ 0 \in 0..MaxAnimations /\ a \in 0..MaxAnimations
  BY DEF Slots
<1>2. Of("start", a) \in Calls /\ Of("start", a).does = "start" /\ Of("start", a).a = a
  BY <1>1 DEF Of, Call, Calls
<1>3. /\ Of("complete", a) \in Calls /\ Of("complete", a).does = "complete"
      /\ Of("complete", a).a = a
  BY <1>1 DEF Of, Call, Calls
<1>4. /\ At("splice", i) \in Calls /\ At("splice", i).does = "splice"
      /\ At("splice", i).i = i
  BY <1>1 DEF At, Call, Calls
<1>5. At("tick", i) \in Calls /\ At("tick", i).does = "tick" /\ At("tick", i).i = i
  BY <1>1 DEF At, Call, Calls
<1> QED
  BY <1>2, <1>3, <1>4, <1>5

LEMMA EachCallOk ==
  ASSUME CallsOk, NEW p \in 1..Len(todo)
  PROVE  CallOk(p)
  BY DEF CallsOk

-----------------------------------------------------------------------------
(************************** what the stack becomes *************************)
Pushes(x)        == /\ Len(todo') = Len(todo) + 1 /\ todo'[Len(todo) + 1] = x
                    /\ \A p \in 1..Len(todo) : todo'[p] = todo[p]
Pops             == /\ Len(todo') = Len(todo) - 1
                    /\ \A p \in 1..Len(todo) - 1 : todo'[p] = todo[p]
Becomes(x)       == /\ Len(todo') = Len(todo) /\ todo'[Len(todo)] = x
                    /\ \A p \in 1..Len(todo) - 1 : todo'[p] = todo[p]
Calling(x, y)    == /\ Len(todo') = Len(todo) + 1
                    /\ todo'[Len(todo)] = x /\ todo'[Len(todo) + 1] = y
                    /\ \A p \in 1..Len(todo) - 1 : todo'[p] = todo[p]
Calling2(x, y, z) ==
  /\ Len(todo') = Len(todo) + 2
  /\ todo'[Len(todo)] = x /\ todo'[Len(todo) + 1] = y /\ todo'[Len(todo) + 2] = z
  /\ \A p \in 1..Len(todo) - 1 : todo'[p] = todo[p]

LEMMA StackPushes ==
  ASSUME Shape, NEW x \in Calls, todo' = Append(todo, x)
  PROVE  todo' \in Seq(Calls) /\ Pushes(x)
<1>1. todo \in Seq(Calls)
  BY DEF Shape
<1> QED
  BY <1>1, Appended DEF Pushes

LEMMA StackPops ==
  ASSUME Shape, CallsOk, todo # <<>>, todo' = Callers
  PROVE  todo' \in Seq(Calls) /\ Pops
  BY TopOfStack DEF Pops

LEMMA StackBecomes ==
  ASSUME Shape, CallsOk, todo # <<>>, NEW x \in Calls,
         todo' = Append(Callers, x) \/ todo' = Callers \o <<x>>
  PROVE  todo' \in Seq(Calls) /\ Becomes(x)
<1>1. Callers \in Seq(Calls) /\ Len(Callers) = Len(todo) - 1 /\ Len(todo) \in Nat \ {0}
  BY TopOfStack
<1>2. todo' = Append(Callers, x)
  BY <1>1, Joined
<1> QED
  BY <1>1, <1>2, TopOfStack, Appended DEF Becomes

LEMMA StackCalling ==
  ASSUME Shape, CallsOk, todo # <<>>, NEW x \in Calls, NEW y \in Calls,
         \/ todo' = Callers \o <<x, y>>
         \/ todo' = (Callers \o <<x>>) \o <<y>>
  PROVE  todo' \in Seq(Calls) /\ Calling(x, y)
<1> DEFINE one == Append(Callers, x)
<1>1. Callers \in Seq(Calls) /\ Len(Callers) = Len(todo) - 1 /\ Len(todo) \in Nat \ {0}
  BY TopOfStack
<1>2. /\ one \in Seq(Calls) /\ Len(one) = Len(todo) /\ one[Len(todo)] = x
      /\ \A p \in 1..Len(todo) - 1 : one[p] = todo[p]
  BY <1>1, TopOfStack, Appended
<1>3. todo' = Append(one, y)
  <2>1. Callers \o <<x, y>> = Append(one, y) /\ Callers \o <<x>> = one
    BY <1>1, Joined
  <2>2. one \o <<y>> = Append(one, y)
    BY <1>2, Joined
  <2> QED
    BY <2>1, <2>2
<1> HIDE DEF one
<1>4. /\ Append(one, y) \in Seq(Calls) /\ Len(Append(one, y)) = Len(one) + 1
      /\ \A p \in 1..Len(one) : Append(one, y)[p] = one[p]
      /\ Append(one, y)[Len(one) + 1] = y
  BY <1>2, Appended
<1> QED
  BY <1>1, <1>2, <1>3, <1>4 DEF Calling

LEMMA StackCalling2 ==
  ASSUME Shape, CallsOk, todo # <<>>, NEW x \in Calls, NEW y \in Calls, NEW z \in Calls,
         todo' = (Callers \o <<x, y>>) \o <<z>>
  PROVE  todo' \in Seq(Calls) /\ Calling2(x, y, z)
<1> DEFINE one == Append(Callers, x)
           two == Append(one, y)
<1>1. Callers \in Seq(Calls) /\ Len(Callers) = Len(todo) - 1 /\ Len(todo) \in Nat \ {0}
  BY TopOfStack
<1>2. /\ one \in Seq(Calls) /\ Len(one) = Len(todo) /\ one[Len(todo)] = x
      /\ \A p \in 1..Len(todo) - 1 : one[p] = todo[p]
  BY <1>1, TopOfStack, Appended
<1>3. Callers \o <<x, y>> = two
  BY <1>1, Joined
<1> HIDE DEF one
<1>4. /\ two \in Seq(Calls) /\ Len(two) = Len(one) + 1
      /\ \A p \in 1..Len(one) : two[p] = one[p]
      /\ two[Len(one) + 1] = y
  BY <1>2, Appended
<1>5. two \o <<z>> = Append(two, z)
  BY <1>4, Joined
<1> HIDE DEF two
<1>6. /\ Append(two, z) \in Seq(Calls) /\ Len(Append(two, z)) = Len(two) + 1
      /\ \A p \in 1..Len(two) : Append(two, z)[p] = two[p]
      /\ Append(two, z)[Len(two) + 1] = z
  BY <1>4, Appended
<1>7. todo' = Append(two, z)
  BY <1>3, <1>5
<1>8. Len(two) = Len(todo) + 1 /\ 1..Len(one) = 1..Len(todo) /\ Len(todo) \in 1..Len(one)
  BY <1>1, <1>2, <1>4
<1>9. \A p \in 1..Len(todo) : two[p] = one[p] /\ Append(two, z)[p] = two[p]
  BY <1>1, <1>4, <1>6, <1>8
<1>10. /\ todo'[Len(todo)] = x /\ todo'[Len(todo) + 1] = y
       /\ todo'[Len(todo) + 2] = z /\ Len(todo') = Len(todo) + 2
  <2>1. /\ Append(two, z)[Len(todo) + 2] = z /\ Len(Append(two, z)) = Len(todo) + 2
    BY <1>1, <1>6, <1>8
  <2>2. Append(two, z)[Len(todo) + 1] = two[Len(todo) + 1]
    BY <1>1, <1>6, <1>8
  <2>3. two[Len(todo) + 1] = y
    BY <1>2, <1>4
  <2>4. Append(two, z)[Len(todo)] = x
    <3>1. Len(todo) \in 1..Len(todo)
      BY <1>1
    <3>2. two[Len(todo)] = one[Len(todo)] /\ Append(two, z)[Len(todo)] = two[Len(todo)]
      BY <1>9, <3>1
    <3> QED
      BY <1>2, <3>2
  <2> QED
    BY <1>7, <2>1, <2>2, <2>3, <2>4
<1>11. ASSUME NEW p \in 1..Len(todo) - 1 PROVE todo'[p] = todo[p]
  <2>1. p \in 1..Len(todo)
    BY <1>1
  <2> QED
    BY <1>2, <1>7, <1>9, <2>1
<1> QED
  BY <1>6, <1>7, <1>10, <1>11 DEF Calling2

(* A call that goes on to wait for what it called.                         *)
LEMMA CallStays ==
  ASSUME Shape, NEW p \in 1..Len(todo), CallOk(p), todo'[p] = todo[p],
         todo[p].does \notin {"dequeue", "start", "tick"},
         todo[p].does = "splice" =>
           /\ todo'[1].does = todo[1].does /\ todo'[1].i = todo[1].i
           /\ Len(timers') >= Len(timers)
           /\ \A j \in 1..Len(timers) : timers'[j] = timers[j],
         todo[p].does \in {"stop", "finish"} => todo[p].i <= Len(timers'),
         \A a \in Slots : anim[a].state = "resolved" => anim'[a].state = "resolved",
         timers' \in Seq(Slots)
  PROVE  CallOk(p)'
<1>1. timers \in Seq(Slots) /\ Len(timers) \in Nat /\ Len(timers') \in Nat
  BY DEF Shape
<1>2. todo[p].does = "splice" => todo[p].i \in 1..Len(timers)
  <2>1. todo \in Seq(Calls)
    BY DEF Shape
  <2>2. todo[1] \in Calls /\ todo[p] \in Calls
    BY <2>1
  <2>3. todo[1].i \in Nat /\ todo[p].i \in Nat
    BY <2>2, CallFields
  <2> QED
    BY <1>1, <2>3 DEF CallOk
<1>3. todo[p].does = "splice" =>
        /\ timers'[todo[p].i] = timers[todo[p].i] /\ timers[todo[p].i] \in Slots
        /\ todo[p].i <= Len(timers')
  BY <1>1, <1>2
<1> QED
  BY <1>3 DEF CallOk

-----------------------------------------------------------------------------
(**************************** what waits, and why **************************)
LEMMA AwaitStays ==
  ASSUME NEW an, NEW bn, NEW q, NEW starts, NEW begins, Await(an, q, starts),
         \A j \in 1..Len(q) : /\ bn[q[j]].state = an[q[j]].state
                              /\ bn[q[j]].queued = an[q[j]].queued,
         starts => begins \/ q = <<>>
  PROVE  Await(bn, q, begins)
  BY DEF Await

LEMMA AwaitDrops ==
  ASSUME NEW an, NEW x, NEW q \in Seq(Slots), x \in Slots,
         Await(an, <<x>> \o q, TRUE)
  PROVE  Await(an, q, FALSE) /\ \A j \in 1..Len(q) : q[j] # x
<1> DEFINE r == <<x>> \o q
<1>1. /\ Len(r) = Len(q) + 1 /\ r[1] = x /\ Len(q) \in Nat
      /\ \A j \in 1..Len(q) : r[j + 1] = q[j] /\ q[j] \in Slots
  BY InFront
<1> HIDE DEF r
<1>2. /\ \A j, k \in 1..Len(r) : r[j] = r[k] => j = k
      /\ \A j \in 1..Len(r) : /\ an[r[j]].state = "waiting"
                              /\ an[r[j]].queued \/ j = 1
  BY DEF Await, r
<1>3. \A j \in 1..Len(q) : j + 1 \in 1..Len(r) /\ 1 \in 1..Len(r) /\ j + 1 # 1
  BY <1>1
<1>4. \A j \in 1..Len(q) : q[j] # x
  BY <1>1, <1>2, <1>3
<1>5. \A j \in 1..Len(q) : an[q[j]].state = "waiting" /\ an[q[j]].queued
  BY <1>1, <1>2, <1>3
<1>6. \A j, k \in 1..Len(q) : q[j] = q[k] => j = k
  <2>1. ASSUME NEW j \in 1..Len(q), NEW k \in 1..Len(q), q[j] = q[k] PROVE j = k
    <3>1. j + 1 = k + 1
      BY <1>1, <1>2, <1>3, <2>1
    <3> QED
      BY <3>1
  <2> QED
    BY <2>1
<1> QED
  BY <1>1, <1>4, <1>5, <1>6 DEF Await

LEMMA AwaitGrows ==
  ASSUME NEW an, NEW bn, NEW q, NEW starts, Await(an, q, starts), NEW x \in Slots,
         an[x].state # "waiting", bn[x].state = "waiting",
         \A b \in Slots : b # x => bn[b].state = an[b].state /\ bn[b].queued = an[b].queued
  PROVE  /\ bn[x].queued => Await(bn, Append(q, x), starts)
         /\ ~starts => Await(bn, <<x>> \o q, TRUE)
<1>1. /\ q \in Seq(Slots) /\ \A j, k \in 1..Len(q) : q[j] = q[k] => j = k
      /\ \A j \in 1..Len(q) : /\ an[q[j]].state = "waiting" /\ q[j] \in Slots
                              /\ an[q[j]].queued \/ (starts /\ j = 1)
  BY DEF Await
<1>2. \A j \in 1..Len(q) : /\ q[j] # x /\ bn[q[j]].state = "waiting"
                           /\ bn[q[j]].queued = an[q[j]].queued
  BY <1>1
<1>3. /\ Append(q, x) \in Seq(Slots) /\ Len(Append(q, x)) = Len(q) + 1 /\ Len(q) \in Nat
      /\ \A j \in 1..Len(q) : Append(q, x)[j] = q[j]
      /\ Append(q, x)[Len(q) + 1] = x
  BY <1>1, Appended
<1>4. /\ <<x>> \o q \in Seq(Slots) /\ Len(<<x>> \o q) = Len(q) + 1 /\ (<<x>> \o q)[1] = x
      /\ \A j \in 1..Len(q) : (<<x>> \o q)[j + 1] = q[j]
  BY <1>1, InFront
<1>5. ASSUME bn[x].queued PROVE Await(bn, Append(q, x), starts)
  <2> DEFINE r == Append(q, x)
  <2>1. /\ r \in Seq(Slots) /\ Len(r) = Len(q) + 1
        /\ \A j \in 1..Len(q) : r[j] = q[j] /\ r[Len(q) + 1] = x
    BY <1>3
  <2> HIDE DEF r
  <2>2. \A j \in 1..Len(r) : j \in 1..Len(q) \/ j = Len(q) + 1
    BY <1>3, <2>1
  <2>3. \A j, k \in 1..Len(r) : r[j] = r[k] => j = k
    BY <1>1, <1>2, <1>3, <2>1, <2>2 DEF r
  <2>4. \A j \in 1..Len(r) : bn[r[j]].state = "waiting"
    BY <1>2, <1>3, <2>2 DEF r
  <2>5. \A j \in 1..Len(r) : bn[r[j]].queued \/ (starts /\ j = 1)
    BY <1>1, <1>2, <1>3, <1>5, <2>2 DEF r
  <2>6. Await(bn, r, starts)
    BY <2>1, <2>3, <2>4, <2>5 DEF Await
  <2> QED
    BY <2>6 DEF r
<1>6. ASSUME ~starts PROVE Await(bn, <<x>> \o q, TRUE)
  <2> DEFINE r == <<x>> \o q
  <2>1. /\ r \in Seq(Slots) /\ Len(r) = Len(q) + 1 /\ r[1] = x
        /\ \A j \in 1..Len(q) : r[j + 1] = q[j]
    BY <1>4
  <2> HIDE DEF r
  <2>2. \A j \in 1..Len(r) : j = 1 \/ (j - 1 \in 1..Len(q) /\ r[j] = q[j - 1])
    <3>1. ASSUME NEW j \in 1..Len(r), j # 1 PROVE j - 1 \in 1..Len(q) /\ r[j] = q[j - 1]
      <4>1. j - 1 \in 1..Len(q) /\ (j - 1) + 1 = j
        BY <1>3, <2>1, <3>1
      <4>2. r[(j - 1) + 1] = q[j - 1]
        BY <2>1, <4>1
      <4> QED
        BY <4>1, <4>2
    <3> QED
      BY <3>1
  <2>3. \A j, k \in 1..Len(r) : r[j] = r[k] => j = k
    <3>1. ASSUME NEW j \in 1..Len(r), NEW k \in 1..Len(r), r[j] = r[k], j # k PROVE FALSE
      <4>1. CASE j = 1
        BY <1>2, <2>1, <2>2, <3>1, <4>1
      <4>2. CASE k = 1
        BY <1>2, <2>1, <2>2, <3>1, <4>2
      <4>3. CASE j # 1 /\ k # 1
        <5>1. j - 1 = k - 1
          BY <1>1, <2>2, <3>1, <4>3
        <5> QED
          BY <3>1, <5>1
      <4> QED
        BY <4>1, <4>2, <4>3
    <3> QED
      BY <3>1
  <2>4. ASSUME NEW j \in 1..Len(r) PROVE bn[r[j]].state = "waiting"
    <3>1. CASE j = 1
      BY <2>1, <3>1
    <3>2. CASE j # 1
      BY <1>2, <2>2, <3>2
    <3> QED
      BY <3>1, <3>2
  <2>5. \A j \in 1..Len(r) : bn[r[j]].queued \/ j = 1
    <3>1. \A k \in 1..Len(q) : bn[q[k]].queued
      BY <1>1, <1>2, <1>6
    <3> QED
      BY <2>2, <3>1
  <2>6. Await(bn, r, TRUE)
    BY <2>1, <2>3, <2>4, <2>5 DEF Await
  <2> QED
    BY <2>6 DEF r
<1> QED
  BY <1>5, <1>6

LEMMA AwaitPuts ==
  ASSUME NEW an, NEW x \in Slots, NEW q, Await(an, q, FALSE), an[x].state = "waiting",
         \A j \in 1..Len(q) : q[j] # x
  PROVE  Await(an, <<x>> \o q, TRUE)
<1> DEFINE r == <<x>> \o q
<1>1. /\ q \in Seq(Slots) /\ \A j, k \in 1..Len(q) : q[j] = q[k] => j = k
      /\ \A j \in 1..Len(q) : an[q[j]].state = "waiting" /\ an[q[j]].queued
  BY DEF Await
<1>2. /\ r \in Seq(Slots) /\ Len(r) = Len(q) + 1 /\ r[1] = x /\ Len(q) \in Nat
      /\ \A j \in 1..Len(q) : r[j + 1] = q[j]
  BY <1>1, InFront
<1> HIDE DEF r
<1>3. ASSUME NEW j \in 1..Len(r), j # 1 PROVE j - 1 \in 1..Len(q) /\ r[j] = q[j - 1]
  <2>1. j - 1 \in 1..Len(q) /\ (j - 1) + 1 = j
    BY <1>2, <1>3
  <2>2. r[(j - 1) + 1] = q[j - 1]
    BY <1>2, <2>1
  <2> QED
    BY <2>1, <2>2
<1>4. ASSUME NEW j \in 1..Len(r), NEW k \in 1..Len(r), r[j] = r[k], j # k PROVE FALSE
  <2>1. CASE j = 1
    BY <1>2, <1>3, <1>4, <2>1
  <2>2. CASE k = 1
    BY <1>2, <1>3, <1>4, <2>2
  <2>3. CASE j # 1 /\ k # 1
    <3>1. j - 1 = k - 1
      BY <1>1, <1>3, <1>4, <2>3
    <3> QED
      BY <1>4, <3>1
  <2> QED
    BY <2>1, <2>2, <2>3
<1>5. ASSUME NEW j \in 1..Len(r)
      PROVE  an[r[j]].state = "waiting" /\ (an[r[j]].queued \/ j = 1)
  <2>1. CASE j = 1
    BY <1>2, <2>1
  <2>2. CASE j # 1
    BY <1>1, <1>3, <2>2
  <2> QED
    BY <2>1, <2>2
<1>6. Await(an, r, TRUE)
  BY <1>2, <1>4, <1>5 DEF Await
<1> QED
  BY <1>6 DEF r

LEMMA TurnsIs ==
  ASSUME NEW w \in BOOLEAN, NEW kind
  PROVE  Turns(kind, w) \in BOOLEAN
  BY DEF Turns

LEMMA LeadsStays ==
  ASSUME NEW an, NEW bn, NEW w, NEW q, NEW end, LeadsTo(an, w, q, end),
         \A j \in 1..Len(q) : bn[q[j]].kind = an[q[j]].kind
  PROVE  LeadsTo(bn, w, q, end)
  BY DEF LeadsTo

LEMMA LeadsDrops ==
  ASSUME NEW an, NEW bn, NEW w, NEW x \in Slots, NEW q \in Seq(Slots), NEW end,
         LeadsTo(an, w, <<x>> \o q, end),
         \A j \in 1..Len(q) : bn[q[j]].kind = an[q[j]].kind
  PROVE  LeadsTo(bn, Turns(an[x].kind, w), q, end)
<1> DEFINE r == <<x>> \o q
<1>1. /\ Len(r) = Len(q) + 1 /\ r[1] = x /\ Len(q) \in Nat
      /\ \A j \in 1..Len(q) : r[j + 1] = q[j]
  BY InFront
<1> HIDE DEF r
<1>2. PICK f \in [0..Len(r) -> BOOLEAN] :
        /\ f[0] = w /\ f[Len(r)] = end
        /\ \A j \in 1..Len(r) : f[j] = Turns(an[r[j]].kind, f[j-1])
  BY DEF LeadsTo, r
<1> DEFINE g == [j \in 0..Len(q) |-> f[j + 1]]
<1>3. g \in [0..Len(q) -> BOOLEAN]
  BY <1>1, <1>2
<1>4. \A j \in 0..Len(q) : g[j] = f[j + 1]
  OBVIOUS
<1> HIDE DEF g
<1>5. g[0] = Turns(an[x].kind, w) /\ g[Len(q)] = end
  <2>1. 1 \in 1..Len(r) /\ 0 \in 0..Len(q) /\ Len(q) \in 0..Len(q)
    BY <1>1
  <2>2. f[1] = Turns(an[r[1]].kind, f[1 - 1]) /\ g[0] = f[0 + 1]
    BY <1>2, <1>4, <2>1
  <2>3. g[Len(q)] = f[Len(r)]
    BY <1>1, <1>4, <2>1
  <2> QED
    BY <1>1, <1>2, <2>2, <2>3
<1>6. ASSUME NEW j \in 1..Len(q) PROVE g[j] = Turns(bn[q[j]].kind, g[j-1])
  <2>1. j + 1 \in 1..Len(r) /\ j \in 0..Len(q) /\ j - 1 \in 0..Len(q) /\ (j - 1) + 1 = j
        /\ (j + 1) - 1 = j
    BY <1>1
  <2>2. f[j + 1] = Turns(an[r[j + 1]].kind, f[(j + 1) - 1])
    BY <1>2, <2>1
  <2>3. r[j + 1] = q[j] /\ g[j] = f[j + 1] /\ g[j - 1] = f[(j - 1) + 1]
    BY <1>1, <1>4, <2>1
  <2> QED
    BY <2>1, <2>2, <2>3
<1> QED
  BY <1>3, <1>5, <1>6 DEF LeadsTo

LEMMA LeadsGrows ==
  ASSUME NEW an, NEW bn, NEW w, NEW q \in Seq(Slots), NEW x \in Slots, NEW end \in BOOLEAN,
         LeadsTo(an, w, q, end),
         \A j \in 1..Len(q) : bn[q[j]].kind = an[q[j]].kind
  PROVE  LeadsTo(bn, w, Append(q, x), Turns(bn[x].kind, end))
<1> DEFINE r == Append(q, x)
<1>1. /\ Len(r) = Len(q) + 1 /\ r[Len(q) + 1] = x /\ Len(q) \in Nat
      /\ \A j \in 1..Len(q) : r[j] = q[j]
  BY Appended
<1> HIDE DEF r
<1>2. PICK f \in [0..Len(q) -> BOOLEAN] :
        /\ f[0] = w /\ f[Len(q)] = end
        /\ \A j \in 1..Len(q) : f[j] = Turns(an[q[j]].kind, f[j-1])
  BY DEF LeadsTo
<1> DEFINE last == Turns(bn[x].kind, end)
           g == [j \in 0..Len(r) |-> IF j <= Len(q) THEN f[j] ELSE last]
<1>3. last \in BOOLEAN
  BY TurnsIs
<1> HIDE DEF last
<1>4. /\ g \in [0..Len(r) -> BOOLEAN]
      /\ \A j \in 0..Len(q) : g[j] = f[j]
      /\ g[Len(r)] = last
  BY <1>1, <1>2, <1>3
<1> HIDE DEF g
<1>5. g[0] = w
  BY <1>1, <1>2, <1>4
<1>6. ASSUME NEW j \in 1..Len(r) PROVE g[j] = Turns(bn[r[j]].kind, g[j-1])
  <2>1. CASE j \in 1..Len(q)
    <3>1. j \in 0..Len(q) /\ j - 1 \in 0..Len(q)
      BY <1>1, <2>1
    <3>2. f[j] = Turns(an[q[j]].kind, f[j-1]) /\ r[j] = q[j]
      BY <1>1, <1>2, <2>1
    <3>3. g[j] = f[j] /\ g[j-1] = f[j-1]
      BY <1>4, <3>1
    <3> QED
      BY <2>1, <3>2, <3>3
  <2>2. CASE j = Len(q) + 1
    <3>1. g[j-1] = end
      BY <1>1, <1>2, <1>4, <2>2
    <3> QED
      BY <1>1, <1>4, <2>2, <3>1 DEF last
  <2> QED
    BY <1>1, <2>1, <2>2
<1>7. LeadsTo(bn, w, r, last)
  BY <1>4, <1>5, <1>6 DEF LeadsTo
<1> QED
  BY <1>7 DEF r, last

-----------------------------------------------------------------------------
(****************************** an animation *******************************)
LEMMA AnimationFields ==
  ASSUME Shape, NEW a \in Slots
  PROVE  /\ anim[a] \in Animations /\ anim[a].kind \in Kinds /\ anim[a].state \in States
         /\ anim[a].queued \in BOOLEAN /\ anim[a].short \in BOOLEAN
         /\ anim[a].hidden \in BOOLEAN /\ anim[a].toggles \in BOOLEAN
         /\ anim[a].completes \in Nat
  BY DEF Shape, Animations

(* Only one animation changes, and what it was asked to do stays.          *)
OnlyOne(a) ==
  /\ anim' \in [Slots -> Animations]
  /\ \A b \in Slots : b # a => anim'[b] = anim[b]

(* It is over, to its end or not.                                          *)
Ends(a, how) ==
  /\ OnlyOne(a) /\ anim'[a].state = how
  /\ anim'[a].queued = anim[a].queued /\ anim'[a].kind = anim[a].kind
  /\ anim'[a].completes = anim[a].completes + (IF how = "resolved" THEN 1 ELSE 0)
  /\ \A b \in Slots : anim'[b].state = "none" <=> anim[b].state = "none"

LEMMA Resolved ==
  ASSUME Shape, NEW a \in Slots, NEW next, anim[a].state = "running", Resolves(a, next)
  PROVE  Ends(a, "resolved") /\ todo' = next \o <<Of("complete", a)>>
<1> DEFINE r == anim[a]
           s == [r EXCEPT !.state = "resolved", !.hidden = FALSE, !.toggles = FALSE,
                          !.completes = r.completes + 1]
<1>1. /\ r \in Animations /\ r.completes + 1 \in Nat /\ "resolved" \in States
      /\ anim \in [Slots -> Animations]
  BY AnimationFields DEF States, Shape
<1>2. /\ s \in Animations /\ s.state = "resolved" /\ s.queued = r.queued
      /\ s.kind = r.kind /\ s.completes = r.completes + 1
  BY <1>1 DEF Animations
<1>6. /\ anim' = [anim EXCEPT ![a].state = "resolved", ![a].hidden = FALSE,
                              ![a].toggles = FALSE, ![a].completes = @ + 1]
      /\ todo' = next \o <<Of("complete", a)>>
  BY DEF Resolves
<1>3. anim' = [anim EXCEPT ![a] = s]
  BY <1>1, <1>6
<1> HIDE DEF s
<1>4. anim' \in [Slots -> Animations] /\ anim'[a] = s
      /\ \A b \in Slots : b # a => anim'[b] = anim[b]
  <2>1. s \in Animations /\ anim \in [Slots -> Animations]
    BY <1>1, <1>2
  <2> HIDE DEF r
  <2> QED
    BY <1>3, <2>1
<1>5. \A b \in Slots : anim'[b].state = "none" <=> anim[b].state = "none"
  BY <1>2, <1>4
<1> QED
  BY <1>1, <1>2, <1>4, <1>5, <1>6 DEF Ends, OnlyOne

LEMMA Rejected ==
  ASSUME Shape, NEW a \in Slots, anim[a].state = "running", Rejects(a)
  PROVE  Ends(a, "rejected")
<1> DEFINE r == anim[a]
           s == [r EXCEPT !.state = "rejected", !.hidden = FALSE, !.toggles = FALSE]
<1>1. r \in Animations /\ "rejected" \in States /\ anim \in [Slots -> Animations]
      /\ r.completes \in Nat
  BY AnimationFields DEF States, Shape
<1>2. /\ s \in Animations /\ s.state = "rejected" /\ s.queued = r.queued
      /\ s.kind = r.kind /\ s.completes = r.completes
  BY <1>1 DEF Animations
<1>6. anim' = [anim EXCEPT ![a].state = "rejected", ![a].hidden = FALSE,
                           ![a].toggles = FALSE]
  BY DEF Rejects
<1>3. anim' = [anim EXCEPT ![a] = s]
  BY <1>1, <1>6
<1> HIDE DEF s
<1>4. anim' \in [Slots -> Animations] /\ anim'[a] = s
      /\ \A b \in Slots : b # a => anim'[b] = anim[b]
  <2>1. s \in Animations /\ anim \in [Slots -> Animations]
    BY <1>1, <1>2
  <2> HIDE DEF r
  <2> QED
    BY <1>3, <2>1
<1>5. \A b \in Slots : anim'[b].state = "none" <=> anim[b].state = "none"
  BY <1>2, <1>4
<1> QED
  BY <1>1, <1>2, <1>4, <1>5 DEF Ends, OnlyOne

(* What an animation that is over leaves of the element.                   *)
LEMMA DisplayTurns ==
  ASSUME Shape, NEW a \in Slots, NEW next, Resolves(a, next)
  PROVE  /\ shown' \in BOOLEAN
         /\ fxshow' \in [there : BOOLEAN, knows : BOOLEAN, hidden : BOOLEAN]
         /\ shown' <=> shown /\ (anim[a].toggles => anim[a].hidden)
         /\ fxshow' = IF anim[a].toggles THEN NoData ELSE fxshow
  BY AnimationFields DEF Resolves, Display, Data, Shape, NoData

(* One more is asked for.                                                  *)
LEMMA AskedFor ==
  ASSUME Shape, NEW k \in Kinds, NEW q \in BOOLEAN, NEW s \in BOOLEAN,
         NEW a, a = animations + 1, animate(k, q, s)
  PROVE  /\ a \in Slots /\ OnlyOne(a) /\ anim'[a].state = "waiting"
         /\ anim[a].state = "none" /\ anim'[a].kind = k /\ anim'[a].queued = q
         /\ anim'[a].completes = anim[a].completes
         /\ animations' \in 0..MaxAnimations
         /\ \A b \in Slots : anim'[b].state = "none" <=> b > animations'
<1> DEFINE r == anim[a]
           t == [r EXCEPT !.kind = k, !.queued = q, !.short = s, !.state = "waiting"]
<1>7. animations < MaxAnimations /\ animations' = animations + 1
  BY DEF animate
<1>8. anim' = [anim EXCEPT ![a].kind = k, ![a].queued = q, ![a].short = s,
                           ![a].state = "waiting"]
  BY DEF animate
<1>0. /\ a \in Slots /\ animations \in Nat /\ animations' \in 0..MaxAnimations
      /\ animations' = animations + 1 /\ \A b \in Slots : b \in Nat
  BY <1>7 DEF Shape, Slots
<1>1. r \in Animations /\ "waiting" \in States /\ anim \in [Slots -> Animations]
  BY <1>0, AnimationFields DEF States, Shape
<1>2. /\ t \in Animations /\ t.state = "waiting" /\ t.queued = q
      /\ t.kind = k /\ t.completes = r.completes
  BY <1>1 DEF Animations
<1>3. anim' = [anim EXCEPT ![a] = t]
  BY <1>0, <1>1, <1>8
<1> HIDE DEF t
<1>4. anim' \in [Slots -> Animations] /\ anim'[a] = t
      /\ \A b \in Slots : b # a => anim'[b] = anim[b]
  BY <1>0, <1>1, <1>2, <1>3
<1>5. anim[a].state = "none"
  BY <1>0 DEF Shape
<1>6. ASSUME NEW b \in Slots PROVE anim'[b].state = "none" <=> b > animations'
  <2>1. anim[b].state = "none" <=> b > animations
    BY DEF Shape
  <2> QED
    BY <1>0, <1>2, <1>4, <2>1
<1> QED
  BY <1>0, <1>2, <1>4, <1>5, <1>6 DEF OnlyOne

(* What starts begins to run, or is over at once, as the callback of its   *)
(* frame says.                                                             *)
Begins(a) ==
  LET ends == anim'[a].state = "resolved" IN
  /\ OnlyOne(a) /\ anim'[a].state \in {"running", "resolved"}
  /\ anim'[a].queued = anim[a].queued
  /\ anim'[a].completes = anim[a].completes + (IF ends THEN 1 ELSE 0)
  /\ finish => ends
  /\ \A b \in Slots : anim'[b].state = "none" <=> anim[b].state = "none"
  /\ ~ends => timers' = Append(timers, a)
  /\ timers' \in {timers, Append(timers, a)}
  /\ timers' = timers => UNCHANGED <<fxOn, rafs, fresh>>
  /\ timers' # timers => fxOn' = TRUE
  /\ timers' # timers =>
       UNCHANGED <<fxOn, rafs, fresh>> \/ (rafs' = rafs + 1 /\ fresh' = TRUE)
  /\ ends => todo' = Callers \o <<Of("complete", a)>>
  /\ ~ends => todo' = Callers

LEMMA StartBegins ==
  ASSUME Shape, NEW a \in Slots, anim[a].state = "waiting", Start(a, Callers)
  PROVE  Begins(a)
<1> DEFINE kind  == anim[a].kind
           skips == kind # "props" /\ Skips(kind)
           tog   == kind # "props" /\ ~skips
           was   == WasHidden(kind)
           over  == skips \/ anim[a].short
           ends  == over \/ finish
           hid   == ~ends /\ was
           togs  == ~ends /\ tog
           state == IF ends THEN "resolved" ELSE "running"
           once  == anim[a].completes + (IF ends THEN 1 ELSE 0)
           s == [NoAnimation EXCEPT
                   !.queued = anim[a].queued,
                   !.state = state, !.hidden = hid, !.toggles = togs,
                   !.completes = once]
<1>1. /\ anim' = [anim EXCEPT ![a] = s]
      /\ timers' = IF over THEN timers ELSE Append(timers, a)
      /\ IF over \/ fxOn THEN UNCHANGED <<fxOn, rafs, fresh>>
         ELSE fxOn' = TRUE /\ rafs' = rafs + 1 /\ fresh' = TRUE
      /\ todo' = IF ends THEN Callers \o <<Of("complete", a)>> ELSE Callers
  BY DEF Start
<1>2. /\ anim \in [Slots -> Animations] /\ anim[a].queued \in BOOLEAN
      /\ anim[a].completes \in Nat /\ timers \in Seq(Slots) /\ fxOn \in BOOLEAN
  BY AnimationFields DEF Shape
<1>3. over \in BOOLEAN /\ ends \in BOOLEAN /\ (over => ends) /\ (finish => ends)
      /\ (~over /\ ~finish => ~ends)
  OBVIOUS
<1>4. hid \in BOOLEAN /\ togs \in BOOLEAN /\ state \in States /\ once \in Nat
  BY <1>2 DEF States
<1> HIDE DEF over, was, tog, hid, togs, state, once
<1>5. s \in Animations /\ s.state = state /\ s.queued = anim[a].queued /\ s.completes = once
  BY <1>2, <1>4 DEF Animations, NoAnimation, Kinds, States
<1> HIDE DEF s
<1>12. /\ s.state = IF ends THEN "resolved" ELSE "running"
       /\ s.completes = anim[a].completes + (IF ends THEN 1 ELSE 0)
  BY <1>5 DEF state, once
<1> HIDE DEF ends
<1>6. /\ anim' \in [Slots -> Animations] /\ anim'[a] = s
      /\ \A b \in Slots : b # a => anim'[b] = anim[b]
  BY <1>1, <1>2, <1>5
<1>7. timers' = timers => over
  <2>1. Append(timers, a) # timers
    BY <1>2
  <2> QED
    BY <1>1, <2>1
<1>8. /\ timers' = timers => UNCHANGED <<fxOn, rafs, fresh>>
      /\ timers' # timers => fxOn' = TRUE
      /\ timers' # timers =>
           UNCHANGED <<fxOn, rafs, fresh>> \/ (rafs' = rafs + 1 /\ fresh' = TRUE)
  <2>1. CASE over
    BY <1>1, <2>1
  <2>2. CASE ~over /\ fxOn
    BY <1>1, <1>2, <1>7, <2>2
  <2>3. CASE ~over /\ ~fxOn
    BY <1>1, <1>7, <2>3
  <2> QED
    BY <2>1, <2>2, <2>3
<1>9. ends <=> anim'[a].state = "resolved"
  BY <1>6, <1>12
<1>10. \A b \in Slots : anim'[b].state = "none" <=> anim[b].state = "none"
  BY <1>6, <1>12
<1>11. /\ ~ends => timers' = Append(timers, a)
       /\ timers' \in {timers, Append(timers, a)}
  BY <1>1, <1>3 
<1> QED
  BY <1>1, <1>3, <1>5, <1>6, <1>12, <1>8, <1>9, <1>10, <1>11 DEF Begins, OnlyOne


ShowData == [there : BOOLEAN, knows : BOOLEAN, hidden : BOOLEAN]

LEMMA NoDataIs ==
  NoData \in ShowData /\ ~NoData.there /\ ~NoData.knows
  BY DEF NoData, ShowData

LEMMA StartShows ==
  ASSUME Shape, NEW a \in Slots, anim[a].state = "waiting", Start(a, Callers)
  PROVE  shown' \in BOOLEAN /\ fxshow' \in ShowData
<1> DEFINE kind  == anim[a].kind
           skips == kind # "props" /\ Skips(kind)
           tog   == kind # "props" /\ ~skips
           was   == WasHidden(kind)
           over  == skips \/ anim[a].short
           ends  == over \/ finish
           hides == tog /\ ends /\ ~was
           knows == fxshow.knows \/ kind = "toggle"
           hidden == IF kind = "toggle" THEN ~was ELSE fxshow.hidden
<1>1. /\ shown' = IF hides THEN FALSE ELSE shown \/ (tog /\ was)
      /\ fxshow' = IF ~tog THEN fxshow
                   ELSE IF ends THEN NoData
                   ELSE [there |-> TRUE, knows |-> knows, hidden |-> hidden]
  BY DEF Start
<1>2. fxshow \in ShowData
  BY DEF Shape, ShowData
<1>3. fxshow.there \in BOOLEAN /\ fxshow.knows \in BOOLEAN /\ fxshow.hidden \in BOOLEAN
  BY <1>2 DEF ShowData
<1>4. shown \in BOOLEAN
  BY DEF Shape
<1>5. was \in BOOLEAN
  BY <1>3, <1>4 DEF WasHidden
<1>6. knows \in BOOLEAN /\ hidden \in BOOLEAN
  BY <1>3, <1>5
<1>7. [there |-> TRUE, knows |-> knows, hidden |-> hidden] \in ShowData
  BY <1>6 DEF ShowData
<1> HIDE DEF tog, was, ends, hides, knows, hidden
<1>8. shown' \in BOOLEAN
  BY <1>1, <1>4
<1>9. fxshow' \in ShowData
  BY <1>1, <1>2, <1>7, NoDataIs
<1> QED
  BY <1>8, <1>9

(* Where nothing that shows or hides is under way, an animation does what  *)
(* it was asked to.                                                        *)
LEMMA StartTurns ==
  ASSUME Shape, NEW a \in Slots, anim[a].state = "waiting", fxshow = NoData,
         Start(a, Callers)
  PROVE  /\ (shown' /\ (anim'[a].state = "running" /\ anim'[a].toggles => anim'[a].hidden))
              = Turns(anim[a].kind, shown)
         /\ anim'[a].state = "resolved" => shown' = Turns(anim[a].kind, shown)
         /\ ~(anim'[a].state = "running" /\ anim'[a].toggles) => fxshow' = NoData
<1> DEFINE kind  == anim[a].kind
           skips == kind # "props" /\ Skips(kind)
           tog   == kind # "props" /\ ~skips
           was   == WasHidden(kind)
           over  == skips \/ anim[a].short
           ends  == over \/ finish
           hides == tog /\ ends /\ ~was
           hid   == ~ends /\ was
           togs  == ~ends /\ tog
           state == IF ends THEN "resolved" ELSE "running"
           once  == anim[a].completes + (IF ends THEN 1 ELSE 0)
           s == [NoAnimation EXCEPT
                   !.queued = anim[a].queued,
                   !.state = state, !.hidden = hid, !.toggles = togs,
                   !.completes = once]
<1>1. /\ anim' = [anim EXCEPT ![a] = s]
      /\ shown' = IF hides THEN FALSE ELSE shown \/ (tog /\ was)
      /\ fxshow' = IF ~tog THEN fxshow
                   ELSE IF ends THEN NoData
                   ELSE [there |-> TRUE, knows |-> fxshow.knows \/ kind = "toggle",
                         hidden |-> IF kind = "toggle" THEN ~was ELSE fxshow.hidden]
  BY DEF Start
<1>2. /\ anim \in [Slots -> Animations] /\ shown \in BOOLEAN /\ kind \in Kinds
  BY AnimationFields DEF Shape
<1>3. was = ~shown
  BY <1>2, NoDataIs DEF WasHidden
<1>4. skips <=> (kind = "hide" /\ ~shown) \/ (kind = "show" /\ shown)
  BY NoDataIs DEF Skips
<1>5. kind \in {"show", "hide", "toggle", "props"}
  BY <1>2 DEF Kinds
<1>6. tog <=> kind = "toggle" \/ (kind = "show" /\ ~shown) \/ (kind = "hide" /\ shown)
  BY <1>4, <1>5
<1>7. (~ends => state = "running") /\ (ends => state = "resolved")
  OBVIOUS
<1> HIDE DEF kind, skips, tog, was, ends, state, once
<1>8. s.state = state /\ (s.toggles <=> togs) /\ (s.hidden <=> hid)
  BY DEF NoAnimation
<1> HIDE DEF s
<1>9. anim'[a] = s
  BY <1>1, <1>2
<1>10. Turns(kind, shown) = IF kind = "show" THEN TRUE ELSE IF kind = "hide" THEN FALSE
                           ELSE IF kind = "toggle" THEN ~shown ELSE shown
  BY <1>5 DEF Turns
<1>11. CASE ends
  <2>1. anim'[a].state = "resolved"
    BY <1>7, <1>8, <1>9, <1>11
  <2>2. fxshow' = NoData
    BY <1>1, <1>11
  <2>3. shown' = Turns(kind, shown)
    BY <1>1, <1>2, <1>3, <1>5, <1>6, <1>10, <1>11
  <2>4. Turns(kind, shown) \in BOOLEAN
    BY <1>2, TurnsIs
  <2> QED
    BY <2>1, <2>2, <2>3, <2>4 DEF kind
<1>12. CASE ~ends
  <2>1. anim'[a].state = "running" /\ (anim'[a].toggles <=> tog) /\ (anim'[a].hidden <=> was)
    BY <1>7, <1>8, <1>9, <1>12
  <2>2. ~tog => fxshow' = NoData
    BY <1>1
  <2>3. shown' = (shown \/ (tog /\ was))
    BY <1>1, <1>12
  <2>4. (shown' /\ (tog => was)) = Turns(kind, shown)
    BY <1>2, <1>3, <1>5, <1>6, <1>10, <2>3
  <2> QED
    BY <2>1, <2>2, <2>4 DEF kind
<1> QED
  BY <1>11, <1>12

-----------------------------------------------------------------------------
(******************************* no one waits ******************************)
(* What the top of the stack is decides what waits.                        *)
LEMMA BottomIsTop ==
  ASSUME Shape, CallsOk, todo # <<>>, Now.does \in {"stop", "finish", "tick", "ticked"}
  PROVE  Len(todo) = 1 /\ Now = todo[1]
<1>1. Now = todo[Len(todo)] /\ CallOk(Len(todo))
  BY TopOfStack
<1> QED
  BY <1>1 DEF CallOk

LEMMA NotOnTop ==
  ASSUME Shape, CallsOk, NEW p \in 1..Len(todo), p # Len(todo)
  PROVE  todo[p].does \notin {"dequeue", "start", "tick"}
  BY DEF CallOk, CallsOk

(* The loop at the bottom stays where it is.                               *)
BottomStays ==
  /\ Under("stop")' <=> Under("stop")
  /\ Under("finish")' <=> Under("finish")
  /\ Under("stop") \/ Under("finish") => todo'[1] = todo[1]

LEMMA ApartStays ==
  ASSUME QueueApart, fxqueue' = fxqueue, Under("finish")' => Under("finish"),
         \A k \in 1..Len(Pending') :
           \E l \in 1..Len(Pending) : Pending'[k] = Pending[l],
         \A b \in Slots :
           anim[b].state = "waiting" /\ (\A k \in 1..Len(Pending) : b # Pending[k]) =>
             anim'[b].state = "waiting" /\ anim'[b].queued = anim[b].queued
  PROVE  QueueApart'
<1> DEFINE q == Waiting(fxqueue)
<1>1. SUFFICES ASSUME Under("finish")' PROVE QueueApart'
  BY DEF QueueApart
<1>2. /\ q \in Seq(Slots) /\ \A j, k \in 1..Len(q) : q[j] = q[k] => j = k
      /\ \A j \in 1..Len(q) : anim[q[j]].state = "waiting" /\ anim[q[j]].queued
      /\ \A j \in 1..Len(q), k \in 1..Len(Pending) : q[j] # Pending[k]
  BY <1>1 DEF QueueApart, Await
<1>3. Waiting(fxqueue') = q
  OBVIOUS
<1> HIDE DEF q
<1>4. \A j \in 1..Len(q) : anim'[q[j]].state = "waiting" /\ anim'[q[j]].queued
  <2>1. ASSUME NEW j \in 1..Len(q) PROVE anim'[q[j]].state = "waiting" /\ anim'[q[j]].queued
    <3>1. q[j] \in Slots
      BY <1>2
    <3> QED
      BY <1>2, <3>1
  <2> QED
    BY <2>1
<1>5. Await(anim', q, FALSE)
  BY <1>2, <1>4 DEF Await
<1>6. \A j \in 1..Len(q), k \in 1..Len(Pending') : q[j] # Pending'[k]
  BY <1>2
<1> QED
  BY <1>3, <1>5, <1>6 DEF QueueApart

LEMMA OneStays ==
  ASSUME OneAtATime, nested' = nested, plain' = plain,
         Under("finish")' <=> Under("finish"),
         Under("finish") => \A b \in Slots : Carries(b)' => Carries(b),
         ~nested /\ Strict => AtMostOne' /\ SentinelThere'
  PROVE  OneAtATime'
<1>1. Strict' <=> Strict
  BY DEF Strict
<1>2. SUFFICES ASSUME ~nested PROVE OneAtATime'
  BY DEF OneAtATime
<1>3. CASE Strict
  BY <1>1, <1>2, <1>3 DEF OneAtATime, AtMostOne
<1>4. CASE ~Strict
  BY <1>1, <1>2, <1>4 DEF OneAtATime, Strict
<1> QED
  BY <1>3, <1>4

LEMMA NothingWaits ==
  ASSUME fxqueue' = <<>>
  PROVE  /\ Waiting(fxqueue') = <<>> /\ Await(anim, Waiting(fxqueue), FALSE)'
         /\ \A j \in 1..Len(Waiting(fxqueue')), k \in 1..Len(Pending') :
              Waiting(fxqueue')[j] # Pending'[k]
<1>1. Waiting(fxqueue') = <<>>
  BY DEF Waiting
<1>2. Len(<<>>) = 0 /\ <<>> \in Seq(Slots)
  OBVIOUS
<1>3. \A j \in 1..Len(Waiting(fxqueue')) : FALSE
  BY <1>1, <1>2
<1> QED
  BY <1>1, <1>2, <1>3 DEF Await

(* The complete callback returns.                                          *)
LEMMA CompletedStep ==
  ASSUME EffectsInv, Completed
  PROVE  EffectsInv'
<1>1. /\ Shape /\ CallsOk /\ PendingOk /\ QueueApart /\ OnceEach /\ TimersRun
      /\ NoneLeftBehind /\ OneAtATime /\ LoopsSee /\ AimsAtWish
  BY DEF EffectsInv
<1>2. /\ todo # <<>> /\ Now.does = "complete"
      /\ UNCHANGED <<animations, anim, fxqueue, timers, shown, fxshow, finish, fxOn,
                     rafs, fresh, wish, plain, nested>>
  BY DEF Completed, Runs
<1>0. PICK n \in Nat \ {0}, a \in Slots : n = Len(todo) /\ a = Now.a
  BY <1>1, <1>2, TopOfStack DEF CallOk
<1>3. /\ n = Len(todo) /\ Now = todo[n] /\ CallOk(n) /\ Now \in Calls
      /\ a = Now.a
  BY <1>0, <1>1, <1>2, TopOfStack
<1>4. /\ todo' \in Seq(Calls)
      /\ \/ anim[a].queued /\ \E x : x.does = "dequeue" /\ Becomes(x)
         \/ ~anim[a].queued /\ Pops
  <2>1. CASE anim[a].queued
    <3>1. todo' = Append(Callers, Call("dequeue"))
      BY <1>0, <2>1 DEF Completed
    <3> QED
      BY <1>1, <1>2, <2>1, <3>1, NewCalls, StackBecomes
  <2>2. CASE ~anim[a].queued
    <3>1. todo' = Callers
      BY <1>0, <2>2 DEF Completed
    <3> QED
      BY <1>1, <1>2, <2>2, <3>1, StackPops
  <2> QED
    BY <2>1, <2>2
<1>5. /\ Len(todo') \in {n - 1, n} /\ Len(todo') \in Nat
      /\ \A p \in 1..n - 1 : todo'[p] = todo[p]
      /\ Len(todo') = n => todo'[n].does = "dequeue" /\ anim[a].queued
      /\ Len(todo') = n - 1 => ~anim[a].queued
  BY <1>0, <1>3, <1>4 DEF Becomes, Pops
<1>6. BottomStays
  <2>1. CASE n = 1
    BY <1>0, <1>2, <1>3, <1>5, <2>1 DEF BottomStays, Under
  <2>2. CASE n > 1
    BY <1>0, <1>2, <1>3, <1>4, <1>5, <2>2 DEF BottomStays, Under
  <2> QED
    BY <1>0, <2>1, <2>2
<1>7. Shape'
  BY <1>1, <1>2, <1>4 DEF Shape
<1>8. CallsOk'
  <2>1. ASSUME NEW p \in 1..Len(todo')
        PROVE  CallOk(p)'
    <3>1. CASE p = n
      BY <1>0, <1>3, <1>5, <2>1, <3>1 DEF CallOk
    <3>2. CASE p # n
      <4>1. p \in 1..n - 1 /\ todo'[p] = todo[p] /\ CallOk(p)
        BY <1>0, <1>1, <1>3, <1>5, <2>1, <3>2 DEF CallsOk
      <4>2. todo'[1] = todo[1]
        BY <1>0, <1>3, <1>5, <4>1
      <4>3. todo[p].does \notin {"dequeue", "start", "tick"}
        BY <1>0, <1>1, <1>3, <4>1, NotOnTop
      <4> QED
        BY <1>1, <1>2, <1>3, <4>1, <4>2, <4>3, CallStays DEF CallOk, Shape
    <3> QED
      BY <3>1, <3>2
  <2>2. finish' <=> Under("finish")'
    BY <1>1, <1>2, <1>6 DEF CallsOk, BottomStays
  <2> QED
    BY <1>1, <1>2, <2>1, <2>2 DEF CallsOk
<1>9. Pending' = Pending /\ ~Runs("start")' /\ ~Runs("start") /\ ~Runs("dequeue")
  <2>1. Waits' = Waits
    BY <1>2, <1>6 DEF Waits, BottomStays
  <2>2. ~Runs("start")'
    <3>1. CASE Len(todo') = n
      BY <1>0, <1>3, <1>5, <3>1 DEF Runs, Now, Last
    <3>2. CASE Len(todo') = n - 1
      <4>1. SUFFICES ASSUME n > 1 PROVE Now'.does # "start"
        BY <1>0, <1>3, <1>4, <3>2 DEF Runs
      <4>2. n - 1 \in 1..n - 1 /\ todo'[n - 1] = todo[n - 1] /\ Now' = todo'[n - 1]
        BY <1>0, <1>3, <1>5, <3>2, <4>1 DEF Now, Last
      <4> QED
        BY <1>0, <1>1, <1>3, <4>2, NotOnTop
    <3> QED
      BY <1>5, <3>1, <3>2
  <2> QED
    BY <1>2, <2>1, <2>2 DEF Pending, Runs
<1>10. PendingOk' /\ OnceEach' /\ TimersRun'
  BY <1>1, <1>2, <1>9 DEF PendingOk, Await, OnceEach, TimersRun
<1>11. /\ SomeToken' <=> SomeToken
       /\ \A p \in 1..Len(todo') : Token(p)' => p \in 1..n /\ Token(p)
       /\ SomeCarrier' <=> SomeCarrier
       /\ \A b : Carries(b)' <=> Carries(b)
  <2>1. \A p \in 1..n - 1 : Token(p)' <=> Token(p)
    BY <1>0, <1>2, <1>3, <1>5 DEF Token
  <2>2. Token(n) <=> anim[a].queued
    BY <1>0, <1>2, <1>3 DEF Token
  <2>3. Len(todo') = n => Token(n)'
    BY <1>5 DEF Token
  <2>4. \A p \in 1..Len(todo') : Token(p)' => p \in 1..n /\ Token(p)
    BY <1>0, <1>3, <1>5, <2>1, <2>2
  <2>5. \A p \in 1..n : Token(p) => p \in 1..Len(todo') /\ Token(p)'
    <3>1. ASSUME NEW p \in 1..n, Token(p) PROVE p \in 1..Len(todo') /\ Token(p)'
      <4>1. CASE p = n
        BY <1>0, <1>3, <1>5, <2>2, <2>3, <3>1, <4>1
      <4>2. CASE p # n
        BY <1>0, <1>3, <1>5, <2>1, <3>1, <4>2
      <4> QED
        BY <4>1, <4>2
    <3> QED
      BY <3>1
  <2>6. SomeToken' <=> SomeToken
    BY <1>0, <2>4, <2>5 DEF SomeToken
  <2> QED
    BY <1>2, <2>4, <2>6 DEF Carries, SomeCarrier
<1>12. NoneLeftBehind'
  BY <1>1, <1>2, <1>6, <1>11 DEF NoneLeftBehind, BottomStays
<1>13. OneAtATime'
  <2>1. AtMostOne => AtMostOne'
    BY <1>0, <1>11 DEF AtMostOne
  <2>2. SentinelThere => SentinelThere'
    BY <1>2, <1>6, <1>9, <1>11 DEF SentinelThere, BottomStays, Busy
  <2>3. ~nested /\ Strict => AtMostOne' /\ SentinelThere'
    BY <1>1, <2>1, <2>2 DEF OneAtATime
  <2> QED
    BY <1>1, <1>2, <1>6, <1>11, <2>3, OneStays DEF BottomStays
<1>16. QueueApart'
  BY <1>1, <1>2, <1>6, <1>9, ApartStays DEF BottomStays
<1>14. LoopsSee'
  BY <1>0, <1>1, <1>2, <1>3, <1>5, <1>6, <1>11 DEF LoopsSee, BottomStays, Under
<1>15. AimsAtWish'
  BY <1>1, <1>2, <1>6, <1>9 DEF AimsAtWish, Aim, BottomStays
<1> QED
  BY <1>7, <1>8, <1>10, <1>12, <1>13, <1>14, <1>15, <1>16 DEF EffectsInv


(* The next of the queue is started, with the sentinel before the rest.    *)
LEMMA DequeueStep ==
  ASSUME EffectsInv, dequeue
  PROVE  EffectsInv'
<1>1. /\ Shape /\ CallsOk /\ PendingOk /\ QueueApart /\ OnceEach /\ TimersRun
      /\ NoneLeftBehind /\ OneAtATime /\ LoopsSee /\ AimsAtWish
  BY DEF EffectsInv
<1>2. /\ todo # <<>> /\ Now.does = "dequeue"
      /\ UNCHANGED <<animations, anim, timers, shown, fxshow, finish, fxOn, rafs, fresh,
                     wish, plain, nested>>
  BY DEF dequeue, Runs
<1>0. PICK n \in Nat \ {0} : n = Len(todo)
  BY <1>1, <1>2, TopOfStack
<1>3. Now = todo[n] /\ CallOk(n) /\ todo[n].does = "dequeue"
  BY <1>0, <1>1, <1>2, TopOfStack
<1>4. PICK left \in Seq(0..MaxAnimations) : left = Waiting(fxqueue)
  <2>1. fxqueue \in Seq(0..MaxAnimations)
    BY <1>1 DEF Shape
  <2>2. Waiting(fxqueue) \in Seq(0..MaxAnimations)
    BY <2>1, HeadAndTail DEF Waiting
  <2> QED
    BY <2>2
<1>5. IF left = <<>> THEN fxqueue' = <<>> /\ todo' = Callers
      ELSE /\ fxqueue' = <<InProgress>> \o Tail(left)
           /\ todo' = Append(Callers, Of("start", Head(left)))
  BY <1>4 DEF dequeue
<1>6. Pending = Waits /\ ~Runs("start") /\ Runs("dequeue")
  BY <1>2 DEF Pending, Runs
<1>7. /\ ~Under("finish") => Pending = left
      /\ left # <<>> /\ plain => ~Under("finish") /\ ~finish
  BY <1>1, <1>4, <1>6 DEF Waits, CallsOk, Waiting
<1>8. left # <<>> => /\ Head(left) \in Slots /\ anim[Head(left)].state = "waiting"
                     /\ anim[Head(left)].queued /\ left \in Seq(Slots)
  <2>1. SUFFICES ASSUME left # <<>>
        PROVE /\ Head(left) \in Slots /\ anim[Head(left)].state = "waiting"
              /\ anim[Head(left)].queued /\ left \in Seq(Slots)
    OBVIOUS
  <2>2. Await(anim, left, FALSE)
    <3>1. CASE Under("finish")
      BY <1>1, <1>4, <3>1 DEF QueueApart
    <3>2. CASE ~Under("finish")
      BY <1>1, <1>6, <1>7, <3>2 DEF PendingOk, Await
    <3> QED
      BY <3>1, <3>2
  <2>3. left \in Seq(Slots)
    BY <2>2 DEF Await
  <2>4. Head(left) = left[1] /\ Head(left) \in Slots /\ 1 \in 1..Len(left)
    BY <2>1, <2>3, HeadAndTail
  <2> QED
    BY <2>2, <2>3, <2>4 DEF Await
<1>9. ASSUME left = <<>>
      PROVE  EffectsInv'
  <2>1. /\ todo' \in Seq(Calls) /\ Len(todo') = n - 1 /\ fxqueue' = <<>>
        /\ \A p \in 1..n - 1 : todo'[p] = todo[p]
    BY <1>0, <1>1, <1>2, <1>5, <1>9, StackPops DEF Pops
  <2>2. BottomStays
    <3>1. CASE n = 1
      BY <1>0, <1>3, <2>1, <3>1 DEF BottomStays, Under
    <3>2. CASE n > 1
      BY <1>0, <1>2, <2>1, <3>2 DEF BottomStays, Under
    <3> QED
      BY <1>0, <3>1, <3>2
  <2>3. Shape'
    BY <1>1, <1>2, <2>1 DEF Shape
  <2>4. CallsOk'
    <3>1. ASSUME NEW p \in 1..Len(todo') PROVE CallOk(p)'
      <4>1. p \in 1..n - 1 /\ todo'[p] = todo[p] /\ CallOk(p)
        BY <1>0, <1>1, <2>1, <3>1, EachCallOk
      <4>2. todo'[1] = todo[1]
        BY <1>0, <2>1, <4>1
      <4>3. todo[p].does \notin {"dequeue", "start", "tick"}
        BY <1>0, <1>1, <4>1, NotOnTop
      <4> QED
        BY <1>0, <1>1, <1>2, <4>1, <4>2, <4>3, CallStays DEF CallOk, Shape
    <3> QED
      BY <1>1, <1>2, <2>1, <2>2, <3>1 DEF CallsOk, BottomStays
  <2>5. ~Runs("start")' /\ ~Runs("dequeue")'
    <3>1. SUFFICES ASSUME n > 1 PROVE Now'.does \notin {"start", "dequeue"}
      BY <1>0, <2>1 DEF Runs
    <3>2. n - 1 \in 1..n - 1 /\ todo'[n - 1] = todo[n - 1] /\ Now' = todo'[n - 1]
      BY <1>0, <2>1, <3>1 DEF Now, Last
    <3> QED
      BY <1>0, <1>1, <3>2, NotOnTop
  <2>6. Pending' = Pending
    <3>1. Waits' = Waits
      <4>1. CASE Under("finish")
        BY <1>2, <2>2, <4>1 DEF Waits, BottomStays
      <4>2. CASE ~Under("finish")
        BY <1>4, <1>9, <2>1, <2>2, <4>2 DEF Waits, BottomStays, Waiting
      <4> QED
        BY <4>1, <4>2
    <3> QED
      BY <1>6, <2>5, <3>1 DEF Pending
  <2>7. PendingOk' /\ OnceEach' /\ TimersRun'
    BY <1>1, <1>2, <1>6, <2>5, <2>6 DEF PendingOk, Await, OnceEach, TimersRun
  <2>8. /\ \A p \in 1..Len(todo') : Token(p)' => p \in 1..n - 1 /\ Token(p)
        /\ \A b : Carries(b)' <=> Carries(b)
        /\ Token(n)
    BY <1>0, <1>2, <1>3, <2>1 DEF Token, Carries
  <2>9. NoneLeftBehind'
    BY <2>1 DEF NoneLeftBehind
  <2>10. OneAtATime'
    <3>1. SUFFICES ASSUME ~nested, Strict PROVE AtMostOne' /\ SentinelThere'
      <4>1. \A b \in Slots : Carries(b)' => Carries(b)
        BY <2>8
      <4> QED
        BY <1>1, <1>2, <2>2, <4>1, OneStays DEF BottomStays
    <3>2. AtMostOne
      BY <1>1, <3>1 DEF OneAtATime
    <3>3. ~SomeToken' /\ ~SomeCarrier' /\ ~SomeCarrier
      BY <1>0, <2>8, <3>2 DEF AtMostOne, SomeToken, SomeCarrier
    <3>4. AtMostOne'
      BY <3>3 DEF AtMostOne, SomeToken, SomeCarrier
    <3>5. SentinelThere'
      BY <2>5, <3>3 DEF SentinelThere, SomeCarrier
    <3> QED
      BY <3>4, <3>5
  <2>11. LoopsSee'
    BY <1>0, <1>1, <1>2, <1>3, <2>1, <2>2, <2>8 DEF LoopsSee, BottomStays, Under
  <2>12. AimsAtWish'
    BY <1>1, <1>2, <2>2, <2>6 DEF AimsAtWish, Aim, BottomStays
  <2>13. QueueApart'
    BY <2>1, NothingWaits DEF QueueApart
  <2> QED
    BY <2>3, <2>4, <2>7, <2>9, <2>10, <2>11, <2>12, <2>13 DEF EffectsInv
<1>10. ASSUME left # <<>>
       PROVE  EffectsInv'
  <2>0. PICK a \in Slots, rest \in Seq(Slots) : a = Head(left) /\ rest = Tail(left)
                                                /\ left = <<a>> \o rest
    <3>1. left \in Seq(Slots) /\ left # <<>> /\ Head(left) \in Slots
      BY <1>8, <1>10
    <3>2. Tail(left) \in Seq(Slots) /\ left = <<Head(left)>> \o Tail(left)
      BY <3>1, HeadAndTail
    <3> QED
      BY <3>1, <3>2, Zenon
  <2>1. /\ todo' \in Seq(Calls) /\ Len(todo') = n /\ fxqueue' = <<InProgress>> \o rest
        /\ todo'[n].does = "start" /\ todo'[n].a = a
        /\ \A p \in 1..n - 1 : todo'[p] = todo[p]
    <3>1. Of("start", a) \in Calls /\ Of("start", a).does = "start" /\ Of("start", a).a = a
      BY CallNamed
    <3>2. todo' = Append(Callers, Of("start", a)) /\ fxqueue' = <<InProgress>> \o rest
      BY <1>5, <1>10, <2>0
    <3> QED
      BY <1>0, <1>1, <1>2, <3>1, <3>2, StackBecomes DEF Becomes
  <2>2. BottomStays
    <3>1. CASE n = 1
      BY <1>0, <1>2, <1>3, <2>1, <3>1 DEF BottomStays, Under
    <3>2. CASE n > 1
      BY <1>0, <1>2, <2>1, <3>2 DEF BottomStays, Under
    <3> QED
      BY <1>0, <3>1, <3>2
  <2>3. /\ fxqueue' \in Seq(0..MaxAnimations) /\ fxqueue' # <<>> /\ Head(fxqueue') = InProgress
        /\ Tail(fxqueue') = rest
    <3>1. rest \in Seq(0..MaxAnimations) /\ InProgress \in 0..MaxAnimations
      BY <1>4, <1>10, <2>0, HeadAndTail DEF InProgress
    <3>2. LET s == <<InProgress>> \o rest IN
          s \in Seq(0..MaxAnimations) /\ s # <<>> /\ Head(s) = InProgress /\ Tail(s) = rest
      BY <3>1, InFront
    <3> QED
      BY <2>1, <3>2
  <2>4. Shape'
    BY <1>1, <1>2, <2>1, <2>3 DEF Shape
  <2>5. CallsOk'
    <3>1. ASSUME NEW p \in 1..Len(todo') PROVE CallOk(p)'
      <4>1. CASE p = n
        BY <1>0, <1>2, <1>8, <1>10, <2>0, <2>1, <4>1 DEF CallOk
      <4>2. CASE p # n
        <5>0. p \in 1..n - 1 /\ todo'[p] = todo[p] /\ p \in 1..Len(todo)
          BY <1>0, <2>1, <3>1, <4>2
        <5>1. p \in 1..n - 1 /\ todo'[p] = todo[p] /\ CallOk(p)
          BY <1>1, <5>0, EachCallOk
        <5>2. todo'[1] = todo[1]
          BY <1>0, <2>1, <5>0
        <5>3. todo[p].does \notin {"dequeue", "start", "tick"}
          BY <1>0, <1>1, <5>1, NotOnTop
        <5> QED
          BY <1>0, <1>1, <1>2, <5>1, <5>2, <5>3, CallStays DEF CallOk, Shape
      <4> QED
        BY <4>1, <4>2
    <3> QED
      BY <1>1, <1>2, <1>7, <1>10, <2>1, <2>2, <3>1 DEF CallsOk, BottomStays
  <2>6. Runs("start")' /\ ~Runs("dequeue")' /\ Now'.a = a
    BY <1>0, <2>1 DEF Runs, Now, Last
  <2>14. Waiting(fxqueue') = rest
    BY <2>3 DEF Waiting
  <2>7. /\ ~Under("finish") => Pending' = Pending
        /\ Under("finish") => Pending' = <<a>> \o Pending
    <3>1. ~Under("finish") => Waits' = rest
      BY <2>2, <2>14 DEF Waits, BottomStays
    <3>2. Under("finish") => Waits' = Waits
      BY <2>2 DEF Waits, BottomStays
    <3> QED
      BY <1>6, <1>7, <2>0, <2>6, <3>1, <3>2 DEF Pending
  <2>15. ASSUME Under("finish")
         PROVE  /\ Await(anim', Pending', TRUE) /\ QueueApart'
    <3>1. /\ Await(anim, left, FALSE) /\ Await(anim, Pending, FALSE)
          /\ \A j \in 1..Len(left), k \in 1..Len(Pending) : left[j] # Pending[k]
      BY <1>1, <1>4, <1>6, <2>15 DEF QueueApart, PendingOk, Await
    <3>2. /\ Len(left) = Len(rest) + 1 /\ left[1] = a /\ Len(rest) \in Nat
          /\ \A j \in 1..Len(rest) : left[j + 1] = rest[j]
      BY <2>0, InFront
    <3>3. Await(anim, rest, FALSE) /\ \A j \in 1..Len(rest) : rest[j] # a
      <4>1. Await(anim, <<a>> \o rest, TRUE)
        BY <2>0, <3>1 DEF Await
      <4> QED
        BY <4>1, AwaitDrops
    <3>4. \A k \in 1..Len(Pending) : Pending[k] # a
      <4>1. 1 \in 1..Len(left)
        BY <3>2
      <4> QED
        BY <3>1, <3>2, <4>1
    <3>5. Await(anim, <<a>> \o Pending, TRUE)
      BY <1>8, <1>10, <2>0, <3>1, <3>4, AwaitPuts
    <3>6. Pending' = <<a>> \o Pending
      BY <2>7, <2>15
    <3>7. /\ Pending \in Seq(Slots) /\ Len(Pending') = Len(Pending) + 1 /\ Pending'[1] = a
          /\ Len(Pending) \in Nat
          /\ \A k \in 1..Len(Pending) : Pending'[k + 1] = Pending[k]
      <4>1. Pending \in Seq(Slots)
        BY <3>1 DEF Await
      <4>2. Len(Pending) \in Nat
        BY <4>1
      <4> QED
        BY <3>6, <4>1, <4>2, InFront
    <3>8. ASSUME NEW j \in 1..Len(rest), NEW k \in 1..Len(Pending') PROVE rest[j] # Pending'[k]
      <4>1. CASE k = 1
        BY <3>3, <3>7, <4>1
      <4>2. CASE k # 1
        <5>1. k - 1 \in 1..Len(Pending) /\ (k - 1) + 1 = k /\ j + 1 \in 1..Len(left)
          BY <3>2, <3>7, <4>2
        <5>2. Pending'[(k - 1) + 1] = Pending[k - 1] /\ left[j + 1] = rest[j]
          BY <3>2, <3>7, <5>1
        <5> QED
          BY <3>1, <5>1, <5>2
      <4> QED
        BY <4>1, <4>2
    <3>9. QueueApart'
      BY <1>2, <2>14, <3>3, <3>8 DEF QueueApart
    <3> QED
      BY <1>2, <3>5, <3>6, <3>9
  <2>16. PendingOk'
    <3>1. CASE Under("finish")
      BY <2>6, <2>15, <3>1 DEF PendingOk, Await
    <3>2. CASE ~Under("finish")
      BY <1>1, <1>2, <1>6, <2>6, <2>7, <3>2 DEF PendingOk, Await
    <3> QED
      BY <3>1, <3>2
  <2>17. QueueApart'
    BY <2>2, <2>15 DEF QueueApart, BottomStays
  <2>8. OnceEach' /\ TimersRun'
    BY <1>1, <1>2 DEF OnceEach, TimersRun
  <2>9. /\ \A p \in 1..Len(todo') : Token(p)' => p \in 1..n /\ Token(p)
        /\ \A b : Carries(b)' <=> Carries(b)
        /\ Token(n) /\ (SomeToken' /\ SomeToken)
    <3>1. \A p \in 1..n - 1 : Token(p)' <=> Token(p)
      BY <1>2, <1>0, <2>1 DEF Token
    <3>2. Token(n) /\ \A p : p = n => Token(p)'
      BY <1>2, <1>3, <1>8, <1>10, <2>0, <2>1 DEF Token
    <3>3. \A p \in 1..Len(todo') : p \in 1..n - 1 \/ p = n
      BY <1>0, <2>1
    <3> QED
      BY <1>0, <1>2, <2>1, <3>1, <3>2, <3>3 DEF SomeToken, Carries
  <2>10. NoneLeftBehind'
    BY <2>9 DEF NoneLeftBehind
  <2>11. OneAtATime'
    <3>1. SUFFICES ASSUME ~nested, Strict PROVE AtMostOne' /\ SentinelThere'
      <4>1. \A b \in Slots : Carries(b)' => Carries(b)
        BY <2>9
      <4> QED
        BY <1>1, <1>2, <2>2, <4>1, OneStays DEF BottomStays
    <3>2. AtMostOne
      BY <1>1, <3>1 DEF OneAtATime
    <3>3. ~SomeCarrier' /\ ~SomeCarrier
      BY <2>9, <3>2 DEF AtMostOne, SomeCarrier
    <3>4. AtMostOne'
      BY <1>0, <2>9, <3>2, <3>3 DEF AtMostOne, SomeCarrier
    <3>5. Busy'
      BY <2>3 DEF Busy
    <3>6. SentinelThere'
      BY <3>5 DEF SentinelThere
    <3> QED
      BY <3>4, <3>6
  <2>12. LoopsSee'
    BY <1>0, <1>1, <1>2, <1>3, <2>1, <2>2, <2>9 DEF LoopsSee, BottomStays, Under
  <2>13. AimsAtWish'
    <3>1. SUFFICES ASSUME plain PROVE AimsAtWish'
      BY <1>2 DEF AimsAtWish
    <3>2. Pending' = Pending
      BY <1>7, <1>10, <2>7, <3>1
    <3> QED
      BY <1>1, <1>2, <2>2, <3>2 DEF AimsAtWish, Aim, BottomStays
  <2> QED
    BY <2>4, <2>5, <2>8, <2>10, <2>11, <2>12, <2>13, <2>16, <2>17 DEF EffectsInv
<1> QED
  BY <1>9, <1>10


LEMMA NothingStarts ==
  ASSUME Shape, CallsOk, todo' \in Seq(Calls), Len(todo') = Len(todo) - 1,
         \A p \in 1..Len(todo) - 1 : todo'[p] = todo[p]
  PROVE  ~Runs("start")' /\ ~Runs("dequeue")'
<1>0. PICK n \in Nat : n = Len(todo)
  BY DEF Shape
<1>1. SUFFICES ASSUME n > 1 PROVE Now'.does \notin {"start", "dequeue"}
  BY <1>0 DEF Runs
<1>2. n - 1 \in 1..n - 1 /\ todo'[n - 1] = todo[n - 1] /\ Now' = todo'[n - 1]
  BY <1>0, <1>1 DEF Now, Last
<1> QED
  BY <1>0, <1>2, NotOnTop

LEMMA LoopStays ==
  ASSUME Shape, CallsOk, todo # <<>>, todo' \in Seq(Calls), Now.does \notin {"stop", "finish"},
         Len(todo') >= Len(todo) - 1, \A p \in 1..Len(todo) - 1 : todo'[p] = todo[p],
         Len(todo) = 1 /\ todo' # <<>> => todo'[1].does \notin {"stop", "finish"}
  PROVE  BottomStays
<1>0. PICK n \in Nat \ {0} : n = Len(todo) /\ Now = todo[n]
  BY TopOfStack
<1>1. CASE n = 1
  BY <1>0, <1>1 DEF BottomStays, Under
<1>2. CASE n > 1
  <2>1. todo' # <<>> /\ todo'[1] = todo[1]
    BY <1>0, <1>2
  <2> QED
    BY <2>1 DEF BottomStays, Under
<1> QED
  BY <1>0, <1>1, <1>2

LEMMA TokenStays ==
  ASSUME CallsOk, NEW p \in 1..Len(todo), todo'[p] = todo[p],
         \A b \in Slots : anim'[b].queued = anim[b].queued
  PROVE  Token(p)' <=> Token(p)
<1>1. todo[p].does \in {"start", "complete"} => todo[p].a \in Slots
  BY EachCallOk DEF CallOk
<1> QED
  BY <1>1 DEF Token

(* An animation starts: it runs, or is over at once.                       *)
LEMMA StartStep ==
  ASSUME EffectsInv, doAnimation
  PROVE  EffectsInv'
<1>1. /\ Shape /\ CallsOk /\ PendingOk /\ QueueApart /\ OnceEach /\ TimersRun
      /\ NoneLeftBehind /\ OneAtATime /\ LoopsSee /\ AimsAtWish
  BY DEF EffectsInv
<1>2. /\ todo # <<>> /\ Now.does = "start" /\ Start(Now.a, Callers)
      /\ UNCHANGED <<animations, fxqueue, finish, wish, plain, nested>>
  BY DEF doAnimation, Runs
<1>0. PICK n \in Nat \ {0}, a \in Slots : n = Len(todo) /\ a = Now.a
  BY <1>1, <1>2, TopOfStack DEF CallOk
<1>3. /\ Now = todo[n] /\ todo[n].does = "start" /\ anim[a].state = "waiting"
      /\ Runs("start") /\ ~Runs("dequeue") /\ todo[n].a = a
  BY <1>0, <1>1, <1>2, TopOfStack DEF CallOk, Runs
<1>4. Begins(a)
  BY <1>0, <1>1, <1>2, <1>3, StartBegins
<1>5. /\ timers' \in Seq(Slots) /\ Len(timers) \in Nat /\ Len(timers') \in Nat
      /\ Len(timers') >= Len(timers)
      /\ \A j \in 1..Len(timers) : timers'[j] = timers[j]
      /\ anim'[a].state = "running" => /\ timers' # timers /\ Len(timers) + 1 \in 1..Len(timers')
                                       /\ timers'[Len(timers) + 1] = a
  <2>1. timers \in Seq(Slots)
    BY <1>1 DEF Shape
  <2>2. CASE timers' = timers
    BY <1>4, <2>1, <2>2, Appended DEF Begins
  <2>3. CASE timers' = Append(timers, a)
    BY <2>1, <2>3, Appended
  <2> QED
    BY <1>4, <2>2, <2>3 DEF Begins
<1>6. /\ todo' \in Seq(Calls) /\ Len(todo') \in {n - 1, n}
      /\ \A p \in 1..n - 1 : todo'[p] = todo[p]
      /\ Len(todo') = n => /\ anim'[a].state = "resolved" /\ todo'[n].does = "complete"
                           /\ todo'[n].a = a
      /\ Len(todo') = n - 1 => anim'[a].state = "running"
  <2>1. CASE anim'[a].state = "resolved"
    <3>1. todo' = Callers \o <<Of("complete", a)>>
      BY <1>4, <2>1 DEF Begins
    <3> QED
      BY <1>0, <1>1, <1>2, <2>1, <3>1, CallNamed, StackBecomes DEF Becomes
  <2>2. CASE anim'[a].state # "resolved"
    <3>1. todo' = Callers /\ anim'[a].state = "running"
      BY <1>4, <2>2 DEF Begins
    <3> QED
      BY <1>0, <1>1, <1>2, <3>1, StackPops DEF Pops
  <2> QED
    BY <2>1, <2>2
<1>7. BottomStays
  <2>1. Len(todo') >= Len(todo) - 1 /\ \A p \in 1..Len(todo) - 1 : todo'[p] = todo[p]
    BY <1>0, <1>6
  <2>2. Len(todo) = 1 /\ todo' # <<>> => todo'[1].does \notin {"stop", "finish"}
    <3>1. SUFFICES ASSUME n = 1, todo' # <<>> PROVE todo'[1].does = "complete"
      BY <1>0
    <3>2. Len(todo') = n
      BY <1>6, <3>1
    <3> QED
      BY <1>6, <3>1, <3>2
  <2>3. Now.does \notin {"stop", "finish"}
    BY <1>2
  <2> QED
    BY <1>1, <1>2, <1>6, <2>1, <2>2, <2>3, LoopStays
<1>8. /\ \A b \in Slots : b # a => anim'[b] = anim[b]
      /\ \A b \in Slots : anim'[b].queued = anim[b].queued
      /\ \A b \in Slots : anim[b].state = "resolved" => anim'[b].state = "resolved"
  BY <1>3, <1>4 DEF Begins, OnlyOne
<1>9. Shape'
  <2>1. shown' \in BOOLEAN /\ fxshow' \in [there : BOOLEAN, knows : BOOLEAN, hidden : BOOLEAN]
    BY <1>0, <1>1, <1>2, <1>3, StartShows DEF ShowData
  <2>2. anim' \in [Slots -> Animations]
    BY <1>4 DEF Begins, OnlyOne
  <2>3. fxOn' \in BOOLEAN /\ rafs' \in Nat /\ fresh' \in BOOLEAN
    <3>1. fxOn \in BOOLEAN /\ rafs \in Nat /\ fresh \in BOOLEAN
      BY <1>1 DEF Shape
    <3>2. CASE UNCHANGED <<fxOn, rafs, fresh>>
      BY <3>1, <3>2
    <3>3. CASE fxOn' = TRUE /\ rafs' = rafs + 1 /\ fresh' = TRUE
      BY <3>1, <3>3
    <3> QED
      BY <1>4, <3>2, <3>3 DEF Begins
  <2>4. \A b \in Slots : anim'[b].state = "none" <=> b > animations'
    <3>1. ASSUME NEW b \in Slots PROVE anim'[b].state = "none" <=> b > animations'
      <4>1. anim[b].state = "none" <=> b > animations
        BY <1>1 DEF Shape
      <4> QED
        BY <1>2, <1>4, <4>1 DEF Begins
    <3> QED
      BY <3>1
  <2> QED
    BY <1>1, <1>2, <1>5, <1>6, <2>1, <2>2, <2>3, <2>4 DEF Shape
<1>10. CallsOk'
  <2>1. ASSUME NEW p \in 1..Len(todo') PROVE CallOk(p)'
    <3>1. CASE p = n
      BY <1>0, <1>6, <2>1, <3>1 DEF CallOk
    <3>2. CASE p # n
      <4>1. p \in 1..n - 1 /\ todo'[p] = todo[p] /\ CallOk(p)
        BY <1>0, <1>1, <1>6, <2>1, <3>2, EachCallOk
      <4>2. todo'[1] = todo[1]
        BY <1>0, <1>6, <4>1
      <4>3. todo[p].does \notin {"dequeue", "start", "tick"}
        BY <1>0, <1>1, <4>1, NotOnTop
      <4>4. todo[p].does \in {"stop", "finish"} => todo[p].i <= Len(timers')
        <5>1. todo[p].does \in {"stop", "finish"} => todo[p].i <= Len(timers)
          BY <4>1 DEF CallOk
        <5>2. todo[p].i \in Nat
          <6>1. p \in 1..Len(todo)
            BY <1>0, <1>6, <2>1, <3>2
          <6>2. todo[p] \in Calls
            BY <1>1, <6>1 DEF Shape
          <6> QED
            BY <6>2, CallFields
        <5> QED
          BY <1>5, <5>1, <5>2
      <4> QED
        BY <1>0, <1>1, <1>5, <1>8, <4>1, <4>2, <4>3, <4>4, CallStays
    <3> QED
      BY <3>1, <3>2
  <2> QED
    BY <1>1, <1>2, <1>7, <2>1 DEF CallsOk, BottomStays
<1>11. ~Runs("start")' /\ ~Runs("dequeue")'
  <2>1. CASE Len(todo') = n
    BY <1>0, <1>6, <2>1 DEF Runs, Now, Last
  <2>2. CASE Len(todo') = n - 1
    BY <1>0, <1>1, <1>6, <2>2, NothingStarts
  <2> QED
    BY <1>6, <2>1, <2>2
<1>12. /\ Waits \in Seq(Slots) /\ Pending = <<a>> \o Waits /\ Pending' = Waits
       /\ Await(anim', Waits, FALSE) /\ \A j \in 1..Len(Waits) : Waits[j] # a
  <2>1. Pending = <<a>> \o Waits
    BY <1>0, <1>3 DEF Pending
  <2>2. Waits' = Waits
    BY <1>2, <1>7 DEF Waits, BottomStays
  <2>3. Waits \in Seq(Slots)
    <3>1. Waits \in Seq(0..MaxAnimations)
      <4>1. fxqueue \in Seq(0..MaxAnimations)
        BY <1>1 DEF Shape
      <4>2. todo[1].old \in Seq(0..MaxAnimations)
        BY <1>0, <1>1, <1>2, TopOfStack, CallFields
      <4> QED
        BY <4>1, <4>2, HeadAndTail DEF Waits, Waiting
    <3>2. <<a>> \o Waits \in Seq(Slots)
      BY <1>1, <2>1 DEF PendingOk, Await
    <3>3. \A j \in 1..Len(Waits) : Waits[j] \in Slots
      <4>1. a \in 0..MaxAnimations
        BY DEF Slots
      <4>2. /\ Len(<<a>> \o Waits) = Len(Waits) + 1 /\ Len(Waits) \in Nat
            /\ \A j \in 1..Len(Waits) : (<<a>> \o Waits)[j + 1] = Waits[j]
        BY <3>1, <4>1, InFront
      <4>3. \A j \in 1..Len(Waits) : j + 1 \in 1..Len(<<a>> \o Waits)
        BY <4>2
      <4>4. \A j \in 1..Len(<<a>> \o Waits) : (<<a>> \o Waits)[j] \in Slots
        BY <3>2
      <4> QED
        BY <4>2, <4>3, <4>4
    <3> QED
      BY <3>1, <3>3
  <2>4. Await(anim, <<a>> \o Waits, TRUE)
    BY <1>1, <1>3, <2>1 DEF PendingOk, Await
  <2>5. Await(anim', Waits, FALSE) /\ \A j \in 1..Len(Waits) : Waits[j] # a
    <3>1. \A b \in Slots :
            b # a => anim'[b].state = anim[b].state /\ anim'[b].queued = anim[b].queued
      BY <1>8
    <3> QED
      <4>1. Await(anim, Waits, FALSE) /\ \A j \in 1..Len(Waits) : Waits[j] # a
        BY <1>0, <2>3, <2>4, AwaitDrops
      <4>2. \A j \in 1..Len(Waits) : Waits[j] \in Slots
        BY <2>3
      <4>3. \A j \in 1..Len(Waits) : /\ anim'[Waits[j]].state = anim[Waits[j]].state
                                     /\ anim'[Waits[j]].queued = anim[Waits[j]].queued
        BY <3>1, <4>1, <4>2
      <4>4. Await(anim', Waits, FALSE)
        BY <4>1, <4>3, AwaitStays
      <4> QED
        BY <4>1, <4>4
  <2> QED
    BY <1>11, <2>1, <2>2, <2>3, <2>5 DEF Pending
<1>13. PendingOk'
  BY <1>11, <1>12 DEF PendingOk, Await
<1>21. QueueApart'
  <2>1. /\ Len(Pending) = Len(Waits) + 1 /\ Pending[1] = a /\ Len(Waits) \in Nat
        /\ \A k \in 1..Len(Waits) : Pending[k + 1] = Waits[k]
    BY <1>12, InFront
  <2>2. \A k \in 1..Len(Pending') : \E l \in 1..Len(Pending) : Pending'[k] = Pending[l]
    <3>1. ASSUME NEW k \in 1..Len(Waits) PROVE \E l \in 1..Len(Pending) : Waits[k] = Pending[l]
      <4>1. k + 1 \in 1..Len(Pending)
        BY <2>1
      <4> QED
        BY <2>1, <4>1
    <3> QED
      BY <1>12, <3>1
  <2>3. 1 \in 1..Len(Pending)
    BY <2>1
  <2>4. \A b \in Slots : (\A k \in 1..Len(Pending) : b # Pending[k]) => anim'[b] = anim[b]
    BY <1>8, <2>1, <2>3
  <2> QED
    BY <1>1, <1>2, <1>7, <2>2, <2>4, ApartStays DEF BottomStays
<1>14. OnceEach'
  BY <1>0, <1>1, <1>3, <1>4, <1>8 DEF OnceEach, Begins
<1>15. TimersRun'
  <2>1. ASSUME NEW b \in Slots, anim'[b].state = "running"
        PROVE  \E j \in 1..Len(timers') : timers'[j] = b
    <3>1. CASE b = a
      BY <1>5, <2>1, <3>1
    <3>2. CASE b # a
      <4>1. PICK j \in 1..Len(timers) : timers[j] = b
        BY <1>1, <1>8, <2>1, <3>2 DEF TimersRun
      <4> QED
        BY <1>5, <4>1
    <3> QED
      BY <3>1, <3>2
  <2>2. timers' # <<>> => fxOn'
    BY <1>1, <1>4 DEF TimersRun, Begins
  <2>3. (fxOn' => rafs' > 0) /\ (fresh' => fxOn')
    <3>1. rafs \in Nat
      BY <1>1 DEF Shape
    <3>2. CASE UNCHANGED <<fxOn, rafs, fresh>>
      BY <1>1, <3>2 DEF TimersRun
    <3>3. CASE fxOn' = TRUE /\ rafs' = rafs + 1 /\ fresh' = TRUE
      BY <3>1, <3>3
    <3> QED
      BY <1>4, <3>2, <3>3 DEF Begins
  <2> QED
    BY <2>1, <2>2, <2>3 DEF TimersRun
<1>16. /\ \A p \in 1..n - 1 : Token(p)' <=> Token(p)
       /\ Token(n) <=> anim[a].queued
       /\ \A p : p = n /\ Len(todo') = n => (Token(p)' <=> anim[a].queued)
       /\ \A b : b # a => (Carries(b)' <=> Carries(b))
       /\ ~Carries(a)
       /\ \A b : b = a => (Carries(b)' <=> anim[a].queued /\ Len(todo') = n - 1)
  <2>1. \A p \in 1..n - 1 : Token(p)' <=> Token(p)
    BY <1>0, <1>1, <1>6, <1>8, TokenStays
  <2>2. Token(n) <=> anim[a].queued
    BY <1>3 DEF Token
  <2>3. \A p : p = n /\ Len(todo') = n => (Token(p)' <=> anim[a].queued)
    BY <1>6, <1>8 DEF Token
  <2>4. ~Carries(a) /\ \A b : b # a => (Carries(b)' <=> Carries(b))
    BY <1>3, <1>8 DEF Carries
  <2>5. \A b : b = a => (Carries(b)' <=> anim[a].queued /\ Len(todo') = n - 1)
    BY <1>0, <1>6, <1>8 DEF Carries
  <2> QED
    BY <2>1, <2>2, <2>3, <2>4, <2>5
<1>17. NoneLeftBehind'
  <2>1. CASE fxqueue = <<>>
    BY <1>2, <2>1 DEF NoneLeftBehind
  <2>2. CASE SomeCarrier
    <3>1. PICK b \in Slots : Carries(b) /\ b # a
      BY <1>16, <2>2 DEF SomeCarrier
    <3> QED
      BY <1>16, <3>1 DEF NoneLeftBehind, SomeCarrier
  <2>3. CASE SomeToken
    <3>1. PICK p \in 1..n : Token(p)
      BY <1>0, <2>3 DEF SomeToken
    <3>2. CASE p # n
      <4>1. p \in 1..Len(todo') /\ Token(p)'
        BY <1>0, <1>6, <1>16, <3>1, <3>2
      <4> QED
        BY <4>1 DEF NoneLeftBehind, SomeToken
    <3>3. CASE p = n /\ Len(todo') = n
      <4>1. p \in 1..Len(todo') /\ Token(p)'
        BY <1>16, <3>1, <3>3
      <4> QED
        BY <4>1 DEF NoneLeftBehind, SomeToken
    <3>4. CASE p = n /\ Len(todo') = n - 1
      <4>1. \E b \in Slots : Carries(b)'
        BY <1>16, <3>1, <3>4
      <4> QED
        BY <4>1 DEF NoneLeftBehind, SomeCarrier
    <3> QED
      BY <1>6, <3>2, <3>3, <3>4
  <2>4. CASE Under("stop") /\ ~todo[1].gotoEnd
    BY <1>7, <2>4 DEF NoneLeftBehind, BottomStays
  <2> QED
    BY <1>1, <2>1, <2>2, <2>3, <2>4 DEF NoneLeftBehind
<1>18. OneAtATime'
  <2>1. SUFFICES ASSUME ~nested, Strict PROVE AtMostOne' /\ SentinelThere'
    <3>1. ASSUME Under("finish"), NEW b \in Slots, Carries(b)' PROVE Carries(b)
      <4>1. anim'[a].state = "resolved"
        BY <1>1, <1>4, <3>1 DEF CallsOk, Begins
      <4> QED
        BY <1>16, <3>1, <4>1 DEF Carries
    <3> QED
      BY <1>1, <1>2, <1>7, <3>1, OneStays DEF BottomStays
  <2>2. AtMostOne /\ SentinelThere
    BY <1>1, <2>1 DEF OneAtATime
  <2>3. CASE anim[a].queued
    <3>1. /\ \A b \in Slots : ~Carries(b)
          /\ \A p \in 1..n - 1 : ~Token(p)
      BY <1>0, <1>16, <2>2, <2>3 DEF AtMostOne, SomeToken, SomeCarrier
    <3>2. /\ \A b \in Slots : Carries(b)' => b = a /\ Len(todo') = n - 1
          /\ \A p \in 1..Len(todo') : Token(p)' => p = n /\ Len(todo') = n
      BY <1>0, <1>6, <1>16, <3>1
    <3>3. n - 1 # n
      BY <1>0
    <3>4. AtMostOne'
      BY <3>2, <3>3 DEF AtMostOne, SomeToken, SomeCarrier
    <3>5. Under("finish") \/ Busy
      <4>1. SomeToken
        BY <1>0, <1>16, <2>3 DEF SomeToken
      <4> QED
        BY <1>0, <1>3, <2>2, <2>3, <4>1 DEF SentinelThere
    <3>6. ~Under("finish") \/ ~Under("stop")
      BY DEF Under
    <3>7. SentinelThere'
      BY <1>2, <1>7, <3>5, <3>6 DEF SentinelThere, BottomStays, Busy
    <3> QED
      BY <3>4, <3>7
  <2>4. CASE ~anim[a].queued
    <3>1. /\ \A b : Carries(b)' <=> Carries(b)
          /\ \A p \in 1..Len(todo') : Token(p)' => p \in 1..n /\ Token(p)
      BY <1>0, <1>6, <1>16, <2>4
    <3>2. AtMostOne'
      BY <1>0, <2>2, <3>1 DEF AtMostOne, SomeToken, SomeCarrier
    <3>3. SomeCarrier' \/ SomeToken' => SomeCarrier \/ SomeToken
      BY <1>0, <3>1 DEF SomeToken, SomeCarrier
    <3>4. ASSUME NEW b \in Slots, Carries(b)', Under("stop")
          PROVE  Busy \/ \E j \in 1..Len(timers') : j <= todo[1].i /\ timers'[j] = b
      <4>1. Busy \/ \E j \in 1..Len(timers) : j <= todo[1].i /\ timers[j] = b
        BY <2>2, <3>1, <3>4 DEF SentinelThere
      <4> QED
        BY <1>5, <4>1
    <3>5. SentinelThere'
      BY <1>2, <1>3, <1>7, <1>11, <2>2, <3>3, <3>4 DEF SentinelThere, BottomStays, Busy
    <3> QED
      BY <3>2, <3>5
  <2> QED
    BY <2>3, <2>4
<1>19. LoopsSee'
  <2>1. Under("stop") => ~(todo[1].dequeue \/ ~todo[1].gotoEnd)
    BY <1>0, <1>1, <1>3 DEF LoopsSee, Under
  <2>2. ASSUME Under("finish"), NEW b \in Slots, Carries(b)'
        PROVE  \E j \in 1..Len(timers') : j <= todo[1].i /\ timers'[j] = b
    <3>1. anim'[a].state = "resolved"
      BY <1>1, <1>4, <2>2 DEF CallsOk, Begins
    <3>2. Carries(b)
      BY <1>16, <2>2, <3>1 DEF Carries
    <3>3. PICK j \in 1..Len(timers) : j <= todo[1].i /\ timers[j] = b
      BY <1>1, <2>2, <3>2 DEF LoopsSee
    <3> QED
      BY <1>5, <3>3
  <2> QED
    BY <1>7, <2>1, <2>2 DEF LoopsSee, BottomStays
<1>20. AimsAtWish'
  <2>1. SUFFICES ASSUME plain PROVE AimsAtWish'
    BY <1>2 DEF AimsAtWish
  <2>2. /\ ~nested /\ ~Under("stop") /\ \A b \in Slots : b <= animations => anim[b].queued
        /\ (\A b \in Slots : anim[b].state = "running" => ~anim[b].toggles) => fxshow = NoData
        /\ LeadsTo(anim, Aim, Pending, wish)
    BY <1>1, <2>1 DEF AimsAtWish
  <2>3. \A b \in Slots : anim[b].state # "none" => anim[b].queued
    <3>1. ASSUME NEW b \in Slots, anim[b].state # "none" PROVE anim[b].queued
      <4>1. ~(b > animations) /\ b \in Nat /\ animations \in Nat
        BY <1>1, <3>1 DEF Shape, Slots
      <4> QED
        BY <2>2, <4>1
    <3> QED
      BY <3>1
  <2>4. anim[a].queued
    BY <1>3, <2>3
  <2>5. \A b \in Slots : anim[b].state # "running"
    <3>1. AtMostOne
      BY <1>1, <2>1, <2>2 DEF OneAtATime, Strict
    <3>2. \A b \in Slots : ~Carries(b)
      BY <1>0, <1>16, <2>4, <3>1 DEF AtMostOne, SomeToken, SomeCarrier
    <3> QED
      BY <2>3, <3>2 DEF Carries
  <2>6. fxshow = NoData /\ Aim = shown
    BY <1>1, <2>2, <2>5 DEF Aim, Shape
  <2>7. /\ (shown' /\ (anim'[a].state = "running" /\ anim'[a].toggles => anim'[a].hidden))
              = Turns(anim[a].kind, shown)
        /\ ~(anim'[a].state = "running" /\ anim'[a].toggles) => fxshow' = NoData
    BY <1>0, <1>1, <1>2, <1>3, <2>6, StartTurns
  <2>8. \A b \in Slots : anim'[b].state = "running" => b = a
    BY <1>8, <2>5
  <2>9. Aim' = Turns(anim[a].kind, Aim)
    <3>1. Aim' <=> (shown' /\ (anim'[a].state = "running" /\ anim'[a].toggles => anim'[a].hidden))
      BY <2>8 DEF Aim
    <3>2. Turns(anim[a].kind, shown) \in BOOLEAN
      BY <1>1, TurnsIs DEF Shape
    <3>3. Aim' \in BOOLEAN
      BY DEF Aim
    <3> QED
      BY <2>6, <2>7, <3>1, <3>2, <3>3
  <2>10. LeadsTo(anim', Turns(anim[a].kind, Aim), Waits, wish)
    <3>1. \A j \in 1..Len(Waits) : anim'[Waits[j]].kind = anim[Waits[j]].kind
      BY <1>8, <1>12
    <3> QED
      BY <1>12, <2>2, <3>1, LeadsDrops
  <2>11. LeadsTo(anim, Aim, Pending, wish)'
    BY <1>2, <1>12, <2>9, <2>10
  <2>12. (\A b \in Slots : anim'[b].state = "running" => ~anim'[b].toggles) => fxshow' = NoData
    BY <2>7
  <2> QED
    BY <1>2, <1>7, <1>8, <2>2, <2>11, <2>12 DEF AimsAtWish, BottomStays
<1> QED
  BY <1>9, <1>10, <1>13, <1>14, <1>15, <1>17, <1>18, <1>19, <1>20, <1>21 DEF EffectsInv

-----------------------------------------------------------------------------
(******************************* the page's calls **************************)
LEMMA WaitingGrows ==
  ASSUME NEW s \in Seq(0..MaxAnimations), NEW x \in Slots
  PROVE  /\ Waiting(Append(s, x)) = Append(Waiting(s), x)
         /\ Append(s, x) \in Seq(0..MaxAnimations) /\ Append(s, x) # <<>>
         /\ s # <<>> => Head(Append(s, x)) = Head(s)
<1>1. x \in 0..MaxAnimations /\ x # InProgress
  BY DEF Slots, InProgress
<1>2. Append(s, x) \in Seq(0..MaxAnimations) /\ Append(s, x) # <<>>
  BY <1>1
<1>3. CASE s = <<>>
  <2>1. Append(s, x) = <<x>> /\ Head(<<x>>) = x
    BY <1>3
  <2>2. Waiting(s) = <<>>
    BY <1>3 DEF Waiting
  <2> QED
    BY <1>1, <1>2, <1>3, <2>1, <2>2 DEF Waiting
<1>4. CASE s # <<>>
  <2>1. Head(Append(s, x)) = Head(s) /\ Tail(Append(s, x)) = Append(Tail(s), x)
    BY <1>1, <1>4
  <2> QED
    BY <1>2, <1>4, <2>1 DEF Waiting
<1> QED
  BY <1>3, <1>4

(* animate: what is asked for waits, and a queue that is not busy starts.  *)
LEMMA AnimateStep ==
  ASSUME EffectsInv, NEW k \in Kinds, NEW q \in BOOLEAN, NEW s \in BOOLEAN,
         animate(k, q, s)
  PROVE  EffectsInv'
<1>1. /\ Shape /\ CallsOk /\ PendingOk /\ QueueApart /\ OnceEach /\ TimersRun
      /\ NoneLeftBehind /\ OneAtATime /\ LoopsSee /\ AimsAtWish
  BY DEF EffectsInv
<1>2. /\ MayAnimate /\ animations < MaxAnimations
      /\ animations' = animations + 1
      /\ wish' = Turns(k, wish) /\ plain' = (plain /\ q /\ ~finish)
      /\ nested' = (nested \/ \E f \in ToSet(todo) : f.does = "stop")
      /\ UNCHANGED <<timers, shown, fxshow, finish, fxOn, rafs, fresh>>
  BY DEF animate, Turns
<1>0. PICK n \in Nat, a \in Slots : n = Len(todo) /\ a = animations + 1
  <2>1. Len(todo) \in Nat /\ animations + 1 \in Slots
    BY <1>1, <1>2 DEF Shape, Slots
  <2> QED
    BY <2>1
<1>3. /\ OnlyOne(a) /\ anim'[a].state = "waiting" /\ anim[a].state = "none"
      /\ anim'[a].kind = k /\ anim'[a].queued = q
      /\ anim'[a].completes = anim[a].completes /\ animations' \in 0..MaxAnimations
      /\ \A b \in Slots : anim'[b].state = "none" <=> b > animations'
  BY <1>0, <1>1, AskedFor
<1>4. fxqueue \in Seq(0..MaxAnimations) /\ todo \in Seq(Calls)
  BY <1>1 DEF Shape
<1>5. /\ todo' \in Seq(Calls)
      /\ \/ /\ ~q /\ fxqueue' = fxqueue /\ Len(todo') = n + 1
            /\ \E x : x.does = "start" /\ x.a = a /\ Pushes(x)
         \/ /\ q /\ fxqueue' = Append(fxqueue, a) /\ ~Busy /\ Len(todo') = n + 1
            /\ \E x : x.does = "dequeue" /\ Pushes(x)
         \/ q /\ fxqueue' = Append(fxqueue, a) /\ Busy /\ todo' = todo
  <2>1. CASE ~q
    <3>1. todo' = Append(todo, Of("start", a)) /\ fxqueue' = fxqueue
      BY <1>0, <2>1 DEF animate
    <3>2. /\ Of("start", a) \in Calls /\ Of("start", a).does = "start"
          /\ Of("start", a).a = a
      BY CallNamed
    <3>3. todo' \in Seq(Calls) /\ Pushes(Of("start", a))
      BY <1>1, <3>1, <3>2, StackPushes
    <3> QED
      BY <1>0, <2>1, <3>1, <3>2, <3>3 DEF Pushes
  <2>2. CASE q /\ ~Busy
    <3>1. todo' = Append(todo, Call("dequeue")) /\ fxqueue' = Append(fxqueue, a)
      BY <1>0, <2>2 DEF animate, Queue
    <3>2. Call("dequeue") \in Calls /\ Call("dequeue").does = "dequeue"
      BY NewCalls
    <3>3. todo' \in Seq(Calls) /\ Pushes(Call("dequeue"))
      BY <1>1, <3>1, <3>2, StackPushes
    <3> QED
      BY <1>0, <2>2, <3>1, <3>2, <3>3 DEF Pushes
  <2>3. CASE q /\ Busy
    BY <1>0, <1>4, <2>3 DEF animate, Queue
  <2> QED
    BY <2>1, <2>2, <2>3
<1>6. /\ Len(todo') \in {n, n + 1} /\ \A p \in 1..n : todo'[p] = todo[p]
      /\ Len(todo') = n + 1 => todo'[n + 1].does \in {"start", "dequeue"}
      /\ Len(todo') = n + 1 /\ ~q => todo'[n + 1].does = "start" /\ todo'[n + 1].a = a
      /\ Len(todo') = n + 1 /\ q => todo'[n + 1].does = "dequeue" /\ ~Busy
      /\ Len(todo') = n => q /\ Busy
      /\ fxqueue' = IF q THEN Append(fxqueue, a) ELSE fxqueue
  BY <1>0, <1>5 DEF Pushes
<1>7. todo # <<>> => /\ Now = todo[n] /\ todo[n].does = "complete" /\ n # 0
  BY <1>0, <1>1, <1>2, TopOfStack DEF MayAnimate
<1>8. BottomStays
  <2>1. CASE n = 0
    <3>1. todo = <<>>
      BY <1>0, <1>1, <2>1, TopOfStack
    <3>2. ~Under("stop")' /\ ~Under("finish")'
      BY <1>5, <1>6, <2>1 DEF Under
    <3> QED
      BY <3>1, <3>2 DEF BottomStays, Under
  <2>2. CASE n # 0
    <3>1. todo # <<>> /\ todo' # <<>> /\ todo'[1] = todo[1]
      BY <1>0, <1>4, <1>5, <1>6, <2>2
    <3> QED
      BY <3>1 DEF BottomStays, Under
  <2> QED
    BY <2>1, <2>2
<1>9. /\ finish <=> Under("finish")
      /\ finish' <=> Under("finish")'
      /\ Under("finish")' <=> Under("finish")
  BY <1>1, <1>2, <1>8 DEF CallsOk, BottomStays
<1>10. /\ \A b \in Slots : b # a => anim'[b] = anim[b]
       /\ \A b \in Slots : anim'[b].state = "running" <=> anim[b].state = "running"
       /\ \A b \in Slots : anim[b].state # "none" => b # a
       /\ \A b \in Slots : anim[b].state = "resolved" => anim'[b].state = "resolved"
  BY <1>3 DEF OnlyOne
<1>11. Shape'
  <2>1. anim' \in [Slots -> Animations]
    BY <1>3 DEF OnlyOne
  <2>2. fxqueue' \in Seq(0..MaxAnimations)
    BY <1>0, <1>4, <1>6, WaitingGrows
  <2>3. wish' \in BOOLEAN
    BY <1>1, <1>2, TurnsIs DEF Shape
  <2>4. plain' \in BOOLEAN /\ nested' \in BOOLEAN
    BY <1>1, <1>2 DEF Shape
  <2> QED
    BY <1>1, <1>2, <1>3, <1>5, <2>1, <2>2, <2>3, <2>4 DEF Shape
<1>12. CallsOk'
  <2>1. ASSUME NEW p \in 1..Len(todo') PROVE CallOk(p)'
    <3>1. CASE p = n + 1
      BY <1>0, <1>3, <1>6, <2>1, <3>1 DEF CallOk
    <3>2. CASE p # n + 1
      <4>1. p \in 1..n /\ todo'[p] = todo[p] /\ CallOk(p) /\ todo # <<>>
        BY <1>0, <1>1, <1>4, <1>6, <2>1, <3>2, EachCallOk
      <4>2. todo'[1] = todo[1]
        BY <1>0, <1>6, <4>1
      <4>3. todo[p].does \notin {"dequeue", "start", "tick"}
        BY <1>0, <1>1, <1>7, <4>1, NotOnTop
      <4>4. todo[p].does \in {"stop", "finish"} => todo[p].i <= Len(timers)
        BY <4>1 DEF CallOk
      <4>5. timers \in Seq(Slots) /\ Len(timers) >= Len(timers) /\ timers' = timers
        BY <1>1, <1>2 DEF Shape
      <4> QED
        BY <1>0, <1>1, <1>10, <4>1, <4>2, <4>3, <4>4, <4>5, CallStays
    <3> QED
      BY <3>1, <3>2
  <2>2. ~(finish' /\ plain')
    BY <1>2
  <2> QED
    BY <1>9, <2>1, <2>2 DEF CallsOk
<1>13. /\ ~Runs("start") /\ ~Runs("dequeue")
       /\ Runs("start")' <=> ~q
       /\ q => (Runs("dequeue")' <=> ~Busy)
  <2>1. ~Runs("start") /\ ~Runs("dequeue")
    BY <1>7 DEF Runs
  <2>2. CASE Len(todo') = n + 1
    <3>1. todo' # <<>> /\ Now' = todo'[n + 1]
      BY <1>0, <2>2 DEF Now, Last
    <3> QED
      BY <1>6, <2>1, <2>2, <3>1 DEF Runs
  <2>3. CASE Len(todo') = n
    <3>1. todo' = todo /\ q /\ Busy
      BY <1>0, <1>5, <2>3
    <3> QED
      BY <2>1, <3>1 DEF Runs, Now
  <2> QED
    BY <1>6, <2>2, <2>3
<1>24. Waiting(fxqueue') = IF q THEN Append(Waiting(fxqueue), a) ELSE Waiting(fxqueue)
  BY <1>0, <1>4, <1>6, WaitingGrows
<1>14. /\ ~Under("finish") => Pending = Waiting(fxqueue)
       /\ Pending' = IF ~q THEN <<a>> \o Pending
                     ELSE IF Under("finish") THEN Pending ELSE Append(Pending, a)
  <2>1. /\ Pending = Waits
        /\ ~Under("finish") => Pending = Waiting(fxqueue) /\ Waits' = Waiting(fxqueue')
        /\ Under("finish") => Waits' = Waits
    BY <1>8, <1>13 DEF Pending, Waits, BottomStays
  <2>2. CASE q
    BY <1>13, <1>24, <2>1, <2>2 DEF Pending
  <2>3. CASE ~q
    <3>1. Now'.a = a
      <4>1. Len(todo') = n + 1
        BY <1>6, <2>3
      <4>2. Now' = todo'[n + 1]
        BY <1>0, <4>1 DEF Now, Last
      <4> QED
        BY <1>6, <2>3, <4>1, <4>2
    <3>2. fxqueue' = fxqueue
      BY <1>6, <2>3
    <3> QED
      BY <1>13, <1>24, <2>1, <2>3, <3>1, <3>2 DEF Pending
  <2> QED
    BY <2>1, <2>2, <2>3
<1>15. PendingOk'
  <2>1. Await(anim, Pending, FALSE)
    BY <1>1, <1>13 DEF PendingOk, Await
  <2>2. \A b \in Slots : b # a => anim'[b].state = anim[b].state /\ anim'[b].queued = anim[b].queued
    BY <1>10
  <2>3. /\ anim'[a].queued => Await(anim', Append(Pending, a), FALSE)
        /\ Await(anim', <<a>> \o Pending, TRUE)
    BY <1>0, <1>3, <2>1, <2>2, AwaitGrows
  <2>6. Await(anim', Pending, FALSE)
    <3>1. \A j \in 1..Len(Pending) : Pending[j] \in Slots /\ Pending[j] # a
      BY <1>3, <2>1 DEF Await
    <3> QED
      BY <2>1, <2>2, <3>1, AwaitStays
  <2>4. CASE q
    <3>1. Await(anim', Pending', FALSE)
      BY <1>3, <1>14, <2>3, <2>4, <2>6
    <3> QED
      BY <1>13, <2>4, <3>1 DEF PendingOk, Await
  <2>5. CASE ~q
    <3>1. Await(anim', Pending', TRUE)
      BY <1>14, <2>3, <2>5
    <3> QED
      BY <1>13, <2>5, <3>1 DEF PendingOk, Await
  <2> QED
    BY <2>4, <2>5
<1>25. QueueApart'
  <2>1. SUFFICES ASSUME Under("finish") PROVE QueueApart'
    BY <1>9 DEF QueueApart
  <2> DEFINE w == Waiting(fxqueue)
  <2>2. /\ Await(anim, w, FALSE) /\ Await(anim, Pending, FALSE)
        /\ \A j \in 1..Len(w), l \in 1..Len(Pending) : w[j] # Pending[l]
    BY <1>1, <1>13, <2>1 DEF QueueApart, PendingOk, Await
  <2> HIDE DEF w
  <2>3. /\ w \in Seq(Slots) /\ Len(w) \in Nat /\ Pending \in Seq(Slots) /\ Len(Pending) \in Nat
        /\ \A j \in 1..Len(w) : w[j] # a /\ w[j] \in Slots
        /\ \A l \in 1..Len(Pending) : Pending[l] # a
    <3>1. w \in Seq(Slots) /\ Pending \in Seq(Slots)
      BY <2>2 DEF Await
    <3>2. Len(w) \in Nat /\ Len(Pending) \in Nat
      BY <3>1
    <3> QED
      BY <1>3, <2>2, <3>1, <3>2 DEF Await
  <2>4. \A b \in Slots : b # a => anim'[b].state = anim[b].state /\ anim'[b].queued = anim[b].queued
    BY <1>10
  <2>5. CASE q
    <3>1. Await(anim', Append(w, a), FALSE)
      BY <1>3, <2>2, <2>4, <2>5, AwaitGrows
    <3>2. /\ Len(Append(w, a)) = Len(w) + 1 /\ Append(w, a)[Len(w) + 1] = a
          /\ \A j \in 1..Len(w) : Append(w, a)[j] = w[j]
      BY <2>3, Appended
    <3>3. \A j \in 1..Len(Append(w, a)) : j \in 1..Len(w) \/ j = Len(w) + 1
      BY <2>3, <3>2
    <3>4. \A j \in 1..Len(Append(w, a)), l \in 1..Len(Pending) : Append(w, a)[j] # Pending[l]
      BY <2>2, <2>3, <3>2, <3>3
    <3> QED
      BY <1>14, <1>24, <2>1, <2>5, <3>1, <3>4 DEF QueueApart, w
  <2>6. CASE ~q
    <3>1. Await(anim', w, FALSE)
      BY <2>2, <2>3, <2>4, AwaitStays
    <3>2. /\ Len(<<a>> \o Pending) = Len(Pending) + 1 /\ (<<a>> \o Pending)[1] = a
          /\ \A l \in 1..Len(Pending) : (<<a>> \o Pending)[l + 1] = Pending[l]
      BY <2>3, InFront
    <3>3. ASSUME NEW j \in 1..Len(w), NEW l \in 1..Len(<<a>> \o Pending)
          PROVE  w[j] # (<<a>> \o Pending)[l]
      <4>1. CASE l = 1
        BY <2>3, <3>2, <4>1
      <4>2. CASE l # 1
        <5>1. l - 1 \in 1..Len(Pending) /\ (l - 1) + 1 = l
          BY <2>3, <3>2, <4>2
        <5>2. (<<a>> \o Pending)[(l - 1) + 1] = Pending[l - 1]
          BY <3>2, <5>1
        <5> QED
          BY <2>2, <5>1, <5>2
      <4> QED
        BY <4>1, <4>2
    <3> QED
      BY <1>14, <1>24, <2>6, <3>1, <3>3 DEF QueueApart, w
  <2> QED
    BY <2>5, <2>6
<1>16. OnceEach'
  BY <1>0, <1>1, <1>3, <1>10 DEF OnceEach
<1>17. TimersRun'
  BY <1>1, <1>2, <1>10 DEF TimersRun
<1>18. /\ \A p \in 1..n : Token(p)' <=> Token(p)
       /\ \A b \in Slots : Carries(b)' <=> Carries(b)
       /\ \A p : p = n + 1 /\ Len(todo') = n + 1 => (Token(p)' <=> q)
  <2>1. ASSUME NEW p \in 1..n PROVE Token(p)' <=> Token(p)
    <3>1. CallOk(p) /\ todo'[p] = todo[p]
      BY <1>0, <1>1, <1>6, EachCallOk
    <3>2. todo[p].does \in {"start", "complete"} =>
            todo[p].a \in Slots /\ anim[todo[p].a].state # "none"
      BY <3>1 DEF CallOk
    <3>3. todo[p].does \in {"start", "complete"} => anim'[todo[p].a] = anim[todo[p].a]
      BY <1>10, <3>2
    <3> QED
      BY <3>1, <3>3 DEF Token
  <2>2. \A b \in Slots : Carries(b)' <=> Carries(b)
    BY <1>3, <1>10 DEF Carries
  <2>3. \A p : p = n + 1 /\ Len(todo') = n + 1 => (Token(p)' <=> q)
    BY <1>3, <1>6 DEF Token
  <2> QED
    BY <2>1, <2>2, <2>3
<1>19. /\ SomeToken => SomeToken'
       /\ SomeCarrier' <=> SomeCarrier
       /\ \A p \in 1..Len(todo') : Token(p)' => \/ p \in 1..n /\ Token(p)
                                                \/ p = n + 1 /\ Len(todo') = n + 1 /\ q
  <2>1. \A p \in 1..n : p \in 1..Len(todo')
    BY <1>6
  <2>2. SomeToken => SomeToken'
    BY <1>0, <1>18, <2>1 DEF SomeToken
  <2>3. SomeCarrier' <=> SomeCarrier
    BY <1>18 DEF SomeCarrier
  <2>4. \A p \in 1..Len(todo') : p \in 1..n \/ (p = n + 1 /\ Len(todo') = n + 1)
    BY <1>6
  <2> QED
    BY <1>18, <2>2, <2>3, <2>4
<1>20. NoneLeftBehind'
  <2>1. CASE q /\ ~Busy
    <3>1. Len(todo') = n + 1
      BY <1>6, <2>1
    <3>2. \A p : p = n + 1 => p \in 1..Len(todo') /\ Token(p)'
      BY <1>18, <2>1, <3>1
    <3> QED
      BY <3>2 DEF NoneLeftBehind, SomeToken
  <2>2. CASE ~q \/ Busy
    <3>1. fxqueue' # <<>> => fxqueue # <<>>
      BY <1>6, <2>2 DEF Busy
    <3> QED
      BY <1>1, <1>8, <1>19, <3>1 DEF NoneLeftBehind, BottomStays
  <2> QED
    BY <2>1, <2>2
<1>21. OneAtATime'
  <2>1. SUFFICES ASSUME ~nested', ~Under("finish") PROVE AtMostOne' /\ SentinelThere'
    <3>1. nested' \/ ~nested
      BY <1>1, <1>2 DEF Shape
    <3>2. ~nested => \A b, c \in Slots : Carries(b)' /\ Carries(c)' => b = c
      BY <1>1, <1>18 DEF OneAtATime
    <3>3. Strict' => ~Under("finish")
      BY <1>2, <1>9 DEF Strict
    <3> QED
      BY <3>1, <3>2, <3>3 DEF OneAtATime
  <2>2. ~nested /\ ~Under("stop") /\ ~Under("stop")'
    <3>1. ~Under("stop")
      <4>1. SUFFICES ASSUME Under("stop") PROVE FALSE
        OBVIOUS
      <4>2. todo[1] \in ToSet(todo)
        BY <1>4, <4>1 DEF Under, ToSet
      <4> QED
        BY <1>2, <2>1, <4>1, <4>2 DEF Under
    <3> QED
      BY <1>2, <1>8, <2>1, <3>1 DEF BottomStays
  <2>3. AtMostOne /\ (SomeCarrier \/ SomeToken => Busy)
    BY <1>1, <1>9, <1>13, <2>1, <2>2 DEF OneAtATime, SentinelThere, Strict
  <2>4. CASE q /\ ~Busy
    <3>1. ~SomeCarrier' /\ \A p \in 1..Len(todo') : Token(p)' => p = n + 1
      BY <1>0, <1>19, <2>3, <2>4 DEF SomeToken
    <3>2. AtMostOne'
      BY <3>1 DEF AtMostOne, SomeCarrier
    <3>3. SentinelThere'
      BY <1>13, <2>2, <2>4 DEF SentinelThere
    <3> QED
      BY <3>2, <3>3
  <2>5. CASE ~q \/ Busy
    <3>1. \A p \in 1..Len(todo') : Token(p)' => p \in 1..n /\ Token(p)
      BY <1>6, <1>19, <2>5
    <3>2. SomeToken' => SomeToken
      BY <1>0, <3>1 DEF SomeToken
    <3>3. AtMostOne'
      BY <1>0, <1>18, <1>19, <2>3, <3>1, <3>2 DEF AtMostOne
    <3>4. Busy => Busy'
      BY <1>0, <1>4, <1>6, WaitingGrows DEF Busy
    <3>5. SentinelThere'
      BY <1>19, <2>2, <2>3, <3>2, <3>4 DEF SentinelThere
    <3> QED
      BY <3>3, <3>5
  <2> QED
    BY <2>4, <2>5
<1>22. LoopsSee'
  <2>1. Under("stop") => ~(todo[1].dequeue \/ ~todo[1].gotoEnd)
    BY <1>0, <1>1, <1>7 DEF LoopsSee, Under
  <2>2. Under("finish") => \A b \in Slots : Carries(b)' =>
                              \E j \in 1..Len(timers') : j <= todo'[1].i /\ timers'[j] = b
    BY <1>1, <1>2, <1>8, <1>18 DEF LoopsSee, BottomStays
  <2> QED
    BY <1>8, <2>1, <2>2 DEF LoopsSee, BottomStays
<1>23. AimsAtWish'
  <2>1. SUFFICES ASSUME plain, q, ~Under("finish") PROVE AimsAtWish'
    BY <1>2, <1>9 DEF AimsAtWish
  <2>2. /\ ~nested /\ ~Under("stop") /\ \A b \in Slots : b <= animations => anim[b].queued
        /\ (\A b \in Slots : anim[b].state = "running" => ~anim[b].toggles) => fxshow = NoData
        /\ LeadsTo(anim, Aim, Pending, wish)
    BY <1>1, <2>1 DEF AimsAtWish
  <2>3. ~nested'
    <3>1. ASSUME NEW f \in ToSet(todo), f.does = "stop" PROVE FALSE
      <4>1. PICK p \in 1..Len(todo) : todo[p] = f
        BY <1>4, <3>1 DEF ToSet
      <4>2. CallOk(p)
        BY <1>1, EachCallOk
      <4>3. p = 1 /\ todo # <<>>
        BY <1>4, <3>1, <4>1, <4>2 DEF CallOk
      <4> QED
        BY <1>9, <2>2, <3>1, <4>1, <4>3 DEF Under
    <3> QED
      BY <1>2, <2>2, <3>1
  <2>4. \A b \in Slots : b <= animations' => anim'[b].queued
    <3>1. ASSUME NEW b \in Slots, b <= animations' PROVE anim'[b].queued
      <4>1. b = a \/ b <= animations
        BY <1>0, <1>1, <1>2, <3>1 DEF Shape, Slots
      <4>2. CASE b = a
        BY <1>3, <2>1, <4>2
      <4>3. CASE b # a
        BY <1>10, <2>2, <4>1, <4>3
      <4> QED
        BY <4>2, <4>3
    <3> QED
      BY <3>1
  <2>5. Aim' <=> Aim
    BY <1>2, <1>3, <1>10 DEF Aim
  <2>6. Aim' = Aim
    BY <2>5 DEF Aim
  <2>7. LeadsTo(anim', Aim, Append(Pending, a), Turns(anim'[a].kind, wish))
    <3>1. Pending \in Seq(Slots) /\ \A j \in 1..Len(Pending) : anim[Pending[j]].state = "waiting"
      BY <1>1 DEF PendingOk, Await
    <3>2. \A j \in 1..Len(Pending) : anim'[Pending[j]].kind = anim[Pending[j]].kind
      BY <1>10, <3>1
    <3>3. wish \in BOOLEAN
      BY <1>1 DEF Shape
    <3> QED
      BY <1>0, <2>2, <3>1, <3>2, <3>3, LeadsGrows
  <2>8. LeadsTo(anim, Aim, Pending, wish)'
    BY <1>2, <1>3, <1>14, <2>1, <2>6, <2>7
  <2>9. (\A b \in Slots : anim'[b].state = "running" => ~anim'[b].toggles) => fxshow' = NoData
    BY <1>2, <1>10, <1>3, <2>2
  <2> QED
    BY <1>8, <2>2, <2>3, <2>4, <2>8, <2>9 DEF AimsAtWish, BottomStays
<1> QED
  BY <1>11, <1>12, <1>15, <1>16, <1>17, <1>20, <1>21, <1>22, <1>23, <1>25 DEF EffectsInv

(* Between two calls of the page nothing is under way.                     *)
LEMMA Idle ==
  ASSUME Shape, CallsOk, todo = <<>>
  PROVE  /\ ~Under("stop") /\ ~Under("finish") /\ ~SomeToken /\ ~finish
         /\ ~Runs("start") /\ ~Runs("dequeue")
         /\ Waits = Waiting(fxqueue) /\ Pending = Waits
  BY DEF Under, SomeToken, Runs, Waits, Pending, CallsOk

LEMMA NotEmpty ==
  ASSUME NEW s, Len(s) # 0
  PROVE  s # <<>>
<1>1. Len(<<>>) = 0
  OBVIOUS
<1> QED
  BY <1>1

LEMMA OneCall ==
  ASSUME todo = <<>>, NEW x \in Calls, todo' = Append(todo, x) \/ todo' = <<x>>
  PROVE  /\ todo' \in Seq(Calls) /\ Len(todo') = 1 /\ todo' # <<>> /\ todo'[1] = x /\ Now' = x
         /\ \A p \in 1..Len(todo') : p = 1
<1>1. todo' = <<x>>
  OBVIOUS
<1>2. Len(<<x>>) = 1 /\ <<x>>[1] = x /\ <<x>> # <<>> /\ <<x>> \in Seq(Calls)
  OBVIOUS
<1> QED
  BY <1>1, <1>2 DEF Now, Last

LEMMA StopStep ==
  ASSUME EffectsInv, NEW c \in BOOLEAN, NEW g \in BOOLEAN, stop(c, g)
  PROVE  EffectsInv'
<1>1. /\ Shape /\ CallsOk /\ PendingOk /\ QueueApart /\ OnceEach /\ TimersRun
      /\ NoneLeftBehind /\ OneAtATime /\ LoopsSee /\ AimsAtWish
  BY DEF EffectsInv
<1>2. /\ todo = <<>> /\ plain' = FALSE /\ fxqueue' = IF c THEN <<>> ELSE fxqueue
      /\ UNCHANGED <<animations, anim, timers, shown, fxshow, finish, fxOn, rafs, fresh,
                     wish, nested>>
  BY DEF stop
<1>3. /\ ~Under("stop") /\ ~Under("finish") /\ ~SomeToken /\ ~finish
      /\ ~Runs("start") /\ Waits = Waiting(fxqueue) /\ Pending = Waits
  BY <1>1, <1>2, Idle
<1>4. PICK x \in Calls : /\ todo' = Append(todo, x) /\ x.does = "stop" /\ x.i = Len(timers)
                         /\ x.gotoEnd = g /\ x.dequeue
  <2>1. Len(timers) \in Nat
    BY <1>1 DEF Shape
  <2> DEFINE x == [At("stop", Len(timers)) EXCEPT !.gotoEnd = g, !.dequeue = TRUE]
  <2>2. x \in Calls /\ x.does = "stop" /\ x.i = Len(timers) /\ x.gotoEnd = g /\ x.dequeue
    <3>1. <<>> \in Seq(0..MaxAnimations) /\ 0 \in 0..MaxAnimations
      OBVIOUS
    <3> QED
      BY <2>1, <3>1 DEF At, Call, Calls
  <2>3. todo' = Append(todo, x)
    BY DEF stop
  <2> QED
    BY <2>2, <2>3
<1>5. /\ todo' \in Seq(Calls) /\ Len(todo') = 1 /\ todo' # <<>> /\ todo'[1] = x /\ Now' = x
      /\ \A p \in 1..Len(todo') : p = 1
  BY <1>2, <1>4, OneCall
<1>6. /\ Under("stop")' /\ ~Under("finish")' /\ ~Runs("start")' /\ ~SomeToken'
      /\ \A p \in 1..Len(todo') : ~Token(p)'
  BY <1>4, <1>5 DEF Under, Runs, SomeToken, Token
<1>7. fxqueue' \in Seq(0..MaxAnimations) /\ timers \in Seq(Slots) /\ Len(timers) \in Nat
  <2>1. fxqueue \in Seq(0..MaxAnimations) /\ <<>> \in Seq(0..MaxAnimations)
        /\ timers \in Seq(Slots)
    BY <1>1 DEF Shape
  <2>2. Len(timers) \in Nat
    BY <2>1
  <2>3. fxqueue' \in Seq(0..MaxAnimations)
    BY <1>2, <2>1
  <2> QED
    BY <2>1, <2>2, <2>3
<1>8. Shape'
  BY <1>1, <1>2, <1>5, <1>7 DEF Shape
<1>9. CallsOk'
  BY <1>2, <1>3, <1>4, <1>5, <1>6, <1>7 DEF CallsOk, CallOk
<1>10. PendingOk'
  <2>1. Pending' = Waiting(fxqueue')
    BY <1>6 DEF Pending, Waits
  <2>2. CASE c
    <3>1. Pending' = <<>>
      BY <1>2, <2>1, <2>2 DEF Waiting
    <3> QED
      BY <3>1 DEF PendingOk, Await
  <2>3. CASE ~c
    <3>1. Pending' = Pending
      BY <1>2, <1>3, <2>1, <2>3
    <3> QED
      BY <1>1, <1>2, <1>3, <1>6, <3>1 DEF PendingOk, Await
  <2> QED
    BY <2>2, <2>3
<1>11. OnceEach' /\ TimersRun'
  BY <1>1, <1>2 DEF OnceEach, TimersRun
<1>12. \A b : Carries(b)' <=> Carries(b)
  BY <1>2 DEF Carries
<1>13. NoneLeftBehind'
  BY <1>1, <1>2, <1>3, <1>12 DEF NoneLeftBehind, SomeCarrier
<1>14. ASSUME NEW b \in Slots, anim'[b].state = "running"
       PROVE  \E j \in 1..Len(timers') : j <= todo'[1].i /\ timers'[j] = b
  BY <1>1, <1>2, <1>4, <1>5, <1>7, <1>14 DEF TimersRun
<1>15. OneAtATime'
  <2>1. SUFFICES ASSUME ~nested PROVE AtMostOne' /\ SentinelThere'
    BY <1>2 DEF OneAtATime, AtMostOne
  <2>2. AtMostOne'
    BY <1>1, <1>3, <1>6, <1>12, <2>1 DEF OneAtATime, AtMostOne, Strict
  <2>3. SentinelThere'
    BY <1>6, <1>14 DEF SentinelThere, Carries
  <2> QED
    BY <2>2, <2>3
<1>16. LoopsSee'
  BY <1>5, <1>6, <1>14 DEF LoopsSee
<1>17. AimsAtWish'
  BY <1>2 DEF AimsAtWish
<1>18. QueueApart'
  BY <1>6 DEF QueueApart
<1> QED
  BY <1>8, <1>9, <1>10, <1>11, <1>13, <1>15, <1>16, <1>17, <1>18 DEF EffectsInv

LEMMA FinishAllStep ==
  ASSUME EffectsInv, finishAll
  PROVE  EffectsInv'
<1>1. /\ Shape /\ CallsOk /\ PendingOk /\ QueueApart /\ OnceEach /\ TimersRun
      /\ NoneLeftBehind /\ OneAtATime /\ LoopsSee /\ AimsAtWish
  BY DEF EffectsInv
<1>2. /\ todo = <<>> /\ finish' = TRUE /\ fxqueue' = <<>>
      /\ UNCHANGED <<animations, anim, timers, shown, fxshow, fxOn, rafs, fresh, wish,
                     plain, nested>>
  BY DEF finishAll
<1>3. /\ ~Under("stop") /\ ~Under("finish") /\ ~SomeToken
      /\ ~Runs("start") /\ Waits = Waiting(fxqueue) /\ Pending = Waits
  BY <1>1, <1>2, Idle
<1>7. fxqueue \in Seq(0..MaxAnimations) /\ timers \in Seq(Slots) /\ Len(timers) \in Nat
      /\ <<>> \in Seq(0..MaxAnimations)
  BY <1>1 DEF Shape
<1>4. PICK x \in Calls : /\ todo' = Append(todo, x) /\ x.does = "finish" /\ x.i = Len(timers)
                         /\ x.old = fxqueue
  <2> DEFINE x == [At("finish", Len(timers)) EXCEPT !.old = fxqueue]
  <2>2. x \in Calls /\ x.does = "finish" /\ x.i = Len(timers) /\ x.old = fxqueue
    <3>1. 0 \in 0..MaxAnimations
      OBVIOUS
    <3> QED
      BY <1>7, <3>1 DEF At, Call, Calls
  <2>3. todo' = Append(todo, x)
    BY DEF finishAll
  <2> QED
    BY <2>2, <2>3
<1>5. /\ todo' \in Seq(Calls) /\ Len(todo') = 1 /\ todo' # <<>> /\ todo'[1] = x /\ Now' = x
      /\ \A p \in 1..Len(todo') : p = 1
  BY <1>2, <1>4, OneCall
<1>6. /\ ~Under("stop")' /\ Under("finish")' /\ ~Runs("start")' /\ ~SomeToken'
      /\ \A p \in 1..Len(todo') : ~Token(p)'
  BY <1>4, <1>5 DEF Under, Runs, SomeToken, Token
<1>8. Shape'
  BY <1>1, <1>2, <1>5, <1>7 DEF Shape
<1>9. CallsOk'
  BY <1>2, <1>3, <1>4, <1>5, <1>6, <1>7 DEF CallsOk, CallOk
<1>10. Pending' = Pending
  BY <1>3, <1>4, <1>5, <1>6 DEF Pending, Waits
<1>11. PendingOk' /\ OnceEach' /\ TimersRun'
  BY <1>1, <1>2, <1>3, <1>6, <1>10 DEF PendingOk, Await, OnceEach, TimersRun
<1>12. \A b : Carries(b)' <=> Carries(b)
  BY <1>2 DEF Carries
<1>13. NoneLeftBehind'
  BY <1>2 DEF NoneLeftBehind
<1>14. ASSUME NEW b \in Slots, anim'[b].state = "running"
       PROVE  \E j \in 1..Len(timers') : j <= todo'[1].i /\ timers'[j] = b
  BY <1>1, <1>2, <1>4, <1>5, <1>7, <1>14 DEF TimersRun
<1>15. OneAtATime'
  <2>1. SUFFICES ASSUME ~nested PROVE AtMostOne' /\ SentinelThere'
    BY <1>2 DEF OneAtATime, AtMostOne
  <2>2. AtMostOne'
    BY <1>1, <1>3, <1>6, <1>12, <2>1 DEF OneAtATime, AtMostOne, Strict
  <2>3. SentinelThere'
    BY <1>6 DEF SentinelThere
  <2> QED
    BY <2>2, <2>3
<1>16. LoopsSee'
  BY <1>6, <1>14 DEF LoopsSee, Carries
<1>17. AimsAtWish'
  BY <1>1, <1>2, <1>6, <1>10 DEF AimsAtWish, Aim
<1>18. QueueApart'
  BY <1>2, NothingWaits DEF QueueApart
<1> QED
  BY <1>8, <1>9, <1>11, <1>13, <1>15, <1>16, <1>17, <1>18 DEF EffectsInv

(* A frame: the loop goes round, or its requests run out.                  *)
LEMMA RafStep ==
  ASSUME EffectsInv, NEW first \in BOOLEAN, raf(first)
  PROVE  EffectsInv'
<1>1. /\ Shape /\ CallsOk /\ PendingOk /\ QueueApart /\ OnceEach /\ TimersRun
      /\ NoneLeftBehind /\ OneAtATime /\ LoopsSee /\ AimsAtWish
  BY DEF EffectsInv
<1>2. /\ todo = <<>> /\ rafs > 0 /\ fresh' = (fresh /\ ~first)
      /\ UNCHANGED <<animations, anim, fxqueue, timers, shown, fxshow, finish, fxOn, wish,
                     plain, nested>>
  BY DEF raf
<1>3. /\ ~Under("stop") /\ ~Under("finish") /\ ~SomeToken /\ ~finish /\ ~Runs("dequeue")
      /\ ~Runs("start") /\ Waits = Waiting(fxqueue) /\ Pending = Waits
  BY <1>1, <1>2, Idle
<1>4. /\ todo' \in Seq(Calls) /\ Len(todo') \in {0, 1}
      /\ Len(todo') = 0 => todo' = <<>> /\ rafs' = rafs - 1 /\ ~fxOn
      /\ Len(todo') = 1 => /\ todo' # <<>> /\ todo'[1].does = "tick" /\ todo'[1].i = 1
                           /\ rafs' = rafs /\ Now' = todo'[1]
      /\ \A p \in 1..Len(todo') : p = 1 /\ Len(todo') = 1
  <2>1. CASE fxOn
    <3>1. todo' = <<At("tick", 1)>> /\ rafs' = rafs
      BY <2>1 DEF raf
    <3>2. At("tick", 1) \in Calls /\ At("tick", 1).does = "tick" /\ At("tick", 1).i = 1
      <4>1. <<>> \in Seq(0..MaxAnimations) /\ 0 \in 0..MaxAnimations
        OBVIOUS
      <4> QED
        BY <4>1 DEF At, Call, Calls
    <3>3. /\ todo' \in Seq(Calls) /\ Len(todo') = 1 /\ todo' # <<>>
          /\ todo'[1] = At("tick", 1) /\ Now' = At("tick", 1)
          /\ \A p \in 1..Len(todo') : p = 1
      BY <1>2, <3>1, <3>2, OneCall
    <3> QED
      BY <3>1, <3>2, <3>3
  <2>2. CASE ~fxOn
    <3>1. rafs' = rafs - 1 /\ todo' = <<>>
      BY <1>2, <2>2 DEF raf
    <3>2. <<>> \in Seq(Calls) /\ Len(<<>>) = 0
      OBVIOUS
    <3> QED
      BY <2>2, <3>1, <3>2
  <2> QED
    BY <2>1, <2>2
<1>5. rafs' \in Nat /\ (fxOn => rafs' = rafs)
  BY <1>1, <1>2, <1>4 DEF Shape, raf
<1>6. /\ ~Under("stop")' /\ ~Under("finish")' /\ ~Runs("start")' /\ ~Runs("dequeue")'
      /\ ~SomeToken' /\ \A p \in 1..Len(todo') : ~Token(p)'
  <2>1. todo' # <<>> => Len(todo') = 1
    BY <1>4
  <2> QED
    BY <1>4, <2>1 DEF Under, Runs, SomeToken, Token
<1>8. Shape'
  BY <1>1, <1>2, <1>4, <1>5 DEF Shape
<1>9. CallsOk'
  <2>1. ASSUME NEW p \in 1..Len(todo') PROVE CallOk(p)'
    BY <1>4, <2>1 DEF CallOk
  <2> QED
    BY <1>2, <1>3, <1>6, <2>1 DEF CallsOk
<1>10. Pending' = Pending
  BY <1>2, <1>3, <1>6 DEF Pending, Waits
<1>11. PendingOk' /\ OnceEach' /\ TimersRun'
  <2>1. TimersRun'
    BY <1>1, <1>2, <1>5 DEF TimersRun
  <2> QED
    BY <1>1, <1>2, <1>3, <1>6, <1>10, <2>1 DEF PendingOk, Await, OnceEach
<1>12. \A b : Carries(b)' <=> Carries(b)
  BY <1>2 DEF Carries
<1>13. NoneLeftBehind'
  BY <1>1, <1>2, <1>3, <1>12 DEF NoneLeftBehind, SomeCarrier
<1>15. OneAtATime'
  <2>1. SUFFICES ASSUME ~nested PROVE AtMostOne' /\ SentinelThere'
    BY <1>2 DEF OneAtATime, AtMostOne
  <2>2. AtMostOne'
    BY <1>1, <1>3, <1>6, <1>12, <2>1 DEF OneAtATime, AtMostOne, Strict
  <2>3. SentinelThere'
    BY <1>1, <1>2, <1>3, <1>6, <1>12, <2>1
      DEF OneAtATime, Strict, SentinelThere, SomeCarrier, Busy
  <2> QED
    BY <2>2, <2>3
<1>16. LoopsSee'
  BY <1>6 DEF LoopsSee
<1>17. AimsAtWish'
  BY <1>1, <1>2, <1>6, <1>10 DEF AimsAtWish, Aim
<1>18. QueueApart'
  BY <1>6 DEF QueueApart
<1> QED
  BY <1>8, <1>9, <1>11, <1>13, <1>15, <1>16, <1>17, <1>18 DEF EffectsInv

-----------------------------------------------------------------------------
(*************************** one animation is over *************************)
LEMMA EndsLeaves ==
  ASSUME Shape, OnceEach, PendingOk, NEW a \in Slots, NEW how \in {"resolved", "rejected"},
         Ends(a, how), anim[a].state = "running"
  PROVE  /\ OnceEach'
         /\ \A b \in Slots : Carries(b)' <=> Carries(b) /\ b # a
         /\ \A b \in Slots : anim[b].state = "resolved" => anim'[b].state = "resolved"
         /\ \A b \in Slots : anim'[b].state = "running" => b # a /\ anim[b].state = "running"
         /\ \A b \in Slots : anim'[b].queued = anim[b].queued
         /\ \A b \in Slots : anim'[b].state = "none" <=> anim[b].state = "none"
         /\ anim' \in [Slots -> Animations]
         /\ Await(anim', Pending, Runs("start"))
         /\ \A j \in 1..Len(Pending) : anim'[Pending[j]].kind = anim[Pending[j]].kind
<1>1. /\ \A b \in Slots : b # a => anim'[b] = anim[b]
      /\ anim'[a].state = how /\ anim'[a].queued = anim[a].queued
      /\ anim'[a].completes = anim[a].completes + (IF how = "resolved" THEN 1 ELSE 0)
      /\ \A b \in Slots : anim'[b].state = "none" <=> anim[b].state = "none"
      /\ anim' \in [Slots -> Animations]
  BY DEF Ends, OnlyOne
<1>2. OnceEach'
  <2>1. anim[a].completes = 0
    BY DEF OnceEach
  <2>2. ASSUME NEW b \in Slots
        PROVE  /\ anim'[b].completes <= 1
               /\ anim'[b].state \in {"none", "waiting", "running"} => anim'[b].completes = 0
    <3>1. CASE b = a
      BY <1>1, <2>1, <3>1
    <3>2. CASE b # a
      BY <1>1, <3>2 DEF OnceEach
    <3> QED
      BY <3>1, <3>2
  <2> QED
    BY <2>2 DEF OnceEach
<1>3. \A b \in Slots : Carries(b)' <=> Carries(b) /\ b # a
  BY <1>1 DEF Carries
<1>4. \A b \in Slots : anim[b].state = "resolved" => anim'[b].state = "resolved"
  BY <1>1
<1>5. \A b \in Slots : anim'[b].state = "running" => b # a /\ anim[b].state = "running"
  BY <1>1
<1>6. \A b \in Slots : anim'[b].queued = anim[b].queued
  BY <1>1
<1>7. Await(anim, Pending, Runs("start"))
  BY DEF PendingOk
<1>8. \A j \in 1..Len(Pending) : Pending[j] \in Slots /\ anim[Pending[j]].state = "waiting"
  BY <1>7 DEF Await
<1>9. \A j \in 1..Len(Pending) : anim'[Pending[j]] = anim[Pending[j]]
  BY <1>1, <1>8
<1>10. Await(anim', Pending, Runs("start"))
  BY <1>7, <1>9, AwaitStays
<1> QED
  BY <1>1, <1>2, <1>3, <1>4, <1>5, <1>6, <1>9, <1>10

(* The element is left as the animation says: what it led to stays.        *)
LEMMA AimStays ==
  ASSUME Shape, NEW a \in Slots, NEW next, anim[a].state = "running", Resolves(a, next)
  PROVE  /\ Aim' = Aim
         /\ ((\A b \in Slots : anim[b].state = "running" => ~anim[b].toggles) =>
               fxshow = NoData) =>
            ((\A b \in Slots : anim'[b].state = "running" => ~anim'[b].toggles) =>
               fxshow' = NoData)
<1>1. Ends(a, "resolved")
  BY Resolved
<1>2. /\ \A b \in Slots : b # a => anim'[b] = anim[b]
      /\ anim'[a].state = "resolved"
  BY <1>1 DEF Ends, OnlyOne
<1>3. /\ shown' <=> shown /\ (anim[a].toggles => anim[a].hidden)
      /\ fxshow' = IF anim[a].toggles THEN NoData ELSE fxshow
  BY DisplayTurns
<1>4. Aim' <=> Aim
  BY <1>2, <1>3 DEF Aim
<1>5. Aim' = Aim
  BY <1>4 DEF Aim
<1> QED
  BY <1>2, <1>3, <1>5

(* What is taken off the list of timers is one place of it.                *)
LEMMA PlacesStay ==
  ASSUME NEW S, NEW s \in Seq(S), NEW i \in 1..Len(s), NEW k \in 1..Len(s), k # i
  PROVE  /\ \E j \in 1..Len(RemoveAt(s, i)) : j <= k /\ RemoveAt(s, i)[j] = s[k]
         /\ k < i => k \in 1..Len(RemoveAt(s, i)) /\ RemoveAt(s, i)[k] = s[k]
<1>0. Len(s) \in Nat
  OBVIOUS
<1>4. Len(RemoveAt(s, i)) = Len(s) - 1
  BY TakenOff
<1>5. \A j \in 1..Len(s) - 1 : RemoveAt(s, i)[j] = IF j < i THEN s[j] ELSE s[j + 1]
  BY TakenOff
<1>1. /\ Len(RemoveAt(s, i)) = Len(s) - 1 /\ Len(s) \in Nat
      /\ \A j \in 1..Len(s) - 1 : RemoveAt(s, i)[j] = IF j < i THEN s[j] ELSE s[j + 1]
  BY <1>0, <1>4, <1>5
<1>2. CASE k < i
  <2>1. k \in 1..Len(s) - 1
    BY <1>1, <1>2
  <2>2. RemoveAt(s, i)[k] = s[k]
    BY <1>1, <1>2, <2>1
  <2>3. k \in 1..Len(RemoveAt(s, i)) /\ k <= k
    BY <1>1, <2>1
  <2> QED
    BY <2>2, <2>3
<1>3. CASE k > i
  <2>1. k - 1 \in 1..Len(s) - 1 /\ ~(k - 1 < i) /\ (k - 1) + 1 = k /\ k - 1 <= k
    BY <1>1, <1>3
  <2>2. RemoveAt(s, i)[k - 1] = s[k] /\ k - 1 \in 1..Len(RemoveAt(s, i))
    BY <1>1, <2>1
  <2> QED
    BY <1>3, <2>1, <2>2
<1> QED
  BY <1>2, <1>3

(* The loop of frames is at its place, and takes the next.                 *)
LEMMA Alone ==
  ASSUME Shape, CallsOk, todo # <<>>, Now.does \in {"stop", "finish", "tick", "ticked"}
  PROVE  /\ Len(todo) = 1 /\ Now = todo[1] /\ Now \in Calls /\ CallOk(1)
         /\ ~SomeToken /\ ~Runs("start") /\ ~Runs("dequeue") /\ \A p \in 1..Len(todo) : ~Token(p)
<1>1. Len(todo) = 1 /\ Now = todo[1]
  BY BottomIsTop
<1>2. \A p \in 1..Len(todo) : p = 1
  BY <1>1
<1>3. ~Token(1) /\ ~Runs("start") /\ ~Runs("dequeue")
  BY <1>1 DEF Token, Runs
<1>4. Now \in Calls /\ CallOk(1)
  BY <1>1, TopOfStack
<1> QED
  BY <1>1, <1>2, <1>3, <1>4 DEF SomeToken

-----------------------------------------------------------------------------
(**************************** the loop of frames ***************************)
(* What a step of the loop of frames that ends no animation leaves alone.  *)
LEMMA FrameStays ==
  ASSUME EffectsInv, todo # <<>>, Now.does \in {"tick", "ticked"},
         UNCHANGED <<animations, anim, fxqueue, shown, fxshow, finish, wish, plain, nested>>,
         ~Under("stop")', ~Under("finish")', ~Runs("start")', ~Runs("dequeue")', ~SomeToken'
  PROVE  /\ PendingOk' /\ QueueApart' /\ OnceEach' /\ NoneLeftBehind' /\ OneAtATime'
         /\ LoopsSee' /\ AimsAtWish'
<1>1. /\ Shape /\ CallsOk /\ PendingOk /\ QueueApart /\ OnceEach /\ TimersRun
      /\ NoneLeftBehind /\ OneAtATime /\ LoopsSee /\ AimsAtWish
  BY DEF EffectsInv
<1>2. /\ Len(todo) = 1 /\ Now = todo[1] /\ ~SomeToken /\ ~Runs("start") /\ ~Runs("dequeue")
  BY <1>1, Alone
<1>3. ~Under("stop") /\ ~Under("finish")
  BY <1>2 DEF Under
<1>4. Pending' = Pending
  BY <1>2, <1>3 DEF Pending, Waits
<1>5. PendingOk' /\ OnceEach'
  BY <1>1, <1>2, <1>4 DEF PendingOk, Await, OnceEach
<1>6. \A b : Carries(b)' <=> Carries(b)
  BY DEF Carries
<1>7. NoneLeftBehind'
  BY <1>1, <1>2, <1>3, <1>6 DEF NoneLeftBehind, SomeCarrier
<1>8. OneAtATime'
  <2>1. SUFFICES ASSUME ~nested PROVE AtMostOne' /\ SentinelThere'
    BY DEF OneAtATime, AtMostOne
  <2>2. AtMostOne'
    BY <1>1, <1>3, <1>6, <2>1 DEF OneAtATime, AtMostOne, SomeToken, Strict
  <2>3. SentinelThere'
    BY <1>1, <1>2, <1>3, <1>6, <2>1
      DEF OneAtATime, Strict, SentinelThere, SomeCarrier, Busy
  <2> QED
    BY <2>2, <2>3
<1>9. LoopsSee'
  BY DEF LoopsSee
<1>10. AimsAtWish'
  BY <1>1, <1>4 DEF AimsAtWish, Aim
<1>11. QueueApart'
  BY DEF QueueApart
<1> QED
  BY <1>5, <1>7, <1>8, <1>9, <1>10, <1>11

(* Taking the timer of what does not run any more off the list.            *)
LEMMA TimerOff ==
  ASSUME Shape, TimersRun, NEW i \in 1..Len(timers), timers' = RemoveAt(timers, i),
         anim[timers[i]].state # "running",
         UNCHANGED <<anim, fxOn, rafs, fresh>>
  PROVE  /\ TimersRun' /\ timers' \in Seq(Slots) /\ Len(timers') = Len(timers) - 1
<1>1. timers \in Seq(Slots)
  BY DEF Shape
<1>2. timers' \in Seq(Slots) /\ Len(timers') = Len(timers) - 1
  BY <1>1, TakenOff
<1>3. ASSUME NEW b \in Slots, anim'[b].state = "running"
      PROVE  \E j \in 1..Len(timers') : timers'[j] = b
  <2>1. PICK k \in 1..Len(timers) : timers[k] = b
    BY <1>3 DEF TimersRun
  <2>2. k # i
    BY <1>3, <2>1
  <2>3. PICK j \in 1..Len(RemoveAt(timers, i)) : RemoveAt(timers, i)[j] = timers[k]
    BY <1>1, <2>2, PlacesStay
  <2> QED
    BY <2>1, <2>3
<1>4. timers # <<>>
  BY <1>1
<1>5. TimersRun'
  BY <1>3, <1>4 DEF TimersRun
<1> QED
  BY <1>2, <1>5

LEMMA TickedStep ==
  ASSUME EffectsInv, Ticked
  PROVE  EffectsInv'
<1>1. /\ Shape /\ CallsOk /\ PendingOk /\ QueueApart /\ OnceEach /\ TimersRun
      /\ NoneLeftBehind /\ OneAtATime /\ LoopsSee /\ AimsAtWish
  BY DEF EffectsInv
<1>2. /\ todo # <<>> /\ Now.does = "ticked"
      /\ UNCHANGED <<animations, anim, fxqueue, shown, fxshow, finish, fxOn, rafs, fresh,
                     wish, plain, nested>>
  BY DEF Ticked, Runs
<1>3. Len(todo) = 1 /\ Now = todo[1] /\ Now \in Calls /\ CallOk(1)
  BY <1>1, <1>2, Alone
<1>4. Now.i \in Nat /\ Now.i > 0 /\ Now.a \in Slots /\ anim[Now.a].state = "resolved"
  BY <1>2, <1>3, CallFields DEF CallOk
<1>5. PICK j \in Nat \ {0} : todo' = Append(Callers, At("tick", j))
  <2>1. /\ Now.i + 1 \in Nat \ {0} /\ Now.i \in Nat \ {0}
    BY <1>4
  <2>2. \/ todo' = Append(Callers, At("tick", Now.i))
        \/ todo' = Append(Callers, At("tick", Now.i + 1))
    BY DEF Ticked
  <2> QED
    BY <2>1, <2>2
<1>6. /\ todo' \in Seq(Calls) /\ Len(todo') = 1 /\ todo' # <<>> /\ todo'[1].does = "tick"
      /\ todo'[1].i = j /\ Now' = todo'[1]
  <2>1. At("tick", j) \in Calls /\ At("tick", j).does = "tick" /\ At("tick", j).i = j
    BY CallNamed, <1>4
  <2>2. todo' \in Seq(Calls) /\ Becomes(At("tick", j))
    BY <1>1, <1>2, <1>5, <2>1, StackBecomes
  <2>3. Len(todo') = 1 /\ todo'[1] = At("tick", j)
    BY <1>3, <2>2 DEF Becomes
  <2>4. Now' = todo'[1]
    BY <2>3 DEF Now, Last
  <2>5. todo' # <<>>
    BY <2>3
  <2> QED
    BY <2>1, <2>2, <2>3, <2>4, <2>5
<1>7. /\ ~Under("stop")' /\ ~Under("finish")' /\ ~Runs("start")' /\ ~Runs("dequeue")'
      /\ ~SomeToken'
  <2>1. \A p \in 1..Len(todo') : p = 1
    BY <1>6
  <2> QED
    BY <1>6, <2>1 DEF Under, Runs, SomeToken, Token
<1>8. TimersRun' /\ timers' \in Seq(Slots)
  <2>1. CASE Now.i <= Len(timers) /\ timers[Now.i] = Now.a
    <3>1. timers' = RemoveAt(timers, Now.i) /\ Now.i \in 1..Len(timers)
      BY <1>1, <1>4, <2>1 DEF Ticked, Shape
    <3> QED
      BY <1>1, <1>2, <1>4, <2>1, <3>1, TimerOff
  <2>2. CASE ~(Now.i <= Len(timers) /\ timers[Now.i] = Now.a)
    <3>1. timers' = timers
      BY <2>2 DEF Ticked
    <3> QED
      BY <1>1, <1>2, <3>1 DEF TimersRun, Shape
  <2> QED
    BY <2>1, <2>2
<1>9. Shape'
  BY <1>1, <1>2, <1>6, <1>8 DEF Shape
<1>10. CallsOk'
  <2>1. ~finish
    BY <1>1, <1>2, <1>3 DEF CallsOk, Under
  <2>2. ASSUME NEW p \in 1..Len(todo') PROVE CallOk(p)'
    <3>1. p = 1
      BY <1>6, <2>2
    <3> QED
      BY <1>6, <3>1 DEF CallOk
  <2> QED
    BY <1>2, <1>7, <2>1, <2>2 DEF CallsOk
<1>11. /\ PendingOk' /\ QueueApart' /\ OnceEach' /\ NoneLeftBehind' /\ OneAtATime'
       /\ LoopsSee' /\ AimsAtWish'
  BY <1>2, <1>7, FrameStays
<1> QED
  BY <1>8, <1>9, <1>10, <1>11 DEF EffectsInv

(* fx.tick: the end of the list, a timer that is over, one that goes on,   *)
(* and one that comes to its end.                                          *)
LEMMA TickStep ==
  ASSUME EffectsInv, Tick
  PROVE  EffectsInv'
<1>1. /\ Shape /\ CallsOk /\ PendingOk /\ QueueApart /\ OnceEach /\ TimersRun
      /\ NoneLeftBehind /\ OneAtATime /\ LoopsSee /\ AimsAtWish
  BY DEF EffectsInv
<1>2. /\ todo # <<>> /\ Now.does = "tick"
      /\ UNCHANGED <<animations, fxqueue, finish, wish, plain, nested>>
  BY DEF Tick, Runs
<1>3. /\ Len(todo) = 1 /\ Now = todo[1] /\ Now \in Calls /\ CallOk(1)
      /\ ~SomeToken /\ ~Runs("start") /\ ~Runs("dequeue") /\ \A p \in 1..Len(todo) : ~Token(p)
  BY <1>1, <1>2, Alone
<1>0. PICK i \in Nat \ {0} : i = Now.i
  BY <1>2, <1>3, CallFields DEF CallOk
<1>4. ~Under("stop") /\ ~Under("finish") /\ ~finish
  BY <1>1, <1>2, <1>3 DEF Under, CallsOk
<1>5. timers \in Seq(Slots) /\ Len(timers) \in Nat
  BY <1>1 DEF Shape
<1>6. ASSUME i > Len(timers), todo' = Callers,
             IF timers # <<>> THEN UNCHANGED <<fxOn, rafs, fresh>>
             ELSE /\ fxOn' = FALSE /\ fresh' = FALSE
                  /\ rafs' = IF fresh THEN rafs - 1 ELSE rafs,
             UNCHANGED <<anim, timers, shown, fxshow>>
      PROVE  EffectsInv'
  <2>1. todo' \in Seq(Calls) /\ Len(todo') = 0
    BY <1>1, <1>2, <1>3, <1>6, StackPops DEF Pops
  <2>2. todo' = <<>>
    BY <2>1
  <2>3. /\ ~Under("stop")' /\ ~Under("finish")' /\ ~Runs("start")' /\ ~Runs("dequeue")'
        /\ ~SomeToken'
    BY <2>1, <2>2 DEF Under, Runs, SomeToken
  <2>4. rafs' \in Nat /\ fxOn' \in BOOLEAN /\ fresh' \in BOOLEAN
    <3>1. rafs \in Nat /\ fresh \in BOOLEAN /\ fxOn \in BOOLEAN /\ (fresh => rafs > 0)
      BY <1>1 DEF Shape, TimersRun
    <3>2. CASE timers # <<>>
      BY <1>6, <3>1, <3>2
    <3>3. CASE timers = <<>>
      <4>1. fxOn' = FALSE /\ fresh' = FALSE /\ rafs' = IF fresh THEN rafs - 1 ELSE rafs
        BY <1>6, <3>3
      <4>2. rafs' \in Nat
        BY <3>1, <4>1
      <4> QED
        BY <4>1, <4>2
    <3> QED
      BY <3>2, <3>3
  <2>5. TimersRun'
    BY <1>1, <1>6 DEF TimersRun
  <2>6. Shape'
    BY <1>1, <1>2, <1>6, <2>1, <2>4 DEF Shape
  <2>7. CallsOk'
    BY <1>2, <1>4, <2>1, <2>3 DEF CallsOk
  <2>8. /\ PendingOk' /\ QueueApart' /\ OnceEach' /\ NoneLeftBehind' /\ OneAtATime'
        /\ LoopsSee' /\ AimsAtWish'
    BY <1>2, <1>6, <2>3, FrameStays
  <2> QED
    BY <2>5, <2>6, <2>7, <2>8 DEF EffectsInv
<1>7. ASSUME i <= Len(timers), anim[timers[i]].state # "running",
             timers' = RemoveAt(timers, i),
             UNCHANGED <<anim, todo, shown, fxshow, fxOn, rafs, fresh>>
      PROVE  EffectsInv'
  <2>1. TimersRun' /\ timers' \in Seq(Slots)
    BY <1>0, <1>1, <1>5, <1>7, TimerOff
  <2>2. /\ ~Under("stop")' /\ ~Under("finish")' /\ ~Runs("start")' /\ ~Runs("dequeue")'
        /\ ~SomeToken'
    BY <1>2, <1>3, <1>4, <1>7 DEF Under, Runs, Now, SomeToken, Token
  <2>3. Shape'
    BY <1>1, <1>2, <1>7, <2>1 DEF Shape
  <2>4. CallsOk'
    <3>1. ASSUME NEW p \in 1..Len(todo') PROVE CallOk(p)'
      <4>1. p = 1
        BY <1>3, <1>7, <3>1
      <4> QED
        BY <1>2, <1>3, <1>7, <4>1 DEF CallOk
    <3> QED
      BY <1>2, <1>4, <2>2, <3>1 DEF CallsOk
  <2>5. /\ PendingOk' /\ QueueApart' /\ OnceEach' /\ NoneLeftBehind' /\ OneAtATime'
        /\ LoopsSee' /\ AimsAtWish'
    BY <1>2, <1>7, <2>2, FrameStays
  <2> QED
    BY <2>1, <2>3, <2>4, <2>5 DEF EffectsInv
<1>8. ASSUME todo' = Append(Callers, At("tick", i + 1)),
             UNCHANGED <<anim, timers, shown, fxshow, fxOn, rafs, fresh>>
      PROVE  EffectsInv'
  <2>1. /\ todo' \in Seq(Calls) /\ Len(todo') = 1 /\ todo' # <<>> /\ todo'[1].does = "tick"
        /\ todo'[1].i = i + 1 /\ Now' = todo'[1]
    <3>0. i + 1 \in Nat
      BY <1>0
    <3>1. /\ At("tick", i + 1) \in Calls /\ At("tick", i + 1).does = "tick"
          /\ At("tick", i + 1).i = i + 1
      BY <3>0, NewCalls
    <3>2. todo' \in Seq(Calls) /\ Becomes(At("tick", i + 1))
      BY <1>1, <1>2, <1>8, <3>1, StackBecomes
    <3>3. Len(todo') = 1 /\ todo'[1] = At("tick", i + 1)
      BY <1>3, <3>2 DEF Becomes
    <3>4. Now' = todo'[1]
      BY <3>3 DEF Now, Last
    <3>5. todo' # <<>>
      BY <3>3
    <3> QED
      BY <3>1, <3>2, <3>3, <3>4, <3>5
  <2>2. \A p \in 1..Len(todo') : p = 1
    BY <2>1
  <2>3. /\ ~Under("stop")' /\ ~Under("finish")' /\ ~Runs("start")' /\ ~Runs("dequeue")'
        /\ ~SomeToken'
    BY <2>1, <2>2 DEF Under, Runs, SomeToken, Token
  <2>4. Shape' /\ TimersRun'
    BY <1>1, <1>2, <1>8, <2>1 DEF Shape, TimersRun
  <2>5. CallsOk'
    <3>1. ASSUME NEW p \in 1..Len(todo') PROVE CallOk(p)'
      BY <1>0, <2>1, <2>2 DEF CallOk
    <3> QED
      BY <1>2, <1>4, <2>3, <3>1 DEF CallsOk
  <2>6. /\ PendingOk' /\ QueueApart' /\ OnceEach' /\ NoneLeftBehind' /\ OneAtATime'
        /\ LoopsSee' /\ AimsAtWish'
    BY <1>2, <1>8, <2>3, FrameStays
  <2> QED
    BY <2>4, <2>5, <2>6 DEF EffectsInv
<1>9. ASSUME i <= Len(timers), anim[timers[i]].state = "running",
             Resolves(timers[i], Callers \o <<[At("ticked", i) EXCEPT !.a = timers[i]]>>),
             UNCHANGED <<timers, fxOn, rafs, fresh>>
      PROVE  EffectsInv'
  <2>0. PICK a \in Slots : a = timers[i] /\ anim[a].state = "running" /\ i \in 1..Len(timers)
    BY <1>0, <1>5, <1>9
  <2> DEFINE x == [At("ticked", i) EXCEPT !.a = a]
             y == Of("complete", a)
  <2>1. x \in Calls /\ x.does = "ticked" /\ x.i = i /\ x.a = a
    <3>1. <<>> \in Seq(0..MaxAnimations) /\ a \in 0..MaxAnimations /\ i \in Nat
          /\ 0 \in 0..MaxAnimations
      BY <1>0, <2>0 DEF Slots
    <3> QED
      BY <3>1 DEF At, Call, Calls
  <2>2. y \in Calls /\ y.does = "complete" /\ y.a = a
    BY <2>0, <1>0, CallNamed
  <2>3. Resolves(a, Callers \o <<x>>)
    BY <1>9, <2>0
  <2> HIDE DEF x, y
  <2>4. Ends(a, "resolved") /\ todo' = (Callers \o <<x>>) \o <<y>>
    BY <1>1, <2>0, <2>3, Resolved DEF y
  <2>5. /\ OnceEach'
        /\ \A b \in Slots : Carries(b)' <=> Carries(b) /\ b # a
        /\ \A b \in Slots : anim'[b].state = "running" => b # a /\ anim[b].state = "running"
        /\ \A b \in Slots : anim'[b].queued = anim[b].queued
        /\ \A b \in Slots : anim'[b].state = "none" <=> anim[b].state = "none"
        /\ anim' \in [Slots -> Animations]
        /\ Await(anim', Pending, Runs("start"))
        /\ \A j \in 1..Len(Pending) : anim'[Pending[j]].kind = anim[Pending[j]].kind
        /\ anim'[a].state = "resolved"
    <3>1. anim'[a].state = "resolved"
      BY <2>4 DEF Ends
    <3> QED
      BY <1>1, <2>0, <2>4, <3>1, EndsLeaves
  <2>6. /\ todo' \in Seq(Calls) /\ Len(todo') = 2 /\ todo'[1] = x /\ todo'[2] = y
        /\ todo' # <<>> /\ Now' = y
    <3>1. todo' \in Seq(Calls) /\ Calling(x, y)
      BY <1>1, <1>2, <2>1, <2>2, <2>4, StackCalling
    <3>2. Len(todo') = 2 /\ todo'[1] = x /\ todo'[2] = y
      BY <1>3, <3>1 DEF Calling
    <3>3. Now' = todo'[2]
      BY <3>2 DEF Now, Last
    <3>4. todo' # <<>>
      BY <3>2
    <3> QED
      BY <3>1, <3>2, <3>3, <3>4
  <2>7. \A p \in 1..Len(todo') : p = 1 \/ p = 2
    BY <2>6
  <2>8. ~Under("stop")' /\ ~Under("finish")' /\ ~Runs("start")' /\ ~Runs("dequeue")'
    BY <2>1, <2>2, <2>6 DEF Under, Runs
  <2>9. \A p : (p = 1 => ~Token(p)') /\ (p = 2 => (Token(p)' <=> anim[a].queued))
    BY <2>0, <2>1, <2>2, <2>5, <2>6 DEF Token
  <2>10. Carries(a) <=> anim[a].queued
    BY <2>0 DEF Carries
  <2>11. Shape'
    <3>1. shown' \in BOOLEAN /\ fxshow' \in [there : BOOLEAN, knows : BOOLEAN, hidden : BOOLEAN]
      BY <1>1, <2>0, <2>3, DisplayTurns
    <3>2. \A b \in Slots : anim'[b].state = "none" <=> b > animations'
      <4>1. ASSUME NEW b \in Slots PROVE anim'[b].state = "none" <=> b > animations'
        <5>1. anim[b].state = "none" <=> b > animations
          BY <1>1 DEF Shape
        <5> QED
          BY <1>2, <2>5, <5>1
      <4> QED
        BY <4>1
    <3> QED
      BY <1>1, <1>2, <1>9, <2>5, <2>6, <3>1, <3>2 DEF Shape
  <2>12. CallsOk'
    <3>1. ASSUME NEW p \in 1..Len(todo') PROVE CallOk(p)'
      <4>1. CASE p = 1
        BY <1>0, <2>0, <2>1, <2>5, <2>6, <4>1 DEF CallOk
      <4>2. CASE p = 2
        BY <2>0, <2>2, <2>5, <2>6, <4>2 DEF CallOk
      <4> QED
        BY <2>7, <4>1, <4>2
    <3> QED
      BY <1>2, <1>4, <2>8, <3>1 DEF CallsOk
  <2>13. Pending' = Pending
    BY <1>2, <1>3, <1>4, <2>8 DEF Pending, Waits
  <2>14. PendingOk'
    <3>1. Runs("start")' <=> Runs("start")
      BY <1>3, <2>8
    <3> QED
      BY <2>5, <2>13, <3>1 DEF PendingOk, Await
  <2>15. TimersRun'
    BY <1>1, <1>9, <2>5 DEF TimersRun
  <2>16. NoneLeftBehind'
    <3>1. SUFFICES ASSUME fxqueue # <<>> PROVE SomeCarrier' \/ SomeToken'
      BY <1>2 DEF NoneLeftBehind
    <3>2. PICK b \in Slots : Carries(b)
      BY <1>1, <1>3, <1>4, <3>1 DEF NoneLeftBehind, SomeCarrier
    <3>3. CASE b = a
      BY <2>6, <2>9, <2>10, <3>2, <3>3 DEF SomeToken
    <3>4. CASE b # a
      BY <2>5, <3>2, <3>4 DEF SomeCarrier
    <3> QED
      BY <3>3, <3>4
  <2>17. OneAtATime'
    <3>1. SUFFICES ASSUME ~nested PROVE AtMostOne' /\ SentinelThere'
      BY <1>2 DEF OneAtATime, AtMostOne
    <3>2. AtMostOne /\ (SomeCarrier => Busy)
      BY <1>1, <1>3, <1>4, <3>1 DEF OneAtATime, Strict, SentinelThere
    <3>3. \A p \in 1..Len(todo') : Token(p)' => p = 2 /\ anim[a].queued
      BY <2>7, <2>9
    <3>4. SomeToken' => anim[a].queued
      BY <3>3 DEF SomeToken
    <3>5. anim[a].queued => \A b \in Slots : Carries(b) => b = a
      BY <2>0, <2>10, <3>2 DEF AtMostOne
    <3>6. AtMostOne'
      BY <2>5, <3>2, <3>3, <3>4, <3>5 DEF AtMostOne, SomeCarrier
    <3>7. SomeCarrier' \/ SomeToken' => Busy'
      <4>1. SomeCarrier' => SomeCarrier
        BY <2>5 DEF SomeCarrier
      <4>2. SomeToken' => SomeCarrier
        BY <2>0, <2>10, <3>4 DEF SomeCarrier
      <4> QED
        BY <1>2, <3>2, <4>1, <4>2 DEF Busy
    <3>8. SentinelThere'
      BY <2>8, <3>7 DEF SentinelThere
    <3> QED
      BY <3>6, <3>8
  <2>18. LoopsSee'
    BY <2>8 DEF LoopsSee
  <2>19. AimsAtWish'
    <3>1. SUFFICES ASSUME plain PROVE AimsAtWish'
      BY <1>2 DEF AimsAtWish
    <3>2. /\ ~nested /\ \A b \in Slots : b <= animations => anim[b].queued
          /\ (\A b \in Slots : anim[b].state = "running" => ~anim[b].toggles) => fxshow = NoData
          /\ LeadsTo(anim, Aim, Pending, wish)
      BY <1>1, <3>1 DEF AimsAtWish
    <3>3. /\ Aim' = Aim
          /\ (\A b \in Slots : anim'[b].state = "running" => ~anim'[b].toggles) =>
               fxshow' = NoData
      BY <1>1, <2>0, <2>3, <3>2, AimStays
    <3>4. LeadsTo(anim', Aim, Pending, wish)
      BY <2>5, <3>2, LeadsStays
    <3>5. LeadsTo(anim, Aim, Pending, wish)'
      BY <1>2, <2>13, <3>3, <3>4
    <3> QED
      BY <1>2, <2>5, <2>8, <3>2, <3>3, <3>5 DEF AimsAtWish
  <2>20. QueueApart'
    BY <2>8 DEF QueueApart
  <2> QED
    BY <2>5, <2>11, <2>12, <2>14, <2>15, <2>16, <2>17, <2>18, <2>19, <2>20
      DEF EffectsInv
<1> QED
  BY <1>0, <1>6, <1>7, <1>8, <1>9, ZenonT(40) DEF Tick

-----------------------------------------------------------------------------
(************************ the loops of stop and finish *********************)
LEMMA SpliceStep ==
  ASSUME EffectsInv, Splice
  PROVE  EffectsInv'
<1>1. /\ Shape /\ CallsOk /\ PendingOk /\ QueueApart /\ OnceEach /\ TimersRun
      /\ NoneLeftBehind /\ OneAtATime /\ LoopsSee /\ AimsAtWish
  BY DEF EffectsInv
<1>2. /\ todo # <<>> /\ Now.does = "splice" /\ timers' = RemoveAt(timers, Now.i)
      /\ todo' = Callers
      /\ UNCHANGED <<animations, anim, fxqueue, shown, fxshow, finish, fxOn, rafs, fresh,
                     wish, plain, nested>>
  BY DEF Splice, Runs
<1>3. /\ Len(todo) = 2 /\ Now = todo[2] /\ todo[1].does \in {"stop", "finish"}
      /\ Now.i = todo[1].i + 1 /\ Now.i <= Len(timers)
      /\ anim[timers[Now.i]].state = "resolved" /\ todo[1] \in Calls /\ CallOk(1)
  <2>1. Now = todo[Len(todo)] /\ CallOk(Len(todo)) /\ \A p \in 1..Len(todo) : todo[p] \in Calls
    BY <1>1, <1>2, TopOfStack
  <2>2. Len(todo) = 2
    BY <1>2, <2>1 DEF CallOk
  <2>3. 1 \in 1..Len(todo) /\ CallOk(1) /\ CallOk(2)
    BY <1>1, <2>1, <2>2, EachCallOk
  <2> QED
    BY <1>2, <2>1, <2>2, <2>3 DEF CallOk
<1>0. PICK i \in 1..Len(timers) : i = Now.i /\ i = todo[1].i + 1
  <2>1. todo[1].i \in Nat /\ timers \in Seq(Slots)
    BY <1>1, <1>3, CallFields DEF Shape
  <2> QED
    BY <1>3, <2>1
<1>4. /\ todo' \in Seq(Calls) /\ Len(todo') = 1 /\ todo' # <<>> /\ todo'[1] = todo[1]
      /\ Now' = todo[1]
  <2>1. todo' \in Seq(Calls) /\ Len(todo') = 1 /\ todo'[1] = todo[1]
    BY <1>1, <1>2, <1>3, StackPops DEF Pops
  <2>2. Now' = todo'[1]
    BY <2>1 DEF Now, Last
  <2>3. todo' # <<>>
    BY <2>1
  <2> QED
    BY <2>1, <2>2, <2>3
<1>5. TimersRun' /\ timers' \in Seq(Slots) /\ Len(timers') = Len(timers) - 1
  BY <1>0, <1>1, <1>2, <1>3, TimerOff
<1>6. /\ \A p \in 1..Len(todo) : p = 1 \/ p = 2
      /\ \A p \in 1..Len(todo') : p = 1
  BY <1>3, <1>4
<1>7. /\ ~SomeToken /\ ~SomeToken' /\ \A p \in 1..Len(todo') : ~Token(p)'
      /\ ~Runs("start") /\ ~Runs("dequeue") /\ ~Runs("start")' /\ ~Runs("dequeue")'
      /\ \A b : Carries(b)' <=> Carries(b)
  <2>1. \A p : p = 1 \/ p = 2 => ~Token(p)
    BY <1>2, <1>3 DEF Token
  <2>2. \A p : p = 1 => ~Token(p)'
    BY <1>3, <1>4 DEF Token
  <2>3. ~Runs("start") /\ ~Runs("dequeue") /\ ~Runs("start")' /\ ~Runs("dequeue")'
    BY <1>2, <1>3, <1>4 DEF Runs
  <2>4. \A b : Carries(b)' <=> Carries(b)
    BY <1>2 DEF Carries
  <2> QED
    BY <1>6, <2>1, <2>2, <2>3, <2>4 DEF SomeToken
<1>8. BottomStays
  BY <1>2, <1>4 DEF BottomStays, Under
<1>9. Shape'
  BY <1>1, <1>2, <1>4, <1>5 DEF Shape
<1>10. CallsOk'
  <2>1. todo[1].i <= Len(timers')
    <3>1. todo[1].i \in Nat /\ Len(timers) \in Nat
      BY <1>1, <1>3, CallFields DEF Shape
    <3> QED
      BY <1>0, <1>5, <3>1
  <2>2. ASSUME NEW p \in 1..Len(todo') PROVE CallOk(p)'
    <3>1. p = 1
      BY <1>6
    <3> QED
      BY <1>3, <1>4, <2>1, <3>1 DEF CallOk
  <2> QED
    BY <1>1, <1>2, <1>8, <2>2 DEF CallsOk, BottomStays
<1>11. Pending' = Pending
  BY <1>2, <1>7, <1>8 DEF Pending, Waits, BottomStays
<1>12. PendingOk' /\ OnceEach'
  BY <1>1, <1>2, <1>7, <1>11 DEF PendingOk, Await, OnceEach
<1>13. NoneLeftBehind'
  BY <1>1, <1>2, <1>7, <1>8 DEF NoneLeftBehind, BottomStays, SomeCarrier
<1>14. ASSUME NEW b \in Slots, NEW k \in 1..Len(timers), k <= todo[1].i, timers[k] = b
       PROVE  \E j \in 1..Len(timers') : j <= todo'[1].i /\ timers'[j] = b
  <2>1. k < i /\ k # i
    <3>1. todo[1].i \in Nat
      BY <1>3, CallFields
    <3> QED
      BY <1>0, <1>14, <3>1
  <2>2. timers \in Seq(Slots)
    BY <1>1 DEF Shape
  <2>3. k \in 1..Len(RemoveAt(timers, i)) /\ RemoveAt(timers, i)[k] = timers[k]
    BY <2>1, <2>2, PlacesStay
  <2> QED
    BY <1>0, <1>2, <1>4, <1>14, <2>3
<1>15. OneAtATime'
  <2>1. SUFFICES ASSUME ~nested, Strict PROVE AtMostOne' /\ SentinelThere'
    BY <1>1, <1>2, <1>7, <1>8, OneStays DEF BottomStays
  <2>2. AtMostOne /\ SentinelThere
    BY <1>1, <2>1 DEF OneAtATime
  <2>3. AtMostOne'
    BY <1>7, <2>2 DEF AtMostOne
  <2>4. Busy' <=> Busy
    BY <1>2 DEF Busy
  <2>5. ASSUME Under("stop")', NEW b \in Slots, Carries(b)', ~Busy'
        PROVE  \E j \in 1..Len(timers') : j <= todo'[1].i /\ timers'[j] = b
    <3>1. PICK k \in 1..Len(timers) : k <= todo[1].i /\ timers[k] = b
      BY <1>7, <1>8, <2>2, <2>4, <2>5 DEF SentinelThere, BottomStays
    <3> QED
      BY <1>14, <3>1
  <2>6. Under("stop")' \/ Under("finish")'
    BY <1>3, <1>4 DEF Under
  <2> QED
    BY <1>7, <2>3, <2>5, <2>6 DEF SentinelThere
<1>16. LoopsSee'
  <2>1. Under("stop")' => ~(todo'[1].dequeue \/ ~todo'[1].gotoEnd)
    BY <1>1, <1>3, <1>4, <1>8 DEF LoopsSee, BottomStays
  <2>2. ASSUME Under("finish")', NEW b \in Slots, Carries(b)'
        PROVE  \E j \in 1..Len(timers') : j <= todo'[1].i /\ timers'[j] = b
    <3>1. PICK k \in 1..Len(timers) : k <= todo[1].i /\ timers[k] = b
      BY <1>1, <1>7, <1>8, <2>2 DEF LoopsSee, BottomStays
    <3> QED
      BY <1>14, <3>1
  <2> QED
    BY <2>1, <2>2 DEF LoopsSee
<1>17. AimsAtWish'
  BY <1>1, <1>2, <1>8, <1>11 DEF AimsAtWish, Aim, BottomStays
<1>18. QueueApart'
  BY <1>1, <1>2, <1>8, <1>11, ApartStays DEF BottomStays
<1> QED
  BY <1>5, <1>9, <1>10, <1>12, <1>13, <1>15, <1>16, <1>17, <1>18 DEF EffectsInv

(* A timer that the loop leaves alone.                                     *)
LEMMA LoopSkips ==
  ASSUME EffectsInv, todo # <<>>, Now.does \in {"stop", "finish"}, Now.i > 0,
         \/ anim[timers[Now.i]].state # "running"
         \/ Now.does = "finish" /\ ~anim[timers[Now.i]].queued,
         NEW f \in Calls, f.does = Now.does, f.i = Now.i - 1, f.old = Now.old,
         f.gotoEnd = Now.gotoEnd, f.dequeue = Now.dequeue, todo' = Append(Callers, f),
         UNCHANGED <<animations, anim, fxqueue, timers, shown, fxshow, finish, fxOn, rafs,
                     fresh, wish, plain, nested>>
  PROVE  EffectsInv'
<1>1. /\ Shape /\ CallsOk /\ PendingOk /\ QueueApart /\ OnceEach /\ TimersRun
      /\ NoneLeftBehind /\ OneAtATime /\ LoopsSee /\ AimsAtWish
  BY DEF EffectsInv
<1>2. /\ Len(todo) = 1 /\ Now = todo[1] /\ Now \in Calls /\ CallOk(1)
      /\ ~SomeToken /\ ~Runs("start") /\ ~Runs("dequeue") /\ \A p \in 1..Len(todo) : ~Token(p)
  BY <1>1, Alone
<1>3. /\ todo' \in Seq(Calls) /\ Len(todo') = 1 /\ todo' # <<>> /\ todo'[1] = f /\ Now' = f
  <2>1. todo' \in Seq(Calls) /\ Len(todo') = 1 /\ todo'[1] = f
    BY <1>1, <1>2, StackBecomes DEF Becomes
  <2>2. Now' = todo'[1]
    BY <2>1 DEF Now, Last
  <2>3. todo' # <<>>
    BY <2>1
  <2> QED
    BY <2>1, <2>2, <2>3
<1>0. PICK i \in 1..Len(timers) : i = Now.i /\ f.i = i - 1
  <2>1. Now.i \in Nat /\ timers \in Seq(Slots) /\ Now.i <= Len(timers)
    BY <1>1, <1>2, CallFields DEF Shape, CallOk
  <2> QED
    BY <2>1
<1>4. /\ Under("stop")' <=> Under("stop")
      /\ Under("finish")' <=> Under("finish")
      /\ Under("stop") <=> Now.does = "stop"
      /\ Under("finish") <=> Now.does = "finish"
  BY <1>2, <1>3 DEF Under
<1>5. /\ ~SomeToken' /\ ~Runs("start")' /\ ~Runs("dequeue")'
      /\ \A p \in 1..Len(todo') : p = 1 /\ ~Token(p)'
      /\ \A b : Carries(b)' <=> Carries(b)
  <2>1. \A p \in 1..Len(todo') : p = 1
    BY <1>3
  <2>2. \A p : p = 1 => ~Token(p)'
    BY <1>3 DEF Token
  <2>3. ~Runs("start")' /\ ~Runs("dequeue")'
    BY <1>3 DEF Runs
  <2>4. \A b : Carries(b)' <=> Carries(b)
    BY DEF Carries
  <2> QED
    BY <2>1, <2>2, <2>3, <2>4 DEF SomeToken
<1>6. Shape'
  BY <1>1, <1>3 DEF Shape
<1>7. CallsOk'
  <2>1. f.i <= Len(timers')
    <3>1. Len(timers) \in Nat
      BY <1>1 DEF Shape
    <3> QED
      BY <1>0, <3>1
  <2>2. ASSUME NEW p \in 1..Len(todo') PROVE CallOk(p)'
    <3>1. p = 1
      BY <1>5, <2>2
    <3> QED
      BY <1>3, <2>1, <3>1 DEF CallOk
  <2> QED
    BY <1>1, <1>4, <2>2 DEF CallsOk
<1>8. Pending' = Pending
  BY <1>2, <1>3, <1>4, <1>5 DEF Pending, Waits
<1>9. PendingOk' /\ OnceEach' /\ TimersRun'
  <2>1. PendingOk'
    BY <1>1, <1>2, <1>5, <1>8 DEF PendingOk, Await
  <2>2. OnceEach'
    BY <1>1 DEF OnceEach
  <2>3. TimersRun'
    BY <1>1 DEF TimersRun
  <2> QED
    BY <2>1, <2>2, <2>3
<1>10. NoneLeftBehind'
  BY <1>1, <1>2, <1>3, <1>4, <1>5 DEF NoneLeftBehind, SomeCarrier
<1>11. ASSUME NEW b \in Slots, b # timers[i],
              \E k \in 1..Len(timers) : k <= todo[1].i /\ timers[k] = b
       PROVE  \E j \in 1..Len(timers') : j <= todo'[1].i /\ timers'[j] = b
  <2>1. PICK k \in 1..Len(timers) : k <= todo[1].i /\ timers[k] = b
    BY <1>11
  <2>2. k <= i - 1
    BY <1>0, <1>2, <1>11, <2>1
  <2> QED
    BY <1>0, <1>3, <2>1, <2>2
<1>12. OneAtATime'
  <2>1. SUFFICES ASSUME ~nested, Strict PROVE AtMostOne' /\ SentinelThere'
    BY <1>1, <1>4, <1>5, OneStays
  <2>2. AtMostOne /\ SentinelThere
    BY <1>1, <2>1 DEF OneAtATime
  <2>3. AtMostOne'
    BY <1>5, <2>2 DEF AtMostOne
  <2>4. ASSUME Under("stop")', NEW b \in Slots, Carries(b)', ~Busy'
        PROVE  \E j \in 1..Len(timers') : j <= todo'[1].i /\ timers'[j] = b
    <3>1. \E k \in 1..Len(timers) : k <= todo[1].i /\ timers[k] = b
      BY <1>4, <1>5, <2>2, <2>4 DEF SentinelThere, Busy
    <3>2. b # timers[i]
      BY <1>0, <1>4, <1>5, <2>4 DEF Carries
    <3> QED
      BY <1>11, <3>1, <3>2
  <2>5. Under("stop")' \/ Under("finish")'
    BY <1>4
  <2> QED
    BY <1>5, <2>3, <2>4, <2>5 DEF SentinelThere
<1>13. LoopsSee'
  <2>1. ASSUME Under("stop")', todo'[1].dequeue \/ ~todo'[1].gotoEnd,
               NEW b \in Slots, anim'[b].state = "running"
        PROVE  \E j \in 1..Len(timers') : j <= todo'[1].i /\ timers'[j] = b
    <3>1. \E k \in 1..Len(timers) : k <= todo[1].i /\ timers[k] = b
      BY <1>1, <1>2, <1>3, <1>4, <2>1 DEF LoopsSee
    <3>2. b # timers[i]
      BY <1>0, <1>4, <2>1
    <3> QED
      BY <1>11, <3>1, <3>2
  <2>2. ASSUME Under("finish")', NEW b \in Slots, Carries(b)'
        PROVE  \E j \in 1..Len(timers') : j <= todo'[1].i /\ timers'[j] = b
    <3>1. \E k \in 1..Len(timers) : k <= todo[1].i /\ timers[k] = b
      BY <1>1, <1>4, <1>5, <2>2 DEF LoopsSee
    <3>2. b # timers[i]
      BY <1>0, <1>5, <2>2 DEF Carries
    <3> QED
      BY <1>11, <3>1, <3>2
  <2> QED
    BY <1>3, <2>1, <2>2 DEF LoopsSee
<1>14. AimsAtWish'
  BY <1>1, <1>4, <1>8 DEF AimsAtWish, Aim
<1>15. QueueApart'
  BY <1>1, <1>4, <1>8, ApartStays
<1> QED
  BY <1>6, <1>7, <1>9, <1>10, <1>12, <1>13, <1>14, <1>15 DEF EffectsInv


(* An animation that the loop brings to its end.                           *)
LEMMA LoopResolves ==
  ASSUME EffectsInv, todo # <<>>, Now.does \in {"stop", "finish"}, Now.i > 0,
         anim[timers[Now.i]].state = "running",
         NEW f \in Calls, f.does = Now.does, f.i = Now.i - 1, f.gotoEnd = Now.gotoEnd,
         Now.does = "finish" => f.old = Now.old,
         Now.does = "stop" => f.gotoEnd /\ ~f.dequeue,
         Resolves(timers[Now.i], Callers \o <<f, At("splice", Now.i)>>),
         UNCHANGED <<animations, fxqueue, timers, finish, fxOn, rafs, fresh, wish, plain,
                     nested>>
  PROVE  EffectsInv'
<1>1. /\ Shape /\ CallsOk /\ PendingOk /\ QueueApart /\ OnceEach /\ TimersRun
      /\ NoneLeftBehind /\ OneAtATime /\ LoopsSee /\ AimsAtWish
  BY DEF EffectsInv
<1>2. /\ Len(todo) = 1 /\ Now = todo[1] /\ Now \in Calls /\ CallOk(1)
      /\ ~SomeToken /\ ~Runs("start") /\ ~Runs("dequeue") /\ \A p \in 1..Len(todo) : ~Token(p)
  BY <1>1, Alone
<1>0. PICK i \in 1..Len(timers), a \in Slots :
        /\ i = Now.i /\ f.i = i - 1 /\ a = timers[i] /\ anim[a].state = "running"
        /\ i \in Nat
  <2>1. Now.i \in Nat /\ timers \in Seq(Slots) /\ Now.i <= Len(timers)
    BY <1>1, <1>2, CallFields DEF Shape, CallOk
  <2>2. Now.i \in 1..Len(timers) /\ timers[Now.i] \in Slots
    BY <2>1
  <2> QED
    BY <2>1, <2>2
<1> DEFINE x == At("splice", i)
           y == Of("complete", a)
<1>3. /\ x \in Calls /\ x.does = "splice" /\ x.i = i
      /\ y \in Calls /\ y.does = "complete" /\ y.a = a
  BY <1>0, CallNamed
<1> HIDE DEF x, y
<1>4. Resolves(a, Callers \o <<f, x>>)
  BY <1>0 DEF x
<1>5. Ends(a, "resolved") /\ todo' = (Callers \o <<f, x>>) \o <<y>>
  BY <1>0, <1>1, <1>4, Resolved DEF y
<1>6. /\ OnceEach'
      /\ \A b \in Slots : Carries(b)' <=> Carries(b) /\ b # a
      /\ \A b \in Slots : anim'[b].state = "running" => b # a /\ anim[b].state = "running"
      /\ \A b \in Slots : anim'[b].queued = anim[b].queued
      /\ \A b \in Slots : anim'[b].state = "none" <=> anim[b].state = "none"
      /\ anim' \in [Slots -> Animations]
      /\ Await(anim', Pending, Runs("start"))
      /\ \A j \in 1..Len(Pending) : anim'[Pending[j]].kind = anim[Pending[j]].kind
      /\ anim'[a].state = "resolved"
  <2>1. anim'[a].state = "resolved"
    BY <1>5 DEF Ends
  <2> QED
    BY <1>0, <1>1, <1>5, <2>1, EndsLeaves
<1>7. /\ todo' \in Seq(Calls) /\ Len(todo') = 3 /\ todo'[1] = f /\ todo'[2] = x
      /\ todo'[3] = y /\ todo' # <<>> /\ Now' = y
  <2>1. todo' \in Seq(Calls) /\ Calling2(f, x, y)
    BY <1>1, <1>3, <1>5, StackCalling2
  <2>2. Len(todo') = 3 /\ todo'[1] = f /\ todo'[2] = x /\ todo'[3] = y
    BY <1>2, <2>1 DEF Calling2
  <2>3. Now' = todo'[3]
    BY <2>2 DEF Now, Last
  <2>4. todo' # <<>>
    <3>1. Len(todo') # 0
      BY <2>2
    <3> QED
      BY <3>1, NotEmpty
  <2> QED
    BY <2>1, <2>2, <2>3, <2>4
<1>8. \A p \in 1..Len(todo') : p = 1 \/ p = 2 \/ p = 3
  BY <1>7
<1>9. /\ Under("stop")' <=> Under("stop")
      /\ Under("finish")' <=> Under("finish")
      /\ Under("stop") <=> Now.does = "stop"
      /\ Under("finish") <=> Now.does = "finish"
      /\ ~Runs("start")' /\ ~Runs("dequeue")'
  BY <1>2, <1>3, <1>7 DEF Under, Runs
<1>10. \A p \in 1..Len(todo') : Token(p)' <=> p = 3 /\ Carries(a)
  <2>1. \A p : (p = 1 => ~Token(p)') /\ (p = 2 => ~Token(p)')
    BY <1>3, <1>7 DEF Token
  <2>2. \A p : p = 3 => (Token(p)' <=> anim[a].queued)
    BY <1>0, <1>3, <1>6, <1>7 DEF Token
  <2>3. Carries(a) <=> anim[a].queued
    BY <1>0 DEF Carries
  <2> QED
    BY <1>8, <2>1, <2>2, <2>3
<1>11. Shape'
  <2>1. shown' \in BOOLEAN /\ fxshow' \in [there : BOOLEAN, knows : BOOLEAN, hidden : BOOLEAN]
    BY <1>0, <1>1, <1>4, DisplayTurns
  <2>2. \A b \in Slots : anim'[b].state = "none" <=> b > animations'
    <3>1. ASSUME NEW b \in Slots PROVE anim'[b].state = "none" <=> b > animations'
      <4>1. anim[b].state = "none" <=> b > animations
        BY <1>1 DEF Shape
      <4> QED
        BY <1>6, <4>1
    <3> QED
      BY <3>1
  <2> QED
    BY <1>1, <1>6, <1>7, <2>1, <2>2 DEF Shape
<1>12. CallsOk'
  <2>1. Len(timers) \in Nat /\ i <= Len(timers) /\ i - 1 <= Len(timers)
    <3>1. timers \in Seq(Slots)
      BY <1>1 DEF Shape
    <3>2. Len(timers) \in Nat
      BY <3>1
    <3> QED
      BY <1>0, <3>2
  <2>2. ASSUME NEW p \in 1..Len(todo') PROVE CallOk(p)'
    <3>1. CASE p = 1
      BY <1>0, <1>7, <2>1, <3>1 DEF CallOk
    <3>2. CASE p = 2
      <4>1. x.i = f.i + 1 /\ x.i <= Len(timers') /\ anim'[timers'[x.i]].state = "resolved"
        BY <1>0, <1>3, <1>6, <2>1
      <4> QED
        BY <1>3, <1>7, <3>2, <4>1 DEF CallOk
    <3>3. CASE p = 3
      BY <1>0, <1>3, <1>6, <1>7, <3>3 DEF CallOk
    <3> QED
      BY <1>8, <3>1, <3>2, <3>3
  <2> QED
    BY <1>1, <1>9, <2>2 DEF CallsOk
<1>13. Pending' = Pending
  BY <1>2, <1>7, <1>9 DEF Pending, Waits
<1>14. PendingOk'
  <2>1. Runs("start")' <=> Runs("start")
    BY <1>2, <1>9
  <2> QED
    BY <1>6, <1>13, <2>1 DEF PendingOk, Await
<1>15. TimersRun'
  BY <1>1, <1>6 DEF TimersRun
<1>16. NoneLeftBehind'
  <2>1. SUFFICES ASSUME fxqueue # <<>>
                 PROVE SomeCarrier' \/ SomeToken' \/ (Under("stop")' /\ ~todo'[1].gotoEnd)
    BY DEF NoneLeftBehind
  <2>2. CASE Under("stop") /\ ~todo[1].gotoEnd
    BY <1>2, <1>7, <1>9, <2>2
  <2>3. CASE SomeCarrier
    <3>1. PICK b \in Slots : Carries(b)
      BY <2>3 DEF SomeCarrier
    <3>2. CASE b = a
      BY <1>7, <1>10, <3>1, <3>2 DEF SomeToken
    <3>3. CASE b # a
      BY <1>6, <3>1, <3>3 DEF SomeCarrier
    <3> QED
      BY <3>2, <3>3
  <2> QED
    BY <1>1, <1>2, <2>1, <2>2, <2>3 DEF NoneLeftBehind
<1>17. ASSUME NEW b \in Slots, b # a,
              \E k \in 1..Len(timers) : k <= todo[1].i /\ timers[k] = b
       PROVE  \E j \in 1..Len(timers') : j <= todo'[1].i /\ timers'[j] = b
  <2>1. PICK k \in 1..Len(timers) : k <= todo[1].i /\ timers[k] = b
    BY <1>17
  <2>2. k <= i - 1
    BY <1>0, <1>2, <1>17, <2>1
  <2> QED
    BY <1>0, <1>7, <2>1, <2>2
<1>18. OneAtATime'
  <2>1. SUFFICES ASSUME ~nested, Strict PROVE AtMostOne' /\ SentinelThere'
    <3>1. \A b \in Slots : Carries(b)' => Carries(b)
      BY <1>6
    <3> QED
      BY <1>1, <1>9, <3>1, OneStays
  <2>2. AtMostOne /\ SentinelThere
    BY <1>1, <2>1 DEF OneAtATime
  <2>3. AtMostOne'
    <3>1. SomeToken' => Carries(a)
      BY <1>10 DEF SomeToken
    <3>2. Carries(a) => ~SomeCarrier'
      BY <1>6, <1>0, <2>2 DEF AtMostOne, SomeCarrier
    <3> QED
      BY <1>6, <1>10, <2>2, <3>1, <3>2 DEF AtMostOne
  <2>4. ASSUME Under("stop")', NEW b \in Slots, Carries(b)', ~Busy'
        PROVE  \E j \in 1..Len(timers') : j <= todo'[1].i /\ timers'[j] = b
    <3>1. Carries(b) /\ b # a
      BY <1>6, <2>4
    <3>2. \E k \in 1..Len(timers) : k <= todo[1].i /\ timers[k] = b
      BY <1>9, <2>2, <2>4, <3>1 DEF SentinelThere, Busy
    <3> QED
      BY <1>17, <3>1, <3>2
  <2>5. Under("stop")' \/ Under("finish")'
    BY <1>9
  <2> QED
    BY <1>9, <2>3, <2>4, <2>5 DEF SentinelThere
<1>19. LoopsSee'
  <2>1. Under("stop")' => ~(todo'[1].dequeue \/ ~todo'[1].gotoEnd)
    BY <1>7, <1>9
  <2>2. ASSUME Under("finish")', NEW b \in Slots, Carries(b)'
        PROVE  \E j \in 1..Len(timers') : j <= todo'[1].i /\ timers'[j] = b
    <3>1. Carries(b) /\ b # a
      BY <1>6, <2>2
    <3>2. \E k \in 1..Len(timers) : k <= todo[1].i /\ timers[k] = b
      BY <1>1, <1>9, <2>2, <3>1 DEF LoopsSee
    <3> QED
      BY <1>17, <3>1, <3>2
  <2> QED
    BY <2>1, <2>2 DEF LoopsSee
<1>20. AimsAtWish'
  <2>1. SUFFICES ASSUME plain PROVE AimsAtWish'
    BY DEF AimsAtWish
  <2>2. /\ ~nested /\ ~Under("stop") /\ \A b \in Slots : b <= animations => anim[b].queued
        /\ (\A b \in Slots : anim[b].state = "running" => ~anim[b].toggles) => fxshow = NoData
        /\ LeadsTo(anim, Aim, Pending, wish)
    BY <1>1, <2>1 DEF AimsAtWish
  <2>3. /\ Aim' = Aim
        /\ (\A b \in Slots : anim'[b].state = "running" => ~anim'[b].toggles) =>
             fxshow' = NoData
    BY <1>0, <1>1, <1>4, <2>2, AimStays
  <2>4. LeadsTo(anim', Aim, Pending, wish)
    BY <1>6, <2>2, LeadsStays
  <2>5. LeadsTo(anim, Aim, Pending, wish)'
    BY <1>13, <2>3, <2>4
  <2> QED
    BY <1>6, <1>9, <2>2, <2>3, <2>5 DEF AimsAtWish
<1>21. QueueApart'
  <2>1. \A b \in Slots : anim[b].state = "waiting" => anim'[b] = anim[b]
    <3>1. \A b \in Slots : b # a => anim'[b] = anim[b]
      BY <1>5 DEF Ends, OnlyOne
    <3> QED
      BY <1>0, <3>1
  <2> QED
    BY <1>1, <1>9, <1>13, <2>1, ApartStays
<1> QED
  BY <1>6, <1>11, <1>12, <1>14, <1>15, <1>16, <1>18, <1>19, <1>20, <1>21 DEF EffectsInv


LEMMA StoppingStep ==
  ASSUME EffectsInv, Stopping
  PROVE  EffectsInv'
<1>1. /\ Shape /\ CallsOk /\ PendingOk /\ QueueApart /\ OnceEach /\ TimersRun
      /\ NoneLeftBehind /\ OneAtATime /\ LoopsSee /\ AimsAtWish
  BY DEF EffectsInv
<1>2. /\ todo # <<>> /\ Now.does = "stop"
      /\ UNCHANGED <<animations, fxqueue, finish, fxOn, rafs, fresh, wish, plain, nested>>
  BY DEF Stopping, Runs
<1>3. /\ Len(todo) = 1 /\ Now = todo[1] /\ Now \in Calls /\ CallOk(1)
      /\ ~SomeToken /\ ~Runs("start") /\ ~Runs("dequeue") /\ \A p \in 1..Len(todo) : ~Token(p)
  BY <1>1, <1>2, Alone
<1>4. /\ Now.i \in Nat /\ Now.i <= Len(timers) /\ timers \in Seq(Slots)
      /\ Now.gotoEnd \in BOOLEAN /\ Now.dequeue \in BOOLEAN
  BY <1>1, <1>2, <1>3, CallFields DEF CallOk, Shape
<1>5. Under("stop") /\ ~Under("finish") /\ ~finish
  BY <1>1, <1>2, <1>3 DEF Under, CallsOk
<1>6. ~plain
  BY <1>1, <1>5 DEF AimsAtWish
<1>7. ASSUME Now.i = 0,
             todo' = IF Now.dequeue \/ ~Now.gotoEnd THEN Append(Callers, Call("dequeue"))
                     ELSE Callers,
             UNCHANGED <<anim, timers, shown, fxshow>>
      PROVE  EffectsInv'
  <2>1. ASSUME NEW b \in Slots PROVE ~\E j \in 1..Len(timers) : j <= todo[1].i /\ timers[j] = b
    BY <1>3, <1>7
  <2>2. \A b : Carries(b)' <=> Carries(b)
    BY <1>7 DEF Carries
  <2>3. TimersRun' /\ OnceEach'
    BY <1>1, <1>2, <1>7 DEF TimersRun, OnceEach
  <2>4. ASSUME Now.dequeue \/ ~Now.gotoEnd
        PROVE  EffectsInv'
    <3>1. Call("dequeue") \in Calls /\ Call("dequeue").does = "dequeue"
      BY NewCalls
    <3>2. /\ todo' \in Seq(Calls) /\ Len(todo') = 1 /\ todo' # <<>>
          /\ todo'[1].does = "dequeue" /\ Now' = todo'[1]
      <4>1. todo' \in Seq(Calls) /\ Becomes(Call("dequeue"))
        BY <1>1, <1>2, <1>7, <2>4, <3>1, StackBecomes
      <4>2. Len(todo') = 1 /\ todo'[1] = Call("dequeue")
        BY <1>3, <4>1 DEF Becomes
      <4>3. Now' = todo'[1]
        BY <4>2 DEF Now, Last
      <4>4. todo' # <<>>
        BY <4>2, NotEmpty
      <4> QED
        BY <3>1, <4>1, <4>2, <4>3, <4>4
    <3>3. \A p \in 1..Len(todo') : p = 1
      BY <3>2
    <3>4. /\ ~Under("stop")' /\ ~Under("finish")' /\ ~Runs("start")' /\ Runs("dequeue")'
          /\ \A p : p = 1 => Token(p)'
      BY <3>2 DEF Under, Runs, Token
    <3>5. \A b \in Slots : anim[b].state # "running"
      BY <1>1, <1>3, <1>5, <2>1, <2>4 DEF LoopsSee
    <3>6. ~SomeCarrier'
      BY <2>2, <3>5 DEF SomeCarrier, Carries
    <3>7. SomeToken'
      BY <3>2, <3>4 DEF SomeToken
    <3>8. Shape'
      BY <1>1, <1>2, <1>7, <3>2 DEF Shape
    <3>9. CallsOk'
      <4>1. ASSUME NEW p \in 1..Len(todo') PROVE CallOk(p)'
        BY <3>2, <3>3 DEF CallOk
      <4> QED
        BY <1>2, <1>5, <3>4, <4>1 DEF CallsOk
    <3>10. Pending' = Pending
      BY <1>2, <1>3, <1>5, <3>4 DEF Pending, Waits
    <3>11. PendingOk'
      BY <1>1, <1>3, <1>7, <3>4, <3>10 DEF PendingOk, Await
    <3>12. NoneLeftBehind'
      BY <3>7 DEF NoneLeftBehind
    <3>13. OneAtATime'
      <4>1. AtMostOne'
        BY <3>3, <3>6 DEF AtMostOne, SomeCarrier
      <4>2. SentinelThere'
        BY <3>4 DEF SentinelThere
      <4> QED
        BY <4>1, <4>2 DEF OneAtATime, AtMostOne
    <3>14. LoopsSee' /\ AimsAtWish' /\ QueueApart'
      BY <1>2, <1>6, <3>4 DEF LoopsSee, AimsAtWish, QueueApart
    <3> QED
      BY <2>3, <3>8, <3>9, <3>11, <3>12, <3>13, <3>14 DEF EffectsInv
  <2>5. ASSUME ~Now.dequeue, Now.gotoEnd
        PROVE  EffectsInv'
    <3>1. todo' \in Seq(Calls) /\ Len(todo') = 0 /\ todo' = <<>>
      <4>1. todo' \in Seq(Calls) /\ Len(todo') = 0
        BY <1>1, <1>2, <1>3, <1>7, <2>5, StackPops DEF Pops
      <4> QED
        BY <4>1
    <3>2. /\ ~Under("stop")' /\ ~Under("finish")' /\ ~Runs("start")' /\ ~Runs("dequeue")'
          /\ ~SomeToken' /\ \A p \in 1..Len(todo') : ~Token(p)'
      BY <3>1 DEF Under, Runs, SomeToken
    <3>3. Shape'
      BY <1>1, <1>2, <1>7, <3>1 DEF Shape
    <3>4. CallsOk'
      BY <1>2, <1>5, <3>1, <3>2 DEF CallsOk
    <3>5. Pending' = Pending
      BY <1>2, <1>3, <1>5, <3>2 DEF Pending, Waits
    <3>6. PendingOk'
      BY <1>1, <1>3, <1>7, <3>2, <3>5 DEF PendingOk, Await
    <3>7. NoneLeftBehind'
      BY <1>1, <1>2, <1>3, <2>2, <2>5 DEF NoneLeftBehind, SomeCarrier
    <3>8. OneAtATime'
      <4>1. SUFFICES ASSUME ~nested PROVE AtMostOne' /\ SentinelThere'
        BY <1>2 DEF OneAtATime, AtMostOne
      <4>2. AtMostOne /\ SentinelThere
        BY <1>1, <1>5, <4>1 DEF OneAtATime, Strict
      <4>3. AtMostOne'
        BY <2>2, <3>2, <4>2 DEF AtMostOne
      <4>4. SomeCarrier' => Busy'
        BY <1>2, <1>5, <2>1, <2>2, <4>2 DEF SentinelThere, SomeCarrier, Busy
      <4> QED
        BY <3>2, <4>3, <4>4 DEF SentinelThere
    <3>9. LoopsSee' /\ AimsAtWish' /\ QueueApart'
      BY <1>2, <1>6, <3>2 DEF LoopsSee, AimsAtWish, QueueApart
    <3> QED
      BY <2>3, <3>3, <3>4, <3>6, <3>7, <3>8, <3>9 DEF EffectsInv
  <2> QED
    BY <1>4, <2>4, <2>5
<1>8. ASSUME Now.i > 0, anim[timers[Now.i]].state # "running",
             todo' = Append(Callers, [Now EXCEPT !.i = @ - 1]),
             UNCHANGED <<anim, timers, shown, fxshow>>
      PROVE  EffectsInv'
  <2> DEFINE f == [Now EXCEPT !.i = @ - 1]
  <2>1. /\ f \in Calls /\ f.does = Now.does /\ f.i = Now.i - 1 /\ f.old = Now.old
        /\ f.gotoEnd = Now.gotoEnd /\ f.dequeue = Now.dequeue
    <3>1. Now.i - 1 \in Nat
      BY <1>4, <1>8
    <3> QED
      BY <1>3, <3>1 DEF Calls
  <2>2. todo' = Append(Callers, f)
    BY <1>8
  <2> HIDE DEF f
  <2> QED
    BY <1>2, <1>8, <2>1, <2>2, LoopSkips
<1>9. ASSUME Now.i > 0, anim[timers[Now.i]].state = "running", Now.gotoEnd,
             Resolves(timers[Now.i], Callers \o <<[Now EXCEPT !.i = @ - 1, !.dequeue = FALSE],
                                                  At("splice", Now.i)>>),
             UNCHANGED timers
      PROVE  EffectsInv'
  <2> DEFINE f == [Now EXCEPT !.i = @ - 1, !.dequeue = FALSE]
  <2>1. /\ f \in Calls /\ f.does = Now.does /\ f.i = Now.i - 1
        /\ f.gotoEnd = Now.gotoEnd /\ ~f.dequeue
    <3>1. Now.i - 1 \in Nat
      BY <1>4, <1>9
    <3> QED
      BY <1>3, <3>1 DEF Calls
  <2>2. Resolves(timers[Now.i], Callers \o <<f, At("splice", Now.i)>>)
    BY <1>9
  <2> HIDE DEF f
  <2> QED
    BY <1>2, <1>9, <2>1, <2>2, LoopResolves
<1>10. ASSUME Now.i > 0, anim[timers[Now.i]].state = "running", ~Now.gotoEnd,
              Rejects(timers[Now.i]), timers' = RemoveAt(timers, Now.i),
              todo' = Append(Callers, [Now EXCEPT !.i = @ - 1, !.dequeue = FALSE])
       PROVE  EffectsInv'
  <2>0. PICK i \in 1..Len(timers), a \in Slots :
          i = Now.i /\ a = timers[i] /\ anim[a].state = "running" /\ i \in Nat
    <3>1. Now.i \in 1..Len(timers) /\ timers[Now.i] \in Slots
      BY <1>4, <1>10
    <3> QED
      BY <1>4, <1>10, <3>1
  <2> DEFINE f == [Now EXCEPT !.i = @ - 1, !.dequeue = FALSE]
  <2>1. /\ f \in Calls /\ f.does = "stop" /\ f.i = i - 1 /\ ~f.gotoEnd
    <3>1. Now.i - 1 \in Nat
      BY <1>4, <1>10
    <3> QED
      BY <1>2, <1>3, <1>10, <2>0, <3>1 DEF Calls
  <2>2. todo' = Append(Callers, f)
    BY <1>10
  <2> HIDE DEF f
  <2>3. /\ todo' \in Seq(Calls) /\ Len(todo') = 1 /\ todo'[1] = f /\ todo' # <<>> /\ Now' = f
    <3>1. todo' \in Seq(Calls) /\ Len(todo') = 1 /\ todo'[1] = f
      BY <1>1, <1>2, <1>3, <2>1, <2>2, StackBecomes DEF Becomes
    <3>2. Now' = todo'[1]
      BY <3>1 DEF Now, Last
    <3>3. todo' # <<>>
      BY <3>1
    <3> QED
      BY <3>1, <3>2, <3>3
  <2>4. Ends(a, "rejected") /\ UNCHANGED <<shown, fxshow>>
    <3>1. Rejects(a)
      BY <1>10, <2>0
    <3>2. UNCHANGED <<shown, fxshow>>
      BY <3>1 DEF Rejects
    <3> QED
      BY <1>1, <2>0, <3>1, <3>2, Rejected
  <2>5. /\ OnceEach'
        /\ \A b \in Slots : Carries(b)' <=> Carries(b) /\ b # a
        /\ \A b \in Slots : anim'[b].state = "running" => b # a /\ anim[b].state = "running"
        /\ \A b \in Slots : anim'[b].state = "none" <=> anim[b].state = "none"
        /\ anim' \in [Slots -> Animations]
        /\ Await(anim', Pending, Runs("start"))
    BY <1>1, <2>0, <2>4, EndsLeaves
  <2>6. \A p \in 1..Len(todo') : p = 1
    BY <2>3
  <2>7. /\ Under("stop")' /\ ~Under("finish")' /\ ~Runs("start")' /\ ~Runs("dequeue")'
        /\ \A p : p = 1 => ~Token(p)'
    BY <2>1, <2>3 DEF Under, Runs, Token
  <2>8. ~SomeToken' /\ \A p \in 1..Len(todo') : ~Token(p)'
    BY <2>6, <2>7 DEF SomeToken
  <2>9. timers' = RemoveAt(timers, i) /\ timers' \in Seq(Slots) /\ Len(timers') = Len(timers) - 1
    BY <1>4, <1>10, <2>0, TakenOff
  <2>10. ASSUME NEW b \in Slots, b # a, NEW k \in 1..Len(timers), timers[k] = b
         PROVE  /\ \E j \in 1..Len(timers') : timers'[j] = b
                /\ k <= todo[1].i => \E j \in 1..Len(timers') : j <= todo'[1].i /\ timers'[j] = b
    <3>1. k # i
      BY <2>0, <2>10
    <3>2. /\ \E j \in 1..Len(timers') : j <= k /\ timers'[j] = timers[k]
          /\ k < i => k \in 1..Len(timers') /\ timers'[k] = timers[k]
      BY <1>4, <2>9, <3>1, PlacesStay
    <3>3. k <= todo[1].i => k < i /\ k <= f.i
      BY <1>3, <2>0, <2>1, <3>1
    <3> QED
      BY <2>3, <2>10, <3>2, <3>3
  <2>11. Shape'
    <3>1. \A b \in Slots : anim'[b].state = "none" <=> b > animations'
      <4>1. ASSUME NEW b \in Slots PROVE anim'[b].state = "none" <=> b > animations'
        <5>1. anim[b].state = "none" <=> b > animations
          BY <1>1 DEF Shape
        <5> QED
          BY <1>2, <2>5, <5>1
      <4> QED
        BY <4>1
    <3> QED
      BY <1>1, <1>2, <2>3, <2>4, <2>5, <2>9, <3>1 DEF Shape
  <2>12. CallsOk'
    <3>1. i - 1 <= Len(timers')
      BY <1>4, <2>9, <2>0
    <3>2. ASSUME NEW p \in 1..Len(todo') PROVE CallOk(p)'
      <4>1. p = 1
        BY <2>6, <3>2
      <4> QED
        BY <2>1, <2>3, <3>1, <4>1 DEF CallOk
    <3> QED
      BY <1>2, <1>5, <2>7, <3>2 DEF CallsOk
  <2>13. Pending' = Pending
    BY <1>2, <1>3, <1>5, <2>7 DEF Pending, Waits
  <2>14. PendingOk'
    <3>1. Runs("start")' <=> Runs("start")
      BY <1>3, <2>7
    <3> QED
      BY <2>5, <2>13, <3>1 DEF PendingOk, Await
  <2>15. TimersRun'
    <3>1. ASSUME NEW b \in Slots, anim'[b].state = "running"
          PROVE  \E j \in 1..Len(timers') : timers'[j] = b
      <4>1. b # a /\ \E k \in 1..Len(timers) : timers[k] = b
        BY <1>1, <2>5, <3>1 DEF TimersRun
      <4> QED
        BY <2>10, <4>1
    <3>2. timers # <<>>
      BY <1>4, <2>0
    <3> QED
      BY <1>1, <1>2, <3>1, <3>2 DEF TimersRun
  <2>16. NoneLeftBehind'
    BY <2>1, <2>3, <2>7 DEF NoneLeftBehind
  <2>17. OneAtATime'
    <3>1. SUFFICES ASSUME ~nested PROVE AtMostOne' /\ SentinelThere'
      BY <1>2 DEF OneAtATime, AtMostOne
    <3>2. AtMostOne /\ SentinelThere
      BY <1>1, <1>5, <3>1 DEF OneAtATime, Strict
    <3>3. AtMostOne'
      BY <2>5, <2>8, <3>2 DEF AtMostOne
    <3>4. ASSUME NEW b \in Slots, Carries(b)', ~Busy'
          PROVE  \E j \in 1..Len(timers') : j <= todo'[1].i /\ timers'[j] = b
      <4>1. Carries(b) /\ b # a
        BY <2>5, <3>4
      <4>2. \E k \in 1..Len(timers) : k <= todo[1].i /\ timers[k] = b
        BY <1>2, <1>5, <3>2, <3>4, <4>1 DEF SentinelThere, Busy
      <4> QED
        BY <2>10, <4>1, <4>2
    <3> QED
      BY <2>7, <3>3, <3>4 DEF SentinelThere
  <2>18. LoopsSee'
    <3>1. ASSUME NEW b \in Slots, anim'[b].state = "running"
          PROVE  \E j \in 1..Len(timers') : j <= todo'[1].i /\ timers'[j] = b
      <4>1. b # a /\ \E k \in 1..Len(timers) : k <= todo[1].i /\ timers[k] = b
        BY <1>1, <1>3, <1>5, <1>10, <2>5, <3>1 DEF LoopsSee
      <4> QED
        BY <2>10, <4>1
    <3> QED
      BY <2>3, <2>7, <3>1 DEF LoopsSee
  <2>19. AimsAtWish' /\ QueueApart'
    BY <1>2, <1>6, <2>7 DEF AimsAtWish, QueueApart
  <2> QED
    BY <2>5, <2>11, <2>12, <2>14, <2>15, <2>16, <2>17, <2>18, <2>19 DEF EffectsInv
<1> QED
  BY <1>7, <1>8, <1>9, <1>10, ZenonT(40) DEF Stopping


LEMMA FinishingStep ==
  ASSUME EffectsInv, Finishing
  PROVE  EffectsInv'
<1>1. /\ Shape /\ CallsOk /\ PendingOk /\ QueueApart /\ OnceEach /\ TimersRun
      /\ NoneLeftBehind /\ OneAtATime /\ LoopsSee /\ AimsAtWish
  BY DEF EffectsInv
<1>2. /\ todo # <<>> /\ Now.does = "finish"
      /\ UNCHANGED <<animations, fxqueue, timers, fxOn, rafs, fresh, wish, plain, nested>>
  BY DEF Finishing, Runs
<1>3. /\ Len(todo) = 1 /\ Now = todo[1] /\ Now \in Calls /\ CallOk(1)
      /\ ~SomeToken /\ ~Runs("start") /\ ~Runs("dequeue") /\ \A p \in 1..Len(todo) : ~Token(p)
  BY <1>1, <1>2, Alone
<1>4. /\ Now.i \in Nat /\ Now.i <= Len(timers) /\ timers \in Seq(Slots)
      /\ Now.old \in Seq(0..MaxAnimations)
  BY <1>1, <1>2, <1>3, CallFields DEF CallOk, Shape
<1>5. ~Under("stop") /\ Under("finish") /\ finish
  BY <1>1, <1>2, <1>3 DEF Under, CallsOk
<1>6. Pending = Waiting(Now.old) /\ Await(anim, Pending, FALSE)
  BY <1>1, <1>3, <1>5 DEF Pending, Waits, PendingOk, Await
<1>7. ASSUME Now.i > 0, anim[timers[Now.i]].state = "running",
             Resolves(timers[Now.i], Callers \o <<[Now EXCEPT !.i = @ - 1],
                                                  At("splice", Now.i)>>),
             UNCHANGED finish
      PROVE  EffectsInv'
  <2> DEFINE f == [Now EXCEPT !.i = @ - 1]
  <2>1. /\ f \in Calls /\ f.does = Now.does /\ f.i = Now.i - 1 /\ f.old = Now.old
        /\ f.gotoEnd = Now.gotoEnd
    <3>1. Now.i - 1 \in Nat
      BY <1>4, <1>7
    <3> QED
      BY <1>3, <3>1 DEF Calls
  <2>2. Resolves(timers[Now.i], Callers \o <<f, At("splice", Now.i)>>)
    BY <1>7
  <2> HIDE DEF f
  <2> QED
    BY <1>2, <1>7, <2>1, <2>2, LoopResolves
<1>8. ASSUME Now.i > 0, anim[timers[Now.i]].state # "running" \/ ~anim[timers[Now.i]].queued,
             todo' = Append(Callers, [Now EXCEPT !.i = @ - 1]),
             UNCHANGED <<anim, shown, fxshow, finish>>
      PROVE  EffectsInv'
  <2> DEFINE f == [Now EXCEPT !.i = @ - 1]
  <2>1. /\ f \in Calls /\ f.does = Now.does /\ f.i = Now.i - 1 /\ f.old = Now.old
        /\ f.gotoEnd = Now.gotoEnd /\ f.dequeue = Now.dequeue
    <3>1. Now.i - 1 \in Nat
      BY <1>4, <1>8
    <3> QED
      BY <1>3, <3>1 DEF Calls
  <2>2. todo' = Append(Callers, f)
    BY <1>8
  <2> HIDE DEF f
  <2> QED
    BY <1>2, <1>8, <2>1, <2>2, LoopSkips
<1>9. ASSUME Now.i = 0 PROVE ~SomeCarrier /\ fxqueue = <<>>
  <2>1. ASSUME NEW b \in Slots, Carries(b) PROVE FALSE
    BY <1>1, <1>3, <1>5, <1>9, <2>1 DEF LoopsSee
  <2>2. ~SomeCarrier
    BY <2>1 DEF SomeCarrier
  <2> QED
    BY <1>1, <1>3, <1>5, <2>2 DEF NoneLeftBehind
<1>10. ASSUME Now.i = 0, Now.old = <<>>, todo' = Callers, finish' = FALSE,
              UNCHANGED <<anim, shown, fxshow>>
       PROVE  EffectsInv'
  <2>1. todo' \in Seq(Calls) /\ Len(todo') = 0 /\ todo' = <<>>
    <3>1. todo' \in Seq(Calls) /\ Len(todo') = 0
      BY <1>1, <1>2, <1>3, <1>10, StackPops DEF Pops
    <3> QED
      BY <3>1
  <2>2. /\ ~Under("stop")' /\ ~Under("finish")' /\ ~Runs("start")' /\ ~Runs("dequeue")'
        /\ ~SomeToken' /\ \A p \in 1..Len(todo') : ~Token(p)'
    BY <2>1 DEF Under, Runs, SomeToken
  <2>3. \A b : Carries(b)' <=> Carries(b)
    BY <1>10 DEF Carries
  <2>4. Shape'
    BY <1>1, <1>2, <1>10, <2>1 DEF Shape
  <2>5. CallsOk'
    BY <1>10, <2>1, <2>2 DEF CallsOk
  <2>6. Pending' = Pending
    <3>1. Pending' = Waiting(fxqueue)
      BY <1>2, <2>2 DEF Pending, Waits
    <3> QED
      BY <1>6, <1>9, <1>10, <3>1
  <2>7. PendingOk' /\ OnceEach' /\ TimersRun'
    BY <1>1, <1>2, <1>3, <1>10, <2>2, <2>6 DEF PendingOk, Await, OnceEach, TimersRun
  <2>8. NoneLeftBehind' /\ QueueApart'
    BY <1>2, <1>9, <1>10, <2>2 DEF NoneLeftBehind, QueueApart
  <2>9. OneAtATime'
    <3>1. ~SomeCarrier'
      BY <1>9, <1>10, <2>3 DEF SomeCarrier
    <3>2. AtMostOne'
      BY <2>2, <3>1 DEF AtMostOne, SomeCarrier
    <3>3. SentinelThere'
      BY <2>2, <3>1 DEF SentinelThere
    <3> QED
      BY <3>2, <3>3 DEF OneAtATime, AtMostOne
  <2>10. LoopsSee' /\ AimsAtWish'
    BY <1>1, <1>2, <1>10, <2>2, <2>6 DEF LoopsSee, AimsAtWish, Aim
  <2> QED
    BY <2>4, <2>5, <2>7, <2>8, <2>9, <2>10 DEF EffectsInv
<1>11. ASSUME Now.i = 0, Now.old # <<>>,
              todo' = Callers \o <<[Now EXCEPT !.old = Tail(@)]>>
                      \o (IF Head(Now.old) = InProgress THEN <<>>
                          ELSE <<Of("start", Head(Now.old))>>),
              UNCHANGED <<anim, shown, fxshow, finish>>
       PROVE  EffectsInv'
  <2>0. PICK h \in 0..MaxAnimations, rest \in Seq(0..MaxAnimations) :
          h = Head(Now.old) /\ rest = Tail(Now.old) /\ Now.old = <<h>> \o rest
    <3>1. /\ Head(Now.old) \in 0..MaxAnimations /\ Tail(Now.old) \in Seq(0..MaxAnimations)
          /\ Now.old = <<Head(Now.old)>> \o Tail(Now.old)
      BY <1>4, <1>11, HeadAndTail
    <3> QED
      BY <3>1
  <2> DEFINE f == [Now EXCEPT !.old = Tail(@)]
  <2>1. f \in Calls /\ f.does = "finish" /\ f.i = 0 /\ f.old = rest
    <3>1. Tail(Now.old) = rest /\ rest \in Seq(0..MaxAnimations)
      BY <2>0
    <3> QED
      BY <1>2, <1>3, <1>11, <3>1 DEF Calls
  <2>2. /\ h = InProgress => todo' = (Callers \o <<f>>) \o <<>>
        /\ h # InProgress => todo' = (Callers \o <<f>>) \o <<Of("start", h)>>
    BY <1>11, <2>0
  <2> HIDE DEF f
  <2>3. ASSUME NEW b \in Slots PROVE ~Carries(b) /\ ~Carries(b)'
    BY <1>9, <1>11, <2>3 DEF SomeCarrier, Carries
  <2>4. ~SomeCarrier'
    BY <2>3 DEF SomeCarrier
  <2>5. rest \in Seq(Slots) /\ Waiting(rest) = rest
    <3>1. Pending = IF h = InProgress THEN rest ELSE <<h>> \o rest
      BY <1>6, <1>11, <2>0 DEF Waiting
    <3>2. Pending \in Seq(Slots)
      BY <1>6 DEF Await
    <3>3. \A j \in 1..Len(rest) : rest[j] \in Slots
      <4>1. CASE h = InProgress
        BY <3>1, <3>2, <4>1
      <4>2. CASE h # InProgress
        <5>1. /\ Len(<<h>> \o rest) = Len(rest) + 1 /\ Len(rest) \in Nat
              /\ \A j \in 1..Len(rest) : (<<h>> \o rest)[j + 1] = rest[j]
          BY <2>0, InFront
        <5>2. \A j \in 1..Len(rest) : j + 1 \in 1..Len(<<h>> \o rest)
          BY <5>1
        <5>3. <<h>> \o rest \in Seq(Slots)
          BY <3>1, <3>2, <4>2
        <5>4. \A j \in 1..Len(<<h>> \o rest) : (<<h>> \o rest)[j] \in Slots
          BY <5>3
        <5> QED
          BY <5>1, <5>2, <5>4
      <4> QED
        BY <4>1, <4>2
    <3>4. rest \in Seq(Slots)
      <4>1. rest \in Seq(0..MaxAnimations)
        BY <2>0
      <4> QED
        BY <3>3, <4>1
    <3>5. rest # <<>> => Head(rest) \in Slots /\ Head(rest) # InProgress
      BY <3>4, HeadAndTail DEF InProgress, Slots
    <3> QED
      BY <3>4, <3>5 DEF Waiting
  <2>6. TimersRun' /\ OnceEach' /\ QueueApart' /\ fxqueue' = <<>>
    <3>1. fxqueue' = <<>>
      BY <1>2, <1>9, <1>11
    <3> QED
      BY <1>1, <1>2, <1>11, <3>1, NothingWaits DEF TimersRun, OnceEach, QueueApart
  <2>7. ASSUME h = InProgress
        PROVE  EffectsInv'
    <3>1. /\ todo' \in Seq(Calls) /\ Len(todo') = 1 /\ todo'[1] = f /\ todo' # <<>> /\ Now' = f
      <4>0. todo' = Callers \o <<f>>
        <5>1. Callers \in Seq(Calls)
          BY <1>1, <1>2, TopOfStack
        <5>2. Callers \o <<f>> = Append(Callers, f) /\ Append(Callers, f) \in Seq(Calls)
          BY <2>1, <5>1, Joined, Appended
        <5> QED
          BY <2>1, <2>2, <2>7, <5>2, Joined
      <4>1. todo' \in Seq(Calls) /\ Len(todo') = 1 /\ todo'[1] = f
        BY <1>1, <1>2, <1>3, <2>1, <4>0, StackBecomes DEF Becomes
      <4>2. Now' = todo'[1]
        BY <4>1 DEF Now, Last
      <4>3. todo' # <<>>
        <5>1. Len(todo') # 0
          BY <4>1
        <5> QED
          BY <5>1, NotEmpty
      <4> QED
        BY <4>1, <4>2, <4>3
    <3>2. /\ \A p \in 1..Len(todo') : p = 1
          /\ \A p : p = 1 => ~Token(p)'
      BY <2>1, <3>1 DEF Token
    <3>3. /\ ~Under("stop")' /\ Under("finish")' /\ ~Runs("start")' /\ ~Runs("dequeue")'
          /\ ~SomeToken' /\ \A p \in 1..Len(todo') : ~Token(p)'
      BY <2>1, <3>1, <3>2 DEF Under, Runs, SomeToken
    <3>4. Shape'
      BY <1>1, <1>2, <1>11, <3>1 DEF Shape
    <3>5. CallsOk'
      <4>1. ASSUME NEW p \in 1..Len(todo') PROVE CallOk(p)'
        <5>1. 0 <= Len(timers')
          BY <1>2, <1>4
        <5> QED
          BY <2>1, <3>1, <3>2, <5>1 DEF CallOk
      <4> QED
        BY <1>5, <1>11, <2>6, <3>3, <4>1 DEF CallsOk
    <3>6. Pending' = Pending
      <4>1. Pending' = rest
        BY <2>1, <2>5, <3>1, <3>3 DEF Pending, Waits
      <4>2. Pending = rest
        BY <1>6, <1>11, <2>0, <2>7 DEF Waiting
      <4> QED
        BY <4>1, <4>2
    <3>7. PendingOk'
      BY <1>1, <1>3, <1>11, <3>3, <3>6 DEF PendingOk, Await
    <3>8. NoneLeftBehind'
      BY <2>6 DEF NoneLeftBehind
    <3>9. OneAtATime'
      <4>1. AtMostOne'
        BY <2>4, <3>3 DEF AtMostOne, SomeCarrier
      <4>2. SentinelThere'
        BY <3>3 DEF SentinelThere
      <4> QED
        BY <4>1, <4>2 DEF OneAtATime, AtMostOne
    <3>10. LoopsSee'
      BY <2>3, <3>3 DEF LoopsSee
    <3>11. AimsAtWish'
      BY <1>1, <1>2, <1>11, <3>3, <3>6 DEF AimsAtWish, Aim
    <3> QED
      BY <2>6, <3>4, <3>5, <3>7, <3>8, <3>9, <3>10, <3>11 DEF EffectsInv
  <2>8. ASSUME h # InProgress
        PROVE  EffectsInv'
    <3>1. /\ h \in Slots /\ anim[h].state = "waiting" /\ anim[h].queued
          /\ Pending = <<h>> \o rest
      <4>1. h \in Slots
        BY <2>0, <2>8 DEF Slots, InProgress
      <4>2. Pending = <<h>> \o rest
        BY <1>6, <1>11, <2>0, <2>8 DEF Waiting
      <4>3. Pending[1] = h /\ 1 \in 1..Len(Pending)
        BY <2>0, <4>2, InFront
      <4> QED
        BY <1>6, <4>1, <4>2, <4>3 DEF Await
    <3> DEFINE y == Of("start", h)
    <3>2. y \in Calls /\ y.does = "start" /\ y.a = h
      BY <1>4, <3>1, CallNamed
    <3>3. todo' = (Callers \o <<f>>) \o <<y>>
      BY <2>2, <2>8
    <3> HIDE DEF y
    <3>4. /\ todo' \in Seq(Calls) /\ Len(todo') = 2 /\ todo'[1] = f /\ todo'[2] = y
          /\ todo' # <<>> /\ Now' = y
      <4>1. todo' \in Seq(Calls) /\ Calling(f, y)
        BY <1>1, <1>2, <2>1, <3>2, <3>3, StackCalling
      <4>2. Len(todo') = 2 /\ todo'[1] = f /\ todo'[2] = y
        BY <1>3, <4>1 DEF Calling
      <4>3. Now' = todo'[2]
        BY <4>2 DEF Now, Last
      <4>4. todo' # <<>>
        <5>1. Len(todo') # 0
          BY <4>2
        <5> QED
          BY <5>1, NotEmpty
      <4> QED
        BY <4>1, <4>2, <4>3, <4>4
    <3>5. \A p \in 1..Len(todo') : p = 1 \/ p = 2
      BY <3>4
    <3>6. \A p : (p = 1 => ~Token(p)') /\ (p = 2 => Token(p)')
      BY <1>11, <2>1, <3>1, <3>2, <3>4 DEF Token
    <3>7. ~Under("stop")' /\ Under("finish")' /\ Runs("start")' /\ ~Runs("dequeue")'
      BY <2>1, <3>2, <3>4 DEF Under, Runs
    <3>8. Shape'
      BY <1>1, <1>2, <1>11, <3>4 DEF Shape
    <3>9. CallsOk'
      <4>1. ASSUME NEW p \in 1..Len(todo') PROVE CallOk(p)'
        <5>1. 0 <= Len(timers')
          BY <1>2, <1>4
        <5>2. CASE p = 1
          BY <2>1, <3>4, <5>1, <5>2 DEF CallOk
        <5>3. CASE p = 2
          BY <1>11, <3>1, <3>2, <3>4, <5>3 DEF CallOk
        <5> QED
          BY <3>5, <5>2, <5>3
      <4> QED
        BY <1>5, <1>11, <2>6, <3>7, <4>1 DEF CallsOk
    <3>10. Pending' = Pending
      <4>1. Waits' = rest
        BY <2>1, <2>5, <3>4, <3>7 DEF Waits
      <4> QED
        BY <3>1, <3>2, <3>4, <3>7, <4>1 DEF Pending
    <3>11. PendingOk'
      BY <1>1, <1>3, <1>11, <3>7, <3>10 DEF PendingOk, Await
    <3>12. NoneLeftBehind'
      BY <2>6 DEF NoneLeftBehind
    <3>13. OneAtATime'
      <4>1. \A p \in 1..Len(todo') : Token(p)' => p = 2
        BY <3>5, <3>6
      <4>2. AtMostOne'
        BY <2>4, <4>1 DEF AtMostOne, SomeCarrier
      <4>3. SentinelThere'
        BY <3>7 DEF SentinelThere
      <4> QED
        BY <4>2, <4>3 DEF OneAtATime, AtMostOne
    <3>14. LoopsSee'
      BY <2>3, <3>7 DEF LoopsSee
    <3>15. AimsAtWish'
      BY <1>1, <1>2, <1>11, <3>7, <3>10 DEF AimsAtWish, Aim
    <3> QED
      BY <2>6, <3>8, <3>9, <3>11, <3>12, <3>13, <3>14, <3>15 DEF EffectsInv
  <2> QED
    BY <2>7, <2>8
<1> QED
  BY <1>7, <1>8, <1>10, <1>11, ZenonT(40) DEF Finishing

-----------------------------------------------------------------------------
(********************************* theorems ********************************)
LEMMA EffectsStart ==
  ASSUME FInit
  PROVE  EffectsInv
<1>1. /\ animations = 0 /\ anim = [a \in 1..MaxAnimations |-> NoAnimation]
      /\ fxqueue = <<>> /\ timers = <<>> /\ todo = <<>>
      /\ shown \in BOOLEAN /\ fxshow = NoData /\ finish = FALSE
      /\ fxOn = FALSE /\ rafs = 0 /\ fresh = FALSE
      /\ wish = shown /\ plain = TRUE /\ nested = FALSE
  BY DEF FInit
<1>2. \A a \in Slots : anim[a] = NoAnimation
  BY <1>1 DEF Slots
<1>3. /\ NoAnimation \in Animations /\ NoAnimation.state = "none"
      /\ NoAnimation.completes = 0
  BY DEF NoAnimation, Animations, Kinds, States
<1>4. Len(todo) = 0 /\ Len(timers) = 0
  BY <1>1
<1>5. Shape
  <2>1. anim \in [Slots -> Animations]
    BY <1>1, <1>3 DEF Slots
  <2>2. animations \in 0..MaxAnimations /\ 0 \in Nat
    BY <1>1
  <2>3. fxshow \in [there : BOOLEAN, knows : BOOLEAN, hidden : BOOLEAN]
    BY <1>1, NoDataIs DEF ShowData
  <2>4. /\ fxqueue \in Seq(0..MaxAnimations) /\ timers \in Seq(Slots) /\ todo \in Seq(Calls)
    BY <1>1
  <2>5. \A a \in Slots : anim[a].state = "none" <=> a > animations
    BY <1>1, <1>2, <1>3 DEF Slots
  <2> QED
    BY <1>1, <2>1, <2>2, <2>3, <2>4, <2>5 DEF Shape
<1>6. CallsOk
  BY <1>1, <1>4 DEF CallsOk, Under
<1>7. Pending = <<>> /\ ~Runs("start") /\ ~Under("stop") /\ ~Under("finish")
  BY <1>1 DEF Pending, Waits, Waiting, Runs, Under
<1>8. PendingOk /\ OnceEach
  BY <1>2, <1>3, <1>7 DEF PendingOk, Await, OnceEach
<1>9. ~SomeToken /\ ~SomeCarrier
  BY <1>2, <1>3, <1>4 DEF SomeToken, SomeCarrier, Carries
<1>10. TimersRun /\ NoneLeftBehind /\ LoopsSee /\ QueueApart
  BY <1>1, <1>2, <1>3, <1>7 DEF TimersRun, NoneLeftBehind, LoopsSee, QueueApart
<1>11. OneAtATime
  BY <1>7, <1>9 DEF OneAtATime, AtMostOne, SentinelThere, SomeToken, SomeCarrier
<1>12. AimsAtWish
  <2>1. Aim = wish /\ wish \in BOOLEAN
    BY <1>1, <1>2, <1>3 DEF Aim
  <2>2. LeadsTo(anim, Aim, <<>>, wish)
    <3> DEFINE f == [j \in 0..0 |-> wish]
    <3>1. /\ f \in [0..Len(<<>>) -> BOOLEAN] /\ f[0] = wish /\ f[Len(<<>>)] = wish
          /\ \A j \in 1..Len(<<>>) : FALSE
      BY <2>1
    <3> HIDE DEF f
    <3> QED
      BY <2>1, <3>1 DEF LeadsTo
  <2>3. \A a \in Slots : ~(a <= animations)
    BY <1>1 DEF Slots
  <2> QED
    BY <1>1, <1>7, <2>2, <2>3 DEF AimsAtWish
<1> QED
  BY <1>5, <1>6, <1>8, <1>10, <1>11, <1>12 DEF EffectsInv

LEMMA EffectsStutter ==
  ASSUME EffectsInv, UNCHANGED fVars
  PROVE  EffectsInv'
<1>1. UNCHANGED <<animations, anim, fxqueue, timers, todo, shown, fxshow, finish, fxOn,
                  rafs, fresh, wish, plain, nested>>
  BY DEF fVars
<1>2. Shape' <=> Shape
  BY <1>1 DEF Shape
<1>3. CallsOk' <=> CallsOk
  BY <1>1 DEF CallsOk, CallOk, Under
<1>4. Pending' = Pending /\ (Runs("start")' <=> Runs("start"))
  BY <1>1 DEF Pending, Waits, Runs, Under, Now
<1>5. PendingOk' <=> PendingOk
  BY <1>1, <1>4 DEF PendingOk, Await
<1>6. (OnceEach' <=> OnceEach) /\ (TimersRun' <=> TimersRun)
  BY <1>1 DEF OnceEach, TimersRun
<1>7. /\ SomeToken' <=> SomeToken
      /\ SomeCarrier' <=> SomeCarrier
      /\ \A b : Carries(b)' <=> Carries(b)
      /\ \A p : Token(p)' <=> Token(p)
  BY <1>1 DEF SomeToken, SomeCarrier, Carries, Token
<1>8. NoneLeftBehind' <=> NoneLeftBehind
  BY <1>1, <1>7 DEF NoneLeftBehind, Under
<1>9. AtMostOne => AtMostOne'
  BY <1>1, <1>7 DEF AtMostOne
<1>10. SentinelThere => SentinelThere'
  BY <1>1, <1>7 DEF SentinelThere, Under, Runs, Busy, Now
<1>11. OneAtATime => OneAtATime'
  BY <1>1, <1>7, <1>9, <1>10 DEF OneAtATime, Strict, Under
<1>12. LoopsSee => LoopsSee'
  BY <1>1, <1>7 DEF LoopsSee, Under
<1>13. AimsAtWish => AimsAtWish'
  BY <1>1, <1>4 DEF AimsAtWish, Aim, Under
<1>14. QueueApart => QueueApart'
  BY <1>1, <1>4 DEF QueueApart, Await, Under
<1> QED
  BY <1>2, <1>3, <1>5, <1>6, <1>8, <1>11, <1>12, <1>13, <1>14 DEF EffectsInv

LEMMA EffectsNext ==
  EffectsInv /\ [FNext]_fVars => EffectsInv'
<1> SUFFICES ASSUME EffectsInv, [FNext]_fVars PROVE EffectsInv'
  OBVIOUS
<1>1. ASSUME NEW k \in Kinds, NEW q \in BOOLEAN, NEW s \in BOOLEAN, animate(k, q, s)
      PROVE  EffectsInv'
  BY <1>1, AnimateStep
<1>2. ASSUME NEW c \in BOOLEAN, NEW g \in BOOLEAN, stop(c, g)
      PROVE  EffectsInv'
  BY <1>2, StopStep
<1>3. CASE dequeue
  BY <1>3, DequeueStep
<1>4. CASE doAnimation
  BY <1>4, StartStep
<1>5. CASE Completed
  BY <1>5, CompletedStep
<1>6. CASE Stopping
  BY <1>6, StoppingStep
<1>7. CASE Splice
  BY <1>7, SpliceStep
<1>8. CASE finishAll
  BY <1>8, FinishAllStep
<1>9. CASE Finishing
  BY <1>9, FinishingStep
<1>10. CASE Tick
  BY <1>10, TickStep
<1>11. CASE Ticked
  BY <1>11, TickedStep
<1>12. ASSUME NEW first \in BOOLEAN, raf(first)
       PROVE  EffectsInv'
  BY <1>12, RafStep
<1>13. CASE UNCHANGED fVars
  BY <1>13, EffectsStutter
<1> QED
  BY <1>1, <1>2, <1>3, <1>4, <1>5, <1>6, <1>7, <1>8, <1>9, <1>10, <1>11, <1>12, <1>13
  DEF FNext

(* What the invariant says of the page: the queue runs dry.                *)
LEMMA NoQueueLeft ==
  ASSUME EffectsInv
  PROVE  QueueRunsDry
<1>1. /\ Shape /\ CallsOk /\ PendingOk /\ QueueApart /\ OnceEach /\ TimersRun
      /\ NoneLeftBehind /\ OneAtATime /\ LoopsSee /\ AimsAtWish
  BY DEF EffectsInv
<1>2. 1..animations \subseteq Slots
  BY <1>1 DEF Shape, Slots
<1>3. \A a : a \in Running <=> a \in Slots /\ anim[a].state = "running"
  <2>1. ASSUME NEW a \in Slots, anim[a].state = "running" PROVE a \in 1..animations
    <3>1. ~(a > animations)
      BY <1>1, <2>1 DEF Shape
    <3>2. a \in Nat /\ a >= 1 /\ animations \in Nat
      BY <1>1 DEF Shape, Slots
    <3> QED
      BY <3>1, <3>2
  <2> QED
    BY <1>2, <2>1 DEF Running
<1>4. ASSUME ~nested
      PROVE  Cardinality({a \in Running : anim[a].queued}) <= 1
  <2> DEFINE S == {a \in Running : anim[a].queued}
  <2>1. \A a, b \in S : a = b
    BY <1>1, <1>3, <1>4 DEF OneAtATime, Carries
  <2>2. CASE S = {}
    BY <2>2, FS_EmptySet
  <2>3. CASE S # {}
    <3>1. PICK a : a \in S
      BY <2>3
    <3>2. S = {a}
      BY <2>1, <3>1
    <3>3. Cardinality({a}) = 1
      BY FS_Singleton
    <3> HIDE DEF S
    <3>4. Cardinality(S) = 1
      BY <3>2, <3>3
    <3> QED
      BY <3>4 DEF S
  <2> QED
    BY <2>2, <2>3
<1>5. \A a \in 1..animations : anim[a].completes <= 1
  BY <1>1, <1>2 DEF OnceEach
<1>6. ASSUME todo = <<>>
      PROVE  /\ fxqueue # <<>> => \E a \in Running : anim[a].queued
             /\ Running \subseteq ToSet(timers)
             /\ Running # {} => fxOn /\ rafs > 0
             /\ plain /\ Running = {} => shown = wish
  <2>1. ~Under("stop") /\ ~Under("finish") /\ ~SomeToken /\ Pending = Waiting(fxqueue)
    BY <1>1, <1>6, Idle
  <2>2. fxqueue # <<>> => \E a \in Running : anim[a].queued
    BY <1>1, <1>3, <2>1 DEF NoneLeftBehind, SomeCarrier, Carries
  <2>3. \A a \in Running : \E j \in 1..Len(timers) : timers[j] = a
    BY <1>1, <1>3 DEF TimersRun
  <2>4. timers \in Seq(Slots)
    BY <1>1 DEF Shape
  <2>5. Running \subseteq ToSet(timers)
    BY <2>3, <2>4 DEF ToSet
  <2>6. Running # {} => timers # <<>>
    BY <2>3, <2>4
  <2>7. Running # {} => fxOn /\ rafs > 0
    BY <1>1, <2>6 DEF TimersRun
  <2>8. ASSUME plain, Running = {}
        PROVE  shown = wish
    <3>1. fxqueue = <<>>
      BY <2>2, <2>8
    <3>2. Pending = <<>>
      BY <2>1, <3>1 DEF Waiting
    <3>3. LeadsTo(anim, Aim, <<>>, wish)
      BY <1>1, <2>8, <3>2 DEF AimsAtWish
    <3>4. Aim = wish
      BY <3>3 DEF LeadsTo
    <3>5. \A a \in Slots : anim[a].state # "running"
      BY <1>3, <2>8
    <3>6. Aim <=> shown
      BY <3>5 DEF Aim
    <3>7. shown \in BOOLEAN /\ wish \in BOOLEAN
      BY <1>1 DEF Shape
    <3>8. wish <=> shown
      BY <3>4, <3>6
    <3> QED
      BY <3>7, <3>8
  <2> QED
    BY <2>2, <2>5, <2>7, <2>8
<1> QED
  BY <1>4, <1>5, <1>6 DEF QueueRunsDry

(* However the calls of animate, stop and finish, the callbacks and the    *)
(* frames interleave, for any number of animations: an animation of the    *)
(* queue is not left behind by those before it, they run one at a time     *)
(* until a callback of stop() animates, each completes at most once, what  *)
(* runs has its timer and the timers their frames, and the element ends as *)
(* the last call asked for, if all were queued, none was stopped and no    *)
(* callback of finish() animated.                                          *)
THEOREM QueueDry ==
  FSpec => []QueueRunsDry
<1>1. FInit => EffectsInv
  BY EffectsStart
<1>2. EffectsInv /\ [FNext]_fVars => EffectsInv'
  BY EffectsNext
<1>3. EffectsInv => QueueRunsDry
  BY NoQueueLeft
<1> QED
  BY <1>1, <1>2, <1>3, PTL DEF FSpec

-----------------------------------------------------------------------------
(***************************** modal dialogs *******************************)
Handlers == [drop : Nat, m : Modals, does : {"display", "hideModal", "remove", "hidden"},
             at : Nat]
Flags    == [Modals -> BOOLEAN]
Numbers  == [Modals -> Nat]

DialogStates ==
  [shown : Flags, there : Flags, drop : Numbers, pad0 : Numbers, ignore : Flags,
   asks : SUBSET Modals, back : SUBSET Modals, open : BOOLEAN, pad : Nat,
   trap : Modals \cup {Nobody}, drops : SUBSET Nat, made : Nat,
   waits : SUBSET Handlers, clock : Nat, due : SUBSET Handlers,
   stack : Seq(Modals), hasty : BOOLEAN, crossed : BOOLEAN, early : BOOLEAN]

Styles == [Modals -> [fade : BOOLEAN, backdrop : {"none", "closes", "static"}]]

(* The handlers that are still to run, and those of one dialog.            *)
Expected(d)   == d.waits \cup d.due
Expects(d, m) == \E w \in Expected(d) : w.m = m
(* A dialog that is shown, or not gone yet.                                *)
Engaged(d, m) == d.shown[m] \/ Expects(d, m)

(* What a handler that waits says of its dialog.                           *)
HandlerOk(d, w) ==
  /\ w.does # "hidden" /\ style[w.m].fade
  /\ w.does = "display" =>
       style[w.m].backdrop # "none" /\ w.drop # 0 /\ w.drop = d.drop[w.m]
  /\ w.does = "hideModal" => ~d.shown[w.m] /\ w.drop = 0
  /\ w.does = "remove" => /\ ~d.shown[w.m] /\ ~d.there[w.m]
                          /\ w.drop # 0 /\ w.drop = d.drop[w.m]
HandlersOk(d) == \A w \in Expected(d) : HandlerOk(d, w)

(* A dialog waits for one thing, or to be displayed and then to be hidden. *)
OneEach(d) ==
  \A v, w \in Expected(d) : v.m = w.m =>
    /\ v.does = w.does => v = w
    /\ v.does = "remove" => v = w
    /\ v.does = "display" /\ w.does = "hideModal" => w \in d.waits /\ v.at < w.at
Clocks(d) ==
  /\ \A w \in d.waits : w.at < d.clock
  /\ \A v, w \in d.due : v = w
  /\ d.waits \cap d.due = {}

(* A dialog that waits for nothing is displayed while it is shown, one that *)
(* waits to be displayed is shown or waits to be hidden as well.            *)
Displays(d, m) == \E w \in Expected(d) : w.m = m /\ w.does = "display"
Hides(d, m)    == \E w \in Expected(d) : w.m = m /\ w.does = "hideModal"
SettledOne(d, m) ==
  /\ d.there[m] # d.shown[m] => Expects(d, m)
  /\ Displays(d, m) => d.shown[m] \/ (d.early /\ Hides(d, m))
Settled(d) == \A m \in Modals : SettledOne(d, m)

(* The backdrops are those of the dialogs that want one and are not gone.  *)
BackdropsOk(d) ==
  /\ \A m \in Modals :
       /\ d.drop[m] <= d.made
       /\ d.drop[m] # 0 <=> Engaged(d, m) /\ style[m].backdrop # "none"
  /\ \A m, n \in Modals : d.drop[m] = d.drop[n] => m = n \/ d.drop[m] = 0
  /\ d.drops = {d.drop[m] : m \in {n \in Modals : d.drop[n] # 0}}

TrapOk(d) == d.early \/ d.trap = Nobody \/ (d.trap \in Modals /\ d.shown[d.trap])

(* The body is that of an open dialog while one is, and the padding that   *)
(* the first one found is none.                                            *)
BodyOk(d) ==
  /\ \A m \in d.back : Engaged(d, m)
  /\ d.open => \E m \in Modals : Engaged(d, m)
  /\ TrapOk(d)
Once(s)  == \A i, j \in 1..Len(s) : s[i] = s[j] => i = j
On(s, n) == \E i \in 1..Len(s) : s[i] = n

StackOk(d) ==
  ~d.crossed =>
    /\ Once(d.stack) /\ \A m \in Modals : Engaged(d, m) <=> On(d.stack, m)
    /\ IF d.stack = <<>> THEN d.pad = 0 ELSE d.pad0[d.stack[1]] = 0

DialogsOk(d) ==
  /\ HandlersOk(d) /\ OneEach(d) /\ Clocks(d) /\ Settled(d) /\ BackdropsOk(d)
  /\ BodyOk(d) /\ StackOk(d)

DialogsInv ==
  /\ style \in Styles /\ dlg \in DialogStates
  /\ ~dlg.hasty => DialogsOk(dlg)
LEMMA HandlerFields ==
  ASSUME NEW w \in Handlers
  PROVE  w.drop \in Nat /\ w.m \in Modals /\ w.at \in Nat
BY DEF Handlers

LEMMA DialogFields ==
  ASSUME NEW d \in DialogStates
  PROVE  /\ d.shown \in Flags /\ d.there \in Flags /\ d.drop \in Numbers
         /\ d.pad0 \in Numbers /\ d.back \in SUBSET Modals /\ d.open \in BOOLEAN
         /\ d.pad \in Nat /\ d.trap \in Modals \cup {Nobody} /\ d.drops \in SUBSET Nat
         /\ d.made \in Nat /\ d.waits \in SUBSET Handlers /\ d.clock \in Nat
         /\ d.due \in SUBSET Handlers /\ d.stack \in Seq(Modals)
         /\ d.hasty \in BOOLEAN /\ d.crossed \in BOOLEAN /\ d.early \in BOOLEAN
BY DEF DialogStates

(* What each operator changes, field by field.                             *)
LEMMA WaitIs ==
  ASSUME NEW d \in DialogStates, NEW id \in Nat, NEW m \in Modals,
         NEW does \in {"display", "hideModal", "remove", "hidden"}
  PROVE  LET h == Wait(d, id, m, does) IN
         h \in Handlers /\ h.drop = id /\ h.m = m /\ h.does = does /\ h.at = d.clock
BY DialogFields DEF Wait, Handlers

LEMMA LaterIs ==
  ASSUME NEW d \in DialogStates, NEW id, NEW m, NEW does,
         Wait(d, id, m, does) \in Handlers
  PROVE  LET e == Later(d, id, m, does) IN
         /\ e \in DialogStates
         /\ e.waits = d.waits \cup {Wait(d, id, m, does)} /\ e.clock = d.clock + 1
         /\ e.shown = d.shown /\ e.there = d.there /\ e.drop = d.drop
         /\ e.pad0 = d.pad0 /\ e.back = d.back /\ e.open = d.open /\ e.pad = d.pad
         /\ e.trap = d.trap /\ e.drops = d.drops /\ e.made = d.made /\ e.due = d.due
         /\ e.stack = d.stack /\ e.hasty = d.hasty /\ e.crossed = d.crossed
         /\ e.early = d.early
<1> DEFINE w == {Wait(d, id, m, does)}
<1> HIDE DEF w
<1>1. d.waits \cup w \in SUBSET Handlers /\ d.clock + 1 \in Nat
  BY DialogFields DEF w
<1>2. Later(d, id, m, does) = [d EXCEPT !.waits = d.waits \cup w, !.clock = d.clock + 1]
  BY DEF Later, w, DialogStates
<1>3. LET e == Later(d, id, m, does) IN
         /\ e \in DialogStates
         /\ e.waits = d.waits \cup w /\ e.clock = d.clock + 1
         /\ e.shown = d.shown /\ e.there = d.there /\ e.drop = d.drop
         /\ e.pad0 = d.pad0 /\ e.back = d.back /\ e.open = d.open /\ e.pad = d.pad
         /\ e.trap = d.trap /\ e.drops = d.drops /\ e.made = d.made /\ e.due = d.due
         /\ e.stack = d.stack /\ e.hasty = d.hasty /\ e.crossed = d.crossed
         /\ e.early = d.early
  BY <1>1, <1>2 DEF DialogStates
<1> QED
  BY <1>3 DEF w

LEMMA DisplayedIs ==
  ASSUME NEW d \in DialogStates, NEW m \in Modals
  PROVE  LET e == Displayed(d, m) IN
         /\ e \in DialogStates
         /\ e.there = [d.there EXCEPT ![m] = TRUE] /\ e.trap = m
         /\ e.shown = d.shown /\ e.drop = d.drop
         /\ e.pad0 = d.pad0 /\ e.back = d.back /\ e.open = d.open /\ e.pad = d.pad
         /\ e.drops = d.drops /\ e.made = d.made /\ e.due = d.due /\ e.waits = d.waits
         /\ e.clock = d.clock /\ e.stack = d.stack /\ e.hasty = d.hasty
         /\ e.crossed = d.crossed /\ e.early = d.early
<1>1. [d.there EXCEPT ![m] = TRUE] \in Flags
  BY DialogFields DEF Flags
<1> QED
  BY <1>1 DEF Displayed, enforceFocus, DialogStates

LEMMA FrontIs ==
  ASSUME NEW s \in Seq(Modals), s # <<>>
  PROVE  /\ Front(s) \in Seq(Modals) /\ Len(Front(s)) = Len(s) - 1
         /\ Len(s) \in Nat \ {0} /\ \A i \in 1..(Len(s) - 1) : Front(s)[i] = s[i]
         /\ Last(s) = s[Len(s)] /\ (Front(s) = <<>> <=> Len(s) = 1)
<1>1. /\ Front(s) \in Seq(Modals) /\ Len(Front(s)) = Len(s) - 1
      /\ Len(s) \in Nat \ {0} /\ \A i \in 1..Len(s) - 1 : Front(s)[i] = s[i]
      /\ Last(s) = s[Len(s)]
  BY LastAndFront
<1>2. Front(s) = <<>> <=> Len(Front(s)) = 0
  BY <1>1
<1> QED
  BY <1>1, <1>2

(* The last dialog of the stack goes, and one comes on top.                *)
LEMMA OneLess ==
  ASSUME NEW s \in Seq(Modals), s # <<>>, Once(s), NEW n
  PROVE  Once(Front(s)) /\ (On(Front(s), n) <=> On(s, n) /\ n # Last(s))
<1> DEFINE k == Len(s)
           f == Front(s)
<1> HIDE DEF f
<1>1. /\ Len(f) = k - 1 /\ k \in Nat \ {0} /\ \A i \in 1..(k - 1) : f[i] = s[i]
      /\ Last(s) = s[k]
  BY FrontIs DEF f
<1>2. Once(f)
  BY <1>1 DEF Once
<1>3. On(f, n) <=> \E i \in 1..(k - 1) : s[i] = n
  BY <1>1 DEF On
<1>4. ASSUME NEW i \in 1..(k - 1) PROVE s[i] # s[k] /\ i \in 1..k
  BY <1>1, <1>4 DEF Once
<1>5. ASSUME NEW i \in 1..k, s[i] = n, n # s[k] PROVE i \in 1..(k - 1)
  BY <1>1, <1>5
<1> QED
  BY <1>1, <1>2, <1>3, <1>4, <1>5 DEF On, f

LEMMA OneMore ==
  ASSUME NEW s \in Seq(Modals), Once(s), NEW m \in Modals, ~On(s, m), NEW n
  PROVE  Once(Append(s, m)) /\ (On(Append(s, m), n) <=> On(s, n) \/ n = m)
<1> DEFINE k == Len(s)
           f == Append(s, m)
<1> HIDE DEF f
<1>1. /\ Len(f) = k + 1 /\ k \in Nat /\ \A i \in 1..k : f[i] = s[i]
      /\ f[k + 1] = m
  BY Appended DEF f
<1>2. \A i \in 1..k : s[i] # m
  BY DEF On
<1>3. ASSUME NEW i \in 1..(k + 1) PROVE i = k + 1 \/ i \in 1..k
  BY <1>1, <1>3
<1>4. Once(f)
  BY <1>1, <1>2, <1>3 DEF Once
<1>5. On(f, n) <=> \E i \in 1..(k + 1) : f[i] = n
  BY <1>1 DEF On
<1>6. On(s, n) => On(f, n)
  BY <1>1, <1>5 DEF On
<1>7. n = m => On(f, n)
  <2>1. k + 1 \in 1..(k + 1)
    BY <1>1
  <2> QED
    BY <1>1, <1>5, <2>1
<1>8. On(f, n) => On(s, n) \/ n = m
  BY <1>1, <1>3, <1>5 DEF On
<1> QED
  BY <1>4, <1>6, <1>7, <1>8 DEF f

LEMMA HiddenIs ==
  ASSUME NEW d \in DialogStates, NEW m \in Modals
  PROVE  LET e == Hidden(d, m) IN
         /\ e \in DialogStates
         /\ e.open = FALSE /\ e.pad = d.pad0[m] /\ e.back = d.back \ {m}
         /\ e.crossed = (d.crossed \/ (d.stack # <<>> /\ Last(d.stack) # m))
         /\ e.stack = IF d.stack = <<>> THEN <<>> ELSE Front(d.stack)
         /\ e.shown = d.shown /\ e.there = d.there /\ e.drop = d.drop
         /\ e.pad0 = d.pad0 /\ e.trap = d.trap /\ e.drops = d.drops /\ e.made = d.made
         /\ e.waits = d.waits /\ e.clock = d.clock /\ e.due = d.due
         /\ e.hasty = d.hasty /\ e.early = d.early
<1>1. /\ d.pad0[m] \in Nat /\ d.back \ {m} \in SUBSET Modals
      /\ (IF d.stack = <<>> THEN <<>> ELSE Front(d.stack)) \in Seq(Modals)
  BY DialogFields, FrontIs DEF Numbers
<1>2. (d.crossed \/ (d.stack # <<>> /\ Last(d.stack) # m)) \in BOOLEAN
  BY DialogFields
<1> DEFINE c == d.crossed \/ (d.stack # <<>> /\ Last(d.stack) # m)
           s == IF d.stack = <<>> THEN <<>> ELSE Front(d.stack)
<1> HIDE DEF c, s
<1>3. Hidden(d, m) = [d EXCEPT !.open = FALSE, !.pad = d.pad0[m], !.back = d.back \ {m},
                               !.crossed = c, !.stack = s]
  BY DEF Hidden, c, s, DialogStates
<1>4. c \in BOOLEAN /\ s \in Seq(Modals)
  BY <1>1, <1>2 DEF c, s
<1>5. /\ Hidden(d, m) \in DialogStates
      /\ Hidden(d, m).crossed = c /\ Hidden(d, m).stack = s
  BY <1>1, <1>3, <1>4, ZenonT(40) DEF DialogStates
<1>6. LET e == Hidden(d, m) IN
         /\ e.open = FALSE /\ e.pad = d.pad0[m] /\ e.back = d.back \ {m}
         /\ e.shown = d.shown /\ e.there = d.there /\ e.drop = d.drop
         /\ e.pad0 = d.pad0 /\ e.trap = d.trap /\ e.drops = d.drops /\ e.made = d.made
         /\ e.waits = d.waits /\ e.clock = d.clock /\ e.due = d.due
         /\ e.hasty = d.hasty /\ e.early = d.early
  BY <1>3 DEF DialogStates
<1> QED
  BY <1>5, <1>6 DEF c, s

LEMMA RemovedIs ==
  ASSUME NEW d \in DialogStates, NEW m \in Modals, d.drop[m] # 0
  PROVE  LET e == removeBackdrop(d, m) IN
         /\ e \in DialogStates
         /\ e.drops = d.drops \ {d.drop[m]} /\ e.drop = [d.drop EXCEPT ![m] = 0]
         /\ e.waits = {w \in d.waits : w.drop # d.drop[m]}
         /\ e.open = d.open /\ e.pad = d.pad /\ e.back = d.back /\ e.crossed = d.crossed
         /\ e.stack = d.stack /\ e.shown = d.shown /\ e.there = d.there
         /\ e.pad0 = d.pad0 /\ e.trap = d.trap /\ e.made = d.made
         /\ e.clock = d.clock /\ e.due = d.due /\ e.hasty = d.hasty /\ e.early = d.early
<1>1. /\ d.drops \ {d.drop[m]} \in SUBSET Nat /\ [d.drop EXCEPT ![m] = 0] \in Numbers
      /\ {w \in d.waits : w.drop # d.drop[m]} \in SUBSET Handlers
  BY DialogFields DEF Numbers
<1> QED
  BY <1>1 DEF removeBackdrop, DialogStates

(* A shown dialog gets a backdrop.                                         *)
Covered(d, m) ==
  LET id == d.made + 1 IN
  [d EXCEPT !.made = id, !.drop[m] = id, !.drops = @ \cup {id}]

LEMMA CoveredIs ==
  ASSUME NEW d \in DialogStates, NEW m \in Modals
  PROVE  LET e == Covered(d, m) IN
         /\ e \in DialogStates
         /\ e.made = d.made + 1 /\ e.drop = [d.drop EXCEPT ![m] = d.made + 1]
         /\ e.drops = d.drops \cup {d.made + 1}
         /\ e.open = d.open /\ e.pad = d.pad /\ e.back = d.back /\ e.crossed = d.crossed
         /\ e.stack = d.stack /\ e.shown = d.shown /\ e.there = d.there
         /\ e.pad0 = d.pad0 /\ e.trap = d.trap /\ e.waits = d.waits
         /\ e.clock = d.clock /\ e.due = d.due /\ e.hasty = d.hasty /\ e.early = d.early
<1>1. /\ d.drops \cup {d.made + 1} \in SUBSET Nat /\ d.made + 1 \in Nat
      /\ [d.drop EXCEPT ![m] = d.made + 1] \in Numbers
  BY DialogFields DEF Numbers
<1> QED
  BY <1>1 DEF Covered, DialogStates

LEMMA OpenedIs ==
  ASSUME NEW d \in DialogStates, NEW m \in Modals
  PROVE  LET e == Opened(d, m) IN
         /\ e \in DialogStates
         /\ e.shown = [d.shown EXCEPT ![m] = TRUE] /\ e.open = TRUE
         /\ e.pad0 = [d.pad0 EXCEPT ![m] = d.pad]
         /\ e.pad \in Nat /\ e.stack = Append(d.stack, m)
         /\ e.hasty = (d.hasty \/ Awaits(d, m, {"hideModal", "remove"}))
         /\ e.there = d.there /\ e.drop = d.drop /\ e.back = d.back
         /\ e.trap = d.trap /\ e.drops = d.drops /\ e.made = d.made
         /\ e.waits = d.waits /\ e.clock = d.clock /\ e.due = d.due
         /\ e.crossed = d.crossed /\ e.early = d.early
<1> DEFINE h == d.hasty \/ Awaits(d, m, {"hideModal", "remove"})
           p == IF d.open THEN d.pad ELSE d.pad + 1
           o == [d.shown EXCEPT ![m] = TRUE]
           q == [d.pad0 EXCEPT ![m] = d.pad]
           s == Append(d.stack, m)
<1> HIDE DEF h, p, o, q, s
<1>1. /\ o \in Flags /\ q \in Numbers /\ p \in Nat /\ s \in Seq(Modals)
  BY DialogFields DEF Numbers, Flags, o, p, q, s
<1>2. h \in BOOLEAN
  BY DEF h, Awaits
<1>3. Opened(d, m) = [d EXCEPT !.shown = o, !.open = TRUE, !.pad0 = q, !.pad = p,
                               !.stack = s, !.hasty = h]
  BY DEF Opened, o, p, q, s, h, DialogStates
<1>4. LET e == Opened(d, m) IN
         /\ e \in DialogStates
         /\ e.shown = o /\ e.open = TRUE /\ e.pad0 = q /\ e.pad = p /\ e.stack = s
         /\ e.hasty = h
         /\ e.there = d.there /\ e.drop = d.drop /\ e.back = d.back
         /\ e.trap = d.trap /\ e.drops = d.drops /\ e.made = d.made
         /\ e.waits = d.waits /\ e.clock = d.clock /\ e.due = d.due
         /\ e.crossed = d.crossed /\ e.early = d.early
  BY <1>1, <1>2, <1>3, ZenonT(40) DEF DialogStates
<1> QED
  BY <1>1, <1>4 DEF o, p, q, s, h

LEMMA AskedIs ==
  ASSUME NEW d \in DialogStates, NEW m \in Modals
  PROVE  LET e == Asked(d, m) IN
         /\ e \in DialogStates
         /\ e.back \subseteq d.back \cup {m}
         /\ e.shown = d.shown /\ e.there = d.there /\ e.drop = d.drop
         /\ e.pad0 = d.pad0 /\ e.open = d.open /\ e.pad = d.pad
         /\ e.trap = d.trap /\ e.drops = d.drops /\ e.made = d.made
         /\ e.waits = d.waits /\ e.clock = d.clock /\ e.due = d.due
         /\ e.stack = d.stack /\ e.hasty = d.hasty /\ e.crossed = d.crossed
         /\ e.early = d.early
BY DEF Asked, DialogStates

(* The dialog is no longer shown.                                          *)
Dropped(d, m) ==
  [d EXCEPT !.shown[m] = FALSE, !.trap = Nobody,
            !.early = @ \/ Awaits(d, m, {"display"})]

LEMMA DroppedIs ==
  ASSUME NEW d \in DialogStates, NEW m \in Modals
  PROVE  LET e == Dropped(d, m) IN
         /\ e \in DialogStates
         /\ e.shown = [d.shown EXCEPT ![m] = FALSE] /\ e.trap = Nobody
         /\ e.early = (d.early \/ Awaits(d, m, {"display"}))
         /\ e.there = d.there /\ e.drop = d.drop /\ e.back = d.back
         /\ e.pad0 = d.pad0 /\ e.open = d.open /\ e.pad = d.pad
         /\ e.drops = d.drops /\ e.made = d.made
         /\ e.waits = d.waits /\ e.clock = d.clock /\ e.due = d.due
         /\ e.stack = d.stack /\ e.hasty = d.hasty /\ e.crossed = d.crossed
<1> DEFINE h == d.early \/ Awaits(d, m, {"display"})
           o == [d.shown EXCEPT ![m] = FALSE]
<1> HIDE DEF h, o
<1>1. o \in Flags
  BY DialogFields DEF Flags, o
<1>2. h \in BOOLEAN
  BY DEF h, Awaits
<1>3. Dropped(d, m) = [d EXCEPT !.shown = o, !.trap = Nobody, !.early = h]
  BY DEF Dropped, o, h, DialogStates
<1>4. LET e == Dropped(d, m) IN
         /\ e \in DialogStates
         /\ e.shown = o /\ e.trap = Nobody /\ e.early = h
         /\ e.there = d.there /\ e.drop = d.drop /\ e.back = d.back
         /\ e.pad0 = d.pad0 /\ e.open = d.open /\ e.pad = d.pad
         /\ e.drops = d.drops /\ e.made = d.made
         /\ e.waits = d.waits /\ e.clock = d.clock /\ e.due = d.due
         /\ e.stack = d.stack /\ e.hasty = d.hasty /\ e.crossed = d.crossed
  BY <1>1, <1>2, <1>3, ZenonT(40) DEF DialogStates
<1> QED
  BY <1>4 DEF o, h

(* The element is no longer displayed.                                     *)
Gone(d, m) == [d EXCEPT !.there[m] = FALSE]

LEMMA GoneIs ==
  ASSUME NEW d \in DialogStates, NEW m \in Modals
  PROVE  LET e == Gone(d, m) IN
         /\ e \in DialogStates
         /\ e.there = [d.there EXCEPT ![m] = FALSE]
         /\ e.shown = d.shown /\ e.drop = d.drop /\ e.back = d.back
         /\ e.pad0 = d.pad0 /\ e.open = d.open /\ e.pad = d.pad /\ e.trap = d.trap
         /\ e.drops = d.drops /\ e.made = d.made
         /\ e.waits = d.waits /\ e.clock = d.clock /\ e.due = d.due
         /\ e.stack = d.stack /\ e.hasty = d.hasty /\ e.crossed = d.crossed
         /\ e.early = d.early
<1>1. [d.there EXCEPT ![m] = FALSE] \in Flags
  BY DialogFields DEF Flags
<1> QED
  BY <1>1 DEF Gone, DialogStates

(* What the calls come to, in these terms.                                 *)
LEMMA BackdropIs ==
  ASSUME NEW d, NEW m, NEW does
  PROVE  /\ d.shown[m] /\ style[m].backdrop # "none" =>
              backdrop(d, m, does) =
                IF style[m].fade THEN Later(Covered(d, m), d.made + 1, m, does)
                ELSE Then(Covered(d, m), m, does)
         /\ ~d.shown[m] /\ d.drop[m] # 0 =>
              backdrop(d, m, does) =
                IF style[m].fade THEN Later(d, d.drop[m], m, "remove")
                ELSE Then(removeBackdrop(d, m), m, does)
         /\ d.shown[m] /\ style[m].backdrop = "none" =>
              backdrop(d, m, does) = Then(d, m, does)
         /\ ~d.shown[m] /\ d.drop[m] = 0 => backdrop(d, m, does) = Then(d, m, does)
BY DEF backdrop, Covered

LEMMA ThenIs ==
  ASSUME NEW d, NEW m
  PROVE  Then(d, m, "display") = Displayed(d, m) /\ Then(d, m, "hidden") = Hidden(d, m)
BY DEF Then

LEMMA ShowIs ==
  ASSUME NEW d, NEW m
  PROVE  show(d, m) = IF d.shown[m] THEN Asked(d, m)
                      ELSE backdrop(Opened(Asked(d, m), m), m, "display")
BY DEF show

LEMMA HideIs ==
  ASSUME NEW d, NEW m
  PROVE  hide(d, m) = IF ~d.shown[m] THEN d
                      ELSE IF style[m].fade THEN Later(Dropped(d, m), 0, m, "hideModal")
                      ELSE hideModal(Dropped(d, m), m)
BY DEF hide, Dropped

LEMMA HideModalIs ==
  ASSUME NEW d, NEW m
  PROVE  hideModal(d, m) = backdrop(Gone(d, m), m, "hidden")
BY DEF hideModal, Gone

(* The parts of the invariant of the dialogs.                              *)
LEMMA DialogParts ==
  ASSUME NEW d
  PROVE  DialogsOk(d) <=> /\ HandlersOk(d) /\ OneEach(d) /\ Clocks(d) /\ Settled(d)
                          /\ BackdropsOk(d) /\ BodyOk(d) /\ StackOk(d)
BY Zenon DEF DialogsOk

(* The dialog m becomes displayed, when everything but that is in order.   *)
LEMMA DisplayOk ==
  ASSUME NEW d \in DialogStates, NEW m \in Modals,
         HandlersOk(d), OneEach(d), Clocks(d), BackdropsOk(d), BodyOk(d), StackOk(d),
         \A n \in Modals \ {m} : SettledOne(d, n),
         ~Displays(d, m), \A w \in Expected(d) : w.m = m => w.does = "hideModal",
         Engaged(d, m), d.early \/ d.shown[m]
  PROVE  DialogsOk(Displayed(d, m))
<1> DEFINE e == Displayed(d, m)
<1> HIDE DEF e
<1>1. /\ e \in DialogStates /\ e.there = [d.there EXCEPT ![m] = TRUE] /\ e.trap = m
      /\ e.shown = d.shown /\ e.drop = d.drop
      /\ e.pad0 = d.pad0 /\ e.back = d.back /\ e.open = d.open /\ e.pad = d.pad
      /\ e.drops = d.drops /\ e.made = d.made /\ e.due = d.due /\ e.waits = d.waits
      /\ e.clock = d.clock /\ e.stack = d.stack /\ e.crossed = d.crossed
      /\ e.early = d.early
  BY DisplayedIs DEF e
<1>2. /\ Expected(e) = Expected(d)
      /\ \A n : /\ Expects(e, n) <=> Expects(d, n)
                /\ Engaged(e, n) <=> Engaged(d, n)
                /\ Displays(e, n) <=> Displays(d, n)
                /\ Hides(e, n) <=> Hides(d, n)
  BY <1>1 DEF Expected, Expects, Engaged, Displays, Hides
<1>3. d.there \in Flags /\ Expected(d) \in SUBSET Handlers
  BY DialogFields DEF Expected
<1>4. HandlersOk(e)
  <2> SUFFICES ASSUME NEW w \in Expected(e) PROVE HandlerOk(e, w)
    BY DEF HandlersOk
  <2>1. HandlerOk(d, w) /\ w.m \in Modals
    BY <1>2, <1>3, HandlerFields DEF HandlersOk
  <2>2. w.m = m => w.does = "hideModal"
    BY <1>2
  <2>3. w.m # m => e.there[w.m] = d.there[w.m]
    BY <1>1, <1>3, <2>1 DEF Flags
  <2> QED
    BY <1>1, <2>1, <2>2, <2>3 DEF HandlerOk
<1>5. OneEach(e) /\ Clocks(e)
  BY <1>1, <1>2 DEF OneEach, Clocks
<1>6. Settled(e)
  <2> SUFFICES ASSUME NEW n \in Modals PROVE SettledOne(e, n)
    BY DEF Settled
  <2>1. CASE n = m
    <3>1. e.there[n] = TRUE
      BY <1>1, <1>3, <2>1 DEF Flags
    <3>2. d.shown[n] = TRUE \/ Expects(d, n)
      BY <2>1, DialogFields DEF Engaged, Flags
    <3> QED
      BY <1>1, <1>2, <2>1, <3>1, <3>2 DEF SettledOne
  <2>2. CASE n # m
    <3>1. e.there[n] = d.there[n] /\ SettledOne(d, n)
      BY <1>1, <1>3, <2>2 DEF Flags
    <3> QED
      BY <1>1, <1>2, <3>1 DEF SettledOne
  <2> QED
    BY <2>1, <2>2
<1>7. BackdropsOk(e)
  BY <1>1, <1>2 DEF BackdropsOk
<1>8. BodyOk(e)
  <2>1. TrapOk(e)
    BY <1>1 DEF TrapOk
  <2> QED
    BY <1>1, <1>2, <2>1 DEF BodyOk
<1>9. StackOk(e)
  BY <1>1, <1>2 DEF StackOk
<1> QED
  BY <1>4, <1>5, <1>6, <1>7, <1>8, <1>9, DialogParts DEF e

(* The dialog m has gone, and what waited for it: x is d but for that, and *)
(* the body is left as it was found.                                       *)
Leaves(d, m, x) ==
  /\ x.shown = [d.shown EXCEPT ![m] = FALSE]
  /\ x.there = [d.there EXCEPT ![m] = FALSE]
  /\ x.drop = [d.drop EXCEPT ![m] = 0] /\ x.drops = d.drops \ {d.drop[m]}
  /\ x.waits = {w \in d.waits : w.m # m} /\ x.due = {w \in d.due : w.m # m}
  /\ x.clock = d.clock /\ x.made = d.made /\ x.early = d.early
  /\ x.trap = Nobody \/ (x.trap = d.trap /\ ~d.shown[m])
  /\ x.pad0 = d.pad0 /\ x.back = d.back /\ x.stack = d.stack /\ x.crossed = d.crossed

LEMMA HiddenOk ==
  ASSUME NEW d \in DialogStates, NEW m \in Modals, DialogsOk(d), Engaged(d, m),
         NEW x \in DialogStates, Leaves(d, m, x)
  PROVE  DialogsOk(Hidden(x, m))
<1>0. /\ x.shown = [d.shown EXCEPT ![m] = FALSE]
      /\ x.there = [d.there EXCEPT ![m] = FALSE]
      /\ x.drop = [d.drop EXCEPT ![m] = 0] /\ x.drops = d.drops \ {d.drop[m]}
      /\ x.waits = {w \in d.waits : w.m # m} /\ x.due = {w \in d.due : w.m # m}
      /\ x.clock = d.clock /\ x.made = d.made /\ x.early = d.early
      /\ x.trap = Nobody \/ (x.trap = d.trap /\ ~d.shown[m])
      /\ x.pad0 = d.pad0 /\ x.back = d.back /\ x.stack = d.stack /\ x.crossed = d.crossed
  BY DEF Leaves
<1> USE <1>0
<1> DEFINE e == Hidden(x, m)
<1> HIDE DEF e
<1>a. /\ e \in DialogStates
      /\ e.open = FALSE /\ e.pad = x.pad0[m] /\ e.back = x.back \ {m}
      /\ e.shown = x.shown /\ e.there = x.there /\ e.drop = x.drop
      /\ e.pad0 = x.pad0 /\ e.trap = x.trap /\ e.drops = x.drops /\ e.made = x.made
      /\ e.waits = x.waits /\ e.clock = x.clock /\ e.due = x.due
      /\ e.early = x.early
  BY ONLY HiddenIs, x \in DialogStates, m \in Modals DEF e
<1>b. e.stack = IF x.stack = <<>> THEN <<>> ELSE Front(x.stack)
  BY ONLY HiddenIs, x \in DialogStates, m \in Modals DEF e
<1>c. e.crossed = (x.crossed \/ (x.stack # <<>> /\ Last(x.stack) # m))
  BY ONLY HiddenIs, x \in DialogStates, m \in Modals DEF e
<1>1. /\ e \in DialogStates
      /\ e.open = FALSE /\ e.pad = d.pad0[m] /\ e.back = d.back \ {m}
      /\ e.crossed = (d.crossed \/ (d.stack # <<>> /\ Last(d.stack) # m))
      /\ e.stack = IF d.stack = <<>> THEN <<>> ELSE Front(d.stack)
      /\ e.shown = x.shown /\ e.there = x.there /\ e.drop = x.drop
      /\ e.pad0 = d.pad0 /\ e.trap = x.trap /\ e.drops = x.drops /\ e.made = d.made
      /\ e.waits = x.waits /\ e.clock = d.clock /\ e.due = x.due
      /\ e.early = d.early
  BY <1>a, <1>b, <1>c
<1>2. /\ HandlersOk(d) /\ OneEach(d) /\ Clocks(d) /\ Settled(d)
      /\ BackdropsOk(d) /\ BodyOk(d) /\ StackOk(d)
  BY DialogParts
<1>3. /\ d.shown \in Flags /\ d.there \in Flags /\ d.drop \in Numbers
      /\ d.stack \in Seq(Modals) /\ d.trap \in Modals \cup {Nobody}
      /\ Expected(d) \in SUBSET Handlers
  BY DialogFields DEF Expected
<1>4. Expected(e) = {w \in Expected(d) : w.m # m}
  BY <1>1 DEF Expected
<1>5. /\ e.shown[m] = FALSE /\ e.there[m] = FALSE /\ e.drop[m] = 0
      /\ \A n \in Modals \ {m} : /\ e.shown[n] = d.shown[n] /\ e.there[n] = d.there[n]
                                 /\ e.drop[n] = d.drop[n]
  BY <1>1, <1>3 DEF Flags, Numbers
<1>6. ~Expects(e, m) /\ ~Engaged(e, m) /\ ~Displays(e, m)
  BY <1>4, <1>5 DEF Expects, Engaged, Displays
<1>7. ASSUME NEW n \in Modals \ {m}
      PROVE  /\ Expects(e, n) <=> Expects(d, n)
             /\ Engaged(e, n) <=> Engaged(d, n)
             /\ Displays(e, n) <=> Displays(d, n)
             /\ Hides(e, n) <=> Hides(d, n)
  BY <1>4, <1>5 DEF Expects, Engaged, Displays, Hides
<1>8. HandlersOk(e)
  <2> SUFFICES ASSUME NEW w \in Expected(e) PROVE HandlerOk(e, w)
    BY DEF HandlersOk
  <2>1. HandlerOk(d, w) /\ w.m \in Modals \ {m}
    BY <1>2, <1>3, <1>4, HandlerFields DEF HandlersOk
  <2> QED
    BY <1>5, <2>1 DEF HandlerOk
<1>9. OneEach(e)
  <2> SUFFICES ASSUME NEW v \in Expected(e), NEW w \in Expected(e), v.m = w.m
               PROVE  /\ v.does = w.does => v = w
                      /\ v.does = "remove" => v = w
                      /\ v.does = "display" /\ w.does = "hideModal" =>
                           w \in e.waits /\ v.at < w.at
    BY DEF OneEach
  <2>1. v \in Expected(d) /\ w \in Expected(d) /\ w.m # m
    BY <1>4
  <2>2. w \in d.waits => w \in e.waits
    BY <1>1, <2>1
  <2> QED
    BY <1>2, <2>1, <2>2 DEF OneEach
<1>10. Clocks(e)
  BY <1>1, <1>2 DEF Clocks
<1>11. Settled(e)
  <2> SUFFICES ASSUME NEW n \in Modals PROVE SettledOne(e, n)
    BY DEF Settled
  <2>1. CASE n = m
    BY <1>5, <1>6, <2>1 DEF SettledOne
  <2>2. CASE n # m
    BY <1>1, <1>2, <1>5, <1>7, <2>2 DEF Settled, SettledOne
  <2> QED
    BY <2>1, <2>2
<1>12. BackdropsOk(e)
  <2>1. ASSUME NEW n \in Modals
        PROVE  /\ e.drop[n] <= e.made
               /\ e.drop[n] # 0 <=> Engaged(e, n) /\ style[n].backdrop # "none"
    <3>1. CASE n = m
      BY <1>1, <1>5, <1>6, <3>1, DialogFields
    <3>2. CASE n # m
      BY <1>1, <1>2, <1>5, <1>7, <3>2 DEF BackdropsOk
    <3> QED
      BY <3>1, <3>2
  <2>2. ASSUME NEW n \in Modals, NEW k \in Modals, e.drop[n] = e.drop[k], e.drop[n] # 0
        PROVE  n = k
    BY <1>2, <1>5, <2>2 DEF BackdropsOk
  <2>3. e.drops = {e.drop[n] : n \in {k \in Modals : e.drop[k] # 0}}
    <3>1. d.drops = {d.drop[n] : n \in {k \in Modals : d.drop[k] # 0}}
      BY <1>2 DEF BackdropsOk
    <3>2. e.drops = d.drops \ {d.drop[m]}
      BY <1>1
    <3>3. \A n \in Modals \ {m} : d.drop[n] = d.drop[m] => d.drop[n] = 0
      BY <1>2 DEF BackdropsOk
    <3> QED
      BY <1>5, <3>1, <3>2, <3>3
  <2> QED
    BY <2>1, <2>2, <2>3 DEF BackdropsOk
<1>13. BodyOk(e)
  <2>1. ASSUME NEW n \in e.back PROVE Engaged(e, n)
    BY <1>1, <1>2, <1>7, DialogFields DEF BodyOk
  <2>2. TrapOk(e)
    <3>1. TrapOk(d)
      BY <1>2 DEF BodyOk
    <3>2. CASE x.trap = Nobody
      BY <1>1, <3>2 DEF TrapOk
    <3>3. CASE x.trap = d.trap /\ ~d.shown[m]
      BY <1>1, <1>5, <3>1, <3>3 DEF TrapOk
    <3> QED
      BY <3>2, <3>3
  <2> QED
    BY <1>1, <2>1, <2>2 DEF BodyOk
<1>14. StackOk(e)
  <2> SUFFICES ASSUME ~e.crossed PROVE
        /\ Once(e.stack) /\ \A n \in Modals : Engaged(e, n) <=> On(e.stack, n)
        /\ IF e.stack = <<>> THEN e.pad = 0 ELSE e.pad0[e.stack[1]] = 0
    BY DEF StackOk
  <2>1. /\ Once(d.stack) /\ \A n \in Modals : Engaged(d, n) <=> On(d.stack, n)
        /\ IF d.stack = <<>> THEN d.pad = 0 ELSE d.pad0[d.stack[1]] = 0
        /\ d.stack # <<>> => Last(d.stack) = m
    BY <1>1, <1>2 DEF StackOk
  <2>2. d.stack # <<>> /\ Last(d.stack) = m /\ e.stack = Front(d.stack)
    BY <1>1, <1>3, <2>1 DEF On
  <2>3. Once(e.stack) /\ \A n : On(e.stack, n) <=> On(d.stack, n) /\ n # m
    BY <1>3, <2>1, <2>2, OneLess
  <2>4. ASSUME NEW n \in Modals PROVE Engaged(e, n) <=> On(e.stack, n)
    BY <1>6, <1>7, <2>1, <2>3
  <2>5. IF e.stack = <<>> THEN e.pad = 0 ELSE e.pad0[e.stack[1]] = 0
    <3> DEFINE k == Len(d.stack)
    <3>1. /\ k \in Nat \ {0} /\ \A i \in 1..(k - 1) : e.stack[i] = d.stack[i]
          /\ d.stack[k] = m /\ (e.stack = <<>> <=> k = 1)
      BY <1>3, <2>2, FrontIs
    <3>2. CASE e.stack = <<>>
      BY <1>1, <2>1, <2>2, <3>1, <3>2
    <3>3. CASE e.stack # <<>>
      <4>0. k # 1 /\ k \in Nat \ {0}
        BY <3>1, <3>3
      <4> HIDE DEF k
      <4>1. 1 \in 1..(k - 1)
        BY ONLY <4>0, SMTT(30)
      <4>2. e.stack[1] = d.stack[1]
        BY ONLY <3>1, <4>1, SMTT(30)
      <4> QED
        BY <1>1, <2>1, <2>2, <3>3, <4>2
    <3> QED
      BY <3>2, <3>3
  <2> QED
    BY <2>3, <2>4, <2>5
<1> QED
  BY <1>8, <1>9, <1>10, <1>11, <1>12, <1>13, <1>14, DialogParts DEF e

(* What the handlers do not change.                                        *)
Alike(b, d) ==
  /\ d.drop = b.drop /\ d.drops = b.drops /\ d.made = b.made /\ d.back = b.back
  /\ d.pad0 = b.pad0 /\ d.pad = b.pad /\ d.stack = b.stack /\ d.crossed = b.crossed

(* A handler of the dialog m is added, when everything else is in order: m *)
(* stays as engaged as it was in b.                                        *)
LEMMA WaitingOk ==
  ASSUME NEW b \in DialogStates, NEW d \in DialogStates, Alike(b, d),
         NEW m \in Modals, NEW id \in Nat,
         NEW does \in {"display", "hideModal", "remove"},
         BackdropsOk(b), StackOk(b), \A k \in b.back : Engaged(b, k),
         \A n \in Modals : Engaged(b, n) <=> Engaged(d, n) \/ n = m,
         HandlersOk(d), OneEach(d), Clocks(d), TrapOk(d),
         \A n \in Modals \ {m} : SettledOne(d, n),
         HandlerOk(d, Wait(d, id, m, does)), d.due = {},
         does # "hideModal" => ~Expects(d, m),
         does = "display" => d.shown[m],
         does = "hideModal" => /\ \A w \in Expected(d) : w.m = m => w.does = "display"
                               /\ Displays(d, m) => d.early
  PROVE  DialogsOk(Later(d, id, m, does))
<1> DEFINE e == Later(d, id, m, does)
           h == Wait(d, id, m, does)
<1> HIDE DEF e, h
<1>0. does \in {"display", "hideModal", "remove", "hidden"}
  OBVIOUS
<1>1. h \in Handlers /\ h.drop = id /\ h.m = m /\ h.does = does /\ h.at = d.clock
  BY ONLY WaitIs, <1>0, d \in DialogStates, m \in Modals, id \in Nat DEF h
<1>2. /\ e \in DialogStates
      /\ e.waits = d.waits \cup {h} /\ e.clock = d.clock + 1 /\ e.due = d.due
      /\ e.shown = d.shown /\ e.there = d.there /\ e.drop = d.drop
      /\ e.pad0 = d.pad0 /\ e.back = d.back /\ e.open = d.open /\ e.pad = d.pad
      /\ e.trap = d.trap /\ e.drops = d.drops /\ e.made = d.made
      /\ e.stack = d.stack /\ e.crossed = d.crossed /\ e.early = d.early
  BY ONLY LaterIs, <1>1, d \in DialogStates DEF e, h
<1>3. Expected(e) = Expected(d) \cup {h} /\ Expected(d) = d.waits
  BY <1>1, <1>2 DEF Expected
<1>4. /\ Expected(d) \in SUBSET Handlers /\ d.clock \in Nat
      /\ \A w \in Expected(d) : w.m \in Modals /\ w.at \in Nat /\ w.at < d.clock
  BY <1>3, DialogFields, HandlerFields DEF Clocks
<1>5. ASSUME NEW n
      PROVE  /\ Expects(e, n) <=> Expects(d, n) \/ n = m
             /\ Displays(e, n) <=> Displays(d, n) \/ (n = m /\ does = "display")
             /\ Hides(e, n) <=> Hides(d, n) \/ (n = m /\ does = "hideModal")
             /\ Engaged(e, n) <=> Engaged(d, n) \/ n = m
  <2>1. Expects(e, n) <=> Expects(d, n) \/ n = m
    BY <1>1, <1>2, <1>3 DEF Expects
  <2> QED
    BY <1>1, <1>2, <1>3, <2>1 DEF Displays, Hides, Engaged
<1>6. h \notin Expected(d)
  BY <1>1, <1>2, <1>4
<1>7. HandlersOk(e)
  <2> SUFFICES ASSUME NEW w \in Expected(e) PROVE HandlerOk(e, w)
    BY DEF HandlersOk
  <2>1. HandlerOk(d, w)
    BY <1>3 DEF HandlersOk, h
  <2> QED
    BY <1>1, <1>2, <2>1 DEF HandlerOk
<1>8. OneEach(e)
  <2> SUFFICES ASSUME NEW v \in Expected(e), NEW w \in Expected(e), v.m = w.m
               PROVE  /\ v.does = w.does => v = w
                      /\ v.does = "remove" => v = w
                      /\ v.does = "display" /\ w.does = "hideModal" =>
                           w \in e.waits /\ v.at < w.at
    BY DEF OneEach
  <2>1. CASE v \in Expected(d) /\ w \in Expected(d)
    BY <1>1, <1>2, <1>3, <2>1 DEF OneEach
  <2>2. CASE v = h /\ w = h
    BY <1>1, <1>2, <2>2
  <2>3. CASE v = h /\ w \in Expected(d)
    BY <1>1, <1>2, <2>3 DEF Expects
  <2>4. CASE v \in Expected(d) /\ w = h
    <3>1. v.m = m /\ w.does = does /\ w.at = d.clock /\ w \in e.waits /\ v.at < d.clock
      BY <1>1, <1>2, <1>4, <2>4
    <3> QED
      BY <2>4, <3>1 DEF Expects
  <2> QED
    BY <1>3, <2>1, <2>2, <2>3, <2>4
<1>9. Clocks(e)
  BY <1>1, <1>2, <1>3, <1>4 DEF Clocks
<1>10. Settled(e)
  <2> SUFFICES ASSUME NEW n \in Modals PROVE SettledOne(e, n)
    BY DEF Settled
  <2>1. CASE n = m
    <3>1. Displays(e, n) => e.shown[n] \/ (e.early /\ Hides(e, n))
      BY <1>1, <1>2, <1>5, <2>1 DEF Displays, Expects
    <3> QED
      BY <1>5, <2>1, <3>1 DEF SettledOne
  <2>2. CASE n # m
    BY <1>1, <1>2, <1>5, <2>2 DEF SettledOne
  <2> QED
    BY <2>1, <2>2
<1>11. \A n \in Modals : Engaged(e, n) <=> Engaged(b, n)
  BY <1>5
<1>12. /\ e.drop = b.drop /\ e.drops = b.drops /\ e.made = b.made /\ e.back = b.back
       /\ e.pad0 = b.pad0 /\ e.pad = b.pad /\ e.stack = b.stack
       /\ e.crossed = b.crossed
  BY <1>2 DEF Alike
<1>13. BackdropsOk(e)
  BY <1>11, <1>12 DEF BackdropsOk
<1>14. BodyOk(e)
  <2>1. TrapOk(e)
    BY <1>2 DEF TrapOk
  <2>2. b.back \in SUBSET Modals /\ Engaged(e, m)
    BY <1>5, DialogFields
  <2> QED
    BY <1>11, <1>12, <2>1, <2>2 DEF BodyOk
<1>15. StackOk(e)
  BY <1>11, <1>12 DEF StackOk
<1> QED
  BY <1>7, <1>8, <1>9, <1>10, <1>13, <1>14, <1>15, DialogParts DEF e

(* The dialog m opens: x is d with all that changes but its element, which *)
(* is in order.                                                            *)
Opens(d, m, x) ==
  /\ x.shown = [d.shown EXCEPT ![m] = TRUE]
  /\ x.pad0 = [d.pad0 EXCEPT ![m] = d.pad] /\ x.stack = Append(d.stack, m)
  /\ x.back \subseteq d.back \cup {m} /\ x.there = d.there /\ x.trap = d.trap
  /\ x.waits = d.waits /\ x.due = d.due /\ x.clock = d.clock
  /\ x.crossed = d.crossed /\ x.early = d.early
  /\ \/ /\ style[m].backdrop = "none"
        /\ x.drop = d.drop /\ x.drops = d.drops /\ x.made = d.made
     \/ /\ style[m].backdrop # "none" /\ x.made = d.made + 1
        /\ x.drop = [d.drop EXCEPT ![m] = d.made + 1]
        /\ x.drops = d.drops \cup {d.made + 1}

LEMMA OpenedOk ==
  ASSUME NEW d \in DialogStates, NEW m \in Modals, DialogsOk(d), ~d.shown[m],
         ~Expects(d, m), NEW x \in DialogStates, Opens(d, m, x)
  PROVE  /\ HandlersOk(x) /\ OneEach(x) /\ Clocks(x) /\ BackdropsOk(x) /\ StackOk(x)
         /\ \A n \in Modals \ {m} : SettledOne(x, n)
         /\ \A k \in x.back : Engaged(x, k)
         /\ TrapOk(x) /\ Engaged(x, m) /\ x.shown[m] /\ ~Expects(x, m)
<1>0. /\ x.shown = [d.shown EXCEPT ![m] = TRUE]
      /\ x.pad0 = [d.pad0 EXCEPT ![m] = d.pad] /\ x.stack = Append(d.stack, m)
      /\ x.back \subseteq d.back \cup {m} /\ x.there = d.there /\ x.trap = d.trap
      /\ x.waits = d.waits /\ x.due = d.due /\ x.clock = d.clock
      /\ x.crossed = d.crossed /\ x.early = d.early
      /\ \/ /\ style[m].backdrop = "none"
            /\ x.drop = d.drop /\ x.drops = d.drops /\ x.made = d.made
         \/ /\ style[m].backdrop # "none" /\ x.made = d.made + 1
            /\ x.drop = [d.drop EXCEPT ![m] = d.made + 1]
            /\ x.drops = d.drops \cup {d.made + 1}
  BY DEF Opens
<1> USE <1>0
<1>1. /\ HandlersOk(d) /\ OneEach(d) /\ Clocks(d) /\ Settled(d)
      /\ BackdropsOk(d) /\ BodyOk(d) /\ StackOk(d)
  BY DialogParts
<1>2. /\ d.shown \in Flags /\ d.there \in Flags /\ d.drop \in Numbers /\ d.made \in Nat
      /\ d.stack \in Seq(Modals) /\ d.back \in SUBSET Modals /\ d.pad0 \in Numbers
      /\ d.trap \in Modals \cup {Nobody} /\ Expected(d) \in SUBSET Handlers
  BY DialogFields DEF Expected
<1>3. Expected(x) = Expected(d)
  BY DEF Expected
<1>4. x.shown[m] = TRUE /\ \A n \in Modals \ {m} : x.shown[n] = d.shown[n]
  BY <1>2 DEF Flags
<1>5. /\ \A n : Expects(x, n) <=> Expects(d, n)
      /\ \A n \in Modals \ {m} : Engaged(x, n) <=> Engaged(d, n)
      /\ \A n \in Modals : /\ Displays(x, n) <=> Displays(d, n)
                           /\ Hides(x, n) <=> Hides(d, n)
      /\ Engaged(x, m) /\ ~Engaged(d, m)
  <2>1. \A n : Expects(x, n) <=> Expects(d, n)
    BY <1>3 DEF Expects
  <2> QED
    BY <1>3, <1>4, <2>1 DEF Engaged, Displays, Hides
<1>6. d.drop[m] = 0
  BY <1>1, <1>5 DEF BackdropsOk
<1>7. /\ x.made \in Nat /\ d.made <= x.made
      /\ \A n \in Modals \ {m} : x.drop[n] = d.drop[n]
      /\ IF style[m].backdrop = "none" THEN x.drop[m] = 0 /\ x.drops = d.drops
         ELSE x.drop[m] = x.made /\ x.made = d.made + 1 /\ x.drops = d.drops \cup {x.made}
  <2>1. CASE style[m].backdrop = "none"
    BY <1>2, <1>6, <2>1
  <2>2. CASE style[m].backdrop # "none"
    BY <1>2, <2>2 DEF Numbers
  <2> QED
    BY <2>1, <2>2
<1>8. HandlersOk(x)
  <2> SUFFICES ASSUME NEW w \in Expected(x) PROVE HandlerOk(x, w)
    BY DEF HandlersOk
  <2>1. HandlerOk(d, w) /\ w.m \in Modals \ {m}
    BY <1>1, <1>2, <1>3, HandlerFields DEF HandlersOk, Expects
  <2> QED
    BY <1>4, <1>7, <2>1 DEF HandlerOk
<1>9. OneEach(x) /\ Clocks(x)
  BY <1>1, <1>3 DEF OneEach, Clocks
<1>10. ASSUME NEW n \in Modals \ {m} PROVE SettledOne(x, n)
  BY <1>1, <1>4, <1>5 DEF Settled, SettledOne
<1>11. BackdropsOk(x)
  <2>1. ASSUME NEW n \in Modals
        PROVE  /\ x.drop[n] <= x.made
               /\ x.drop[n] # 0 <=> Engaged(x, n) /\ style[n].backdrop # "none"
    <3>1. CASE n = m
      BY <1>2, <1>5, <1>7, <3>1
    <3>2. CASE n # m
      <4>1. /\ d.drop[n] <= d.made
            /\ d.drop[n] # 0 <=> Engaged(d, n) /\ style[n].backdrop # "none"
        BY <1>1 DEF BackdropsOk
      <4> QED
        BY <1>2, <1>5, <1>7, <3>2, <4>1 DEF Numbers
    <3> QED
      BY <3>1, <3>2
  <2>2. ASSUME NEW n \in Modals, NEW k \in Modals, x.drop[n] = x.drop[k], x.drop[n] # 0
        PROVE  n = k
    <3>1. ASSUME NEW i \in Modals \ {m} PROVE x.drop[i] # x.drop[m] \/ x.drop[i] = 0
      <4>1. d.drop[i] <= d.made /\ d.drop[i] \in Nat
        BY <1>1, <1>2 DEF BackdropsOk, Numbers
      <4> QED
        BY <1>2, <1>7, <4>1
    <3> QED
      BY <1>1, <1>7, <2>2, <3>1 DEF BackdropsOk
  <2>3. x.drops = {x.drop[n] : n \in {k \in Modals : x.drop[k] # 0}}
    <3>1. d.drops = {d.drop[n] : n \in {k \in Modals : d.drop[k] # 0}}
      BY <1>1 DEF BackdropsOk
    <3>2. CASE style[m].backdrop = "none"
      BY <1>6, <1>7, <3>1, <3>2
    <3>3. CASE style[m].backdrop # "none"
      <4>1. x.drop[m] # 0 /\ x.drops = d.drops \cup {x.drop[m]}
        BY <1>2, <1>7, <3>3
      <4> QED
        BY <1>6, <1>7, <3>1, <4>1
    <3> QED
      BY <3>2, <3>3
  <2> QED
    BY <2>1, <2>2, <2>3 DEF BackdropsOk
<1>12. ASSUME NEW k \in x.back PROVE Engaged(x, k)
  BY <1>1, <1>2, <1>5 DEF BodyOk
<1>13. TrapOk(x)
  BY <1>1, <1>2, <1>4 DEF BodyOk, TrapOk
<1>14. StackOk(x)
  <2> SUFFICES ASSUME ~x.crossed PROVE
        /\ Once(x.stack) /\ \A n \in Modals : Engaged(x, n) <=> On(x.stack, n)
        /\ IF x.stack = <<>> THEN x.pad = 0 ELSE x.pad0[x.stack[1]] = 0
    BY DEF StackOk
  <2>1. /\ Once(d.stack) /\ \A n \in Modals : Engaged(d, n) <=> On(d.stack, n)
        /\ IF d.stack = <<>> THEN d.pad = 0 ELSE d.pad0[d.stack[1]] = 0
    BY <1>1 DEF StackOk
  <2> DEFINE k == Len(d.stack)
  <2>2. /\ k \in Nat /\ x.stack \in Seq(Modals) /\ Len(x.stack) = k + 1
        /\ \A i \in 1..k : x.stack[i] = d.stack[i]
        /\ x.stack[k + 1] = m /\ x.stack # <<>>
    BY <1>2, Appended
  <2>3. \A i \in 1..k : d.stack[i] # m /\ d.stack[i] \in Modals
    BY <1>2, <1>5, <2>1 DEF On
  <2>4. ~On(d.stack, m)
    BY <1>5, <2>1
  <2>5. Once(x.stack) /\ \A n : On(x.stack, n) <=> On(d.stack, n) \/ n = m
    BY <1>2, <2>1, <2>4, OneMore
  <2>6. x.pad0[x.stack[1]] = 0
    <3>1. CASE k = 0
      <4>1. d.stack = <<>> /\ x.stack[1] = m
        BY <1>2, <2>2, <3>1
      <4> QED
        BY <1>2, <2>1, <4>1 DEF Numbers
    <3>2. CASE k # 0
      <4>1. x.stack[1] = d.stack[1] /\ d.stack[1] \in Modals /\ d.stack[1] # m
        BY <2>2, <2>3, <3>2
      <4>2. d.stack # <<>>
        BY <3>2
      <4> QED
        BY <1>2, <2>1, <4>1, <4>2, SMTT(30) DEF Numbers
    <3> QED
      BY <3>1, <3>2
  <2>7. ASSUME NEW n \in Modals PROVE Engaged(x, n) <=> On(x.stack, n)
    BY <1>5, <2>1, <2>4, <2>5
  <2> QED
    BY <2>2, <2>5, <2>6, <2>7
<1> QED
  BY <1>4, <1>5, <1>8, <1>9, <1>10, <1>11, <1>12, <1>13, <1>14

LEMMA ShowOk ==
  ASSUME NEW d \in DialogStates, NEW m \in Modals, style \in Styles, d.due = {},
         ~d.hasty => DialogsOk(d)
  PROVE  LET e == show(d, m) IN
         /\ e \in DialogStates
         /\ ~e.hasty => DialogsOk(e)
<1> DEFINE a == Asked(d, m)
           o == Opened(a, m)
           c == Covered(o, m)
           e == show(d, m)
<1> HIDE DEF a, o, c, e
<1>0. style[m].fade \in BOOLEAN /\ d.shown[m] \in BOOLEAN
  BY DialogFields DEF Styles, Flags
<1>1. /\ a \in DialogStates /\ a.back \subseteq d.back \cup {m}
      /\ a.shown = d.shown /\ a.there = d.there /\ a.drop = d.drop
      /\ a.pad0 = d.pad0 /\ a.open = d.open /\ a.pad = d.pad
      /\ a.trap = d.trap /\ a.drops = d.drops /\ a.made = d.made
      /\ a.waits = d.waits /\ a.clock = d.clock /\ a.due = d.due
      /\ a.stack = d.stack /\ a.hasty = d.hasty /\ a.crossed = d.crossed
      /\ a.early = d.early
  BY AskedIs DEF a
<1>2. CASE d.shown[m]
  <2>1. e = a
    BY <1>2 DEF e, a, show
  <2>2. ASSUME ~d.hasty PROVE DialogsOk(a)
    <3>1. /\ HandlersOk(d) /\ OneEach(d) /\ Clocks(d) /\ Settled(d)
          /\ BackdropsOk(d) /\ BodyOk(d) /\ StackOk(d)
      BY <2>2, DialogParts
    <3>2. /\ Expected(a) = Expected(d)
          /\ \A n : /\ Expects(a, n) <=> Expects(d, n)
                    /\ Engaged(a, n) <=> Engaged(d, n)
                    /\ Displays(a, n) <=> Displays(d, n)
                    /\ Hides(a, n) <=> Hides(d, n)
      BY <1>1 DEF Expected, Expects, Engaged, Displays, Hides
    <3>3. HandlersOk(a) /\ OneEach(a) /\ Clocks(a) /\ BackdropsOk(a)
      BY <1>1, <3>1, <3>2 DEF HandlersOk, HandlerOk, OneEach, Clocks, BackdropsOk
    <3>4. Settled(a) /\ StackOk(a)
      BY <1>1, <3>1, <3>2 DEF Settled, SettledOne, StackOk
    <3>5. BodyOk(a)
      BY <1>1, <1>2, <3>1, <3>2 DEF BodyOk, TrapOk, Engaged
    <3> QED
      BY <3>3, <3>4, <3>5, DialogParts
  <2> QED
    BY <1>1, <2>1, <2>2 DEF e
<1>3. CASE ~d.shown[m]
  <2>1. /\ o \in DialogStates
        /\ o.shown = [a.shown EXCEPT ![m] = TRUE]
        /\ o.pad0 = [a.pad0 EXCEPT ![m] = a.pad] /\ o.stack = Append(a.stack, m)
        /\ o.there = a.there /\ o.drop = a.drop /\ o.back = a.back
        /\ o.trap = a.trap /\ o.drops = a.drops /\ o.made = a.made
        /\ o.waits = a.waits /\ o.clock = a.clock /\ o.due = a.due
        /\ o.crossed = a.crossed /\ o.early = a.early
    BY ONLY <1>1, m \in Modals, OpenedIs, ZenonT(40) DEF o
  <2>2. o.hasty = (a.hasty \/ Awaits(a, m, {"hideModal", "remove"}))
    BY ONLY <1>1, m \in Modals, OpenedIs DEF o
  <2>3. /\ c \in DialogStates /\ c.made = o.made + 1
        /\ c.drop = [o.drop EXCEPT ![m] = o.made + 1]
        /\ c.drops = o.drops \cup {o.made + 1}
        /\ c.back = o.back /\ c.crossed = o.crossed
        /\ c.stack = o.stack /\ c.shown = o.shown /\ c.there = o.there
        /\ c.pad0 = o.pad0 /\ c.trap = o.trap /\ c.waits = o.waits
        /\ c.clock = o.clock /\ c.due = o.due /\ c.hasty = o.hasty /\ c.early = o.early
    BY ONLY <2>1, m \in Modals, CoveredIs, ZenonT(40) DEF c
  <2>0. e = backdrop(o, m, "display") /\ o.shown[m] = TRUE
    BY <1>1, <1>3, <2>1, ShowIs, DialogFields DEF e, o, a, Flags
  <2>4. ASSUME ~o.hasty PROVE ~d.hasty /\ ~Expects(d, m)
    <3>1. ~d.hasty /\ \A w \in d.waits : w.m = m => w.does \notin {"hideModal", "remove"}
      BY <1>1, <2>2, <2>4 DEF Awaits
    <3>2. SettledOne(d, m) /\ HandlersOk(d)
      BY <3>1, DialogParts DEF Settled
    <3>3. Expected(d) = d.waits
      BY DEF Expected
    <3>4. ~Displays(d, m)
      BY <1>3, <3>1, <3>2, <3>3 DEF SettledOne, Hides
    <3>5. ASSUME NEW w \in d.waits, w.m = m PROVE FALSE
      <4>1. w.does # "hidden" /\ w.does \in {"display", "hideModal", "remove", "hidden"}
        BY <3>2, <3>3, DialogFields DEF HandlersOk, HandlerOk, Handlers
      <4> QED
        BY <3>1, <3>3, <3>4, <3>5, <4>1 DEF Displays
    <3> QED
      BY <3>1, <3>3, <3>5 DEF Expects
  <2>5. CASE style[m].backdrop = "none"
    <3>1. e = Displayed(o, m)
      BY <2>0, <2>5, BackdropIs, ThenIs
    <3>2. e \in DialogStates /\ e.hasty = o.hasty
      BY <2>1, <3>1, DisplayedIs
    <3>3. ASSUME ~o.hasty
          PROVE  /\ HandlersOk(o) /\ OneEach(o) /\ Clocks(o) /\ BackdropsOk(o)
                 /\ StackOk(o) /\ (\A n \in Modals \ {m} : SettledOne(o, n))
                 /\ (\A k \in o.back : Engaged(o, k))
                 /\ TrapOk(o) /\ Engaged(o, m) /\ o.shown[m] /\ ~Expects(o, m)
      <4>1. Opens(d, m, o)
        BY <1>1, <2>1, <2>5 DEF Opens
      <4> QED
        BY <1>3, <2>1, <2>4, <3>3, <4>1, OpenedOk
    <3>4. ASSUME ~o.hasty PROVE DialogsOk(e)
      <4>1. BodyOk(o) /\ ~Displays(o, m)
        BY <3>3, <3>4 DEF BodyOk, Displays, Expects
      <4> QED
        BY <2>1, <3>1, <3>3, <3>4, <4>1, DisplayOk DEF Expects
    <3> QED
      BY <3>2, <3>4 DEF e
  <2>6. CASE style[m].backdrop # "none"
    <3>3. ASSUME ~o.hasty
          PROVE  /\ HandlersOk(c) /\ OneEach(c) /\ Clocks(c) /\ BackdropsOk(c)
                 /\ StackOk(c) /\ (\A n \in Modals \ {m} : SettledOne(c, n))
                 /\ (\A k \in c.back : Engaged(c, k))
                 /\ TrapOk(c) /\ Engaged(c, m) /\ c.shown[m] /\ ~Expects(c, m)
      <4>1. Opens(d, m, c)
        BY <1>1, <2>1, <2>3, <2>6 DEF Opens
      <4> QED
        BY <1>3, <2>3, <2>4, <3>3, <4>1, OpenedOk
    <3>1. CASE style[m].fade
      <4>1. e = Later(c, o.made + 1, m, "display")
        BY <2>0, <2>6, <3>1, BackdropIs DEF c
      <4>2. o.made + 1 \in Nat \ {0} /\ o.made + 1 = c.drop[m]
        BY <2>1, <2>3, DialogFields, SMTT(30) DEF Numbers
      <4>3. Wait(c, o.made + 1, m, "display") \in Handlers
        BY <2>3, <4>2, WaitIs
      <4>4. e \in DialogStates /\ e.hasty = c.hasty
        BY <2>3, <4>1, <4>3, LaterIs
      <4>5. ASSUME ~o.hasty PROVE DialogsOk(e)
        <5>1. HandlerOk(c, Wait(c, o.made + 1, m, "display"))
          BY <2>3, <2>6, <3>1, <4>2, WaitIs DEF HandlerOk
        <5> QED
          BY <1>1, <2>1, <2>3, <3>3, <4>1, <4>2, <4>5, <5>1, WaitingOk, ZenonT(40) DEF Alike
      <4> QED
        BY <2>3, <4>4, <4>5 DEF e
    <3>2. CASE ~style[m].fade
      <4>1. e = Displayed(c, m)
        BY <2>0, <2>6, <3>2, BackdropIs, ThenIs DEF c
      <4>2. e \in DialogStates /\ e.hasty = c.hasty
        BY <2>3, <4>1, DisplayedIs
      <4>3. ASSUME ~o.hasty PROVE DialogsOk(e)
        <5>1. BodyOk(c) /\ ~Displays(c, m)
          BY <3>3, <4>3 DEF BodyOk, Displays, Expects
        <5> QED
          BY <2>3, <3>3, <4>1, <4>3, <5>1, DisplayOk DEF Expects
      <4> QED
        BY <2>3, <4>2, <4>3 DEF e
    <3> QED
      BY <1>0, <3>1, <3>2
  <2> QED
    BY <2>5, <2>6
<1> QED
  BY <1>0, <1>2, <1>3 DEF e

(* A backdrop keeps the handlers of its own dialog only.                   *)
LEMMA HandlersApart ==
  ASSUME NEW d \in DialogStates, DialogsOk(d), NEW m \in Modals, d.drop[m] # 0,
         NEW w \in Expected(d)
  PROVE  /\ w.m # m => w.drop # d.drop[m]
         /\ w.m = m /\ w.does # "hideModal" => w.drop = d.drop[m]
<1>1. /\ HandlersOk(d) /\ BackdropsOk(d)
      /\ w.m \in Modals /\ d.drop \in Numbers
      /\ w.does \in {"display", "hideModal", "remove", "hidden"}
  BY DialogParts, DialogFields DEF Expected, Handlers
<1>2. HandlerOk(d, w)
  BY <1>1 DEF HandlersOk
<1>3. w.does = "hideModal" \/ (w.drop = d.drop[w.m] /\ w.drop # 0)
  BY <1>1, <1>2 DEF HandlerOk
<1>4. w.does = "hideModal" => w.drop = 0
  BY <1>2 DEF HandlerOk
<1>5. d.drop[w.m] = d.drop[m] => w.m = m
  BY <1>1 DEF BackdropsOk
<1> QED
  BY <1>3, <1>4, <1>5

(* y is d without the handlers of m, which is not shown any more.          *)
Retires(d, m, y) ==
  /\ Alike(d, y) /\ y.open = d.open /\ y.there = d.there /\ y.early = d.early
  /\ y.shown = [d.shown EXCEPT ![m] = FALSE] /\ y.clock = d.clock
  /\ y.waits = {w \in d.waits : w.m # m} /\ y.due = {w \in d.due : w.m # m} /\ y.due = {}
  /\ y.trap = Nobody \/ (y.trap = d.trap /\ ~d.shown[m])

LEMMA HideModalOk ==
  ASSUME NEW d \in DialogStates, NEW m \in Modals, DialogsOk(d), Engaged(d, m),
         NEW y \in DialogStates, Retires(d, m, y), style \in Styles
  PROVE  DialogsOk(hideModal(y, m))
<1> DEFINE g == Gone(y, m)
           e == hideModal(y, m)
<1> HIDE DEF g, e
<1>0. /\ y.drop = d.drop /\ y.drops = d.drops /\ y.made = d.made /\ y.back = d.back
      /\ y.pad0 = d.pad0 /\ y.pad = d.pad /\ y.stack = d.stack /\ y.crossed = d.crossed
      /\ y.open = d.open /\ y.there = d.there /\ y.early = d.early
      /\ y.shown = [d.shown EXCEPT ![m] = FALSE] /\ y.clock = d.clock
      /\ y.waits = {w \in d.waits : w.m # m}
      /\ y.due = {w \in d.due : w.m # m} /\ y.due = {}
      /\ y.trap = Nobody \/ (y.trap = d.trap /\ ~d.shown[m])
  BY DEF Retires, Alike
<1>1. /\ g \in DialogStates /\ g.there = [y.there EXCEPT ![m] = FALSE]
      /\ g.shown = y.shown /\ g.drop = y.drop /\ g.back = y.back
      /\ g.pad0 = y.pad0 /\ g.open = y.open /\ g.pad = y.pad /\ g.trap = y.trap
      /\ g.drops = y.drops /\ g.made = y.made
      /\ g.waits = y.waits /\ g.clock = y.clock /\ g.due = y.due
      /\ g.stack = y.stack /\ g.crossed = y.crossed /\ g.early = y.early
  BY ONLY GoneIs, y \in DialogStates, m \in Modals DEF g
<1>2. /\ HandlersOk(d) /\ OneEach(d) /\ Clocks(d) /\ Settled(d)
      /\ BackdropsOk(d) /\ BodyOk(d) /\ StackOk(d)
  BY DialogParts
<1>3. /\ d.shown \in Flags /\ d.there \in Flags /\ d.drop \in Numbers
      /\ Expected(d) \in SUBSET Handlers /\ style[m].fade \in BOOLEAN
      /\ d.trap \in Modals \cup {Nobody}
  BY DialogFields DEF Expected, Styles
<1>4. e = backdrop(g, m, "hidden") /\ g.shown[m] = FALSE /\ g.drop = d.drop
  BY <1>0, <1>1, <1>3, HideModalIs DEF e, g, Flags
<1>5. CASE d.drop[m] = 0
  <2>1. e = Hidden(g, m)
    BY <1>4, <1>5, BackdropIs, ThenIs
  <2>2. [d.drop EXCEPT ![m] = 0] = d.drop /\ d.drops \ {d.drop[m]} = d.drops
    BY <1>2, <1>3, <1>5 DEF Numbers, BackdropsOk
  <2>3. Leaves(d, m, g)
    BY <1>0, <1>1, <2>2 DEF Leaves
  <2> QED
    BY <1>1, <2>1, <2>3, HiddenOk DEF e
<1>6. CASE d.drop[m] # 0 /\ ~style[m].fade
  <2> DEFINE r == removeBackdrop(g, m)
  <2> HIDE DEF r
  <2>1. e = Hidden(r, m)
    BY <1>4, <1>6, BackdropIs, ThenIs DEF r
  <2>2. /\ r \in DialogStates
        /\ r.drops = g.drops \ {g.drop[m]} /\ r.drop = [g.drop EXCEPT ![m] = 0]
        /\ r.waits = {w \in g.waits : w.drop # g.drop[m]}
        /\ r.open = g.open /\ r.pad = g.pad /\ r.back = g.back /\ r.crossed = g.crossed
        /\ r.stack = g.stack /\ r.shown = g.shown /\ r.there = g.there
        /\ r.pad0 = g.pad0 /\ r.trap = g.trap /\ r.made = g.made
        /\ r.clock = g.clock /\ r.due = g.due /\ r.early = g.early
    <3>1. g.drop[m] # 0
      BY <1>4, <1>6
    <3> QED
      BY ONLY <1>1, <3>1, RemovedIs, m \in Modals, ZenonT(40) DEF r
  <2>3. r.waits = {w \in d.waits : w.m # m}
    <3>1. ASSUME NEW w \in d.waits, w.m # m PROVE w.drop # g.drop[m]
      BY <1>4, <1>6, <3>1, HandlersApart DEF Expected
    <3> QED
      BY <1>0, <1>1, <2>2, <3>1
  <2>4. Leaves(d, m, r)
    BY <1>0, <1>1, <2>2, <2>3 DEF Leaves
  <2> QED
    BY <2>1, <2>2, <2>4, HiddenOk DEF e
<1>7. CASE d.drop[m] # 0 /\ style[m].fade
  <2> DEFINE id == g.drop[m]
  <2>1. e = Later(g, id, m, "remove") /\ id \in Nat \ {0}
    BY <1>3, <1>4, <1>7, BackdropIs DEF Numbers
  <2>2. Expected(g) = {w \in Expected(d) : w.m # m}
    BY <1>0, <1>1 DEF Expected
  <2>3. /\ g.shown[m] = FALSE /\ g.there[m] = FALSE
        /\ \A n \in Modals \ {m} : g.shown[n] = d.shown[n] /\ g.there[n] = d.there[n]
    BY <1>0, <1>1, <1>3 DEF Flags
  <2>4. ~Expects(g, m) /\ ~Displays(g, m)
    BY <2>2 DEF Expects, Displays
  <2>5. ASSUME NEW n \in Modals \ {m}
        PROVE  /\ Expects(g, n) <=> Expects(d, n)
               /\ Engaged(g, n) <=> Engaged(d, n)
               /\ Displays(g, n) <=> Displays(d, n)
               /\ Hides(g, n) <=> Hides(d, n)
    BY <2>2, <2>3 DEF Expects, Engaged, Displays, Hides
  <2>6. HandlersOk(g)
    <3> SUFFICES ASSUME NEW w \in Expected(g) PROVE HandlerOk(g, w)
      BY DEF HandlersOk
    <3>1. HandlerOk(d, w) /\ w.m \in Modals \ {m}
      BY <1>2, <1>3, <2>2, HandlerFields DEF HandlersOk
    <3> QED
      BY <1>4, <2>3, <3>1 DEF HandlerOk
  <2>7. OneEach(g)
    <3> SUFFICES ASSUME NEW v \in Expected(g), NEW w \in Expected(g), v.m = w.m
                 PROVE  /\ v.does = w.does => v = w
                        /\ v.does = "remove" => v = w
                        /\ v.does = "display" /\ w.does = "hideModal" =>
                             w \in g.waits /\ v.at < w.at
      BY DEF OneEach
    <3>1. v \in Expected(d) /\ w \in Expected(d) /\ w.m # m
      BY <2>2
    <3>2. w \in d.waits => w \in g.waits
      BY <1>0, <1>1, <3>1
    <3> QED
      BY <1>2, <3>1, <3>2 DEF OneEach
  <2>8. Clocks(g)
    BY <1>0, <1>1, <1>2 DEF Clocks
  <2>9. TrapOk(g)
    <3>1. TrapOk(d)
      BY <1>2 DEF BodyOk
    <3>2. CASE y.trap = Nobody
      BY <1>1, <3>2 DEF TrapOk
    <3>3. CASE y.trap = d.trap /\ ~d.shown[m]
      BY <1>0, <1>1, <2>3, <3>1, <3>3 DEF TrapOk
    <3> QED
      BY <1>0, <3>2, <3>3
  <2>10. ASSUME NEW n \in Modals \ {m} PROVE SettledOne(g, n)
    BY <1>0, <1>1, <1>2, <2>3, <2>5 DEF Settled, SettledOne
  <2>11. HandlerOk(g, Wait(g, id, m, "remove"))
    BY <1>1, <1>7, <2>1, <2>3, WaitIs DEF HandlerOk
  <2>12. \A n \in Modals : Engaged(d, n) <=> Engaged(g, n) \/ n = m
    BY <2>5
  <2>13. \A k \in d.back : Engaged(d, k)
    BY <1>2 DEF BodyOk
  <2>14. Alike(d, g) /\ g.due = {}
    BY <1>0, <1>1 DEF Alike
  <2> QED
    BY <1>1, <1>2, <2>1, <2>4, <2>6, <2>7, <2>8, <2>9, <2>10, <2>11, <2>12, <2>13,
       <2>14, WaitingOk DEF e
<1> QED
  BY <1>3, <1>5, <1>6, <1>7 DEF e

(* The calls keep the types, also when one was hasty.                      *)
LEMMA BackdropTypes ==
  ASSUME NEW d \in DialogStates, NEW m \in Modals, NEW does \in {"display", "hidden"},
         style \in Styles
  PROVE  LET e == backdrop(d, m, does) IN e \in DialogStates /\ e.hasty = d.hasty
<1>1. ASSUME NEW x \in DialogStates, x.hasty = d.hasty
      PROVE  Then(x, m, does) \in DialogStates /\ Then(x, m, does).hasty = d.hasty
  <2>1. CASE does = "display"
    <3>1. Then(x, m, does) = Displayed(x, m)
      BY <2>1, ThenIs
    <3>2. Displayed(x, m) \in DialogStates /\ Displayed(x, m).hasty = x.hasty
      BY DisplayedIs
    <3> QED
      BY <1>1, <3>1, <3>2
  <2>2. CASE does = "hidden"
    <3>1. Then(x, m, does) = Hidden(x, m)
      BY <2>2, ThenIs
    <3>2. Hidden(x, m) \in DialogStates /\ Hidden(x, m).hasty = x.hasty
      BY HiddenIs
    <3> QED
      BY <1>1, <3>1, <3>2
  <2> QED
    BY <2>1, <2>2
<1>3. /\ style[m].fade \in BOOLEAN /\ d.shown[m] \in BOOLEAN /\ d.drop[m] \in Nat
      /\ d.made + 1 \in Nat
  BY DialogFields DEF Styles, Flags, Numbers
<1>4. Covered(d, m) \in DialogStates /\ Covered(d, m).hasty = d.hasty
  BY CoveredIs
<1>5. CASE d.shown[m] /\ style[m].backdrop # "none"
  <2>1. CASE style[m].fade
    <3>1. backdrop(d, m, does) = Later(Covered(d, m), d.made + 1, m, does)
      BY <1>5, <2>1, BackdropIs
    <3>2. does \in {"display", "hideModal", "remove", "hidden"}
      OBVIOUS
    <3>3. Wait(Covered(d, m), d.made + 1, m, does) \in Handlers
      BY <1>3, <1>4, <3>2, WaitIs
    <3> QED
      BY <1>4, <3>1, <3>3, LaterIs
  <2>2. CASE ~style[m].fade
    BY <1>1, <1>4, <1>5, <2>2, BackdropIs
  <2> QED
    BY <1>3, <2>1, <2>2
<1>6. CASE ~d.shown[m] /\ d.drop[m] # 0
  <2>1. CASE style[m].fade
    <3>1. backdrop(d, m, does) = Later(d, d.drop[m], m, "remove")
      BY <1>6, <2>1, BackdropIs
    <3>2. Wait(d, d.drop[m], m, "remove") \in Handlers
      BY <1>3, WaitIs
    <3> QED
      BY <3>1, <3>2, LaterIs
  <2>2. CASE ~style[m].fade
    <3>1. removeBackdrop(d, m) \in DialogStates /\ removeBackdrop(d, m).hasty = d.hasty
      BY <1>6, RemovedIs
    <3> QED
      BY <1>1, <1>6, <2>2, <3>1, BackdropIs
  <2> QED
    BY <1>3, <2>1, <2>2
<1>7. CASE \/ d.shown[m] /\ style[m].backdrop = "none"
           \/ ~d.shown[m] /\ d.drop[m] = 0
  BY <1>1, <1>7, BackdropIs
<1> QED
  BY <1>3, <1>5, <1>6, <1>7

LEMMA HideModalTypes ==
  ASSUME NEW d \in DialogStates, NEW m \in Modals, style \in Styles
  PROVE  hideModal(d, m) \in DialogStates /\ hideModal(d, m).hasty = d.hasty
<1>1. Gone(d, m) \in DialogStates /\ Gone(d, m).hasty = d.hasty
  BY GoneIs
<1> QED
  BY <1>1, HideModalIs, BackdropTypes

LEMMA HideOk ==
  ASSUME NEW d \in DialogStates, NEW m \in Modals, style \in Styles, d.due = {},
         ~d.hasty => DialogsOk(d)
  PROVE  LET e == hide(d, m) IN
         /\ e \in DialogStates
         /\ ~e.hasty => DialogsOk(e)
<1> DEFINE y == Dropped(d, m)
           e == hide(d, m)
<1> HIDE DEF y, e
<1>0. /\ style[m].fade \in BOOLEAN /\ d.shown[m] \in BOOLEAN
      /\ d.shown \in Flags /\ Expected(d) \in SUBSET Handlers /\ Expected(d) = d.waits
  BY DialogFields DEF Styles, Flags, Expected
<1>1. CASE ~d.shown[m]
  BY <1>1, HideIs
<1>2. ASSUME d.shown[m]
      PROVE  /\ y \in DialogStates
             /\ y.shown = [d.shown EXCEPT ![m] = FALSE] /\ y.trap = Nobody
             /\ y.there = d.there /\ y.drop = d.drop /\ y.back = d.back
             /\ y.pad0 = d.pad0 /\ y.open = d.open /\ y.pad = d.pad
             /\ y.drops = d.drops /\ y.made = d.made
             /\ y.waits = d.waits /\ y.clock = d.clock /\ y.due = d.due
             /\ y.stack = d.stack /\ y.hasty = d.hasty /\ y.crossed = d.crossed
  BY ONLY DroppedIs, d \in DialogStates, m \in Modals DEF y
<1>3. y.early = (d.early \/ Awaits(d, m, {"display"}))
  BY ONLY DroppedIs, d \in DialogStates, m \in Modals DEF y
<1>4. ASSUME d.shown[m], ~d.hasty
      PROVE  /\ HandlersOk(d) /\ OneEach(d) /\ Clocks(d) /\ Settled(d)
             /\ BackdropsOk(d) /\ BodyOk(d) /\ StackOk(d) /\ Engaged(d, m)
             /\ \A w \in d.waits : w.m = m => w.does = "display" /\ style[m].fade
  <2>1. /\ HandlersOk(d) /\ OneEach(d) /\ Clocks(d) /\ Settled(d)
        /\ BackdropsOk(d) /\ BodyOk(d) /\ StackOk(d) /\ Engaged(d, m)
    BY <1>4, DialogParts DEF Engaged
  <2>2. ASSUME NEW w \in d.waits, w.m = m PROVE w.does = "display" /\ style[m].fade
    <3>1. HandlerOk(d, w) /\ w.does \in {"display", "hideModal", "remove", "hidden"}
      BY <1>0, <2>1 DEF HandlersOk, Handlers
    <3> QED
      BY <1>4, <2>2, <3>1 DEF HandlerOk
  <2> QED
    BY <2>1, <2>2
<1>5. CASE d.shown[m] /\ style[m].fade
  <2>1. e = Later(y, 0, m, "hideModal")
    BY <1>5, HideIs DEF e, y
  <2>2. e \in DialogStates /\ e.hasty = d.hasty
    <3>1. Wait(y, 0, m, "hideModal") \in Handlers
      BY <1>2, <1>5, WaitIs
    <3> QED
      BY <1>2, <1>5, <2>1, <3>1, LaterIs
  <2>3. ASSUME ~d.hasty PROVE DialogsOk(e)
    <3>0. /\ HandlersOk(d) /\ OneEach(d) /\ Clocks(d) /\ Settled(d)
          /\ BackdropsOk(d) /\ BodyOk(d) /\ StackOk(d) /\ Engaged(d, m)
          /\ \A w \in d.waits : w.m = m => w.does = "display"
      BY <1>4, <1>5, <2>3
    <3>1. Expected(y) = Expected(d)
      BY <1>2, <1>5 DEF Expected
    <3>2. /\ y.shown[m] = FALSE
          /\ \A n \in Modals \ {m} : y.shown[n] = d.shown[n]
      BY <1>0, <1>2, <1>5 DEF Flags
    <3>3. ASSUME NEW n \in Modals
          PROVE  /\ Expects(y, n) <=> Expects(d, n)
                 /\ n # m => (Engaged(y, n) <=> Engaged(d, n))
                 /\ Displays(y, n) <=> Displays(d, n)
                 /\ Hides(y, n) <=> Hides(d, n)
      BY <3>1, <3>2 DEF Expects, Engaged, Displays, Hides
    <3>4. HandlersOk(y)
      <4> SUFFICES ASSUME NEW w \in Expected(y) PROVE HandlerOk(y, w)
        BY DEF HandlersOk
      <4>1. HandlerOk(d, w) /\ w.m \in Modals
        BY <1>0, <3>0, <3>1, HandlerFields DEF HandlersOk
      <4> QED
        BY <1>2, <1>5, <3>2, <4>1 DEF HandlerOk
    <3>5. OneEach(y) /\ Clocks(y) /\ TrapOk(y)
      BY <1>2, <1>5, <3>0, <3>1 DEF OneEach, Clocks, TrapOk
    <3>6. ASSUME NEW n \in Modals \ {m} PROVE SettledOne(y, n)
      BY <1>2, <1>3, <1>5, <3>0, <3>2, <3>3 DEF Settled, SettledOne
    <3>7. HandlerOk(y, Wait(y, 0, m, "hideModal"))
      BY <1>2, <1>5, <3>2, WaitIs DEF HandlerOk
    <3>8. /\ \A w \in Expected(y) : w.m = m => w.does = "display"
          /\ Displays(y, m) => y.early
      BY <1>0, <1>3, <3>0, <3>1 DEF Displays, Awaits
    <3>9. \A k \in d.back : Engaged(d, k)
      BY <3>0 DEF BodyOk
    <3>10. \A n \in Modals : Engaged(d, n) <=> Engaged(y, n) \/ n = m
      BY <3>0, <3>3
    <3>11. Alike(d, y) /\ y.due = {} /\ y \in DialogStates
      BY <1>2, <1>5 DEF Alike
    <3> QED
      BY <2>1, <3>0, <3>4, <3>5, <3>6, <3>7, <3>8, <3>9, <3>10, <3>11, WaitingOk
  <2> QED
    BY <2>2, <2>3 DEF e
<1>6. CASE d.shown[m] /\ ~style[m].fade
  <2>1. e = hideModal(y, m)
    BY <1>6, HideIs DEF e, y
  <2>2. e \in DialogStates /\ e.hasty = d.hasty
    BY <1>2, <1>6, <2>1, HideModalTypes
  <2>3. ASSUME ~d.hasty PROVE DialogsOk(e)
    <3>1. \A w \in d.waits : w.m # m
      BY <1>4, <1>6, <2>3
    <3>2. y.early = d.early
      BY <1>3, <3>1, DialogFields DEF Awaits
    <3>3. Retires(d, m, y)
      BY <1>2, <1>6, <3>1, <3>2 DEF Retires, Alike
    <3> QED
      BY <1>2, <1>4, <1>6, <2>1, <2>3, <3>3, HideModalOk
  <2> QED
    BY <2>2, <2>3 DEF e
<1> QED
  BY <1>0, <1>1, <1>5, <1>6

(* The handlers that are due, but for one of them.                         *)
Taken(d, w) == [d EXCEPT !.due = @ \ {w}]

LEMMA TakenIs ==
  ASSUME NEW d \in DialogStates, NEW w
  PROVE  LET e == Taken(d, w) IN
         /\ e \in DialogStates /\ e.due = d.due \ {w}
         /\ e.open = d.open /\ e.pad = d.pad /\ e.back = d.back /\ e.crossed = d.crossed
         /\ e.stack = d.stack /\ e.shown = d.shown /\ e.there = d.there
         /\ e.drop = d.drop /\ e.drops = d.drops /\ e.waits = d.waits
         /\ e.pad0 = d.pad0 /\ e.trap = d.trap /\ e.made = d.made
         /\ e.clock = d.clock /\ e.hasty = d.hasty /\ e.early = d.early
<1>1. d.due \ {w} \in SUBSET Handlers
  BY DialogFields
<1> QED
  BY <1>1 DEF Taken, DialogStates

LEMMA HandleIs ==
  ASSUME NEW d, NEW w
  PROVE  /\ w.does = "hideModal" => Handle(d, w) = hideModal(d, w.m)
         /\ w.does = "remove" => Handle(d, w) = Hidden(removeBackdrop(d, w.m), w.m)
         /\ w.does = "display" => Handle(d, w) = Displayed(d, w.m)
         /\ w.does = "hidden" => Handle(d, w) = Hidden(d, w.m)
BY DEF Handle, Then

LEMMA HandleTypes ==
  ASSUME NEW d \in DialogStates, NEW w \in Handlers, style \in Styles
  PROVE  Handle(d, w) \in DialogStates /\ Handle(d, w).hasty = d.hasty
<1>1. w.m \in Modals /\ w.does \in {"display", "hideModal", "remove", "hidden"}
  BY DEF Handlers
<1>2. CASE w.does = "hideModal"
  BY <1>1, <1>2, HandleIs, HideModalTypes
<1>3. CASE w.does = "remove"
  <2>1. /\ removeBackdrop(d, w.m) \in DialogStates
        /\ removeBackdrop(d, w.m).hasty = d.hasty
    <3>1. CASE d.drop[w.m] = 0
      BY <3>1 DEF removeBackdrop
    <3>2. CASE d.drop[w.m] # 0
      BY <1>1, <3>2, RemovedIs
    <3> QED
      BY <3>1, <3>2
  <2> QED
    <3>1. /\ Hidden(removeBackdrop(d, w.m), w.m) \in DialogStates
          /\ Hidden(removeBackdrop(d, w.m), w.m).hasty = removeBackdrop(d, w.m).hasty
      BY <1>1, <2>1, HiddenIs
    <3> QED
      BY <1>3, <2>1, <3>1, HandleIs
<1>4. CASE w.does = "display"
  <2>1. Displayed(d, w.m) \in DialogStates /\ Displayed(d, w.m).hasty = d.hasty
    BY <1>1, DisplayedIs
  <2> QED
    BY <1>4, <2>1, HandleIs
<1>5. CASE w.does = "hidden"
  <2>1. Hidden(d, w.m) \in DialogStates /\ Hidden(d, w.m).hasty = d.hasty
    BY <1>1, HiddenIs
  <2> QED
    BY <1>5, <2>1, HandleIs
<1> QED
  BY <1>1, <1>2, <1>3, <1>4, <1>5

LEMMA HandleOk ==
  ASSUME NEW d \in DialogStates, DialogsOk(d), NEW w \in d.due, style \in Styles
  PROVE  DialogsOk(Handle(Taken(d, w), w))
<1> DEFINE t == Taken(d, w)
           m == w.m
<1> HIDE DEF t
<1>0. /\ d.shown \in Flags /\ d.there \in Flags /\ d.drop \in Numbers
      /\ Expected(d) \in SUBSET Handlers /\ w \in Expected(d) /\ w \in Handlers
      /\ m \in Modals /\ d.shown[m] \in BOOLEAN /\ d.there[m] \in BOOLEAN
  BY DialogFields, HandlerFields DEF Expected, Flags
<1>1. /\ t \in DialogStates /\ t.due = d.due \ {w}
      /\ t.open = d.open /\ t.pad = d.pad /\ t.back = d.back /\ t.crossed = d.crossed
      /\ t.stack = d.stack /\ t.shown = d.shown /\ t.there = d.there
      /\ t.drop = d.drop /\ t.drops = d.drops /\ t.waits = d.waits
      /\ t.pad0 = d.pad0 /\ t.trap = d.trap /\ t.made = d.made
      /\ t.clock = d.clock /\ t.early = d.early
  BY ONLY TakenIs, d \in DialogStates DEF t
<1>2. /\ HandlersOk(d) /\ OneEach(d) /\ Clocks(d) /\ Settled(d)
      /\ BackdropsOk(d) /\ BodyOk(d) /\ StackOk(d)
  BY DialogParts
<1>3. /\ t.due = {} /\ d.due = {w} /\ w \notin d.waits
      /\ Expected(t) = Expected(d) \ {w} /\ Expected(t) = d.waits
  BY <1>1, <1>2 DEF Clocks, Expected
<1>4. HandlerOk(d, w) /\ w.does \in {"display", "hideModal", "remove"} /\ Engaged(d, m)
  <2>1. HandlerOk(d, w)
    BY <1>0, <1>2 DEF HandlersOk
  <2>2. Engaged(d, m)
    BY <1>0 DEF Engaged, Expects
  <2> QED
    BY <1>0, <2>1, <2>2 DEF HandlerOk, Handlers
<1>5. ASSUME w.does # "display", NEW v \in d.waits PROVE v.m # m
  <2>1. v \in Expected(d) /\ HandlerOk(d, v) /\ v # w
    BY <1>2, <1>3 DEF Expected, HandlersOk
  <2>2. v.does \in {"display", "hideModal", "remove"}
    BY <1>0, <2>1 DEF HandlerOk, Handlers
  <2> QED
    BY <1>0, <1>2, <1>3, <1>4, <1>5, <2>1, <2>2 DEF OneEach
<1>6. CASE w.does = "hideModal"
  <2>1. ~d.shown[m]
    BY <1>4, <1>6 DEF HandlerOk
  <2>2. [d.shown EXCEPT ![m] = FALSE] = d.shown
    BY <1>0, <2>1 DEF Flags
  <2>3. t.waits = {v \in d.waits : v.m # m} /\ t.due = {v \in d.due : v.m # m}
    BY <1>1, <1>3, <1>5, <1>6
  <2>4. Retires(d, m, t)
    BY <1>1, <1>3, <2>1, <2>2, <2>3 DEF Retires, Alike
  <2>5. DialogsOk(hideModal(t, m))
    BY <1>0, <1>1, <1>4, <2>4, HideModalOk
  <2> QED
    BY <1>6, <2>5, HandleIs DEF t
<1>7. CASE w.does = "remove"
  <2> DEFINE r == removeBackdrop(t, m)
  <2> HIDE DEF r
  <2>1. ~d.shown[m] /\ ~d.there[m] /\ d.drop[m] # 0
    BY <1>4, <1>7 DEF HandlerOk
  <2>2. /\ r \in DialogStates
        /\ r.drops = t.drops \ {t.drop[m]} /\ r.drop = [t.drop EXCEPT ![m] = 0]
        /\ r.waits = {v \in t.waits : v.drop # t.drop[m]}
        /\ r.open = t.open /\ r.pad = t.pad /\ r.back = t.back /\ r.crossed = t.crossed
        /\ r.stack = t.stack /\ r.shown = t.shown /\ r.there = t.there
        /\ r.pad0 = t.pad0 /\ r.trap = t.trap /\ r.made = t.made
        /\ r.clock = t.clock /\ r.due = t.due /\ r.early = t.early
    <3>1. t.drop[m] # 0 /\ m \in Modals
      BY <1>0, <1>1, <2>1
    <3> QED
      BY ONLY <1>1, <3>1, RemovedIs, ZenonT(60) DEF r
  <2>3. /\ [d.shown EXCEPT ![m] = FALSE] = d.shown
        /\ [d.there EXCEPT ![m] = FALSE] = d.there
    BY <1>0, <2>1 DEF Flags
  <2>4. r.waits = {v \in d.waits : v.m # m} /\ r.due = {v \in d.due : v.m # m}
    <3>1. ASSUME NEW v \in d.waits PROVE v.m # m /\ v.drop # t.drop[m]
      BY <1>0, <1>1, <1>5, <1>7, <2>1, HandlersApart DEF Expected
    <3> QED
      BY <1>1, <1>3, <2>2, <3>1
  <2>5. Leaves(d, m, r)
    BY <1>1, <2>1, <2>2, <2>3, <2>4 DEF Leaves
  <2>6. DialogsOk(Hidden(r, m))
    BY <1>0, <1>4, <2>2, <2>5, HiddenOk
  <2> QED
    BY <1>7, <2>6, HandleIs DEF t, r
<1>8. CASE w.does = "display"
  <2>1. SettledOne(d, m) /\ Displays(d, m)
    BY <1>0, <1>2, <1>8 DEF Settled, Displays
  <2>2. d.shown[m] \/ (d.early /\ Hides(d, m))
    BY <2>1 DEF SettledOne
  <2>3. ASSUME NEW v \in Expected(t), v.m = m PROVE v.does = "hideModal"
    <3>1. v \in Expected(d) /\ v # w /\ HandlerOk(d, v)
      BY <1>2, <1>3 DEF HandlersOk
    <3>2. v.does \in {"display", "hideModal", "remove"}
      BY <1>0, <3>1 DEF HandlerOk, Handlers
    <3> QED
      BY <1>0, <1>2, <1>8, <2>3, <3>1, <3>2 DEF OneEach
  <2>4. Hides(t, m) <=> Hides(d, m)
    BY <1>3, <1>8 DEF Hides
  <2>5. Engaged(t, m) /\ (t.early \/ t.shown[m]) /\ ~Displays(t, m)
    BY <1>1, <2>2, <2>3, <2>4 DEF Engaged, Expects, Hides, Displays
  <2>6. ASSUME NEW n \in Modals \ {m}
        PROVE  /\ Expects(t, n) <=> Expects(d, n)
               /\ Engaged(t, n) <=> Engaged(d, n)
               /\ Displays(t, n) <=> Displays(d, n)
               /\ Hides(t, n) <=> Hides(d, n)
    BY <1>1, <1>3 DEF Expects, Engaged, Displays, Hides
  <2>7. \A n \in Modals : Engaged(t, n) <=> Engaged(d, n)
    BY <1>4, <2>5, <2>6
  <2>8. HandlersOk(t)
    BY <1>1, <1>2, <1>3 DEF HandlersOk, HandlerOk
  <2>9. OneEach(t) /\ Clocks(t)
    BY <1>1, <1>2, <1>3 DEF OneEach, Clocks
  <2>10. BackdropsOk(t) /\ StackOk(t)
    BY <1>1, <1>2, <2>7 DEF BackdropsOk, StackOk
  <2>11. BodyOk(t)
    <3>1. d.back \in SUBSET Modals
      BY DialogFields
    <3> QED
      BY <1>1, <1>2, <2>7, <3>1 DEF BodyOk, TrapOk
  <2>12. ASSUME NEW n \in Modals \ {m} PROVE SettledOne(t, n)
    BY <1>1, <1>2, <2>6 DEF Settled, SettledOne
  <2>13. DialogsOk(Displayed(t, m))
    BY <1>0, <1>1, <2>3, <2>5, <2>8, <2>9, <2>10, <2>11, <2>12, DisplayOk
  <2> QED
    BY <1>8, <2>13, HandleIs DEF t
<1> QED
  BY <1>4, <1>6, <1>7, <1>8

(* A transition ends: the handlers that waited for it are due.             *)
EndOf(d, id, m) == {w \in d.waits : w.drop = id /\ (id = 0 => w.m = m)}
Ended(d, id, m) ==
  LET its  == EndOf(d, id, m)
      rest == d.waits \ its IN
  [d EXCEPT !.waits = rest, !.due = its, !.clock = IF rest = {} THEN 0 ELSE @]

LEMMA EndedIs ==
  ASSUME NEW d \in DialogStates, NEW id, NEW m
  PROVE  LET e == Ended(d, id, m) IN
         /\ e \in DialogStates /\ e.due = EndOf(d, id, m)
         /\ e.waits = d.waits \ EndOf(d, id, m)
         /\ e.waits = {} \/ e.clock = d.clock
         /\ e.open = d.open /\ e.pad = d.pad /\ e.back = d.back /\ e.crossed = d.crossed
         /\ e.stack = d.stack /\ e.shown = d.shown /\ e.there = d.there
         /\ e.drop = d.drop /\ e.drops = d.drops
         /\ e.pad0 = d.pad0 /\ e.trap = d.trap /\ e.made = d.made
         /\ e.hasty = d.hasty /\ e.early = d.early
<1> DEFINE its  == EndOf(d, id, m)
           rest == d.waits \ its
           c    == IF rest = {} THEN 0 ELSE d.clock
<1> HIDE DEF its, rest, c
<1>1. its \in SUBSET Handlers /\ rest \in SUBSET Handlers /\ c \in Nat
  BY DialogFields DEF EndOf, its, rest, c
<1>2. Ended(d, id, m) = [d EXCEPT !.waits = rest, !.due = its, !.clock = c]
  BY DEF Ended, its, rest, c, DialogStates
<1>3. LET e == Ended(d, id, m) IN
         /\ e \in DialogStates /\ e.due = its /\ e.waits = rest /\ e.clock = c
         /\ e.open = d.open /\ e.pad = d.pad /\ e.back = d.back /\ e.crossed = d.crossed
         /\ e.stack = d.stack /\ e.shown = d.shown /\ e.there = d.there
         /\ e.drop = d.drop /\ e.drops = d.drops
         /\ e.pad0 = d.pad0 /\ e.trap = d.trap /\ e.made = d.made
         /\ e.hasty = d.hasty /\ e.early = d.early
  BY <1>1, <1>2, ZenonT(40) DEF DialogStates
<1>4. rest = {} \/ c = d.clock
  BY DEF c
<1> QED
  BY <1>3, <1>4 DEF its, rest

LEMMA EndOk ==
  ASSUME NEW d \in DialogStates, DialogsOk(d), d.due = {}, NEW id, NEW m,
         \E w \in EndOf(d, id, m) :
           \A v \in d.waits \ EndOf(d, id, m) : v.at < w.at => v.drop = 0
  PROVE  DialogsOk(Ended(d, id, m))
<1> DEFINE e   == Ended(d, id, m)
           its == EndOf(d, id, m)
<1> HIDE DEF e
<1>1. /\ e \in DialogStates /\ e.due = its /\ e.waits = d.waits \ its
      /\ e.waits = {} \/ e.clock = d.clock
      /\ e.open = d.open /\ e.pad = d.pad /\ e.back = d.back /\ e.crossed = d.crossed
      /\ e.stack = d.stack /\ e.shown = d.shown /\ e.there = d.there
      /\ e.drop = d.drop /\ e.drops = d.drops
      /\ e.pad0 = d.pad0 /\ e.trap = d.trap /\ e.made = d.made /\ e.early = d.early
  BY ONLY EndedIs, d \in DialogStates DEF e
<1>2. /\ HandlersOk(d) /\ OneEach(d) /\ Clocks(d) /\ Settled(d)
      /\ BackdropsOk(d) /\ BodyOk(d) /\ StackOk(d)
  BY DialogParts
<1>3. Expected(d) = d.waits /\ Expected(e) = d.waits /\ its \subseteq d.waits
  BY <1>1 DEF Expected, EndOf
<1>4. /\ \A n : /\ Expects(e, n) <=> Expects(d, n)
                /\ Engaged(e, n) <=> Engaged(d, n)
                /\ Displays(e, n) <=> Displays(d, n)
                /\ Hides(e, n) <=> Hides(d, n)
  BY <1>1, <1>3 DEF Expects, Engaged, Displays, Hides
<1>5. ASSUME NEW w \in d.waits
      PROVE  /\ w.m \in Modals /\ w.at \in Nat
             /\ w.does \in {"display", "hideModal", "remove"}
             /\ w.does = "hideModal" <=> w.drop = 0
             /\ w.drop # 0 => w.drop = d.drop[w.m]
  <2>1. HandlerOk(d, w) /\ w \in Handlers
    BY <1>2, <1>3, DialogFields DEF HandlersOk
  <2>2. w.does \in {"display", "hideModal", "remove"} /\ w.m \in Modals /\ w.at \in Nat
    BY <2>1, HandlerFields DEF HandlerOk, Handlers
  <2> QED
    BY <2>1, <2>2 DEF HandlerOk
<1>6. ASSUME NEW v \in its, NEW w \in its PROVE v = w
  <2>1. /\ v \in d.waits /\ w \in d.waits /\ v.drop = id /\ w.drop = id
        /\ id = 0 => v.m = m /\ w.m = m
    BY DEF EndOf
  <2>2. v.m = w.m
    <3>1. CASE id = 0
      BY <2>1, <3>1
    <3>2. CASE id # 0
      <4>1. d.drop[v.m] = d.drop[w.m] /\ d.drop[v.m] # 0 /\ v.m \in Modals /\ w.m \in Modals
        BY <1>5, <2>1, <3>2
      <4> QED
        BY <1>2, <4>1 DEF BackdropsOk
    <3> QED
      BY <3>1, <3>2
  <2>3. v.does = w.does \/ v.does = "remove" \/ w.does = "remove"
    BY <1>5, <2>1
  <2> QED
    BY <1>2, <1>3, <2>1, <2>2, <2>3 DEF OneEach
<1>7. OneEach(e)
  <2> SUFFICES ASSUME NEW v \in d.waits, NEW w \in d.waits, v.m = w.m
               PROVE  /\ v.does = w.does => v = w
                      /\ v.does = "remove" => v = w
                      /\ v.does = "display" /\ w.does = "hideModal" =>
                           w \in e.waits /\ v.at < w.at
    BY <1>3 DEF OneEach
  <2>1. /\ v.does = w.does => v = w
        /\ v.does = "remove" => v = w
        /\ v.does = "display" /\ w.does = "hideModal" => v.at < w.at
    BY <1>2, <1>3 DEF OneEach
  <2>2. ASSUME v.does = "display", w.does = "hideModal", w \in its PROVE FALSE
    <3>1. PICK u \in its : \A x \in d.waits \ its : x.at < u.at => x.drop = 0
      OBVIOUS
    <3>2. u = w
      BY <1>6, <2>2, <3>1
    <3>3. v.drop # 0 /\ w.drop = 0 /\ w.drop = id
      BY <1>5, <2>2 DEF EndOf
    <3>4. v \notin its
      BY <3>3 DEF EndOf
    <3> QED
      BY <2>1, <2>2, <3>1, <3>2, <3>3, <3>4
  <2> QED
    BY <1>1, <2>1, <2>2
<1>8. HandlersOk(e)
  BY <1>1, <1>2, <1>3 DEF HandlersOk, HandlerOk
<1>9. Clocks(e)
  BY <1>1, <1>2, <1>6 DEF Clocks
<1>10. Settled(e) /\ StackOk(e)
  BY <1>1, <1>2, <1>4 DEF Settled, SettledOne, StackOk
<1>11. BackdropsOk(e) /\ BodyOk(e)
  BY <1>1, <1>2, <1>4 DEF BackdropsOk, BodyOk, TrapOk
<1> QED
  BY <1>7, <1>8, <1>9, <1>10, <1>11, DialogParts DEF e

(* Presses and links do not count.                                         *)
LEMMA SameOk ==
  ASSUME NEW d \in DialogStates, NEW e \in DialogStates,
         /\ e.due = d.due /\ e.waits = d.waits
         /\ e.open = d.open /\ e.pad = d.pad /\ e.back = d.back /\ e.crossed = d.crossed
         /\ e.stack = d.stack /\ e.shown = d.shown /\ e.there = d.there
         /\ e.drop = d.drop /\ e.drops = d.drops /\ e.clock = d.clock
         /\ e.pad0 = d.pad0 /\ e.trap = d.trap /\ e.made = d.made /\ e.early = d.early
  PROVE  DialogsOk(d) => DialogsOk(e)
<1> SUFFICES ASSUME DialogsOk(d) PROVE DialogsOk(e)
  OBVIOUS
<1>1. /\ HandlersOk(d) /\ OneEach(d) /\ Clocks(d) /\ Settled(d)
      /\ BackdropsOk(d) /\ BodyOk(d) /\ StackOk(d)
  BY DialogParts
<1>2. /\ Expected(e) = Expected(d)
      /\ \A n : /\ Expects(e, n) <=> Expects(d, n)
                /\ Engaged(e, n) <=> Engaged(d, n)
                /\ Displays(e, n) <=> Displays(d, n)
                /\ Hides(e, n) <=> Hides(d, n)
  BY DEF Expected, Expects, Engaged, Displays, Hides
<1>3. HandlersOk(e) /\ OneEach(e) /\ Clocks(e)
  BY <1>1, <1>2 DEF HandlersOk, HandlerOk, OneEach, Clocks
<1>4. Settled(e) /\ StackOk(e)
  BY <1>1, <1>2 DEF Settled, SettledOne, StackOk
<1>5. BackdropsOk(e) /\ BodyOk(e)
  BY <1>1, <1>2 DEF BackdropsOk, BodyOk, TrapOk
<1> QED
  BY <1>3, <1>4, <1>5, DialogParts

LEMMA AskingIs ==
  ASSUME NEW d \in DialogStates, NEW m \in Modals
  PROVE  LET e == [d EXCEPT !.asks = @ \cup {m}] IN
         /\ e \in DialogStates /\ e.hasty = d.hasty /\ e.due = d.due
         /\ DialogsOk(d) => DialogsOk(e)
<1> DEFINE e == [d EXCEPT !.asks = @ \cup {m}]
<1>1. /\ e \in DialogStates /\ e.hasty = d.hasty /\ e.due = d.due /\ e.waits = d.waits
      /\ e.open = d.open /\ e.pad = d.pad /\ e.back = d.back /\ e.crossed = d.crossed
      /\ e.stack = d.stack /\ e.shown = d.shown /\ e.there = d.there
      /\ e.drop = d.drop /\ e.drops = d.drops /\ e.clock = d.clock
      /\ e.pad0 = d.pad0 /\ e.trap = d.trap /\ e.made = d.made /\ e.early = d.early
  BY DEF DialogStates
<1> QED
  BY <1>1, SameOk

LEMMA PressedIs ==
  ASSUME NEW d \in DialogStates, NEW m \in Modals, NEW p \in BOOLEAN
  PROVE  LET e == [d EXCEPT !.ignore[m] = p] IN
         /\ e \in DialogStates /\ e.hasty = d.hasty /\ e.due = d.due
         /\ DialogsOk(d) => DialogsOk(e)
<1> DEFINE e == [d EXCEPT !.ignore[m] = p]
<1>1. /\ e \in DialogStates /\ e.hasty = d.hasty /\ e.due = d.due /\ e.waits = d.waits
      /\ e.open = d.open /\ e.pad = d.pad /\ e.back = d.back /\ e.crossed = d.crossed
      /\ e.stack = d.stack /\ e.shown = d.shown /\ e.there = d.there
      /\ e.drop = d.drop /\ e.drops = d.drops /\ e.clock = d.clock
      /\ e.pad0 = d.pad0 /\ e.trap = d.trap /\ e.made = d.made /\ e.early = d.early
  BY DEF DialogStates, Flags
<1> QED
  BY <1>1, SameOk

LEMMA DialogsStart == DInit => DialogsInv
<1> SUFFICES ASSUME DInit PROVE DialogsInv
  OBVIOUS
<1>1. style \in Styles /\ dlg \in DialogStates
  <2>1. style \in Styles
    BY DEF DInit, Styles
  <2>2. /\ None \in Flags /\ [m \in Modals |-> 0] \in Numbers
        /\ <<>> \in Seq(Modals) /\ 0 \in Nat /\ FALSE \in BOOLEAN
    BY SMTT(30) DEF Flags, Numbers, None
  <2>3. dlg \in DialogStates
    BY <2>2, ZenonT(60) DEF DInit, DialogStates
  <2> QED
    BY <2>1, <2>3
<1>2. /\ dlg.waits = {} /\ dlg.due = {} /\ dlg.shown = None /\ dlg.there = None
      /\ dlg.drop = [m \in Modals |-> 0] /\ dlg.drops = {} /\ dlg.made = 0
      /\ dlg.back = {} /\ dlg.open = FALSE /\ dlg.pad = 0 /\ dlg.trap = Nobody
      /\ dlg.stack = <<>>
  BY DEF DInit
<1>3. Expected(dlg) = {}
  BY <1>2 DEF Expected
<1>4. \A m \in Modals : ~Expects(dlg, m) /\ ~Engaged(dlg, m) /\ ~Displays(dlg, m)
  BY <1>2, <1>3 DEF Expects, Engaged, Displays, None
<1>5. HandlersOk(dlg) /\ OneEach(dlg) /\ Clocks(dlg)
  BY <1>2, <1>3 DEF HandlersOk, OneEach, Clocks
<1>6. Settled(dlg) /\ StackOk(dlg)
  <2>1. Settled(dlg)
    BY <1>2, <1>4 DEF Settled, SettledOne, None
  <2>2. Once(dlg.stack) /\ \A m : ~On(dlg.stack, m)
    BY <1>2 DEF Once, On
  <2>3. StackOk(dlg)
    BY <1>2, <1>4, <2>2 DEF StackOk
  <2> QED
    BY <2>1, <2>3
<1>7. BackdropsOk(dlg) /\ BodyOk(dlg)
  BY <1>2, <1>4 DEF BackdropsOk, BodyOk, TrapOk
<1> QED
  BY <1>1, <1>5, <1>6, <1>7, DialogParts DEF DialogsInv

LEMMA DialogsNext == DialogsInv /\ [DNext]_dVars => DialogsInv'
<1> SUFFICES ASSUME DialogsInv, [DNext]_dVars PROVE DialogsInv'
  OBVIOUS
<1>0. /\ style \in Styles /\ dlg \in DialogStates
      /\ ~dlg.hasty => DialogsOk(dlg)
  BY DEF DialogsInv
(* The parts of the invariant speak of style, which stays as it is.        *)
<1>a. ASSUME NEW d, UNCHANGED style, dlg' = d, d \in DialogStates,
             ~d.hasty => DialogsOk(d)
      PROVE  DialogsInv'
  <2>1. style' = style /\ dlg' = d
    BY <1>a
  <2>2. (style \in Styles)' /\ (dlg \in DialogStates)'
    BY <1>0, <1>a, <2>1 DEF Styles, DialogStates, Handlers, Flags, Numbers
  <2>3. ASSUME ~d.hasty PROVE DialogsOk(dlg)'
    <3>1. /\ HandlersOk(d) /\ OneEach(d) /\ Clocks(d) /\ Settled(d)
          /\ BackdropsOk(d) /\ BodyOk(d) /\ StackOk(d)
      BY <1>a, <2>3, DialogParts
    <3>2. HandlersOk(dlg)'
      BY <2>1, <3>1 DEF HandlersOk, HandlerOk, Expected
    <3>3. OneEach(dlg)' /\ Clocks(dlg)'
      BY <2>1, <3>1 DEF OneEach, Clocks, Expected
    <3>4. Settled(dlg)'
      BY <2>1, <3>1 DEF Settled, SettledOne, Displays, Hides, Expects, Expected
    <3>5. BackdropsOk(dlg)'
      BY <2>1, <3>1 DEF BackdropsOk, Engaged, Expects, Expected
    <3>6. BodyOk(dlg)' /\ StackOk(dlg)'
      BY <2>1, <3>1 DEF BodyOk, TrapOk, StackOk, Engaged, Expects, Expected
    <3> QED
      BY <3>2, <3>3, <3>4, <3>5, <3>6 DEF DialogsOk
  <2> QED
    BY <2>1, <2>2, <2>3 DEF DialogsInv
<1>1. CASE UNCHANGED dVars
  BY <1>0, <1>1, <1>a DEF dVars
<1>2. ASSUME NEW m \in Modals, Show(m) PROVE DialogsInv'
  <2>1. dlg.due = {} /\ dlg' = show(dlg, m) /\ UNCHANGED style
    BY <1>2 DEF Show, Op
  <2>2. show(dlg, m) \in DialogStates /\ (~show(dlg, m).hasty => DialogsOk(show(dlg, m)))
    BY <1>0, <2>1, ShowOk
  <2> QED
    BY <1>a, <2>1, <2>2
<1>3. ASSUME NEW m \in Modals, Hide(m) PROVE DialogsInv'
  <2>1. dlg.due = {} /\ dlg' = hide(dlg, m) /\ UNCHANGED style
    BY <1>3 DEF Hide, Op
  <2>2. hide(dlg, m) \in DialogStates /\ (~hide(dlg, m).hasty => DialogsOk(hide(dlg, m)))
    BY <1>0, <2>1, HideOk
  <2> QED
    BY <1>a, <2>1, <2>2
<1>4. ASSUME NEW m \in Modals, Toggle(m) PROVE DialogsInv'
  <2> DEFINE d == [dlg EXCEPT !.asks = @ \cup {m}]
  <2>1. dlg.due = {} /\ dlg' = toggle(d, m) /\ UNCHANGED style
    BY <1>4 DEF Toggle, Op
  <2>2. /\ d \in DialogStates /\ d.hasty = dlg.hasty /\ d.due = dlg.due
        /\ DialogsOk(dlg) => DialogsOk(d)
    BY <1>0, AskingIs
  <2> HIDE DEF d
  <2>3. show(d, m) \in DialogStates /\ (~show(d, m).hasty => DialogsOk(show(d, m)))
    BY <1>0, <2>1, <2>2, ShowOk
  <2>4. hide(d, m) \in DialogStates /\ (~hide(d, m).hasty => DialogsOk(hide(d, m)))
    BY <1>0, <2>1, <2>2, HideOk
  <2>5. toggle(d, m) = show(d, m) \/ toggle(d, m) = hide(d, m)
    BY DEF toggle
  <2> QED
    BY <1>a, <2>1, <2>3, <2>4, <2>5
<1>5. ASSUME NEW m \in Modals, Drag(m) PROVE DialogsInv'
  <2> DEFINE d == [dlg EXCEPT !.ignore[m] = TRUE]
  <2>1. dlg' = d /\ UNCHANGED style
    BY <1>5 DEF Drag, Op
  <2>2. d \in DialogStates /\ (~d.hasty => DialogsOk(d))
    BY <1>0, PressedIs
  <2> HIDE DEF d
  <2> QED
    BY <1>a, <2>1, <2>2
<1>6. ASSUME NEW m \in Modals, ClickBackdrop(m) PROVE DialogsInv'
  <2> DEFINE d == [dlg EXCEPT !.ignore[m] = FALSE]
  <2>1. /\ dlg.due = {} /\ UNCHANGED style
        /\ dlg' = d \/ dlg' = dlg \/ dlg' = hide(dlg, m)
    BY <1>6 DEF ClickBackdrop, Op
  <2>2. d \in DialogStates /\ (~d.hasty => DialogsOk(d))
    BY <1>0, PressedIs
  <2> HIDE DEF d
  <2>3. hide(dlg, m) \in DialogStates /\ (~hide(dlg, m).hasty => DialogsOk(hide(dlg, m)))
    BY <1>0, <2>1, HideOk
  <2> QED
    BY <1>0, <1>a, <2>1, <2>2, <2>3
<1>7. ASSUME NEW m \in Modals, NEW id, End(id, m) PROVE DialogsInv'
  <2> DEFINE d == Ended(dlg, id, m)
  <2>1. /\ dlg.due = {} /\ UNCHANGED style /\ dlg' = d
        /\ \E w \in EndOf(dlg, id, m) :
             \A v \in dlg.waits \ EndOf(dlg, id, m) : v.at < w.at => v.drop = 0
    BY <1>7 DEF End, EndOf, Ended
  <2>2. d \in DialogStates /\ d.hasty = dlg.hasty
    BY <1>0, EndedIs
  <2>3. ~dlg.hasty => DialogsOk(d)
    BY <1>0, <2>1, EndOk
  <2> HIDE DEF d
  <2> QED
    BY <1>a, <2>1, <2>2, <2>3
<1>8. ASSUME NEW w \in dlg.due, Run(w) PROVE DialogsInv'
  <2> DEFINE d == Handle(Taken(dlg, w), w)
  <2>1. dlg' = d /\ UNCHANGED style
    BY <1>8 DEF Run, Taken
  <2>2. Taken(dlg, w) \in DialogStates /\ Taken(dlg, w).hasty = dlg.hasty
    BY <1>0, TakenIs
  <2>3. d \in DialogStates /\ d.hasty = dlg.hasty
    BY <1>0, <2>2, DialogFields, HandleTypes
  <2>4. ~dlg.hasty => DialogsOk(d)
    BY <1>0, HandleOk
  <2> HIDE DEF d
  <2> QED
    BY <1>a, <2>1, <2>3, <2>4
<1> QED
  BY <1>1, <1>2, <1>3, <1>4, <1>5, <1>6, <1>7, <1>8 DEF DNext

(* When no transition is under way, a dialog is displayed exactly while it *)
(* is shown, the backdrops are those of the dialogs that are shown, and    *)
(* when none is, the body is as it was: for any number of dialogs that     *)
(* share it, unless one is shown again before it was hidden.  The handlers *)
(* of several dialogs wait at the same time, and what each of them undoes  *)
(* is what its dialog did, since a dialog waits for one thing at a time    *)
(* and its backdrop, whose end runs what waits there, is nobody else's.    *)
THEOREM DialogsLeaveTheBody == DSpec => []DialogsLeaveNothing
<1>1. DialogsInv => DialogsLeaveNothing
  <2> SUFFICES ASSUME DialogsInv, dlg.waits = {}, dlg.due = {}, ~dlg.hasty
               PROVE  /\ dlg.there = dlg.shown
                      /\ dlg.drops = {dlg.drop[m] :
                           m \in {n \in Modals : dlg.shown[n] /\
                                                 style[n].backdrop # "none"}}
                      /\ dlg.shown = None =>
                           /\ ~dlg.open /\ dlg.back = {}
                           /\ dlg.crossed \/ dlg.pad = 0
                           /\ dlg.early \/ dlg.trap = Nobody
    BY DEF DialogsLeaveNothing
  <2>1. /\ style \in Styles /\ dlg \in DialogStates
        /\ Settled(dlg) /\ BackdropsOk(dlg) /\ BodyOk(dlg) /\ StackOk(dlg)
    BY DialogParts DEF DialogsInv
  <2>2. /\ dlg.shown \in Flags /\ dlg.there \in Flags /\ dlg.back \in SUBSET Modals
        /\ dlg.stack \in Seq(Modals)
    BY <2>1, DialogFields
  <2>3. \A m \in Modals : ~Expects(dlg, m) /\ (Engaged(dlg, m) <=> dlg.shown[m])
    BY DEF Expects, Expected, Engaged
  <2>4. dlg.there = dlg.shown
    BY <2>1, <2>2, <2>3 DEF Settled, SettledOne, Flags
  <2>5. dlg.drops = {dlg.drop[m] : m \in {n \in Modals : dlg.shown[n] /\
                                                     style[n].backdrop # "none"}}
    <3>1. {n \in Modals : dlg.drop[n] # 0}
            = {n \in Modals : dlg.shown[n] /\ style[n].backdrop # "none"}
      BY <2>1, <2>3 DEF BackdropsOk
    <3> QED
      BY <2>1, <3>1 DEF BackdropsOk
  <2>6. ASSUME dlg.shown = None
        PROVE  /\ ~dlg.open /\ dlg.back = {}
               /\ dlg.crossed \/ dlg.pad = 0
               /\ dlg.early \/ dlg.trap = Nobody
    <3>1. \A m \in Modals : ~dlg.shown[m] /\ ~Engaged(dlg, m)
      BY <2>3, <2>6 DEF None
    <3>2. ~dlg.open /\ dlg.back = {} /\ (dlg.early \/ dlg.trap = Nobody)
      BY <2>1, <2>2, <3>1 DEF BodyOk, TrapOk
    <3>3. ASSUME ~dlg.crossed PROVE dlg.pad = 0
      <4>1. dlg.stack # <<>> => dlg.stack[1] \in Modals /\ 1 \in 1..Len(dlg.stack)
        BY <2>2
      <4>2. dlg.stack = <<>>
        BY <2>1, <3>1, <3>3, <4>1 DEF StackOk, On
      <4> QED
        BY <2>1, <3>3, <4>2 DEF StackOk
    <3> QED
      BY <3>2, <3>3
  <2> QED
    BY <2>4, <2>5, <2>6
<1> QED
  BY <1>1, DialogsStart, DialogsNext, PTL DEF DSpec
=============================================================================
