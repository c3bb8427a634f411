------------------------------ MODULE Effects ------------------------------
(* jQuery's effects of one element: its fx queue, the animations with      *)
(* their timers, the loop of animation frames, stop() and finish(), and    *)
(* what show, hide and toggle do to the element.  Everything runs at once: *)
(* todo is the stack of calls under way, and the page's own code is the    *)
(* complete callback on its top.  delay() and other queues are left out,   *)
(* the site uses none, callbacks that throw, and callbacks that stop.      *)
EXTENDS Naturals, SequencesExt, FiniteSetsExt

CONSTANT MaxAnimations   \* bound: calls of animate

ASSUME EffectConstants == MaxAnimations \in Nat

Kinds      == {"show", "hide", "toggle", "props"}
InProgress == 0          \* the sentinel at the head of a busy queue

VARIABLES animations, anim, fxqueue, timers, todo,
          shown, fxshow,   \* the element's display; its data of a show or hide
          finish,          \* data.finish
          fxOn, rafs, fresh,   \* timerId; frames requested; one by start()
          wish, plain,     \* what was asked last; no stop() yet, no overlap, and
                           \* nothing asked for by a callback of finish()
          nested           \* animate() was called by a callback of stop()

fVars == <<animations, anim, fxqueue, timers, todo, shown, fxshow, finish,
           fxOn, rafs, fresh, wish, plain, nested>>

NoData == [there |-> FALSE, knows |-> FALSE, hidden |-> FALSE]

NoAnimation == [kind |-> "props", queued |-> FALSE, short |-> FALSE,
                state |-> "none", hidden |-> FALSE, toggles |-> FALSE,
                completes |-> 0]

FInit ==
  /\ animations = 0 /\ anim = [a \in 1..MaxAnimations |-> NoAnimation]
  /\ fxqueue = <<>> /\ timers = <<>> /\ todo = <<>>
  /\ shown \in BOOLEAN /\ fxshow = NoData /\ finish = FALSE
  /\ fxOn = FALSE /\ rafs = 0 /\ fresh = FALSE
  /\ wish = shown /\ plain = TRUE /\ nested = FALSE

Call(does)    == [does |-> does, a |-> 0, i |-> 0, gotoEnd |-> FALSE,
                  dequeue |-> FALSE, old |-> <<>>]
Of(does, a)   == [Call(does) EXCEPT !.a = a]
At(does, i)   == [Call(does) EXCEPT !.i = i]

Now     == Last(todo)
Callers == Front(todo)
Runs(does) == todo # <<>> /\ Now.does = does

MayAnimate == todo # <<>> => Now.does = "complete"

(****************************** an animation *******************************)
\* defaultPrefilter: whether there is anything to animate, and from where.
\* A show of a shown element counts while a hide of it is under way, and the
\* data of an animation before says where a toggle goes.
Skips(kind) ==
  \/ kind = "hide" /\ ~shown
  \/ kind = "show" /\ shown /\ ~fxshow.there
WasHidden(kind) ==
  IF fxshow.there /\ fxshow.knows THEN fxshow.hidden
  ELSE ~shown \/ (kind = "show" /\ fxshow.there)

\* anim.done of the prefilter.
Display(a) == IF ~anim[a].toggles THEN shown ELSE shown /\ anim[a].hidden
Data(a)    == IF ~anim[a].toggles THEN fxshow ELSE NoData

\* The animation a is resolved; its complete callback comes next, before what
\* next says.
Resolves(a, next) ==
  /\ anim' = [anim EXCEPT ![a].state = "resolved", ![a].hidden = FALSE,
                          ![a].toggles = FALSE, ![a].completes = @ + 1]
  /\ shown' = Display(a) /\ fxshow' = Data(a)
  /\ todo' = next \o <<Of("complete", a)>>

\* animation.stop(), not to its end: it fails, and stays as it is.
Rejects(a) ==
  /\ anim' = [anim EXCEPT ![a].state = "rejected", ![a].hidden = FALSE,
                          ![a].toggles = FALSE]
  /\ UNCHANGED <<shown, fxshow>>

\* doAnimation: the prefilter, the timer and its first run.  An animation
\* without tweens or duration is over at once, and so is any while finish()
\* runs, though its timer stays in the list then.
Start(a, next) ==
  LET kind  == anim[a].kind
      skips == kind # "props" /\ Skips(kind)
      tog   == kind # "props" /\ ~skips
      was   == WasHidden(kind)
      over  == skips \/ anim[a].short
      ends  == over \/ finish
      hides == tog /\ ends /\ ~was IN
  /\ anim' = [anim EXCEPT ![a] =
       [NoAnimation EXCEPT
          !.queued = anim[a].queued,
          !.state = IF ends THEN "resolved" ELSE "running",
          !.hidden = ~ends /\ was, !.toggles = ~ends /\ tog,
          !.completes = anim[a].completes + (IF ends THEN 1 ELSE 0)]]
  /\ shown' = IF hides THEN FALSE ELSE shown \/ (tog /\ was)
  /\ fxshow' = IF ~tog THEN fxshow
               ELSE IF ends THEN NoData
               ELSE [there |-> TRUE,
                     knows |-> fxshow.knows \/ kind = "toggle",
                     hidden |-> IF kind = "toggle" THEN ~was ELSE fxshow.hidden]
  /\ timers' = IF over THEN timers ELSE Append(timers, a)
  /\ IF over \/ fxOn THEN UNCHANGED <<fxOn, rafs, fresh>>
     ELSE fxOn' = TRUE /\ rafs' = rafs + 1 /\ fresh' = TRUE
  /\ todo' = IF ends THEN next \o <<Of("complete", a)>> ELSE next

(********************************* the API *********************************)
\* queue: the first of a queue that is not busy starts at once.
Busy == fxqueue # <<>> /\ Head(fxqueue) = InProgress
Queue(a) ==
  /\ fxqueue' = Append(fxqueue, a)
  /\ todo' = IF Busy THEN todo ELSE Append(todo, Call("dequeue"))

\* animate, queued or at once.
animate(kind, queued, short) ==
  /\ MayAnimate /\ animations < MaxAnimations
  /\ animations' = animations + 1
  /\ LET new == animations + 1 IN
     /\ anim' = [anim EXCEPT ![new].kind = kind, ![new].queued = queued,
                             ![new].short = short, ![new].state = "waiting"]
     /\ IF ~queued THEN todo' = Append(todo, Of("start", new)) /\ UNCHANGED fxqueue
        ELSE Queue(new)
  /\ wish' = CASE kind = "show" -> TRUE [] kind = "hide" -> FALSE
               [] kind = "toggle" -> ~wish [] OTHER -> wish
  /\ plain' = (plain /\ queued /\ ~finish)
  /\ nested' = (nested \/ \E f \in ToSet(todo) : f.does = "stop")
  /\ UNCHANGED <<timers, shown, fxshow, finish, fxOn, rafs, fresh>>

\* What waits in a queue, without the sentinel.
Waiting(q) == IF q # <<>> /\ Head(q) = InProgress THEN Tail(q) ELSE q

\* A mutant for the runs: the sentinel is not put back.
dequeueForgets ==
  /\ Runs("dequeue")
  /\ LET left == Waiting(fxqueue) IN
     IF left = <<>> THEN fxqueue' = <<>> /\ todo' = Callers
     ELSE fxqueue' = Tail(left) /\ todo' = Append(Callers, Of("start", Head(left)))
  /\ UNCHANGED <<animations, anim, timers, shown, fxshow, finish, fxOn, rafs, fresh,
                 wish, plain, nested>>

\* dequeue: the next one, with the sentinel before the rest.
dequeue ==
  /\ Runs("dequeue")
  /\ LET left == Waiting(fxqueue) IN
     IF left = <<>> THEN fxqueue' = <<>> /\ todo' = Callers
     ELSE /\ fxqueue' = <<InProgress>> \o Tail(left)
          /\ todo' = Append(Callers, Of("start", Head(left)))
  /\ UNCHANGED <<animations, anim, timers, shown, fxshow, finish, fxOn, rafs, fresh,
                 wish, plain, nested>>

doAnimation == /\ Runs("start") /\ Start(Now.a, Callers)
               /\ UNCHANGED <<animations, fxqueue, finish, wish, plain, nested>>

\* The complete callback returns, and a queued animation asks for the next.
Completed ==
  /\ Runs("complete")
  /\ todo' = IF anim[Now.a].queued THEN Append(Callers, Call("dequeue")) ELSE Callers
  /\ UNCHANGED <<animations, anim, fxqueue, timers, shown, fxshow, finish, fxOn, rafs,
                 fresh, wish, plain, nested>>

stop(clearQueue, gotoEnd) ==
  /\ todo = <<>>
  /\ fxqueue' = IF clearQueue THEN <<>> ELSE fxqueue
  /\ todo' = Append(todo, [At("stop", Len(timers)) EXCEPT !.gotoEnd = gotoEnd,
                                                          !.dequeue = TRUE])
  /\ plain' = FALSE
  /\ UNCHANGED <<animations, anim, timers, shown, fxshow, finish, fxOn, rafs, fresh,
                 wish, nested>>

\* The loop of stop over the timers, from the last; an animation that is over
\* has no element any more.
Stopping ==
  /\ Runs("stop")
  /\ LET f == Now IN
     \/ /\ f.i = 0
        /\ todo' = IF f.dequeue \/ ~f.gotoEnd THEN Append(Callers, Call("dequeue"))
                   ELSE Callers
        /\ UNCHANGED <<anim, timers, shown, fxshow>>
     \/ /\ f.i > 0 /\ anim[timers[f.i]].state # "running"
        /\ todo' = Append(Callers, [f EXCEPT !.i = @ - 1])
        /\ UNCHANGED <<anim, timers, shown, fxshow>>
     \/ LET a == timers[f.i] IN
        /\ f.i > 0 /\ anim[a].state = "running" /\ ~f.gotoEnd
        /\ Rejects(a)
        /\ timers' = RemoveAt(timers, f.i)
        /\ todo' = Append(Callers, [f EXCEPT !.i = @ - 1, !.dequeue = FALSE])
     \/ /\ f.i > 0 /\ anim[timers[f.i]].state = "running" /\ f.gotoEnd
        /\ Resolves(timers[f.i],
                    Callers \o <<[f EXCEPT !.i = @ - 1, !.dequeue = FALSE],
                              At("splice", f.i)>>)
        /\ UNCHANGED timers
  /\ UNCHANGED <<animations, fxqueue, finish, fxOn, rafs, fresh, wish, plain, nested>>

\* timers.splice(index, 1), when the callbacks have returned.
Splice ==
  /\ Runs("splice")
  /\ timers' = RemoveAt(timers, Now.i)
  /\ todo' = Callers
  /\ UNCHANGED <<animations, anim, fxqueue, shown, fxshow, finish, fxOn, rafs, fresh,
                 wish, plain, nested>>

\* finish: the queue is kept aside and emptied.
finishAll ==
  /\ todo = <<>>
  /\ finish' = TRUE /\ fxqueue' = <<>>
  /\ todo' = Append(todo, [At("finish", Len(timers)) EXCEPT !.old = fxqueue])
  /\ UNCHANGED <<animations, anim, timers, shown, fxshow, fxOn, rafs, fresh, wish,
                 plain, nested>>

\* The loops of finish over the timers of the queue, then over what waited.
Finishing ==
  /\ Runs("finish")
  /\ LET f == Now IN
     \/ /\ f.i > 0 /\ anim[timers[f.i]].state = "running" /\ anim[timers[f.i]].queued
        /\ Resolves(timers[f.i], Callers \o <<[f EXCEPT !.i = @ - 1],
                                           At("splice", f.i)>>)
        /\ UNCHANGED finish
     \/ /\ f.i > 0
        /\ anim[timers[f.i]].state # "running" \/ ~anim[timers[f.i]].queued
        /\ todo' = Append(Callers, [f EXCEPT !.i = @ - 1])
        /\ UNCHANGED <<anim, shown, fxshow, finish>>
     \/ /\ f.i = 0 /\ f.old # <<>>
        /\ todo' = Callers \o <<[f EXCEPT !.old = Tail(@)]>>
                   \o (IF Head(f.old) = InProgress THEN <<>>
                       ELSE <<Of("start", Head(f.old))>>)
        /\ UNCHANGED <<anim, shown, fxshow, finish>>
     \/ /\ f.i = 0 /\ f.old = <<>>
        /\ todo' = Callers /\ finish' = FALSE
        /\ UNCHANGED <<anim, shown, fxshow>>
  /\ UNCHANGED <<animations, fxqueue, timers, fxOn, rafs, fresh, wish, plain, nested>>

(******************************** the loop *********************************)
\* raf: every request goes on while there is a timerId.
raf(first) ==
  /\ todo = <<>> /\ rafs > 0 /\ (first => fresh) /\ (~first => rafs > 1 \/ ~fresh)
  /\ fresh' = (fresh /\ ~first)
  /\ IF fxOn THEN todo' = <<At("tick", 1)>> /\ UNCHANGED rafs
     ELSE rafs' = rafs - 1 /\ UNCHANGED todo
  /\ UNCHANGED <<animations, anim, fxqueue, timers, shown, fxshow, finish, fxOn, wish,
                 plain, nested>>

\* fx.tick: the timers one by one, over now or not; fx.stop cancels the first
\* request of a start only.
Tick ==
  /\ Runs("tick")
  /\ LET i == Now.i IN
     \/ /\ i > Len(timers) /\ todo' = Callers
        /\ IF timers # <<>> THEN UNCHANGED <<fxOn, rafs, fresh>>
           ELSE /\ fxOn' = FALSE /\ fresh' = FALSE
                /\ rafs' = IF fresh THEN rafs - 1 ELSE rafs
        /\ UNCHANGED <<anim, timers, shown, fxshow>>
     \/ /\ i <= Len(timers) /\ anim[timers[i]].state # "running"
        /\ timers' = RemoveAt(timers, i)
        /\ UNCHANGED <<anim, todo, shown, fxshow, fxOn, rafs, fresh>>
     \/ /\ i <= Len(timers) /\ anim[timers[i]].state = "running"
        /\ todo' = Append(Callers, At("tick", i + 1))
        /\ UNCHANGED <<anim, timers, shown, fxshow, fxOn, rafs, fresh>>
     \/ /\ i <= Len(timers) /\ anim[timers[i]].state = "running"
        /\ Resolves(timers[i], Callers \o <<[At("ticked", i) EXCEPT !.a = timers[i]]>>)
        /\ UNCHANGED <<timers, fxOn, rafs, fresh>>
  /\ UNCHANGED <<animations, fxqueue, finish, wish, plain, nested>>

\* The timer is taken off, if it is still where it was.
Ticked ==
  /\ Runs("ticked")
  /\ LET still == Now.i <= Len(timers) /\ timers[Now.i] = Now.a IN
     /\ timers' = IF still THEN RemoveAt(timers, Now.i) ELSE timers
     /\ todo' = Append(Callers, At("tick", IF still THEN Now.i ELSE Now.i + 1))
  /\ UNCHANGED <<animations, anim, fxqueue, shown, fxshow, finish, fxOn, rafs, fresh,
                 wish, plain, nested>>

FNext ==
  \/ \E k \in Kinds : \E q, s \in BOOLEAN : animate(k, q, s)
  \/ \E c, g \in BOOLEAN : stop(c, g)
  \/ dequeue \/ doAnimation \/ Completed \/ Stopping \/ Splice \/ finishAll
  \/ Finishing \/ Tick \/ Ticked \/ \E first \in BOOLEAN : raf(first)

FSpec == FInit /\ [][FNext]_fVars

(******************************* properties ********************************)
Running == {a \in 1..animations : anim[a].state = "running"}

(* The animations of a queue run one at a time and none of them is left    *)
(* behind: while the queue is busy one of them runs, and what runs has its *)
(* timer in the loop of frames.  Two of them overlap only after a callback *)
(* of stop() has animated; each completes at most once.  If all were       *)
(* queued, none was stopped and no callback of finish() asked for another, *)
(* which runs before those that waited, then the element is shown or       *)
(* hidden in the end as the last of them says, toggles included.           *)
QueueRunsDry ==
  /\ ~nested => Cardinality({a \in Running : anim[a].queued}) <= 1
  /\ \A a \in 1..animations : anim[a].completes <= 1
  /\ todo = <<>> =>
       /\ fxqueue # <<>> => \E a \in Running : anim[a].queued
       /\ Running \subseteq ToSet(timers)
       /\ Running # {} => fxOn /\ rafs > 0
       /\ plain /\ Running = {} => shown = wish
=============================================================================
