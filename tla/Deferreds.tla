----------------------------- MODULE Deferreds -----------------------------
(* jQuery.Deferred with done, fail, then and pipe, and jQuery.when.  The   *)
(* lists of a deferred are Callbacks that fire once and remember; here a   *)
(* deferred keeps what was added to them.  What is fired runs at once      *)
(* (stack), what then() was given runs in a timer (tasks).  The then() of  *)
(* a foreign thenable is code of the page that runs inside the library     *)
(* (asking): it may keep the functions it is given, call them at once, and *)
(* throw, before or after.  Progress, and callbacks that throw, are left   *)
(* to Callbacks.                                                           *)
EXTENDS Naturals, SequencesExt, FiniteSetsExt

CONSTANTS MaxDeferreds,   \* bound: deferreds made
          MaxForeign,     \* bound: calls a foreign thenable makes
          MaxFollows      \* bound: thenables one promise follows

ASSUME DeferredConstants == MaxDeferreds \in Nat

Plain      == [is |-> "plain", of |-> 0]
Error      == [is |-> "error", of |-> 0]
Foreign    == [is |-> "foreign", of |-> 0]    \* a thenable not of jQuery
Promise(d) == [is |-> "promise", of |-> d]

VARIABLES made, kind,
          dfd,        \* state, value, both lists, and what then() added
          maxDepth,   \* of then
          remaining,  \* of when
          stack,      \* callbacks of the firing under way
          tasks,      \* window.setTimeout
          outside,    \* functions handed to foreign thenables
          asking,     \* the then() calls of foreign thenables under way
          calls,      \* how often those were called
          parts,      \* the values when() waits for
          word        \* what a then-promise was told, first at every depth

pVars == <<made, kind, dfd, maxDepth, remaining, stack, tasks, outside, asking,
           calls, parts, word>>

Ids == 1..MaxDeferreds

NewDeferred == [state |-> "pending", value |-> Plain, done |-> <<>>,
                fail |-> <<>>, thens |-> <<>>]

PInit ==
  /\ made = 0 /\ kind = [d \in Ids |-> "none"]
  /\ dfd = [d \in Ids |-> NewDeferred]
  /\ maxDepth = [d \in Ids |-> 0] /\ remaining = [d \in Ids |-> 0]
  /\ stack = <<>> /\ tasks = <<>> /\ outside = {} /\ asking = <<>>
  /\ calls = 0
  /\ parts = [d \in Ids |-> <<>>] /\ word = [d \in Ids |-> <<>>]

\* Code of the page runs while no callback does, also inside a then() call.
Idle == stack = <<>>

\* What a then-reaction runs when its deferred is settled so.
TaskOf(r, state, v) ==
  [to |-> r.to, depth |-> r.depth, value |-> v,
   handler |-> IF state = "resolved" THEN r.ok ELSE r.no]

\* The world: what settling deferreds and adding callbacks changes.
Here == [dfd |-> dfd, stack |-> stack, tasks |-> tasks]
Becomes(w) == dfd' = w.dfd /\ stack' = w.stack /\ tasks' = w.tasks

\* resolve and reject: the first one counts; first the timers of then(),
\* then the callbacks, before everything that was firing already.
Settled(w, d, state, v) ==
  LET of   == w.dfd[d]
      mine == IF state = "resolved" THEN of.done ELSE of.fail IN
  IF of.state # "pending" THEN w
  ELSE [dfd   |-> [w.dfd EXCEPT ![d] = [NewDeferred EXCEPT !.state = state, !.value = v]],
        stack |-> [i \in DOMAIN mine |-> [cb |-> mine[i], value |-> v]] \o w.stack,
        tasks |-> w.tasks \o [i \in DOMAIN of.thens |-> TaskOf(of.thens[i], state, v)]]

With(w, d, of)    == [w EXCEPT !.dfd[d] = of]
Calling(w, cb, v) == [w EXCEPT !.stack = <<[cb |-> cb, value |-> v]>> \o @]

\* done and fail: at once, if the deferred is settled so already.
AddDone(w, d, cb) ==
  LET of == w.dfd[d] IN
  CASE of.state = "pending"  -> With(w, d, [of EXCEPT !.done = Append(@, cb)])
    [] of.state = "resolved" -> Calling(w, cb, of.value)
    [] OTHER                 -> w

AddFail(w, d, cb) ==
  LET of == w.dfd[d] IN
  CASE of.state = "pending"  -> With(w, d, [of EXCEPT !.fail = Append(@, cb)])
    [] of.state = "rejected" -> Calling(w, cb, of.value)
    [] OTHER                 -> w

AddThen(w, d, r) ==
  LET of == w.dfd[d] IN
  IF of.state = "pending"
  THEN With(w, d, [of EXCEPT !.thens = Append(@, r)])
  ELSE [w EXCEPT !.tasks = Append(@, TaskOf(r, of.state, of.value))]

\* part: the one of when(), or 0.
Callback(does, to, part) == [does |-> does, to |-> to, part |-> part]

\* x.done(cb).fail(e.reject), where cb is a callback for e.
Follow(w, x, cb) == AddFail(AddDone(w, x, cb), x, Callback("reject", cb.to, 0))

(********************************* the API *********************************)
NewId == made + 1
Make(as) == /\ Idle /\ made < MaxDeferreds
            /\ made' = NewId /\ kind' = [kind EXCEPT ![NewId] = as]

Deferred ==
  /\ Make("root")
  /\ UNCHANGED <<dfd, maxDepth, remaining, stack, tasks, outside, asking, calls,
                 parts, word>>

\* deferred.resolve and reject of a page's own deferred, with any value.
Settle(d, state, v) ==
  /\ Idle /\ kind[d] = "root" /\ dfd[d].state = "pending"
  /\ v.is = "promise" => v.of \in 1..made
  /\ Becomes(Settled(Here, d, state, v))
  /\ UNCHANGED <<made, kind, maxDepth, remaining, outside, asking, calls, parts, word>>

\* then: a new deferred, told by what the handlers do.
then(d, ok, no) ==
  /\ d \in 1..made /\ Make("then")
  /\ Becomes(AddThen(Here, d, [to |-> NewId, depth |-> 0, ok |-> ok, no |-> no]))
  /\ UNCHANGED <<maxDepth, remaining, outside, asking, calls, parts, word>>

\* pipe: a new deferred, settled by the callbacks of this one.
pipe(d) ==
  /\ d \in 1..made /\ Make("pipe")
  /\ Becomes(Follow(Here, d, Callback("pipe", NewId, 0)))
  /\ UNCHANGED <<maxDepth, remaining, outside, asking, calls, parts, word>>

\* adoptValue: a promise calls cb, a foreign thenable gets functions that
\* do, any other value does it at once.
adoptValue(w, v, cb) ==
  IF v.is = "promise" THEN Follow(w, v.of, cb)
  ELSE IF v.is = "foreign" THEN w
  ELSE Calling(w, cb, v)

\* when, of two values; the last is looked at first, so its call is in front.
when(v1, v2) ==
  /\ Make("master")
  /\ \A v \in {v1, v2} : v.is = "promise" => v.of \in 1..made
  /\ remaining' = [remaining EXCEPT ![NewId] = 2]
  /\ parts' = [parts EXCEPT ![NewId] = <<v1, v2>>]
  /\ outside' = outside \cup {[to |-> NewId, depth |-> 0, does |-> "update"] :
                                v \in {x \in {v1, v2} : x.is = "foreign"}}
  /\ Becomes(adoptValue(adoptValue(Here, v1, Callback("update", NewId, 1)),
                        v2, Callback("update", NewId, 2)))
  /\ UNCHANGED <<maxDepth, asking, calls, word>>

(***************************** what is running *****************************)
\* The next callback of the firing under way.
RunCallback ==
  /\ stack # <<>>
  /\ LET cb == Head(stack).cb
         v  == Head(stack).value
         w  == [Here EXCEPT !.stack = Tail(stack)] IN
     CASE cb.does = "resolve" ->
            Becomes(Settled(w, cb.to, "resolved", v)) /\ UNCHANGED remaining
       [] cb.does = "reject" ->
            Becomes(Settled(w, cb.to, "rejected", v)) /\ UNCHANGED remaining
       [] cb.does = "update" ->
            /\ remaining' = [remaining EXCEPT ![cb.to] = IF @ = 0 THEN 0 ELSE @ - 1]
            /\ Becomes(IF remaining[cb.to] = 1
                       THEN Settled(w, cb.to, "resolved", Plain) ELSE w)
       [] cb.does = "pipe" ->    \* its function returns a value or a promise
            /\ \/ Becomes(Settled(w, cb.to, "resolved", Plain))
               \/ \E x \in 1..made :
                    Becomes(Follow(w, x, Callback("resolve", cb.to, 0)))
            /\ UNCHANGED remaining
  /\ UNCHANGED <<made, kind, maxDepth, outside, asking, calls, parts, word>>

\* What a handler does with v: the function of the page anything.
Outcomes(handler, v) ==
  CASE handler = "Identity" -> {[throws |-> FALSE, value |-> v]}
    [] handler = "Thrower"  -> {[throws |-> TRUE, value |-> v]}
    [] handler = "page"     ->
         {[throws |-> FALSE, value |-> x] :
            x \in {Plain, Foreign} \cup {Promise(d) : d \in 1..made}}
         \cup {[throws |-> TRUE, value |-> Error]}

WordOf(e, depth, how, v) ==
  IF Len(word[e]) = depth /\ (depth > 0 => Last(word[e]).how = "follow")
  THEN Append(word[e], [how |-> how, value |-> v])
  ELSE word[e]

\* A thenable is followed one level deeper than the function it came to;
\* what a function of a lower level is told then is disregarded.
Older(c) == c.depth < maxDepth[c.to]

\* The function resolve() of then returns, for the deferred c.to, when its
\* handler does o.
resolve(w, c, o) ==
  LET e    == c.to
      says == IF o.value = Promise(e) /\ ~o.throws
              THEN [throws |-> TRUE, value |-> Error]   \* self-resolution
              ELSE o
      deep == maxDepth[e] + 1 IN
  IF Older(c)
  THEN Becomes(w) /\ UNCHANGED <<maxDepth, outside, asking, word>>
  ELSE /\ \/ /\ says.throws
             /\ word' = [word EXCEPT ![e] = WordOf(e, c.depth, "rejected", says.value)]
             /\ Becomes(Settled(w, e, "rejected", says.value))
             /\ UNCHANGED <<maxDepth, outside, asking>>
          \/ /\ ~says.throws /\ says.value.is \notin {"promise", "foreign"}
             /\ word' = [word EXCEPT ![e] = WordOf(e, c.depth, "resolved", says.value)]
             /\ Becomes(Settled(w, e, "resolved", says.value))
             /\ UNCHANGED <<maxDepth, outside, asking>>
          \/ /\ ~says.throws /\ says.value.is = "promise"
             /\ word' = [word EXCEPT ![e] = WordOf(e, c.depth, "follow", says.value)]
             /\ maxDepth' = [maxDepth EXCEPT ![e] = deep]
             /\ Becomes(AddThen(w, says.value.of,
                                [to |-> e, depth |-> deep,
                                 ok |-> "Identity", no |-> "Thrower"]))
             /\ UNCHANGED <<outside, asking>>
          \/ /\ ~says.throws /\ says.value.is = "foreign"
             /\ maxDepth' = [maxDepth EXCEPT ![e] = deep]
             /\ outside' = outside \cup {[to |-> e, depth |-> deep,
                                          does |-> "settle"]}
             /\ word' = [word EXCEPT ![e] = WordOf(e, c.depth, "follow", says.value)]
             /\ asking' = <<[to |-> e, depth |-> c.depth]>> \o asking
             /\ Becomes(w)

\* The then() of a foreign thenable returns.
ThenReturns ==
  /\ Idle /\ asking # <<>> /\ asking' = Tail(asking)
  /\ UNCHANGED <<made, kind, dfd, maxDepth, remaining, stack, tasks, outside,
                 calls, parts, word>>

\* A mutant for the runs: every exception counts.
AnyCounts(f) == TRUE

\* The exception of a thenable is disregarded once the thenable has made the
\* promise follow another one.
Regarded(f) == f.depth + 1 >= maxDepth[f.to]

\* Or it throws.
ThenThrows ==
  /\ Idle /\ asking # <<>> /\ asking' = Tail(asking)
  /\ LET f == Head(asking) IN
     /\ word' = [word EXCEPT ![f.to] = WordOf(f.to, f.depth + 1, "rejected", Error)]
     /\ Becomes(IF Regarded(f) THEN Settled(Here, f.to, "rejected", Error) ELSE Here)
  /\ UNCHANGED <<made, kind, maxDepth, remaining, outside, calls, parts>>

\* A timer of then().
RunTask ==
  /\ Idle /\ asking = <<>> /\ tasks # <<>> /\ maxDepth[Head(tasks).to] < MaxFollows
  /\ \E o \in Outcomes(Head(tasks).handler, Head(tasks).value) :
       resolve([Here EXCEPT !.tasks = Tail(tasks)], Head(tasks), o)
  /\ UNCHANGED <<made, kind, remaining, calls, parts>>

\* A foreign thenable calls a function it was given, as often as it likes.
ForeignCalls(c, handler, v) ==
  /\ Idle /\ calls < MaxForeign /\ calls' = calls + 1
  /\ maxDepth[c.to] < MaxFollows
  /\ v.is = "promise" => v.of \in 1..made
  /\ IF c.does = "settle"
     THEN /\ \E o \in Outcomes(handler, v) : resolve(Here, c, o)
          /\ UNCHANGED remaining
     ELSE /\ Becomes(Calling(Here, Callback(IF handler = "Identity" THEN "update"
                                            ELSE "reject", c.to, 0), v))
          /\ UNCHANGED <<maxDepth, outside, asking, remaining, word>>
  /\ UNCHANGED <<made, kind, parts>>

Results == {Plain} \cup {Promise(d) : d \in Ids}

PNext ==
  \/ Deferred \/ RunCallback \/ RunTask \/ ThenReturns \/ ThenThrows
  \/ \E d \in Ids : \E v \in Results : Settle(d, "resolved", v)
  \/ \E d \in Ids : Settle(d, "rejected", Error) \/ pipe(d)
  \/ \E d \in Ids : \E ok \in {"page", "Identity"} : then(d, ok, "Thrower")
  \/ \E v1, v2 \in Results \cup {Foreign} : when(v1, v2)
  \/ \E c \in outside : \E v \in Results :
       ForeignCalls(c, "Identity", v) \/ ForeignCalls(c, "Thrower", Error)

PSpec == PInit /\ [][PNext]_pVars

(******************************* properties ********************************)
\* A part of when() that has done its share.
Through(v) == v.is = "promise" => dfd[v.of].state = "resolved"

(* A promise made by then() is settled by what it was told first: a        *)
(* thenable it follows is asked from then on, and nothing an earlier one   *)
(* says later counts, nor an exception it throws after it has called one   *)
(* of the functions it was given.  A master of when() that has no foreign  *)
(* thenable is resolved only after all its parts, and rejected only after  *)
(* one of them.                                                            *)
FirstWordCounts ==
  \A d \in 1..made :
    /\ kind[d] = "then" /\ dfd[d].state # "pending" =>
         Last(word[d]).how = dfd[d].state /\ Last(word[d]).value = dfd[d].value
    /\ kind[d] = "master" /\ Foreign \notin ToSet(parts[d]) =>
         /\ dfd[d].state = "resolved" => \A v \in ToSet(parts[d]) : Through(v)
         /\ dfd[d].state = "rejected" =>
              \E v \in ToSet(parts[d]) : v.is = "promise" /\ ~Through(v)
=============================================================================
