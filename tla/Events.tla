------------------------------- MODULE Events -------------------------------
(* jQuery.event: the handlers of one type of event on a branch of the      *)
(* document, element 1 the leaf and each element's parent the next.  A     *)
(* handler may add and remove handlers and trigger events, so dispatches   *)
(* are a stack.  Natively bubbling events and trigger() are one action:    *)
(* both ask element by element.  Default actions, which run with the type  *)
(* marked as triggered, reach no handler here and are left out.            *)
EXTENDS Naturals, SequencesExt, FiniteSetsExt

CONSTANTS Depth,       \* bound: elements of the branch
          MaxHandlers, \* bound: handlers added
          MaxEvents    \* bound: events dispatched

ASSUME EventConstants == Depth \in Nat /\ MaxHandlers \in Nat

Elements   == 1..Depth
Namespaces == {"", "ns"}
Direct     == 0          \* no selector; a selector is the element it matches

VARIABLES handlers,       \* of every element: the list and its delegateCount
          listening,      \* elem.addEventListener was called
          dispatches,     \* stack of events on their way
          added, events,
          ran,            \* how often each handler ran
          ones,           \* handlers added by one()
          overtaken       \* ran while an outer dispatch still had it to run

eVars == <<handlers, listening, dispatches, added, events, ran, ones, overtaken>>

EInit == /\ handlers = [e \in Elements |-> [list |-> <<>>, delegateCount |-> 0]]
         /\ listening = [e \in Elements |-> FALSE]
         /\ dispatches = <<>> /\ added = 0 /\ events = 0
         /\ ran = [h \in 1..MaxHandlers |-> 0] /\ ones = {} /\ overtaken = {}

Current        == Last(dispatches)
WithCurrent(d) == Append(Front(dispatches), d)

\* Code of the page: the handler that is running, or whoever is called while
\* no event is dispatched.
HandlersMayCall == dispatches # <<>> => Current.running # 0

(**************************** add and remove *******************************)
\* add: delegated handlers go before the others.
WithHandler(of, h) ==
  IF h.selector = Direct THEN [of EXCEPT !.list = Append(@, h)]
  ELSE [list |-> InsertAt(of.list, of.delegateCount + 1, h),
        delegateCount |-> of.delegateCount + 1]

eventAdd(e, h) ==
  /\ handlers' = [handlers EXCEPT ![e] = WithHandler(@, h)]
  /\ listening' = [listening EXCEPT ![e] = TRUE]

\* on and one: a handler of its own every time.
on(e, selector, namespace, one) ==
  /\ HandlersMayCall /\ added < MaxHandlers /\ added' = added + 1
  /\ selector # Direct => selector < e
  /\ eventAdd(e, [id |-> added + 1, selector |-> selector, namespace |-> namespace,
                  one |-> one])
  /\ ones' = IF one THEN ones \cup {added + 1} ELSE ones
  /\ UNCHANGED <<dispatches, events, ran, overtaken>>

\* The numbers of S in their order (there is one such sequence).
Ascending(S) == {f \in [1..Cardinality(S) -> S] :
                   /\ \A k \in DOMAIN f : \A j \in 1..(k - 1) : f[j] < f[k]
                   /\ S = Range(f)}

\* What is left of a list of handlers when those at some places go.
Without(l, at) == {[k \in DOMAIN f |-> l[f[k]]] : f \in Ascending(DOMAIN l \ at)}

\* A mutant for the runs: the handlers go, the count of delegated ones stays.
RemovedKeepsCount(of, at) == [list : Without(of.list, at), delegateCount : {of.delegateCount}]

\* remove: the handlers that match go, and their count.
Removed(of, at) ==
  [list : Without(of.list, at),
   delegateCount : {of.delegateCount
                      - Cardinality({i \in at : of.list[i].selector # Direct})}]

eventRemove(e, at) ==
  \E of \in Removed(handlers[e], at) :
    /\ handlers' = [handlers EXCEPT ![e] = of]
    /\ listening' = [listening EXCEPT ![e] = of.list # <<>>]

\* off(".ns"), off("type") and off("type", "**"): by namespace, all, or all
\* that are delegated.
off(e, what) ==
  /\ HandlersMayCall /\ handlers[e].list # <<>>
  /\ eventRemove(e, {i \in DOMAIN handlers[e].list :
                       \/ what = "ns" /\ handlers[e].list[i].namespace = "ns"
                       \/ what = "all"
                       \/ what = "**" /\ handlers[e].list[i].selector # Direct})
  /\ UNCHANGED <<dispatches, added, events, ran, ones, overtaken>>

(******************************** dispatch *********************************)
\* A handler runs for the element its selector matches, or for its own.
DueAt(e, target) ==
  {p \in (target..e) \X DOMAIN handlers[e].list :
     IF p[1] = e THEN p[2] > handlers[e].delegateCount
     ELSE /\ p[2] <= handlers[e].delegateCount
          /\ handlers[e].list[p[2]].selector = p[1]}

\* handlers: a copy of what e has to run for an event of target, inner
\* elements first; at is the element a handler runs for, of the one it
\* was added to.
HandlersFor(e, target) ==
  LET due == DueAt(e, target) IN
  {[k \in DOMAIN f |-> [at |-> f[k][1], of |-> e, h |-> handlers[e].list[f[k][2]]]] :
     f \in {g \in [1..Cardinality(due) -> due] :
              \A k \in DOMAIN g : \A j \in 1..(k - 1) :
                g[j][1] < g[k][1] \/ (g[j][1] = g[k][1] /\ g[j][2] < g[k][2])}}

\* trigger, triggerHandler, or a native event.
trigger(target, namespace, onlyHandlers) ==
  /\ HandlersMayCall /\ events < MaxEvents /\ events' = events + 1
  /\ dispatches' = Append(dispatches,
       [target |-> target, namespace |-> namespace,
        path |-> IF onlyHandlers THEN <<target>>
                 ELSE [k \in 1..(Depth + 1 - target) |-> target + k - 1],
        queue |-> <<>>, at |-> 0, running |-> 0, stopped |-> FALSE,
        immediate |-> FALSE])
  /\ UNCHANGED <<handlers, listening, added, ran, ones, overtaken>>

\* The event reaches the next element of its path.
Reach ==
  /\ dispatches # <<>>
  /\ LET d == Current IN
     /\ d.running = 0 /\ d.queue = <<>> /\ d.path # <<>> /\ ~d.stopped
     /\ \E queue \in IF listening[Head(d.path)]
                     THEN HandlersFor(Head(d.path), d.target) ELSE {<<>>} :
          dispatches' = WithCurrent([d EXCEPT !.path = Tail(@), !.at = 0,
                                              !.queue = queue])
  /\ UNCHANGED <<handlers, listening, added, events, ran, ones,
                 overtaken>>

\* dispatch: an event that was stopped goes on for its element only, one
\* stopped immediately not even there.  The wrapper of one() takes its
\* handler off before it calls it.
Dispatch ==
  /\ dispatches # <<>>
  /\ LET d    == Current
         next == Head(d.queue)
         id   == next.h.id
         at   == {i \in DOMAIN handlers[next.of].list :
                    handlers[next.of].list[i].id = id} IN
     /\ d.running = 0 /\ d.queue # <<>>
     /\ \/ /\ d.immediate \/ (d.stopped /\ next.at # d.at)
           /\ dispatches' = WithCurrent([d EXCEPT !.queue = <<>>])
           /\ UNCHANGED <<handlers, listening, ran, overtaken>>
        \/ /\ ~d.immediate /\ (d.stopped => next.at = d.at)
           /\ d.namespace \notin {"", next.h.namespace}
           /\ dispatches' = WithCurrent([d EXCEPT !.queue = Tail(@), !.at = next.at])
           /\ UNCHANGED <<handlers, listening, ran, overtaken>>
        \/ /\ ~d.immediate /\ (d.stopped => next.at = d.at)
           /\ d.namespace \in {"", next.h.namespace}
           /\ dispatches' = WithCurrent([d EXCEPT !.queue = Tail(@), !.at = next.at,
                                              !.running = id])
           /\ ran' = [ran EXCEPT ![id] = @ + 1]
           /\ overtaken' = IF \E i \in 1..(Len(dispatches) - 1) :
                                \E x \in ToSet(dispatches[i].queue) : x.h.id = id
                           THEN overtaken \cup {id} ELSE overtaken
           /\ IF next.h.one
              THEN eventRemove(next.of, at)
              ELSE UNCHANGED <<handlers, listening>>
  /\ UNCHANGED <<added, events, ones>>

\* What stopPropagation (or the result false) and stopImmediatePropagation
\* mark.
Stops(d, how) ==
  [d EXCEPT !.stopped = @ \/ how \in {"false", "stopImmediatePropagation"},
            !.immediate = @ \/ how = "stopImmediatePropagation"]

\* The running handler returns.
HandlerReturns(how) ==
  /\ dispatches # <<>> /\ Current.running # 0
  /\ dispatches' = WithCurrent(Stops([Current EXCEPT !.running = 0], how))
  /\ UNCHANGED <<handlers, listening, added, events, ran, ones, overtaken>>

\* The dispatch is over.
Over ==
  /\ dispatches # <<>> /\ Current.running = 0 /\ Current.queue = <<>>
  /\ Current.path = <<>> \/ Current.stopped
  /\ dispatches' = Front(dispatches)
  /\ UNCHANGED <<handlers, listening, added, events, ran, ones,
                 overtaken>>

ENext ==
  \/ \E e \in Elements :
       \/ \E s \in {Direct} \cup Elements : \E n \in Namespaces :
            \E one \in BOOLEAN : on(e, s, n, one)
       \/ \E what \in {"ns", "all", "**"} : off(e, what)
       \/ \E n \in Namespaces : \E only \in BOOLEAN : trigger(e, n, only)
  \/ \E how \in {"undefined", "false", "stopImmediatePropagation"} : HandlerReturns(how)
  \/ Reach \/ Dispatch \/ Over

ESpec == EInit /\ [][ENext]_eVars

(******************************* properties ********************************)
(* Whatever handlers add and remove while events are under way, the first  *)
(* delegateCount handlers of an element are its delegated ones, the        *)
(* element listens exactly while it has handlers, and a handler of one()   *)
(* that is still there has not run: it is gone when it runs, even if it    *)
(* triggers the event again.  It runs a second time only in a dispatch     *)
(* that held it already when the first run took it off.                    *)
HandlersInOrderOnce ==
  /\ \A e \in Elements :
       /\ \A i \in DOMAIN handlers[e].list :
            (handlers[e].list[i].selector # Direct) = (i <= handlers[e].delegateCount)
       /\ listening[e] = (handlers[e].list # <<>>)
  /\ \A id \in ones :
       /\ ran[id] > 1 => id \in overtaken
       /\ ran[id] > 0 => \A e \in Elements :
                          \A h \in ToSet(handlers[e].list) : h.id # id
=============================================================================
