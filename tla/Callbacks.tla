----------------------------- MODULE Callbacks -----------------------------
(* jQuery.Callbacks: a list of functions that is fired with a value.  A    *)
(* function may itself use the list, so every operation can run between    *)
(* two calls of one firing.  Every entry carries the number of its add,    *)
(* and the values are numbered: both only for the properties.              *)
EXTENDS Naturals, SequencesExt, FiniteSetsExt

CONSTANTS Functions,
          Nothing,     \* a memory that is false
          MaxAdds,     \* bound: calls of add
          MaxFires     \* bound: calls of fireWith

ASSUME CallbackConstants ==
  MaxAdds \in Nat /\ MaxFires \in Nat /\ Nothing \notin Nat

Options == [once : BOOLEAN, memory : BOOLEAN, unique : BOOLEAN,
            stopOnFalse : BOOLEAN]

VARIABLES options, firing, memory, locked, fired,
          disabled,     \* list is the empty string
          list, queue,
          firingIndex,  \* from 1, so 0 is the code's -1
          running,      \* a function of the list is running
          adds, fires,  \* how often add and fireWith were called
          heard,        \* the value every entry heard last
          gone,         \* entries taken off the list
          emptied       \* empty() was called by a function of the list

cVars == <<options, firing, memory, locked, fired, disabled, list, queue,
           firingIndex, running, adds, fires, heard, gone, emptied>>

CInit ==
  /\ options \in Options
  /\ firing = FALSE /\ memory = Nothing /\ locked = FALSE /\ fired = FALSE
  /\ disabled = FALSE /\ list = <<>> /\ queue = <<>> /\ firingIndex = 0
  /\ running = FALSE /\ adds = 0 /\ fires = 0
  /\ heard = [e \in 1..MaxAdds |-> Nothing] /\ gone = {} /\ emptied = FALSE

(********************************** fire ***********************************)
\* Calls the function at i of l with the value m.
Calls(l, i, m, q) ==
  /\ firing' = TRUE /\ running' = TRUE
  /\ list' = l /\ firingIndex' = i /\ memory' = m /\ queue' = q
  /\ heard' = [heard EXCEPT ![l[i].id] = m]
  /\ UNCHANGED disabled

\* The firing is over, with the value m.
Ends(l, m, isLocked) ==
  LET kept == IF options.memory THEN m ELSE Nothing IN
  /\ firing' = FALSE /\ running' = FALSE /\ firingIndex' = 0 /\ queue' = <<>>
  /\ memory' = kept
  /\ list' = IF isLocked THEN <<>> ELSE l
  /\ disabled' = (disabled \/ (isLocked /\ kept = Nothing))
  /\ UNCHANGED heard

\* The loop of fire: the rest of the list with m, then all of it with every
\* value queued.
Goes(l, i, m, q, isLocked) ==
  IF i < Len(l) THEN Calls(l, i + 1, m, q)
  ELSE IF q # <<>> /\ l # <<>> THEN Calls(l, 1, Head(q), Tail(q))
  ELSE Ends(l, IF q = <<>> THEN m ELSE Last(q), isLocked)

\* fire(): locked is set again, whatever it was.
fire(l, i, q) ==
  /\ locked' = options.once /\ fired' = TRUE
  /\ Goes(l, i, Head(q), Tail(q), options.once)

\* The running function returns; false stops a list with stopOnFalse.
Returns(result) ==
  /\ running
  /\ IF result = FALSE /\ options.stopOnFalse
     THEN Goes(list, Len(list), Nothing, queue, locked)
     ELSE Goes(list, firingIndex, memory, queue, locked)
  /\ UNCHANGED <<options, locked, fired, adds, fires, gone, emptied>>

\* The running function throws: fire is left as it is, firing is never reset.
Throws ==
  /\ running /\ running' = FALSE
  /\ UNCHANGED <<options, firing, memory, locked, fired, disabled, list,
                 queue, firingIndex, adds, fires, heard, gone, emptied>>

(********************************* the API *********************************)
fireWith ==
  /\ fires < MaxFires /\ fires' = fires + 1
  /\ IF locked
     THEN UNCHANGED <<firing, memory, locked, fired, disabled, list, queue,
                      firingIndex, running, heard>>
     ELSE IF firing
     THEN /\ queue' = Append(queue, fires + 1)
          /\ UNCHANGED <<firing, memory, locked, fired, disabled, list,
                         firingIndex, running, heard>>
     ELSE fire(list, 0, Append(queue, fires + 1))
  /\ UNCHANGED <<options, adds, gone, emptied>>

\* A list with a memory calls the new function at once, and only that one.
add(f) ==
  LET id    == adds + 1
      there == \E i \in DOMAIN list : list[i].fn = f
      more  == IF options.unique /\ there THEN list
               ELSE Append(list, [fn |-> f, id |-> id]) IN
  /\ ~disabled /\ adds < MaxAdds /\ adds' = id
  /\ gone' = IF more = list THEN gone \cup {id} ELSE gone
  /\ IF memory # Nothing /\ ~firing
     THEN fire(more, Len(list), Append(queue, memory))
     ELSE /\ list' = more
          /\ UNCHANGED <<firing, memory, locked, fired, disabled, queue,
                         firingIndex, running, heard>>
  /\ UNCHANGED <<options, fires, emptied>>

\* The list without the entries at some places: its k-th one was at from[k].
Drops(at) ==
  LET stay == DOMAIN list \ at IN
  \E from \in [1..Cardinality(stay) -> stay] :
    /\ \A k \in DOMAIN from : \A j \in 1..(k - 1) : from[j] < from[k]
    /\ stay = Range(from)
    /\ list' = [k \in DOMAIN from |-> list[from[k]]]

\* A mutant for the runs: the index stays.
removeKeepsIndex(f) ==
  LET at == {i \in DOMAIN list : list[i].fn = f} IN
  /\ at # {} /\ Drops(at)
  /\ gone' = gone \cup {list[i].id : i \in at}
  /\ UNCHANGED <<options, firing, memory, locked, fired, disabled, queue,
                 firingIndex, running, adds, fires, heard, emptied>>

\* remove: all of its entries; the index follows those before it.
remove(f) ==
  LET at == {i \in DOMAIN list : list[i].fn = f} IN
  /\ at # {} /\ Drops(at)
  /\ firingIndex' = firingIndex
                    - Cardinality({i \in at : i <= firingIndex})
  /\ gone' = gone \cup {list[i].id : i \in at}
  /\ UNCHANGED <<options, firing, memory, locked, fired, disabled, queue,
                 running, adds, fires, heard, emptied>>

\* empty: the index of a firing stays where it was.
empty ==
  /\ list # <<>> /\ list' = <<>>
  /\ gone' = gone \cup {e.id : e \in ToSet(list)}
  /\ emptied' = (emptied \/ firing)
  /\ UNCHANGED <<options, firing, memory, locked, fired, disabled, queue,
                 firingIndex, running, adds, fires, heard>>

disable ==
  /\ ~disabled
  /\ disabled' = TRUE /\ locked' = TRUE
  /\ list' = <<>> /\ queue' = <<>> /\ memory' = Nothing
  /\ UNCHANGED <<options, firing, fired, firingIndex, running, adds, fires,
                 heard, gone, emptied>>

\* lock: a list without memory is disabled, unless it is firing.
lock ==
  /\ locked' = TRUE /\ queue' = <<>>
  /\ IF memory = Nothing /\ ~firing
     THEN disabled' = TRUE /\ list' = <<>>
     ELSE UNCHANGED <<disabled, list>>
  /\ UNCHANGED <<options, firing, memory, fired, firingIndex, running, adds,
                 fires, heard, gone, emptied>>

CNext ==
  \/ \E result \in BOOLEAN : Returns(result)
  \/ Throws \/ fireWith \/ empty \/ disable \/ lock
  \/ \E f \in Functions : add(f) \/ remove(f)

CSpec == CInit /\ [][CNext]_cVars

(******************************* properties ********************************)
(* In a firing, exactly the entries up to the index have heard its value,  *)
(* whatever the functions add and remove meanwhile; and a list with a      *)
(* memory that rests has told its value to every entry that was not taken  *)
(* off it (a list that is locked in a firing forgets its entries after it, *)
(* one that fires once only afterwards).  A list emptied by one of its own *)
(* functions is excepted: it forgets what that function adds.              *)
EveryoneHearsOnce ==
  ~emptied =>
    /\ running => \A i \in DOMAIN list :
                    i <= firingIndex <=> heard[list[i].id] = memory
    /\ ~firing /\ memory # Nothing =>
         \A e \in 1..adds :
           (e \notin gone /\ options.once) \/ e \in {x.id : x \in ToSet(list)}
             => heard[e] = memory
=============================================================================
