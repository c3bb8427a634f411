------------------------------- MODULE Layers -------------------------------
(* The layers of layer.js, which the pages use for alerts, questions, tips *)
(* and messages: what opens and closes one, and the page's callbacks in    *)
(* between, which may open and close others.  A call runs to its end       *)
(* before anything else happens; calls holds what it still has to do.      *)
(* Placement, dragging, iframes, prompts, elements as contents, and layers *)
(* with an id of their own are left out.                                   *)
EXTENDS Naturals, SequencesExt

CONSTANT MaxOpens   \* bound: layers that the page opens

VARIABLES lay, opens

oVars == <<lay, opens>>

(********************************* the kinds *******************************)
Base == [type |-> "dialog", shade |-> TRUE, timed |-> FALSE, scrollbar |-> TRUE,
         success |-> "none", end |-> "none"]

\* What the end callback of a page does.
Ends == {"none", "opens", "closes all", "throws"}

Alert  == Base
Msgs   == {[Base EXCEPT !.shade = FALSE, !.timed = TRUE, !.end = e] : e \in Ends}
Load   == [Base EXCEPT !.type = "loading"]
Tip    == [Base EXCEPT !.type = "tips", !.shade = FALSE, !.timed = TRUE]
Pages  == {[Base EXCEPT !.type = "page", !.scrollbar = b, !.success = s, !.end = e] :
             b \in BOOLEAN, s \in {"none", "closes"}, e \in {"none", "opens"}}
Kinds  == {Alert, Load, Tip} \cup Msgs \cup Pages

OInit ==
  /\ lay = [of     |-> <<>>,    \* the options of each layer, by its index
            open   |-> <<>>,    \* the indexes of those in the page, in its order
            shades |-> {},
            full   |-> 0,       \* who took the page's scrollbar
            enter  |-> FALSE,   \* the enter key is kept from the page
            timers |-> {}, ends |-> {},
            calls  |-> <<>>,
            told   |-> <<>>,    \* how often each layer's end was called
            was    |-> {},      \* those that were in the page
            early  |-> {},      \* those that their own success closed
            nested |-> FALSE]   \* one was opened inside of the opening of another
  /\ opens = 0

(********************************* the code ********************************)
Call(op, arg) == [op |-> op, arg |-> arg]

\* The head of the calls is replaced.
Does(s, calls) == [s EXCEPT !.calls = calls \o Tail(@)]

\* A mutant for the runs: a loading or a tip closes no others.
NewBeside(s, kind) ==
  LET i == Len(s.of) + 1
      all == IF kind.type = "dialog" THEN <<Call("closeAll", "dialog")>> ELSE <<>> IN
  [Does(s, all \o <<Call("vessel", i)>>) EXCEPT
     !.of = Append(@, kind), !.told = Append(@, 0)]

\* The constructor: of dialogs, loadings and tips, the others are closed first.
New(s, kind) ==
  LET i == Len(s.of) + 1
      all == IF kind.type = "page" THEN <<>> ELSE <<Call("closeAll", kind.type)>>
      Creating(c) == c.op = "vessel" /\ s.of[c.arg].type = kind.type IN
  [Does(s, all \o <<Call("vessel", i)>>) EXCEPT
     !.of = Append(@, kind), !.told = Append(@, 0),
     !.nested = @ \/ \E j \in DOMAIN s.calls : Creating(s.calls[j])]

\* The layer comes into the page.
vessel(s, i) ==
  LET l == s.of[i] IN
  [Does(s, <<Call("callback", i)>>) EXCEPT
     !.open = Append(@, i), !.was = @ \cup {i}, !.enter = TRUE,
     !.shades = IF l.shade THEN @ \cup {i} ELSE @,
     !.full = IF l.scrollbar THEN @ ELSE i,
     !.timers = IF l.timed THEN @ \cup {i} ELSE @]

\* The page's success runs before its end is known.
callback(s, i) ==
  IF s.of[i].success = "closes"
  THEN [Does(s, <<Call("close", i), Call("setEnd", i)>>) EXCEPT !.early = @ \cup {i}]
  ELSE Does(s, <<Call("setEnd", i)>>)
setEnd(s, i) ==
  [Does(s, <<>>) EXCEPT !.ends = IF s.of[i].end = "none" THEN @ ELSE @ \cup {i}]

rescollbar(s, i) == [s EXCEPT !.full = IF @ = i THEN 0 ELSE @]

close(s, i) ==
  IF ~Contains(s.open, i) THEN Does(s, <<>>)
  ELSE [rescollbar(Does(s, <<Call("ended", i)>>), i) EXCEPT
          !.open = SelectSeq(@, LAMBDA j : j # i),
          !.shades = @ \ {i}, !.enter = FALSE]

\* An exception ends the whole call.
ended(s, i) ==
  LET t == [s EXCEPT !.told[i] = @ + 1, !.ends = @ \ {i}] IN
  IF i \notin s.ends THEN Does(s, <<>>)
  ELSE CASE s.of[i].end = "opens"      -> New(t, Alert)
         [] s.of[i].end = "closes all" -> Does(t, <<Call("closeAll", "all")>>)
         [] s.of[i].end = "throws"     -> [t EXCEPT !.calls = <<>>]

\* The layers that are there when it begins.
closeAll(s, type) ==
  LET These(i) == type \in {"all", s.of[i].type}
      these == SelectSeq(s.open, These) IN
  Does(s, [k \in DOMAIN these |-> Call("close", these[k])])

Runs(s, c) ==
  CASE c.op = "vessel"   -> vessel(s, c.arg)
    [] c.op = "callback" -> callback(s, c.arg)
    [] c.op = "setEnd"   -> setEnd(s, c.arg)
    [] c.op = "close"    -> close(s, c.arg)
    [] c.op = "ended"    -> ended(s, c.arg)
    [] c.op = "closeAll" -> closeAll(s, c.arg)

(******************************* the actions *******************************)
Step == /\ lay.calls # <<>> /\ lay' = Runs(lay, Head(lay.calls)) /\ UNCHANGED opens

\* What happens when no call runs.
Calls(c) == /\ lay.calls = <<>> /\ lay' = [lay EXCEPT !.calls = <<c>>]
            /\ UNCHANGED opens

Open(kind) == /\ lay.calls = <<>> /\ opens < MaxOpens /\ opens' = opens + 1
              /\ lay' = New([lay EXCEPT !.calls = <<Call("open", 0)>>], kind)

\* A button, the cross, the shade, or the page.
Close(i) == Contains(lay.open, i) /\ Calls(Call("close", i))
CloseAll(type) == lay.open # <<>> /\ Calls(Call("closeAll", type))

Timeout(i) == /\ i \in lay.timers /\ lay.calls = <<>>
              /\ lay' = [lay EXCEPT !.timers = @ \ {i}, !.calls = <<Call("close", i)>>]
              /\ UNCHANGED opens

Big(i) == Contains(lay.open, i) /\ lay.of[i].type = "page" /\ lay.calls = <<>>
full(i) == /\ Big(i) /\ lay' = [lay EXCEPT !.full = IF @ = 0 THEN i ELSE @]
           /\ UNCHANGED opens
\* Also min.
restore(i) == Big(i) /\ lay' = rescollbar(lay, i) /\ UNCHANGED opens

\* A key inside of a layer.
Keydown == /\ lay.open # <<>> /\ lay.calls = <<>>
           /\ lay' = [lay EXCEPT !.enter = FALSE] /\ UNCHANGED opens

ONext ==
  \/ Step \/ Keydown
  \/ \E kind \in Kinds : Open(kind)
  \/ \E i \in DOMAIN lay.of : Close(i) \/ Timeout(i) \/ full(i) \/ restore(i)
  \/ \E type \in {"all", "dialog"} : CloseAll(type)

OSpec == OInit /\ [][ONext]_oVars

(* Between two calls, the page has the shades of its layers and no others, *)
(* only an open layer keeps the scrollbar or the enter key from it, at     *)
(* most one dialog, one loading and one tip are open, and a layer that has *)
(* closed has told its end once.  A dialog that the end of another opens   *)
(* while a third is being opened breaks the third, and success the last,   *)
(* when it closes the layer itself: the end is kept after it.              *)
LayersClose ==
  /\ \A i \in DOMAIN lay.of : lay.told[i] <= 1
  /\ lay.calls = <<>> =>
       /\ lay.shades = {i \in ToSet(lay.open) : lay.of[i].shade}
       /\ lay.full \in {0} \cup ToSet(lay.open)
       /\ lay.enter => lay.open # <<>>
       /\ \A i, j \in ToSet(lay.open) :
            lay.of[i].type = lay.of[j].type /\ i # j =>
              lay.of[i].type = "page" \/ lay.nested
       /\ \A i \in lay.was \ (ToSet(lay.open) \cup lay.early) :
            lay.of[i].end # "none" => lay.told[i] = 1
=============================================================================
