-------------------------------- MODULE Ajax --------------------------------
(* jQuery.ajax over XMLHttpRequest, with the wrapper the site puts around  *)
(* it.  Everything the library calls (events, callbacks) is code of the    *)
(* page, which may ask again, abort any request, or throw: frames holds    *)
(* the calls under way, [r, at], the last of them running the page's code  *)
(* at that place.  Prefilters, synchronous requests and the cache of       *)
(* if-modified answers are left out: the site uses none.                   *)
EXTENDS Naturals, SequencesExt, FiniteSetsExt

CONSTANT Requests

ASSUME AjaxConstants == IsFiniteSet(Requests)

DataTypes    == {"*", "json"}             \* dataType of the options
ContentTypes == {"json", "html"}
Statuses     == {200, 204, 401, 500, 0}   \* 0: the connection is lost

\* given: the page has got the jqXHR, which beforeSend is called with.
VARIABLES req, frames, active,
          cut,      \* requests whose done() an exception left
          toLogin   \* window.location.href = "/Login/Index"

aVars == <<req, frames, active, cut, toLogin>>

NoRequest == [started |-> FALSE, given |-> FALSE, global |-> FALSE, timeout |-> FALSE,
              dataType |-> "*", completed |-> "undefined", transport |-> FALSE,
              timer |-> FALSE, xhr |-> "none", added |-> FALSE,
              state |-> "pending", status |-> 0, told |-> 0, completes |-> 0]

AInit == /\ req = [r \in Requests |-> NoRequest]
         /\ frames = <<>> /\ active = 0 /\ cut = {} /\ toLogin = FALSE

\* Frames at a global event exist for every request, but nothing of the page
\* runs there if the request is not global.
PageRuns ==
  frames # <<>> => \/ Last(frames).at \notin {"ajaxStart", "ajaxSend", "ajaxStop"}
                  \/ req[Last(frames).r].global

MayCall == PageRuns /\ (frames = <<>> => ~toLogin)

(********************************* answers *********************************)
\* ajaxHandleResponses: what the answer is to be converted to, from text.
ajaxHandleResponses(dataType, contentType) ==
  IF dataType = "*" THEN contentType ELSE dataType

\* ajaxConvert: text to json may fail, text is html as it is.
ajaxConvert(to, valid) == IF to = "json" /\ ~valid THEN "parsererror" ELSE "success"

IsSuccess(r, status, contentType, valid) ==
  \/ status = 204
  \/ /\ status = 200
     /\ ajaxConvert(ajaxHandleResponses(req[r].dataType, contentType), valid)
          = "success"

(********************************** done ***********************************)
\* done, of a request that is q by now: only once; its callbacks run on top
\* of the calls in rest.
done(r, q, status, success, rest) ==
  IF q.completed = "yes"
  THEN frames' = rest /\ req' = [req EXCEPT ![r] = q]
  ELSE /\ req' = [req EXCEPT ![r] =
                   [q EXCEPT !.completed = "yes", !.timer = FALSE,
                      !.transport = FALSE, !.status = status,
                      !.state = IF success THEN "resolved" ELSE "rejected",
                      !.told = IF q.added THEN @ + 1 ELSE @]]
       /\ frames' = Append(rest, [r |-> r, at |-> "settle"])

\* The xhr's handlers are taken away, before anything is called.
Silenced(q) == [q EXCEPT !.xhr = IF @ = "open" THEN "quiet" ELSE @]

\* A mutant for the runs: the xhr keeps its handlers.
abortOnlySettles(r, rest) == done(r, req[r], 0, FALSE, rest)

\* abort, of the page, of the timer, or of a request not to be sent.
abort(r, rest) ==
  done(r, IF req[r].transport THEN Silenced(req[r]) ELSE req[r], 0, FALSE, rest)

(********************************** ajax ***********************************)
ajax(r, global, timeout, dataType) ==
  /\ MayCall /\ ~req[r].started
  /\ req' = [req EXCEPT ![r] =
               [@ EXCEPT !.started = TRUE, !.global = global,
                         !.given = ~(global /\ active = 0),
                         !.timeout = timeout, !.dataType = dataType]]
  /\ active' = IF global THEN active + 1 ELSE active
  /\ frames' = Append(frames, [r |-> r, at |-> IF global /\ active = 0
                                             THEN "ajaxStart" ELSE "beforeSend"])
  /\ UNCHANGED <<cut, toLogin>>

\* The page aborts a request whose jqXHR it has got.
Abort(r) ==
  /\ MayCall /\ req[r].given
  /\ abort(r, frames)
  /\ UNCHANGED <<active, cut, toLogin>>

Top  == Last(frames)
Rest == Front(frames)

\* The handlers of ajaxStart return.
AfterStart ==
  /\ frames # <<>> /\ Top.at = "ajaxStart"
  /\ frames' = Append(Rest, [r |-> Top.r, at |-> "beforeSend"])
  /\ req' = [req EXCEPT ![Top.r] = [@ EXCEPT !.given = TRUE]]
  /\ UNCHANGED <<active, cut, toLogin>>

\* beforeSend returns: the request is given up, or gets its callbacks and
\* its transport.
AfterBeforeSend(result) ==
  /\ frames # <<>> /\ Top.at = "beforeSend"
  /\ LET r == Top.r IN
     IF result = FALSE \/ req[r].completed = "yes"
     THEN abort(r, Rest)
     ELSE /\ req' = [req EXCEPT ![r] = [@ EXCEPT !.added = TRUE, !.transport = TRUE]]
          /\ frames' = Append(Rest, [r |-> r, at |-> "ajaxSend"])
  /\ UNCHANGED <<active, cut, toLogin>>

\* The handlers of ajaxSend return: the timer is set and the request sent,
\* unless it was aborted.
AfterSend ==
  /\ frames # <<>> /\ Top.at = "ajaxSend"
  /\ LET r == Top.r IN
     \/ /\ req[r].completed = "yes" /\ frames' = Rest /\ UNCHANGED req
     \/ /\ req[r].completed # "yes" /\ frames' = Rest
        /\ req' = [req EXCEPT ![r] = [@ EXCEPT !.timer = req[r].timeout,
                                      !.completed = "no", !.xhr = "open"]]
     \/ \* open or send throws
        /\ req[r].completed # "yes" /\ done(r, req[r], 0, FALSE, Rest)
  /\ UNCHANGED <<active, cut, toLogin>>

\* The callbacks of success or error return; the wrapper goes to the login
\* page after those of a request that was not allowed.  Then complete.
AfterSettle ==
  /\ frames # <<>> /\ Top.at = "settle"
  /\ LET r == Top.r IN
     /\ req' = [req EXCEPT ![r] =
                  [req[r] EXCEPT !.completes = IF req[r].added THEN @ + 1 ELSE @]]
     /\ toLogin' = (toLogin \/ (req[r].added /\ req[r].status = 401))
     /\ frames' = Append(Rest, [r |-> r, at |-> "complete"])
  /\ UNCHANGED <<active, cut>>

\* complete returns: one request less.
AfterComplete ==
  /\ frames # <<>> /\ Top.at = "complete"
  /\ active' = IF req[Top.r].global THEN active - 1 ELSE active
  /\ frames' = IF req[Top.r].global /\ active = 1
              THEN Append(Rest, [r |-> Top.r, at |-> "ajaxStop"]) ELSE Rest
  /\ UNCHANGED <<req, cut, toLogin>>

AfterStop ==
  /\ frames # <<>> /\ Top.at = "ajaxStop"
  /\ frames' = Rest
  /\ UNCHANGED <<req, active, cut, toLogin>>

\* Code of the page throws: every call under way is left.
PageThrows ==
  /\ frames # <<>> /\ PageRuns
  /\ frames' = <<>>
  /\ cut' = cut \cup {f.r : f \in {x \in ToSet(frames) : x.at \in {"settle", "complete"}}}
  /\ UNCHANGED <<req, active, toLogin>>

(******************************* the browser *******************************)
\* onload and onerror: the xhr's handlers are taken away first.
Answer(r, status, contentType, valid) ==
  /\ frames = <<>> /\ ~toLogin /\ req[r].xhr = "open"
  /\ done(r, Silenced(req[r]), status,
          IsSuccess(r, status, contentType, valid), <<>>)
  /\ UNCHANGED <<active, cut, toLogin>>

Timeout(r) ==
  /\ frames = <<>> /\ ~toLogin /\ req[r].timer
  /\ abort(r, <<>>)
  /\ UNCHANGED <<active, cut, toLogin>>

ANext ==
  \/ \E r \in Requests :
       \/ \E g, t \in BOOLEAN : \E d \in DataTypes : ajax(r, g, t, d)
       \/ \E s \in Statuses : \E c \in ContentTypes : \E v \in BOOLEAN :
            Answer(r, s, c, v)
       \/ Abort(r) \/ Timeout(r)
  \/ \E result \in BOOLEAN : AfterBeforeSend(result)
  \/ AfterStart \/ AfterSend \/ AfterSettle \/ AfterComplete \/ AfterStop
  \/ PageThrows

ASpec == AInit /\ [][ANext]_aVars

(******************************* properties ********************************)
\* Requests that were counted and whose done() has not counted them down.
Counted == {r \in Requests :
              /\ req[r].started /\ req[r].global
              /\ \/ req[r].completed # "yes" \/ r \in cut
                 \/ \E i \in DOMAIN frames : /\ frames[i].r = r
                                            /\ frames[i].at \in {"settle", "complete"}}

(* However answers, timeouts, aborts and the page's own code meet, every   *)
(* request is settled at most once and its callbacks are called once, in   *)
(* this order; nothing of a settled request is left to fire; and active is *)
(* the number of requests under way, as long as no callback throws (then   *)
(* it stays too high by the requests that were left).                      *)
RequestsEndOnce ==
  /\ \A r \in Requests :
       LET q == req[r] IN
       /\ q.completes <= q.told /\ q.told <= 1
       /\ (q.state = "pending") = (q.completed # "yes")
       /\ q.completed = "yes" => ~q.timer /\ q.xhr # "open" /\ ~q.transport
       /\ frames = <<>> /\ r \notin cut /\ q.completed = "yes" /\ q.added =>
            q.completes = 1
  /\ active = Cardinality(Counted)
=============================================================================
