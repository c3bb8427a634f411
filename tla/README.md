# Jy: specifications, model checking and proofs

Jy is an authorisation and user-management system: C# hosts (.NET Core 2) that
answer reads from a cache and send writes as commands over RabbitMQ, consumers
that carry the commands out against databases and a search index, building
blocks for locking, caching, discovery and tokens, and a web front end of pages
with trees, tables and dialogs, whose libraries are part of the repository. This
directory holds TLA+ modules for both halves, the TLC configurations that
check them, and proofs that TLAPS checks.

Paths below are relative to the repository root (`src/Jy.X/...`).

## 1. The system

```
 page (tree, table, dialogs) -> jQuery, jstree, Bootstrap, layer
   |  ajax
   v
 Jy.MVC / CRM.API / AuthAdmin.API
   |  reads: cache (redis, found by consistent hashing) -> read database
   |  role check: Jy.MVCAuthorization -> token server (Jy.TokenAuth)
   |  writes: application service -> QueueService
   v
 Jy.QueueService -> PublishQueueExecutor --(ConnectionPool)--> RabbitMQ
                       ^ reply queue ("_rpc")                     |
                       +------------------------------------------+
                                                                  v
 Jy.ConsumerAuth: RabbitMQConsumerClient -> QueueOperation -> handler
                       [ProcessMessageLockHandler -> Redlock -> redis]
                                 -> database, Solr index
```

### 1.1 Inventory

| Part | State | Operations | Module |
|---|---|---|---|
| Redlock (`Jy.DistributedLock`) | per resource: key and expiry on each redis master; per call: random value, masters that accepted, validity, retry | `Lock`, `Unlock`, expiry | `TtlLock`, `Redlock` |
| Lock around handlers (`Jy.DistributedLockHandler`) | round, sleep | `RunLock`, `LockMethod`, `UnLockMethod` | `MessageLock` |
| Connection pool (`Jy.RabbitMQ/ConnectionBuilder`) | concurrent queue, counter, limit | `Rent`, `Return`, `Dispose` | `ConnectionPool` |
| Rpc (`Jy.QueueService`, `Jy.RabbitMQ/client`) | one reply field and tag of a singleton, its monitor, reply channels; broker queues; unacknowledged deliveries | `Request`, `RequestPublish`, `OnReplyConsumerReceived`, `OnConsumerReceived` | `RpcRequest` |
| Plain messages (`Jy.RabbitMQ/client`, `Operate`) | broker queue, unacknowledged deliveries, list of handlers | `ExecuteAsync`, `HandleAsync`, `SubscribeTopic`, `ProcessEvent`, `ExecuteHandlersSync` | `PlainMessage` |
| Object pool of the cache client (`Jy.Cache`) | queue of objects, spin lock, number made | constructor, `GetObject` | `ObjectPool` |
| Consistent hashing (`Jy.Utility/Node`) | rings of virtual nodes; the sorted array next to one of them | `Add`, `Remove`, `GetItemNode`; `GetPrimary`, `GetNodeForKey` | `HashRing` |
| Application services (`Jy.Application`, `Jy.Cache/Redis`) | lists in redis next to the rows of the read database, commands and replies under way | `GetListPaged`, `GetSortList`, `Delete`, `InsertOrUpdate` and its reply | `RoleListCache` |
| Tokens (`Jy.TokenService`, `Jy.TokenAuth`) | entry of a token, entry of its user, black list | login, logout, role check | `TokenStore` |
| Pages (`Jy.MVC/Views`) | tree, table, form, question, requests and timers under way, strings of ids | load, select, add, edit, delete, save; the roles' menus; a batch of users | `ListPage`, `MenuDialog`, `BatchDialog`, `IdStrings` |
| jQuery (`wwwroot/lib/jquery/src`) | lists of callbacks, deferreds, requests, handlers of an element, its fx queue and timers | add, fire, lock; resolve, then, when; ajax, abort; on, off, trigger; animate, stop, finish | `Callbacks`, `Deferreds`, `Ajax`, `Events`, `Effects` |
| jstree (`wwwroot/lib/jstree/src`) | model of the nodes, selection kept twice, loads, worker and its queue | load, open, select, create, delete, move, copy, refresh | `JsTreeModel`, `JsTree` |
| Bootstrap (`wwwroot/lib/bootstrap/js`) | classes and data of elements, handlers that wait for transitions, timers | show, hide, toggle, slide, scroll | `Dialogs`, `Tips`, `Collapse`, `Tabs`, `Carousel`, `Dropdown`, `Controls`, `Affix`, `ScrollSpy` |
| layer, paginator (`wwwroot/lib/layer`, `wwwroot/js`) | layers, shades, ends to tell; pages and items | open, close, closeAll; options, show, answers | `Layers`, `Paginator` |
| Repositories, handlers' data, discovery, hosts, http client, Kafka, Solr, CRM, logging | little of their own | forwarding | not modelled, section 8 |

### 1.2 How the parts interact

* An application service sends a command either as a plain message (topics
  ending in `_normal`: publish and forget) or as an rpc (`_rpc`: publish and wait
  for the reply). Both rent a broker connection from the connection pool.
* A consumer process has one client per queue. A plain delivery starts a task
  that runs all subscribed handlers in order; an rpc delivery runs the handler
  on the delivery thread and then publishes the reply and acknowledges.
* A handler whose `ProcessMsg` is tagged runs inside `RunLock`, which takes the
  named lock through Redlock. `Jy.ConsumerAuth/Program.cs` gives Redlock one
  redis server.
* The reply wakes a thread that waits on a monitor all requests share; the
  thread adds the new role to the list in redis that readers fill.
* A page's save is answered when its command is published, not when it is carried
  out; the page waits two seconds (`delayLoad`) and asks for its tree again. The
  tree restores its selection when it is ready, and only that asks for the table.
* The tree is asked for through jQuery, parsed by a web worker, and its ticked
  nodes are copied into a string of ids, which a dialog saves.
* Every request goes through `verifyToken.js`, which answers a 401 with the login
  page; the hosts ask the token server, which looks at its entries in redis.

### 1.3 What is hard here

* **Interleaving.** Pools without locks (queue and counter changed one after
  the other; a limit read before it is counted), a monitor, a reply field and a
  delivery tag shared by every request of a process, handlers of one lock on
  several consumers; callbacks that change the list that is firing them, events
  triggered by handlers, animations started by the end of others.
* **Failure.** Redis commands that throw although they were applied, publishes
  that throw after the broker took the message, handlers that throw between lock
  and unlock, consumers that die between handling and acknowledging, requests of
  a page that fail while others are under way.
* **Time.** Keys that expire under a slow owner, rounds of growing sleeps, a
  wait without a timeout, entries of one token that expire one by one, timers
  and transitions whose ends arrive for several handlers at once.
* **Ordering.** A reply before the wait, a subscription after the listening, a
  cache filled across a deletion, answers that overtake each other, a worker's
  copy of a model that was edited meanwhile.

### 1.4 What makes each modelled part correct

* Redlock: at most one caller inside its validity period, backed by a majority;
  nobody's key deleted by another; every key gone in the end.
* Lock around handlers: handlers overlap only if one outlived its lock; a
  message is not given up against few rivals; nothing hangs behind a dead
  handler.
* Connection pool: counter and queue agree, the queue is bounded, a rented
  connection has one user. Object pool: one thread in the queue at a time, no
  object lost or pooled twice.
* Rpc: a published request is handled or kept; success is reported only for a
  stored entity. Plain messages: what was sent is never forgotten, handlers are
  called in order and all of them.
* Consistent hashing: the search finds the next key clockwise, only servers that
  are there are answered; on the ring whose points are the same in every process,
  processes agree on the server of a key, and a change moves only the changed
  server's keys.
* List of roles: a list that expires hides no role that is not being deleted or
  newer than the list. Tokens: a token that was handed out keeps its entries as
  long as its signature is valid, and a logged-out one passes no later check.
* Pages: a dialog says what it saves, a reload shows the command, what is
  saved is what was ticked.
* jQuery: everyone in a firing hears once, a promise keeps the first word,
  a request ends once, handlers run in order and those of `one()` once, the
  queue of effects runs dry. jstree: the model is a tree, ticks are three-state,
  nothing waits when nothing is under way.
* Widgets: dialogs leave the page as they found it; once transitions are over,
  a widget shows what it was last told; the pager shows the page of the rows.

## 2. The modules

Each module starts with the files it models. Actions have the names of the
methods, or name the part of the method between two points where another thread
or process can interfere. Operators under the comment "a slip" are mutations of
the definition that follows them; no specification uses them. They document which
mistake each property is there to find.

### TtlLock, Redlock

`TtlLock` is the promise: a set of owners with at most one member, left when the
period ends. `Redlock` is the protocol on `N` masters. `LockInstance` is one
SET NX (answered, thrown and not applied, or thrown and applied), `LockTaken` and
`LockRefused` the decision after the last master, `UnlockInstance` one call of
the compare-and-delete script, `UnlockThrows` an exception that ends the
sweep, `Retry` and `GiveUp` the retry loop. Time is a set of countdowns (the life
of a key, the validity of an attempt) and `Tick` takes one off each; a client may
be arbitrarily slow, so ticks may fall between any two of its steps. A key is
given a life between `TTL - Drift` and `TTL`, the drift `Lock` accounts for.
Random values are drawn from the set of those in use by nobody and stored
nowhere: the 128-bit random values of the code never collide in practice.
`Promise == INSTANCE TtlLock WITH owners <- Owners` is the refinement, with
`Owners` the clients whose validity still runs.

### MessageLock

`RunLock`, one thread per message: request the lock, sleep `2000 * i` ms when refused,
request again, up to the last round. A request on one master is cut where time may
pass: `SetKey` is the SET, which gives the key its full life, `LockTaken` the return
of `Lock`, if by its clock some of the time-to-live is left, and `RunHandler` the
start of the handler, however late: the validity time `Lock` returns is not looked at.
`held` counts from the SET. `LockRefused` is every other end of a request: the key is
set, a command threw, which may leave the key behind (`Orphan`), or the answer came
too late and was undone. Nothing is unlocked when the handler throws, as in the code.
One tick is two seconds, so the five-tick time-to-live of the rivals in run `locks` is
the ten seconds of the handlers' attribute and the sleeps are 1, 2, 3, 4, 5 ticks.

### ConnectionPool

`Rent` is `TryDequeue` and then `Interlocked.Decrement`; `Return` is
`Interlocked.Increment` with a comparison and then `Enqueue`, or the undo; each is
a step of its own. `Dispose` sets the limit to zero and drains. `held` may contain
two connections of one thread, since `RequestPublish` rents a second one while it
has the first. The queue is a set; its order is not observable by any caller.

### RpcRequest

A request runs `Consume` (open a reply channel), `Publish`, `Wait` (`Monitor.Enter`
and `Monitor.Wait`) and `Return` (awake, with the monitor), after which it has its
reply (`received`) and `Succeeds` when `succHandle` returns. `RequestThrows` is an
exception of the broker's calls before the wait, whether or not the message was
published by then, or of `succHandle`; `ReturnThrows` one after it, when the reply is
acknowledged or its channel disposed: the reply is lost with the call. Each is
followed by the resend of `QueueService.Request` (`CountRun`, `AfterThat`), so a
message that was handled may be published again. `OnReply` is the delivery of a reply
on any channel opened so far (`DeliverReply` numbers it on its channel): overwrite the
shared field and tag, pulse the first waiter. `AckReply` is the acknowledgement with
the shared tag on the thread's own channel; RabbitMQ closes a channel on which an
unknown tag is acknowledged and requeues its deliveries. The consumer's `Receive`,
`HandlerReturns`, `HandlerThrows`, `HandlerSkipped`, `Reply`, `AckRequest` are
`OnConsumerReceived` cut where the process may die (`Restart`).

### PlainMessage

`PublishMessage` and `PublishThrows` are `ExecuteAsync` with the resend of
`HandleAsync`. `Subscribe` is one call of `SubscribeTopic`; the first begins to
listen before the handler is there, which is why `Deliver` may find none. A
delivery carries its task: `TaskStarts`, `HandlerReturns`, `TaskEnds`, and
`EnumerationThrows` when the list has grown since the enumeration began. The task
is awaited in an `async void` event handler, so its exceptions end the process
(`ProcessEnds`, `EnumerationThrows`); the broker then puts back every delivery,
because in this mode nothing is ever acknowledged.

### ObjectPool

`GetObject` step by step: `Compare`, `Increment`, `Create` (or `CreateThrows`),
`Enter`, `Dequeue` (or `DequeueThrows`), `Leave`, `Enqueue`. The `finally` puts the
object into the queue before the caller gets it, so that one who is `using` an object
shares it with the queue: `EveryObjectIsOnce` counts the places in the pool, and run
`object_pool_use` shows what becomes of the users.

### HashRing

`Add` and `Remove` change the ring of `ConsistentHash` and refresh its sorted array;
`GetItemNode` makes the two comparisons, `Narrow` is one round of the binary search
and `Found` its end. The hash functions are constants: which hashes a server's virtual
nodes have, two servers possibly the same one. `Points` are those of one process,
since `ConsistentHash` starts from a string's hash code, which .NET Core seeds anew in
each; `KetamaPoints` come from the server's name by MD5 and are the same everywhere.
`KetamaNodes` and `GetNodeForKey` are the other ring, which is rebuilt for every
look-up and hence is a function of the list of servers.

### RoleListCache, TokenStore

`RoleListCache` is the sorted set of roles. A reader is in one of the places where
it has just called redis or the read database (`Exists`, `SortedSetRangeByRank`,
`Query`, `SortedSetAdd`, `KeyExpire`), and may throw at each. `InsertOrUpdate`
publishes, `InsertOrUpdateCache` is the reply, `Delete` cleans the cache before it
publishes, `HandleDelete` is the consumer, `Replicate` brings the change to the
read database. A member says where it comes from: a reply's stamp of
`DateTime.Now` serialises differently from the row's, so a deletion misses it.

`TokenStore` cuts a login between its two writes (`SaveTokenEntry`,
`SaveUserEntry`), a logout between reading the entry, listing the jti and removing
the entry, and the role check between its reads. Each write may throw after it was
carried out. Entries and signatures are countdowns; the hosts check signatures with
no clock skew.

### Callbacks, Deferreds, Ajax, Events, Effects

One module for each file of jQuery the pages live on. In all of them the page's own
code runs inside the library's: a state holds the stack of calls under way (`running`,
`stack`, `frames`, `dispatches`, `todo`), and whatever the library lets a callback do
is an action that is possible in the middle of it, throwing included (`Throws`,
`PageThrows`). `Deferreds` uses the behaviour that `Callbacks` describes, of lists
that fire once and remember. Its operators compute on a world of deferreds, calls
under way and timers (`Here`, `Becomes`), so that the adds and settlements of one
handler follow each other. Numbers of adds and values, `word` and the `part` of a
callback exist for the properties only. What stays of a list of handlers is any
sequence that keeps the others in their order, of which there is one (`Without`,
`HandlersFor`), where the code walks the list with a counter.

A thenable of another library is asked for its `then` inside the library's own call
(`asking`): it may keep the two functions, call them at once, and throw before or
after that, and the guard of `deferred.js:201` decides what an exception still means.
In `Effects` every callback may animate again, those that `stop()` and `finish()` call
as well; callbacks that stop or finish in their turn, or throw, are left out.

### JsTreeModel, JsTree

`JsTreeModel` is the data: nodes with `parent`, `parents`, `children`, `children_d`,
the selection in the nodes and as a list, the operators that create, move, copy and
delete in it, and what it is for the four lists to agree (`Agrees`). `JsTree` is what
happens to it: ticks and selection, which go up and down the tree (the recursive
operators are here, so that `JsTreeModel` can be proved about), requests under way
(`calls`), the worker with the copy it parses into, the answers queued for it, the
groups that wait for several nodes, and the timers. A handler computes on a record of
all variables, the world, one step of which is what the code does until it returns.
`lost` (nodes pushed out by a second answer), `undone` (what was edited under the
worker), `torn` (a selection that names a node the worker's copy does not know) and
`excused` (waits that nobody will end) collect what the flaws of section 6 have
touched, and `Dead` is the worker that died of an answer. The comment of each property
names those it excepts.

### ListPage, IdStrings, MenuDialog, BatchDialog

`ListPage` is the shape which the pages of departments, menus and users share: a
definition is mapped to one of the three, the others have the same lines. A patient
user does nothing while something of the page is under way, a hasty one does. The
timer of the reload (`TimerFires`) waits for nobody: a command that is applied after
the reload is `missed`. A post that fails (`PostFails`) may have published its command.
The table is emptied when it is asked for and appended to by every answer;
`crowded` says that it was asked for while a request was out.

`IdStrings` is the string of ids beside a tree of checkboxes: the ids it was written
with, each followed by "_", and the number of characters cut off since. Each click on
save cuts one; `GetList` is what the server reads from the rest, if it reads it.
`MenuDialog` stands for the menus of a role and for the roles of a user. What a save of
either dialog carries along, for the properties only, is the tree in sight at the click
and what was ticked in it, if there is one.

### Dialogs, Tips, Collapse, Tabs, Carousel, Dropdown, Controls, Affix, ScrollSpy

One module per plugin of Bootstrap (buttons and alerts share `Controls`). A
transition is a handler that waits for its end (`one('bsTransitionEnd')`); clicks,
keys, the mouse, timers and the page's own calls come at any time in between. When
the transition of a dialog or of its backdrop ends, all handlers that wait for it
are `due`, and run one by one (`Run`) before anything else happens.

### Layers, Paginator

`Layers` runs a call of `layer.open` or `layer.close` to its end, with the callbacks
`success`, `end`, `yes` and `cancel` calling back into it; `calls` is what is left to
do. `Paginator` is the pager with the code of the pages that feeds it: the table is
emptied when a page of rows is asked for, every answer, however late, appends its rows
and sets the total and the current page, and a request may fail (`RequestFails`).
`tableRows` is the table, as how often it has each page's rows; `overlapped`, `without`
and `thrown` say what was the matter with the last request or answer.

### MC modules

`Redlock.cfg` gives `Redlock` its bounds. `MCLocks`, `MCCaches`, `MCMessages`,
`MCPages`, `MCjQuery` and `MCWidgets` put related components side by side: a variable
chosen at the start says which one runs, and the others stay where they are, so one
run explores each of them completely. They extend the modules that theorems are about,
whose constants the configuration gives, and name the properties of those that are
instances. `MCMessages` runs the rpc twice, with exceptions on both sides (`rpc`) and
with a consumer that is restarted (`rpc restarted`). `JsTree.cfg` gives `JsTree` its
bounds: `Threads` and `Threes` are the settings that are tried.

## 3. The runs

| Run | Configuration | Shows |
|---|---|---|
| `redlock_safety` | 3 masters, 2 clients, 4 values, TTL 3, drift 1, 2 retries | mutual exclusion, own deletes, whole release, and that `Redlock` implements `TtlLock` |
| `locks` | `RunLock` with 2 tagged messages and 1 untagged, TTL 3, last round 2, failing redis; with 3 rivals and the code's TTL 5 and last round 4; `Redlock` on 1 master with 2 clients | overlap only after an overrun, short handlers own the key, nobody is given up against two rivals, every message settles, every key goes |
| `caches_and_pools` | 3 servers with 2 points each, two with one in common, 7 hashes; 2 roles, 2 readers, 2 changes on the way to the read database; 1 user, 2 tokens, 2 tabs, 2 sets of roles, lifetime 2; 3 threads; 5 connections and a pool of 2; 1 redis client at first, limit 2, a maker that throws | the look-up, the agreement of Ketama rings, what a change moves; the complete list; the worth of tokens; counter, bound, exclusive rent; no client lost or pooled twice, the one way to lose the spin lock |
| `messages` | 2 requests, failing and skipped handlers, one flaky on either side of its publish, or neither and 1 restart; 2 plain messages, one flaky, 2 handlers, 1 process end | handled or kept, stored results, order, and handled in the end, by all handlers |
| `rpc_hangs` (violation) | 1 request, nothing fails | a request waits for ever |
| `rpc_reply` (violation) | 2 requests, nothing fails | a request returns another one's reply |
| `plain_ack` (violation) | 1 message, nothing fails | never acknowledged |
| `object_pool_use` (violation) | 2 callers, nothing fails | two callers use one object |
| `jquery` | 2 functions, 3 adds, 2 fires; 3 deferreds, foreign thenables that call and throw, 3 thenables followed; 2 requests; a branch of 2 elements, 2 handlers, 2 events; 3 animations | one property for each module |
| `jstree` | 3 nodes and a new one, 2 calls of the page, with and without the worker | a tree, three-state ticks, nothing left waiting |
| `pages` | 2 records for the patient user, 1 for the hasty one; 2 roles, 3 menus; 2 users and a role for the batch | titles, the table and its reloads, saves and their strings of ids |
| `widgets` | 2 dialogs, 3 panels, panes, slides and menus, blocks of 2 pages out of 5, 3 layers, 4 to 6 steps of the user | dialogs leave nothing, widgets come to rest, layers tell their end once, pager and table show the page |

### Why the bounds are enough

* Redlock: three masters are the smallest number with a majority that is not
  all, two clients are what exclusion is about, and a TTL of 3 with drift 1
  leaves a validity of 2, so that a lock is held, half expired and expired, and
  keys of one call expire at different ticks. The theorems of section 5 hold for
  all values. Liveness is checked for the one master the consumers configure.
* Handlers: two rivals show every overlap; the untagged message shows it is not
  held up. The rivals have the code's own constants, as the property is about them:
  with three rivals that all die holding the lock or overrun, the rounds no
  longer cover the time, and a message is dropped in silence.
* Pools: two threads can be between the operations while a third returns, and
  five connections exceed what three threads with two each and a pool of two need
  for refusals. Three callers let two pass the limit check while a third has the
  spin lock.
* Hash ring: rings of zero to five keys give the search zero, one and two rounds
  and every parity of its middle; the seven hashes lie on, between, below and
  above the keys, on both sides of zero.
* List of roles: two readers fill at once, one role comes from a reply while the
  other is deleted, and two changes reach the read database late and in order.
  The theorem holds for all numbers.
* Tokens: two logins of one user overlap with a change of roles in between and share
  the user's entry; two tabs log one token out; a lifetime of two lets one entry
  expire before another. The theorem holds for all numbers.
* Messages: two requests are what it takes for a lost pulse, a swapped reply and an
  unknown tag. A call that fails is repeated once in this run (`LastRun`, `LastFailed`
  are 0, and the count is compared before it is increased), the violation runs have
  the code's 4. Exceptions and the restart are in two copies of the rpc, since each
  alone reaches all places; one crash is between every two steps of the consumer
  somewhere; `EnumerationThrows` needs no crash of its own.
* jQuery: two callbacks can remove each other and be added again in one firing; a
  chain, a cycle and a `when` take three deferreds; two nested requests show the
  count of active ones; a delegated and a direct handler on two elements make
  every order; three animations are one that runs, one that waits, and the one
  that a callback adds.
* jstree: a parent with two children is the smallest tree with a half-ticked
  node; two calls of the page can overlap with the worker and with each other.
  The bound is `MaxOps`.
* Pages: one record below another is the smallest tree, `InFlight` is two because
  the second answer is the one that overtakes. An id of one character (`GuidLength`)
  is cut off as a whole by the third click (`MaxClicks`), and spoiled by the second.
* Widgets: three of each are one that goes, one that comes and one that is
  asked for meanwhile; the numbers of steps (`MaxOps`, `MaxMoves`, `MaxClicks`,
  `MaxTaps`, `MaxActs`, `MaxKeys`, `MaxPresses`, `MaxScrolls`, `MaxLooks`,
  `MaxOpens`) reach each of the flaws in section 6.

`WidgetsComeToRest` joins one invariant per plugin of Bootstrap, each about its own
module's variables only; `LayersEndOnce` and `PagerShowsThePage` stand for themselves.

Deadlock is checked in `redlock_safety` and `locks`. Elsewhere everything is said
and done in the end, the bounded steps of a user are used up, or the code does hang
(the spin lock, the waiting request).

## 4. Fairness

* `MCLocks`, as `Redlock!FairSpec`: time passes, and a client inside `Lock` or
  `Unlock` takes its steps (a redis command is answered or throws; the client
  library has timeouts). Nothing makes a caller lock or unlock, and a key goes away
  even if its owner never comes back. As `MessageLock!FairSpec`: time passes and a
  received message's thread is scheduled; a handler, a handful of statements with
  timeouts of their own, returns or throws.
* `MCMessages`, as `RpcRequest!FairSpec` and `PlainMessage!FairSpec`: threads run,
  the broker delivers to a connected consumer, and tasks run. No crash is forced and
  the number of crashes is bounded, so the last process is a stable one.

All are weak fairness: each of these steps, once possible, stays possible until
it is taken. The front end's modules state what holds when nothing is under way
instead: nothing obliges a server, a worker or a user to act.

## 5. What is proved

For every value of the constants, from the named assumptions in the modules:

* **RedlockProofs**: `TypeCorrect`; `MajorityBacksTheOwner`; `Exclusion`;
  `DeletesAreOwn`; `WholeRelease`; `Refinement` (`Spec => Implements`).
  Assumed: at least one master, drift below the time-to-live, at least one retry,
  `NoKey` is not a value. The invariant is `TypeOK /\ OwnValues /\ NoTimeWithoutKey
  /\ Backed /\ HeldByQuorum /\ Swept`. `Backed` is the heart: while an attempt has
  validity left, each master that accepted still holds its value for at least as
  long. It is inductive because the life of a key starts no earlier than the
  validity and drift is taken off. Exclusion follows from `QuorumsMeet`: two
  owners would share a master, which holds one value, and `OwnValues` makes values
  differ. `Swept` (the masters a release has passed no longer hold the value) gives
  `WholeRelease`.
* **RedisProofs**, the lock around handlers: `TypeCorrect`;
  `ShortHandlersOwnTheirKey`; `HandlersExclude`. Both count from the SET, and hold
  however late `Lock` returns and the handler starts. The invariant adds
  `KeyMatchesHandler` (from the SET on, the key lives for as long as is left of
  one time-to-live, and is the handler's own until then), `FreshClocks` and
  `RoundsLeft`. `RivalsDropNothing` and
  `TwoRivalsDropNothing` say that a message is not given up while it sleeps behind its
  rivals, whatever these do. `RivalInv` bounds the time a message has slept plus what
  is left of the key's life by what the rivals served so far can have taken
  (`InReach`); the last round comes after that for two rivals with the ten seconds of
  the code and for one with twenty. With twenty and two rivals TLC finds a message
  that is dropped, so the numbers are part of the theorem and not an accident of a run.
  The caches: `ListWithLifetime` and `TokensAreWorth`, for any numbers of
  readers, roles, users, tokens and tabs, and any lifetime. The first rests on
  `AddedIsListed` (what a reader is about to give a lifetime holds what it has
  read, but for what is being deleted) and `ReadIsListed` (a list with a lifetime
  holds what its reader read). The second compares countdowns that were started
  one after the other, which is why it holds although the entries expire one by
  one: `Outlived` (the signature of a token runs no longer than its user's entry and
  than its own entry or its place on the black list) and `ListedInTime` (a token
  whose logout is past its second write is listed for as long as it is signed).
* **PoolProofs**, the connection pool: `CounterNeverDrifts`; `TypeCorrect`;
  `PoolBound`; `ExclusiveRent`, for finite sets of threads and connections.
  `RoomReserved` is what makes the bound inductive: the queue has room for all threads
  past the check, since the counter counts them already. `OnePlace` says that every
  connection is in one place at most. The object pool: `SpinLock` and `ObjectsAreOnce`
  (none that nobody uses is lost, none is pooled twice), for any finite set of callers
  and any limits. `WithinLimit` counts the callers that have passed the check of the
  limit and not yet counted themselves, which is how far it can be passed;
  `EmptyHanded` says who holds an object, and `PooledOnce` that each one made is in
  the queue once or with the one caller who is bringing it there.
* **MessageProofs**, the rpc: `RequestsAreKept`; `RpcTypes`; `ResultsWereStored`, for
  any requests, retries and restarts, and any requests that fail, before their publish
  or after it. `WaitersWait` (who
  waits for a pulse waits, and waits once) is why a pulse wakes only what has been
  published. `AnsweredWasHandled` (what the consumer is about to acknowledge is the
  last it was given, and was handled or skipped) is why an acknowledgement loses
  nothing. `RepliesAreBacked` follows a reply through all the places it can be in (the
  broker, a channel, the shared field, a result), and `WokenFindReply` says that
  nobody who was pulsed reads the field before the first reply.
  Plain messages: `PlainKeptInOrder`, for any messages, handlers, retries and ends of
  the process. `CalledSoFar` is what the task of a delivery remembers: all handlers
  before its next one were called.
* **HashRingProofs**: `TypeCorrect`; `SearchFinds`; `OnlyServersAnswer`;
  `ChangesRebuild`; `ProcessesFindTheSame`, of the Ketama ring, whose points are the
  same in every process; `ChangesAreLocal`, for any servers, any set of integers
  as hashes and any finite sets of points.
  `Bracketed` is the invariant of the loop: the key at `end` is not below the
  hash and the key at `begin` is, but for the hash of the smallest key, which
  keeps `begin` at zero. `Owned` (each point on the ring is one of its server's
  own, and the server is there) is why a removed server cannot be answered:
  removing takes away all points it could own. The last two rest on `KetamaIs` (a
  key belongs to the last server of the list that has it as a point, which needs
  that a set of naturals has a smallest), on `SameButOne` (lists that differ in one
  server and order the others alike give a key to the same server or to that one)
  and on `FollowsOnce` (rings that have each other's answer have the same).
* **PageProofs**: `TitlesMatch`, `ReloadsShowCommands`, `SavesAreForTheTicked` and
  `PagerIsRight`, for any records, roles, menus, users and pages, any order of
  answers, any number of clicks and any length of an id, with a tree of menus of any
  shape; a menu, a role or a record is not one of the values that stand for none.
  `PatientInv` is a protocol nobody wrote down: for a user who waits, one thing of the
  page is under way at a time (`OneAtATime`), the tree comes before the table
  (`TreeIsFirst`), the table before the user (`TableIsLast`), and the rows are fresh
  unless a command came too late (`RowsAreFresh`); `PatientStep` is its induction. The
  consumers are not waited for, neither by the timer nor by the user. `OneList` is
  what is left for every user: a table that was not asked for twice at a time is empty
  while its request is out, and one list afterwards. `DInv`, of the dialog of menus,
  rests on `StringIsTheTree` and `OneDialog` (answers under way are for the role that
  is open); `GoodSaves` is what may be on its way: written from the tree in sight, and
  cut at least once. `ReadFromIds` says that what the server reads from a string that
  was cut are all its ids, unless a whole id's characters have been cut off
  (`GetListIs`). `BInv` is the same for the batch. `KInv` says that the items of the
  pager are the block of a page that was there when they were rendered and that they
  show the state unless the last options threw; `InItsBlock`, from `Division`, is the
  arithmetic of `getPages`. `RowsFollow` is the table: it is empty while the only
  request is out, and has the rows of the current page after an answer, once, or none
  after a failure (`LoadFollows`, `AnswerFollows`, `FailureKeeps`). jstree:
  `EditsKeepAgreement`, for trees of any size and shape. If the four ways in which a
  tree is written down agree on every node (a node's `parents` are its parent and the
  parent's `parents`, its `children` are those who name it as their parent, each once,
  its `children_d` those who have it among their `parents`), they still do after
  `create_node`, `delete_node`, `move_node` to any place `check` allows, and the
  reload of a node. Each edit writes its lists in several loops, so each has lemmas
  for what its parts leave (`Born` before `Attach`, `Detach` before `Drop`). The move
  is the long one: what `Rechain` cuts off the chains below the node (`Cut`) are
  exactly the old parents, because every chain there goes on with the node's own, and
  no chain above the new place meets the node, because `check` looked into
  `children_d`. The hypothesis is a part of `ModelIsATree`: TLC finds it in every
  state of the run in which no answer has pushed out a node (`lost`), and this is as
  much as can hold: after `EmptyOut` the ancestors keep what the node forgot
  (`jstree.js:1501`).
* **JQueryProofs**, lists of callbacks: `NobodyIsSkipped`, for any functions, options
  and numbers of calls. While a function runs, all entries up to the index have heard
  the value (`HeardUpTo`), which `remove` keeps because it takes the index back by as
  many places as have gone below it (`Places`, `StayingCount`); `Later` orders the
  values that are queued, and a list with `once` tells everyone who was not taken off
  it. Requests: `RequestsEnd`, for any finite set of them, with the page's code nested
  to any depth. `FramesOk` says what may be the case while a call of the page at each
  place is under way, and `PartsOnce` that a request is sent in one frame and ended in
  one frame; the counter is the number of requests between the two (`Counted`), so a
  throw leaves it too high exactly for the requests in `cut`. Events:
  `HandlersRunInOrder`, for any branch, handlers and events, nested to any depth.
  `InOrder` is the list (delegated handlers first, each once), `OnOneElement` that a
  handler is on one list, and `QueueOk` relates every queue of every dispatch on the
  stack to the lists as they are now: a handler of `one()` that waits there and has
  already run was overtaken. Deferreds: `FirstWordsCount`, for any number of
  deferreds, of thenables one promise follows and of calls foreign thenables make.
  `WorldOk` says what every callback, reaction and timer may be for (`CbOk`,
  `ThenOk`): only pipes and masters are settled by callbacks, and only by one that
  sits on the lists of their parts, each part counted by one callback at most
  (`OnceInList`, `OnceOnStack`). `MasterOk` is why `remaining` is enough: it is at
  least the number of parts that are not resolved or whose call still runs (`Owes`).
  `Words` is why depths are: a promise that is pending was told one thing to follow
  per depth it is asked at, so a word of the present depth is the first there
  (`WordOfIs`). `AskingOk` says of a foreign thenable whose `then` is running that its
  depth has been counted already, so that an exception after a call is told apart from
  one before. Each operator on the world has a lemma of its own (`SettledOk`,
  `AddDoneOk`, `AddFailOk`, `FollowOk`, `AddThenOk`).

* **EffectsProofs**, the fx queue: `QueueDry`, for any number of animations. `Shape`,
  `CallsOk` and `PendingOk` say what a call on the stack may be at its place and that
  an animation waits at most once; it completes at most once (`OnceEach`), and what
  runs has its timer and a frame that will come (`TimersRun`). `NoneLeftBehind` is why
  the queue goes on: while it holds something, an animation from it runs or a call is
  under way that takes the next. There is one of these at most, and the sentinel says
  so, until a callback of `stop` has animated again (`OneAtATime`). `LoopsSee`: the
  loops of `stop` and `finish` walk the timers backwards and still have before them
  what runs, although they take out entries. `AimsAtWish`: what runs, followed by what
  waits, ends where the page last wanted the element, if no callback of `finish` asked
  for another animation, which runs before those that waited. Dialogs:
  `DialogsLeaveTheBody`, for any number of dialogs. While none was shown again before
  it was hidden (`hasty`), a dialog waits for one thing at a time, or for being
  displayed and then for being hidden (`OneEach`, with `Clocks` for their order), and
  every handler fits the state its dialog is in (`HandlersOk`). `Settled` says what a
  dialog that waits for nothing looks like, `BackdropsOk` that each backdrop in the
  page is the one of a dialog that is shown or of one whose going is still due. A
  dialog is engaged while it is shown or not gone yet: `BodyOk` ties the class of the
  body and who wants the focus to the engaged ones, and `StackOk` says that these are
  on a stack, each once, the lowest of which found the body without padding.

Model-checked only, and why:

* Liveness (`EveryKeyGoes`, `EveryMessageSettles`, `SentIsHandled`,
  `AllHandlersCalled`), which the prover's backends do not reach.
* `ModelIsATree` as a whole, `ThreeState` and `QuietMeansDone` of jstree, and
  `WidgetsComeToRest` and `LayersEndOnce` of the other widgets. What an answer brings
  is parsed along a recursive chain, ticks climb a recursion to the root, the property
  itself walks from the root, and a step computes on a whole tree or a list by folds,
  which the prover cannot unfold for data of any size. `EditsKeepAgreement` is the
  part of `ModelIsATree` that does not need any of it: the edits, without the loads
  between them.

## 6. Where code and comments disagree

* `rpc_hangs`: `RequestPublish` is commented as waiting until
  `OnReplyConsumerReceived` has run, but nothing looks whether it already has. A
  reply that is fast enough pulses nobody, and the request waits for ever; the
  `timeout` argument is not used.
* `rpc_reply`: the reply handed over is documented as the receipt of the message
  sent; it is the last reply any request received.
* `object_pool_use`: `GetObject` is commented as putting the object back into the queue
  after it has been used (`ObjectPool.cs:60`); its `finally` does so before the caller
  gets it, and the next caller gets the same one.
* `plain_ack`: plain messages are consumed with "manual acknowledgement" and
  never acknowledged. All of them come back when the process ends; the handlers
  then run again.

Seen while modelling, without a run of their own. The properties hold because they
name these cases as exceptions, and the comment of each property says so.

Server side:

* A handler that still runs when its lock's time-to-live is over, counted from the SET,
  overlaps with the next one. `OverlapOnlyWhenOverrun` states exactly when. The validity
  `Lock` returns is there to keep a handler from starting late, and nobody looks at it.
* An exception after the publish of an rpc (`BasicAck`, `PublishQueueExecutor.cs:65`, or
  `succHandle`, `QueueSerivce.cs:57`) publishes a message again that was handled.
* "4次机会" (four chances, `PublishQueueExecutor.cs:119`, `QueueSerivce.cs:63`) are
  five resends: the count is compared with `<= 4` before it is increased.
* A request that arrives between `Listening` and `AddSubscription`
  (`QueueOperation.cs:106-112`), or whose lock is refused in every round, is
  answered and acknowledged although no handler ran (`skipped` in `RpcRequest`).
  A plain message that arrives there waits for the next process
  (`PlainMessage!Deliver`).
* `ObjectPool.GetObject` throws inside its spin lock when the queue is empty, and
  its `finally` then waits for that same lock; every later call waits as well.
  `LostByEmptyQueueOnly` says that this is the only way.
* A connection `Return` refuses is not closed.
* `ConsistentHash` answers the second server for the hash of the smallest key,
  though its search is commented as clockwise (`ConsistentHash.cs:116`);
  `FindsClockwise` has the exception. A point of two servers goes with the first
  that is removed, whoever owns it (`RingIsRebuilt`). A server's points come from the
  hash code of its string (`CacheEndpoint.cs:43`, which `ConsistentHashNode` inherits).
  .NET Core seeds the hash codes of strings anew in every process, so two processes
  may look for the same key on different redis servers.
* `AddNode` formats a server's hash code for the invariant culture and
  `RemoveNode` for the current one (`ConsistentHash.cs:96`, `:109`); the model
  takes a culture that writes negative numbers the same way.
* `RedisContext.cs:92` reads `dicHash` before line 96 creates it, and gives every
  server a ring of its own, of which the first is kept.
* The list of roles: a reply to an expired list starts one with a single role and
  no time to live, which is never filled again (`RedisCacheRepository.cs:591`). What
  a reply added stays after the role is deleted and is doubled by the next fill.
  A fill across a deletion brings the role back.
* `Cached.Get` with a handler deserialises a missing value, which throws: the
  caches of one role and of its menus are never filled, and no role can be edited.
* A login that overlaps with another one across a change of roles can leave the older
  roles in the user's entry; the newer token is then refused for its whole life. A
  login whose second write throws is refused but leaves its first entry.
  A logout answers Success even when it found no entry.
* The refresh of the token server's address asks the getter, which answers from
  the cache (`KeepCallServer.cs:48`); watchers act on a lost connection only, and
  each loss registers once more for every old client.

Pages:

* After a save the table is reloaded only through the selection the tree
  restores: with nothing selected it stays as it was. Deleting a parent leaves its
  children without one, and the tree never becomes ready again. The reload after two
  seconds does not show a command that is applied later (`missed`).
* Two requests for the table in flight leave the rows of both in it (`crowded`).
* The answer of an edit fills the form even if it was opened for a new record since.
* After a role's menus could not be saved, the second try is always refused, as one
  more character is cut off; so are the next ones, until an id is gone with its "_":
  the try after that saves all menus but the last. An empty selection cannot be saved.
  While no tree is in sight, before it is loaded or because that failed, the string of
  the previous role is saved with the id of the new one.
* Opening a role that has a parent menu ticks all menus below it, against the comment
  in `Role/Index.js:46`.
* The batch dialog can save the roles ticked in its previous dialog before its
  tree is ready, and cuts its string as that of the menus.
* The pages hand the pager `data.rowsCount`, which no answer has. Requests for its
  pages that overlap leave the rows of both in the table; one that fails leaves it
  empty, and the item of that page asks for nothing when it is the current one.

jQuery:

* `lock()` on a list with a memory is undone by a later `add` (`callbacks.js:72`);
  a callback that throws leaves `firing` set for ever.
* A deferred resolved with its own promise makes `then` follow it for ever
  (`MaxFollows` bounds it).
* A callback that throws leaves the count of active requests one too high, so
  `ajaxStop` is never fired again.
* A handler of `one()` runs twice when a nested event overtakes an outer dispatch
  that copied it.
* An animation started in a callback of `stop(true, true)` can overlap with another;
  one that is started in a callback of `finish()` runs before those that waited.

jstree:

* A node made or moved while the worker parses is lost, and deleted ones come
  back (`jstree.js:1801`); if it was selected too, the worker's answer throws and the
  tree never loads again (1817). A row with an unknown parent throws in the worker,
  where nobody listens (1735).
* A second request for a node that loads pushes the first answer's nodes out of its
  children but leaves them in the model (1501); moving one of these makes a
  cycle.
* `_load_nodes` does not wait for nodes that somebody else loads (1268); `load_all`
  with a node that fails recurses without end (1305); a refresh during a refresh loses
  the selection (3445); the answer for a deleted node throws (1218).
* Copies of nodes that were not loaded are no longer lazy (4173), and a node
  created selected breaks the three states (3739).

Bootstrap, layer and paginator:

* A dialog shown again during its fade-out leaves a backdrop; one hidden while it
  comes leaves the trap of the focus; closing in the order of opening leaves padding.
* A tip under the mouse disappears when its coming and its going both wait for the
  same end. Entering one that `destroy` fades throws.
* `collapse.js:63` drops the data of a panel that moves, and with it the flag that
  guards it: two panels open.
* Two clicks in one fade leave two panes active. `to()` the slide that is shown
  restarts the clock under the mouse.
* The loop of `clearMenus` overwrites its event, so the exception for inputs
  holds for the first menu only.
* An affixed element flaps where it exactly meets an offset. A scrollspy is one
  scroll late after the height has changed, and never sees a change that keeps it.
* An `end` that opens a dialog while another is being created leaves two; a
  `success` that closes its own layer leaves an end that is never told
  (`layer.js:514-580`); closing any layer gives the scrollbar or the enter key back
  while others are open.
* The paginator throws for a page out of range after it has taken the new total,
  and shows the pages of the list before.

## 7. What remains

In this order, if the development goes on:

1. Theorems: `OneIsOpen` and the other small invariants of the widgets, with the
   handlers of an end run one by one as `Dialogs` does.
2. The table's pages of ten rows in `ListPage`, which the pager belongs to: the two
   are modelled apart.
3. `MenuDialog` over `JsTree`: it has a tree of its own that is loaded at once.
4. `verifyToken.js` over `TokenStore`: what a page sees when a token is
   logged out while its requests are under way.

## 8. Not modelled

* Repositories: replace-all transactions whose outcome the isolation of MySQL
  decides; the exception of the loser is swallowed after the rollback. Handlers'
  data: what the two handlers of a deleted user do to database and index.
* Service discovery: thin layers over the ZooKeeper client, whose sessions and
  retries decide what can happen, without a promise that could be stated.
* `RunLock0`, `GetNodeForKey2`, `RoundHash` (`SortedDictionary.cs`) and other code
  nothing calls; the emitted IL trampolines.
* The copy of each rpc that is sent to the log queue; message expiry after ten
  days; the monitor left taken by a reply that cannot be decoded; a resend
  that is overtaken by a later message.
* Serialisation, SQL generation (`Linq2Dapper`), AutoMapper, Swagger, views and
  controllers: data transformation without state.
* Of the scripts: the theme (`app.js`), jQuery's selector engine, css and dom
  functions, jstree's drag and drop, context menu, search, sort and clipboard, form
  validation, layer's prompt, tab and photos, and what each module's header
  says it leaves out.
* The Kafka clients (unfinished, registered by no host); the resilient http
  client (its policies are Polly's); the CRM context (the same building blocks;
  its order types have no operations yet); health check, logging, file helpers.
* The redis, RabbitMQ and ZooKeeper servers and the browser beyond what the code
  sees of them: expiry and SET NX, durable queues with redelivery, channels that
  close, timers, frames and the ends of transitions.

## 9. Running it

```
tlc -workers 2 -config Redlock.cfg Redlock
tlapm RedlockProofs.tla
```

`MCX.tla` goes with `MCX.cfg`; `redlock_safety` uses `Redlock` itself, and the four
runs that end in a violation `RpcRequest`, `PlainMessage` and `ObjectPool`, each with a
configuration of its own. `PROJECT.json` lists the runs, which code
lines each definition stands for, the mutations, the hazards and the theorems.
