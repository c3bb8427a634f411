---------------------------- MODULE MessageLock ----------------------------
(***************************************************************************)
(* Jy.DistributedLockHandler/ProcessMessageLockHandler.cs, RunLock: the    *)
(* handler of a queue message runs under the distributed lock its          *)
(* ProcessMsg is tagged with, so that messages of one kind exclude each    *)
(* other across consumers.  Each round asks for the lock, sleeps when it   *)
(* was refused, longer every round, and asks once more; the message is     *)
(* given up, with no error, when the rounds are used up.                   *)
(*                                                                         *)
(* The lock is Redlock on one master, as the consumers configure it: one   *)
(* key that names the message holding it and expires.  Time may go by      *)
(* between the SET and the return of Lock, which looks at it once, and     *)
(* again before the handler starts, when nobody looks.  The attempts of    *)
(* one call of Lock are one here: what an attempt leaves that was undone   *)
(* is what one leaves that never set the key.  One tick is the two seconds *)
(* RunLock counts its sleeps in.                                           *)
(***************************************************************************)
EXTENDS Integers, FiniteSets

CONSTANTS
  Jobs,        \* the messages, each on a thread of some consumer
  Untagged,    \* those whose ProcessMsg carries no DistributedLock attribute
  Nobody,      \* the key is not set
  Orphan,      \* the key was set by a call of Lock that reported failure
  Exptime,     \* exptime of the attribute, in ticks
  LastRound,   \* the 4 of while (i <= 4)
  RedisFails   \* whether redis commands may throw, or take a tick and more

ASSUME JobsAssumption    == Untagged \subseteq Jobs
ASSUME KeyAssumption     == Nobody \notin Jobs /\ Orphan \notin Jobs /\ Nobody # Orphan
ASSUME ExptimeAssumption == Exptime \in Nat \ {0} /\ LastRound \in Nat
ASSUME FailsAssumption   == RedisFails \in BOOLEAN

VARIABLES
  key,      \* who holds the lock's key
  life,     \* the time the key still has
  pc,       \* where each message is in RunLock
  round,    \* round[j]: i
  sleep,    \* sleep[j]: what is left of the sleep before the second request
  held      \* held[j]: how long ago j's SET was carried out, up to Exptime

vars == <<key, life, pc, round, sleep, held>>

(* a slip: the sleeps do not grow *)
SleepConstant(i) == 1

(* Thread.Sleep(2000 * i), in ticks.                                       *)
SleepOf(i) == i

\* firstSet, secondSet: the key is set and Lock has not returned; locked: it
\* has, and the handler has not started.
Locations == {"new", "first", "second", "firstSet", "secondSet", "locked",
              "running", "done", "failed", "dropped"}

TypeOK ==
  /\ key    \in Jobs \cup {Nobody, Orphan}
  /\ life   \in 0..Exptime
  /\ pc     \in [Jobs -> Locations]
  /\ round  \in [Jobs -> 0..(LastRound + 1)]
  /\ sleep  \in [Jobs -> 0..(LastRound + 1)]
  /\ held   \in [Jobs -> 0..Exptime]

Init ==
  /\ key    = Nobody
  /\ life   = 0
  /\ pc     = [j \in Jobs |-> "new"]
  /\ round  = [j \in Jobs |-> 0]
  /\ sleep  = [j \in Jobs |-> 0]
  /\ held   = [j \in Jobs |-> 0]

Waiting(j) == pc[j] \in {"first", "second"}
Running(j) == pc[j] = "running"
Setting(j) == pc[j] \in {"firstSet", "secondSet"}
Counting(j) == Setting(j) \/ pc[j] \in {"locked", "running"}

(* Time goes by for the key, the sleepers and the handlers alike; a redis  *)
(* that does not fail has answered a SET before two seconds are over.      *)
Tick ==
  /\ RedisFails \/ \A j \in Jobs : ~Setting(j)
  /\ key'    = IF life = 1 THEN Nobody ELSE key
  /\ life'   = IF life = 0 THEN 0 ELSE life - 1
  /\ sleep'  = [j \in Jobs |-> IF sleep[j] = 0 THEN 0 ELSE sleep[j] - 1]
  /\ held'   = [j \in Jobs |-> IF Counting(j) /\ held[j] < Exptime
                               THEN held[j] + 1 ELSE held[j]]
  /\ UNCHANGED <<pc, round>>

(* The message is delivered to a consumer, which calls RunLock.            *)
Receive(j) ==
  /\ pc[j] = "new"
  /\ pc' = [pc EXCEPT ![j] = "first"]
  /\ UNCHANGED <<key, life, round, sleep, held>>

(* RunLock is over for j, and its locals with it.                          *)
Leave(j, how) ==
  /\ pc'    = [pc EXCEPT ![j] = how]
  /\ round' = [round EXCEPT ![j] = 0]
  /\ held'  = [held EXCEPT ![j] = 0]
  /\ UNCHANGED sleep

(* A request of j may be made: at the head of the loop, or after the sleep.*)
Asking(j) == Waiting(j) /\ sleep[j] = 0

(* LockMethod without an attribute: true, and no lock to give back.        *)
RunUntagged(j) ==
  /\ Asking(j) /\ j \in Untagged
  /\ pc' = [pc EXCEPT ![j] = "running"]
  /\ UNCHANGED <<key, life, round, sleep, held>>

(* Where j goes with its key set.                                          *)
Set(j) == pc' = [pc EXCEPT ![j] = IF @ = "first" THEN "firstSet" ELSE "secondSet"]

(* a slip: the key expires too early *)
SetKeyShort(j) ==
  /\ Asking(j) /\ j \notin Untagged
  /\ key = Nobody
  /\ key' = j /\ life' = Exptime - 1
  /\ Set(j)
  /\ UNCHANGED <<round, sleep, held>>

(* LockInstance: redis carries out the SET NX of Lock.                     *)
SetKey(j) ==
  /\ Asking(j) /\ j \notin Untagged
  /\ key = Nobody
  /\ key' = j /\ life' = Exptime
  /\ Set(j)
  /\ UNCHANGED <<round, sleep, held>>

(* Lock returns true: by its clock, which started before the SET, some of  *)
(* the time-to-live is left.                                               *)
LockTaken(j) ==
  /\ Setting(j) /\ held[j] < Exptime
  /\ pc' = [pc EXCEPT ![j] = "locked"]
  /\ UNCHANGED <<key, life, round, sleep, held>>

(* The handler is invoked, however long that takes after Lock.             *)
RunHandler(j) ==
  /\ pc[j] = "locked"
  /\ pc' = [pc EXCEPT ![j] = "running"]
  /\ UNCHANGED <<key, life, round, sleep, held>>

(* Lock returns false, because the key is set, because a command threw, in *)
(* which case the SET may stay behind, or because the answer came too late *)
(* and was undone, if that did not throw as well.                          *)
LockRefused(j) ==
  \/ /\ Asking(j) /\ j \notin Untagged /\ UNCHANGED held
     /\ \/ key # Nobody /\ UNCHANGED <<key, life>>
        \/ RedisFails /\ key = Nobody /\ UNCHANGED <<key, life>>
        \/ RedisFails /\ key = Nobody /\ key' = Orphan /\ life' = Exptime
  \/ /\ RedisFails /\ Setting(j) /\ held' = [held EXCEPT ![j] = 0]
     /\ \/ key = j  /\ key' = Nobody /\ life' = 0
        \/ key = j  /\ key' = Orphan /\ UNCHANGED life
        \/ key # j  /\ UNCHANGED <<key, life>>

First(j)  == pc[j] \in {"first", "firstSet"}
Second(j) == pc[j] \in {"second", "secondSet"}

(* a slip: the rounds are not counted *)
SleepFirstUncounted(j) ==
  /\ First(j) /\ LockRefused(j)
  /\ sleep' = [sleep EXCEPT ![j] = SleepOf(round[j] + 1)]
  /\ pc' = [pc EXCEPT ![j] = "second"]
  /\ UNCHANGED round

(* The first request of a round was refused: i++, sleep.                   *)
SleepFirst(j) ==
  /\ First(j) /\ LockRefused(j)
  /\ round' = [round EXCEPT ![j] = @ + 1]
  /\ sleep' = [sleep EXCEPT ![j] = SleepOf(round[j] + 1)]
  /\ pc' = [pc EXCEPT ![j] = "second"]

GoesOn(i) == i <= LastRound

(* The second one as well: once more round the loop, or give up.           *)
SecondRefused(j) ==
  /\ Second(j) /\ LockRefused(j)
  /\ \/ /\ GoesOn(round[j])
        /\ pc' = [pc EXCEPT ![j] = "first"]
        /\ UNCHANGED <<round, sleep>>
     \/ ~ GoesOn(round[j]) /\ Leave(j, "dropped")

(* a slip: the key is deleted whoever holds it *)
UnlockAny(j) ==
  /\ key'  = Nobody
  /\ life' = 0

(* UnLockMethod, which deletes the key only if it is still this lock's.    *)
UnlockOwn(j) ==
  IF key = j
  THEN key' = Nobody /\ life' = 0
  ELSE UNCHANGED <<key, life>>

(* The handler returns and the lock is given back; the delete may throw.   *)
Finish(j) ==
  /\ Running(j)
  /\ \/ UnlockOwn(j) /\ Leave(j, "done")
     \/ /\ RedisFails /\ j \notin Untagged
        /\ UnlockOwn(j) \/ UNCHANGED <<key, life>>
        /\ Leave(j, "failed")

(* The handler throws: nothing gives the lock back.                        *)
HandlerThrows(j) ==
  /\ Running(j)
  /\ Leave(j, "failed")
  /\ UNCHANGED <<key, life>>

Step(j) ==
  \/ Receive(j) \/ RunUntagged(j) \/ SetKey(j) \/ LockTaken(j) \/ RunHandler(j)
  \/ SleepFirst(j) \/ SecondRefused(j) \/ Finish(j) \/ HandlerThrows(j)

Next == Tick \/ \E j \in Jobs : Step(j)

Spec == Init /\ [][Next]_vars

(* Clocks run, a thread inside RunLock is scheduled again and again, and a *)
(* handler (a handful of database statements with timeouts of their own)   *)
(* returns or throws.                                                      *)
FairSpec ==
  /\ Spec
  /\ WF_vars(Tick)
  /\ \A j \in Jobs : WF_vars(pc[j] # "new" /\ Step(j))

-----------------------------------------------------------------------------
(***************************************************************************)
(* Properties.                                                             *)
(***************************************************************************)

(* Two handlers of one lock run together only when one of them still runs  *)
(* a whole time-to-live after the SET of its key.  That is all: Lock       *)
(* reports a validity time and RunLock ignores it, so a handler may start  *)
(* with nothing left, and nothing stops one that is overrun.               *)
OverlapOnlyWhenOverrun ==
  \A j, k \in Jobs \ Untagged :
    j # k /\ Running(j) /\ Running(k) => held[j] = Exptime \/ held[k] = Exptime

(* Until the time-to-live has passed since its SET, a handler owns the     *)
(* key: neither a slow predecessor that gives its lock back, nor a failed  *)
(* or late call of Lock that is undone, takes it away.                     *)
ShortHandlerOwnsKey ==
  \A j \in Jobs \ Untagged : Running(j) /\ held[j] < Exptime => key = j

(* While redis answers, two rivals cannot make a message miss its handler, *)
(* even if their handlers throw, start late or overrun: the requests are   *)
(* spread over more time than two time-to-lives cover.                     *)
NothingDropped == \A j \in Jobs : pc[j] # "dropped"

(* A received message is run, given up or failed; it does not hang in      *)
(* RunLock behind a lock that nobody gives back.                           *)
EveryMessageSettles ==
  \A j \in Jobs :
    pc[j] = "first" ~> pc[j] \in {"done", "failed", "dropped"}

=============================================================================
