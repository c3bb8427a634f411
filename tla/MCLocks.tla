------------------------------ MODULE MCLocks ------------------------------
(* Three instances side by side: RunLock with failing redis commands and   *)
(* an untagged message, RunLock with three rivals and a redis that         *)
(* answers, and Redlock on one master.  system, chosen at the start, is    *)
(* the one that runs; the others stay where they are.                      *)
EXTENDS MessageLock, TLC

CONSTANTS
  RivalJobs, RivalExptime, RivalLastRound,
  Clients, Guids, NoKey, TTL, Drift, RetryCount

VARIABLES system,
  rKey, rLife, rPc, rRound, rSleep, rHeld,
  kKey, kTtl, kPc, kVal, kAt, kGot, kLeft, kTries

rVars == <<rKey, rLife, rPc, rRound, rSleep, rHeld>>
kVars == <<kKey, kTtl, kPc, kVal, kAt, kGot, kLeft, kTries>>

Rivals == INSTANCE MessageLock
  WITH Jobs <- RivalJobs, Untagged <- {}, Exptime <- RivalExptime,
       LastRound <- RivalLastRound, RedisFails <- FALSE,
       key <- rKey, life <- rLife, pc <- rPc, round <- rRound,
       sleep <- rSleep, held <- rHeld

Keys == INSTANCE Redlock
  WITH N <- 1, key <- kKey, ttl <- kTtl, pc <- kPc, val <- kVal,
       at <- kAt, got <- kGot, left <- kLeft, tries <- kTries

MCInit == Init /\ Rivals!Init /\ Keys!Init /\ system \in {"jobs", "rivals", "keys"}

MCNext ==
  /\ UNCHANGED system
  /\ \/ system = "jobs"   /\ Next        /\ UNCHANGED <<rVars, kVars>>
     \/ system = "rivals" /\ Rivals!Next /\ UNCHANGED <<vars, kVars>>
     \/ system = "keys"   /\ Keys!Next   /\ UNCHANGED <<vars, rVars>>

(* FairSpec of MessageLock and of Redlock, for the system that runs.       *)
MCSpec ==
  /\ MCInit /\ [][MCNext]_<<system, vars, rVars, kVars>>
  /\ WF_vars(system = "jobs" /\ Tick)
  /\ \A j \in Jobs : WF_vars(system = "jobs" /\ pc[j] # "new" /\ Step(j))
  /\ WF_kVars(system = "keys" /\ Keys!Tick)
  /\ \A c \in Clients :
       WF_kVars(system = "keys" /\ kPc[c] \notin {"idle", "held"} /\ Keys!Step(c))

(* While redis answers, two rivals cannot make a message miss its handler, *)
(* even if their handlers throw or overrun.                                *)
NothingDroppedByRivals == Rivals!NothingDropped

(* A key that its owner lost track of is not there for ever (Redlock).     *)
EveryKeyGoes == Keys!EveryKeyGoes
=============================================================================
