------------------------------ MODULE MCjQuery ------------------------------
(* jQuery, which the pages are built on: lists of callbacks, deferreds,    *)
(* requests, events, and effects.  part, chosen at the start, is the one   *)
(* that runs.                                                              *)
EXTENDS Callbacks, Ajax, Events, Deferreds, Effects, TLC

VARIABLE part

MCInit ==
  /\ part \in {"callbacks", "deferreds", "ajax", "events", "effects"}
  /\ CInit /\ PInit /\ AInit /\ EInit /\ FInit
  /\ part # "callbacks" => options = [once |-> TRUE, memory |-> TRUE,
                                      unique |-> FALSE, stopOnFalse |-> FALSE]
  /\ part # "effects" => shown

MCNext ==
  /\ UNCHANGED part
  /\ \/ /\ part = "callbacks" /\ CNext
        /\ UNCHANGED <<pVars, aVars, eVars, fVars>>
     \/ /\ part = "deferreds" /\ PNext
        /\ UNCHANGED <<cVars, aVars, eVars, fVars>>
     \/ /\ part = "ajax" /\ ANext
        /\ UNCHANGED <<cVars, pVars, eVars, fVars>>
     \/ /\ part = "events" /\ ENext
        /\ UNCHANGED <<cVars, pVars, aVars, fVars>>
     \/ /\ part = "effects" /\ FNext
        /\ UNCHANGED <<cVars, pVars, aVars, eVars>>

MCSpec == MCInit /\ [][MCNext]_<<part, cVars, pVars, aVars, eVars, fVars>>

Symmetry == Permutations(Functions) \cup Permutations(Requests)
=============================================================================
