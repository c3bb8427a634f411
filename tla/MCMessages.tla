----------------------------- MODULE MCMessages -----------------------------
(* The two ways a message takes: two rpc requests, either with exceptions  *)
(* on both sides or with a consumer that is restarted; and two plain       *)
(* messages with two handlers.  system, chosen at the start, is what runs; *)
(* the rest stays where it is.                                             *)
EXTENDS RpcRequest, PlainMessage

VARIABLE system

Restarted == INSTANCE RpcRequest WITH Flaky <- {}, MaxCrashes <- 1

MCInit == Init /\ PInit /\ system \in {"rpc", "rpc restarted", "plain"}

MCNext ==
  /\ UNCHANGED system
  /\ \/ system = "rpc"   /\ Next  /\ UNCHANGED pVars
     \/ system = "rpc restarted" /\ Restarted!Next /\ UNCHANGED pVars
     \/ system = "plain" /\ PNext /\ UNCHANGED vars

(* FairSpec of RpcRequest and of PlainMessage, for the one that runs.      *)
MCSpec ==
  /\ MCInit /\ [][MCNext]_<<system, vars, pVars>>
  /\ \A r \in Requests :
       /\ WF_vars(system = "rpc" /\ ClientStep(r))
       /\ WF_vars(system = "rpc restarted" /\ Restarted!ClientStep(r))
  /\ WF_vars(system # "plain" /\ \E ch \in Channels : OnReply(ch))
  /\ WF_vars(system # "plain" /\ ConsumerStep)
  /\ \A m \in Messages :
       WF_pVars(system = "plain" /\ (PublishMessage(m) \/ PublishThrows(m)))
  /\ WF_pVars(system = "plain" /\ Subscribe)
  /\ WF_pVars(system = "plain" /\ Deliver)
  /\ WF_pVars(system = "plain" /\ \E i \in DOMAIN deliveries : TaskStep(i))
=============================================================================
