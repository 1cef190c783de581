----------------------------- MODULE MCRuntime -----------------------------
(* TLC instances of Runtime, two sessions over channels of two frames, and *)
(* of InProcChannel, one direction of such a channel step by step: two     *)
(* frames, a queue of two.  They share no variable, so each is checked on  *)
(* its own: a behaviour moves the one that `part` names, and the other     *)
(* stays in its initial state.                                             *)
EXTENDS Runtime, InProcChannel

VARIABLE part

MCInit == /\ Init /\ ChannelInit /\ part \in {"runtime", "channel"}
          /\ part = "runtime" => smsg = CHOOSE m \in Msg : TRUE

MCNext == /\ \/ part = "runtime" /\ Next /\ UNCHANGED channelVars
             \/ part = "channel" /\ ChannelNext /\ UNCHANGED vars
          /\ UNCHANGED part

(* The fairness of ChannelFairSpec: whoever holds the lock goes on. *)
MCSpec == /\ MCInit /\ [][MCNext]_<<vars, channelVars, part>>
          /\ WF_channelVars(SendSteps /\ UNCHANGED <<vars, part>>)
          /\ WF_channelVars(RecvSteps /\ UNCHANGED <<vars, part>>)
=============================================================================
