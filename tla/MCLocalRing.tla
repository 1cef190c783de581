---------------------------- MODULE MCLocalRing ----------------------------
(* TLC instance of LocalRing: a frame too short to have an opcode byte, a  *)
(* frame that fills the slot and one that is a byte too long.              *)
EXTENDS LocalRing

MCFrame == {[len |-> 1, op |-> 7, body |-> "short"], [len |-> 3, op |-> 2, body |-> "full"],
            [len |-> 4, op |-> 3, body |-> "long"]}
=============================================================================
