----------------------------- MODULE MCShmRing -----------------------------
(* TLC instance of ShmRing: two messages that fit, of different lengths    *)
(* and bytes, and one that is a byte too long.                             *)
EXTENDS ShmRing

MCMsg == {[len |-> 1, body |-> "a"], [len |-> 2, body |-> "b"], [len |-> 3, body |-> "c"]}
=============================================================================
