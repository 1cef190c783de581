---------------------------- MODULE MCShmSegment ----------------------------
(* TLC instance of ShmSegment: two slots, and a segment beside the one     *)
(* that may be left behind.                                                *)
EXTENDS ShmSegment
=============================================================================
