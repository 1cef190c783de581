------------------------------- MODULE MCSdk -------------------------------
(* TLC instance of Sdk: a query nothing matches, and one that two          *)
(* capabilities match, of which the first is taken.                        *)
EXTENDS Sdk

MCCapabilities == <<"reason", "plan">>
MCMatches == [reasoning |-> {"reason", "plan"}, draw |-> {}]
=============================================================================
