---------------------------------- MODULE MCLogger ----------------------------------
(* EngineLogger with two channels, one of which has no ids. *)
EXTENDS EngineLogger

MCChannel == <<"c1", "c2">>
MCWithIds == {"c2"}
================================================================================
