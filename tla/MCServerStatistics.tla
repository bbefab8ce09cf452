-------------------------- MODULE MCServerStatistics --------------------------
(* ServerStatistics with two requests a run and two runs. *)
EXTENDS ServerStatistics

FourRequests == 1..4
===============================================================================
