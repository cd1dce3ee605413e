---------------------------- MODULE MCWebClient ----------------------------
(***************************************************************************)
(* Small instances of WebClient.                                           *)
(***************************************************************************)
EXTENDS WebClient, TLC

MCPicked == <<{"BOSS", "CLASSIC", "SPRINT"}, {"SURVIVAL", "SPRINT", "DAILY_20"}>>

Interchangeable == Permutations(Req) \cup Permutations(Latencies)
=============================================================================
