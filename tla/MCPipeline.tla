------------------------------ MODULE MCPipeline ----------------------------
(* Pipeline for TLC: days of three hours of four minutes, sends at 0:01 and *)
(* 1:01, cleanup at 0:02, two retries.                                      *)
EXTENDS Pipeline

MCHours == <<0, 1>>
MCRetryAt == <<1, 3>>
=============================================================================
