----------------------------- MODULE MCStopPath -----------------------------
(* Instances of StopPath for TLC.                                          *)
EXTENDS StopPath

DeadmanCalls == {"init", "output", "broadcast", "shutdown"}
RunningCalls == {"init", "shutdown_now"}
=============================================================================
