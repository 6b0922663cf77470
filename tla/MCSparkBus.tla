----------------------------- MODULE MCSparkBus -----------------------------
(* Instances of SparkBus for TLC.  Ids 1 and 9 lie in different bytes of   *)
(* the heartbeat, so that a half-written array is a visible state.         *)
EXTENDS SparkBus

BusCalls == {"init", "set_ids", "output", "bare_disable", "disable_heartbeat",
             "enable", "shutdown_now"}
BroadcastCalls == {"init", "broadcast", "shutdown"}
ToolCalls == {"init", "output", "shutdown"}
=============================================================================
