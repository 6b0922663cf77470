----------------------------- MODULE StopSwitch -----------------------------
(***************************************************************************)
(* What SparkBus promises an application about its enable heartbeat, free  *)
(* of threads and locks.  The application asks for a set of ids to be kept *)
(* enabled.  Whenever it changes what it asks for, at most one heartbeat   *)
(* that still enables something else may follow, and once the bus is shut  *)
(* down nothing is asked for and nothing follows at all.                   *)
(***************************************************************************)
EXTENDS Naturals

CONSTANT Ids

VARIABLES
  asked,  \* the ids the application wants enabled
  late,   \* heartbeats since then that enabled another one
  open    \* the bus can still carry a frame

vars == <<asked, late, open>>

Init == asked = {} /\ late = 0 /\ open = TRUE

Ask(S)   == asked' = S /\ late' = 0 /\ UNCHANGED open
LateBeat == open /\ late = 0 /\ late' = 1 /\ UNCHANGED <<asked, open>>
Close    == asked = {} /\ open' = FALSE /\ UNCHANGED <<asked, late>>

Next == (\E S \in SUBSET Ids : Ask(S)) \/ LateBeat \/ Close

Spec == Init /\ [][Next]_vars
=============================================================================
