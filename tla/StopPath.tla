------------------------------ MODULE StopPath ------------------------------
(***************************************************************************)
(* SparkBus together with the controllers at the other end of the wire: the*)
(* path from a stop in the application to a motor that no longer drives.   *)
(*                                                                         *)
(* A controller drives its motor while it is armed.  It is armed by a      *)
(* heartbeat that carries its enable bit, disarmed at once by the disable  *)
(* broadcast, and disarmed by its own watchdog when a whole window passes  *)
(* without such a heartbeat (240 ms measured, docs/SPARK-MAX-BRINGUP.md).  *)
(* Time is abstract: Window(i) is the end of one watchdog window, at any   *)
(* moment, so a host that stalls for longer than a window is included.     *)
(***************************************************************************)
EXTENDS SparkBus

VARIABLES
  armed,     \* per id: the controller's output stage is enabled
  fed,       \* per id: an enabling heartbeat came in this window
  setpoint   \* per id: the output last commanded is non-zero

device == <<armed, fed, setpoint>>
stopVars == <<vars, device>>

StopInit ==
  /\ Init
  /\ armed = [i \in Ids |-> FALSE]
  /\ fed = [i \in Ids |-> FALSE]
  /\ setpoint = [i \in Ids |-> FALSE]

\* What every controller does with one frame off the bus.
Receives(frame) ==
  /\ armed' = [i \in Ids |->
       CASE frame.kind = "beat" /\ i \in frame.ids -> TRUE
         [] frame.kind = "disable" -> FALSE
         [] OTHER -> armed[i]]
  /\ fed' = [i \in Ids |-> fed[i] \/ (frame.kind = "beat" /\ i \in frame.ids)]
  /\ setpoint' = [i \in Ids |->
       IF frame.kind = "duty" /\ i \in frame.ids THEN frame.on ELSE setpoint[i]]

Deliver == Drain /\ History /\ Receives(Head(out))

Window(i) ==
  /\ armed[i] \/ fed[i]
  /\ armed' = [armed EXCEPT ![i] = @ /\ fed[i]]
  /\ fed' = [fed EXCEPT ![i] = FALSE]
  /\ UNCHANGED <<vars, setpoint>>

StopNext ==
  \/ HostStep /\ UNCHANGED device
  \/ Deliver
  \/ \E i \in Ids : Window(i)

StopSpec == StopInit /\ [][StopNext]_stopVars

\* The watchdog is the controller's own timer; nothing on the host is fair.
WatchdogFairness == \A i \in Ids : WF_stopVars(Window(i))
DeadmanSpec == StopSpec /\ WatchdogFairness

\* Every thread runs as well, and the adapter transmits.  Windows may still
\* end between any two heartbeats, so arming can be had again and again but
\* not without interruption.
RunningSpec ==
  /\ StopSpec /\ WatchdogFairness
  /\ \A t \in Threads : SF_stopVars(Step(t) /\ History /\ UNCHANGED device)
  /\ \A t \in {"main", "sig"} :
       SF_stopVars(ZeroDone(t) /\ History /\ UNCHANGED device)
  /\ WF_stopVars(Deliver)

-----------------------------------------------------------------------------
\* A stop sticks without any help from the host: once the application has
\* stopped asking for i for good, the controller ends up disarmed and stays
\* so, whatever the late heartbeat did, even if every host thread hangs.
StopSticks ==
  \A i \in Ids : (<>[](i \notin Asked)) => <>[](~armed[i])

\* The other side: while the application keeps asking, the controller is
\* armed again and again, although registering another id empties the array
\* under the heartbeat thread's hands.  An application that registered ids
\* without end could keep it half empty for ever, hence the second premise.
AskedIsArmed ==
  \A i \in Ids :
    (<>[](i \in Asked /\ pc["main"] # "fill")) => []<>(armed[i])

\* A handler that waits for the lock its own thread holds hangs the process,
\* with the heartbeat still asked for.  The motors stop all the same, because
\* the heartbeat thread cannot pass the lock either.
Hung == pc["sig"] = "send" /\ lock = "main"
HangDisarms == <>Hung => <>[](\A i \in Ids : ~armed[i])

\* shutdown with its zero_outputs: unless a frame was dropped or somebody went on
\* commanding, no controller is left holding a non-zero setpoint that a later
\* heartbeat, from any other process, would make it drive.
QuietAfterShutdown ==
  ~sock /\ out = <<>> /\ txErrors = 0 =>
    \A i \in controllers : ~setpoint[i]
=============================================================================
