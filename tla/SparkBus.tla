------------------------------ MODULE SparkBus ------------------------------
(***************************************************************************)
(* The host side of one SPARK CAN bus: sparklib/can_bus.py, class SparkBus.*)
(*                                                                         *)
(* Four kinds of control flow share one object:                            *)
(*   "main"   the application thread, which registers controllers,        *)
(*            commands outputs, stops and shuts the bus down;              *)
(*   "sig"    a SIGINT handler, which Python runs ON the main thread       *)
(*            between two of its bytecodes, so main is frozen under it;    *)
(*   "hb"     the heartbeat thread (_heartbeat_runnable);                  *)
(*   "mon"    the receive thread (bus_monitor);                            *)
(*   Workers  further application threads that only command outputs.       *)
(* They meet in _bus_lock (not reentrant), in _closed, in                  *)
(* heartbeat_enabled and in enable_id_array; only the first is a lock.     *)
(***************************************************************************)
EXTENDS Naturals, Sequences, FiniteSets

CONSTANTS
  Ids,         \* CAN device ids in use, a subset of 0..63
  Workers,     \* application threads besides main
  Repeats,     \* broadcast_disable's repeats, after its max(1, repeats)
  BootCounts,  \* how many frames apply_boot_config may send: 0, 1, 7 or 8
  TxCap,       \* capacity of the kernel's transmit queue
  MaxErrors,   \* bound on the sends that raise CanError
  Interrupts,  \* TRUE: SIGINT may be raised once, with the tools' handler
  Calls        \* the API calls the application makes

ASSUME IdsAssumption == Ids \subseteq 0 .. 63
ASSUME WorkersAssumption == Workers \cap {"main", "sig", "hb", "mon", "free"} = {}
ASSUME RepeatsAssumption == Repeats \in Nat \ {0}
ASSUME BootAssumption == BootCounts \subseteq Nat
ASSUME BoundsAssumption == TxCap \in Nat /\ MaxErrors \in Nat

Callers == {"main", "sig"} \cup Workers
Senders == Callers \cup {"hb"}
Threads == Senders \cup {"mon"}

(* Frames, by what the receiver does with them.  "ids" is who is addressed *)
(* (for a heartbeat, whose enable bit is set); "on" is a non-zero output.  *)
Frame == [kind : {"beat", "duty", "disable", "config"},
          ids : SUBSET Ids, on : BOOLEAN]
Beat(S)     == [kind |-> "beat",    ids |-> S,   on |-> TRUE]
Duty(i, on) == [kind |-> "duty",    ids |-> {i}, on |-> on]
Disable     == [kind |-> "disable", ids |-> Ids, on |-> FALSE]
Config(i)   == [kind |-> "config",  ids |-> {i}, on |-> FALSE]

VARIABLES
  lock,         \* _bus_lock: the thread inside it, or "free"
  closed,       \* _closed
  sock,         \* the python-can Bus is still open
  enabled,      \* heartbeat_enabled
  started,      \* _heartbeat_started
  controllers,  \* the keys of controllers
  canIds,       \* can_ids, as the set of ids it lists
  marked,       \* enable_id_array, as the set of ids whose bit is set
  byte,         \* the byte _update_heartbeat_array writes next
  txErrors,     \* tx_error_count
  out,          \* frames the kernel has accepted and not yet transmitted
  pc,           \* per thread: where it is
  op,           \* per sender: the call it is in, as far as its steps differ
  todo,         \* per sender: the frames this call has still to send
  left,         \* broadcast_disable: sends left
  late,         \* history, see History
  disableOut,   \* history, see History
  beatOut       \* history, see History

flags == <<closed, sock, enabled>>
ids   == <<controllers, canIds, marked, byte>>
local == <<op, todo, left>>
hist  == <<late, disableOut, beatOut>>
vars  == <<lock, closed, sock, enabled, started, controllers, canIds, marked,
           byte, txErrors, out, pc, op, todo, left, late, disableOut, beatOut>>

Labels == {"idle", "fill", "send", "check", "tx", "bsend", "btx", "clear",
           "sd", "round", "zeroed", "sd_flag", "sd_close", "sd_lock", "shut",
           "top", "build", "set", "mlock", "mcheck", "done"}

Ops == {"none", "call", "disable_heartbeat", "shutdown", "shutdown_now", "stop"}

Init ==
  /\ lock = "free" /\ closed = FALSE /\ sock = TRUE
  /\ enabled = TRUE /\ started = FALSE
  /\ controllers = {} /\ canIds = {} /\ marked = {} /\ byte = 0
  /\ txErrors = 0 /\ out = <<>>
  /\ pc = [t \in Threads |-> IF t \in Callers THEN "idle" ELSE "top"]
  /\ op = [t \in Senders |-> "none"]
  /\ todo = [t \in Senders |-> <<>>]
  /\ left = 0
  /\ late = 0 /\ disableOut = FALSE /\ beatOut = FALSE

-----------------------------------------------------------------------------
(* Control flow.                                                           *)

At(t, l)   == pc[t] = l /\ (t = "main" => pc["sig"] = "idle")
Goto(t, l) == pc' = [pc EXCEPT ![t] = l]

\* Where a thread continues when its last frame has been handed to send_msg.
After(t) ==
  IF t = "hb" THEN "set"
  ELSE CASE op[t] = "shutdown" -> "zeroed"
         [] op[t] = "stop"     -> "sd"
         [] OTHER              -> "idle"

\* Start sending fs through send_msg, one frame at a time.
SendAll(t, fs) ==
  /\ todo' = [todo EXCEPT ![t] = fs]
  /\ Goto(t, IF fs = <<>> THEN After(t)' ELSE "send")

\* send_msg returns: leave the lock, and take up the next frame or the caller.
Returns(t) ==
  /\ lock' = "free"
  /\ todo' = [todo EXCEPT ![t] = Tail(@)]
  /\ Goto(t, IF Len(todo[t]) > 1 THEN "send" ELSE After(t))

-----------------------------------------------------------------------------
(* _bus_lock, and send_msg under it.                                       *)

Locked == [send |-> "check", bsend |-> "btx", sd_lock |-> "shut",
           mlock |-> "mcheck"]

\* Mutant: the heartbeat thread goes round the lock.
AcquireNotByBeat(t) ==
  /\ pc[t] \in DOMAIN Locked /\ At(t, pc[t])
  /\ t # "hb" => lock = "free"
  /\ lock' = IF t = "hb" THEN lock ELSE t
  /\ Goto(t, Locked[pc[t]])
  /\ UNCHANGED <<flags, started, ids, txErrors, out, local>>

Acquire(t) ==
  /\ pc[t] \in DOMAIN Locked /\ At(t, pc[t])
  /\ lock = "free"
  /\ lock' = t
  /\ Goto(t, Locked[pc[t]])
  /\ UNCHANGED <<flags, started, ids, txErrors, out, local>>

\* Mutant: send_msg without its test of _closed.
CheckClosedSkipped(t) ==
  /\ At(t, "check")
  /\ Goto(t, "tx")
  /\ UNCHANGED <<lock, flags, started, ids, txErrors, out, local>>

\* Mutant: the early return leaves the lock taken.
CheckClosedKeepsLock(t) ==
  /\ At(t, "check")
  /\ Goto(t, IF closed THEN After(t) ELSE "tx")
  /\ UNCHANGED <<lock, todo>>
  /\ UNCHANGED <<flags, started, ids, txErrors, out, op, left>>

\* Inside the lock, `if self._closed: return`.
CheckClosed(t) ==
  /\ At(t, "check")
  /\ IF closed THEN Returns(t)
               ELSE Goto(t, "tx") /\ UNCHANGED <<lock, todo>>
  /\ UNCHANGED <<flags, started, ids, txErrors, out, op, left>>

Transmit(t) ==
  /\ At(t, "tx")
  /\ Len(out) < TxCap
  /\ out' = Append(out, Head(todo[t]))
  /\ Returns(t)
  /\ UNCHANGED <<flags, started, ids, txErrors, op, left>>

\* bus.send raised CanError: the frame is dropped, only the count says so.
TransmitFails(t) ==
  /\ At(t, "tx")
  /\ txErrors < MaxErrors
  /\ txErrors' = txErrors + 1
  /\ Returns(t)
  /\ UNCHANGED <<flags, started, ids, out, op, left>>

SendMsg(t) == CheckClosed(t) \/ Transmit(t) \/ TransmitFails(t)
-----------------------------------------------------------------------------
(* The heartbeat thread.                                                   *)

\* Mutant: the loop never looks at heartbeat_enabled.
BeatTestAlways ==
  /\ At("hb", "top")
  /\ Goto("hb", IF closed THEN "done" ELSE "build")
  /\ UNCHANGED <<lock, flags, started, ids, txErrors, out, local>>

\* `while not self._closed: if self.heartbeat_enabled:`, the test of the flag
\* made without the lock.  With the flag down it sleeps and looks again.
BeatTest ==
  /\ At("hb", "top")
  /\ \/ closed /\ Goto("hb", "done")
     \/ ~closed /\ enabled /\ Goto("hb", "build")
  /\ UNCHANGED <<lock, flags, started, ids, txErrors, out, local>>

\* The message copies enable_id_array as it is now, complete or not.
BeatBuild ==
  /\ At("hb", "build")
  /\ op' = op
  /\ SendAll("hb", <<Beat(marked)>>)
  /\ UNCHANGED <<lock, flags, started, ids, txErrors, out, left>>

\* Mutant: heartbeat_enabled is tested once, before the loop.
BeatSetUntested ==
  /\ At("hb", "set")
  /\ started' = TRUE
  /\ Goto("hb", IF closed THEN "done" ELSE "build")
  /\ UNCHANGED <<lock, flags, ids, txErrors, out, local>>

BeatSet ==
  /\ At("hb", "set")
  /\ started' = TRUE
  /\ Goto("hb", "top")
  /\ UNCHANGED <<lock, flags, ids, txErrors, out, local>>

-----------------------------------------------------------------------------
(* The receive thread.  What it does with a frame touches nothing here.    *)

MonitorTest ==
  /\ At("mon", "top")
  /\ Goto("mon", IF closed THEN "done" ELSE "mlock")
  /\ UNCHANGED <<lock, flags, started, ids, txErrors, out, local>>

MonitorRecv ==
  /\ At("mon", "mcheck")
  /\ lock' = "free"
  /\ Goto("mon", IF closed THEN "done" ELSE "top")
  /\ UNCHANGED <<flags, started, ids, txErrors, out, local>>

-----------------------------------------------------------------------------
(* Registering controllers, on the main thread.                            *)

\* _update_heartbeat_array binds a NEW all-zero list and then fills it in
\* place, byte 7 first, while the heartbeat thread may be reading it.
ResetArray(S) ==
  /\ canIds' = S
  /\ marked' = {}
  /\ byte' = 7

InByte(b) == {i \in Ids : i \div 8 = b}

\* Mutant: the last of the eight writes, byte 0, is left out.
FillByteShort ==
  /\ At("main", "fill")
  /\ marked' = (marked \ InByte(byte)) \cup (canIds \cap InByte(byte))
  /\ byte' = byte - 1
  /\ IF byte = 1
     THEN Goto("main", IF todo["main"] = <<>> THEN "idle" ELSE "send")
     ELSE UNCHANGED pc
  /\ UNCHANGED <<lock, flags, started, controllers, canIds, txErrors, out, local>>

\* Mutant: a ninth write after byte 0.
FillByteLong ==
  /\ At("main", "fill")
  /\ marked' = (marked \ InByte(byte)) \cup (canIds \cap InByte(byte))
  /\ byte' = byte - 1
  /\ IF byte + 1 = 0
     THEN Goto("main", IF todo["main"] = <<>> THEN "idle" ELSE "send")
     ELSE UNCHANGED pc
  /\ UNCHANGED <<lock, flags, started, controllers, canIds, txErrors, out, local>>

FillByte ==
  /\ At("main", "fill")
  /\ marked' = (marked \ InByte(byte)) \cup (canIds \cap InByte(byte))
  /\ IF byte = 0
     THEN /\ Goto("main", IF todo["main"] = <<>> THEN "idle" ELSE "send")
          /\ UNCHANGED byte
     ELSE /\ byte' = byte - 1
          /\ UNCHANGED pc
  /\ UNCHANGED <<lock, flags, started, controllers, canIds, txErrors, out, local>>

\* init_controller, whose boot frames follow the array.
InitController(i) ==
  /\ "init" \in Calls /\ At("main", "idle")
  /\ controllers' = controllers \cup {i}
  /\ ResetArray(canIds \cup {i})
  /\ op' = [op EXCEPT !["main"] = "call"]
  /\ \E n \in BootCounts :
       todo' = [todo EXCEPT !["main"] = [k \in 1 .. n |-> Config(i)]]
  /\ Goto("main", "fill")
  /\ UNCHANGED <<lock, flags, started, txErrors, out, left>>

SetHeartbeatIds(S) ==
  /\ "set_ids" \in Calls /\ At("main", "idle")
  /\ ResetArray(S)
  /\ op' = [op EXCEPT !["main"] = "call"]
  /\ Goto("main", "fill")
  /\ UNCHANGED <<lock, flags, started, controllers, txErrors, out, todo, left>>

-----------------------------------------------------------------------------
(* Commanding an output, starting and stopping the heartbeat.              *)

Output(t, i, on) ==
  /\ "output" \in Calls /\ At(t, "idle") /\ t # "sig"
  /\ i \in controllers
  /\ op' = [op EXCEPT ![t] = "call"]
  /\ SendAll(t, <<Duty(i, on)>>)
  /\ UNCHANGED <<lock, flags, started, ids, txErrors, out, left>>

EnableHeartbeat ==
  /\ "enable" \in Calls /\ At("main", "idle")
  /\ enabled' = TRUE
  /\ UNCHANGED <<lock, closed, sock, started, ids, txErrors, out, pc, local>>

\* The flag comes down before the first disable frame is sent.
BroadcastDisable(call) ==
  /\ call \in Calls \cap {"broadcast", "bare_disable", "disable_heartbeat"}
  /\ At("main", "idle")
  /\ enabled' = IF call = "bare_disable" THEN enabled ELSE FALSE
  /\ op' = [op EXCEPT !["main"] =
                     IF call = "disable_heartbeat" THEN call ELSE "call"]
  /\ left' = Repeats
  /\ Goto("main", "bsend")
  /\ UNCHANGED <<lock, closed, sock, started, ids, txErrors, out, todo>>

AfterBroadcast == IF op["main"] = "disable_heartbeat" THEN "clear" ELSE "idle"

\* A disable frame goes to the bus directly: _closed is not consulted.
SendDisable ==
  /\ At("main", "btx")
  /\ sock /\ Len(out) < TxCap
  /\ out' = Append(out, Disable)
  /\ left' = left - 1
  /\ Goto("main", IF left > 1 THEN "bsend" ELSE AfterBroadcast)
  /\ lock' = "free"
  /\ UNCHANGED <<flags, started, ids, txErrors, op, todo>>

\* The first send that raises ends the broadcast.
SendDisableFails ==
  /\ At("main", "btx")
  /\ Goto("main", AfterBroadcast)
  /\ lock' = "free"
  /\ UNCHANGED <<flags, started, ids, txErrors, out, local>>

\* disable_heartbeat's own assignment, after broadcast_disable has returned.
DisableHeartbeatClears ==
  /\ At("main", "clear")
  /\ enabled' = FALSE
  /\ Goto("main", "idle")
  /\ UNCHANGED <<lock, closed, sock, started, ids, txErrors, out, local>>

-----------------------------------------------------------------------------
(* Shutting down, by main or by the signal handler.                        *)

\* "shutdown_now" is shutdown(zero_outputs=False).
ShutdownCalled(call) ==
  /\ call \in Calls \cap {"shutdown", "shutdown_now"}
  /\ At("main", "idle")
  /\ op' = [op EXCEPT !["main"] = call]
  /\ Goto("main", "sd")
  /\ UNCHANGED <<lock, flags, started, ids, txErrors, out, todo, left>>

\* The call is over.  The handler goes on to sys.exit: the frames it
\* interrupted are unwound and main never resumes its call.
Leave(t) ==
  pc' = IF t = "sig" THEN [pc EXCEPT !["sig"] = "done", !["main"] = "done"]
                     ELSE [pc EXCEPT ![t] = "idle"]

\* Mutant: zero_outputs is ignored.
ShutdownTestUnzeroed(t) ==
  /\ At(t, "sd")
  /\ op' = [op EXCEPT ![t] = IF @ = "stop" THEN "shutdown" ELSE @]
  /\ IF closed THEN Leave(t) ELSE Goto(t, "sd_flag")
  /\ UNCHANGED <<lock, flags, started, ids, txErrors, out, todo, left>>

\* `if self._closed: return`, then the zero_outputs argument.
ShutdownTest(t) ==
  /\ At(t, "sd")
  /\ op' = [op EXCEPT ![t] = IF @ = "stop" THEN "shutdown" ELSE @]
  /\ IF closed THEN Leave(t)
     ELSE Goto(t, IF op[t] = "shutdown_now" THEN "sd_flag" ELSE "round")
  /\ UNCHANGED <<lock, flags, started, ids, txErrors, out, todo, left>>

\* One pass of percent_output(0.0) over a snapshot of the controllers.
ZeroRounds ==
  {s \in [1 .. Cardinality(controllers) -> {Duty(i, FALSE) : i \in controllers}] :
     \A i \in controllers : \E k \in DOMAIN s : s[k] = Duty(i, FALSE)}

ZeroRound(t) ==
  /\ At(t, "round")
  /\ op' = op
  /\ \E s \in ZeroRounds : SendAll(t, s)
  /\ UNCHANGED <<lock, flags, started, ids, txErrors, out, left>>

\* The 0.2 s deadline has not passed: another round.
ZeroAgain(t) ==
  /\ At(t, "zeroed")
  /\ Goto(t, "round")
  /\ UNCHANGED <<lock, flags, started, ids, txErrors, out, local>>

ZeroDone(t) ==
  /\ At(t, "zeroed")
  /\ Goto(t, "sd_flag")
  /\ UNCHANGED <<lock, flags, started, ids, txErrors, out, local>>

ShutdownFlag(t) ==
  /\ At(t, "sd_flag")
  /\ enabled' = FALSE
  /\ Goto(t, "sd_close")
  /\ UNCHANGED <<lock, closed, sock, started, ids, txErrors, out, local>>

ShutdownClose(t) ==
  /\ At(t, "sd_close")
  /\ closed' = TRUE
  /\ Goto(t, "sd_lock")
  /\ UNCHANGED <<lock, sock, enabled, started, ids, txErrors, out, local>>

ShutdownBus(t) ==
  /\ At(t, "shut")
  /\ sock' = FALSE
  /\ lock' = "free"
  /\ Leave(t)
  /\ UNCHANGED <<closed, enabled, started, ids, txErrors, out, local>>

Shutdown(t) ==
  \/ ShutdownTest(t) \/ ZeroRound(t) \/ ZeroAgain(t) \/ ZeroDone(t)
  \/ ShutdownFlag(t) \/ ShutdownClose(t) \/ ShutdownBus(t)

\* SIGINT: the tools' handler commands zero and then calls shutdown.  It runs
\* wherever main is, so also while main is inside the lock.
Interrupt(i) ==
  /\ Interrupts /\ pc["sig"] = "idle" /\ pc["main"] # "done"
  /\ i \in controllers
  /\ op' = [op EXCEPT !["sig"] = "stop"]
  /\ SendAll("sig", <<Duty(i, FALSE)>>)
  /\ UNCHANGED <<lock, flags, started, ids, txErrors, out, left>>
-----------------------------------------------------------------------------
(* The kernel transmits the oldest accepted frame.                         *)

Drain ==
  /\ out # <<>>
  /\ out' = Tail(out)
  /\ UNCHANGED <<lock, flags, started, ids, txErrors, pc, local>>

-----------------------------------------------------------------------------
(* What the application asks for, and a history of what went out since it  *)
(* last changed its mind:                                                  *)
(*   late        heartbeats accepted since then that enable an id it does  *)
(*               not ask for: 0, 1, or 2 for more than one;                *)
(*   disableOut  a disable frame was accepted and the heartbeat has not    *)
(*               been enabled again;                                       *)
(*   beatOut     some heartbeat was accepted, ever.                        *)

mind  == <<enabled, canIds, closed>>
Asked == IF enabled /\ ~closed THEN canIds ELSE {}

Accepts(kind) == Len(out') > Len(out) /\ out'[Len(out')].kind = kind

History ==
  /\ late' = IF mind' # mind THEN 0
             ELSE IF Accepts("beat") /\ ~(out'[Len(out')].ids \subseteq Asked)
                  THEN (IF late = 0 THEN 1 ELSE 2) ELSE late
  /\ disableOut' = (~enabled' /\ (disableOut \/ Accepts("disable")))
  /\ beatOut' = (beatOut \/ Accepts("beat"))

-----------------------------------------------------------------------------
Heartbeat == BeatTest \/ BeatBuild \/ BeatSet
Monitor   == MonitorTest \/ MonitorRecv
Broadcast == SendDisable \/ SendDisableFails \/ DisableHeartbeatClears

\* What a thread does of its own accord once it has something to do.
Step(t) ==
  \/ Acquire(t)
  \/ t \in Senders /\ SendMsg(t)
  \/ t = "hb" /\ Heartbeat
  \/ t = "mon" /\ Monitor
  \/ t = "main" /\ (FillByte \/ Broadcast)
  \/ t \in {"main", "sig"} /\ Shutdown(t)

\* What the application chooses to call, and SIGINT.
Call ==
  \/ \E i \in Ids : InitController(i)
  \/ \E S \in SUBSET Ids : SetHeartbeatIds(S)
  \/ \E t \in Callers, i \in Ids, on \in BOOLEAN : Output(t, i, on)
  \/ EnableHeartbeat
  \/ \E call \in Calls : BroadcastDisable(call)
  \/ \E call \in Calls : ShutdownCalled(call)
  \/ \E i \in Ids : Interrupt(i)

HostStep == (Call \/ \E t \in Threads : Step(t)) /\ History

Next == HostStep \/ (Drain /\ History)

Spec == Init /\ [][Next]_vars

(* A thread in a call goes on with it.  The lock is not a fair one, so a   *)
(* thread waiting for it needs strong fairness: it is free infinitely often*)
(* (bus_monitor sleeps 1 ms outside it), and a waiter that is woken again  *)
(* and again does get it.  ZeroDone is the 0.2 s deadline of shutdown.     *)
Fairness ==
  /\ \A t \in Threads : SF_vars(Step(t) /\ History)
  /\ \A t \in {"main", "sig"} : SF_vars(ZeroDone(t) /\ History)
  /\ WF_vars(Drain /\ History)

FairSpec == Spec /\ Fairness

-----------------------------------------------------------------------------
(* Properties.                                                             *)

TypeOK ==
  /\ lock \in Threads \cup {"free"}
  /\ closed \in BOOLEAN /\ sock \in BOOLEAN
  /\ enabled \in BOOLEAN /\ started \in BOOLEAN
  /\ controllers \subseteq Ids /\ canIds \subseteq Ids /\ marked \subseteq Ids
  /\ byte \in 0 .. 7
  /\ txErrors \in Nat
  /\ out \in Seq(Frame)
  /\ pc \in [Threads -> Labels]
  /\ op \in [Senders -> Ops]
  /\ todo \in [Senders -> Seq(Frame)]
  /\ left \in 0 .. Repeats
  /\ late \in 0 .. 2
  /\ disableOut \in BOOLEAN /\ beatOut \in BOOLEAN

\* can_bus.py's _bus_lock: at most one thread is between the acquisition and
\* the release, and the lock is never left held by a thread that has moved on.
Inside == {"check", "tx", "btx", "shut", "mcheck"}
LockHeldInside ==
  \A t \in Threads : pc[t] \in Inside <=> lock = t

\* send_msg never hands a frame to a bus that shutdown has already shut down,
\* although shutdown sets _closed without holding the lock and send_msg may
\* be anywhere when it does.
NoSendAfterClose ==
  \A t \in Senders : pc[t] = "tx" => sock

\* Withdrawing an enable (stopping the heartbeat, dropping an id, closing) is
\* not atomic with the heartbeat thread, which tests the flag before it takes
\* the lock.  Exactly one frame can be caught between the two, never a second.
OneLateBeat == late <= 1

\* Outside _update_heartbeat_array the array the heartbeat thread copies names
\* exactly the ids registered, so an incomplete array cannot outlive the call.
ArrayCurrent ==
  pc["main"] \notin {"fill", "done"} => marked = canIds

\* shutdown: once _closed is set the bus does get shut down and both daemon
\* threads end, whoever holds or waits for the lock at the time.
ShutdownEnds ==
  closed ~> (~sock /\ pc["hb"] = "done" /\ pc["mon"] = "done")

\* broadcast_disable's comment: "the last heartbeat has to be older than the
\* disable or the controller re-arms between the two".
LastBeatOlder ==
  [][Accepts("beat") => ~disableOut]_vars

\* wait_for_heartbeat's docstring: it returns once "the heartbeat thread has
\* sent its first frame".
FirstFrameSent == started => beatOut

\* The tools' SIGINT handler zeroes the output and shuts the bus down.
InterruptStops ==
  (pc["sig"] # "idle") ~> (pc["sig"] = "done")

-----------------------------------------------------------------------------
\* The promise of StopSwitch, which says nothing of threads or locks.
Switch == INSTANCE StopSwitch WITH asked <- Asked, late <- late, open <- sock
SwitchSpec == Switch!Spec
=============================================================================
