------------------------------ MODULE Adapter ------------------------------
(***************************************************************************)
(* The USB CAN adapter under the bus and the programs that recover it:     *)
(* CanNetdev's bring-up, with and without adopt, `spark canfix`, with and  *)
(* without --force, and tools/can_tx_health.py --reset.  Each takes its     *)
(* shell commands one at a time, while the adapter degrades, wedges,        *)
(* stalls, dies, leaves and comes back, while the bus loses its power, and  *)
(* while udev starts spark-can.service, which sets the same link up on its  *)
(* own.                                                                     *)
(***************************************************************************)
EXTENDS Naturals, Sequences

CONSTANTS
  Rigs,         \* how the machine is set up, see RigType
  WaitTimeout,  \* WAIT_TIMEOUT_S, in rounds of the bind retried every 5 s; 0,
                \* wait for ever, is left out
  MaxFaults     \* faults, kills and failed binds

RigType ==
  [gs   : BOOLEAN,   \* a gs_usb adapter: the netdev has a USB parent
   sudo : BOOLEAN,   \* /etc/sudoers.d/canbus is installed
   hub  : BOOLEAN,   \* ... with the `disable` node of the hub port
   skip : BOOLEAN,   \* skip_gs_usb_rebind
   tc   : BOOLEAN]   \* tc prints the queue's counters

ASSUME ConstantsAssumption ==
  Rigs \subseteq RigType /\ WaitTimeout \in Nat \ {0} /\ MaxFaults \in Nat

BringUps == {"bring_up", "adopt"}
Fixes    == {"canfix", "force"}
Programs == BringUps \cup Fixes \cup {"tx_health"}
Good     == {"ok", "adopted", "healthy"}

VARIABLES
  rig,
  plugged, port, bound,   \* in the socket, the socket's power, the driver
  endpoint,               \* of the adapter's firmware; dead: it cannot enumerate
  fifo,                   \* stuck: wedged, and only a replug clears it
  link,
  kernlog,                \* the log's last failed gs_usb probe says error -32
  service,                \* spark-can.service
  acked,                  \* a powered node on the bus acknowledges frames
  prog, pc, result,
  attempts,               \* of the wait for the netdev
  step, failed,           \* setup's command, and whether one of them failed
  caller,                 \* who called _reset_gs_usb_driver
  disturbed,              \* history: a fault since prog began
  faults

usb    == <<plugged, port, bound>>
device == <<usb, endpoint, fifo, link, kernlog, service>>
local  == <<attempts, step, failed, caller>>
run    == <<prog, pc, result, local>>
world  == <<rig, acked>>
vars   == <<world, device, run, disturbed, faults>>

-----------------------------------------------------------------------------
Enumerated == plugged /\ port = "on" /\ endpoint # "dead"
Netdev     == Enumerated /\ bound
Up         == Netdev /\ link = "up"
Drains     == Up /\ fifo = "clean" /\ acked

\* _qdisc_state: there are counters to read.
Measured == rig.tc /\ Netdev

\* Mutant: a frame that was accepted is a frame that was sent.
ProbeQueued == IF Measured THEN {Up} ELSE {TRUE}

\* What _tx_probe_ok may say: the one frame may pass a degraded adapter, and
\* without counters there is the benefit of the doubt.
ProbeSays ==
  IF ~Measured THEN {TRUE}
  ELSE {ok \in BOOLEAN : /\ ok => Up /\ acked /\ fifo \in {"clean", "degraded"}
                         /\ ~ok => ~Drains}

\* _bus_ready, which gives no such benefit; ok is what the probe says.
BusReady(ok) == Up /\ Measured /\ ok

\* _unbound_gs_usb_interfaces
Unbound == rig.gs /\ Enumerated /\ ~bound

TypeOK ==
  /\ rig \in Rigs /\ {plugged, bound, kernlog, failed, disturbed} \subseteq BOOLEAN
  /\ port \in {"on", "off"} /\ endpoint \in {"ok", "stalled", "dead"}
  /\ fifo \in {"clean", "degraded", "wedged", "stuck"} /\ acked \in BOOLEAN /\ link \in {"up", "down"}
  /\ service \in {"idle", "test", "down", "set", "up"} /\ (service # "idle" => Netdev)
  /\ (link = "up" => Netdev)
  /\ prog \in Programs /\ step \in 1..7 /\ attempts \in 0..WaitTimeout
  /\ pc \in {"idle", "look", "wait", "unbound", "off", "on", "check", "unbind", "bind",
             "appear", "setup", "probe", "read", "await"}
  /\ result \in Good \cup {"-", "missing", "error", "warned", "failed", "killed"}
  /\ caller \in {"-", "first", "again"} /\ faults \in 0..MaxFaults

\* The machine has booted with the adapter in, or not, and the motors powered, or
\* not.
Init ==
  /\ rig \in Rigs /\ plugged \in BOOLEAN /\ (~rig.gs => plugged)
  /\ port = "on" /\ bound = plugged /\ endpoint = "ok" /\ fifo = "clean"
  /\ acked \in BOOLEAN /\ link = "down" /\ kernlog = FALSE /\ service = IF plugged THEN "test" ELSE "idle"
  /\ prog = "bring_up" /\ pc = "idle" /\ result = "-"
  /\ attempts = 0 /\ step = 1 /\ failed = FALSE /\ caller = "-"
  /\ disturbed = FALSE /\ faults = 0

-----------------------------------------------------------------------------
(* What the kernel and udev do                                             *)

\* The netdev is gone, and systemd stops the service bound to it.
Gone == link' = "down" /\ service' = "idle"

\* The driver probes the adapter: the netdev appears, down, and its udev event
\* starts the service; or error -32.
Attach(ep) ==
  IF ep = "ok"
  THEN bound' = TRUE /\ link' = "down" /\ service' = "test" /\ UNCHANGED kernlog
  ELSE bound' = FALSE /\ kernlog' = TRUE /\ Gone

\* spark-can-bringup, under set -e: already up, else down, bitrate, up.
Service ==
  /\ \/ service = "test" /\ service' = (IF link = "up" THEN "idle" ELSE "down")
        /\ UNCHANGED link
     \/ service = "down" /\ link' = "down" /\ service' = "set"
     \/ service = "set"  /\ service' = (IF link = "up" THEN "idle" ELSE "up")
        /\ UNCHANGED link
     \/ service = "up"   /\ link' = "up" /\ service' = "idle"
  /\ UNCHANGED <<world, usb, endpoint, fifo, kernlog, run, disturbed, faults>>

Fault == faults < MaxFaults /\ faults' = faults + 1 /\ disturbed' = TRUE

\* The adapter drains badly, or no longer; or it stalls, and its driver only
\* notices when it probes again.
Wedge ==
  /\ Fault /\ rig.gs /\ Up /\ fifo' \in {"degraded", "wedged", "stuck"}
  /\ endpoint' \in {endpoint, "stalled"}
  /\ UNCHANGED <<world, usb, link, kernlog, service, run>>

\* Its USB stack stops answering: unable to enumerate.
Die ==
  /\ Fault /\ rig.gs /\ Enumerated
  /\ endpoint' = "dead" /\ bound' = FALSE /\ Gone
  /\ UNCHANGED <<world, plugged, port, fifo, kernlog, run>>

\* The last node that acknowledges loses its power.
BusDown == Fault /\ acked /\ acked' = FALSE /\ UNCHANGED <<rig, device, run>>

BusUp == ~acked /\ acked' = TRUE /\ UNCHANGED <<rig, device, run, disturbed, faults>>

Unplug ==
  /\ Fault /\ rig.gs /\ plugged
  /\ plugged' = FALSE /\ bound' = FALSE /\ Gone
  /\ UNCHANGED <<world, port, endpoint, fifo, kernlog, run>>

Replug ==
  /\ ~plugged /\ plugged' = TRUE /\ endpoint' = "ok" /\ fifo' = "clean"
  /\ disturbed' = TRUE
  /\ IF port = "on" THEN Attach("ok") ELSE UNCHANGED <<bound, link, service, kernlog>>
  /\ UNCHANGED <<world, port, run, faults>>

\* The FIFO of an adapter that is reset.
Restarted == IF fifo = "stuck" THEN fifo ELSE "clean"

\* The hub renegotiates: the driver loses the adapter and probes it again.
Reenumerate ==
  /\ Fault /\ rig.gs /\ Netdev /\ Attach(endpoint)
  /\ fifo' = Restarted /\ UNCHANGED <<world, plugged, port, endpoint, run>>

\* Four hundred other lines.
LogMovesOn ==
  /\ kernlog /\ kernlog' = FALSE /\ faults < MaxFaults /\ faults' = faults + 1
  /\ UNCHANGED <<world, usb, endpoint, fifo, link, service, run, disturbed>>

-----------------------------------------------------------------------------
(* The programs                                                            *)

Keep == UNCHANGED <<world, disturbed>>
Still == UNCHANGED <<device, faults>>

Go(to) == pc' = to /\ UNCHANGED <<prog, result>>
End(how) == pc' = "idle" /\ result' = how /\ UNCHANGED <<prog, local>>

Start(p) ==
  /\ pc = "idle" /\ prog' = p /\ result' = "-"
  /\ pc' = CASE p \in BringUps -> "look" [] p \in Fixes -> "read" [] OTHER -> "probe"
  /\ attempts' = 0 /\ step' = 1 /\ failed' = FALSE /\ caller' = "-"
  /\ disturbed' = FALSE
  /\ UNCHANGED <<world, device, faults>>

\* Ctrl-C, or the program is killed.
Kill ==
  /\ pc # "idle" /\ Fault /\ End("killed")
  /\ UNCHANGED <<world, device>>

\* bring_up_can_buses
Look ==
  /\ pc = "look" /\ Go(IF Netdev THEN "check" ELSE "unbound")
  /\ UNCHANGED local /\ Keep /\ Still

\* Mutant: the wait has no bound.
WaitForever ==
  /\ pc = "wait"
  /\ \/ Netdev /\ Go("check") /\ UNCHANGED local
     \/ ~Netdev /\ attempts' = 1 /\ Go("unbound") /\ UNCHANGED <<step, failed, caller>>
  /\ Keep /\ Still

\* Mutant: the bound is tested after one round more.
WaitOnce ==
  /\ pc = "wait" /\ attempts' = attempts + 1
  /\ \/ Netdev /\ Go("check") /\ UNCHANGED <<step, failed, caller>>
     \/ ~Netdev /\ attempts > WaitTimeout /\ End("missing")
     \/ ~Netdev /\ Go("unbound") /\ UNCHANGED <<step, failed, caller>>
  /\ Keep /\ Still

Wait ==
  /\ pc = "wait"
  /\ \/ Netdev /\ Go("check") /\ UNCHANGED local
     \/ ~Netdev /\ attempts = WaitTimeout /\ End("missing")
     \/ /\ ~Netdev /\ attempts < WaitTimeout /\ attempts' = attempts + 1
        /\ Go(IF attempts > 0 THEN "unbound" ELSE "wait")
        /\ UNCHANGED <<step, failed, caller>>
  /\ Keep /\ Still

\* tee .../bind.  The write is accepted even when nothing gets bound.  It clears a
\* wedged FIFO, though not every one; there are dongles it leaves unable to transmit.
Bind ==
  /\ Attach(endpoint) /\ UNCHANGED <<plugged, port, endpoint>>
  /\ fifo' \in IF endpoint = "stalled" THEN {fifo}
               ELSE {Restarted} \cup {f \in {"wedged"} : rig.skip}

\* _gs_usb_probe_stalled
Stalled == kernlog

\* _bind_unbound_gs_usb: its caller only looks for the netdev afterwards.
BindUnbound ==
  /\ pc = "unbound"
  /\ \/ /\ ~Unbound \/ (Stalled /\ ~rig.hub) \/ (~Stalled /\ ~rig.sudo)
        /\ Go("wait") /\ Still
     \/ Unbound /\ Stalled /\ rig.hub /\ Go("off") /\ Still
     \/ /\ Unbound /\ ~Stalled /\ rig.sudo /\ Go("wait")
        /\ Bind /\ UNCHANGED faults
  /\ UNCHANGED local /\ Keep

\* _power_cycle_gs_usb_port: 1, two seconds, 0.  It revives a stalled adapter, not
\* a dead one.
PowerOff ==
  /\ pc = "off" /\ Go("on")
  /\ port' = "off" /\ bound' = FALSE /\ Gone
  /\ UNCHANGED <<plugged, endpoint, fifo, kernlog, local, faults>> /\ Keep

PowerOn ==
  /\ pc = "on" /\ Go("wait") /\ port' = "on"
  /\ IF plugged /\ endpoint # "dead"
     THEN endpoint' = "ok" /\ fifo' = Restarted /\ Attach("ok")
     ELSE UNCHANGED <<endpoint, fifo, bound, link, service, kernlog>>
  /\ UNCHANGED <<plugged, local, faults>> /\ Keep

\* Mutant: the driver is only rebound once a probe has failed.
CheckLazily ==
  /\ pc = "check"
  /\ \E ok \in ProbeSays :
       IF prog = "adopt" /\ BusReady(ok) THEN End("adopted")
       ELSE Go("setup") /\ caller' = "first" /\ UNCHANGED <<attempts, step, failed>>
  /\ Keep /\ Still

\* check_can_interface, up to the first setup.  The result of this reset is not
\* looked at.
Check ==
  /\ pc = "check"
  /\ \E ok \in ProbeSays :
       IF prog = "adopt" /\ BusReady(ok) THEN End("adopted")
       ELSE /\ Go(IF rig.gs /\ Netdev /\ ~rig.skip THEN "unbind" ELSE "setup")
            /\ caller' = "first" /\ UNCHANGED <<attempts, step, failed>>
  /\ Keep /\ Still

\* cmd_canfix, up to its reset.
Read ==
  /\ pc = "read"
  /\ \E ok \in ProbeSays :
       IF ~Netdev \/ ~rig.gs THEN End("failed")
       ELSE IF Up /\ ok /\ prog = "canfix" THEN End("healthy")
       ELSE Go("unbind") /\ caller' = "first" /\ UNCHANGED <<attempts, step, failed>>
  /\ Keep /\ Still

\* After _reset_gs_usb_driver, by who called it.
ResetDone(ok) ==
  IF prog \in BringUps
  THEN IF caller = "first" \/ ok
       THEN Go("setup") /\ step' = 1 /\ failed' = FALSE /\ UNCHANGED <<attempts, caller>>
       ELSE End("warned")
  ELSE IF ok THEN Go(IF prog \in Fixes THEN "await" ELSE "setup") /\ UNCHANGED local
       ELSE End("failed")

Unbind ==
  /\ pc = "unbind"
  /\ IF rig.gs /\ rig.sudo /\ Netdev
     THEN /\ Go("bind") /\ bound' = FALSE /\ Gone
          /\ UNCHANGED <<plugged, port, endpoint, fifo, kernlog, local>>
     ELSE ResetDone(FALSE) /\ UNCHANGED device
  /\ UNCHANGED faults /\ Keep

\* The write fails when the adapter has gone, and may fail on its own.
BindBack ==
  /\ pc = "bind"
  /\ \/ Enumerated /\ Go("appear") /\ Bind /\ UNCHANGED <<local, faults>>
     \/ ResetDone(FALSE) /\ UNCHANGED device
        /\ IF Enumerated THEN faults < MaxFaults /\ faults' = faults + 1
           ELSE UNCHANGED faults
  /\ Keep

Appear == pc = "appear" /\ ResetDone(Netdev) /\ Keep /\ Still

\* setup_can_interface and can_tx_health's _setup_can
Commands ==
  IF prog = "tx_health" THEN <<"down", "queue", "clear", "set", "queue", "up">>
  ELSE <<"down", "clear", "start", "queue">>

\* ip refuses a bitrate while the link is up.
Works(cmd) == rig.sudo /\ Netdev /\ (cmd \in {"set", "start"} => link = "down")

Setup ==
  /\ pc = "setup" /\ step <= Len(Commands)
  /\ LET cmd == Commands[step] IN
     /\ IF Works(cmd)
        THEN /\ link' = CASE cmd = "down" -> "down"
                          [] cmd \in {"start", "up"} -> "up"
                          [] OTHER -> link
             /\ Go("setup") /\ step' = step + 1
             /\ UNCHANGED <<attempts, failed, caller>>
        ELSE /\ UNCHANGED link
             /\ IF prog = "tx_health" THEN End("failed")
                ELSE /\ Go("setup") /\ step' = step + 1 /\ failed' = TRUE
                     /\ UNCHANGED <<attempts, caller>>
  /\ UNCHANGED <<usb, endpoint, fifo, kernlog, service, faults>> /\ Keep

\* RuntimeError: a command failed, or another process has frames queued again
\* behind an adapter or a bus that does not take them.
SetupDone ==
  /\ pc = "setup" /\ step > Len(Commands)
  /\ \/ (failed \/ (Measured /\ ~(fifo = "clean" /\ acked))) /\ End("error")
     \/ ~failed /\ Go("probe") /\ UNCHANGED local
  /\ Keep /\ Still

\* canfix waits for the service.
Await ==
  /\ pc = "await"
  /\ IF Up THEN Go("probe") /\ UNCHANGED local ELSE End("failed")
  /\ Keep /\ Still

\* can_tx_health does not call unreadable counters a pass.
Passes(ok) == ok /\ (prog = "tx_health" => Measured)

Probe ==
  /\ pc = "probe"
  /\ \E ok \in ProbeSays :
       IF Passes(ok) THEN End("ok")
       ELSE IF caller = (IF prog = "tx_health" THEN "-" ELSE "first") /\ prog \notin Fixes
       THEN Go("unbind") /\ caller' = "again" /\ UNCHANGED <<attempts, step, failed>>
       ELSE End(IF prog \in BringUps THEN "warned" ELSE "failed")
  /\ Keep /\ Still

Program ==
  \/ Look \/ Wait \/ BindUnbound \/ PowerOff \/ PowerOn \/ Check \/ Read \/ Unbind
  \/ BindBack \/ Appear \/ Setup \/ SetupDone \/ Await \/ Probe

Faulty == Wedge \/ Die \/ BusDown \/ Unplug \/ Reenumerate \/ Kill

Next ==
  \/ Program \/ Service \/ Faulty \/ BusUp \/ Replug \/ LogMovesOn
  \/ \E p \in Programs : Start(p)

\* Programs and the service run on; the operator comes back to bring_up.
Spec ==
  /\ Init /\ [][Next]_vars
  /\ WF_vars(Program) /\ WF_vars(Service) /\ SF_vars(Start("bring_up"))

-----------------------------------------------------------------------------
\* The program that has ended took the driver away and gave it back.
Rebound ==
  rig.gs /\ (caller = "again" \/ prog \in Fixes \/ (prog \in BringUps /\ ~rig.skip))

\* A program that says the adapter drains has seen it drain: if nothing hit the
\* adapter or the bus since the program began and there were counters to read, it is
\* not wedged, and the link is up or the service about to bring it up; and where the
\* program rebound the driver, the adapter is not even degraded, which the probe
\* alone cannot tell.
OkDrains ==
  pc = "idle" /\ result \in Good /\ ~disturbed /\ rig.tc =>
    /\ fifo \in {"clean", "degraded"} /\ acked /\ (Up \/ service # "idle")
    /\ result = "ok" /\ Rebound => fifo = "clean"

\* Every program ends, the wait for a netdev that never comes included.
Ends == pc # "idle" ~> pc = "idle"

\* Out of a program's reach are a cable, a port that was left off, motors without
\* power, and the two wedges that only a replug clears: a FIFO no rebind clears and
\* an adapter that cannot enumerate.
Curable == plugged /\ port = "on" /\ acked /\ fifo # "stuck" /\ endpoint # "dead"

\* With the grants, an adapter that can be cured without a hand on the cable is
\* usable again and again, whatever had degraded, wedged, stalled or half failed
\* before: a bring-up that fails leaves what the next one needs, and one that
\* succeeds does not leave a degraded adapter as it was.
Recovers ==
  rig.gs /\ rig.sudo /\ rig.hub /\ ~rig.skip => (<>[]Curable => []<>Drains)
=============================================================================
