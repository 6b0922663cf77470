---------------------------- MODULE Adapter_proofs ----------------------------
(***************************************************************************)
(* Proofs about Adapter: a bring-up, a canfix or a reset that reports      *)
(* success leaves an adapter that was seen to drain, and one that rebound  *)
(* the driver a clean one, on any rigs, however often the adapter degrades, *)
(* wedges, stalls, dies, leaves and comes back.                            *)
(***************************************************************************)
EXTENDS Adapter, SequenceTheorems, TLAPS

\* The probe of a bring-up or a canfix gives a missing netdev the benefit of the
\* doubt, so what leads up to the probe must have seen the netdev.
NetdevSeen ==
  ~disturbed =>
    /\ pc = "setup" /\ prog # "tx_health" /\ ~failed /\ step > 1 => Netdev
    /\ pc = "probe" /\ prog # "tx_health" => Netdev

\* Up to the first setup a bring-up has run no command of it.
Early == {"look", "wait", "unbound", "off", "on", "check"}
NoCommandYet == pc \in Early => step = 1 /\ prog \in BringUps

\* What follows a rebind holds the sudo grant it took.
Granted ==
  /\ pc \in {"bind", "appear", "await"} => rig.sudo
  /\ pc = "setup" /\ step > 1 /\ ~failed => rig.sudo
  /\ pc = "probe" /\ Rebound => rig.sudo

\* Between the two writes the netdev is gone, and after them a netdev that is there
\* has a FIFO the bind has cleared, if the bind can have been made.
Cleared ==
  ~disturbed =>
    /\ pc = "bind" => ~Netdev
    /\ pc \in {"appear", "setup", "await", "probe"} /\ Rebound /\ Netdev /\ rig.sudo =>
         fifo # "degraded"

Safe == NetdevSeen /\ NoCommandYet /\ Granted /\ Cleared /\ OkDrains

-----------------------------------------------------------------------------
\* The parts of TypeOK that the solver needs one at a time.
Flags == plugged \in BOOLEAN /\ bound \in BOOLEAN /\ kernlog \in BOOLEAN
         /\ failed \in BOOLEAN /\ disturbed \in BOOLEAN

Hardware ==
  /\ rig \in Rigs
  /\ port \in {"on", "off"} /\ endpoint \in {"ok", "stalled", "dead"}
  /\ fifo \in {"clean", "degraded", "wedged", "stuck"} /\ acked \in BOOLEAN /\ link \in {"up", "down"}
  /\ service \in {"idle", "test", "down", "set", "up"} /\ (service # "idle" => Netdev)
  /\ (link = "up" => Netdev)

Locals ==
  /\ prog \in Programs /\ step \in 1..7 /\ attempts \in 0..WaitTimeout
  /\ pc \in {"idle", "look", "wait", "unbound", "off", "on", "check", "unbind", "bind",
             "appear", "setup", "probe", "read", "await"}
  /\ result \in Good \cup {"-", "missing", "error", "warned", "failed", "killed"}
  /\ caller \in {"-", "first", "again"}

LEMMA TypeParts == TypeOK <=> Flags /\ Hardware /\ Locals /\ faults \in 0..MaxFaults
<1>1. {plugged, bound, kernlog, failed, disturbed} \subseteq BOOLEAN <=> Flags
  BY DEF Flags
<1> QED BY <1>1 DEF TypeOK, Hardware, Locals

LEMMA TypePartsNext ==
  TypeOK' <=> Flags' /\ Hardware' /\ Locals' /\ faults' \in 0..MaxFaults
<1>1. {plugged', bound', kernlog', failed', disturbed'} \subseteq BOOLEAN <=> Flags'
  BY DEF Flags
<1> QED BY <1>1 DEF TypeOK, Hardware, Locals

LEMMA FaultType == Fault /\ faults \in 0..MaxFaults => faults' \in 0..MaxFaults
<1> QED BY ConstantsAssumption DEF Fault, ConstantsAssumption

\* A step of the adapter or the service leaves the programs alone.
LEMMA DeviceStepType ==
  ASSUME TypeOK,
         \/ Service \/ Wedge \/ Die \/ BusDown \/ BusUp
         \/ Unplug \/ Replug \/ Reenumerate \/ LogMovesOn
  PROVE  TypeOK'
<1> USE TypeParts, TypePartsNext
<1>1. Flags /\ Hardware /\ Locals /\ faults \in 0..MaxFaults
  OBVIOUS
<1>2. Locals' /\ failed' \in BOOLEAN
  BY <1>1 DEF Locals, Flags, Service, Wedge, Die, BusDown, BusUp, Unplug, Replug, Reenumerate,
       LogMovesOn, run, local
<1>3. faults' \in 0..MaxFaults
  <2>1. CASE Service \/ Replug \/ BusUp
    BY <1>1, <2>1 DEF Service, Replug, BusUp
  <2>2. CASE Wedge \/ Die \/ BusDown \/ Unplug \/ Reenumerate
    BY <1>1, <2>2, FaultType DEF Wedge, Die, BusDown, Unplug, Reenumerate
  <2>3. CASE LogMovesOn
    BY <1>1, <2>3, ConstantsAssumption DEF LogMovesOn, ConstantsAssumption
  <2> QED BY <2>1, <2>2, <2>3
<1>4. Flags'
  BY <1>1, <1>2 DEF Flags, Service, Wedge, Die, BusDown, BusUp, Unplug, Replug, Reenumerate,
       LogMovesOn, Fault, Attach, device, usb
<1>5. Hardware'
  <2>1. CASE Service
    BY <1>1, <2>1 DEF Hardware, Netdev, Enumerated, Service, usb, world
  <2>2. CASE Wedge
    BY <1>1, <2>2 DEF Hardware, Netdev, Enumerated, Wedge, usb, world
  <2>3. CASE Unplug
    BY <1>1, <2>3 DEF Hardware, Netdev, Enumerated, Unplug, Gone, world
  <2>4. CASE Replug
    BY <1>1, <2>4 DEF Hardware, Netdev, Enumerated, Replug, Gone, Attach, world
  <2>5. CASE Reenumerate
    BY <1>1, <2>5 DEF Hardware, Netdev, Enumerated, Reenumerate, Gone, Attach, world, Restarted
  <2>6. CASE LogMovesOn
    BY <1>1, <2>6 DEF Hardware, Netdev, Enumerated, LogMovesOn, usb, world
  <2>7. CASE Die
    BY <1>1, <2>7 DEF Hardware, Netdev, Enumerated, Die, Gone, world
  <2>8. CASE BusDown \/ BusUp
    BY <1>1, <2>8 DEF Hardware, Netdev, Enumerated, BusDown, BusUp, device, usb
  <2> QED BY <2>1, <2>2, <2>3, <2>4, <2>5, <2>6, <2>7, <2>8
<1> QED BY <1>2, <1>3, <1>4, <1>5

LEMMA AttachType ==
  ASSUME Hardware, NEW ep \in {"ok", "stalled"}, Attach(ep), kernlog \in BOOLEAN,
         plugged' = TRUE, port' = "on", UNCHANGED world,
         endpoint' \in {"ok", "stalled"},
         fifo' \in {"clean", "degraded", "wedged", "stuck"}
  PROVE  Hardware' /\ bound' \in BOOLEAN /\ kernlog' \in BOOLEAN
<1> QED BY DEF Hardware, Netdev, Enumerated, Gone, Attach, world

LEMMA ResetDoneType ==
  ASSUME Locals, failed \in BOOLEAN, NEW ok \in BOOLEAN, ResetDone(ok)
  PROVE  Locals' /\ failed' \in BOOLEAN
<1>1. \/ pc' \in {"setup", "await"} /\ UNCHANGED <<prog, result, attempts, caller>>
         /\ (UNCHANGED <<step, failed>> \/ (step' = 1 /\ failed' = FALSE))
      \/ pc' = "idle" /\ result' \in {"warned", "failed"} /\ UNCHANGED <<prog, local>>
  BY DEF ResetDone, Go, End, local
<1>2. CASE pc' = "idle"
  BY <1>1, <1>2 DEF Locals, local
<1>3. CASE pc' # "idle"
  <2>1. failed' \in BOOLEAN
    BY <1>1, <1>3
  <2>2. step' \in 1..7
    BY <1>1, <1>3 DEF Locals
  <2> QED BY <1>1, <1>3, <2>1, <2>2 DEF Locals
<1> QED BY <1>2, <1>3

LEMMA CommandsType ==
  /\ Len(Commands) \in {4, 6}
  /\ \A i \in 1..Len(Commands) : Commands[i] \in {"down", "queue", "clear", "set", "up", "start"}
<1> QED BY DEF Commands

LEMMA ProgramType ==
  ASSUME TypeOK, Program PROVE TypeOK'
<1> USE TypeParts, TypePartsNext
<1>1. Flags /\ Hardware /\ Locals /\ faults \in 0..MaxFaults
  OBVIOUS
<1>2. Locals' /\ failed' \in BOOLEAN
  <2>1. CASE Look \/ BindUnbound \/ PowerOff \/ PowerOn
    BY <1>1, <2>1 DEF Look, BindUnbound, PowerOff, PowerOn, Go, local, Locals, Flags
  <2>2. CASE Wait
    BY <1>1, <2>2, ConstantsAssumption
       DEF Wait, Go, End, local, Locals, Flags, Good, ConstantsAssumption
  <2>3. CASE Check \/ Read \/ Await \/ Probe
    BY <1>1, <2>3 DEF Check, Read, Await, Probe, Go, End, local, Locals, Flags, Good
  <2>4. CASE Unbind \/ BindBack \/ Appear
    <3>1. CASE ResetDone(FALSE) \/ ResetDone(Netdev)
      <4>1. Netdev \in BOOLEAN
        BY <1>1 DEF Netdev, Enumerated, Flags
      <4> QED BY <1>1, <3>1, <4>1, ResetDoneType DEF Flags
    <3>2. CASE ~(ResetDone(FALSE) \/ ResetDone(Netdev))
      BY <1>1, <2>4, <3>2 DEF Unbind, BindBack, Appear, Go, local, Locals, Flags
    <3> QED BY <3>1, <3>2
  <2>5. CASE Setup
    <3>1. step + 1 \in 1..7
      BY <1>1, <2>5, CommandsType DEF Setup, Locals
    <3> QED BY <1>1, <2>5, <3>1 DEF Setup, Go, End, local, Locals, Flags, Good
  <2>6. CASE SetupDone
    BY <1>1, <2>6 DEF SetupDone, Go, End, local, Locals, Flags, Good
  <2> QED BY <2>1, <2>2, <2>3, <2>4, <2>5, <2>6 DEF Program
<1>3. faults' \in 0..MaxFaults
  <2>1. UNCHANGED faults \/ (faults < MaxFaults /\ faults' = faults + 1)
    BY DEF Program, Look, Wait, BindUnbound, PowerOff, PowerOn, Check, Read, Unbind, BindBack,
       Appear, Setup, SetupDone, Await, Probe, Still
  <2> QED BY <1>1, <2>1, ConstantsAssumption DEF ConstantsAssumption
<1>4. UNCHANGED <<world, disturbed>>
  BY DEF Program, Look, Wait, BindUnbound, PowerOff, PowerOn, Check, Read, Unbind, BindBack,
     Appear, Setup, SetupDone, Await, Probe, Keep
<1>5. Hardware' /\ plugged' \in BOOLEAN /\ bound' \in BOOLEAN /\ kernlog' \in BOOLEAN
  <2>1. CASE UNCHANGED device
    BY <1>1, <1>4, <2>1 DEF device, usb, world, Hardware, Flags, Netdev, Enumerated
  <2>2. CASE Enumerated /\ Bind
    <3>1. fifo' \in {"clean", "degraded", "wedged", "stuck"}
      BY <1>1, <2>2 DEF Bind, Restarted, Hardware
    <3>2. plugged' = TRUE /\ port' = "on"
      BY <1>1, <2>2 DEF Bind, Enumerated, Flags
    <3>3. endpoint \in {"ok", "stalled"} /\ UNCHANGED endpoint /\ Attach(endpoint)
      BY <1>1, <2>2 DEF Bind, Hardware, Enumerated
    <3> QED BY <1>1, <1>4, <3>1, <3>2, <3>3, AttachType DEF Flags
  <2>3. CASE PowerOff \/ (Unbind /\ bound' = FALSE)
    BY <1>1, <1>4, <2>3 DEF PowerOff, Unbind, Gone, Hardware, Flags, Netdev, Enumerated, device, usb,
       world
  <2>4. CASE PowerOn
    <3>1. CASE plugged /\ endpoint # "dead"
      <4>1. /\ plugged' = TRUE /\ port' = "on" /\ endpoint' = "ok" /\ Attach("ok")
            /\ fifo' \in {"clean", "degraded", "wedged", "stuck"}
        BY <1>1, <2>4, <3>1 DEF PowerOn, Restarted, Flags, Hardware
      <4> QED BY <1>1, <1>4, <4>1, AttachType DEF Flags
    <3>2. CASE ~(plugged /\ endpoint # "dead")
      BY <1>1, <1>4, <2>4, <3>2 DEF PowerOn, Hardware, Flags, Netdev, Enumerated, world
    <3> QED BY <3>1, <3>2
  <2>5. CASE Setup
    <3>1. link' \in {"up", "down"} /\ (link' = "up" => link = "up" \/ Netdev)
      BY <1>1, <2>5, CommandsType DEF Setup, Works, Locals, Hardware
    <3> QED BY <1>1, <1>4, <2>5, <3>1 DEF Setup, Hardware, Flags, Netdev, Enumerated, usb, world
  <2> QED BY <2>1, <2>2, <2>3, <2>4, <2>5
          DEF Program, Look, Wait, BindUnbound, Unbound, Check, Read, Unbind, BindBack,
              Appear, SetupDone, Await, Probe, Still
<1> QED BY <1>1, <1>2, <1>3, <1>4, <1>5 DEF Flags

LEMMA StartType == ASSUME TypeOK, NEW p \in Programs, Start(p) PROVE TypeOK'
<1> USE TypeParts, TypePartsNext
<1>1. Flags' /\ Hardware' /\ faults' \in 0..MaxFaults
  BY DEF Start, device, usb, world, Flags, Hardware, Netdev, Enumerated
<1>2. pc' \in {"look", "read", "probe"}
  BY DEF Start
<1>3. 0 \in 0..WaitTimeout
  BY ConstantsAssumption DEF ConstantsAssumption
<1>4. Locals'
  BY <1>2, <1>3 DEF Start, Locals
<1> QED BY <1>1, <1>4

LEMMA KillType == ASSUME TypeOK, Kill PROVE TypeOK'
<1> USE TypeParts, TypePartsNext
<1>1. Flags' /\ Hardware' /\ faults' \in 0..MaxFaults
  BY FaultType DEF Kill, End, Fault, device, usb, world, local, Flags, Hardware, Netdev, Enumerated
<1>2. Locals'
  BY DEF Kill, End, local, Locals
<1> QED BY <1>1, <1>2

\* Adapter.TypeOK: a link is up, and a service at work, only on a netdev that is
\* there, whatever order the kernel, udev and the programs come in.
THEOREM TypesOK == Spec => []TypeOK
<1>1. Init => TypeOK
  <2>1. Init => Flags
    BY DEF Init, Flags
  <2>2. Init => Hardware
    BY DEF Init, Hardware, Netdev, Enumerated
  <2>3. Init => Locals /\ faults \in 0..MaxFaults
    BY ConstantsAssumption DEF Init, Locals, Programs, BringUps, ConstantsAssumption
  <2> QED BY <2>1, <2>2, <2>3, TypeParts
<1>2. TypeOK /\ UNCHANGED vars => TypeOK'
  <2> SUFFICES ASSUME TypeOK, UNCHANGED vars PROVE TypeOK'
    OBVIOUS
  <2> QED BY DEF vars, world, device, usb, run, local, TypeOK, Netdev, Enumerated
<1>3. TypeOK /\ [Next]_vars => TypeOK'
  BY <1>2, ProgramType, DeviceStepType, StartType, KillType DEF Next, Faulty
<1> QED BY <1>1, <1>3, PTL DEF Spec
-----------------------------------------------------------------------------
\* While nothing hits the adapter, a service that ends leaves the link up.
LEMMA ServiceStep ==
  ASSUME TypeOK, Safe, Service PROVE Safe'
<1>1. UNCHANGED <<world, usb, endpoint, fifo, run, disturbed>>
  BY DEF Service
<1>2. NetdevSeen' /\ NoCommandYet' /\ Granted' /\ Cleared'
  BY <1>1 DEF Safe, NetdevSeen, NoCommandYet, Granted, Cleared, Rebound, Netdev, Enumerated,
     world, usb, run, local
<1>3. (Up \/ service # "idle") => (Up' \/ service' # "idle")
  BY DEF TypeOK, Service, Up, Netdev, Enumerated, usb
<1> QED BY <1>1, <1>2, <1>3 DEF Safe, OkDrains, Rebound, world, run, local

LEMMA DisturbedStep ==
  ASSUME Safe, disturbed' = TRUE, UNCHANGED <<rig, run>> \/ pc' = "idle" PROVE Safe'
<1> QED BY DEF Safe, NoCommandYet, Early, NetdevSeen, Granted, Cleared, Rebound, OkDrains,
       run, local

LEMMA StillStep ==
  ASSUME Safe, UNCHANGED <<rig, usb, endpoint, fifo, link, service, run, disturbed>>,
         acked' \in {acked, TRUE}
  PROVE  Safe'
<1>1. (Netdev' <=> Netdev) /\ (Up' <=> Up) /\ (Rebound' <=> Rebound)
  BY DEF Netdev, Enumerated, Up, Rebound, usb, run, local
<1>2. UNCHANGED <<rig, prog, pc, step, failed, result, caller, fifo, service, disturbed>>
  BY DEF run, local
<1>3. NoCommandYet' /\ NetdevSeen' /\ Granted' /\ Cleared'
  BY <1>1, <1>2 DEF Safe, NoCommandYet, NetdevSeen, Granted, Cleared
<1>4. OkDrains'
  <2> SUFFICES ASSUME pc = "idle", result \in Good, ~disturbed, rig.tc
               PROVE  /\ fifo \in {"clean", "degraded"} /\ acked' /\ (Up' \/ service # "idle")
                      /\ result = "ok" /\ Rebound' => fifo = "clean"
    BY <1>2 DEF OkDrains, Good
  <2> QED BY <1>1 DEF Safe, OkDrains
<1> QED BY <1>3, <1>4 DEF Safe

\* A program on its way, outside of a rebind, the setup and the probe.
LEMMA OnTheWay ==
  ASSUME Safe, pc' \notin {"idle", "setup", "probe", "bind", "appear", "await"},
         pc' \in Early => \/ pc \in Early /\ UNCHANGED <<step, prog>>
                          \/ step' = 1 /\ prog' \in BringUps
  PROVE  Safe'
<1> QED BY DEF Safe, NoCommandYet, Early, NetdevSeen, Granted, Cleared, OkDrains

LEMMA FailedEnd ==
  ASSUME NEW how, how \notin Good, End(how) PROVE Safe'
<1> QED BY DEF Safe, NoCommandYet, Early, NetdevSeen, Granted, Cleared, OkDrains, End

LEMMA GoodEnd ==
  ASSUME NEW how, End(how), Keep, Still,
         rig.tc /\ ~disturbed => /\ Up /\ acked /\ fifo \in {"clean", "degraded"}
                                 /\ how = "ok" /\ Rebound => fifo = "clean"
  PROVE  Safe'
<1>1. NoCommandYet' /\ NetdevSeen' /\ Granted' /\ Cleared'
  BY DEF NoCommandYet, Early, NetdevSeen, Granted, Cleared, End
<1>2. UNCHANGED <<rig, acked, disturbed, device, prog, caller>> /\ result' = how
  BY DEF End, Keep, Still, world, local
<1>3. (Up <=> Up') /\ (Rebound <=> Rebound')
  BY <1>2 DEF Up, Netdev, Enumerated, Rebound, device, usb
<1> QED BY <1>1, <1>2, <1>3 DEF Safe, OkDrains, device

\* What the rebind has left behind, wherever the program goes with it.
LEMMA ToBindOrAppear ==
  ASSUME pc' \in {"bind", "appear"}, rig'.sudo,
         ~disturbed' => /\ pc' = "bind" => ~Netdev'
                        /\ pc' = "appear" /\ Netdev' => fifo' # "degraded"
  PROVE  Safe'
<1> QED BY DEF Safe, NoCommandYet, Early, NetdevSeen, Granted, Cleared, OkDrains

LEMMA ToAwait ==
  ASSUME pc' = "await", rig'.sudo,
         ~disturbed' /\ Rebound' /\ Netdev' => fifo' # "degraded"
  PROVE  Safe'
<1> QED BY DEF Safe, NoCommandYet, Early, NetdevSeen, Granted, Cleared, OkDrains

\* A program that goes on to a setup has its commands before it, or has seen the
\* netdev while it worked through them.
LEMMA ToSetup ==
  ASSUME pc' = "setup",
         ~failed' /\ step' > 1 => /\ rig'.sudo
                                  /\ prog' # "tx_health" /\ ~disturbed' => Netdev',
         ~disturbed' /\ Rebound' /\ Netdev' /\ rig'.sudo => fifo' # "degraded"
  PROVE  Safe'
<1> QED BY DEF Safe, NoCommandYet, Early, NetdevSeen, Granted, Cleared, OkDrains

LEMMA ToProbe ==
  ASSUME pc' = "probe", prog' # "tx_health" /\ ~disturbed' => Netdev',
         Rebound' => /\ rig'.sudo
                     /\ ~disturbed' /\ Netdev' => fifo' # "degraded"
  PROVE  Safe'
<1> QED BY DEF Safe, NoCommandYet, Early, NetdevSeen, Granted, Cleared, OkDrains

\* After a reset the setup starts over, or the program waits for the service.
LEMMA ResetDoneStep ==
  ASSUME TypeOK, Safe, NEW ok \in BOOLEAN, ResetDone(ok), UNCHANGED device, Keep,
         ok => rig.sudo,
         ~disturbed /\ Rebound /\ Netdev /\ rig.sudo => fifo # "degraded"
  PROVE  Safe'
<1>1. CASE End("warned") \/ End("failed")
  BY <1>1, FailedEnd DEF Good
<1>2. CASE ~(End("warned") \/ End("failed"))
  <2>1. UNCHANGED <<rig, disturbed, device, prog, caller>>
    BY <1>2 DEF ResetDone, Go, Keep, world, local
  <2>2. (Rebound <=> Rebound') /\ (Netdev <=> Netdev') /\ fifo' = fifo /\ rig' = rig
    BY <2>1 DEF Rebound, Netdev, Enumerated, device, usb
  <2>3. \/ pc' = "setup" /\ step' = 1
        \/ pc' = "setup" /\ prog = "tx_health" /\ ok
        \/ pc' = "await" /\ ok
    BY <1>2, TypeParts DEF ResetDone, Go, Locals, Programs
  <2>4. CASE pc' = "setup"
    BY <2>1, <2>2, <2>3, <2>4, ToSetup
  <2>5. CASE pc' = "await"
    BY <2>1, <2>2, <2>3, <2>5, ToAwait
  <2> QED BY <2>3, <2>4, <2>5
<1> QED BY <1>1, <1>2

\* Behind the writes: the driver that has taken the adapter has a FIFO it cleared.
LEMMA BindClears ==
  ASSUME Hardware, Bind, bound' PROVE fifo' # "degraded"
<1>1. endpoint = "ok"
  BY DEF Bind, Attach
<1> QED BY <1>1 DEF Bind, Restarted

LEMMA RebindStep ==
  ASSUME TypeOK, Safe, Unbind \/ BindBack \/ Appear PROVE Safe'
<1>1. Hardware /\ Netdev \in BOOLEAN /\ Keep
  BY TypeParts DEF Unbind, BindBack, Appear, Flags, Netdev, Enumerated
<1>2. CASE Unbind
  <2>1. CASE rig.gs /\ rig.sudo /\ Netdev
    <3>1. pc' = "bind" /\ rig'.sudo /\ ~Netdev'
      BY <1>1, <1>2, <2>1 DEF Unbind, Go, Keep, world, Netdev
    <3> QED BY <3>1, ToBindOrAppear
  <2>2. CASE ~(rig.gs /\ rig.sudo /\ Netdev)
    <3>1. ~(Rebound /\ Netdev /\ rig.sudo)
      BY <2>2 DEF Rebound
    <3>2. ResetDone(FALSE) /\ UNCHANGED device
      BY <1>2, <2>2 DEF Unbind
    <3> QED BY <1>1, <3>1, <3>2, ResetDoneStep
  <2> QED BY <2>1, <2>2
<1>3. CASE BindBack
  <2>1. rig.sudo /\ (~disturbed => ~Netdev)
    BY <1>3 DEF BindBack, Safe, Granted, Cleared
  <2>2. CASE Go("appear") /\ Bind
    <3>1. Netdev' => fifo' # "degraded"
      BY <1>1, <2>2, BindClears DEF Netdev
    <3>2. pc' = "appear" /\ rig'.sudo
      BY <1>1, <2>1, <2>2 DEF Go, Keep, world
    <3> QED BY <3>1, <3>2, ToBindOrAppear
  <2>3. CASE ResetDone(FALSE) /\ UNCHANGED device
    BY <1>1, <2>1, <2>3, ResetDoneStep
  <2> QED BY <1>3, <2>2, <2>3 DEF BindBack
<1>4. CASE Appear
  <2>1. rig.sudo /\ (~disturbed /\ Rebound /\ Netdev => fifo # "degraded")
    BY <1>4 DEF Appear, Safe, Granted, Cleared
  <2>2. ResetDone(Netdev) /\ UNCHANGED device
    BY <1>4 DEF Appear, Still
  <2> QED BY <1>1, <2>1, <2>2, ResetDoneStep
<1> QED BY <1>2, <1>3, <1>4

\* A frame that counted went out on a bus that takes it.
LEMMA ProbeTrue ==
  ASSUME Measured, TRUE \in ProbeSays
  PROVE  Up /\ acked /\ fifo \in {"clean", "degraded"}
<1> QED BY DEF ProbeSays

LEMMA SetupStep ==
  ASSUME TypeOK, Safe, Setup PROVE Safe'
<1>1. CASE End("failed")
  BY <1>1, FailedEnd DEF Good
<1>2. CASE ~End("failed")
  <2>1. /\ pc = "setup" /\ pc' = "setup"
        /\ UNCHANGED <<rig, prog, caller, usb, endpoint, fifo, disturbed>>
        /\ ~failed' => rig.sudo /\ Netdev
    BY <1>2 DEF Setup, Works, Go, Keep, world
  <2>2. (Rebound <=> Rebound') /\ (Netdev <=> Netdev')
    BY <2>1 DEF Rebound, Netdev, Enumerated, usb
  <2>3. ~disturbed /\ Rebound /\ Netdev /\ rig.sudo => fifo # "degraded"
    BY <2>1 DEF Safe, Cleared
  <2> QED BY <2>1, <2>2, <2>3, ToSetup
<1> QED BY <1>1, <1>2

LEMMA SetupDoneStep ==
  ASSUME TypeOK, Safe, SetupDone PROVE Safe'
<1>1. CASE End("error")
  BY <1>1, FailedEnd DEF Good
<1>2. CASE ~End("error")
  <2>1. step > 1
    <3>1. step \in 1..7 /\ step > Len(Commands)
      BY TypeParts DEF SetupDone, Locals
    <3>2. Len(Commands) = 4 \/ Len(Commands) = 6
      BY CommandsType
    <3> QED BY <3>1, <3>2
  <2>2. /\ pc = "setup" /\ pc' = "probe" /\ ~failed
        /\ UNCHANGED <<rig, prog, caller, usb, endpoint, fifo, disturbed>>
    BY <1>2 DEF SetupDone, Go, Still, Keep, device, world, local
  <2>3. (Rebound <=> Rebound') /\ (Netdev <=> Netdev')
    BY <2>2 DEF Rebound, Netdev, Enumerated, usb
  <2>4. rig.sudo /\ (prog # "tx_health" /\ ~disturbed => Netdev)
    BY <2>1, <2>2 DEF Safe, NetdevSeen, Granted
  <2>5. ~disturbed /\ Rebound /\ Netdev => fifo # "degraded"
    BY <2>2, <2>4 DEF Safe, Cleared
  <2> QED BY <2>2, <2>3, <2>4, <2>5, ToProbe
<1> QED BY <1>1, <1>2

LEMMA ProbeStep ==
  ASSUME TypeOK, Safe, Probe PROVE Safe'
<1>1. PICK ok \in ProbeSays :
        IF Passes(ok) THEN End("ok")
        ELSE IF caller = (IF prog = "tx_health" THEN "-" ELSE "first") /\ prog \notin Fixes
        THEN Go("unbind") /\ caller' = "again" /\ UNCHANGED <<attempts, step, failed>>
        ELSE End(IF prog \in BringUps THEN "warned" ELSE "failed")
  BY DEF Probe
<1>2. pc = "probe" /\ Keep /\ Still /\ ok \in BOOLEAN
  BY <1>1 DEF Probe, ProbeSays
<1>3. CASE Passes(ok)
  <2>1. ASSUME rig.tc, ~disturbed
        PROVE  /\ Up /\ acked /\ fifo \in {"clean", "degraded"}
               /\ Rebound => fifo = "clean"
    <3>1. Measured
      BY <1>2, <1>3, <2>1 DEF Passes, Measured, Safe, NetdevSeen
    <3>2. Up /\ acked /\ fifo \in {"clean", "degraded"}
      BY <1>1, <1>2, <1>3, <3>1, ProbeTrue DEF Passes
    <3>3. Rebound => fifo # "degraded"
      BY <1>2, <2>1, <3>1 DEF Safe, Granted, Cleared, Measured
    <3> QED BY <3>2, <3>3
  <2> QED BY <1>1, <1>2, <1>3, <2>1, GoodEnd
<1>4. CASE ~Passes(ok)
  <2>1. End("warned") \/ End("failed") \/ pc' = "unbind"
    BY <1>1, <1>4 DEF Go
  <2> QED BY <2>1, OnTheWay, FailedEnd DEF Good, Early
<1> QED BY <1>3, <1>4

LEMMA CheckStep ==
  ASSUME TypeOK, Safe, Check PROVE Safe'
<1>1. PICK ok \in ProbeSays :
        IF prog = "adopt" /\ BusReady(ok) THEN End("adopted")
        ELSE /\ Go(IF rig.gs /\ Netdev /\ ~rig.skip THEN "unbind" ELSE "setup")
             /\ caller' = "first" /\ UNCHANGED <<attempts, step, failed>>
  BY DEF Check
<1>2. pc = "check" /\ Keep /\ Still /\ ok \in BOOLEAN
  BY <1>1 DEF Check, ProbeSays
<1>3. CASE prog = "adopt" /\ BusReady(ok)
  <2>1. Up /\ acked /\ fifo \in {"clean", "degraded"}
    BY <1>1, <1>2, <1>3, ProbeTrue DEF BusReady
  <2> QED BY <1>1, <1>2, <1>3, <2>1, GoodEnd
<1>4. CASE ~(prog = "adopt" /\ BusReady(ok))
  <2>1. /\ pc' = (IF rig.gs /\ Netdev /\ ~rig.skip THEN "unbind" ELSE "setup")
        /\ caller' = "first" /\ UNCHANGED <<rig, prog, step, device>>
    BY <1>1, <1>2, <1>4 DEF Go, Keep, Still, world
  <2>2. step = 1 /\ prog \in BringUps
    BY <1>2 DEF Safe, NoCommandYet, Early
  <2>3. ~(rig.gs /\ Netdev /\ ~rig.skip) => ~(Rebound' /\ Netdev')
    BY <2>1, <2>2 DEF Rebound, Netdev, Enumerated, device, usb, BringUps, Fixes
  <2> QED BY <2>1, <2>2, <2>3, OnTheWay, ToSetup DEF Early
<1> QED BY <1>3, <1>4

LEMMA ReadStep ==
  ASSUME TypeOK, Safe, Read PROVE Safe'
<1>1. PICK ok \in ProbeSays :
        IF ~Netdev \/ ~rig.gs THEN End("failed")
        ELSE IF Up /\ ok /\ prog = "canfix" THEN End("healthy")
        ELSE Go("unbind") /\ caller' = "first" /\ UNCHANGED <<attempts, step, failed>>
  BY DEF Read
<1>2. Keep /\ Still /\ ok \in BOOLEAN
  BY <1>1 DEF Read, ProbeSays
<1>3. CASE End("failed") \/ Go("unbind")
  BY <1>3, OnTheWay, FailedEnd DEF Good, Early, Go
<1>4. CASE ~(End("failed") \/ Go("unbind"))
  <2>1. Up /\ ok /\ End("healthy")
    BY <1>1, <1>4
  <2>2. rig.tc => acked /\ fifo \in {"clean", "degraded"}
    BY <1>1, <1>2, <2>1, ProbeTrue DEF Measured, Up
  <2> QED BY <1>2, <2>1, <2>2, GoodEnd
<1> QED BY <1>3, <1>4

LEMMA AwaitStep ==
  ASSUME TypeOK, Safe, Await PROVE Safe'
<1>1. CASE Up
  <2>1. /\ pc = "await" /\ pc' = "probe"
        /\ UNCHANGED <<rig, prog, caller, device, disturbed>>
    BY <1>1 DEF Await, Go, Still, Keep, world, local
  <2>2. (Rebound <=> Rebound') /\ (Netdev <=> Netdev') /\ fifo' = fifo
    BY <2>1 DEF Rebound, Netdev, Enumerated, device, usb
  <2>3. rig.sudo /\ (~disturbed /\ Rebound /\ Netdev => fifo # "degraded")
    BY <2>1 DEF Safe, Granted, Cleared
  <2> QED BY <1>1, <2>1, <2>2, <2>3, ToProbe DEF Up
<1>2. CASE ~Up
  BY <1>2, FailedEnd DEF Await, Good
<1> QED BY <1>1, <1>2

LEMMA ProgramStep ==
  ASSUME TypeOK, Safe, Program PROVE Safe'
<1>1. CASE Look
  BY <1>1, OnTheWay DEF Look, Go, local, Early
<1>2. CASE Wait
  <2>1. \/ End("missing")
        \/ pc = "wait" /\ pc' \in {"check", "unbound", "wait"} /\ UNCHANGED <<step, prog>>
    BY <1>2 DEF Wait, Go, local
  <2> QED BY <2>1, OnTheWay, FailedEnd DEF Good, Early
<1>3. CASE BindUnbound \/ PowerOff \/ PowerOn
  BY <1>3, OnTheWay DEF BindUnbound, PowerOff, PowerOn, Go, local, Early
<1> QED BY <1>1, <1>2, <1>3, CheckStep, ReadStep, RebindStep, SetupStep, SetupDoneStep, AwaitStep,
       ProbeStep DEF Program

LEMMA StartStep == ASSUME Safe, NEW p \in Programs, Start(p) PROVE Safe'
<1>1. CASE p = "tx_health"
  <2>1. pc' = "probe" /\ prog' = "tx_health" /\ ~Rebound'
    BY <1>1 DEF Start, BringUps, Fixes, Rebound
  <2> QED BY <2>1, ToProbe
<1>2. CASE p # "tx_health"
  <2>1. step' = 1 /\ (pc' = "read" \/ (pc' = "look" /\ prog' \in BringUps))
    BY <1>2 DEF Start, Programs
  <2> QED BY <2>1, OnTheWay DEF Early
<1> QED BY <1>1, <1>2

\* Adapter.OkDrains: a program that says the adapter drains has seen it drain, and
\* one that has rebound the driver leaves a clean adapter, whatever failed in between.
THEOREM OkMeansDrains == Spec => []OkDrains
<1>1. Init => Safe
  BY DEF Init, Safe, NetdevSeen, NoCommandYet, Granted, Cleared, OkDrains, Early, Good
<1>2. TypeOK /\ Safe /\ [Next]_vars => Safe'
  <2> SUFFICES ASSUME TypeOK, Safe, [Next]_vars PROVE Safe'
    OBVIOUS
  <2>1. CASE Wedge \/ Die \/ BusDown \/ Unplug \/ Replug \/ Reenumerate
    BY <2>1, DisturbedStep
       DEF Wedge, Die, BusDown, Unplug, Replug, Reenumerate, Fault, world
  <2>2. CASE Kill
    BY <2>2, DisturbedStep DEF Kill, Fault, End
  <2>3. CASE LogMovesOn
    BY <2>3, StillStep DEF LogMovesOn, world
  <2>4. CASE UNCHANGED vars \/ BusUp
    BY <2>4, StillStep DEF vars, world, BusUp, device
  <2> QED BY <2>1, <2>2, <2>3, <2>4, ServiceStep, ProgramStep, StartStep DEF Next, Faulty
<1> QED BY <1>1, <1>2, TypesOK, PTL DEF Spec, Safe
=============================================================================
