---------------------------- MODULE FrameRouting ----------------------------
(***************************************************************************)
(* One Controller object behind SparkBus.route_frame.  The receive thread  *)
(* files the status frames of one SPARK, learns its firmware generation    *)
(* from them and re-points the object at that generation's layout, while   *)
(* other threads read the object without a lock.                           *)
(***************************************************************************)
EXTENDS Naturals, Sequences

CONSTANTS
  Types,        \* controller_types the application may declare
  Firmwares,    \* what the device may run at first
  MaxWire,      \* frames that fit into the socket
  MaxReflash    \* how often the firmware changes while the object lives

Layouts == {"max", "flex"}
Generations == {"pre25", "fw25"}

ASSUME RoutingAssumption ==
  /\ Types \subseteq Layouts
  /\ Firmwares \subseteq Generations
  /\ MaxWire \in Nat \ {0}
  /\ MaxReflash \in Nat

VARIABLES
  firmware,   \* what the device runs
  reflashes,  \* how often that changed
  wire,       \* frames the socket holds
  declared,   \* controller_type
  observed,   \* _observed_generation
  points,     \* whose layout each attribute _apply_config sets comes from
  decoded,    \* the apis decoded into the statuses dictionary in use
  raw0, raw1, \* _status0_raw and _status1_raw: what their bytes are
  monitor,    \* where route_frame is
  frame,      \* the frame it has
  step        \* the attribute _apply_config sets next

device == <<firmware, reflashes>>
object == <<observed, points, decoded, raw0, raw1>>
router == <<monitor, frame, step>>
vars == <<device, wire, declared, object, router>>

-----------------------------------------------------------------------------
(* _CONFIGS.                                                               *)

S0 == [max |-> "060", flex |-> "2E0"]
S1 == [max |-> "061", flex |-> "2E1"]
S2 == [max |-> "062", flex |-> "2E2"]

\* velocity_from and position_from.
Quantities == {"velocity", "position"}
ApiOf(q, l) == IF l = "max" /\ q = "velocity" THEN S1[l] ELSE S2[l]
IndexOf(q, l) == IF l = "flex" /\ q = "position" THEN 1 ELSE 0

\* The apis with a Status object.
Decodes(l) == IF l = "flex" THEN {S2[l]} ELSE {S1[l], S2[l]}

ModernApis == {"2E0", "2E1", "2E2", "2F0"}
LegacyOnlyApis == {"061", "062"}
Apis == ModernApis \cup LegacyOnlyApis \cup {"060"}

\* Firmware 25.0.0 to 26.1.3 still sends 0x060, as a presence beacon.
Sends(f) == {"060"} \cup (IF f = "fw25" THEN ModernApis ELSE LegacyOnlyApis)
Payload(f, api) == IF f = "fw25" /\ api = "060" THEN "beacon" ELSE f
Payloads == Generations \cup {"beacon"}
Frames == [api : Apis, payload : Payloads]
NoFrame == [api |-> "-", payload |-> "-"]

\* The attributes in the order _apply_config sets them.
Attributes == {"active", "s0", "s1", "velocity api", "velocity index",
               "position api", "position index", "statuses"}

\* Mutant: the dictionary is replaced before the sources that index it.
StatusesEarly == <<"active", "s0", "s1", "velocity api", "statuses", "velocity index",
                   "position api", "position index">>

Order == <<"active", "s0", "s1", "velocity api", "velocity index",
           "position api", "position index", "statuses">>

\* Mutant: what was observed once stays.
ObservedOnce(api) ==
  IF observed # "none" THEN observed
  ELSE IF api \in ModernApis THEN "fw25"
  ELSE IF api \in LegacyOnlyApis THEN "pre25" ELSE observed

\* note_frame_api: 0x060 does not decide.
Observed(api) ==
  IF api \in ModernApis THEN "fw25"
  ELSE IF api \in LegacyOnlyApis THEN "pre25" ELSE observed

\* _modern and _config_for_generation, of a generation.
Modern(g) == IF g # "none" THEN g = "fw25" ELSE declared = "flex"

\* Mutant: the layouts are keyed by generation.
LayoutByName(g) == IF g # "none" THEN g ELSE declared

LayoutFor(g) == IF Modern(g) THEN "flex" ELSE "max"

Init ==
  /\ firmware \in Firmwares /\ reflashes = 0 /\ wire = <<>>
  /\ declared \in Types /\ observed = "none"
  /\ points = [a \in Attributes |-> declared] /\ decoded = {}
  /\ raw0 = "none" /\ raw1 = "none"
  /\ monitor = "recv" /\ frame = NoFrame /\ step = 1

-----------------------------------------------------------------------------
(* The device.                                                             *)

Emit(api) ==
  /\ api \in Sends(firmware) /\ Len(wire) < MaxWire
  /\ wire' = Append(wire, [api |-> api, payload |-> Payload(firmware, api)])
  /\ UNCHANGED <<device, declared, object, router>>

\* An update, or a controller that goes back to its old firmware on its own.
Reflash ==
  /\ reflashes < MaxReflash /\ reflashes' = reflashes + 1
  /\ firmware' \in Generations \ {firmware}
  /\ UNCHANGED <<wire, declared, object, router>>

-----------------------------------------------------------------------------
(* The receive thread.                                                     *)

\* Mutant: the layout is re-pointed only for what was never observed before.
RepointFirst(g) == observed = "none" /\ LayoutFor(g) # points["active"]

Repoint(g) == observed # g /\ LayoutFor(g) # points["active"]

\* bus.recv, route_frame up to note_frame_api's decision.
Recv ==
  /\ monitor = "recv" /\ wire # <<>>
  /\ frame' = Head(wire) /\ wire' = Tail(wire)
  /\ LET g == Observed(Head(wire).api) IN
     /\ observed' = g
     /\ monitor' = IF Repoint(g) THEN "apply" ELSE "file"
  /\ UNCHANGED <<device, declared, points, decoded, raw0, raw1, step>>

\* _apply_config, one attribute at a time.
Apply ==
  /\ monitor = "apply"
  /\ points' = [points EXCEPT ![Order[step]] = LayoutFor(observed)]
  /\ decoded' = IF Order[step] = "statuses" THEN {} ELSE decoded
  /\ IF step < Len(Order) THEN step' = step + 1 /\ UNCHANGED monitor
     ELSE step' = 1 /\ monitor' = "file"
  /\ UNCHANGED <<device, wire, declared, observed, raw0, raw1, frame>>

\* Mutant: both products' STATUS_0 are kept, whatever the generation.
FilesEither(api) == api \in {"060", "2E0"}

FilesStatus0(api) == api \in {S0[points["s0"]], "2E0"}

FilesStatus1(api) == ~FilesStatus0(api) /\ api \in {S1[points["s1"]], "2E1"}

\* route_frame to its end: the raw buffers, then Status.decode.
File ==
  /\ monitor = "file" /\ monitor' = "recv" /\ frame' = NoFrame
  /\ raw0' = IF FilesStatus0(frame.api) THEN frame.payload ELSE raw0
  /\ raw1' = IF FilesStatus1(frame.api) THEN frame.payload ELSE raw1
  /\ decoded' = decoded \cup ({frame.api} \cap Decodes(points["statuses"]))
  /\ UNCHANGED <<device, wire, declared, observed, points, step>>

Monitor == Recv \/ Apply \/ File

Next == (\E api \in Apis : Emit(api)) \/ Reflash \/ Monitor

\* The device broadcasts its status frames by its own clock, and the socket has
\* room again and again.
Fairness ==
  /\ WF_vars(Monitor)
  /\ \A api \in Apis \ {"2F0"} : SF_vars(Emit(api))

Spec == Init /\ [][Next]_vars /\ Fairness

-----------------------------------------------------------------------------
TypeOK ==
  /\ firmware \in Generations /\ reflashes \in 0..MaxReflash
  /\ wire \in Seq(Frames) /\ Len(wire) <= MaxWire
  /\ declared \in Layouts
  /\ observed \in Generations \cup {"none"}
  /\ points \in [Attributes -> Layouts]
  /\ decoded \in SUBSET Apis
  /\ raw0 \in Payloads \cup {"none"} /\ raw1 \in Payloads \cup {"none"}
  /\ monitor \in {"recv", "apply", "file"}
  /\ frame \in Frames \cup {NoFrame}
  /\ step \in 1..Len(Order)

\* Between two frames every attribute belongs to the layout the wire has shown,
\* or to the declared one while nothing was decided ("re-point the layout when
\* the wire contradicts the configured product", note_frame_api).
LayoutFollowsWire ==
  monitor = "recv" => \A a \in Attributes : points[a] = LayoutFor(observed)

ApiAttribute == [velocity |-> "velocity api", position |-> "position api"]
IndexAttribute == [velocity |-> "velocity index", position |-> "position index"]

\* velocity and position index self.statuses with two more attributes, which they
\* read in one go: CPython from 3.10 on changes threads at calls and loops, and
\* neither has one.  However many attributes _apply_config has already set, they
\* raise KeyError or return the quantity asked for, never the other one.
ReadsWhatAsked ==
  \A q \in Quantities :
    LET l == points["statuses"]
        api == ApiOf(q, points[ApiAttribute[q]])
    IN api \in Decodes(l) =>
         api = ApiOf(q, l) /\ IndexOf(q, points[IndexAttribute[q]]) = IndexOf(q, l)

\* What the decoders of a generation can tell apart: the pre-25 one knows the
\* beacon, the 25+ one knows only its own frames.
Readable0 == raw0 \in {"none"} \cup (IF Modern(observed) THEN {"fw25"} ELSE {"pre25", "beacon"})
Readable1 == raw1 \in {"none"} \cup (IF Modern(observed) THEN {"fw25"} ELSE {"pre25"})

\* While the generation stands, a buffer that can be read stays so: no frame of
\* the other generation, and no beacon, replaces it.
StaysReadable ==
  [][observed' = observed => (Readable0 => Readable0') /\ (Readable1 => Readable1')]_vars

\* A device that keeps sending its status frames is in the end read by its own
\* layout, whatever was declared and however its firmware changed meanwhile, and
\* velocity and position come from frames.
Settles ==
  <>[](/\ observed = firmware /\ Readable0 /\ Readable1
       /\ \A q \in Quantities :
            points[ApiAttribute[q]] = LayoutFor(firmware)
            /\ ApiOf(q, LayoutFor(firmware)) \in decoded)
=============================================================================
