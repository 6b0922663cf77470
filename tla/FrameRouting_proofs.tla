------------------------ MODULE FrameRouting_proofs ------------------------
(***************************************************************************)
(* Proofs about FrameRouting, for every set of declared types and of       *)
(* firmwares and every size of the socket's buffer.                        *)
(***************************************************************************)
EXTENDS FrameRouting, SequenceTheorems, TLAPS

\* TypeOK, and that route_frame has a frame.
TypeInv ==
  /\ TypeOK
  /\ monitor # "recv" => frame \in Frames

\* _apply_config is step - 1 attributes on its way to the observed layout, and
\* the others are still of the layout the dictionary in use is of.
Progress ==
  /\ monitor # "apply" =>
       step = 1 /\ \A a \in Attributes : points[a] = LayoutFor(observed)
  /\ monitor = "apply" =>
       /\ \A j \in 1..(step - 1) : points[Order[j]] = LayoutFor(observed)
       /\ \A j \in step..8 : points[Order[j]] = points["statuses"]

LEMMA OrderFacts ==
  /\ Len(Order) = 8 /\ \A j \in 1..8 : Order[j] \in Attributes
  /\ \A a \in Attributes : \E j \in 1..8 : Order[j] = a
  /\ Order[4] = "velocity api" /\ Order[5] = "velocity index"
  /\ Order[6] = "position api" /\ Order[7] = "position index"
  /\ Order[8] = "statuses" /\ \A j \in 1..7 : Order[j] # "statuses"
  /\ \A i, j \in 1..8 : Order[i] = Order[j] => i = j
<1>1. /\ Order[1] = "active" /\ Order[2] = "s0" /\ Order[3] = "s1"
      /\ Order[4] = "velocity api" /\ Order[5] = "velocity index"
      /\ Order[6] = "position api" /\ Order[7] = "position index" /\ Order[8] = "statuses"
  BY DEF Order
<1>2. Len(Order) = 8
  BY DEF Order
<1>3. \A j \in 1..8 : j = 1 \/ j = 2 \/ j = 3 \/ j = 4 \/ j = 5 \/ j = 6 \/ j = 7 \/ j = 8
  OBVIOUS
<1>4. \A j \in 1..8 : Order[j] \in Attributes
  BY <1>1, <1>3 DEF Attributes
<1>5. \A a \in Attributes : a \in {Order[1], Order[2], Order[3], Order[4],
                                   Order[5], Order[6], Order[7], Order[8]}
  BY <1>1, Zenon DEF Attributes
<1>6. 1 \in 1..8 /\ 2 \in 1..8 /\ 3 \in 1..8 /\ 4 \in 1..8 /\ 5 \in 1..8 /\ 6 \in 1..8
      /\ 7 \in 1..8 /\ 8 \in 1..8
  OBVIOUS
<1>7. \A a \in Attributes : \E j \in 1..8 : Order[j] = a
  BY <1>5, <1>6, Zenon
<1>8. \A j \in 1..7 : Order[j] # "statuses"
  <2>1. \A j \in 1..7 : j = 1 \/ j = 2 \/ j = 3 \/ j = 4 \/ j = 5 \/ j = 6 \/ j = 7
    OBVIOUS
  <2> QED BY <1>1, <2>1
<1>9. \A i, j \in 1..8 : Order[i] = Order[j] => i = j
  BY <1>1, <1>3
<1> QED BY <1>1, <1>2, <1>4, <1>7, <1>8, <1>9

LEMMA OrderType == Len(Order) = 8 /\ \A j \in 1..8 : Order[j] \in Attributes
<1> QED BY OrderFacts, Zenon

LEMMA LayoutForType == \A g : LayoutFor(g) \in Layouts
<1> QED BY DEF LayoutFor, Layouts

LEMMA ObservedType == TypeOK => \A api : Observed(api) \in Generations \cup {"none"}
<1> QED BY DEF TypeOK, Observed, Generations

LEMMA InitInv == Init => TypeInv /\ Progress
<1> SUFFICES ASSUME Init PROVE TypeInv /\ Progress
  OBVIOUS
<1>1. declared \in Layouts /\ firmware \in Generations
  BY RoutingAssumption DEF Init
<1>2. wire \in Seq(Frames) /\ Len(wire) <= MaxWire
  BY RoutingAssumption DEF Init
<1>3. points = [a \in Attributes |-> declared]
  BY DEF Init
<1>4. LayoutFor("none") = declared
  BY <1>1 DEF LayoutFor, Modern, Layouts
<1>5. step \in 1..Len(Order) /\ reflashes \in 0..MaxReflash
  BY OrderType, RoutingAssumption DEF Init
<1>6. TypeInv
  BY <1>1, <1>2, <1>3, <1>5 DEF Init, TypeInv, TypeOK
<1>7. Progress
  BY <1>3, <1>4 DEF Init, Progress
<1> QED BY <1>6, <1>7

\* The type invariant, action by action.
LEMMA DeviceType ==
  ASSUME TypeInv, (\E api \in Apis : Emit(api)) \/ Reflash
  PROVE  TypeInv'
<1>1. /\ firmware' \in Generations /\ reflashes' \in 0..MaxReflash
      /\ wire' \in Seq(Frames) /\ Len(wire') <= MaxWire
  <2>1. CASE Reflash
    <3>1. firmware' \in Generations /\ UNCHANGED wire
      BY <2>1 DEF Reflash
    <3>2. reflashes' \in 0..MaxReflash
      BY <2>1, RoutingAssumption DEF Reflash, TypeInv, TypeOK
    <3> QED BY <3>1, <3>2 DEF TypeInv, TypeOK
  <2>2. ASSUME NEW api \in Apis, Emit(api)
        PROVE  /\ firmware' \in Generations /\ reflashes' \in 0..MaxReflash
               /\ wire' \in Seq(Frames) /\ Len(wire') <= MaxWire
    <3> DEFINE f == [api |-> api, payload |-> Payload(firmware, api)]
    <3>1. f \in Frames
      BY DEF Payload, Payloads, Frames, TypeInv, TypeOK
    <3>2. /\ wire \in Seq(Frames) /\ Len(wire) < MaxWire /\ wire' = Append(wire, f)
          /\ firmware' = firmware /\ reflashes' = reflashes
      BY <2>2 DEF Emit, TypeInv, TypeOK, device
    <3>3. Len(wire') = Len(wire) + 1 /\ wire' \in Seq(Frames)
      BY <3>1, <3>2, AppendProperties
    <3>4. Len(wire) \in Nat /\ MaxWire \in Nat
      BY <3>2, LenProperties, RoutingAssumption
    <3> QED BY <3>2, <3>3, <3>4 DEF TypeInv, TypeOK
  <2> QED BY <2>1, <2>2
<1>2. UNCHANGED <<declared, observed, points, decoded, raw0, raw1, monitor, frame, step>>
  BY DEF Emit, Reflash, object, router
<1> QED BY <1>1, <1>2 DEF TypeInv, TypeOK

LEMMA RecvType ==
  ASSUME TypeInv, Recv
  PROVE  TypeInv'
<1>1. frame' \in Frames /\ wire' \in Seq(Frames) /\ Len(wire') <= MaxWire
  <2>1. wire \in Seq(Frames) /\ wire # <<>> /\ Len(wire) <= MaxWire
        /\ frame' = Head(wire) /\ wire' = Tail(wire)
    BY DEF Recv, TypeInv, TypeOK
  <2>2. Head(wire) \in Frames /\ Tail(wire) \in Seq(Frames) /\ Len(Tail(wire)) = Len(wire) - 1
    BY <2>1, HeadTailProperties
  <2>3. Len(wire) \in Nat /\ MaxWire \in Nat
    BY <2>1, LenProperties, RoutingAssumption
  <2> QED BY <2>1, <2>2, <2>3
<1>2. observed' \in Generations \cup {"none"}
  BY ObservedType DEF Recv, TypeInv
<1>3. monitor' \in {"apply", "file"}
  BY DEF Recv
<1>4. UNCHANGED <<firmware, reflashes, declared, points, decoded, raw0, raw1, step>>
  BY DEF Recv, device
<1> QED BY <1>1, <1>2, <1>3, <1>4 DEF TypeInv, TypeOK

LEMMA ApplyType ==
  ASSUME TypeInv, Apply
  PROVE  TypeInv'
<1>1. points' \in [Attributes -> Layouts]
  BY LayoutForType DEF Apply, TypeInv, TypeOK
<1>2. step' \in 1..Len(Order) /\ monitor' \in {"apply", "file"}
  <2>1. step \in 1..8 /\ Len(Order) = 8
    BY OrderFacts DEF TypeInv, TypeOK
  <2>2. CASE step < 8
    BY <2>1, <2>2 DEF Apply
  <2>3. CASE ~ (step < 8)
    BY <2>1, <2>3 DEF Apply
  <2> QED BY <2>2, <2>3
<1>3. frame' \in Frames /\ decoded' \in SUBSET Apis
  BY DEF Apply, TypeInv, TypeOK
<1>4. UNCHANGED <<firmware, reflashes, wire, declared, observed, raw0, raw1>>
  BY DEF Apply, device
<1> QED BY <1>1, <1>2, <1>3, <1>4 DEF TypeInv, TypeOK

LEMMA FileType ==
  ASSUME TypeInv, File
  PROVE  TypeInv'
<1>1. frame.payload \in Payloads /\ frame.api \in Apis
  BY DEF File, TypeInv, Frames
<1>2. raw0' \in Payloads \cup {"none"} /\ raw1' \in Payloads \cup {"none"}
  BY <1>1 DEF File, TypeInv, TypeOK
<1>3. decoded' \in SUBSET Apis
  BY <1>1 DEF File, TypeInv, TypeOK
<1>4. UNCHANGED <<firmware, reflashes, wire, declared, observed, points, step>>
      /\ monitor' = "recv" /\ frame' = NoFrame
  BY DEF File, device
<1> QED BY <1>2, <1>3, <1>4 DEF TypeInv, TypeOK

LEMMA NextType == TypeInv /\ [Next]_vars => TypeInv'
<1> SUFFICES ASSUME TypeInv, [Next]_vars PROVE TypeInv'
  OBVIOUS
<1>1. CASE (\E api \in Apis : Emit(api)) \/ Reflash
  BY <1>1, DeviceType
<1>2. CASE Recv
  BY <1>2, RecvType
<1>3. CASE Apply
  BY <1>3, ApplyType
<1>4. CASE File
  BY <1>4, FileType
<1>5. CASE UNCHANGED vars
  BY <1>5 DEF TypeInv, TypeOK, vars, device, object, router
<1> QED BY <1>1, <1>2, <1>3, <1>4, <1>5 DEF Next, Monitor

\* An observation that changes nothing about the layout needs no _apply_config.
LEMMA RecvProgress ==
  ASSUME TypeInv, Progress, Recv
  PROVE  Progress'
<1> DEFINE g == Observed(Head(wire).api)
<1>1. /\ monitor = "recv" /\ step = 1
      /\ \A a \in Attributes : points[a] = LayoutFor(observed)
  BY DEF Recv, Progress
<1>2. points' = points /\ observed' = g /\ declared' = declared /\ step' = step
  BY DEF Recv
<1>3. LayoutFor(observed)' = LayoutFor(g)
  BY <1>2 DEF LayoutFor, Modern
<1>4. CASE Repoint(g)
  <2>1. monitor' = "apply" /\ step = 1
    BY <1>1, <1>4 DEF Recv
  <2>2. \A j \in 1..(step' - 1) : FALSE
    BY <1>2, <2>1
  <2>3. \A j \in step'..8 : points'[Order[j]] = points'["statuses"]
    <3>1. \A j \in 1..8 : points[Order[j]] = points["statuses"]
      BY <1>1, OrderFacts DEF Attributes
    <3> QED BY <1>2, <2>1, <3>1
  <2> QED BY <2>1, <2>2, <2>3 DEF Progress
<1>5. CASE ~ Repoint(g)
  <2>1. monitor' = "file"
    BY <1>5 DEF Recv
  <2>2. observed = g \/ LayoutFor(g) = points["active"]
    BY <1>5 DEF Repoint
  <2>3. points["active"] = LayoutFor(observed)
    BY <1>1 DEF Attributes
  <2>4. LayoutFor(g) = LayoutFor(observed)
    BY <2>2, <2>3
  <2>5. \A a \in Attributes : points'[a] = LayoutFor(observed)'
    BY <1>1, <1>2, <1>3, <2>4
  <2> QED BY <1>1, <1>2, <2>1, <2>5 DEF Progress
<1> QED BY <1>4, <1>5

LEMMA ApplyProgress ==
  ASSUME TypeInv, Progress, Apply
  PROVE  Progress'
<1> DEFINE l == LayoutFor(observed)
<1>1. step \in 1..8 /\ Len(Order) = 8 /\ Order[step] \in Attributes
  BY OrderFacts DEF TypeInv, TypeOK
<1>2. points' = [points EXCEPT ![Order[step]] = l] /\ points \in [Attributes -> Layouts]
  BY DEF Apply, TypeInv, TypeOK
<1>3. /\ \A j \in 1..(step - 1) : points[Order[j]] = l
      /\ \A j \in step..8 : points[Order[j]] = points["statuses"]
  BY DEF Apply, Progress
<1>4. \A j \in 1..step : points'[Order[j]] = l
  <2> TAKE j \in 1..step
  <2>1. Order[j] \in Attributes
    BY <1>1, OrderType
  <2>2. CASE j = step
    BY <1>1, <1>2, <2>2
  <2>3. CASE j # step
    <3>1. points[Order[j]] = l
      BY <1>1, <1>3, <2>3
    <3> QED BY <1>2, <2>1, <3>1
  <2> QED BY <2>2, <2>3
<1>5. LayoutFor(observed)' = l
  BY DEF Apply, LayoutFor, Modern
<1>6. CASE step < 8
  <2>1. monitor' = "apply" /\ step' = step + 1
    BY <1>1, <1>6 DEF Apply
  <2>2. \A j \in 1..(step' - 1) : points'[Order[j]] = LayoutFor(observed)'
    BY <1>1, <1>4, <1>5, <2>1
  <2>3. Order[step] # "statuses" /\ "statuses" \in Attributes
    <3>1. step \in 1..7
      BY <1>1, <1>6
    <3>2. \A j \in 1..7 : Order[j] # "statuses"
      BY OrderFacts
    <3> QED BY <3>1, <3>2 DEF Attributes
  <2>4. points'["statuses"] = points["statuses"]
    BY <1>2, <2>3
  <2>5. \A j \in (step + 1)..8 : points'[Order[j]] = points'["statuses"]
    <3> TAKE j \in (step + 1)..8
    <3>1. j \in 1..8 /\ j \in step..8 /\ j # step
      BY <1>1
    <3>2. Order[j] # Order[step] /\ Order[j] \in Attributes
      BY <1>1, <3>1, OrderFacts
    <3>3. points'[Order[j]] = points[Order[j]]
      BY <1>2, <3>2
    <3> QED BY <1>3, <2>4, <3>1, <3>3
  <2> QED BY <2>1, <2>2, <2>5 DEF Progress
<1>7. CASE step = 8
  <2>1. monitor' = "file" /\ step' = 1
    BY <1>1, <1>7 DEF Apply
  <2>2. \A a \in Attributes : points'[a] = l
    <3> TAKE a \in Attributes
    <3>1. PICK j \in 1..8 : Order[j] = a
      BY OrderFacts
    <3> QED BY <1>4, <1>7, <3>1
  <2> QED BY <1>5, <2>1, <2>2 DEF Progress
<1> QED BY <1>1, <1>6, <1>7

LEMMA NextProgress == TypeInv /\ Progress /\ [Next]_vars => Progress'
<1> SUFFICES ASSUME TypeInv, Progress, [Next]_vars PROVE Progress'
  OBVIOUS
<1>1. CASE UNCHANGED <<declared, observed, points, monitor, step>>
  BY <1>1 DEF Progress, LayoutFor, Modern
<1>2. CASE (\E api \in Apis : Emit(api)) \/ Reflash \/ UNCHANGED vars
  <2>1. UNCHANGED <<declared, observed, points, monitor, step>>
    BY <1>2 DEF Emit, Reflash, vars, object, router
  <2> QED BY <1>1, <2>1
<1>3. CASE Recv
  BY <1>3, RecvProgress
<1>4. CASE Apply
  BY <1>4, ApplyProgress
<1>5. CASE File
  <2>1. /\ monitor = "file" /\ monitor' = "recv"
        /\ points' = points /\ observed' = observed /\ declared' = declared /\ step' = step
    BY <1>5 DEF File
  <2>2. \A a \in Attributes : points'[a] = LayoutFor(observed)'
    BY <2>1 DEF Progress, LayoutFor, Modern
  <2>3. step' = 1
    BY <2>1 DEF Progress
  <2> QED BY <2>1, <2>2, <2>3 DEF Progress
<1> QED BY <1>2, <1>3, <1>4, <1>5 DEF Next, Monitor

\* Every variable of FrameRouting keeps its type.
THEOREM TypesOK == Spec => []TypeOK
<1>1. TypeInv => TypeOK
  BY DEF TypeInv
<1> QED BY <1>1, InitInv, NextType, PTL DEF Spec

\* note_frame_api and _apply_config leave every attribute of the object with the
\* layout the frames have shown, or the declared one before any has shown it,
\* whenever route_frame returns.
THEOREM LayoutIsKept == Spec => []LayoutFollowsWire
<1>1. TypeInv /\ Progress => LayoutFollowsWire
  BY DEF Progress, LayoutFollowsWire
<1> QED BY <1>1, InitInv, NextType, NextProgress, PTL DEF Spec

-----------------------------------------------------------------------------
\* Two attributes are of the dictionary's layout, or the first of them is already
\* of the other layout, whose api this dictionary has no Status for.
LEMMA ReadInOrder ==
  ASSUME TypeOK, NEW q \in Quantities, NEW i \in 1..7,
         ApiAttribute[q] = Order[i], IndexAttribute[q] = Order[i + 1],
         Progress
  PROVE  \/ points[ApiAttribute[q]] # points["statuses"]
         \/ points[IndexAttribute[q]] = points["statuses"]
<1>1. i + 1 \in 1..8 /\ Order[i] \in Attributes /\ Order[i + 1] \in Attributes /\ step \in 1..8
  BY OrderType DEF TypeOK
<1>2. CASE monitor # "apply"
  BY <1>1, <1>2 DEF Progress, Attributes
<1>3. CASE monitor = "apply" /\ step <= i + 1
  <2>1. i + 1 \in step..8
    BY <1>1, <1>3
  <2> QED BY <1>3, <2>1 DEF Progress
<1>4. CASE monitor = "apply" /\ step > i + 1
  <2>1. i \in 1..(step - 1) /\ i + 1 \in 1..(step - 1)
    BY <1>1, <1>4
  <2>2. points[Order[i]] = LayoutFor(observed) /\ points[Order[i + 1]] = LayoutFor(observed)
    BY <1>4, <2>1 DEF Progress
  <2> QED BY <2>2
<1> QED BY <1>1, <1>2, <1>3, <1>4

\* The layouts share no api that a Status is made for.
LEMMA LayoutsApart ==
  \A q \in Quantities, k, l \in Layouts : ApiOf(q, k) \in Decodes(l) => k = l
<1>1. \A l \in Layouts : l = "max" \/ l = "flex"
  BY DEF Layouts
<1>2. \A q : ApiOf(q, "flex") = "2E2" /\ ApiOf(q, "max") \in {"061", "062"}
  BY DEF ApiOf, S1, S2
<1>3. Decodes("flex") = {"2E2"} /\ Decodes("max") = {"061", "062"}
  BY DEF Decodes, S1, S2
<1> QED BY <1>1, <1>2, <1>3

\* In the middle of _apply_config velocity and position are KeyErrors or right,
\* because the api goes first, its index next and the dictionary last.
THEOREM ReadsAreRight == Spec => []ReadsWhatAsked
<1>1. TypeInv /\ Progress => ReadsWhatAsked
  <2> SUFFICES ASSUME TypeInv, Progress, NEW q \in Quantities,
                      ApiOf(q, points[ApiAttribute[q]]) \in Decodes(points["statuses"])
               PROVE  /\ points[ApiAttribute[q]] = points["statuses"]
                      /\ points[IndexAttribute[q]] = points["statuses"]
    BY DEF ReadsWhatAsked
  <2>1. /\ ApiAttribute["velocity"] = "velocity api"
        /\ ApiAttribute["position"] = "position api"
        /\ IndexAttribute["velocity"] = "velocity index"
        /\ IndexAttribute["position"] = "position index"
    BY DEF ApiAttribute, IndexAttribute
  <2>2. q = "velocity" \/ q = "position"
    BY DEF Quantities
  <2>3. ApiAttribute[q] \in Attributes /\ "statuses" \in Attributes
    BY <2>1, <2>2 DEF Attributes
  <2>4. points[ApiAttribute[q]] = points["statuses"]
    BY <2>3, LayoutsApart DEF TypeInv, TypeOK
  <2>5. 4 \in 1..7 /\ 6 \in 1..7 /\ 4 + 1 = 5 /\ 6 + 1 = 7
    OBVIOUS
  <2>6. \E i \in 1..7 : ApiAttribute[q] = Order[i] /\ IndexAttribute[q] = Order[i + 1]
    BY <2>1, <2>2, <2>5, OrderFacts
  <2> QED BY <2>4, <2>6, ReadInOrder DEF TypeInv
<1> QED BY <1>1, InitInv, NextType, NextProgress, PTL DEF Spec

-----------------------------------------------------------------------------
\* A frame that was sent holds what its device sends under that api.
Sent(f) ==
  /\ f.api \in ModernApis => f.payload = "fw25"
  /\ f.api \in LegacyOnlyApis => f.payload = "pre25"
  /\ f.api = "060" => f.payload \in {"pre25", "beacon"}

\* The frame being routed has already had its say about the generation.
Heard ==
  /\ \A n \in 1..Len(wire) : Sent(wire[n])
  /\ monitor # "recv" =>
       /\ Sent(frame)
       /\ frame.api \in ModernApis => observed = "fw25"
       /\ frame.api \in LegacyOnlyApis => observed = "pre25"

LEMMA ApisApart ==
  /\ ModernApis \cap LegacyOnlyApis = {}
  /\ "060" \notin ModernApis /\ "060" \notin LegacyOnlyApis
<1> QED BY DEF ModernApis, LegacyOnlyApis

LEMMA EmitSends ==
  ASSUME TypeInv, NEW api \in Apis, Emit(api)
  PROVE  Sent([api |-> api, payload |-> Payload(firmware, api)])
<1>1. firmware = "pre25" \/ firmware = "fw25"
  BY DEF TypeInv, TypeOK, Generations
<1>2. CASE firmware = "pre25"
  <2>1. api \in {"060"} \cup LegacyOnlyApis /\ Payload(firmware, api) = "pre25"
    BY <1>2 DEF Emit, Sends, Payload
  <2> QED BY <2>1, ApisApart DEF Sent
<1>3. CASE firmware = "fw25"
  <2>1. api \in {"060"} \cup ModernApis
        /\ Payload(firmware, api) = IF api = "060" THEN "beacon" ELSE "fw25"
    BY <1>3 DEF Emit, Sends, Payload
  <2> QED BY <2>1, ApisApart DEF Sent
<1> QED BY <1>1, <1>2, <1>3

LEMMA NextHeard == TypeInv /\ Heard /\ [Next]_vars => Heard'
<1> SUFFICES ASSUME TypeInv, Heard, [Next]_vars PROVE Heard'
  OBVIOUS
<1>1. wire \in Seq(Frames) /\ Len(wire) \in Nat
  BY LenProperties DEF TypeInv, TypeOK
<1>2. CASE UNCHANGED <<wire, monitor, frame, observed>>
  BY <1>2 DEF Heard, Sent
<1>3. ASSUME NEW api \in Apis, Emit(api)
      PROVE  Heard'
  <2> DEFINE f == [api |-> api, payload |-> Payload(firmware, api)]
  <2>1. f \in Frames
    BY DEF Payload, Payloads, Frames, TypeInv, TypeOK
  <2>2. wire' = Append(wire, f) /\ UNCHANGED <<monitor, frame, observed>>
    BY <1>3 DEF Emit, object, router
  <2>3. Sent(f)
    BY <1>3, EmitSends
  <2> HIDE DEF f
  <2>4. \A n \in 1..Len(wire') : Sent(wire'[n])
    <3> TAKE n \in 1..Len(wire')
    <3>1. Len(wire') = Len(wire) + 1
      BY <1>1, <2>1, <2>2, AppendProperties
    <3>2. CASE n = Len(wire) + 1
      BY <1>1, <2>1, <2>2, <2>3, <3>2, AppendProperties
    <3>3. CASE n # Len(wire) + 1
      <4>1. n \in 1..Len(wire)
        BY <1>1, <3>1, <3>3
      <4>2. wire'[n] = wire[n]
        BY <1>1, <2>1, <2>2, <4>1, AppendProperties
      <4> QED BY <4>1, <4>2 DEF Heard
    <3> QED BY <3>2, <3>3
  <2> QED BY <2>2, <2>4 DEF Heard, Sent
<1>4. CASE Recv
  <2>1. /\ wire # <<>> /\ frame' = Head(wire) /\ wire' = Tail(wire)
        /\ observed' = Observed(Head(wire).api)
    BY <1>4 DEF Recv
  <2>2. Head(wire) = wire[1] /\ 1 \in 1..Len(wire)
    <3>1. Len(wire) # 0
      BY <1>1, <2>1, EmptySeq
    <3> QED BY <1>1, <2>1, <3>1
  <2>3. Sent(Head(wire))
    BY <2>2 DEF Heard
  <2>4. \A n \in 1..Len(wire') : Sent(wire'[n])
    <3> TAKE n \in 1..Len(wire')
    <3>1. wire'[n] = wire[n + 1] /\ n + 1 \in 1..Len(wire)
      BY <1>1, <2>1, HeadTailProperties
    <3> QED BY <3>1 DEF Heard
  <2>5. frame'.api \in ModernApis => observed' = "fw25"
    BY <2>1 DEF Observed
  <2>6. frame'.api \in LegacyOnlyApis => observed' = "pre25"
    BY <2>1, ApisApart DEF Observed
  <2>7. Sent(frame)'
    BY <2>1, <2>3 DEF Sent
  <2> QED BY <2>4, <2>5, <2>6, <2>7 DEF Heard, Sent
<1>5. CASE Apply
  <2>1. monitor = "apply" /\ UNCHANGED <<wire, frame, observed>>
    BY <1>5 DEF Apply
  <2> QED BY <2>1 DEF Heard, Sent
<1>6. CASE File
  <2>1. monitor' = "recv" /\ UNCHANGED wire
    BY <1>6 DEF File
  <2> QED BY <2>1 DEF Heard, Sent
<1>7. CASE Reflash \/ UNCHANGED vars
  <2>1. UNCHANGED <<wire, monitor, frame, observed>>
    BY <1>7 DEF Reflash, vars, object, router
  <2> QED BY <1>2, <2>1
<1> QED BY <1>3, <1>4, <1>5, <1>6, <1>7 DEF Next, Monitor

LEMMA InitHeard == Init => Heard
<1> SUFFICES ASSUME Init PROVE Heard
  OBVIOUS
<1>1. wire = <<>> /\ Len(wire) = 0 /\ monitor = "recv"
  BY DEF Init
<1> QED BY <1>1 DEF Heard

\* route_frame keeps of STATUS_0 and STATUS_1 what the observed generation sends.
LEMMA FileReadable ==
  ASSUME TypeInv, Progress, Heard, File
  PROVE  (Readable0 => Readable0') /\ (Readable1 => Readable1')
<1>1. monitor = "file" /\ Sent(frame) /\ frame.api \in Apis
      /\ (frame.api \in ModernApis => observed = "fw25")
      /\ (frame.api \in LegacyOnlyApis => observed = "pre25")
  BY DEF File, Heard, TypeInv, Frames
<1>2. points["s0"] = LayoutFor(observed) /\ points["s1"] = LayoutFor(observed)
  BY <1>1 DEF Progress, Attributes
<1>3. observed' = observed /\ declared' = declared
  BY DEF File
<1>4. Modern(observed)' = Modern(observed)
  BY <1>3 DEF Modern
<1>5. FilesStatus0(frame.api) =>
        frame.payload \in IF Modern(observed) THEN {"fw25"} ELSE {"pre25", "beacon"}
  <2>1. "2E0" \in ModernApis
    BY DEF ModernApis
  <2>2. CASE Modern(observed)
    <3>1. FilesStatus0(frame.api) => frame.api = "2E0"
      BY <1>2, <2>2 DEF FilesStatus0, S0, LayoutFor
    <3> QED BY <1>1, <2>1, <2>2, <3>1 DEF Sent
  <2>3. CASE ~ Modern(observed)
    <3>1. FilesStatus0(frame.api) => frame.api \in {"060", "2E0"}
      BY <1>2, <2>3 DEF FilesStatus0, S0, LayoutFor
    <3>2. frame.api # "2E0"
      BY <1>1, <2>1, <2>3 DEF Modern
    <3> QED BY <1>1, <2>3, <3>1, <3>2 DEF Sent
  <2> QED BY <2>2, <2>3
<1>6. FilesStatus1(frame.api) =>
        frame.payload \in IF Modern(observed) THEN {"fw25"} ELSE {"pre25"}
  <2>1. "2E1" \in ModernApis /\ "061" \in LegacyOnlyApis
    BY DEF ModernApis, LegacyOnlyApis
  <2>2. CASE Modern(observed)
    <3>1. FilesStatus1(frame.api) => frame.api = "2E1"
      BY <1>2, <2>2 DEF FilesStatus1, S1, LayoutFor
    <3> QED BY <1>1, <2>1, <2>2, <3>1 DEF Sent
  <2>3. CASE ~ Modern(observed)
    <3>1. FilesStatus1(frame.api) => frame.api \in {"061", "2E1"}
      BY <1>2, <2>3 DEF FilesStatus1, S1, LayoutFor
    <3>2. frame.api # "2E1"
      BY <1>1, <2>1, <2>3 DEF Modern
    <3> QED BY <1>1, <2>1, <2>3, <3>1, <3>2 DEF Sent
  <2> QED BY <2>2, <2>3
<1>7. Readable0 => Readable0'
  <2>1. CASE FilesStatus0(frame.api)
    <3>1. raw0' = frame.payload
      BY <2>1 DEF File
    <3> QED BY <1>4, <1>5, <2>1, <3>1 DEF Readable0
  <2>2. CASE ~ FilesStatus0(frame.api)
    <3>1. raw0' = raw0
      BY <2>2 DEF File
    <3> QED BY <1>4, <3>1 DEF Readable0
  <2> QED BY <2>1, <2>2
<1>8. Readable1 => Readable1'
  <2>1. CASE FilesStatus1(frame.api)
    <3>1. raw1' = frame.payload
      BY <2>1 DEF File
    <3> QED BY <1>4, <1>6, <2>1, <3>1 DEF Readable1
  <2>2. CASE ~ FilesStatus1(frame.api)
    <3>1. raw1' = raw1
      BY <2>2 DEF File
    <3> QED BY <1>4, <3>1 DEF Readable1
  <2> QED BY <2>1, <2>2
<1> QED BY <1>7, <1>8

\* A step that files nothing leaves the buffers and their readers alone.
LEMMA OtherReadable ==
  ASSUME UNCHANGED <<raw0, raw1, declared>>, observed' = observed
  PROVE  (Readable0 => Readable0') /\ (Readable1 => Readable1')
<1>1. Modern(observed)' = Modern(observed)
  BY DEF Modern
<1> QED BY <1>1 DEF Readable0, Readable1

\* While route_frame sees one generation, neither a frame of the other one nor a
\* presence beacon takes the place of a STATUS_0 or STATUS_1 that can be read.
THEOREM BuffersStayReadable == Spec => StaysReadable
<1>1. TypeInv /\ Progress /\ Heard /\ [Next]_vars =>
        [observed' = observed => (Readable0 => Readable0') /\ (Readable1 => Readable1')]_vars
  <2> SUFFICES ASSUME TypeInv, Progress, Heard, Next, observed' = observed
               PROVE  (Readable0 => Readable0') /\ (Readable1 => Readable1')
    OBVIOUS
  <2>1. CASE File
    BY <2>1, FileReadable
  <2>2. CASE ~ File
    <3>1. UNCHANGED <<raw0, raw1, declared>>
      BY <2>2 DEF Next, Monitor, Recv, Apply, Emit, Reflash, object
    <3> QED BY <3>1, OtherReadable
  <2> QED BY <2>1, <2>2
<1> QED BY <1>1, InitInv, InitHeard, NextType, NextProgress, NextHeard, PTL
       DEF Spec, StaysReadable

=============================================================================
