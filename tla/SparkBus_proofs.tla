--------------------------- MODULE SparkBus_proofs ---------------------------
(***************************************************************************)
(* Proofs about SparkBus, for every set of ids and worker threads, every   *)
(* number of repeats, every queue capacity, with and without SIGINT; and,  *)
(* at the end, about StopPath, the same bus with the controllers on it.    *)
(***************************************************************************)
EXTENDS StopPath, Integers, FiniteSetTheorems, SequenceTheorems, TLAPS

Sending == {"send", "check", "tx"}

\* Only the heartbeat thread ever has a heartbeat to send.
CallerFrame == {f \in Frame : f.kind # "beat"}

\* The types, with what the steps of send_msg and of the broadcast rely on:
\* a thread inside send_msg has a frame to send, and the heartbeat thread has
\* exactly one, a heartbeat.
TypeInv ==
  /\ TypeOK
  /\ \A t \in Callers : todo[t] \in Seq(CallerFrame)
  /\ \A t \in Senders : pc[t] \in Sending => todo[t] # <<>>
  /\ pc["hb"] \in Sending =>
       Len(todo["hb"]) = 1 /\ Head(todo["hb"]).kind = "beat"
  /\ pc["main"] \in {"bsend", "btx"} => left >= 1

LEMMA ThreadsDistinct ==
  /\ "main" \in Callers /\ "sig" \in Callers /\ "hb" \notin Callers
  /\ "mon" \notin Senders /\ Callers \subseteq Senders
  /\ "hb" \in Senders /\ Senders \subseteq Threads /\ "mon" \in Threads
BY WorkersAssumption DEF Callers, Senders, Threads

LEMMA FrameTypes ==
  /\ Disable \in CallerFrame
  /\ \A i \in Ids : Config(i) \in CallerFrame
  /\ \A i \in Ids, on \in BOOLEAN : Duty(i, on) \in CallerFrame
  /\ \A S \in SUBSET Ids : Beat(S) \in Frame
BY DEF CallerFrame, Frame, Disable, Config, Duty, Beat

LEMMA IdsFinite == \A S \in SUBSET Ids : IsFiniteSet(S) /\ Cardinality(S) \in Nat
<1>1. IsFiniteSet(0 .. 63)
  BY FS_Interval, 0 \in Int, 63 \in Int, Zenon
<1>2. QED
  BY <1>1, FS_Subset, FS_CardinalityType, IdsAssumption

\* A list built entry by entry from frames is a sequence of frames.
LEMMA SeqOfFrames ==
  ASSUME NEW n \in Nat, NEW F, NEW s \in [1 .. n -> F]
  PROVE  s \in Seq(F) /\ (n = 0 => s = <<>>)
BY SeqDef

LEMMA Singleton ==
  ASSUME NEW F, NEW f \in F
  PROVE  <<f>> \in Seq(F)
OBVIOUS

LEMMA TailTypes ==
  ASSUME NEW F, NEW s \in Seq(F), s # <<>>
  PROVE  /\ Head(s) \in F /\ Tail(s) \in Seq(F)
         /\ Len(Tail(s)) = Len(s) - 1
         /\ Len(s) > 1 => Tail(s) # <<>>
         /\ Len(s) \in Nat \ {0}
<1>1. Len(s) \in Nat /\ Len(s) # 0
  BY EmptySeq, LenProperties
<1>2. Head(s) \in F /\ Tail(s) \in Seq(F) /\ Len(Tail(s)) = Len(s) - 1
  BY HeadTailProperties
<1>3. Len(s) > 1 => Tail(s) # <<>>
  <2>1. Len(s) > 1 => Len(Tail(s)) # 0
    BY <1>1, <1>2
  <2> QED BY <2>1, EmptySeq
<1>4. QED
  BY <1>1, <1>2, <1>3

LEMMA AfterTypes ==
  ASSUME NEW t \in Senders
  PROVE  After(t) \in Labels \ (Sending \cup {"bsend", "btx"})
BY DEF After, Labels, Sending

-----------------------------------------------------------------------------
(* Type correctness.                                                       *)

\* The history variables keep their types whatever the step did.
LEMMA HistoryTypes ==
  ASSUME TypeInv, History
  PROVE  late' \in 0 .. 2 /\ disableOut' \in BOOLEAN /\ beatOut' \in BOOLEAN
BY DEF TypeInv, TypeOK, History

\* send_msg moves on: what Returns does to the types, for any sender.
LEMMA ReturnsTypes ==
  ASSUME TypeInv, NEW t \in Senders, pc[t] \in Sending, Returns(t)
  PROVE  /\ lock' \in Threads \cup {"free"}
         /\ pc' \in [Threads -> Labels]
         /\ todo' \in [Senders -> Seq(Frame)]
         /\ \A u \in Callers : todo'[u] \in Seq(CallerFrame)
         /\ \A u \in Senders : pc'[u] \in Sending => todo'[u] # <<>>
         /\ pc'["hb"] \in Sending =>
              Len(todo'["hb"]) = 1 /\ Head(todo'["hb"]).kind = "beat"
         /\ pc'["main"] \in {"bsend", "btx"} => pc["main"] \in {"bsend", "btx"}
<1> USE ThreadsDistinct
<1>1. todo[t] \in Seq(Frame) /\ todo[t] # <<>>
  BY DEF TypeInv, TypeOK
<1>2. /\ Tail(todo[t]) \in Seq(Frame)
      /\ Len(todo[t]) > 1 => Tail(todo[t]) # <<>>
      /\ Len(todo[t]) \in Nat
  BY <1>1, TailTypes
<1>3. t \in Callers => Tail(todo[t]) \in Seq(CallerFrame)
  BY <1>1, TailTypes DEF TypeInv
<1>4. After(t) \in Labels \ (Sending \cup {"bsend", "btx"})
  BY AfterTypes
<1>5. t = "hb" => Len(todo[t]) = 1
  BY DEF TypeInv
<1>6. /\ lock' = "free"
      /\ todo' = [todo EXCEPT ![t] = Tail(todo[t])]
      /\ pc' = [pc EXCEPT ![t] = IF Len(todo[t]) > 1 THEN "send" ELSE After(t)]
  BY DEF Returns, Goto
<1>7. todo' \in [Senders -> Seq(Frame)] /\ pc' \in [Threads -> Labels]
  BY <1>2, <1>4, <1>6 DEF TypeInv, TypeOK, Labels
<1>8. \A u \in Callers : todo'[u] \in Seq(CallerFrame)
  BY <1>3, <1>6 DEF TypeInv, TypeOK
<1>9. \A u \in Senders : pc'[u] \in Sending => todo'[u] # <<>>
  BY <1>2, <1>4, <1>6 DEF TypeInv, TypeOK
<1>10. pc'["hb"] \in Sending =>
         Len(todo'["hb"]) = 1 /\ Head(todo'["hb"]).kind = "beat"
  <2>1. CASE t = "hb"
    <3>1. pc'["hb"] = After(t)
      BY <1>5, <1>6, <2>1 DEF TypeInv, TypeOK
    <3> QED BY <1>4, <3>1
  <2>2. CASE t # "hb"
    <3>1. pc'["hb"] = pc["hb"] /\ todo'["hb"] = todo["hb"]
      BY <1>6, <2>2 DEF TypeInv, TypeOK
    <3> QED BY <3>1 DEF TypeInv
  <2> QED BY <2>1, <2>2
<1>11. pc'["main"] \in {"bsend", "btx"} => pc["main"] \in {"bsend", "btx"}
  BY <1>4, <1>6 DEF TypeInv, TypeOK
<1>12. QED
  BY <1>6, <1>7, <1>8, <1>9, <1>10, <1>11

\* The part of TypeInv a step of the program can change.
HostTypes ==
  /\ lock \in Threads \cup {"free"}
  /\ closed \in BOOLEAN /\ sock \in BOOLEAN
  /\ enabled \in BOOLEAN /\ started \in BOOLEAN
  /\ controllers \subseteq Ids /\ canIds \subseteq Ids /\ marked \subseteq Ids
  /\ byte \in 0 .. 7
  /\ txErrors \in Nat
  /\ out \in Seq(Frame)
  /\ pc \in [Threads -> Labels]
  /\ op \in [Senders -> Ops]
  /\ todo \in [Senders -> Seq(Frame)]
  /\ left \in 0 .. Repeats
  /\ \A t \in Callers : todo[t] \in Seq(CallerFrame)
  /\ \A t \in Senders : pc[t] \in Sending => todo[t] # <<>>
  /\ pc["hb"] \in Sending =>
       Len(todo["hb"]) = 1 /\ Head(todo["hb"]).kind = "beat"
  /\ pc["main"] \in {"bsend", "btx"} => left >= 1

LEMMA TypesSplit ==
  TypeInv <=> HostTypes /\ late \in 0 .. 2 /\ disableOut \in BOOLEAN /\ beatOut \in BOOLEAN
BY DEF TypeInv, TypeOK, HostTypes

\* A step of main in its broadcast, or of a thread that leaves a call: the places.
LEMMA Placed ==
  ASSUME TypeInv, NEW p \in [Threads -> Labels], pc' = p, todo' = todo,
         \A u \in Senders : p[u] \in Sending => pc[u] \in Sending,
         p["main"] \in {"bsend", "btx"} => left' >= 1
  PROVE  /\ pc' \in [Threads -> Labels]
         /\ todo' \in [Senders -> Seq(Frame)]
         /\ \A t \in Callers : todo'[t] \in Seq(CallerFrame)
         /\ \A t \in Senders : pc'[t] \in Sending => todo'[t] # <<>>
         /\ pc'["hb"] \in Sending =>
              Len(todo'["hb"]) = 1 /\ Head(todo'["hb"]).kind = "beat"
         /\ pc'["main"] \in {"bsend", "btx"} => left' >= 1
BY ThreadsDistinct DEF TypeInv, TypeOK

\* A call that hands a list of frames to send_msg.
LEMMA SendAllTypes ==
  ASSUME TypeInv, NEW t \in Senders, NEW fs \in Seq(Frame), SendAll(t, fs),
         op' \in [Senders -> Ops],
         t \in Callers => fs \in Seq(CallerFrame),
         t = "hb" => Len(fs) = 1 /\ Head(fs).kind = "beat"
  PROVE  /\ pc' \in [Threads -> Labels]
         /\ todo' \in [Senders -> Seq(Frame)]
         /\ \A u \in Callers : todo'[u] \in Seq(CallerFrame)
         /\ \A u \in Senders : pc'[u] \in Sending => todo'[u] # <<>>
         /\ pc'["hb"] \in Sending =>
              Len(todo'["hb"]) = 1 /\ Head(todo'["hb"]).kind = "beat"
         /\ pc'["main"] \in {"bsend", "btx"} => pc["main"] \in {"bsend", "btx"}
<1> USE ThreadsDistinct
<1>1. After(t)' \in Labels \ (Sending \cup {"bsend", "btx"})
  BY DEF After, Labels, Sending
<1>2. /\ todo' = [todo EXCEPT ![t] = fs]
      /\ pc' = [pc EXCEPT ![t] = IF fs = <<>> THEN After(t)' ELSE "send"]
  BY DEF SendAll, Goto
<1>3. QED
  BY <1>1, <1>2 DEF TypeInv, TypeOK, Labels, Sending

LEMMA SendTypes ==
  ASSUME TypeInv, NEW t \in Threads, Acquire(t) \/ (t \in Senders /\ SendMsg(t))
  PROVE  HostTypes'
<1> USE ThreadsDistinct DEF TypeInv, TypeOK, HostTypes, flags, ids, local
<1>1. CASE Acquire(t)
  <2>1. /\ pc[t] \in {"send", "bsend", "sd_lock", "mlock"}
        /\ lock' = t
        /\ pc' = [pc EXCEPT ![t] = Locked[pc[t]]]
    BY <1>1 DEF Acquire, Goto, Locked
  <2>2. /\ Locked[pc[t]] \in Labels
        /\ Locked[pc[t]] \in Sending => pc[t] = "send"
        /\ Locked[pc[t]] \in {"bsend", "btx"} => pc[t] = "bsend"
    BY <2>1 DEF Locked, Labels, Sending
  <2>3. QED
    BY <1>1, <2>1, <2>2 DEF Acquire, Sending
<1>2. CASE t \in Senders /\ CheckClosed(t)
  <2>1. CASE closed
    <3>1. Returns(t) /\ pc[t] \in Sending
      BY <1>2, <2>1 DEF CheckClosed, At, Sending
    <3>2. QED
      BY <1>2, <3>1, ReturnsTypes DEF CheckClosed
  <2>2. CASE ~closed
    BY <1>2, <2>2 DEF CheckClosed, At, Goto, Sending, Labels
  <2>3. QED
    BY <2>1, <2>2
<1>3. CASE t \in Senders /\ Transmit(t)
  <2>1. Returns(t) /\ pc[t] \in Sending
    BY <1>3 DEF Transmit, At, Sending
  <2>2. Head(todo[t]) \in Frame
    BY <2>1, <1>3, TailTypes
  <2>3. out' \in Seq(Frame)
    BY <2>2, <1>3, AppendProperties DEF Transmit
  <2>4. QED
    BY <1>3, <2>1, <2>3, ReturnsTypes DEF Transmit
<1>4. CASE t \in Senders /\ TransmitFails(t)
  <2>1. Returns(t) /\ pc[t] \in Sending
    BY <1>4 DEF TransmitFails, At, Sending
  <2>2. txErrors' \in Nat
    BY <1>4 DEF TransmitFails
  <2>3. QED
    BY <1>4, <2>1, <2>2, ReturnsTypes DEF TransmitFails
<1>5. QED
  BY <1>1, <1>2, <1>3, <1>4 DEF SendMsg

LEMMA BackgroundTypes ==
  ASSUME TypeInv, Heartbeat \/ Monitor
  PROVE  HostTypes'
<1> USE ThreadsDistinct DEF TypeInv, TypeOK, HostTypes, flags, ids, local
<1>1. CASE BeatTest
  BY <1>1 DEF BeatTest, At, Goto, Sending, Labels
<1>2. CASE BeatBuild
  <2>1. /\ Beat(marked) \in Frame
        /\ <<Beat(marked)>> \in Seq(Frame)
        /\ Len(<<Beat(marked)>>) = 1
        /\ Head(<<Beat(marked)>>).kind = "beat"
    BY FrameTypes DEF Beat
  <2>2. SendAll("hb", <<Beat(marked)>>) /\ op' \in [Senders -> Ops]
    BY <1>2 DEF BeatBuild
  <2>3. QED
    BY <1>2, <2>1, <2>2, SendAllTypes DEF BeatBuild
<1>3. CASE BeatSet
  BY <1>3 DEF BeatSet, At, Goto, Sending, Labels
<1>4. CASE MonitorTest
  BY <1>4 DEF MonitorTest, At, Goto, Sending, Labels
<1>5. CASE MonitorRecv
  BY <1>5 DEF MonitorRecv, At, Goto, Sending, Labels
<1>6. QED
  BY <1>1, <1>2, <1>3, <1>4, <1>5 DEF Heartbeat, Monitor

LEMMA RegisterTypes ==
  ASSUME TypeInv,
         \/ FillByte
         \/ \E i \in Ids : InitController(i)
         \/ \E S \in SUBSET Ids : SetHeartbeatIds(S)
  PROVE  HostTypes'
<1> USE ThreadsDistinct DEF TypeInv, TypeOK, HostTypes, flags, ids, local, Ops
<1>1. CASE FillByte
  <2>1. marked' \subseteq Ids /\ byte' \in 0 .. 7
    BY <1>1 DEF FillByte, InByte
  <2>2. QED
    BY <1>1, <2>1, SMTT(30) DEF FillByte, At, Goto, Sending, Labels
<1>2. ASSUME NEW i \in Ids, InitController(i)
      PROVE HostTypes'
  <2>1. PICK n \in BootCounts :
          todo' = [todo EXCEPT !["main"] = [k \in 1 .. n |-> Config(i)]]
    BY <1>2 DEF InitController
  <2> DEFINE boot == [k \in 1 .. n |-> Config(i)]
  <2>2. boot \in [1 .. n -> CallerFrame] /\ boot \in [1 .. n -> Frame]
    BY FrameTypes DEF CallerFrame
  <2>3. n \in Nat
    BY BootAssumption
  <2>4. boot \in Seq(CallerFrame) /\ boot \in Seq(Frame)
    BY <2>2, <2>3, SeqOfFrames
  <2>5. todo' = [todo EXCEPT !["main"] = boot]
    BY <2>1
  <2> HIDE DEF boot
  <2>6. /\ controllers' \subseteq Ids /\ canIds' \subseteq Ids
        /\ marked' = {} /\ byte' = 7
        /\ op' = [op EXCEPT !["main"] = "call"]
        /\ pc' = [pc EXCEPT !["main"] = "fill"]
        /\ UNCHANGED <<lock, flags, started, txErrors, out, left>>
    BY <1>2 DEF InitController, ResetArray, Goto
  <2>7. QED
    BY <2>4, <2>5, <2>6 DEF Sending, Labels
<1>3. ASSUME NEW S \in SUBSET Ids, SetHeartbeatIds(S)
      PROVE HostTypes'
  BY <1>3 DEF SetHeartbeatIds, ResetArray, At, Goto, Sending, Labels
<1>4. QED
  BY <1>1, <1>2, <1>3

LEMMA BroadcastTypes ==
  ASSUME TypeInv,
         \/ \E t \in Callers, i \in Ids, on \in BOOLEAN : Output(t, i, on)
         \/ EnableHeartbeat
         \/ \E call \in Calls : BroadcastDisable(call)
         \/ Broadcast
  PROVE  HostTypes'
<1> USE ThreadsDistinct, RepeatsAssumption
    DEF TypeInv, TypeOK, HostTypes, flags, ids, local, Ops
<1>1. ASSUME NEW t \in Callers, NEW i \in Ids, NEW on \in BOOLEAN, Output(t, i, on)
      PROVE HostTypes'
  <2>1. <<Duty(i, on)>> \in Seq(CallerFrame) /\ <<Duty(i, on)>> \in Seq(Frame)
    BY FrameTypes DEF CallerFrame
  <2>2. SendAll(t, <<Duty(i, on)>>) /\ op' \in [Senders -> Ops]
    BY <1>1 DEF Output
  <2>3. QED
    BY <1>1, <2>1, <2>2, SendAllTypes DEF Output
<1>2. CASE EnableHeartbeat
  BY <1>2 DEF EnableHeartbeat
<1>3. ASSUME NEW call \in Calls, BroadcastDisable(call)
      PROVE HostTypes'
  <2>1. enabled' \in BOOLEAN
    BY <1>3 DEF BroadcastDisable
  <2>2. op' \in [Senders -> Ops]
    BY <1>3 DEF BroadcastDisable
  <2>3. left' \in 0 .. Repeats /\ left' >= 1
    BY <1>3 DEF BroadcastDisable
  <2>4. QED
    BY <1>3, <2>1, <2>2, <2>3
       DEF BroadcastDisable, At, Goto, Sending, Labels
<1>4. CASE SendDisable
  <2>1. out' \in Seq(Frame)
    BY <1>4, FrameTypes, AppendProperties DEF SendDisable, CallerFrame
  <2>2. QED
    <3> DEFINE p == [pc EXCEPT !["main"] = IF left > 1 THEN "bsend" ELSE AfterBroadcast]
    <3>1. left \in 0 .. Repeats /\ left >= 1 /\ left' = left - 1 /\ pc' = p
      BY <1>4 DEF SendDisable, At, Goto
    <3>2. left' \in 0 .. Repeats /\ (left > 1 => left' >= 1)
      BY <3>1, RepeatsAssumption
    <3>3. p \in [Threads -> Labels]
      BY DEF AfterBroadcast, Labels
    <3>4. /\ \A u \in Senders : p[u] \in Sending => pc[u] \in Sending
          /\ p["main"] \in {"bsend", "btx"} => left > 1
      BY DEF AfterBroadcast, Sending
    <3> HIDE DEF p
    <3>5. todo' = todo /\ op' = op /\ lock' = "free" /\ UNCHANGED <<flags, started, ids, txErrors>>
      BY <1>4 DEF SendDisable
    <3> QED BY <2>1, <3>1, <3>2, <3>3, <3>4, <3>5, Placed
<1>5. CASE SendDisableFails
  BY <1>5 DEF SendDisableFails, AfterBroadcast, At, Goto, Sending, Labels
<1>6. CASE DisableHeartbeatClears
  BY <1>6 DEF DisableHeartbeatClears, At, Goto, Sending, Labels
<1> HIDE DEF TypeInv, TypeOK, HostTypes, flags, ids, local
<1>7. QED
  BY <1>1, <1>2, <1>3, <1>4, <1>5, <1>6 DEF Broadcast

LEMMA ShutdownTypes ==
  ASSUME TypeInv,
         \/ \E call \in Calls : ShutdownCalled(call)
         \/ \E t \in {"main", "sig"} : Shutdown(t)
         \/ \E i \in Ids : Interrupt(i)
  PROVE  HostTypes'
<1> USE ThreadsDistinct DEF TypeInv, TypeOK, HostTypes, flags, ids, local
<1>1. ASSUME NEW call \in Calls, ShutdownCalled(call)
      PROVE HostTypes'
  BY <1>1 DEF ShutdownCalled, At, Goto, Sending, Labels, Ops
<1>2. ASSUME NEW t \in {"main", "sig"}, Shutdown(t)
      PROVE HostTypes'
  <2>0. t \in Callers
    OBVIOUS
  <2>1. CASE ShutdownTest(t)
    <3>1. op' \in [Senders -> Ops]
      BY <2>1 DEF ShutdownTest, Ops
    <3>2. UNCHANGED <<lock, flags, started, ids, txErrors, out, todo, left>>
      BY <2>1 DEF ShutdownTest
    <3>3. PICK p \in [Threads -> Labels] :
            /\ pc' = p /\ \A u \in Senders : p[u] \in Sending => pc[u] \in Sending
            /\ p["main"] \in {"bsend", "btx"} => pc["main"] \in {"bsend", "btx"}
      <4>1. CASE closed
        <5>1. CASE t = "sig"
          <6> DEFINE p == [pc EXCEPT !["sig"] = "done", !["main"] = "done"]
          <6>1. pc' = p /\ p \in [Threads -> Labels]
            BY <2>1, <4>1, <5>1 DEF ShutdownTest, Leave, Labels
          <6> QED BY <6>1 DEF Sending
        <5>2. CASE t = "main"
          <6> DEFINE p == [pc EXCEPT !["main"] = "idle"]
          <6>1. pc' = p /\ p \in [Threads -> Labels]
            BY <2>1, <4>1, <5>2 DEF ShutdownTest, Leave, Labels
          <6> QED BY <6>1 DEF Sending
        <5> QED BY <5>1, <5>2
      <4>2. CASE ~closed
        <5> DEFINE p == [pc EXCEPT ![t] = IF op[t] = "shutdown_now" THEN "sd_flag" ELSE "round"]
        <5>1. pc' = p /\ p \in [Threads -> Labels]
          BY <2>0, <2>1, <4>2 DEF ShutdownTest, Goto, Labels
        <5> QED BY <2>0, <5>1 DEF Sending
      <4> QED BY <4>1, <4>2
    <3>4. QED
      BY <3>1, <3>2, <3>3, Placed
  <2>2. CASE ZeroRound(t)
    <3>1. PICK s \in ZeroRounds : SendAll(t, s)
      BY <2>2 DEF ZeroRound
    <3>2. Cardinality(controllers) \in Nat
      BY IdsFinite
    <3>3. {Duty(i, FALSE) : i \in controllers} \subseteq CallerFrame
      BY FrameTypes
    <3>4. s \in [1 .. Cardinality(controllers) -> CallerFrame]
      BY <3>1, <3>3 DEF ZeroRounds
    <3>5. s \in Seq(CallerFrame) /\ s \in Seq(Frame)
      <4>1. s \in [1 .. Cardinality(controllers) -> Frame]
        BY <3>4 DEF CallerFrame
      <4>2. QED
        BY <3>2, <3>4, <4>1, SeqOfFrames
    <3>6. op' \in [Senders -> Ops]
      BY <2>2 DEF ZeroRound
    <3>7. QED
      BY <2>0, <2>2, <3>1, <3>5, <3>6, SendAllTypes DEF ZeroRound
  <2>3. CASE ZeroAgain(t)
    BY <2>3 DEF ZeroAgain, At, Goto, Sending, Labels
  <2>4. CASE ZeroDone(t)
    BY <2>4 DEF ZeroDone, At, Goto, Sending, Labels
  <2>5. CASE ShutdownFlag(t)
    BY <2>5 DEF ShutdownFlag, At, Goto, Sending, Labels
  <2>6. CASE ShutdownClose(t)
    BY <2>6 DEF ShutdownClose, At, Goto, Sending, Labels
  <2>7. CASE ShutdownBus(t)
    BY <2>7 DEF ShutdownBus, Leave, At, Sending, Labels
  <2>8. QED
    BY <1>2, <2>1, <2>2, <2>3, <2>4, <2>5, <2>6, <2>7 DEF Shutdown
<1>3. ASSUME NEW i \in Ids, Interrupt(i)
      PROVE HostTypes'
  <2>0. Duty(i, FALSE) \in CallerFrame
    BY FrameTypes
  <2>1. <<Duty(i, FALSE)>> \in Seq(CallerFrame) /\ <<Duty(i, FALSE)>> \in Seq(Frame)
    BY <2>0, Singleton DEF CallerFrame
  <2>2. SendAll("sig", <<Duty(i, FALSE)>>) /\ op' \in [Senders -> Ops]
    BY <1>3 DEF Interrupt, Ops
  <2>3. QED
    BY <1>3, <2>1, <2>2, SendAllTypes DEF Interrupt
<1>4. QED
  BY <1>1, <1>2, <1>3

LEMMA DrainTypes ==
  ASSUME TypeInv, Drain
  PROVE  HostTypes'
<1>1. out' \in Seq(Frame)
  BY TailTypes DEF Drain, TypeInv, TypeOK
<1>2. QED
  BY <1>1 DEF Drain, TypeInv, TypeOK, HostTypes, flags, ids, local

LEMMA InitTypes == Init => TypeInv
<1> SUFFICES ASSUME Init PROVE TypeInv
  OBVIOUS
<1> USE ThreadsDistinct DEF Init
<1>1. TypeOK
  <2>1. /\ pc \in [Threads -> Labels] /\ op \in [Senders -> Ops]
        /\ todo \in [Senders -> Seq(Frame)] /\ out \in Seq(Frame)
    BY DEF Labels, Ops
  <2>2. left \in 0 .. Repeats /\ byte \in 0 .. 7 /\ late \in 0 .. 2
    BY RepeatsAssumption
  <2>3. QED
    BY <2>1, <2>2 DEF TypeOK
<1>2. QED
  BY <1>1 DEF TypeInv, Sending

LEMMA NextTypes == TypeInv /\ [Next]_vars => TypeInv'
<1> SUFFICES ASSUME TypeInv, [Next]_vars PROVE TypeInv'
  OBVIOUS
<1>1. CASE UNCHANGED vars
  BY <1>1 DEF TypeInv, TypeOK, vars, Sending
<1>2. CASE Next
  <2>1. History
    BY <1>2 DEF Next, HostStep
  <2>2. HostTypes'
    <3>1. CASE Call
      BY <3>1, RegisterTypes, BroadcastTypes, ShutdownTypes DEF Call
    <3>2. ASSUME NEW t \in Threads, Step(t)
          PROVE HostTypes'
      BY <3>2, SendTypes, BackgroundTypes, RegisterTypes, BroadcastTypes,
         ShutdownTypes DEF Step
    <3>3. CASE Drain
      BY <3>3, DrainTypes
    <3>4. QED
      BY <1>2, <3>1, <3>2, <3>3 DEF Next, HostStep
  <2>3. QED
    BY <2>1, <2>2, HistoryTypes, TypesSplit DEF TypeInv, TypeOK, HostTypes
<1>3. QED
  BY <1>1, <1>2

\* Every variable of SparkBus keeps its type, whatever the application calls.
THEOREM TypeCorrect == Spec => []TypeInv
BY InitTypes, NextTypes, PTL DEF Spec

\* The type invariant the runs check is part of it.
COROLLARY TypesOK == Spec => []TypeOK
<1>1. TypeInv => TypeOK
  BY DEF TypeInv
<1>2. QED
  BY <1>1, TypeCorrect, PTL

-----------------------------------------------------------------------------
(* The lock.                                                               *)

\* The second conjunct is what the handler's exit relies on: it ends main's
\* call for good, which must not leave the lock behind.  The handler has then
\* been through the lock itself, so main cannot have been inside.
Through == {"sd", "round", "zeroed"}

LockInv ==
  /\ LockHeldInside
  /\ pc["sig"] \in Through => pc["main"] \notin Inside

\* A thread that moves without touching the lock, outside or inside it.
LEMMA MovesOn ==
  ASSUME TypeInv, LockInv, NEW t \in Threads, NEW l \in Labels,
         t = "main" => pc["sig"] = "idle",
         t = "sig" /\ l \in Through => pc[t] \in Through,
         l \in Inside <=> pc[t] \in Inside,
         pc' = [pc EXCEPT ![t] = l], lock' = lock
  PROVE  LockInv'
BY ThreadsDistinct DEF TypeInv, TypeOK, LockInv, LockHeldInside

\* A thread that leaves the lock.
LEMMA MovesOut ==
  ASSUME TypeInv, LockInv, NEW t \in Threads, NEW l \in Labels,
         t = "main" => pc["sig"] = "idle",
         pc[t] \in Inside, l \notin Inside,
         pc' = [pc EXCEPT ![t] = l], lock' = "free"
  PROVE  LockInv'
<1>1. lock = t /\ \A u \in Threads : pc[u] \in Inside => u = t
  BY DEF LockInv, LockHeldInside
<1>2. "free" \notin Threads
  BY WorkersAssumption DEF Threads, Senders, Callers
<1>3. LockHeldInside'
  BY <1>1, <1>2 DEF TypeInv, TypeOK, LockHeldInside
<1>4. (pc["sig"] \in Through => pc["main"] \notin Inside)'
  BY <1>1, ThreadsDistinct DEF TypeInv, TypeOK, LockInv
<1>5. QED
  BY <1>3, <1>4 DEF LockInv

LEMMA ReturnsLeaves ==
  ASSUME TypeInv, LockInv, NEW t \in Senders, pc[t] \in {"check", "tx"},
         t = "main" => pc["sig"] = "idle", Returns(t)
  PROVE  LockInv'
<1>1. After(t) \in Labels \ Inside
  BY DEF After, Labels, Inside
<1>2. PICK l \in Labels \ Inside : pc' = [pc EXCEPT ![t] = l]
  <2>1. "send" \in Labels \ Inside
    BY DEF Labels, Inside
  <2>2. QED
    BY <1>1, <2>1 DEF Returns, Goto
<1>3. lock' = "free" /\ pc[t] \in Inside /\ t \in Threads
  BY ThreadsDistinct DEF Returns, Inside
<1>4. QED
  BY <1>2, <1>3, MovesOut

LEMMA LockSend ==
  ASSUME TypeInv, LockInv, NEW t \in Threads, Acquire(t) \/ (t \in Senders /\ SendMsg(t))
  PROVE  LockInv'
<1>1. CASE Acquire(t)
  <2>1. /\ lock = "free" /\ lock' = t
        /\ pc' = [pc EXCEPT ![t] = Locked[pc[t]]]
        /\ t = "main" => pc["sig"] = "idle"
        /\ pc[t] \in {"send", "bsend", "sd_lock", "mlock"}
    BY <1>1 DEF Acquire, Goto, At, Locked
  <2>2. Locked[pc[t]] \in Inside /\ Locked[pc[t]] \notin Through
    BY <2>1 DEF Locked, Inside, Through
  <2>3. "free" \notin Threads
    BY WorkersAssumption DEF Threads, Senders, Callers
  <2>4. \A u \in Threads : pc[u] \notin Inside
    BY <2>1, <2>3 DEF LockInv, LockHeldInside
  <2>5. LockHeldInside'
    BY <2>1, <2>2, <2>4 DEF TypeInv, TypeOK, LockHeldInside
  <2>6. (pc["sig"] \in Through => pc["main"] \notin Inside)'
    BY <2>1, <2>2, <2>4, ThreadsDistinct DEF TypeInv, TypeOK, Through
  <2>7. QED
    BY <2>5, <2>6 DEF LockInv
<1>2. CASE t \in Senders /\ CheckClosed(t) /\ closed
  BY <1>2, ReturnsLeaves DEF CheckClosed, At
<1>3. CASE t \in Senders /\ CheckClosed(t) /\ ~closed
  <2>1. pc' = [pc EXCEPT ![t] = "tx"] /\ lock' = lock
    BY <1>3 DEF CheckClosed, Goto
  <2>2. "tx" \in Labels /\ "tx" \in Inside /\ pc[t] \in Inside /\ "tx" \notin Through
    BY <1>3 DEF Labels, Inside, CheckClosed, At, Through
  <2>3. QED
    BY <1>3, <2>1, <2>2, MovesOn DEF CheckClosed, At
<1>4. CASE t \in Senders /\ (Transmit(t) \/ TransmitFails(t))
  BY <1>4, ReturnsLeaves DEF Transmit, TransmitFails, At
<1>5. QED
  BY <1>1, <1>2, <1>3, <1>4 DEF SendMsg

\* Starting to send is a move outside the lock.
LEMMA LockSendAll ==
  ASSUME TypeInv, LockInv, NEW t \in Senders, NEW fs, SendAll(t, fs),
         t = "main" => pc["sig"] = "idle",
         pc[t] \notin Inside, lock' = lock,
         t = "sig" => pc[t] \in Through \/ fs # <<>>
  PROVE  LockInv'
<1>1. After(t)' \in Labels \ Inside
  BY DEF After, Labels, Inside
<1>2. "send" \in Labels \ Inside /\ "send" \notin Through
  BY DEF Labels, Inside, Through
<1>3. PICK l \in Labels \ Inside :
        /\ pc' = [pc EXCEPT ![t] = l]
        /\ t = "sig" /\ l \in Through => pc[t] \in Through
  BY <1>1, <1>2 DEF SendAll, Goto
<1>4. QED
  BY <1>3, MovesOn, ThreadsDistinct

LEMMA LockBackground ==
  ASSUME TypeInv, LockInv, Heartbeat \/ Monitor
  PROVE  LockInv'
<1> USE ThreadsDistinct
<1>1. CASE BeatTest
  <2>1. PICK l \in {"done", "build"} : pc' = [pc EXCEPT !["hb"] = l]
    BY <1>1 DEF BeatTest, Goto
  <2>2. QED
    BY <1>1, <2>1, MovesOn DEF BeatTest, At, Inside, Labels
<1>2. CASE BeatBuild
  <2>1. lock' = lock /\ pc["hb"] \notin Inside
    BY <1>2 DEF BeatBuild, At, Inside
  <2>2. QED
    BY <1>2, <2>1, LockSendAll DEF BeatBuild
<1>3. CASE BeatSet
  BY <1>3, MovesOn DEF BeatSet, At, Goto, Inside, Labels
<1>4. CASE MonitorTest
  <2>1. PICK l \in {"done", "mlock"} : pc' = [pc EXCEPT !["mon"] = l]
    BY <1>4 DEF MonitorTest, Goto
  <2>2. QED
    BY <1>4, <2>1, MovesOn DEF MonitorTest, At, Inside, Labels
<1>5. CASE MonitorRecv
  <2>1. PICK l \in {"done", "top"} : pc' = [pc EXCEPT !["mon"] = l]
    BY <1>5 DEF MonitorRecv, Goto
  <2>2. QED
    BY <1>5, <2>1, MovesOut DEF MonitorRecv, At, Inside, Labels
<1>6. QED
  BY <1>1, <1>2, <1>3, <1>4, <1>5 DEF Heartbeat, Monitor

\* The main thread's own calls, up to the point where they send.
LEMMA LockMain ==
  ASSUME TypeInv, LockInv,
         \/ FillByte
         \/ \E i \in Ids : InitController(i)
         \/ \E S \in SUBSET Ids : SetHeartbeatIds(S)
         \/ EnableHeartbeat
         \/ \E call \in Calls : BroadcastDisable(call)
         \/ Broadcast
         \/ \E call \in Calls : ShutdownCalled(call)
  PROVE  LockInv'
<1> USE ThreadsDistinct
<1>1. CASE FillByte
  <2>1. CASE byte = 0
    <3>1. PICK l \in {"idle", "send"} : pc' = [pc EXCEPT !["main"] = l]
      BY <1>1, <2>1 DEF FillByte, Goto
    <3>2. QED
      BY <1>1, <3>1, MovesOn DEF FillByte, At, Inside, Labels
  <2>2. CASE byte # 0
    BY <1>1, <2>2 DEF FillByte, LockInv, LockHeldInside
  <2>3. QED
    BY <2>1, <2>2
<1>2. ASSUME NEW i \in Ids, InitController(i)
      PROVE LockInv'
  BY <1>2, MovesOn DEF InitController, At, Goto, Inside, Labels
<1>3. ASSUME NEW S \in SUBSET Ids, SetHeartbeatIds(S)
      PROVE LockInv'
  BY <1>3, MovesOn DEF SetHeartbeatIds, At, Goto, Inside, Labels
<1>4. CASE EnableHeartbeat
  BY <1>4 DEF EnableHeartbeat, LockInv, LockHeldInside
<1>5. ASSUME NEW call \in Calls, BroadcastDisable(call)
      PROVE LockInv'
  BY <1>5, MovesOn DEF BroadcastDisable, At, Goto, Inside, Labels
<1>6. CASE SendDisable \/ SendDisableFails
  <2>1. PICK l \in {"bsend", "clear", "idle"} : pc' = [pc EXCEPT !["main"] = l]
    BY <1>6 DEF SendDisable, SendDisableFails, Goto, AfterBroadcast
  <2>2. QED
    BY <1>6, <2>1, MovesOut DEF SendDisable, SendDisableFails, At, Inside, Labels
<1>7. CASE DisableHeartbeatClears
  BY <1>7, MovesOn DEF DisableHeartbeatClears, At, Goto, Inside, Labels
<1>8. ASSUME NEW call \in Calls, ShutdownCalled(call)
      PROVE LockInv'
  BY <1>8, MovesOn DEF ShutdownCalled, At, Goto, Inside, Labels
<1>9. QED
  BY <1>1, <1>2, <1>3, <1>4, <1>5, <1>6, <1>7, <1>8 DEF Broadcast

\* Commanding an output, from any thread, and SIGINT.
LEMMA LockOutput ==
  ASSUME TypeInv, LockInv,
         \/ \E t \in Callers, i \in Ids, on \in BOOLEAN : Output(t, i, on)
         \/ \E i \in Ids : Interrupt(i)
  PROVE  LockInv'
<1> USE ThreadsDistinct
<1>1. ASSUME NEW t \in Callers, NEW i \in Ids, NEW on \in BOOLEAN, Output(t, i, on)
      PROVE LockInv'
  <2>1. lock' = lock /\ pc[t] \notin Inside
    BY <1>1 DEF Output, At, Inside
  <2>2. SendAll(t, <<Duty(i, on)>>) /\ t # "sig" /\ (t = "main" => pc["sig"] = "idle")
    BY <1>1 DEF Output, At
  <2>3. QED
    BY <2>1, <2>2, LockSendAll
<1>2. ASSUME NEW i \in Ids, Interrupt(i)
      PROVE LockInv'
  <2>1. lock' = lock /\ pc["sig"] \notin Inside
    BY <1>2 DEF Interrupt, Inside
  <2>2. SendAll("sig", <<Duty(i, FALSE)>>) /\ <<Duty(i, FALSE)>> # <<>>
    BY <1>2 DEF Interrupt
  <2>3. QED
    BY <2>1, <2>2, LockSendAll
<1>3. QED
  BY <1>1, <1>2

\* The handler's exit ends main's call as well as its own.
LEMMA LockLeave ==
  ASSUME TypeInv, LockInv, NEW t \in {"main", "sig"}, Leave(t),
         t = "main" => pc["sig"] = "idle",
         \/ lock' = lock /\ pc[t] = "sd"
         \/ lock' = "free" /\ pc[t] = "shut"
  PROVE  LockInv'
<1> USE ThreadsDistinct
<1>1. CASE t = "main"
  <2>1. pc' = [pc EXCEPT !["main"] = "idle"]
    BY <1>1 DEF Leave
  <2>2. CASE lock' = lock /\ pc[t] = "sd"
    BY <1>1, <2>1, <2>2, MovesOn DEF Inside, Labels
  <2>3. CASE lock' = "free" /\ pc[t] = "shut"
    BY <1>1, <2>1, <2>3, MovesOut DEF Inside, Labels
  <2>4. QED
    BY <2>2, <2>3
<1>2. CASE t = "sig"
  <2>1. pc' = [pc EXCEPT !["sig"] = "done", !["main"] = "done"]
    BY <1>2 DEF Leave
  <2>2. pc["main"] \notin Inside
    BY <1>2, "sd" \in Through DEF LockInv, LockHeldInside, Inside, Through
  <2>3. "free" \notin Threads
    BY WorkersAssumption DEF Threads, Senders, Callers
  <2>4. LockHeldInside'
    BY <1>2, <2>1, <2>2, <2>3 DEF LockInv, LockHeldInside, TypeInv, TypeOK, Inside
  <2>5. (pc["sig"] \in Through => pc["main"] \notin Inside)'
    BY <2>1 DEF TypeInv, TypeOK, Inside
  <2>6. QED
    BY <2>4, <2>5 DEF LockInv
<1>3. QED
  BY <1>1, <1>2

LEMMA LockShutdown ==
  ASSUME TypeInv, LockInv, NEW t \in {"main", "sig"}, Shutdown(t)
  PROVE  LockInv'
<1> USE ThreadsDistinct DEF Through
<1>1. CASE ShutdownTest(t)
  <2>1. CASE closed
    BY <1>1, <2>1, LockLeave DEF ShutdownTest, At
  <2>2. CASE ~closed
    <3>1. PICK l \in {"sd_flag", "round"} : pc' = [pc EXCEPT ![t] = l]
      BY <1>1, <2>2 DEF ShutdownTest, Goto
    <3>2. QED
      BY <1>1, <3>1, MovesOn DEF ShutdownTest, At, Inside, Labels
  <2>3. QED
    BY <2>1, <2>2
<1>2. CASE ZeroRound(t)
  <2>1. PICK s \in ZeroRounds : SendAll(t, s)
    BY <1>2 DEF ZeroRound
  <2>2. lock' = lock /\ pc[t] \notin Inside
    BY <1>2 DEF ZeroRound, At, Inside
  <2>3. t = "main" => pc["sig"] = "idle"
    BY <1>2 DEF ZeroRound, At
  <2>4. pc[t] \in Through
    BY <1>2 DEF ZeroRound, At
  <2>5. QED
    BY <2>1, <2>2, <2>3, <2>4, LockSendAll
<1>3. CASE ZeroAgain(t)
  BY <1>3, MovesOn DEF ZeroAgain, At, Goto, Inside, Labels
<1>4. CASE ZeroDone(t)
  BY <1>4, MovesOn DEF ZeroDone, At, Goto, Inside, Labels
<1>5. CASE ShutdownFlag(t)
  BY <1>5, MovesOn DEF ShutdownFlag, At, Goto, Inside, Labels
<1>6. CASE ShutdownClose(t)
  BY <1>6, MovesOn DEF ShutdownClose, At, Goto, Inside, Labels
<1>7. CASE ShutdownBus(t)
  BY <1>7, LockLeave DEF ShutdownBus, At
<1>8. QED
  BY <1>1, <1>2, <1>3, <1>4, <1>5, <1>6, <1>7 DEF Shutdown
LEMMA InitLock == Init => LockInv
<1> SUFFICES ASSUME Init PROVE LockInv
  OBVIOUS
<1>1. \A t \in Threads : pc[t] \notin Inside /\ t # "free"
  BY WorkersAssumption DEF Init, Inside, Threads, Senders, Callers
<1>2. lock = "free"
  BY DEF Init
<1>3. QED
  BY <1>1, <1>2, ThreadsDistinct DEF LockInv, LockHeldInside

LEMMA NextLock == TypeInv /\ LockInv /\ [Next]_vars => LockInv'
<1> SUFFICES ASSUME TypeInv, LockInv, [Next]_vars PROVE LockInv'
  OBVIOUS
<1>1. CASE UNCHANGED vars
  BY <1>1 DEF LockInv, LockHeldInside, vars
<1>2. CASE Call
  BY <1>2, LockMain, LockOutput DEF Call
<1>3. ASSUME NEW t \in Threads, Step(t)
      PROVE LockInv'
  BY <1>3, LockSend, LockBackground, LockMain, LockShutdown DEF Step
<1>4. CASE Drain
  BY <1>4 DEF Drain, LockInv, LockHeldInside
<1>5. QED
  BY <1>1, <1>2, <1>3, <1>4 DEF Next, HostStep

LEMMA LockInvariant == Spec => []LockInv
BY InitLock, NextLock, TypeCorrect, PTL DEF Spec

\* _bus_lock excludes: at any time at most one thread is between its
\* acquisition and its release, and it is the one that holds the lock, even
\* though a signal handler may end the main thread in the middle of a call.
THEOREM MutualExclusion == Spec => []LockHeldInside
<1>1. LockInv => LockHeldInside
  BY DEF LockInv
<1>2. QED
  BY <1>1, LockInvariant, PTL
-----------------------------------------------------------------------------
(* Closing.                                                                *)

Closing == {"sd_lock", "shut"}

\* The bus is open as long as _closed is not set, and whoever is about to shut
\* it down has set _closed before.
CloseInv ==
  /\ ~sock => closed
  /\ \A t \in Threads : pc[t] \in Closing => closed
  /\ \A t \in Threads : pc[t] = "tx" => sock

\* A thread that moves, not into send: nothing about closing changes.
LEMMA CloseMoves ==
  ASSUME TypeInv, CloseInv, NEW t \in Threads, NEW l,
         l = "tx" => sock, l \in Closing => closed,
         pc' = [pc EXCEPT ![t] = l], closed' = closed, sock' = sock
  PROVE  CloseInv'
BY DEF TypeInv, TypeOK, CloseInv

\* The main thread moves about in a call.
LEMMA CloseMainMoves ==
  ASSUME TypeInv, CloseInv, NEW l, l \notin Closing \cup {"tx"},
         pc' = [pc EXCEPT !["main"] = l], closed' = closed, sock' = sock
  PROVE  CloseInv'
BY CloseMoves, ThreadsDistinct

LEMMA CloseSend ==
  ASSUME TypeInv, CloseInv, NEW t \in Threads,
         Acquire(t) \/ (t \in Senders /\ SendMsg(t))
  PROVE  CloseInv'
<1> USE DEF Closing
<1>1. CASE Acquire(t)
  <2>1. /\ pc[t] \in {"send", "bsend", "sd_lock", "mlock"}
        /\ pc' = [pc EXCEPT ![t] = Locked[pc[t]]]
        /\ closed' = closed /\ sock' = sock
    BY <1>1 DEF Acquire, Goto, Locked, flags
  <2>2. Locked[pc[t]] # "tx" /\ (Locked[pc[t]] \in Closing => pc[t] = "sd_lock")
    BY <2>1 DEF Locked
  <2>3. QED
    BY <2>1, <2>2, CloseMoves DEF CloseInv
<1>2. CASE t \in Senders /\ CheckClosed(t) /\ ~closed
  BY <1>2, CloseMoves DEF CheckClosed, Goto, flags, CloseInv
<1>3. ASSUME Returns(t), UNCHANGED flags
      PROVE CloseInv'
  <2>1. After(t) \in Labels \ (Closing \cup {"tx"})
    BY DEF After, Labels
  <2>2. PICK l \in Labels \ (Closing \cup {"tx"}) : pc' = [pc EXCEPT ![t] = l]
    <3>1. "send" \in Labels \ (Closing \cup {"tx"})
      BY DEF Labels
    <3>2. QED
      BY <1>3, <2>1, <3>1 DEF Returns, Goto
  <2>3. QED
    BY <1>3, <2>2, CloseMoves DEF flags
<1>4. QED
  BY <1>1, <1>2, <1>3 DEF SendMsg, CheckClosed, Transmit, TransmitFails

\* The steps that change neither flag and start or stop no send.
LEMMA CloseSendAll ==
  ASSUME TypeInv, CloseInv, NEW t \in Threads, NEW fs, SendAll(t, fs), UNCHANGED flags
  PROVE  CloseInv'
<1>1. /\ After(t)' \in Labels \ (Closing \cup {"tx"})
      /\ "send" \in Labels \ (Closing \cup {"tx"})
  BY DEF After, Closing, Labels
<1>2. PICK l \in Labels \ (Closing \cup {"tx"}) : pc' = [pc EXCEPT ![t] = l]
  BY <1>1 DEF SendAll, Goto
<1>3. QED
  BY <1>2, CloseMoves DEF flags

LEMMA CloseMain ==
  ASSUME TypeInv, CloseInv,
         \/ FillByte
         \/ \E i \in Ids : InitController(i)
         \/ \E S \in SUBSET Ids : SetHeartbeatIds(S)
         \/ \E t \in Callers, i \in Ids, on \in BOOLEAN : Output(t, i, on)
         \/ EnableHeartbeat
         \/ \E call \in Calls : BroadcastDisable(call)
         \/ Broadcast
         \/ \E call \in Calls : ShutdownCalled(call)
         \/ \E i \in Ids : Interrupt(i)
  PROVE  CloseInv'
<1> USE ThreadsDistinct DEF flags, Closing, Goto
<1>1. CASE FillByte
  <2>1. CASE byte = 0
    <3>1. PICK l \in {"idle", "send"} : pc' = [pc EXCEPT !["main"] = l]
      BY <1>1, <2>1 DEF FillByte
    <3>2. QED
      BY <1>1, <3>1, CloseMoves DEF FillByte
  <2>2. CASE byte # 0
    BY <1>1, <2>2 DEF FillByte, CloseInv
  <2>3. QED
    BY <2>1, <2>2
<1>2. ASSUME NEW i \in Ids, InitController(i)
      PROVE CloseInv'
  <2>1. pc' = [pc EXCEPT !["main"] = "fill"] /\ UNCHANGED flags
    BY <1>2 DEF InitController
  <2>2. QED
    BY <2>1, CloseMainMoves
<1>3. ASSUME NEW S \in SUBSET Ids, SetHeartbeatIds(S)
      PROVE CloseInv'
  <2>1. pc' = [pc EXCEPT !["main"] = "fill"] /\ UNCHANGED flags
    BY <1>3 DEF SetHeartbeatIds
  <2>2. QED
    BY <2>1, CloseMainMoves
<1>4. ASSUME NEW t \in Callers, NEW i \in Ids, NEW on \in BOOLEAN, Output(t, i, on)
      PROVE CloseInv'
  BY <1>4, CloseSendAll DEF Output
<1>5. CASE EnableHeartbeat
  BY <1>5 DEF EnableHeartbeat, CloseInv
<1>6. ASSUME NEW call \in Calls, BroadcastDisable(call)
      PROVE CloseInv'
  <2>1. pc' = [pc EXCEPT !["main"] = "bsend"] /\ UNCHANGED <<closed, sock>>
    BY <1>6 DEF BroadcastDisable
  <2>2. QED
    BY <2>1, CloseMainMoves
<1>7. CASE SendDisable \/ SendDisableFails
  <2>1. PICK l \in {"bsend", "clear", "idle"} : pc' = [pc EXCEPT !["main"] = l]
    BY <1>7 DEF SendDisable, SendDisableFails, AfterBroadcast
  <2>2. QED
    <3>1. UNCHANGED <<closed, sock>>
      BY <1>7 DEF SendDisable, SendDisableFails
    <3> QED BY <2>1, <3>1, CloseMainMoves
<1>8. CASE DisableHeartbeatClears
  <2>1. pc' = [pc EXCEPT !["main"] = "idle"] /\ UNCHANGED <<closed, sock>>
    BY <1>8 DEF DisableHeartbeatClears
  <2>2. QED
    BY <2>1, CloseMainMoves
<1>9. ASSUME NEW call \in Calls, ShutdownCalled(call)
      PROVE CloseInv'
  <2>1. pc' = [pc EXCEPT !["main"] = "sd"] /\ UNCHANGED <<closed, sock>>
    BY <1>9 DEF ShutdownCalled
  <2>2. QED
    BY <2>1, CloseMainMoves
<1>10. ASSUME NEW i \in Ids, Interrupt(i)
       PROVE CloseInv'
  BY <1>10, CloseSendAll DEF Interrupt
<1>11. QED
  BY <1>1, <1>2, <1>3, <1>4, <1>5, <1>6, <1>7, <1>8, <1>9, <1>10 DEF Broadcast

LEMMA CloseBackground ==
  ASSUME TypeInv, CloseInv, Heartbeat \/ Monitor
  PROVE  CloseInv'
<1> USE ThreadsDistinct DEF flags, Closing, Goto
<1>1. CASE BeatTest
  <2>1. PICK l \in {"done", "build"} : pc' = [pc EXCEPT !["hb"] = l]
    BY <1>1 DEF BeatTest
  <2>2. QED
    BY <1>1, <2>1, CloseMoves DEF BeatTest
<1>2. CASE BeatBuild
  BY <1>2, CloseSendAll DEF BeatBuild
<1>3. CASE BeatSet
  BY <1>3, CloseMoves DEF BeatSet
<1>4. CASE MonitorTest \/ MonitorRecv
  <2>1. PICK l \in {"done", "mlock", "top"} : pc' = [pc EXCEPT !["mon"] = l]
    BY <1>4 DEF MonitorTest, MonitorRecv
  <2>2. QED
    BY <1>4, <2>1, CloseMoves DEF MonitorTest, MonitorRecv
<1>5. QED
  BY <1>1, <1>2, <1>3, <1>4 DEF Heartbeat, Monitor

\* Shutting the bus down needs the lock, so no sender is inside it by then.
LEMMA CloseShutdown ==
  ASSUME TypeInv, LockInv, CloseInv, NEW t \in {"main", "sig"}, Shutdown(t)
  PROVE  CloseInv'
<1> USE ThreadsDistinct DEF flags, Closing, Goto
<1>1. CASE ShutdownTest(t)
  <2>1. CASE closed
    BY <1>1, <2>1 DEF ShutdownTest, Leave, CloseInv, TypeInv, TypeOK
  <2>2. CASE ~closed
    <3>1. PICK l \in {"sd_flag", "round"} : pc' = [pc EXCEPT ![t] = l]
      BY <1>1, <2>2 DEF ShutdownTest
    <3>2. QED
      BY <1>1, <3>1, CloseMoves DEF ShutdownTest
  <2>3. QED
    BY <2>1, <2>2
<1>2. CASE ZeroRound(t)
  BY <1>2, CloseSendAll DEF ZeroRound
<1>3. CASE ZeroAgain(t) \/ ZeroDone(t)
  <2>1. PICK l \in {"sd_flag", "round"} : pc' = [pc EXCEPT ![t] = l]
    BY <1>3 DEF ZeroAgain, ZeroDone
  <2>2. QED
    BY <1>3, <2>1, CloseMoves DEF ZeroAgain, ZeroDone
<1>4. CASE ShutdownFlag(t)
  BY <1>4, CloseMoves DEF ShutdownFlag
<1>5. CASE ShutdownClose(t)
  BY <1>5 DEF ShutdownClose, CloseInv, TypeInv, TypeOK
<1>6. CASE ShutdownBus(t)
  <2>1. \A u \in Threads : u # t => pc[u] \notin Inside
    BY <1>6 DEF ShutdownBus, At, LockInv, LockHeldInside, Inside
  <2>2. \A u \in Threads : pc'[u] # "tx"
    BY <1>6, <2>1 DEF ShutdownBus, Leave, TypeInv, TypeOK, Inside
  <2>3. closed
    BY <1>6 DEF ShutdownBus, At, CloseInv
  <2>4. QED
    BY <1>6, <2>2, <2>3 DEF ShutdownBus, CloseInv
<1>7. QED
  BY <1>1, <1>2, <1>3, <1>4, <1>5, <1>6 DEF Shutdown

LEMMA InitClose == Init => CloseInv
BY DEF Init, CloseInv, Closing

LEMMA NextClose == TypeInv /\ LockInv /\ CloseInv /\ [Next]_vars => CloseInv'
<1> SUFFICES ASSUME TypeInv, LockInv, CloseInv, [Next]_vars PROVE CloseInv'
  OBVIOUS
<1>1. CASE UNCHANGED vars
  BY <1>1 DEF CloseInv, vars
<1>2. CASE Call
  BY <1>2, CloseMain DEF Call
<1>3. ASSUME NEW t \in Threads, Step(t)
      PROVE CloseInv'
  BY <1>3, CloseSend, CloseBackground, CloseMain, CloseShutdown DEF Step
<1>4. CASE Drain
  BY <1>4 DEF Drain, CloseInv, flags
<1>5. QED
  BY <1>1, <1>2, <1>3, <1>4 DEF Next, HostStep

\* send_msg never calls the bus after shutdown has shut it down: its test of
\* _closed, made inside the lock, is enough although _closed is set outside.
THEOREM NoSendOnClosedBus == Spec => []NoSendAfterClose
<1>1. CloseInv => NoSendAfterClose
  BY ThreadsDistinct DEF CloseInv, NoSendAfterClose
<1>2. Spec => []CloseInv
  BY InitClose, NextClose, TypeCorrect, LockInvariant, PTL DEF Spec
<1>3. QED
  BY <1>1, <1>2, PTL
-----------------------------------------------------------------------------
(* The enable array.                                                       *)

\* While main fills the array, the ids in the bytes already written, the high
\* ones, are marked; otherwise all registered ids are.  After SIGINT cut main
\* short the array may stay incomplete, but never marks an id too many.
ArrayInv ==
  /\ marked \subseteq canIds
  /\ pc["main"] = "fill" => marked = {i \in canIds : i \div 8 > byte}
  /\ pc["main"] \notin {"fill", "done"} => marked = canIds

\* A step that leaves the ids alone, and keeps main in or out of the filling.
LEMMA ArrayKept ==
  ASSUME ArrayInv, UNCHANGED ids,
         pc'["main"] = "done" \/ (pc'["main"] = "fill" <=> pc["main"] = "fill"),
         pc["main"] = "done" => pc'["main"] = "done"
  PROVE  ArrayInv'
BY DEF ArrayInv, ids

LEMMA ArrayMain ==
  ASSUME TypeInv, ArrayInv,
         \/ FillByte
         \/ \E i \in Ids : InitController(i)
         \/ \E S \in SUBSET Ids : SetHeartbeatIds(S)
  PROVE  ArrayInv'
<1> USE ThreadsDistinct DEF Goto
<1>0. \A S \in SUBSET Ids : {i \in S : i \div 8 > 7} = {}
  <2>1. \A i \in 0 .. 63 : ~(i \div 8 > 7)
    OBVIOUS
  <2>2. QED
    BY <2>1, IdsAssumption
<1>1. CASE FillByte
  <2>1. /\ marked = {i \in canIds : i \div 8 > byte}
        /\ marked' = (marked \ InByte(byte)) \cup (canIds \cap InByte(byte))
        /\ canIds' = canIds /\ canIds \subseteq Ids /\ byte \in 0 .. 7
    BY <1>1 DEF FillByte, At, ArrayInv, ids, TypeInv, TypeOK
  <2>2. \A i \in canIds : i \div 8 \in 0 .. 7
    BY <2>1, IdsAssumption
  <2>3. marked' = {i \in canIds : i \div 8 >= byte}
    BY <2>1, <2>2 DEF InByte
  <2>4. CASE byte = 0
    <3>1. marked' = canIds
      BY <2>2, <2>3, <2>4
    <3>2. PICK l \in {"idle", "send"} : pc' = [pc EXCEPT !["main"] = l]
      BY <1>1, <2>4 DEF FillByte
    <3>3. QED
      BY <2>1, <3>1, <3>2 DEF ArrayInv, TypeInv, TypeOK
  <2>5. CASE byte # 0
    <3>1. byte' = byte - 1 /\ pc' = pc /\ pc["main"] = "fill"
      BY <1>1, <2>5 DEF FillByte, At
    <3>2. marked' = {i \in canIds : i \div 8 > byte'}
      BY <2>1, <2>2, <2>3, <3>1
    <3>3. QED
      BY <2>1, <3>1, <3>2 DEF ArrayInv
  <2>6. QED
    BY <2>4, <2>5
<1>2. ASSUME NEW S \in SUBSET Ids, ResetArray(S), pc' = [pc EXCEPT !["main"] = "fill"]
      PROVE ArrayInv'
  BY <1>0, <1>2 DEF ResetArray, ArrayInv, TypeInv, TypeOK
<1>3. ASSUME NEW i \in Ids, InitController(i)
      PROVE ArrayInv'
  <2>1. ResetArray(canIds \cup {i}) /\ pc' = [pc EXCEPT !["main"] = "fill"]
    BY <1>3 DEF InitController
  <2>2. canIds \cup {i} \in SUBSET Ids
    BY DEF TypeInv, TypeOK
  <2>3. QED
    BY <1>2, <2>1, <2>2
<1>4. ASSUME NEW S \in SUBSET Ids, SetHeartbeatIds(S)
      PROVE ArrayInv'
  BY <1>2, <1>4 DEF SetHeartbeatIds
<1>5. QED
  BY <1>1, <1>3, <1>4

\* What the other steps leave of main's position.
MainKept ==
  /\ UNCHANGED ids
  /\ pc'["main"] = "done" \/ (pc'["main"] = "fill" <=> pc["main"] = "fill")
  /\ pc["main"] = "done" => pc'["main"] = "done"

LEMMA MainKeptSend ==
  ASSUME TypeInv, NEW t \in Threads, Acquire(t) \/ (t \in Senders /\ SendMsg(t))
  PROVE  MainKept
<1> USE ThreadsDistinct DEF MainKept, TypeInv, TypeOK, Goto
<1>1. CASE Acquire(t)
  <2>1. /\ pc[t] \in {"send", "bsend", "sd_lock", "mlock"}
        /\ pc' = [pc EXCEPT ![t] = Locked[pc[t]]] /\ UNCHANGED ids
    BY <1>1 DEF Acquire, Locked
  <2>2. Locked[pc[t]] # "fill"
    BY <2>1 DEF Locked
  <2>3. QED
    BY <2>1, <2>2
<1>2. CASE t \in Senders /\ CheckClosed(t) /\ ~closed
  BY <1>2 DEF CheckClosed, At
<1>3. ASSUME Returns(t), UNCHANGED ids, pc[t] \in {"check", "tx"}
      PROVE MainKept
  <2>1. After(t) \in Labels \ {"fill"}
    BY DEF After, Labels
  <2>2. PICK l \in Labels \ {"fill"} : pc' = [pc EXCEPT ![t] = l]
    <3>1. "send" \in Labels \ {"fill"}
      BY DEF Labels
    <3>2. QED
      BY <1>3, <2>1, <3>1 DEF Returns
  <2>3. QED
    BY <1>3, <2>2
<1>4. QED
  BY <1>1, <1>2, <1>3 DEF SendMsg, CheckClosed, Transmit, TransmitFails, At

LEMMA MainKeptSendAll ==
  ASSUME TypeInv, NEW t \in Threads, NEW fs, SendAll(t, fs), UNCHANGED ids,
         pc[t] \notin {"fill", "done"}
  PROVE  MainKept
<1>1. /\ After(t)' \in Labels \ {"fill"}
      /\ "send" \in Labels \ {"fill"}
  BY DEF After, Labels
<1>2. PICK l \in Labels \ {"fill"} : pc' = [pc EXCEPT ![t] = l]
  BY <1>1 DEF SendAll, Goto
<1>3. QED
  BY <1>2, ThreadsDistinct DEF MainKept, TypeInv, TypeOK

LEMMA MainKeptElse ==
  ASSUME TypeInv,
         \/ \E t \in Callers, i \in Ids, on \in BOOLEAN : Output(t, i, on)
         \/ EnableHeartbeat
         \/ \E call \in Calls : BroadcastDisable(call)
         \/ Broadcast
         \/ \E call \in Calls : ShutdownCalled(call)
         \/ \E i \in Ids : Interrupt(i)
         \/ Heartbeat
         \/ Monitor
         \/ \E t \in {"main", "sig"} : Shutdown(t)
  PROVE  MainKept
<1> USE ThreadsDistinct DEF MainKept, TypeInv, TypeOK, Goto, At
<1>1. ASSUME NEW t \in Callers, NEW i \in Ids, NEW on \in BOOLEAN, Output(t, i, on)
      PROVE MainKept
  BY <1>1, MainKeptSendAll DEF Output
<1>2. CASE EnableHeartbeat \/ \E call \in Calls : BroadcastDisable(call)
  BY <1>2 DEF EnableHeartbeat, BroadcastDisable, ids
<1>3. CASE Broadcast
  BY <1>3 DEF Broadcast, SendDisable, SendDisableFails, DisableHeartbeatClears,
              AfterBroadcast
<1>4. CASE \E call \in Calls : ShutdownCalled(call)
  BY <1>4 DEF ShutdownCalled
<1>5. ASSUME NEW i \in Ids, Interrupt(i)
      PROVE MainKept
  BY <1>5, MainKeptSendAll DEF Interrupt
<1>6. CASE Heartbeat \/ Monitor
  <2>1. CASE BeatBuild
    BY <2>1, MainKeptSendAll DEF BeatBuild
  <2>2. CASE BeatTest \/ BeatSet \/ Monitor
    BY <2>2 DEF BeatTest, BeatSet, Monitor, MonitorTest, MonitorRecv
  <2>3. QED
    BY <1>6, <2>1, <2>2 DEF Heartbeat
<1>7. ASSUME NEW t \in {"main", "sig"}, Shutdown(t)
      PROVE MainKept
  <2>1. CASE ShutdownTest(t) /\ closed
    BY <2>1 DEF ShutdownTest, Leave
  <2>2. CASE ShutdownTest(t) /\ ~closed
    BY <2>2 DEF ShutdownTest
  <2>3. CASE ZeroRound(t)
    BY <2>3, MainKeptSendAll DEF ZeroRound
  <2>4. CASE ZeroAgain(t) \/ ZeroDone(t) \/ ShutdownFlag(t) \/ ShutdownClose(t)
    BY <2>4 DEF ZeroAgain, ZeroDone, ShutdownFlag, ShutdownClose
  <2>5. CASE ShutdownBus(t)
    BY <2>5 DEF ShutdownBus, Leave
  <2>6. QED
    BY <1>7, <2>1, <2>2, <2>3, <2>4, <2>5 DEF Shutdown
<1>8. QED
  BY <1>1, <1>2, <1>3, <1>4, <1>5, <1>6, <1>7

LEMMA NextArray == TypeInv /\ ArrayInv /\ [Next]_vars => ArrayInv'
<1> SUFFICES ASSUME TypeInv, ArrayInv, [Next]_vars PROVE ArrayInv'
  OBVIOUS
<1>1. CASE UNCHANGED vars
  BY <1>1, ArrayKept DEF vars, ids
<1>2. MainKept => ArrayInv'
  BY ArrayKept DEF MainKept
<1>3. CASE Call
  BY <1>2, <1>3, ArrayMain, MainKeptElse DEF Call
<1>4. ASSUME NEW t \in Threads, Step(t)
      PROVE ArrayInv'
  BY <1>2, <1>4, ArrayMain, MainKeptSend, MainKeptElse DEF Step
<1>5. CASE Drain
  BY <1>5, ArrayKept DEF Drain
<1>6. QED
  BY <1>1, <1>3, <1>4, <1>5 DEF Next, HostStep

LEMMA ArrayInvariant == Spec => []ArrayInv
<1>1. Init => ArrayInv
  BY ThreadsDistinct DEF Init, ArrayInv
<1>2. QED
  BY <1>1, NextArray, TypeCorrect, PTL DEF Spec

\* The array the heartbeat thread copies names exactly the registered ids
\* whenever main is not inside _update_heartbeat_array: the eight byte writes
\* cover all 64 ids, for every set of ids.
THEOREM ArrayIsCurrent == Spec => []ArrayCurrent
<1>1. ArrayInv => ArrayCurrent
  BY DEF ArrayInv, ArrayCurrent
<1>2. QED
  BY <1>1, ArrayInvariant, PTL
-----------------------------------------------------------------------------
(* The one late heartbeat.                                                 *)

\* A second late heartbeat would need the heartbeat thread to have tested the
\* flag, or copied the array, before the change of mind; but it sends one at a
\* time, so once one has been late it has tested and copied since.
LateInv ==
  /\ late \in {0, 1}
  /\ late = 1 /\ pc["hb"] = "build" => enabled /\ ~closed
  /\ late = 1 /\ pc["hb"] \in Sending => Head(todo["hb"]).ids \subseteq Asked

\* A step of any other thread: the heartbeat thread is where it was, no
\* heartbeat went out, and only a bus already marked closed is shut down.
HbKept ==
  /\ pc'["hb"] = pc["hb"] /\ todo'["hb"] = todo["hb"]
  /\ ~Accepts("beat")
  /\ sock' = sock \/ (closed /\ sock' = FALSE /\ mind' = mind)

LEMMA NothingOut ==
  ASSUME TypeInv, out' = out \/ (out # <<>> /\ out' = Tail(out))
  PROVE  \A kind : ~Accepts(kind)
<1>1. out # <<>> => Len(Tail(out)) = Len(out) - 1 /\ Len(out) \in Nat
  BY TailTypes DEF TypeInv, TypeOK
<1>2. QED
  BY <1>1 DEF Accepts

\* Appending a frame accepts that frame and no other.
LEMMA FrameOut ==
  ASSUME TypeInv, NEW f \in Frame, out' = Append(out, f)
  PROVE  /\ out'[Len(out')] = f
         /\ \A kind : Accepts(kind) <=> f.kind = kind
<1>1. out \in Seq(Frame) /\ Len(out) \in Nat
  BY DEF TypeInv, TypeOK
<1>2. Len(out') = Len(out) + 1 /\ out'[Len(out) + 1] = f
  BY <1>1, AppendProperties
<1>3. QED
  BY <1>1, <1>2 DEF Accepts

LEMMA HbKeptSend ==
  ASSUME TypeInv, NEW t \in Threads, t # "hb",
         Acquire(t) \/ (t \in Senders /\ SendMsg(t))
  PROVE  HbKept
<1> USE ThreadsDistinct DEF HbKept, TypeInv, TypeOK, Goto, flags, mind, local
<1>1. CASE Acquire(t)
  BY <1>1, NothingOut DEF Acquire
<1>2. CASE t \in Senders /\ CheckClosed(t)
  BY <1>2, NothingOut DEF CheckClosed, Returns
<1>3. CASE t \in Senders /\ Transmit(t)
  <2>1. todo[t] \in Seq(CallerFrame) /\ todo[t] # <<>>
    BY <1>3 DEF Transmit, At, Callers, Senders, Sending
  <2>2. Head(todo[t]) \in CallerFrame
    BY <2>1, TailTypes
  <2>3. Head(todo[t]) \in Frame /\ Head(todo[t]).kind # "beat"
    BY <2>2 DEF CallerFrame
  <2>4. ~Accepts("beat")
    BY <1>3, <2>3, FrameOut DEF Transmit
  <2>5. QED
    BY <1>3, <2>4 DEF Transmit, Returns
<1>4. CASE t \in Senders /\ TransmitFails(t)
  BY <1>4, NothingOut DEF TransmitFails, Returns
<1>5. QED
  BY <1>1, <1>2, <1>3, <1>4 DEF SendMsg

LEMMA HbKeptMain ==
  ASSUME TypeInv, CloseInv,
         \/ FillByte
         \/ \E i \in Ids : InitController(i)
         \/ \E S \in SUBSET Ids : SetHeartbeatIds(S)
         \/ \E t \in Callers, i \in Ids, on \in BOOLEAN : Output(t, i, on)
         \/ EnableHeartbeat
         \/ \E call \in Calls : BroadcastDisable(call)
         \/ Broadcast
         \/ Monitor
         \/ \E call \in Calls : ShutdownCalled(call)
         \/ \E t \in {"main", "sig"} : Shutdown(t)
         \/ \E i \in Ids : Interrupt(i)
  PROVE  HbKept
<1> USE ThreadsDistinct DEF HbKept, TypeInv, TypeOK, Goto, flags, mind, local
<1>1. CASE FillByte \/ \E S \in SUBSET Ids : SetHeartbeatIds(S)
  BY <1>1, NothingOut DEF FillByte, SetHeartbeatIds
<1>2. ASSUME NEW i \in Ids, InitController(i)
      PROVE HbKept
  <2>1. PICK fs : todo' = [todo EXCEPT !["main"] = fs]
    BY <1>2 DEF InitController
  <2>2. /\ pc' = [pc EXCEPT !["main"] = "fill"]
        /\ UNCHANGED <<flags, out>>
    BY <1>2 DEF InitController
  <2>3. QED
    BY <2>1, <2>2, NothingOut
<1>3. ASSUME NEW t \in Callers, NEW i \in Ids, NEW on \in BOOLEAN, Output(t, i, on)
      PROVE HbKept
  BY <1>3, NothingOut DEF Output, SendAll
<1>4. CASE EnableHeartbeat \/ \E call \in Calls : BroadcastDisable(call)
  BY <1>4, NothingOut DEF EnableHeartbeat, BroadcastDisable
<1>5. CASE SendDisable
  <2>1. Disable \in Frame /\ Disable.kind # "beat"
    BY FrameTypes DEF CallerFrame
  <2>2. ~Accepts("beat")
    BY <1>5, <2>1, FrameOut DEF SendDisable
  <2>3. QED
    BY <1>5, <2>2 DEF SendDisable
<1>6. CASE SendDisableFails \/ DisableHeartbeatClears \/ Monitor
  BY <1>6, NothingOut
     DEF SendDisableFails, DisableHeartbeatClears, Monitor, MonitorTest, MonitorRecv
<1>7. CASE \E call \in Calls : ShutdownCalled(call)
  BY <1>7, NothingOut DEF ShutdownCalled
<1>8. ASSUME NEW i \in Ids, Interrupt(i)
      PROVE HbKept
  BY <1>8, NothingOut DEF Interrupt, SendAll
<1>9. ASSUME NEW t \in {"main", "sig"}, Shutdown(t)
      PROVE HbKept
  <2>1. CASE ShutdownTest(t) \/ ZeroRound(t)
    BY <2>1, NothingOut DEF ShutdownTest, ZeroRound, Leave, SendAll
  <2>2. CASE ZeroAgain(t) \/ ZeroDone(t) \/ ShutdownFlag(t) \/ ShutdownClose(t)
    BY <2>2, NothingOut DEF ZeroAgain, ZeroDone, ShutdownFlag, ShutdownClose
  <2>3. CASE ShutdownBus(t)
    <3>1. closed
      BY <2>3 DEF ShutdownBus, At, CloseInv, Closing
    <3>2. QED
      BY <2>3, <3>1, NothingOut DEF ShutdownBus, Leave, ids
  <2>4. QED
    BY <1>9, <2>1, <2>2, <2>3 DEF Shutdown
<1> HIDE DEF HbKept, TypeInv, TypeOK
<1>10. QED
  BY <1>1, <1>2, <1>3, <1>4, <1>5, <1>6, <1>7, <1>8, <1>9 DEF Broadcast

LEMMA HbKeptNext ==
  ASSUME TypeInv, CloseInv, Next, ~Heartbeat,
         ~(Acquire("hb") \/ SendMsg("hb"))
  PROVE  HbKept
<1>1. CASE Call
  BY <1>1, HbKeptMain DEF Call
<1>2. ASSUME NEW t \in Threads, Step(t)
      PROVE HbKept
  BY <1>2, HbKeptSend, HbKeptMain DEF Step
<1>3. CASE Drain
  BY <1>3, NothingOut DEF Drain, HbKept, local, flags
<1>4. QED
  BY <1>1, <1>2, <1>3 DEF Next, HostStep

\* Changing one's mind starts the count again.
LEMMA LateReset ==
  ASSUME History, mind' # mind
  PROVE  LateInv'
BY DEF History, LateInv

LEMMA LateKept ==
  ASSUME TypeInv, LateInv, History, HbKept
  PROVE  LateInv'
<1>1. CASE mind' = mind
  <2>1. late' = late
    BY <1>1 DEF History, HbKept
  <2>2. Asked' = Asked /\ enabled' = enabled /\ closed' = closed
    BY <1>1 DEF mind, Asked
  <2>3. QED
    BY <2>1, <2>2 DEF HbKept, LateInv
<1>2. QED
  BY <1>1, LateReset

\* The heartbeat thread's own steps leave the application's mind alone.
LEMMA LateBeats ==
  ASSUME TypeInv, ArrayInv, LateInv, History,
         Heartbeat \/ Acquire("hb") \/ SendMsg("hb")
  PROVE  LateInv' /\ mind' = mind /\ sock' = sock
<1> USE ThreadsDistinct
<1>1. mind' = mind /\ sock' = sock /\ Asked' = Asked
  BY DEF Heartbeat, BeatTest, BeatBuild, BeatSet, Acquire, SendMsg, CheckClosed,
         Transmit, TransmitFails, mind, flags, ids, Asked
<1>2. CASE BeatTest
  <2>1. late' = late
    BY <1>1, <1>2, NothingOut DEF History, BeatTest
  <2>2. pc'["hb"] = "done" \/ (pc'["hb"] = "build" /\ enabled /\ ~closed)
    BY <1>2 DEF BeatTest, Goto, TypeInv, TypeOK
  <2>3. QED
    BY <1>1, <2>1, <2>2 DEF LateInv, Sending, mind
<1>3. CASE BeatBuild
  <2>1. late' = late
    BY <1>1, <1>3, NothingOut DEF History, BeatBuild
  <2>2. pc["hb"] = "build" /\ pc'["hb"] = "send" /\ todo'["hb"] = <<Beat(marked)>>
    BY <1>3 DEF BeatBuild, SendAll, Goto, At, TypeInv, TypeOK
  <2>3. late = 1 => Beat(marked).ids \subseteq Asked
    BY <2>2 DEF LateInv, ArrayInv, Asked, Beat
  <2>4. QED
    BY <1>1, <2>1, <2>2, <2>3 DEF LateInv
<1>4. CASE BeatSet
  <2>1. late' = late
    BY <1>1, <1>4, NothingOut DEF History, BeatSet
  <2>2. pc'["hb"] = "top"
    BY <1>4 DEF BeatSet, Goto, TypeInv, TypeOK
  <2>3. QED
    BY <1>1, <2>1, <2>2 DEF LateInv, Sending
<1>5. CASE Acquire("hb")
  <2>1. late' = late
    BY <1>1, <1>5, NothingOut DEF History, Acquire
  <2>2. /\ pc["hb"] \in DOMAIN Locked /\ pc'["hb"] = Locked[pc["hb"]]
        /\ todo' = todo
    BY <1>5 DEF Acquire, Goto, TypeInv, TypeOK, local
  <2>3. pc'["hb"] # "build" /\ (pc'["hb"] \in Sending => pc["hb"] \in Sending)
    BY <2>2 DEF Locked, Sending
  <2>4. QED
    BY <1>1, <2>1, <2>2, <2>3 DEF LateInv
<1>6. CASE CheckClosed("hb") /\ ~closed
  <2>1. late' = late
    BY <1>1, <1>6, NothingOut DEF History, CheckClosed
  <2>2. pc["hb"] \in Sending /\ pc'["hb"] = "tx" /\ todo' = todo
    BY <1>6 DEF CheckClosed, Goto, At, Sending, TypeInv, TypeOK
  <2>3. QED
    BY <1>1, <2>1, <2>2 DEF LateInv
<1>7. ASSUME Returns("hb"), pc["hb"] \in Sending
      PROVE pc'["hb"] = "set"
  <2>1. Len(todo["hb"]) = 1
    BY <1>7 DEF TypeInv
  <2>2. After("hb") = "set"
    BY DEF After
  <2>3. QED
    BY <1>7, <2>1, <2>2 DEF Returns, Goto, TypeInv, TypeOK
<1>8. CASE (CheckClosed("hb") /\ closed) \/ TransmitFails("hb")
  <2>1. late' = late
    BY <1>1, <1>8, NothingOut DEF History, CheckClosed, TransmitFails
  <2>2. pc'["hb"] = "set"
    BY <1>7, <1>8 DEF CheckClosed, TransmitFails, At, Sending
  <2>3. QED
    BY <1>1, <2>1, <2>2 DEF LateInv, Sending
<1>9. CASE Transmit("hb")
  <2>1. pc["hb"] = "tx" /\ pc["hb"] \in Sending /\ pc'["hb"] = "set"
    BY <1>7, <1>9 DEF Transmit, At, Sending
  <2>2. Head(todo["hb"]) \in Frame
    BY <2>1, TailTypes DEF TypeInv, TypeOK
  <2>3. out'[Len(out')] = Head(todo["hb"])
    BY <1>9, <2>2, FrameOut DEF Transmit
  <2>4. late = 1 => out'[Len(out')].ids \subseteq Asked
    BY <2>1, <2>3 DEF LateInv
  <2>5. late' \in {0, 1}
    BY <1>1, <2>4 DEF History, LateInv
  <2>6. QED
    BY <1>1, <2>1, <2>5 DEF LateInv, Sending
<1>10. QED
  BY <1>1, <1>2, <1>3, <1>4, <1>5, <1>6, <1>8, <1>9 DEF Heartbeat, SendMsg, CheckClosed

LEMMA NextLate ==
  TypeInv /\ CloseInv /\ ArrayInv /\ LateInv /\ [Next]_vars => LateInv'
<1> SUFFICES ASSUME TypeInv, CloseInv, ArrayInv, LateInv, [Next]_vars PROVE LateInv'
  OBVIOUS
<1>1. CASE UNCHANGED vars
  BY <1>1 DEF LateInv, Asked, vars
<1>2. CASE Next
  <2>1. History
    BY <1>2 DEF Next, HostStep
  <2>2. QED
    BY <1>2, <2>1, HbKeptNext, LateKept, LateBeats
<1>3. QED
  BY <1>1, <1>2

LEMMA CloseInvariant == Spec => []CloseInv
BY InitClose, NextClose, TypeCorrect, LockInvariant, PTL DEF Spec

LEMMA LateInvariant == Spec => []LateInv
<1>1. Init => LateInv
  BY DEF Init, LateInv
<1>2. QED
  BY <1>1, NextLate, TypeCorrect, CloseInvariant, ArrayInvariant, PTL DEF Spec

\* However the application changes its mind (stops the heartbeat, drops an id,
\* shuts down) and wherever the heartbeat thread is then, at most one heartbeat
\* that enables something no longer asked for still goes out.
THEOREM OneLateBeatAtMost == Spec => []OneLateBeat
<1>1. LateInv => OneLateBeat
  BY DEF LateInv, OneLateBeat
<1>2. QED
  BY <1>1, LateInvariant, PTL

-----------------------------------------------------------------------------
(* The abstract switch.                                                    *)

LEMMA SwitchStep ==
  TypeInv /\ CloseInv /\ LateInv /\ LateInv' /\ ArrayInv /\ TypeInv' /\ [Next]_vars
    => [Switch!Next]_<<Asked, late, sock>>
<1> SUFFICES ASSUME TypeInv, CloseInv, ArrayInv, LateInv, LateInv', TypeInv', [Next]_vars
             PROVE  [Switch!Next]_<<Asked, late, sock>>
  OBVIOUS
<1> DEFINE Steps == [Switch!Next]_<<Asked, late, sock>>
<1>1. CASE UNCHANGED vars
  BY <1>1 DEF Asked, vars
<1>2. ASSUME History, mind' # mind, sock' = sock
      PROVE Steps
  <2>1. late' = 0
    BY <1>2 DEF History
  <2>2. Asked' \in SUBSET Ids
    BY DEF TypeInv, TypeOK, Asked
  <2>3. Switch!Ask(Asked')
    BY <1>2, <2>1 DEF Switch!Ask
  <2>4. QED
    BY <2>2, <2>3 DEF Switch!Next
<1>3. ASSUME History, mind' = mind, sock' = sock, late' = 1 => (late = 1 \/ sock)
      PROVE Steps
  <2>1. Asked' = Asked
    BY <1>3 DEF mind, Asked
  <2>2. late' = late \/ (late = 0 /\ late' = 1)
    BY <1>3 DEF History, LateInv
  <2>3. CASE late' = late
    BY <1>3, <2>1, <2>3
  <2>4. CASE late = 0 /\ late' = 1
    BY <1>3, <2>1, <2>4 DEF Switch!Next, Switch!LateBeat
  <2>5. QED
    BY <2>2, <2>3, <2>4
<1>4. ASSUME History, mind' = mind, closed, sock' = FALSE, late' = late
      PROVE Steps
  <2>1. Asked = {} /\ Asked' = {}
    BY <1>4 DEF mind, Asked
  <2>2. QED
    BY <1>4, <2>1 DEF Switch!Next, Switch!Close
<1>5. ASSUME History, HbKept
      PROVE Steps
  <2>1. mind' = mind => late' = late
    BY <1>5 DEF History, HbKept
  <2>2. QED
    BY <1>2, <1>3, <1>4, <1>5, <2>1 DEF HbKept
<1>6. ASSUME History, Heartbeat \/ Acquire("hb") \/ SendMsg("hb")
      PROVE Steps
  <2>1. mind' = mind /\ sock' = sock
    BY <1>6, LateBeats
  <2>2. CASE Transmit("hb")
    <3>1. sock
      BY <2>2, ThreadsDistinct DEF Transmit, At, CloseInv
    <3>2. QED
      BY <1>3, <1>6, <2>1, <3>1
  <2>3. CASE ~Transmit("hb")
    <3>1. out' = out
      BY <1>6, <2>3 DEF Heartbeat, BeatTest, BeatBuild, BeatSet, Acquire, SendMsg,
                        CheckClosed, TransmitFails
    <3>2. late' = late
      BY <1>6, <2>1, <3>1, NothingOut DEF History
    <3>3. QED
      BY <1>3, <1>6, <2>1, <3>2
  <2>4. QED
    BY <2>2, <2>3
<1>7. CASE Next
  <2>1. History
    BY <1>7 DEF Next, HostStep
  <2>2. QED
    BY <1>5, <1>6, <1>7, <2>1, HbKeptNext
<1>8. QED
  BY <1>1, <1>7

\* SparkBus, with its threads and its lock, implements StopSwitch: seen from
\* what the application asks for, every step is a change of mind, the one late
\* heartbeat, the closing of an idle switch, or nothing.
THEOREM ImplementsSwitch == Spec => SwitchSpec
<1>1. Init => Switch!Init
  BY DEF Init, Asked, Switch!Init
<1>2. QED
  BY <1>1, SwitchStep, TypeCorrect, CloseInvariant, ArrayInvariant, LateInvariant, PTL
     DEF Spec, SwitchSpec, Switch!Spec, Switch!vars

-----------------------------------------------------------------------------
(* The controllers at the other end (StopPath): what a shutdown leaves them*)
(* holding.                                                                *)

Stoppers == {"main", "sig"}

IsOn(f, i)  == f.kind = "duty" /\ i \in f.ids /\ f.on
IsOff(f, i) == f.kind = "duty" /\ i \in f.ids /\ ~f.on
NoneOn(fs, i) == \A k \in 1 .. Len(fs) : ~IsOn(fs[k], i)
SomeOff(fs, i) == \E k \in 1 .. Len(fs) : IsOff(fs[k], i)

\* Once the frames accepted so far have arrived, i holds zero.
ZeroLast(i) ==
  \/ ~setpoint[i] /\ NoneOn(out, i)
  \/ \E k \in 1 .. Len(out) :
       IsOff(out[k], i) /\ \A m \in 1 .. Len(out) : m > k => ~IsOn(out[m], i)

AllZero == \A i \in controllers : ZeroLast(i)

\* Nobody drives what has not been registered.
Uncommanded ==
  \A i \in Ids \ controllers :
    ~setpoint[i] /\ NoneOn(out, i) /\ \A t \in Stoppers : NoneOn(todo[t], i)

\* The handler commands nothing but zero, nor does a shutdown.
OnlyZeroes ==
  \A i \in Ids :
    /\ NoneOn(todo["sig"], i)
    /\ op["main"] = "shutdown" /\ pc["main"] \in Sending => NoneOn(todo["main"], i)

CallsInv ==
  /\ pc["sig"] # "idle" => op["sig"] \in {"stop", "shutdown"}
  /\ pc["main"] = "fill" => op["main"] = "call"
  /\ \A t \in Stoppers : op[t] # "shutdown_now"

Zeroing(t) ==
  pc[t] \in {"round", "zeroed"} \/ (pc[t] \in Sending /\ op[t] = "shutdown")

\* While the zeroes go out the bus is not closed, and once it is closed the
\* application, unless it is frozen, hands the bus nothing more.
OpenYet ==
  /\ \A t \in Stoppers : Zeroing(t) /\ (t = "main" => pc["sig"] = "idle") => ~closed
  /\ closed /\ pc["sig"] = "idle" => pc["main"] # "tx"

\* A round leaves nobody out, and after it everybody holds zero, for good once
\* the bus is closed.
Zeroed == {"zeroed", "sd_flag", "sd_close"}
ZeroInv ==
  txErrors = 0 =>
    /\ \A t \in Stoppers : op[t] = "shutdown" /\ pc[t] \in Sending =>
         \A i \in controllers : ZeroLast(i) \/ SomeOff(todo[t], i)
    /\ \A t \in Stoppers : pc[t] \in Zeroed => AllZero
    /\ closed => AllZero

QuietInv == Uncommanded /\ OnlyZeroes /\ CallsInv /\ OpenYet /\ ZeroInv

\* A frame more in the queue.
LEMMA FrameAccepted ==
  ASSUME out \in Seq(Frame), NEW f \in Frame, NEW i \in Ids,
         out' = Append(out, f), setpoint' = setpoint
  PROVE  /\ NoneOn(out, i) /\ ~IsOn(f, i) => NoneOn(out, i)'
         /\ ZeroLast(i) /\ ~IsOn(f, i) => ZeroLast(i)'
         /\ IsOff(f, i) => ZeroLast(i)'
<1>1. /\ Len(out') = Len(out) + 1 /\ out'[Len(out) + 1] = f /\ Len(out) \in Nat
      /\ \A k \in 1 .. Len(out) : out'[k] = out[k]
  BY AppendProperties, LenProperties
<1> HIDE DEF Frame
<1>2. \A k \in 1 .. Len(out') : k \in 1 .. Len(out) \/ k = Len(out) + 1
  BY <1>1
<1>3. NoneOn(out, i) /\ ~IsOn(f, i) => NoneOn(out, i)'
  BY <1>1, <1>2 DEF NoneOn
<1>4. ASSUME NEW k \in 1 .. Len(out), IsOff(out[k], i), ~IsOn(f, i),
             \A m \in 1 .. Len(out) : m > k => ~IsOn(out[m], i)
      PROVE  ZeroLast(i)'
  <2>1. k \in 1 .. Len(out') /\ IsOff(out'[k], i)
    BY <1>1, <1>4
  <2>2. \A m \in 1 .. Len(out') : m > k => ~IsOn(out'[m], i)
    BY <1>1, <1>2, <1>4
  <2>3. QED
    BY <2>1, <2>2 DEF ZeroLast
<1>5. ASSUME IsOff(f, i) PROVE ZeroLast(i)'
  <2>1. Len(out') \in 1 .. Len(out') /\ IsOff(out'[Len(out')], i)
    BY <1>1, <1>5
  <2>2. \A m \in 1 .. Len(out') : ~(m > Len(out'))
    BY <1>1
  <2>3. QED
    BY <2>1, <2>2 DEF ZeroLast
<1>6. QED
  BY <1>3, <1>4, <1>5 DEF ZeroLast

LEMMA DisableIsNoDuty == Disable \in Frame /\ \A i \in Ids : ~IsOn(Disable, i)
BY FrameTypes DEF CallerFrame, Disable, IsOn

\* A thread moves on without a frame of its own; the broadcast may have sent
\* its disable.
LEMMA QuietMove ==
  ASSUME TypeInv, QuietInv, NEW t \in Threads, NEW l \in Labels,
         pc' = [pc EXCEPT ![t] = l],
         UNCHANGED <<todo, closed, txErrors, controllers, device>>,
         out' = out \/ out' = Append(out, Disable),
         \/ op' = op
         \/ /\ t = "main" /\ l \notin Sending
            /\ \E c \in {"call", "disable_heartbeat", "shutdown"} :
                 op' = [op EXCEPT !["main"] = c],
         t \in Senders /\ l \in Sending => pc[t] \in Sending \/ op[t] # "shutdown",
         l \in {"tx", "round", "zeroed"} => ~closed,
         l \in Zeroed => pc[t] \in Zeroed,
         l = "fill" => op'["main"] = "call",
         t = "sig" => pc["sig"] # "idle" /\ l # "idle"
  PROVE  QuietInv'
<1> USE ThreadsDistinct DEF QuietInv
<1>1. out' = out \/ (out \in Seq(Frame) /\ out' = Append(out, Disable))
  BY DEF TypeInv, TypeOK
<1>2. setpoint' = setpoint
  BY DEF device
<1>3. \A i \in Ids : /\ NoneOn(out, i) => NoneOn(out, i)'
                     /\ ZeroLast(i) => ZeroLast(i)'
  <2>1. CASE out' = out
    BY <1>2, <2>1 DEF NoneOn, ZeroLast
  <2>2. CASE out' = Append(out, Disable)
    BY <1>1, <1>2, <2>2, DisableIsNoDuty, FrameAccepted
  <2>3. QED
    BY <2>1, <2>2
<1>4. AllZero => AllZero'
  BY <1>3 DEF AllZero, TypeInv, TypeOK
<1>5. pc \in [Threads -> Labels] /\ op \in [Senders -> Ops] /\ controllers \subseteq Ids
  BY DEF TypeInv, TypeOK
<1>6. Uncommanded'
  BY <1>2, <1>3 DEF Uncommanded, NoneOn
<1>7. \A u \in Stoppers : op'[u] = "shutdown" /\ pc'[u] \in Sending =>
                            op[u] = "shutdown" /\ pc[u] \in Sending
  BY <1>5 DEF Stoppers
<1>8. OnlyZeroes'
  BY <1>7 DEF OnlyZeroes, NoneOn, Stoppers
<1>9. CallsInv'
  BY <1>5 DEF CallsInv, Stoppers
<1>10. pc'["sig"] = "idle" => pc["sig"] = "idle"
  BY <1>5
<1>11. OpenYet'
  BY <1>5, <1>7, <1>10 DEF OpenYet, Zeroing, Stoppers
<1>12. ZeroInv'
  BY <1>3, <1>4, <1>5, <1>7 DEF ZeroInv, Stoppers, SomeOff
<1>13. QED
  BY <1>6, <1>8, <1>9, <1>11, <1>12

\* A frame leaves the list of a call.
LEMMA TailFrames ==
  ASSUME NEW s \in Seq(Frame), s # <<>>, NEW i \in Ids
  PROVE  /\ NoneOn(s, i) => NoneOn(Tail(s), i) /\ ~IsOn(Head(s), i)
         /\ SomeOff(s, i) => IsOff(Head(s), i) \/ SomeOff(Tail(s), i)
         /\ Len(s) <= 1 => ~SomeOff(Tail(s), i)
<1>1. /\ Len(s) \in Nat \ {0} /\ Len(Tail(s)) = Len(s) - 1 /\ Head(s) = s[1]
      /\ \A k \in 1 .. Len(Tail(s)) : Tail(s)[k] = s[k + 1]
  BY EmptySeq, LenProperties, HeadTailProperties
<1>2. NoneOn(s, i) => NoneOn(Tail(s), i) /\ ~IsOn(Head(s), i)
  BY <1>1 DEF NoneOn
<1>3. ASSUME NEW k \in 1 .. Len(s), IsOff(s[k], i), k # 1 PROVE SomeOff(Tail(s), i)
  <2>1. k - 1 \in 1 .. Len(Tail(s)) /\ Tail(s)[k - 1] = s[(k - 1) + 1] /\ (k - 1) + 1 = k
    BY <1>1, <1>3
  <2>2. QED
    BY <1>3, <2>1 DEF SomeOff
<1>4. SomeOff(s, i) => IsOff(Head(s), i) \/ SomeOff(Tail(s), i)
  BY <1>1, <1>3 DEF SomeOff
<1>5. Len(s) <= 1 => ~SomeOff(Tail(s), i)
  BY <1>1 DEF SomeOff
<1>6. QED
  BY <1>2, <1>4, <1>5

\* The frame a thread hands to the bus: main's own while it is open, a zero of
\* the handler's, or a heartbeat.  One that the error count swallows or a closed
\* bus refuses changes nothing that is claimed.
LEMMA QuietReturn ==
  ASSUME TypeInv, QuietInv, NEW t \in {"main", "sig", "hb"}, At(t, pc[t]), Returns(t),
         UNCHANGED <<op, closed, controllers, device>>,
         \/ pc[t] = "check" /\ closed /\ UNCHANGED <<out, txErrors>>
         \/ pc[t] = "tx" /\ out' = Append(out, Head(todo[t])) /\ UNCHANGED txErrors
         \/ pc[t] = "tx" /\ txErrors' # 0 /\ UNCHANGED out
  PROVE  QuietInv'
<1> USE ThreadsDistinct DEF QuietInv
<1>1. /\ pc \in [Threads -> Labels] /\ op \in [Senders -> Ops] /\ controllers \subseteq Ids
      /\ todo \in [Senders -> Seq(Frame)] /\ out \in Seq(Frame) /\ t \in Senders
      /\ todo[t] # <<>> /\ pc[t] \in Sending /\ setpoint' = setpoint
  BY DEF TypeInv, TypeOK, Sending, device
<1>2. /\ todo' = [todo EXCEPT ![t] = Tail(todo[t])]
      /\ pc' = [pc EXCEPT ![t] = IF Len(todo[t]) > 1 THEN "send" ELSE After(t)]
      /\ t = "main" => pc["sig"] = "idle"
  BY DEF Returns, Goto, At
<1>3. Head(todo[t]) \in Frame /\ (t = "hb" => \A i \in Ids : ~IsOn(Head(todo[t]), i))
  BY <1>1, TailTypes DEF TypeInv, IsOn
<1>4. \A i \in Ids : (t # "hb" => NoneOn(todo[t], i)) /\ NoneOn(out, i) => NoneOn(out, i)'
  BY <1>1, <1>3, FrameAccepted, TailFrames
<1>5. Uncommanded'
  <2> SUFFICES ASSUME NEW i \in Ids \ controllers
               PROVE  /\ ~setpoint'[i] /\ NoneOn(out, i)'
                      /\ \A u \in Stoppers : NoneOn(todo'[u], i)
    BY DEF Uncommanded
  <2>1. /\ ~setpoint[i] /\ NoneOn(out, i)
        /\ \A u \in Stoppers : NoneOn(todo[u], i)
    BY DEF Uncommanded
  <2>2. \A u \in Stoppers : NoneOn(todo'[u], i)
    BY <1>1, <1>2, <2>1, TailFrames DEF Stoppers
  <2>3. QED
    BY <1>1, <1>4, <2>1, <2>2 DEF Stoppers
<1>6. \A u \in Stoppers : op'[u] = "shutdown" /\ pc'[u] \in Sending =>
                            op[u] = "shutdown" /\ pc[u] \in Sending
  <2>1. After(t) \in Labels \ Sending
    BY <1>1, AfterTypes
  <2>2. QED
    BY <1>1, <1>2, <2>1 DEF Stoppers, Sending
<1>7. OnlyZeroes'
  <2> SUFFICES ASSUME NEW i \in Ids
               PROVE  /\ NoneOn(todo'["sig"], i)
                      /\ op'["main"] = "shutdown" /\ pc'["main"] \in Sending =>
                           NoneOn(todo'["main"], i)
    BY DEF OnlyZeroes
  <2>1. QED
    BY <1>1, <1>2, <1>6, TailFrames DEF OnlyZeroes, Stoppers
<1>8. CallsInv'
  BY <1>1, <1>2 DEF CallsInv, After, Stoppers
<1>9. pc'["sig"] = "idle" => pc["sig"] = "idle"
  BY <1>1, <1>2 DEF CallsInv, After
<1>10. OpenYet'
  <2>1. \A u \in Stoppers : Zeroing(u)' => Zeroing(u)
    BY <1>1, <1>2 DEF Zeroing, After, Stoppers, Sending
  <2>2. pc'["main"] = "tx" => pc["main"] = "tx" 
    BY <1>1, <1>2 DEF After
  <2>3. QED
    BY <1>9, <2>1, <2>2 DEF OpenYet
<1>11. ZeroInv'
  <2> SUFFICES ASSUME txErrors' = 0
               PROVE  /\ \A u \in Stoppers : op[u] = "shutdown" /\ pc'[u] \in Sending =>
                           \A i \in controllers : ZeroLast(i)' \/ SomeOff(todo'[u], i)
                      /\ \A u \in Stoppers : pc'[u] \in Zeroed => AllZero'
                      /\ closed => AllZero'
    BY DEF ZeroInv
  <2>1. /\ \A u \in Stoppers : op[u] = "shutdown" /\ pc[u] \in Sending =>
             \A i \in controllers : ZeroLast(i) \/ SomeOff(todo[u], i)
        /\ \A u \in Stoppers : pc[u] \in Zeroed => AllZero
        /\ closed => AllZero
    BY DEF ZeroInv
  <2>2. pc'[t] \in Zeroed => t # "hb" /\ op[t] = "shutdown" /\ Len(todo[t]) <= 1
    <3>1. Len(todo[t]) \in Nat
      BY <1>1, LenProperties
    <3>2. QED
      BY <1>1, <1>2, <3>1 DEF Zeroed, After
  <2>3. t # "hb" /\ op[t] = "shutdown" => ~closed
    BY <1>1, <1>2 DEF OpenYet, Zeroing, Stoppers
  <2>4. CASE pc[t] = "check"
    <3>1. closed /\ out' = out
      BY <2>4
    <3>2. (\A i \in Ids : ZeroLast(i)' <=> ZeroLast(i)) /\ (AllZero => AllZero')
      BY <1>1, <3>1 DEF ZeroLast, AllZero, NoneOn
    <3>3. \A u \in Stoppers \ {t} : pc'[u] = pc[u] /\ todo'[u] = todo[u]
      BY <1>1, <1>2 DEF Stoppers
    <3>4. \A u \in Stoppers : op[u] = "shutdown" => u # t
      BY <2>3, <3>1 DEF Stoppers
    <3>5. \A u \in Stoppers : op[u] = "shutdown" /\ pc'[u] \in Sending =>
            \A i \in controllers : ZeroLast(i)' \/ SomeOff(todo'[u], i)
      BY <1>1, <2>1, <3>2, <3>3, <3>4
    <3>6. AllZero'
      BY <2>1, <3>1, <3>2
    <3>7. QED
      BY <3>5, <3>6
  <2>5. CASE pc[t] = "tx" /\ t = "main" /\ op["main"] # "shutdown"
    <3>1. ~closed /\ pc["sig"] = "idle" /\ pc'["sig"] = "idle"
      BY <1>1, <1>2, <2>5 DEF OpenYet
    <3>2. pc'["main"] \notin Zeroed
      BY <2>2, <2>5
    <3>3. QED
      BY <2>5, <3>1, <3>2 DEF Stoppers, Sending, Zeroed
  <2>6. CASE pc[t] = "tx" /\ ~(t = "main" /\ op["main"] # "shutdown")
    <3>1. out' = Append(out, Head(todo[t]))
      BY <2>6
    <3>2. \A i \in Ids : ~IsOn(Head(todo[t]), i)
      BY <1>1, <1>3, <2>6, TailFrames DEF OnlyZeroes
    <3>3. \A i \in Ids : /\ ZeroLast(i) => ZeroLast(i)'
                         /\ IsOff(Head(todo[t]), i) => ZeroLast(i)'
      BY <1>1, <1>3, <3>1, <3>2, FrameAccepted
    <3>4. AllZero => AllZero'
      BY <1>1, <3>3 DEF AllZero
    <3>5. ASSUME t # "hb", op[t] = "shutdown", NEW i \in controllers
          PROVE  ZeroLast(i)' \/ (SomeOff(todo'[t], i) /\ ~(Len(todo[t]) <= 1))
      <4>1. ZeroLast(i) \/ SomeOff(todo[t], i)
        BY <1>1, <2>1, <3>5 DEF Stoppers
      <4>2. todo'[t] = Tail(todo[t]) /\ i \in Ids
        BY <1>1, <1>2
      <4>3. QED
        BY <1>1, <3>3, <4>1, <4>2, TailFrames
    <3>6. pc'[t] \in Zeroed => AllZero'
      BY <2>2, <3>5 DEF AllZero
    <3>7. \A u \in Stoppers \ {t} : pc'[u] = pc[u] /\ todo'[u] = todo[u]
      BY <1>1, <1>2 DEF Stoppers
    <3>8. \A u \in Stoppers : op[u] = "shutdown" /\ pc'[u] \in Sending =>
            \A i \in controllers : ZeroLast(i)' \/ SomeOff(todo'[u], i)
      BY <1>1, <2>1, <3>3, <3>5, <3>7 DEF Stoppers
    <3>9. QED
      BY <2>1, <3>4, <3>6, <3>7, <3>8
  <2>7. QED
    BY <2>4, <2>5, <2>6
<1>12. QED
  BY <1>5, <1>7, <1>8, <1>10, <1>11

\* A call that hands a list of frames to send_msg: the heartbeat's, a command of
\* main's, or nothing but zeroes, for everybody when it is a shutdown's.
LEMMA QuietSendAll ==
  ASSUME TypeInv, QuietInv, NEW t \in {"main", "sig", "hb"}, NEW fs \in Seq(Frame),
         t = "main" => pc["sig"] = "idle",
         SendAll(t, fs), UNCHANGED <<closed, txErrors, controllers, out, device>>,
         t = "hb" => op' = op,
         t = "main" =>
           /\ \A i \in Ids \ controllers : NoneOn(fs, i)
           /\ op' = [op EXCEPT !["main"] = "call"] \/ op' = op,
         t = "sig" => op' = [op EXCEPT !["sig"] = "stop"] \/ (op' = op /\ pc["sig"] # "idle"),
         t # "hb" /\ (t = "sig" \/ op'[t] = "shutdown") => \A i \in Ids : NoneOn(fs, i),
         t # "hb" /\ op'[t] = "shutdown" =>
           ~closed /\ \A i \in controllers : SomeOff(fs, i)
  PROVE  QuietInv'
<1> USE ThreadsDistinct DEF QuietInv
<1>1. /\ pc \in [Threads -> Labels] /\ op \in [Senders -> Ops] /\ controllers \subseteq Ids
      /\ todo \in [Senders -> Seq(Frame)] /\ t \in Senders /\ setpoint' = setpoint
  BY DEF TypeInv, TypeOK, device
<1>2. /\ todo' = [todo EXCEPT ![t] = fs]
      /\ pc' = [pc EXCEPT ![t] = IF fs = <<>> THEN After(t)' ELSE "send"]
  BY DEF SendAll, Goto
<1>3. (\A i \in Ids : ZeroLast(i)' <=> ZeroLast(i)) /\ (AllZero => AllZero')
  BY <1>1 DEF ZeroLast, AllZero, NoneOn
<1>4. Uncommanded'
  BY <1>1, <1>2 DEF Uncommanded, Stoppers
<1>5. \A u \in Stoppers \ {t} : op'[u] = op[u] /\ pc'[u] = pc[u] /\ todo'[u] = todo[u]
  BY <1>1, <1>2 DEF Stoppers
<1>6. OnlyZeroes'
  BY <1>1, <1>2, <1>5 DEF OnlyZeroes, Stoppers
<1>7. t # "hb" /\ op'[t] # "shutdown" => pc'[t] \in {"send", "sd", "idle"}
  BY <1>1, <1>2 DEF After
<1>8. CallsInv'
  BY <1>1, <1>2, <1>5 DEF CallsInv, Stoppers, After
<1>9. pc'["sig"] = "idle" => pc["sig"] = "idle"
  BY <1>8, <1>5, <1>2, <1>1 DEF CallsInv, Stoppers, After
<1>10. OpenYet'
  <2>1. \A u \in Stoppers \ {t} : Zeroing(u)' => Zeroing(u)
    BY <1>5 DEF Zeroing
  <2>2. t # "hb" /\ Zeroing(t)' => ~closed
    BY <1>1, <1>7 DEF Zeroing
  <2>3. pc'["main"] # "tx" \/ (t # "main" /\ pc["main"] = "tx")
    BY <1>1, <1>2, <1>5 DEF After, Stoppers
  <2>4. QED
    BY <1>9, <2>1, <2>2, <2>3 DEF OpenYet, Stoppers
<1>11. ZeroInv'
  <2> SUFFICES ASSUME txErrors = 0
               PROVE  /\ \A u \in Stoppers : op'[u] = "shutdown" /\ pc'[u] \in Sending =>
                           \A i \in controllers : ZeroLast(i)' \/ SomeOff(todo'[u], i)
                      /\ \A u \in Stoppers : pc'[u] \in Zeroed => AllZero'
                      /\ closed => AllZero'
    BY DEF ZeroInv
  <2>1. /\ \A u \in Stoppers : op[u] = "shutdown" /\ pc[u] \in Sending =>
             \A i \in controllers : ZeroLast(i) \/ SomeOff(todo[u], i)
        /\ \A u \in Stoppers : pc[u] \in Zeroed => AllZero
        /\ closed => AllZero
    BY DEF ZeroInv
  <2>2. \A u \in Stoppers \ {t} : op'[u] = "shutdown" /\ pc'[u] \in Sending =>
          \A i \in controllers : ZeroLast(i)' \/ SomeOff(todo'[u], i)
    BY <1>1, <1>3, <1>5, <2>1
  <2>3. t # "hb" /\ op'[t] = "shutdown" => \A i \in controllers : SomeOff(todo'[t], i)
    BY <1>1, <1>2
  <2>4. t # "hb" /\ pc'[t] \in Zeroed => AllZero'
    <3> SUFFICES ASSUME t # "hb", pc'[t] \in Zeroed PROVE controllers = {}
      BY DEF AllZero
    <3>1. op'[t] = "shutdown" /\ fs = <<>>
      BY <1>1, <1>2, <1>7 DEF Zeroed
    <3>2. QED
      BY <3>1, EmptySeq DEF SomeOff
  <2>5. \A u \in Stoppers : u = t \/ u \in Stoppers \ {t}
    OBVIOUS
  <2>6. \A u \in Stoppers : op'[u] = "shutdown" /\ pc'[u] \in Sending =>
          \A i \in controllers : ZeroLast(i)' \/ SomeOff(todo'[u], i)
    BY <2>2, <2>3, <2>5 DEF Stoppers
  <2>7. \A u \in Stoppers : pc'[u] \in Zeroed => AllZero'
    BY <1>3, <1>5, <2>1, <2>4, <2>5 DEF Stoppers
  <2>8. QED
    BY <1>3, <2>1, <2>6, <2>7
<1>12. QED
  BY <1>4, <1>6, <1>8, <1>10, <1>11

LEMMA OneDuty ==
  ASSUME NEW i \in Ids, NEW on \in BOOLEAN
  PROVE  /\ <<Duty(i, on)>> \in Seq(Frame)
         /\ \A j \in Ids : j # i \/ on = FALSE => NoneOn(<<Duty(i, on)>>, j)
<1>1. Duty(i, on) \in Frame
  BY FrameTypes DEF CallerFrame
<1>2. QED
  BY <1>1 DEF NoneOn, IsOn, Duty

\* A zero for every controller, in whatever order.
LEMMA RoundZeroes ==
  ASSUME TypeInv, NEW s \in ZeroRounds
  PROVE  /\ s \in Seq(Frame)
         /\ \A i \in Ids : NoneOn(s, i)
         /\ \A i \in controllers : SomeOff(s, i)
<1> DEFINE n == Cardinality(controllers)
<1>1. n \in Nat /\ controllers \subseteq Ids
  BY IdsFinite DEF TypeInv, TypeOK
<1> HIDE DEF n
<1>2. s \in [1 .. n -> {Duty(i, FALSE) : i \in controllers}]
  BY DEF ZeroRounds, n
<1>3. {Duty(i, FALSE) : i \in controllers} \subseteq Frame
  BY <1>1, FrameTypes DEF CallerFrame
<1>4. s \in [1 .. n -> Frame]
  BY <1>2, <1>3
<1>5. s \in Seq(Frame) /\ Len(s) = n /\ DOMAIN s = 1 .. n
  BY <1>1, <1>4, SeqOfFrames, LenProperties
<1>6. \A k \in 1 .. Len(s) : \E i \in controllers : s[k] = Duty(i, FALSE)
  BY <1>2, <1>5
<1>7. \A i \in Ids : NoneOn(s, i)
  <2>1. \A i, j \in Ids : ~IsOn(Duty(i, FALSE), j)
    BY DEF IsOn, Duty
  <2>2. QED
    BY <1>1, <1>6, <2>1 DEF NoneOn
<1>8. \A i \in controllers : SomeOff(s, i)
  <2> SUFFICES ASSUME NEW i \in controllers PROVE SomeOff(s, i)
    OBVIOUS
  <2>1. PICK k \in DOMAIN s : s[k] = Duty(i, FALSE)
    BY DEF ZeroRounds
  <2>2. QED
    BY <1>5, <2>1 DEF SomeOff, IsOff, Duty
<1>9. QED
  BY <1>5, <1>7, <1>8

\* A controller more: nobody has driven it yet.
LEMMA QuietInitController ==
  ASSUME TypeInv, QuietInv, NEW c \in Ids, InitController(c), UNCHANGED device
  PROVE  QuietInv'
<1> USE ThreadsDistinct DEF QuietInv
<1>1. /\ pc \in [Threads -> Labels] /\ op \in [Senders -> Ops] /\ controllers \subseteq Ids
      /\ todo \in [Senders -> Seq(Frame)] /\ setpoint' = setpoint
  BY DEF TypeInv, TypeOK, device
<1>2. /\ pc["main"] = "idle" /\ pc["sig"] = "idle"
      /\ pc' = [pc EXCEPT !["main"] = "fill"]
      /\ op' = [op EXCEPT !["main"] = "call"]
      /\ controllers' = controllers \cup {c}
      /\ UNCHANGED <<closed, txErrors, out>>
  BY DEF InitController, At, Goto, flags
<1>3. PICK n \in BootCounts : todo' = [todo EXCEPT !["main"] = [k \in 1 .. n |-> Config(c)]]
  BY DEF InitController
<1> DEFINE boot == [k \in 1 .. n |-> Config(c)]
<1>4. \A i \in Ids : NoneOn(boot, i)
  <2>1. n \in Nat /\ Len(boot) = n /\ \A k \in 1 .. n : boot[k] = Config(c)
    BY BootAssumption
  <2>2. QED
    BY <2>1 DEF NoneOn, IsOn, Config
<1>5. todo' = [todo EXCEPT !["main"] = boot]
  BY <1>3
<1> HIDE DEF boot
<1>6. (\A i \in Ids : ZeroLast(i)' <=> ZeroLast(i)) /\ (c \notin controllers => ZeroLast(c))
  BY <1>1, <1>2 DEF ZeroLast, NoneOn, Uncommanded
<1>7. AllZero => AllZero'
  BY <1>1, <1>2, <1>6 DEF AllZero
<1>8. Uncommanded'
  BY <1>1, <1>2, <1>4, <1>5 DEF Uncommanded, Stoppers
<1>9. OnlyZeroes' /\ CallsInv' /\ OpenYet'
  BY <1>1, <1>2, <1>5 DEF OnlyZeroes, CallsInv, OpenYet, Zeroing, Stoppers, Sending
<1>10. ZeroInv'
  BY <1>1, <1>2, <1>7 DEF ZeroInv, Stoppers, Sending, Zeroed
<1>11. QED
  BY <1>8, <1>9, <1>10

\* The rest of a shutdown.
LEMMA QuietShutdown ==
  ASSUME TypeInv, QuietInv, NEW t \in Stoppers, Shutdown(t), UNCHANGED device
  PROVE  QuietInv'
<1> USE ThreadsDistinct DEF QuietInv
<1>1. /\ pc \in [Threads -> Labels] /\ op \in [Senders -> Ops] /\ controllers \subseteq Ids
      /\ todo \in [Senders -> Seq(Frame)] /\ setpoint' = setpoint
      /\ t \in Senders /\ t \in Threads
  BY DEF TypeInv, TypeOK, device, Stoppers
<1>2. ASSUME UNCHANGED <<out, controllers>>
      PROVE  (\A i \in Ids : ZeroLast(i)' <=> ZeroLast(i)) /\ (AllZero' <=> AllZero)
  BY <1>1, <1>2 DEF ZeroLast, AllZero, NoneOn
<1>3. CASE ShutdownTest(t)
  <2>1. /\ t = "main" => pc["sig"] = "idle"
        /\ pc[t] = "sd" /\ op' = [op EXCEPT ![t] = IF op[t] = "stop" THEN "shutdown" ELSE op[t]]
        /\ UNCHANGED <<closed, txErrors, controllers, out, todo>>
    BY <1>3 DEF ShutdownTest, At, flags, ids
  <2>2. (pc' = [pc EXCEPT ![t] = "round"] /\ ~closed) \/
        (t = "sig" /\ pc' = [pc EXCEPT !["sig"] = "done", !["main"] = "done"]) \/
        (t = "main" /\ pc' = [pc EXCEPT !["main"] = "idle"])
    BY <1>3 DEF ShutdownTest, Goto, Leave, CallsInv, Stoppers
  <2>3. \A u \in Stoppers : pc'[u] \in Sending => u # t /\ pc'[u] = pc[u] /\ op'[u] = op[u]
    BY <1>1, <2>1, <2>2 DEF Stoppers, Sending
  <2>4. Uncommanded' /\ OnlyZeroes'
    BY <1>1, <2>1, <2>3 DEF Uncommanded, OnlyZeroes, Stoppers
  <2>5. CallsInv'
    BY <1>1, <2>1, <2>2 DEF CallsInv, Stoppers
  <2>6. OpenYet'
    <3>1. \A u \in Stoppers : Zeroing(u)' => Zeroing(u) \/ ~closed
      BY <1>1, <2>1, <2>2, <2>3 DEF Zeroing, Stoppers
    <3>2. pc'["sig"] = "idle" => pc["sig"] = "idle"
      BY <1>1, <2>1, <2>2
    <3>3. pc'["main"] = "tx" => pc["main"] = "tx"
      BY <1>1, <2>2
    <3>4. QED
      BY <2>1, <3>1, <3>2, <3>3 DEF OpenYet
  <2>7. ZeroInv'
    <3>1. \A u \in Stoppers : pc'[u] \in Zeroed => pc[u] \in Zeroed
      BY <1>1, <2>1, <2>2 DEF Stoppers, Zeroed
    <3>2. QED
      BY <1>1, <1>2, <2>1, <2>3, <3>1 DEF ZeroInv
  <2>8. QED
    BY <2>4, <2>5, <2>6, <2>7
<1>4. CASE ZeroRound(t)
  <2>1. PICK s \in ZeroRounds : SendAll(t, s)
    BY <1>4 DEF ZeroRound
  <2>2. /\ pc[t] = "round" /\ (t = "main" => pc["sig"] = "idle") /\ op' = op
        /\ UNCHANGED <<closed, txErrors, controllers, out>>
    BY <1>4 DEF ZeroRound, At, flags, ids
  <2>3. ~closed
    BY <2>2 DEF OpenYet, Zeroing
  <2>4. QED
    BY <1>1, <2>1, <2>2, <2>3, RoundZeroes, QuietSendAll DEF Stoppers
<1>5. CASE ZeroAgain(t) \/ ZeroDone(t) \/ ShutdownFlag(t)
  <2>1. PICK l \in {"round", "sd_flag", "sd_close"} :
          /\ pc' = [pc EXCEPT ![t] = l]
          /\ l = "round" => pc[t] = "zeroed"
          /\ pc[t] \in Zeroed
    BY <1>5 DEF ZeroAgain, ZeroDone, ShutdownFlag, Goto, At, Zeroed
  <2>2. /\ t = "main" => pc["sig"] = "idle"
        /\ UNCHANGED <<todo, op, closed, txErrors, controllers, out>>
    BY <1>5 DEF ZeroAgain, ZeroDone, ShutdownFlag, At, flags, ids, local
  <2>3. l = "round" => ~closed
    BY <2>1, <2>2 DEF OpenYet, Zeroing
  <2>4. l \in Labels /\ l \notin Sending /\ l \notin {"tx", "fill", "idle"} /\ pc[t] # "idle"
    BY <2>1 DEF Labels, Sending, Zeroed
  <2>5. QED
    BY <1>1, <2>1, <2>2, <2>3, <2>4, QuietMove DEF Zeroed
<1>6. CASE ShutdownClose(t)
  <2>1. /\ pc[t] = "sd_close" /\ (t = "main" => pc["sig"] = "idle")
        /\ pc' = [pc EXCEPT ![t] = "sd_lock"] /\ closed' = TRUE
        /\ UNCHANGED <<todo, op, txErrors, controllers, out>>
    BY <1>6 DEF ShutdownClose, Goto, At, ids, local
  <2>2. Uncommanded' /\ OnlyZeroes' /\ CallsInv'
    BY <1>1, <2>1 DEF Uncommanded, OnlyZeroes, CallsInv, Stoppers, Sending
  <2>3. OpenYet'
    BY <1>1, <2>1 DEF OpenYet, Zeroing, Stoppers, Sending
  <2>4. ZeroInv'
    BY <1>1, <1>2, <2>1 DEF ZeroInv, Stoppers, Sending, Zeroed
  <2>5. QED
    BY <2>2, <2>3, <2>4
<1>7. CASE ShutdownBus(t)
  <2>1. /\ pc[t] = "shut" /\ (t = "main" => pc["sig"] = "idle")
        /\ \/ t = "sig" /\ pc' = [pc EXCEPT !["sig"] = "done", !["main"] = "done"]
           \/ t = "main" /\ pc' = [pc EXCEPT !["main"] = "idle"]
        /\ UNCHANGED <<closed, todo, op, txErrors, controllers, out>>
    BY <1>7 DEF ShutdownBus, Leave, At, ids, local, Stoppers
  <2>2. \A u \in Stoppers : pc'[u] = pc[u] \/ pc'[u] \in {"idle", "done"}
    BY <1>1, <2>1 DEF Stoppers
  <2>3. Uncommanded' /\ OnlyZeroes' /\ CallsInv'
    BY <1>1, <2>1, <2>2 DEF Uncommanded, OnlyZeroes, CallsInv, Stoppers, Sending
  <2>4. OpenYet'
    BY <1>1, <2>1, <2>2 DEF OpenYet, Zeroing, Stoppers, Sending
  <2>5. ZeroInv'
    BY <1>1, <1>2, <2>1, <2>2 DEF ZeroInv, Stoppers, Sending, Zeroed
  <2>6. QED
    BY <2>3, <2>4, <2>5
<1>8. QED
  BY <1>3, <1>4, <1>5, <1>6, <1>7 DEF Shutdown

\* What main calls, and SIGINT, when there is no other application thread.
LEMMA QuietCalls ==
  ASSUME TypeInv, QuietInv, Workers = {}, "shutdown_now" \notin Calls, UNCHANGED device,
         \/ FillByte
         \/ \E i \in Ids : InitController(i)
         \/ \E S \in SUBSET Ids : SetHeartbeatIds(S)
         \/ \E t \in Callers, i \in Ids, on \in BOOLEAN : Output(t, i, on)
         \/ EnableHeartbeat
         \/ \E call \in Calls : BroadcastDisable(call)
         \/ Broadcast
         \/ \E call \in Calls : ShutdownCalled(call)
         \/ \E i \in Ids : Interrupt(i)
  PROVE  QuietInv'
<1> USE ThreadsDistinct
<1>0. /\ pc \in [Threads -> Labels] /\ controllers \subseteq Ids /\ "main" \in Threads
      /\ op \in [Senders -> Ops]
  BY DEF TypeInv, TypeOK
<1>1. CASE FillByte
  <2>1. PICK l \in {"fill", "idle", "send"} : pc' = [pc EXCEPT !["main"] = l]
    <3>1. CASE byte = 0
      BY <1>1, <3>1 DEF FillByte, Goto
    <3>2. CASE byte # 0
      BY <1>0, <1>1, <3>2 DEF FillByte, At
    <3>3. QED
      BY <3>1, <3>2
  <2>2. /\ pc["main"] = "fill" /\ op["main"] = "call"
        /\ UNCHANGED <<todo, op, closed, txErrors, controllers, out>>
    BY <1>1 DEF FillByte, At, flags, local, QuietInv, CallsInv
  <2>3. l \in Labels
    BY DEF Labels
  <2>4. QED
    BY <2>1, <2>2, <2>3, QuietMove DEF Zeroed
<1>2. ASSUME NEW i \in Ids, InitController(i) PROVE QuietInv'
  BY <1>2, QuietInitController
<1>3. ASSUME NEW S \in SUBSET Ids, SetHeartbeatIds(S) PROVE QuietInv'
  <2>1. /\ pc' = [pc EXCEPT !["main"] = "fill"] /\ op' = [op EXCEPT !["main"] = "call"]
        /\ UNCHANGED <<todo, closed, txErrors, controllers, out>>
    BY <1>3 DEF SetHeartbeatIds, Goto, flags
  <2>2. "fill" \in Labels /\ "fill" \notin Sending \cup Zeroed
    BY DEF Labels, Sending, Zeroed
  <2>3. op'["main"] = "call"
    BY <1>0, <2>1
  <2>4. QED
    BY <2>1, <2>2, <2>3, QuietMove
<1>4. ASSUME NEW t \in Callers, NEW i \in Ids, NEW on \in BOOLEAN, Output(t, i, on)
      PROVE  QuietInv'
  <2>1. t = "main" /\ i \in controllers /\ pc["sig"] = "idle"
    BY <1>4 DEF Output, Callers, At
  <2>2. /\ op' = [op EXCEPT !["main"] = "call"] /\ SendAll("main", <<Duty(i, on)>>)
        /\ UNCHANGED <<closed, txErrors, controllers, out>>
    BY <1>4, <2>1 DEF Output, flags, ids
  <2>3. op'["main"] = "call"
    BY <1>0, <2>2
  <2>4. QED
    BY <2>1, <2>2, <2>3, OneDuty, QuietSendAll
<1>5. CASE EnableHeartbeat
  <2>1. /\ pc["main"] = "idle" /\ pc["sig"] = "idle"
        /\ UNCHANGED <<pc, todo, op, closed, txErrors, controllers, out>>
    BY <1>5 DEF EnableHeartbeat, At, ids, local
  <2>2. pc' = [pc EXCEPT !["main"] = "idle"] /\ "idle" \in Labels
    BY <1>0, <2>1 DEF Labels
  <2>3. QED
    BY <2>1, <2>2, QuietMove DEF Sending, Zeroed
<1>6. ASSUME NEW call \in Calls, BroadcastDisable(call) PROVE QuietInv'
  <2>1. /\ pc' = [pc EXCEPT !["main"] = "bsend"]
        /\ \E c \in {"call", "disable_heartbeat", "shutdown"} : op' = [op EXCEPT !["main"] = c]
        /\ UNCHANGED <<todo, closed, txErrors, controllers, out>>
    BY <1>6 DEF BroadcastDisable, Goto, ids
  <2>2. "bsend" \in Labels /\ "bsend" \notin Sending \cup Zeroed
    BY DEF Labels, Sending, Zeroed
  <2>3. QED
    BY <2>1, <2>2, QuietMove
<1>7. CASE Broadcast
  <2>1. PICK l \in {"bsend", "clear", "idle"} : pc' = [pc EXCEPT !["main"] = l]
    BY <1>7 DEF Broadcast, SendDisable, SendDisableFails, DisableHeartbeatClears,
                AfterBroadcast, Goto
  <2>2. /\ UNCHANGED <<todo, op, closed, txErrors, controllers>>
        /\ out' = out \/ out' = Append(out, Disable)
    BY <1>7 DEF Broadcast, SendDisable, SendDisableFails, DisableHeartbeatClears,
                flags, ids, local
  <2>3. l \in Labels /\ l \notin Sending \cup Zeroed
    BY DEF Labels, Sending, Zeroed
  <2>4. QED
    BY <2>1, <2>2, <2>3, QuietMove
<1>8. ASSUME NEW call \in Calls, ShutdownCalled(call) PROVE QuietInv'
  <2>1. /\ pc' = [pc EXCEPT !["main"] = "sd"]
        /\ op' = [op EXCEPT !["main"] = "shutdown"]
        /\ UNCHANGED <<todo, closed, txErrors, controllers, out>>
    BY <1>8 DEF ShutdownCalled, Goto, flags, ids
  <2>2. "sd" \in Labels /\ "sd" \notin Sending \cup Zeroed
    BY DEF Labels, Sending, Zeroed
  <2>3. QED
    BY <2>1, <2>2, QuietMove
<1>9. ASSUME NEW i \in Ids, Interrupt(i) PROVE QuietInv'
  <2>1. /\ op' = [op EXCEPT !["sig"] = "stop"] /\ SendAll("sig", <<Duty(i, FALSE)>>)
        /\ UNCHANGED <<closed, txErrors, controllers, out>>
    BY <1>9 DEF Interrupt, flags, ids
  <2>2. op'["sig"] = "stop"
    BY <1>0, <2>1
  <2>3. /\ <<Duty(i, FALSE)>> \in Seq(Frame)
        /\ \A j \in Ids : NoneOn(<<Duty(i, FALSE)>>, j)
    BY OneDuty
  <2> DEFINE fs == <<Duty(i, FALSE)>>
  <2> HIDE DEF fs
  <2>4. SendAll("sig", fs) /\ fs \in Seq(Frame) /\ \A j \in Ids : NoneOn(fs, j)
    BY <2>1, <2>3 DEF fs
  <2>5. QED
    BY <2>1, <2>2, <2>4, QuietSendAll
<1>10. QED
  BY <1>1, <1>2, <1>3, <1>4, <1>5, <1>6, <1>7, <1>8, <1>9

LEMMA QuietSend ==
  ASSUME TypeInv, QuietInv, Workers = {}, UNCHANGED device, NEW t \in Threads,
         Acquire(t) \/ (t \in Senders /\ SendMsg(t))
  PROVE  QuietInv'
<1> USE ThreadsDistinct
<1>1. CASE Acquire(t)
  <2>1. /\ pc[t] \in {"send", "bsend", "sd_lock", "mlock"}
        /\ pc' = [pc EXCEPT ![t] = Locked[pc[t]]]
        /\ UNCHANGED <<todo, op, closed, txErrors, controllers, out>>
    BY <1>1 DEF Acquire, Goto, Locked, flags, ids, local
  <2>2. /\ Locked[pc[t]] \in {"check", "btx", "shut", "mcheck"} \cap Labels
        /\ Locked[pc[t]] = "check" => pc[t] = "send"
    BY <2>1 DEF Locked, Labels
  <2>3. QED
    BY <2>1, <2>2, QuietMove DEF Sending, Zeroed
<1>2. CASE t \in Senders /\ SendMsg(t)
  <2>1. /\ t \in {"main", "sig", "hb"} /\ At(t, pc[t]) /\ pc[t] \in {"check", "tx"}
        /\ UNCHANGED <<op, closed, controllers>>
    BY <1>2 DEF SendMsg, CheckClosed, Transmit, TransmitFails, Senders, Callers, At,
                flags, ids
  <2>2. CASE ~closed /\ CheckClosed(t)
    <3>1. /\ pc' = [pc EXCEPT ![t] = "tx"] /\ pc[t] = "check" /\ "tx" \in Labels
          /\ UNCHANGED <<todo, op, closed, txErrors, controllers, out>>
      BY <2>1, <2>2 DEF CheckClosed, At, Goto, Labels
    <3>2. QED
      BY <2>2, <3>1, QuietMove DEF Sending, Zeroed
  <2>3. CASE ~(~closed /\ CheckClosed(t))
    <3>1. /\ Returns(t)
          /\ \/ pc[t] = "check" /\ closed /\ UNCHANGED <<out, txErrors>>
             \/ pc[t] = "tx" /\ out' = Append(out, Head(todo[t])) /\ UNCHANGED txErrors
             \/ pc[t] = "tx" /\ txErrors' # 0 /\ UNCHANGED out
      BY <1>2, <2>1, <2>3
         DEF SendMsg, CheckClosed, Transmit, TransmitFails, At, TypeInv, TypeOK
    <3>2. QED
      BY <2>1, <3>1, QuietReturn
  <2>4. QED
    BY <2>2, <2>3
<1>3. QED
  BY <1>1, <1>2

LEMMA QuietBackground ==
  ASSUME TypeInv, QuietInv, UNCHANGED device, Heartbeat \/ Monitor
  PROVE  QuietInv'
<1> USE ThreadsDistinct
<1>1. CASE BeatBuild
  <2>1. SendAll("hb", <<Beat(marked)>>) /\ <<Beat(marked)>> \in Seq(Frame)
    BY <1>1, FrameTypes DEF BeatBuild, TypeInv, TypeOK
  <2>2. UNCHANGED <<op, closed, txErrors, controllers, out>>
    BY <1>1 DEF BeatBuild, flags, ids
  <2>3. QED
    BY <2>1, <2>2, QuietSendAll
<1>2. CASE BeatTest \/ BeatSet \/ Monitor
  <2>1. PICK t \in {"hb", "mon"}, l \in {"done", "build", "top", "mlock"} :
          pc' = [pc EXCEPT ![t] = l]
    BY <1>2 DEF BeatTest, BeatSet, Monitor, MonitorTest, MonitorRecv, Goto
  <2>2. UNCHANGED <<todo, op, closed, txErrors, controllers, out>>
    BY <1>2 DEF BeatTest, BeatSet, Monitor, MonitorTest, MonitorRecv, flags, ids, local
  <2>3. l \in Labels /\ l \notin Sending \cup Zeroed /\ t \in Threads
    BY DEF Labels, Sending, Zeroed
  <2>4. QED
    BY <2>1, <2>2, <2>3, QuietMove DEF Sending
<1>3. QED
  BY <1>1, <1>2 DEF Heartbeat

\* The oldest frame arrives: what it says of i was the last word or is not.
LEMMA QuietDeliver ==
  ASSUME TypeInv, QuietInv, Deliver
  PROVE  QuietInv'
<1> USE DEF QuietInv
<1>1. /\ out \in Seq(Frame) /\ out # <<>> /\ out' = Tail(out) /\ controllers \subseteq Ids
      /\ UNCHANGED <<todo, op, pc, closed, txErrors, controllers>>
  BY DEF Deliver, Drain, TypeInv, TypeOK, flags, ids, local
<1>2. /\ Len(out) \in Nat \ {0} /\ Len(out') = Len(out) - 1 /\ Head(out) = out[1]
      /\ \A k \in 1 .. Len(out') : out'[k] = out[k + 1]
  BY <1>1, EmptySeq, LenProperties, HeadTailProperties
<1>3. \A i \in Ids : setpoint'[i] = IF Head(out).kind = "duty" /\ i \in Head(out).ids
                                    THEN Head(out).on ELSE setpoint[i]
  BY DEF Deliver, Receives
<1>4. \A i \in Ids : /\ NoneOn(out, i) => NoneOn(out, i)' /\ ~IsOn(Head(out), i)
                     /\ ~IsOn(Head(out), i) /\ ~setpoint[i] => ~setpoint'[i]
                     /\ IsOff(Head(out), i) => ~setpoint'[i]
  BY <1>2, <1>3 DEF NoneOn, IsOn, IsOff
<1>5. ASSUME NEW i \in Ids, ZeroLast(i) PROVE ZeroLast(i)'
  <2>1. CASE ~setpoint[i] /\ NoneOn(out, i)
    BY <1>4, <2>1 DEF ZeroLast
  <2>2. ASSUME NEW k \in 1 .. Len(out), IsOff(out[k], i),
               \A m \in 1 .. Len(out) : m > k => ~IsOn(out[m], i)
        PROVE  ZeroLast(i)'
    <3>1. \A m \in 1 .. Len(out') : m + 1 > k => ~IsOn(out'[m], i)
      <4> SUFFICES ASSUME NEW m \in 1 .. Len(out'), m + 1 > k PROVE ~IsOn(out'[m], i)
        OBVIOUS
      <4>1. m + 1 \in 1 .. Len(out) /\ out'[m] = out[m + 1]
        BY <1>2
      <4>2. QED
        BY <2>2, <4>1
    <3>2. CASE k = 1
      <4>1. ~setpoint'[i]
        BY <1>2, <1>4, <2>2, <3>2
      <4>2. NoneOn(out, i)'
        BY <1>2, <3>1, <3>2 DEF NoneOn
      <4>3. QED
        BY <4>1, <4>2 DEF ZeroLast
    <3>3. CASE k # 1
      <4>1. k - 1 \in 1 .. Len(out') /\ out'[k - 1] = out[(k - 1) + 1] /\ (k - 1) + 1 = k
        BY <1>2, <3>3
      <4>2. \A m \in 1 .. Len(out') : m > k - 1 => ~IsOn(out'[m], i)
        BY <1>2, <3>1
      <4>3. QED
        BY <2>2, <4>1, <4>2 DEF ZeroLast
    <3>4. QED
      BY <3>2, <3>3
  <2>3. QED
    BY <1>5, <2>1, <2>2 DEF ZeroLast
<1>6. AllZero => AllZero'
  BY <1>1, <1>5 DEF AllZero
<1>7. Uncommanded'
  BY <1>1, <1>4 DEF Uncommanded
<1>8. OnlyZeroes' /\ CallsInv' /\ OpenYet'
  BY <1>1 DEF OnlyZeroes, CallsInv, OpenYet, Zeroing
<1>9. ZeroInv'
  BY <1>1, <1>5, <1>6 DEF ZeroInv
<1>10. QED
  BY <1>7, <1>8, <1>9

\* A step that touches neither the host nor a setpoint.
LEMMA QuietStutter ==
  ASSUME QuietInv, UNCHANGED <<vars, setpoint>>
  PROVE  QuietInv'
<1>1. UNCHANGED <<controllers, closed, txErrors, out, pc, op, todo, setpoint>>
  BY DEF vars
<1>2. QED
  BY <1>1 DEF QuietInv, Uncommanded, OnlyZeroes, CallsInv, OpenYet, Zeroing, ZeroInv,
              AllZero, ZeroLast, NoneOn

LEMMA QuietNext ==
  ASSUME Workers = {}, "shutdown_now" \notin Calls
  PROVE  TypeInv /\ QuietInv /\ [StopNext]_stopVars => QuietInv'
<1> SUFFICES ASSUME TypeInv, QuietInv, [StopNext]_stopVars PROVE QuietInv'
  OBVIOUS
<1>1. CASE HostStep /\ UNCHANGED device
  <2>1. CASE Call
    BY <1>1, <2>1, QuietCalls DEF Call
  <2>2. ASSUME NEW t \in Threads, Step(t) PROVE QuietInv'
    <3>1. CASE t \in {"main", "sig"} /\ Shutdown(t)
      BY <1>1, <3>1, QuietShutdown DEF Stoppers
    <3>2. QED
      BY <1>1, <2>2, <3>1, QuietSend, QuietBackground, QuietCalls DEF Step
  <2>3. QED
    BY <1>1, <2>1, <2>2 DEF HostStep
<1>2. CASE Deliver
  BY <1>2, QuietDeliver
<1>3. CASE UNCHANGED stopVars \/ \E i \in Ids : Window(i)
  BY <1>3, QuietStutter DEF Window, stopVars, device
<1>4. QED
  BY <1>1, <1>2, <1>3 DEF StopNext

LEMMA QuietInit == StopInit => QuietInv
<1> SUFFICES ASSUME StopInit PROVE QuietInv
  OBVIOUS
<1>1. /\ controllers = {} /\ out = <<>> /\ ~closed /\ pc["main"] = "idle" /\ pc["sig"] = "idle"
      /\ \A t \in Stoppers : todo[t] = <<>> /\ op[t] = "none"
      /\ \A i \in Ids : ~setpoint[i]
  BY ThreadsDistinct DEF StopInit, Init, Stoppers
<1>2. \A i \in Ids : NoneOn(<<>>, i)
  BY EmptySeq DEF NoneOn
<1>3. QED
  BY <1>1, <1>2 DEF QuietInv, Uncommanded, OnlyZeroes, CallsInv, OpenYet, Zeroing, ZeroInv,
                    Stoppers, Sending, Zeroed

\* The host of the composed system behaves like the host alone.
LEMMA StopIsSpec == StopSpec => Spec
<1>1. StopInit => Init
  BY DEF StopInit
<1>2. [StopNext]_stopVars => [Next]_vars
  BY DEF StopNext, stopVars, Next, Deliver, Window
<1>3. QED
  BY <1>1, <1>2, PTL DEF StopSpec, Spec

LEMMA QuietMeans ==
  ASSUME CloseInv, QuietInv
  PROVE  QuietAfterShutdown
<1> SUFFICES ASSUME ~sock, out = <<>>, txErrors = 0, NEW i \in controllers PROVE ~setpoint[i]
  BY DEF QuietAfterShutdown
<1>1. ZeroLast(i)
  BY DEF CloseInv, QuietInv, ZeroInv, AllZero
<1>2. QED
  BY <1>1, EmptySeq DEF ZeroLast

\* can_bus.py 307-326, with one application thread and zero_outputs left on:
\* whatever thread shuts the bus down, whatever it interrupts, and wherever the
\* heartbeat thread is, a bus that has been shut down without losing a frame
\* leaves no controller a setpoint to drive by.
THEOREM ShutdownIsQuiet ==
  ASSUME Workers = {}, "shutdown_now" \notin Calls
  PROVE  StopSpec => []QuietAfterShutdown
<1>1. TypeInv /\ QuietInv /\ [StopNext]_stopVars => QuietInv'
  BY QuietNext
<1>2. CloseInv /\ QuietInv => QuietAfterShutdown
  BY QuietMeans
<1>3. QED
  BY <1>1, <1>2, QuietInit, StopIsSpec, TypeCorrect, CloseInvariant, PTL DEF StopSpec
=============================================================================
