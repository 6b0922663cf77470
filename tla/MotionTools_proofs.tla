-------------------------- MODULE MotionTools_proofs --------------------------
(***************************************************************************)
(* Proofs about MotionTools: what the scripts leave behind, for any choice  *)
(* of them run any number of times, with any number of interrupts, errors  *)
(* and lost frames.  First what is true of every script as it is written,  *)
(* then what the machine that runs them keeps because of it.               *)
(***************************************************************************)
EXTENDS MotionTools, SequenceTheorems, TLAPS

(* Steps, and sets of them by what they do.                                *)

Kinds ==
  {"refuse", "confirm", "open", "trap", "ignore", "live", "shutdown", "wait", "init",
   "zero", "hold"}
StepT == [do : Kinds, on : SUBSET Motors]

Of(K)  == {x \in StepT : x.do \in K}
But(k) == Of(Kinds \ {k})

Closing   == {"zero", "shutdown", "ignore"}          \* in handlers and last finallys
Opening   == Kinds \ {"init", "shutdown"}
SettingUp == Kinds \ {"trap", "shutdown"}
Driving   == Kinds \ {"init", "trap", "shutdown"}
Resting   == Kinds \ {"hold", "live"}

(* What is true of the scripts.                                            *)

All(s, X) == \A b \in 1..Len(s.blocks) : s.blocks[b] \in Seq(X)

\* It only closes, and shuts the bus down at its end.
Leaves(b) == b \in Seq(Of(Closing)) /\ Len(b) >= 1 /\ b[Len(b)].do = "shutdown"

Shape(s) ==
  /\ s.blocks \in Seq(Seq(StepT)) /\ Len(s.blocks) >= 1
  /\ \A b \in 1..Len(s.blocks) : Len(s.blocks[b]) <= 11
  /\ s.handler \in Seq(Of(Closing)) /\ Len(s.handler) <= 11
  /\ s.motors \subseteq Motors

\* The handler shuts down, or the script drives nothing.
Handled(s) ==
  IF s.handler = <<>> THEN All(s, But("trap")) ELSE Leaves(s.handler) \/ All(s, But("hold"))

\* Nothing is driven before the try, and its last finally shuts down.
Guards(s) ==
  Len(s.blocks) > 1 => s.blocks[1] \in Seq(But("hold")) /\ Leaves(s.blocks[Len(s.blocks)])

Sound(s) == Shape(s) /\ Handled(s) /\ Guards(s)

\* An inner finally zeroes everything the script drives.
Owning(s) == {x \in StepT : x.do = "hold" => x.on \subseteq s.motors}
ZeroedAt3(s) ==
  /\ Len(s.blocks) = 4 /\ s.blocks[3] = <<Zero(s.motors)>> /\ s.handler = <<>>
  /\ All(s, Owning(s))

\* Every init is followed by a zero for the same motors.
Paired(b) ==
  \A i \in 1..Len(b) :
    b[i].do = "init" => i < Len(b) /\ b[i + 1].do = "zero" /\ b[i + 1].on = b[i].on

\* Only the body of the try registers, on an open bus, and zeroes each at once;
\* only there is anything driven.
Zeroing(s) ==
  /\ Len(s.blocks) >= 3
  /\ s.blocks[1] \in Seq(Of(Opening))
  /\ s.blocks[2] \in Seq(But("shutdown")) /\ Paired(s.blocks[2])
  /\ \A b \in 3..Len(s.blocks) : s.blocks[b] \in Seq(Of(Resting))
  /\ \/ Len(s.blocks[1]) >= 1 /\ s.blocks[1][Len(s.blocks[1])].do = "open"
     \/ Len(s.blocks[2]) >= 1 /\ s.blocks[2][1].do = "open"

-----------------------------------------------------------------------------
(* Sequences of steps                                                      *)

LEMMA Plain ==
  /\ {Refuse, Confirm, Open, Trap, Ignore, Live, Shutdown, Wait} \subseteq StepT
  /\ \A x \in SUBSET Motors : {Init(x), Zero(x), Hold(x)} \subseteq StepT
  /\ Refuse.do = "refuse" /\ Confirm.do = "confirm" /\ Open.do = "open" /\ Trap.do = "trap"
  /\ Ignore.do = "ignore" /\ Live.do = "live" /\ Shutdown.do = "shutdown" /\ Wait.do = "wait"
  /\ \A x : Init(x).do = "init" /\ Zero(x).do = "zero" /\ Hold(x).do = "hold"
  /\ \A x : Init(x).on = x /\ Zero(x).on = x /\ Hold(x).on = x
  /\ One \in SUBSET Motors /\ Motors \in SUBSET Motors /\ {"drive"} \in SUBSET Motors
  /\ {"steer"} \in SUBSET Motors
  BY DEF Refuse, Confirm, Step, StepT, Open, Kinds, Trap, Ignore, Live, Shutdown, Wait,
         Init, Zero, Hold, One, Motors

LEMMA SpinFirst ==
     /\ SpinGates \o <<Open>> \in Seq(Of({"refuse", "confirm", "open"}))
     /\ Len(SpinGates \o <<Open>>) = 4 /\ (SpinGates \o <<Open>>)[4] = Open
  BY Plain DEF SpinGates, Of

LEMMA StressFirst ==
     /\ StressFlags \o StressConfig \o StressPlan \o <<Open>> \in Seq(Of({"refuse", "confirm", "open"}))
     /\ Len(StressFlags \o StressConfig \o StressPlan \o <<Open>>) = 5
     /\ (StressFlags \o StressConfig \o StressPlan \o <<Open>>)[5] = Open
  BY Plain DEF StressFlags, StressConfig, StressPlan, Of

LEMMA DecodeFirst ==
     /\ DecodeFlags \o DecodeConfig \o <<Confirm, Open>> \in Seq(Of({"refuse", "confirm", "open"}))
     /\ Len(DecodeFlags \o DecodeConfig \o <<Confirm, Open>>) = 4
     /\ (DecodeFlags \o DecodeConfig \o <<Confirm, Open>>)[4] = Open
  BY Plain DEF DecodeFlags, DecodeConfig, Of

LEMMA PidFirst ==
     /\ PidFlags \o PidConfig \o PidEncoder \in Seq(Of({"refuse", "confirm"}))
     /\ Len(PidFlags \o PidConfig \o PidEncoder) = 4
  BY Plain DEF PidFlags, PidConfig, PidEncoder, Of

LEMMA TuneFirst ==
     /\ TuneGates \o SteerOpens \in Seq(Of({"refuse", "confirm", "open", "init", "trap"}))
     /\ Len(TuneGates \o SteerOpens) = 5
  BY Plain DEF TuneGates, SteerOpens, Of

LEMMA SlipFirst ==
     /\ SlipGates \o SteerOpens \in Seq(Of({"refuse", "confirm", "open", "init", "trap"}))
     /\ Len(SlipGates \o SteerOpens) = 5
  BY Plain DEF SlipGates, SteerOpens, Of

LEMMA Wider ==
  ASSUME NEW k \in SUBSET Kinds, NEW l \in SUBSET Kinds, k \subseteq l, NEW b \in Seq(Of(k))
  PROVE  b \in Seq(Of(l)) /\ b \in Seq(StepT)
BY DEF Of

LEMMA LastLeaves ==
  ASSUME NEW b \in Seq(Of({"zero", "shutdown", "ignore"})), Len(b) >= 1, b[Len(b)] = Shutdown
  PROVE  Leaves(b)
BY Plain DEF Leaves, Closing

LEMMA LeavesSteps ==
  ASSUME NEW b, Leaves(b) PROVE b \in Seq(Of(Closing)) /\ b \in Seq(StepT) /\ b # <<>>
BY EmptySeq DEF Leaves, Of

LEMMA Leavings ==
  /\ Leaves(SpinLeave) /\ Leaves(SteerLeave) /\ Leaves(StopHandler)
  /\ Leaves(<<Zero(Motors), Shutdown>>)
  /\ Leaves(<<Shutdown>>) /\ Leaves(<<Ignore, Zero(One), Shutdown>>)
  /\ Len(SpinLeave) = 2 /\ Len(SteerLeave) = 2 /\ Len(StopHandler) = 2
  /\ Len(<<Zero(Motors), Shutdown>>) = 2
  /\ Len(<<Shutdown>>) = 1 /\ Len(<<Ignore, Zero(One), Shutdown>>) = 3
<1>1. ASSUME NEW x \in StepT, x.do \in Closing PROVE Leaves(<<x, Shutdown>>)
  BY <1>1, Plain DEF Leaves, Of, Closing
<1>2. Leaves(<<Shutdown>>) /\ Leaves(<<Ignore, Zero(One), Shutdown>>)
  BY Plain DEF Leaves, Of, Closing
<1> QED BY <1>1, <1>2, Plain DEF SpinLeave, SteerLeave, StopHandler, Closing

LEMMA ThreeBlocks ==
  ASSUME NEW s, NEW a \in Seq(But("hold")), NEW b \in Seq(StepT), NEW c,
         s.blocks = <<a, b, c>>, Len(a) <= 11, Len(b) <= 11, Len(c) <= 11,
         Leaves(c), s.motors \in SUBSET Motors,
         \/ s.handler = <<>> /\ a \in Seq(But("trap")) /\ b \in Seq(But("trap"))
         \/ Leaves(s.handler) /\ Len(s.handler) <= 11
         \/ /\ s.handler # <<>> /\ s.handler \in Seq(Of(Closing)) /\ Len(s.handler) <= 11
            /\ b \in Seq(But("hold"))
  PROVE  Sound(s)
<1>1. Len(s.blocks) = 3 /\ s.blocks[1] = a /\ s.blocks[2] = b /\ s.blocks[3] = c
  OBVIOUS
<1>2. a \in Seq(StepT) /\ c \in Seq(StepT) /\ c \in Seq(But("hold")) /\ c \in Seq(But("trap"))
  <2>1. a \in Seq(StepT) BY DEF But, Of
  <2>2. c \in Seq(Of(Closing)) /\ c \in Seq(StepT) BY LeavesSteps
  <2>3. c \in Seq(But("hold")) BY <2>2, Wider DEF But, Closing, Kinds
  <2>4. c \in Seq(But("trap")) BY <2>2, Wider DEF But, Closing, Kinds
  <2> QED BY <2>1, <2>2, <2>3, <2>4
<1>3. \A k \in 1..3 : k = 1 \/ k = 2 \/ k = 3
  OBVIOUS
<1>4. Guards(s) BY <1>1 DEF Guards
<1>5. Handled(s)
  BY <1>1, <1>2, <1>3, LeavesSteps DEF Handled, All
<1>6. Shape(s)
  <2>1. s.blocks \in Seq(Seq(StepT))
    BY <1>2
  <2>2. s.handler \in Seq(Of(Closing)) /\ Len(s.handler) <= 11
    <3>1. CASE s.handler = <<>>
      BY <3>1
    <3>2. CASE Leaves(s.handler) /\ Len(s.handler) <= 11
      BY <3>2, LeavesSteps
    <3> QED BY <3>1, <3>2
  <2> QED BY <1>1, <1>3, <2>1, <2>2 DEF Shape
<1> QED BY <1>4, <1>5, <1>6 DEF Sound

LEMMA Joined ==
  ASSUME NEW X, NEW s \in Seq(X), NEW t \in Seq(X)
  PROVE  /\ s \o t \in Seq(X) /\ Len(s \o t) = Len(s) + Len(t)
         /\ \A i \in 1..Len(s) : (s \o t)[i] = s[i]
         /\ \A i \in 1..Len(t) : (s \o t)[Len(s) + i] = t[i]
         /\ \A i \in 1..(Len(s) + Len(t)) :
              \/ i <= Len(s) /\ (s \o t)[i] = s[i]
              \/ i > Len(s) /\ i - Len(s) \in 1..Len(t) /\ (s \o t)[i] = t[i - Len(s)]
BY ConcatProperties

LEMMA PairedThen ==
  ASSUME NEW s \in Seq(StepT), NEW t \in Seq(But("init")), Paired(s)
  PROVE  Paired(s \o t)
<1>1. t \in Seq(StepT) BY DEF But, Of
<1> SUFFICES ASSUME NEW i \in 1..(Len(s) + Len(t)), (s \o t)[i].do = "init"
             PROVE  /\ i < Len(s) + Len(t)
                    /\ (s \o t)[i + 1].do = "zero" /\ (s \o t)[i + 1].on = (s \o t)[i].on
  BY <1>1, Joined DEF Paired
<1>2. i <= Len(s) /\ (s \o t)[i] = s[i]
  BY <1>1, Joined DEF But, Of
<1>3. s[i].do = "init" /\ i \in 1..Len(s) BY <1>2
<1>4. i < Len(s) /\ s[i + 1].do = "zero" /\ s[i + 1].on = s[i].on BY <1>3 DEF Paired
<1>5. i + 1 \in 1..Len(s) BY <1>4
<1> QED BY <1>1, <1>2, <1>4, <1>5, Joined

LEMMA ThenPaired ==
  ASSUME NEW s \in Seq(But("init")), NEW t \in Seq(StepT), Paired(t)
  PROVE  Paired(s \o t)
<1>1. s \in Seq(StepT) BY DEF But, Of
<1> SUFFICES ASSUME NEW i \in 1..(Len(s) + Len(t)), (s \o t)[i].do = "init"
             PROVE  /\ i < Len(s) + Len(t)
                    /\ (s \o t)[i + 1].do = "zero" /\ (s \o t)[i + 1].on = (s \o t)[i].on
  BY <1>1, Joined DEF Paired
<1>2. i - Len(s) \in 1..Len(t) /\ (s \o t)[i] = t[i - Len(s)]
  BY <1>1, Joined DEF But, Of
<1> DEFINE j == i - Len(s)
<1>4. j < Len(t) /\ t[j + 1].do = "zero" /\ t[j + 1].on = t[j].on BY <1>2 DEF Paired
<1>5. j + 1 \in 1..Len(t) /\ Len(s) + (j + 1) = i + 1 BY <1>2, <1>4
<1>6. (s \o t)[i + 1] = t[j + 1] BY <1>1, <1>5, Joined
<1> QED BY <1>2, <1>4, <1>5, <1>6

LEMMA FunctionIsSeq ==
  ASSUME NEW n \in Nat, NEW X, NEW f \in [1..n -> X]
  PROVE  f \in Seq(X) /\ Len(f) = n
OBVIOUS

LEMMA InitZeroShape ==
  ASSUME NEW s \in Seq(Motors)
  PROVE  /\ InitZero(s) \in Seq(Of({"init", "zero"})) /\ Len(InitZero(s)) = 2 * Len(s)
         /\ Paired(InitZero(s))
<1>1. \A k \in 1..(2 * Len(s)) :
        IF k % 2 = 1 THEN (k + 1) \div 2 \in 1..Len(s) ELSE k \div 2 \in 1..Len(s)
  OBVIOUS
<1>2. ASSUME NEW k \in 1..(2 * Len(s)) PROVE InitZero(s)[k] \in Of({"init", "zero"})
  <2>1. CASE k % 2 = 1
    <3>1. {s[(k + 1) \div 2]} \in SUBSET Motors BY <1>1, <2>1
    <3> QED BY <2>1, <3>1, Plain DEF InitZero, Of
  <2>2. CASE k % 2 # 1
    <3>1. {s[k \div 2]} \in SUBSET Motors BY <1>1, <2>2
    <3> QED BY <2>2, <3>1, Plain DEF InitZero, Of
  <2> QED BY <2>1, <2>2
<1>3. InitZero(s) \in Seq(Of({"init", "zero"})) /\ Len(InitZero(s)) = 2 * Len(s)
  <2>1. 2 * Len(s) \in Nat OBVIOUS
  <2>2. InitZero(s) \in [1..(2 * Len(s)) -> Of({"init", "zero"})]
    BY <1>2 DEF InitZero
  <2> HIDE DEF InitZero
  <2> QED BY <2>1, <2>2, FunctionIsSeq
<1>4. ASSUME NEW k \in 1..(2 * Len(s)), InitZero(s)[k].do = "init"
      PROVE  /\ k < 2 * Len(s)
             /\ InitZero(s)[k + 1].do = "zero" /\ InitZero(s)[k + 1].on = InitZero(s)[k].on
  <2>1. k % 2 = 1 BY <1>4, Plain DEF InitZero
  <2>2. k + 1 \in 1..(2 * Len(s)) /\ (k + 1) % 2 # 1 BY <2>1
  <2>3. /\ InitZero(s)[k] = Init({s[(k + 1) \div 2]})
        /\ InitZero(s)[k + 1] = Zero({s[(k + 1) \div 2]})
    BY <2>1, <2>2 DEF InitZero
  <2> QED BY <2>2, <2>3, Plain
<1> QED BY <1>3, <1>4 DEF Paired

LEMMA TuneSound == Sound(SteerTune)
<1>1. /\ SteerTune.blocks =
           <<TuneGates \o SteerOpens, <<Hold(One), Zero(One), Hold(One), Zero(One)>>, SteerLeave>>
      /\ SteerTune.handler = StopHandler /\ SteerTune.motors = One
  BY DEF SteerTune, Script
<1>2. TuneGates \o SteerOpens \in Seq(But("hold"))
  BY TuneFirst, Plain DEF Of, But, Kinds
<1>3. /\ <<Hold(One), Zero(One), Hold(One), Zero(One)>> \in Seq(StepT)
      /\ Len(<<Hold(One), Zero(One), Hold(One), Zero(One)>>) = 4
  BY Plain
<1> DEFINE a == TuneGates \o SteerOpens
           b == <<Hold(One), Zero(One), Hold(One), Zero(One)>>
           c == SteerLeave
<1>4. Len(a) <= 11 /\ Len(b) <= 11 /\ Len(c) <= 11 /\ Leaves(c)
  BY <1>3, TuneFirst, Leavings
<1> HIDE DEF a, b, c
<1>5. SteerTune.blocks = <<a, b, c>> /\ a \in Seq(But("hold")) /\ b \in Seq(StepT)
  BY <1>1, <1>2, <1>3 DEF a, b, c
<1>6. /\ Leaves(SteerTune.handler) /\ Len(SteerTune.handler) <= 11
      /\ SteerTune.motors \in SUBSET Motors
  BY <1>1, Leavings, Plain
<1> QED BY <1>4, <1>5, <1>6, ThreeBlocks

LEMMA FourBlocks ==
  ASSUME NEW s, NEW a \in Seq(But("hold")), NEW b \in Seq(StepT),
         NEW c \in Seq(Of(Closing)), NEW d,
         s.blocks = <<a, b, c, d>>, Len(a) <= 11, Len(b) <= 11, Len(c) <= 11, Len(d) <= 11,
         Leaves(d), s.motors \in SUBSET Motors,
         s.handler = <<>>, a \in Seq(But("trap")), b \in Seq(But("trap"))
  PROVE  Sound(s)
<1>1. /\ Len(s.blocks) = 4 /\ s.blocks[1] = a /\ s.blocks[2] = b /\ s.blocks[3] = c
      /\ s.blocks[4] = d
  OBVIOUS
<1>2. /\ a \in Seq(StepT) /\ c \in Seq(StepT) /\ d \in Seq(StepT)
      /\ c \in Seq(But("trap")) /\ d \in Seq(But("trap"))
  <2>1. a \in Seq(StepT) BY DEF But, Of
  <2>2. c \in Seq(StepT) /\ c \in Seq(But("trap")) BY Wider DEF But, Closing, Kinds
  <2>3. d \in Seq(Of(Closing)) /\ d \in Seq(StepT) BY LeavesSteps
  <2>4. d \in Seq(But("trap")) BY <2>3, Wider DEF But, Closing, Kinds
  <2> QED BY <2>1, <2>2, <2>3, <2>4
<1>3. \A k \in 1..4 : k = 1 \/ k = 2 \/ k = 3 \/ k = 4
  OBVIOUS
<1>4. Guards(s) BY <1>1 DEF Guards
<1>5. Handled(s)
  BY <1>1, <1>2, <1>3 DEF Handled, All
<1>6. Shape(s)
  <2>1. s.blocks \in Seq(Seq(StepT))
    BY <1>2
  <2>2. s.handler \in Seq(Of(Closing)) /\ Len(s.handler) <= 11
    OBVIOUS
  <2> QED BY <1>1, <1>3, <2>1, <2>2 DEF Shape
<1> QED BY <1>4, <1>5, <1>6 DEF Sound

LEMMA OneBlock ==
  ASSUME NEW s, NEW a \in Seq(But("trap")), s.blocks = <<a>>, Len(a) <= 11, s.handler = <<>>,
         s.motors \in SUBSET Motors
  PROVE  Sound(s)
<1>1. Len(s.blocks) = 1 /\ s.blocks[1] = a
  OBVIOUS
<1>2. a \in Seq(StepT) BY DEF But, Of
<1>3. \A k \in 1..1 : k = 1
  OBVIOUS
<1>4. Guards(s) BY <1>1 DEF Guards
<1>5. Handled(s)
  BY <1>1, <1>3 DEF Handled, All
<1>6. Shape(s)
  <2>1. s.blocks \in Seq(Seq(StepT))
    BY <1>2
  <2>2. s.handler \in Seq(Of(Closing)) /\ Len(s.handler) <= 11
    OBVIOUS
  <2> QED BY <1>1, <1>3, <2>1, <2>2 DEF Shape
<1> QED BY <1>4, <1>5, <1>6 DEF Sound

LEMMA ExamplesSound ==
  Sound(SpinOneMotor) /\ Sound(DriveAndSteer) /\ Sound(SwerveModule) /\ Sound(SeedAndSteer)
<1>1. Sound(SpinOneMotor)
  <2> DEFINE a == <<Confirm, Open, Init(One), Hold(One), Zero(One), Shutdown>>
  <2>1. a \in Seq(But("trap")) /\ Len(a) = 6
    BY Plain DEF But, Of, Kinds
  <2>2. SpinOneMotor.blocks = <<a>> /\ SpinOneMotor.handler = <<>> /\ SpinOneMotor.motors = One
    BY DEF SpinOneMotor, Script
  <2>3. SpinOneMotor.motors \in SUBSET Motors /\ Len(a) <= 11
    BY <2>1, <2>2, Plain
  <2> HIDE DEF a
  <2> QED BY <2>1, <2>2, <2>3, OneBlock
<1>2. Sound(DriveAndSteer)
  <2> DEFINE a == <<Confirm, Open, Init(Motors), Hold(Motors), Zero(Motors), Shutdown>>
  <2>1. a \in Seq(But("trap")) /\ Len(a) = 6
    BY Plain DEF But, Of, Kinds
  <2>2. /\ DriveAndSteer.blocks = <<a>> /\ DriveAndSteer.handler = <<>>
        /\ DriveAndSteer.motors = Motors
    BY DEF DriveAndSteer, Script
  <2>3. DriveAndSteer.motors \in SUBSET Motors /\ Len(a) <= 11
    BY <2>1, <2>2, Plain
  <2> HIDE DEF a
  <2> QED BY <2>1, <2>2, <2>3, OneBlock
<1>3. Sound(SwerveModule)
  <2> DEFINE a == <<Refuse, Confirm, Open, Init(Motors), Hold(Motors), Zero(Motors), Shutdown>>
  <2>1. a \in Seq(But("trap")) /\ Len(a) = 7
    BY Plain DEF But, Of, Kinds
  <2>2. SwerveModule.blocks = <<a>> /\ SwerveModule.handler = <<>> /\ SwerveModule.motors = Motors
    BY DEF SwerveModule, Script
  <2>3. SwerveModule.motors \in SUBSET Motors /\ Len(a) <= 11
    BY <2>1, <2>2, Plain
  <2> HIDE DEF a
  <2> QED BY <2>1, <2>2, <2>3, OneBlock
<1>4. Sound(SeedAndSteer)
  <2> DEFINE a == <<Refuse, Confirm, Open, Init(One), Wait, Hold(One), Zero(One), Wait, Shutdown>>
  <2>1. a \in Seq(But("trap")) /\ Len(a) = 9
    BY Plain DEF But, Of, Kinds
  <2>2. SeedAndSteer.blocks = <<a>> /\ SeedAndSteer.handler = <<>> /\ SeedAndSteer.motors = One
    BY DEF SeedAndSteer, Script
  <2>3. SeedAndSteer.motors \in SUBSET Motors /\ Len(a) <= 11
    BY <2>1, <2>2, Plain
  <2> HIDE DEF a
  <2> QED BY <2>1, <2>2, <2>3, OneBlock
<1> QED BY <1>1, <1>2, <1>3, <1>4

LEMMA ZeroingThree ==
  ASSUME NEW s, NEW a \in Seq(Of(Opening)), NEW b \in Seq(But("shutdown")), NEW c,
         s.blocks = <<a, b, c>>, Paired(b), Leaves(c), Len(a) >= 1, a[Len(a)] = Open
  PROVE  Zeroing(s)
<1>1. Len(s.blocks) = 3 /\ s.blocks[1] = a /\ s.blocks[2] = b /\ s.blocks[3] = c
  OBVIOUS
<1>2. c \in Seq(Of(Resting))
  BY LeavesSteps, Wider DEF Closing, Resting, Kinds
<1> QED BY <1>1, <1>2, Plain DEF Zeroing

LEMMA ZeroingFour ==
  ASSUME NEW s, NEW a \in Seq(Of(Opening)), NEW b \in Seq(But("shutdown")),
         NEW c \in Seq(Of(Closing)), NEW d,
         s.blocks = <<a, b, c, d>>, Paired(b), Leaves(d),
         \/ Len(a) >= 1 /\ a[Len(a)] = Open
         \/ Len(b) >= 1 /\ b[1] = Open
  PROVE  Zeroing(s)
<1>1. /\ Len(s.blocks) = 4 /\ s.blocks[1] = a /\ s.blocks[2] = b /\ s.blocks[3] = c
      /\ s.blocks[4] = d
  OBVIOUS
<1>2. d \in Seq(Of(Resting)) /\ c \in Seq(Of(Resting))
  BY LeavesSteps, Wider DEF Closing, Resting, Kinds
<1> QED BY <1>1, <1>2, Plain DEF Zeroing

LEMMA SetUp ==
  ASSUME NEW s \in Seq(Motors), NEW t \in Seq(Of(Driving))
  PROVE  /\ InitZero(s) \o t \in Seq(Of(SettingUp)) /\ Len(InitZero(s) \o t) = 2 * Len(s) + Len(t)
         /\ Paired(InitZero(s) \o t)
<1> DEFINE z == InitZero(s)
<1>1. z \in Seq(Of({"init", "zero"})) /\ Len(z) = 2 * Len(s) /\ Paired(z)
  BY InitZeroShape
<1> HIDE DEF z
<1>2. z \in Seq(Of(SettingUp)) /\ z \in Seq(StepT)
  BY <1>1, Wider DEF SettingUp, Kinds
<1>3. t \in Seq(Of(SettingUp)) /\ t \in Seq(But("init"))
  BY Wider DEF SettingUp, Driving, Kinds, But
<1> QED BY <1>1, <1>2, <1>3, Joined, PairedThen DEF z

LEMMA Extended ==
  ASSUME NEW b \in Seq(Of(SettingUp)), Paired(b), NEW t \in Seq(Of(Driving))
  PROVE  b \o t \in Seq(Of(SettingUp)) /\ Len(b \o t) = Len(b) + Len(t) /\ Paired(b \o t)
<1>2. b \in Seq(StepT)
  BY Wider DEF SettingUp, Kinds
<1>3. t \in Seq(Of(SettingUp)) /\ t \in Seq(But("init"))
  BY Wider DEF SettingUp, Driving, Kinds, But
<1> QED BY <1>2, <1>3, Joined, PairedThen

LEMMA BothMotors ==
  /\ Both \in Seq(Motors) /\ Len(Both) = 2
  /\ <<"steer">> \in Seq(Motors) /\ Len(<<"steer">>) = 1
  /\ <<"steer", "drive">> \in Seq(Motors) /\ Len(<<"steer", "drive">>) = 2
BY DEF Both, Motors

LEMMA SpinFacts == Sound(SpinAll) /\ Zeroing(SpinAll)
<1> DEFINE a == SpinGates \o <<Open>>
           t == <<Live, Hold(Motors)>>
           b == InitZero(Both) \o t
           c == SpinLeave
<1>1. SpinAll.blocks = <<a, b, c>> /\ SpinAll.handler = <<>> /\ SpinAll.motors \in SUBSET Motors
  BY DEF SpinAll, Script
<1>2. /\ a \in Seq(But("hold")) /\ a \in Seq(But("trap"))
      /\ a \in Seq(Of(Opening))
  BY SpinFirst, Wider DEF But, Opening, Kinds
<1>3. t \in Seq(Of(Driving)) /\ Len(t) = 2
  BY Plain DEF Of, Driving, Kinds
<1>5. Len(a) = 4 /\ a[Len(a)] = Open /\ Len(c) = 2 /\ Leaves(c)
  BY SpinFirst, Leavings
<1> HIDE DEF a, t, c
<1>4. Both \in Seq(Motors) /\ Len(Both) = 2
  BY BothMotors
<1>9. b \in Seq(Of(SettingUp)) /\ Paired(b) /\ Len(b) = 2 * Len(Both) + Len(t)
  BY <1>3, <1>4, SetUp
<1> HIDE DEF b
<1>10. Len(a) <= 11 /\ Len(b) <= 11 /\ Len(c) <= 11
  BY <1>3, <1>4, <1>5, <1>9
<1>6. b \in Seq(StepT) /\ b \in Seq(But("trap")) /\ b \in Seq(But("shutdown"))
  BY <1>9, Wider DEF SettingUp, But, Kinds
<1>7. Sound(SpinAll)
  BY <1>1, <1>2, <1>5, <1>6, <1>10, ThreeBlocks
<1>8. Zeroing(SpinAll)
  <2>1. Len(a) >= 1 /\ a[Len(a)] = Open /\ Leaves(c) /\ Paired(b)
    BY <1>5, <1>9
  <2> QED BY <1>1, <1>2, <1>6, <2>1, ZeroingThree
<1> QED BY <1>7, <1>8

LEMMA SpinSequentialFacts == Sound(SpinSequential) /\ Zeroing(SpinSequential)
<1> DEFINE a == SpinGates \o <<Open>>
           t == <<Live>>
           h == InitZero(Both) \o t
           b == h \o Turns
           c == SpinLeave
<1>1. /\ SpinSequential.blocks = <<a, b, c>> /\ SpinSequential.handler = <<>>
      /\ SpinSequential.motors \in SUBSET Motors
  BY DEF SpinSequential, Script
<1>2. /\ a \in Seq(But("hold")) /\ a \in Seq(But("trap"))
      /\ a \in Seq(Of(Opening))
  BY SpinFirst, Wider DEF But, Opening, Kinds
<1>3. t \in Seq(Of(Driving)) /\ Len(t) = 1
  BY Plain DEF Of, Driving, Kinds
<1>4. Turns \in Seq(Of(Driving)) /\ Len(Turns) = 4
  BY Plain DEF Turns, Of, Driving, Kinds
<1>5. Len(a) = 4 /\ a[Len(a)] = Open /\ Len(c) = 2 /\ Leaves(c)
  BY SpinFirst, Leavings
<1> HIDE DEF a, t, c
<1>6. Both \in Seq(Motors) /\ Len(Both) = 2
  BY BothMotors
<1>7. h \in Seq(Of(SettingUp)) /\ Paired(h) /\ Len(h) = 2 * Len(Both) + Len(t)
  BY <1>3, <1>6, SetUp
<1> HIDE DEF h
<1>8. b \in Seq(Of(SettingUp)) /\ Paired(b) /\ Len(b) = Len(h) + Len(Turns)
  BY <1>4, <1>7, Extended
<1> HIDE DEF b
<1>9. Len(a) <= 11 /\ Len(b) <= 11 /\ Len(c) <= 11
  BY <1>3, <1>4, <1>5, <1>6, <1>7, <1>8
<1>10. b \in Seq(StepT) /\ b \in Seq(But("trap")) /\ b \in Seq(But("shutdown"))
  BY <1>8, Wider DEF SettingUp, But, Kinds
<1>11. Sound(SpinSequential)
  BY <1>1, <1>2, <1>5, <1>9, <1>10, ThreeBlocks
<1>12. Zeroing(SpinSequential)
  <2>1. Len(a) >= 1 /\ a[Len(a)] = Open /\ Leaves(c) /\ Paired(b)
    BY <1>5, <1>8
  <2> QED BY <1>1, <1>2, <1>10, <2>1, ZeroingThree
<1> QED BY <1>11, <1>12

LEMMA SlipSound == Sound(SteerSlip)
<1> DEFINE a == SlipGates \o SteerOpens
           b == <<Hold(One)>>
           c == SteerLeave
<1>1. /\ SteerSlip.blocks = <<a, b, c>> /\ SteerSlip.handler = StopHandler
      /\ SteerSlip.motors = One
  BY DEF SteerSlip, Script
<1>2. a \in Seq(But("hold"))
  BY SlipFirst, Plain DEF Of, But, Kinds
<1>3. b \in Seq(StepT) /\ Len(b) = 1
  BY Plain
<1>4. Len(a) <= 11 /\ Len(b) <= 11 /\ Len(c) <= 11 /\ Leaves(c)
  BY <1>3, SlipFirst, Leavings
<1> HIDE DEF a, b, c
<1>6. /\ Leaves(SteerSlip.handler) /\ Len(SteerSlip.handler) <= 11
      /\ SteerSlip.motors \in SUBSET Motors
  BY <1>1, Leavings, Plain
<1> QED BY <1>1, <1>2, <1>3, <1>4, <1>6, ThreeBlocks

LEMMA DecodeFacts == Sound(SteerDecode) /\ Zeroing(SteerDecode) /\ All(SteerDecode, But("hold"))
<1> DEFINE a == DecodeFlags \o DecodeConfig \o <<Confirm, Open>>
           z == InitZero(<<"steer">>)
           t == <<Live, Refuse, Wait>>
           h == <<Trap>> \o z
           b == h \o t
           c == <<Ignore, Zero(One), Shutdown>>
<1>1. /\ SteerDecode.blocks = <<a, b, c>> /\ SteerDecode.handler = <<Zero(One)>>
      /\ SteerDecode.motors \in SUBSET Motors
  BY Plain DEF SteerDecode, Script
<1>18. a \in Seq(Of({"refuse", "confirm", "open"}))
  BY DecodeFirst
<1>3. Len(a) = 4 /\ a[Len(a)] = Open /\ Len(c) = 3 /\ Leaves(c)
  BY DecodeFirst, Leavings
<1>4. /\ <<Trap>> \in Seq(But("init")) /\ <<Trap>> \in Seq(Of(Kinds \ {"hold", "shutdown"}))
      /\ Len(<<Trap>>) = 1
  BY Plain DEF But, Of, Kinds
<1>5. t \in Seq(But("init")) /\ t \in Seq(Of(Kinds \ {"hold", "shutdown"})) /\ Len(t) = 3
  BY Plain DEF But, Of, Kinds
<1> HIDE DEF a, c, t
<1>2. a \in Seq(But("hold")) /\ a \in Seq(Of(Opening))
  BY <1>18, Wider DEF But, Opening, Kinds
<1>6. <<"steer">> \in Seq(Motors) /\ Len(<<"steer">>) = 1
  BY BothMotors
<1>7. z \in Seq(Of({"init", "zero"})) /\ Paired(z) /\ Len(z) = 2 * Len(<<"steer">>)
  BY <1>6, InitZeroShape
<1> HIDE DEF z
<1> DEFINE K == Kinds \ {"hold", "shutdown"}
<1> HIDE DEF K
<1>8. z \in Seq(StepT) /\ z \in Seq(Of(K)) /\ t \in Seq(Of(K)) /\ <<Trap>> \in Seq(Of(K))
  BY <1>4, <1>5, <1>7, Wider DEF K, Kinds
<1>9. h \in Seq(Of(K)) /\ Paired(h) /\ Len(h) = Len(<<Trap>>) + Len(z)
  BY <1>4, <1>7, <1>8, Joined, ThenPaired
<1> HIDE DEF h
<1>10. h \in Seq(StepT)
  BY <1>9, Wider DEF K
<1>11. b \in Seq(Of(K)) /\ Paired(b) /\ Len(b) = Len(h) + Len(t)
  <2>1. b \in Seq(Of(K)) /\ Len(b) = Len(h) + Len(t)
    BY <1>8, <1>9, Joined
  <2>2. Paired(b)
    BY <1>5, <1>8, <1>9, <1>10, PairedThen
  <2> QED BY <2>1, <2>2
<1> HIDE DEF b
<1>12. Len(a) <= 11 /\ Len(b) <= 11 /\ Len(c) <= 11
  BY <1>3, <1>4, <1>5, <1>6, <1>7, <1>9, <1>11
<1>13. b \in Seq(StepT) /\ b \in Seq(But("hold")) /\ b \in Seq(But("shutdown"))
  BY <1>11, Wider DEF K, But, Kinds
<1>14. /\ SteerDecode.handler # <<>> /\ SteerDecode.handler \in Seq(Of(Closing))
       /\ Len(SteerDecode.handler) <= 11
  BY <1>1, Plain DEF Of, Closing
<1>15. Sound(SteerDecode)
  BY <1>1, <1>2, <1>3, <1>12, <1>13, <1>14, ThreeBlocks
<1>16. Zeroing(SteerDecode)
  <2>1. Len(a) >= 1 /\ a[Len(a)] = Open /\ Leaves(c) /\ Paired(b)
    BY <1>3, <1>11
  <2> QED BY <1>1, <1>2, <1>13, <2>1, ZeroingThree
<1>17. All(SteerDecode, But("hold"))
  <2>1. c \in Seq(Of(Closing))
    BY <1>3, LeavesSteps
  <2>2. c \in Seq(But("hold"))
    BY <2>1, Wider DEF But, Closing, Kinds
  <2> QED BY <1>1, <1>2, <1>13, <2>2 DEF All
<1> QED BY <1>15, <1>16, <1>17

LEMMA ProbeSound == Sound(HeartbeatProbe)
<1> DEFINE a == <<Open, Init(Motors), Wait, Zero(Motors), Wait>>
           b == <<Wait>>
           c == <<Shutdown>>
<1>1. /\ HeartbeatProbe.blocks = <<a, b, c>> /\ HeartbeatProbe.handler = <<>>
      /\ HeartbeatProbe.motors \in SUBSET Motors
  BY DEF HeartbeatProbe, Script
<1>2. a \in Seq(But("hold")) /\ a \in Seq(But("trap")) /\ Len(a) = 5
  BY Plain DEF Of, But, Kinds
<1>3. b \in Seq(StepT) /\ b \in Seq(But("trap")) /\ Len(b) = 1
  BY Plain DEF Of, But, Kinds
<1>4. Len(a) <= 11 /\ Len(b) <= 11 /\ Len(c) <= 11 /\ Leaves(c)
  BY <1>2, <1>3, Leavings
<1> HIDE DEF a, b, c
<1> QED BY <1>1, <1>2, <1>3, <1>4, ThreeBlocks

LEMMA JoystickSound == Sound(JoystickDrive)
<1> DEFINE a == <<Refuse, Confirm>>
           b == <<Open, Init(Motors), Wait, Hold(Motors)>>
           c == <<Zero(Motors), Shutdown>>
<1>1. /\ JoystickDrive.blocks = <<a, b, c>> /\ JoystickDrive.handler = <<>>
      /\ JoystickDrive.motors \in SUBSET Motors
  BY DEF JoystickDrive, Script
<1>2. a \in Seq(But("hold")) /\ a \in Seq(But("trap")) /\ Len(a) = 2
  BY Plain DEF Of, But, Kinds
<1>3. b \in Seq(StepT) /\ b \in Seq(But("trap")) /\ Len(b) = 4
  BY Plain DEF Of, But, Kinds
<1>4. Len(a) <= 11 /\ Len(b) <= 11 /\ Len(c) <= 11 /\ Leaves(c)
  BY <1>2, <1>3, Leavings
<1> HIDE DEF a, b, c
<1> QED BY <1>1, <1>2, <1>3, <1>4, ThreeBlocks

LEMMA OwnsAll ==
  ASSUME NEW s, s.motors = Motors, NEW b \in Seq(StepT) PROVE b \in Seq(Owning(s))
BY DEF Owning, StepT

LEMMA OwnsButHold ==
  ASSUME NEW s, NEW b \in Seq(But("hold")) PROVE b \in Seq(Owning(s))
BY DEF Owning, But, Of

LEMMA OwnsJoined ==
  ASSUME NEW s, NEW a \in Seq(Owning(s)), NEW b \in Seq(Owning(s)) PROVE a \o b \in Seq(Owning(s))
BY Joined

LEMMA FourOwning ==
  ASSUME NEW s, NEW a \in Seq(Owning(s)), NEW b \in Seq(Owning(s)), NEW d,
         Leaves(d), s.motors \in SUBSET Motors,
         s.blocks = <<a, b, <<Zero(s.motors)>>, d>>, s.handler = <<>>
  PROVE  ZeroedAt3(s)
<1>1. <<Zero(s.motors)>> \in Seq(But("hold"))
  BY Plain DEF But, Of, Kinds
<1>2. d \in Seq(But("hold"))
  BY LeavesSteps, Wider DEF But, Closing, Kinds
<1>3. <<Zero(s.motors)>> \in Seq(Owning(s)) /\ d \in Seq(Owning(s))
  BY <1>1, <1>2, OwnsButHold
<1>4. /\ Len(s.blocks) = 4 /\ s.blocks[1] = a /\ s.blocks[2] = b
      /\ s.blocks[3] = <<Zero(s.motors)>> /\ s.blocks[4] = d
  OBVIOUS
<1> DEFINE c == <<Zero(s.motors)>>
<1>5. /\ s.blocks[1] \in Seq(Owning(s)) /\ s.blocks[2] \in Seq(Owning(s))
      /\ s.blocks[3] \in Seq(Owning(s)) /\ s.blocks[4] \in Seq(Owning(s))
  <2> HIDE DEF Owning
  <2>1. c \in Seq(Owning(s)) /\ s.blocks[3] = c
    BY <1>3, <1>4
  <2> HIDE DEF c
  <2> QED BY <1>3, <1>4, <2>1
<1>6. \A k \in 1..4 : k = 1 \/ k = 2 \/ k = 3 \/ k = 4
  OBVIOUS
<1>7. All(s, Owning(s))
  BY <1>4, <1>5, <1>6 DEF All
<1> QED BY <1>4, <1>7 DEF ZeroedAt3

LEMMA StressFacts == Sound(SteerStress) /\ Zeroing(SteerStress) /\ ZeroedAt3(SteerStress)
<1> DEFINE a == StressFlags \o StressConfig \o StressPlan \o <<Open>>
           z == InitZero(<<"steer", "drive">>)
           t == <<Live, Refuse>>
           h == z \o t
           b == h \o RecordSpin
           c == <<Zero(Motors)>>
           d == <<Zero(Motors), Shutdown>>
<1>1. /\ SteerStress.blocks = <<a, b, c, d>> /\ SteerStress.handler = <<>>
      /\ SteerStress.motors = Motors
  BY DEF SteerStress, Script, InitCorners
<1>2. a \in Seq(Of({"refuse", "confirm", "open"})) /\ Len(a) = 5 /\ a[Len(a)] = Open
  BY StressFirst
<1>3. t \in Seq(Of(Driving)) /\ Len(t) = 2
  BY Plain DEF Of, Driving, Kinds
<1>4. RecordSpin \in Seq(Of(Driving)) /\ Len(RecordSpin) = 5
  BY Plain DEF RecordSpin, Of, Driving, Kinds
<1>5. c \in Seq(Of(Closing)) /\ Len(c) = 1 /\ Len(d) = 2 /\ Leaves(d)
  BY Plain, Leavings DEF Of, Closing
<1>6. <<"steer", "drive">> \in Seq(Motors) /\ Len(<<"steer", "drive">>) = 2
  BY BothMotors
<1> HIDE DEF t
<1>7. h \in Seq(Of(SettingUp)) /\ Paired(h) /\ Len(h) = 2 * Len(<<"steer", "drive">>) + Len(t)
  BY <1>3, <1>6, SetUp
<1> HIDE DEF h, a
<1>8. b \in Seq(Of(SettingUp)) /\ Paired(b) /\ Len(b) = Len(h) + Len(RecordSpin)
  BY <1>4, <1>7, Extended
<1> HIDE DEF b, d
<1>9. Len(a) <= 11 /\ Len(b) <= 11 /\ Len(c) <= 11 /\ Len(d) <= 11
  BY <1>2, <1>3, <1>4, <1>5, <1>6, <1>7, <1>8
<1>10. b \in Seq(StepT) /\ b \in Seq(But("trap")) /\ b \in Seq(But("shutdown"))
  BY <1>8, Wider DEF SettingUp, But, Kinds
<1>11. /\ a \in Seq(But("hold")) /\ a \in Seq(But("trap")) /\ a \in Seq(Of(Opening))
       /\ a \in Seq(StepT)
  BY <1>2, Wider DEF But, Opening, Kinds
<1>12. ZeroedAt3(SteerStress)
  <2>1. a \in Seq(Owning(SteerStress)) /\ b \in Seq(Owning(SteerStress))
    BY <1>1, <1>10, <1>11, OwnsAll
  <2>2. SteerStress.blocks = <<a, b, <<Zero(SteerStress.motors)>>, d>>
    BY <1>1
  <2>3. SteerStress.motors \in SUBSET Motors
    BY <1>1
  <2> QED BY <1>1, <1>5, <2>1, <2>2, <2>3, FourOwning
<1> HIDE DEF c
<1>13. SteerStress.motors \in SUBSET Motors
  BY <1>1
<1>14. Sound(SteerStress)
  BY <1>1, <1>5, <1>9, <1>10, <1>11, <1>13, FourBlocks
<1>15. Zeroing(SteerStress)
  <2>1. Len(a) >= 1 /\ a[Len(a)] = Open /\ Leaves(d) /\ Paired(b)
    BY <1>2, <1>5, <1>8
  <2> QED BY <1>1, <1>5, <1>10, <1>11, <2>1, ZeroingFour
<1> QED BY <1>12, <1>14, <1>15

LEMMA PidFacts == Sound(SteerPid) /\ Zeroing(SteerPid) /\ ZeroedAt3(SteerPid)
<1> DEFINE a == PidFlags \o PidConfig \o PidEncoder
           z == InitZero(<<"steer">>)
           t == <<Live, Hold(One)>>
           h == <<Open>> \o z
           b == h \o t
           c == <<Zero(One)>>
           d == <<Shutdown>>
<1>1. /\ SteerPid.blocks = <<a, b, c, d>> /\ SteerPid.handler = <<>> /\ SteerPid.motors = One
  BY DEF SteerPid, Script
<1>2. a \in Seq(Of({"refuse", "confirm"})) /\ Len(a) = 4
  BY PidFirst
<1>3. /\ t \in Seq(Of(Driving)) /\ Len(t) = 2 /\ t \in Seq(Owning(SteerPid))
  BY <1>1, Plain DEF Of, Driving, Kinds, Owning
<1>4. /\ <<Open>> \in Seq(But("init")) /\ <<Open>> \in Seq(Of(SettingUp))
      /\ <<Open>> \in Seq(But("hold")) /\ Len(<<Open>>) = 1
  BY Plain DEF But, Of, SettingUp, Kinds
<1>5. c \in Seq(Of(Closing)) /\ Len(c) = 1 /\ Len(d) = 1 /\ Leaves(d)
  BY Plain, Leavings DEF Of, Closing
<1>6. <<"steer">> \in Seq(Motors) /\ Len(<<"steer">>) = 1
  BY BothMotors
<1> HIDE DEF t, a, d
<1>7. z \in Seq(Of({"init", "zero"})) /\ Paired(z) /\ Len(z) = 2 * Len(<<"steer">>)
  BY <1>6, InitZeroShape
<1> HIDE DEF z
<1>8. z \in Seq(StepT) /\ z \in Seq(Of(SettingUp)) /\ z \in Seq(But("hold"))
  BY <1>7, Wider DEF SettingUp, But, Kinds
<1>9. /\ h \in Seq(Of(SettingUp)) /\ Paired(h) /\ Len(h) = Len(<<Open>>) + Len(z)
      /\ h \in Seq(But("hold")) /\ h[1] = Open
  <2>1. h \in Seq(Of(SettingUp)) /\ Len(h) = Len(<<Open>>) + Len(z) /\ h \in Seq(But("hold"))
    BY <1>4, <1>8, Joined
  <2>2. Paired(h)
    BY <1>4, <1>7, <1>8, ThenPaired
  <2>3. h[1] = <<Open>>[1]
    BY <1>4, <1>8, Joined
  <2> QED BY <2>1, <2>2, <2>3
<1> HIDE DEF h
<1>10. /\ b \in Seq(Of(SettingUp)) /\ Paired(b) /\ Len(b) = Len(h) + Len(t)
       /\ b \in Seq(Owning(SteerPid)) /\ b[1] = Open
  <2>1. b \in Seq(Of(SettingUp)) /\ Paired(b) /\ Len(b) = Len(h) + Len(t)
    BY <1>3, <1>9, Extended
  <2>2. b \in Seq(Owning(SteerPid))
    BY <1>3, <1>9, OwnsButHold, OwnsJoined
  <2>3. t \in Seq(Of(SettingUp)) /\ 1 \in 1..Len(h)
    BY <1>3, <1>4, <1>6, <1>7, <1>9, Wider DEF Driving, SettingUp
  <2>4. b[1] = h[1]
    BY <1>9, <2>3, Joined
  <2> QED BY <1>9, <2>1, <2>2, <2>4
<1> HIDE DEF b
<1>11. Len(a) <= 11 /\ Len(b) <= 11 /\ Len(b) >= 1 /\ Len(c) <= 11 /\ Len(d) <= 11
  BY <1>2, <1>3, <1>4, <1>5, <1>6, <1>7, <1>9, <1>10
<1>12. b \in Seq(StepT) /\ b \in Seq(But("trap")) /\ b \in Seq(But("shutdown"))
  BY <1>10, Wider DEF SettingUp, But, Kinds
<1>13. /\ a \in Seq(But("hold")) /\ a \in Seq(But("trap")) /\ a \in Seq(Of(Opening))
       /\ a \in Seq(StepT)
  BY <1>2, Wider DEF But, Opening, Kinds
<1>14. SteerPid.motors \in SUBSET Motors
  BY <1>1, Plain
<1>15. ZeroedAt3(SteerPid)
  <2>1. a \in Seq(Owning(SteerPid))
    BY <1>13, OwnsButHold
  <2>2. SteerPid.blocks = <<a, b, <<Zero(SteerPid.motors)>>, d>>
    BY <1>1
  <2> QED BY <1>1, <1>5, <1>10, <1>14, <2>1, <2>2, FourOwning
<1> HIDE DEF c
<1>16. Sound(SteerPid)
  BY <1>1, <1>5, <1>11, <1>12, <1>13, <1>14, FourBlocks
<1>17. Zeroing(SteerPid)
  BY <1>1, <1>5, <1>10, <1>11, <1>12, <1>13, ZeroingFour
<1> QED BY <1>15, <1>16, <1>17

LEMMA ScriptsSound == \A t \in DOMAIN Scripts : Sound(Scripts[t])
BY TuneSound, ExamplesSound, SpinFacts, SpinSequentialFacts, SlipSound, DecodeFacts,
   ProbeSound, JoystickSound, StressFacts, PidFacts DEF Scripts

LEMMA ScriptsZeroing ==
  /\ \A t \in ZeroesFirst : Zeroing(Scripts[t])
  /\ \A t \in {"pid", "stress"} : ZeroedAt3(Scripts[t])
  /\ All(Scripts["decode"], But("hold"))
BY SpinFacts, SpinSequentialFacts, DecodeFacts, StressFacts, PidFacts DEF Scripts, ZeroesFirst

LEMMA Place ==
  ASSUME TypeOK, Running
  PROVE  /\ Sound(S) /\ block \in 1..Len(S.blocks) /\ Len(S.blocks) \in Nat
         /\ Steps \in Seq(StepT) /\ Len(Steps) \in Nat /\ Len(Steps) <= 11
         /\ S.blocks[block] \in Seq(StepT)
         /\ handling => Steps = S.handler
         /\ ~handling => Steps = S.blocks[block]
<1>1. Sound(S)
  BY ScriptsSound, ToolsAssumption DEF TypeOK, S
<1>2. S.blocks \in Seq(Seq(StepT)) /\ Len(S.blocks) \in Nat /\ block \in 1..Len(S.blocks)
  BY <1>1 DEF Sound, Shape, TypeOK, Running
<1>3. S.blocks[block] \in Seq(StepT) /\ Len(S.blocks[block]) <= 11
  BY <1>1, <1>2, ElementOfSeq DEF Sound, Shape
<1>4. S.handler \in Seq(StepT) /\ Len(S.handler) <= 11
  BY <1>1, Wider DEF Sound, Shape, Closing, Kinds
<1> QED BY <1>1, <1>2, <1>3, <1>4, LenProperties DEF Steps

LEMMA AtPlace ==
  ASSUME TypeOK, NEW k, At(k)
  PROVE  Running /\ step \in 1..Len(Steps) /\ step + 1 \in 1..12 /\ Steps[step] \in StepT
<1>1. Running /\ step <= Len(Steps) /\ step \in 1..12
  BY DEF At, TypeOK
<1>2. Steps \in Seq(StepT) /\ Len(Steps) \in Nat /\ Len(Steps) <= 11
  BY <1>1, Place
<1> QED BY <1>1, <1>2, ElementOfSeq

LEMMA AdvanceType ==
  ASSUME TypeOK, NEW k, At(k), Advance
  PROVE  /\ tool' \in Tools /\ block' \in 0..Len(S'.blocks) /\ step' \in 1..12
         /\ todo' \subseteq Motors /\ trapped' \in {"python", "handler", "nobody"}
         /\ handling' \in BOOLEAN /\ ending' \in {"-", "refused", "error", "interrupted", "cut"}
BY AtPlace DEF TypeOK, Advance, S

LEMMA RaiseType ==
  ASSUME TypeOK, Running, NEW how \in {"refused", "error", "interrupted"}, Raise(how)
  PROVE  /\ tool' \in Tools /\ block' \in 0..Len(S'.blocks) /\ step' \in 1..12
         /\ todo' \subseteq Motors /\ trapped' \in {"python", "handler", "nobody"}
         /\ handling' \in BOOLEAN /\ ending' \in {"-", "refused", "error", "interrupted", "cut"}
<1>1. Len(S.blocks) \in Nat /\ block \in 1..Len(S.blocks)
  BY Place
<1>2. tool' = tool /\ block' \in 0..Len(S.blocks) /\ step' = 1 /\ handling' = FALSE
  BY <1>1 DEF Raise, Unwind, Enter
<1>3. S' = S
  BY <1>2 DEF S
<1>4. ending' \in {"-", "refused", "error", "interrupted", "cut"}
  BY DEF Raise
<1>5. block' \in 0..Len(S'.blocks)
  BY <1>2, <1>3
<1>6. tool' \in Tools /\ todo' \subseteq Motors /\ trapped' \in {"python", "handler", "nobody"}
  BY <1>2 DEF TypeOK, Raise
<1>7. step' \in 1..12
  BY <1>2
<1>8. handling' \in BOOLEAN
  BY <1>2
<1> QED BY <1>4, <1>5, <1>6, <1>7, <1>8

LEMMA TypeStep == TypeOK /\ [Next]_vars => TypeOK'
<1> SUFFICES ASSUME TypeOK, [Next]_vars PROVE TypeOK'
  OBVIOUS
<1>0. CASE UNCHANGED vars
  BY <1>0 DEF TypeOK, vars, place, wire, faults, S
<1>1. CASE BlockEnds
  <2>1. Len(S.blocks) \in Nat /\ block \in 1..Len(S.blocks)
    BY <1>1, Place DEF BlockEnds
  <2>2. tool' = tool /\ block' \in 0..Len(S.blocks) /\ step' = 1 /\ handling' = FALSE
    BY <1>1, <2>1 DEF BlockEnds, Unwind, Enter
  <2>3. S' = S
    BY <2>2 DEF S
  <2>4. ending' \in {"-", "refused", "error", "interrupted", "cut"}
    BY <1>1 DEF BlockEnds, TypeOK
  <2>5. block' \in 0..Len(S'.blocks)
    BY <2>2, <2>3
  <2>6. tool' \in Tools /\ step' \in 1..12
    BY <2>2 DEF TypeOK
  <2>7. handling' \in BOOLEAN
    BY <2>2
  <2> QED BY <1>1, <2>4, <2>5, <2>6, <2>7 DEF TypeOK, BlockEnds, wire, faults
<1>2. CASE Gate
  <2>1. PICK k : At(k) /\ (Advance \/ Raise("refused"))
    BY <1>2 DEF Gate
  <2> QED BY <1>2, <2>1, AdvanceType, RaiseType, AtPlace DEF Gate, TypeOK, wire, faults
<1>3. CASE Waits
  BY <1>3, AdvanceType DEF Waits, TypeOK, wire, faults
<1>4. CASE Signals
  <2>1. step + 1 \in 1..12
    BY <1>4, AtPlace DEF Signals
  <2> QED BY <1>4, <2>1 DEF Signals, TypeOK, wire, faults, S
<1>5. CASE Opens
  BY <1>5, AdvanceType DEF Opens, TypeOK, faults
<1>6. CASE Inits
  <2>1. Steps[step].on \subseteq Motors
    BY <1>6, AtPlace DEF Inits, StepT
  <2>2. registered' \subseteq Motors
    BY <1>6, <2>1 DEF Inits, TypeOK
  <2>3. CASE Advance
    BY <1>6, <2>2, <2>3, AdvanceType DEF Inits, TypeOK, faults
  <2>4. CASE UNCHANGED <<place, ending>>
    BY <1>6, <2>2, <2>4 DEF Inits, TypeOK, faults, place, S
  <2> QED BY <1>6, <2>3, <2>4 DEF Inits
<1>7. CASE Zeroes
  <2>1. CASE Advance /\ UNCHANGED <<setpoint, faults>>
    BY <1>7, <2>1, AdvanceType DEF Zeroes, TypeOK, faults
  <2>2. CASE \E m \in (Steps[step].on \cap registered) \ todo :
            /\ Sends(m, "zero") /\ todo' = todo \cup {m}
            /\ UNCHANGED <<tool, block, step, trapped, handling, ending>>
    BY <1>7, <2>2, BoundsAssumption DEF Zeroes, Sends, TypeOK, faults, S
  <2> QED BY <1>7, <2>1, <2>2 DEF Zeroes
<1>8. CASE Holds
  <2>1. CASE Advance /\ UNCHANGED <<setpoint, faults>>
    BY <1>8, <2>1, AdvanceType DEF Holds, TypeOK, faults
  <2>2. CASE UNCHANGED <<place, ending>> /\ \E m \in registered : Sends(m, "run") \/ Sends(m, "zero")
    BY <1>8, <2>2, BoundsAssumption DEF Holds, Sends, TypeOK, faults, place, S
  <2> QED BY <1>8, <2>1, <2>2 DEF Holds
<1>9. CASE ShutsDown
  <2>1. CASE Advance
    BY <1>9, <2>1, AdvanceType DEF ShutsDown, TypeOK, faults, ZeroAll
  <2>2. CASE setpoint' = ZeroAll(setpoint) /\ todo' = Motors
             /\ UNCHANGED <<bus, tool, block, step, trapped, handling, ending>>
    BY <1>9, <2>2 DEF ShutsDown, TypeOK, faults, ZeroAll, S
  <2> QED BY <1>9, <2>1, <2>2 DEF ShutsDown
<1>10. CASE Sigint
  <2>1. CASE Raise("interrupted")
    <3>1. Running
      BY <1>10 DEF Sigint
    <3>2. sigints' \in 0..MaxSigints /\ UNCHANGED <<wire, runs, errors, lost>>
      BY <1>10, BoundsAssumption DEF Sigint, TypeOK
    <3> QED BY <2>1, <3>1, <3>2, RaiseType DEF TypeOK, wire
  <2>2. CASE /\ handling' = TRUE /\ step' = 1 /\ todo' = {}
             /\ UNCHANGED <<tool, block, trapped, ending>>
    BY <1>10, <2>2, BoundsAssumption DEF Sigint, TypeOK, wire, S
  <2>3. CASE UNCHANGED <<place, ending>>
    BY <1>10, <2>3, BoundsAssumption DEF Sigint, TypeOK, wire, place, S
  <2> QED BY <1>10, <2>1, <2>2, <2>3 DEF Sigint
<1>11. CASE Error
  <2>1. Running
    BY <1>11 DEF Error, At
  <2> QED BY <1>11, <2>1, RaiseType, BoundsAssumption DEF Error, TypeOK, wire
<1>12. CASE Beat
  BY <1>12 DEF Beat, TypeOK, place, faults, S
<1>13. CASE Watchdog
  BY <1>13 DEF Watchdog, TypeOK, place, faults, S
<1>14. ASSUME NEW t \in Tools, RunNext(t) PROVE TypeOK'
  <2>1. Len(Scripts[t].blocks) >= 1 /\ Len(Scripts[t].blocks) \in Nat
    BY ScriptsSound, ToolsAssumption DEF Sound, Shape
  <2>2. S' = Scripts[t] /\ tool' = t /\ block' = 1 /\ step' = 1
    BY <1>14 DEF RunNext, S
  <2>3. block' \in 0..Len(S'.blocks)
    BY <2>1, <2>2
  <2>4. setpoint' \in [Motors -> {"zero", "run", "old"}] /\ runs' \in 0..MaxRuns
    BY <1>14, BoundsAssumption DEF RunNext, TypeOK
  <2>5. step' \in 1..12 /\ sigints' \in 0..MaxSigints
        /\ errors' \in 0..MaxErrors /\ lost' \in 0..MaxLost
    BY <1>14, BoundsAssumption DEF RunNext
  <2>6. handling' \in BOOLEAN
    BY <1>14 DEF RunNext
  <2> QED BY <1>14, <2>2, <2>3, <2>4, <2>5, <2>6 DEF RunNext, TypeOK
<1> QED BY <1>0, <1>1, <1>2, <1>3, <1>4, <1>5, <1>6, <1>7, <1>8, <1>9, <1>10, <1>11, <1>12, <1>13, <1>14
     DEF Next, Do

-----------------------------------------------------------------------------
(* The inductive invariants                                                *)

Troubles == sigints + errors + lost
Quiet == \A m \in Motors : setpoint[m] # "run"

\* A motor with a set point of this script is registered on an open bus; what
\* the two scripts with two finallys drive is what the first of these zeroes.
DrivenOpen == \A m \in Motors : setpoint[m] = "run" => bus = "open" /\ m \in registered
DrivenOwn ==
  tool \in {"pid", "stress"} => \A m \in Motors : setpoint[m] = "run" => m \in S.motors

\* shutdown has zeroed before it closes.
ShutZeroed == At("shutdown") /\ todo # {} => Quiet

\* A script drives nothing before its try, and has shut down at its end.
FirstQuiet == Guarded /\ block = 1 => Quiet
LeftShut == Guarded /\ block = Leave /\ ~handling /\ step > Len(Steps) => bus # "open"

\* So has its handler, where one is installed and the script drives.
HandlerShut ==
  Running /\ handling =>
    S.handler # <<>> /\ (step > Len(S.handler) /\ Leaves(S.handler) => bus # "open")
Trapped == Running /\ trapped = "handler" => S.handler # <<>>
StillQuiet == All(S, But("hold")) => Quiet

\* The first of two finallys has zeroed, while nothing has gone wrong.
TwiceZeroed ==
  tool \in {"pid", "stress"} /\ Troubles = 0 =>
    /\ block = Leave => Quiet
    /\ block = 3 => IF step = 1 THEN \A m \in todo : setpoint[m] # "run" ELSE Quiet

QuietInv ==
  /\ DrivenOpen /\ DrivenOwn /\ ShutZeroed /\ FirstQuiet /\ LeftShut /\ HandlerShut /\ Trapped
  /\ StillQuiet /\ TwiceZeroed /\ LeftQuiet

\* Before the try nothing is registered; the bus is open before anything is.
Unregistered == tool \in ZeroesFirst /\ block = 1 => registered = {}
OpenFirst == Len(S.blocks[2]) >= 1 /\ S.blocks[2][1].do = "open"
OpenedFirst ==
  tool \in ZeroesFirst /\ ~handling =>
    /\ block = 1 /\ step > Len(Steps) => (bus = "open" \/ OpenFirst)
    /\ block = 2 => bus = "open" \/ (step = 1 /\ OpenFirst)

\* A registered motor with an old set point is the one being registered or zeroed.
OldIsNext ==
  tool \in ZeroesFirst /\ lost = 0 /\ block = 2 /\ ~handling =>
    \A m \in registered : setpoint[m] = "old" =>
      /\ step <= Len(Steps) /\ m \in Steps[step].on
      /\ Steps[step].do = "init" \/ (Steps[step].do = "zero" /\ m \notin todo)

OldInv == Unregistered /\ OpenedFirst /\ OldIsNext

-----------------------------------------------------------------------------
(* Every step keeps them                                                   *)

LEMMA NoMore ==
  ASSUME TypeOK
  PROVE  Troubles \in Nat /\ sigints \in Nat /\ errors \in Nat /\ lost \in Nat
BY BoundsAssumption DEF TypeOK, Troubles

\* Only zero, shutdown and ignore stand in a handler and in the last finally.
LEMMA Working ==
  ASSUME TypeOK, NEW k, At(k), k \notin Closing
  PROVE  ~handling /\ Steps = S.blocks[block] /\ (Guarded => block # Leave)
<1>1. Running /\ step \in 1..Len(Steps) /\ Steps[step].do = k
  BY AtPlace DEF At
<1>2. Sound(S) /\ block \in 1..Len(S.blocks)
  BY <1>1, Place
<1>3. ~handling
  <2> SUFFICES ASSUME handling PROVE FALSE
    OBVIOUS
  <2>1. Steps \in Seq(Of(Closing))
    BY <1>1, <1>2, Place DEF Sound, Shape
  <2> QED BY <1>1, <2>1, ElementOfSeq DEF Of
<1>4. Steps = S.blocks[block]
  BY <1>1, <1>3, Place
<1>5. ASSUME Guarded, block = Leave PROVE FALSE
  <2>1. Steps \in Seq(Of(Closing))
    BY <1>2, <1>4, <1>5 DEF Sound, Guards, Guarded, Leave, Leaves
  <2> QED BY <1>1, <2>1, ElementOfSeq DEF Of
<1> QED BY <1>3, <1>4, <1>5

\* The two with a finally that only zeroes.
LEMMA TwoFinallys ==
  ASSUME tool \in {"pid", "stress"}
  PROVE  /\ Leave = 4 /\ Guarded /\ S.handler = <<>> /\ S.blocks[3] = <<Zero(S.motors)>>
         /\ All(S, Owning(S))
BY ScriptsZeroing DEF ZeroedAt3, Leave, S, Guarded

LEMMA DecodeStill == ASSUME tool = "decode" PROVE All(S, But("hold"))
BY ScriptsZeroing DEF S

LEMMA NotOpenQuiet == ASSUME DrivenOpen, bus # "open" PROVE Quiet
BY DEF DrivenOpen, Quiet

LEMMA Entering ==
  ASSUME TypeOK, QuietInv, Running, tool' = tool, trapped' = trapped, UNCHANGED wire,
         step' = 1, handling' = FALSE, todo' = {},
         block' = 0 \/ block' \in 2..Leave,
         block' = 0 /\ Guarded /\ Troubles' <= 1 => Quiet \/ (ending' = "cut" /\ tool \notin Doubled),
         tool \in {"pid", "stress"} /\ Troubles' = 0 => Troubles = 0 /\ (block' = Leave => Quiet)
  PROVE  QuietInv'
<1>1. /\ S' = S /\ Leave' = Leave /\ Quiet' = Quiet /\ bus' = bus
      /\ registered' = registered /\ setpoint' = setpoint
  BY DEF S, Leave, Quiet, wire
<1>2. Sound(S) /\ Len(S.blocks) \in Nat
  BY Place
<1>3. DrivenOpen' /\ DrivenOwn' /\ StillQuiet'
  BY <1>1 DEF QuietInv, DrivenOpen, DrivenOwn, StillQuiet, All
<1>4. ShutZeroed' /\ HandlerShut'
  BY DEF ShutZeroed, HandlerShut
<1>5. FirstQuiet'
  BY <1>2 DEF FirstQuiet, Leave
<1>6. LeftShut'
  <2> SUFFICES ASSUME Guarded', block' = Leave' PROVE Len(Steps') >= 1
    BY <1>1 DEF LeftShut
  <2>1. Guarded /\ block' = Leave
    BY <1>1 DEF Guarded
  <2>2. Steps' = S.blocks[Len(S.blocks)]
    BY <1>1, <2>1 DEF Steps, Leave
  <2> QED BY <1>2, <2>1, <2>2 DEF Sound, Guards, Guarded, Leave, Leaves
<1>7. Trapped'
  BY <1>1 DEF QuietInv, Trapped
<1>8. TwiceZeroed'
  BY <1>1 DEF TwiceZeroed
<1>9. LeftQuiet'
  BY <1>1 DEF LeftQuiet, Guarded, Running, Troubles, Quiet
<1> QED BY <1>3, <1>4, <1>5, <1>6, <1>7, <1>8, <1>9 DEF QuietInv

LEMMA BlockEndsQuiet ==
  ASSUME TypeOK, QuietInv, BlockEnds PROVE QuietInv'
<1>1. /\ Running /\ step > Len(Steps) /\ tool' = tool /\ trapped' = trapped /\ UNCHANGED wire
      /\ step' = 1 /\ handling' = FALSE /\ todo' = {} /\ Troubles' = Troubles
  BY DEF BlockEnds, Unwind, Enter, faults, Troubles
<1>2. Sound(S) /\ Leave \in Nat /\ block \in 1..Leave
  BY <1>1, Place DEF Leave
<1>3. /\ handling => block' = IF block > 1 /\ block < Leave THEN block + 1 ELSE 0
      /\ ~handling => block' = IF block < Leave THEN block + 1 ELSE 0
  BY DEF BlockEnds, Unwind, Enter, Leave
<1>4. block' = 0 \/ block' \in 2..Leave
  BY <1>2, <1>3
<1>5. CASE handling
  <2>1. S.handler # <<>> /\ Steps = S.handler /\ step > Len(S.handler)
    BY <1>1, <1>5, Place DEF QuietInv, HandlerShut
  <2>2. Leaves(S.handler) \/ All(S, But("hold"))
    BY <1>2, <2>1 DEF Sound, Handled
  <2>3. Quiet
    BY <1>1, <1>5, <2>1, <2>2, NotOpenQuiet DEF QuietInv, HandlerShut, StillQuiet
  <2>4. tool \notin {"pid", "stress"}
    BY <2>1, TwoFinallys
  <2> QED BY <1>1, <1>4, <2>3, <2>4, Entering
<1>6. CASE ~handling
  <2>1. block' = 0 /\ Guarded => Quiet
    <3> SUFFICES ASSUME block' = 0, Guarded PROVE Quiet
      OBVIOUS
    <3>1. block = Leave
      BY <1>2, <1>3, <1>6
    <3> QED BY <1>1, <1>6, <3>1, NotOpenQuiet DEF QuietInv, LeftShut
  <2>2. tool \in {"pid", "stress"} /\ Troubles = 0 /\ block' = Leave => Quiet
    <3> SUFFICES ASSUME tool \in {"pid", "stress"}, Troubles = 0, block' = Leave PROVE Quiet
      OBVIOUS
    <3>1. block = 3
      BY <1>2, <1>3, <1>6, TwoFinallys
    <3>2. Len(Steps) = 1
      <4>1. Steps = S.blocks[3]
        BY <1>1, <1>6, <3>1, Place
      <4>2. S.blocks[3] = <<Zero(S.motors)>>
        BY TwoFinallys
      <4> QED BY <4>1, <4>2
    <3>3. step # 1
      BY <1>1, <3>2
    <3> QED BY <3>1, <3>3 DEF QuietInv, TwiceZeroed
  <2> QED BY <1>1, <1>4, <2>1, <2>2, Entering
<1> QED BY <1>5, <1>6

LEMMA RaiseQuiet ==
  ASSUME TypeOK, QuietInv, Running, NEW how, Raise(how), UNCHANGED wire,
         \/ Troubles' = Troubles + 1
         \/ Troubles' = Troubles /\ \E k \in {"refuse", "confirm", "live"} : At(k)
  PROVE  QuietInv'
<1>1. /\ tool' = tool /\ trapped' = trapped /\ step' = 1 /\ handling' = FALSE /\ todo' = {}
  BY DEF Raise, Unwind, Enter
<1>2. Sound(S) /\ Leave \in Nat /\ block \in 1..Leave
  BY Place DEF Leave
<1>3. block' = IF block > 1 /\ block < Leave THEN block + 1 ELSE 0
  BY DEF Raise, Unwind, Enter, Leave
<1>4. block' = 0 \/ block' \in 2..Leave
  BY <1>2, <1>3
<1>5. Troubles \in Nat
  BY NoMore
<1>6. block' = 0 /\ Guarded /\ Troubles' <= 1 => Quiet \/ (ending' = "cut" /\ tool \notin Doubled)
  <2> SUFFICES ASSUME block' = 0, Guarded, Troubles' <= 1
               PROVE  Quiet \/ (ending' = "cut" /\ tool \notin Doubled)
    OBVIOUS
  <2>1. CASE block = 1
    BY <2>1 DEF QuietInv, FirstQuiet
  <2>2. CASE block # 1
    <3>1. block = Leave /\ block > 1
      BY <1>2, <1>3, <2>2
    <3>2. ending' = "cut"
      BY <3>1 DEF Raise
    <3>3. CASE tool = "decode"
      BY <3>3, DecodeStill DEF QuietInv, StillQuiet
    <3>4. CASE tool \in {"pid", "stress"}
      <4>1. Troubles' = Troubles + 1
        BY <3>1, Working DEF Closing
      <4>2. Troubles = 0
        BY <1>5, <4>1
      <4> QED BY <3>1, <3>4, <4>2 DEF QuietInv, TwiceZeroed
    <3> QED BY <3>2, <3>3, <3>4 DEF Doubled
  <2> QED BY <2>1, <2>2
<1>7. tool \in {"pid", "stress"} /\ Troubles' = 0 => Troubles = 0 /\ (block' = Leave => Quiet)
  <2> SUFFICES ASSUME tool \in {"pid", "stress"}, Troubles' = 0
               PROVE  Troubles = 0 /\ block' # Leave
    OBVIOUS
  <2>1. Troubles = 0
    BY <1>5
  <2>2. PICK k \in {"refuse", "confirm", "live"} : At(k)
    BY <1>5
  <2>3. ~handling /\ Steps = S.blocks[block] /\ step \in 1..Len(Steps) /\ Steps[step].do = k
    BY <2>2, Working, AtPlace DEF At, Closing
  <2>4. block # 3
    BY <2>3, TwoFinallys, Plain
  <2> QED BY <1>2, <1>3, <2>1, <2>4, TwoFinallys
<1> QED BY <1>1, <1>4, <1>6, <1>7, Entering

\* A step of the script is done and the next one comes.
LEMMA Advancing ==
  ASSUME TypeOK, QuietInv, NEW k, At(k),
         step' = step + 1, todo' = {}, UNCHANGED <<tool, block, handling, ending>>,
         trapped' \in {trapped, "nobody"} \/ k = "trap",
         Troubles' = Troubles,
         \A m \in Motors : setpoint'[m] = "run" => setpoint[m] = "run",
         DrivenOpen',
         k = "shutdown" => bus' # "open",
         k = "zero" => Steps[step].on \cap registered \subseteq todo
  PROVE  QuietInv'
<1>1. /\ S' = S /\ Leave' = Leave /\ Steps' = Steps /\ (Quiet => Quiet')
      /\ Guarded' = Guarded /\ Running' /\ Running
  BY AtPlace DEF S, Leave, Steps, Quiet, Guarded, Running
<1>2. Sound(S) /\ step \in 1..Len(Steps) /\ Steps[step].do = k /\ Len(Steps) \in Nat
  BY AtPlace, Place DEF At
<1>3. DrivenOwn' /\ StillQuiet' /\ FirstQuiet'
  BY <1>1 DEF QuietInv, DrivenOwn, StillQuiet, FirstQuiet, All
<1>4. ShutZeroed'
  BY DEF ShutZeroed
<1>5. LeftShut'
  <2> SUFFICES ASSUME Guarded, block = Leave, ~handling, step + 1 > Len(Steps) PROVE bus' # "open"
    BY <1>1 DEF LeftShut
  <2>1. step = Len(Steps) /\ Steps = S.blocks[Leave]
    BY <1>1, <1>2, Place
  <2>2. Steps[step].do = "shutdown"
    BY <1>2, <2>1 DEF Sound, Guards, Guarded, Leave, Leaves
  <2> QED BY <1>2, <2>2
<1>6. HandlerShut'
  <2> SUFFICES ASSUME handling
               PROVE  /\ S.handler # <<>>
                      /\ step + 1 > Len(S.handler) /\ Leaves(S.handler) => bus' # "open"
    BY <1>1 DEF HandlerShut
  <2>1. S.handler # <<>> /\ Steps = S.handler
    BY <1>1, Place DEF QuietInv, HandlerShut
  <2>2. step + 1 > Len(S.handler) => step = Len(S.handler)
    BY <1>2, <2>1
  <2> QED BY <1>2, <2>1, <2>2 DEF Leaves
<1>7. Trapped'
  <2>1. ASSUME k = "trap" PROVE S.handler # <<>>
    <3>1. Steps = S.blocks[block] /\ block \in 1..Len(S.blocks)
      BY <1>1, <2>1, Working, Place DEF Closing
    <3> SUFFICES ASSUME S.handler = <<>> PROVE FALSE
      OBVIOUS
    <3>2. Steps \in Seq(But("trap"))
      BY <1>2, <3>1 DEF Sound, Handled, All
    <3> QED BY <1>2, <2>1, <3>2, ElementOfSeq DEF But, Of
  <2> QED BY <1>1, <2>1 DEF QuietInv, Trapped
<1>8. TwiceZeroed'
  <2> SUFFICES ASSUME tool \in {"pid", "stress"}, Troubles = 0
               PROVE  /\ block = Leave => Quiet'
                      /\ block = 3 => step + 1 # 1 /\ Quiet'
    BY <1>1 DEF TwiceZeroed
  <2>1. block = Leave => Quiet'
    BY <1>1 DEF QuietInv, TwiceZeroed
  <2>2. ASSUME block = 3 PROVE Quiet'
    <3>1. ~handling
      BY <1>1, TwoFinallys DEF QuietInv, HandlerShut
    <3>2. Steps = S.blocks[3]
      BY <1>1, <2>2, <3>1, Place
    <3>3. Steps = <<Zero(S.motors)>>
      BY <3>2, TwoFinallys
    <3>4. step = 1
      BY <1>2, <3>3
    <3>5. Steps[step] = Zero(S.motors)
      BY <3>3, <3>4
    <3>6. S.motors \cap registered \subseteq todo
      BY <1>2, <3>5, Plain
    <3>7. \A m \in todo : setpoint[m] # "run"
      BY <2>2, <3>4 DEF QuietInv, TwiceZeroed
    <3>8. Quiet
      BY <3>6, <3>7 DEF QuietInv, DrivenOpen, DrivenOwn, Quiet
    <3> QED BY <1>1, <3>8
  <2> QED BY <1>2, <2>1, <2>2
<1>9. LeftQuiet'
  BY <1>1 DEF LeftQuiet
<1> QED BY <1>3, <1>4, <1>5, <1>6, <1>7, <1>8, <1>9 DEF QuietInv

\* The script stays in its step, or has ended, and nobody is told to run.
LEMMA Staying ==
  ASSUME TypeOK, QuietInv, UNCHANGED <<tool, block, step, trapped, handling, bus, ending>>,
         registered \subseteq registered',
         Troubles' \in Nat, Troubles' >= Troubles,
         \A m \in Motors : setpoint'[m] = "run" => setpoint[m] = "run",
         todo' = todo \/ At("zero") \/ (At("shutdown") /\ Quiet'),
         Troubles' = 0 => \A m \in todo' : m \in todo \/ setpoint'[m] # "run"
  PROVE  QuietInv'
<1>1. /\ S' = S /\ Leave' = Leave /\ Steps' = Steps /\ (Quiet => Quiet')
      /\ Guarded' = Guarded /\ Running' = Running
  BY DEF S, Leave, Steps, Quiet, Guarded, Running
<1>2. DrivenOpen' /\ DrivenOwn' /\ StillQuiet' /\ FirstQuiet'
  BY <1>1 DEF QuietInv, DrivenOpen, DrivenOwn, StillQuiet, FirstQuiet, All
<1>3. \A k : At(k)' <=> At(k)
  BY <1>1 DEF At
<1>4. ShutZeroed'
  BY <1>1, <1>3 DEF QuietInv, ShutZeroed, At
<1>5. LeftShut' /\ HandlerShut' /\ Trapped'
  BY <1>1 DEF QuietInv, LeftShut, HandlerShut, Trapped
<1>6. TwiceZeroed'
  <2>1. Troubles' = 0 => Troubles = 0
    BY NoMore
  <2>3. ASSUME Troubles' = 0, \A m \in todo : setpoint[m] # "run"
        PROVE  \A m \in todo' : setpoint'[m] # "run"
    BY <2>3 DEF TypeOK
  <2> QED BY <1>1, <2>1, <2>3 DEF QuietInv, TwiceZeroed
<1>7. LeftQuiet'
  <2>1. Troubles' <= 1 => Troubles <= 1
    BY NoMore
  <2> QED BY <1>1, <2>1 DEF QuietInv, LeftQuiet, Troubles, Quiet
<1> QED BY <1>2, <1>4, <1>5, <1>6, <1>7 DEF QuietInv

LEMMA HoldsQuiet == ASSUME TypeOK, QuietInv, Holds PROVE QuietInv'
<1>1. At("hold") /\ UNCHANGED <<bus, registered, armed, runs>>
  BY DEF Holds
<1>2. CASE Advance /\ UNCHANGED <<setpoint, faults>>
  <2>1. DrivenOpen' /\ Troubles' = Troubles
    BY <1>1, <1>2 DEF QuietInv, DrivenOpen, faults, Troubles
  <2> QED BY <1>1, <1>2, <2>1, Advancing DEF Advance
<1>3. ASSUME UNCHANGED <<place, ending>>, NEW m \in registered, Sends(m, "zero") PROVE QuietInv'
  <2>1. \A n \in Motors : setpoint'[n] = "run" => setpoint[n] = "run"
    BY <1>3 DEF Sends, TypeOK
  <2>2. Troubles' \in Nat /\ Troubles' >= Troubles
    BY <1>3, NoMore DEF Sends, Troubles, faults
  <2>3. \A n \in todo : n \in todo
    OBVIOUS
  <2> QED BY <1>1, <1>3, <2>1, <2>2, Staying DEF place
<1>4. ASSUME UNCHANGED <<place, ending>>, NEW m \in registered, m \in Steps[step].on,
             Sends(m, "run")
      PROVE  QuietInv'
  <2>1. /\ S' = S /\ Leave' = Leave /\ Steps' = Steps /\ Guarded' = Guarded
        /\ Running' = Running /\ Running
        /\ \A k : At(k)' <=> At(k)
    BY <1>1, <1>4, AtPlace DEF S, Leave, Steps, Guarded, Running, At, place
  <2>2. ~handling /\ Steps = S.blocks[block] /\ (Guarded => block # Leave)
    BY <1>1, Working DEF Closing
  <2>3. /\ step \in 1..Len(Steps) /\ Steps[step].do = "hold" /\ Sound(S)
        /\ block \in 1..Len(S.blocks)
    BY <1>1, <2>1, AtPlace, Place DEF At
  <2>4. DrivenOpen'
    BY <1>1, <1>4 DEF QuietInv, DrivenOpen, Sends, TypeOK
  <2>5. DrivenOwn'
    <3> SUFFICES ASSUME tool \in {"pid", "stress"}
                 PROVE  \A n \in Motors : setpoint'[n] = "run" => n \in S.motors
      BY <1>4, <2>1 DEF DrivenOwn, place
    <3>1. Steps \in Seq(Owning(S))
      BY <2>2, <2>3, TwoFinallys DEF All
    <3>2. Steps[step].on \subseteq S.motors
      BY <2>3, <3>1, ElementOfSeq DEF Owning
    <3> QED BY <1>4, <3>2 DEF QuietInv, DrivenOwn, Sends, TypeOK
  <2>6. ~(Guarded /\ block = 1)
    <3> SUFFICES ASSUME Guarded, block = 1 PROVE FALSE
      OBVIOUS
    <3>1. Steps \in Seq(But("hold"))
      BY <2>2, <2>3 DEF Sound, Guards, Guarded, Leave
    <3> QED BY <2>3, <3>1, ElementOfSeq DEF But, Of
  <2>7. ~All(S, But("hold"))
    <3> SUFFICES ASSUME All(S, But("hold")) PROVE FALSE
      OBVIOUS
    <3>1. Steps \in Seq(But("hold"))
      BY <2>2, <2>3 DEF All
    <3> QED BY <2>3, <3>1, ElementOfSeq DEF But, Of
  <2>8. ASSUME tool \in {"pid", "stress"} PROVE block # Leave /\ block # 3
    <3>1. block # Leave
      BY <2>2, <2>8, TwoFinallys
    <3>2. ASSUME block = 3 PROVE FALSE
      <4>1. Steps = <<Zero(S.motors)>>
        BY <2>2, <2>8, <3>2, TwoFinallys
      <4> QED BY <2>3, <4>1, Plain
    <3> QED BY <3>1, <3>2
  <2>9. FirstQuiet' /\ StillQuiet'
    BY <1>4, <2>1, <2>6, <2>7 DEF FirstQuiet, StillQuiet, All, place
  <2>10. TwiceZeroed'
    BY <1>4, <2>1, <2>8 DEF TwiceZeroed, place
  <2>11. ShutZeroed'
    BY <1>1, <2>1 DEF ShutZeroed, At
  <2>12. LeftShut' /\ HandlerShut' /\ Trapped'
    BY <1>1, <1>4, <2>1 DEF QuietInv, LeftShut, HandlerShut, Trapped, place
  <2>13. LeftQuiet'
    BY <2>1 DEF LeftQuiet
  <2> QED BY <2>4, <2>5, <2>9, <2>10, <2>11, <2>12, <2>13 DEF QuietInv
<1> QED BY <1>2, <1>3, <1>4 DEF Holds

LEMMA SigintQuiet == ASSUME TypeOK, QuietInv, Sigint PROVE QuietInv'
<1>1. Running /\ Troubles' = Troubles + 1 /\ UNCHANGED wire /\ Troubles \in Nat
  BY NoMore DEF Sigint, Troubles
<1>2. CASE Raise("interrupted")
  BY <1>1, <1>2, RaiseQuiet
<1>3. CASE /\ trapped = "handler" /\ handling' = TRUE /\ step' = 1 /\ todo' = {}
           /\ UNCHANGED <<tool, block, trapped, ending>>
  <2>1. S' = S /\ Leave' = Leave /\ Quiet' = Quiet /\ Guarded' = Guarded /\ Running' = Running
    BY <1>1, <1>3 DEF S, Leave, Quiet, Guarded, Running, wire
  <2>2. S.handler # <<>> /\ Sound(S)
    BY <1>1, <1>3, Place DEF QuietInv, Trapped
  <2>3. Len(S.handler) >= 1
    BY <2>2, EmptySeq DEF Sound, Shape
  <2>4. HandlerShut'
    BY <1>3, <2>1, <2>2, <2>3 DEF HandlerShut
  <2>5. Troubles' # 0
    BY <1>1
  <2>6. DrivenOpen' /\ DrivenOwn' /\ FirstQuiet' /\ StillQuiet'
    BY <1>1, <1>3, <2>1 DEF QuietInv, DrivenOpen, DrivenOwn, FirstQuiet, StillQuiet, All, wire
  <2>7. ShutZeroed' /\ LeftShut' /\ TwiceZeroed'
    BY <1>3, <2>5 DEF ShutZeroed, LeftShut, TwiceZeroed
  <2>8. Trapped' /\ LeftQuiet'
    BY <1>1, <1>3, <2>1, <2>2 DEF Trapped, LeftQuiet
  <2> QED BY <2>4, <2>6, <2>7, <2>8 DEF QuietInv
<1>4. CASE UNCHANGED <<place, ending>>
  <2>1. \A m \in Motors : setpoint'[m] = "run" => setpoint[m] = "run"
    BY <1>1 DEF wire
  <2>2. Troubles' \in Nat /\ Troubles' >= Troubles
    BY <1>1
  <2> QED BY <1>1, <1>4, <2>1, <2>2, Staying DEF place, wire
<1> QED BY <1>2, <1>3, <1>4 DEF Sigint, Raise

LEMMA RunNextQuiet == ASSUME TypeOK, NEW t \in Tools, RunNext(t) PROVE QuietInv'
<1>1. Quiet'
  BY DEF RunNext, Quiet
<1>2. /\ block' = 1 /\ step' = 1 /\ handling' = FALSE /\ todo' = {}
      /\ trapped' = "python" /\ Running'
  BY DEF RunNext, Running
<1>3. LeftShut'
  BY <1>2 DEF LeftShut, Guarded
<1>4. DrivenOpen' /\ DrivenOwn'
  BY <1>1 DEF DrivenOpen, DrivenOwn, Quiet
<1>5. TwiceZeroed'
  <2>1. Leave' # 1 \/ tool' \notin {"pid", "stress"}
    BY ScriptsZeroing DEF ZeroedAt3, Leave, S
  <2> QED BY <1>1, <1>2 DEF TwiceZeroed
<1>6. ShutZeroed' /\ FirstQuiet' /\ HandlerShut' /\ Trapped' /\ StillQuiet' /\ LeftQuiet'
  BY <1>1, <1>2 DEF ShutZeroed, FirstQuiet, HandlerShut, Trapped, StillQuiet, LeftQuiet
<1> QED BY <1>3, <1>4, <1>5, <1>6 DEF QuietInv

LEMMA QuietStep == ASSUME TypeOK, QuietInv, [Next]_vars PROVE QuietInv'
<1>0. CASE UNCHANGED vars
  <2>1. Troubles' = Troubles /\ Troubles \in Nat
    BY <1>0, NoMore DEF vars, faults, Troubles
  <2> QED BY <1>0, <2>1, Staying DEF vars, place, wire
<1>1. CASE BlockEnds
  BY <1>1, BlockEndsQuiet
<1>2. CASE Gate
  <2>1. PICK k \in {"refuse", "confirm", "live"} : At(k)
    BY <1>2 DEF Gate
  <2>2. Running /\ Troubles' = Troubles /\ UNCHANGED wire
    BY <1>2, <2>1, AtPlace DEF Gate, faults, Troubles
  <2>3. DrivenOpen'
    BY <2>2 DEF QuietInv, DrivenOpen, wire
  <2>4. CASE Advance
    BY <2>1, <2>2, <2>3, <2>4, Advancing DEF Advance, wire
  <2>5. CASE Raise("refused")
    BY <2>1, <2>2, <2>5, RaiseQuiet
  <2> QED BY <1>2, <2>4, <2>5 DEF Gate
<1>3. CASE Waits
  <2>1. DrivenOpen' /\ Troubles' = Troubles
    BY <1>3 DEF Waits, QuietInv, DrivenOpen, wire, faults, Troubles
  <2> QED BY <1>3, <2>1, Advancing DEF Waits, Advance, wire
<1>4. CASE Signals
  <2>1. DrivenOpen' /\ Troubles' = Troubles
    BY <1>4 DEF Signals, QuietInv, DrivenOpen, wire, faults, Troubles
  <2>2. PICK k \in {"trap", "ignore"} : At(k) /\ (trapped' = "nobody" \/ k = "trap")
    BY <1>4 DEF Signals
  <2> QED BY <1>4, <2>1, <2>2, Advancing DEF Signals, wire
<1>5. CASE Opens
  <2>1. DrivenOpen' /\ Troubles' = Troubles
    BY <1>5 DEF Opens, QuietInv, DrivenOpen, faults, Troubles
  <2> QED BY <1>5, <2>1, Advancing DEF Opens, Advance
<1>6. CASE Inits
  <2>1. Troubles' = Troubles /\ Troubles \in Nat
    BY <1>6, NoMore DEF Inits, faults, Troubles
  <2>2. CASE Advance /\ UNCHANGED registered
    <3>1. DrivenOpen'
      BY <1>6, <2>2 DEF Inits, QuietInv, DrivenOpen
    <3> QED BY <1>6, <2>1, <2>2, <3>1, Advancing DEF Inits, Advance
  <2>3. CASE UNCHANGED <<place, ending>> /\ registered \subseteq registered'
    BY <1>6, <2>1, <2>3, Staying DEF Inits, place
  <2> QED BY <1>6, <2>2, <2>3 DEF Inits
<1>7. CASE Zeroes
  <2>1. CASE /\ Advance /\ (Steps[step].on \cap registered) \ todo = {}
             /\ UNCHANGED <<setpoint, faults>>
    <3>1. DrivenOpen' /\ Troubles' = Troubles
      BY <1>7, <2>1 DEF Zeroes, QuietInv, DrivenOpen, faults, Troubles
    <3>2. Steps[step].on \cap registered \subseteq todo
      BY <2>1
    <3> QED BY <1>7, <2>1, <3>1, <3>2, Advancing DEF Zeroes, Advance
  <2>2. ASSUME NEW m \in (Steps[step].on \cap registered) \ todo,
               Sends(m, "zero"), todo' = todo \cup {m},
               UNCHANGED <<tool, block, step, trapped, handling, ending>>
        PROVE  QuietInv'
    <3>1. /\ \A n \in Motors : setpoint'[n] = "run" => setpoint[n] = "run"
      BY <2>2 DEF Sends, TypeOK
    <3>2. Troubles' \in Nat /\ Troubles' >= Troubles
      BY <2>2, NoMore DEF Sends, Troubles, faults
    <3>3. At("zero") /\ UNCHANGED <<bus, registered>>
      BY <1>7 DEF Zeroes
    <3>4. Troubles' = 0 => setpoint'[m] # "run"
      <4>1. CASE setpoint' = IF bus = "open" THEN [setpoint EXCEPT ![m] = "zero"] ELSE setpoint
        BY <1>7, <4>1 DEF QuietInv, DrivenOpen, TypeOK, Zeroes
      <4>2. CASE lost' = lost + 1 /\ UNCHANGED <<sigints, errors>>
        BY <4>2, NoMore DEF Troubles
      <4> QED BY <2>2, <4>1, <4>2 DEF Sends
    <3> QED BY <2>2, <3>1, <3>2, <3>3, <3>4, Staying
  <2> QED BY <1>7, <2>1, <2>2 DEF Zeroes
<1>8. CASE Holds
  BY <1>8, HoldsQuiet
<1>9. CASE ShutsDown
  <2>0. At("shutdown") /\ Troubles' = Troubles /\ Troubles \in Nat /\ UNCHANGED registered
    BY <1>9, NoMore DEF ShutsDown, faults, Troubles
  <2>1. CASE bus # "open" /\ Advance /\ UNCHANGED <<bus, setpoint>>
    <3>1. DrivenOpen'
      BY <2>0, <2>1 DEF QuietInv, DrivenOpen
    <3> QED BY <2>0, <2>1, <3>1, Advancing DEF Advance
  <2>2. CASE setpoint' = ZeroAll(setpoint) /\ todo' = Motors
             /\ UNCHANGED <<bus, tool, block, step, trapped, handling, ending>>
    <3>1. Quiet'
      BY <2>2 DEF QuietInv, DrivenOpen, ZeroAll, Quiet
    <3>2. \A m \in Motors : setpoint'[m] # "run"
      BY <3>1 DEF Quiet
    <3> QED BY <2>0, <2>2, <3>1, <3>2, Staying
  <2>3. CASE todo # {} /\ bus' = "closed" /\ Advance /\ UNCHANGED setpoint
    <3>1. Quiet
      BY <2>0, <2>3 DEF QuietInv, ShutZeroed
    <3>2. DrivenOpen'
      BY <2>3, <3>1 DEF DrivenOpen, Quiet
    <3> QED BY <2>0, <2>3, <3>2, Advancing DEF Advance
  <2> QED BY <1>9, <2>1, <2>2, <2>3 DEF ShutsDown
<1>10. CASE Sigint
  BY <1>10, SigintQuiet
<1>11. CASE Error
  <2>1. Running /\ Troubles' = Troubles + 1 /\ UNCHANGED wire
    BY <1>11, NoMore DEF Error, At, Troubles
  <2> QED BY <1>11, <2>1, RaiseQuiet DEF Error
<1>12. CASE Beat
  <2>1. Troubles' = Troubles /\ Troubles \in Nat
    BY <1>12, NoMore DEF Beat, faults, Troubles
  <2> QED BY <1>12, <2>1, Staying DEF Beat, place
<1>13. CASE Watchdog
  <2>1. Troubles' = Troubles /\ Troubles \in Nat
    BY <1>13, NoMore DEF Watchdog, faults, Troubles
  <2> QED BY <1>13, <2>1, Staying DEF Watchdog, place
<1>14. ASSUME NEW t \in Tools, RunNext(t) PROVE QuietInv'
  BY <1>14, RunNextQuiet
<1> QED BY <1>0, <1>1, <1>2, <1>3, <1>4, <1>5, <1>6, <1>7, <1>8, <1>9, <1>10, <1>11, <1>12, <1>13, <1>14
     DEF Next, Do

LEMMA ZeroingHere == ASSUME tool \in ZeroesFirst PROVE Zeroing(S)
BY ScriptsZeroing DEF S

LEMMA OldElsewhere == ASSUME block' # 1, block' # 2 PROVE OldInv'
BY DEF OldInv, Unregistered, OpenedFirst, OldIsNext

LEMMA OldAdvancing ==
  ASSUME TypeOK, OldInv, NEW k, At(k),
         step' = step + 1, todo' = {}, UNCHANGED <<tool, block, handling, registered, setpoint, lost>>,
         bus' = IF k = "open" THEN "open" ELSE IF k = "shutdown" THEN bus' ELSE bus,
         k = "init" => Steps[step].on \subseteq registered,
         k = "zero" => Steps[step].on \cap registered \subseteq todo
  PROVE  OldInv'
<1>1. S' = S /\ Steps' = Steps /\ OpenFirst' = OpenFirst
  BY DEF S, Steps, OpenFirst
<1>2. /\ Running /\ step \in 1..Len(Steps) /\ Steps[step].do = k /\ Len(Steps) \in Nat
      /\ ~handling => Steps = S.blocks[block]
  BY AtPlace, Place DEF At
<1>3. Unregistered'
  BY DEF OldInv, Unregistered
<1> SUFFICES ASSUME tool \in ZeroesFirst, ~handling PROVE OpenedFirst' /\ OldIsNext'
  BY <1>3 DEF OldInv, OpenedFirst, OldIsNext
<1>4. Zeroing(S)
  BY ZeroingHere
<1>5. ASSUME block = 1, step + 1 > Len(Steps) PROVE bus' = "open" \/ OpenFirst
  <2>1. step = Len(Steps) /\ Steps = S.blocks[1]
    BY <1>2, <1>5
  <2>2. k = "open" \/ OpenFirst
    BY <1>2, <1>4, <2>1 DEF Zeroing, OpenFirst
  <2> QED BY <2>2
<1>6. ASSUME block = 2 PROVE bus' = "open" /\ Paired(Steps)
  <2>1. Steps = S.blocks[2] /\ k # "shutdown" /\ Paired(Steps)
    <3>1. Steps = S.blocks[2]
      BY <1>2, <1>6
    <3>2. Steps \in Seq(But("shutdown")) /\ Paired(Steps)
      BY <1>4, <3>1 DEF Zeroing
    <3> QED BY <1>2, <3>1, <3>2, ElementOfSeq DEF But, Of
  <2>2. CASE bus = "open"
    BY <2>1, <2>2
  <2>3. CASE step = 1 /\ OpenFirst
    BY <1>2, <2>1, <2>3 DEF OpenFirst
  <2> QED BY <1>6, <2>1, <2>2, <2>3 DEF OldInv, OpenedFirst
<1>7. OpenedFirst'
  BY <1>1, <1>5, <1>6 DEF OpenedFirst
<1>8. OldIsNext'
  <2> SUFFICES ASSUME lost = 0, block = 2, NEW m \in registered, setpoint[m] = "old"
               PROVE  /\ step + 1 <= Len(Steps) /\ m \in Steps[step + 1].on
                      /\ Steps[step + 1].do = "zero"
    BY <1>1 DEF OldIsNext
  <2>1. m \in Steps[step].on /\ (k = "init" \/ (k = "zero" /\ m \notin todo))
    BY <1>2 DEF OldInv, OldIsNext
  <2>2. k = "init"
    BY <2>1
  <2> QED BY <1>2, <1>6, <2>1, <2>2 DEF Paired
<1> QED BY <1>7, <1>8

LEMMA OldStaying ==
  ASSUME TypeOK, OldInv, UNCHANGED <<tool, block, step, handling, bus>>, Unregistered',
         \A m \in registered' :
           tool \in ZeroesFirst /\ lost' = 0 /\ block = 2 /\ ~handling /\ setpoint'[m] = "old" =>
             /\ step <= Len(Steps) /\ m \in Steps[step].on
             /\ Steps[step].do = "init" \/ (Steps[step].do = "zero" /\ m \notin todo')
  PROVE  OldInv'
<1>1. S' = S /\ Steps' = Steps /\ OpenFirst' = OpenFirst
  BY DEF S, Steps, OpenFirst
<1> QED BY <1>1 DEF OldInv, OpenedFirst, OldIsNext

LEMMA OldStep == ASSUME TypeOK, OldInv, [Next]_vars PROVE OldInv'
<1>0. CASE UNCHANGED vars
  BY <1>0, OldStaying DEF vars, place, wire, faults, OldInv, Unregistered, OldIsNext
<1>1. CASE BlockEnds
  <2>1. /\ tool' = tool /\ step' = 1 /\ handling' = FALSE /\ UNCHANGED <<wire, faults>> /\ Running
        /\ step > Len(Steps)
    BY <1>1 DEF BlockEnds, Unwind, Enter
  <2>2. block \in 1..Leave /\ Leave \in Nat
    BY <2>1, Place DEF Leave
  <2>3. block' \in {0, block + 1} /\ (handling /\ block = 1 => block' = 0)
    BY <1>1 DEF BlockEnds, Unwind, Enter
  <2>4. CASE block = 1 /\ ~handling /\ tool \in ZeroesFirst /\ block' = 2
    <3>1. registered' = {}
      BY <2>1, <2>4 DEF OldInv, Unregistered, wire
    <3>2. (bus = "open" \/ OpenFirst) /\ OpenFirst' = OpenFirst
      BY <2>1, <2>4 DEF OldInv, OpenedFirst, OpenFirst, S
    <3> QED BY <2>1, <2>4, <3>1, <3>2 DEF OldInv, OpenedFirst, OldIsNext, Unregistered, wire
  <2>5. CASE tool \notin ZeroesFirst
    BY <2>1, <2>5 DEF OldInv, Unregistered, OpenedFirst, OldIsNext
  <2>6. CASE block' # 2
    BY <2>2, <2>3, <2>6, OldElsewhere
  <2> QED BY <2>2, <2>3, <2>4, <2>5, <2>6
<1>2. ASSUME Running, NEW how, Raise(how) PROVE OldInv'
  <2>1. block \in 1..Leave /\ Leave \in Nat
    BY <1>2, Place DEF Leave
  <2>2. block' = 0 \/ block' > 2
    BY <1>2, <2>1 DEF Raise, Unwind, Enter
  <2> QED BY <2>2, OldElsewhere
<1>3. CASE Gate
  <2>1. PICK k \in {"refuse", "confirm", "live"} : At(k)
    BY <1>3 DEF Gate
  <2>2. CASE Advance
    BY <1>3, <2>1, <2>2, OldAdvancing DEF Gate, Advance, wire, faults
  <2>3. Running
    BY <2>1, AtPlace
  <2> QED BY <1>2, <1>3, <2>2, <2>3 DEF Gate
<1>4. CASE Waits
  BY <1>4, OldAdvancing DEF Waits, Advance, wire, faults
<1>5. CASE Signals
  <2>1. PICK k \in {"trap", "ignore"} : At(k)
    BY <1>5 DEF Signals
  <2> QED BY <1>5, <2>1, OldAdvancing DEF Signals, wire, faults
<1>6. CASE Opens
  BY <1>6, OldAdvancing DEF Opens, Advance, faults
<1>7. CASE Inits
  <2>0. At("init") /\ UNCHANGED <<bus, armed, setpoint, runs, faults>>
    BY <1>7 DEF Inits
  <2>1. CASE Advance /\ UNCHANGED registered /\ Steps[step].on \ registered = {}
    <3>1. Steps[step].on \subseteq registered
      BY <2>1
    <3> QED BY <2>0, <2>1, <3>1, OldAdvancing DEF Advance, faults
  <2>2. ASSUME NEW n \in Steps[step].on, registered' = registered \cup {n}, UNCHANGED <<place, ending>>
        PROVE  OldInv'
    <3>1. /\ ~handling /\ Steps = S.blocks[block] /\ step \in 1..Len(Steps)
          /\ Steps[step].do = "init"
      BY <2>0, Working, AtPlace DEF At, Closing
    <3>2. ~(tool \in ZeroesFirst /\ block = 1)
      <4> SUFFICES ASSUME tool \in ZeroesFirst, block = 1 PROVE FALSE
        OBVIOUS
      <4>1. Steps \in Seq(Of(Opening))
        BY <3>1, ZeroingHere DEF Zeroing
      <4> QED BY <3>1, <4>1, ElementOfSeq DEF Of, Opening
    <3>3. Unregistered'
      BY <2>2, <3>2 DEF Unregistered, place
    <3>4. step <= Len(Steps)
      BY <3>1, <2>0 DEF At
    <3> QED BY <2>0, <2>2, <3>1, <3>3, <3>4, OldStaying DEF place, faults, OldInv, OldIsNext
  <2> QED BY <1>7, <2>1, <2>2 DEF Inits
<1>8. CASE Zeroes
  <2>0. At("zero") /\ UNCHANGED <<bus, registered, armed, runs>>
    BY <1>8 DEF Zeroes
  <2>1. CASE /\ Advance /\ (Steps[step].on \cap registered) \ todo = {}
             /\ UNCHANGED <<setpoint, faults>>
    <3>1. Steps[step].on \cap registered \subseteq todo
      BY <2>1
    <3> QED BY <2>0, <2>1, <3>1, OldAdvancing DEF Advance, faults
  <2>2. ASSUME NEW n \in (Steps[step].on \cap registered) \ todo,
               Sends(n, "zero"), todo' = todo \cup {n},
               UNCHANGED <<tool, block, step, trapped, handling, ending>>
        PROVE  OldInv'
    <3>1. Unregistered'
      BY <2>0, <2>2 DEF OldInv, Unregistered
    <3>2. ASSUME tool \in ZeroesFirst, lost' = 0, block = 2, ~handling
          PROVE  lost = 0 /\ setpoint' = [setpoint EXCEPT ![n] = "zero"]
      <4>1. setpoint' = (IF bus = "open" THEN [setpoint EXCEPT ![n] = "zero"] ELSE setpoint) /\ lost' = lost
        BY <2>2, <3>2, NoMore DEF Sends, faults
      <4>2. Steps = S.blocks[2] /\ Steps[step].do = "zero"
        BY <2>0, <3>2, AtPlace, Place DEF At
      <4>3. bus = "open"
        BY <3>2, <4>2 DEF OldInv, OpenedFirst, OpenFirst
      <4> QED BY <3>2, <4>1, <4>3
    <3>3. \A m \in registered' :
           tool \in ZeroesFirst /\ lost' = 0 /\ block = 2 /\ ~handling /\ setpoint'[m] = "old" =>
             /\ step <= Len(Steps) /\ m \in Steps[step].on
             /\ Steps[step].do = "init" \/ (Steps[step].do = "zero" /\ m \notin todo')
      BY <2>0, <2>2, <3>2 DEF OldInv, OldIsNext, TypeOK
    <3> QED BY <2>0, <2>2, <3>1, <3>3, OldStaying
  <2> QED BY <1>8, <2>1, <2>2 DEF Zeroes
<1>9. CASE Holds
  <2>0. At("hold") /\ UNCHANGED <<bus, registered, armed, runs>>
    BY <1>9 DEF Holds
  <2>1. CASE Advance /\ UNCHANGED <<setpoint, faults>>
    BY <2>0, <2>1, OldAdvancing DEF Advance, faults
  <2>2. ASSUME NEW n \in registered, NEW v \in {"run", "zero"}, Sends(n, v), UNCHANGED <<place, ending>>
        PROVE  OldInv'
    <3>1. Unregistered'
      BY <2>0, <2>2 DEF OldInv, Unregistered, place
    <3>2. lost' = 0 => lost = 0
      BY <2>2, NoMore DEF Sends, faults
    <3>3. \A m \in registered : setpoint'[m] = "old" => setpoint[m] = "old"
      BY <2>2 DEF Sends, TypeOK
    <3> QED BY <2>0, <2>2, <3>1, <3>2, <3>3, OldStaying DEF place, OldInv, OldIsNext
  <2> QED BY <1>9, <2>1, <2>2 DEF Holds
<1>10. CASE ShutsDown
  <2>0. At("shutdown") /\ UNCHANGED <<registered, armed, runs, faults>>
    BY <1>10 DEF ShutsDown
  <2>1. CASE Advance /\ UNCHANGED setpoint
    BY <2>0, <2>1, OldAdvancing DEF Advance, faults
  <2>2. CASE setpoint' = ZeroAll(setpoint) /\ todo' = Motors
             /\ UNCHANGED <<bus, tool, block, step, trapped, handling, ending>>
    <3>1. Unregistered'
      BY <2>0, <2>2 DEF OldInv, Unregistered
    <3>2. \A m \in registered : setpoint'[m] # "old"
      BY <2>2 DEF ZeroAll, TypeOK
    <3> QED BY <2>0, <2>2, <3>1, <3>2, OldStaying
  <2> QED BY <1>10, <2>1, <2>2 DEF ShutsDown
<1>11. CASE Sigint
  <2>0. Running /\ UNCHANGED <<wire, lost>>
    BY <1>11 DEF Sigint
  <2>1. CASE Raise("interrupted")
    BY <1>2, <2>0, <2>1
  <2>2. CASE handling' = TRUE /\ UNCHANGED <<tool, block>>
    BY <2>0, <2>2 DEF OldInv, Unregistered, OpenedFirst, OldIsNext, wire
  <2>3. CASE UNCHANGED <<place, ending>>
    BY <2>0, <2>3, OldStaying DEF place, wire, OldInv, Unregistered, OldIsNext
  <2> QED BY <1>11, <2>1, <2>2, <2>3 DEF Sigint
<1>12. CASE Error
  <2>1. Running
    BY <1>12, AtPlace DEF Error
  <2> QED BY <1>2, <1>12, <2>1 DEF Error
<1>13. CASE Beat
  BY <1>13, OldStaying DEF Beat, place, faults, OldInv, Unregistered, OldIsNext
<1>14. CASE Watchdog
  BY <1>14, OldStaying DEF Watchdog, place, faults, OldInv, Unregistered, OldIsNext
<1>15. ASSUME NEW t \in Tools, RunNext(t) PROVE OldInv'
  <2>1. block' = 1 /\ step' = 1 /\ handling' = FALSE /\ registered' = {} /\ tool' = t
    BY <1>15 DEF RunNext
  <2>2. t \in ZeroesFirst => OpenFirst' \/ Len(Steps') >= 1
    <3>1. Steps' = S'.blocks[1] /\ S' = Scripts[t]
      BY <2>1 DEF Steps, S
    <3> QED BY <2>1, <3>1, ScriptsZeroing DEF Zeroing, OpenFirst
  <2> QED BY <2>1, <2>2 DEF OldInv, Unregistered, OpenedFirst, OldIsNext
<1> QED BY <1>0, <1>1, <1>3, <1>4, <1>5, <1>6, <1>7, <1>8, <1>9, <1>10, <1>11, <1>12, <1>13, <1>14, <1>15
     DEF Next, Do

LEMMA StartsRight == StartUp => TypeOK /\ QuietInv /\ OldInv
<1> SUFFICES ASSUME StartUp PROVE TypeOK /\ QuietInv /\ OldInv
  OBVIOUS
<1>1. Sound(S) /\ Len(S.blocks) >= 1 /\ Len(S.blocks) \in Nat
  <2>1. Sound(S)
    BY ScriptsSound, ToolsAssumption DEF StartUp, S
  <2> QED BY <2>1 DEF Sound, Shape
<1>2. TypeOK
  <2>1. block \in 0..Len(S.blocks) /\ step \in 1..12
    BY <1>1 DEF StartUp
  <2>2. handling \in BOOLEAN
    BY DEF StartUp
  <2>3. /\ runs \in 0..MaxRuns /\ sigints \in 0..MaxSigints /\ errors \in 0..MaxErrors
        /\ lost \in 0..MaxLost
    BY BoundsAssumption DEF StartUp
  <2> QED BY <2>1, <2>2, <2>3 DEF StartUp, TypeOK
<1>3. Quiet /\ Running
  BY DEF StartUp, Quiet, Running
<1>4. LeftShut
  BY DEF StartUp, LeftShut, Guarded
<1>5. DrivenOpen /\ DrivenOwn /\ TwiceZeroed
  BY <1>3 DEF StartUp, DrivenOpen, DrivenOwn, TwiceZeroed, Quiet
<1>6. ShutZeroed /\ FirstQuiet /\ HandlerShut /\ Trapped /\ StillQuiet /\ LeftQuiet
  BY <1>3 DEF StartUp, ShutZeroed, FirstQuiet, HandlerShut, Trapped, StillQuiet, LeftQuiet
<1>7. OldInv
  <2>1. tool \in ZeroesFirst => OpenFirst \/ Len(Steps) >= 1
    <3>1. Steps = S.blocks[1]
      BY DEF StartUp, Steps
    <3> QED BY <3>1, ZeroingHere DEF Zeroing, OpenFirst
  <2> QED BY <2>1 DEF StartUp, OldInv, Unregistered, OpenedFirst, OldIsNext
<1> QED BY <1>2, <1>4, <1>5, <1>6, <1>7 DEF QuietInv

LEMMA OldInvBrief == ASSUME TypeOK, OldInv PROVE OldIsBrief
<1> SUFFICES ASSUME tool \in ZeroesFirst, lost = 0, NEW k \in {"hold", "live"}, At(k), NEW m \in registered
             PROVE  setpoint[m] # "old"
  BY DEF OldIsBrief
<1>1. /\ ~handling /\ Steps = S.blocks[block] /\ step \in 1..Len(Steps)
      /\ Steps[step].do = k /\ Running
  BY Working, AtPlace DEF At, Closing
<1>2. block \in 1..Len(S.blocks) /\ Len(S.blocks) \in Nat /\ Zeroing(S)
  BY <1>1, Place, ZeroingHere
<1>3. block # 1
  BY DEF OldInv, Unregistered
<1>4. ASSUME block > 2 PROVE FALSE
  <2>1. Steps \in Seq(Of(Resting))
    BY <1>1, <1>2, <1>4 DEF Zeroing
  <2> QED BY <1>1, <2>1, ElementOfSeq DEF Of, Resting
<1>5. block = 2
  BY <1>2, <1>3, <1>4
<1> QED BY <1>1, <1>5 DEF OldInv, OldIsNext

-----------------------------------------------------------------------------
\* Every variable keeps its type, for any set of scripts and any bounds on what
\* goes wrong.  The place stays inside the script.
THEOREM TypesOK == Spec => []TypeOK
<1>1. StartUp => TypeOK
  BY StartsRight
<1> QED BY <1>1, TypeStep, PTL DEF Spec

\* A script with a finally leaves no motor a set point of its own, whatever one
\* thing went wrong, however many scripts ran before it.
THEOREM LeavesQuiet == Spec => []LeftQuiet
<1>1. StartUp => TypeOK /\ QuietInv
  BY StartsRight
<1>2. TypeOK /\ QuietInv /\ [Next]_vars => (TypeOK /\ QuietInv)'
  BY TypeStep, QuietStep
<1>3. TypeOK /\ QuietInv => LeftQuiet
  BY DEF QuietInv
<1> QED BY <1>1, <1>2, <1>3, PTL DEF Spec

\* Once a script that zeroes after registering drives, nothing turns by the set
\* point that any earlier script left.
THEOREM OldSetPointsAreBrief == Spec => []OldIsBrief
<1>1. StartUp => TypeOK /\ OldInv
  BY StartsRight
<1>2. TypeOK /\ OldInv /\ [Next]_vars => (TypeOK /\ OldInv)'
  BY TypeStep, OldStep
<1>3. TypeOK /\ OldInv => OldIsBrief
  BY OldInvBrief
<1> QED BY <1>1, <1>2, <1>3, PTL DEF Spec
===============================================================================
