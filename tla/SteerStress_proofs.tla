-------------------------- MODULE SteerStress_proofs --------------------------
(***************************************************************************)
(* Proofs about SteerStress: the bound on steering by a held angle, for any *)
(* number of corners, any tolerances, windows and timeouts, and whatever    *)
(* the wheels and the CANcoders do.                                        *)
(***************************************************************************)
EXTENDS SteerStress, FiniteSetTheorems, SequenceTheorems, TLAPS

Approach == {"tick", "sleep"}

\* The locals of an approach are there during an approach only, and it starts
\* with none.
FreshOutside == pc \notin Approach => loop = Fresh

\* A duty that rests on a held angle is counted: by the approach, corner by
\* corner, and in the fine pass by its clock.
BlindCounted ==
  /\ pc \in Approach => \A c \in Corners : blind[c] <= loop.stale[c] /\ loop.stale[c] < LossTicks
  /\ pc = "fine" => \A c \in Corners : blind[c] <= clock
  /\ pc \notin Approach \cup {"fine"} => blind = Zero

\* The clock that the fine pass and the spin share.
ClockBounded ==
  /\ pc = "fine" => clock <= FineTimeout
  /\ pc = "spin" => clock <= SpinTicks
  /\ pc \notin {"fine", "spin"} => clock = 0

\* Nothing stays settled longer than the approach has lasted.
SinceBounded == loop.since <= loop.relax * (Timeout + 1) + loop.clock

Inv == TypeOK /\ FreshOutside /\ BlindCounted /\ ClockBounded /\ SinceBounded

-----------------------------------------------------------------------------

LEMMA NormalizeType == ASSUME NEW a \in Int PROVE Normalize(a) \in Int
<1> QED BY ConstantsAssumption, SMT DEF Normalize, ConstantsAssumption

LEMMA TurnedType ==
  ASSUME NEW w \in Int, NEW d \in Int PROVE Turned(w, d) \in 0..(Turn - 1)
<1> QED BY ConstantsAssumption, SMT DEF Turned, ConstantsAssumption

LEMMA POutputType ==
  ASSUME NEW err \in Int, NEW deadband \in Nat PROVE POutput(err, deadband) \in Duties
<1> QED BY DEF POutput, Duties, Abs

LEMMA RefreshedType == TypeOK => Refreshed \in [Corners -> 0..(Turn - 1)]
<1> QED BY DEF TypeOK, Refreshed

LEMMA AngleType ==
  ASSUME TypeOK, NEW c \in Corners PROVE Angle(c) \in Int /\ Error(Angle(c)) \in Int
<1>1. Refreshed[c] \in Int
  BY RefreshedType, ConstantsAssumption DEF ConstantsAssumption
<1>2. Angle(c) \in Int
  BY <1>1, NormalizeType DEF Angle
<1>3. Target - Angle(c) \in Int
  BY <1>2, ConstantsAssumption DEF ConstantsAssumption
<1> QED BY <1>2, <1>3, NormalizeType DEF Error

LEMMA ZeroType == Zero \in [Corners -> Duties] /\ Zero \in [Corners -> Nat] /\ Zero \in [Corners -> Int]
<1> QED BY DEF Zero, Duties

\* The look-back window keeps its bound.
LEMMA ReadType ==
  ASSUME TypeOK, NEW c \in Corners
  PROVE  Read(c) \in Seq(Int) /\ Len(Read(c)) <= Window
<1> DEFINE h == Append(loop.hist[c], Angle(c))
<1>1. loop.hist[c] \in Seq(Int) /\ Len(loop.hist[c]) <= Window
  BY DEF TypeOK
<1>2. h \in Seq(Int) /\ Len(h) = Len(loop.hist[c]) + 1
  BY <1>1, AngleType, AppendProperties
<1>3. Window \in Nat /\ Len(loop.hist[c]) \in Nat
  BY <1>1, LenProperties, ConstantsAssumption DEF ConstantsAssumption
<1>4. CASE Len(h) > Window
  <2>1. h # <<>>
    BY <1>2, <1>3
  <2>2. Tail(h) \in Seq(Int) /\ Len(Tail(h)) = Len(h) - 1
    BY <1>2, <2>1, HeadTailProperties
  <2> QED BY <1>1, <1>2, <1>3, <1>4, <2>2 DEF Read
<1>5. CASE ~(Len(h) > Window)
  BY <1>2, <1>3, <1>5 DEF Read
<1> QED BY <1>4, <1>5

\* Whatever the mechanism does, wheels point somewhere and trouble is counted.
LEMMA TurnsType ==
  ASSUME TypeOK, NEW duty \in [Corners -> Duties], Turns(duty)
  PROVE  /\ wheel' \in [Corners -> 0..(Turn - 1)]
         /\ alive' \in [Corners -> BOOLEAN]
         /\ trouble' \in 0..MaxTrouble
<1>1. PICK moving \in SUBSET Corners, silent \in SUBSET Corners, pushed \in Pushes :
        Move(duty, moving, pushed) /\ Fall(pushed, silent)
  BY DEF Turns
<1>2. pushed \in [Corners -> Int]
  BY ZeroType DEF Pushes
<1>3. wheel' \in [Corners -> 0..(Turn - 1)]
  <2> SUFFICES ASSUME NEW c \in Corners
               PROVE  Turned(wheel[c], pushed[c] + (IF c \in moving THEN duty[c] ELSE 0))
                        \in 0..(Turn - 1)
    BY <1>1 DEF Move
  <2>1. wheel[c] \in Int
    BY ConstantsAssumption DEF TypeOK, ConstantsAssumption
  <2>2. pushed[c] + (IF c \in moving THEN duty[c] ELSE 0) \in Int
    BY <1>2 DEF Duties
  <2> QED BY <2>1, <2>2, TurnedType
<1>4. Cardinality({c \in silent : alive[c]}) \in Nat
  <2>1. IsFiniteSet({c \in silent : alive[c]})
    BY FS_Subset, ConstantsAssumption DEF ConstantsAssumption
  <2> QED BY <2>1, FS_CardinalityType
<1>5. trouble' \in 0..MaxTrouble
  <2>1. trouble \in Nat /\ MaxTrouble \in Nat
    BY ConstantsAssumption DEF TypeOK, ConstantsAssumption
  <2>2. (IF pushed = Zero THEN 0 ELSE 1) \in Nat
    OBVIOUS
  <2> QED BY <1>1, <1>4, <2>1, <2>2 DEF Fall
<1>6. alive' \in [Corners -> BOOLEAN]
  BY <1>1 DEF Fall
<1> QED BY <1>3, <1>5, <1>6

-----------------------------------------------------------------------------

LEMMA Consts ==
  /\ Timeout \in Nat \ {0} /\ FineTimeout \in Nat \ {0} /\ SpinTicks \in Nat \ {0}
  /\ LossTicks \in Nat \ {0} /\ Window \in Nat /\ Hold \in Nat
  /\ Deadband \in Nat /\ FineDeadband \in Nat
<1> QED BY ConstantsAssumption DEF ConstantsAssumption

LEMMA FreshType ==
  /\ Fresh \in [hist : [Corners -> Seq(Int)], stale : [Corners -> Nat],
               settled : BOOLEAN, since : -1..(Relaxations * (Timeout + 1)),
               clock : 0..Timeout, relax : 0..(Relaxations - 1)]
  /\ \A c \in Corners : Len(Fresh.hist[c]) <= Window
  /\ Fresh.stale = Zero /\ Fresh.since = -1 /\ Fresh.relax = 0 /\ Fresh.clock = 0
<1>1. <<>> \in Seq(Int) /\ Len(<<>>) = 0
  BY EmptySeq
<1>2. -1 \in -1..(Relaxations * (Timeout + 1)) /\ 0 \in 0..Timeout /\ 0 \in 0..(Relaxations - 1)
  BY Consts DEF Relaxations
<1> QED BY <1>1, <1>2, ZeroType, Consts DEF Fresh

\* What every return and Ctrl-C leave: no duty, and so nothing blind.
LEMMA StopAllType ==
  StopAll => /\ steer' \in [Corners -> Duties] /\ drive' \in [Corners -> Duties]
             /\ blind' = Zero /\ blind' \in [Corners -> 0..(LossTicks + FineTimeout)]
<1>1. 0 \in 0..(LossTicks + FineTimeout)
  BY Consts
<1> QED BY <1>1, ZeroType DEF StopAll, Zero

LEMMA FreshInv ==
  ASSUME loop' = Fresh
  PROVE  /\ loop' \in [hist : [Corners -> Seq(Int)], stale : [Corners -> Nat],
                      settled : BOOLEAN, since : -1..(Relaxations * (Timeout + 1)),
                      clock : 0..Timeout, relax : 0..(Relaxations - 1)]
         /\ \A c \in Corners : Len(loop'.hist[c]) <= Window
         /\ SinceBounded'
<1>1. Fresh.since <= Fresh.relax * (Timeout + 1) + Fresh.clock
  BY FreshType, Consts
<1> QED BY FreshType, <1>1 DEF SinceBounded

-----------------------------------------------------------------------------

LEMMA InitInv == Init => Inv
<1> SUFFICES ASSUME Init PROVE Inv
  OBVIOUS
<1>1. TypeOK
  <2>1. Zero \in [Corners -> 0..(Turn - 1)] /\ Zero \in [Corners -> 0..(LossTicks + FineTimeout)]
    BY Consts, ConstantsAssumption DEF Zero, ConstantsAssumption
  <2>2. 0 \in 0..(FineTimeout + SpinTicks) /\ 0 \in 0..MaxTrouble
    BY Consts, ConstantsAssumption DEF ConstantsAssumption
  <2> QED BY <2>1, <2>2, FreshType, ZeroType DEF Init, TypeOK, NoSpin, Patterns, Phases
<1>2. FreshOutside /\ BlindCounted /\ ClockBounded
  BY DEF Init, FreshOutside, BlindCounted, ClockBounded, Approach
<1>3. SinceBounded
  BY FreshType, Consts DEF Init, SinceBounded
<1> QED BY <1>1, <1>2, <1>3 DEF Inv

LEMMA InitCornersInv == Inv /\ InitCorners => Inv'
<1> SUFFICES ASSUME Inv, InitCorners PROVE Inv'
  OBVIOUS
<1>1. loop = Fresh /\ clock = 0 /\ loop' = loop /\ clock' = clock
  BY DEF Inv, FreshOutside, ClockBounded, InitCorners, Approach
<1>2. TypeOK'
  BY StopAllType, RefreshedType DEF Inv, TypeOK, InitCorners, Leave, world
<1>3. FreshOutside' /\ ClockBounded' /\ SinceBounded'
  BY <1>1, FreshInv, Consts DEF FreshOutside, ClockBounded, InitCorners, Leave
<1>4. BlindCounted'
  <2>1. \A c \in Corners : Zero[c] <= Fresh.stale[c] /\ Fresh.stale[c] < LossTicks
    BY FreshType, Consts DEF Zero
  <2>2. pc' \in Approach \cup {"done"}
    BY DEF InitCorners, Leave, Approach
  <2> QED BY <1>1, <2>1, <2>2, StopAllType DEF BlindCounted, InitCorners, Approach
<1> QED BY <1>2, <1>3, <1>4 DEF Inv

LEMMA EndApproachInv ==
  ASSUME TypeOK, NEW b \in BOOLEAN, NEW next \in {"fine", "sample"}, EndApproach(b, next)
  PROVE  /\ steer' \in [Corners -> Duties] /\ drive' \in [Corners -> Duties]
         /\ blind' = Zero /\ blind' \in [Corners -> 0..(LossTicks + FineTimeout)]
         /\ reached' \in [Phases -> BOOLEAN]
         /\ loop' = Fresh /\ pc' = next
<1> QED BY StopAllType DEF EndApproach, TypeOK

\* The invariant of a state in which no approach runs and nothing is blind.
LEMMA OutsideInv ==
  ASSUME loop' = Fresh, pc' \notin Approach, blind' = Zero, ClockBounded', clock' \in Nat
  PROVE  FreshOutside' /\ BlindCounted' /\ ClockBounded' /\ SinceBounded'
<1>1. FreshOutside' /\ SinceBounded'
  BY FreshInv DEF FreshOutside
<1>2. BlindCounted'
  <2>1. ASSUME pc' = "fine", NEW c \in Corners PROVE blind'[c] <= clock'
    <3>1. blind'[c] = 0
      BY DEF Zero
    <3> QED BY <3>1
  <2> QED BY <2>1 DEF BlindCounted
<1> QED BY <1>1, <1>2

LEMMA ClockType == TypeOK => clock \in Nat
<1> QED BY Consts DEF TypeOK

LEMMA SteeredType ==
  ASSUME TypeOK, NEW duty \in [Corners -> Duties], Steered(duty)
  PROVE  /\ steer' \in [Corners -> Duties] /\ drive' \in [Corners -> Duties]
         /\ \A c \in Corners :
              /\ blind'[c] \in Nat
              /\ blind'[c] = 0 \/ (~alive[c] /\ blind'[c] = blind[c] + 1)
         /\ blind' = [c \in Corners |-> blind'[c]]
<1>1. steer' \in [Corners -> Duties] /\ drive' \in [Corners -> Duties]
  BY ZeroType DEF Steered
<1>2. \A c \in Corners : blind[c] \in Nat
  BY Consts DEF TypeOK
<1> QED BY <1>1, <1>2 DEF Steered

LEMMA ApproachTickInv == Inv /\ ApproachTick => Inv'
<1> SUFFICES ASSUME Inv, ApproachTick PROVE Inv'
  OBVIOUS
<1> USE DEF Inv
<1>1. pc = "tick" /\ clock = 0 /\ clock' = 0
  BY DEF ApproachTick, ClockBounded
<1>2. held' \in [Corners -> 0..(Turn - 1)]
  BY RefreshedType DEF ApproachTick
<1>3. CASE Lost(StaleTicks) /\ EndApproach(FALSE, "sample")
  <2>1. TypeOK'
    BY <1>2, <1>3, EndApproachInv, FreshInv DEF TypeOK, ApproachTick, world
  <2>2. FreshOutside' /\ BlindCounted' /\ ClockBounded' /\ SinceBounded'
    <3>1. loop' = Fresh /\ pc' = "sample" /\ blind' = Zero
      BY <1>3, EndApproachInv
    <3>2. ClockBounded'
      BY <1>1, <3>1 DEF ClockBounded
    <3> QED BY <1>1, <3>1, <3>2, OutsideInv DEF Approach
  <2> QED BY <2>1, <2>2
<1>4. CASE /\ ~Lost(StaleTicks)
           /\ Steered([c \in Corners |-> POutput(Error(Angle(c)), Deadband)])
           /\ loop' = [loop EXCEPT
                         !.hist = [c \in Corners |-> Read(c)],
                         !.stale = StaleTicks,
                         !.settled = \A c \in Corners :
                            Settled(flags.mode, Read(c), Error(Angle(c)), loop.relax)]
           /\ pc' = "sleep"
           /\ UNCHANGED reached
  <2> DEFINE duty == [c \in Corners |-> POutput(Error(Angle(c)), Deadband)]
             settled == \A c \in Corners :
                          Settled(flags.mode, Read(c), Error(Angle(c)), loop.relax)
  <2>1. duty \in [Corners -> Duties]
    BY AngleType, POutputType, Consts
  <2>2. [c \in Corners |-> Read(c)] \in [Corners -> Seq(Int)]
    BY ReadType
  <2>3. StaleTicks \in [Corners -> Nat]
    BY DEF StaleTicks, TypeOK
  <2>4. settled \in BOOLEAN
    OBVIOUS
  <2>5. /\ loop' \in [hist : [Corners -> Seq(Int)], stale : [Corners -> Nat],
                     settled : BOOLEAN, since : -1..(Relaxations * (Timeout + 1)),
                     clock : 0..Timeout, relax : 0..(Relaxations - 1)]
        /\ loop'.hist = [c \in Corners |-> Read(c)] /\ loop'.stale = StaleTicks
        /\ loop'.since = loop.since /\ loop'.relax = loop.relax /\ loop'.clock = loop.clock
    <3> HIDE DEF settled
    <3>1. loop' = [loop EXCEPT !.hist = [c \in Corners |-> Read(c)],
                               !.stale = StaleTicks, !.settled = settled]
      BY <1>4 DEF settled
    <3> QED BY <2>2, <2>3, <2>4, <3>1 DEF TypeOK
  <2>6. \A c \in Corners : Len(loop'.hist[c]) <= Window
    BY <2>5, ReadType
  <2>7. \A c \in Corners :
          blind'[c] \in Nat /\ blind'[c] <= loop'.stale[c] /\ loop'.stale[c] < LossTicks
    <3> SUFFICES ASSUME NEW c \in Corners
                 PROVE  /\ blind'[c] \in Nat /\ blind'[c] <= StaleTicks[c]
                        /\ StaleTicks[c] < LossTicks
      BY <2>5
    <3>1. StaleTicks[c] \in Nat /\ StaleTicks[c] < LossTicks
      BY <1>4, <2>3, Consts DEF Lost
    <3>2. blind[c] <= loop.stale[c] /\ loop.stale[c] \in Nat /\ blind[c] \in Nat
      BY <1>1, Consts DEF BlindCounted, Approach, TypeOK
    <3>3. blind'[c] \in Nat /\ (blind'[c] = 0 \/ (~alive[c] /\ blind'[c] = blind[c] + 1))
      BY <1>4, <2>1, SteeredType
    <3>4. ~alive[c] => StaleTicks[c] = loop.stale[c] + 1
      BY DEF StaleTicks
    <3> QED BY <3>1, <3>2, <3>3, <3>4
  <2>8. blind' \in [Corners -> 0..(LossTicks + FineTimeout)]
    <3>1. \A c \in Corners : blind'[c] \in 0..(LossTicks + FineTimeout)
      <4> SUFFICES ASSUME NEW c \in Corners PROVE blind'[c] \in 0..(LossTicks + FineTimeout)
        OBVIOUS
      <4>1. blind'[c] \in Nat /\ blind'[c] <= StaleTicks[c] /\ StaleTicks[c] < LossTicks
            /\ StaleTicks[c] \in Nat
        BY <2>3, <2>5, <2>7
      <4> QED BY <4>1, Consts
    <3>2. blind' = [c \in Corners |-> blind'[c]]
      BY <1>4, <2>1, SteeredType
    <3> QED BY <3>1, <3>2
  <2>9. TypeOK'
    <3>1. steer' \in [Corners -> Duties] /\ drive' \in [Corners -> Duties]
      BY <1>4, <2>1, SteeredType
    <3> QED BY <1>2, <1>4, <2>5, <2>6, <2>8, <3>1 DEF TypeOK, ApproachTick, world
  <2>10. FreshOutside' /\ ClockBounded'
    BY <1>1, <1>4 DEF FreshOutside, ClockBounded, Approach
  <2>11. BlindCounted'
    BY <1>4, <2>7 DEF BlindCounted, Approach
  <2>12. SinceBounded'
    BY <2>5 DEF SinceBounded
  <2> QED BY <2>9, <2>10, <2>11, <2>12
<1> QED BY <1>3, <1>4 DEF ApproachTick

\* Nothing stays settled longer than it has been watched, and the clock and the
\* relaxations bound that.
LEMMA SinceStep ==
  ASSUME TypeOK, SinceBounded
  PROVE  /\ SettledFor \in Int /\ -1 <= SettledFor
         /\ SettledFor <= loop.relax * (Timeout + 1) + loop.clock + 1
         /\ loop.relax \in {0, 1, 2} /\ loop.clock \in 0..Timeout
         /\ loop.relax * (Timeout + 1) \in Nat
<1>1. loop.relax \in {0, 1, 2} /\ loop.clock \in 0..Timeout /\ loop.since \in Int /\ loop.since >= -1
      /\ loop.settled \in BOOLEAN
  BY Consts DEF TypeOK, Relaxations
<1>2. loop.relax * (Timeout + 1) \in Nat
  BY <1>1, Consts
<1>3. loop.since <= loop.relax * (Timeout + 1) + loop.clock
  BY DEF SinceBounded
<1>4. CASE loop.settled
  BY <1>1, <1>2, <1>3, <1>4, Consts DEF SettledFor
<1>5. CASE ~loop.settled
  BY <1>1, <1>2, <1>5, Consts DEF SettledFor
<1> QED BY <1>1, <1>2, <1>4, <1>5

LEMMA ApproachSleepInv == Inv /\ ApproachSleep => Inv'
<1> SUFFICES ASSUME Inv, ApproachSleep PROVE Inv'
  OBVIOUS
<1> USE DEF Inv
<1>1. pc = "sleep" /\ clock = 0 /\ clock' = 0
  BY DEF ApproachSleep, ClockBounded
<1>2. /\ wheel' \in [Corners -> 0..(Turn - 1)] /\ alive' \in [Corners -> BOOLEAN]
      /\ trouble' \in 0..MaxTrouble
  <2>1. steer \in [Corners -> Duties] /\ Turns(steer)
    BY DEF TypeOK, ApproachSleep
  <2> QED BY <2>1, TurnsType
\* It ends, accepted or given up.
<1>3. ASSUME NEW b \in BOOLEAN, NEW next \in {"fine", "sample"}, EndApproach(b, next)
      PROVE  Inv'
  <2>1. loop' = Fresh /\ pc' = next /\ blind' = Zero
    BY <1>3, EndApproachInv
  <2>2. TypeOK'
    <3>1. /\ steer' \in [Corners -> Duties] /\ drive' \in [Corners -> Duties]
          /\ blind' \in [Corners -> 0..(LossTicks + FineTimeout)]
          /\ reached' \in [Phases -> BOOLEAN] /\ pc' = next
      BY <1>3, EndApproachInv
    <3>2. /\ loop' \in [hist : [Corners -> Seq(Int)], stale : [Corners -> Nat],
                         settled : BOOLEAN, since : -1..(Relaxations * (Timeout + 1)),
                         clock : 0..Timeout, relax : 0..(Relaxations - 1)]
          /\ \A c \in Corners : Len(loop'.hist[c]) <= Window
      BY <2>1, FreshInv
    <3> QED BY <1>2, <3>1, <3>2 DEF TypeOK, ApproachSleep
  <2>3. ClockBounded'
    BY <1>1, <2>1, Consts DEF ClockBounded
  <2>4. FreshOutside' /\ BlindCounted' /\ SinceBounded'
    BY <1>1, <2>1, <2>3, OutsideInv DEF Approach
  <2> QED BY <2>2, <2>3, <2>4
\* It goes on.
<1>4. ASSUME pc' = "tick", UNCHANGED <<outputs, reached, blind>>,
             loop' \in [hist : [Corners -> Seq(Int)], stale : [Corners -> Nat],
                        settled : BOOLEAN, since : -1..(Relaxations * (Timeout + 1)),
                        clock : 0..Timeout, relax : 0..(Relaxations - 1)],
             loop'.hist = loop.hist, loop'.stale = loop.stale, SinceBounded'
      PROVE  Inv'
  <2>1. TypeOK'
    BY <1>2, <1>4 DEF TypeOK, ApproachSleep, outputs
  <2>2. FreshOutside' /\ ClockBounded'
    BY <1>1, <1>4 DEF FreshOutside, ClockBounded, Approach
  <2>3. BlindCounted'
    BY <1>1, <1>4 DEF BlindCounted, Approach
  <2> QED BY <1>4, <2>1, <2>2, <2>3
<1>5. CASE Arrived /\ EndApproach(TRUE, IF flags.fine THEN "fine" ELSE "sample")
  <2>1. (IF flags.fine THEN "fine" ELSE "sample") \in {"fine", "sample"}
    OBVIOUS
  <2> QED BY <1>3, <1>5, <2>1
<1>6. CASE /\ loop.clock + 1 <= Timeout
           /\ loop' = [loop EXCEPT !.since = SettledFor, !.clock = @ + 1]
           /\ pc' = "tick"
           /\ UNCHANGED <<outputs, reached, blind>>
  <2>1. SettledFor \in -1..(Relaxations * (Timeout + 1)) /\ loop.clock + 1 \in 0..Timeout
    <3>1. loop.relax * (Timeout + 1) <= 2 * (Timeout + 1)
      BY SinceStep, Consts
    <3> QED BY <1>6, <3>1, SinceStep, Consts DEF Relaxations
  <2>2. /\ loop' \in [hist : [Corners -> Seq(Int)], stale : [Corners -> Nat],
                     settled : BOOLEAN, since : -1..(Relaxations * (Timeout + 1)),
                     clock : 0..Timeout, relax : 0..(Relaxations - 1)]
        /\ loop'.hist = loop.hist /\ loop'.stale = loop.stale /\ loop'.since = SettledFor
        /\ loop'.clock = loop.clock + 1 /\ loop'.relax = loop.relax
    BY <1>6, <2>1 DEF TypeOK
  <2>3. SinceBounded'
    BY <2>2, SinceStep, Consts DEF SinceBounded
  <2> QED BY <1>4, <1>6, <2>2, <2>3
<1>7. CASE /\ ~GivesUp
           /\ loop' = Relaxed
           /\ pc' = "tick"
           /\ UNCHANGED <<outputs, reached, blind>>
  <2>1. Relaxed.relax = loop.relax + 1
    BY DEF Relaxed, TypeOK
  <2>2. loop.relax \in {0, 1}
    BY <1>7, <2>1, SinceStep DEF GivesUp, Relaxations
  <2>3. SettledFor \in -1..(Relaxations * (Timeout + 1)) /\ 0 \in 0..Timeout
        /\ loop.relax + 1 \in 0..(Relaxations - 1)
    <3>1. loop.relax * (Timeout + 1) <= Timeout + 1
      BY <2>2, Consts
    <3> QED BY <2>2, <3>1, SinceStep, Consts DEF Relaxations
  <2>4. /\ loop' \in [hist : [Corners -> Seq(Int)], stale : [Corners -> Nat],
                     settled : BOOLEAN, since : -1..(Relaxations * (Timeout + 1)),
                     clock : 0..Timeout, relax : 0..(Relaxations - 1)]
        /\ loop'.hist = loop.hist /\ loop'.stale = loop.stale /\ loop'.since = SettledFor
        /\ loop'.clock = 0 /\ loop'.relax = loop.relax + 1
    BY <1>7, <2>3 DEF TypeOK, Relaxed
  <2>5. (loop.relax + 1) * (Timeout + 1) = loop.relax * (Timeout + 1) + Timeout + 1
    BY <2>2, Consts
  <2>6. SinceBounded'
    BY <2>4, <2>5, SinceStep, Consts DEF SinceBounded
  <2> QED BY <1>4, <1>7, <2>4, <2>6
<1>8. CASE EndApproach(FALSE, "sample")
  BY <1>3, <1>8
<1> QED BY <1>5, <1>6, <1>7, <1>8 DEF ApproachSleep

LEMMA FineTickInv == Inv /\ FineTick => Inv'
<1> SUFFICES ASSUME Inv, FineTick PROVE Inv'
  OBVIOUS
<1> USE DEF Inv
<1> DEFINE duty == [c \in Corners |-> FineDuty(c)]
<1>1. /\ pc = "fine" /\ pc' = "fine" /\ loop' = loop /\ loop = Fresh
      /\ clock \in Nat /\ clock < FineTimeout /\ clock' = clock + 1
  BY ClockType DEF FineTick, FreshOutside, Approach
<1>2. duty \in [Corners -> Duties]
  <2>1. ASSUME NEW c \in Corners PROVE FineDuty(c) \in Duties
    <3>1. POutput(Error(Angle(c)), FineDeadband) \in Duties
      BY AngleType, POutputType, Consts
    <3> QED BY <3>1 DEF FineDuty, Duties
  <2> QED BY <2>1
<1>3. Steered(duty) /\ Turns(duty)
  BY DEF FineTick
<1>4. \A c \in Corners : blind'[c] \in Nat /\ blind'[c] <= clock'
  <2> SUFFICES ASSUME NEW c \in Corners PROVE blind'[c] \in Nat /\ blind'[c] <= clock'
    OBVIOUS
  <2>1. blind[c] <= clock /\ blind[c] \in Nat
    BY <1>1, Consts DEF BlindCounted, TypeOK
  <2>2. blind'[c] \in Nat /\ (blind'[c] = 0 \/ (~alive[c] /\ blind'[c] = blind[c] + 1))
    BY <1>2, <1>3, SteeredType
  <2> QED BY <1>1, <2>1, <2>2
<1>5. blind' \in [Corners -> 0..(LossTicks + FineTimeout)]
  <2>1. \A c \in Corners : blind'[c] \in 0..(LossTicks + FineTimeout)
    BY <1>1, <1>4, Consts
  <2>2. blind' = [c \in Corners |-> blind'[c]]
    BY <1>2, <1>3, SteeredType
  <2> QED BY <2>1, <2>2
<1>6. TypeOK'
  <2>1. steer' \in [Corners -> Duties] /\ drive' \in [Corners -> Duties]
    BY <1>2, <1>3, SteeredType
  <2>2. /\ wheel' \in [Corners -> 0..(Turn - 1)] /\ alive' \in [Corners -> BOOLEAN]
        /\ trouble' \in 0..MaxTrouble
    BY <1>2, <1>3, TurnsType
  <2>3. held' \in [Corners -> 0..(Turn - 1)] /\ conv' \subseteq Corners
    BY RefreshedType DEF FineTick, Converged, TypeOK
  <2>4. clock' \in 0..(FineTimeout + SpinTicks)
    BY <1>1, Consts
  <2>5. UNCHANGED <<flags, pc, phase, loop, spin, results>>
    BY DEF FineTick
  <2> QED BY <1>5, <2>1, <2>2, <2>3, <2>4, <2>5 DEF TypeOK, results
<1>7. ClockBounded'
  BY <1>1, Consts DEF ClockBounded
<1>8. FreshOutside' /\ SinceBounded'
  BY <1>1, FreshInv DEF FreshOutside
<1>9. BlindCounted'
  BY <1>1, <1>4 DEF BlindCounted, Approach
<1> QED BY <1>6, <1>7, <1>8, <1>9

LEMMA FineDoneInv == Inv /\ FineDone => Inv'
<1> SUFFICES ASSUME Inv, FineDone PROVE Inv'
  OBVIOUS
<1> USE DEF Inv
<1>1. loop' = Fresh /\ pc' = "sample" /\ clock' = 0 /\ blind' = Zero
  BY StopAllType DEF FineDone, FreshOutside, Approach
<1>2. TypeOK'
  <2>1. 0 \in 0..(FineTimeout + SpinTicks)
    BY Consts
  <2> QED BY <1>1, <2>1, StopAllType DEF TypeOK, FineDone, world, results
<1>3. ClockBounded'
  BY <1>1 DEF ClockBounded
<1> QED BY <1>1, <1>2, <1>3, OutsideInv DEF Approach

LEMMA SampleInv == Inv /\ Sample => Inv'
<1> SUFFICES ASSUME Inv, Sample PROVE Inv'
  OBVIOUS
<1> USE DEF Inv
<1>1. /\ pc = "sample" /\ pc' \in {"spin", "report"}
      /\ loop' = Fresh /\ clock = 0 /\ clock' = 0 /\ blind' = Zero
  BY DEF Sample, FreshOutside, ClockBounded, BlindCounted, Approach
<1>2. TypeOK'
  <2>1. held' \in [Corners -> 0..(Turn - 1)] /\ stale' \in BOOLEAN
    BY RefreshedType DEF Sample, TypeOK
  <2>2. spin' \in [dir : {-1, 1}, pattern : Patterns]
    BY DEF Sample, TypeOK, NoSpin
  <2>3. UNCHANGED <<flags, world, outputs, phase, loop, conv, clock, reached, exit, blind>>
    BY DEF Sample
  <2> QED BY <1>1, <2>1, <2>2, <2>3 DEF TypeOK, world, outputs
<1>3. ClockBounded'
  BY <1>1, Consts DEF ClockBounded
<1> QED BY <1>1, <1>2, <1>3, OutsideInv DEF Approach

LEMMA SpinTickInv == Inv /\ SpinTick => Inv'
<1> SUFFICES ASSUME Inv, SpinTick PROVE Inv'
  OBVIOUS
<1> USE DEF Inv
<1>1. /\ pc = "spin" /\ pc' = "spin" /\ loop' = Fresh /\ blind' = Zero
      /\ clock \in Nat /\ clock < SpinTicks /\ clock' = clock + 1
  BY ClockType DEF SpinTick, FreshOutside, BlindCounted, Approach
<1>2. Direction \in {-1, 1}
  BY DEF Direction, TypeOK
<1>3. DriveDirection \in Duties
  BY <1>2 DEF DriveDirection, TypeOK, Patterns, Duties
<1>4. steer' \in [Corners -> Duties] /\ drive' \in [Corners -> Duties]
  BY <1>2, <1>3 DEF SpinTick, Duties
<1>5. TypeOK'
  <2>1. /\ wheel' \in [Corners -> 0..(Turn - 1)] /\ alive' \in [Corners -> BOOLEAN]
        /\ trouble' \in 0..MaxTrouble
    BY <1>4, TurnsType DEF SpinTick
  <2>2. held' \in [Corners -> 0..(Turn - 1)] /\ spin' \in [dir : {-1, 1}, pattern : Patterns]
    BY <1>2, RefreshedType DEF SpinTick, TypeOK
  <2>3. clock' \in 0..(FineTimeout + SpinTicks)
    BY <1>1, Consts
  <2>4. UNCHANGED <<flags, pc, phase, loop, conv, results, blind>>
    BY DEF SpinTick
  <2> QED BY <1>4, <2>1, <2>2, <2>3, <2>4 DEF TypeOK, results
<1>6. ClockBounded'
  BY <1>1, Consts DEF ClockBounded
<1> QED BY <1>1, <1>5, <1>6, OutsideInv DEF Approach

LEMMA SpinDoneInv == Inv /\ SpinDone => Inv'
<1> SUFFICES ASSUME Inv, SpinDone PROVE Inv'
  OBVIOUS
<1> USE DEF Inv
<1>1. loop' = Fresh /\ pc' = "tick" /\ clock' = 0 /\ blind' = Zero
  BY StopAllType DEF SpinDone, FreshOutside, Approach
<1>2. TypeOK'
  <2>1. 0 \in 0..(FineTimeout + SpinTicks) /\ NoSpin \in [dir : {-1, 1}, pattern : Patterns]
    BY Consts DEF NoSpin, Patterns
  <2> QED BY <1>1, <2>1, StopAllType DEF TypeOK, SpinDone, world, results, Phases
<1>3. ClockBounded' /\ FreshOutside' /\ SinceBounded'
  BY <1>1, FreshInv DEF ClockBounded, FreshOutside, Approach
<1>4. BlindCounted'
  <2>1. \A c \in Corners : Zero[c] <= Fresh.stale[c] /\ Fresh.stale[c] < LossTicks
    BY FreshType, Consts DEF Zero
  <2> QED BY <1>1, <2>1 DEF BlindCounted, Approach
<1> QED BY <1>2, <1>3, <1>4

LEMMA ReportInv == Inv /\ Report => Inv'
<1> SUFFICES ASSUME Inv, Report PROVE Inv'
  OBVIOUS
<1> USE DEF Inv
<1>1. loop' = Fresh /\ pc' = "done" /\ clock' = 0 /\ blind' = Zero
  BY StopAllType DEF Report, Leave, FreshOutside, ClockBounded, Approach
<1>2. TypeOK'
  BY <1>1, StopAllType DEF TypeOK, Report, Leave, Verdict, world
<1>3. ClockBounded'
  BY <1>1 DEF ClockBounded
<1> QED BY <1>1, <1>2, <1>3, OutsideInv DEF Approach

LEMMA InterruptInv == Inv /\ Interrupt => Inv'
<1> SUFFICES ASSUME Inv, Interrupt PROVE Inv'
  OBVIOUS
<1> USE DEF Inv
<1>1. loop' = Fresh /\ pc' = "done" /\ clock' = 0 /\ blind' = Zero
  BY StopAllType DEF Interrupt, Leave
<1>2. TypeOK'
  <2>1. 0 \in 0..(FineTimeout + SpinTicks) /\ NoSpin \in [dir : {-1, 1}, pattern : Patterns]
    BY Consts DEF NoSpin, Patterns
  <2> QED BY <1>1, <2>1, StopAllType, FreshInv DEF TypeOK, Interrupt, Leave, world
<1>3. ClockBounded'
  BY <1>1 DEF ClockBounded
<1> QED BY <1>1, <1>2, <1>3, OutsideInv DEF Approach

LEMMA StutterInv == Inv /\ UNCHANGED vars => Inv'
<1> SUFFICES ASSUME Inv, UNCHANGED vars PROVE Inv'
  OBVIOUS
<1>1. TypeOK'
  BY DEF Inv, TypeOK, vars, world, outputs, results
<1>2. FreshOutside' /\ BlindCounted' /\ ClockBounded' /\ SinceBounded'
  BY DEF Inv, FreshOutside, BlindCounted, ClockBounded, SinceBounded, vars
<1> QED BY <1>1, <1>2 DEF Inv

\* Every step of the run keeps the invariant.
LEMMA StepInv == Inv /\ [Next]_vars => Inv'
<1> QED BY InitCornersInv, ApproachTickInv, ApproachSleepInv, FineTickInv, FineDoneInv,
           SampleInv, SpinTickInv, SpinDoneInv, ReportInv, InterruptInv, StutterInv
        DEF Next, Run

\* During an approach a held angle is steered by for fewer ticks than it has
\* been missing, and those are fewer than SIGNAL_LOSS_TICKS.
LEMMA CountedIsBrief == Inv => BlindIsBrief
<1> SUFFICES ASSUME Inv, pc \in Approach, NEW c \in Corners PROVE blind[c] < LossTicks
  BY DEF BlindIsBrief, Approach
<1>1. blind[c] <= loop.stale[c] /\ loop.stale[c] < LossTicks
  BY DEF Inv, BlindCounted
<1>2. blind[c] \in Int /\ loop.stale[c] \in Int /\ LossTicks \in Int
  BY Consts DEF Inv, TypeOK
<1> QED BY <1>1, <1>2

\* steer_stress_test.py 404-592: the locals of the loops stay what they are said
\* to be; the look-back window never outgrows its deque, no relaxation passes
\* the third, and what has settled never outlasts the approach, whatever the
\* wheels and the CANcoders do.
THEOREM TypesOK == Spec => []TypeOK
<1>1. Inv => TypeOK
  BY DEF Inv
<1> QED BY InitInv, StepInv, <1>1, PTL DEF Spec

\* steer_stress_test.py 451-461: no approach rests a duty on a held angle for
\* SIGNAL_LOSS_TICKS, on any number of corners, whichever of them fall silent
\* and come back.
THEOREM HeldAngleIsBrief == Spec => []BlindIsBrief
<1> QED BY InitInv, StepInv, CountedIsBrief, PTL DEF Spec

-----------------------------------------------------------------------------
(* Accepted by tolerance.                                                  *)

\* How many readings in a row, up to the last, the settled count stands for.
SettledReadings ==
  IF pc = "tick" THEN loop.since + 1 ELSE IF loop.settled THEN loop.since + 2 ELSE 0

\* Those readings were all near, by the tolerance of now: it only ever widens.
NearSince ==
  (pc \in Approach /\ flags.mode = "tol") =>
    \A c \in Corners : \A i \in 1..Len(loop.hist[c]) :
      i > Len(loop.hist[c]) - SettledReadings =>
        Within(Abs(Error(loop.hist[c][i])), Tol, loop.relax)

LEMMA TolConsts == Tol \in Nat /\ Target \in Int
<1> QED BY ConstantsAssumption DEF ConstantsAssumption

LEMMA ErrorSize == ASSUME NEW a \in Int PROVE Abs(Error(a)) \in Nat
<1>1. Target - a \in Int
  BY TolConsts
<1>2. Error(a) \in Int
  BY <1>1, NormalizeType DEF Error
<1> QED BY <1>2 DEF Abs

\* A relaxation admits whatever was admitted before.
LEMMA WithinWidens ==
  ASSUME NEW x \in Nat, NEW tolerance \in Nat, NEW relax \in 0..1, Within(x, tolerance, relax)
  PROVE  Within(x, tolerance, relax + 1)
<1>1. 2^0 = 1 /\ 2^1 = 2 /\ 2^2 = 4 /\ 3^0 = 1 /\ 3^1 = 3 /\ 3^2 = 9
  OBVIOUS
<1>2. CASE relax = 0
  <2>1. x < tolerance
    BY <1>1, <1>2 DEF Within
  <2>2. x * 2 < tolerance * 3
    BY <2>1
  <2> QED BY <1>1, <1>2, <2>2 DEF Within
<1>3. CASE relax = 1
  <2>1. x * 2 < tolerance * 3
    BY <1>1, <1>3 DEF Within
  <2>2. x * 4 < tolerance * 9
    BY <2>1
  <2> QED BY <1>1, <1>3, <2>2 DEF Within
<1> QED BY <1>2, <1>3

\* The reading now comes last, and those before it keep their distance to it.
LEMMA ReadIsLast ==
  ASSUME TypeOK, NEW c \in Corners, NEW i \in 1..Len(Read(c))
  PROVE  \/ i = Len(Read(c)) /\ Read(c)[i] = Angle(c)
         \/ \E j \in 1..Len(loop.hist[c]) :
              /\ Read(c)[i] = loop.hist[c][j]
              /\ Len(loop.hist[c]) - j = Len(Read(c)) - i - 1
<1> DEFINE old == loop.hist[c]
           h == Append(old, Angle(c))
<1>1. old \in Seq(Int) /\ Len(old) \in Nat /\ Angle(c) \in Int /\ Window \in Nat
  BY AngleType, Consts, LenProperties DEF TypeOK
<1>2. /\ h \in Seq(Int) /\ Len(h) = Len(old) + 1 /\ h[Len(h)] = Angle(c)
      /\ \A j \in 1..Len(old) : h[j] = old[j]
  BY <1>1, AppendProperties
<1>3. CASE Len(h) > Window
  <2>1. h # <<>>
    <3>1. Len(h) # 0
      BY <1>1, <1>2
    <3> QED BY <1>2, <3>1, EmptySeq
  <2>2. /\ Len(Tail(h)) = Len(h) - 1
        /\ \A k \in 1..Len(Tail(h)) : Tail(h)[k] = h[k + 1]
    BY <1>2, <2>1, HeadTailProperties
  <2>3. Read(c) = Tail(h)
    BY <1>3 DEF Read
  <2> HIDE DEF h, old
  <2>4. CASE i = Len(old)
    BY <1>1, <1>2, <2>2, <2>3, <2>4
  <2>5. CASE i # Len(old)
    <3>1. i + 1 \in 1..Len(old) /\ Read(c)[i] = old[i + 1]
      <4>1. i \in 1..Len(Tail(h)) /\ Len(Tail(h)) = Len(old)
        BY <1>1, <1>2, <2>2, <2>3
      <4>2. i + 1 \in 1..Len(old)
        BY <1>1, <2>5, <4>1
      <4>3. Tail(h)[i] = h[i + 1]
        BY <2>2, <4>1
      <4> QED BY <1>2, <2>3, <4>2, <4>3
    <3>2. Len(old) - (i + 1) = Len(Read(c)) - i - 1
      BY <1>1, <1>2, <2>2, <2>3
    <3> QED BY <3>1, <3>2 DEF old
  <2> QED BY <2>4, <2>5
<1>4. CASE ~(Len(h) > Window)
  <2>1. Read(c) = h
    BY <1>4 DEF Read
  <2> HIDE DEF h, old
  <2>2. CASE i = Len(h)
    BY <1>2, <2>1, <2>2
  <2>3. CASE i # Len(h)
    <3>1. i \in 1..Len(old) /\ Read(c)[i] = old[i]
      BY <1>1, <1>2, <2>1, <2>3
    <3>2. Len(old) - i = Len(Read(c)) - i - 1
      BY <1>1, <1>2, <2>1
    <3> QED BY <3>1, <3>2 DEF old
  <2> QED BY <2>2, <2>3
<1> QED BY <1>3, <1>4

\* An approach starts with nothing read.
LEMMA NearAtStart == loop' = Fresh => NearSince'
<1> SUFFICES ASSUME loop' = Fresh, NEW c \in Corners PROVE 1..Len(loop.hist[c])' = {}
  BY DEF NearSince
<1>1. Fresh.hist[c] = <<>>
  BY DEF Fresh
<1> QED BY <1>1, EmptySeq

LEMMA NearTick == Inv /\ NearSince /\ ApproachTick => NearSince'
<1> SUFFICES ASSUME Inv, NearSince, ApproachTick PROVE NearSince'
  OBVIOUS
<1>0. TypeOK /\ flags' = flags
  BY DEF Inv, ApproachTick
<1>1. CASE Lost(StaleTicks)
  BY <1>1, NearAtStart DEF ApproachTick, EndApproach
<1>2. CASE ~Lost(StaleTicks)
  <2>1. /\ pc = "tick" /\ pc' = "sleep"
        /\ loop'.hist = [c \in Corners |-> Read(c)]
        /\ loop'.since = loop.since /\ loop'.relax = loop.relax
        /\ loop'.settled = \A c \in Corners :
             Settled(flags.mode, Read(c), Error(Angle(c)), loop.relax)
    BY <1>2, <1>0 DEF ApproachTick, TypeOK
  <2> SUFFICES ASSUME flags.mode = "tol", NEW c \in Corners, NEW i \in 1..Len(Read(c)),
                      i > Len(Read(c)) - SettledReadings'
               PROVE  Within(Abs(Error(Read(c)[i])), Tol, loop.relax)
    BY <1>0, <2>1 DEF NearSince
  <2>2. Len(Read(c)) \in Nat /\ Len(loop.hist[c]) \in Nat /\ loop.since \in Int
    BY <1>0, ReadType, LenProperties DEF TypeOK
  <2>3. loop'.settled /\ SettledReadings' = SettledReadings + 1
    BY <2>1, <2>2 DEF SettledReadings
  <2>4. Within(Abs(Error(Angle(c))), Tol, loop.relax)
    BY <2>1, <2>3 DEF Settled
  <2>5. ASSUME NEW j \in 1..Len(loop.hist[c]), Read(c)[i] = loop.hist[c][j],
               Len(loop.hist[c]) - j = Len(Read(c)) - i - 1
        PROVE  Within(Abs(Error(Read(c)[i])), Tol, loop.relax)
    <3>1. j > Len(loop.hist[c]) - SettledReadings
      <4>1. SettledReadings \in Int
        BY <2>2, <2>1 DEF SettledReadings
      <4> QED BY <2>2, <2>3, <2>5, <4>1
    <3> QED BY <2>1, <2>5, <3>1 DEF NearSince, Approach
  <2> QED BY <1>0, <2>4, <2>5, ReadIsLast
<1> QED BY <1>1, <1>2

LEMMA NearSleep == Inv /\ NearSince /\ ApproachSleep => NearSince'
<1> SUFFICES ASSUME Inv, NearSince, ApproachSleep PROVE NearSince'
  OBVIOUS
<1>0. TypeOK /\ flags' = flags /\ pc = "sleep"
  BY DEF Inv, ApproachSleep
<1>1. CASE loop' = Fresh
  BY <1>1, NearAtStart
<1>2. CASE loop' # Fresh
  <2>1. /\ pc' = "tick" /\ loop'.hist = loop.hist /\ loop'.since = SettledFor
        /\ \/ loop'.relax = loop.relax
           \/ loop.relax \in 0..1 /\ loop'.relax = loop.relax + 1
    <3>1. loop.relax \in 0..2
      BY <1>0 DEF TypeOK, Relaxations
    <3>2. \/ pc' = "tick" /\ loop' = [loop EXCEPT !.since = SettledFor, !.clock = @ + 1]
          \/ pc' = "tick" /\ loop' = Relaxed /\ ~GivesUp
      BY <1>2 DEF ApproachSleep, EndApproach
    <3>3. CASE loop' = [loop EXCEPT !.since = SettledFor, !.clock = @ + 1]
      BY <1>0, <3>2, <3>3 DEF TypeOK
    <3>4. CASE loop' = Relaxed /\ ~GivesUp
      <4>1. loop'.relax = loop.relax + 1 /\ loop'.hist = loop.hist /\ loop'.since = SettledFor
        BY <1>0, <3>4 DEF TypeOK, Relaxed
      <4>2. ~(loop'.relax >= 3)
        BY <3>4 DEF GivesUp, Relaxations
      <4> QED BY <3>1, <3>2, <4>1, <4>2
    <3> QED BY <3>2, <3>3, <3>4
  <2> SUFFICES ASSUME flags.mode = "tol", NEW c \in Corners, NEW i \in 1..Len(loop.hist[c]),
                      i > Len(loop.hist[c]) - SettledReadings'
               PROVE  Within(Abs(Error(loop.hist[c][i])), Tol, loop'.relax)
    BY <1>0, <2>1 DEF NearSince
  <2>2. loop.since \in Int /\ loop.settled \in BOOLEAN
    BY <1>0 DEF TypeOK
  <2>3. SettledReadings' = SettledReadings
    BY <1>0, <2>1, <2>2 DEF SettledReadings, SettledFor
  <2>4. Within(Abs(Error(loop.hist[c][i])), Tol, loop.relax)
    BY <1>0, <2>3 DEF NearSince, Approach
  <2>5. loop.hist[c][i] \in Int
    BY <1>0 DEF TypeOK
  <2> QED BY <2>1, <2>4, <2>5, ErrorSize, TolConsts, WithinWidens
<1> QED BY <1>1, <1>2

\* Everything else leaves an approach, starts one, or is not in one.
LEMMA NearInv == Inv /\ NearSince /\ [Next]_vars => NearSince'
<1> SUFFICES ASSUME Inv, NearSince, [Next]_vars PROVE NearSince'
  OBVIOUS
<1>1. CASE ApproachTick
  BY <1>1, NearTick
<1>2. CASE ApproachSleep
  BY <1>2, NearSleep
<1>3. CASE UNCHANGED vars
  BY <1>3 DEF NearSince, SettledReadings, vars
<1>4. CASE InitCorners \/ FineTick \/ FineDone \/ Sample \/ SpinTick \/ SpinDone \/ Report
             \/ Interrupt
  <2>1. loop' = Fresh
    BY <1>4 DEF Inv, FreshOutside, Approach, InitCorners, FineTick, FineDone, Sample,
                SpinTick, SpinDone, Report, Interrupt
  <2> QED BY <2>1, NearAtStart
<1> QED BY <1>1, <1>2, <1>3, <1>4 DEF Next, Run

LEMMA NearInit == Init => NearSince
<1> QED BY DEF Init, NearSince, Approach

\* Whether an approach converged is said once, by its end; the spin is between
\* the two approaches.
NotYetReached ==
  /\ pc \in {"init", "tick", "sleep"} => ~reached[phase]
  /\ pc = "spin" => phase = "pre"
  /\ phase = "pre" => ~reached["post"]

LEMMA ReachedInv == Inv /\ NotYetReached /\ [Next]_vars => NotYetReached'
<1> SUFFICES ASSUME Inv, NotYetReached, [Next]_vars PROVE NotYetReached'
  OBVIOUS
<1>0. TypeOK
  BY DEF Inv
<1>1. CASE InitCorners
  BY <1>1 DEF InitCorners, NotYetReached, Leave
<1>2. CASE ApproachTick
  <2>1. phase' = phase /\ pc' \in {"sample", "sleep"} /\ pc = "tick"
    BY <1>2 DEF ApproachTick, EndApproach
  <2>2. reached' = reached \/ reached' = [reached EXCEPT ![phase] = FALSE]
    BY <1>2 DEF ApproachTick, EndApproach
  <2> QED BY <1>0, <2>1, <2>2 DEF NotYetReached, TypeOK, Phases
<1>3. CASE ApproachSleep
  BY <1>0, <1>3 DEF ApproachSleep, EndApproach, NotYetReached, TypeOK, Phases
<1>4. CASE FineTick \/ FineDone \/ SpinTick
  BY <1>4 DEF FineTick, FineDone, SpinTick, NotYetReached, results
<1>5. CASE Sample
  BY <1>5 DEF Sample, NotYetReached
<1>6. CASE SpinDone
  BY <1>0, <1>6 DEF SpinDone, NotYetReached, results, Inv, TypeOK, Phases
<1>7. CASE Report \/ Interrupt
  BY <1>7 DEF Report, Interrupt, Leave, NotYetReached
<1>8. CASE UNCHANGED vars
  BY <1>8 DEF vars, results, NotYetReached
<1> QED BY <1>1, <1>2, <1>3, <1>4, <1>5, <1>6, <1>7, <1>8 DEF Next, Run

Accepted == Inv /\ NearSince /\ NotYetReached

LEMMA AcceptedInit == Init => Accepted
<1>1. Init => NotYetReached
  BY DEF Init, NotYetReached, Phases
<1> QED BY <1>1, InitInv, NearInit DEF Accepted

LEMMA AcceptedStep == Accepted /\ [Next]_vars => Accepted'
<1> QED BY StepInv, NearInv, ReachedInv DEF Accepted

\* The one step that says so: every corner settled for the hold.
LEMMA Accepting ==
  ASSUME Accepted, [Next]_vars, pc = "sleep", reached' # reached
  PROVE  SettledReadings > Hold
<1>1. ApproachSleep
  BY DEF Next, Run, InitCorners, ApproachTick, FineTick, FineDone, Sample, SpinTick,
         SpinDone, Report, Interrupt, results, vars
<1>2. TypeOK /\ ~reached[phase]
  BY DEF Accepted, Inv, NotYetReached
<1>3. Arrived
  <2> SUFFICES ASSUME ~Arrived PROVE reached' = reached
    OBVIOUS
  <2>1. CASE EndApproach(FALSE, "sample")
    <3>1. reached \in [Phases -> BOOLEAN] /\ phase \in Phases
      BY <1>2 DEF TypeOK
    <3>2. reached' = [reached EXCEPT ![phase] = FALSE]
      BY <2>1 DEF EndApproach
    <3> QED BY <1>2, <3>1, <3>2
  <2> QED BY <1>1, <2>1 DEF ApproachSleep
<1>4. loop.since \in Int /\ Hold \in Nat
  BY <1>2, Consts DEF TypeOK
<1> QED BY <1>3, <1>4 DEF Arrived, SettledFor, SettledReadings

\* Accepted by tolerance, the last Hold + 1 readings of every corner, as far as
\* the window looks back, were inside the tolerance then in force.
HoldHeld ==
  [][(pc = "sleep" /\ reached' # reached /\ flags.mode = "tol") =>
       \A c \in Corners : \A i \in 1..Len(loop.hist[c]) :
         Len(loop.hist[c]) - i <= Hold =>
           Within(Abs(Error(loop.hist[c][i])), Tol, loop.relax)]_vars

LEMMA LookBack ==
  ASSUME TypeOK, NEW c \in Corners
  PROVE  Len(loop.hist[c]) \in Nat /\ Len(loop.hist[c]) <= Window /\ loop.since \in Int
<1>1. loop \in [hist : [Corners -> Seq(Int)], stale : [Corners -> Nat],
               settled : BOOLEAN, since : -1..(Relaxations * (Timeout + 1)),
               clock : 0..Timeout, relax : 0..(Relaxations - 1)]
  BY DEF TypeOK
<1>2. loop.hist[c] \in Seq(Int) /\ loop.since \in Int
  BY <1>1
<1>3. Len(loop.hist[c]) <= Window
  BY DEF TypeOK
<1> QED BY <1>2, <1>3, LenProperties

LEMMA AcceptedHeld ==
  ASSUME Accepted, [Next]_vars, pc = "sleep", reached' # reached, flags.mode = "tol",
         NEW c \in Corners, NEW i \in 1..Len(loop.hist[c]), Len(loop.hist[c]) - i <= Hold
  PROVE  Within(Abs(Error(loop.hist[c][i])), Tol, loop.relax)
<1>1. TypeOK /\ NearSince /\ SettledReadings > Hold
  BY Accepting DEF Accepted, Inv
<1>2. Len(loop.hist[c]) \in Nat
  BY <1>1, LookBack
<1>3. Hold \in Nat /\ SettledReadings \in Int
  <2>1. loop.since \in Int
    BY <1>1, LookBack
  <2> QED BY <2>1, Consts DEF SettledReadings
<1>4. i > Len(loop.hist[c]) - SettledReadings
  BY <1>1, <1>2, <1>3
<1> QED BY <1>1, <1>4 DEF NearSince, Approach

\* steer_stress_test.py 453-492: whatever the window and the hold are, a wheel
\* accepted by tolerance has been inside it for the hold and one reading more.
THEOREM HeldForTheHold == Spec => HoldHeld
<1>1. Accepted /\ [Next]_vars =>
        [(pc = "sleep" /\ reached' # reached /\ flags.mode = "tol") =>
           \A c \in Corners : \A i \in 1..Len(loop.hist[c]) :
             Len(loop.hist[c]) - i <= Hold =>
               Within(Abs(Error(loop.hist[c][i])), Tol, loop.relax)]_vars
  BY AcceptedHeld
<1> QED BY AcceptedInit, AcceptedStep, <1>1, PTL DEF Spec, HoldHeld

\* The same for the whole window, as the run checks it, wherever the hold is no
\* shorter than the window looks back: by default 1 s against 0.2 s.
THEOREM TolIsHeld == ASSUME Window <= Hold + 1 PROVE Spec => TolHeld
<1>1. Accepted /\ [Next]_vars =>
        [(pc = "sleep" /\ reached' # reached /\ flags.mode = "tol") =>
           \A c \in Corners : \A i \in 1..Len(loop.hist[c]) :
             Within(Abs(Error(loop.hist[c][i])), Tol, loop.relax)]_vars
  <2> SUFFICES ASSUME Accepted, [Next]_vars, pc = "sleep", reached' # reached,
                      flags.mode = "tol",
                      NEW c \in Corners, NEW i \in 1..Len(loop.hist[c])
               PROVE  Within(Abs(Error(loop.hist[c][i])), Tol, loop.relax)
    OBVIOUS
  <2>1. Len(loop.hist[c]) \in Nat /\ Len(loop.hist[c]) <= Window /\ Window \in Nat /\ Hold \in Nat
    BY Consts, LookBack DEF Accepted, Inv
  <2> QED BY <2>1, AcceptedHeld
<1> QED BY AcceptedInit, AcceptedStep, <1>1, PTL DEF Spec, TolHeld
=============================================================================
