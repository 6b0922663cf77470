---------------------------- MODULE SteerStress ----------------------------
(***************************************************************************)
(* tools/steer_stress_test.py --label spin: steer every corner to an angle *)
(* on its CANcoder, spin all of them, steer back, and compare where they    *)
(* came to rest.                                                           *)
(* Angles are whole steps of a turn, duties keep their sign, time is loop  *)
(* ticks. A wheel follows its duty or sticks; a CANcoder may fall silent,   *)
(* and its signal then goes on answering with the last angle it carried.    *)
(***************************************************************************)
EXTENDS Integers, Sequences, FiniteSets

CONSTANTS
  Corners,
  Turn,          \* steps in a turn
  Target,
  Tol, FineTol, Deadband, FineDeadband, Motion,   \* in steps, exclusive
  Window, Hold, Timeout, FineTimeout, SpinTicks, FlipTicks,   \* in ticks
  LossTicks,     \* SIGNAL_LOSS_TICKS
  MaxTrouble     \* pushes at a wheel and CANcoders that fall silent, together

ASSUME ConstantsAssumption ==
  /\ IsFiniteSet(Corners) /\ Turn \in Nat \ {0} /\ Turn % 2 = 0 /\ Target \in 0..(Turn - 1)
  /\ {Tol, FineTol, Motion} \subseteq Nat \ {0} /\ {Deadband, FineDeadband} \subseteq Nat
  /\ {Timeout, FineTimeout, SpinTicks, FlipTicks, LossTicks} \subseteq Nat \ {0}
  /\ Window \in Nat \ {0, 1} /\ {Hold, MaxTrouble} \subseteq Nat

Modes    == {"static", "tol", "either"}
Phases   == {"pre", "post"}
Patterns == {"off", "mirror", "static"}
Duties   == {-1, 0, 1}
Relaxations == 3

VARIABLES
  flags,           \* --settle-mode and --fine-converge
  wheel,           \* where each wheel points
  alive, held,     \* its CANcoder, and the angle the signal answers with
  steer, drive,    \* the duties last commanded
  pc, phase,
  loop,            \* the locals of _drive_to_target_multi
  conv, clock,     \* those of the fine pass; its clock is the spin's too
  spin,
  reached, stale,  \* per approach: whether it converged; a read without a frame
  exit,
  trouble,
  blind            \* history: ticks in a row a duty rested on a held angle

world   == <<wheel, alive, trouble>>
outputs == <<steer, drive>>
results == <<reached, stale, exit>>
vars == <<flags, world, held, outputs, pc, phase, loop, conv, clock, spin, results, blind>>

Zero == [c \in Corners |-> 0]
Fresh == [hist |-> [c \in Corners |-> <<>>], stale |-> Zero, settled |-> FALSE,
          since |-> -1, clock |-> 0, relax |-> 0]
NoSpin == [dir |-> 1, pattern |-> "off"]

-----------------------------------------------------------------------------
(* sparklib.steer.                                                         *)

Abs(x) == IF x < 0 THEN -x ELSE x

Normalize(a) ==
  LET half == Turn \div 2
      r == ((a + half) % Turn) - half
  IN IF r = -half THEN half ELSE r

Error(angle) == Normalize(Target - angle)

POutput(err, deadband) ==
  IF Abs(err) < deadband \/ err = 0 THEN 0 ELSE IF err > 0 THEN 1 ELSE -1

\* A tolerance after so many relaxations by half.
Within(x, tolerance, relax) == x * 2^relax < tolerance * 3^relax

Settled(mode, readings, err, relax) ==
  LET near    == Within(Abs(err), Tol, relax)
      stopped == /\ Len(readings) = Window
                 /\ \A i, j \in 1..Window : Within(readings[i] - readings[j], Motion, relax)
  IN \/ mode # "static" /\ near
     \/ mode # "tol" /\ stopped

-----------------------------------------------------------------------------
(* The rig.                                                                *)

Turned(w, d) == (w + d) % Turn

Pushes == {Zero} \cup {[Zero EXCEPT ![c] = p] : c \in Corners, p \in {-1, 1}}

Move(duty, moving, pushed) ==
  wheel' = [c \in Corners |->
              Turned(wheel[c], pushed[c] + (IF c \in moving THEN duty[c] ELSE 0))]

Fall(pushed, silent) ==
  /\ alive' = [c \in Corners |-> c \notin silent]
  /\ trouble' = trouble + Cardinality({c \in silent : alive[c]})
                        + (IF pushed = Zero THEN 0 ELSE 1)
  /\ trouble' <= MaxTrouble

\* Between two ticks each wheel follows its duty or sticks; one may be pushed,
\* CANcoders may fall silent, silent ones may come back.
Turns(duty) ==
  \E moving \in SUBSET {c \in Corners : duty[c] # 0}, silent \in SUBSET Corners, pushed \in Pushes :
    Move(duty, moving, pushed) /\ Fall(pushed, silent)

\* _refresh: a silent CANcoder's signal keeps what it had.
Refreshed == [c \in Corners |-> IF alive[c] THEN wheel[c] ELSE held[c]]

Angle(c) == Normalize(Refreshed[c])

StopAll == steer' = Zero /\ drive' = Zero /\ blind' = Zero

\* A closed loop has commanded this duty on what it just read.
Steered(duty) ==
  /\ steer' = duty
  /\ drive' = Zero
  /\ blind' = [c \in Corners |-> IF alive[c] \/ duty[c] = 0 THEN 0 ELSE blind[c] + 1]

Init ==
  /\ flags \in [mode : Modes, fine : BOOLEAN]
  /\ wheel \in [Corners -> 0..(Turn - 1)]
  /\ held = Zero
  /\ alive \in [Corners -> BOOLEAN]
  /\ steer = Zero /\ drive = Zero
  /\ pc = "init" /\ phase = "pre"
  /\ loop = Fresh /\ conv = {} /\ clock = 0 /\ spin = NoSpin
  /\ reached = [p \in Phases |-> FALSE] /\ stale = FALSE /\ exit = "none"
  /\ trouble = 0 /\ blind = Zero

Leave(code) == pc' = "done" /\ exit' = code

\* _init_corners: every corner is zeroed, and one that no CANcoder frame
\* arrived for refuses the run.
InitCorners ==
  /\ pc = "init"
  /\ held' = Refreshed
  /\ StopAll
  /\ IF \A c \in Corners : alive[c]
       THEN pc' = "tick" /\ UNCHANGED exit
       ELSE Leave("refused")
  /\ UNCHANGED <<flags, world, phase, loop, conv, clock, spin, reached, stale>>

-----------------------------------------------------------------------------
(* _drive_to_target_multi.                                                 *)

EndApproach(converged, next) ==
  /\ StopAll
  /\ reached' = [reached EXCEPT ![phase] = converged]
  /\ loop' = Fresh
  /\ pc' = next

StaleTicks == [c \in Corners |-> IF alive[c] THEN 0 ELSE loop.stale[c] + 1]

\* Mutant: given up only when every corner is lost.
LostWhenAll(ticks) == \A c \in Corners : ticks[c] >= LossTicks

Lost(ticks) == \E c \in Corners : ticks[c] >= LossTicks

\* Mutant: the window is not bounded.
ReadOn(c) == Append(loop.hist[c], Angle(c))

Read(c) ==
  LET h == Append(loop.hist[c], Angle(c))
  IN IF Len(h) > Window THEN Tail(h) ELSE h

\* A refresh, a duty for every corner and what it says of having arrived; or a
\* corner without a frame for too long, which ends the approach.
ApproachTick ==
  /\ pc = "tick"
  /\ held' = Refreshed
  /\ \/ /\ Lost(StaleTicks)
        /\ EndApproach(FALSE, "sample")
     \/ /\ ~Lost(StaleTicks)
        /\ Steered([c \in Corners |-> POutput(Error(Angle(c)), Deadband)])
        /\ loop' = [loop EXCEPT
                      !.hist = [c \in Corners |-> Read(c)],
                      !.stale = StaleTicks,
                      !.settled = \A c \in Corners :
                         Settled(flags.mode, Read(c), Error(Angle(c)), loop.relax)]
        /\ pc' = "sleep"
        /\ UNCHANGED reached
  /\ UNCHANGED <<flags, world, phase, conv, clock, spin, stale, exit>>

\* Mutant: a corner that leaves does not start the hold anew.
SettledOnAndOff == IF loop.settled \/ loop.since >= 0 THEN loop.since + 1 ELSE -1

\* Ticks for which every corner has stayed settled, -1 for none.
SettledFor == IF loop.settled THEN loop.since + 1 ELSE -1

Arrived == loop.settled /\ loop.since >= 0 /\ SettledFor >= Hold

\* Mutant: relaxed once more and once more.
RelaxedUncounted == [loop EXCEPT !.since = SettledFor, !.clock = 0]

\* The tolerances half as wide again, and the clock from zero.
Relaxed == [loop EXCEPT !.since = SettledFor, !.clock = 0, !.relax = @ + 1]

GivesUp == Relaxed.relax >= Relaxations

\* The sleep of a tick and what follows it: accepted, a tick more, the
\* tolerances relaxed, or given up.
ApproachSleep ==
  /\ pc = "sleep"
  /\ Turns(steer)
  /\ \/ /\ Arrived
        /\ EndApproach(TRUE, IF flags.fine THEN "fine" ELSE "sample")
     \/ /\ ~Arrived /\ loop.clock + 1 <= Timeout
        /\ loop' = [loop EXCEPT !.since = SettledFor, !.clock = @ + 1]
        /\ pc' = "tick"
        /\ UNCHANGED <<outputs, reached, blind>>
     \/ /\ ~Arrived /\ loop.clock + 1 > Timeout /\ ~GivesUp
        /\ loop' = Relaxed
        /\ pc' = "tick"
        /\ UNCHANGED <<outputs, reached, blind>>
     \/ /\ ~Arrived /\ loop.clock + 1 > Timeout /\ GivesUp
        /\ EndApproach(FALSE, "sample")
  /\ UNCHANGED <<flags, held, phase, conv, clock, spin, stale, exit>>

-----------------------------------------------------------------------------
(* _fine_converge_multi.                                                   *)

Converged == conv \cup {c \in Corners : Abs(Error(Angle(c))) < FineTol}

\* A corner once inside the tolerance keeps the zero it was given there.
FineDuty(c) ==
  IF c \in Converged THEN 0 ELSE POutput(Error(Angle(c)), FineDeadband)

FineTick ==
  /\ pc = "fine" /\ clock < FineTimeout /\ conv # Corners
  /\ held' = Refreshed
  /\ conv' = Converged
  /\ Steered([c \in Corners |-> FineDuty(c)])
  /\ Turns([c \in Corners |-> FineDuty(c)])
  /\ clock' = clock + 1
  /\ UNCHANGED <<flags, pc, phase, loop, spin, results>>

FineDone ==
  /\ pc = "fine" /\ (clock >= FineTimeout \/ conv = Corners)
  /\ StopAll
  /\ pc' = "sample" /\ conv' = {} /\ clock' = 0
  /\ UNCHANGED <<flags, world, held, phase, loop, spin, results>>

-----------------------------------------------------------------------------
(* record_spin.                                                            *)

\* _sample_cancoder on every corner, the wheels at rest.
Sample ==
  /\ pc = "sample"
  /\ held' = Refreshed
  /\ stale' = (stale \/ \E c \in Corners : ~alive[c])
  /\ \/ /\ phase = "pre" /\ pc' = "spin"
        /\ \E p \in Patterns : spin' = [NoSpin EXCEPT !.pattern = p]
     \/ /\ phase = "post" /\ pc' = "report"
        /\ UNCHANGED spin
  /\ UNCHANGED <<flags, world, outputs, phase, loop, conv, clock, reached, exit, blind>>

Direction == IF clock > 0 /\ clock % FlipTicks = 0 THEN -spin.dir ELSE spin.dir

DriveDirection == CASE spin.pattern = "off"    -> 0
                    [] spin.pattern = "static" -> 1
                    [] OTHER                   -> Direction

\* _aggressive_spin_multi reverses every corner together and judges nothing
\* by a signal that has gone quiet.
SpinTick ==
  /\ pc = "spin" /\ clock < SpinTicks
  /\ held' = Refreshed
  /\ steer' = [c \in Corners |-> Direction]
  /\ drive' = [c \in Corners |-> DriveDirection]
  /\ Turns(steer')
  /\ spin' = [spin EXCEPT !.dir = Direction]
  /\ clock' = clock + 1
  /\ UNCHANGED <<flags, pc, phase, loop, conv, results, blind>>

SpinDone ==
  /\ pc = "spin" /\ clock >= SpinTicks
  /\ StopAll
  /\ pc' = "tick" /\ phase' = "post" /\ clock' = 0 /\ spin' = NoSpin
  /\ UNCHANGED <<flags, world, held, loop, conv, results>>

Verdict == IF (\A p \in Phases : reached[p]) /\ ~stale THEN "ok" ELSE "failed"

Report ==
  /\ pc = "report"
  /\ StopAll
  /\ Leave(Verdict)
  /\ UNCHANGED <<flags, world, held, phase, loop, conv, clock, spin, reached, stale>>

\* Ctrl-C anywhere under power: the finally of record_spin, and of main.
Interrupt ==
  /\ pc \in {"init", "tick", "sleep", "fine", "sample", "spin"}
  /\ StopAll
  /\ Leave("interrupted")
  /\ loop' = Fresh /\ conv' = {} /\ clock' = 0 /\ spin' = NoSpin
  /\ UNCHANGED <<flags, world, held, phase, reached, stale>>

Run == \/ InitCorners \/ ApproachTick \/ ApproachSleep \/ FineTick \/ FineDone
       \/ Sample \/ SpinTick \/ SpinDone \/ Report

Next == Run \/ Interrupt

Spec == Init /\ [][Next]_vars /\ WF_vars(Run)

-----------------------------------------------------------------------------

TypeOK ==
  /\ flags \in [mode : Modes, fine : BOOLEAN]
  /\ wheel \in [Corners -> 0..(Turn - 1)] /\ held \in [Corners -> 0..(Turn - 1)]
  /\ alive \in [Corners -> BOOLEAN]
  /\ steer \in [Corners -> Duties] /\ drive \in [Corners -> Duties]
  /\ pc \in {"init", "tick", "sleep", "fine", "sample", "spin", "report", "done"}
  /\ phase \in Phases
  /\ loop \in [hist : [Corners -> Seq(Int)], stale : [Corners -> Nat],
               settled : BOOLEAN, since : -1..(Relaxations * (Timeout + 1)),
               clock : 0..Timeout, relax : 0..(Relaxations - 1)]
  /\ \A c \in Corners : Len(loop.hist[c]) <= Window
  /\ conv \subseteq Corners /\ clock \in 0..(FineTimeout + SpinTicks)
  /\ spin \in [dir : {-1, 1}, pattern : Patterns]
  /\ reached \in [Phases -> BOOLEAN] /\ stale \in BOOLEAN
  /\ exit \in {"none", "refused", "ok", "failed", "interrupted"}
  /\ trouble \in 0..MaxTrouble
  /\ blind \in [Corners -> 0..(LossTicks + FineTimeout)]

\* An approach never rests a duty on a held angle for SIGNAL_LOSS_TICKS, which
\* corner it is and whatever the others report.
BlindIsBrief == pc \in {"tick", "sleep"} => \A c \in Corners : blind[c] < LossTicks

\* Accepted by tolerance, no reading in the look-back window was outside the
\* tolerance then in force: a wheel passing through the target is not accepted.
TolHeld ==
  [][(pc = "sleep" /\ reached' # reached /\ flags.mode = "tol") =>
       \A c \in Corners : \A i \in 1..Len(loop.hist[c]) :
         Within(Abs(Error(loop.hist[c][i])), Tol, loop.relax)]_vars

\* A stuck wheel, a silent CANcoder, a deadband wider than the tolerance: every
\* run comes to its end.
Ends == <>(pc = "done")
=============================================================================
