---------------------------- MODULE MotionTools ----------------------------
(***************************************************************************)
(* The scripts under tools/ and examples/ that enable motors, run one after *)
(* the other on the same controllers.  A script is data: blocks of steps,  *)
(* the straight part first, then the body of its try, then its finally     *)
(* blocks from the innermost out.  The machine below runs one, with SIGINT *)
(* or an error at any step and frames that get lost, while the heartbeat   *)
(* thread and the controllers' watchdog go their own ways.                 *)
(*                                                                         *)
(* A controller keeps its setpoint when it is disabled, and acts on it     *)
(* again as soon as anybody's heartbeat enables it.                        *)
(***************************************************************************)
EXTENDS Naturals, Sequences

CONSTANTS
  Tools,        \* the scripts that may be run
  MaxRuns,      \* how many more are run after the first
  MaxSigints,   \* Ctrl-C per run
  MaxErrors,    \* exceptions per run
  MaxLost       \* setpoint frames lost per run

Motors == {"drive", "steer"}

ASSUME BoundsAssumption ==
  MaxRuns \in Nat /\ MaxSigints \in Nat /\ MaxErrors \in Nat /\ MaxLost \in Nat

-----------------------------------------------------------------------------
(* Steps.  "on" names the motors a step is about.                          *)

Step(what, who) == [do |-> what, on |-> who]

Refuse   == Step("refuse", {})      \* gates that end the script with REFUSED
Confirm  == Step("confirm", {})     \* input(...)
Open     == Step("open", {})        \* SparkBus(): the heartbeat starts
Trap     == Step("trap", {})        \* signal.signal(SIGINT, stop)
Ignore   == Step("ignore", {})      \* signal.signal(SIGINT, SIG_IGN)
Live     == Step("live", {})        \* have the controllers been heard?
Shutdown == Step("shutdown", {})    \* bus.shutdown(), which zeroes as well
Wait     == Step("wait", {})        \* the operator turns a wheel, frames are read
Init(S)  == Step("init", S)         \* init_controller
Zero(S)  == Step("zero", S)         \* percent_output(0.0)
Hold(S)  == Step("hold", S)         \* a loop that drives S and zeroes the others

\* Mutant: no zero after it.
InitOnly(s) == <<Init({s[k] : k \in 1..Len(s)})>>

\* init_controller and the zero right after it, motor by motor.
InitZero(s) ==
  [k \in 1..(2 * Len(s)) |->
     IF k % 2 = 1 THEN Init({s[(k + 1) \div 2]}) ELSE Zero({s[k \div 2]})]

Script(blocks, handler, motors) ==
  [blocks |-> blocks, handler |-> handler, motors |-> motors]

One  == {"steer"}
Both == <<"drive", "steer">>

-----------------------------------------------------------------------------
(* The scripts                                                             *)

SpinGates  == <<Refuse, Refuse, Confirm>>   \* the groups and ids, the bus
SpinLeave  == <<Zero(Motors), Shutdown>>

\* --sequential: each holds its duty, the others are held at 0, then it is
\* zeroed before the next.
Turns == <<Hold({"drive"}), Zero({"drive"}), Hold({"steer"}), Zero({"steer"})>>

SpinAll ==
  Script(<<SpinGates \o <<Open>>, InitZero(Both) \o <<Live, Hold(Motors)>>, SpinLeave>>,
         <<>>, Motors)
SpinSequential ==
  Script(<<SpinGates \o <<Open>>, InitZero(Both) \o <<Live>> \o Turns, SpinLeave>>,
         <<>>, Motors)

TuneGates == <<Refuse, Confirm>>
SlipGates == <<Refuse, Confirm>>
SteerOpens == <<Open, Init(One), Trap>>
StopHandler == <<Zero(One), Shutdown>>

SteerLeave == <<Zero(One), Shutdown>>

\* run_step ends each step with a zero.
SteerTune ==
  Script(<<TuneGates \o SteerOpens,
           <<Hold(One), Zero(One), Hold(One), Zero(One)>>, SteerLeave>>,
         StopHandler, One)
SteerSlip ==
  Script(<<SlipGates \o SteerOpens, <<Hold(One)>>, SteerLeave>>, StopHandler, One)

DecodeFlags  == <<Refuse>>
DecodeConfig == <<Refuse>>
SteerDecode ==
  Script(<<DecodeFlags \o DecodeConfig \o <<Confirm, Open>>,
           <<Trap>> \o InitZero(<<"steer">>) \o <<Live, Refuse, Wait>>,
           <<Ignore, Zero(One), Shutdown>>>>,
         <<Zero(One)>>, One)

PidFlags   == <<Refuse>>
PidConfig  == <<Refuse>>
PidEncoder == <<Refuse, Confirm>>
SteerPid ==
  Script(<<PidFlags \o PidConfig \o PidEncoder,
           <<Open>> \o InitZero(<<"steer">>) \o <<Live, Hold(One)>>,
           <<Zero(One)>>, <<Shutdown>>>>,
         <<>>, One)

StressFlags  == <<Refuse>>
StressConfig == <<Refuse>>
StressPlan   == <<Refuse, Confirm>>
InitCorners == InitZero(<<"steer", "drive">>) \o <<Live, Refuse>>
\* The approach, the spin and the second approach, with record_spin's finally.
RecordSpin  == <<Hold(One), Zero(Motors), Hold(Motors), Zero(Motors), Hold(One)>>
\* (While the corners are set up there is only the outer finally; nothing is
\* driven yet.)
SteerStress ==
  Script(<<StressFlags \o StressConfig \o StressPlan \o <<Open>>, InitCorners \o RecordSpin,
           <<Zero(Motors)>>, <<Zero(Motors), Shutdown>>>>,
         <<>>, Motors)

\* A thread commands zero ten times a second from here on.
HeartbeatProbe ==
  Script(<<<<Open, Init(Motors), Wait, Zero(Motors), Wait>>, <<Wait>>, <<Shutdown>>>>,
         <<>>, Motors)

SpinOneMotor ==
  Script(<<<<Confirm, Open, Init(One), Hold(One), Zero(One), Shutdown>>>>, <<>>, One)
DriveAndSteer ==
  Script(<<<<Confirm, Open, Init(Motors), Hold(Motors), Zero(Motors), Shutdown>>>>,
         <<>>, Motors)
SwerveModule ==
  Script(<<<<Refuse, Confirm, Open, Init(Motors), Hold(Motors), Zero(Motors), Shutdown>>>>,
         <<>>, Motors)
SeedAndSteer ==
  Script(<<<<Refuse, Confirm, Open, Init(One), Wait, Hold(One), Zero(One), Wait,
             Shutdown>>>>, <<>>, One)
JoystickDrive ==
  Script(<<<<Refuse, Confirm>>, <<Open, Init(Motors), Wait, Hold(Motors)>>,
           <<Zero(Motors), Shutdown>>>>, <<>>, Motors)

Scripts ==
  [spin |-> SpinAll, spinSequential |-> SpinSequential, tune |-> SteerTune,
   slip |-> SteerSlip, decode |-> SteerDecode, pid |-> SteerPid,
   stress |-> SteerStress, probe |-> HeartbeatProbe, example01 |-> SpinOneMotor,
   example02 |-> DriveAndSteer, example04 |-> SwerveModule,
   example05 |-> SeedAndSteer, example06 |-> JoystickDrive]

ASSUME ToolsAssumption == Tools \subseteq DOMAIN Scripts

-----------------------------------------------------------------------------
VARIABLES
  tool, block, step,   \* the script that runs and where; block 0: it has ended
  todo,                \* the motors this step has not come to yet
  trapped,             \* who takes SIGINT: Python, the script's handler, nobody
  handling,            \* the handler runs, on top of the step
  bus,                 \* "none", "open", "closed"
  registered, armed,   \* motors the heartbeat names, and those it has enabled
  setpoint,            \* per motor: "zero", "run", or "old": another script's
  ending,              \* how the script will have ended
  runs, sigints, errors, lost

place == <<tool, block, step, todo, trapped, handling>>
wire  == <<bus, registered, armed, setpoint>>
faults == <<sigints, errors, lost>>
vars  == <<place, wire, ending, runs, faults>>

S == Scripts[tool]
Steps == IF handling THEN S.handler ELSE S.blocks[block]
Running == block # 0
At(what) == Running /\ step <= Len(Steps) /\ Steps[step].do = what

TypeOK ==
  /\ tool \in Tools /\ block \in 0..Len(S.blocks) /\ step \in 1..12
  /\ todo \subseteq Motors /\ trapped \in {"python", "handler", "nobody"}
  /\ handling \in BOOLEAN /\ bus \in {"none", "open", "closed"}
  /\ registered \subseteq Motors /\ armed \subseteq Motors
  /\ setpoint \in [Motors -> {"zero", "run", "old"}]
  /\ ending \in {"-", "refused", "error", "interrupted", "cut"}
  /\ runs \in 0..MaxRuns /\ sigints \in 0..MaxSigints /\ errors \in 0..MaxErrors
  /\ lost \in 0..MaxLost

StartUp ==
  /\ tool \in Tools /\ block = 1 /\ step = 1 /\ todo = {}
  /\ trapped = "python" /\ handling = FALSE
  /\ bus = "none" /\ registered = {} /\ armed = {}
  /\ setpoint = [m \in Motors |-> "zero"]
  /\ ending = "-" /\ runs = 0 /\ sigints = 0 /\ errors = 0 /\ lost = 0

-----------------------------------------------------------------------------
Enter(b) ==
  block' = b /\ step' = 1 /\ handling' = FALSE /\ UNCHANGED tool

\* Mutant: an exception runs on into the next block, whatever block that is.
UnwindOn(b) == Enter(b + 1)

\* From block b outward: a finally block is entered, the straight part is not
\* protected by one.
Unwind(b) == Enter(IF b > 1 /\ b < Len(S.blocks) THEN b + 1 ELSE 0)

\* After the last step of a block or of the handler.
BlockEnds ==
  /\ Running /\ step > Len(Steps)
  /\ IF handling THEN Unwind(block) /\ ending' = "interrupted"
     ELSE Enter(IF block < Len(S.blocks) THEN block + 1 ELSE 0) /\ UNCHANGED ending
  /\ todo' = {} /\ UNCHANGED <<trapped, wire, runs, faults>>

Leave == Len(S.blocks)

\* "cut": the exception came in the last finally itself.
Raise(how) ==
  /\ ending' = IF block = Leave /\ block > 1 THEN "cut" ELSE how
  /\ Unwind(block) /\ todo' = {} /\ UNCHANGED trapped

\* The step is done.
Advance ==
  /\ step' = step + 1 /\ todo' = {}
  /\ UNCHANGED <<tool, block, trapped, handling, ending>>

Gate ==
  /\ At("refuse") \/ At("confirm") \/ At("live")
  /\ Advance \/ Raise("refused")
  /\ UNCHANGED <<wire, runs, faults>>

Waits == At("wait") /\ Advance /\ UNCHANGED <<wire, runs, faults>>

Signals ==
  /\ At("trap") \/ At("ignore")
  /\ trapped' = (IF At("trap") THEN "handler" ELSE "nobody")
  /\ step' = step + 1 /\ todo' = {}
  /\ UNCHANGED <<tool, block, handling, wire, ending, runs, faults>>

Opens ==
  /\ At("open") /\ bus' = "open" /\ Advance
  /\ UNCHANGED <<registered, armed, setpoint, runs, faults>>

\* init_controller puts the id into the enable array.
Inits ==
  /\ At("init")
  /\ LET rest == Steps[step].on \ registered IN
     IF rest = {} THEN Advance /\ UNCHANGED registered
     ELSE /\ \E m \in rest : registered' = registered \cup {m}
          /\ UNCHANGED <<place, ending>>
  /\ UNCHANGED <<bus, armed, setpoint, runs, faults>>

\* A setpoint frame for m: nothing on a closed bus, and it may be lost.
Sends(m, value) ==
  \/ /\ setpoint' = IF bus = "open" THEN [setpoint EXCEPT ![m] = value] ELSE setpoint
     /\ UNCHANGED faults
  \/ /\ lost < MaxLost /\ lost' = lost + 1
     /\ UNCHANGED <<setpoint, sigints, errors>>

\* The motors a script zeroes are those it has an object for.
Zeroes ==
  /\ At("zero")
  /\ LET rest == (Steps[step].on \cap registered) \ todo IN
     IF rest = {} THEN Advance /\ UNCHANGED <<setpoint, faults>>
     ELSE \E m \in rest :
            /\ Sends(m, "zero") /\ todo' = todo \cup {m}
            /\ UNCHANGED <<tool, block, step, trapped, handling, ending>>
  /\ UNCHANGED <<bus, registered, armed, runs>>

\* The loop of a motion: some commands, and out when its time is up.
Holds ==
  /\ At("hold")
  /\ \/ Advance /\ UNCHANGED <<setpoint, faults>>
     \/ /\ \E m \in registered :
             \/ m \in Steps[step].on /\ Sends(m, "run")
             \/ m \notin Steps[step].on /\ Sends(m, "zero")
        /\ UNCHANGED <<place, ending>>
  /\ UNCHANGED <<bus, registered, armed, runs>>

\* Mutant: shutdown closes at once.
ZeroNone(set) == set

\* shutdown zeroes every registered controller for 0.2 s, so that one lost frame
\* does not matter, and then closes.  It does nothing on a closed bus.
ZeroAll(set) == [m \in Motors |-> IF m \in registered THEN "zero" ELSE set[m]]

ShutsDown ==
  /\ At("shutdown")
  /\ IF bus # "open" THEN Advance /\ UNCHANGED <<bus, setpoint>>
     ELSE IF todo = {} THEN /\ setpoint' = ZeroAll(setpoint) /\ todo' = Motors
                            /\ UNCHANGED <<bus, tool, block, step, trapped, handling, ending>>
     ELSE bus' = "closed" /\ Advance /\ UNCHANGED setpoint
  /\ UNCHANGED <<registered, armed, runs, faults>>

Do == BlockEnds \/ Gate \/ Waits \/ Signals \/ Opens \/ Inits \/ Zeroes \/ Holds \/ ShutsDown

\* KeyboardInterrupt from wherever the script is; or its handler runs on top,
\* also on top of itself.
Sigint ==
  /\ Running /\ sigints < MaxSigints /\ sigints' = sigints + 1
  /\ CASE trapped = "python"  -> Raise("interrupted")
       [] trapped = "handler" -> /\ handling' = TRUE /\ step' = 1 /\ todo' = {}
                                 /\ UNCHANGED <<tool, block, trapped, ending>>
       [] OTHER               -> UNCHANGED <<place, ending>>
  /\ UNCHANGED <<wire, runs, errors, lost>>

\* The bus does not open, an encoder object raises, a file is not there.
Error ==
  /\ At("open") \/ At("init") \/ At("wait") \/ At("hold")
  /\ errors < MaxErrors /\ errors' = errors + 1
  /\ Raise("error") /\ UNCHANGED <<wire, runs, sigints, lost>>

-----------------------------------------------------------------------------
Beat ==
  /\ Running /\ bus = "open" /\ armed' = armed \cup registered
  /\ UNCHANGED <<place, bus, registered, setpoint, ending, runs, faults>>

\* No heartbeat for the controllers' window: they disable and keep the setpoint.
Watchdog ==
  /\ ~Running \/ bus # "open"
  /\ armed' = {}
  /\ UNCHANGED <<place, bus, registered, setpoint, ending, runs, faults>>

\* The operator runs the next script.
RunNext(t) ==
  /\ ~Running /\ armed = {} /\ runs < MaxRuns /\ runs' = runs + 1
  /\ tool' = t /\ block' = 1 /\ step' = 1 /\ todo' = {}
  /\ trapped' = "python" /\ handling' = FALSE
  /\ bus' = "none" /\ registered' = {} /\ UNCHANGED armed
  /\ setpoint' = [m \in Motors |-> IF setpoint[m] = "run" THEN "old" ELSE setpoint[m]]
  /\ ending' = "-" /\ sigints' = 0 /\ errors' = 0 /\ lost' = 0

Next == Do \/ Sigint \/ Error \/ Beat \/ Watchdog \/ \E t \in Tools : RunNext(t)

Spec == StartUp /\ [][Next]_vars

-----------------------------------------------------------------------------
\* Scripts with a finally, and those whose finally stands a Ctrl-C of its own:
\* it ignores the signal, or zeroes in one block and shuts down in another.
Guarded  == Leave > 1
Doubled  == {"decode", "pid", "stress"}

\* A script with a finally leaves no motor a setpoint of its own that the next
\* heartbeat of anybody would turn it by, whatever one thing went wrong: a lost
\* frame, an exception, a Ctrl-C at any step, that in its handler or in a doubled
\* finally included.
LeftQuiet ==
  ~Running /\ Guarded /\ sigints + errors + lost <= 1 =>
    (ending = "cut" /\ tool \notin Doubled) \/ \A m \in Motors : setpoint[m] # "run"

\* Scripts that zero each controller right after registering it: once they
\* drive, nothing turns by what an earlier script had left.
ZeroesFirst == {"spin", "spinSequential", "decode", "pid", "stress"}
OldIsBrief ==
  tool \in ZeroesFirst /\ lost = 0 /\ (At("hold") \/ At("live")) =>
    \A m \in registered : setpoint[m] # "old"
=============================================================================
