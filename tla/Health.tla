------------------------------- MODULE Health -------------------------------
(***************************************************************************)
(* A rig of controllers and the commands that say how it is: `spark        *)
(* status`, `faults`, `voltage`, `clear`, `throttle`, `repair` and `audit`, *)
(* run one after the other by an operator who does what the last ones      *)
(* advised.                                                                *)
(* Power fails and returns, faults latch, a bus back from a power cycle     *)
(* broadcasts nothing until a host frame wakes it, and frames get lost.     *)
(* A command knows a controller by what a listening window brought it.      *)
(***************************************************************************)
EXTENDS Integers, FiniteSets

CONSTANTS
  Devs,         \* the configured ids, in the order of the chain
  Rigs,         \* what the rig may be, see RigType
  MaxTrouble    \* power failures, faults and lost requests, together

Frames == {0, 1}    \* of those each generation broadcasts: telemetry and faults
Paces  == {"ours", "cold"}        \* what this package sets, REV's default
Bits   == {"fault", "hasReset"}

RigType ==
  [gen     : {"pre25", "fw25"},
   ramOnly : SUBSET Devs,  \* whose Status 1 Period was never burned (25+)
   mute    : SUBSET Bits]  \* the bits whose documented remedy does not say `clear`

ASSUME ConstantsAssumption ==
  /\ Devs \subseteq 1..62 /\ IsFiniteSet(Devs) /\ Devs # {} /\ Rigs \subseteq RigType
  /\ MaxTrouble \in Nat

\* What inventory's mean period, gaps and last frame amount to: none is a frame that
\* did not come, or came at a period nobody configured.
Verdicts == Paces \cup {"none", "stopped", "gap"}

Orders == ({"status", "faults", "voltage", "clear", "throttle", "audit"} \X {0})
            \cup ({"repair"} \X Devs)

None == <<"none", 0>>

VARIABLES
  gen, ramOnly, mute,
  dev,      \* the controllers
  past,     \* what each showed since the socket was last read dry
  steady,   \* who has been broadcasting throughout the present window
  order, pc, exit,
  before,         \* the reading it compares with a later one
  todo,           \* what it still has to send
  record,         \* clear's, per controller: the bits read before
  advice,         \* what the last audit advised and nobody has carried out
  trouble,
  calm, alike, erased, cut, stood   \* history, of the present command

session == <<order, pc, exit, before, todo, record, advice>>
history == <<calm, alike, erased, cut, stood>>
rig     == <<gen, ramOnly, mute>>
vars    == <<rig, dev, past, steady, session, trouble, history>>

FaultFrame == IF gen = "pre25" THEN 0 ELSE 1

\* Which sticky bits that generation files under faults.
StickyFaults(bits) == IF gen = "pre25" THEN bits ELSE bits \cap {"fault"}

-----------------------------------------------------------------------------
(* The wire.                                                               *)

Wire(c) == [on |-> c.up /\ ~c.gated, live |-> c.live, sticky |-> c.sticky, pace |-> c.pace]

On(D) == {d \in Devs : Wire(D[d]).on}

Unheard == [heard |-> FALSE, read |-> FALSE, live |-> FALSE, sticky |-> {},
            pace |-> [f \in Frames |-> "none"]]

Silence == [d \in Devs |-> Unheard]

\* The controllers become D behind the back of a command.
Become(D) ==
  /\ dev' = D
  /\ past' = [d \in Devs |-> (IF pc = "idle" THEN {} ELSE past[d]) \cup {Wire(D[d])}]

\* Any host frame that arrives wakes the whole bus.
Woken(D) == IF \E d \in Devs : D[d].up THEN [d \in Devs |-> [D[d] EXCEPT !.gated = FALSE]]
                                       ELSE D

-----------------------------------------------------------------------------
(* Listening windows.                                                      *)

Shown(d) == {s \in past[d] : s.on}

\* The fault frame of either generation.
Decoded(s) == [Unheard EXCEPT !.heard = TRUE, !.read = TRUE, !.live = s.live, !.sticky = s.sticky]

\* collect_status: the last frame of each kind that arrived.  A window of 120
\* ms may miss a fault frame that comes every 250 ms.
Collected(d, short) ==
  {Decoded(s) : s \in Shown(d)}
    \cup (IF d \in steady THEN {} ELSE {Unheard})
    \cup (IF \/ Shown(d) # {} /\ d \notin steady
             \/ short /\ gen = "fw25" /\ \E s \in Shown(d) : s.pace[1] = "cold"
          THEN {[Unheard EXCEPT !.heard = TRUE]} ELSE {})

\* inventory: the mean period of each frame.
Cadence(d, f) ==
  LET ps == {s.pace[f] : s \in Shown(d)}
  IN  IF d \in steady /\ Cardinality(ps) = 1 THEN ps ELSE Verdicts

\* F: the frames whose period the command looks at.
Counted(d, F) ==
  IF Shown(d) = {} THEN {Unheard}
  ELSE {[Unheard EXCEPT !.heard = TRUE, !.pace = p] :
           p \in {q \in [Frames -> Verdicts] :
                     \A f \in Frames : q[f] \in IF f \in F THEN Cadence(d, f) ELSE {"none"}}}
         \cup (IF d \in steady THEN {} ELSE {Unheard})

Windows(Of(_)) ==
  LET of == [d \in Devs |-> Of(d)]
  IN  {r \in [Devs -> UNION {of[d] : d \in Devs}] : \A d \in Devs : r[d] \in of[d]}

Collect      == Windows(LAMBDA d : Collected(d, FALSE))
CollectShort == Windows(LAMBDA d : Collected(d, TRUE))
Inventory(F) == Windows(LAMBDA d : Counted(d, F))

Heard(r) == {d \in Devs : r[d].heard}

\* dominant_generation: a bus that said nothing is taken for 25+.
Dominant(r) == IF Heard(r) = {} THEN "fw25" ELSE gen

-----------------------------------------------------------------------------
(* The rig.                                                                *)

NewController ==
  [up |-> TRUE, gated |-> FALSE, live |-> FALSE, sticky |-> {},
   pace |-> [f \in Frames |-> "ours"]]

\* Volatile state is gone; on 25+ the period comes back from flash.
Lost(d) == CASE gen = "pre25" -> Frames
             [] gen = "fw25"  -> IF d \in ramOnly THEN {1} ELSE {}

Rebooted(c, d) ==
  [c EXCEPT !.up = TRUE, !.gated = TRUE, !.live = FALSE, !.sticky = @ \cup {"hasReset"},
            !.pace = [f \in Frames |-> IF f \in Lost(d) THEN "cold" ELSE @[f]]]

\* A breaker each: the ends of the chain, and the rail.
Breakers == {{d \in Devs : d >= e} : e \in Devs}

\* A rig as it was set up, of which a part has just had its power back.
Init ==
  /\ \E g \in Rigs : gen = g.gen /\ ramOnly = g.ramOnly /\ mute = g.mute
  /\ \E S \in Breakers \cup {{}} :
       dev = [d \in Devs |-> IF d \in S THEN Rebooted(NewController, d)
                                         ELSE NewController]
  /\ past = [d \in Devs |-> {Wire(dev[d])}] /\ steady = On(dev)
  /\ order = None /\ pc = "idle" /\ exit = 1
  /\ before = Silence /\ todo = {} /\ advice = {}
  /\ record = [d \in Devs |-> {}]
  /\ trouble = 0
  /\ calm = TRUE /\ alike = TRUE /\ erased = [d \in Devs |-> {}] /\ cut = {} /\ stood = {}

Busy(c) == order[1] = c

Trouble == trouble < MaxTrouble /\ trouble' = trouble + 1

\* What happens behind the command's back.
Environment ==
  /\ UNCHANGED <<rig, session, alike, erased>>
  /\ steady' = steady \cap On(dev')
  /\ calm' = (calm /\ ~Busy("clear"))

PowerOff(S) ==
  /\ Trouble /\ \A d \in S : dev[d].up
  /\ Become([d \in Devs |-> [dev[d] EXCEPT !.up = @ /\ d \notin S]])
  /\ Environment /\ stood' = stood \ S
  /\ cut' = IF Busy("throttle") THEN cut \cup S ELSE cut

PowerOn ==
  /\ \E d \in Devs : ~dev[d].up
  /\ Become([d \in Devs |-> IF dev[d].up THEN dev[d] ELSE Rebooted(dev[d], d)])
  /\ Environment /\ UNCHANGED <<trouble, cut, stood>>

Fault(d) ==
  /\ Trouble /\ dev[d].up
  /\ Become([dev EXCEPT ![d].live = TRUE, ![d].sticky = @ \cup {"fault"}])
  /\ Environment /\ UNCHANGED <<cut, stood>>

CauseRemoved(d) ==
  /\ dev[d].live
  /\ Become([dev EXCEPT ![d].live = FALSE])
  /\ Environment /\ UNCHANGED <<trouble, cut, stood>>

-----------------------------------------------------------------------------
(* A command.                                                              *)

At(c, p) == order[1] = c /\ pc = p

\* Nobody's frames are missing and nobody's are slow.
Alike ==
  /\ \A d \in Devs : dev[d].up /\ (gen = "fw25" => dev[d].pace[1] = "ours")
  /\ \A d, e \in Devs : dev[d].gated = dev[e].gated

\* What the last audit advised is carried out before the next.
Prompted(o) == IF advice = {} THEN o[1] = "audit" ELSE o \in advice

\* _open: a new socket, which holds nothing from before.
Start(o) ==
  /\ pc = "idle" /\ o \in Orders /\ (o[1] \in {"audit", "repair"} => Prompted(o))
  /\ order' = o /\ pc' = "begin" /\ steady' = On(dev)
  /\ alike' = (o[1] = "clear" => Alike)
  /\ stood' = CASE o[1] \in {"faults", "audit"} ->
                     {d \in On(dev) : dev[d].live \/ "fault" \in dev[d].sticky}
              [] o[1] = "voltage" ->
                     {d \in On(dev) : gen = "fw25" /\ "hasReset" \in dev[d].sticky}
              [] OTHER -> {}
  /\ UNCHANGED <<rig, dev, past, exit, before, todo, record, advice, trouble,
                 calm, erased, cut>>

\* The command goes on to p, and the controllers are D by then.  A window that
\* was read to its end leaves nothing in the socket, and what a request finds
\* there is not what the window after it is judged by.
GoOn(D, p) ==
  /\ dev' = D /\ past' = [d \in Devs |-> {Wire(D[d])}]
  /\ pc' = p /\ steady' = On(D)

Going == UNCHANGED <<rig, order, exit, advice, alike, cut, stood>>

\* A request of the command arrives, or does not.
Arrives == UNCHANGED <<trouble, calm>>
Missed  == Trouble /\ calm' = (calm /\ ~Busy("clear"))

\* The command returns n, and the operator's list becomes next.
End(D, n, next) ==
  /\ dev' = D /\ past' = [d \in Devs |-> {Wire(D[d])}]
  /\ pc' = "idle" /\ order' = None /\ steady' = On(D) /\ exit' = n
  /\ advice' = next
  /\ before' = Silence /\ todo' = {} /\ record' = [d \in Devs |-> {}]
  /\ erased' = [d \in Devs |-> {}] /\ cut' = {} /\ stood' = {} /\ calm' = TRUE
  /\ alike' = TRUE
  /\ UNCHANGED rig

Done == advice \ {order}

Advise(test, command) == IF test THEN {<<command, 0>>} ELSE {}

Least(S) == CHOOSE x \in S : \A y \in S : x <= y

-----------------------------------------------------------------------------
(* status, faults, voltage, repair.                                        *)

Survey(c, F, p) ==
  /\ At(c, "begin") /\ before' \in Inventory(F) /\ GoOn(dev, p)
  /\ Going /\ Arrives /\ UNCHANGED <<todo, record, erased>>

StatusSurvey == Survey("status", {}, "ask")

\* Every controller that was heard is asked for its firmware.
StatusAsk ==
  /\ At("status", "ask")
  /\ trouble' = trouble
  /\ End(IF Heard(before) = {} THEN dev ELSE Woken(dev), 0, Done)

\* Mutant: a controller with no live fault is taken for clean.
FaultsLive(r) ==
  IF Heard(r) # {} /\ \A d \in Heard(r) : r[d].read /\ ~r[d].live THEN 0 ELSE 1

FaultsExit(r) ==
  LET bad  == {d \in Heard(r) : ~r[d].read \/ r[d].live \/ StickyFaults(r[d].sticky) # {}}
      seen == \E d \in Heard(r) : r[d].live \/ r[d].sticky # {}
  IN  IF Heard(r) = {} THEN 1 ELSE IF seen /\ bad # {} THEN 1 ELSE 0

Faults ==
  /\ At("faults", "begin") /\ trouble' = trouble
  /\ \E r \in Collect : End(dev, FaultsExit(r), Done)

\* Before 25 there are none, and voltage looks for a reset nowhere else.
StickyWarnings(bits) == bits \ StickyFaults(bits)

\* Whose telemetry frame came as well.
VoltageExit(r, told) ==
  IF told = {} \/ \E d \in told : r[d].read /\ "hasReset" \in StickyWarnings(r[d].sticky)
  THEN 1 ELSE 0

\* The rail is then read in a window of its own, and only printed.
Voltage ==
  /\ At("voltage", "begin") /\ trouble' = trouble
  /\ \E r \in Collect : \E told \in SUBSET Heard(r) :
       Heard(r) \cap steady \subseteq told /\ End(dev, VoltageExit(r, told), Done)

\* The command Provision is about, as far as its outcome goes.
Repaired(D, d) == IF D[d].up THEN [D EXCEPT ![d].pace[1] = "ours"] ELSE D

Repair ==
  /\ At("repair", "begin")
  /\ LET d == order[2]
     IN  \/ gen = "pre25" /\ trouble' = trouble /\ End(dev, 1, Done)
         \/ gen = "fw25" /\ trouble' = trouble /\ End(Repaired(Woken(dev), d), IF dev[d].up THEN 0 ELSE 1, Done)
         \/ gen = "fw25" /\ Trouble  /\ End(dev, 1, Done)

-----------------------------------------------------------------------------
(* clear.                                                                  *)

ClearLook ==
  /\ At("clear", "begin") /\ GoOn(dev, "capture")
  /\ Going /\ Arrives /\ UNCHANGED <<before, todo, record, erased>>

\* The read comes first because the clear destroys it.
Captured(r) == [d \in Devs |-> IF r[d].read THEN r[d].sticky ELSE {}]

\* Mutant: a silent bus is cleared without being woken.
CaptureSilent ==
  /\ order[1] = "clear" /\ pc \in {"capture", "again"}
  /\ \E r \in CollectShort : record' = Captured(r)
  /\ GoOn(dev, "send") /\ todo' = Devs \X {0}
  /\ Going /\ Arrives /\ UNCHANGED <<before, erased>>

Capture ==
  /\ order[1] = "clear" /\ pc \in {"capture", "again"}
  /\ \E r \in CollectShort :
       /\ record' = Captured(r)
       /\ IF Heard(r) = {} /\ pc = "capture" THEN GoOn(dev, "wake") /\ todo' = {}
                                             ELSE GoOn(dev, "send") /\ todo' = Devs \X {0}
  /\ Going /\ Arrives /\ UNCHANGED <<before, erased>>

Wake ==
  /\ At("clear", "wake")
  /\ \/ Arrives /\ GoOn(Woken(dev), "again")
     \/ Missed /\ GoOn(dev, "again")
  /\ Going /\ UNCHANGED <<before, todo, record, erased>>

\* A fault whose cause is still there comes straight back.
Cleared(c) == [c EXCEPT !.sticky = IF c.live THEN {"fault"} ELSE {}]

Clear(D, d) == IF D[d].up THEN [D EXCEPT ![d] = Cleared(@)] ELSE D

ClearSend ==
  /\ At("clear", "send") /\ todo # {}
  /\ LET d == Least({w[1] : w \in todo})
         D == Clear(Woken(dev), d)
     IN  /\ todo' = todo \ {<<d, 0>>}
         /\ \/ /\ Arrives /\ GoOn(D, "send")
               /\ erased' = [erased EXCEPT ![d] = dev[d].sticky \ D[d].sticky]
            \/ Missed /\ GoOn(dev, "send") /\ erased' = erased
  /\ Going /\ UNCHANGED <<before, record>>

\* The window that says which faults are gone only decides what is printed.
ClearVerify ==
  /\ At("clear", "send") /\ todo = {} /\ GoOn(dev, "report")
  /\ Going /\ Arrives /\ UNCHANGED <<before, todo, record, erased>>

ClearEnd ==
  /\ At("clear", "report") /\ trouble' = trouble
  /\ \E r \in Inventory({}) : End(dev, IF Heard(r) = Devs THEN 0 ELSE 1, Done)

-----------------------------------------------------------------------------
(* throttle.                                                               *)

ThrottleBegin ==
  /\ At("throttle", "begin")
  /\ \E r \in Collect :
       \/ /\ Dominant(r) = "pre25" /\ GoOn(dev, "survey")
          /\ Going /\ Arrives /\ UNCHANGED <<before, todo, record, erased>>
       \/ Dominant(r) # "pre25" /\ trouble' = trouble /\ End(dev, 0, Done)

ThrottleSurvey ==
  /\ At("throttle", "survey")
  /\ \E r \in Inventory({}) :
       \/ /\ Heard(r) # {} /\ before' = r /\ todo' = Heard(r) \X Frames
          /\ GoOn(dev, "write")
          /\ Going /\ Arrives /\ UNCHANGED <<record, erased>>
       \/ Heard(r) = {} /\ trouble' = trouble /\ End(dev, 1, Done)

\* set_legacy_status_period: nothing answers.
Throttled(D, d, f) == IF D[d].up THEN [D EXCEPT ![d].pace[f] = "ours"] ELSE D

ThrottleWrite ==
  /\ At("throttle", "write") /\ todo # {}
  /\ LET d == Least({w[1] : w \in todo})
         f == Least({w[2] : w \in {x \in todo : x[1] = d}})
     IN  /\ todo' = todo \ {<<d, f>>}
         /\ \/ Arrives /\ GoOn(Throttled(Woken(dev), d, f), "write")
            \/ Missed /\ GoOn(dev, "write")
  /\ Going /\ UNCHANGED <<before, record, erased>>

\* 1.5 s: what the socket holds of the old cadence no longer weighs.
Settle ==
  /\ At("throttle", "write") /\ todo = {} /\ GoOn(dev, "measure")
  /\ Going /\ Arrives /\ UNCHANGED <<before, todo, record, erased>>

\* Mutant: only the first frame is checked.
FirstNotTaken(b, a) == {d \in Heard(b) : a[d].pace[0] # "ours"}

\* Every frame that was written is checked.
NotTaken(b, a) == {d \in Heard(b) : \E f \in Frames : a[d].pace[f] # "ours"}

Measure ==
  /\ At("throttle", "measure") /\ trouble' = trouble
  /\ \E held \in {h \in BOOLEAN : \E r \in Inventory(Frames) : h <=> NotTaken(before, r) = {}} :
       IF held THEN End(dev, 0, Done) ELSE End(dev, 1, advice)

-----------------------------------------------------------------------------
(* audit: an inventory, a status reading, and what the two together say.   *)

AuditSurvey == Survey("audit", {FaultFrame}, "ask")

\* Pre-25 has to be asked for its identity.
AuditAsk ==
  /\ At("audit", "ask")
  /\ GoOn(IF gen = "pre25" /\ Heard(before) # {} THEN Woken(dev) ELSE dev, "look")
  /\ Going /\ Arrives /\ UNCHANGED <<before, todo, record, erased>>

Pace(inv, st, d) == IF Dominant(st) = gen THEN inv[d].pace[FaultFrame] ELSE "none"

TailGone(inv) ==
  /\ Cardinality(Devs \ Heard(inv)) > 1 /\ Heard(inv) # {}
  /\ \A m \in Devs \ Heard(inv), d \in Heard(inv) : d < m

\* 250 ms is more than three times 20 ms.
Thinned(inv, st) ==
  /\ Cardinality(Heard(inv)) > 2 /\ Dominant(st) = "fw25"
  /\ \A d \in Heard(inv) : Pace(inv, st, d) = "cold"

\* Whose bits are scored: pre-25's only beside a telemetry frame, which came from
\* those told.
Scored(st, told) ==
  [d \in Devs |-> [st[d] EXCEPT !.read = @ /\ (gen = "pre25" => d \in told)]]

Bare(s) == s.sticky \cup (IF s.live THEN {"fault"} ELSE {})

Flagged(st)   == {d \in Devs : st[d].read /\ Bare(st[d]) # {}}
HasReset(st)  == {d \in Devs : st[d].read /\ "hasReset" \in st[d].sticky}

Paced(inv, st, v) == {d \in Heard(inv) : Pace(inv, st, d) = v}
Reverted(inv, st) == Paced(inv, st, "cold")
Absent(inv, st)   == Paced(inv, st, "none")
Stopped(inv, st)  == Paced(inv, st, "stopped")

CleanAudit(inv, st, told) ==
  Heard(inv) = Devs /\ Flagged(Scored(st, told)) = {} /\ Paced(inv, st, "ours") = Heard(inv)

\* remedy_for replaces the finding's own advice, so `clear` is only said where the
\* remedy of one of the bits says it.
ClearSaid(st) == \E d \in Flagged(st) : Bare(st[d]) \ mute # {}

\* What lost its volatile configuration is written again, on 25+ by repair; but
\* beside a brownout the remedy is the power path.
ResetRemedy(inv, st, told) ==
  LET plain == "hasReset" \notin mute
  IN  IF Dominant(st) = "pre25"
      THEN Advise(\/ plain /\ HasReset(Scored(st, told)) # {}
                  \/ Reverted(inv, st) \cap HasReset(st) # {}, "throttle")
      ELSE {"repair"} \X {d \in HasReset(Scored(st, told)) : plain}

\* Mutant: the audit of a bus that said nothing advises nothing.
AdvisedNothing(inv, st, told) ==
  IF Heard(inv) = {} \/ TailGone(inv) THEN {}
  ELSE Advise(ClearSaid(Scored(st, told)), "clear")
         \cup ({"repair"} \X (Reverted(inv, st) \cup Absent(inv, st)))

\* Mutant: the repair that is advised does not say of whom.
AdvisedNobody(inv, st, told) ==
  IF Dominant(st) = "fw25" /\ Reverted(inv, st) # {} THEN {<<"repair", 0>>} ELSE {}

\* What stands behind each finding's FIX.  A finding about the bus is the only one.
Advised(inv, st, told) ==
  IF Heard(inv) = {} THEN {<<"clear", 0>>}
  ELSE IF TailGone(inv) THEN {}
  ELSE IF Thinned(inv, st) THEN {<<"status", 0>>}
  ELSE Advise(Heard(inv) # Devs, "status")
         \cup Advise(Heard(inv) # Devs \/ Stopped(inv, st) # {}, "faults")
         \cup Advise(ClearSaid(Scored(st, told)), "clear") \cup ResetRemedy(inv, st, told)
         \cup (IF Dominant(st) = "fw25"
               THEN {"repair"} \X (Reverted(inv, st) \cup Absent(inv, st)) ELSE {})

\* Then the parameters of whoever was heard are read, which wakes the others.
Audit ==
  /\ At("audit", "look") /\ trouble' = trouble
  /\ \E r \in Collect : \E told \in SUBSET Heard(r) :
       /\ Heard(r) \cap steady \subseteq told
       /\ End(IF Heard(before) = {} THEN dev ELSE Woken(dev),
              IF CleanAudit(before, r, told) THEN 0 ELSE 1, Advised(before, r, told))

-----------------------------------------------------------------------------
Command ==
  \/ StatusSurvey \/ StatusAsk \/ Faults \/ Voltage \/ Repair
  \/ ClearLook \/ Capture \/ Wake \/ ClearSend \/ ClearVerify \/ ClearEnd
  \/ ThrottleBegin \/ ThrottleSurvey \/ ThrottleWrite \/ Settle \/ Measure
  \/ AuditSurvey \/ AuditAsk \/ Audit

Next ==
  \/ \E S \in Breakers : PowerOff(S)
  \/ PowerOn
  \/ \E d \in Devs : Fault(d) \/ CauseRemoved(d)
  \/ \E o \in Orders : Start(o)
  \/ Command

Diligent == \E o \in Orders : Prompted(o) /\ Start(o)

\* Commands come to their end, power comes back, causes are removed, and the
\* operator, whatever else he runs, does what was advised and audits again.
Fairness ==
  /\ WF_vars(Command)
  /\ WF_vars(PowerOn) /\ WF_vars(\E d \in Devs : CauseRemoved(d))
  /\ SF_vars(Diligent)

Spec == Init /\ [][Next]_vars /\ Fairness

-----------------------------------------------------------------------------
TypeOK ==
  /\ [gen |-> gen, ramOnly |-> ramOnly, mute |-> mute] \in Rigs
  /\ dev \in [Devs -> [up : BOOLEAN, gated : BOOLEAN, live : BOOLEAN,
                       sticky : SUBSET Bits, pace : [Frames -> Paces]]]
  /\ steady \subseteq Devs /\ \A d \in Devs : Wire(dev[d]) \in past[d]
  /\ order \in Orders \cup {None} /\ exit \in 0..1 /\ advice \subseteq Orders
  /\ before \in [Devs -> [heard : BOOLEAN, read : BOOLEAN, live : BOOLEAN,
                          sticky : SUBSET Bits, pace : [Frames -> Verdicts]]]
  /\ todo \subseteq Devs \X Frames
  /\ {record, erased} \subseteq [Devs -> SUBSET Bits]
  /\ cut \subseteq Devs /\ stood \subseteq Devs /\ {calm, alike} \subseteq BOOLEAN
  /\ trouble \in 0..MaxTrouble

\* What a clear took off a controller is in the record of that clear, though a
\* bus back from a power cycle has to be woken first and the record is read
\* before any frame of the clear is out: for a clear nothing happened during
\* (calm), on a rig whose controllers show themselves alike.
ErasedIsRecorded == calm /\ alike => \A d \in Devs : erased[d] \subseteq record[d]

\* On a pre-25 rig, the only one whose throttle writes and measures, a throttle
\* that exits 0 leaves every controller that its survey heard at the boot throttle
\* in all its frames, whichever of the unacknowledged writes were lost, or the
\* controller has lost power since the throttle began.
ThrottleHolds ==
  [][At("throttle", "measure") /\ pc' = "idle" /\ exit' = 0 =>
       \A d \in Heard(before) : (\A f \in Frames : dev[d].pace[f] = "ours") \/ d \in cut]_vars

\* faults and audit exit 0 only when no controller had a fault, live or
\* latched, while it broadcast throughout the command, and voltage on 25+ only
\* when none that did holds the trace of a reset.
CleanIsClean ==
  [][order[1] \in {"faults", "voltage", "audit"} /\ pc' = "idle" /\ exit' = 0 => stood = {}]_vars

\* On a 25+ rig the FIX lines are enough: an operator who carries out what an
\* audit advised and audits again comes to a clean audit, whatever power cycles
\* and faults there were, whichever other commands he runs, and also where the
\* finding was about the bus; as long as the remedies of the bits that latch say
\* `clear`, and not every controller of three or more comes back at 250 ms.
AdviceRecovers ==
  gen = "fw25" /\ mute = {} /\ ~(ramOnly = Devs /\ Cardinality(Devs) > 2) =>
    []<><<Audit /\ exit' = 0>>_vars
=============================================================================
