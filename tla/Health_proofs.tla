----------------------------- MODULE Health_proofs -----------------------------
(***************************************************************************)
(* Proofs about Health: what clear records, what throttle and the clean     *)
(* verdicts stand for, on a rig of any size, with any number of power      *)
(* failures, faults and lost requests.                                     *)
(***************************************************************************)
EXTENDS Health, FiniteSetTheorems, WellFoundedInduction, TLAPS

Controllers ==
  [up : BOOLEAN, gated : BOOLEAN, live : BOOLEAN, sticky : SUBSET Bits, pace : [Frames -> Paces]]

Wires == [on : BOOLEAN, live : BOOLEAN, sticky : SUBSET Bits, pace : [Frames -> Paces]]

Readings ==
  [heard : BOOLEAN, read : BOOLEAN, live : BOOLEAN, sticky : SUBSET Bits,
   pace : [Frames -> Verdicts]]

-----------------------------------------------------------------------------
(* What the operators on controllers and windows return.                   *)

LEMMA WireType == ASSUME NEW c \in Controllers PROVE Wire(c) \in Wires
<1> QED BY DEF Controllers, Wires, Wire

LEMMA OnType == On(dev) \subseteq Devs
<1> QED BY DEF On

LEMMA RebootedType ==
  ASSUME NEW c \in Controllers, NEW d \in Devs
  PROVE  /\ Rebooted(c, d) \in Controllers
         /\ Rebooted(c, d).up /\ Rebooted(c, d).gated /\ ~Rebooted(c, d).live
         /\ Rebooted(c, d).sticky = c.sticky \cup {"hasReset"}
<1>1. [f \in Frames |-> IF f \in Lost(d) THEN "cold" ELSE c.pace[f]] \in [Frames -> Paces]
  BY DEF Controllers, Paces
<1>2. c.sticky \cup {"hasReset"} \in SUBSET Bits
  BY DEF Controllers, Bits
<1> QED BY <1>1, <1>2 DEF Controllers, Rebooted

LEMMA WokenType ==
  ASSUME NEW D \in [Devs -> Controllers]
  PROVE  /\ Woken(D) \in [Devs -> Controllers]
         /\ \A d \in Devs : /\ Woken(D)[d].up = D[d].up /\ Woken(D)[d].live = D[d].live
                            /\ Woken(D)[d].sticky = D[d].sticky /\ Woken(D)[d].pace = D[d].pace
                            /\ D[d].up => ~Woken(D)[d].gated
                            /\ Woken(D)[d].gated => D[d].gated
<1>1. CASE \E d \in Devs : D[d].up
  <2>1. \A d \in Devs : [D[d] EXCEPT !.gated = FALSE] \in Controllers
    BY DEF Controllers
  <2> QED BY <1>1, <2>1 DEF Woken, Controllers
<1>2. CASE ~ \E d \in Devs : D[d].up
  BY <1>2 DEF Woken, Controllers
<1> QED BY <1>1, <1>2

LEMMA ClearType ==
  ASSUME NEW D \in [Devs -> Controllers], NEW d \in Devs
  PROVE  /\ Clear(D, d) \in [Devs -> Controllers]
         /\ \A e \in Devs : /\ Clear(D, d)[e].up = D[e].up /\ Clear(D, d)[e].gated = D[e].gated
                            /\ Clear(D, d)[e].live = D[e].live /\ Clear(D, d)[e].pace = D[e].pace
                            /\ e # d => Clear(D, d)[e] = D[e]
                            /\ Clear(D, d)[e].sticky \in {D[e].sticky, {"fault"}, {}}
                            /\ D[e].live => Clear(D, d)[e].sticky \in {D[e].sticky, {"fault"}}
                            /\ ~D[e].live => Clear(D, d)[e].sticky \in {D[e].sticky, {}}
<1>1. /\ Cleared(D[d]) \in Controllers
      /\ Cleared(D[d]).up = D[d].up /\ Cleared(D[d]).gated = D[d].gated
      /\ Cleared(D[d]).live = D[d].live /\ Cleared(D[d]).pace = D[d].pace
      /\ Cleared(D[d]).sticky = IF D[d].live THEN {"fault"} ELSE {}
  BY DEF Cleared, Controllers, Bits
<1> QED BY <1>1 DEF Clear

LEMMA ThrottledType ==
  ASSUME NEW D \in [Devs -> Controllers], NEW d \in Devs, NEW f \in Frames
  PROVE  /\ Throttled(D, d, f) \in [Devs -> Controllers]
         /\ \A e \in Devs : /\ Throttled(D, d, f)[e].up = D[e].up
                            /\ Throttled(D, d, f)[e].gated = D[e].gated
                            /\ Throttled(D, d, f)[e].live = D[e].live
                            /\ Throttled(D, d, f)[e].sticky = D[e].sticky
<1> DEFINE c == [D[d] EXCEPT !.pace[f] = "ours"]
<1>1. /\ c \in Controllers /\ c.up = D[d].up /\ c.gated = D[d].gated /\ c.live = D[d].live
      /\ c.sticky = D[d].sticky
  BY DEF Controllers, Paces
<1>2. [D EXCEPT ![d].pace[f] = "ours"] = [D EXCEPT ![d] = c]
  OBVIOUS
<1> QED BY <1>1, <1>2 DEF Throttled

LEMMA RepairedType ==
  ASSUME NEW D \in [Devs -> Controllers], NEW d \in Devs
  PROVE  /\ Repaired(D, d) \in [Devs -> Controllers]
         /\ \A e \in Devs : /\ Repaired(D, d)[e].up = D[e].up
                            /\ Repaired(D, d)[e].gated = D[e].gated
                            /\ Repaired(D, d)[e].live = D[e].live
                            /\ Repaired(D, d)[e].sticky = D[e].sticky
<1>1. Repaired(D, d) = Throttled(D, d, 1) /\ 1 \in Frames
  BY DEF Repaired, Throttled, Frames
<1> QED BY <1>1, ThrottledType

LEMMA UnheardType == Unheard \in Readings /\ ~Unheard.heard /\ ~Unheard.read
                     /\ [Unheard EXCEPT !.heard = TRUE] \in Readings
                     /\ Unheard.pace = [f \in Frames |-> "none"]
<1> QED BY DEF Unheard, Readings, Verdicts

LEMMA SilenceType == Silence \in [Devs -> Readings]
<1> QED BY UnheardType DEF Silence

LEMMA DecodedType ==
  ASSUME NEW s \in Wires
  PROVE  /\ Decoded(s) \in Readings
         /\ Decoded(s).heard /\ Decoded(s).read
         /\ Decoded(s).live = s.live /\ Decoded(s).sticky = s.sticky
<1> QED BY DEF Decoded, Unheard, Readings, Verdicts, Wires

LEMMA ShownType == ASSUME past \in [Devs -> SUBSET Wires], NEW d \in Devs
                   PROVE  Shown(d) \subseteq Wires /\ Shown(d) \subseteq past[d]
<1> QED BY DEF Shown

LEMMA CollectedType ==
  ASSUME past \in [Devs -> SUBSET Wires], NEW d \in Devs, NEW short \in BOOLEAN,
         NEW r \in Collected(d, short)
  PROVE  /\ r \in Readings
         /\ r.read => \E s \in Shown(d) : r = Decoded(s)
         /\ r.heard => Shown(d) # {}
         /\ Shown(d) # {} /\ d \in steady =>
              \/ \E s \in Shown(d) : r = Decoded(s)
              \/ short /\ gen = "fw25" /\ \E s \in Shown(d) : s.pace[1] = "cold"
<1> DEFINE Deaf == [Unheard EXCEPT !.heard = TRUE]
<1>1. /\ \/ \E s \in Shown(d) : r = Decoded(s)
         \/ r = Unheard /\ d \notin steady
         \/ /\ r = Deaf /\ Shown(d) # {}
            /\ d \in steady => short /\ gen = "fw25" /\ \E s \in Shown(d) : s.pace[1] = "cold"
  BY DEF Collected
<1>2. Deaf \in Readings /\ ~Deaf.read
  BY UnheardType DEF Unheard
<1> HIDE DEF Deaf
<1> QED BY <1>1, <1>2, UnheardType, DecodedType, ShownType

LEMMA CountedType ==
  ASSUME past \in [Devs -> SUBSET Wires], NEW d \in Devs, NEW F, NEW r \in Counted(d, F)
  PROVE  /\ r \in Readings /\ ~r.read
         /\ r.heard => Shown(d) # {}
         /\ \A f \in Frames : r.pace[f] = "ours" => Shown(d) # {} /\ "ours" \in Cadence(d, f)
<1>1. CASE r = Unheard
  BY <1>1, UnheardType
<1>2. CASE r # Unheard
  <2>1. /\ Shown(d) # {}
        /\ \E p \in [Frames -> Verdicts] :
             /\ r = [Unheard EXCEPT !.heard = TRUE, !.pace = p]
             /\ \A f \in Frames : p[f] \in IF f \in F THEN Cadence(d, f) ELSE {"none"}
    BY <1>2 DEF Counted
  <2>2. PICK p \in [Frames -> Verdicts] :
             /\ r = [Unheard EXCEPT !.heard = TRUE, !.pace = p]
             /\ \A f \in Frames : p[f] \in IF f \in F THEN Cadence(d, f) ELSE {"none"}
    BY <2>1
  <2>3. r \in Readings /\ ~r.read /\ r.pace = p
    BY <2>2 DEF Unheard, Readings
  <2>4. \A f \in Frames : p[f] = "ours" => "ours" \in Cadence(d, f)
    BY <2>2
  <2> QED BY <2>1, <2>3, <2>4
<1> QED BY <1>1, <1>2

\* What a reading of the whole rig returns.
LEMMA CollectType ==
  ASSUME past \in [Devs -> SUBSET Wires], NEW r \in Collect
  PROVE  r \in [Devs -> Readings] /\ \A d \in Devs : r[d] \in Collected(d, FALSE)
<1>1. r \in [Devs -> UNION {[c \in Devs |-> Collected(c, FALSE)][d] : d \in Devs}]
      /\ \A d \in Devs : r[d] \in Collected(d, FALSE)
  BY DEF Collect, Windows
<1>2. \A d \in Devs : r[d] \in Readings
  BY <1>1, CollectedType
<1> QED BY <1>1, <1>2

LEMMA CollectShortType ==
  ASSUME past \in [Devs -> SUBSET Wires], NEW r \in CollectShort
  PROVE  r \in [Devs -> Readings] /\ \A d \in Devs : r[d] \in Collected(d, TRUE)
<1>1. r \in [Devs -> UNION {[c \in Devs |-> Collected(c, TRUE)][d] : d \in Devs}]
      /\ \A d \in Devs : r[d] \in Collected(d, TRUE)
  BY DEF CollectShort, Windows
<1>2. \A d \in Devs : r[d] \in Readings
  BY <1>1, CollectedType
<1> QED BY <1>1, <1>2

LEMMA InventoryType ==
  ASSUME past \in [Devs -> SUBSET Wires], NEW F, NEW r \in Inventory(F)
  PROVE  r \in [Devs -> Readings] /\ \A d \in Devs : r[d] \in Counted(d, F)
<1>1. r \in [Devs -> UNION {[c \in Devs |-> Counted(c, F)][d] : d \in Devs}]
      /\ \A d \in Devs : r[d] \in Counted(d, F)
  BY DEF Inventory, Windows
<1>2. \A d \in Devs : r[d] \in Readings
  BY <1>1, CountedType
<1> QED BY <1>1, <1>2

LEMMA LeastType ==
  ASSUME NEW S \in SUBSET Nat, S # {} PROVE Least(S) \in S
<1>1. PICK p \in S : \A q \in S : ~ (<<q, p>> \in OpToRel(<, Nat))
  BY NatLessThanWellFounded, WFMin
<1>2. \A q \in S : <<q, p>> \in OpToRel(<, Nat) <=> q < p
  BY DEF OpToRel
<1>3. \A q \in S : ~ (q < p)
  BY <1>1, <1>2
<1>4. \A m, n \in Nat : ~ (m < n) => n <= m
  OBVIOUS
<1>5. \A q \in S : p <= q
  BY <1>3, <1>4
<1> QED BY <1>5 DEF Least
-----------------------------------------------------------------------------
(* Types.                                                                  *)

RigTyped ==
  /\ [gen |-> gen, ramOnly |-> ramOnly, mute |-> mute] \in Rigs
  /\ dev \in [Devs -> Controllers]
  /\ past \in [Devs -> SUBSET Wires] /\ steady \subseteq Devs
  /\ \A d \in Devs : Wire(dev[d]) \in past[d]

SessionTyped ==
  /\ order \in Orders \cup {None} /\ exit \in 0..1 /\ advice \subseteq Orders
  /\ before \in [Devs -> Readings] /\ todo \subseteq Devs \X Frames
  /\ record \in [Devs -> SUBSET Bits]

HistoryTyped ==
  /\ erased \in [Devs -> SUBSET Bits]
  /\ cut \subseteq Devs /\ stood \subseteq Devs /\ calm \in BOOLEAN /\ alike \in BOOLEAN

TypeInv == RigTyped /\ SessionTyped /\ HistoryTyped /\ trouble \in 0..MaxTrouble

LEMMA TypeInvTypeOK == TypeInv => TypeOK
<1>1. TypeInv => {record, erased} \subseteq [Devs -> SUBSET Bits] /\ {calm, alike} \subseteq BOOLEAN
  BY DEF TypeInv, SessionTyped, HistoryTyped
<1> QED BY <1>1 DEF TypeInv, RigTyped, SessionTyped, HistoryTyped, TypeOK, Controllers, Readings

LEMMA EmptyBits == [d \in Devs |-> {}] \in [Devs -> SUBSET Bits]
<1> QED OBVIOUS

LEMMA TroubleType ==
  (Trouble \/ trouble' = trouble) /\ trouble \in 0..MaxTrouble => trouble' \in 0..MaxTrouble
<1> QED BY ConstantsAssumption DEF Trouble, ConstantsAssumption

LEMMA BecomeType ==
  ASSUME RigTyped, NEW D \in [Devs -> Controllers], Become(D), UNCHANGED rig, steady' \subseteq Devs
  PROVE  RigTyped'
<1>1. \A d \in Devs : Wire(D[d]) \in Wires
  BY WireType
<1>2. past' \in [Devs -> SUBSET Wires]
  BY <1>1 DEF RigTyped, Become
<1> QED BY <1>2 DEF RigTyped, Become, rig

LEMMA EnvironmentType ==
  ASSUME TypeInv, NEW D \in [Devs -> Controllers], Become(D), Environment,
         Trouble \/ trouble' = trouble, cut' \subseteq Devs, stood' \subseteq Devs
  PROVE  TypeInv'
<1>1. RigTyped'
  <2>1. UNCHANGED rig /\ steady' \subseteq Devs
    BY DEF Environment, TypeInv, RigTyped
  <2> QED BY <2>1, BecomeType DEF TypeInv
<1>2. SessionTyped'
  BY DEF Environment, session, TypeInv, SessionTyped
<1>3. calm' \in BOOLEAN
  BY DEF Environment, TypeInv, HistoryTyped
<1>4. HistoryTyped'
  BY <1>3 DEF Environment, TypeInv, HistoryTyped
<1> QED BY <1>1, <1>2, <1>4, TroubleType DEF TypeInv

\* What a step of a command does to the rig: D, as the command leaves it.
LEMMA LeaveType ==
  ASSUME RigTyped, NEW D \in [Devs -> Controllers], dev' = D,
         past' = [d \in Devs |-> {Wire(D[d])}], steady' = On(D), UNCHANGED rig
  PROVE  RigTyped'
<1>1. \A d \in Devs : Wire(D[d]) \in Wires
  BY WireType
<1>2. past' \in [Devs -> SUBSET Wires]
  BY <1>1
<1>3. On(D) \subseteq Devs
  BY DEF On
<1> QED BY <1>2, <1>3 DEF RigTyped, rig

LEMMA GoOnType ==
  ASSUME TypeInv, NEW D \in [Devs -> Controllers], NEW p, GoOn(D, p), Going, Arrives \/ Missed,
         before' \in [Devs -> Readings], todo' \subseteq Devs \X Frames,
         record' \in [Devs -> SUBSET Bits], erased' \in [Devs -> SUBSET Bits]
  PROVE  TypeInv'
<1>1. RigTyped'
  BY LeaveType DEF GoOn, Going, TypeInv
<1>2. SessionTyped'
  BY DEF Going, TypeInv, SessionTyped
<1>3. calm' \in BOOLEAN
  BY DEF Arrives, Missed, TypeInv, HistoryTyped
<1>4. HistoryTyped'
  BY <1>3 DEF Going, TypeInv, HistoryTyped
<1>5. Trouble \/ trouble' = trouble
  BY DEF Arrives, Missed
<1> QED BY <1>1, <1>2, <1>4, <1>5, TroubleType DEF TypeInv

LEMMA EndType ==
  ASSUME TypeInv, NEW D \in [Devs -> Controllers], NEW n \in 0..1, NEW next \in SUBSET Orders,
         End(D, n, next), Trouble \/ trouble' = trouble
  PROVE  TypeInv'
<1>1. RigTyped'
  BY LeaveType DEF End, TypeInv
<1>2. SessionTyped'
  BY SilenceType DEF End, SessionTyped
<1>3. HistoryTyped'
  BY DEF End, HistoryTyped
<1> QED BY <1>1, <1>2, <1>3, TroubleType DEF TypeInv

LEMMA DoneType == SessionTyped => Done \subseteq Orders
<1> QED BY DEF SessionTyped, Done

LEMMA HeardType == ASSUME NEW r PROVE Heard(r) \subseteq Devs
<1> QED BY DEF Heard

LEMMA AdvisedType ==
  ASSUME NEW inv, NEW st, NEW told PROVE Advised(inv, st, told) \in SUBSET Orders
<1>1. \A t : \A c \in {"status", "faults", "clear", "throttle"} : Advise(t, c) \subseteq Orders
  BY DEF Advise, Orders
<1>2. <<"clear", 0>> \in Orders /\ <<"status", 0>> \in Orders
  BY DEF Orders
<1>3. \A S \in SUBSET Devs : {"repair"} \X S \subseteq Orders
  BY DEF Orders
<1>4. /\ HasReset(Scored(st, told)) \subseteq Devs
      /\ Reverted(inv, st) \cup Absent(inv, st) \in SUBSET Devs
  BY DEF HasReset, Reverted, Absent, Paced, Heard
<1>5. ResetRemedy(inv, st, told) \subseteq Orders
  <2>1. \A plain : {d \in HasReset(Scored(st, told)) : plain} \in SUBSET Devs
    BY <1>4
  <2> QED BY <1>1, <1>3, <2>1 DEF ResetRemedy
<1>6. {"repair"} \X (Reverted(inv, st) \cup Absent(inv, st)) \subseteq Orders
  BY <1>3, <1>4
<1>7. CASE Heard(inv) = {} \/ TailGone(inv) \/ Thinned(inv, st)
  BY <1>2, <1>7 DEF Advised
<1>8. CASE ~(Heard(inv) = {} \/ TailGone(inv) \/ Thinned(inv, st))
  BY <1>1, <1>5, <1>6, <1>8 DEF Advised
<1> QED BY <1>7, <1>8
-----------------------------------------------------------------------------
(* The invariant.                                                          *)

\* Whoever broadcasts now has been broadcasting throughout the window, at one
\* cadence: a controller that comes back is silent until it is woken.
SteadyOn == steady = On(dev)
OnSince == \A d \in Devs : Wire(dev[d]).on => \A s \in past[d] : s.on /\ s.pace = dev[d].pace

\* Between commands nothing is in hand.
IdleFresh ==
  pc = "idle" =>
    /\ order = None /\ before = Silence
    /\ \A d \in Devs : past[d] = {Wire(dev[d])}

\* A live fault is latched.
Latched(D) == \A d \in Devs : D[d].live => "fault" \in D[d].sticky

\* Whoever stood when the command began has shown it ever since.
StoodShow ==
  /\ order[1] \in {"faults", "audit"} =>
       \A d \in stood : Wire(dev[d]).on /\ \A s \in past[d] : "fault" \in s.sticky
  /\ order[1] = "voltage" =>
       \A d \in stood : /\ Wire(dev[d]).on /\ gen = "fw25"
                        /\ \A s \in past[d] : "hasReset" \in s.sticky

\* Whoever was heard in this window of a throttle, or is among those it writes,
\* still broadcasts, or has lost power since.
ThrottleCut ==
  order[1] = "throttle" =>
    \A d \in Devs : (\E s \in past[d] : s.on) \/ before[d].heard => Wire(dev[d]).on \/ d \in cut

\* Before the first frame of a clear the record is taken from all the controllers
\* or the bus is woken first, and from then on it holds what can be erased.
ClearTrue ==
  order[1] = "clear" /\ calm /\ alike =>
    /\ pc \in {"begin", "capture", "wake", "again"} =>
         Alike /\ \A d \in Devs : past[d] = {Wire(dev[d])}
    /\ pc = "again" => \A d \in Devs : ~dev[d].gated
    /\ pc \in {"send", "report"} => \A d \in Devs : dev[d].sticky \subseteq record[d]

ErasedLate ==
  (order[1] = "clear" /\ pc \in {"send", "report"}) \/ \A d \in Devs : erased[d] = {}

Safe ==
  /\ SteadyOn /\ OnSince /\ IdleFresh /\ Latched(dev) /\ StoodShow /\ ThrottleCut
  /\ ClearTrue /\ ErasedLate /\ ErasedIsRecorded

Inv == TypeInv /\ Safe

-----------------------------------------------------------------------------
(* What happens behind a command's back.                                   *)

\* Nobody starts to broadcast, and nothing latched is lost.
OnlyWorse(D) ==
  \A d \in Devs : /\ Wire(D[d]).on => Wire(dev[d]).on /\ D[d].pace = dev[d].pace
                  /\ dev[d].sticky \subseteq D[d].sticky
                  /\ D[d].live => "fault" \in D[d].sticky

LEMMA EnvironmentSafe ==
  ASSUME Inv, NEW D \in [Devs -> Controllers], Become(D), Environment, OnlyWorse(D),
         stood' \subseteq stood, cut \subseteq cut',
         \A d \in Devs : Wire(dev[d]).on /\ ~Wire(D[d]).on =>
                         d \notin stood' /\ (Busy("throttle") => d \in cut')
  PROVE  Safe'
<1>1. /\ dev' = D /\ steady' = steady \cap On(D)
      /\ UNCHANGED <<gen, order, pc, before, record, alike, erased>>
      /\ \A d \in Devs : past'[d] = (IF pc = "idle" THEN {} ELSE past[d]) \cup {Wire(D[d])}
      /\ calm' = (calm /\ ~Busy("clear"))
  BY DEF Become, Environment, session, rig
<1>2. \A d \in Devs : Wire(D[d]).on => Wire(dev[d]).on
  BY DEF OnlyWorse
<1>3. SteadyOn'
  BY <1>1, <1>2 DEF Inv, Safe, SteadyOn, On
<1>4. OnSince'
  <2> SUFFICES ASSUME NEW d \in Devs, Wire(D[d]).on, NEW s \in past'[d]
               PROVE  s.on /\ s.pace = D[d].pace
    BY <1>1 DEF OnSince
  <2>1. Wire(dev[d]).on /\ D[d].pace = dev[d].pace
    BY DEF OnlyWorse
  <2>2. CASE s = Wire(D[d])
    BY <2>2 DEF Wire
  <2>3. CASE s \in past[d]
    BY <2>1, <2>3 DEF Inv, Safe, OnSince
  <2> QED BY <1>1, <2>2, <2>3
<1>5. IdleFresh'
  BY <1>1 DEF Inv, Safe, IdleFresh
<1>6. Latched(dev)'
  BY <1>1 DEF OnlyWorse, Latched
<1>7. \A d \in stood' : d \in Devs /\ d \in stood /\ (Wire(dev[d]).on => Wire(D[d]).on)
  BY DEF Inv, TypeInv, HistoryTyped
<1>8. \A d \in stood' : Wire(dev[d]).sticky \subseteq Wire(D[d]).sticky /\ Wire(dev[d]) \in past[d]
  BY <1>7 DEF OnlyWorse, Wire, Inv, TypeInv, RigTyped
<1>9. StoodShow'
  <2>1. ASSUME NEW bit, NEW d \in stood', \A s \in past[d] : bit \in s.sticky,
               NEW s \in past'[d]
        PROVE  bit \in s.sticky
    BY <1>1, <1>7, <1>8, <2>1
  <2> QED BY <1>1, <1>7, <2>1 DEF Inv, Safe, StoodShow
<1>10. ThrottleCut'
  <2> SUFFICES ASSUME order[1] = "throttle", NEW d \in Devs,
                      (\E s \in past'[d] : s.on) \/ before[d].heard
               PROVE  Wire(D[d]).on \/ d \in cut'
    BY <1>1 DEF ThrottleCut
  <2>1. (\E s \in past[d] : s.on) \/ before[d].heard \/ Wire(D[d]).on
    BY <1>1
  <2>2. Wire(D[d]).on \/ Wire(dev[d]).on \/ d \in cut
    BY <2>1 DEF Inv, Safe, ThrottleCut
  <2> QED BY <2>2 DEF Busy
<1>11. ClearTrue'
  BY <1>1 DEF ClearTrue, Busy
<1>12. ErasedLate'
  BY <1>1 DEF Inv, Safe, ErasedLate
<1>13. ErasedIsRecorded'
  BY <1>1 DEF Inv, Safe, ErasedIsRecorded
<1> QED BY <1>3, <1>4, <1>5, <1>6, <1>9, <1>10, <1>11, <1>12, <1>13 DEF Safe

LEMMA PowerOffStep == ASSUME Inv, NEW S \in Breakers, PowerOff(S) PROVE Inv'
<1> DEFINE D == [d \in Devs |-> [dev[d] EXCEPT !.up = @ /\ d \notin S]]
<1>1. S \subseteq Devs
  BY DEF Breakers
<1>2. \A d \in Devs : /\ D[d] \in Controllers /\ D[d].gated = dev[d].gated
                      /\ D[d].live = dev[d].live /\ D[d].sticky = dev[d].sticky
                      /\ D[d].pace = dev[d].pace /\ (D[d].up <=> dev[d].up /\ d \notin S)
  <2> SUFFICES ASSUME NEW d \in Devs
               PROVE  /\ D[d] \in Controllers /\ D[d].gated = dev[d].gated
                      /\ D[d].live = dev[d].live /\ D[d].sticky = dev[d].sticky
                      /\ D[d].pace = dev[d].pace /\ (D[d].up <=> dev[d].up /\ d \notin S)
    OBVIOUS
  <2>1. dev[d] \in Controllers
    BY DEF Inv, TypeInv, RigTyped
  <2> QED BY <2>1 DEF Controllers
<1>3. D \in [Devs -> Controllers] /\ Become(D) /\ Environment /\ Trouble
  BY <1>2 DEF PowerOff
<1>4. stood' = stood \ S /\ cut' = IF Busy("throttle") THEN cut \cup S ELSE cut
  BY DEF PowerOff
<1> HIDE DEF D
<1>5. OnlyWorse(D)
  BY <1>2 DEF OnlyWorse, Wire, Inv, Safe, Latched
<1>6. \A d \in Devs : Wire(dev[d]).on /\ ~Wire(D[d]).on => d \in S
  BY <1>2 DEF Wire
<1>7. TypeInv'
  BY <1>1, <1>3, <1>4, EnvironmentType DEF Inv, TypeInv, HistoryTyped
<1>8. Safe'
  BY <1>3, <1>4, <1>5, <1>6, EnvironmentSafe
<1> QED BY <1>7, <1>8 DEF Inv

\* The other three take nobody off the bus.
LEMMA QuietStep ==
  ASSUME Inv, NEW D \in [Devs -> Controllers], Become(D), Environment, OnlyWorse(D),
         \A d \in Devs : Wire(dev[d]).on => Wire(D[d]).on,
         Trouble \/ trouble' = trouble, UNCHANGED <<cut, stood>>
  PROVE  Inv'
<1>1. TypeInv'
  BY EnvironmentType DEF Inv, TypeInv, HistoryTyped
<1>2. Safe'
  BY EnvironmentSafe
<1> QED BY <1>1, <1>2 DEF Inv

LEMMA PowerOnStep == ASSUME Inv, PowerOn PROVE Inv'
<1> DEFINE D == [d \in Devs |-> IF dev[d].up THEN dev[d] ELSE Rebooted(dev[d], d)]
<1>1. dev \in [Devs -> Controllers]
  BY DEF Inv, TypeInv, RigTyped
<1>2. D \in [Devs -> Controllers]
  BY <1>1, RebootedType
<1>3. \A d \in Devs : \/ D[d] = dev[d]
                      \/ /\ ~dev[d].up /\ D[d].gated /\ ~D[d].live
                         /\ D[d].sticky = dev[d].sticky \cup {"hasReset"}
  BY <1>1, RebootedType
<1>4. Become(D) /\ Environment /\ UNCHANGED <<trouble, cut, stood>>
  BY DEF PowerOn
<1> HIDE DEF D
<1>5. OnlyWorse(D) /\ \A d \in Devs : Wire(dev[d]).on => Wire(D[d]).on
  BY <1>3 DEF OnlyWorse, Wire, Inv, Safe, Latched
<1> QED BY <1>2, <1>4, <1>5, QuietStep

LEMMA FaultStep ==
  ASSUME Inv, NEW d \in Devs, Fault(d) \/ CauseRemoved(d) PROVE Inv'
<1>1. dev \in [Devs -> Controllers] /\ dev[d] \in Controllers
  BY DEF Inv, TypeInv, RigTyped
<1>2. CASE Fault(d)
  <2> DEFINE c == [dev[d] EXCEPT !.live = TRUE, !.sticky = @ \cup {"fault"}]
             D == [dev EXCEPT ![d] = c]
  <2>1. /\ c \in Controllers /\ c.up = dev[d].up /\ c.gated = dev[d].gated
        /\ c.pace = dev[d].pace /\ c.sticky = dev[d].sticky \cup {"fault"}
    BY <1>1 DEF Controllers, Bits
  <2>2. [dev EXCEPT ![d].live = TRUE, ![d].sticky = @ \cup {"fault"}] = D
    BY <1>1
  <2>3. Become(D) /\ Environment /\ Trouble /\ UNCHANGED <<cut, stood>>
    BY <1>2, <2>2 DEF Fault
  <2> HIDE DEF c
  <2>4. D \in [Devs -> Controllers] /\ OnlyWorse(D)
        /\ \A e \in Devs : Wire(dev[e]).on => Wire(D[e]).on
    BY <1>1, <2>1 DEF OnlyWorse, Wire, Inv, Safe, Latched
  <2> QED BY <2>3, <2>4, QuietStep
<1>3. CASE CauseRemoved(d)
  <2> DEFINE c == [dev[d] EXCEPT !.live = FALSE]
             D == [dev EXCEPT ![d] = c]
  <2>1. /\ c \in Controllers /\ c.up = dev[d].up /\ c.gated = dev[d].gated
        /\ c.pace = dev[d].pace /\ c.sticky = dev[d].sticky /\ ~c.live
    BY <1>1 DEF Controllers
  <2>2. [dev EXCEPT ![d].live = FALSE] = D
    BY <1>1
  <2>3. Become(D) /\ Environment /\ UNCHANGED <<trouble, cut, stood>>
    BY <1>3, <2>2 DEF CauseRemoved
  <2> HIDE DEF c
  <2>4. D \in [Devs -> Controllers] /\ OnlyWorse(D)
        /\ \A e \in Devs : Wire(dev[e]).on => Wire(D[e]).on
    BY <1>1, <2>1 DEF OnlyWorse, Wire, Inv, Safe, Latched
  <2> QED BY <2>3, <2>4, QuietStep
<1> QED BY <1>2, <1>3
-----------------------------------------------------------------------------
(* Commands.                                                               *)

\* A command begins on what the socket brings from then on.
LEMMA StartStep == ASSUME Inv, NEW o \in Orders, Start(o) PROVE Inv'
<1>1. /\ pc = "idle" /\ order' = o /\ pc' = "begin" /\ steady' = On(dev)
      /\ UNCHANGED <<rig, gen, dev, past, exit, before, todo, record, advice, trouble, calm, erased, cut>>
      /\ before = Silence
      /\ alike' = (o[1] = "clear" => Alike)
  BY DEF Start, Inv, Safe, IdleFresh, rig
<1>2. \A d \in Devs : past[d] = {Wire(dev[d])} /\ ~before[d].heard
  BY <1>1, UnheardType DEF Inv, Safe, IdleFresh, Silence
<1>3. stood' = CASE o[1] \in {"faults", "audit"} ->
                     {d \in On(dev) : dev[d].live \/ "fault" \in dev[d].sticky}
              [] o[1] = "voltage" ->
                     {d \in On(dev) : gen = "fw25" /\ "hasReset" \in dev[d].sticky}
              [] OTHER -> {}
  BY DEF Start
<1>4. stood' \subseteq Devs
  <2>1. CASE o[1] \in {"faults", "audit"}
    BY <1>3, <2>1 DEF On
  <2>2. CASE o[1] = "voltage"
    BY <1>3, <2>2 DEF On
  <2>3. CASE o[1] \notin {"faults", "audit", "voltage"}
    BY <1>3, <2>3
  <2> QED BY <2>1, <2>2, <2>3
<1>5. TypeInv'
  BY <1>1, <1>4 DEF Inv, TypeInv, RigTyped, SessionTyped, HistoryTyped, On, rig
<1>6. StoodShow'
  <2>1. ASSUME o[1] \in {"faults", "audit"}, NEW d \in stood'
        PROVE  Wire(dev[d]).on /\ \A s \in past[d] : "fault" \in s.sticky
    <3>1. d \in On(dev) /\ (dev[d].live \/ "fault" \in dev[d].sticky)
      BY <1>3, <2>1
    <3> QED BY <1>2, <3>1 DEF On, Wire, Inv, Safe, Latched
  <2>2. ASSUME o[1] = "voltage", NEW d \in stood'
        PROVE  Wire(dev[d]).on /\ gen = "fw25" /\ \A s \in past[d] : "hasReset" \in s.sticky
    <3>1. d \in On(dev) /\ gen = "fw25" /\ "hasReset" \in dev[d].sticky
      BY <1>3, <2>2
    <3> QED BY <1>2, <3>1 DEF On, Wire
  <2> QED BY <1>1, <2>1, <2>2 DEF StoodShow
<1>7. ClearTrue'
  BY <1>1, <1>2 DEF ClearTrue, Alike
<1>8. ThrottleCut'
  BY <1>1, <1>2 DEF ThrottleCut
<1>9. SteadyOn' /\ OnSince' /\ IdleFresh' /\ Latched(dev)'
  BY <1>1 DEF Inv, Safe, SteadyOn, OnSince, IdleFresh, Latched, On
<1>10. ErasedLate' /\ ErasedIsRecorded'
  BY <1>1 DEF Inv, Safe, ErasedLate, ErasedIsRecorded
<1> QED BY <1>5, <1>6, <1>7, <1>8, <1>9, <1>10 DEF Inv, Safe

\* A command returns.
LEMMA EndStep ==
  ASSUME Inv, NEW D \in [Devs -> Controllers], Latched(D), NEW n \in 0..1,
         NEW next \in SUBSET Orders, End(D, n, next), Trouble \/ trouble' = trouble
  PROVE  Inv'
<1>1. TypeInv'
  BY EndType DEF Inv
<1>2. /\ dev' = D /\ past' = [d \in Devs |-> {Wire(D[d])}] /\ pc' = "idle" /\ order' = None
      /\ steady' = On(D) /\ before' = Silence /\ stood' = {}
      /\ erased' = [d \in Devs |-> {}] /\ record' = [d \in Devs |-> {}]
  BY DEF End
<1>3. order'[1] = "none"
  BY <1>2 DEF None
<1>4. SteadyOn' /\ IdleFresh' /\ Latched(dev)'
  BY <1>2 DEF SteadyOn, On, IdleFresh, Latched
<1>5. OnSince'
  BY <1>2 DEF OnSince, Wire
<1>6. StoodShow' /\ ThrottleCut' /\ ClearTrue'
  BY <1>3 DEF StoodShow, ThrottleCut, ClearTrue
<1>7. ErasedLate' /\ ErasedIsRecorded'
  BY <1>2 DEF ErasedLate, ErasedIsRecorded
<1> QED BY <1>1, <1>4, <1>5, <1>6, <1>7 DEF Inv, Safe

\* A command goes on: what it leaves broadcasts at least as before.
LEMMA GoOnStep ==
  ASSUME Inv, NEW D \in [Devs -> Controllers], Latched(D), NEW p, p # "idle", GoOn(D, p), Going,
         Arrives \/ Missed,
         before' \in [Devs -> Readings], todo' \subseteq Devs \X Frames,
         record' \in [Devs -> SUBSET Bits], erased' \in [Devs -> SUBSET Bits],
         \A d \in Devs : Wire(dev[d]).on => Wire(D[d]).on,
         order[1] # "clear" => /\ \A d \in Devs : dev[d].sticky \subseteq D[d].sticky
                               /\ UNCHANGED erased,
         order[1] = "throttle" =>
           \A d \in Devs : before'[d].heard => before[d].heard \/ Shown(d) # {},
         order[1] = "clear" => ClearTrue' /\ ErasedLate' /\ ErasedIsRecorded'
  PROVE  Inv'
<1>1. TypeInv'
  BY GoOnType DEF Inv
<1>2. /\ dev' = D /\ past' = [d \in Devs |-> {Wire(D[d])}] /\ pc' = p /\ steady' = On(D)
      /\ UNCHANGED <<gen, order, exit, advice, alike, cut, stood>>
  BY DEF GoOn, Going, rig
<1>3. SteadyOn' /\ IdleFresh' /\ Latched(dev)'
  BY <1>2 DEF SteadyOn, On, IdleFresh, Latched
<1>4. OnSince'
  BY <1>2 DEF OnSince, Wire
<1>5. StoodShow'
  <2>1. \A d \in stood : d \in Devs /\ Wire(dev[d]) \in past[d] /\ past'[d] = {Wire(D[d])}
    BY <1>2 DEF Inv, TypeInv, HistoryTyped, RigTyped
  <2>2. ASSUME order[1] # "clear", NEW d \in stood
        PROVE  Wire(dev[d]).sticky \subseteq Wire(D[d]).sticky
    BY <2>1, <2>2 DEF Wire
  <2>3. ASSUME order[1] \in {"faults", "audit"}, NEW d \in stood
        PROVE  Wire(D[d]).on /\ \A s \in past'[d] : "fault" \in s.sticky
    BY <2>1, <2>2, <2>3 DEF Inv, Safe, StoodShow
  <2>4. ASSUME order[1] = "voltage", NEW d \in stood
        PROVE  Wire(D[d]).on /\ gen = "fw25" /\ \A s \in past'[d] : "hasReset" \in s.sticky
    <3>1. d \in Devs /\ Wire(dev[d]).on /\ gen = "fw25" /\ "hasReset" \in Wire(dev[d]).sticky
      BY <2>1, <2>4 DEF Inv, Safe, StoodShow
    <3>2. Wire(dev[d]).sticky \subseteq Wire(D[d]).sticky
      BY <2>2, <2>4
    <3> QED BY <2>1, <3>1, <3>2
  <2> QED BY <1>2, <2>3, <2>4 DEF StoodShow
<1>6. ThrottleCut'
  <2> SUFFICES ASSUME order[1] = "throttle", NEW d \in Devs,
                      (\E s \in past'[d] : s.on) \/ before'[d].heard
               PROVE  Wire(D[d]).on \/ d \in cut
    BY <1>2 DEF ThrottleCut
  <2>1. CASE \E s \in past'[d] : s.on
    BY <1>2, <2>1
  <2>2. CASE before'[d].heard
    <3>1. before[d].heard \/ \E s \in past[d] : s.on
      BY <2>2 DEF Shown
    <3> QED BY <3>1 DEF Inv, Safe, ThrottleCut
  <2> QED BY <2>1, <2>2
<1>7. ClearTrue'
  BY <1>2 DEF ClearTrue
<1>8. ErasedLate' /\ ErasedIsRecorded'
  <2>1. ASSUME order[1] # "clear" PROVE ErasedLate' /\ ErasedIsRecorded'
    <3>1. \A d \in Devs : erased'[d] = {}
      BY <2>1 DEF Inv, Safe, ErasedLate
    <3> QED BY <3>1 DEF ErasedLate, ErasedIsRecorded
  <2> QED BY <2>1
<1> QED BY <1>1, <1>3, <1>4, <1>5, <1>6, <1>7, <1>8 DEF Inv, Safe

LEMMA RigFacts ==
  ASSUME Inv
  PROVE  /\ dev \in [Devs -> Controllers] /\ past \in [Devs -> SUBSET Wires]
         /\ Latched(dev)
         /\ before \in [Devs -> Readings] /\ todo \subseteq Devs \X Frames
         /\ record \in [Devs -> SUBSET Bits] /\ erased \in [Devs -> SUBSET Bits]
         /\ Done \in SUBSET Orders /\ advice \in SUBSET Orders
<1> QED BY DoneType DEF Inv, TypeInv, RigTyped, SessionTyped, HistoryTyped, Safe

LEMMA WokenRig ==
  ASSUME Inv
  PROVE  /\ Woken(dev) \in [Devs -> Controllers] /\ Latched(Woken(dev))
         /\ \A d \in Devs : /\ Wire(dev[d]).on => Wire(Woken(dev)[d]).on
                            /\ Woken(dev)[d].sticky = dev[d].sticky
                            /\ Woken(dev)[d].up = dev[d].up
                            /\ dev[d].up => ~Woken(dev)[d].gated
<1>1. dev \in [Devs -> Controllers] /\ Latched(dev)
  BY RigFacts
<1> QED BY <1>1, WokenType DEF Latched, Wire

\* A step of a command that is neither clear nor throttle, and sends at most a
\* request.
LEMMA PlainStep ==
  ASSUME Inv, NEW D \in {dev, Woken(dev)}, NEW p, p # "idle", GoOn(D, p), Going, Arrives \/ Missed,
         order[1] # "clear", before' \in [Devs -> Readings], todo' \subseteq Devs \X Frames,
         UNCHANGED <<record, erased>>,
         order[1] = "throttle" =>
           \A d \in Devs : before'[d].heard => before[d].heard \/ Shown(d) # {}
  PROVE  Inv'
<1>1. /\ D \in [Devs -> Controllers] /\ Latched(D)
      /\ \A d \in Devs : /\ Wire(dev[d]).on => Wire(D[d]).on
                         /\ dev[d].sticky \subseteq D[d].sticky
  BY RigFacts, WokenRig
<1>2. record' \in [Devs -> SUBSET Bits] /\ erased' \in [Devs -> SUBSET Bits]
  BY RigFacts
<1> QED BY <1>1, <1>2, GoOnStep

LEMMA SurveyStep ==
  ASSUME Inv, StatusSurvey \/ AuditSurvey PROVE Inv'
<1>1. PICK c \in {"status", "audit"}, F \in {{}, {FaultFrame}} : Survey(c, F, "ask")
  BY DEF StatusSurvey, AuditSurvey
<1>2. /\ order[1] \in {"status", "audit"} /\ before' \in Inventory(F) /\ GoOn(dev, "ask")
      /\ Going /\ Arrives /\ UNCHANGED <<todo, record, erased>>
  BY <1>1 DEF Survey, At
<1>3. before' \in [Devs -> Readings] /\ todo' \subseteq Devs \X Frames
  BY <1>2, RigFacts, InventoryType
<1> QED BY <1>2, <1>3, PlainStep

LEMMA AuditAskStep ==
  ASSUME Inv, AuditAsk PROVE Inv'
<1> DEFINE D == IF gen = "pre25" /\ Heard(before) # {} THEN Woken(dev) ELSE dev
<1>1. /\ order[1] = "audit" /\ GoOn(D, "look") /\ D \in {dev, Woken(dev)}
      /\ Going /\ Arrives /\ UNCHANGED <<before, todo, record, erased>>
  BY DEF AuditAsk, At
<1> HIDE DEF D
<1> QED BY <1>1, RigFacts, PlainStep

LEMMA FaultsExitType == ASSUME NEW r, NEW told PROVE FaultsExit(r) \in 0..1 /\ VoltageExit(r, told) \in 0..1
<1> QED BY DEF FaultsExit, VoltageExit

\* The commands that return at once, and what the others do last.
LEMMA LastStep ==
  ASSUME Inv, StatusAsk \/ Faults \/ Voltage \/ Repair \/ ClearEnd \/ Measure \/ Audit PROVE Inv'
<1> DEFINE Ends(D) ==
      \E n \in 0..1, next \in SUBSET Orders : End(D, n, next) /\ (Trouble \/ trouble' = trouble)
<1>1. ASSUME NEW D \in [Devs -> Controllers], Latched(D), Ends(D) PROVE Inv'
  BY <1>1, EndStep
<1> HIDE DEF Ends
<1>2. ASSUME Ends(dev) \/ Ends(Woken(dev)) PROVE Inv'
  BY <1>1, <1>2, RigFacts, WokenRig
<1>3. CASE StatusAsk
  BY <1>2, <1>3, RigFacts DEF StatusAsk, Ends
<1>4. CASE Faults
  BY <1>2, <1>4, RigFacts, FaultsExitType DEF Faults, Ends
<1>5. CASE Voltage
  BY <1>2, <1>5, RigFacts, FaultsExitType DEF Voltage, Ends
<1>6. CASE Repair
  <2> DEFINE d == order[2]
  <2>1. d \in Devs
    <3>1. order \in Orders \cup {None} /\ order[1] = "repair"
      BY <1>6 DEF Repair, At, Inv, TypeInv, SessionTyped
    <3> QED BY <3>1 DEF Orders, None
  <2>2. \/ trouble' = trouble /\ End(dev, 1, Done)
        \/ trouble' = trouble /\ End(Repaired(Woken(dev), d), IF dev[d].up THEN 0 ELSE 1, Done)
        \/ Trouble /\ End(dev, 1, Done)
    BY <1>6 DEF Repair
  <2>3. Repaired(Woken(dev), d) \in [Devs -> Controllers] /\ Latched(Repaired(Woken(dev), d))
    <3>1. Woken(dev) \in [Devs -> Controllers] /\ Latched(Woken(dev))
      BY WokenRig
    <3>2. /\ Repaired(Woken(dev), d) \in [Devs -> Controllers]
          /\ \A e \in Devs : /\ Repaired(Woken(dev), d)[e].live = Woken(dev)[e].live
                             /\ Repaired(Woken(dev), d)[e].sticky = Woken(dev)[e].sticky
      BY <2>1, <3>1, RepairedType
    <3> QED BY <3>1, <3>2 DEF Latched
  <2>4. Ends(dev) \/ Ends(Repaired(Woken(dev), d))
    BY <2>2, RigFacts DEF Ends
  <2> QED BY <1>1, <1>2, <2>3, <2>4
<1>7. CASE ClearEnd
  BY <1>2, <1>7, RigFacts DEF ClearEnd, Ends
<1>8. CASE Measure
  BY <1>2, <1>8, RigFacts DEF Measure, Ends
<1>9. CASE Audit
  <2>1. PICK r, told : End(IF Heard(before) = {} THEN dev ELSE Woken(dev),
                           IF CleanAudit(before, r, told) THEN 0 ELSE 1,
                           Advised(before, r, told))
    BY <1>9 DEF Audit
  <2>2. Advised(before, r, told) \in SUBSET Orders /\ trouble' = trouble
    BY <1>9, AdvisedType DEF Audit
  <2> QED BY <1>2, <2>1, <2>2 DEF Ends
<1> QED BY <1>3, <1>4, <1>5, <1>6, <1>7, <1>8, <1>9

LEMMA NextSent ==
  ASSUME Inv, todo # {}
  PROVE  Least({w[1] : w \in todo}) \in Devs
<1>1. {w[1] : w \in todo} \subseteq Devs /\ {w[1] : w \in todo} # {}
  BY RigFacts
<1>2. Devs \subseteq Nat
  BY ConstantsAssumption DEF ConstantsAssumption
<1> QED BY <1>1, <1>2, LeastType

LEMMA ThrottleStep ==
  ASSUME Inv, ThrottleBegin \/ ThrottleSurvey \/ ThrottleWrite \/ Settle PROVE Inv'
<1>1. CASE ThrottleBegin
  <2>1. CASE trouble' = trouble /\ End(dev, 0, Done)
    BY <2>1, RigFacts, EndStep
  <2>2. CASE ~(trouble' = trouble /\ End(dev, 0, Done))
    <3>1. /\ order[1] = "throttle" /\ GoOn(dev, "survey")
          /\ Going /\ Arrives /\ UNCHANGED <<before, todo, record, erased>>
      BY <1>1, <2>2 DEF ThrottleBegin, At
    <3> QED BY <3>1, RigFacts, PlainStep
  <2> QED BY <2>1, <2>2
<1>2. CASE ThrottleSurvey
  <2>1. PICK r \in Inventory({}) :
          \/ /\ Heard(r) # {} /\ before' = r /\ todo' = Heard(r) \X Frames
             /\ GoOn(dev, "write")
             /\ Going /\ Arrives /\ UNCHANGED <<record, erased>>
          \/ Heard(r) = {} /\ trouble' = trouble /\ End(dev, 1, Done)
    BY <1>2 DEF ThrottleSurvey
  <2>2. CASE trouble' = trouble /\ End(dev, 1, Done)
    BY <2>2, RigFacts, EndStep
  <2>3. CASE ~(trouble' = trouble /\ End(dev, 1, Done))
    <3>1. /\ before' = r /\ todo' = Heard(r) \X Frames /\ GoOn(dev, "write")
          /\ Going /\ Arrives /\ UNCHANGED <<record, erased>>
      BY <2>1, <2>3
    <3>2. r \in [Devs -> Readings] /\ \A d \in Devs : r[d] \in Counted(d, {})
      BY RigFacts, InventoryType
    <3>3. \A d \in Devs : before'[d].heard => Shown(d) # {}
      BY <3>1, <3>2, RigFacts, CountedType
    <3>4. todo' \subseteq Devs \X Frames /\ order[1] = "throttle"
      BY <1>2, <3>1 DEF Heard, ThrottleSurvey, At
    <3> QED BY <3>1, <3>2, <3>3, <3>4, PlainStep
  <2> QED BY <2>2, <2>3
<1>3. CASE ThrottleWrite
  <2> DEFINE d == Least({w[1] : w \in todo})
             f == Least({w[2] : w \in {x \in todo : x[1] = d}})
             D == Throttled(Woken(dev), d, f)
  <2>1. /\ order[1] = "throttle" /\ todo # {} /\ todo' = todo \ {<<d, f>>}
        /\ (Arrives /\ GoOn(D, "write")) \/ (Missed /\ GoOn(dev, "write"))
        /\ Going /\ UNCHANGED <<before, record, erased>>
    BY <1>3 DEF ThrottleWrite, At
  <2>2. d \in Devs
    BY <2>1, NextSent
  <2>3. f \in Frames
    <3>1. d \in {w[1] : w \in todo}
      <4>1. {w[1] : w \in todo} \subseteq Nat /\ {w[1] : w \in todo} # {}
        <5>1. {w[1] : w \in todo} \subseteq Devs
          BY RigFacts
        <5> QED BY <2>1, <5>1, ConstantsAssumption DEF ConstantsAssumption
      <4> QED BY <4>1, LeastType
    <3>2. {w[2] : w \in {x \in todo : x[1] = d}} # {}
      BY <3>1
    <3>3. {w[2] : w \in {x \in todo : x[1] = d}} \subseteq Frames
      BY RigFacts
    <3>4. Frames \subseteq Nat
      BY DEF Frames
    <3> HIDE DEF d
    <3> QED BY <3>2, <3>3, <3>4, LeastType
  <2>4. todo' \subseteq Devs \X Frames
    BY <2>1, RigFacts
  <2> HIDE DEF d, f
  <2>5. CASE GoOn(dev, "write")
    BY <2>1, <2>4, <2>5, RigFacts, PlainStep
  <2>6. CASE Arrives /\ GoOn(D, "write")
    <3>1. D \in [Devs -> Controllers] /\ Latched(D)
          /\ \A e \in Devs : /\ Wire(dev[e]).on => Wire(D[e]).on
                             /\ dev[e].sticky \subseteq D[e].sticky
      <4>1. \A e \in Devs : /\ D[e].up = Woken(dev)[e].up /\ D[e].gated = Woken(dev)[e].gated
                            /\ D[e].live = Woken(dev)[e].live /\ D[e].sticky = Woken(dev)[e].sticky
        BY <2>2, <2>3, WokenRig, ThrottledType
      <4>2. D \in [Devs -> Controllers]
        BY <2>2, <2>3, WokenRig, ThrottledType
      <4> QED BY <4>1, <4>2, WokenRig DEF Latched, Wire
    <3> HIDE DEF D
    <3> QED BY <2>1, <2>4, <2>6, <3>1, RigFacts, GoOnStep
  <2> QED BY <2>1, <2>5, <2>6
<1>4. CASE Settle
  <2>1. /\ order[1] = "throttle" /\ GoOn(dev, "measure")
        /\ Going /\ Arrives /\ UNCHANGED <<before, todo, record, erased>>
    BY <1>4 DEF Settle, At
  <2> QED BY <2>1, RigFacts, PlainStep
<1> QED BY <1>1, <1>2, <1>3, <1>4

\* clear, up to its first frame: on a rig that is alike and left alone, either
\* everybody is heard or nobody is.
LEMMA ClearReadStep ==
  ASSUME Inv, ClearLook \/ Capture \/ Wake PROVE Inv'
<1>1. CASE ClearLook
  <2>1. /\ order[1] = "clear" /\ pc = "begin" /\ pc' = "capture" /\ GoOn(dev, "capture") /\ Going /\ Arrives
        /\ dev' = dev /\ past' = [d \in Devs |-> {Wire(dev[d])}]
        /\ UNCHANGED <<gen, order, calm, alike, before, todo, record, erased>>
    BY <1>1 DEF ClearLook, At, GoOn, Going, Arrives, rig
  <2>2. ClearTrue'
    BY <2>1 DEF Inv, Safe, ClearTrue, Alike
  <2>3. ErasedLate' /\ ErasedIsRecorded'
    BY <2>1 DEF Inv, Safe, ErasedLate, ErasedIsRecorded
  <2> QED BY <2>1, <2>2, <2>3, RigFacts, GoOnStep
<1>2. CASE Wake
  <2>1. /\ order[1] = "clear" /\ pc = "wake" /\ Going /\ UNCHANGED <<before, todo, record, erased>>
        /\ \/ Arrives /\ GoOn(Woken(dev), "again")
           \/ Missed /\ GoOn(dev, "again")
    BY <1>2 DEF Wake, At
  <2>2. /\ pc' = "again" /\ UNCHANGED <<gen, order, alike, erased, record>>
    BY <2>1 DEF GoOn, Going, rig
  <2>3. ErasedLate' /\ ErasedIsRecorded'
    BY <2>1, <2>2 DEF Inv, Safe, ErasedLate, ErasedIsRecorded
  <2>4. CASE Missed /\ GoOn(dev, "again")
    <3>1. ~calm'
      BY <2>1, <2>4 DEF Missed, Busy
    <3> QED BY <2>1, <2>3, <2>4, <3>1, RigFacts, GoOnStep DEF ClearTrue
  <2>5. CASE Arrives /\ GoOn(Woken(dev), "again")
    <3>1. /\ calm' = calm /\ dev' = Woken(dev)
          /\ \A d \in Devs : past'[d] = {Wire(dev'[d])}
      BY <2>5 DEF Arrives, GoOn
    <3>2. ClearTrue'
      <4> SUFFICES ASSUME calm, alike, order[1] = "clear"
                   PROVE  /\ Alike' /\ \A d \in Devs : past'[d] = {Wire(dev'[d])}
                          /\ \A d \in Devs : ~dev'[d].gated
        BY <2>2, <3>1 DEF ClearTrue
      <4>1. Alike
        BY <2>1 DEF Inv, Safe, ClearTrue
      <4>2. \A d \in Devs : /\ dev'[d].up = dev[d].up /\ dev'[d].pace = dev[d].pace
                            /\ dev[d].up => ~dev'[d].gated
                            /\ dev'[d].gated \in BOOLEAN
        <5>1. dev \in [Devs -> Controllers]
          BY RigFacts
        <5> QED BY <3>1, <5>1, WokenType DEF Controllers
      <4>3. \A d \in Devs : dev[d].up /\ (gen = "fw25" => dev[d].pace[1] = "ours")
        BY <4>1 DEF Alike
      <4>4. \A d \in Devs : dev'[d].up /\ ~dev'[d].gated
        BY <4>2, <4>3
      <4>5. \A d, e \in Devs : dev'[d].gated = dev'[e].gated
        BY <4>2, <4>4
      <4>6. gen' = "fw25" => \A d \in Devs : dev'[d].pace[1] = "ours"
        BY <2>2, <4>2, <4>3
      <4> QED BY <3>1, <4>4, <4>5, <4>6 DEF Alike
    <3> QED BY <2>1, <2>3, <2>5, <3>2, RigFacts, WokenRig, GoOnStep
  <2> QED BY <2>1, <2>4, <2>5
<1>3. CASE Capture
  <2>1. PICK r \in CollectShort :
       /\ record' = Captured(r)
       /\ IF Heard(r) = {} /\ pc = "capture" THEN GoOn(dev, "wake") /\ todo' = {}
                                             ELSE GoOn(dev, "send") /\ todo' = Devs \X {0}
    BY <1>3 DEF Capture
  <2>2. /\ order[1] = "clear" /\ pc \in {"capture", "again"} /\ Going /\ Arrives
        /\ UNCHANGED <<before, erased>>
    BY <1>3 DEF Capture
  <2>3. /\ dev' = dev /\ (\A d \in Devs : past'[d] = {Wire(dev[d])})
        /\ UNCHANGED <<gen, order, alike, calm>>
    BY <2>1, <2>2 DEF GoOn, Going, Arrives, rig
  <2>4. r \in [Devs -> Readings] /\ \A d \in Devs : r[d] \in Collected(d, TRUE)
    BY RigFacts, CollectShortType
  <2>5. record' \in [Devs -> SUBSET Bits] /\ todo' \subseteq Devs \X Frames
    <3>1. \A d \in Devs : (IF r[d].read THEN r[d].sticky ELSE {}) \in SUBSET Bits
      BY <2>4 DEF Readings
    <3> QED BY <2>1, <3>1 DEF Captured, Frames
  <2>6. \A d \in Devs : erased[d] = {}
    BY <2>2 DEF Inv, Safe, ErasedLate
  <2>7. ErasedLate' /\ ErasedIsRecorded'
    BY <2>2, <2>6 DEF ErasedLate, ErasedIsRecorded
  <2>8. ASSUME calm, alike, ~(Heard(r) = {} /\ pc = "capture"), NEW d \in Devs
        PROVE  dev[d].sticky \subseteq record'[d]
    <3>1. Alike /\ past[d] = {Wire(dev[d])} /\ (pc = "again" => ~dev[d].gated)
          /\ \A e \in Devs : past[e] = {Wire(dev[e])}
      BY <2>2, <2>8 DEF Inv, Safe, ClearTrue
    <3>2. ~dev[d].gated
      <4>1. CASE pc = "again"
        BY <3>1, <4>1
      <4>2. CASE Heard(r) # {}
        <5>1. PICK e \in Devs : r[e].heard
          BY <4>2 DEF Heard
        <5>2. Shown(e) # {}
          BY <2>4, <5>1, RigFacts, CollectedType
        <5>3. ~dev[e].gated
          <6>1. PICK s \in past[e] : s.on
            BY <5>2 DEF Shown
          <6>2. Wire(dev[e]).on
            BY <3>1, <6>1
          <6> QED BY <6>2 DEF Wire
        <5> QED BY <3>1, <5>3 DEF Alike
      <4> QED BY <2>2, <2>8, <4>1, <4>2
    <3>3. Wire(dev[d]).on
      BY <3>1, <3>2 DEF Alike, Wire
    <3>4. Shown(d) = {Wire(dev[d])} /\ d \in steady
      BY <3>1, <3>3 DEF Shown, Inv, Safe, SteadyOn, On
    <3>5. gen = "fw25" => Wire(dev[d]).pace[1] # "cold"
      BY <3>1 DEF Alike, Wire
    <3>6. r[d] = Decoded(Wire(dev[d]))
      <4>1. \/ \E s \in Shown(d) : r[d] = Decoded(s)
            \/ gen = "fw25" /\ \E s \in Shown(d) : s.pace[1] = "cold"
        BY <2>4, <3>4, RigFacts, CollectedType
      <4> QED BY <3>4, <3>5, <4>1
    <3>7. Wire(dev[d]) \in Wires
      BY RigFacts, WireType
    <3>8. r[d].read /\ r[d].sticky = Wire(dev[d]).sticky
      BY <3>6, <3>7, DecodedType
    <3> QED BY <2>1, <3>8 DEF Captured, Wire
  <2>9. CASE Heard(r) = {} /\ pc = "capture"
    <3>1. GoOn(dev, "wake") /\ pc' = "wake"
      BY <2>1, <2>9 DEF GoOn
    <3>2. ClearTrue'
      BY <2>2, <2>3, <3>1 DEF Inv, Safe, ClearTrue, Alike
    <3> QED BY <2>2, <2>5, <2>7, <3>1, <3>2, RigFacts, GoOnStep
  <2>10. CASE ~(Heard(r) = {} /\ pc = "capture")
    <3>1. GoOn(dev, "send") /\ pc' = "send"
      BY <2>1, <2>10 DEF GoOn
    <3>2. ClearTrue'
      BY <2>3, <2>8, <2>10, <3>1 DEF ClearTrue
    <3> QED BY <2>2, <2>5, <2>7, <3>1, <3>2, RigFacts, GoOnStep
  <2> QED BY <2>9, <2>10
<1> QED BY <1>1, <1>2, <1>3

\* A clear takes off what is recorded, and leaves at most a fault that stands,
\* which was latched and so is recorded too.
LEMMA ClearSendStep ==
  ASSUME Inv, ClearSend \/ ClearVerify PROVE Inv'
<1>1. CASE ClearSend
  <2> DEFINE d == Least({w[1] : w \in todo})
             D == Clear(Woken(dev), d)
  <2>1. /\ order[1] = "clear" /\ pc = "send" /\ todo # {} /\ todo' = todo \ {<<d, 0>>}
        /\ \/ /\ Arrives /\ GoOn(D, "send")
              /\ erased' = [erased EXCEPT ![d] = dev[d].sticky \ D[d].sticky]
           \/ Missed /\ GoOn(dev, "send") /\ erased' = erased
        /\ Going /\ UNCHANGED <<before, record>>
    BY <1>1 DEF ClearSend, At
  <2>2. d \in Devs
    BY <2>1, NextSent
  <2> HIDE DEF d
  <2>3. todo' \subseteq Devs \X Frames
    BY <2>1, RigFacts
  <2>4. /\ D \in [Devs -> Controllers]
        /\ \A e \in Devs : /\ Wire(dev[e]).on => Wire(D[e]).on
                           /\ D[e].live = Woken(dev)[e].live
                           /\ D[e].sticky \in {dev[e].sticky, {"fault"}, {}}
                           /\ D[e].live => D[e].sticky \in {dev[e].sticky, {"fault"}}
                           /\ ~D[e].live => D[e].sticky \in {dev[e].sticky, {}}
    <3>1. D \in [Devs -> Controllers]
      BY <2>2, WokenRig, ClearType
    <3>2. \A e \in Devs : /\ D[e].up = Woken(dev)[e].up /\ D[e].gated = Woken(dev)[e].gated
                          /\ D[e].live = Woken(dev)[e].live
                          /\ D[e].sticky \in {Woken(dev)[e].sticky, {"fault"}, {}}
                          /\ D[e].live => D[e].sticky \in {Woken(dev)[e].sticky, {"fault"}}
                          /\ ~D[e].live => D[e].sticky \in {Woken(dev)[e].sticky, {}}
      BY <2>2, WokenRig, ClearType
    <3> HIDE DEF D
    <3>3. \A e \in Devs : Woken(dev)[e].sticky = dev[e].sticky
      BY WokenRig
    <3>4. \A e \in Devs : Wire(Woken(dev)[e]).on => Wire(D[e]).on
      BY <3>2 DEF Wire
    <3>5. \A e \in Devs : Wire(dev[e]).on => Wire(D[e]).on
      BY <3>4, WokenRig
    <3> QED BY <3>1, <3>2, <3>3, <3>5
  <2> HIDE DEF D
  <2>5. Latched(D)
    BY <2>4, WokenRig DEF Latched
  <2>6. dev[d].sticky \ D[d].sticky \in SUBSET Bits /\ dev[d].sticky \in SUBSET Bits
    BY <2>2, RigFacts DEF Controllers
  <2>7. erased' \in [Devs -> SUBSET Bits]
    BY <2>1, <2>2, <2>6, RigFacts
  <2>8. pc' = "send" /\ UNCHANGED <<order, alike, record>>
    BY <2>1 DEF GoOn, Going
  <2>9. ErasedLate'
    BY <2>1, <2>8 DEF ErasedLate
  <2>10. CASE Missed /\ GoOn(dev, "send") /\ erased' = erased
    <3>1. ~calm'
      BY <2>1, <2>10 DEF Missed, Busy
    <3>2. ClearTrue' /\ ErasedIsRecorded'
      BY <3>1 DEF ClearTrue, ErasedIsRecorded
    <3> QED BY <2>1, <2>3, <2>9, <2>10, <3>2, RigFacts, GoOnStep
  <2>11. CASE /\ Arrives /\ GoOn(D, "send")
              /\ erased' = [erased EXCEPT ![d] = dev[d].sticky \ D[d].sticky]
    <3>1. dev' = D /\ calm' = calm
      BY <2>11 DEF GoOn, Arrives
    <3>2. ASSUME calm, alike, NEW e \in Devs
          PROVE  D[e].sticky \subseteq record[e] /\ erased'[e] \subseteq record[e]
      <4>1. dev[e].sticky \subseteq record[e] /\ erased[e] \subseteq record[e]
        BY <2>1, <3>2 DEF Inv, Safe, ClearTrue, ErasedIsRecorded
      <4>2. D[e].live => "fault" \in dev[e].sticky
        <5>1. Woken(dev)[e].live => "fault" \in Woken(dev)[e].sticky
          BY WokenRig DEF Latched
        <5> QED BY <2>4, <5>1, WokenRig
      <4>3. D[e].sticky \subseteq record[e]
        BY <2>4, <4>1, <4>2
      <4>4. erased'[e] \subseteq record[e]
        BY <2>2, <2>11, <4>1, RigFacts
      <4> QED BY <4>3, <4>4
    <3>3. ClearTrue'
      BY <2>8, <3>1, <3>2 DEF ClearTrue
    <3>4. ErasedIsRecorded'
      BY <2>8, <3>1, <3>2 DEF ErasedIsRecorded
    <3> QED BY <2>1, <2>3, <2>4, <2>5, <2>7, <2>9, <2>11, <3>3, <3>4, RigFacts, GoOnStep
  <2> QED BY <2>1, <2>10, <2>11
<1>2. CASE ClearVerify
  <2>1. /\ order[1] = "clear" /\ pc = "send" /\ pc' = "report" /\ GoOn(dev, "report") /\ Going /\ Arrives
        /\ dev' = dev /\ UNCHANGED <<order, calm, alike, before, todo, record, erased>>
    BY <1>2 DEF ClearVerify, At, GoOn, Going, Arrives
  <2>2. ClearTrue'
    BY <2>1 DEF Inv, Safe, ClearTrue
  <2>3. ErasedLate' /\ ErasedIsRecorded'
    BY <2>1 DEF Inv, Safe, ErasedLate, ErasedIsRecorded
  <2> QED BY <2>1, <2>2, <2>3, RigFacts, GoOnStep
<1> QED BY <1>1, <1>2
-----------------------------------------------------------------------------
LEMMA InitInv == Init => Inv
<1> SUFFICES ASSUME Init PROVE Inv
  OBVIOUS
<1>1. PICK S \in Breakers \cup {{}} :
        dev = [d \in Devs |-> IF d \in S THEN Rebooted(NewController, d) ELSE NewController]
  BY DEF Init
<1>2. NewController \in Controllers /\ ~NewController.live
  BY DEF NewController, Controllers, Paces
<1>3. dev \in [Devs -> Controllers] /\ \A d \in Devs : ~dev[d].live
  BY <1>1, <1>2, RebootedType
<1>4. /\ past = [d \in Devs |-> {Wire(dev[d])}] /\ steady = On(dev) /\ order = None
      /\ pc = "idle" /\ exit = 1 /\ before = Silence /\ todo = {} /\ advice = {}
      /\ record = [d \in Devs |-> {}] /\ trouble = 0 /\ calm = TRUE /\ alike = TRUE
      /\ erased = [d \in Devs |-> {}] /\ cut = {} /\ stood = {}
      /\ [gen |-> gen, ramOnly |-> ramOnly, mute |-> mute] \in Rigs
  <2>1. PICK g \in Rigs : gen = g.gen /\ ramOnly = g.ramOnly /\ mute = g.mute
    BY DEF Init
  <2>2. g = [gen |-> gen, ramOnly |-> ramOnly, mute |-> mute]
    BY <2>1, ConstantsAssumption DEF ConstantsAssumption, RigType
  <2> QED BY <2>1, <2>2 DEF Init
<1>5. RigTyped
  <2>1. \A d \in Devs : Wire(dev[d]) \in Wires
    BY <1>3, WireType
  <2>2. past \in [Devs -> SUBSET Wires]
    BY <1>4, <2>1
  <2> QED BY <1>3, <1>4, <2>2 DEF RigTyped, On
<1>6. SessionTyped /\ HistoryTyped
  BY <1>4, SilenceType DEF SessionTyped, HistoryTyped
<1>7. trouble \in 0..MaxTrouble
  BY <1>4, ConstantsAssumption DEF ConstantsAssumption
<1>8. order[1] = "none"
  BY <1>4 DEF None
<1>9. SteadyOn /\ IdleFresh /\ Latched(dev)
  BY <1>3, <1>4 DEF SteadyOn, IdleFresh, Latched
<1>10. OnSince
  BY <1>4 DEF OnSince, Wire
<1>11. StoodShow /\ ThrottleCut /\ ClearTrue
  BY <1>8 DEF StoodShow, ThrottleCut, ClearTrue
<1>12. ErasedLate /\ ErasedIsRecorded
  BY <1>4 DEF ErasedLate, ErasedIsRecorded
<1> QED BY <1>5, <1>6, <1>7, <1>9, <1>10, <1>11, <1>12 DEF Inv, TypeInv, Safe

LEMMA Invariance == Spec => []Inv
<1>1. Inv /\ UNCHANGED vars => Inv'
  <2> SUFFICES ASSUME Inv, UNCHANGED vars PROVE Inv'
    OBVIOUS
  <2>1. UNCHANGED <<gen, ramOnly, mute, dev, past, steady, order, pc, exit, before, todo, record, advice,
                    trouble, calm, alike, erased, cut, stood>>
    BY DEF vars, rig, session, history
  <2> QED BY <2>1 DEF Inv, TypeInv, RigTyped, SessionTyped, HistoryTyped, Safe, SteadyOn, OnSince,
             IdleFresh, Latched, StoodShow, ThrottleCut, ClearTrue, Alike, ErasedLate,
             ErasedIsRecorded, On
<1>2. Inv /\ Command => Inv'
  BY SurveyStep, AuditAskStep, LastStep, ThrottleStep, ClearReadStep, ClearSendStep DEF Command
<1>3. Inv /\ [Next]_vars => Inv'
  BY <1>1, <1>2, PowerOffStep, PowerOnStep, FaultStep, StartStep DEF Next
<1> QED BY <1>3, InitInv, PTL DEF Spec

\* Health.TypeOK: the rig, the windows and what a command holds of them stay of
\* their types, and a window always holds what the controllers show now.
THEOREM TypesOK == Spec => []TypeOK
<1> QED BY Invariance, TypeInvTypeOK, PTL DEF Inv

\* Health.ErasedIsRecorded: a clear that is left alone, on a rig whose controllers
\* show themselves alike, erases no bit that it did not read first.
THEOREM ErasedRecorded == Spec => []ErasedIsRecorded
<1> QED BY Invariance, PTL DEF Inv, Safe

\* What a cadence says of a controller that broadcasts.
LEMMA CadenceTrue ==
  ASSUME Inv, NEW d \in Devs, NEW f \in Frames, Wire(dev[d]).on, "ours" \in Cadence(d, f)
  PROVE  dev[d].pace[f] = "ours"
<1>1. Wire(dev[d]) \in Shown(d) /\ d \in steady
  BY DEF Shown, Inv, TypeInv, RigTyped, Safe, SteadyOn, On
<1>2. \A s \in Shown(d) : s.pace = dev[d].pace
  BY DEF Shown, Inv, Safe, OnSince
<1>3. {s.pace[f] : s \in Shown(d)} = {dev[d].pace[f]}
  BY <1>1, <1>2
<1>4. Cardinality({dev[d].pace[f]}) = 1
  BY FS_Singleton
<1> QED BY <1>1, <1>3, <1>4 DEF Cadence

\* Health.ThrottleHolds: before 25, the only generation whose throttle gets as far as
\* measuring, a throttle that exits 0 has set every frame of every controller that its
\* survey heard, except of those that lost power since it began.
THEOREM ThrottleTakes == Spec => ThrottleHolds
<1>1. Inv /\ [Next]_vars =>
        [At("throttle", "measure") /\ pc' = "idle" /\ exit' = 0 =>
           \A d \in Heard(before) : (\A f \in Frames : dev[d].pace[f] = "ours") \/ d \in cut]_vars
  <2> SUFFICES ASSUME Inv, Next, At("throttle", "measure"), pc' = "idle", exit' = 0,
                      NEW d \in Heard(before), d \notin cut, NEW f \in Frames
               PROVE  dev[d].pace[f] = "ours"
    OBVIOUS
  <2>1. Measure
    <3>1. ~ (\E S \in Breakers : PowerOff(S)) /\ ~PowerOn
          /\ ~ (\E e \in Devs : Fault(e) \/ CauseRemoved(e)) /\ ~ (\E o \in Orders : Start(o))
      BY DEF At, PowerOff, PowerOn, Fault, CauseRemoved, Environment, session, Start
    <3>2. Command
      BY <3>1 DEF Next
    <3> QED BY <3>2 DEF Command, StatusSurvey, StatusAsk, Faults, Voltage, Repair, ClearLook,
               Capture, Wake, ClearSend, ClearVerify, ClearEnd, ThrottleBegin, ThrottleSurvey,
               ThrottleWrite, Settle, AuditSurvey, AuditAsk, Audit, Survey, At
  <2>2. PICK r \in Inventory(Frames) : NotTaken(before, r) = {}
    BY <2>1 DEF Measure, End
  <2>3. d \in Devs /\ before[d].heard
    BY DEF Heard
  <2>4. r[d].pace[f] = "ours"
    BY <2>2 DEF NotTaken
  <2>5. "ours" \in Cadence(d, f)
    BY <2>3, <2>4, RigFacts, InventoryType, CountedType
  <2>6. Wire(dev[d]).on
    BY <2>3 DEF Inv, Safe, ThrottleCut, At
  <2> QED BY <2>3, <2>5, <2>6, CadenceTrue
<1> QED BY <1>1, Invariance, PTL DEF Spec, ThrottleHolds

\* Whoever broadcasts throughout a window is read, as it showed itself in it.
LEMMA SteadyRead ==
  ASSUME Inv, NEW r \in Collect, NEW d \in Devs, Wire(dev[d]).on
  PROVE  \E s \in past[d] : r[d].heard /\ r[d].read /\ r[d].sticky = s.sticky
<1>1. Wire(dev[d]) \in Shown(d) /\ d \in steady
  BY DEF Shown, Inv, TypeInv, RigTyped, Safe, SteadyOn, On
<1>2. r[d] \in Collected(d, FALSE)
  BY RigFacts, CollectType
<1>3. PICK s \in Shown(d) : r[d] = Decoded(s)
  BY <1>1, <1>2, RigFacts, CollectedType
<1>4. s \in Wires /\ s \in past[d]
  BY RigFacts, ShownType
<1> QED BY <1>3, <1>4, DecodedType

\* Health.CleanIsClean: nobody who had a fault, or the trace of a reset, and
\* broadcast throughout the command is passed over by a clean verdict.
THEOREM CleanMeansClean == Spec => CleanIsClean
<1>1. Inv /\ [Next]_vars =>
        [order[1] \in {"faults", "voltage", "audit"} /\ pc' = "idle" /\ exit' = 0 => stood = {}]_vars
  <2> SUFFICES ASSUME Inv, Next, order[1] \in {"faults", "voltage", "audit"},
                      pc' = "idle", exit' = 0, NEW d \in stood
               PROVE  FALSE
    OBVIOUS
  <2>1. pc # "idle"
    BY DEF Inv, Safe, IdleFresh, None
  <2>2. d \in Devs
    BY DEF Inv, TypeInv, HistoryTyped
  <2>3. Faults \/ Voltage \/ Audit
    <3>1. ~ (\E S \in Breakers : PowerOff(S)) /\ ~PowerOn
          /\ ~ (\E e \in Devs : Fault(e) \/ CauseRemoved(e)) /\ ~ (\E o \in Orders : Start(o))
      BY <2>1 DEF PowerOff, PowerOn, Fault, CauseRemoved, Environment, session, Start
    <3>2. Command
      BY <3>1 DEF Next
    <3> QED BY <3>2 DEF Command, StatusSurvey, StatusAsk, Repair, ClearLook, Capture, Wake,
               ClearSend, ClearVerify, ClearEnd, ThrottleBegin, ThrottleSurvey, ThrottleWrite,
               Settle, Measure, AuditSurvey, AuditAsk, Survey, At, GoOn
  <2>4. CASE Faults
    <3>1. PICK r \in Collect : FaultsExit(r) = 0
      BY <2>4 DEF Faults, End
    <3>2. Wire(dev[d]).on /\ \A s \in past[d] : "fault" \in s.sticky
      BY <2>4 DEF Faults, At, Inv, Safe, StoodShow
    <3>3. r[d].heard /\ r[d].read /\ "fault" \in r[d].sticky
      BY <2>2, <3>2, SteadyRead
    <3>4. "fault" \in StickyFaults(r[d].sticky)
      BY <3>3 DEF StickyFaults
    <3> QED BY <2>2, <3>1, <3>3, <3>4 DEF FaultsExit, Heard
  <2>5. CASE Voltage
    <3>1. PICK r \in Collect, told \in SUBSET Devs :
            Heard(r) \cap steady \subseteq told /\ VoltageExit(r, told) = 0
      BY <2>5 DEF Voltage, End, Heard
    <3>2. Wire(dev[d]).on /\ gen = "fw25" /\ \A s \in past[d] : "hasReset" \in s.sticky
      BY <2>5 DEF Voltage, At, Inv, Safe, StoodShow
    <3>3. r[d].heard /\ r[d].read /\ "hasReset" \in r[d].sticky
      BY <2>2, <3>2, SteadyRead
    <3>4. d \in told
      BY <2>2, <3>1, <3>2, <3>3 DEF Heard, Inv, Safe, SteadyOn, On
    <3>5. "hasReset" \in StickyWarnings(r[d].sticky)
      BY <3>2, <3>3 DEF StickyWarnings, StickyFaults
    <3> QED BY <3>1, <3>3, <3>4, <3>5 DEF VoltageExit
  <2>6. CASE Audit
    <3>1. PICK r \in Collect, told \in SUBSET Devs :
            Heard(r) \cap steady \subseteq told /\ CleanAudit(before, r, told)
      BY <2>6 DEF Audit, End, Heard
    <3>2. Wire(dev[d]).on /\ \A s \in past[d] : "fault" \in s.sticky
      BY <2>6 DEF Audit, At, Inv, Safe, StoodShow
    <3>3. r[d].heard /\ r[d].read /\ "fault" \in r[d].sticky
      BY <2>2, <3>2, SteadyRead
    <3>4. d \in told
      BY <2>2, <3>1, <3>2, <3>3 DEF Heard, Inv, Safe, SteadyOn, On
    <3>5. r[d] \in Readings
      BY <2>2, RigFacts, CollectType
    <3>6. Scored(r, told)[d].read /\ "fault" \in Scored(r, told)[d].sticky
      BY <2>2, <3>3, <3>4, <3>5 DEF Scored, Readings
    <3>7. d \in Flagged(Scored(r, told))
      BY <2>2, <3>6 DEF Flagged, Bare
    <3> QED BY <3>1, <3>7 DEF CleanAudit
  <2> QED BY <2>3, <2>4, <2>5, <2>6
<1> QED BY <1>1, Invariance, PTL DEF Spec, CleanIsClean
=============================================================================
