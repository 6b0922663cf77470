---------------------------- MODULE Identity_proofs ----------------------------
(***************************************************************************)
(* Proofs about Identity: what set-id, learn-serials and audit say is true, *)
(* for any fleet, any ids and roles, any commands one after the other, any *)
(* loss of frames and any loss of power.                                   *)
(***************************************************************************)
EXTENDS Identity, FiniteSetTheorems, WellFoundedInduction, TLAPS

\* A verdict stands until the next command starts, and a command starts with
\* nothing heard.
Idle ==
  /\ said # "-" => pc = "done"
  /\ pc \in {"done", "blink"} => seen = Nothing.seen
  /\ pc = "done" => outcome = "none"

\* set_can_id has an answer only while it looks whether the serial came up.
AnsweredLast == outcome = "burned" => pc = "confirm"

\* Whoever was heard on an id is there, unless somebody lost power.
HeardIsThere == ~cycled => \A d \in Ids : seen[d] \subseteq On(d)

\* So is whoever the audit's inventory found.
RollIsThere ==
  /\ pc # "double" => roll = Nothing
  /\ ~cycled => \A d \in Ids : roll.seen[d] \subseteq On(d)

\* After a burn that was acknowledged on an id with one controller: if the serial
\* answers on the new id, or was heard there since, its flash holds it.
BurnedIfThere ==
  outcome = "burned" /\ ~shared =>
    /\ id[cmd.serial] = cmd.to => burned[cmd.serial] = cmd.to
    /\ cmd.serial \in seen[cmd.to] => burned[cmd.serial] = cmd.to

Strength ==
  /\ Idle /\ AnsweredLast /\ HeardIsThere /\ RollIsThere /\ BurnedIfThere
  /\ OkIsBurned /\ LearnedIsTrue /\ CleanIsHome

Inv == TypeOK /\ Strength

-----------------------------------------------------------------------------

\* Min(S)
LEMMA MinType ==
  ASSUME NEW S \in SUBSET Ids, S # {}
  PROVE  Min(S) \in S
<1>1. S \subseteq Nat
  BY IdsAssumption DEF IdsAssumption
<1>2. PICK p \in S : \A q \in S : ~ (<<q, p>> \in OpToRel(<, Nat))
  BY <1>1, NatLessThanWellFounded, WFMin
<1>3. \A q \in S : <<q, p>> \in OpToRel(<, Nat) <=> q < p
  BY <1>1 DEF OpToRel
<1>4. \A q \in S : ~ (q < p)
  BY <1>2, <1>3
<1>5. \A m, n \in Nat : ~ (m < n) => n =< m
  OBVIOUS
<1>6. \A q \in S : p =< q
  BY <1>1, <1>4, <1>5
<1> QED BY <1>6 DEF Min

LEMMA NothingType ==
  /\ Nothing \in [spoke : SUBSET Ids, seen : [Ids -> SUBSET Serials]]
  /\ Nothing.seen \in [Ids -> SUBSET Serials]
  /\ \A d \in Ids : Nothing.seen[d] = {}
<1> QED BY DEF Nothing

\* What every return leaves.
LEMMA EndType ==
  ASSUME NEW verdict \in Verdicts, End(verdict), TypeOK
  PROVE  /\ said' \in Verdicts /\ pc' = "done"
         /\ spoke' \subseteq Ids /\ seen' \in [Ids -> SUBSET Serials]
         /\ roll' \in [spoke : SUBSET Ids, seen : [Ids -> SUBSET Serials]]
         /\ outcome' \in {"none", "burned"}
         /\ cmd' \in [name : Names, serial : Serials, to : Ids \ {0}]
         /\ current' = 0 /\ UNCHANGED <<cmd, believed>>
<1>1. spoke' \subseteq Ids
  BY DEF End
<1> QED BY <1>1, NothingType DEF End, TypeOK

LEMMA ListenType ==
  ASSUME NEW p \in Windows, Listen(p)
  PROVE  pc' = p /\ spoke' \subseteq Ids /\ seen' \in [Ids -> SUBSET Serials]
<1>1. spoke' \subseteq Ids
  BY DEF Listen
<1> QED BY <1>1, NothingType DEF Listen

LEMMA SenderInIds == TypeOK => \A c \in Serials : id[c] \in Ids
<1> QED BY DEF TypeOK

-----------------------------------------------------------------------------

LEMMA TypeStep == TypeOK /\ [Next]_vars => TypeOK'
<1> SUFFICES ASSUME TypeOK, [Next]_vars PROVE TypeOK'
  OBVIOUS
<1>1. ASSUME NEW c \in Commands, Start(c) PROVE TypeOK'
  <2>1. c \in [name : Names, serial : Serials, to : Ids \ {0}]
    BY IdentityCommands
  <2>2. pc' \in Windows \cup {"done", "blink", "move", "burn"}
        /\ spoke' \subseteq Ids /\ seen' \in [Ids -> SUBSET Serials]
    BY <1>1, ListenType DEF Start, TypeOK, heard, Windows
  <2> QED BY <1>1, <2>1, <2>2 DEF Start, TypeOK, fleet, Verdicts
<1>2. ASSUME NEW c \in Serials, Hear(c) PROVE TypeOK'
  <2>1. spoke' \subseteq Ids /\ seen' \in [Ids -> SUBSET Serials]
    <3>1. PICK d \in SenderId(c) :
            /\ spoke' = spoke \cup {d}
            /\ \/ UNCHANGED seen
               \/ seen' = [seen EXCEPT ![d] = @ \cup {c}]
               \/ seen' = [seen EXCEPT ![d] = {c}]
      BY <1>2 DEF Hear
    <3>2. d \in Ids
      BY SenderInIds DEF SenderId
    <3> QED BY <3>1, <3>2 DEF TypeOK
  <2> QED BY <1>2, <2>1 DEF Hear, TypeOK, fleet, session, history
<1>3. ASSUME NEW c \in Serials, Reboot(c) PROVE TypeOK'
  BY <1>3 DEF Reboot, TypeOK, heard, session
<1>4. ASSUME NEW verdict \in Verdicts, End(verdict), UNCHANGED <<fleet, history>>,
             known' \in [Roles -> Serials] \cup {Unset}
      PROVE  TypeOK'
  <2>1. current' \in Ids \/ UNCHANGED current
    BY <1>4, EndType, IdsAssumption DEF IdsAssumption
  <2> QED BY <1>4, <2>1, EndType DEF TypeOK, fleet, history
<1>5. ASSUME NEW verdict \in Verdicts, End(verdict), UNCHANGED <<fleet, known, history>>
      PROVE  TypeOK'
  BY <1>4, <1>5 DEF TypeOK
<1>6. Refuse \/ Duplicates \/ Identify \/ Judge => TypeOK'
  BY <1>5 DEF Refuse, Duplicates, Identify, Judge, Verdicts
<1>7. ASSUME Found PROVE TypeOK'
  <2>1. CASE At(cmd.serial) = {} \/ Min(At(cmd.serial)) = cmd.to
    BY <1>5, <1>7, <2>1 DEF Found, Verdicts
  <2>2. CASE ~(At(cmd.serial) = {} \/ Min(At(cmd.serial)) = cmd.to)
    <3>1. Min(At(cmd.serial)) \in Ids
      BY <2>2, MinType DEF At
    <3> QED BY <1>7, <2>2, <3>1 DEF Found, TypeOK, fleet, heard, history
  <2> QED BY <2>1, <2>2
<1>8. ASSUME Looked PROVE TypeOK'
  BY <1>8 DEF Looked, TypeOK, fleet, heard, session, history
<1>9. ASSUME Move PROVE TypeOK'
  <2>1. id' \in [Serials -> Ids] /\ burned' \in [Serials -> Ids] /\ gen' = gen
    BY <1>9 DEF Move, TypeOK, fleet
  <2>2. pc' \in Windows /\ spoke' \subseteq Ids /\ seen' \in [Ids -> SUBSET Serials]
    BY <1>9, ListenType DEF Move, Windows
  <2> QED BY <1>9, <2>1, <2>2 DEF Move, TypeOK, session, history
<1>10. ASSUME Check PROVE TypeOK'
  <2>1. CASE pc' = "burn" /\ UNCHANGED <<heard, session, said>>
    BY <1>10, <2>1 DEF Check, TypeOK, fleet, heard, session, history
  <2>2. CASE End("stayed") \/ End("raised")
    BY <1>5, <1>10, <2>2 DEF Check, Verdicts
  <2> QED BY <1>10, <2>1, <2>2 DEF Check
<1>11. ASSUME Burn PROVE TypeOK'
  <2>1. PICK done \in SUBSET (IF gen = "fw25" THEN Reached ELSE {}), acked \in BOOLEAN :
          /\ burned' = [c \in Serials |-> IF c \in done THEN id[c] ELSE burned[c]]
          /\ outcome' = Reply(acked)
    BY <1>11 DEF Burn
  <2>2. burned' \in [Serials -> Ids] /\ outcome' \in {"none", "burned"}
    BY <2>1 DEF TypeOK, Reply
  <2>3. pc' \in Windows /\ spoke' \subseteq Ids /\ seen' \in [Ids -> SUBSET Serials]
    BY <1>11, ListenType DEF Burn, Windows
  <2> QED BY <1>11, <2>2, <2>3 DEF Burn, TypeOK
<1>12. ASSUME Learn PROVE TypeOK'
  <2>1. CASE UNCHANGED known /\ (End("missing") \/ End("unread"))
    BY <1>5, <1>12, <2>1 DEF Learn, Verdicts
  <2>2. CASE ~(UNCHANGED known /\ (End("missing") \/ End("unread")))
    <3>1. /\ \A d \in Roles : ~SerialMissing(d)
          /\ End("learned") /\ known' = [d \in Roles |-> SerialOf(seen[d])]
      BY <1>12, <2>2 DEF Learn
    <3>2. \A d \in Roles : SerialOf(seen[d]) \in Serials
      BY <3>1, IdsAssumption DEF SerialMissing, SerialOf, TypeOK, IdsAssumption
    <3>3. known' \in [Roles -> Serials]
      BY <3>1, <3>2
    <3> QED BY <1>4, <1>12, <3>1, <3>3 DEF Learn, Verdicts
  <2> QED BY <2>1, <2>2
<1>13. ASSUME Snapshot PROVE TypeOK'
  <2>1. CASE End("missing") \/ End("saved")
    BY <1>5, <1>13, <2>1 DEF Snapshot, Verdicts
  <2>2. CASE ~(End("missing") \/ End("saved"))
    <3>1. cmd' \in [name : Names, serial : Serials, to : Ids \ {0}]
      BY <1>13, <2>2 DEF Snapshot, TypeOK, Names
    <3>2. pc' \in Windows /\ spoke' \subseteq Ids /\ seen' \in [Ids -> SUBSET Serials]
      BY <1>13, <2>2, ListenType DEF Snapshot, Windows
    <3> QED BY <1>13, <2>2, <3>1, <3>2 DEF Snapshot, TypeOK, fleet, history
  <2> QED BY <2>1, <2>2
<1>14. ASSUME Enrolled PROVE TypeOK'
  <2>1. pc' \in Windows /\ spoke' \subseteq Ids /\ seen' \in [Ids -> SUBSET Serials]
    BY <1>14, ListenType DEF Enrolled, Windows
  <2>2. roll' \in [spoke : SUBSET Ids, seen : [Ids -> SUBSET Serials]]
    BY <1>14 DEF Enrolled, TypeOK
  <2> QED BY <1>14, <2>1, <2>2 DEF Enrolled, TypeOK, fleet, history
<1>15. ASSUME Audit PROVE TypeOK'
  BY <1>5, <1>15 DEF Audit, Verdicts
<1>16. ASSUME UNCHANGED vars PROVE TypeOK'
  BY <1>16 DEF vars, TypeOK, fleet, heard, session, history
<1> QED BY <1>1, <1>2, <1>3, <1>6, <1>7, <1>8, <1>9, <1>10, <1>11, <1>12, <1>13,
           <1>14, <1>15, <1>16 DEF Next

\* Identity.TypeOK: whatever is asked of the tools and whatever gets lost, the
\* fleet, the windows and the verdicts stay what the code can hold.
THEOREM TypesOK == Spec => []TypeOK
<1>1. Init => TypeOK
  <2>1. Init => /\ seen \in [Ids -> SUBSET Serials]
                /\ roll \in [spoke : SUBSET Ids, seen : [Ids -> SUBSET Serials]]
    BY NothingType DEF Init
  <2>2. Init => cmd \in [name : Names, serial : Serials, to : Ids \ {0}]
    BY IdentityCommands DEF Init
  <2> QED BY <2>1, <2>2, IdsAssumption DEF Init, TypeOK, Verdicts, Windows, IdsAssumption
<1> QED BY <1>1, TypeStep, PTL DEF Spec

-----------------------------------------------------------------------------
\* A command starts with no verdict, an empty window and nothing in hand.
LEMMA StartStep ==
  ASSUME TypeOK, Strength, NEW c \in Commands, Start(c) PROVE Strength'
<1>1. /\ pc = "done" /\ said' = "-" /\ outcome' = "none" /\ roll' = Nothing
      /\ pc' \in Windows \cup {"blink"}
      /\ UNCHANGED <<id, burned, known>>
  BY DEF Start, Strength, Idle, RollIsThere, Listen, Windows, fleet
<1>2. seen' = Nothing.seen
  BY DEF Start, Strength, Idle, Listen, heard
<1>3. \A d \in Ids : seen'[d] = {} /\ roll'.seen[d] = {}
  BY <1>1, <1>2, NothingType
<1>4. HeardIsThere' /\ RollIsThere'
  BY <1>1, <1>3 DEF HeardIsThere, RollIsThere
<1> QED
  BY <1>1, <1>2, <1>4 DEF Strength, Idle, AnsweredLast, BurnedIfThere, OkIsBurned,
     LearnedIsTrue, CleanIsHome, Windows

\* A return keeps what was found only in its verdict: the step shows that the
\* verdict is true, and this that the rest is.
LEMMA EndStep ==
  ASSUME TypeOK, Strength, NEW verdict \in Verdicts, End(verdict),
         UNCHANGED <<fleet, history>>
  PROVE  /\ said' = verdict
         /\ Idle' /\ AnsweredLast' /\ HeardIsThere' /\ RollIsThere' /\ BurnedIfThere'
<1>1. /\ said' = verdict /\ pc' = "done" /\ seen' = Nothing.seen /\ roll' = Nothing
      /\ outcome' = "none"
  BY DEF End
<1>2. \A d \in Ids : seen'[d] = {} /\ roll'.seen[d] = {}
  BY <1>1, NothingType
<1>3. HeardIsThere' /\ RollIsThere'
  BY <1>1, <1>2 DEF HeardIsThere, RollIsThere
<1> QED BY <1>1, <1>3 DEF Idle, AnsweredLast, BurnedIfThere

\* Of the verdicts, three say something of the fleet.
LEMMA PlainEnd ==
  ASSUME TypeOK, Strength, NEW verdict \in Verdicts \ {"ok", "learned", "clean"}, End(verdict),
         UNCHANGED <<fleet, history>>
  PROVE  Strength'
<1>1. /\ said' = verdict
      /\ Idle' /\ AnsweredLast' /\ HeardIsThere' /\ RollIsThere' /\ BurnedIfThere'
  BY EndStep
<1> QED BY <1>1 DEF Strength, OkIsBurned, LearnedIsTrue, CleanIsHome

LEMMA HearStep ==
  ASSUME TypeOK, Strength, NEW c \in Serials, Hear(c) PROVE Strength'
<1>1. /\ pc \in Windows
      /\ UNCHANGED <<id, burned, known, pc, cmd, roll, outcome, said, cycled, shared>>
  BY DEF Hear, fleet, session, history
<1>2. PICK d \in {id[c]} :
        \/ UNCHANGED seen
        \/ seen' = [seen EXCEPT ![d] = @ \cup {c}]
        \/ seen' = [seen EXCEPT ![d] = {c}]
  BY DEF Hear, SenderId
<1>3. d \in Ids /\ id[c] = d
  BY <1>2, SenderInIds
<1>4. \A e \in Ids : \A b \in seen'[e] : b \in seen[e] \/ (e = d /\ b = c)
  BY <1>2, <1>3 DEF TypeOK
<1>5. HeardIsThere'
  BY <1>1, <1>3, <1>4 DEF Strength, HeardIsThere, On
<1>6. BurnedIfThere'
  <2>1. cmd.to \in Ids
    BY DEF TypeOK
  <2> QED BY <1>1, <1>3, <1>4, <2>1 DEF Strength, BurnedIfThere
<1>7. RollIsThere'
  BY <1>1 DEF Strength, RollIsThere, On
<1>8. Idle'
  BY <1>1 DEF Strength, Idle, Windows
<1> QED BY <1>1, <1>5, <1>6, <1>7, <1>8 DEF Strength, AnsweredLast, OkIsBurned,
           LearnedIsTrue, CleanIsHome, On

\* Whoever lost power starts with what its flash holds.
LEMMA RebootStep ==
  ASSUME TypeOK, Strength, NEW c \in Serials, Reboot(c) PROVE Strength'
<1>1. /\ id' = [id EXCEPT ![c] = burned[c]] /\ cycled' = TRUE
      /\ UNCHANGED <<burned, known, pc, seen, cmd, roll, outcome, said, shared>>
  BY DEF Reboot, heard, session
<1>2. BurnedIfThere'
  <2>1. cmd.serial \in Serials
    BY DEF TypeOK
  <2>2. id'[cmd.serial] = burned[cmd.serial] \/ id'[cmd.serial] = id[cmd.serial]
    BY <1>1, <2>1 DEF TypeOK
  <2> QED BY <1>1, <2>2 DEF Strength, BurnedIfThere
<1>3. RollIsThere'
  BY <1>1 DEF Strength, RollIsThere
<1> QED BY <1>1, <1>2, <1>3 DEF Strength, Idle, AnsweredLast, HeardIsThere, OkIsBurned,
           LearnedIsTrue, CleanIsHome

\* The window that finds the serial is closed before anything moves.
LEMMA SetIdStep ==
  ASSUME TypeOK, Strength, Found \/ Looked \/ Move \/ Check PROVE Strength'
<1>1. ASSUME pc' \in {"move", "burn"}, pc \in {"find", "check"},
             UNCHANGED <<fleet, known, heard, cmd, roll, outcome, said, history>>
      PROVE  Strength'
  BY <1>1 DEF fleet, heard, history, Strength, Idle, AnsweredLast, HeardIsThere, RollIsThere,
     BurnedIfThere, OkIsBurned, LearnedIsTrue, CleanIsHome, On
<1>2. CASE Found
  BY <1>1, <1>2, PlainEnd DEF Found, Verdicts
<1>3. CASE Looked
  BY <1>1, <1>3 DEF Looked, session
<1>4. CASE Check
  BY <1>1, <1>4, PlainEnd DEF Check, Verdicts, session
<1>5. CASE Move
  <2>1. /\ pc = "move" /\ pc' \in {"check", "confirm"} /\ seen' = Nothing.seen
        /\ UNCHANGED <<known, cmd, roll, outcome, said, cycled, shared>>
    BY <1>5 DEF Move, Listen, session, history
  <2>2. said = "-" /\ outcome = "none" /\ roll = Nothing
    BY <2>1 DEF Strength, Idle, AnsweredLast, RollIsThere, TypeOK
  <2>3. \A d \in Ids : seen'[d] = {} /\ roll'.seen[d] = {}
    BY <2>1, <2>2, NothingType
  <2>4. HeardIsThere' /\ RollIsThere'
    BY <2>1, <2>2, <2>3 DEF HeardIsThere, RollIsThere
  <2> QED BY <2>1, <2>2, <2>4 DEF Strength, Idle, AnsweredLast, BurnedIfThere, OkIsBurned,
             LearnedIsTrue, CleanIsHome
<1> QED BY <1>2, <1>3, <1>4, <1>5

\* Who may be reached by a burn: only those on the id, and where that is one
\* controller at most, an acknowledgement is its own.
LEMMA OneReached ==
  ASSUME NEW S \in SUBSET Serials, ~ (Cardinality(S) > 1), NEW b \in S, NEW c \in S
  PROVE  b = c
<1> SUFFICES ASSUME b # c PROVE FALSE
  OBVIOUS
<1>1. IsFiniteSet(S)
  BY SerialsAssumption, FS_Subset DEF SerialsAssumption
<1>2. {b, c} \subseteq S /\ Cardinality({b, c}) = 2
  <2>1. IsFiniteSet({b}) /\ Cardinality({b}) = 1
    BY FS_Singleton
  <2>2. {b, c} = {b} \cup {c} /\ c \notin {b}
    OBVIOUS
  <2> QED BY <2>1, <2>2, FS_AddElement
<1>3. Cardinality({b, c}) <= Cardinality(S)
  BY <1>1, <1>2, FS_Subset
<1>4. Cardinality(S) \in Nat
  BY <1>1, FS_CardinalityType
<1> QED BY <1>2, <1>3, <1>4

LEMMA BurnStep ==
  ASSUME TypeOK, Strength, Burn PROVE Strength'
<1>1. PICK done \in SUBSET (IF gen = "fw25" THEN Reached ELSE {}), acked \in BOOLEAN :
        /\ burned' = [c \in Serials |-> IF c \in done THEN id[c] ELSE burned[c]]
        /\ acked => done # {}
        /\ outcome' = Reply(acked)
  BY DEF Burn
<1>2. /\ pc = "burn" /\ pc' = "confirm" /\ seen' = Nothing.seen
      /\ shared' = (Cardinality(On(cmd.to)) > 1)
      /\ UNCHANGED <<id, known, cmd, roll, said, cycled>>
  BY DEF Burn, Listen
<1>3. said = "-" /\ roll = Nothing
  BY <1>2 DEF Strength, Idle, RollIsThere
<1>4. \A d \in Ids : seen'[d] = {} /\ roll'.seen[d] = {}
  BY <1>2, <1>3, NothingType
<1>5. HeardIsThere' /\ RollIsThere'
  BY <1>2, <1>3, <1>4 DEF HeardIsThere, RollIsThere
<1>6. BurnedIfThere'
  <2> SUFFICES ASSUME outcome' = "burned", ~shared'
               PROVE  /\ id[cmd.serial] = cmd.to => burned'[cmd.serial] = cmd.to
                      /\ cmd.serial \notin seen'[cmd.to]
    BY <1>2 DEF BurnedIfThere
  <2>1. cmd.serial \in Serials /\ cmd.to \in Ids
    BY DEF TypeOK
  <2>2. acked /\ done # {}
    BY <1>1 DEF Reply
  <2>3. done \subseteq On(cmd.to)
    BY <1>1 DEF Reached
  <2>4. ASSUME id[cmd.serial] = cmd.to PROVE cmd.serial \in done
    <3>1. cmd.serial \in On(cmd.to)
      BY <2>1, <2>4 DEF On
    <3>2. PICK b \in done : TRUE
      BY <2>2
    <3>3. b \in On(cmd.to) /\ On(cmd.to) \in SUBSET Serials
      BY <2>3, <3>2 DEF On
    <3>4. ~ (Cardinality(On(cmd.to)) > 1)
      BY <1>2
    <3>5. b = cmd.serial
      BY <3>1, <3>3, <3>4, OneReached
    <3> QED BY <3>2, <3>5
  <2> QED BY <1>1, <1>4, <2>1, <2>4
<1> QED BY <1>2, <1>3, <1>5, <1>6 DEF Strength, Idle, AnsweredLast, OkIsBurned,
           LearnedIsTrue, CleanIsHome

\* "OK" is said where the serial was heard on the new id after the burn.
LEMMA JudgeStep ==
  ASSUME TypeOK, Strength, Judge PROVE Strength'
<1>1. CASE End("ok") /\ At(cmd.serial) = {cmd.to} /\ outcome = "burned"
  <2>1. /\ said' = "ok" /\ UNCHANGED <<cmd, burned, shared>>
    BY <1>1 DEF Judge, End, fleet, history
  <2>2. cmd.serial \in seen[cmd.to]
    BY <1>1 DEF At
  <2>3. OkIsBurned'
    BY <1>1, <2>1, <2>2 DEF Strength, BurnedIfThere, OkIsBurned
  <2> QED BY <1>1, <2>1, <2>3, EndStep DEF Judge, Strength, LearnedIsTrue, CleanIsHome, Verdicts
<1>2. CASE ~(End("ok") /\ At(cmd.serial) = {cmd.to} /\ outcome = "burned")
  BY <1>2, PlainEnd DEF Judge, Verdicts
<1> QED BY <1>1, <1>2

\* learn-serials records what it heard in one window.
LEMMA LearnStep ==
  ASSUME TypeOK, Strength, Learn PROVE Strength'
<1>1. CASE End("learned") /\ ~(End("missing") \/ End("unread"))
  <2>1. /\ \A d \in Roles : seen[d] # {}
        /\ known' = [d \in Roles |-> SerialOf(seen[d])]
        /\ said' = "learned" /\ UNCHANGED <<id, cycled>>
    BY <1>1 DEF Learn, End, SerialMissing, fleet, history
  <2>2. \A d \in Roles : d \in Ids /\ SerialOf(seen[d]) \in seen[d]
    BY <2>1, IdsAssumption DEF SerialOf, IdsAssumption
  <2>3. LearnedIsTrue'
    BY <2>1, <2>2 DEF Strength, HeardIsThere, LearnedIsTrue, On
  <2> QED BY <1>1, <2>1, <2>3, EndStep DEF Learn, Strength, OkIsBurned, CleanIsHome, Verdicts
<1>2. CASE End("missing") \/ End("unread")
  BY <1>2, PlainEnd DEF Learn, Verdicts
<1> QED BY <1>1, <1>2 DEF Learn

LEMMA SnapshotStep ==
  ASSUME TypeOK, Strength, Snapshot PROVE Strength'
<1>1. CASE End("missing") \/ End("saved")
  BY <1>1, PlainEnd DEF Snapshot, Verdicts
<1>2. CASE ~(End("missing") \/ End("saved"))
  <2>1. /\ pc = "find" /\ pc' = "find" /\ seen' = Nothing.seen
        /\ UNCHANGED <<id, burned, known, roll, outcome, said, cycled, shared>>
    BY <1>2 DEF Snapshot, Listen, fleet, history
  <2>2. said = "-" /\ outcome = "none" /\ roll = Nothing
    BY <2>1 DEF Strength, Idle, AnsweredLast, RollIsThere, TypeOK
  <2>3. \A d \in Ids : seen'[d] = {} /\ roll'.seen[d] = {}
    BY <2>1, <2>2, NothingType
  <2>4. HeardIsThere' /\ RollIsThere'
    BY <2>1, <2>2, <2>3 DEF HeardIsThere, RollIsThere
  <2> QED BY <2>1, <2>2, <2>4 DEF Strength, Idle, AnsweredLast, BurnedIfThere, OkIsBurned,
             LearnedIsTrue, CleanIsHome
<1> QED BY <1>1, <1>2

\* The audit keeps what its inventory found, and judges it in a later window.
LEMMA AuditStep ==
  ASSUME TypeOK, Strength, Enrolled \/ Audit PROVE Strength'
<1>1. CASE Enrolled
  <2>1. /\ pc = "find" /\ pc' = "double" /\ seen' = Nothing.seen
        /\ roll' = [spoke |-> spoke, seen |-> seen]
        /\ UNCHANGED <<id, burned, known, cmd, outcome, said, cycled, shared>>
    BY <1>1 DEF Enrolled, Listen, fleet, history
  <2>2. said = "-" /\ outcome = "none"
    BY <2>1 DEF Strength, Idle, AnsweredLast, TypeOK
  <2>3. (\A d \in Ids : seen'[d] = {}) /\ roll'.seen = seen
    BY <2>1, NothingType
  <2>4. HeardIsThere' /\ RollIsThere'
    BY <2>1, <2>3 DEF Strength, HeardIsThere, RollIsThere, On
  <2> QED BY <2>1, <2>2, <2>4 DEF Strength, Idle, AnsweredLast, BurnedIfThere, OkIsBurned,
             LearnedIsTrue, CleanIsHome
<1>2. CASE Audit /\ End("problems")
  BY <1>2, PlainEnd DEF Audit, Verdicts
<1>3. CASE Audit /\ ~End("problems")
  <2>1. /\ pc = "double" /\ End("clean") /\ said' = "clean"
        /\ \A d \in Roles : ~Swapped(d)
        /\ UNCHANGED <<fleet, known, history>> /\ UNCHANGED <<id, cycled>>
    BY <1>3 DEF Audit, End, fleet, history
  <2>2. CleanIsHome'
    <3> SUFFICES ASSUME known # Unset, ~cycled, NEW d \in Roles PROVE known[d] \in On(d)
      BY <2>1 DEF CleanIsHome, On
    <3>1. d \in Ids /\ known[d] \in roll.seen[d]
      BY <2>1, IdsAssumption DEF Swapped, IdsAssumption
    <3> QED BY <3>1 DEF Strength, RollIsThere
  <2> QED BY <2>1, <2>2, EndStep DEF Strength, OkIsBurned, LearnedIsTrue, Verdicts
<1> QED BY <1>1, <1>2, <1>3

-----------------------------------------------------------------------------
LEMMA Invariance == Spec => []Inv
<1>1. Init => Strength
  <2>1. Init => \A d \in Ids : seen[d] = {} /\ roll.seen[d] = {}
    BY NothingType DEF Init
  <2> QED BY <2>1 DEF Init, Strength, Idle, AnsweredLast, HeardIsThere, RollIsThere,
             BurnedIfThere, OkIsBurned, LearnedIsTrue, CleanIsHome
<1>2. TypeOK /\ Strength /\ [Next]_vars => Strength'
  <2> SUFFICES ASSUME TypeOK, Strength, [Next]_vars PROVE Strength'
    OBVIOUS
  <2>1. ASSUME Refuse \/ Duplicates \/ Identify PROVE Strength'
    BY <2>1, PlainEnd DEF Refuse, Duplicates, Identify, Verdicts
  <2>2. ASSUME UNCHANGED vars PROVE Strength'
    BY <2>2 DEF vars, fleet, heard, session, history, Strength, Idle, AnsweredLast, HeardIsThere,
       RollIsThere, BurnedIfThere, OkIsBurned, LearnedIsTrue, CleanIsHome, On
  <2> QED BY <2>1, <2>2, StartStep, HearStep, RebootStep, SetIdStep, BurnStep, JudgeStep,
             LearnStep, SnapshotStep, AuditStep DEF Next
<1> QED BY <1>1, <1>2, TypesOK, PTL DEF Spec, Inv

\* Identity.OkIsBurned: when set_can_id's caller prints OK, the controller starts
\* on the new id whatever loses power, unless two controllers shared the id.
THEOREM OkMeansBurned == Spec => []OkIsBurned
<1> QED BY Invariance, PTL DEF Inv, Strength

\* Identity.LearnedIsTrue: learn-serials records where the controllers are.
THEOREM LearnedMeansThere == Spec => []LearnedIsTrue
<1> QED BY Invariance, PTL DEF Inv, Strength

\* Identity.CleanIsHome: an audit without findings means every recorded controller
\* is on its id, though the audit judges one window after another has gone by.
THEOREM CleanMeansHome == Spec => []CleanIsHome
<1> QED BY Invariance, PTL DEF Inv, Strength

\* Identity.OthersKeepTheirs: no command makes an id permanent in a controller it
\* was not for, but one that answers on the new id already.
THEOREM OthersKeep == Spec => OthersKeepTheirs
<1>1. TypeOK /\ [Next]_vars =>
        [\A c \in Serials \ {cmd.serial} : burned'[c] # burned[c] => id[c] = cmd.to]_vars
  <2> SUFFICES ASSUME TypeOK, Next, NEW c \in Serials \ {cmd.serial}, burned'[c] # burned[c]
               PROVE  id[c] = cmd.to
    OBVIOUS
  <2>1. Move \/ Burn
    BY DEF Next, Start, Hear, Reboot, Refuse, Duplicates, Identify, Found, Looked, Check, Judge,
       Learn, Snapshot, Enrolled, Audit, fleet
  <2>2. CASE Move
    BY <2>2 DEF Move, fleet, TypeOK
  <2>3. CASE Burn
    <3>1. PICK done \in SUBSET (IF gen = "fw25" THEN Reached ELSE {}) :
            burned' = [b \in Serials |-> IF b \in done THEN id[b] ELSE burned[b]]
      BY <2>3 DEF Burn
    <3>2. c \in done
      BY <3>1
    <3> QED BY <3>1, <3>2 DEF Reached, On
  <2> QED BY <2>1, <2>2, <2>3
<1> QED BY <1>1, TypesOK, PTL DEF Spec, OthersKeepTheirs
=============================================================================
