------------------------------ MODULE Identity ------------------------------
(***************************************************************************)
(* Who sits on which CAN id, and the commands that find out, record it and *)
(* change it: spark set-id, duplicates, identify, learn-serials, snapshot  *)
(* and audit, and tools/spark_set_can_id.py, one after the other.          *)
(*                                                                         *)
(* A controller is named by its serial, which on firmware before 25 is the *)
(* fingerprint at api 0x094.  Firmware 25+ broadcasts it once a second;    *)
(* before 25 it must be asked for.  The id a controller answers on is held *)
(* in RAM, the one it starts with in flash.  Power may go at any moment,   *)
(* also in the middle of a listening window, and for each controller alone. *)
(***************************************************************************)
EXTENDS FiniteSetsExt, Functions

CONSTANTS
  Serials,       \* the controllers
  Ids,           \* the CAN ids in play; 0 is a controller nobody configured
  Roles,         \* the ids the config gives a role
  Generations,   \* the firmware generations the fleet may have
  Commands       \* the command lines that may be given

Names == {"set-id", "tool", "duplicates", "identify", "learn-serials", "snapshot", "audit"}

ASSUME SerialsAssumption == IsFiniteSet(Serials)
ASSUME IdsAssumption == {0} \subseteq Ids /\ Ids \subseteq 0..62 /\ Roles \subseteq Ids \ {0}
ASSUME GenerationsAssumption == Generations \subseteq {"pre25", "fw25"}
ASSUME IdentityCommands ==
  Commands \subseteq [name : Names, serial : Serials, to : Ids \ {0}]

VARIABLES
  gen,            \* the fleet's firmware generation
  id, burned,     \* per controller: the id it answers on, the id in flash
  known,          \* the serials: block of the config
  cmd, pc,        \* the command that runs, or ran last, and how far it is
  believed,       \* the generation the command takes the bus for
  spoke, seen,    \* ids heard in this window, and the serials heard on each
  roll,           \* audit: what the inventory found
  current,        \* set-id: the id it found the serial on
  outcome,        \* set_can_id's answer: burned or not confirmed
  said,           \* the verdict the command ended with
  \* history, read by no action
  cycled,         \* some controller lost power since the command began
  shared          \* set-id burned an id that two controllers answered on

fleet   == <<gen, id, burned>>
heard   == <<spoke, seen>>
session == <<cmd, believed, roll, current, outcome>>
history == <<cycled, shared>>
vars    == <<fleet, known, pc, heard, session, said, history>>

Unset   == [d \in Roles |-> "-"]
Nothing == [spoke |-> {}, seen |-> [d \in Ids |-> {}]]
On(d)   == {c \in Serials : id[c] = d}

Init ==
  /\ gen \in Generations
  /\ burned \in [Serials -> Ids] /\ id = burned
  /\ known = Unset
  /\ cmd \in Commands /\ pc = "done" /\ said = "-"
  /\ believed = gen /\ current = 0 /\ outcome = "none"
  /\ spoke = {} /\ seen = Nothing.seen /\ roll = Nothing
  /\ cycled = FALSE /\ shared = FALSE

-----------------------------------------------------------------------------
Windows == {"find", "double", "check", "confirm"}

\* A new window begins: recv from here on.
Listen(p) == pc' = p /\ spoke' = {} /\ seen' = Nothing.seen

\* return: the window's findings are gone with the process.
End(verdict) ==
  /\ said' = verdict /\ pc' = "done"
  /\ spoke' = {} /\ seen' = Nothing.seen /\ roll' = Nothing
  /\ current' = 0 /\ outcome' = "none"
  /\ UNCHANGED <<cmd, believed>>

\* dominant_generation of a first short reading, which falls back to 25+ when
\* the bus is silent.
Start(c) ==
  /\ pc = "done"
  /\ cmd' = c /\ believed' \in {gen, "fw25"}
  /\ said' = "-" /\ cycled' = FALSE /\ shared' = FALSE
  /\ CASE c.name = "identify"   -> pc' = "blink" /\ UNCHANGED heard
       [] c.name = "duplicates" -> Listen("double")
       [] OTHER                 -> Listen("find")
  /\ UNCHANGED <<fleet, known, roll, current, outcome>>

\* The example config, a rig with an experiment on it, a parameter table that
\* cannot be read: some gates end a command for reasons of their own.
Refuse ==
  /\ pc = "find" /\ cmd.name \in {"set-id", "snapshot"}
  /\ End("refused")
  /\ UNCHANGED <<fleet, known, history>>

-----------------------------------------------------------------------------
(* inventory, duplicates, read_fingerprint                                 *)

\* The windows in which a serial can be had: always where it is broadcast, and
\* before 25 where the caller asks.  The tool asks nobody.
Identifies ==
  IF gen = "fw25" THEN TRUE
  ELSE believed = "pre25" /\ pc \in {"find", "double"} /\ cmd.name # "tool"

\* Mutant: an answer is taken for whichever id was asked.
AnyId(c) == Ids

SenderId(c) == {id[c]}

\* An inventory keeps the last serial broadcast on an id, or the first answer to
\* its request; duplicates keeps all, and asks 1..62 only.
Hear(c) ==
  /\ pc \in Windows
  /\ \E d \in SenderId(c) :
     /\ spoke' = spoke \cup {d}
     /\ \/ UNCHANGED seen
        \/ /\ Identifies
           /\ IF pc = "double"
              THEN /\ gen = "fw25" \/ d # 0
                   /\ seen' = [seen EXCEPT ![d] = @ \cup {c}]
              ELSE /\ gen = "fw25" \/ seen[d] = {}
                   /\ seen' = [seen EXCEPT ![d] = {c}]
  /\ UNCHANGED <<fleet, known, pc, session, said, history>>

At(c) == {d \in Ids : seen[d] = {c}}

Doubled == {d \in Ids : Cardinality(seen[d]) > 1}

Duplicates ==
  /\ pc = "double" /\ cmd.name = "duplicates"
  /\ End(IF Doubled = {} THEN "unique" ELSE "doubled")
  /\ UNCHANGED <<fleet, known, history>>

\* identify names a controller by serial on 25+, by id before; the operator may
\* have given the one or the other.
Identify ==
  /\ pc = "blink"
  /\ End("refused") \/ End("sent")
  /\ UNCHANGED <<fleet, known, history>>

-----------------------------------------------------------------------------
(* set-id, and the tool that does the same                                 *)

Found ==
  /\ pc = "find" /\ cmd.name = "set-id"
  /\ IF At(cmd.serial) = {} THEN End("absent")
     ELSE IF Min(At(cmd.serial)) = cmd.to THEN End("already")
     ELSE /\ pc' = "move" /\ current' = Min(At(cmd.serial))
          /\ UNCHANGED <<heard, cmd, believed, roll, outcome, said>>
  /\ UNCHANGED <<fleet, known, history>>

\* The tool looks who is there, and sends whatever it saw.
Looked ==
  /\ pc = "find" /\ cmd.name = "tool"
  /\ pc' = "move"
  /\ UNCHANGED <<fleet, known, heard, session, said, history>>

\* SET_CAN_ID reaches the controller of that serial if the frame carries the id
\* it answers on; the tool's carries 0.  It may be refused, and nothing says so.
\* Some firmware stores the new id at once, some holds it in RAM.
Move ==
  /\ pc = "move"
  /\ LET c == cmd.serial IN
     \/ UNCHANGED fleet
     \/ /\ id[c] = (IF cmd.name = "tool" THEN 0 ELSE current)
        /\ id' = [id EXCEPT ![c] = cmd.to]
        /\ burned' \in {burned, [burned EXCEPT ![c] = cmd.to]}
        /\ UNCHANGED gen
  /\ Listen(IF cmd.name = "tool" THEN "confirm" ELSE "check")
  /\ UNCHANGED <<known, session, said, history>>

\* set_can_id looks for the serial on the new id: `i.get("serial", "").upper()`
\* raises when the id was heard and its serial was not.
Check ==
  /\ pc = "check"
  /\ IF cmd.to \notin spoke THEN End("stayed")
     ELSE IF seen[cmd.to] = {} THEN End("raised")
     ELSE IF cmd.to \notin At(cmd.serial) THEN End("stayed")
     ELSE pc' = "burn" /\ UNCHANGED <<heard, session, said>>
  /\ UNCHANGED <<fleet, known, history>>

\* Mutant: the burn goes to the id the controller had.
OnOldId == On(current)

Reached == On(cmd.to)

\* Mutant: a burn that was not acknowledged counts.
AnyReply(acked) == "burned"

Reply(acked) == IF acked THEN "burned" ELSE "none"

\* persist reaches everyone on the new id.  Each may refuse it, and the reply may
\* be another's or get lost.  Firmware before 25 does not know the frame.
Burn ==
  /\ pc = "burn"
  /\ \E done \in SUBSET (IF gen = "fw25" THEN Reached ELSE {}), acked \in BOOLEAN :
       /\ burned' = [c \in Serials |-> IF c \in done THEN id[c] ELSE burned[c]]
       /\ acked => done # {}
       /\ outcome' = Reply(acked)
  /\ shared' = (Cardinality(On(cmd.to)) > 1)
  /\ Listen("confirm")
  /\ UNCHANGED <<gen, id, known, cmd, believed, roll, current, said, cycled>>

\* Where set-id looked again and judged.
Judge ==
  /\ pc = "confirm"
  /\ IF At(cmd.serial) # {cmd.to} THEN End("failed")
     ELSE IF cmd.name = "tool" THEN End("answers")
     ELSE IF outcome = "burned" THEN End("ok")
     ELSE End(IF believed = "pre25" THEN "ramOnly" ELSE "unconfirmed")
  /\ UNCHANGED <<fleet, known, history>>

-----------------------------------------------------------------------------
(* learn-serials, snapshot and the identity part of audit                  *)

\* Mutant: an id without a serial is recorded as such.
Unread(d) == FALSE

SerialMissing(d) == seen[d] = {}

SerialOf(S) == IF S = {} THEN "-" ELSE CHOOSE c \in S : TRUE

\* with --write, and a config that has a devices: block to anchor to.
Learn ==
  /\ pc = "find" /\ cmd.name = "learn-serials"
  /\ IF ~(Roles \subseteq spoke) THEN End("missing") /\ UNCHANGED known
     ELSE IF \E d \in Roles : SerialMissing(d) THEN End("unread") /\ UNCHANGED known
     ELSE End("learned") /\ known' = [d \in Roles |-> SerialOf(seen[d])]
  /\ UNCHANGED <<fleet, history>>

\* The baseline is written; a config without serials is then taught them, in a
\* window of its own.
Snapshot ==
  /\ pc = "find" /\ cmd.name = "snapshot"
  /\ IF ~(Roles \subseteq spoke) THEN End("missing")
     ELSE IF known # Unset THEN End("saved")
     ELSE /\ cmd' = [cmd EXCEPT !.name = "learn-serials"]
          /\ Listen("find")
          /\ UNCHANGED <<believed, roll, current, outcome, said>>
  /\ UNCHANGED <<fleet, known, history>>

Enrolled ==
  /\ pc = "find" /\ cmd.name = "audit"
  /\ roll' = [spoke |-> spoke, seen |-> seen]
  /\ Listen("double")
  /\ UNCHANGED <<fleet, known, cmd, believed, current, outcome, said, history>>

\* Mutant: an id that gave no serial is let pass.
SwappedIfRead(d) == known # Unset /\ roll.seen[d] \notin {{}, {known[d]}}

\* An id that answers with another serial than recorded, or with none.
Swapped(d) == known # Unset /\ roll.seen[d] # {known[d]}

\* Cadence, status and parameters may be objected to as well.
Audit ==
  /\ pc = "double" /\ cmd.name = "audit"
  /\ \/ End("problems")
     \/ /\ Doubled = {} /\ roll.spoke = Roles
        /\ \A d \in Roles : ~Swapped(d)
        /\ End("clean")
  /\ UNCHANGED <<fleet, known, history>>

-----------------------------------------------------------------------------
Reboot(c) ==
  /\ id' = [id EXCEPT ![c] = burned[c]]
  /\ cycled' = TRUE
  /\ UNCHANGED <<gen, burned, known, pc, heard, session, said, shared>>

Next ==
  \/ \E c \in Commands : Start(c)
  \/ \E c \in Serials : Hear(c) \/ Reboot(c)
  \/ Refuse \/ Duplicates \/ Identify
  \/ Found \/ Looked \/ Move \/ Check \/ Burn \/ Judge
  \/ Learn \/ Snapshot \/ Enrolled \/ Audit

Spec == Init /\ [][Next]_vars

-----------------------------------------------------------------------------
Verdicts ==
  {"-", "refused", "unique", "doubled", "sent", "absent", "already", "stayed",
   "raised", "failed", "answers", "ok", "ramOnly", "unconfirmed", "missing",
   "unread", "learned", "saved", "problems", "clean"}

TypeOK ==
  /\ gen \in Generations /\ believed \in {gen, "fw25"}
  /\ id \in [Serials -> Ids] /\ burned \in [Serials -> Ids]
  /\ known \in [Roles -> Serials] \cup {Unset}
  /\ cmd \in [name : Names, serial : Serials, to : Ids \ {0}]
  /\ pc \in Windows \cup {"done", "blink", "move", "burn"}
  /\ spoke \subseteq Ids /\ seen \in [Ids -> SUBSET Serials]
  /\ roll \in [spoke : SUBSET Ids, seen : [Ids -> SUBSET Serials]]
  /\ current \in Ids /\ outcome \in {"none", "burned"}
  /\ said \in Verdicts
  /\ cycled \in BOOLEAN /\ shared \in BOOLEAN

\* "OK -- serial now answers on id, burned to flash": the controller starts on
\* the new id from then on, whatever loses power after, or lost it during the
\* command.  Where two controllers answer on the new id, the one may have
\* acknowledged for the other; `shared` exempts that.
OkIsBurned == said = "ok" /\ ~shared => burned[cmd.serial] = cmd.to

\* set-id makes no id permanent but the one it was asked for: of the others, it
\* reaches at most those that answer on it already.
OthersKeepTheirs ==
  [][\A c \in Serials \ {cmd.serial} : burned'[c] # burned[c] => id[c] = cmd.to]_vars

\* What learn-serials records is where the controllers are.
LearnedIsTrue ==
  said = "learned" /\ ~cycled => \A d \in Roles : known[d] \in On(d)

\* An audit without a finding means that every recorded controller answers on
\* its id, though several windows and another's frames lie in between.
CleanIsHome ==
  said = "clean" /\ known # Unset /\ ~cycled => \A d \in Roles : known[d] \in On(d)
=============================================================================
