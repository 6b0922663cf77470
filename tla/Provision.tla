----------------------------- MODULE Provision -----------------------------
(***************************************************************************)
(* The commands of the CLI that change one 25+ controller's parameters:    *)
(* spark provision, repair, persist and params --set, one after the other, *)
(* over the link of ParamLink, with power cycles at any moment.            *)
(***************************************************************************)
EXTENDS ParamLink

CONSTANTS
  Protected,     \* PROTECTED_PARAMS
  Mistyped,      \* the firmware reports another type for these, or Unused
  Unencodable,   \* declared_raw_value returns None for these
  Period,        \* PARAM_STATUS_1_PERIOD, what repair writes
  MaxPolls,      \* polls of confirm that fit into persist's wait
  Commands       \* the command lines that may be given

CommandLines ==
  [name : {"provision"}, write : BOOLEAN, persist : BOOLEAN]
    \cup [name : {"repair"}, write : {TRUE}, persist : BOOLEAN]
    \cup [name : {"persist"}, write : {TRUE}, persist : {TRUE}]
    \cup [name : {"params"}, write : {TRUE}, persist : {FALSE}]

ASSUME CommandsAssumption ==
  /\ Commands \subseteq CommandLines
  /\ Protected \subseteq Params
  /\ Period \in Params \ Protected
  /\ MaxPolls \in Nat \ {0}

VARIABLES
  cmd,       \* the command that runs, or ran last
  pc,        \* how far it is
  todo,      \* settings still to be read, or to be written
  drift,     \* rows in state "drift"
  typed,     \* blocks of 16 parameters whose types were reported
  skipped,   \* drifted settings that will not be written
  target,    \* the parameter being written, or written last, and its value
  polls,     \* polls of confirm so far
  exit,      \* the exit code: "none" yet, "ok" for 0, "failed" for 1
  \* history, read by no action
  cycled,    \* the controller was power cycled since the command began
  acked      \* persist returned 0 in this command

steps   == <<cmd, pc, todo, drift, typed, skipped, target, polls, exit>>
history == <<cycled, acked>>
vars    == <<link, steps, history>>

NoTarget == [p |-> 0, v |-> "-"]

Init ==
  /\ LinkInit
  /\ cmd \in Commands
  /\ pc = "done" /\ exit = "none"
  /\ todo = {} /\ drift = {} /\ typed = {} /\ skipped = {}
  /\ target = NoTarget /\ polls = 0
  /\ cycled = FALSE /\ acked = FALSE

-----------------------------------------------------------------------------
Goto(l) == pc' = l
At(l) == pc = l
\* The answer has been used.
Taken == answer' = NoAnswer /\ UNCHANGED <<device, reqs, replies, ask, left, floor>>
Heard(l) == At(l) /\ ask = NoAsk /\ answer.kind # "none" /\ Taken

\* return code: the socket is closed, what is still in it is gone.
Finish(code) ==
  /\ exit' = code
  /\ pc' = "done"
  /\ todo' = {} /\ drift' = {} /\ typed' = {} /\ skipped' = {}
  /\ polls' = 0
  /\ UNCHANGED <<cmd, target>>

Least(S) == CHOOSE p \in S : \A q \in S : p <= q
Blocks(S) == {BlockOf(p) : p \in S}

\* Every command begins by listening to the bus for longer than the settle
\* time, in a new process with a new socket.
Start(c) ==
  /\ At("done") /\ Idle
  /\ reqs = <<>> /\ \A p \in Params : young[p] = Settled
  /\ cmd' = c
  /\ replies' = <<>> /\ floor' = {}
  /\ exit' = "none"
  /\ pc' = CASE c.name \in {"provision", "repair"} -> "look"
             [] c.name = "persist" -> "burn"
             [] c.name = "params" -> "before"
  /\ todo' = IF c.name = "provision" THEN Params ELSE {}
  /\ IF c.name = "params"
     THEN \E p \in Params \ Protected, v \in Values : target' = [p |-> p, v |-> v]
     ELSE target' = NoTarget
  /\ cycled' = FALSE /\ acked' = FALSE
  /\ UNCHANGED <<device, reqs, ask, left, answer, drift, typed, skipped, polls>>

\* The gates that look at the bus: driving, silent or duplicated controllers
\* before the survey, require_at_rest before the first write.
Refuse ==
  /\ At("look") \/ At("rest")
  /\ Finish("failed")
  /\ UNCHANGED <<link, history>>

Proceed ==
  /\ At("look") \/ At("rest")
  /\ IF At("look") /\ cmd.name = "provision" THEN Goto("survey")
     ELSE IF cmd.name = "repair" /\ At("look") THEN Goto("rest") ELSE Goto("write")
  /\ IF cmd.name = "repair"
     THEN target' = [p |-> Period, v |-> "declared"] ELSE UNCHANGED target
  /\ UNCHANGED <<link, history, cmd, todo, drift, typed, skipped, polls, exit>>

-----------------------------------------------------------------------------
(* provision: read every declared setting and plan what to write.          *)

SurveyAsk ==
  /\ At("survey") /\ todo # {}
  /\ Send(ReadOf(Least(todo)))
  /\ UNCHANGED <<steps, history>>

\* declared_rows.  A silent row ends the command, here without reading on.
SurveyRow ==
  /\ Heard("survey")
  /\ IF answer.kind = "silence" THEN Finish("failed")
     ELSE LET p == Least(todo) IN
          /\ todo' = todo \ {p}
          /\ drift' = IF p \in answer.held THEN drift ELSE drift \cup {p}
          /\ UNCHANGED <<cmd, pc, typed, skipped, target, polls, exit>>
  /\ UNCHANGED history

\* A protected parameter that drifted stops the run; otherwise the firmware is
\* asked for the types of the drifted ones.
Surveyed ==
  /\ At("survey") /\ Idle /\ todo = {}
  /\ IF drift \cap Protected # {} THEN Finish("failed")
     ELSE /\ Goto("types")
          /\ todo' = Blocks(drift)
          /\ UNCHANGED <<cmd, drift, typed, skipped, target, polls, exit>>
  /\ UNCHANGED <<link, history>>

TypesAsk ==
  /\ At("types") /\ todo # {}
  /\ Send(TypesOf(Least(todo)))
  /\ UNCHANGED <<steps, history>>

\* `adm.param_types(...) or {}`: no answer is taken as nothing to object to.
TypesRow ==
  /\ Heard("types")
  /\ LET b == Least(todo) IN
     /\ todo' = todo \ {b}
     /\ typed' = IF answer.kind = "silence" THEN typed ELSE typed \cup {b}
  /\ UNCHANGED <<cmd, pc, drift, skipped, target, polls, exit, history>>

Planned == {p \in drift \ Unencodable : p \in Mistyped => BlockOf(p) \notin typed}

Plan ==
  /\ At("types") /\ Idle /\ todo = {}
  /\ IF Planned = {} THEN Finish(IF drift = {} THEN "ok" ELSE "failed")
     ELSE IF ~cmd.write THEN Finish("failed")
     ELSE /\ Goto("rest")
          /\ todo' = Planned
          /\ skipped' = drift \ Planned
          /\ drift' = {} /\ typed' = {}
          /\ UNCHANGED <<cmd, target, polls, exit>>
  /\ UNCHANGED <<link, history>>

-----------------------------------------------------------------------------
(* Write one parameter and read it back.                                   *)

\* params --set writes to a parameter that answers a read, or not at all.
BeforeAsk ==
  /\ At("before") /\ Send(ReadOf(target.p))
  /\ UNCHANGED <<steps, history>>

Before ==
  /\ Heard("before")
  /\ IF answer.kind = "silence" THEN Finish("failed")
     ELSE Goto("write") /\ UNCHANGED <<cmd, todo, drift, typed, skipped, target, polls, exit>>
  /\ UNCHANGED history

Aim == IF cmd.name = "provision" THEN [p |-> Least(todo), v |-> "declared"] ELSE target

WriteAsk ==
  /\ At("write") /\ Send(WriteOf(Aim.p, Aim.v))
  /\ target' = Aim
  /\ UNCHANGED <<cmd, pc, todo, drift, typed, skipped, polls, exit, history>>

\* A write that was refused or not answered ends every command; provision reads
\* back first, and stops whatever it reads.  repair also wants the echo right.
Wrote ==
  /\ Heard("write")
  /\ IF \/ answer.kind = "silence" \/ answer.val = "refused"
        \/ cmd.name = "repair" /\ answer.val # target.v
     THEN Finish("failed")
     ELSE /\ Goto(IF cmd.name = "repair" THEN "measure" ELSE "back")
          /\ UNCHANGED <<cmd, todo, drift, typed, skipped, target, polls, exit>>
  /\ UNCHANGED history

BackAsk ==
  /\ At("back") /\ Send(ReadOf(target.p))
  /\ UNCHANGED <<steps, history>>

\* Mutant: any answer to the read back will do.
HeldIfRead == answer.kind # "silence"

Held == answer.kind # "silence" /\ (target.p \in answer.held <=> target.v = "declared")

\* Mutant: what was skipped does not stand in the way of the burn.
RestoredAnyway == TRUE

Restored == skipped = {}

\* The read back decides.  A setting that did not land stops the run; when all
\* have landed, a skipped one still forbids the burn.
Judge ==
  /\ Heard("back")
  /\ LET rest == todo \ {target.p} IN
     IF ~Held THEN Finish("failed")
     ELSE IF rest # {}
     THEN /\ Goto("write") /\ todo' = rest
          /\ UNCHANGED <<cmd, drift, typed, skipped, target, polls, exit>>
     ELSE IF ~Restored THEN Finish("failed")
     ELSE IF ~cmd.persist THEN Finish("ok")
     ELSE /\ Goto("confirm") /\ todo' = {}
          /\ UNCHANGED <<cmd, drift, typed, skipped, target, polls, exit>>
  /\ UNCHANGED history

-----------------------------------------------------------------------------
(* repair judges by the cadence on the wire, which follows RAM.            *)

Cadence == ram[Period] = "declared"

Measure ==
  /\ At("measure")
  /\ \E heard \in BOOLEAN :
       IF ~(heard /\ Cadence) THEN Finish("failed")
       ELSE IF ~cmd.persist THEN Finish("ok")
       ELSE Goto("confirm") /\ UNCHANGED <<cmd, todo, drift, typed, skipped, target, polls, exit>>
  /\ UNCHANGED <<link, history>>

-----------------------------------------------------------------------------
(* persist: wait out the settle time, poll confirm until it is true or the *)
(* wait is over, burn.  The persist command does neither.                  *)

ConfirmAsk ==
  /\ At("confirm") /\ floor = {} /\ cmd.name = "provision"
  /\ polls < MaxPolls /\ polls' = polls + 1
  /\ Send(ReadOf(target.p))
  /\ UNCHANGED <<cmd, pc, todo, drift, typed, skipped, target, exit, history>>

Confirm ==
  /\ Heard("confirm")
  /\ IF Held THEN Goto("burn") ELSE UNCHANGED pc
  /\ UNCHANGED <<cmd, todo, drift, typed, skipped, target, polls, exit, history>>

ConfirmByCadence ==
  /\ At("confirm") /\ floor = {} /\ Idle
  /\ cmd.name = "repair" /\ Cadence
  /\ Goto("burn")
  /\ UNCHANGED <<link, history, cmd, todo, drift, typed, skipped, target, polls, exit>>

ConfirmGivesUp ==
  /\ At("confirm") /\ floor = {} /\ Idle
  /\ polls > 0 \/ cmd.name = "repair"
  /\ Goto("burn")
  /\ UNCHANGED <<link, history, cmd, todo, drift, typed, skipped, target, polls, exit>>

BurnAsk ==
  /\ At("burn") /\ Send(Burn)
  /\ UNCHANGED <<steps, history>>

\* Without an answer the persist command believes the cadence.
Burned ==
  /\ Heard("burn")
  /\ \E heard \in BOOLEAN :
       Finish(IF \/ answer.val = "ok"
                 \/ answer.kind = "silence" /\ cmd.name = "persist" /\ heard /\ Cadence
              THEN "ok" ELSE "failed")
  /\ acked' = (answer.val = "ok")
  /\ UNCHANGED cycled

-----------------------------------------------------------------------------
Host ==
  \/ Refuse \/ Proceed
  \/ SurveyAsk \/ SurveyRow \/ Surveyed \/ TypesAsk \/ TypesRow \/ Plan
  \/ BeforeAsk \/ Before \/ WriteAsk \/ Wrote \/ BackAsk \/ Judge \/ Measure
  \/ ConfirmAsk \/ Confirm \/ ConfirmByCadence \/ ConfirmGivesUp
  \/ BurnAsk \/ Burned
  \/ Admin /\ UNCHANGED <<steps, history>>

Next ==
  \/ \E c \in Commands : Start(c)
  \/ Host
  \/ At("done") /\ Release /\ UNCHANGED <<steps, history>>
  \/ Controller /\ UNCHANGED <<steps, history>>
  \/ Reboot /\ cycled' = TRUE /\ UNCHANGED <<steps, acked>>

Spec == Init /\ [][Next]_vars

-----------------------------------------------------------------------------
Points == {"done", "look", "rest", "survey", "types", "before", "write", "back",
           "measure", "confirm", "burn"}

TypeOK ==
  /\ LinkTypeOK
  /\ cmd \in Commands
  /\ pc \in Points
  /\ todo \subseteq Params \cup Blocks(Params)
  /\ drift \subseteq Params /\ skipped \subseteq Params
  /\ typed \subseteq Blocks(Params)
  /\ target \in [p : Params, v : Values] \cup {NoTarget}
  /\ exit \in {"none", "ok", "failed"}
  /\ cycled \in BOOLEAN /\ acked \in BOOLEAN

\* What the command was asked to make true of RAM.
Wanted ==
  CASE cmd.name = "provision" -> \A p \in Params : ram[p] = "declared"
    [] cmd.name = "repair"    -> ram[Period] = "declared"
    [] cmd.name = "params"    -> ram[target.p] = target.v
    [] OTHER                  -> TRUE

\* Exit 0 means that RAM holds what was asked for, whatever frames were lost,
\* late or answered in vain on the way: the read back decides, or the cadence
\* ("the echo is not evidence", cmd_provision).
ExitZeroHolds == exit = "ok" /\ ~cycled => Wanted

\* An acknowledged burn made flash what RAM is: the settle time persist waits
\* covers every write whose value it commits (CD 432129).
AckedBurnCommits == acked /\ ~cycled => flash = ram

\* provision never makes permanent what nobody declared: it burns only when all
\* that drifted has landed, whatever becomes of the reply to the burn.
NeverBurnsUndeclared ==
  [][flash' # flash /\ cmd.name = "provision" /\ ~cycled =>
       \A p \in Params : flash'[p] = "declared"]_vars

\* What provision tells the operator to do about a burn that failed: run it
\* again with --write --persist.
RerunBurns ==
  exit = "ok" /\ cmd.name = "provision" /\ cmd.write /\ cmd.persist /\ ~cycled =>
    \A p \in Params : flash[p] = "declared"
=============================================================================
