----------------------------- MODULE ParamLink -----------------------------
(***************************************************************************)
(* One 25+ controller's parameter memory and the SparkAdmin session that   *)
(* talks to it.  The controller keeps every parameter twice, in RAM and in *)
(* flash; a power cycle copies flash to RAM, a burn copies RAM to flash.   *)
(*                                                                         *)
(* Frames travel in order, in both directions, and may be lost.  A reply   *)
(* may also be late: SparkAdmin stops waiting, sends again, and finds the  *)
(* reply to its first frame afterwards.  What a parameter holds is         *)
(* abstracted to whether it is the declared value; a read reply carries the *)
(* set of parameters that are.                                            *)
(***************************************************************************)
EXTENDS Naturals, Sequences

CONSTANTS
  Params,          \* the parameter ids the declared file names
  WriteAttempts,   \* WRITE_ATTEMPTS
  ReadAttempts     \* READ_ATTEMPTS

ASSUME ParamsAssumption == Params \subseteq Nat
ASSUME AttemptsAssumption ==
  /\ WriteAttempts \in Nat \ {0}
  /\ ReadAttempts \in Nat \ {0}

VARIABLES
  ram, flash,   \* per parameter
  young,        \* per parameter: what a burn would still commit in its place
  latched,      \* in a latched fault, which takes writes and applies nothing
  reqs,         \* frames on their way to the controller
  replies,      \* frames on their way back, the arrived ones included
  ask,          \* the request SparkAdmin waits to see answered
  left,         \* how often it may still be sent
  answer,       \* what came of it
  floor         \* parameters that persist's settle time is still owed to

device  == <<ram, flash, young, latched>>
session == <<ask, left, answer, floor>>
link    == <<device, reqs, replies, session>>

-----------------------------------------------------------------------------
Values == {"declared", "other"}
Settled == "settled"    \* a burn commits what RAM holds

\* READ_PARAMETER carries a pair of parameters, GET_PARAMETER_TYPES sixteen.
PairOf(p)  == p \div 2
BlockOf(p) == p \div 16
Pair(n)    == {p \in Params : PairOf(p) = n}

Frame(kind, of, val) == [kind |-> kind, of |-> of, val |-> val, held |-> {}]
ReadOf(p)     == Frame("read", PairOf(p), "-")
TypesOf(b)    == Frame("types", b, "-")
WriteOf(p, v) == Frame("write", p, v)
Burn          == Frame("burn", 0, "-")

NoAsk    == Frame("nothing", 0, "-")
NoAnswer == Frame("none", 0, "-")
Silence  == Frame("silence", 0, "-")

\* _await compares arbitration ids: the one of a write reply carries no
\* parameter id, the one of a read reply carries the pair.
Answers(reply, request) ==
  /\ reply.kind = request.kind
  /\ reply.kind \in {"read", "types"} => reply.of = request.of

\* Just powered up.
LinkInit ==
  /\ flash \in [Params -> Values] /\ ram = flash
  /\ young = [p \in Params |-> Settled] /\ latched = FALSE
  /\ reqs = <<>> /\ replies = <<>>
  /\ ask = NoAsk /\ left = 0 /\ answer = NoAnswer
  /\ floor = {}

-----------------------------------------------------------------------------
(* SparkAdmin: one request and its answer.                                 *)

\* _drain empties the receive buffer of whatever has arrived.
Drained == \E n \in 0..Len(replies) : replies' = SubSeq(replies, n + 1, Len(replies))

\* Mutant: a burn is not counted as sent.
AttemptsButBurn(request) ==
  CASE request.kind = "write" -> WriteAttempts
    [] request.kind = "burn"  -> 0
    [] OTHER                  -> ReadAttempts

Attempts(request) ==
  CASE request.kind = "write" -> WriteAttempts
    [] request.kind = "burn"  -> 1
    [] OTHER                  -> ReadAttempts

Idle == ask = NoAsk /\ answer = NoAnswer

Send(request) ==
  /\ Idle
  /\ Drained
  /\ reqs' = Append(reqs, request)
  /\ ask' = request
  /\ left' = Attempts(request) - 1
  /\ UNCHANGED <<device, answer, floor>>

\* The wait runs out and there are attempts left.
SendAgain ==
  /\ ask.kind # "nothing" /\ left > 0
  /\ Drained
  /\ reqs' = Append(reqs, ask)
  /\ left' = left - 1
  /\ UNCHANGED <<device, ask, answer, floor>>

NeverAnswered ==
  /\ ask.kind # "nothing" /\ left = 0
  /\ ask' = NoAsk
  /\ answer' = Silence
  /\ UNCHANGED <<device, reqs, replies, left, floor>>

\* Mutant: _last_write_resp_at is never set.
StampNever(reply) == floor

\* An answered write sets _last_write_resp_at: from here on persist owes the
\* settle time to every write the controller has taken so far.
Stamp(reply) ==
  IF reply.kind = "write" THEN {p \in Params : young[p] # Settled} ELSE floor

\* _await takes the first frame that answers and drops what comes before it.
Receive ==
  /\ ask.kind # "nothing" /\ replies # <<>>
  /\ replies' = Tail(replies)
  /\ LET reply == Head(replies) IN
     IF Answers(reply, ask)
     THEN /\ ask' = NoAsk /\ left' = 0
          /\ answer' = reply
          /\ floor' = Stamp(reply)
     ELSE UNCHANGED <<ask, left, answer, floor>>
  /\ UNCHANGED <<device, reqs>>

Admin == SendAgain \/ NeverAnswered \/ Receive

-----------------------------------------------------------------------------
(* The controller.                                                         *)

Reply(kind, of, val) == replies' = Append(replies, Frame(kind, of, val))
TakeRequest(kind) == reqs # <<>> /\ Head(reqs).kind = kind /\ reqs' = Tail(reqs)

HandleRead ==
  /\ TakeRequest("read")
  /\ replies' = Append(replies,
       [Head(reqs) EXCEPT !.held = {p \in Pair(Head(reqs).of) : ram[p] = "declared"}])
  /\ UNCHANGED <<device, session>>

HandleTypes ==
  /\ TakeRequest("types")
  /\ Reply("types", Head(reqs).of, "-")
  /\ UNCHANGED <<device, session>>

\* A write is stored, and a burn soon afterwards commits the value before it.
HandleWrite ==
  /\ TakeRequest("write")
  /\ ~latched
  /\ LET p == Head(reqs).of IN
     /\ ram' = [ram EXCEPT ![p] = Head(reqs).val]
     /\ young' = [young EXCEPT ![p] = ram[p]]
     /\ floor' = floor \ {p}
     /\ \E echo \in Values : Reply("write", p, echo)
  /\ UNCHANGED <<flash, latched, ask, left, answer>>

\* In a latched fault Success means nothing, and any write may be refused.  The
\* value echoed is not evidence in either case.
HandleWriteInVain ==
  /\ TakeRequest("write")
  /\ \/ latched /\ \E echo \in Values : Reply("write", Head(reqs).of, echo)
     \/ Reply("write", Head(reqs).of, "refused")
  /\ UNCHANGED <<device, session>>

\* What a burn makes of flash: a parameter written too lately is committed as it
\* was before.
Image == [p \in Params |-> IF young[p] = Settled THEN ram[p] ELSE young[p]]

HandleBurn ==
  /\ TakeRequest("burn")
  /\ flash' = Image
  /\ Reply("burn", 0, "ok")
  /\ UNCHANGED <<ram, young, latched, session>>

\* A burn that is reported as failed may have happened all the same.
HandleBurnFails ==
  /\ TakeRequest("burn")
  /\ flash' \in {flash, Image}
  /\ Reply("burn", 0, "failed")
  /\ UNCHANGED <<ram, young, latched, session>>

\* 200 ms after a write a burn commits it.
Age(p) ==
  /\ young[p] # Settled
  /\ young' = [young EXCEPT ![p] = Settled]
  /\ floor' = floor \ {p}
  /\ UNCHANGED <<ram, flash, latched, reqs, replies, ask, left, answer>>

\* A fault latches, and releases with clear_faults or a power cycle.
Latch == latched' = TRUE /\ UNCHANGED <<ram, flash, young, reqs, replies, session>>
Release == latched' = FALSE /\ UNCHANGED <<ram, flash, young, reqs, replies, session>>

LoseRequest ==
  /\ reqs # <<>>
  /\ reqs' = Tail(reqs)
  /\ UNCHANGED <<device, replies, session>>

LoseReply ==
  /\ replies # <<>>
  /\ replies' = Tail(replies)
  /\ UNCHANGED <<device, reqs, session>>

\* The motor rail goes off and on.  Frames may sit in the adapter meanwhile.
Reboot ==
  /\ ram' = flash
  /\ young' = [p \in Params |-> Settled]
  /\ floor' = {} /\ latched' = FALSE
  /\ reqs' \in {reqs, <<>>}
  /\ UNCHANGED <<flash, replies, ask, left, answer>>

Handle == \/ HandleRead \/ HandleTypes
          \/ HandleWrite \/ HandleWriteInVain
          \/ HandleBurn \/ HandleBurnFails

Controller == Handle \/ Latch \/ LoseRequest \/ LoseReply \/ \E p \in Params : Age(p)

-----------------------------------------------------------------------------
Requests == {NoAsk, Burn} \cup {ReadOf(p) : p \in Params}
              \cup {TypesOf(BlockOf(p)) : p \in Params}
              \cup {WriteOf(p, v) : p \in Params, v \in Values}
Replies  == [kind : {"read"}, of : Nat, val : {"-"}, held : SUBSET Params]
              \cup [kind : {"types"}, of : Nat, val : {"-"}, held : {{}}]
              \cup [kind : {"write"}, of : Params, val : Values \cup {"refused"}, held : {{}}]
              \cup [kind : {"burn"}, of : {0}, val : {"ok", "failed"}, held : {{}}]

LinkTypeOK ==
  /\ ram \in [Params -> Values]
  /\ flash \in [Params -> Values]
  /\ young \in [Params -> Values \cup {Settled}]
  /\ latched \in BOOLEAN
  /\ reqs \in Seq(Requests \ {NoAsk})
  /\ replies \in Seq(Replies)
  /\ ask \in Requests
  /\ left \in Nat
  /\ answer \in Replies \cup {NoAnswer, Silence}
  /\ floor \subseteq Params
=============================================================================
