-------------------------- MODULE Provision_proofs --------------------------
(***************************************************************************)
(* Proofs about Provision, for every set of parameters, every number of    *)
(* attempts and polls, and every set of commands.                          *)
(***************************************************************************)
EXTENDS Provision, SequenceTheorems, WellFoundedInduction, TLAPS

\* What is in a sequence.
Among(s) == {s[i] : i \in 1..Len(s)}

\* What the command waits for where.
Wants == [l \in Points |->
  CASE l \in {"survey", "before", "back", "confirm"} -> "read"
    [] l = "types" -> "types"
    [] l = "write" -> "write"
    [] l = "burn"  -> "burn"
    [] OTHER       -> "nothing"]

TalkInv ==
  /\ ask.kind \in {"nothing", Wants[pc]}
  /\ Wants[pc] = "nothing" => answer = NoAnswer
  /\ answer.kind \in {"none", "silence", Wants[pc]}
  /\ ask.kind # "nothing" => answer = NoAnswer

Busy == ask.kind # "nothing" \/ answer.kind # "none"
Targets == [p : Params, v : Values]

PlaceInv ==
  /\ pc \in {"survey", "types"} => cmd.name = "provision"
  /\ pc \in {"look", "rest", "confirm"} => cmd.name \in {"provision", "repair"}
  /\ pc = "before" => cmd.name = "params"
  /\ pc = "measure" => cmd.name = "repair"
  /\ pc = "write" => cmd.name # "persist"
  /\ pc = "back" => cmd.name \in {"provision", "params"}
  /\ pc = "burn" => cmd.name # "params"

TodoInv ==
  /\ pc \in {"look", "survey"} => todo \subseteq Params
  /\ pc = "types" => todo \subseteq Blocks(Params)
  /\ pc \in {"survey", "types"} /\ Busy => todo # {}
  /\ pc \in {"rest", "write", "back"} /\ cmd.name = "provision" =>
       todo \subseteq Params /\ todo # {}

TargetInv ==
  /\ pc \in {"before", "back", "measure", "confirm"} => target \in Targets
  /\ pc = "write" /\ (Busy \/ cmd.name # "provision") => target \in Targets
  /\ cmd.name = "provision" /\ (pc = "back" \/ (pc = "write" /\ Busy)) =>
       target.p \in todo /\ target.v = "declared"
  /\ cmd.name = "repair" /\ pc = "write" => target = [p |-> Period, v |-> "declared"]
  /\ cmd.name = "params" /\ (pc # "done" \/ exit = "ok") =>
       /\ target \in Targets
       /\ ask.kind = "read" => ask.of = PairOf(target.p)
       /\ answer.kind = "read" => answer.of = PairOf(target.p)

CommandTypeOK ==
  /\ cmd \in Commands
  /\ pc \in Points
  /\ todo \subseteq Params \cup Blocks(Params)
  /\ drift \subseteq Params /\ skipped \subseteq Params
  /\ typed \subseteq Blocks(Params)
  /\ target \in Targets \cup {NoTarget}
  /\ exit \in {"none", "ok", "failed"}
  /\ cycled \in BOOLEAN /\ acked \in BOOLEAN

TypeInv ==
  LinkTypeOK /\ CommandTypeOK /\ TalkInv /\ PlaceInv /\ TodoInv /\ TargetInv

\* The writes a command sends never take back what another of its writes did:
\* this is why a late reply cannot mislead it.
Means(p, v) ==
  \/ cmd.name \in {"provision", "repair"} /\ v = "declared"
  \/ cmd.name = "params" /\ p = target.p /\ v = target.v

WroteInv == \A r \in Among(reqs) \cup {ask} : r.kind = "write" => Means(r.of, r.val)

\* A reply that says a parameter holds what is wanted is true now, however old.
Right(r) ==
  /\ cmd.name \in {"provision", "repair"} => \A p \in r.held : ram[p] = "declared"
  /\ cmd.name = "params" /\ target \in Targets /\ r.kind = "read" /\ r.of = PairOf(target.p)
       /\ (target.p \in r.held <=> target.v = "declared") => ram[target.p] = target.v

RepliesRight == \A r \in Among(replies) \cup {answer} : Right(r)

\* What Wanted says, one command at a time.
AsAsked ==
  /\ cmd.name = "provision" => \A p \in Params : ram[p] = "declared"
  /\ cmd.name = "repair" => ram[Period] = "declared"
  /\ cmd.name = "params" => ram[target.p] = target.v

DoneSoFar ==
  /\ pc \in {"look", "survey"} /\ cmd.name = "provision" =>
       \A p \in Params \ (todo \cup drift) : ram[p] = "declared"
  /\ pc = "types"  => \A p \in Params \ drift : ram[p] = "declared"
  /\ pc \in {"rest", "write", "back"} /\ cmd.name = "provision" =>
       \A p \in Params \ (todo \cup skipped) : ram[p] = "declared"
  /\ pc \in {"confirm", "burn"} \/ (pc = "done" /\ exit = "ok") => AsAsked

TruthInv == TypeInv /\ WroteInv /\ (~cycled => RepliesRight /\ DoneSoFar)

\* A command under way has no exit code.
ExitInv == exit # "none" => pc = "done"

-----------------------------------------------------------------------------
(* Sequences as the sets of what is in them.                               *)

LEMMA AmongAppend ==
  ASSUME NEW S, NEW s \in Seq(S), NEW x \in S
  PROVE  Append(s, x) \in Seq(S) /\ Among(Append(s, x)) = Among(s) \cup {x}
<1>1. /\ Append(s, x) \in Seq(S) /\ Len(Append(s, x)) = Len(s) + 1
      /\ \A i \in 1..Len(s) : Append(s, x)[i] = s[i]
      /\ Append(s, x)[Len(s) + 1] = x
  BY AppendProperties
<1>2. Len(s) \in Nat
  BY LenProperties
<1>3. 1..(Len(s) + 1) = 1..Len(s) \cup {Len(s) + 1}
  BY <1>2
<1> QED BY <1>1, <1>3 DEF Among

LEMMA AmongTail ==
  ASSUME NEW S, NEW s \in Seq(S), s # <<>>
  PROVE  /\ Head(s) \in S /\ Head(s) \in Among(s)
         /\ Tail(s) \in Seq(S) /\ Among(Tail(s)) \subseteq Among(s)
<1>1. /\ Head(s) \in S /\ Head(s) = s[1]
      /\ Tail(s) \in Seq(S) /\ Len(Tail(s)) = Len(s) - 1
      /\ \A i \in 1..Len(Tail(s)) : Tail(s)[i] = s[i + 1]
  BY HeadTailProperties
<1>2. Len(s) \in Nat /\ Len(s) # 0
  BY LenProperties, EmptySeq
<1>3. 1 \in 1..Len(s) /\ \A i \in 1..(Len(s) - 1) : i + 1 \in 1..Len(s)
  BY <1>2
<1> QED BY <1>1, <1>3 DEF Among

LEMMA AmongSubSeq ==
  ASSUME NEW S, NEW s \in Seq(S), NEW n \in 0..Len(s)
  PROVE  /\ SubSeq(s, n + 1, Len(s)) \in Seq(S)
         /\ Among(SubSeq(s, n + 1, Len(s))) \subseteq Among(s)
<1>1. Len(s) \in Nat /\ \A i \in 1..Len(s) : s[i] \in S
  BY LenProperties, ElementOfSeq
<1>2. \A i \in (n + 1)..Len(s) : s[i] \in S
  BY <1>1
<1> DEFINE t == SubSeq(s, n + 1, Len(s))
<1>3. /\ t \in Seq(S)
      /\ Len(t) = IF n + 1 <= Len(s) THEN Len(s) - (n + 1) + 1 ELSE 0
      /\ \A i \in 1..(Len(s) - (n + 1) + 1) : t[i] = s[(n + 1) + i - 1]
  BY <1>1, <1>2, SubSeqProperties
<1>4. \A i \in 1..Len(t) : (n + 1) + i - 1 \in 1..Len(s) /\ t[i] = s[(n + 1) + i - 1]
  BY <1>1, <1>3
<1> QED BY <1>3, <1>4 DEF Among

\* min(todo)
LEMMA LeastIn ==
  ASSUME NEW S \in SUBSET Nat, S # {}
  PROVE  Least(S) \in S
<1>1. \E p \in S : \A q \in S : ~ (q < p)
  <2>1. PICK p \in S : \A q \in S : ~ (<<q, p>> \in OpToRel(<, Nat))
    BY NatLessThanWellFounded, WFMin
  <2>2. \A q \in S : <<q, p>> \in OpToRel(<, Nat) <=> q < p
    BY DEF OpToRel
  <2> QED BY <2>1, <2>2
<1>2. \A p, q \in S : ~ (q < p) => p <= q
  OBVIOUS
<1>3. \E p \in S : \A q \in S : p <= q
  BY <1>1, <1>2
<1> QED BY <1>3 DEF Least

-----------------------------------------------------------------------------
(* What the steps of the link do.                                          *)

Sent == Requests \ {NoAsk}

LEMMA FrameFacts ==
  /\ \A r \in Requests :
       /\ r.kind \in {"nothing", "burn", "read", "types", "write"}
       /\ r.kind = "write" => r.of \in Params /\ r.val \in Values
       /\ r.kind \in {"read", "types"} => r.of \in Nat /\ r.val = "-" /\ r.held = {}
       /\ r.kind = "nothing" => r = NoAsk
       /\ r = Frame(r.kind, r.of, r.val)
  /\ \A r \in Replies :
       /\ r.kind \in {"read", "types", "write", "burn"}
       /\ r.held \subseteq Params
       /\ r.kind # "read" => r.held = {}
  /\ Burn \in Sent
  /\ \A p \in Params : ReadOf(p) \in Sent /\ TypesOf(BlockOf(p)) \in Sent
  /\ \A p \in Params, v \in Values : WriteOf(p, v) \in Sent
<1> USE ParamsAssumption
<1>1. \A p \in Params : PairOf(p) \in Nat /\ BlockOf(p) \in Nat
  BY DEF PairOf, BlockOf
<1>2. \A r \in Requests :
       /\ r.kind \in {"nothing", "burn", "read", "types", "write"}
       /\ r.kind = "write" => r.of \in Params /\ r.val \in Values
       /\ r.kind \in {"read", "types"} => r.of \in Nat /\ r.val = "-" /\ r.held = {}
       /\ r.kind = "nothing" => r = NoAsk
       /\ r = Frame(r.kind, r.of, r.val)
  BY <1>1 DEF Requests, NoAsk, Burn, ReadOf, TypesOf, WriteOf, Frame
<1>3. \A r \in Replies :
       /\ r.kind \in {"read", "types", "write", "burn"}
       /\ r.held \subseteq Params
       /\ r.kind # "read" => r.held = {}
  BY DEF Replies
<1>4. /\ Burn \in Sent
      /\ \A p \in Params : ReadOf(p) \in Sent /\ TypesOf(BlockOf(p)) \in Sent
      /\ \A p \in Params, v \in Values : WriteOf(p, v) \in Sent
  <2>1. /\ Burn \in Requests
        /\ \A p \in Params : ReadOf(p) \in Requests /\ TypesOf(BlockOf(p)) \in Requests
        /\ \A p \in Params, v \in Values : WriteOf(p, v) \in Requests
    <3>1. Burn \in Requests
      BY DEF Requests
    <3>2. \A p \in Params : ReadOf(p) \in Requests /\ TypesOf(BlockOf(p)) \in Requests
      BY DEF Requests
    <3>3. \A p \in Params, v \in Values : WriteOf(p, v) \in Requests
      BY DEF Requests
    <3> QED BY <3>1, <3>2, <3>3
  <2>2. /\ Burn # NoAsk
        /\ \A p : ReadOf(p) # NoAsk
        /\ \A b : TypesOf(b) # NoAsk
        /\ \A p, v : WriteOf(p, v) # NoAsk
    BY DEF NoAsk, Burn, ReadOf, TypesOf, WriteOf, Frame
  <2> QED BY <2>1, <2>2, Zenon DEF Sent
<1> QED BY <1>2, <1>3, <1>4

\* What the replies of a step say is true once it is taken.
Fresh(r) == r.held = IF r.kind = "read" THEN {p \in Pair(r.of) : ram'[p] = "declared"} ELSE {}

NewReplies == \A r \in Among(replies') \ Among(replies) : Fresh(r)

LEMMA SendMoves ==
  ASSUME LinkTypeOK, NEW request \in Sent, Send(request)
  PROVE  /\ LinkTypeOK' /\ UNCHANGED <<device, floor>>
         /\ Among(reqs') \subseteq Among(reqs) \cup {request}
         /\ Among(replies') \subseteq Among(replies)
         /\ answer = NoAnswer /\ answer' = NoAnswer /\ ask' = request
<1>1. reqs' \in Seq(Sent) /\ Among(reqs') = Among(reqs) \cup {request}
  BY AmongAppend DEF LinkTypeOK, Sent, Send
<1>2. replies' \in Seq(Replies) /\ Among(replies') \subseteq Among(replies)
  <2>1. PICK n \in 0..Len(replies) : replies' = SubSeq(replies, n + 1, Len(replies))
    BY DEF Send, Drained
  <2> QED BY <2>1, AmongSubSeq DEF LinkTypeOK
<1>3. left' \in Nat
  BY AttemptsAssumption DEF Send, Attempts
<1> QED BY <1>1, <1>2, <1>3 DEF LinkTypeOK, Send, Idle, device, Sent

LEMMA AdminMoves ==
  ASSUME LinkTypeOK, Admin
  PROVE  /\ LinkTypeOK' /\ UNCHANGED device
         /\ Among(reqs') \subseteq Among(reqs) \cup {ask}
         /\ Among(replies') \subseteq Among(replies)
         /\ \/ UNCHANGED <<ask, answer>>
            \/ /\ ask.kind # "nothing" /\ ask' = NoAsk
               /\ \/ answer' = Silence
                  \/ answer' \in Among(replies) /\ answer' \in Replies /\ Answers(answer', ask)
<1>1. CASE SendAgain
  <2>1. ask \in Sent
    BY <1>1 DEF SendAgain, LinkTypeOK, Sent, NoAsk, Frame
  <2>2. reqs' \in Seq(Sent) /\ Among(reqs') = Among(reqs) \cup {ask}
    BY <1>1, <2>1, AmongAppend DEF LinkTypeOK, Sent, SendAgain
  <2>3. replies' \in Seq(Replies) /\ Among(replies') \subseteq Among(replies)
    <3>1. PICK n \in 0..Len(replies) : replies' = SubSeq(replies, n + 1, Len(replies))
      BY <1>1 DEF SendAgain, Drained
    <3> QED BY <3>1, AmongSubSeq DEF LinkTypeOK
  <2>4. left' \in Nat
    BY <1>1 DEF SendAgain, LinkTypeOK
  <2> QED BY <1>1, <2>2, <2>3, <2>4 DEF LinkTypeOK, SendAgain, device, Sent
<1>2. CASE NeverAnswered
  <2>1. NoAsk \in Requests
    BY DEF Requests
  <2> QED BY <1>2, <2>1 DEF LinkTypeOK, NeverAnswered, device
<1>3. CASE Receive
  <2>1. NoAsk \in Requests
    BY DEF Requests
  <2>2. /\ Head(replies) \in Replies /\ Head(replies) \in Among(replies)
        /\ replies' \in Seq(Replies) /\ Among(replies') \subseteq Among(replies)
    BY <1>3, AmongTail DEF Receive, LinkTypeOK
  <2>3. Stamp(Head(replies)) \subseteq Params
    BY DEF Stamp, LinkTypeOK
  <2>4. CASE Answers(Head(replies), ask)
    BY <1>3, <2>1, <2>2, <2>3, <2>4 DEF LinkTypeOK, Receive, device
  <2>5. CASE ~Answers(Head(replies), ask)
    BY <1>3, <2>2, <2>5 DEF LinkTypeOK, Receive, device
  <2> QED BY <2>4, <2>5
<1> QED BY <1>1, <1>2, <1>3 DEF Admin

\* What a handler appends to the replies.
LEMMA Answered ==
  ASSUME LinkTypeOK, NEW r \in Replies, replies' = Append(replies, r), Fresh(r)
  PROVE  replies' \in Seq(Replies) /\ NewReplies
<1>1. replies' \in Seq(Replies) /\ Among(replies') = Among(replies) \cup {r}
  BY AmongAppend DEF LinkTypeOK
<1>2. \A x \in Among(replies') \ Among(replies) : x = r
  BY <1>1
<1> QED BY <1>1, <1>2 DEF NewReplies

LEMMA Requested ==
  ASSUME LinkTypeOK, NEW kind, TakeRequest(kind)
  PROVE  /\ Head(reqs) \in Sent /\ Head(reqs) \in Among(reqs) /\ Head(reqs).kind = kind
         /\ reqs' \in Seq(Sent) /\ Among(reqs') \subseteq Among(reqs)
<1> QED BY AmongTail DEF LinkTypeOK, TakeRequest, Sent

\* A handler takes one request, answers it with the truth about RAM, and only a
\* write changes RAM.
StoredOne == \E r \in Among(reqs) : r.kind = "write" /\ ram' = [ram EXCEPT ![r.of] = r.val]

LEMMA ControllerMoves ==
  ASSUME LinkTypeOK, Controller
  PROVE  /\ LinkTypeOK' /\ UNCHANGED <<ask, answer>>
         /\ ram' = ram \/ StoredOne
         /\ Among(reqs') \subseteq Among(reqs)
         /\ NewReplies
<1> DEFINE req == Head(reqs)
<1>1. CASE HandleRead
  <2>1. TakeRequest("read") /\ UNCHANGED <<device, session>>
    BY <1>1 DEF HandleRead
  <2>2. req \in Sent /\ req.kind = "read" /\ reqs' \in Seq(Sent) /\ Among(reqs') \subseteq Among(reqs)
    BY <2>1, Requested
  <2> DEFINE r == [req EXCEPT !.held = {p \in Pair(req.of) : ram[p] = "declared"}]
  <2>3. req = Frame("read", req.of, "-") /\ req.of \in Nat
    BY <2>2, FrameFacts DEF Sent
  <2>4. r = [kind |-> "read", of |-> req.of, val |-> "-",
             held |-> {p \in Pair(req.of) : ram[p] = "declared"}]
    BY <2>3 DEF Frame
  <2>5. r \in Replies
    BY <2>3, <2>4 DEF Replies, Pair
  <2>6. Fresh(r)
    BY <2>1, <2>4 DEF Fresh, device
  <2>7. replies' \in Seq(Replies) /\ NewReplies
    <3>1. replies' = Append(replies, r)
      BY <1>1 DEF HandleRead
    <3> HIDE DEF r
    <3> QED BY <3>1, <2>5, <2>6, Answered
  <2> QED BY <2>1, <2>2, <2>7 DEF LinkTypeOK, device, session, Sent
<1>2. CASE HandleTypes
  <2>1. TakeRequest("types") /\ UNCHANGED <<device, session>>
    BY <1>2 DEF HandleTypes
  <2>2. req \in Sent /\ req.kind = "types" /\ reqs' \in Seq(Sent) /\ Among(reqs') \subseteq Among(reqs)
    BY <2>1, Requested
  <2> DEFINE r == Frame("types", req.of, "-")
  <2>3. r \in Replies /\ Fresh(r)
    BY <2>2, FrameFacts DEF Sent, Replies, Frame, Fresh
  <2>4. replies' = Append(replies, r)
    BY <1>2 DEF HandleTypes, Reply
  <2>5. replies' \in Seq(Replies) /\ NewReplies
    <3> HIDE DEF r
    <3> QED BY <2>3, <2>4, Answered
  <2> QED BY <2>1, <2>2, <2>5 DEF LinkTypeOK, device, session, Sent
<1>3. CASE HandleWrite
  <2>1. TakeRequest("write") /\ UNCHANGED <<flash, latched, ask, left, answer>>
    BY <1>3 DEF HandleWrite
  <2>2. /\ req \in Sent /\ req \in Among(reqs) /\ req.kind = "write"
        /\ reqs' \in Seq(Sent) /\ Among(reqs') \subseteq Among(reqs)
    BY <2>1, Requested
  <2>3. req.of \in Params /\ req.val \in Values
    BY <2>2, FrameFacts DEF Sent
  <2>4. /\ ram' = [ram EXCEPT ![req.of] = req.val]
        /\ young' = [young EXCEPT ![req.of] = ram[req.of]]
        /\ floor' = floor \ {req.of}
    BY <1>3 DEF HandleWrite
  <2>5. PICK echo \in Values : replies' = Append(replies, Frame("write", req.of, echo))
    BY <1>3 DEF HandleWrite, Reply
  <2>6. Frame("write", req.of, echo) \in Replies /\ Fresh(Frame("write", req.of, echo))
    BY <2>3 DEF Replies, Frame, Fresh
  <2>7. replies' \in Seq(Replies) /\ NewReplies
    BY <2>5, <2>6, Answered
  <2>8. /\ ram' \in [Params -> Values] /\ young' \in [Params -> Values \cup {Settled}]
        /\ floor' \subseteq Params
    BY <2>3, <2>4 DEF LinkTypeOK
  <2>9. StoredOne
    BY <2>2, <2>4 DEF StoredOne
  <2> QED BY <2>1, <2>2, <2>7, <2>8, <2>9 DEF LinkTypeOK, Sent
<1>4. CASE HandleWriteInVain
  <2>1. TakeRequest("write") /\ UNCHANGED <<device, session>>
    BY <1>4 DEF HandleWriteInVain
  <2>2. req \in Sent /\ req.kind = "write" /\ reqs' \in Seq(Sent) /\ Among(reqs') \subseteq Among(reqs)
    BY <2>1, Requested
  <2>3. PICK echo \in Values \cup {"refused"} : replies' = Append(replies, Frame("write", req.of, echo))
    BY <1>4 DEF HandleWriteInVain, Reply
  <2>4. Frame("write", req.of, echo) \in Replies /\ Fresh(Frame("write", req.of, echo))
    BY <2>2, FrameFacts DEF Sent, Replies, Frame, Fresh
  <2>5. replies' \in Seq(Replies) /\ NewReplies
    BY <2>3, <2>4, Answered
  <2> QED BY <2>1, <2>2, <2>5 DEF LinkTypeOK, device, session, Sent
<1>5. CASE HandleBurn \/ HandleBurnFails
  <2>1. /\ TakeRequest("burn") /\ UNCHANGED <<ram, young, latched, session>>
        /\ flash' \in [Params -> Values]
    <3>1. Image \in [Params -> Values]
      BY DEF Image, LinkTypeOK
    <3> QED BY <1>5, <3>1 DEF HandleBurn, HandleBurnFails, LinkTypeOK
  <2>2. reqs' \in Seq(Sent) /\ Among(reqs') \subseteq Among(reqs)
    BY <2>1, Requested
  <2>3. PICK v \in {"ok", "failed"} : replies' = Append(replies, Frame("burn", 0, v))
    BY <1>5 DEF HandleBurn, HandleBurnFails, Reply
  <2>4. Frame("burn", 0, v) \in Replies /\ Fresh(Frame("burn", 0, v))
    BY DEF Replies, Frame, Fresh
  <2>5. replies' \in Seq(Replies) /\ NewReplies
    BY <2>3, <2>4, Answered
  <2> QED BY <2>1, <2>2, <2>5 DEF LinkTypeOK, session, Sent
<1>6. CASE LoseRequest
  <2>1. reqs' \in Seq(Sent) /\ Among(reqs') \subseteq Among(reqs)
    BY <1>6, AmongTail DEF LoseRequest, LinkTypeOK, Sent
  <2> QED BY <1>6, <2>1 DEF LoseRequest, LinkTypeOK, device, session, NewReplies, Sent
<1>7. CASE LoseReply
  <2>1. replies' \in Seq(Replies) /\ Among(replies') \subseteq Among(replies)
    BY <1>7, AmongTail DEF LoseReply, LinkTypeOK
  <2> QED BY <1>7, <2>1 DEF LoseReply, LinkTypeOK, device, session, NewReplies
<1>8. CASE Latch \/ \E p \in Params : Age(p)
  <2>1. /\ UNCHANGED <<ram, flash, reqs, replies, ask, left, answer>>
        /\ young' \in [Params -> Values \cup {Settled}]
        /\ floor' \subseteq Params /\ latched' \in BOOLEAN
    BY <1>8 DEF Latch, Age, session, LinkTypeOK
  <2> QED BY <2>1 DEF LinkTypeOK, NewReplies
<1> QED BY <1>1, <1>2, <1>3, <1>4, <1>5, <1>6, <1>7, <1>8 DEF Controller, Handle

-----------------------------------------------------------------------------
(* Types.                                                                  *)

LEMMA WantsIs ==
  /\ \A l \in {"survey", "before", "back", "confirm"} : Wants[l] = "read"
  /\ Wants["types"] = "types" /\ Wants["write"] = "write" /\ Wants["burn"] = "burn"
  /\ \A l \in {"done", "look", "rest", "measure"} : Wants[l] = "nothing"
<1> QED BY DEF Wants, Points

LEMMA CommandFacts ==
  \A c \in Commands :
    /\ c.name \in {"provision", "repair", "persist", "params"}
    /\ c.name = "params" => c.persist = FALSE
<1> QED BY CommandsAssumption DEF CommandLines

LEMMA BlocksInNat == Blocks(Params) \subseteq Nat
<1> QED BY ParamsAssumption DEF Blocks, BlockOf

Quiet == ask = NoAsk /\ answer = NoAnswer

LEMMA QuietTalk == Quiet' => TalkInv' /\ ~Busy'
<1> QED BY DEF Quiet, TalkInv, Busy, NoAsk, NoAnswer, Frame

LEMMA QuietHere ==
  ASSUME TypeInv, pc \in {"done", "look", "rest", "measure"}
  PROVE  Quiet
<1>1. ask.kind = "nothing" /\ answer = NoAnswer
  BY WantsIs DEF TypeInv, TalkInv
<1>2. ask \in Requests
  BY DEF TypeInv, LinkTypeOK
<1> QED BY <1>1, <1>2, FrameFacts DEF Quiet

LEMMA TakenMoves ==
  ASSUME LinkTypeOK, ask = NoAsk, Taken
  PROVE  LinkTypeOK' /\ Quiet' /\ UNCHANGED <<device, reqs, replies>>
<1> QED BY DEF Taken, LinkTypeOK, Quiet, device

LEMMA LinkKeepsType ==
  ASSUME TypeInv, LinkTypeOK', UNCHANGED steps, cycled' \in BOOLEAN, acked' \in BOOLEAN,
         \/ UNCHANGED <<ask, answer>>
         \/ /\ ask.kind # "nothing" /\ ask' = NoAsk
            /\ \/ answer' = Silence
               \/ answer' \in Replies /\ Answers(answer', ask)
  PROVE  TypeInv'
<1> USE DEF steps
<1>1. CommandTypeOK' /\ PlaceInv'
  BY DEF TypeInv, CommandTypeOK, PlaceInv, Targets, Blocks
<1>2. CASE UNCHANGED <<ask, answer>>
  BY <1>1, <1>2 DEF TypeInv, TalkInv, TodoInv, TargetInv, Busy, Targets, Blocks
<1>3. CASE /\ ask.kind # "nothing" /\ ask' = NoAsk
           /\ \/ answer' = Silence
              \/ answer' \in Replies /\ Answers(answer', ask)
  <2>1. ask'.kind = "nothing" /\ ask.kind = Wants[pc] /\ Wants[pc] # "nothing"
    BY <1>3 DEF TypeInv, TalkInv, NoAsk, Frame
  <2>2. \/ answer'.kind = "silence"
        \/ answer'.kind = ask.kind /\ (answer'.kind = "read" => answer'.of = ask.of)
    BY <1>3 DEF Answers, Silence, Frame
  <2>3. TalkInv'
    BY <2>1, <2>2 DEF TalkInv
  <2>4. Busy
    BY <1>3 DEF Busy
  <2>5. TodoInv'
    BY <2>4 DEF TypeInv, TodoInv, Blocks
  <2>6. TargetInv'
    BY <2>1, <2>2, <2>4 DEF TypeInv, TargetInv, Targets
  <2> QED BY <1>1, <2>3, <2>5, <2>6 DEF TypeInv
<1> QED BY <1>2, <1>3

\* A command that ends, where it had nothing under way.
LEMMA FinishType ==
  ASSUME TypeInv, pc # "done", NEW code \in {"ok", "failed"}, Finish(code),
         LinkTypeOK', Quiet', UNCHANGED cycled, acked' \in BOOLEAN
  PROVE  TypeInv'
<1>1. TalkInv' /\ ~Busy'
  BY QuietTalk
<1>2. CommandTypeOK'
  BY DEF Finish, TypeInv, CommandTypeOK, Points, Targets, Blocks
<1>3. PlaceInv' /\ TodoInv'
  BY DEF Finish, PlaceInv, TodoInv
<1>4. TargetInv'
  BY DEF Finish, TypeInv, TargetInv, Targets, Quiet, NoAsk, NoAnswer, Frame
<1> QED BY <1>1, <1>2, <1>3, <1>4 DEF TypeInv

\* A command that sends a request, where it may.
LEMMA AskType ==
  ASSUME TypeInv, NEW request \in Sent, Send(request), request.kind = Wants[pc],
         Wants[pc] # "nothing",
         UNCHANGED <<cmd, pc, todo, drift, typed, skipped, exit, cycled, acked>>,
         target' \in Targets \cup {NoTarget},
         pc \in {"survey", "types"} => todo # {},
         TargetInv'
  PROVE  TypeInv'
<1>1. LinkTypeOK' /\ answer' = NoAnswer /\ ask' = request
  BY SendMoves DEF TypeInv
<1>2. TalkInv'
  BY <1>1 DEF TalkInv, NoAnswer, Frame
<1>3. CommandTypeOK'
  BY DEF TypeInv, CommandTypeOK, Targets, Blocks
<1>4. PlaceInv' /\ TodoInv'
  BY DEF TypeInv, PlaceInv, TodoInv, Blocks
<1> QED BY <1>1, <1>2, <1>3, <1>4 DEF TypeInv

-----------------------------------------------------------------------------
(* TypeInv, one lemma per step of a command.                               *)

LEMMA StartType ==
  ASSUME TypeInv, NEW c \in Commands, Start(c)
  PROVE  TypeInv'
<1>1. LinkTypeOK' /\ Quiet'
  BY DEF Start, Idle, Quiet, TypeInv, LinkTypeOK, device
<1>2. TalkInv' /\ ~Busy'
  BY <1>1, QuietTalk
<1>3. /\ cmd' = c
      /\ c.name \in {"provision", "repair"} => pc' = "look"
      /\ c.name = "persist" => pc' = "burn"
      /\ c.name = "params" => pc' = "before" /\ target' \in Targets
      /\ target' \in Targets \cup {NoTarget}
      /\ todo' \subseteq Params
      /\ exit' = "none" /\ cycled' = FALSE /\ acked' = FALSE
      /\ UNCHANGED <<drift, typed, skipped>>
  BY DEF Start, Targets
<1>4. c.name \in {"provision", "repair", "persist", "params"}
  BY CommandFacts
<1>5. CommandTypeOK'
  BY <1>3, <1>4 DEF TypeInv, CommandTypeOK, Points, Targets, Blocks
<1>6. PlaceInv' /\ TodoInv'
  BY <1>2, <1>3, <1>4 DEF PlaceInv, TodoInv
<1>7. TargetInv'
  BY <1>1, <1>2, <1>3, <1>4 DEF TargetInv, Quiet, NoAsk, NoAnswer, Frame, Targets
<1> QED BY <1>1, <1>2, <1>5, <1>6, <1>7 DEF TypeInv

LEMMA GatesType ==
  ASSUME TypeInv, Refuse \/ Proceed
  PROVE  TypeInv'
<1>1. pc \in {"look", "rest"}
  BY DEF Refuse, Proceed, At
<1>2. Quiet /\ UNCHANGED <<link, history>>
  BY <1>1, QuietHere DEF Refuse, Proceed
<1>3. LinkTypeOK' /\ Quiet' /\ UNCHANGED <<cycled, acked>>
  BY <1>2 DEF TypeInv, LinkTypeOK, Quiet, link, device, session, history
<1>4. CASE Refuse
  <2>1. Finish("failed") /\ acked' \in BOOLEAN
    BY <1>3, <1>4 DEF Refuse, TypeInv, CommandTypeOK
  <2> QED BY <1>1, <1>3, <2>1, FinishType
<1>5. CASE Proceed
  <2>1. TalkInv' /\ ~Busy'
    BY <1>3, QuietTalk
  <2>2. cmd.name \in {"provision", "repair"} /\ Period \in Params
    BY <1>1, CommandsAssumption DEF TypeInv, PlaceInv
  <2>3. /\ UNCHANGED <<cmd, todo, drift, typed, skipped, exit>>
        /\ cmd.name = "repair" => target' = [p |-> Period, v |-> "declared"]
        /\ cmd.name = "provision" => target' = target
        /\ pc' = IF pc = "look" /\ cmd.name = "provision" THEN "survey"
                 ELSE IF cmd.name = "repair" /\ pc = "look" THEN "rest" ELSE "write"
    BY <1>5, <2>2 DEF Proceed, At, Goto
  <2>4. CommandTypeOK'
    BY <1>3, <2>2, <2>3 DEF TypeInv, CommandTypeOK, Points, Targets, Blocks, Values
  <2>5. PlaceInv' /\ TodoInv'
    BY <1>1, <2>1, <2>2, <2>3 DEF TypeInv, PlaceInv, TodoInv, Blocks
  <2>6. TargetInv'
    BY <1>3, <2>1, <2>2, <2>3 DEF TargetInv, Targets, Values
  <2> QED BY <1>3, <2>1, <2>4, <2>5, <2>6 DEF TypeInv
<1> QED BY <1>4, <1>5

\* What an answer was waited for with.
LEMMA HeardMoves ==
  ASSUME TypeInv, NEW l \in {"survey", "types", "before", "write", "back", "confirm", "burn"},
         Heard(l)
  PROVE  /\ pc = l /\ Busy /\ LinkTypeOK' /\ Quiet' /\ TalkInv' /\ ~Busy'
         /\ UNCHANGED <<device, reqs, replies>>
         /\ answer.kind \in {"silence", Wants[l]}
         /\ answer.kind # "silence" => answer \in Replies
<1>1. pc = l /\ ask = NoAsk /\ answer.kind # "none" /\ Taken
  BY DEF Heard, At
<1>2. LinkTypeOK' /\ Quiet' /\ UNCHANGED <<device, reqs, replies>>
  BY <1>1, TakenMoves DEF TypeInv
<1>3. answer.kind \in {"silence", Wants[l]}
  BY <1>1 DEF TypeInv, TalkInv
<1>4. answer.kind # "silence" => answer \in Replies
  BY <1>1 DEF TypeInv, LinkTypeOK, NoAnswer, Silence, Frame
<1> QED BY <1>1, <1>2, <1>3, <1>4, QuietTalk DEF Busy

LEMMA SurveyType ==
  ASSUME TypeInv, SurveyAsk \/ SurveyRow \/ Surveyed
  PROVE  TypeInv'
<1>1. pc = "survey" /\ cmd.name = "provision" /\ todo \in SUBSET Nat /\ todo \subseteq Params
  BY ParamsAssumption DEF SurveyAsk, SurveyRow, Surveyed, Heard, At, TypeInv, PlaceInv, TodoInv
<1>2. CASE SurveyAsk
  <2>1. todo # {} /\ Least(todo) \in Params
    BY <1>1, <1>2, LeastIn DEF SurveyAsk
  <2>2. ReadOf(Least(todo)) \in Sent /\ ReadOf(Least(todo)).kind = Wants[pc] /\ Wants[pc] = "read"
    BY <1>1, <2>1, FrameFacts, WantsIs DEF ReadOf, Frame
  <2>3. Send(ReadOf(Least(todo))) /\ UNCHANGED <<steps, history>>
    BY <1>2 DEF SurveyAsk
  <2>4. TargetInv' /\ target' \in Targets \cup {NoTarget}
    BY <1>1, <2>3 DEF TypeInv, CommandTypeOK, TargetInv, steps
  <2> QED BY <2>1, <2>2, <2>3, <2>4, AskType DEF steps, history
<1>3. CASE SurveyRow
  <2>1. /\ LinkTypeOK' /\ Quiet' /\ TalkInv' /\ ~Busy' /\ Busy /\ UNCHANGED <<cycled, acked>>
        /\ acked' \in BOOLEAN
    BY <1>3, HeardMoves DEF SurveyRow, history, TypeInv, CommandTypeOK
  <2>2. CASE answer.kind = "silence"
    BY <1>1, <1>3, <2>1, <2>2, FinishType DEF SurveyRow
  <2>3. CASE answer.kind # "silence"
    <3>1. Least(todo) \in Params
      BY <1>1, <2>1, LeastIn DEF TypeInv, TodoInv
    <3>2. /\ todo' = todo \ {Least(todo)} /\ drift' \subseteq Params
          /\ UNCHANGED <<cmd, pc, typed, skipped, target, exit>>
      BY <1>3, <2>3, <3>1 DEF SurveyRow, TypeInv, CommandTypeOK
    <3>3. CommandTypeOK'
      BY <2>1, <3>2 DEF TypeInv, CommandTypeOK, Targets, Blocks
    <3>4. PlaceInv' /\ TodoInv' /\ TargetInv'
      BY <1>1, <2>1, <3>2 DEF PlaceInv, TodoInv, TargetInv
    <3> QED BY <2>1, <3>3, <3>4 DEF TypeInv
  <2> QED BY <2>2, <2>3
<1>4. CASE Surveyed
  <2>1. LinkTypeOK' /\ Quiet' /\ UNCHANGED <<cycled, acked>> /\ acked' \in BOOLEAN
    BY <1>4 DEF Surveyed, Idle, Quiet, TypeInv, CommandTypeOK, LinkTypeOK, link, device, session, history
  <2>2. TalkInv' /\ ~Busy'
    BY <2>1, QuietTalk
  <2>3. CASE drift \cap Protected # {}
    BY <1>1, <1>4, <2>1, <2>3, FinishType DEF Surveyed
  <2>4. CASE drift \cap Protected = {}
    <3>1. /\ pc' = "types" /\ todo' = Blocks(drift)
          /\ UNCHANGED <<cmd, drift, typed, skipped, target, exit>>
      BY <1>4, <2>4 DEF Surveyed, Goto
    <3>2. todo' \subseteq Blocks(Params)
      BY <3>1 DEF TypeInv, CommandTypeOK, Blocks
    <3>3. CommandTypeOK'
      BY <2>1, <3>1, <3>2 DEF TypeInv, CommandTypeOK, Targets, Blocks, Points
    <3>4. PlaceInv' /\ TodoInv' /\ TargetInv'
      BY <1>1, <2>2, <3>1, <3>2 DEF PlaceInv, TodoInv, TargetInv, Blocks
    <3> QED BY <2>1, <2>2, <3>3, <3>4 DEF TypeInv
  <2> QED BY <2>3, <2>4
<1> QED BY <1>2, <1>3, <1>4

LEMMA TypesType ==
  ASSUME TypeInv, TypesAsk \/ TypesRow \/ Plan
  PROVE  TypeInv'
<1>1. /\ pc = "types" /\ cmd.name = "provision"
      /\ todo \in SUBSET Nat /\ todo \subseteq Blocks(Params)
  BY BlocksInNat DEF TypesAsk, TypesRow, Plan, Heard, At, TypeInv, PlaceInv, TodoInv
<1>2. CASE TypesAsk
  <2>1. todo # {} /\ Least(todo) \in Blocks(Params)
    BY <1>1, <1>2, LeastIn DEF TypesAsk
  <2>2. PICK p \in Params : Least(todo) = BlockOf(p)
    BY <2>1 DEF Blocks
  <2>3. TypesOf(Least(todo)) \in Sent /\ TypesOf(Least(todo)).kind = Wants[pc] /\ Wants[pc] = "types"
    BY <1>1, <2>2, FrameFacts, WantsIs DEF TypesOf, Frame
  <2>4. Send(TypesOf(Least(todo))) /\ UNCHANGED <<steps, history>>
    BY <1>2 DEF TypesAsk
  <2>5. TargetInv' /\ target' \in Targets \cup {NoTarget}
    BY <1>1, <2>4 DEF TypeInv, CommandTypeOK, TargetInv, steps
  <2> QED BY <2>1, <2>3, <2>4, <2>5, AskType DEF steps, history
<1>3. CASE TypesRow
  <2>1. LinkTypeOK' /\ Quiet' /\ TalkInv' /\ ~Busy' /\ Busy
    BY <1>3, HeardMoves DEF TypesRow
  <2>2. Least(todo) \in Blocks(Params)
    BY <1>1, <2>1, LeastIn DEF TypeInv, TodoInv
  <2>3. /\ todo' = todo \ {Least(todo)} /\ typed' \subseteq Blocks(Params)
        /\ UNCHANGED <<cmd, pc, drift, skipped, target, exit, cycled, acked>>
    BY <1>3, <2>2 DEF TypesRow, TypeInv, CommandTypeOK, history
  <2>4. CommandTypeOK'
    BY <2>3 DEF TypeInv, CommandTypeOK, Targets, Blocks
  <2>5. PlaceInv' /\ TodoInv' /\ TargetInv'
    BY <1>1, <2>1, <2>3 DEF PlaceInv, TodoInv, TargetInv, Blocks
  <2> QED BY <2>1, <2>4, <2>5 DEF TypeInv
<1>4. CASE Plan
  <2>1. LinkTypeOK' /\ Quiet' /\ UNCHANGED <<cycled, acked>> /\ acked' \in BOOLEAN
    BY <1>4 DEF Plan, Idle, Quiet, TypeInv, CommandTypeOK, LinkTypeOK, link, device, session, history
  <2>2. TalkInv' /\ ~Busy'
    BY <2>1, QuietTalk
  <2>3. CASE Planned = {} \/ ~cmd.write
    <3>1. PICK code \in {"ok", "failed"} : Finish(code)
      BY <1>4, <2>3 DEF Plan
    <3> QED BY <1>1, <2>1, <3>1, FinishType
  <2>4. CASE ~(Planned = {} \/ ~cmd.write)
    <3>1. /\ pc' = "rest" /\ todo' = Planned /\ skipped' = drift \ Planned
          /\ drift' = {} /\ typed' = {} /\ UNCHANGED <<cmd, target, exit>>
      BY <1>4, <2>4 DEF Plan, Goto
    <3>2. Planned \subseteq Params /\ drift \subseteq Params
      BY DEF TypeInv, CommandTypeOK, Planned
    <3>3. CommandTypeOK'
      BY <2>1, <3>1, <3>2 DEF TypeInv, CommandTypeOK, Targets, Blocks, Points
    <3>4. PlaceInv' /\ TodoInv' /\ TargetInv'
      BY <1>1, <2>2, <2>4, <3>1, <3>2 DEF PlaceInv, TodoInv, TargetInv
    <3> QED BY <2>1, <2>2, <3>3, <3>4 DEF TypeInv
  <2> QED BY <2>3, <2>4
<1> QED BY <1>2, <1>3, <1>4

\* Reading the parameter itself: before a write, after it, and for confirm.
LEMMA ReadTargetType ==
  ASSUME TypeInv, BeforeAsk \/ BackAsk \/ ConfirmAsk
  PROVE  TypeInv'
<1>1. pc \in {"before", "back", "confirm"} /\ target \in Targets /\ Wants[pc] = "read"
  BY WantsIs DEF BeforeAsk, BackAsk, ConfirmAsk, At, TypeInv, TargetInv
<1>2. /\ Send(ReadOf(target.p))
      /\ UNCHANGED <<cmd, pc, todo, drift, typed, skipped, target, exit, cycled, acked>>
  BY DEF BeforeAsk, BackAsk, ConfirmAsk, steps, history
<1>3. target.p \in Params
  BY <1>1 DEF Targets
<1>4. /\ ReadOf(target.p) \in Sent /\ ReadOf(target.p).kind = "read"
      /\ ReadOf(target.p).of = PairOf(target.p)
  BY <1>3, FrameFacts DEF ReadOf, Frame
<1>5. answer' = NoAnswer /\ ask' = ReadOf(target.p)
  BY <1>2, <1>4, SendMoves DEF TypeInv
<1>6. TargetInv'
  BY <1>1, <1>2, <1>4, <1>5 DEF TypeInv, TargetInv, Targets, NoAnswer, Frame
<1> QED BY <1>1, <1>2, <1>4, <1>6, AskType

LEMMA BeforeType ==
  ASSUME TypeInv, Before
  PROVE  TypeInv'
<1>1. /\ pc = "before" /\ LinkTypeOK' /\ Quiet' /\ TalkInv' /\ ~Busy'
      /\ UNCHANGED <<cycled, acked>> /\ acked' \in BOOLEAN
  BY HeardMoves DEF Before, history, TypeInv, CommandTypeOK
<1>2. CASE answer.kind = "silence"
  BY <1>1, <1>2, FinishType DEF Before
<1>3. CASE answer.kind # "silence"
  <2>1. pc' = "write" /\ UNCHANGED <<cmd, todo, drift, typed, skipped, target, exit>>
    BY <1>3 DEF Before, Goto
  <2>2. cmd.name = "params" /\ target \in Targets
    BY <1>1 DEF TypeInv, PlaceInv, TargetInv
  <2>3. CommandTypeOK'
    BY <1>1, <2>1 DEF TypeInv, CommandTypeOK, Targets, Blocks, Points
  <2>4. PlaceInv' /\ TodoInv'
    BY <2>1, <2>2 DEF PlaceInv, TodoInv
  <2>5. TargetInv'
    BY <1>1, <2>1, <2>2 DEF TargetInv, Quiet, NoAsk, NoAnswer, Frame, Targets
  <2> QED BY <1>1, <2>3, <2>4, <2>5 DEF TypeInv
<1> QED BY <1>2, <1>3

LEMMA AimFacts ==
  ASSUME TypeInv, pc = "write"
  PROVE  /\ cmd.name \in {"provision", "repair", "params"} /\ Aim \in Targets
         /\ cmd.name = "provision" => Aim.p \in todo /\ Aim.v = "declared"
         /\ cmd.name # "provision" => Aim = target
<1>1. cmd.name \in {"provision", "repair", "params"}
  BY CommandFacts DEF TypeInv, CommandTypeOK, PlaceInv
<1>2. CASE cmd.name = "provision"
  <2>1. todo \in SUBSET Nat /\ todo # {} /\ todo \subseteq Params
    BY <1>2, ParamsAssumption DEF TypeInv, TodoInv
  <2>2. Least(todo) \in todo
    BY <2>1, LeastIn
  <2> QED BY <1>2, <2>1, <2>2 DEF Aim, Targets, Values
<1>3. CASE cmd.name # "provision"
  BY <1>1, <1>3 DEF Aim, TypeInv, TargetInv
<1> QED BY <1>1, <1>2, <1>3

LEMMA WriteType ==
  ASSUME TypeInv, WriteAsk \/ Wrote
  PROVE  TypeInv'
<1>1. CASE WriteAsk
  <2>1. /\ pc = "write" /\ Send(WriteOf(Aim.p, Aim.v)) /\ target' = Aim
        /\ UNCHANGED <<cmd, pc, todo, drift, typed, skipped, exit, cycled, acked>>
    BY <1>1 DEF WriteAsk, At, history
  <2>2. Aim.p \in Params /\ Aim.v \in Values
    BY <2>1, AimFacts DEF Targets
  <2>3. /\ WriteOf(Aim.p, Aim.v) \in Sent /\ WriteOf(Aim.p, Aim.v).kind = "write"
        /\ Wants[pc] = "write"
    BY <2>1, <2>2, FrameFacts, WantsIs DEF WriteOf, Frame
  <2>4. answer' = NoAnswer /\ ask' = WriteOf(Aim.p, Aim.v)
    BY <2>1, <2>3, SendMoves DEF TypeInv
  <2>5. TargetInv'
    BY <2>1, <2>3, <2>4, AimFacts DEF TypeInv, TargetInv, Targets, NoAnswer, Frame
  <2>6. target' \in Targets \cup {NoTarget}
    BY <2>1, AimFacts
  <2> QED BY <2>1, <2>3, <2>5, <2>6, AskType
<1>2. CASE Wrote
  <2>1. /\ pc = "write" /\ Busy /\ LinkTypeOK' /\ Quiet' /\ TalkInv' /\ ~Busy'
        /\ UNCHANGED <<cycled, acked>> /\ acked' \in BOOLEAN
    BY <1>2, HeardMoves DEF Wrote, history, TypeInv, CommandTypeOK
  <2>2. CASE Finish("failed")
    BY <2>1, <2>2, FinishType
  <2>3. CASE ~Finish("failed")
    <3>1. /\ pc' = IF cmd.name = "repair" THEN "measure" ELSE "back"
          /\ UNCHANGED <<cmd, todo, drift, typed, skipped, target, exit>>
      BY <1>2, <2>3 DEF Wrote, Goto
    <3>2. /\ cmd.name \in {"provision", "repair", "params"} /\ target \in Targets
          /\ cmd.name = "provision" => target.p \in todo /\ target.v = "declared"
      BY <2>1, AimFacts DEF TypeInv, TargetInv
    <3>3. CommandTypeOK'
      BY <2>1, <3>1 DEF TypeInv, CommandTypeOK, Targets, Blocks, Points
    <3>4. PlaceInv' /\ TodoInv'
      BY <2>1, <3>1, <3>2 DEF TypeInv, PlaceInv, TodoInv
    <3>5. TargetInv'
      BY <2>1, <3>1, <3>2 DEF TargetInv, Quiet, NoAsk, NoAnswer, Frame, Targets
    <3> QED BY <2>1, <3>3, <3>4, <3>5 DEF TypeInv
  <2> QED BY <2>2, <2>3
<1> QED BY <1>1, <1>2

LEMMA JudgeType ==
  ASSUME TypeInv, Judge
  PROVE  TypeInv'
<1>1. /\ pc = "back" /\ LinkTypeOK' /\ Quiet' /\ TalkInv' /\ ~Busy'
      /\ UNCHANGED <<cycled, acked>> /\ acked' \in BOOLEAN
  BY HeardMoves DEF Judge, history, TypeInv, CommandTypeOK
<1>2. /\ cmd.name \in {"provision", "params"} /\ target \in Targets
      /\ cmd.name = "params" => cmd.persist = FALSE
      /\ cmd.name = "provision" => todo \subseteq Params
  BY <1>1, CommandFacts DEF TypeInv, CommandTypeOK, PlaceInv, TodoInv, TargetInv
<1> DEFINE rest == todo \ {target.p}
<1>3. CASE \E code \in {"ok", "failed"} : Finish(code)
  <2>1. PICK code \in {"ok", "failed"} : Finish(code)
    BY <1>3
  <2> QED BY <1>1, <2>1, FinishType
<1>4. CASE ~\E code \in {"ok", "failed"} : Finish(code)
  <2>1. /\ UNCHANGED <<cmd, drift, typed, skipped, target, exit>>
        /\ \/ pc' = "write" /\ todo' = rest /\ rest # {}
           \/ pc' = "confirm" /\ todo' = {} /\ cmd.persist
    BY <1>4 DEF Judge, Goto
  <2>2. CommandTypeOK'
    BY <1>1, <2>1 DEF TypeInv, CommandTypeOK, Targets, Blocks, Points
  <2>3. PlaceInv' /\ TodoInv'
    BY <1>2, <2>1 DEF PlaceInv, TodoInv
  <2>4. TargetInv'
    BY <1>1, <1>2, <2>1 DEF TargetInv, Quiet, NoAsk, NoAnswer, Frame, Targets
  <2> QED BY <1>1, <2>2, <2>3, <2>4 DEF TypeInv
<1> QED BY <1>3, <1>4

LEMMA MeasureType ==
  ASSUME TypeInv, Measure
  PROVE  TypeInv'
<1>1. pc = "measure" /\ Quiet /\ UNCHANGED <<link, history>>
  BY QuietHere DEF Measure, At
<1>2. /\ LinkTypeOK' /\ Quiet' /\ UNCHANGED <<cycled, acked>> /\ acked' \in BOOLEAN
  BY <1>1 DEF TypeInv, CommandTypeOK, LinkTypeOK, Quiet, link, device, session, history
<1>3. TalkInv' /\ ~Busy'
  BY <1>2, QuietTalk
<1>4. cmd.name = "repair" /\ target \in Targets
  BY <1>1 DEF TypeInv, PlaceInv, TargetInv
<1>5. CASE \E code \in {"ok", "failed"} : Finish(code)
  <2>1. PICK code \in {"ok", "failed"} : Finish(code)
    BY <1>5
  <2> QED BY <1>1, <1>2, <2>1, FinishType
<1>6. CASE ~\E code \in {"ok", "failed"} : Finish(code)
  <2>1. pc' = "confirm" /\ UNCHANGED <<cmd, todo, drift, typed, skipped, target, exit>>
    BY <1>6 DEF Measure, Goto
  <2>2. CommandTypeOK'
    BY <1>2, <2>1 DEF TypeInv, CommandTypeOK, Targets, Blocks, Points
  <2>3. PlaceInv' /\ TodoInv' /\ TargetInv'
    BY <1>3, <1>4, <2>1 DEF PlaceInv, TodoInv, TargetInv, Targets
  <2> QED BY <1>2, <1>3, <2>2, <2>3 DEF TypeInv
<1> QED BY <1>5, <1>6

LEMMA ConfirmType ==
  ASSUME TypeInv, Confirm \/ ConfirmByCadence \/ ConfirmGivesUp
  PROVE  TypeInv'
<1>1. /\ pc = "confirm" /\ pc' \in {"confirm", "burn"}
      /\ UNCHANGED <<cmd, todo, drift, typed, skipped, target, exit, cycled, acked>>
  BY DEF Confirm, ConfirmByCadence, ConfirmGivesUp, Heard, At, Goto, history
<1>2. LinkTypeOK' /\ Quiet'
  <2>1. CASE Confirm
    BY <2>1, HeardMoves DEF Confirm
  <2>2. CASE ConfirmByCadence \/ ConfirmGivesUp
    BY <2>2 DEF ConfirmByCadence, ConfirmGivesUp, Idle, Quiet, TypeInv, LinkTypeOK, link, device, session
  <2> QED BY <2>1, <2>2
<1>3. TalkInv' /\ ~Busy'
  BY <1>2, QuietTalk
<1>4. cmd.name \in {"provision", "repair"} /\ target \in Targets
  BY <1>1 DEF TypeInv, PlaceInv, TargetInv
<1>5. CommandTypeOK'
  BY <1>1 DEF TypeInv, CommandTypeOK, Targets, Blocks, Points
<1>6. PlaceInv' /\ TodoInv' /\ TargetInv'
  BY <1>1, <1>3, <1>4 DEF PlaceInv, TodoInv, TargetInv, Targets
<1> QED BY <1>2, <1>3, <1>5, <1>6 DEF TypeInv

LEMMA BurnType ==
  ASSUME TypeInv, BurnAsk \/ Burned
  PROVE  TypeInv'
<1>1. CASE BurnAsk
  <2>1. pc = "burn" /\ Send(Burn) /\ UNCHANGED <<steps, history>>
    BY <1>1 DEF BurnAsk, At
  <2>2. Burn \in Sent /\ Burn.kind = "burn" /\ Wants[pc] = "burn"
    BY <2>1, FrameFacts, WantsIs DEF Burn, Frame
  <2>3. ask' = Burn /\ answer' = NoAnswer
    BY <2>1, <2>2, SendMoves DEF TypeInv
  <2>4. TargetInv' /\ target' \in Targets \cup {NoTarget}
    BY <2>1, <2>2, <2>3 DEF TypeInv, CommandTypeOK, PlaceInv, TargetInv, steps, NoAnswer, Frame
  <2> QED BY <2>1, <2>2, <2>4, AskType DEF steps, history
<1>2. CASE Burned
  <2>1. pc = "burn" /\ LinkTypeOK' /\ Quiet'
    BY <1>2, HeardMoves DEF Burned
  <2>2. UNCHANGED cycled /\ acked' \in BOOLEAN
    BY <1>2 DEF Burned
  <2>3. PICK code \in {"ok", "failed"} : Finish(code)
    BY <1>2 DEF Burned
  <2> QED BY <2>1, <2>2, <2>3, FinishType
<1> QED BY <1>1, <1>2

\* The steps that are not a command's: the link, the controller, the supply.
LEMMA LinkStepType ==
  ASSUME TypeInv,
         \/ (Admin \/ Controller \/ Release) /\ UNCHANGED <<steps, history>>
         \/ Reboot /\ cycled' = TRUE /\ UNCHANGED <<steps, acked>>
  PROVE  TypeInv'
<1>1. UNCHANGED steps /\ cycled' \in BOOLEAN /\ acked' \in BOOLEAN
  BY DEF history, TypeInv, CommandTypeOK
<1>2. CASE Admin
  <2>1. /\ LinkTypeOK'
        /\ \/ UNCHANGED <<ask, answer>>
           \/ /\ ask.kind # "nothing" /\ ask' = NoAsk
              /\ answer' = Silence \/ (answer' \in Replies /\ Answers(answer', ask))
    BY <1>2, AdminMoves DEF TypeInv
  <2> QED BY <1>1, <2>1, LinkKeepsType
<1>3. CASE Controller
  BY <1>1, <1>3, ControllerMoves, LinkKeepsType DEF TypeInv
<1>4. CASE Release \/ Reboot
  <2>1. reqs' \in Seq(Sent) /\ UNCHANGED <<flash, replies, ask, left, answer>>
    BY <1>4, EmptySeq DEF Release, Reboot, TypeInv, LinkTypeOK, session, Sent
  <2>2. /\ ram' \in [Params -> Values] /\ young' \in [Params -> Values \cup {Settled}]
        /\ floor' \subseteq Params /\ latched' \in BOOLEAN
    BY <1>4 DEF Release, Reboot, TypeInv, LinkTypeOK, session
  <2>3. LinkTypeOK'
    BY <2>1, <2>2 DEF TypeInv, LinkTypeOK, Sent
  <2> QED BY <1>1, <2>1, <2>3, LinkKeepsType
<1> QED BY <1>2, <1>3, <1>4

LEMMA InitType == Init => TypeInv
<1> SUFFICES ASSUME Init PROVE TypeInv
  OBVIOUS
<1>1. ask = NoAsk /\ answer = NoAnswer /\ ~Busy
  BY DEF Init, LinkInit, Busy, NoAsk, NoAnswer, Frame
<1>2. CommandTypeOK
  BY DEF Init, CommandTypeOK, Points, Blocks
<1>3. TalkInv
  BY <1>1 DEF TalkInv, NoAsk, NoAnswer, Frame
<1>4. PlaceInv /\ TodoInv /\ TargetInv
  BY <1>1 DEF Init, PlaceInv, TodoInv, TargetInv
<1>5. LinkTypeOK
  <2>1. NoAsk \in Requests
    BY DEF Requests
  <2>2. reqs \in Seq(Requests \ {NoAsk}) /\ replies \in Seq(Replies)
    BY EmptySeq DEF Init, LinkInit
  <2>3. /\ ram \in [Params -> Values] /\ flash \in [Params -> Values]
        /\ young \in [Params -> Values \cup {Settled}] /\ latched \in BOOLEAN
        /\ left \in Nat /\ floor \subseteq Params
    BY DEF Init, LinkInit
  <2> QED BY <1>1, <2>1, <2>2, <2>3 DEF LinkTypeOK
<1> QED BY <1>2, <1>3, <1>4, <1>5 DEF TypeInv

LEMMA NextType ==
  ASSUME TypeInv, [Next]_vars
  PROVE  TypeInv'
<1>1. CASE \E c \in Commands : Start(c)
  BY <1>1, StartType
<1>2. CASE Host
  BY <1>2, GatesType, SurveyType, TypesType, ReadTargetType, BeforeType, WriteType,
     JudgeType, MeasureType, ConfirmType, BurnType, LinkStepType DEF Host
<1>3. CASE At("done") /\ Release /\ UNCHANGED <<steps, history>>
  BY <1>3, LinkStepType
<1>4. CASE Controller /\ UNCHANGED <<steps, history>>
  BY <1>4, LinkStepType
<1>5. CASE Reboot /\ cycled' = TRUE /\ UNCHANGED <<steps, acked>>
  BY <1>5, LinkStepType
<1>6. CASE UNCHANGED vars
  <2>1. LinkTypeOK' /\ UNCHANGED <<ask, answer, steps, cycled, acked>>
    BY <1>6 DEF vars, link, device, session, history, TypeInv, LinkTypeOK
  <2> QED BY <2>1, LinkKeepsType DEF TypeInv, CommandTypeOK
<1> QED BY <1>1, <1>2, <1>3, <1>4, <1>5, <1>6 DEF Next

\* Every variable of Provision keeps its type, and what a command waits for is
\* what the place it is at asks for.
THEOREM TypesOK == Spec => []TypeOK
<1>1. Init => TypeInv
  BY InitType
<1>2. TypeInv /\ [Next]_vars => TypeInv'
  BY NextType
<1>3. TypeInv => TypeOK
  BY DEF TypeInv, CommandTypeOK, TypeOK, Targets
<1> QED BY <1>1, <1>2, <1>3, PTL DEF Spec

-----------------------------------------------------------------------------
(* Exit 0 tells the truth.                                                 *)

\* A step after which what was as asked still is.
NoWorse ==
  /\ cmd.name \in {"provision", "repair"} =>
       \A p \in Params : ram[p] = "declared" => ram'[p] = "declared"
  /\ cmd.name = "params" => (ram[target.p] = target.v => ram'[target.p] = target.v)

LEMMA ControllerNoWorse ==
  ASSUME TypeInv, WroteInv, Controller
  PROVE  NoWorse
<1>1. ram' = ram \/ StoredOne
  BY ControllerMoves DEF TypeInv
<1>2. ASSUME StoredOne PROVE NoWorse
  <2>1. PICK r \in Among(reqs) : r.kind = "write" /\ ram' = [ram EXCEPT ![r.of] = r.val]
    BY <1>2 DEF StoredOne
  <2>2. Means(r.of, r.val)
    BY <2>1 DEF WroteInv
  <2>3. \A p \in Params : ram'[p] = IF p = r.of THEN r.val ELSE ram[p]
    BY <2>1 DEF TypeInv, LinkTypeOK
  <2>4. cmd.name = "params" => r.of = target.p /\ r.val = target.v
    BY <2>2 DEF Means
  <2>5. cmd.name \in {"provision", "repair"} => r.val = "declared"
    BY <2>2 DEF Means
  <2>6. ASSUME cmd.name = "params", ram[target.p] = target.v
        PROVE  ram'[target.p] = target.v
    BY <2>1, <2>4, <2>6 DEF TypeInv, LinkTypeOK
  <2> QED BY <2>3, <2>5, <2>6 DEF NoWorse
<1> QED BY <1>1, <1>2 DEF NoWorse

LEMMA StillRight ==
  ASSUME NoWorse, UNCHANGED <<cmd, target>>, NEW r, r.held \subseteq Params, Right(r)
  PROVE  Right(r)'
<1> QED BY DEF NoWorse, Right, Targets

LEMMA FreshRight ==
  ASSUME NEW r, Fresh(r), ram' \in [Params -> Values]
  PROVE  Right(r)'
<1>1. CASE r.kind = "read"
  <2>1. r.held = {p \in Params : PairOf(p) = r.of /\ ram'[p] = "declared"}
    BY <1>1 DEF Fresh, Pair
  <2>2. ASSUME target' \in Targets, r.of = PairOf(target'.p),
               target'.p \in r.held <=> target'.v = "declared"
        PROVE  ram'[target'.p] = target'.v
    <3>1. target'.p \in Params /\ target'.v \in Values /\ ram'[target'.p] \in Values
      BY <2>2 DEF Targets
    <3> QED BY <2>1, <2>2, <3>1 DEF Values
  <2> QED BY <2>1, <2>2 DEF Right, Targets
<1>2. CASE r.kind # "read"
  BY <1>2 DEF Fresh, Right
<1> QED BY <1>1, <1>2

LEMMA NothingRight == Right(NoAnswer)' /\ Right(Silence)'
<1> QED BY DEF Right, NoAnswer, Silence, Frame

LEMMA HeldInParams ==
  ASSUME LinkTypeOK
  PROVE  \A r \in Among(replies) \cup {answer} : r.held \subseteq Params
<1>1. \A i \in 1..Len(replies) : replies[i] \in Replies
  BY ElementOfSeq DEF LinkTypeOK
<1>2. Among(replies) \subseteq Replies
  BY <1>1 DEF Among
<1> QED BY <1>2, FrameFacts DEF LinkTypeOK, NoAnswer, Silence, Frame

LEMMA LinkKeepsTruth ==
  ASSUME TruthInv, TypeInv', NoWorse, UNCHANGED <<steps, cycled>>,
         Among(reqs') \subseteq Among(reqs) \cup {ask}, ask' \in {ask, NoAsk},
         NewReplies, answer' \in {answer, Silence} \cup Among(replies)
  PROVE  TruthInv'
<1> USE DEF steps
<1>1. WroteInv'
  <2>1. NoAsk.kind = "nothing"
    BY DEF NoAsk, Frame
  <2> QED BY <2>1 DEF TruthInv, WroteInv, Means
<1>2. ASSUME ~cycled PROVE RepliesRight'
  <2>1. \A r \in Among(replies) \cup {answer} : Right(r)'
    BY <1>2, HeldInParams, StillRight DEF TruthInv, TypeInv, RepliesRight
  <2>2. \A r \in Among(replies') \ Among(replies) : Right(r)'
    BY FreshRight DEF NewReplies, TypeInv, LinkTypeOK
  <2>3. \A r \in Among(replies') \cup {answer'} : Right(r)'
    BY <2>1, <2>2, NothingRight
  <2> QED BY <2>3 DEF RepliesRight
<1>3. ASSUME ~cycled PROVE DoneSoFar'
  <2>1. DoneSoFar /\ Period \in Params
    BY <1>3, CommandsAssumption DEF TruthInv
  <2>2. AsAsked => AsAsked'
    BY <2>1 DEF AsAsked, NoWorse
  <2>3. pc = "types" => cmd.name = "provision"
    BY DEF TruthInv, TypeInv, PlaceInv
  <2> QED BY <2>1, <2>2, <2>3 DEF DoneSoFar, NoWorse
<1> QED BY <1>1, <1>2, <1>3 DEF TruthInv

LEMMA LinkStepTruth ==
  ASSUME TruthInv, (Admin \/ Controller \/ Release) /\ UNCHANGED <<steps, history>>
  PROVE  TruthInv'
<1>1. TypeInv' /\ TypeInv /\ WroteInv /\ LinkTypeOK
  BY LinkStepType DEF TruthInv, TypeInv
<1>2. CASE Admin
  <2>1. /\ ram' = ram /\ NewReplies /\ ask' \in {ask, NoAsk}
        /\ Among(reqs') \subseteq Among(reqs) \cup {ask}
        /\ answer' \in {answer, Silence} \cup Among(replies)
    BY <1>1, <1>2, AdminMoves DEF device, NewReplies
  <2>2. NoWorse
    BY <2>1 DEF NoWorse
  <2> QED BY <1>1, <2>1, <2>2, LinkKeepsTruth DEF history
<1>3. CASE Controller
  BY <1>1, <1>3, ControllerMoves, ControllerNoWorse, LinkKeepsTruth DEF history
<1>4. CASE Release
  <2>1. UNCHANGED <<ram, reqs, replies, ask, answer>>
    BY <1>4 DEF Release, session
  <2>2. NewReplies /\ NoWorse
    BY <2>1 DEF NewReplies, NoWorse
  <2> QED BY <1>1, <2>1, <2>2, LinkKeepsTruth DEF history
<1> QED BY <1>2, <1>3, <1>4

-----------------------------------------------------------------------------
\* A step of a command: RAM stays, and no reply arrives but those under way.
CommandStep ==
  /\ UNCHANGED <<ram, cmd, cycled>> /\ (cmd.name = "params" => target' = target)
  /\ Among(replies') \subseteq Among(replies)
  /\ answer' \in {answer, NoAnswer}
  /\ \/ Among(reqs') \subseteq Among(reqs) /\ ask' = ask
     \/ /\ Among(reqs') \subseteq Among(reqs) \cup {ask'}
        /\ ask'.kind = "write" => Means(ask'.of, ask'.val)

LEMMA CommandStepTruth ==
  ASSUME TruthInv, CommandStep, TypeInv', ~cycled => DoneSoFar'
  PROVE  TruthInv'
<1>1. \A p, v : Means(p, v) => Means(p, v)'
  BY DEF CommandStep, Means
<1>2. WroteInv'
  BY <1>1 DEF TruthInv, WroteInv, CommandStep
<1>3. ASSUME ~cycled PROVE RepliesRight'
  <2>1. \A r \in Among(replies) \cup {answer} : Right(r) => Right(r)'
    BY DEF CommandStep, Right, Targets
  <2>2. \A r \in Among(replies') \cup {answer'} : Right(r)'
    BY <1>3, <2>1, NothingRight DEF CommandStep, TruthInv, RepliesRight
  <2> QED BY <2>2 DEF RepliesRight
<1> QED BY <1>2, <1>3 DEF TruthInv, CommandStep

LEMMA HeardStep ==
  ASSUME TypeInv, NEW l \in {"survey", "types", "before", "write", "back", "confirm", "burn"},
         Heard(l), UNCHANGED <<cmd, target, cycled>>
  PROVE  CommandStep
<1> QED BY HeardMoves DEF CommandStep, Heard, Taken, Quiet, device

LEMMA SentStep ==
  ASSUME TypeInv, NEW request \in Sent, Send(request), UNCHANGED <<cmd, cycled>>,
         cmd.name = "params" => target' = target,
         request.kind = "write" => Means(request.of, request.val)
  PROVE  CommandStep
<1> QED BY SendMoves DEF CommandStep, TypeInv, device

LEMMA StillStep ==
  ASSUME UNCHANGED <<link, cmd, cycled>>, cmd.name = "params" => target' = target
  PROVE  CommandStep
<1> QED BY DEF CommandStep, link, device, session

\* A command that ends: exit 0 only when all is as asked.
LEMMA FinishTruth ==
  ASSUME TruthInv, TypeInv', CommandStep, NEW code, Finish(code),
         ~cycled /\ code = "ok" => AsAsked
  PROVE  TruthInv'
<1>1. ~cycled => DoneSoFar'
  BY DEF Finish, DoneSoFar, AsAsked, CommandStep
<1> QED BY <1>1, CommandStepTruth

\* A step that leaves the place and all that DoneSoFar speaks of.
LEMMA SamePlaceTruth ==
  ASSUME TruthInv, TypeInv', CommandStep, UNCHANGED <<pc, todo, drift, skipped, exit, target>>
  PROVE  TruthInv'
<1>1. ~cycled => DoneSoFar'
  BY DEF DoneSoFar, AsAsked, CommandStep, TruthInv
<1> QED BY <1>1, CommandStepTruth

LEMMA StartTruth ==
  ASSUME TruthInv, NEW c \in Commands, Start(c)
  PROVE  TruthInv'
<1>1. TypeInv'
  BY StartType DEF TruthInv
<1>2. ask' = NoAsk /\ answer' = NoAnswer /\ reqs' = <<>> /\ replies' = <<>>
  BY DEF Start, Idle
<1>3. Among(<<>>) = {}
  BY DEF Among
<1>4. WroteInv'
  BY <1>2, <1>3 DEF WroteInv, NoAsk, Frame
<1>5. RepliesRight'
  BY <1>2, <1>3, NothingRight DEF RepliesRight
<1>6. DoneSoFar'
  <2>1. c.name \in {"provision", "repair", "persist", "params"}
    BY CommandFacts
  <2>2. /\ cmd' = c /\ exit' = "none"
        /\ c.name = "provision" => pc' = "look" /\ todo' = Params
        /\ c.name = "repair" => pc' = "look"
        /\ c.name = "persist" => pc' = "burn"
        /\ c.name = "params" => pc' = "before"
    BY DEF Start
  <2> QED BY <2>1, <2>2 DEF DoneSoFar, AsAsked
<1> QED BY <1>1, <1>4, <1>5, <1>6 DEF TruthInv

LEMMA GatesTruth ==
  ASSUME TruthInv, Refuse \/ Proceed
  PROVE  TruthInv'
<1>1. TypeInv' /\ pc \in {"look", "rest"} /\ cmd.name \in {"provision", "repair"}
  BY GatesType DEF TruthInv, TypeInv, PlaceInv, Refuse, Proceed, At
<1>2. CommandStep
  BY <1>1, StillStep DEF Refuse, Proceed, Finish, history
<1>3. CASE Refuse
  BY <1>1, <1>2, <1>3, FinishTruth DEF Refuse
<1>4. CASE Proceed
  <2>1. /\ UNCHANGED <<cmd, todo, drift, skipped, exit, ram>>
        /\ pc' = IF pc = "look" /\ cmd.name = "provision" THEN "survey"
                 ELSE IF cmd.name = "repair" /\ pc = "look" THEN "rest" ELSE "write"
    BY <1>4 DEF Proceed, At, Goto, link, device
  <2>2. ~cycled => DoneSoFar'
    BY <1>1, <2>1 DEF DoneSoFar, TruthInv
  <2> QED BY <1>1, <1>2, <2>2, CommandStepTruth
<1> QED BY <1>3, <1>4

LEMMA SurveyTruth ==
  ASSUME TruthInv, SurveyAsk \/ SurveyRow \/ Surveyed
  PROVE  TruthInv'
<1>1. TypeInv /\ TypeInv'
  BY SurveyType DEF TruthInv
<1>2. /\ pc = "survey" /\ cmd.name = "provision" /\ todo \in SUBSET Nat /\ todo \subseteq Params
  BY <1>1, ParamsAssumption
     DEF SurveyAsk, SurveyRow, Surveyed, Heard, At, TypeInv, PlaceInv, TodoInv
<1>3. CASE SurveyAsk
  <2>1. Least(todo) \in Params
    BY <1>2, <1>3, LeastIn DEF SurveyAsk
  <2>2. ReadOf(Least(todo)) \in Sent /\ ReadOf(Least(todo)).kind = "read"
    BY <2>1, FrameFacts DEF ReadOf, Frame
  <2>3. Send(ReadOf(Least(todo))) /\ UNCHANGED <<steps, history>>
    BY <1>3 DEF SurveyAsk
  <2>4. CommandStep
    BY <1>1, <2>2, <2>3, SentStep DEF steps, history
  <2> QED BY <1>1, <2>3, <2>4, SamePlaceTruth DEF steps
<1>4. CASE SurveyRow
  <2>1. Heard("survey") /\ UNCHANGED <<cmd, target, cycled>>
    BY <1>4 DEF SurveyRow, Finish, history
  <2>2. CommandStep
    BY <1>1, <2>1, HeardStep
  <2>3. CASE answer.kind = "silence"
    BY <1>1, <1>4, <2>2, <2>3, FinishTruth DEF SurveyRow
  <2>4. CASE answer.kind # "silence"
    <3>1. /\ todo' = todo \ {Least(todo)} /\ UNCHANGED <<pc, exit, skipped>>
          /\ drift' = IF Least(todo) \in answer.held THEN drift ELSE drift \cup {Least(todo)}
      BY <1>4, <2>4 DEF SurveyRow
    <3>2. ASSUME ~cycled PROVE \A p \in answer.held : ram[p] = "declared"
      BY <1>2, <3>2 DEF TruthInv, RepliesRight, Right
    <3>3. ~cycled => DoneSoFar'
      BY <1>2, <2>2, <3>1, <3>2 DEF DoneSoFar, TruthInv, CommandStep
    <3> QED BY <1>1, <2>2, <3>3, CommandStepTruth
  <2> QED BY <2>3, <2>4
<1>5. CASE Surveyed
  <2>1. CommandStep
    BY <1>5, StillStep DEF Surveyed, Finish, history
  <2>2. CASE drift \cap Protected # {}
    BY <1>1, <1>5, <2>1, <2>2, FinishTruth DEF Surveyed
  <2>3. CASE drift \cap Protected = {}
    <3>1. pc' = "types" /\ todo = {} /\ drift' = drift
      BY <1>5, <2>3 DEF Surveyed, Goto
    <3>2. ~cycled => DoneSoFar'
      BY <1>2, <2>1, <3>1 DEF DoneSoFar, TruthInv, CommandStep
    <3> QED BY <1>1, <2>1, <3>2, CommandStepTruth
  <2> QED BY <2>2, <2>3
<1> QED BY <1>3, <1>4, <1>5

LEMMA TypesTruth ==
  ASSUME TruthInv, TypesAsk \/ TypesRow \/ Plan
  PROVE  TruthInv'
<1>1. TypeInv /\ TypeInv'
  BY TypesType DEF TruthInv
<1>2. /\ pc = "types" /\ cmd.name = "provision"
      /\ todo \in SUBSET Nat /\ todo \subseteq Blocks(Params)
  BY <1>1, BlocksInNat DEF TypesAsk, TypesRow, Plan, Heard, At, TypeInv, PlaceInv, TodoInv
<1>3. CASE TypesAsk
  <2>1. Least(todo) \in Blocks(Params)
    BY <1>2, <1>3, LeastIn DEF TypesAsk
  <2>2. PICK p \in Params : Least(todo) = BlockOf(p)
    BY <2>1 DEF Blocks
  <2>3. TypesOf(Least(todo)) \in Sent /\ TypesOf(Least(todo)).kind = "types"
    BY <2>2, FrameFacts DEF TypesOf, Frame
  <2>4. Send(TypesOf(Least(todo))) /\ UNCHANGED <<steps, history>>
    BY <1>3 DEF TypesAsk
  <2>5. CommandStep
    BY <1>1, <2>3, <2>4, SentStep DEF steps, history
  <2> QED BY <1>1, <2>4, <2>5, SamePlaceTruth DEF steps
<1>4. CASE TypesRow
  <2>1. Heard("types") /\ UNCHANGED <<cmd, pc, drift, skipped, target, exit, cycled>>
    BY <1>4 DEF TypesRow, history
  <2>2. CommandStep
    BY <1>1, <2>1, HeardStep
  <2>3. ~cycled => DoneSoFar'
    BY <1>2, <2>1, <2>2 DEF DoneSoFar, TruthInv, CommandStep
  <2> QED BY <1>1, <2>2, <2>3, CommandStepTruth
<1>5. CASE Plan
  <2>1. CommandStep
    BY <1>5, StillStep DEF Plan, Finish, history
  <2>2. ~cycled => \A p \in Params \ drift : ram[p] = "declared"
    BY <1>2 DEF TruthInv, DoneSoFar
  <2>3. CASE Planned = {} \/ ~cmd.write
    <3>1. PICK code \in {"ok", "failed"} : Finish(code) /\ (code = "ok" => drift = {})
      BY <1>5, <2>3 DEF Plan
    <3>2. ~cycled /\ code = "ok" => AsAsked
      BY <1>2, <2>2, <3>1 DEF AsAsked
    <3> QED BY <1>1, <2>1, <3>1, <3>2, FinishTruth
  <2>4. CASE ~(Planned = {} \/ ~cmd.write)
    <3>1. pc' = "rest" /\ todo' = Planned /\ skipped' = drift \ Planned
      BY <1>5, <2>4 DEF Plan, Goto
    <3>2. ~cycled => DoneSoFar'
      BY <2>1, <2>2, <3>1 DEF DoneSoFar, CommandStep
    <3> QED BY <1>1, <2>1, <3>2, CommandStepTruth
  <2> QED BY <2>3, <2>4
<1> QED BY <1>3, <1>4, <1>5

LEMMA ReadTargetTruth ==
  ASSUME TruthInv, BeforeAsk \/ BackAsk \/ ConfirmAsk
  PROVE  TruthInv'
<1>1. TypeInv /\ TypeInv'
  BY ReadTargetType DEF TruthInv
<1>2. target.p \in Params
  BY <1>1 DEF BeforeAsk, BackAsk, ConfirmAsk, At, TypeInv, TargetInv, Targets
<1>3. ReadOf(target.p) \in Sent /\ ReadOf(target.p).kind = "read"
  BY <1>2, FrameFacts DEF ReadOf, Frame
<1>4. /\ Send(ReadOf(target.p))
      /\ UNCHANGED <<cmd, pc, todo, drift, skipped, target, exit, cycled>>
  BY DEF BeforeAsk, BackAsk, ConfirmAsk, steps, history
<1>5. CommandStep
  BY <1>1, <1>3, <1>4, SentStep
<1> QED BY <1>1, <1>4, <1>5, SamePlaceTruth

LEMMA BeforeTruth ==
  ASSUME TruthInv, Before
  PROVE  TruthInv'
<1>1. TypeInv /\ TypeInv' /\ pc = "before" /\ cmd.name = "params"
  BY BeforeType DEF TruthInv, TypeInv, PlaceInv, Before, Heard, At
<1>2. CommandStep
  <2>1. Heard("before") /\ UNCHANGED <<cmd, target, cycled>>
    BY DEF Before, Finish, history
  <2> QED BY <1>1, <2>1, HeardStep
<1>3. CASE answer.kind = "silence"
  BY <1>1, <1>2, <1>3, FinishTruth DEF Before
<1>4. CASE answer.kind # "silence"
  <2>1. pc' = "write"
    BY <1>4 DEF Before, Goto
  <2>2. DoneSoFar'
    BY <1>1, <1>2, <2>1 DEF DoneSoFar, CommandStep
  <2> QED BY <1>1, <1>2, <2>2, CommandStepTruth
<1> QED BY <1>3, <1>4

LEMMA WriteTruth ==
  ASSUME TruthInv, WriteAsk \/ Wrote
  PROVE  TruthInv'
<1>1. TypeInv /\ TypeInv' /\ pc = "write"
  BY WriteType DEF TruthInv, WriteAsk, Wrote, Heard, At
<1>2. CASE WriteAsk
  <2>1. /\ Send(WriteOf(Aim.p, Aim.v)) /\ target' = Aim
        /\ UNCHANGED <<cmd, pc, todo, drift, skipped, exit, cycled>>
    BY <1>2 DEF WriteAsk, history
  <2>2. Aim.p \in Params /\ Aim.v \in Values
    BY <1>1, AimFacts DEF Targets
  <2>3. WriteOf(Aim.p, Aim.v) \in Sent
    BY <2>2, FrameFacts
  <2>4. WriteOf(Aim.p, Aim.v).of = Aim.p /\ WriteOf(Aim.p, Aim.v).val = Aim.v
    BY DEF WriteOf, Frame
  <2>5. Means(Aim.p, Aim.v)
    <3>1. cmd.name = "repair" => target = [p |-> Period, v |-> "declared"]
      BY <1>1 DEF TypeInv, TargetInv
    <3> QED BY <1>1, <3>1, AimFacts DEF Means
  <2>6. cmd.name = "params" => target' = target
    BY <1>1, <2>1, AimFacts
  <2>7. CommandStep
    BY <1>1, <2>1, <2>3, <2>4, <2>5, <2>6, SentStep
  <2>8. ~cycled => DoneSoFar'
    BY <1>1, <2>1, <2>7 DEF DoneSoFar, TruthInv, CommandStep
  <2> QED BY <1>1, <2>7, <2>8, CommandStepTruth
<1>3. CASE Wrote
  <2>1. CommandStep
    <3>1. Heard("write") /\ UNCHANGED <<cmd, target, cycled>>
      BY <1>3 DEF Wrote, Finish, history
    <3> QED BY <1>1, <3>1, HeardStep
  <2>2. CASE Finish("failed")
    BY <1>1, <2>1, <2>2, FinishTruth
  <2>3. CASE ~Finish("failed")
    <3>1. pc' \in {"measure", "back"} /\ UNCHANGED <<todo, skipped>>
      BY <1>3, <2>3 DEF Wrote, Goto
    <3>2. ~cycled => DoneSoFar'
      BY <1>1, <2>1, <3>1 DEF DoneSoFar, TruthInv, CommandStep
    <3> QED BY <1>1, <2>1, <3>2, CommandStepTruth
  <2> QED BY <2>2, <2>3
<1> QED BY <1>2, <1>3

\* A read back that says the setting landed.
LEMMA HeldIsTrue ==
  ASSUME TruthInv, ~cycled, pc = "back", Busy, Held, answer.kind \in {"silence", "read"}
  PROVE  ram[target.p] = target.v
<1>1. /\ target \in Targets /\ cmd.name \in {"provision", "params"}
      /\ cmd.name = "provision" => target.v = "declared"
      /\ cmd.name = "params" /\ answer.kind = "read" => answer.of = PairOf(target.p)
  BY DEF TruthInv, TypeInv, PlaceInv, TargetInv
<1>2. answer.kind = "read" /\ (target.p \in answer.held <=> target.v = "declared")
  BY DEF Held
<1>3. Right(answer)
  BY DEF TruthInv, RepliesRight
<1> QED BY <1>1, <1>2, <1>3 DEF Right

LEMMA JudgeTruth ==
  ASSUME TruthInv, Judge
  PROVE  TruthInv'
<1>1. TypeInv /\ TypeInv' /\ pc = "back" /\ Busy /\ answer.kind \in {"silence", "read"}
  BY JudgeType, HeardMoves, WantsIs DEF TruthInv, Judge
<1>2. CommandStep
  <2>1. Heard("back") /\ UNCHANGED <<cmd, target, cycled>>
    BY DEF Judge, Finish, history
  <2> QED BY <1>1, <2>1, HeardStep
<1> DEFINE rest == todo \ {target.p}
<1>3. /\ cmd.name \in {"provision", "params"} /\ target \in Targets
      /\ cmd.name = "provision" => target.v = "declared"
  BY <1>1 DEF TypeInv, PlaceInv, TargetInv
<1>4. CASE ~Held
  BY <1>1, <1>2, <1>4, FinishTruth DEF Judge
<1>5. CASE Held
  <2>1. ~cycled => ram[target.p] = target.v
    BY <1>1, <1>5, HeldIsTrue
  <2>2. ~cycled /\ cmd.name = "provision" =>
          \A p \in Params \ (rest \cup skipped) : ram[p] = "declared"
    BY <1>1, <1>3, <2>1 DEF TruthInv, DoneSoFar
  <2>3. CASE rest # {}
    <3>1. pc' = "write" /\ todo' = rest /\ skipped' = skipped
      BY <1>5, <2>3 DEF Judge, Goto
    <3>2. ~cycled => DoneSoFar'
      BY <1>2, <2>2, <3>1 DEF DoneSoFar, CommandStep
    <3> QED BY <1>1, <1>2, <3>2, CommandStepTruth
  <2>4. CASE rest = {} /\ ~Restored
    BY <1>1, <1>2, <1>5, <2>4, FinishTruth DEF Judge
  <2>5. CASE rest = {} /\ Restored
    <3>1. ~cycled => AsAsked
      BY <1>3, <2>1, <2>2, <2>5 DEF AsAsked, Restored
    <3>2. CASE ~cmd.persist
      BY <1>1, <1>2, <1>5, <2>5, <3>1, <3>2, FinishTruth DEF Judge
    <3>3. CASE cmd.persist
      <4>1. pc' = "confirm" /\ UNCHANGED target
        BY <1>5, <2>5, <3>3 DEF Judge, Goto
      <4>2. ~cycled => DoneSoFar'
        BY <1>2, <3>1, <4>1 DEF DoneSoFar, AsAsked, CommandStep
      <4> QED BY <1>1, <1>2, <4>2, CommandStepTruth
    <3> QED BY <3>2, <3>3
  <2> QED BY <2>3, <2>4, <2>5
<1> QED BY <1>4, <1>5

LEMMA MeasureTruth ==
  ASSUME TruthInv, Measure
  PROVE  TruthInv'
<1>1. TypeInv /\ TypeInv' /\ pc = "measure" /\ cmd.name = "repair"
  BY MeasureType DEF TruthInv, TypeInv, PlaceInv, Measure, At
<1>2. CommandStep
  BY StillStep DEF Measure, Finish, history
<1>3. CASE Finish("failed")
  BY <1>1, <1>2, <1>3, FinishTruth
<1>4. CASE ~Finish("failed")
  <2>1. AsAsked
    BY <1>1, <1>4 DEF Measure, Cadence, AsAsked
  <2>2. CASE Finish("ok")
    BY <1>1, <1>2, <2>1, <2>2, FinishTruth
  <2>3. CASE ~Finish("ok")
    <3>1. pc' = "confirm"
      BY <1>4, <2>3 DEF Measure, Goto
    <3>2. DoneSoFar'
      BY <1>1, <1>2, <2>1, <3>1 DEF DoneSoFar, AsAsked, CommandStep
    <3> QED BY <1>1, <1>2, <3>2, CommandStepTruth
  <2> QED BY <2>2, <2>3
<1> QED BY <1>3, <1>4

LEMMA ConfirmTruth ==
  ASSUME TruthInv, Confirm \/ ConfirmByCadence \/ ConfirmGivesUp
  PROVE  TruthInv'
<1>1. TypeInv /\ TypeInv'
  BY ConfirmType DEF TruthInv
<1>2. /\ pc = "confirm" /\ pc' \in {"confirm", "burn"}
      /\ UNCHANGED <<cmd, target, cycled>>
  BY DEF Confirm, ConfirmByCadence, ConfirmGivesUp, Heard, At, Goto, history
<1>3. CommandStep
  <2>1. CASE Confirm
    BY <1>1, <1>2, <2>1, HeardStep DEF Confirm
  <2>2. CASE ConfirmByCadence \/ ConfirmGivesUp
    BY <1>2, <2>2, StillStep DEF ConfirmByCadence, ConfirmGivesUp
  <2> QED BY <2>1, <2>2
<1>4. ~cycled => DoneSoFar'
  BY <1>2, <1>3 DEF DoneSoFar, AsAsked, CommandStep, TruthInv
<1> QED BY <1>1, <1>3, <1>4, CommandStepTruth

LEMMA BurnTruth ==
  ASSUME TruthInv, BurnAsk \/ Burned
  PROVE  TruthInv'
<1>1. TypeInv /\ TypeInv' /\ pc = "burn"
  BY BurnType DEF TruthInv, BurnAsk, Burned, Heard, At
<1>2. CASE BurnAsk
  <2>1. Burn \in Sent /\ Burn.kind = "burn"
    BY FrameFacts DEF Burn, Frame
  <2>2. Send(Burn) /\ UNCHANGED <<steps, history>>
    BY <1>2 DEF BurnAsk
  <2>3. CommandStep
    BY <1>1, <2>1, <2>2, SentStep DEF steps, history
  <2> QED BY <1>1, <2>2, <2>3, SamePlaceTruth DEF steps
<1>3. CASE Burned
  <2>1. CommandStep
    <3>1. Heard("burn") /\ UNCHANGED <<cmd, target, cycled>>
      BY <1>3 DEF Burned, Finish
    <3> QED BY <1>1, <3>1, HeardStep
  <2>2. ~cycled => AsAsked
    BY <1>1 DEF TruthInv, DoneSoFar
  <2>3. PICK code \in {"ok", "failed"} : Finish(code)
    BY <1>3 DEF Burned
  <2> QED BY <1>1, <2>1, <2>2, <2>3, FinishTruth
<1> QED BY <1>2, <1>3

LEMMA InitTruth == Init => TruthInv
<1> SUFFICES ASSUME Init PROVE TruthInv
  OBVIOUS
<1>1. TypeInv
  BY InitType
<1>2. ask = NoAsk /\ answer = NoAnswer /\ Among(reqs) = {} /\ Among(replies) = {}
  BY DEF Init, LinkInit, Among
<1>3. WroteInv
  BY <1>2 DEF WroteInv, NoAsk, Frame
<1>4. RepliesRight
  BY <1>2 DEF RepliesRight, Right, NoAnswer, Frame
<1>5. DoneSoFar
  BY DEF Init, DoneSoFar
<1> QED BY <1>1, <1>3, <1>4, <1>5 DEF TruthInv

LEMMA NextTruth ==
  ASSUME TruthInv, [Next]_vars
  PROVE  TruthInv'
<1>1. TypeInv /\ TypeInv'
  BY NextType DEF TruthInv
<1>2. CASE \E c \in Commands : Start(c)
  BY <1>2, StartTruth
<1>3. CASE Host
  BY <1>3, GatesTruth, SurveyTruth, TypesTruth, ReadTargetTruth, BeforeTruth, WriteTruth,
     JudgeTruth, MeasureTruth, ConfirmTruth, BurnTruth, LinkStepTruth DEF Host
<1>4. CASE At("done") /\ Release /\ UNCHANGED <<steps, history>>
  BY <1>4, LinkStepTruth
<1>5. CASE Controller /\ UNCHANGED <<steps, history>>
  BY <1>5, LinkStepTruth
<1>6. CASE Reboot /\ cycled' = TRUE /\ UNCHANGED <<steps, acked>>
  <2>1. Among(reqs') \subseteq Among(reqs) /\ UNCHANGED <<ask, cmd, target>>
    BY <1>6 DEF Reboot, steps, Among
  <2>2. WroteInv'
    BY <2>1 DEF TruthInv, WroteInv, Means
  <2> QED BY <1>1, <1>6, <2>2 DEF TruthInv
<1>7. CASE UNCHANGED vars
  <2>1. UNCHANGED <<ram, reqs, replies, ask, answer, steps, cycled>>
    BY <1>7 DEF vars, link, device, session, history
  <2>2. NewReplies /\ NoWorse
    BY <2>1 DEF NewReplies, NoWorse, steps
  <2> QED BY <1>1, <2>1, <2>2, LinkKeepsTruth
<1> QED BY <1>2, <1>3, <1>4, <1>5, <1>6, <1>7 DEF Next

LEMMA NextExit ==
  ASSUME ExitInv, [Next]_vars
  PROVE  ExitInv'
<1>1. \A c \in Commands : Start(c) => exit' = "none"
  BY DEF Start
<1>2. \A code : Finish(code) => pc' = "done"
  BY DEF Finish
<1>3. Refuse \/ SurveyRow \/ Surveyed \/ Plan \/ Before \/ Wrote \/ Judge \/ Measure \/ Burned =>
        (\E code : Finish(code)) \/ (pc # "done" /\ UNCHANGED exit)
  BY DEF Refuse, SurveyRow, Surveyed, Plan, Before, Wrote, Judge, Measure, Burned, Heard, At
<1>4. Proceed \/ TypesRow \/ WriteAsk \/ ConfirmAsk \/ Confirm \/ ConfirmByCadence \/ ConfirmGivesUp =>
        pc # "done" /\ UNCHANGED exit
  BY DEF Proceed, TypesRow, WriteAsk, ConfirmAsk, Confirm, ConfirmByCadence, ConfirmGivesUp, Heard, At
<1>5. SurveyAsk \/ TypesAsk \/ BeforeAsk \/ BackAsk \/ BurnAsk => UNCHANGED steps
  BY DEF SurveyAsk, TypesAsk, BeforeAsk, BackAsk, BurnAsk
<1>6. UNCHANGED vars => UNCHANGED steps
  BY DEF vars
<1>7. \/ exit' = "none" \/ pc' = "done"
      \/ pc # "done" /\ UNCHANGED exit
      \/ UNCHANGED steps
  <2>1. CASE Host
    BY <1>2, <1>3, <1>4, <1>5, <2>1 DEF Host
  <2>2. CASE Next /\ ~Host
    BY <1>1, <2>2 DEF Next
  <2> QED BY <1>6, <2>1, <2>2
<1> QED BY <1>7 DEF ExitInv, steps

\* Whatever is lost, late, refused or answered in vain, a command that returns 0
\* with the controller powered throughout has made RAM what it was asked to.
THEOREM ExitZeroTellsTheTruth == Spec => []ExitZeroHolds
<1>1. Init => TruthInv /\ ExitInv
  BY InitTruth DEF Init, ExitInv
<1>2. TruthInv /\ ExitInv /\ [Next]_vars => TruthInv' /\ ExitInv'
  BY NextTruth, NextExit
<1>3. TruthInv /\ ExitInv => ExitZeroHolds
  <2> SUFFICES ASSUME TruthInv, ExitInv, exit = "ok", ~cycled PROVE Wanted
    BY DEF ExitZeroHolds
  <2>1. cmd.name \in {"provision", "repair", "persist", "params"}
    BY CommandFacts DEF TruthInv, TypeInv, CommandTypeOK
  <2>2. AsAsked
    BY DEF TruthInv, DoneSoFar, ExitInv
  <2> QED BY <2>1, <2>2 DEF AsAsked, Wanted
<1> QED BY <1>1, <1>2, <1>3, PTL DEF Spec

-----------------------------------------------------------------------------
(* A burn commits what RAM holds.  A queue keeps its order, so what came   *)
(* before what in it only ever shrinks at the front and grows at the end.  *)

Precedes(s, a, b) == \E i, j \in 1..Len(s) : i < j /\ s[i] = a /\ s[j] = b
Chain(s, a, b, c) ==
  \E i, j, k \in 1..Len(s) : i < j /\ j < k /\ s[i] = a /\ s[j] = b /\ s[k] = c

LEMMA PrecedesAppend ==
  ASSUME NEW S, NEW s \in Seq(S), NEW x \in S
  PROVE  /\ \A a, b : Precedes(Append(s, x), a, b) =>
                        Precedes(s, a, b) \/ (a \in Among(s) /\ b = x)
         /\ \A a, b, c : Chain(Append(s, x), a, b, c) =>
                           Chain(s, a, b, c) \/ (Precedes(s, a, b) /\ c = x)
<1> DEFINE t == Append(s, x)
<1>1. /\ Len(t) = Len(s) + 1 /\ Len(s) \in Nat
      /\ \A i \in 1..Len(s) : t[i] = s[i]
      /\ t[Len(s) + 1] = x
  BY AppendProperties, LenProperties
<1>2. \A i \in 1..Len(t) : i \in 1..Len(s) \/ i = Len(s) + 1
  BY <1>1
<1>3. \A i, j \in 1..Len(t) : i < j => i \in 1..Len(s)
  BY <1>1
<1> HIDE DEF t
<1>4. \A a, b : Precedes(t, a, b) => Precedes(s, a, b) \/ (a \in Among(s) /\ b = x)
  BY <1>1, <1>2, <1>3 DEF Precedes, Among
<1>5. \A a, b, c : Chain(t, a, b, c) => Chain(s, a, b, c) \/ (Precedes(s, a, b) /\ c = x)
  BY <1>1, <1>2, <1>3 DEF Precedes, Chain
<1> QED BY <1>4, <1>5 DEF t

LEMMA PrecedesTail ==
  ASSUME NEW S, NEW s \in Seq(S), s # <<>>
  PROVE  /\ \A a, b : Precedes(Tail(s), a, b) => Precedes(s, a, b)
         /\ \A a, b, c : Chain(Tail(s), a, b, c) => Chain(s, a, b, c)
         /\ \A b \in Among(Tail(s)) : Precedes(s, Head(s), b)
         /\ \A a, b : Precedes(Tail(s), a, b) => Chain(s, Head(s), a, b)
<1> DEFINE t == Tail(s)
<1>1. /\ Head(s) = s[1] /\ Len(t) = Len(s) - 1
      /\ \A i \in 1..Len(t) : t[i] = s[i + 1]
  BY HeadTailProperties
<1>2. Len(s) \in Nat /\ Len(s) # 0
  BY LenProperties, EmptySeq
<1>3. 1 \in 1..Len(s) /\ \A i \in 1..Len(t) : i + 1 \in 1..Len(s) /\ 1 < i + 1 /\ t[i] = s[i + 1]
  BY <1>1, <1>2
<1>4. \A i, j \in 1..Len(t) : i < j => i + 1 < j + 1
  BY <1>1, <1>2
<1> HIDE DEF t
<1>5. \A a, b : Precedes(t, a, b) => Precedes(s, a, b)
  BY <1>3, <1>4 DEF Precedes
<1>6. ASSUME NEW a, NEW b, NEW c, Chain(t, a, b, c) PROVE Chain(s, a, b, c)
  <2>1. PICK i, j, k \in 1..Len(t) : i < j /\ j < k /\ t[i] = a /\ t[j] = b /\ t[k] = c
    BY <1>6 DEF Chain
  <2>2. /\ i + 1 \in 1..Len(s) /\ j + 1 \in 1..Len(s) /\ k + 1 \in 1..Len(s)
        /\ i + 1 < j + 1 /\ j + 1 < k + 1
        /\ s[i + 1] = a /\ s[j + 1] = b /\ s[k + 1] = c
    BY <1>3, <1>4, <2>1
  <2> QED BY <2>2, Zenon DEF Chain
<1>7. \A b \in Among(t) : Precedes(s, Head(s), b)
  BY <1>1, <1>3 DEF Precedes, Among
<1>8. \A a, b : Precedes(t, a, b) => Chain(s, Head(s), a, b)
  <2> SUFFICES ASSUME NEW a, NEW b, Precedes(t, a, b) PROVE Chain(s, s[1], a, b)
    BY <1>1
  <2>1. PICK i, j \in 1..Len(t) : i < j /\ t[i] = a /\ t[j] = b
    BY DEF Precedes
  <2>2. /\ i + 1 \in 1..Len(s) /\ j + 1 \in 1..Len(s) /\ 1 < i + 1 /\ i + 1 < j + 1
        /\ s[i + 1] = a /\ s[j + 1] = b
    BY <1>3, <1>4, <2>1
  <2> QED BY <1>3, <2>2, Zenon DEF Chain
<1> QED BY <1>5, <1>6, <1>7, <1>8 DEF t

LEMMA PrecedesSubSeq ==
  ASSUME NEW S, NEW s \in Seq(S), NEW n \in 0..Len(s)
  PROVE  \A a, b : Precedes(SubSeq(s, n + 1, Len(s)), a, b) => Precedes(s, a, b)
<1>1. Len(s) \in Nat /\ \A i \in 1..Len(s) : s[i] \in S
  BY LenProperties, ElementOfSeq
<1>2. \A i \in (n + 1)..Len(s) : s[i] \in S
  BY <1>1
<1> DEFINE t == SubSeq(s, n + 1, Len(s))
<1>3. /\ Len(t) = IF n + 1 <= Len(s) THEN Len(s) - (n + 1) + 1 ELSE 0
      /\ \A i \in 1..(Len(s) - (n + 1) + 1) : t[i] = s[(n + 1) + i - 1]
  BY <1>1, <1>2, SubSeqProperties
<1>4. \A i \in 1..Len(t) : n + i \in 1..Len(s) /\ t[i] = s[n + i]
  BY <1>1, <1>3
<1>5. \A i, j \in 1..Len(t) : i < j => n + i < n + j
  BY <1>1, <1>3
<1> HIDE DEF t
<1>6. \A a, b : Precedes(t, a, b) => Precedes(s, a, b)
  BY <1>4, <1>5 DEF Precedes
<1> QED BY <1>6 DEF t

LEMMA PrecedesAmong ==
  ASSUME NEW s, NEW a, NEW b, Precedes(s, a, b)
  PROVE  a \in Among(s) /\ b \in Among(s)
<1> QED BY DEF Precedes, Among

IsRead(r)  == r.kind = "read"
IsWrite(r) == r.kind = "write"

\* A burn would commit another value than RAM holds.
Stale(q) == young[q] # Settled /\ young[q] # ram[q]

Writing  == pc = "write" /\ Busy
Accepted == answer.kind = "write" /\ answer.val # "refused"

\* What a write that was answered has come to: it is in RAM, or a latched fault
\* keeps it and all that follow it out.
Landed == latched \/ ram[target.p] = "declared"

\* A read reply by which the setting under way has landed.
Says(r) == IsRead(r) /\ target.p \in r.held

\* The writes under way are the ones of the setting under way.
WritesOwned ==
  \A r \in Among(reqs) \cup {ask} : IsWrite(r) =>
    r.of = target.p /\ (cmd.name = "repair" => r.of = Period)

\* None is under way before the first one is sent, and between two settings: the
\* answer to the last setting's read back came behind all its writes.
NoneUnsent ==
  pc \in {"look", "survey", "types", "rest"} \/ (pc = "write" /\ ~Busy) =>
    \A r \in Among(reqs) \cup Among(replies) \cup {ask, answer} : ~IsWrite(r)

\* What a burn would not commit is owed settle time, but for the setting whose
\* write is not answered yet.
FloorCovers ==
  \A q \in Params : Stale(q) => q \in floor \/ (Writing /\ ~Accepted /\ q = target.p)

AnsweredLanded ==
  /\ \A r \in Among(replies) \cup {answer} : IsWrite(r) /\ r.val # "refused" => Landed
  /\ pc \in {"back", "measure"} => Landed

\* provision: the reads that are left from before a setting's writes come before
\* all of them, the ones after it behind, and a read reply by which the setting
\* landed leaves no write in flight.
ReadsApart ==
  pc = "back" \/ Writing =>
    /\ \A a, b : Precedes(reqs, a, b) /\ IsRead(a) /\ IsWrite(b) => ram[target.p] = "other"
    /\ \A a, b, c : Chain(reqs, a, b, c) => ~(IsWrite(a) /\ IsRead(b) /\ IsWrite(c))

NotYetRead ==
  Writing =>
    /\ \A a, b : Precedes(reqs, a, b) => ~(IsWrite(a) /\ IsRead(b))
    /\ \A r \in Among(reqs) : IsRead(r) => ram[target.p] = "other"
    /\ \A r \in Among(replies) : ~Says(r)

ReadIsLast ==
  pc = "back" =>
    /\ \A a, b : Precedes(replies, a, b) => ~(Says(a) /\ IsWrite(b))
    /\ \A a \in Among(replies) \cup {answer} : Says(a) => \A r \in Among(reqs) : ~IsWrite(r)
    /\ Says(answer) => \A r \in Among(replies) : ~IsWrite(r)

\* provision: what is to be written is not there yet.
Exact(r) == IsRead(r) => \A p \in Params : PairOf(p) = r.of /\ p \notin r.held => ram[p] = "other"

SurveyExact ==
  pc \in {"look", "survey"} =>
    /\ \A r \in Among(replies) \cup {answer} : Exact(r)
    /\ IsRead(ask) => ask.of = PairOf(Least(todo))
    /\ IsRead(answer) => answer.of = PairOf(Least(todo))

DriftIsReal ==
  /\ pc \in {"look", "survey", "types"} => \A p \in drift : ram[p] = "other"
  /\ pc \in {"rest", "write", "back"} =>
       \A q \in todo : ram[q] = "other" \/ (q = target.p /\ (Writing \/ pc = "back"))

\* persist reads back only once the settle time is over.
WaitedOut == pc = "confirm" /\ Busy => floor = {}

WriterInv == WritesOwned /\ NoneUnsent /\ FloorCovers /\ AnsweredLanded /\ WaitedOut
ProvisionInv == ReadsApart /\ NotYetRead /\ ReadIsLast /\ SurveyExact /\ DriftIsReal

UnderWay == ~cycled /\ pc # "done" /\ cmd.name \in {"provision", "repair"}

FlowInv ==
  /\ pc = "done" => drift = {}
  /\ UnderWay => WriterInv /\ (cmd.name = "provision" => ProvisionInv)

\* From the moment a burn is next: RAM is as asked, a burn commits it, and no
\* write that is still under way changes that.
Burning ==
  \/ pc = "burn" \/ acked
  \/ \E r \in Among(reqs) \cup Among(replies) \cup {ask, answer} : r.kind = "burn"

Committed ==
  \/ acked
  \/ \E r \in Among(replies) \cup {answer} : r.kind = "burn" /\ r.val = "ok"

BurnInv ==
  ~cycled /\ Burning =>
    /\ pc \in {"burn", "done"} /\ cmd.name # "params" /\ AsAsked
    /\ \A q \in Params : ~Stale(q)
    /\ \A r \in Among(reqs) : IsWrite(r) => ram[r.of] = r.val
    /\ Committed => flash = ram

-----------------------------------------------------------------------------
(* FlowInv along the steps of the link.                                    *)

\* A step of the link that leaves RAM alone, and by which no write and no read
\* moves but off the front.
Shrinks ==
  /\ UNCHANGED <<steps, cycled, ram>> /\ (latched => latched') /\ floor' \subseteq floor
  /\ \A q \in Params : Stale(q)' => Stale(q) /\ (q \in floor => q \in floor')
  /\ Among(reqs') \subseteq Among(reqs)
  /\ \A a, b : Precedes(reqs', a, b) => Precedes(reqs, a, b)
  /\ \A a, b, c : Chain(reqs', a, b, c) => Chain(reqs, a, b, c)
  /\ \A r \in Among(replies') : r \in Among(replies) \/ r.kind \in {"types", "burn"}
  /\ \A a, b : Precedes(replies', a, b) => Precedes(replies, a, b) \/ b.kind \in {"types", "burn"}
  /\ \/ UNCHANGED <<ask, answer>>
     \/ ask.kind # "nothing" /\ ask' = NoAsk /\ answer' = Silence

LEMMA ShrinksFlow ==
  ASSUME TypeInv, FlowInv, Shrinks
  PROVE  FlowInv'
<1> USE DEF steps
<1>1. Busy' <=> Busy
  BY DEF Shrinks, Busy, Silence, Frame
<1>2. ASSUME UnderWay' PROVE WriterInv'
  <2>1. WriterInv /\ NoAsk.kind = "nothing" /\ Silence.kind = "silence"
    BY <1>2 DEF FlowInv, UnderWay, Shrinks, NoAsk, Silence, Frame
  <2>2. WritesOwned'
    BY <2>1 DEF WriterInv, WritesOwned, Shrinks, IsWrite
  <2>3. NoneUnsent'
    BY <1>1, <2>1 DEF WriterInv, NoneUnsent, Shrinks, IsWrite
  <2>4. Accepted' => Accepted
    BY <2>1 DEF Shrinks, Accepted
  <2>5. FloorCovers'
    BY <1>1, <2>1, <2>4 DEF WriterInv, FloorCovers, Shrinks, Writing
  <2>6. AnsweredLanded'
    BY <2>1 DEF WriterInv, AnsweredLanded, Shrinks, IsWrite, Landed
  <2>7. WaitedOut'
    BY <1>1, <2>1 DEF WriterInv, WaitedOut, Shrinks
  <2> QED BY <2>2, <2>3, <2>5, <2>6, <2>7 DEF WriterInv
<1>3. ASSUME UnderWay', cmd'.name = "provision" PROVE ProvisionInv'
  <2>1. ProvisionInv /\ NoAsk.kind = "nothing" /\ Silence.kind = "silence"
    BY <1>3 DEF FlowInv, UnderWay, Shrinks, NoAsk, Silence, Frame
  <2>2. ReadsApart'
    BY <1>1, <2>1 DEF ProvisionInv, ReadsApart, Shrinks, IsRead, IsWrite, Writing
  <2>3. NotYetRead'
    BY <1>1, <2>1 DEF ProvisionInv, NotYetRead, Shrinks, IsRead, IsWrite, Writing, Says
  <2>4. ReadIsLast'
    BY <2>1 DEF ProvisionInv, ReadIsLast, Shrinks, IsRead, IsWrite, Says
  <2>5. SurveyExact'
    BY <2>1 DEF ProvisionInv, SurveyExact, Shrinks, Exact, IsRead
  <2>6. DriftIsReal'
    BY <1>1, <2>1 DEF ProvisionInv, DriftIsReal, Shrinks, Writing
  <2> QED BY <2>2, <2>3, <2>4, <2>5, <2>6 DEF ProvisionInv
<1> QED BY <1>2, <1>3 DEF FlowInv, Shrinks

\* The same frame is sent again.
LEMMA SendAgainFlow ==
  ASSUME TypeInv, FlowInv, SendAgain, UNCHANGED <<steps, history>>
  PROVE  FlowInv'
<1> USE DEF steps, history
<1>1. /\ ask.kind # "nothing" /\ answer = NoAnswer /\ ask \in Sent
      /\ reqs \in Seq(Sent) /\ replies \in Seq(Replies)
      /\ UNCHANGED <<ram, young, latched, ask, answer, floor>>
  BY DEF SendAgain, TypeInv, TalkInv, LinkTypeOK, Sent, NoAsk, Frame, device
<1>2. /\ Among(reqs') = Among(reqs) \cup {ask}
      /\ \A a, b : Precedes(reqs', a, b) => Precedes(reqs, a, b) \/ (a \in Among(reqs) /\ b = ask)
      /\ \A a, b, c : Chain(reqs', a, b, c) => Chain(reqs, a, b, c) \/ (Precedes(reqs, a, b) /\ c = ask)
  BY <1>1, AmongAppend, PrecedesAppend DEF SendAgain
<1>3. /\ Among(replies') \subseteq Among(replies)
      /\ \A a, b : Precedes(replies', a, b) => Precedes(replies, a, b)
  <2>1. PICK n \in 0..Len(replies) : replies' = SubSeq(replies, n + 1, Len(replies))
    BY DEF SendAgain, Drained
  <2> QED BY <1>1, <2>1, AmongSubSeq, PrecedesSubSeq
<1>4. Busy' <=> Busy
  BY <1>1 DEF Busy
<1>5. IsRead(ask) => pc # "write"
  BY <1>1, WantsIs DEF TypeInv, TalkInv, IsRead
<1>6. IsWrite(ask) => Writing
  <2>1. IsWrite(ask) => Wants[pc] = "write" /\ pc \in Points
    BY <1>1 DEF TypeInv, TalkInv, IsWrite, CommandTypeOK
  <2>2. Wants[pc] = "write" /\ pc \in Points => pc = "write"
    BY DEF Wants, Points
  <2> QED BY <1>1, <2>1, <2>2 DEF Writing, Busy
<1>7. NoAnswer.kind = "none"
  BY DEF NoAnswer, Frame
<1>8. ASSUME UnderWay' PROVE WriterInv'
  <2>1. WriterInv
    BY <1>8 DEF FlowInv, UnderWay
  <2>2. WritesOwned'
    BY <1>1, <1>2, <2>1 DEF WriterInv, WritesOwned, IsWrite
  <2>3. NoneUnsent'
    BY <1>1, <1>2, <1>3, <1>4, <1>6, <2>1 DEF WriterInv, NoneUnsent, IsWrite, Writing
  <2>4. FloorCovers'
    BY <1>1, <1>4, <2>1 DEF WriterInv, FloorCovers, Stale, Writing, Accepted
  <2>5. AnsweredLanded'
    BY <1>1, <1>3, <2>1 DEF WriterInv, AnsweredLanded, IsWrite, Landed
  <2>6. WaitedOut'
    BY <1>1, <1>4, <2>1 DEF WriterInv, WaitedOut
  <2> QED BY <2>2, <2>3, <2>4, <2>5, <2>6 DEF WriterInv
<1>9. ASSUME UnderWay', cmd'.name = "provision" PROVE ProvisionInv'
  <2>1. ProvisionInv
    BY <1>9 DEF FlowInv, UnderWay
  <2>2. ReadsApart'
    <3>1. ASSUME pc = "back" \/ Writing, NEW a, NEW b, Precedes(reqs', a, b), IsRead(a), IsWrite(b)
          PROVE  ram[target.p] = "other"
      BY <1>2, <1>6, <2>1, <3>1 DEF ProvisionInv, ReadsApart, NotYetRead
    <3>2. ASSUME pc = "back" \/ Writing, NEW a, NEW b, NEW c, Chain(reqs', a, b, c),
                 IsWrite(a), IsRead(b), IsWrite(c)
          PROVE  FALSE
      BY <1>2, <1>6, <2>1, <3>2 DEF ProvisionInv, ReadsApart, NotYetRead
    <3> QED BY <1>1, <1>4, <3>1, <3>2 DEF ReadsApart, IsRead, IsWrite, Writing
  <2>3. NotYetRead'
    BY <1>1, <1>2, <1>3, <1>4, <1>5, <2>1
       DEF ProvisionInv, NotYetRead, IsRead, IsWrite, Writing, Says
  <2>4. ReadIsLast'
    BY <1>1, <1>2, <1>3, <1>6, <2>1
       DEF ProvisionInv, ReadIsLast, IsRead, IsWrite, Writing, Says
  <2>5. SurveyExact'
    BY <1>1, <1>3, <2>1 DEF ProvisionInv, SurveyExact, Exact, IsRead
  <2>6. DriftIsReal'
    BY <1>1, <1>4, <2>1 DEF ProvisionInv, DriftIsReal, Writing
  <2> QED BY <2>2, <2>3, <2>4, <2>5, <2>6 DEF ProvisionInv
<1> QED BY <1>8, <1>9 DEF FlowInv

\* Nothing, or the frame that answers.
LEMMA ReceiveFlow ==
  ASSUME TypeInv, FlowInv, Receive, UNCHANGED <<steps, history>>
  PROVE  FlowInv'
<1> USE DEF steps, history
<1> DEFINE reply == Head(replies)
<1>1. /\ ask.kind # "nothing" /\ answer = NoAnswer /\ replies # <<>> /\ replies \in Seq(Replies)
      /\ replies' = Tail(replies) /\ UNCHANGED <<ram, flash, young, latched, reqs>>
  BY DEF Receive, TypeInv, TalkInv, LinkTypeOK, device
<1>2. /\ reply \in Among(replies) /\ reply \in Replies
      /\ Among(replies') \subseteq Among(replies)
      /\ \A a, b : Precedes(replies', a, b) => Precedes(replies, a, b)
      /\ \A b \in Among(replies') : Precedes(replies, reply, b)
  BY <1>1, AmongTail, PrecedesTail
<1>3. CASE ~Answers(reply, ask)
  <2>1. UNCHANGED <<ask, answer, floor>>
    BY <1>3 DEF Receive
  <2>2. Shrinks
    BY <1>1, <1>2, <2>1 DEF Shrinks, Stale
  <2> QED BY <2>2, ShrinksFlow
<1>4. CASE Answers(reply, ask)
  <2>1. ask' = NoAsk /\ answer' = reply /\ floor' = Stamp(reply)
    BY <1>4 DEF Receive
  <2>2. reply.kind = ask.kind /\ ask'.kind = "nothing" /\ NoAnswer.kind = "none"
    BY <1>4, <2>1 DEF Answers, NoAsk, NoAnswer, Frame
  <2>3. Busy /\ Busy'
    BY <1>1, <2>1, <2>2 DEF Busy, Answers, Replies
  <2>4. IsRead(reply) => pc # "write" /\ reply.of = ask.of
    BY <1>1, <1>4, <2>2, WantsIs DEF TypeInv, TalkInv, IsRead, Answers
  <2>5. ASSUME UnderWay' PROVE WriterInv'
    <3>1. WriterInv
      BY <2>5 DEF FlowInv, UnderWay
    <3>2. WritesOwned'
      BY <1>1, <2>1, <2>2, <3>1 DEF WriterInv, WritesOwned, IsWrite
    <3>3. NoneUnsent'
      BY <1>1, <1>2, <2>1, <2>2, <2>3, <3>1 DEF WriterInv, NoneUnsent, IsWrite, Writing
    <3>4. FloorCovers'
      <4>1. CASE IsWrite(reply)
        BY <1>1, <2>1, <4>1 DEF FloorCovers, Stale, Stamp, IsWrite
      <4>2. CASE ~IsWrite(reply)
        BY <1>1, <2>1, <2>2, <2>3, <3>1, <4>2
           DEF WriterInv, FloorCovers, Stale, Stamp, IsWrite, Writing, Accepted
      <4> QED BY <4>1, <4>2
    <3>5. AnsweredLanded'
      BY <1>1, <1>2, <2>1, <3>1 DEF WriterInv, AnsweredLanded, IsWrite, Landed
    <3>6. WaitedOut'
      <4>1. pc = "confirm" => ~IsWrite(reply)
        BY <1>1, <2>2, WantsIs DEF TypeInv, TalkInv, IsWrite
      <4> QED BY <2>1, <2>3, <3>1, <4>1 DEF WriterInv, WaitedOut, Stamp, IsWrite
    <3> QED BY <3>2, <3>3, <3>4, <3>5, <3>6 DEF WriterInv
  <2>6. ASSUME UnderWay', cmd'.name = "provision" PROVE ProvisionInv'
    <3>1. ProvisionInv
      BY <2>6 DEF FlowInv, UnderWay
    <3>2. ReadsApart'
      BY <1>1, <2>3, <3>1 DEF ProvisionInv, ReadsApart, IsRead, IsWrite, Writing
    <3>3. NotYetRead'
      BY <1>1, <1>2, <2>3, <3>1 DEF ProvisionInv, NotYetRead, IsRead, IsWrite, Writing, Says
    <3>4. ReadIsLast'
      BY <1>1, <1>2, <2>1, <3>1 DEF ProvisionInv, ReadIsLast, IsRead, IsWrite, Says
    <3>5. SurveyExact'
      BY <1>1, <1>2, <2>1, <2>2, <2>4, <3>1 DEF ProvisionInv, SurveyExact, Exact, IsRead
    <3>6. DriftIsReal'
      BY <1>1, <2>3, <3>1 DEF ProvisionInv, DriftIsReal, Writing
    <3> QED BY <3>2, <3>3, <3>4, <3>5, <3>6 DEF ProvisionInv
  <2> QED BY <2>5, <2>6 DEF FlowInv
<1> QED BY <1>3, <1>4

\* A request taken off the queue and a reply put at the end.
LEMMA HandledMoves ==
  ASSUME LinkTypeOK, NEW kind, TakeRequest(kind), NEW r \in Replies, replies' = Append(replies, r)
  PROVE  /\ Head(reqs) \in Among(reqs) /\ Head(reqs).kind = kind
         /\ Among(reqs') \subseteq Among(reqs)
         /\ \A a, b : Precedes(reqs', a, b) =>
                        Precedes(reqs, a, b) /\ Chain(reqs, Head(reqs), a, b)
         /\ \A a, b, c : Chain(reqs', a, b, c) => Chain(reqs, a, b, c)
         /\ \A b \in Among(reqs') : Precedes(reqs, Head(reqs), b)
         /\ Among(replies') = Among(replies) \cup {r}
         /\ \A a, b : Precedes(replies', a, b) =>
                        Precedes(replies, a, b) \/ (a \in Among(replies) /\ b = r)
<1>1. reqs # <<>> /\ reqs' = Tail(reqs) /\ Head(reqs).kind = kind
      /\ reqs \in Seq(Sent) /\ replies \in Seq(Replies)
  BY DEF TakeRequest, LinkTypeOK, Sent
<1> QED BY <1>1, AmongTail, PrecedesTail, AmongAppend, PrecedesAppend

\* A read is answered with what RAM holds.
ReadReply == [Head(reqs) EXCEPT !.held = {p \in Pair(Head(reqs).of) : ram[p] = "declared"}]

LEMMA ReadReplyIs ==
  ASSUME LinkTypeOK, TakeRequest("read")
  PROVE  /\ ReadReply \in Replies /\ ReadReply.kind = "read" /\ ReadReply.of = Head(reqs).of
         /\ ReadReply.held = {p \in Pair(Head(reqs).of) : ram[p] = "declared"}
<1> DEFINE req == Head(reqs)
<1>1. req \in Sent /\ req.kind = "read"
  BY Requested
<1>2. req = Frame("read", req.of, "-") /\ req.of \in Nat
  BY <1>1, FrameFacts DEF Sent
<1>3. ReadReply = [kind |-> "read", of |-> req.of, val |-> "-",
                   held |-> {p \in Pair(req.of) : ram[p] = "declared"}]
  BY <1>2 DEF Frame, ReadReply
<1> QED BY <1>2, <1>3 DEF Replies, Pair

\* If the setting has landed when a read is taken, its writes are all behind it.
LEMMA HandleReadFlow ==
  ASSUME TypeInv, FlowInv, HandleRead, UNCHANGED <<steps, history>>
  PROVE  FlowInv'
<1> USE DEF steps, history
<1> DEFINE req == Head(reqs)
<1> DEFINE r == ReadReply
<1>1. TakeRequest("read") /\ UNCHANGED <<ram, flash, young, latched, ask, answer, floor>>
  BY DEF HandleRead, device, session
<1>2. /\ r \in Replies /\ r.kind = "read" /\ r.of = req.of
      /\ r.held = {p \in Pair(req.of) : ram[p] = "declared"}
  BY <1>1, ReadReplyIs DEF TypeInv
<1>3. replies' = Append(replies, r)
  BY DEF HandleRead, ReadReply
<1> HIDE DEF r
<1>4. /\ req \in Among(reqs) /\ IsRead(req)
      /\ Among(reqs') \subseteq Among(reqs)
      /\ \A a, b : Precedes(reqs', a, b) => Precedes(reqs, a, b)
      /\ \A a, b, c : Chain(reqs', a, b, c) => Chain(reqs, a, b, c)
      /\ \A b \in Among(reqs') : Precedes(reqs, req, b)
      /\ Among(replies') = Among(replies) \cup {r}
      /\ \A a, b : Precedes(replies', a, b) =>
                     Precedes(replies, a, b) \/ (a \in Among(replies) /\ b = r)
  BY <1>1, <1>2, <1>3, HandledMoves DEF TypeInv, IsRead
<1>5. IsRead(r) /\ ~IsWrite(r) /\ (Says(r) => ram[target.p] = "declared")
  BY <1>2 DEF IsRead, IsWrite, Says
<1>6. ASSUME UnderWay' PROVE WriterInv'
  <2>1. WriterInv
    BY <1>6 DEF FlowInv, UnderWay
  <2>2. WritesOwned' /\ NoneUnsent'
    BY <1>1, <1>4, <1>5, <2>1 DEF WriterInv, WritesOwned, NoneUnsent, IsWrite, Busy
  <2>3. FloorCovers' /\ AnsweredLanded' /\ WaitedOut'
    BY <1>1, <1>4, <1>5, <2>1
       DEF WriterInv, FloorCovers, AnsweredLanded, WaitedOut, Stale, Writing, Accepted, Busy,
           IsWrite, Landed
  <2> QED BY <2>1, <2>2, <2>3 DEF WriterInv
<1>7. ASSUME UnderWay', cmd'.name = "provision" PROVE ProvisionInv'
  <2>1. ProvisionInv
    BY <1>7 DEF FlowInv, UnderWay
  <2>2. ReadsApart'
    BY <1>1, <1>4, <2>1 DEF ProvisionInv, ReadsApart, IsRead, IsWrite, Writing, Busy
  <2>3. NotYetRead'
    <3>1. Writing => ~Says(r)
      BY <1>4, <1>5, <2>1 DEF ProvisionInv, NotYetRead
    <3> QED BY <1>1, <1>4, <2>1, <3>1
            DEF ProvisionInv, NotYetRead, IsRead, IsWrite, Writing, Busy, Says
  <2>4. ReadIsLast'
    <3>1. pc = "back" /\ Says(r) => \A b \in Among(reqs') : ~IsWrite(b)
      BY <1>4, <1>5, <2>1 DEF ProvisionInv, ReadsApart
    <3> QED BY <1>1, <1>4, <1>5, <2>1, <3>1 DEF ProvisionInv, ReadIsLast, IsRead, IsWrite, Says
  <2>5. SurveyExact'
    <3>1. Exact(r)
      <4>1. \A p \in Params : ram[p] \in {"declared", "other"}
        BY DEF TypeInv, LinkTypeOK, Values
      <4> QED BY <1>2, <4>1 DEF Exact, Pair
    <3> QED BY <1>1, <1>4, <2>1, <3>1 DEF ProvisionInv, SurveyExact, Exact, IsRead
  <2>6. DriftIsReal'
    BY <1>1, <2>1 DEF ProvisionInv, DriftIsReal, Writing, Busy
  <2> QED BY <2>2, <2>3, <2>4, <2>5, <2>6 DEF ProvisionInv
<1> QED BY <1>6, <1>7 DEF FlowInv

\* A write is stored, or answered in vain.
LEMMA HandleWritesFlow ==
  ASSUME TruthInv, FlowInv, HandleWrite \/ HandleWriteInVain, UNCHANGED <<steps, history>>
  PROVE  FlowInv'
<1> USE DEF steps, history
<1> DEFINE req == Head(reqs)
<1>1. /\ TakeRequest("write") /\ UNCHANGED <<latched, ask, answer>>
      /\ \/ /\ ~latched /\ ram' = [ram EXCEPT ![req.of] = req.val]
            /\ young' = [young EXCEPT ![req.of] = ram[req.of]]
            /\ floor' = floor \ {req.of}
         \/ UNCHANGED <<ram, young, floor>>
  BY DEF HandleWrite, HandleWriteInVain, device, session
<1>2. /\ req \in Sent /\ req.of \in Params /\ req.val \in Values /\ TypeInv /\ LinkTypeOK
      /\ req \in Among(reqs) /\ IsWrite(req)
  BY <1>1, Requested, FrameFacts DEF TruthInv, TypeInv, Sent, IsWrite
<1>3. PICK echo \in Values \cup {"refused"} :
        /\ replies' = Append(replies, Frame("write", req.of, echo))
        /\ echo # "refused" => latched \/ ram' = [ram EXCEPT ![req.of] = req.val]
  BY DEF HandleWrite, HandleWriteInVain, Reply, Values
<1> DEFINE r == Frame("write", req.of, echo)
<1>4. r \in Replies /\ r.kind = "write" /\ r.val = echo /\ r.held = {}
  BY <1>2 DEF Replies, Frame
<1> HIDE DEF r
<1>5. /\ Among(reqs') \subseteq Among(reqs)
      /\ \A a, b : Precedes(reqs', a, b) => Precedes(reqs, a, b) /\ Chain(reqs, req, a, b)
      /\ \A a, b, c : Chain(reqs', a, b, c) => Chain(reqs, a, b, c)
      /\ \A b \in Among(reqs') : Precedes(reqs, req, b)
      /\ Among(replies') = Among(replies) \cup {r}
      /\ \A a, b : Precedes(replies', a, b) =>
                     Precedes(replies, a, b) \/ (a \in Among(replies) /\ b = r)
  <2>1. replies' = Append(replies, r)
    BY <1>3 DEF r
  <2> QED BY <1>1, <1>2, <1>4, <2>1, HandledMoves
<1>6. ASSUME UnderWay'
      PROVE  /\ WriterInv /\ req.val = "declared" /\ req.of = target.p
             /\ (cmd.name = "repair" => req.of = Period)
             /\ pc \notin {"look", "survey", "types", "rest"} /\ (pc = "write" => Writing)
  <2>1. WriterInv /\ cmd.name \in {"provision", "repair"}
    BY <1>6 DEF FlowInv, UnderWay
  <2>2. Means(req.of, req.val)
    BY <1>2 DEF TruthInv, WroteInv, IsWrite
  <2> QED BY <1>2, <2>1, <2>2 DEF WriterInv, WritesOwned, NoneUnsent, Means, Writing
<1>7. ASSUME UnderWay' PROVE WriterInv'
  <2>1. WritesOwned'
    BY <1>1, <1>5, <1>6, <1>7 DEF WriterInv, WritesOwned, IsWrite
  <2>2. NoneUnsent'
    BY <1>1, <1>6, <1>7 DEF NoneUnsent, Writing, Busy
  <2>3. \A q \in Params \ {req.of} : (Stale(q)' <=> Stale(q)) /\ (q \in floor' <=> q \in floor)
    BY <1>1, <1>2 DEF Stale, LinkTypeOK
  <2>4. pc \in {"write", "back", "measure", "confirm", "burn"}
    BY <1>2, <1>6, <1>7 DEF UnderWay, TypeInv, CommandTypeOK, Points, PlaceInv
  <2>5. Landed \/ (Writing /\ ~Accepted) \/ ram[req.of] = "declared"
    <3>1. pc \in {"back", "measure"} \/ Accepted => Landed
      BY <1>6, <1>7 DEF WriterInv, AnsweredLanded, Accepted, IsWrite
    <3>2. pc \in {"confirm", "burn"} => AsAsked
      BY <1>7 DEF TruthInv, DoneSoFar, UnderWay
    <3>3. AsAsked => ram[req.of] = "declared"
      BY <1>2, <1>6, <1>7 DEF AsAsked, UnderWay
    <3> QED BY <1>6, <1>7, <2>4, <3>1, <3>2, <3>3
  <2>6. FloorCovers'
    <3>1. CASE Writing /\ ~Accepted
      BY <1>1, <1>6, <1>7, <2>3, <3>1 DEF WriterInv, FloorCovers, Writing, Busy, Accepted
    <3>2. CASE ~(Writing /\ ~Accepted)
      <4>1. latched \/ ram[req.of] = "declared"
        BY <1>6, <1>7, <2>5, <3>2 DEF Landed
      <4>2. CASE UNCHANGED <<ram, young, floor>>
        BY <1>6, <1>7, <3>2, <4>2 DEF WriterInv, FloorCovers, Stale
      <4>3. CASE ~UNCHANGED <<ram, young, floor>>
        <5>1. young'[req.of] = "declared" /\ ram'[req.of] = "declared"
          BY <1>1, <1>2, <1>6, <1>7, <4>1, <4>3 DEF LinkTypeOK
        <5>2. \A q \in Params : q = req.of => ~Stale(q)'
          BY <5>1 DEF Stale
        <5> QED BY <1>6, <1>7, <2>3, <3>2, <5>2 DEF WriterInv, FloorCovers
      <4> QED BY <4>2, <4>3
    <3> QED BY <3>1, <3>2
  <2>7. AnsweredLanded'
    <3>1. Landed => Landed'
      BY <1>1, <1>2, <1>6, <1>7 DEF Landed, LinkTypeOK
    <3>2. r.val # "refused" => Landed'
      BY <1>1, <1>2, <1>3, <1>4, <1>6, <1>7 DEF Landed, LinkTypeOK
    <3> QED BY <1>1, <1>5, <1>6, <1>7, <3>1, <3>2 DEF WriterInv, AnsweredLanded, IsWrite
  <2>8. WaitedOut'
    BY <1>1, <1>6, <1>7 DEF WriterInv, WaitedOut, Busy
  <2> QED BY <2>1, <2>2, <2>6, <2>7, <2>8 DEF WriterInv
<1>8. ASSUME UnderWay', cmd'.name = "provision" PROVE ProvisionInv'
  <2>1. ProvisionInv /\ Busy' = Busy
    BY <1>1, <1>8 DEF FlowInv, UnderWay, Busy
  <2>2. ~IsRead(r) /\ IsWrite(r)
    BY <1>4 DEF IsRead, IsWrite
  <2>3. ReadsApart'
    BY <1>2, <1>5, <2>1 DEF ProvisionInv, ReadsApart, IsRead, IsWrite, Writing
  <2>4. NotYetRead'
    BY <1>2, <1>5, <2>1, <2>2 DEF ProvisionInv, NotYetRead, IsRead, IsWrite, Writing, Says
  <2>5. ReadIsLast'
    BY <1>1, <1>2, <1>5, <2>1, <2>2 DEF ProvisionInv, ReadIsLast, IsRead, IsWrite, Says
  <2>6. SurveyExact'
    BY <1>6, <1>8 DEF SurveyExact
  <2>7. DriftIsReal'
    <3>1. \A q \in Params \ {target.p} : ram'[q] = ram[q]
      BY <1>1, <1>2, <1>6, <1>8 DEF LinkTypeOK
    <3>2. pc \in {"rest", "write", "back"} => todo \subseteq Params
      BY <1>2, <1>8 DEF TypeInv, TodoInv
    <3> QED BY <1>6, <1>8, <2>1, <3>1, <3>2 DEF ProvisionInv, DriftIsReal, Writing
  <2> QED BY <2>3, <2>4, <2>5, <2>6, <2>7 DEF ProvisionInv
<1> QED BY <1>7, <1>8 DEF FlowInv, TruthInv

\* Every step of the link and of the controller, while a command is under way.
LEMMA LinkFlow ==
  ASSUME TruthInv, FlowInv, Admin \/ Controller, UNCHANGED <<steps, history>>
  PROVE  FlowInv'
<1>1. TypeInv /\ LinkTypeOK /\ reqs \in Seq(Sent) /\ replies \in Seq(Replies)
  BY DEF TruthInv, TypeInv, LinkTypeOK, Sent
<1>2. CASE SendAgain \/ Receive
  BY <1>1, <1>2, SendAgainFlow, ReceiveFlow
<1>3. CASE HandleRead
  BY <1>1, <1>3, HandleReadFlow
<1>4. CASE HandleWrite \/ HandleWriteInVain
  BY <1>4, HandleWritesFlow
<1>5. CASE HandleTypes \/ HandleBurn \/ HandleBurnFails
  <2>1. PICK kind \in {"types", "burn"}, of \in Nat, val \in {"-", "ok", "failed"} :
          /\ TakeRequest(kind) /\ replies' = Append(replies, Frame(kind, of, val))
          /\ Frame(kind, of, val) \in Replies
    <3>1. HandleTypes => Head(reqs).of \in Nat
      BY <1>1, Requested, FrameFacts DEF HandleTypes, Sent
    <3> QED BY <1>5, <3>1 DEF HandleTypes, HandleBurn, HandleBurnFails, Reply, Frame, Replies
  <2>2. Frame(kind, of, val).kind = kind
    BY DEF Frame
  <2>3. UNCHANGED <<ram, young, latched, ask, answer, floor>>
    BY <1>5 DEF HandleTypes, HandleBurn, HandleBurnFails, device, session
  <2>4. Shrinks
    BY <1>1, <2>1, <2>2, <2>3, HandledMoves DEF Shrinks, Stale, history
  <2> QED BY <1>1, <2>4, ShrinksFlow
<1>6. CASE LoseRequest
  <2>1. UNCHANGED <<ram, young, latched, replies, ask, answer, floor>>
    BY <1>6 DEF LoseRequest, device, session
  <2>2. Shrinks
    BY <1>1, <1>6, <2>1, AmongTail, PrecedesTail DEF LoseRequest, Shrinks, Stale, history
  <2> QED BY <1>1, <2>2, ShrinksFlow
<1>7. CASE LoseReply
  <2>1. UNCHANGED <<ram, young, latched, reqs, ask, answer, floor>>
    BY <1>7 DEF LoseReply, device, session
  <2>2. Shrinks
    BY <1>1, <1>7, <2>1, AmongTail, PrecedesTail DEF LoseReply, Shrinks, Stale, history
  <2> QED BY <1>1, <2>2, ShrinksFlow
<1>8. CASE NeverAnswered \/ Latch \/ \E p \in Params : Age(p)
  <2>1. /\ UNCHANGED <<ram, reqs, replies>> /\ (latched => latched')
        /\ \/ UNCHANGED <<young, floor>>
           \/ \E p \in Params : young' = [young EXCEPT ![p] = Settled] /\ floor' = floor \ {p}
    BY <1>8 DEF NeverAnswered, Latch, Age, device, session
  <2>2. /\ floor' \subseteq floor
        /\ \A q \in Params : Stale(q)' => Stale(q) /\ (q \in floor => q \in floor')
    BY <1>1, <2>1 DEF Stale, LinkTypeOK
  <2>3. \/ UNCHANGED <<ask, answer>>
        \/ ask.kind # "nothing" /\ ask' = NoAsk /\ answer' = Silence
    BY <1>8 DEF NeverAnswered, Latch, Age, session
  <2>4. Shrinks
    BY <2>1, <2>2, <2>3 DEF Shrinks, history
  <2> QED BY <1>1, <2>4, ShrinksFlow
<1> QED BY <1>2, <1>3, <1>4, <1>5, <1>6, <1>7, <1>8 DEF Admin, Controller, Handle

-----------------------------------------------------------------------------
(* BurnInv along the steps of the link.                                    *)

\* Nothing that matters to a burn changes, and none is answered.
LEMMA BurnKept ==
  ASSUME TypeInv, BurnInv, UNCHANGED <<cmd, pc, acked, cycled, ram, flash>>,
         \A q \in Params : Stale(q)' => Stale(q),
         Among(reqs') \subseteq Among(reqs) \cup {ask}, ask' \in {ask, NoAsk},
         \A r \in Among(replies') : r \in Among(replies) \/ r.kind # "burn",
         answer' \in {answer, Silence} \cup Among(replies)
  PROVE  BurnInv'
<1>1. NoAsk.kind = "nothing" /\ Silence.kind = "silence"
  BY DEF NoAsk, Silence, Frame
<1>2. Burning' => Burning
  BY <1>1 DEF Burning
<1>3. Committed' => Committed
  BY <1>1 DEF Committed
<1>4. pc \in {"burn", "done"} => ~IsWrite(ask)
  BY WantsIs DEF TypeInv, TalkInv, IsWrite
<1> QED BY <1>2, <1>3, <1>4 DEF BurnInv, AsAsked

LEMMA LinkBurn ==
  ASSUME TruthInv, BurnInv, Admin \/ Controller \/ Release, UNCHANGED <<steps, history>>
  PROVE  BurnInv'
<1> USE DEF steps, history
<1>1. TypeInv /\ LinkTypeOK
  BY DEF TruthInv, TypeInv
<1>2. CASE Admin
  <2>1. UNCHANGED <<ram, flash, young>>
    BY <1>1, <1>2, AdminMoves DEF device
  <2>2. \A q \in Params : Stale(q)' => Stale(q)
    BY <2>1 DEF Stale
  <2>3. /\ Among(reqs') \subseteq Among(reqs) \cup {ask} /\ ask' \in {ask, NoAsk}
        /\ Among(replies') \subseteq Among(replies)
        /\ answer' \in {answer, Silence} \cup Among(replies)
    BY <1>1, <1>2, AdminMoves
  <2> QED BY <1>1, <2>1, <2>2, <2>3, BurnKept
<1>3. CASE HandleRead \/ HandleTypes \/ HandleWriteInVain
  <2>1. UNCHANGED <<device, session>>
    BY <1>3 DEF HandleRead, HandleTypes, HandleWriteInVain
  <2>2. PICK kind \in {"read", "types", "write"}, r \in Replies :
          TakeRequest(kind) /\ replies' = Append(replies, r) /\ r.kind = kind
    <3>1. CASE HandleRead
      BY <1>1, <3>1, ReadReplyIs DEF HandleRead, ReadReply
    <3>2. CASE HandleTypes
      <4>1. TakeRequest("types") /\ Head(reqs).of \in Nat
        BY <1>1, <3>2, Requested, FrameFacts DEF HandleTypes, Sent
      <4>2. /\ Frame("types", Head(reqs).of, "-") \in Replies
            /\ Frame("types", Head(reqs).of, "-").kind = "types"
        BY <4>1 DEF Frame, Replies
      <4> QED BY <3>2, <4>1, <4>2 DEF HandleTypes, Reply
    <3>3. CASE HandleWriteInVain
      <4>1. TakeRequest("write") /\ Head(reqs).of \in Params
        BY <1>1, <3>3, Requested, FrameFacts DEF HandleWriteInVain, Sent
      <4>2. PICK echo \in Values \cup {"refused"} :
              replies' = Append(replies, Frame("write", Head(reqs).of, echo))
        BY <3>3 DEF HandleWriteInVain, Reply
      <4>3. /\ Frame("write", Head(reqs).of, echo) \in Replies
            /\ Frame("write", Head(reqs).of, echo).kind = "write"
        BY <4>1 DEF Frame, Replies
      <4> QED BY <4>1, <4>2, <4>3
    <3> QED BY <1>3, <3>1, <3>2, <3>3
  <2>3. Among(reqs') \subseteq Among(reqs) /\ Among(replies') = Among(replies) \cup {r}
    BY <1>1, <2>2, HandledMoves
  <2>4. /\ UNCHANGED <<ram, flash, young, ask, answer>>
    BY <2>1 DEF device, session
  <2>5. \A q \in Params : Stale(q)' => Stale(q)
    BY <2>4 DEF Stale
  <2>6. \A x \in Among(replies') : x \in Among(replies) \/ x.kind # "burn"
    BY <2>2, <2>3
  <2> QED BY <1>1, <2>3, <2>4, <2>5, <2>6, BurnKept
<1>4. CASE HandleWrite
  <2> DEFINE req == Head(reqs)
  <2>1. TakeRequest("write") /\ UNCHANGED <<flash, latched, ask, answer>>
    BY <1>4 DEF HandleWrite
  <2>2. /\ req \in Among(reqs) /\ IsWrite(req) /\ req.of \in Params
        /\ Among(reqs') \subseteq Among(reqs)
    BY <1>1, <2>1, Requested, FrameFacts DEF Sent, IsWrite
  <2>3. /\ ram' = [ram EXCEPT ![req.of] = req.val]
        /\ young' = [young EXCEPT ![req.of] = ram[req.of]]
    BY <1>4 DEF HandleWrite
  <2>4. \A r \in Among(replies') : r \in Among(replies) \/ r.kind # "burn"
    <3>1. PICK echo \in Values : replies' = Append(replies, Frame("write", req.of, echo))
      BY <1>4 DEF HandleWrite, Reply
    <3>2. Frame("write", req.of, echo) \in Replies /\ Frame("write", req.of, echo).kind = "write"
      BY <2>2 DEF Frame, Replies
    <3>3. Among(replies') = Among(replies) \cup {Frame("write", req.of, echo)}
      BY <1>1, <2>1, <3>1, <3>2, HandledMoves
    <3> QED BY <3>2, <3>3
  <2>5. CASE ~cycled /\ Burning
    <3>1. ram[req.of] = req.val
      BY <2>2, <2>5 DEF BurnInv
    <3>2. ram' = ram
      BY <1>1, <2>2, <2>3, <3>1 DEF LinkTypeOK
    <3>3. \A q \in Params : Stale(q)' => Stale(q)
      BY <1>1, <2>2, <2>3, <3>2 DEF Stale, LinkTypeOK
    <3> QED BY <1>1, <2>1, <2>2, <2>4, <3>2, <3>3, BurnKept
  <2>6. CASE ~Burning
    <3>1. ~Burning'
      BY <2>1, <2>2, <2>4, <2>6 DEF Burning
    <3> QED BY <3>1 DEF BurnInv
  <2>7. CASE cycled
    BY <2>7 DEF BurnInv
  <2> QED BY <2>5, <2>6, <2>7
<1>5. CASE HandleBurn \/ HandleBurnFails
  <2>1. PICK v \in {"ok", "failed"} :
          /\ TakeRequest("burn") /\ UNCHANGED <<ram, young, ask, answer>>
          /\ replies' = Append(replies, Frame("burn", 0, v))
          /\ flash' = Image \/ (v = "failed" /\ flash' = flash)
    BY <1>5 DEF HandleBurn, HandleBurnFails, Reply, session
  <2>2. Frame("burn", 0, v) \in Replies /\ Frame("burn", 0, v).val = v
    BY DEF Frame, Replies
  <2>3. /\ Among(reqs') \subseteq Among(reqs) /\ \E x \in Among(reqs) : x.kind = "burn"
        /\ Among(replies') = Among(replies) \cup {Frame("burn", 0, v)}
    BY <1>1, <2>1, <2>2, HandledMoves
  <2>4. Burning
    BY <2>3 DEF Burning
  <2>5. ~cycled => Image = ram
    BY <1>1, <2>4 DEF Image, BurnInv, Stale, LinkTypeOK
  <2>6. v = "failed" => (Committed' => Committed)
    BY <2>1, <2>2, <2>3 DEF Committed
  <2>7. ~cycled => (Committed' => flash' = ram)
    BY <2>1, <2>4, <2>5, <2>6 DEF BurnInv
  <2> QED BY <2>1, <2>3, <2>4, <2>7 DEF BurnInv, AsAsked, Stale
<1>6. CASE LoseRequest \/ LoseReply \/ Latch \/ Release \/ \E p \in Params : Age(p)
  <2>1. UNCHANGED <<ram, flash, ask, answer>>
    BY <1>6 DEF LoseRequest, LoseReply, Latch, Release, Age, device, session
  <2>2. /\ reqs' = reqs \/ (reqs # <<>> /\ reqs' = Tail(reqs))
        /\ replies' = replies \/ (replies # <<>> /\ replies' = Tail(replies))
    BY <1>6 DEF LoseRequest, LoseReply, Latch, Release, Age, device, session
  <2>3. Among(reqs') \subseteq Among(reqs) /\ Among(replies') \subseteq Among(replies)
    BY <1>1, <2>2, AmongTail DEF LinkTypeOK
  <2>4. young' = young \/ \E p \in Params : young' = [young EXCEPT ![p] = Settled]
    BY <1>6 DEF LoseRequest, LoseReply, Latch, Release, Age, device, session
  <2>5. \A q \in Params : Stale(q)' => Stale(q)
    BY <1>1, <2>1, <2>4 DEF Stale, LinkTypeOK
  <2> QED BY <1>1, <2>1, <2>3, <2>5, BurnKept
<1> QED BY <1>2, <1>3, <1>4, <1>5, <1>6 DEF Controller, Handle

-----------------------------------------------------------------------------
(* FlowInv and BurnInv along the steps of a command.                       *)

\* A step that neither sends a write nor changes anything of the controller.
Quietly ==
  /\ UNCHANGED <<cmd, cycled, ram, young, latched, floor>>
  /\ Among(reqs') \subseteq Among(reqs) \cup {ask'} /\ ~IsWrite(ask')
  /\ Among(replies') \subseteq Among(replies)
  /\ answer' \in {answer, NoAnswer}

LEMMA SentQuietly ==
  ASSUME TypeInv, NEW request \in Sent, ~IsWrite(request), Send(request), UNCHANGED <<cmd, cycled>>
  PROVE  Quietly /\ ask' = request /\ answer' = NoAnswer /\ Idle /\ UNCHANGED flash
<1> QED BY SendMoves DEF Quietly, TypeInv, device, Send

LEMMA HeardQuietly ==
  ASSUME TypeInv, NEW l \in {"survey", "types", "before", "write", "back", "confirm", "burn"},
         Heard(l), UNCHANGED <<cmd, cycled>>
  PROVE  /\ Quietly /\ ask' = NoAsk /\ answer' = NoAnswer /\ ~Busy' /\ pc = l
         /\ UNCHANGED <<flash, reqs, replies>> /\ answer.kind \in {"silence", Wants[l]}
<1>1. NoAsk.kind = "nothing"
  BY DEF NoAsk, Frame
<1> QED BY <1>1, HeardMoves DEF Quietly, Heard, Taken, Quiet, device, IsWrite

LEMMA StillQuietly ==
  ASSUME Idle, UNCHANGED <<link, cmd, cycled>>
  PROVE  /\ Quietly /\ ask' = NoAsk /\ answer' = NoAnswer /\ ~Busy'
         /\ UNCHANGED <<flash, reqs, replies>>
<1>1. NoAsk.kind = "nothing" /\ NoAnswer.kind = "none"
  BY DEF NoAsk, NoAnswer, Frame
<1> QED BY <1>1 DEF Quietly, Idle, link, device, session, IsWrite, Busy

LEMMA NoneOfTheSame ==
  IsWrite(NoAnswer) = FALSE /\ IsRead(NoAnswer) = FALSE /\ IsWrite(NoAsk) = FALSE
  /\ IsRead(NoAsk) = FALSE /\ NoAnswer.kind = "none" /\ NoAsk.kind = "nothing"
<1> QED BY DEF IsWrite, IsRead, NoAnswer, NoAsk, Frame

\* Before the writes of a setting.
LEMMA UnsentFlow ==
  ASSUME UnderWay => WriterInv, Quietly, UnderWay,
         pc \in {"look", "survey", "types", "rest"}
           \/ \A r \in Among(reqs) \cup Among(replies) \cup {answer} : ~IsWrite(r),
         ~Writing,
         pc' \in {"look", "survey", "types", "rest"} \/ (pc' = "write" /\ ~Busy')
  PROVE  WriterInv' /\ ReadsApart' /\ NotYetRead' /\ ReadIsLast'
<1>1. \A r \in Among(reqs') \cup Among(replies') \cup {ask', answer'} : ~IsWrite(r)
  BY NoneOfTheSame DEF WriterInv, NoneUnsent, Quietly
<1>2. WritesOwned' /\ NoneUnsent' /\ WaitedOut' /\ ReadsApart' /\ NotYetRead' /\ ReadIsLast'
  BY <1>1 DEF WritesOwned, NoneUnsent, WaitedOut, ReadsApart, NotYetRead, ReadIsLast, Writing, IsWrite
<1>3. AnsweredLanded'
  BY <1>1 DEF AnsweredLanded, IsWrite
<1>4. FloorCovers'
  BY DEF WriterInv, FloorCovers, Stale, Quietly
<1> QED BY <1>2, <1>3, <1>4 DEF WriterInv

\* Once they are answered.
LEMMA SentFlow ==
  ASSUME WriterInv, Quietly, UNCHANGED target, \A q \in Params : Stale(q) => q \in floor,
         pc' \in {"back", "measure", "confirm", "burn"},
         pc' \in {"back", "measure"} => Landed,
         pc' = "confirm" /\ Busy' => floor = {}
  PROVE  WriterInv'
<1>1. WritesOwned'
  BY DEF WriterInv, WritesOwned, Quietly, IsWrite
<1>2. NoneUnsent' /\ WaitedOut'
  BY DEF NoneUnsent, WaitedOut, Quietly
<1>3. FloorCovers'
  BY DEF FloorCovers, Stale, Quietly
<1>4. AnsweredLanded'
  BY NoneOfTheSame DEF WriterInv, AnsweredLanded, Landed, Quietly, IsWrite
<1> QED BY <1>1, <1>2, <1>3, <1>4 DEF WriterInv

LEMMA NoBurnYet ==
  ASSUME TypeInv, BurnInv, pc \notin {"burn", "done"}, pc' # "burn", UNCHANGED <<cycled, acked>>,
         Among(reqs') \subseteq Among(reqs) \cup {ask'}, Among(replies') \subseteq Among(replies),
         answer' \in {answer, NoAnswer}, ask'.kind # "burn"
  PROVE  BurnInv'
<1>1. CASE cycled
  BY <1>1 DEF BurnInv
<1>2. CASE ~cycled
  <2>1. ~Burning
    BY <1>2 DEF BurnInv
  <2>2. ~Burning'
    BY <2>1, NoneOfTheSame DEF Burning
  <2> QED BY <2>2 DEF BurnInv
<1> QED BY <1>1, <1>2

LEMMA FinishFlow == ASSUME NEW code, Finish(code) PROVE FlowInv'
<1> QED BY DEF Finish, FlowInv, UnderWay

Later == TruthInv /\ FlowInv /\ BurnInv

LEMMA GatesFlow ==
  ASSUME Later, Refuse \/ Proceed
  PROVE  FlowInv' /\ BurnInv'
<1>1. /\ TypeInv /\ pc \in {"look", "rest"} /\ cmd.name \in {"provision", "repair"}
      /\ UNCHANGED <<link, cycled, acked, cmd>>
  BY DEF Later, TruthInv, TypeInv, PlaceInv, Refuse, Proceed, At, Finish, history
<1>2. Idle
  BY <1>1, QuietHere DEF Quiet, Idle
<1>3. Quietly /\ ask' = NoAsk /\ answer' = NoAnswer /\ ~Busy' /\ UNCHANGED <<reqs, replies>>
  BY <1>1, <1>2, StillQuietly
<1>4. BurnInv'
  <2>1. pc' # "burn"
    BY DEF Refuse, Proceed, Finish, Goto
  <2> QED BY <1>1, <1>3, <2>1, NoBurnYet, NoneOfTheSame DEF Later
<1>5. CASE Refuse
  BY <1>4, <1>5, FinishFlow DEF Refuse
<1>6. CASE Proceed
  <2>1. /\ pc' = IF pc = "look" /\ cmd.name = "provision" THEN "survey"
                 ELSE IF cmd.name = "repair" /\ pc = "look" THEN "rest" ELSE "write"
        /\ UNCHANGED <<todo, drift>> /\ (cmd.name = "provision" => target' = target)
    BY <1>6 DEF Proceed, At, Goto
  <2>2. UnderWay' => UnderWay
    BY <1>1 DEF UnderWay
  <2>3. ASSUME UnderWay' PROVE WriterInv' /\ ReadsApart' /\ NotYetRead' /\ ReadIsLast'
    BY <1>1, <1>3, <2>1, <2>2, <2>3, UnsentFlow DEF Later, FlowInv, Writing
  <2>4. ASSUME UnderWay', cmd'.name = "provision" PROVE SurveyExact' /\ DriftIsReal'
    <3>1. ProvisionInv /\ ram' = ram
      BY <1>1, <1>3, <2>2, <2>4 DEF Later, FlowInv, Quietly
    <3>2. SurveyExact'
      BY <1>1, <1>3, <2>1, <3>1, NoneOfTheSame DEF ProvisionInv, SurveyExact, Exact
    <3>3. DriftIsReal'
      BY <1>1, <1>3, <2>1, <2>4, <3>1 DEF ProvisionInv, DriftIsReal, Writing
    <3> QED BY <3>2, <3>3
  <2>5. pc' # "done"
    BY <2>1
  <2> QED BY <1>4, <2>3, <2>4, <2>5 DEF FlowInv, ProvisionInv
<1> QED BY <1>5, <1>6

\* The answer to a read is exact: what it does not name is not there.
LEMMA SurveyFlow ==
  ASSUME Later, SurveyAsk \/ SurveyRow \/ Surveyed
  PROVE  FlowInv' /\ BurnInv'
<1>1. TypeInv /\ UNCHANGED <<cmd, cycled, acked>>
  BY DEF Later, TruthInv, SurveyAsk, SurveyRow, Surveyed, Finish, steps, history
<1>2. /\ pc = "survey" /\ cmd.name = "provision" /\ todo \in SUBSET Nat /\ todo \subseteq Params
  BY <1>1, ParamsAssumption
     DEF SurveyAsk, SurveyRow, Surveyed, Heard, At, TypeInv, PlaceInv, TodoInv
<1>3. ASSUME UnderWay' PROVE UnderWay /\ WriterInv /\ ProvisionInv
  BY <1>1, <1>2, <1>3 DEF UnderWay, Later, FlowInv
<1>4. ASSUME Quietly, ask'.kind # "burn", pc' \in {"survey", "types", "done"},
             pc' = "done" => FlowInv', pc' # "done" /\ UnderWay' => SurveyExact' /\ DriftIsReal'
      PROVE  FlowInv' /\ BurnInv'
  <2>1. BurnInv'
    BY <1>1, <1>2, <1>4, NoBurnYet DEF Later, Quietly
  <2>2. ASSUME UnderWay' PROVE WriterInv' /\ ReadsApart' /\ NotYetRead' /\ ReadIsLast'
    <3>1. pc' \in {"survey", "types"}
      BY <1>4, <2>2 DEF UnderWay
    <3> QED BY <1>2, <1>3, <1>4, <2>2, <3>1, UnsentFlow DEF Writing
  <2> QED BY <1>1, <1>2, <1>4, <2>1, <2>2 DEF FlowInv, ProvisionInv
<1>5. CASE SurveyAsk
  <2>1. Least(todo) \in Params
    BY <1>2, <1>5, LeastIn DEF SurveyAsk
  <2> DEFINE request == ReadOf(Least(todo))
  <2>2. /\ request \in Sent /\ request.kind = "read" /\ request.of = PairOf(Least(todo))
        /\ ~IsWrite(request)
    BY <2>1, FrameFacts DEF ReadOf, Frame, IsWrite
  <2>3. Send(request) /\ UNCHANGED steps
    BY <1>5 DEF SurveyAsk
  <2> HIDE DEF request
  <2>4. Quietly /\ ask' = request /\ answer' = NoAnswer
    BY <1>1, <2>2, <2>3, SentQuietly
  <2>5. ASSUME UnderWay' PROVE SurveyExact' /\ DriftIsReal'
    <3>1. UNCHANGED <<pc, todo, drift, target, ram>>
      BY <2>3, <2>4 DEF steps, Quietly
    <3>2. SurveyExact'
      BY <1>2, <1>3, <2>2, <2>4, <2>5, <3>1, NoneOfTheSame
         DEF ProvisionInv, SurveyExact, Exact, Quietly
    <3>3. DriftIsReal'
      BY <1>2, <1>3, <2>5, <3>1 DEF ProvisionInv, DriftIsReal
    <3> QED BY <3>2, <3>3
  <2> QED BY <1>2, <1>4, <2>2, <2>3, <2>4, <2>5 DEF steps
<1>6. CASE SurveyRow
  <2>1. /\ Heard("survey") /\ Quietly /\ ask' = NoAsk /\ answer' = NoAnswer
        /\ UNCHANGED <<reqs, replies>> /\ answer.kind \in {"silence", "read"}
    BY <1>1, <1>6, HeardQuietly, WantsIs DEF SurveyRow
  <2>2. CASE answer.kind = "silence"
    <3>1. Finish("failed")
      BY <1>6, <2>2 DEF SurveyRow
    <3> QED BY <1>4, <2>1, <3>1, FinishFlow, NoneOfTheSame DEF Finish
  <2>3. CASE answer.kind = "read"
    <3>1. /\ todo' = todo \ {Least(todo)} /\ pc' = pc
          /\ drift' = IF Least(todo) \in answer.held THEN drift ELSE drift \cup {Least(todo)}
      BY <1>6, <2>3 DEF SurveyRow
    <3>2. todo # {}
      BY <1>1, <1>2, <2>3 DEF TypeInv, TodoInv, Busy
    <3>3. Least(todo) \in Params
      BY <1>2, <3>2, LeastIn
    <3>4. ASSUME UnderWay' PROVE SurveyExact' /\ DriftIsReal'
      <4>1. SurveyExact'
        BY <1>2, <1>3, <2>1, <3>1, <3>4, NoneOfTheSame
           DEF ProvisionInv, SurveyExact, Exact, Quietly
      <4>2. Least(todo) \notin answer.held => ram[Least(todo)] = "other"
        BY <1>2, <1>3, <2>3, <3>3, <3>4 DEF ProvisionInv, SurveyExact, Exact, IsRead
      <4>3. DriftIsReal'
        BY <1>2, <1>3, <2>1, <3>1, <3>4, <4>2 DEF ProvisionInv, DriftIsReal, Quietly
      <4> QED BY <4>1, <4>3
    <3> QED BY <1>2, <1>4, <2>1, <3>1, <3>4, NoneOfTheSame
  <2> QED BY <2>1, <2>2, <2>3
<1>7. CASE Surveyed
  <2>1. Quietly /\ ask' = NoAsk
    BY <1>1, <1>7, StillQuietly DEF Surveyed
  <2>2. CASE drift \cap Protected # {}
    <3>1. Finish("failed")
      BY <1>7, <2>2 DEF Surveyed
    <3> QED BY <1>4, <2>1, <3>1, FinishFlow, NoneOfTheSame DEF Finish
  <2>3. CASE drift \cap Protected = {}
    <3>1. pc' = "types" /\ drift' = drift
      BY <1>7, <2>3 DEF Surveyed, Goto
    <3>2. ASSUME UnderWay' PROVE SurveyExact' /\ DriftIsReal'
      BY <1>2, <1>3, <2>1, <3>1, <3>2 DEF ProvisionInv, SurveyExact, DriftIsReal, Quietly
    <3> QED BY <1>4, <2>1, <3>1, <3>2, NoneOfTheSame
  <2> QED BY <2>2, <2>3
<1> QED BY <1>5, <1>6, <1>7

LEMMA TypesFlow ==
  ASSUME Later, TypesAsk \/ TypesRow \/ Plan
  PROVE  FlowInv' /\ BurnInv'
<1>1. TypeInv /\ UNCHANGED <<cmd, cycled, acked>>
  BY DEF Later, TruthInv, TypesAsk, TypesRow, Plan, Finish, steps, history
<1>2. /\ pc = "types" /\ cmd.name = "provision"
      /\ todo \in SUBSET Nat /\ todo \subseteq Blocks(Params)
  BY <1>1, BlocksInNat DEF TypesAsk, TypesRow, Plan, Heard, At, TypeInv, PlaceInv, TodoInv
<1>3. ASSUME UnderWay' PROVE UnderWay /\ WriterInv /\ \A p \in drift : ram[p] = "other"
  BY <1>1, <1>2, <1>3 DEF UnderWay, Later, FlowInv, ProvisionInv, DriftIsReal
<1>4. ASSUME Quietly, ask'.kind # "burn", pc' \in {"types", "rest", "done"},
             pc' = "done" => FlowInv', pc' = "types" => drift' = drift,
             pc' = "rest" => todo' \subseteq drift
      PROVE  FlowInv' /\ BurnInv'
  <2>1. BurnInv'
    BY <1>1, <1>2, <1>4, NoBurnYet DEF Later, Quietly
  <2>2. ASSUME UnderWay' PROVE WriterInv' /\ ProvisionInv'
    <3>1. pc' \in {"types", "rest"}
      BY <1>4, <2>2 DEF UnderWay
    <3>2. WriterInv' /\ ReadsApart' /\ NotYetRead' /\ ReadIsLast'
      BY <1>2, <1>3, <1>4, <2>2, <3>1, UnsentFlow DEF Writing
    <3>3. SurveyExact' /\ DriftIsReal'
      BY <1>2, <1>3, <1>4, <2>2, <3>1 DEF SurveyExact, DriftIsReal, Quietly
    <3> QED BY <3>2, <3>3 DEF ProvisionInv
  <2> QED BY <1>4, <2>1, <2>2 DEF FlowInv
<1>5. CASE TypesAsk
  <2>1. Least(todo) \in Blocks(Params)
    BY <1>2, <1>5, LeastIn DEF TypesAsk
  <2>2. PICK p \in Params : Least(todo) = BlockOf(p)
    BY <2>1 DEF Blocks
  <2>3. /\ TypesOf(Least(todo)) \in Sent /\ TypesOf(Least(todo)).kind = "types"
        /\ ~IsWrite(TypesOf(Least(todo)))
    BY <2>2, FrameFacts DEF TypesOf, Frame, IsWrite
  <2>4. Send(TypesOf(Least(todo))) /\ UNCHANGED steps
    BY <1>5 DEF TypesAsk
  <2>5. Quietly /\ ask' = TypesOf(Least(todo))
    BY <1>1, <2>3, <2>4, SentQuietly
  <2> QED BY <1>2, <1>4, <2>3, <2>4, <2>5 DEF steps
<1>6. CASE TypesRow
  <2>1. Quietly /\ ask' = NoAsk
    BY <1>1, <1>6, HeardQuietly DEF TypesRow
  <2>2. UNCHANGED <<pc, drift>>
    BY <1>6 DEF TypesRow
  <2> QED BY <1>2, <1>4, <2>1, <2>2, NoneOfTheSame
<1>7. CASE Plan
  <2>1. Quietly /\ ask' = NoAsk
    BY <1>1, <1>7, StillQuietly DEF Plan
  <2>2. CASE Planned = {} \/ ~cmd.write
    <3>1. PICK code \in {"ok", "failed"} : Finish(code)
      BY <1>7, <2>2 DEF Plan
    <3> QED BY <1>4, <2>1, <3>1, FinishFlow, NoneOfTheSame DEF Finish
  <2>3. CASE ~(Planned = {} \/ ~cmd.write)
    <3>1. pc' = "rest" /\ todo' = Planned
      BY <1>7, <2>3 DEF Plan, Goto
    <3> QED BY <1>4, <2>1, <3>1, NoneOfTheSame DEF Planned
  <2> QED BY <2>2, <2>3
<1> QED BY <1>5, <1>6, <1>7

\* A read sent behind the writes of a setting.
LEMMA ReadTargetFlow ==
  ASSUME Later, BeforeAsk \/ BackAsk \/ ConfirmAsk
  PROVE  FlowInv' /\ BurnInv'
<1> DEFINE request == ReadOf(target.p)
<1>1. /\ TypeInv /\ UNCHANGED <<cmd, pc, todo, drift, target, cycled, acked>> /\ Send(request)
      /\ pc \in {"before", "back", "confirm"}
  BY DEF Later, TruthInv, BeforeAsk, BackAsk, ConfirmAsk, At, steps, history
<1>2. request \in Sent /\ request.kind = "read" /\ ~IsWrite(request)
  <2>1. target.p \in Params
    BY <1>1 DEF TypeInv, TargetInv, Targets
  <2> QED BY <2>1, FrameFacts DEF ReadOf, Frame, IsWrite
<1> HIDE DEF request
<1>3. Quietly /\ ask' = request /\ answer' = NoAnswer /\ Idle
  BY <1>1, <1>2, SentQuietly
<1>4. BurnInv'
  BY <1>1, <1>2, <1>3, NoBurnYet DEF Later, Quietly
<1>5. ASSUME UnderWay' PROVE UnderWay /\ WriterInv /\ pc \in {"back", "confirm"}
  BY <1>1, <1>5 DEF UnderWay, Later, FlowInv, TypeInv, PlaceInv
<1>6. ASSUME UnderWay' PROVE WriterInv'
  <2>1. \A q \in Params : Stale(q) => q \in floor
    BY <1>5, <1>6 DEF WriterInv, FloorCovers, Writing
  <2>2. pc = "back" => Landed
    BY <1>5, <1>6 DEF WriterInv, AnsweredLanded
  <2>3. pc = "confirm" => floor = {}
    BY <1>1 DEF BeforeAsk, BackAsk, ConfirmAsk, At
  <2> QED BY <1>1, <1>3, <1>5, <1>6, <2>1, <2>2, <2>3, SentFlow
<1>7. ASSUME UnderWay', cmd'.name = "provision" PROVE ProvisionInv'
  <2>1. ProvisionInv /\ pc' \in {"back", "confirm"}
    BY <1>1, <1>5, <1>7 DEF Later, FlowInv
  <2>2. /\ Among(reqs') = Among(reqs) \cup {request}
        /\ \A a, b : Precedes(reqs', a, b) => Precedes(reqs, a, b) \/ b = request
        /\ \A a, b, c : Chain(reqs', a, b, c) => Chain(reqs, a, b, c) \/ c = request
    <3>1. reqs \in Seq(Sent) /\ reqs' = Append(reqs, request)
      BY <1>1 DEF TypeInv, LinkTypeOK, Sent, Send
    <3> QED BY <1>2, <3>1, AmongAppend, PrecedesAppend
  <2>3. /\ Among(replies') \subseteq Among(replies)
        /\ \A a, b : Precedes(replies', a, b) => Precedes(replies, a, b)
    <3>1. PICK n \in 0..Len(replies) : replies' = SubSeq(replies, n + 1, Len(replies))
      BY <1>1 DEF Send, Drained
    <3> QED BY <1>1, <3>1, AmongSubSeq, PrecedesSubSeq DEF TypeInv, LinkTypeOK
  <2>4. ReadsApart'
    BY <1>1, <1>2, <1>3, <2>1, <2>2 DEF ProvisionInv, ReadsApart, IsWrite, IsRead, Writing, Quietly
  <2>5. ReadIsLast'
    BY <1>1, <1>2, <1>3, <2>1, <2>2, <2>3, NoneOfTheSame
       DEF ProvisionInv, ReadIsLast, Says
  <2>6. NotYetRead' /\ SurveyExact'
    BY <2>1 DEF NotYetRead, SurveyExact, Writing
  <2>7. DriftIsReal'
    BY <1>1, <1>3, <2>1 DEF ProvisionInv, DriftIsReal, Quietly
  <2> QED BY <2>4, <2>5, <2>6, <2>7 DEF ProvisionInv
<1> QED BY <1>1, <1>4, <1>6, <1>7 DEF FlowInv

LEMMA BeforeFlow ==
  ASSUME Later, Before
  PROVE  FlowInv' /\ BurnInv'
<1>1. /\ TypeInv /\ pc = "before" /\ cmd.name = "params" /\ UNCHANGED <<cmd, cycled, acked>>
      /\ Heard("before")
  BY DEF Later, TruthInv, TypeInv, PlaceInv, Before, Heard, At, Finish, history
<1>2. Quietly /\ ask' = NoAsk
  BY <1>1, HeardQuietly
<1>3. pc' \in {"done", "write"} /\ (pc' = "done" => drift' = {})
  BY DEF Before, Finish, Goto
<1>4. BurnInv'
  BY <1>1, <1>2, <1>3, NoBurnYet, NoneOfTheSame DEF Later, Quietly
<1> QED BY <1>1, <1>3, <1>4 DEF FlowInv, UnderWay

\* The first write of a setting is sent behind reads only, and it is not there yet.
LEMMA WriteAskFlow ==
  ASSUME Later, WriteAsk
  PROVE  FlowInv' /\ BurnInv'
<1> DEFINE request == WriteOf(Aim.p, Aim.v)
<1>1. /\ TypeInv /\ TypeInv' /\ pc = "write" /\ Send(request) /\ target' = Aim /\ Idle
      /\ UNCHANGED <<cmd, pc, todo, drift, cycled, acked>>
  BY WriteType DEF Later, TruthInv, WriteAsk, At, history, Send
<1>2. /\ Aim \in Targets /\ cmd.name \in {"provision", "repair", "params"}
      /\ cmd.name = "provision" => Aim.p \in todo /\ Aim.v = "declared"
      /\ cmd.name = "repair" => Aim.p = Period
  <2>1. cmd.name = "repair" => target = [p |-> Period, v |-> "declared"]
    BY <1>1 DEF TypeInv, TargetInv
  <2> QED BY <1>1, <2>1, AimFacts
<1>3. request \in Sent /\ request.kind = "write" /\ request.of = Aim.p
  BY <1>2, FrameFacts DEF Targets, WriteOf, Frame
<1> HIDE DEF request
<1>4. /\ UNCHANGED <<device, floor>> /\ ask' = request /\ answer' = NoAnswer
      /\ Among(replies') \subseteq Among(replies)
  BY <1>1, <1>3, SendMoves DEF TypeInv
<1>5. /\ Among(reqs') = Among(reqs) \cup {request}
      /\ \A a, b : Precedes(reqs', a, b) =>
                     Precedes(reqs, a, b) \/ (a \in Among(reqs) /\ b = request)
      /\ \A a, b, c : Chain(reqs', a, b, c) =>
                        Chain(reqs, a, b, c) \/ (Precedes(reqs, a, b) /\ c = request)
  <2>1. reqs \in Seq(Sent) /\ reqs' = Append(reqs, request)
    BY <1>1 DEF TypeInv, LinkTypeOK, Sent, Send
  <2> QED BY <1>3, <2>1, AmongAppend, PrecedesAppend
<1>6. ~Busy /\ Writing' /\ IsWrite(request) /\ ~IsRead(request)
  BY <1>1, <1>3, <1>4, NoneOfTheSame DEF Writing, Busy, Idle, IsWrite, IsRead
<1>7. BurnInv'
  BY <1>1, <1>3, <1>4, <1>5, NoBurnYet DEF Later
<1>8. ASSUME UnderWay'
      PROVE  /\ UnderWay /\ WriterInv
             /\ \A r \in Among(reqs) \cup Among(replies) \cup {ask, answer} : ~IsWrite(r)
  BY <1>1, <1>6, <1>8 DEF UnderWay, Later, FlowInv, WriterInv, NoneUnsent
<1>9. ASSUME UnderWay' PROVE WriterInv'
  <2>1. WritesOwned'
    BY <1>1, <1>2, <1>3, <1>4, <1>5, <1>8, <1>9 DEF WritesOwned
  <2>2. NoneUnsent' /\ WaitedOut'
    BY <1>1, <1>6 DEF NoneUnsent, WaitedOut, Writing
  <2>3. FloorCovers'
    BY <1>4, <1>6, <1>8, <1>9 DEF WriterInv, FloorCovers, Writing, Stale, device
  <2>4. AnsweredLanded'
    BY <1>1, <1>4, <1>8, <1>9, NoneOfTheSame DEF AnsweredLanded
  <2> QED BY <2>1, <2>2, <2>3, <2>4 DEF WriterInv
<1>10. ASSUME UnderWay', cmd'.name = "provision" PROVE ProvisionInv'
  <2>1. ram' = ram /\ ram[Aim.p] = "other" /\ Aim.p \in Params
    BY <1>1, <1>2, <1>4, <1>6, <1>8, <1>10
       DEF Later, FlowInv, ProvisionInv, DriftIsReal, Writing, device, Targets
  <2>2. ReadsApart'
    <3>1. ASSUME NEW a, NEW b, Precedes(reqs', a, b), IsRead(a), IsWrite(b)
          PROVE  ram'[target'.p] = "other"
      BY <1>1, <2>1
    <3>2. ASSUME NEW a, NEW b, NEW c, Chain(reqs', a, b, c), IsWrite(a) PROVE FALSE
      <4>1. a \in Among(reqs)
        <5>1. Chain(reqs, a, b, c) => Precedes(reqs, a, b)
          BY DEF Chain, Precedes
        <5> QED BY <1>5, <3>2, <5>1, PrecedesAmong
      <4> QED BY <1>8, <1>10, <3>2, <4>1
    <3> QED BY <3>1, <3>2 DEF ReadsApart, IsRead, IsWrite
  <2>3. NotYetRead'
    <3>1. ASSUME NEW a, NEW b, Precedes(reqs', a, b) PROVE ~(IsWrite(a) /\ IsRead(b))
      BY <1>5, <1>6, <1>8, <1>10, <3>1, PrecedesAmong
    <3>2. ASSUME NEW r \in Among(replies'), IsRead(r), target'.p \in r.held PROVE FALSE
      <4>1. Right(r)
        BY <1>4, <1>8, <1>10, <3>2 DEF Later, TruthInv, RepliesRight, UnderWay
      <4>2. r.held \subseteq Params
        BY <1>1, <1>4, <3>2, HeldInParams DEF TypeInv
      <4> QED BY <1>1, <1>10, <2>1, <3>2, <4>1, <4>2 DEF Right
    <3> QED BY <1>1, <2>1, <3>1, <3>2 DEF NotYetRead, IsRead, IsWrite, Says
  <2>4. ReadIsLast' /\ SurveyExact'
    BY <1>1 DEF ReadIsLast, SurveyExact
  <2>5. DriftIsReal'
    BY <1>1, <1>6, <1>8, <1>10, <2>1 DEF Later, FlowInv, ProvisionInv, DriftIsReal, Writing
  <2> QED BY <2>2, <2>3, <2>4, <2>5 DEF ProvisionInv
<1> QED BY <1>1, <1>7, <1>9, <1>10 DEF FlowInv

LEMMA WroteFlow ==
  ASSUME Later, Wrote
  PROVE  FlowInv' /\ BurnInv'
<1>1. TypeInv /\ pc = "write" /\ UNCHANGED <<cmd, cycled, acked>> /\ Heard("write")
  BY DEF Later, TruthInv, TypeInv, Wrote, Heard, At, Finish, history
<1>2. /\ Quietly /\ ask' = NoAsk /\ answer' = NoAnswer /\ ~Busy'
      /\ UNCHANGED <<reqs, replies>> /\ answer.kind \in {"silence", "write"}
  BY <1>1, HeardQuietly, WantsIs
<1>3. pc' \in {"done", "measure", "back"}
  BY DEF Wrote, Finish, Goto
<1>4. BurnInv'
  BY <1>1, <1>2, <1>3, NoBurnYet, NoneOfTheSame DEF Later
<1>5. CASE Finish("failed")
  BY <1>4, <1>5, FinishFlow
<1>6. CASE ~Finish("failed")
  <2>1. /\ pc' = IF cmd.name = "repair" THEN "measure" ELSE "back"
        /\ UNCHANGED <<todo, drift, target>> /\ answer.kind = "write" /\ answer.val # "refused"
    BY <1>2, <1>6 DEF Wrote, Goto
  <2>2. Busy /\ Accepted
    BY <2>1 DEF Busy, Accepted
  <2>3. ASSUME UnderWay' PROVE UnderWay /\ WriterInv
    BY <1>1, <2>3 DEF UnderWay, Later, FlowInv
  <2>4. ASSUME UnderWay' PROVE WriterInv'
    <3>1. \A q \in Params : Stale(q) => q \in floor
      BY <2>2, <2>3, <2>4 DEF WriterInv, FloorCovers
    <3>2. Landed
      BY <2>1, <2>3, <2>4 DEF WriterInv, AnsweredLanded, IsWrite
    <3> QED BY <1>2, <2>1, <2>3, <2>4, <3>1, <3>2, SentFlow
  <2>5. ASSUME UnderWay', cmd'.name = "provision" PROVE ProvisionInv'
    <3>1. ProvisionInv /\ pc' = "back" /\ Writing
      BY <1>1, <2>1, <2>2, <2>3, <2>5 DEF Later, FlowInv, Writing
    <3>2. ReadsApart'
      BY <1>2, <2>1, <3>1 DEF ProvisionInv, ReadsApart, Quietly, IsRead, IsWrite
    <3>3. ReadIsLast'
      <4>1. \A a \in Among(replies) : ~Says(a)'
        BY <2>1, <3>1 DEF ProvisionInv, NotYetRead, Says, IsRead
      <4>2. \A a, b : Precedes(replies, a, b) => ~Says(a)'
        BY <4>1, PrecedesAmong
      <4>3. ~Says(NoAnswer)'
        BY NoneOfTheSame DEF Says, IsRead
      <4> QED BY <1>2, <4>1, <4>2, <4>3 DEF ReadIsLast
    <3>4. NotYetRead' /\ SurveyExact'
      BY <3>1 DEF NotYetRead, SurveyExact, Writing
    <3>5. DriftIsReal'
      BY <1>1, <1>2, <2>1, <3>1 DEF ProvisionInv, DriftIsReal, Quietly
    <3> QED BY <3>2, <3>3, <3>4, <3>5 DEF ProvisionInv
  <2> QED BY <1>4, <2>1, <2>4, <2>5 DEF FlowInv
<1> QED BY <1>5, <1>6

\* The answer that says the setting landed came behind all its writes.
LEMMA JudgeFlow ==
  ASSUME Later, Judge
  PROVE  FlowInv' /\ BurnInv'
<1> DEFINE rest == todo \ {target.p}
<1>1. /\ TypeInv /\ pc = "back" /\ UNCHANGED <<cmd, target, cycled, acked>> /\ Heard("back")
      /\ cmd.name \in {"provision", "params"}
  BY DEF Later, TruthInv, TypeInv, PlaceInv, Judge, Heard, At, Finish, history
<1>2. /\ Quietly /\ ask' = NoAsk /\ answer' = NoAnswer /\ ~Busy'
      /\ UNCHANGED <<reqs, replies>> /\ answer.kind \in {"silence", "read"}
  BY <1>1, HeardQuietly, WantsIs
<1>3. pc' \in {"done", "write", "confirm"}
  BY DEF Judge, Finish, Goto
<1>4. BurnInv'
  BY <1>1, <1>2, <1>3, NoBurnYet, NoneOfTheSame DEF Later
<1>5. ASSUME NEW code, Finish(code) PROVE FlowInv' /\ BurnInv'
  BY <1>4, <1>5, FinishFlow
<1>6. CASE pc' # "done"
  <2>1. ASSUME UnderWay'
        PROVE  UnderWay /\ WriterInv /\ cmd.name = "provision" /\ ProvisionInv
    BY <1>1, <2>1 DEF UnderWay, Later, FlowInv
  <2>2. Held /\ (pc' = "write" => todo' = rest)
    BY <1>3, <1>6 DEF Judge, Finish, Goto
  <2>3. ASSUME UnderWay' PROVE \A r \in Among(reqs) \cup Among(replies) \cup {answer} : ~IsWrite(r)
    <3>1. target.v = "declared"
      BY <1>1, <2>1, <2>3 DEF TypeInv, TargetInv
    <3>2. Says(answer) /\ ~IsWrite(answer)
      BY <1>2, <2>2, <3>1 DEF Held, Says, IsRead, IsWrite
    <3> QED BY <1>1, <2>1, <2>3, <3>2 DEF ProvisionInv, ReadIsLast
  <2>4. ~Writing
    BY <1>1 DEF Writing
  <2>5. CASE pc' = "write"
    <3>1. ASSUME UnderWay' PROVE WriterInv' /\ ReadsApart' /\ NotYetRead' /\ ReadIsLast'
      BY <1>2, <2>1, <2>3, <2>4, <2>5, <3>1, UnsentFlow
    <3>2. ASSUME UnderWay' PROVE SurveyExact' /\ DriftIsReal'
      BY <1>1, <1>2, <2>1, <2>2, <2>5, <3>2
         DEF ProvisionInv, SurveyExact, DriftIsReal, Quietly
    <3> QED BY <1>4, <2>5, <3>1, <3>2 DEF FlowInv, ProvisionInv
  <2>6. CASE pc' = "confirm"
    <3>1. ASSUME UnderWay' PROVE WriterInv'
      <4>1. \A q \in Params : Stale(q) => q \in floor
        BY <2>1, <2>4, <3>1 DEF WriterInv, FloorCovers
      <4> QED BY <1>1, <1>2, <2>1, <2>6, <3>1, <4>1, SentFlow
    <3>2. ProvisionInv'
      BY <2>6 DEF ProvisionInv, ReadsApart, NotYetRead, ReadIsLast, SurveyExact, DriftIsReal, Writing
    <3> QED BY <1>4, <2>6, <3>1, <3>2 DEF FlowInv
  <2> QED BY <1>3, <1>6, <2>5, <2>6
<1>7. CASE pc' = "done"
  <2>1. \E code : Finish(code)
    BY <1>7 DEF Judge, Goto
  <2> QED BY <1>5, <2>1
<1> QED BY <1>6, <1>7

LEMMA MeasureFlow ==
  ASSUME Later, Measure
  PROVE  FlowInv' /\ BurnInv'
<1>1. /\ TypeInv /\ pc = "measure" /\ cmd.name = "repair"
      /\ UNCHANGED <<link, cmd, target, cycled, acked>> /\ pc' \in {"done", "confirm"}
  BY DEF Later, TruthInv, TypeInv, PlaceInv, Measure, At, Goto, Finish, history
<1>2. Idle
  BY <1>1, QuietHere DEF Quiet, Idle
<1>3. /\ Quietly /\ ask' = NoAsk /\ answer' = NoAnswer /\ ~Busy'
      /\ UNCHANGED <<reqs, replies>>
  BY <1>1, <1>2, StillQuietly
<1>4. BurnInv'
  BY <1>1, <1>3, NoBurnYet, NoneOfTheSame DEF Later
<1>5. CASE pc' = "done"
  <2>1. \E code : Finish(code)
    BY <1>5 DEF Measure, Goto
  <2> QED BY <1>4, <2>1, FinishFlow
<1>6. CASE pc' = "confirm"
  <2>1. ASSUME UnderWay' PROVE WriterInv'
    <3>1. UnderWay /\ WriterInv
      BY <1>1, <2>1 DEF UnderWay, Later, FlowInv
    <3>2. \A q \in Params : Stale(q) => q \in floor
      BY <1>1, <3>1 DEF WriterInv, FloorCovers, Writing
    <3> QED BY <1>1, <1>3, <1>6, <3>1, <3>2, SentFlow
  <2> QED BY <1>1, <1>4, <1>6, <2>1 DEF FlowInv
<1> QED BY <1>1, <1>5, <1>6

\* The wait is over: a burn now commits what RAM holds.
LEMMA ConfirmFlow ==
  ASSUME Later, Confirm \/ ConfirmByCadence \/ ConfirmGivesUp
  PROVE  FlowInv' /\ BurnInv'
<1>1. /\ TypeInv /\ pc = "confirm" /\ pc' \in {"confirm", "burn"}
      /\ UNCHANGED <<cmd, target, cycled, acked>>
      /\ cmd.name \in {"provision", "repair"}
  BY DEF Later, TruthInv, TypeInv, PlaceInv, Confirm, ConfirmByCadence, ConfirmGivesUp,
         Heard, At, Goto, history
<1>2. /\ Quietly /\ ask' = NoAsk /\ answer' = NoAnswer /\ ~Busy'
      /\ UNCHANGED <<flash, reqs, replies>>
  <2>1. CASE Confirm
    BY <1>1, <2>1, HeardQuietly DEF Confirm
  <2>2. CASE ConfirmByCadence \/ ConfirmGivesUp
    BY <1>1, <2>2, StillQuietly DEF ConfirmByCadence, ConfirmGivesUp
  <2> QED BY <2>1, <2>2
<1>3. UnderWay' => UnderWay /\ WriterInv /\ \A q \in Params : Stale(q) => q \in floor
  BY <1>1 DEF UnderWay, Later, FlowInv, WriterInv, FloorCovers, Writing
<1>4. UnderWay' => floor = {}
  <2>1. Confirm => Busy
    BY <1>1, HeardMoves DEF Confirm
  <2>2. ConfirmByCadence \/ ConfirmGivesUp => floor = {}
    BY DEF ConfirmByCadence, ConfirmGivesUp
  <2> QED BY <1>1, <1>3, <2>1, <2>2 DEF WriterInv, WaitedOut
<1>5. FlowInv'
  <2>1. ASSUME UnderWay' PROVE WriterInv'
    BY <1>1, <1>2, <1>3, <2>1, SentFlow
  <2>2. ProvisionInv'
    BY <1>1 DEF ProvisionInv, ReadsApart, NotYetRead, ReadIsLast, SurveyExact, DriftIsReal, Writing
  <2> QED BY <1>1, <2>1, <2>2 DEF FlowInv
<1>6. CASE pc' = "confirm"
  BY <1>1, <1>2, <1>5, <1>6, NoBurnYet, NoneOfTheSame DEF Later
<1>7. CASE pc' = "burn"
  <2>1. ASSUME ~cycled PROVE BurnInv'
    <3>1. UnderWay' /\ UnderWay
      BY <1>1, <1>7, <2>1 DEF UnderWay
    <3>2. AsAsked /\ ~Burning
      BY <1>1, <2>1 DEF Later, TruthInv, DoneSoFar, BurnInv
    <3>3. \A q \in Params : ~Stale(q)
      BY <1>3, <1>4, <3>1
    <3>4. ASSUME NEW r \in Among(reqs), IsWrite(r) PROVE ram[r.of] = r.val
      <4>1. r \in Requests
        <5>1. \A i \in 1..Len(reqs) : reqs[i] \in Sent
          BY <1>1, ElementOfSeq DEF TypeInv, LinkTypeOK, Sent
        <5> QED BY <5>1 DEF Among, Sent
      <4>2. r.of \in Params
        BY <3>4, <4>1, FrameFacts DEF IsWrite
      <4>3. Means(r.of, r.val)
        BY <3>4 DEF Later, TruthInv, WroteInv, IsWrite
      <4>4. cmd.name = "repair" => r.of = Period
        BY <1>3, <3>1, <3>4 DEF WriterInv, WritesOwned
      <4> QED BY <1>1, <3>2, <4>2, <4>3, <4>4 DEF AsAsked, Means
    <3>5. ~Committed'
      BY <1>1, <1>2, <3>2, NoneOfTheSame DEF Committed, Burning
    <3> QED BY <1>1, <1>2, <1>7, <3>2, <3>3, <3>4, <3>5 DEF BurnInv, AsAsked, Stale, Quietly
  <2> QED BY <1>1, <1>5, <2>1 DEF BurnInv
<1> QED BY <1>1, <1>6, <1>7

LEMMA BurnFlow ==
  ASSUME Later, BurnAsk \/ Burned
  PROVE  FlowInv' /\ BurnInv'
<1>1. TypeInv /\ pc = "burn" /\ UNCHANGED <<cmd, target, cycled>>
  BY DEF Later, TruthInv, BurnAsk, Burned, Heard, At, Finish, steps, history
<1>2. CASE BurnAsk
  <2>1. Burn \in Sent /\ Burn.kind = "burn" /\ ~IsWrite(Burn)
    BY FrameFacts DEF Burn, Frame, IsWrite
  <2>2. Send(Burn) /\ UNCHANGED <<steps, history>>
    BY <1>2 DEF BurnAsk
  <2>3. Quietly /\ ask' = Burn /\ answer' = NoAnswer /\ UNCHANGED flash
    BY <1>1, <2>1, <2>2, SentQuietly
  <2>4. ASSUME UnderWay' PROVE WriterInv'
    <3>1. WriterInv /\ pc' = "burn"
      BY <1>1, <2>2, <2>4 DEF UnderWay, Later, FlowInv, steps
    <3>2. \A q \in Params : Stale(q) => q \in floor
      BY <1>1, <3>1 DEF WriterInv, FloorCovers, Writing
    <3> QED BY <1>1, <2>3, <3>1, <3>2, SentFlow
  <2>5. ProvisionInv' /\ pc' = "burn"
    BY <1>1, <2>2
       DEF ProvisionInv, ReadsApart, NotYetRead, ReadIsLast, SurveyExact, DriftIsReal, Writing, steps
  <2>6. FlowInv'
    BY <2>4, <2>5 DEF FlowInv
  <2>7. ~cycled => Burning
    BY <1>1 DEF Burning
  <2>8. Committed' => Committed
    BY <2>2, <2>3, NoneOfTheSame DEF Committed, Quietly, history
  <2>9. \A r \in Among(reqs') : r \in Among(reqs) \/ ~IsWrite(r)
    BY <2>1, <2>3 DEF Quietly
  <2>10. BurnInv'
    BY <1>1, <2>3, <2>5, <2>7, <2>8, <2>9 DEF Later, BurnInv, AsAsked, Stale, Quietly
  <2> QED BY <2>6, <2>10
<1>3. CASE Burned
  <2>1. /\ Heard("burn") /\ acked' = (answer.val = "ok") /\ \E code : Finish(code)
    BY <1>3 DEF Burned
  <2>2. /\ Quietly /\ ask' = NoAsk /\ answer' = NoAnswer
        /\ UNCHANGED <<flash, reqs, replies>> /\ answer.kind \in {"silence", "burn"}
    BY <1>1, <2>1, HeardQuietly, WantsIs
  <2>3. answer.kind = "silence" => answer = Silence
    BY DEF Later, TruthInv, TypeInv, LinkTypeOK, Replies, NoAnswer, Frame
  <2>4. acked' => answer.kind = "burn" /\ answer.val = "ok"
    <3>1. Silence.val = "-"
      BY DEF Silence, Frame
    <3> QED BY <2>1, <2>2, <2>3, <3>1
  <2>5. Committed' => Committed
    BY <2>2, <2>4, NoneOfTheSame DEF Committed
  <2>6. Burning /\ pc' = "done"
    BY <1>1, <2>1 DEF Burning, Finish
  <2>7. BurnInv'
    BY <1>1, <2>2, <2>5, <2>6 DEF Later, BurnInv, AsAsked, Stale, Quietly
  <2> QED BY <2>1, <2>7, FinishFlow
<1> QED BY <1>2, <1>3

\* A new process: nothing is in flight, nothing is young.
LEMMA StartFlow ==
  ASSUME Later, NEW c \in Commands, Start(c)
  PROVE  FlowInv' /\ BurnInv'
<1>1. /\ pc = "done" /\ reqs' = <<>> /\ replies' = <<>> /\ ask' = NoAsk /\ answer' = NoAnswer
      /\ UNCHANGED <<ram, flash, young, drift>> /\ acked' = FALSE /\ cmd' = c
      /\ \A p \in Params : young[p] = Settled
      /\ c.name \in {"provision", "repair"} => pc' = "look"
      /\ c.name = "persist" => pc' = "burn"
      /\ c.name = "params" => pc' = "before"
  BY DEF Start, At, Idle, device
<1>2. c.name \in {"provision", "repair", "persist", "params"}
  BY CommandFacts
<1>3. Among(reqs') = {} /\ Among(replies') = {}
  BY <1>1 DEF Among
<1>4. \A q \in Params : ~Stale(q)'
  BY <1>1 DEF Stale
<1>5. ~Busy'
  BY <1>1, NoneOfTheSame DEF Busy
<1>6. FlowInv'
  <2>1. WriterInv'
    <3>1. pc' \in {"look", "burn", "before"}
      BY <1>1, <1>2
    <3>2. WritesOwned' /\ NoneUnsent' /\ AnsweredLanded'
      BY <1>1, <1>3, <3>1, NoneOfTheSame DEF WritesOwned, NoneUnsent, AnsweredLanded
    <3>3. FloorCovers' /\ WaitedOut'
      BY <1>4, <1>5, <3>1 DEF FloorCovers, WaitedOut
    <3> QED BY <3>2, <3>3 DEF WriterInv
  <2>2. drift = {}
    BY <1>1 DEF Later, FlowInv
  <2>3. pc' = "look" => ProvisionInv'
    BY <1>1, <1>3, <1>5, <2>2, NoneOfTheSame
       DEF ProvisionInv, ReadsApart, NotYetRead, ReadIsLast, SurveyExact, DriftIsReal, Writing, Exact
  <2> QED BY <1>1, <1>2, <2>1, <2>2, <2>3 DEF FlowInv, UnderWay
<1>7. BurnInv'
  <2>1. ~Committed'
    BY <1>1, <1>3, NoneOfTheSame DEF Committed
  <2>2. Burning' => pc' = "burn" /\ c.name = "persist"
    BY <1>1, <1>2, <1>3, NoneOfTheSame DEF Burning
  <2> QED BY <1>1, <1>3, <1>4, <2>1, <2>2 DEF BurnInv, AsAsked
<1> QED BY <1>6, <1>7

LEMMA NextLater ==
  ASSUME Later, [Next]_vars
  PROVE  Later'
<1>1. TruthInv'
  BY NextTruth DEF Later
<1>2. CASE \E c \in Commands : Start(c)
  BY <1>1, <1>2, StartFlow DEF Later
<1>3. ASSUME Admin \/ Controller, UNCHANGED <<steps, history>> PROVE Later'
  BY <1>1, <1>3, LinkFlow, LinkBurn DEF Later
<1>4. CASE Host
  BY <1>1, <1>3, <1>4, GatesFlow, SurveyFlow, TypesFlow, ReadTargetFlow, BeforeFlow, WriteAskFlow,
     WroteFlow, JudgeFlow, MeasureFlow, ConfirmFlow, BurnFlow DEF Host, Later
<1>5. CASE At("done") /\ Release /\ UNCHANGED <<steps, history>>
  <2>1. FlowInv'
    BY <1>5 DEF Later, FlowInv, UnderWay, At, steps
  <2> QED BY <1>1, <1>5, <2>1, LinkBurn DEF Later
<1>6. CASE Reboot /\ cycled' = TRUE /\ UNCHANGED <<steps, acked>>
  BY <1>1, <1>6 DEF Later, FlowInv, UnderWay, BurnInv, steps
<1>7. CASE UNCHANGED vars
  <2>1. UNCHANGED <<steps, history, device, reqs, replies, session>>
    BY <1>7 DEF vars, link
  <2>2. Shrinks
    BY <2>1 DEF Shrinks, history, device, session, Stale
  <2>3. FlowInv'
    BY <2>2, ShrinksFlow DEF Later, TruthInv
  <2>4. BurnInv'
    BY <2>1 DEF Later, BurnInv, Burning, Committed, AsAsked, Stale, steps, history, device, session
  <2> QED BY <1>1, <2>3, <2>4 DEF Later
<1> QED BY <1>2, <1>3, <1>4, <1>5, <1>6, <1>7 DEF Next, Host

LEMMA InitLater == Init => Later
<1> SUFFICES ASSUME Init PROVE Later
  OBVIOUS
<1>1. /\ pc = "done" /\ drift = {} /\ ~acked /\ ask = NoAsk /\ answer = NoAnswer
      /\ Among(reqs) = {} /\ Among(replies) = {}
  BY DEF Init, LinkInit, Among
<1>2. FlowInv /\ BurnInv
  BY <1>1, NoneOfTheSame DEF FlowInv, UnderWay, BurnInv, Burning
<1> QED BY <1>2, InitTruth DEF Later

\* An acknowledged burn has made flash what RAM is: at the moment the controller
\* took it no write was younger than the settle time but one that changed nothing,
\* and none that was still on its way changed RAM afterwards.
THEOREM AckedBurnTellsTheTruth == Spec => []AckedBurnCommits
<1>1. Later => AckedBurnCommits
  BY DEF Later, BurnInv, AckedBurnCommits, Burning, Committed
<1> QED BY <1>1, InitLater, NextLater, PTL DEF Spec

\* provision makes permanent nothing that is not declared, whenever its burn is
\* taken, the reply to it lost or not.
THEOREM BurnsOnlyDeclared == Spec => NeverBurnsUndeclared
<1>1. ASSUME Later, [Next]_vars, flash' # flash, cmd.name = "provision", ~cycled
      PROVE  \A p \in Params : flash'[p] = "declared"
  <2>1. LinkTypeOK
    BY <1>1 DEF Later, TruthInv, TypeInv
  <2>2. HandleBurn \/ HandleBurnFails
    <3>1. CASE Controller
      BY <1>1, <3>1 DEF Controller, Handle, HandleRead, HandleTypes, HandleWrite,
         HandleWriteInVain, Latch, LoseRequest, LoseReply, Age, device, session
    <3>2. CASE Admin \/ Release \/ Reboot \/ UNCHANGED vars
      BY <1>1, <3>2 DEF Admin, SendAgain, NeverAnswered, Receive, Release, Reboot, vars, link, device
    <3>3. CASE \E c \in Commands : Start(c)
      BY <1>1, <3>3 DEF Start, device
    <3>4. CASE Host /\ ~Admin
      BY <1>1, <3>4 DEF Host, Refuse, Proceed, SurveyAsk, SurveyRow, Surveyed, TypesAsk, TypesRow,
         Plan, BeforeAsk, Before, WriteAsk, Wrote, BackAsk, Judge, Measure, ConfirmAsk, Confirm,
         ConfirmByCadence, ConfirmGivesUp, BurnAsk, Burned, Send, Heard, Taken, link, device
    <3> QED BY <1>1, <3>1, <3>2, <3>3, <3>4 DEF Next
  <2>3. Head(reqs) \in Among(reqs) /\ Head(reqs).kind = "burn"
    BY <2>1, <2>2, Requested DEF HandleBurn, HandleBurnFails
  <2>4. Burning
    BY <2>3 DEF Burning
  <2>5. flash' = Image
    BY <1>1, <2>2 DEF HandleBurn, HandleBurnFails
  <2> QED BY <1>1, <2>4, <2>5 DEF Image, Later, BurnInv, AsAsked, Stale
<1>2. Later /\ [Next]_vars =>
        [flash' # flash /\ cmd.name = "provision" /\ ~cycled =>
           \A p \in Params : flash'[p] = "declared"]_vars
  BY <1>1
<1> QED BY <1>2, InitLater, NextLater, PTL DEF Spec, NeverBurnsUndeclared
=============================================================================
