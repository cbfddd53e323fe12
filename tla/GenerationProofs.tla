--------------------------- MODULE GenerationProofs ---------------------------
(***************************************************************************)
(* Proofs about module Generation, for responses of any length.            *)
(*                                                                         *)
(* The first invariant is GenerationInv.  OneTerminal needs that nothing   *)
(* but deltas is published before the end; DoneIsHonest needs what         *)
(* chunk_count and saw_done say of the lines sent, and how the loop was    *)
(* left.  The second, RelayInv, counts: what was published, what           *)
(* chunk_count says, and the deltas among the lines read so far.           *)
(***************************************************************************)
EXTENDS Generation, FiniteSetTheorems, TLAPS

OnlyDeltas == pc # "over" => \A i \in DOMAIN out : out[i] = Delta

Counted ==
  /\ got > 0 => Contains(sent, "delta")
  /\ sawDone => Contains(sent, "[DONE]")

Reading == (pc \in {"read", "finish"} => stream) /\ (pc = "body" => ~stream)

LoopLeft == pc = "finish" => sawDone \/ up = "eof"

GenerationInv ==
  TypeOK /\ OnlyDeltas /\ Counted /\ Reading /\ LoopLeft /\ OneTerminal /\ DoneIsHonest

-----------------------------------------------------------------------------
LEMMA EventTypes ==
  /\ Delta \in Events /\ Answer \in Events /\ \A e \in Errors : Failure(e) \in Events
  /\ ~IsTerminal(Delta) /\ IsTerminal(Answer) /\ \A e \in Errors : IsTerminal(Failure(e))
  /\ Delta # Answer /\ \A e \in Errors : Failure(e) # Answer
<1>. QED
  BY DEF Events, Delta, Answer, Failure, IsTerminal

LEMMA ErrorTypes ==
  /\ NoError \in Errors
  /\ \A code \in Codes \ {"none"}, r \in BOOLEAN :
       WorkerError(code, r) \in Errors /\ WorkerError(code, r) # NoError
<1>. QED
  BY DEF Errors, Codes, NoError, WorkerError

(* A failure has a code to report.                                         *)
LEMMA FailEffect ==
  ASSUME NEW code \in Codes \ {"none"}, NEW r \in BOOLEAN, Fail(code, r)
  PROVE  pc' = "fail" /\ err' \in Errors /\ err' # NoError
<1>. QED
  BY ErrorTypes DEF Fail

(* Lines that were there stay there.                                       *)
LEMMA LinesStay ==
  ASSUME NEW s \in Seq(Lines), NEW x \in Lines, NEW e, Contains(s, e)
  PROVE  Contains(Append(s, x), e)
<1>. QED
  BY DEF Contains

-----------------------------------------------------------------------------
(* The three kinds of step.                                                *)

(* A step that publishes nothing and does not end the generation.          *)
LEMMA SilentStep ==
  ASSUME GenerationInv, TypeOK', out' = out, pc # "over", pc' # "over"
  PROVE  OnlyDeltas' /\ OneTerminal' /\ DoneIsHonest'
<1>1. \A i \in DOMAIN out : out[i] = Delta
  BY DEF GenerationInv, OnlyDeltas
<1>2. OnlyDeltas' /\ OneTerminal'
  BY <1>1, EventTypes DEF OnlyDeltas, OneTerminal
<1>3. out \in Seq(Events)
  BY DEF GenerationInv, TypeOK
<1>4. ~Succeeded'
  <2>1. CASE out = <<>>
    BY <2>1 DEF Succeeded
  <2>2. CASE out # <<>>
    <3>1. Len(out) \in DOMAIN out
      BY <2>2, <1>3
    <3>. QED
      BY <3>1, <1>1, EventTypes DEF Succeeded, Last
  <2>. QED
    BY <2>1, <2>2
<1>. QED
  BY <1>2, <1>4 DEF DoneIsHonest

(* A step that ends the generation: it publishes one terminal event, or    *)
(* nothing when nobody can hear it.                                        *)
LEMMA LastStep ==
  ASSUME GenerationInv, pc # "over", pc' = "over", UNCHANGED <<inbox, nats>>,
         NEW e \in Events, IsTerminal(e),
         \/ out' = Append(out, e)
         \/ out' = out /\ ~(inbox /\ nats)
  PROVE  /\ out' \in Seq(Events) /\ OnlyDeltas' /\ OneTerminal'
         /\ Succeeded' => out' = Append(out, e) /\ e = Answer
<1>1. \A i \in DOMAIN out : out[i] = Delta
  BY DEF GenerationInv, OnlyDeltas
<1>2. out \in Seq(Events)
  BY DEF GenerationInv, TypeOK
<1>3. CASE out' = Append(out, e)
  <2>1. /\ out' \in Seq(Events) /\ out' # <<>>
        /\ Len(out') = Len(out) + 1 /\ out'[Len(out')] = e
        /\ \A i \in DOMAIN out' : i # Len(out') => out'[i] = Delta
    BY <1>1, <1>2, <1>3
  <2>2. OneTerminal'
    BY <2>1, EventTypes DEF OneTerminal, Last
  <2>. QED
    BY <1>3, <2>1, <2>2 DEF OnlyDeltas, Succeeded, Last
<1>4. CASE out' = out /\ ~(inbox /\ nats)
  <2>1. OneTerminal'
    BY <1>1, <1>4, EventTypes DEF OneTerminal
  <2>2. ~Succeeded'
    <3>1. CASE out = <<>>
      BY <1>4, <3>1 DEF Succeeded
    <3>2. CASE out # <<>>
      <4>1. Len(out) \in DOMAIN out
        BY <1>2, <3>2
      <4>. QED
        BY <1>1, <1>4, <4>1, EventTypes DEF Succeeded, Last
    <3>. QED
      BY <3>1, <3>2
  <2>. QED
    BY <1>2, <1>4, <2>1, <2>2 DEF OnlyDeltas
<1>. QED
  BY <1>3, <1>4

(* What makes up the invariant of a step that publishes nothing.           *)
LEMMA SilentInv ==
  ASSUME GenerationInv, TypeOK', Counted', Reading', LoopLeft',
         out' = out, pc # "over", pc' # "over"
  PROVE  GenerationInv'
<1>. QED
  BY SilentStep DEF GenerationInv

-----------------------------------------------------------------------------
LEMMA Nothing ==
  /\ <<>> \in Seq(Lines) /\ <<>> \in Seq(Events) /\ Len(<<>>) = 0
  /\ 0 <= MaxLines /\ 0 \in 0 .. 0
<1>. QED
  BY MaxLinesAssumption

LEMMA InitInv == Init => GenerationInv
<1> SUFFICES ASSUME Init PROVE GenerationInv
  OBVIOUS
<1>1. TypeOK
  <2>1. pc \in Phases /\ up \in Connections
    BY DEF Init, Phases, Connections
  <2>2. {stream, inbox, sawDone, nats} \subseteq BOOLEAN
    BY DEF Init
  <2>3. err \in Errors /\ (pc = "fail" <=> err # NoError)
    BY ErrorTypes DEF Init
  <2>4. /\ sent \in Seq(Lines) /\ Len(sent) <= MaxLines /\ out \in Seq(Events)
        /\ read \in 0 .. Len(sent) /\ got \in 0 .. read
    BY Nothing DEF Init
  <2>. QED
    BY <2>1, <2>2, <2>3, <2>4 DEF TypeOK
<1>2. OnlyDeltas /\ Counted /\ Reading /\ LoopLeft /\ OneTerminal /\ DoneIsHonest
  BY DEF Init, OnlyDeltas, Counted, Reading, LoopLeft, OneTerminal, DoneIsHonest, Succeeded
<1>. QED
  BY <1>1, <1>2 DEF GenerationInv

(* Failures before and within the response.                                *)
LEMMA FailStepInv ==
  ASSUME GenerationInv,
         pc \in {"connect", "post", "read", "body", "finish"}, pc' = "fail",
         err' \in Errors, err' # NoError, out' = out,
         read' \in 0 .. Len(sent), read' >= read,
         UNCHANGED <<stream, inbox, got, sawDone, upstream, nats>>
  PROVE  GenerationInv'
<1>0. TypeOK /\ Counted /\ Reading /\ LoopLeft
  BY DEF GenerationInv
<1>1. TypeOK'
  BY <1>0 DEF TypeOK, Phases, upstream
<1>2. Counted' /\ Reading' /\ LoopLeft'
  BY <1>0 DEF Counted, Reading, LoopLeft, upstream
<1>. QED
  BY <1>1, <1>2, SilentInv

LEMMA RequestInv ==
  ASSUME GenerationInv, Connect \/ ConnectFails \/ Headers \/ BadStatus \/ Broken \/ Timeout
  PROVE  GenerationInv'
<1>0. TypeOK /\ Counted /\ Reading /\ LoopLeft
  BY DEF GenerationInv
<1>1. CASE Connect
  <2>1. TypeOK'
    BY <1>0, <1>1 DEF Connect, TypeOK, Phases, Connections, request, progress
  <2>2. Counted' /\ Reading' /\ LoopLeft'
    BY <1>0, <1>1 DEF Connect, Counted, Reading, LoopLeft, request, progress
  <2>. QED
    BY <1>1, <2>1, <2>2, SilentInv DEF Connect
<1>2. CASE Headers
  <2>1. TypeOK'
    BY <1>0, <1>2 DEF Headers, TypeOK, Phases, request, progress, upstream
  <2>2. Counted' /\ Reading' /\ LoopLeft'
    BY <1>0, <1>2 DEF Headers, Counted, Reading, LoopLeft, request, progress, upstream
  <2>. QED
    BY <1>2, <2>1, <2>2, SilentInv DEF Headers
<1>3. CASE ConnectFails \/ BadStatus \/ Broken \/ Timeout
  <2>1. pc' = "fail" /\ err' \in Errors /\ err' # NoError
    BY <1>3, FailEffect DEF ConnectFails, BadStatus, Broken, Timeout, Codes
  <2>2. /\ pc \in {"connect", "post", "read", "body", "finish"} /\ out' = out
        /\ UNCHANGED <<request, progress, upstream, nats>>
    BY <1>3 DEF ConnectFails, BadStatus, Broken, Timeout, Connected
  <2>3. read' \in 0 .. Len(sent) /\ read' >= read
    BY <1>0, <2>2 DEF TypeOK, progress
  <2>. QED
    BY <2>1, <2>2, <2>3, FailStepInv DEF request, progress
<1>. QED
  BY <1>1, <1>2, <1>3

(* Lines that leave the loop running, or end it.                           *)
LEMMA LineInv ==
  ASSUME GenerationInv, SkipLine \/ OddLine \/ DoneLine \/ EndOfStream
  PROVE  GenerationInv'
<1>0. TypeOK /\ Counted /\ Reading /\ LoopLeft
  BY DEF GenerationInv
<1>1. CASE SkipLine
  <2>1. TypeOK'
    BY <1>0, <1>1 DEF SkipLine, Line, AfterJunk, TypeOK, Phases, request, upstream
  <2>2. Counted' /\ Reading' /\ LoopLeft'
    BY <1>0, <1>1 DEF SkipLine, Line, AfterJunk, Counted, Reading, LoopLeft, request, upstream
  <2>. QED
    BY <1>1, <2>1, <2>2, SilentInv DEF SkipLine, Line, AfterJunk
<1>2. CASE OddLine
  <2>1. pc' = "fail" /\ err' \in Errors /\ err' # NoError
    BY <1>2, FailEffect DEF OddLine, Codes
  <2>2. /\ pc = "read" /\ out' = out /\ UNCHANGED <<request, got, sawDone, upstream, nats>>
        /\ read' \in 0 .. Len(sent) /\ read' >= read
    BY <1>0, <1>2 DEF OddLine, Line, TypeOK
  <2>. QED
    BY <2>1, <2>2, FailStepInv DEF request
<1>3. CASE DoneLine
  <2>1. TypeOK'
    BY <1>0, <1>3 DEF DoneLine, Line, TypeOK, Phases, request, upstream
  <2>2. Counted'
    BY <1>0, <1>3 DEF DoneLine, Line, Counted, Contains, TypeOK, upstream
  <2>3. Reading' /\ LoopLeft'
    BY <1>0, <1>3 DEF DoneLine, Line, Reading, LoopLeft, request
  <2>. QED
    BY <1>3, <2>1, <2>2, <2>3, SilentInv DEF DoneLine, Line
<1>4. CASE EndOfStream
  <2>1. TypeOK'
    BY <1>0, <1>4 DEF EndOfStream, TypeOK, Phases, request, progress, upstream
  <2>2. Counted' /\ Reading' /\ LoopLeft'
    BY <1>0, <1>4 DEF EndOfStream, Counted, Reading, LoopLeft, request, progress, upstream
  <2>. QED
    BY <1>4, <2>1, <2>2, SilentInv DEF EndOfStream
<1>. QED
  BY <1>1, <1>2, <1>3, <1>4

(* A delta is published, fails to be, or has no addressee.                 *)
LEMMA RelayDeltaInv ==
  ASSUME GenerationInv, RelayDelta
  PROVE  GenerationInv'
<1>0. /\ TypeOK /\ Counted /\ Reading /\ LoopLeft /\ OnlyDeltas
      /\ pc = "read" /\ read < Len(sent) /\ sent[read + 1] = "delta" /\ read' = read + 1
      /\ UNCHANGED <<request, sawDone, upstream, nats>>
  BY DEF GenerationInv, RelayDelta, Line
<1>1. CASE inbox /\ nats /\ out' = Published(Delta) /\ got' = got + 1 /\ UNCHANGED <<pc, err>>
  <2>1. TypeOK'
    BY <1>0, <1>1, EventTypes DEF Published, TypeOK, request, upstream
  <2>2. Counted'
    BY <1>0, <1>1 DEF Counted, Contains, TypeOK, upstream
  <2>3. Reading' /\ LoopLeft'
    BY <1>0, <1>1 DEF Reading, LoopLeft, request
  <2>4. out \in Seq(Events) /\ out' = Append(out, Delta) /\ pc' = "read"
    BY <1>0, <1>1 DEF Published, TypeOK
  <2>5. \A i \in DOMAIN out' : out'[i] = Delta
    BY <1>0, <2>4 DEF OnlyDeltas
  <2>6. OnlyDeltas' /\ OneTerminal'
    BY <2>4, <2>5, EventTypes DEF OnlyDeltas, OneTerminal
  <2>7. ~Succeeded'
    BY <2>4, <2>5, EventTypes DEF Succeeded, Last
  <2>. QED
    BY <2>1, <2>2, <2>3, <2>6, <2>7 DEF GenerationInv, DoneIsHonest
<1>2. CASE inbox /\ ~nats /\ Fail("worker.internal", FALSE) /\ UNCHANGED <<out, got>>
  <2>1. pc' = "fail" /\ err' \in Errors /\ err' # NoError
    BY <1>2, FailEffect DEF Codes
  <2>2. read' \in 0 .. Len(sent) /\ read' >= read
    BY <1>0 DEF TypeOK
  <2>. QED
    BY <1>0, <1>2, <2>1, <2>2, FailStepInv DEF request
<1>3. CASE ~inbox /\ UNCHANGED <<out, got, pc, err>>
  <2>1. TypeOK'
    BY <1>0, <1>3 DEF TypeOK, request, upstream
  <2>2. Counted' /\ Reading' /\ LoopLeft'
    BY <1>0, <1>3 DEF Counted, Reading, LoopLeft, request, upstream
  <2>. QED
    BY <1>0, <1>3, <2>1, <2>2, SilentInv
<1>. QED
  BY <1>1, <1>2, <1>3 DEF RelayDelta

(* An answer: an honest one if the loop was left for a reason and the      *)
(* stream said something.                                                  *)
LEMMA AnsweredInv ==
  ASSUME GenerationInv, pc \in {"finish", "body"}, (pc = "finish" => ~NothingSaid),
         Answered, UNCHANGED <<request, progress, upstream, nats>>
  PROVE  GenerationInv'
<1>0. /\ TypeOK /\ Counted /\ Reading /\ LoopLeft
      /\ UNCHANGED <<stream, inbox, read, got, sawDone, up, sent, nats>>
  BY DEF GenerationInv, request, progress, upstream
<1>1. CASE inbox /\ ~nats /\ Fail("worker.internal", FALSE) /\ UNCHANGED out
  <2>1. pc' = "fail" /\ err' \in Errors /\ err' # NoError
    BY <1>1, FailEffect DEF Codes
  <2>2. read' \in 0 .. Len(sent) /\ read' >= read
    BY <1>0 DEF TypeOK
  <2>. QED
    BY <1>0, <1>1, <2>1, <2>2, FailStepInv DEF upstream
<1>2. CASE /\ pc' = "over" /\ err' = err
           /\ \/ out' = Append(out, Answer)
              \/ out' = out /\ ~(inbox /\ nats)
  <2>1. out' \in Seq(Events) /\ OnlyDeltas' /\ OneTerminal'
    BY <1>0, <1>2, LastStep, EventTypes
  <2>2. TypeOK'
    BY <1>0, <1>2, <2>1 DEF TypeOK, Phases
  <2>3. Counted' /\ Reading' /\ LoopLeft'
    BY <1>0, <1>2 DEF Counted, Reading, LoopLeft
  <2>4. stream => pc = "finish"
    BY <1>0 DEF Reading
  <2>5. stream => Contains(sent, "delta") \/ Contains(sent, "[DONE]")
    BY <1>0, <2>4 DEF Counted, NothingSaid, TypeOK
  <2>6. stream => Contains(sent, "[DONE]") \/ up = "eof"
    BY <1>0, <2>4 DEF Counted, LoopLeft
  <2>7. DoneIsHonest'
    BY <1>0, <2>5, <2>6 DEF DoneIsHonest
  <2>. QED
    BY <2>1, <2>2, <2>3, <2>7 DEF GenerationInv
<1>. QED
  BY <1>1, <1>2 DEF Answered, Published, AfterAnswer

LEMMA EndInv ==
  ASSUME GenerationInv, Finish \/ Body
  PROVE  GenerationInv'
<1>0. UNCHANGED <<request, progress, upstream, nats>>
  BY DEF Finish, Body
<1>1. CASE /\ pc \in {"finish", "body"}
           /\ pc = "finish" => ~NothingSaid
           /\ Answered
  BY <1>0, <1>1, AnsweredInv
<1>2. CASE /\ pc \in {"finish", "body"}
           /\ UNCHANGED out
           /\ Fail("transport.parse", FALSE) \/ Fail("worker.internal", FALSE)
  <2>1. pc' = "fail" /\ err' \in Errors /\ err' # NoError
    BY <1>2, FailEffect DEF Codes
  <2>2. read' \in 0 .. Len(sent) /\ read' >= read
    BY <1>0 DEF GenerationInv, TypeOK, progress
  <2>. QED
    BY <1>0, <1>2, <2>1, <2>2, FailStepInv DEF request, progress
<1>. QED
  BY <1>1, <1>2 DEF Finish, Body

LEMMA ReportInv ==
  ASSUME GenerationInv, Report
  PROVE  GenerationInv'
<1>0. /\ TypeOK /\ Counted /\ Reading /\ LoopLeft /\ pc = "fail" /\ pc' = "over"
      /\ UNCHANGED <<stream, inbox, read, got, sawDone, up, sent, nats>>
  BY DEF GenerationInv, Report, request, progress, upstream
<1>1. Failure(err) \in Events /\ IsTerminal(Failure(err)) /\ Failure(err) # Answer
  BY <1>0, EventTypes DEF TypeOK
<1>2. \/ out' = Append(out, Failure(err))
      \/ out' = out /\ ~(inbox /\ nats)
  BY DEF Report, Published
<1>3. out' \in Seq(Events) /\ OnlyDeltas' /\ OneTerminal' /\ ~Succeeded'
  BY <1>0, <1>1, <1>2, LastStep
<1>4. TypeOK'
  BY <1>0, <1>3, ErrorTypes DEF Report, TypeOK, Phases
<1>5. Counted' /\ Reading' /\ LoopLeft'
  BY <1>0 DEF Counted, Reading, LoopLeft
<1>. QED
  BY <1>3, <1>4, <1>5 DEF GenerationInv, DoneIsHonest

(* The upstream acts on an open connection only.                           *)
LEMMA UpstreamInv ==
  ASSUME GenerationInv, Respond \/ Emit \/ Close \/ Break
  PROVE  GenerationInv'
<1>0. /\ TypeOK /\ Counted /\ Reading /\ LoopLeft
      /\ pc \in {"post", "read", "body"}
      /\ UNCHANGED <<pc, stream, inbox, read, got, sawDone, err, out, nats>>
  BY DEF GenerationInv, Respond, Emit, Close, Break, Connected, request, progress
<1>1. CASE Respond \/ Close \/ Break
  <2>1. sent' = sent /\ up' \in Connections
    BY <1>0, <1>1 DEF Respond, Close, Break, Connections, TypeOK
  <2>2. TypeOK'
    BY <1>0, <2>1 DEF TypeOK
  <2>3. Counted' /\ Reading' /\ LoopLeft'
    BY <1>0, <2>1 DEF Counted, Reading, LoopLeft
  <2>. QED
    BY <1>0, <2>2, <2>3, SilentInv
<1>2. CASE Emit
  <2>1. PICK line \in Lines : sent' = Append(sent, line) /\ Len(sent) < MaxLines
                              /\ UNCHANGED up
    BY <1>2 DEF Emit
  <2>2. /\ sent \in Seq(Lines) /\ sent' \in Seq(Lines) /\ Len(sent') = Len(sent) + 1
        /\ MaxLines \in Nat
    BY <1>0, <2>1, MaxLinesAssumption DEF TypeOK
  <2>3. TypeOK'
    BY <1>0, <2>1, <2>2 DEF TypeOK
  <2>4. Counted'
    BY <1>0, <2>1, <2>2, LinesStay DEF Counted
  <2>5. Reading' /\ LoopLeft'
    BY <1>0 DEF Reading, LoopLeft
  <2>. QED
    BY <1>0, <2>3, <2>4, <2>5, SilentInv
<1>. QED
  BY <1>1, <1>2

LEMMA OutsideInv ==
  ASSUME GenerationInv, NatsCloses \/ Again
  PROVE  GenerationInv'
<1>1. CASE NatsCloses
  <2>1. TypeOK'
    BY <1>1 DEF NatsCloses, GenerationInv, TypeOK, request, progress, upstream
  <2>2. OnlyDeltas' /\ Counted' /\ Reading' /\ LoopLeft'
    BY <1>1 DEF NatsCloses, GenerationInv, OnlyDeltas, Counted, Reading, LoopLeft,
                request, progress, upstream
  <2>3. OneTerminal' /\ DoneIsHonest'
    BY <1>1 DEF NatsCloses, GenerationInv, OneTerminal, DoneIsHonest, Succeeded,
                request, progress, upstream
  <2>. QED
    BY <2>1, <2>2, <2>3 DEF GenerationInv
<1>2. CASE Again
  <2>1. TypeOK'
    <3>1. pc' \in Phases /\ up' \in Connections
      BY <1>2 DEF Again, Phases, Connections
    <3>2. {stream, inbox, sawDone, nats}' \subseteq BOOLEAN
      BY <1>2 DEF Again, GenerationInv, TypeOK
    <3>3. err' \in Errors /\ (pc' = "fail" <=> err' # NoError)
      BY <1>2, ErrorTypes DEF Again
    <3>4. /\ sent' \in Seq(Lines) /\ Len(sent') <= MaxLines /\ out' \in Seq(Events)
          /\ read' \in 0 .. Len(sent') /\ got' \in 0 .. read'
      BY <1>2, Nothing DEF Again
    <3>. QED
      BY <3>1, <3>2, <3>3, <3>4 DEF TypeOK
  <2>2. OnlyDeltas' /\ Counted' /\ Reading' /\ LoopLeft' /\ OneTerminal' /\ DoneIsHonest'
    BY <1>2 DEF Again, OnlyDeltas, Counted, Reading, LoopLeft, OneTerminal, DoneIsHonest, Succeeded
  <2>. QED
    BY <2>1, <2>2 DEF GenerationInv
<1>. QED
  BY <1>1, <1>2

LEMMA StepInv == GenerationInv /\ [Step]_vars => GenerationInv'
<1> SUFFICES ASSUME GenerationInv, [Step]_vars PROVE GenerationInv'
  OBVIOUS
<1>1. CASE WorkerStep
  BY <1>1, RequestInv, LineInv, RelayDeltaInv, EndInv, ReportInv DEF WorkerStep
<1>2. CASE Respond \/ Emit \/ Close \/ Break
  BY <1>2, UpstreamInv
<1>3. CASE NatsCloses \/ Again
  BY <1>3, OutsideInv
<1>4. CASE UNCHANGED vars
  <2>1. UNCHANGED <<pc, stream, inbox, read, got, sawDone, err, out, up, sent, nats>>
    BY <1>4 DEF vars, request, progress, upstream
  <2>. QED
    BY <2>1 DEF GenerationInv, TypeOK, OnlyDeltas, Counted, Reading, LoopLeft, OneTerminal,
                DoneIsHonest, Succeeded
<1>. QED
  BY <1>1, <1>2, <1>3, <1>4 DEF Step

(* The inductive invariant of the relay: what was read, and what was said of it. *)
THEOREM GenerationInvariance == Spec => []GenerationInv
<1>. QED
  BY InitInv, StepInv, PTL DEF Spec

(* Every variable of a generation keeps its type, and a failure always has *)
(* an error to report.                                                     *)
THEOREM GenerationTypeOKHolds == Spec => []TypeOK
<1>1. GenerationInv => TypeOK
  BY DEF GenerationInv
<1>. QED
  BY <1>1, GenerationInvariance, PTL

(* A caller with an inbox gets one terminal event, after all others, on    *)
(* every path through the except clauses, for responses of any length.     *)
THEOREM OneTerminalHolds == Spec => []OneTerminal
<1>1. GenerationInv => OneTerminal
  BY DEF GenerationInv
<1>. QED
  BY <1>1, GenerationInvariance, PTL

(* A stream that broke, failed or said nothing is never reported as done.  *)
THEOREM DoneIsHonestHolds == Spec => []DoneIsHonest
<1>1. GenerationInv => DoneIsHonest
  BY DEF GenerationInv
<1>. QED
  BY <1>1, GenerationInvariance, PTL

-----------------------------------------------------------------------------
(* No delta gets lost: a second invariant, on top of the first.            *)

(* The loop reads every line, up to the end or to [DONE], the last one.    *)
ReadOn ==
  /\ pc \in {"connect", "post"} => read = 0
  /\ pc = "finish" => read = Len(sent)
  /\ \A i \in DOMAIN sent : sent[i] = "[DONE]" => i = Len(sent)

(* chunk_count is what was published, and the deltas read so far.          *)
Relayed ==
  /\ ~inbox => out = <<>>
  /\ (pc # "over" /\ inbox) => Len(out) = got
  /\ (pc \in {"read", "finish"} /\ inbox) => got = Cardinality(DeltasIn(read))

RelayInv == ReadOn /\ Relayed /\ NothingDropped

LEMMA NoDeltasYet == Cardinality(DeltasIn(0)) = 0
<1>1. DeltasIn(0) = {}
  BY DEF DeltasIn
<1>. QED
  BY <1>1, FS_EmptySet

LEMMA OneMoreLine ==
  ASSUME NEW n \in Nat
  PROVE  Cardinality(DeltasIn(n + 1)) =
           IF sent[n + 1] = "delta" THEN Cardinality(DeltasIn(n)) + 1 ELSE Cardinality(DeltasIn(n))
<1>1. IsFiniteSet(DeltasIn(n))
  <2>1. IsFiniteSet(1 .. n) /\ DeltasIn(n) \subseteq 1 .. n
    BY FS_Interval DEF DeltasIn
  <2>. QED
    BY <2>1, FS_Subset
<1>2. n + 1 \notin DeltasIn(n)
  BY DEF DeltasIn
<1>3. CASE sent[n + 1] = "delta"
  <2>1. DeltasIn(n + 1) = DeltasIn(n) \cup {n + 1}
    BY <1>3 DEF DeltasIn
  <2>. QED
    BY <1>1, <1>2, <1>3, <2>1, FS_AddElement
<1>4. CASE sent[n + 1] # "delta"
  <2>1. DeltasIn(n + 1) = DeltasIn(n)
    BY <1>4 DEF DeltasIn
  <2>. QED
    BY <1>4, <2>1
<1>. QED
  BY <1>3, <1>4

(* An answer is always the last event of an inbox.                         *)
LEMMA NoAnswerYet ==
  ASSUME GenerationInv', pc' # "over"
  PROVE  NothingDropped'
<1>1. out' \in Seq(Events) /\ \A i \in DOMAIN out' : out'[i] = Delta
  BY DEF GenerationInv, TypeOK, OnlyDeltas
<1>2. ~Succeeded'
  <2>1. CASE out' = <<>>
    BY <2>1 DEF Succeeded
  <2>2. CASE out' # <<>>
    <3>1. Len(out') \in DOMAIN out'
      BY <1>1, <2>2
    <3>. QED
      BY <1>1, <3>1, EventTypes DEF Succeeded, Last
  <2>. QED
    BY <2>1, <2>2
<1>. QED
  BY <1>2 DEF NothingDropped

(* Before the response is read, and when something fails.                  *)
LEMMA RequestRelay ==
  ASSUME GenerationInv, RelayInv, GenerationInv',
         \/ Connect \/ ConnectFails \/ Headers \/ BadStatus \/ Broken \/ Timeout
         \/ Respond \/ Close \/ Break
  PROVE  RelayInv'
<1> USE DEF RelayInv
<1>1. /\ UNCHANGED <<stream, inbox, read, got, out, sent>> /\ pc # "over" /\ pc' # "over"
      /\ pc' = pc \/ pc' = "fail" \/ pc' = "body" \/ (pc = "connect" /\ pc' = "post")
           \/ (pc = "post" /\ pc' = "read")
  BY DEF Connect, ConnectFails, Headers, BadStatus, Broken, Timeout, Respond, Close, Break, Fail,
         Connected, request, progress, upstream
<1>2. ReadOn'
  BY <1>1 DEF ReadOn
<1>3. Relayed'
  <2>1. pc = "post" => read = 0 /\ got = 0
    BY DEF ReadOn, GenerationInv, TypeOK
  <2>2. DeltasIn(read)' = DeltasIn(read)
    BY <1>1 DEF DeltasIn
  <2>. QED
    BY <1>1, <2>1, <2>2, NoDeltasYet DEF Relayed
<1>. QED
  BY <1>1, <1>2, <1>3, NoAnswerYet

LEMMA EmitRelay ==
  ASSUME GenerationInv, RelayInv, GenerationInv', Emit
  PROVE  RelayInv'
<1> USE DEF RelayInv
<1>1. /\ UNCHANGED <<pc, stream, inbox, read, got, out>> /\ pc \in {"post", "read", "body"}
      /\ ~Contains(sent, "[DONE]")
  BY DEF Emit, Connected, request, progress
<1>2. PICK line \in Lines : sent' = Append(sent, line)
  BY DEF Emit
<1>3. /\ sent \in Seq(Lines) /\ read \in 0 .. Len(sent)
      /\ Len(sent') = Len(sent) + 1 /\ DOMAIN sent' = 1 .. Len(sent) + 1
      /\ \A i \in 1 .. Len(sent) : sent'[i] = sent[i] /\ sent[i] # "[DONE]"
  BY <1>1, <1>2 DEF GenerationInv, TypeOK, Contains
<1>4. ReadOn'
  BY <1>1, <1>3 DEF ReadOn
<1>5. Relayed'
  <2>1. \A i \in 1 .. read : sent'[i] = sent[i]
    BY <1>3
  <2>2. DeltasIn(read)' = DeltasIn(read)
    BY <1>1, <2>1 DEF DeltasIn
  <2>. QED
    BY <1>1, <2>2 DEF Relayed
<1>. QED
  BY <1>1, <1>4, <1>5, NoAnswerYet

(* One line is read, or there are no more.                                 *)
LEMMA LineRelay ==
  ASSUME GenerationInv, RelayInv, GenerationInv',
         SkipLine \/ OddLine \/ DoneLine \/ RelayDelta \/ EndOfStream
  PROVE  RelayInv'
<1> USE DEF RelayInv
<1>1. /\ UNCHANGED <<stream, inbox, sent>> /\ pc = "read" /\ pc' \in {"read", "finish", "fail"}
      /\ read \in Nat /\ sent \in Seq(Lines) /\ Len(sent) \in Nat
  <2>1. read \in Nat /\ sent \in Seq(Lines) /\ Len(sent) \in Nat
    BY DEF GenerationInv, TypeOK
  <2>2. /\ UNCHANGED <<stream, inbox, sent>>
        /\ pc = "read" /\ pc' \in {"read", "finish", "fail"}
    <3>1. CASE SkipLine \/ OddLine \/ DoneLine \/ EndOfStream
      BY <3>1 DEF SkipLine, OddLine, DoneLine, EndOfStream, Line, AfterJunk, Fail, request, upstream
    <3>2. CASE RelayDelta
      BY <3>2 DEF RelayDelta, Line, Fail, request, upstream
    <3>. QED
      BY <3>1, <3>2
  <2>. QED
    BY <2>1, <2>2
<1>2. DeltasIn(read + 1)' = DeltasIn(read' + 1) /\ \A n \in Nat : DeltasIn(n)' = DeltasIn(n)
  BY <1>1 DEF DeltasIn
<1>3. CASE EndOfStream
  <2>1. read' = read /\ got' = got /\ out' = out /\ read = Len(sent)
    BY <1>3 DEF EndOfStream, progress
  <2>2. ReadOn'
    BY <1>1, <2>1 DEF ReadOn
  <2>3. Relayed'
    BY <1>1, <1>2, <2>1 DEF Relayed
  <2>. QED
    BY <1>1, <2>2, <2>3, NoAnswerYet
<1>4. CASE SkipLine \/ OddLine \/ DoneLine
  <2>1. /\ read' = read + 1 /\ got' = got /\ out' = out /\ read < Len(sent)
        /\ sent[read + 1] # "delta"
        /\ pc' = "finish" => sent[read + 1] = "[DONE]"
    BY <1>4 DEF SkipLine, OddLine, DoneLine, Line, AfterJunk, Fail
  <2>2. ReadOn'
    BY <1>1, <2>1 DEF ReadOn
  <2>3. Cardinality(DeltasIn(read + 1)) = Cardinality(DeltasIn(read))
    BY <1>1, <2>1, OneMoreLine
  <2>4. Relayed'
    BY <1>1, <1>2, <2>1, <2>3 DEF Relayed
  <2>. QED
    BY <1>1, <2>2, <2>4, NoAnswerYet
<1>5. CASE RelayDelta
  <2>1. /\ read' = read + 1 /\ sent[read + 1] = "delta" /\ pc' # "finish"
        /\ inbox => \/ out' = Append(out, Delta) /\ got' = got + 1
                    \/ UNCHANGED <<out, got>> /\ pc' = "fail"
        /\ ~inbox => UNCHANGED out
    BY <1>1, <1>5 DEF RelayDelta, Line, Published, Fail
  <2>2. ReadOn'
    BY <1>1, <2>1 DEF ReadOn
  <2>3. Cardinality(DeltasIn(read + 1)) = Cardinality(DeltasIn(read)) + 1
    BY <1>1, <2>1, OneMoreLine
  <2>4. out \in Seq(Events)
    BY DEF GenerationInv, TypeOK
  <2>5. Relayed'
    BY <1>1, <1>2, <2>1, <2>3, <2>4 DEF Relayed
  <2>. QED
    BY <1>1, <2>2, <2>5, NoAnswerYet
<1>. QED
  BY <1>3, <1>4, <1>5

(* The answer comes after all deltas, and after the last line is read.     *)
LEMMA EndRelay ==
  ASSUME GenerationInv, RelayInv, GenerationInv', Finish \/ Body \/ Report
  PROVE  RelayInv'
<1> USE DEF RelayInv
<1>1. /\ UNCHANGED <<stream, inbox, read, got, sent>> /\ pc \in {"finish", "body", "fail"}
      /\ pc' \in {"fail", "over"}
      /\ out' = out \/ (inbox /\ \E e : out' = Append(out, e))
      /\ pc' = "fail" => out' = out
  BY DEF Finish, Body, Report, Answered, AfterAnswer, Fail, Published, request, progress, upstream
<1>2. ReadOn'
  BY <1>1 DEF ReadOn
<1>3. Relayed'
  BY <1>1 DEF Relayed
<1>4. CASE pc' = "over"
  <2>1. out \in Seq(Events) /\ \A i \in DOMAIN out : out[i] = Delta
    BY <1>1 DEF GenerationInv, TypeOK, OnlyDeltas
  <2>2. SUFFICES ASSUME Succeeded', stream'
                 PROVE  Len(out') - 1 = Cardinality(DeltasIn(Len(sent)))'
    BY <1>2, <1>3 DEF NothingDropped
  <2>3. out' # out
    <3>1. out # <<>> => Len(out) \in DOMAIN out
      BY <2>1
    <3>. QED
      BY <2>1, <2>2, <3>1, EventTypes DEF Succeeded, Last
  <2>4. inbox /\ Len(out') = Len(out) + 1
    BY <1>1, <2>1, <2>3
  <2>5. pc = "finish"
    <3>1. pc # "body"
      BY <1>1, <2>2 DEF GenerationInv, Reading
    <3>2. ASSUME pc = "fail" PROVE FALSE
      <4>1. Report
        BY <3>2 DEF Finish, Body
      <4>2. out' = Append(out, Failure(err)) /\ err \in Errors
        BY <2>3, <4>1 DEF Report, Published, GenerationInv, TypeOK
      <4>3. Last(out') = Failure(err)
        BY <2>1, <4>2, EventTypes DEF Last
      <4>. QED
        BY <2>2, <4>2, <4>3, EventTypes DEF Succeeded
    <3>. QED
      BY <1>1, <3>1, <3>2
  <2>6. Len(out) = Cardinality(DeltasIn(Len(sent)))
    BY <2>4, <2>5 DEF Relayed, ReadOn
  <2>7. DeltasIn(Len(sent))' = DeltasIn(Len(sent))
    BY <1>1 DEF DeltasIn
  <2>. QED
    BY <2>1, <2>4, <2>6, <2>7
<1>. QED
  BY <1>1, <1>2, <1>3, <1>4, NoAnswerYet

LEMMA OutsideRelay ==
  ASSUME GenerationInv, RelayInv, GenerationInv', NatsCloses \/ Again \/ UNCHANGED vars
  PROVE  RelayInv'
<1> USE DEF RelayInv
<1>1. CASE NatsCloses \/ UNCHANGED vars
  <2>1. UNCHANGED <<pc, stream, inbox, read, got, out, sent>>
    BY <1>1 DEF NatsCloses, vars, request, progress, upstream
  <2>. QED
    BY <2>1 DEF ReadOn, Relayed, NothingDropped, DeltasIn, Succeeded
<1>2. CASE Again
  <2>1. pc' = "connect" /\ read' = 0 /\ got' = 0 /\ out' = <<>> /\ sent' = <<>>
    BY <1>2 DEF Again
  <2>. QED
    BY <2>1 DEF ReadOn, Relayed, NothingDropped, Succeeded
<1>. QED
  BY <1>1, <1>2

LEMMA RelayInitInv == Init => RelayInv
<1>. QED
  BY DEF Init, RelayInv, ReadOn, Relayed, NothingDropped, Succeeded

LEMMA RelayStepInv == GenerationInv /\ GenerationInv' /\ RelayInv /\ [Step]_vars => RelayInv'
<1>. QED
  BY RequestRelay, EmitRelay, LineRelay, EndRelay, OutsideRelay DEF Step, WorkerStep

(* What is published is counted, and what is counted is what was read.     *)
THEOREM RelayInvariance == Spec => []RelayInv
<1>. QED
  BY RelayInitInv, RelayStepInv, GenerationInvariance, PTL DEF Spec

(* A caller that is told "done" has every delta the upstream has sent, for *)
(* responses of any length: lines that are skipped swallow none.           *)
THEOREM NothingDroppedHolds == Spec => []NothingDropped
<1>1. RelayInv => NothingDropped
  BY DEF RelayInv
<1>. QED
  BY <1>1, RelayInvariance, PTL
=============================================================================
