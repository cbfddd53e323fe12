------------------------------ MODULE Generation ------------------------------
(***************************************************************************)
(* One text generation of the NATS worker (GenerationMixin): the POST to   *)
(* the OpenAI-compatible upstream, the relay of its event stream to the    *)
(* caller's inbox, and the one event that ends it.  Module Admission has   *)
(* the slot it runs in; generations share nothing but the upstream and the *)
(* NATS connection, so one of them is modelled, again and again.           *)
(*                                                                         *)
(* One action is one segment between two awaits, or a step of the upstream *)
(* (LiteLLM and the engine behind it) or of the NATS connection.           *)
(***************************************************************************)
EXTENDS Naturals, Sequences, FiniteSets, SequencesExt

CONSTANT MaxLines   \* bound on the lines of one response

ASSUME MaxLinesAssumption == MaxLines \in Nat \ {0}

VARIABLES pc,       \* where the generation is
          stream,   \* payload["stream"]
          inbox,    \* msg.reply is set
          read,     \* lines of the response the worker has read
          got,      \* chunk_count
          sawDone,  \* saw_done
          err,      \* we, the WorkerError of the failure
          out,      \* what was published to the inbox
          up,       \* the upstream connection
          sent,     \* lines the upstream has sent
          nats      \* the NATS connection accepts publications

request == <<stream, inbox>>
progress == <<read, got, sawDone>>
upstream == <<up, sent>>
vars == <<pc, request, progress, err, out, upstream, nats>>

(* "delta": content; "other": JSON without content (a role, an error       *)
(* object); "odd": JSON of another shape; "junk": anything else.           *)
Lines == {"delta", "other", "odd", "junk", "[DONE]"}
Phases == {"connect", "post", "read", "body", "finish", "fail", "over"}

(* Connections: answering nothing yet, a 2xx response, its end, an error   *)
(* status, or broken.                                                      *)
Statuses == {"5xx", "429", "4xx"}
Connections == {"none", "silent", "open", "eof", "broken"} \cup Statuses

NoError == [code |-> "none", retryable |-> FALSE]
WorkerError(code, retryable) == [code |-> code, retryable |-> retryable]
Codes == {"none", "worker.timeout", "worker.internal", "upstream.5xx",
          "upstream.unavailable", "transport.parse"}
Errors == [code : Codes, retryable : BOOLEAN]

(* Events of the inbox; an answer is a done event, or one whole reply.     *)
Delta == [kind |-> "delta"]
Answer == [kind |-> "done"]
Failure(e) == [kind |-> "error", error |-> e]
Events == {Delta, Answer} \cup {Failure(e) : e \in Errors}
IsTerminal(e) == e.kind # "delta"

(* One of the except clauses; mutated: it forgets to say what happened.    *)
FailUnsaid(code, retryable) == pc' = "fail" /\ err' = NoError
Fail(code, retryable) == pc' = "fail" /\ err' = WorkerError(code, retryable)

(* Publication, when the connection is open; publish() raises otherwise.   *)
Published(e) == Append(out, e)

(* Inside "async with self._client.stream(...)", or the post.              *)
Connected == pc \in {"post", "read", "body"}

-----------------------------------------------------------------------------
(* The request.                                                            *)

Connect ==
  /\ pc = "connect"
  /\ pc' = "post" /\ up' = "silent"
  /\ UNCHANGED <<request, progress, err, out, sent, nats>>

(* ConnectError; ConnectTimeout and PoolTimeout are timeouts.              *)
ConnectFails ==
  /\ pc = "connect"
  /\ Fail("upstream.unavailable", TRUE) \/ Fail("worker.timeout", TRUE)
  /\ UNCHANGED <<request, progress, out, upstream, nats>>

Headers ==
  /\ pc = "post" /\ up \in {"open", "eof"}
  /\ pc' = IF stream THEN "read" ELSE "body"
  /\ UNCHANGED <<request, progress, err, out, upstream, nats>>

BadStatus ==
  /\ pc = "post"
  /\ \/ up = "5xx" /\ Fail("upstream.5xx", TRUE)
     \/ up = "429" /\ Fail("upstream.unavailable", TRUE)
     \/ up = "4xx" /\ Fail("upstream.unavailable", FALSE)
  /\ UNCHANGED <<request, progress, out, upstream, nats>>

(* ReadError, RemoteProtocolError: neither a timeout nor a ConnectError.   *)
Broken ==
  /\ Connected /\ up = "broken"
  /\ Fail("worker.internal", FALSE)
  /\ UNCHANGED <<request, progress, out, upstream, nats>>

(* Nothing to read for 120 s; mutated: no timeout is set.                  *)
QuietNever == FALSE
Quiet == up \in {"silent", "open"} /\ (stream => read = Len(sent))

Timeout ==
  /\ Connected /\ Quiet
  /\ Fail("worker.timeout", TRUE)
  /\ UNCHANGED <<request, progress, out, upstream, nats>>

-----------------------------------------------------------------------------
(* _stream_response: a line, or the end of the response.                   *)

Line(kind) == pc = "read" /\ read < Len(sent) /\ sent[read + 1] = kind /\ read' = read + 1

(* "continue"; mutated: "break".                                           *)
AfterJunkBreak == "finish"
AfterJunk == "read"

SkipLine ==
  /\ Line("junk") \/ Line("other")
  /\ pc' = AfterJunk
  /\ UNCHANGED <<request, got, sawDone, err, out, upstream, nats>>

(* Without an inbox a delta is neither published nor counted.              *)
RelayDelta ==
  /\ Line("delta")
  /\ \/ inbox /\ nats /\ out' = Published(Delta) /\ got' = got + 1 /\ UNCHANGED <<pc, err>>
     \/ inbox /\ ~nats /\ Fail("worker.internal", FALSE) /\ UNCHANGED <<out, got>>
     \/ ~inbox /\ UNCHANGED <<out, got, pc, err>>
  /\ UNCHANGED <<request, sawDone, upstream, nats>>

(* IndexError, AttributeError.                                             *)
OddLine ==
  /\ Line("odd")
  /\ Fail("worker.internal", FALSE)
  /\ UNCHANGED <<request, got, sawDone, out, upstream, nats>>

DoneLine ==
  /\ Line("[DONE]")
  /\ sawDone' = TRUE
  /\ pc' = "finish"
  /\ UNCHANGED <<request, got, err, out, upstream, nats>>

EndOfStream ==
  /\ pc = "read" /\ read = Len(sent) /\ up = "eof"
  /\ pc' = "finish"
  /\ UNCHANGED <<request, progress, err, out, upstream, nats>>

(* The test on chunk_count and saw_done; mutated: there is none.           *)
NothingSaidNever == FALSE
NothingSaid == got = 0 /\ ~sawDone

(* After the answer _run_generation returns; mutated: it goes on to the    *)
(* error report.                                                           *)
AfterAnswerFail == "fail"
AfterAnswer == "over"

Answered ==
  \/ inbox /\ nats /\ out' = Published(Answer) /\ pc' = AfterAnswer /\ UNCHANGED err
  \/ inbox /\ ~nats /\ Fail("worker.internal", FALSE) /\ UNCHANGED out
  \/ ~inbox /\ pc' = AfterAnswer /\ UNCHANGED <<err, out>>

Finish ==
  /\ pc = "finish"
  /\ \/ NothingSaid /\ Fail("transport.parse", FALSE) /\ UNCHANGED out
     \/ ~NothingSaid /\ Answered
  /\ UNCHANGED <<request, progress, upstream, nats>>

-----------------------------------------------------------------------------
(* _blocking_response: a good body, one that is not JSON, or one without   *)
(* choices.                                                                *)
Body ==
  /\ pc = "body" /\ up = "eof"
  /\ \/ Answered
     \/ Fail("transport.parse", FALSE) /\ UNCHANGED out
     \/ Fail("worker.internal", FALSE) /\ UNCHANGED out
  /\ UNCHANGED <<request, progress, upstream, nats>>

(* The error event; its own failure is swallowed.                          *)
Report ==
  /\ pc = "fail"
  /\ out' = IF inbox /\ nats THEN Published(Failure(err)) ELSE out
  /\ pc' = "over" /\ err' = NoError
  /\ UNCHANGED <<request, progress, upstream, nats>>

-----------------------------------------------------------------------------
(* The upstream, as long as the worker holds the connection.               *)

Respond ==
  /\ Connected /\ up = "silent"
  /\ up' \in {"open"} \cup Statuses
  /\ UNCHANGED <<pc, request, progress, err, out, sent, nats>>

Emit ==
  /\ Connected /\ up = "open" /\ stream /\ Len(sent) < MaxLines
  /\ ~Contains(sent, "[DONE]")
  /\ \E line \in Lines : sent' = Append(sent, line)
  /\ UNCHANGED <<pc, request, progress, err, out, up, nats>>

Close ==
  /\ Connected /\ up = "open"
  /\ up' = "eof"
  /\ UNCHANGED <<pc, request, progress, err, out, sent, nats>>

(* The connection breaks: a crash, or the engine that a swap stops when    *)
(* its drain has timed out.                                                *)
Break ==
  /\ Connected /\ up \in {"silent", "open"}
  /\ up' = "broken"
  /\ UNCHANGED <<pc, request, progress, err, out, sent, nats>>

(* The NATS client is closed for good when the worker shuts down.          *)
NatsCloses ==
  /\ nats
  /\ nats' = FALSE
  /\ UNCHANGED <<pc, request, progress, err, out, upstream>>

-----------------------------------------------------------------------------
Init ==
  /\ pc = "connect"
  /\ stream \in BOOLEAN /\ inbox \in BOOLEAN
  /\ read = 0 /\ got = 0 /\ sawDone = FALSE
  /\ err = NoError /\ out = <<>>
  /\ up = "none" /\ sent = <<>>
  /\ nats = TRUE

(* The worker takes the next request, on a connection of its own.          *)
Again ==
  /\ pc = "over" /\ nats
  /\ pc' = "connect"
  /\ stream' \in BOOLEAN /\ inbox' \in BOOLEAN
  /\ read' = 0 /\ got' = 0 /\ sawDone' = FALSE
  /\ err' = NoError /\ out' = <<>>
  /\ up' = "none" /\ sent' = <<>>
  /\ UNCHANGED nats

WorkerStep ==
  \/ Connect \/ ConnectFails \/ Headers \/ BadStatus \/ Broken \/ Timeout
  \/ SkipLine \/ RelayDelta \/ OddLine \/ DoneLine \/ EndOfStream
  \/ Finish \/ Body \/ Report

Step ==
  \/ WorkerStep
  \/ Respond \/ Emit \/ Close \/ Break
  \/ NatsCloses
  \/ Again

Spec == Init /\ [][Step]_vars

(* The event loop runs the task, whose reads have a timeout; nothing is    *)
(* assumed of the upstream.                                                *)
FairSpec == Spec /\ WF_vars(WorkerStep)

-----------------------------------------------------------------------------
(* Properties.                                                             *)

(* Types; a generation that failed has an error to report.                 *)
TypeOK ==
  /\ pc \in Phases
  /\ {stream, inbox, sawDone, nats} \subseteq BOOLEAN
  /\ sent \in Seq(Lines) /\ Len(sent) <= MaxLines
  /\ read \in 0 .. Len(sent) /\ got \in 0 .. read
  /\ err \in Errors /\ (pc = "fail" <=> err # NoError)
  /\ out \in Seq(Events)
  /\ up \in Connections

(* A caller with an inbox gets exactly one terminal event, after every     *)
(* other, on every path, as long as the connection is open.                *)
OneTerminal ==
  /\ \A i \in DOMAIN out : IsTerminal(out[i]) => i = Len(out) /\ pc = "over"
  /\ (pc = "over" /\ inbox /\ nats) => (out # <<>> /\ IsTerminal(Last(out)))

Succeeded == out # <<>> /\ Last(out) = Answer

(* A stream that failed, or said nothing at all, is not reported as done.  *)
DoneIsHonest ==
  (Succeeded /\ stream) =>
    /\ Contains(sent, "delta") \/ Contains(sent, "[DONE]")
    /\ Contains(sent, "[DONE]") \/ up = "eof"

(* The deltas among the first n lines.                                     *)
DeltasIn(n) == {i \in 1 .. n : sent[i] = "delta"}

(* A caller that is told "done" has every delta the upstream has sent.     *)
NothingDropped ==
  (Succeeded /\ stream) => Len(out) - 1 = Cardinality(DeltasIn(Len(sent)))

(* Every generation ends, and gives its slot back.                         *)
GenerationEnds == pc = "connect" ~> pc = "over"
=============================================================================
