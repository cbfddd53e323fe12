----------------------------- MODULE FleetClient -----------------------------
(***************************************************************************)
(* The operator's side of the lifecycle operations: the commands swap,     *)
(* stop, status, list and reload-catalog, NatsClient.request and           *)
(* request_fleet, and several workers on one set of NATS subjects.         *)
(*                                                                         *)
(* A worker is reduced to what its client can tell: requests wait for the  *)
(* lifecycle lock in the order of arrival (module Worker), and one action  *)
(* handles the one in front.  The operator runs one command at a time, but *)
(* a command that has timed out leaves its request where it is.            *)
(***************************************************************************)
EXTENDS Naturals, Sequences, FiniteSets

CONSTANTS Hosts,    \* workers, by host name
          Models,   \* names a swap may carry
          NoModel,  \* no engine runs
          MaxCmds   \* bound: commands of the operator

ASSUME MaxCmdsAssumption == MaxCmds \in Nat
ASSUME NoModelAssumption == NoModel \notin Models

VARIABLES queue,    \* host -> requests at its lifecycle lock, in order
          serving,  \* host -> the model its engine serves
          linked,   \* hosts whose worker is connected to NATS
          cmd,      \* the command that runs, or ran last
          id,       \* its request_id, and its inbox
          phase,    \* where it is
          inbox,    \* replies that have arrived and are not read
          late,     \* its --timeout has passed since it published
          oks,      \* hosts it reports OK
          failed,   \* hosts it reports an error of
          rc,       \* its exit code
          done,     \* hosts that did its request
          inTime    \* hosts that replied to it before its --timeout

hostVars == <<queue, serving, linked>>
resultVars == <<oks, failed, rc>>
auditVars == <<done, inTime>>
vars == <<hostVars, cmd, id, phase, inbox, late, resultVars, auditVars>>

(* The value of LifecycleRequest.host that every worker accepts.           *)
Everyone == "everyone"

(* "request": waiting for one reply; "collect": in the loop of             *)
(* request_fleet; "over": the process has exited.                          *)
Phases == {"request", "collect", "over"}

(* What each command sends, from its options and the catalog it reads.     *)
SwapCommands ==
  [op : {"swap"}, model : Models, host : Hosts, fleet : {FALSE}]
    \cup [op : {"swap"}, model : Models, host : {Everyone}, fleet : {TRUE}]
StopCommands == [op : {"stop"}, model : {NoModel}, host : Hosts, fleet : {FALSE}]
StatusCommands ==
  [op : {"status"}, model : {NoModel}, host : Hosts, fleet : {FALSE}]
    \cup [op : {"status"}, model : {NoModel}, host : {Everyone}, fleet : {TRUE}]
ListCommands ==
  [op : {"list"}, model : {NoModel}, host : Hosts, fleet : {FALSE}]
    \cup [op : {"list"}, model : {NoModel}, host : {Everyone}, fleet : {TRUE}]
(* --host is accepted and ignored; the first reply of the fleet decides.   *)
ReloadCommands ==
  [op : {"reload-catalog"}, model : {NoModel}, host : {Everyone}, fleet : {FALSE}]

Commands ==
  SwapCommands \cup StopCommands \cup StatusCommands \cup ListCommands \cup ReloadCommands

Request(c, n) == [id |-> n, op |-> c.op, model |-> c.model, host |-> c.host]
Replies == [from : Hosts, ok : BOOLEAN]
(* The server's status message 503, which carries no response.             *)
NoResponders == [from |-> "server"]

-----------------------------------------------------------------------------
(* The command starts.                                                     *)

NothingHeard == oks' = {} /\ failed' = {} /\ done' = {} /\ inTime' = {}

(* The lifecycle lock is fair: requests wait in the order of arrival.  The *)
(* mutated form lets the youngest go first.                                *)
QueuedFirst(q, r) == <<r>> \o q
Queued(q, r) == Append(q, r)

(* The publication: every subscribed worker gets the request once; the     *)
(* server answers when there is none.                                      *)
Send(c) ==
  /\ phase = "over" /\ id < MaxCmds
  /\ cmd' = c /\ id' = id + 1
  /\ queue' = [h \in Hosts |-> IF h \in linked THEN Queued(queue[h], Request(c, id + 1))
                               ELSE queue[h]]
  /\ inbox' = IF linked = {} THEN <<NoResponders>> ELSE <<>>
  /\ late' = FALSE
  /\ phase' = IF c.fleet THEN "collect" ELSE "request"
  /\ rc' = 0
  /\ NothingHeard
  /\ UNCHANGED <<serving, linked>>

(* The model is not in the catalog, there are no operator credentials, or  *)
(* connect() fails: nothing is sent.                                       *)
NotSent(c) ==
  /\ phase = "over" /\ id < MaxCmds
  /\ cmd' = c /\ id' = id + 1
  /\ rc' = 1 /\ late' = FALSE
  /\ NothingHeard
  /\ UNCHANGED <<hostVars, phase, inbox>>

(* --timeout has passed.  A client that waits reads what has arrived at    *)
(* once, long before its clock moves on.                                   *)
TimeoutPasses ==
  /\ id > 0 /\ ~late /\ inbox = <<>>
  /\ late' = TRUE
  /\ UNCHANGED <<hostVars, cmd, id, phase, inbox, resultVars, auditVars>>

-----------------------------------------------------------------------------
(* One host, or the first of all: NatsClient.request and                   *)
(* lifecycle_nats_request.                                                 *)

(* typer.Exit, and the connection is drained: the inbox is gone.           *)
Exit(code, ok, bad) ==
  /\ phase' = "over" /\ rc' = code /\ oks' = ok /\ failed' = bad
  /\ inbox' = <<>>
  /\ UNCHANGED <<hostVars, cmd, id, late, auditVars>>

(* The host the operator is told about: replies are not asked where they   *)
(* come from, unless it was everybody's to answer.                         *)
Named(m) == IF cmd.host = Everyone THEN {m.from} ELSE {cmd.host}

RequestAnswered ==
  /\ phase = "request" /\ inbox # <<>> /\ Head(inbox) # NoResponders
  /\ IF Head(inbox).ok THEN Exit(0, Named(Head(inbox)), {})
     ELSE Exit(1, {}, Named(Head(inbox)))

(* NoRespondersError, and any other exception.                             *)
RequestRefused ==
  /\ phase = "request" /\ inbox # <<>> /\ Head(inbox) = NoResponders
  /\ Exit(1, {}, {})

(* The mutated form waits without a timeout.                               *)
RequestTimesOutNever == FALSE /\ UNCHANGED vars
RequestTimesOut ==
  /\ phase = "request" /\ late
  /\ Exit(1, {}, {})

-----------------------------------------------------------------------------
(* The fleet: the loop of NatsClient.request_fleet.                        *)

Collect(ok, bad) ==
  /\ inbox' = Tail(inbox)
  /\ oks' = oks \cup ok /\ failed' = failed \cup bad
  /\ UNCHANGED <<hostVars, cmd, id, phase, late, rc, auditVars>>

CollectReply ==
  /\ phase = "collect" /\ inbox # <<>> /\ Head(inbox) # NoResponders
  /\ IF Head(inbox).ok THEN Collect({Head(inbox).from}, {})
     ELSE Collect({}, {Head(inbox).from})

(* What is not a LifecycleResponse is skipped.                             *)
CollectJunk ==
  /\ phase = "collect" /\ inbox # <<>> /\ Head(inbox) = NoResponders
  /\ Collect({}, {})

(* swap --fleet fails on an error reply, and on a window without an OK     *)
(* (timeout_reached is set whenever the loop has ended); status --fleet    *)
(* and list --fleet only print.  The mutated form exits with the number of *)
(* errors.                                                                 *)
SwapFleetCodeCount == IF failed = {} /\ oks = {} THEN 1 ELSE Cardinality(failed)
SwapFleetCode == IF failed # {} \/ oks = {} THEN 1 ELSE 0
FleetCode == IF cmd.op = "swap" THEN SwapFleetCode ELSE 0

(* remaining <= 0 before, or wait_for's timeout during next_msg().         *)
WindowEnds ==
  /\ phase = "collect" /\ late
  /\ Exit(FleetCode, oks, failed)

(* next_msg() raises TimeoutError of its own when nothing comes for a      *)
(* second: it is called without a timeout, whose default is 1.0.           *)
NothingComes ==
  /\ phase = "collect" /\ inbox = <<>>
  /\ Exit(FleetCode, oks, failed)

ClientStep ==
  \/ RequestAnswered \/ RequestRefused \/ RequestTimesOut
  \/ CollectReply \/ CollectJunk \/ WindowEnds \/ NothingComes

-----------------------------------------------------------------------------
(* The workers.                                                            *)

(* The host filter of handle_lifecycle; the mutated form takes everything. *)
ForMeAny(h, r) == TRUE
ForMe(h, r) == r.host \in {Everyone, h}

(* What an operation leaves running, and its reply: the operations of      *)
(* module Worker.  A swap fails before it has stopped anything or after;   *)
(* all but status may raise, and then nobody replies.                      *)
Outcomes(r) ==
  CASE r.op = "swap" -> {[runs |-> "new", reply |-> "ok"], [runs |-> "same", reply |-> "error"],
                         [runs |-> "none", reply |-> "error"], [runs |-> "same", reply |-> "none"]}
    [] r.op = "stop" -> {[runs |-> "none", reply |-> "ok"], [runs |-> "same", reply |-> "none"]}
    [] r.op = "status" -> {[runs |-> "same", reply |-> "ok"]}
    [] r.op = "list" -> [runs : {"same"}, reply : {"ok", "none"}]
    [] r.op = "reload-catalog" -> [runs : {"same"}, reply : {"ok", "error", "none"}]

(* A reply is published to the inbox of its request, and whoever has left  *)
(* does not hear it; the mutated client has one inbox for all requests.    *)
InboxOpenAny(r) == phase # "over"
InboxOpen(r) == phase # "over" /\ r.id = id

Publish(h, r, reply) ==
  LET sent == reply # "none" /\ h \in linked
  IN /\ inbox' = IF sent /\ InboxOpen(r) THEN Append(inbox, [from |-> h, ok |-> reply = "ok"])
                 ELSE inbox
     /\ inTime' = IF sent /\ r.id = id /\ ~late THEN inTime \cup {h} ELSE inTime
     /\ done' = IF reply = "ok" /\ r.id = id THEN done \cup {h} ELSE done

(* The request at the head of the lock is handled.                         *)
Handle(h) ==
  /\ queue[h] # <<>> /\ ForMe(h, Head(queue[h]))
  /\ queue' = [queue EXCEPT ![h] = Tail(@)]
  /\ \E o \in Outcomes(Head(queue[h])) :
       /\ serving' = IF o.runs = "same" THEN serving
                     ELSE [serving EXCEPT ![h] = IF o.runs = "new" THEN Head(queue[h]).model
                                                 ELSE NoModel]
       /\ Publish(h, Head(queue[h]), o.reply)
  /\ UNCHANGED <<linked, cmd, id, phase, late, resultVars>>

(* Silently dropped.                                                       *)
Ignore(h) ==
  /\ queue[h] # <<>> /\ ~ForMe(h, Head(queue[h]))
  /\ queue' = [queue EXCEPT ![h] = Tail(@)]
  /\ UNCHANGED <<serving, linked, cmd, id, phase, inbox, late, resultVars, auditVars>>

(* The connection of a worker, and the worker with its engine.             *)
Disconnect(h) ==
  /\ h \in linked
  /\ linked' = linked \ {h}
  /\ UNCHANGED <<queue, serving, cmd, id, phase, inbox, late, resultVars, auditVars>>

Reconnect(h) ==
  /\ h \notin linked
  /\ linked' = linked \cup {h}
  /\ UNCHANGED <<queue, serving, cmd, id, phase, inbox, late, resultVars, auditVars>>

Crash(h) ==
  /\ linked' = linked \ {h}
  /\ queue' = [queue EXCEPT ![h] = <<>>]
  /\ serving' = [serving EXCEPT ![h] = NoModel]
  /\ UNCHANGED <<cmd, id, phase, inbox, late, resultVars, auditVars>>

-----------------------------------------------------------------------------
Init ==
  /\ queue = [h \in Hosts |-> <<>>]
  /\ serving = [h \in Hosts |-> NoModel]
  /\ linked = Hosts
  /\ cmd \in ReloadCommands /\ id = 0 /\ phase = "over"
  /\ inbox = <<>> /\ late = FALSE
  /\ oks = {} /\ failed = {} /\ rc = 0
  /\ done = {} /\ inTime = {}

Next ==
  \/ \E c \in Commands : Send(c) \/ NotSent(c)
  \/ TimeoutPasses
  \/ ClientStep
  \/ \E h \in Hosts : Handle(h) \/ Ignore(h) \/ Disconnect(h) \/ Reconnect(h) \/ Crash(h)

Spec == Init /\ [][Next]_vars

(* The client's process runs, and time passes.  Nothing is assumed of the  *)
(* workers.                                                                *)
FairSpec == Spec /\ WF_vars(ClientStep) /\ WF_vars(TimeoutPasses)

-----------------------------------------------------------------------------
(* Properties.                                                             *)

(* Types of the thirteen variables.                                        *)
TypeOK ==
  /\ queue \in [Hosts -> Seq({Request(c, n) : c \in Commands, n \in 1 .. MaxCmds})]
  /\ serving \in [Hosts -> Models \cup {NoModel}]
  /\ cmd \in Commands /\ id \in 0 .. MaxCmds /\ phase \in Phases
  /\ inbox \in Seq(Replies \cup {NoResponders})
  /\ late \in BOOLEAN /\ rc \in {0, 1}
  /\ {linked, oks, failed, done, inTime} \subseteq SUBSET Hosts
  /\ phase # "over" => rc = 0

(* A command that exits 0 names only hosts that did this very request, and *)
(* a swap, a stop or a reload names one at least: no reply of another host *)
(* and none to an earlier command is taken for it.                         *)
OkMeansDone ==
  (phase = "over" /\ rc = 0) =>
    /\ oks \subseteq done
    /\ (id > 0 /\ cmd.op \in {"swap", "stop", "reload-catalog"}) => oks # {}

(* After a swap the hosts reported OK serve its model, or nothing after a  *)
(* crash, although swaps that timed out earlier may still be at work.      *)
OkServes ==
  (phase = "over" /\ cmd.op = "swap") => \A h \in oks : serving[h] \in {cmd.model, NoModel}

(* Every command ends, whatever the workers do.                            *)
CommandEnds == phase # "over" ~> phase = "over"

(* "Collect all replies within timeout": a worker that replies before the  *)
(* operator's --timeout is in the result of the fleet command.             *)
FleetHearsAll ==
  (phase = "over" /\ cmd.fleet) => inTime \subseteq oks \cup failed

=============================================================================
