--------------------------- MODULE FleetClientProofs ---------------------------
(***************************************************************************)
(* Proofs about module FleetClient, for every set of hosts, every set of   *)
(* models and every number of commands.                                    *)
(*                                                                         *)
(* The argument is about request ids.  Each command has a new one, so a    *)
(* host's queue is sorted by id (InOrder) and the request of the current   *)
(* command, if it is there at all, is the last (OwnRequests).  A host that *)
(* has done the current request has therefore nothing left to do, and what *)
(* it serves is what the command asked for (DoneInv).                      *)
(***************************************************************************)
EXTENDS FleetClient, TLAPS

Requests == {Request(c, n) : c \in Commands, n \in 1 .. MaxCmds}

(* Requests wait in the order in which the commands were given.            *)
InOrder ==
  \A h \in Hosts : \A i, j \in DOMAIN queue[h] : i < j => queue[h][i].id < queue[h][j].id

(* A request with the current id is the current command's.                 *)
OwnRequests ==
  \A h \in Hosts : \A i \in DOMAIN queue[h] :
    /\ queue[h][i].id <= id
    /\ queue[h][i].id = id => queue[h][i] = Request(cmd, id)

(* A host that did the current request has nothing else waiting, and       *)
(* serves what a swap asked for.                                           *)
DoneInv ==
  \A h \in done :
    /\ queue[h] = <<>>
    /\ cmd.host \in {Everyone, h}
    /\ cmd.op = "swap" => serving[h] \in {cmd.model, NoModel}

(* Whoever says OK to the current command has done it.                     *)
InboxInv ==
  /\ phase = "over" => inbox = <<>>
  /\ \A i \in DOMAIN inbox :
       (inbox[i] # NoResponders /\ inbox[i].ok) => inbox[i].from \in done

ResultInv ==
  /\ oks \subseteq done
  /\ phase = "request" => ~cmd.fleet
  /\ phase = "collect" => cmd.fleet
  /\ (phase = "over" /\ rc = 0 /\ id > 0 /\ cmd.op \in {"swap", "stop", "reload-catalog"}) => oks # {}

FleetInv == TypeOK /\ InOrder /\ OwnRequests /\ DoneInv /\ InboxInv /\ ResultInv

-----------------------------------------------------------------------------
(* Commands, requests and replies.                                         *)

LEMMA CommandFields ==
  \A c \in Commands :
    /\ c.model \in Models \cup {NoModel} /\ c.host \in Hosts \cup {Everyone} /\ c.fleet \in BOOLEAN
    /\ c.op \in {"swap", "stop", "status", "list", "reload-catalog"}
    /\ c.op = "swap" => c.model \in Models
    /\ c.fleet => c.op \in {"swap", "status", "list"}
<1>. QED
  BY DEF Commands, SwapCommands, StopCommands, StatusCommands, ListCommands, ReloadCommands

LEMMA RequestFields ==
  \A r \in Requests :
    /\ r.id \in 1 .. MaxCmds
    /\ r.op \in {"swap", "stop", "status", "list", "reload-catalog"}
    /\ r.op = "swap" => r.model \in Models
<1> SUFFICES ASSUME NEW r \in Requests
             PROVE  /\ r.id \in 1 .. MaxCmds
                    /\ r.op \in {"swap", "stop", "status", "list", "reload-catalog"}
                    /\ r.op = "swap" => r.model \in Models
  OBVIOUS
<1>1. PICK c \in Commands, n \in 1 .. MaxCmds : r = Request(c, n)
  BY DEF Requests
<1>2. r.id = n /\ r.op = c.op /\ r.model = c.model
  BY <1>1 DEF Request
<1>. QED
  BY <1>2, CommandFields

LEMMA OutcomeFields ==
  ASSUME NEW r \in Requests, NEW o \in Outcomes(r)
  PROVE  /\ o.runs \in {"new", "same", "none"} /\ o.reply \in {"ok", "error", "none"}
         /\ o.runs = "new" => r.op = "swap"
         /\ (r.op = "swap" /\ o.reply = "ok") => o.runs = "new"
<1>1. CASE r.op = "swap"
  BY <1>1 DEF Outcomes
<1>2. CASE r.op = "stop"
  BY <1>2 DEF Outcomes
<1>3. CASE r.op = "status"
  BY <1>3 DEF Outcomes
<1>4. CASE r.op = "list"
  BY <1>4 DEF Outcomes
<1>5. CASE r.op = "reload-catalog"
  BY <1>5 DEF Outcomes
<1>. QED
  BY <1>1, <1>2, <1>3, <1>4, <1>5, RequestFields

LEMMA ReplyFields ==
  /\ \A m \in Replies \cup {NoResponders} :
       m # NoResponders => (m.ok \in BOOLEAN /\ m.from \in Hosts)
  /\ \A h \in Hosts, b \in BOOLEAN : /\ [from |-> h, ok |-> b] \in Replies
                                     /\ [from |-> h, ok |-> b].from = h
                                     /\ [from |-> h, ok |-> b].ok = b
<1>. QED
  BY DEF Replies, NoResponders

(* Sequences, whatever they are of.                                        *)
LEMMA TailIsRest ==
  ASSUME NEW S, NEW q \in Seq(S), q # <<>>
  PROVE  /\ Head(q) \in S /\ Head(q) = q[1] /\ 1 \in DOMAIN q
         /\ Tail(q) \in Seq(S)
         /\ \A i \in DOMAIN Tail(q) :
              i \in Nat /\ i > 0 /\ i + 1 \in DOMAIN q /\ Tail(q)[i] = q[i + 1] /\ 1 < i + 1
<1>. QED
  OBVIOUS

LEMMA AppendIsLast ==
  ASSUME NEW S, NEW q \in Seq(S), NEW e \in S
  PROVE  /\ Append(q, e) \in Seq(S)
         /\ DOMAIN q = 1 .. Len(q) /\ Len(q) \in Nat
         /\ DOMAIN Append(q, e) = 1 .. Len(q) + 1
         /\ Append(q, e)[Len(q) + 1] = e
         /\ \A i \in DOMAIN q : Append(q, e)[i] = q[i]
<1>. QED
  OBVIOUS

-----------------------------------------------------------------------------
(* The operator's commands.                                                *)

QueueTypeOK == queue \in [Hosts -> Seq(Requests)]

LEMMA TypeOKQueue == TypeOK => QueueTypeOK
<1>. QED
  BY DEF TypeOK, QueueTypeOK, Requests

RestTypeOK ==
  /\ serving \in [Hosts -> Models \cup {NoModel}]
  /\ cmd \in Commands /\ id \in 0 .. MaxCmds /\ phase \in Phases
  /\ inbox \in Seq(Replies \cup {NoResponders})
  /\ late \in BOOLEAN /\ rc \in {0, 1}
  /\ linked \subseteq Hosts /\ oks \subseteq Hosts /\ failed \subseteq Hosts
  /\ done \subseteq Hosts /\ inTime \subseteq Hosts
  /\ phase # "over" => rc = 0

LEMMA TypesSplit == TypeOK <=> (QueueTypeOK /\ RestTypeOK)
<1>. QED
  BY DEF TypeOK, QueueTypeOK, RestTypeOK, Requests

(* The queues of the current command: its request goes to the end.         *)
LEMMA SendQueues ==
  ASSUME FleetInv, NEW c \in Commands, Send(c)
  PROVE  QueueTypeOK' /\ InOrder' /\ OwnRequests'
<1> USE DEF FleetInv
<1>1. /\ cmd' = c /\ id' = id + 1 /\ id < MaxCmds /\ id \in Nat /\ id' \in 1 .. MaxCmds
      /\ queue' = [h \in Hosts |-> IF h \in linked THEN Append(queue[h], Request(c, id + 1))
                                   ELSE queue[h]]
  BY MaxCmdsAssumption DEF Send, Queued, TypeOK
<1> DEFINE e == Request(c, id + 1)
<1>2. e \in Requests /\ e.id = id + 1 /\ e = Request(cmd', id')
  BY <1>1 DEF Requests, Request
<1> HIDE DEF e
<1>3. ASSUME NEW h \in Hosts
      PROVE  /\ queue'[h] \in Seq(Requests)
             /\ \A i, j \in DOMAIN queue'[h] : i < j => queue'[h][i].id < queue'[h][j].id
             /\ \A i \in DOMAIN queue'[h] :
                  /\ queue'[h][i].id <= id'
                  /\ queue'[h][i].id = id' => queue'[h][i] = Request(cmd', id')
  <2> DEFINE q == queue[h]
  <2>1. /\ q \in Seq(Requests)
        /\ \A i \in DOMAIN q : q[i].id \in Nat /\ q[i].id <= id
        /\ \A i, j \in DOMAIN q : i < j => q[i].id < q[j].id
    <3>1. q \in Seq(Requests)
      BY <1>3, TypeOKQueue DEF QueueTypeOK
    <3>2. \A i \in DOMAIN q : q[i] \in Requests
      BY <3>1
    <3>. QED
      BY <1>3, <3>1, <3>2, RequestFields DEF OwnRequests, InOrder
  <2>2. queue'[h] = Append(q, e) \/ queue'[h] = q
    BY <1>1, <1>3 DEF e
  <2> HIDE DEF q
  <2>3. CASE queue'[h] = q
    <3>1. \A i \in DOMAIN q : q[i].id <= id' /\ q[i].id # id'
      BY <1>1, <2>1
    <3>. QED
      BY <2>1, <2>3, <3>1
  <2>4. CASE queue'[h] = Append(q, e)
    <3>1. /\ Append(q, e) \in Seq(Requests)
          /\ DOMAIN q = 1 .. Len(q) /\ Len(q) \in Nat
          /\ DOMAIN Append(q, e) = 1 .. Len(q) + 1
          /\ Append(q, e)[Len(q) + 1] = e
          /\ \A i \in DOMAIN q : Append(q, e)[i] = q[i]
      BY <1>2, <2>1, AppendIsLast
    <3>2. ASSUME NEW i \in DOMAIN queue'[h]
          PROVE  \/ i \in DOMAIN q /\ queue'[h][i] = q[i]
                 \/ i = Len(q) + 1 /\ queue'[h][i] = e
      BY <2>4, <3>1, <3>2
    <3>3. \A i, j \in DOMAIN queue'[h] : i < j => queue'[h][i].id < queue'[h][j].id
      BY <1>1, <1>2, <2>1, <2>4, <3>1, <3>2
    <3>4. \A i \in DOMAIN queue'[h] :
            /\ queue'[h][i].id <= id'
            /\ queue'[h][i].id = id' => queue'[h][i] = Request(cmd', id')
      BY <1>1, <1>2, <2>1, <3>2
    <3>. QED
      BY <2>4, <3>1, <3>3, <3>4
  <2>. QED
    BY <2>2, <2>3, <2>4
<1>4. QueueTypeOK'
  BY <1>1, <1>3 DEF QueueTypeOK
<1>. QED
  BY <1>3, <1>4 DEF InOrder, OwnRequests

LEMMA SendInv ==
  ASSUME FleetInv, NEW c \in Commands, Send(c)
  PROVE  FleetInv'
<1> USE DEF FleetInv
<1>1. /\ cmd' = c /\ id' = id + 1 /\ id \in Nat /\ id < MaxCmds
      /\ phase' = (IF c.fleet THEN "collect" ELSE "request")
      /\ inbox' = (IF linked = {} THEN <<NoResponders>> ELSE <<>>)
      /\ late' = FALSE /\ rc' = 0 /\ oks' = {} /\ failed' = {} /\ done' = {} /\ inTime' = {}
      /\ UNCHANGED <<serving, linked>>
  BY DEF Send, NothingHeard, TypeOK
<1>2. /\ inbox' \in Seq(Replies \cup {NoResponders})
      /\ \A i \in DOMAIN inbox' : inbox'[i] = NoResponders
  <2>1. CASE inbox' = <<>>
    BY <2>1
  <2>2. CASE inbox' = <<NoResponders>>
    BY <2>2
  <2>. QED
    BY <1>1, <2>1, <2>2
<1>3. RestTypeOK'
  <2>1. id' \in 0 .. MaxCmds
    BY <1>1, MaxCmdsAssumption
  <2>. QED
    BY <1>1, <1>2, <2>1, TypesSplit DEF RestTypeOK, Phases
<1>4. TypeOK' /\ InOrder' /\ OwnRequests'
  BY <1>3, SendQueues DEF TypeOK, QueueTypeOK, RestTypeOK, Requests
<1>5. DoneInv' /\ InboxInv' /\ ResultInv'
  BY <1>1, <1>2, CommandFields DEF DoneInv, InboxInv, ResultInv
<1>. QED
  BY <1>4, <1>5

LEMMA NotSentInv ==
  ASSUME FleetInv, NEW c \in Commands, NotSent(c)
  PROVE  FleetInv'
<1> USE DEF FleetInv
<1>1. /\ cmd' = c /\ id' = id + 1 /\ id \in Nat /\ id < MaxCmds /\ phase = "over"
      /\ late' = FALSE /\ rc' = 1 /\ oks' = {} /\ failed' = {} /\ done' = {} /\ inTime' = {}
      /\ UNCHANGED <<queue, serving, linked, phase, inbox>>
  BY DEF NotSent, NothingHeard, TypeOK, hostVars
<1>2. TypeOK'
  <2>1. id' \in 0 .. MaxCmds
    BY <1>1, MaxCmdsAssumption
  <2>2. RestTypeOK'
    BY <1>1, <2>1, TypesSplit DEF RestTypeOK
  <2>3. QueueTypeOK'
    BY <1>1, TypesSplit DEF QueueTypeOK
  <2>. QED
    BY <2>2, <2>3 DEF TypeOK, QueueTypeOK, RestTypeOK, Requests
<1>3. OwnRequests'
  <2>1. \A h \in Hosts : \A i \in DOMAIN queue[h] : queue[h][i] \in Requests
    BY TypeOKQueue DEF QueueTypeOK
  <2>2. \A h \in Hosts : \A i \in DOMAIN queue[h] : queue[h][i].id \in Nat /\ queue[h][i].id <= id
    BY <2>1, RequestFields DEF OwnRequests
  <2>. QED
    BY <1>1, <2>2 DEF OwnRequests
<1>4. InOrder' /\ DoneInv' /\ InboxInv' /\ ResultInv'
  BY <1>1 DEF InOrder, DoneInv, InboxInv, ResultInv
<1>. QED
  BY <1>2, <1>3, <1>4

-----------------------------------------------------------------------------
(* The client, and the network.                                            *)

(* Nobody works: queues, engines and what has been done stay.              *)
LEMMA ClientOnly ==
  ASSUME FleetInv, UNCHANGED <<queue, serving, cmd, id, done>>, RestTypeOK', InboxInv', ResultInv'
  PROVE  FleetInv'
<1> USE DEF FleetInv
<1>1. TypeOK'
  <2>1. QueueTypeOK'
    BY TypesSplit DEF QueueTypeOK
  <2>. QED
    BY <2>1 DEF TypeOK, QueueTypeOK, RestTypeOK, Requests
<1>2. InOrder' /\ OwnRequests' /\ DoneInv'
  BY DEF InOrder, OwnRequests, DoneInv
<1>. QED
  BY <1>1, <1>2

LEMMA ExitInv ==
  ASSUME FleetInv, NEW code \in {0, 1}, NEW ok \in SUBSET done, NEW bad \in SUBSET Hosts,
         Exit(code, ok, bad),
         (code = 0 /\ cmd.op \in {"swap", "stop", "reload-catalog"}) => ok # {}
  PROVE  FleetInv'
<1> USE DEF FleetInv
<1>1. /\ UNCHANGED <<queue, serving, linked, cmd, id, late, done, inTime>>
      /\ phase' = "over" /\ rc' = code /\ oks' = ok /\ failed' = bad /\ inbox' = <<>>
  BY DEF Exit, hostVars, auditVars
<1>2. RestTypeOK'
  BY <1>1, TypesSplit DEF RestTypeOK, Phases
<1>3. InboxInv' /\ ResultInv'
  BY <1>1 DEF InboxInv, ResultInv
<1>. QED
  BY <1>1, <1>2, <1>3, ClientOnly

(* The reply in front.                                                     *)
LEMMA HeadReply ==
  ASSUME FleetInv, inbox # <<>>
  PROVE  /\ Head(inbox) # NoResponders =>
              (Head(inbox).ok \in BOOLEAN /\ Head(inbox).from \in Hosts)
         /\ (Head(inbox) # NoResponders /\ Head(inbox).ok) => Head(inbox).from \in done
         /\ Tail(inbox) \in Seq(Replies \cup {NoResponders})
         /\ \A i \in DOMAIN Tail(inbox) :
              (Tail(inbox)[i] # NoResponders /\ Tail(inbox)[i].ok) => Tail(inbox)[i].from \in done
<1>1. inbox \in Seq(Replies \cup {NoResponders})
  BY DEF FleetInv, TypeOK
<1>2. /\ Head(inbox) \in Replies \cup {NoResponders} /\ Head(inbox) = inbox[1] /\ 1 \in DOMAIN inbox
      /\ Tail(inbox) \in Seq(Replies \cup {NoResponders})
      /\ \A i \in DOMAIN Tail(inbox) : i + 1 \in DOMAIN inbox /\ Tail(inbox)[i] = inbox[i + 1]
  BY <1>1, TailIsRest
<1>. QED
  BY <1>2, ReplyFields DEF FleetInv, InboxInv

(* One reply: a host that says OK is the host that was asked.              *)
LEMMA RequestInv ==
  ASSUME FleetInv, RequestAnswered \/ RequestRefused \/ RequestTimesOut
  PROVE  FleetInv'
<1> USE DEF FleetInv
<1>1. CASE RequestAnswered
  <2> DEFINE m == Head(inbox)
  <2>1. inbox # <<>> /\ m # NoResponders
        /\ (IF m.ok THEN Exit(0, Named(m), {}) ELSE Exit(1, {}, Named(m)))
    BY <1>1 DEF RequestAnswered
  <2>2. m.ok \in BOOLEAN /\ m.from \in Hosts /\ (m.ok => m.from \in done)
    BY <2>1, HeadReply
  <2>3. cmd.host \in Hosts \cup {Everyone}
    BY CommandFields, TypesSplit DEF RestTypeOK
  <2> HIDE DEF m
  <2>4. Named(m) \subseteq Hosts /\ Named(m) # {}
    BY <2>2, <2>3 DEF Named
  <2>5. CASE m.ok
    <3>1. Named(m) \subseteq done
      BY <2>2, <2>5 DEF Named, DoneInv
    <3>. QED
      BY <2>1, <2>4, <2>5, <3>1, ExitInv
  <2>6. CASE ~m.ok
    BY <2>1, <2>4, <2>6, ExitInv
  <2>. QED
    BY <2>5, <2>6
<1>2. CASE RequestRefused \/ RequestTimesOut
  BY <1>2, ExitInv DEF RequestRefused, RequestTimesOut
<1>. QED
  BY <1>1, <1>2

LEMMA CollectInv ==
  ASSUME FleetInv, CollectReply \/ CollectJunk
  PROVE  FleetInv'
<1> USE DEF FleetInv
<1>1. PICK ok \in SUBSET done, bad \in SUBSET Hosts : phase = "collect" /\ inbox # <<>> /\ Collect(ok, bad)
  <2>1. CASE CollectReply
    <3>1. /\ phase = "collect" /\ inbox # <<>> /\ Head(inbox) # NoResponders
          /\ IF Head(inbox).ok THEN Collect({Head(inbox).from}, {}) ELSE Collect({}, {Head(inbox).from})
      BY <2>1 DEF CollectReply
    <3>2. Head(inbox).from \in Hosts /\ (Head(inbox).ok => Head(inbox).from \in done)
      BY <3>1, HeadReply
    <3>3. CASE Head(inbox).ok
      BY <3>1, <3>2, <3>3
    <3>4. CASE ~Head(inbox).ok
      BY <3>1, <3>2, <3>4
    <3>. QED
      BY <3>3, <3>4
  <2>2. CASE CollectJunk
    BY <2>2 DEF CollectJunk
  <2>. QED
    BY <2>1, <2>2
<1>2. /\ UNCHANGED <<queue, serving, linked, cmd, id, phase, late, rc, done, inTime>>
      /\ inbox' = Tail(inbox) /\ oks' = oks \cup ok /\ failed' = failed \cup bad
  BY <1>1 DEF Collect, hostVars, auditVars
<1>3. RestTypeOK' /\ InboxInv'
  BY <1>1, <1>2, HeadReply, TypesSplit DEF RestTypeOK, InboxInv
<1>4. ResultInv'
  BY <1>1, <1>2 DEF ResultInv
<1>. QED
  BY <1>2, <1>3, <1>4, ClientOnly

LEMMA WindowInv ==
  ASSUME FleetInv, WindowEnds \/ NothingComes
  PROVE  FleetInv'
<1> USE DEF FleetInv
<1>1. phase = "collect" /\ Exit(FleetCode, oks, failed)
  BY DEF WindowEnds, NothingComes
<1>2. cmd.fleet /\ cmd.op \in {"swap", "status", "list"}
  BY <1>1, CommandFields, TypesSplit DEF ResultInv, RestTypeOK
<1>3. FleetCode \in {0, 1} /\ ((FleetCode = 0 /\ cmd.op = "swap") => oks # {})
  BY DEF FleetCode, SwapFleetCode
<1>4. oks \in SUBSET done /\ failed \in SUBSET Hosts
  BY TypesSplit DEF ResultInv, RestTypeOK
<1>. QED
  BY <1>1, <1>2, <1>3, <1>4, ExitInv

(* The clock, and connections that come and go.                            *)
LEMMA AroundInv ==
  ASSUME FleetInv, TimeoutPasses \/ \E h \in Hosts : Disconnect(h) \/ Reconnect(h)
  PROVE  FleetInv'
<1> USE DEF FleetInv
<1>1. /\ UNCHANGED <<queue, serving, cmd, id, phase, inbox, oks, failed, rc, done, inTime>>
      /\ late' \in BOOLEAN /\ linked' \subseteq Hosts
  BY TypesSplit DEF TimeoutPasses, Disconnect, Reconnect, hostVars, resultVars, auditVars, RestTypeOK
<1>2. RestTypeOK'
  BY <1>1, TypesSplit DEF RestTypeOK
<1>3. InboxInv' /\ ResultInv'
  BY <1>1 DEF InboxInv, ResultInv
<1>. QED
  BY <1>1, <1>2, <1>3, ClientOnly

-----------------------------------------------------------------------------
(* The workers.                                                            *)

(* The request in front is taken: what is left is in order still, and      *)
(* nothing is left behind the current command's.                           *)
LEMMA TakenQueues ==
  ASSUME FleetInv, NEW h \in Hosts, queue[h] # <<>>,
         queue' = [queue EXCEPT ![h] = Tail(@)], UNCHANGED <<cmd, id>>
  PROVE  /\ QueueTypeOK' /\ InOrder' /\ OwnRequests'
         /\ \A g \in Hosts : g # h => queue'[g] = queue[g]
         /\ Head(queue[h]) \in Requests /\ h \notin done
         /\ Head(queue[h]).id = id => (queue'[h] = <<>> /\ Head(queue[h]) = Request(cmd, id))
<1> USE DEF FleetInv
<1>1. queue \in [Hosts -> Seq(Requests)] /\ id \in Nat
  BY TypesSplit DEF QueueTypeOK, RestTypeOK
<1> DEFINE q == queue[h]
<1>2. /\ q \in Seq(Requests) /\ q # <<>>
      /\ \A i, j \in DOMAIN q : i < j => q[i].id < q[j].id
      /\ \A i \in DOMAIN q : q[i].id <= id /\ (q[i].id = id => q[i] = Request(cmd, id))
  BY <1>1 DEF InOrder, OwnRequests
<1>3. /\ queue' \in [Hosts -> Seq(Requests)] /\ queue'[h] = Tail(q)
      /\ \A g \in Hosts : g # h => queue'[g] = queue[g]
  BY <1>1, <1>2
<1> HIDE DEF q
<1>4. /\ Head(q) \in Requests /\ Head(q) = q[1] /\ 1 \in DOMAIN q
      /\ Tail(q) \in Seq(Requests)
      /\ \A i \in DOMAIN Tail(q) :
           i \in Nat /\ i > 0 /\ i + 1 \in DOMAIN q /\ Tail(q)[i] = q[i + 1] /\ 1 < i + 1
  BY <1>2, TailIsRest
<1>5. \A i, j \in DOMAIN Tail(q) : i < j => Tail(q)[i].id < Tail(q)[j].id
  <2> SUFFICES ASSUME NEW i \in DOMAIN Tail(q), NEW j \in DOMAIN Tail(q), i < j
               PROVE  Tail(q)[i].id < Tail(q)[j].id
    OBVIOUS
  <2>1. i + 1 < j + 1
    BY <1>4
  <2>. QED
    BY <1>2, <1>4, <2>1
<1>6. \A i \in DOMAIN Tail(q) :
        Tail(q)[i].id <= id /\ (Tail(q)[i].id = id => Tail(q)[i] = Request(cmd, id))
  BY <1>2, <1>4
<1>7. ASSUME q[1].id = id PROVE Tail(q) = <<>>
  <2> SUFFICES ASSUME Tail(q) # <<>> PROVE FALSE
    OBVIOUS
  <2>1. 1 \in DOMAIN Tail(q)
    BY <1>4
  <2>2. 2 \in DOMAIN q
    BY <1>4, <2>1
  <2>3. q[1].id < q[2].id /\ q[2].id <= id /\ q[2] \in Requests
    BY <1>2, <1>4, <2>2
  <2>. QED
    BY <1>1, <1>7, <2>3, RequestFields
<1>8. QueueTypeOK' /\ InOrder' /\ OwnRequests'
  BY <1>3, <1>5, <1>6 DEF QueueTypeOK, InOrder, OwnRequests
<1>. QED
  BY <1>2, <1>3, <1>4, <1>7, <1>8 DEF q, DoneInv

LEMMA IgnoreInv ==
  ASSUME FleetInv, NEW h \in Hosts, Ignore(h)
  PROVE  FleetInv'
<1> USE DEF FleetInv
<1>1. /\ queue[h] # <<>> /\ queue' = [queue EXCEPT ![h] = Tail(@)]
      /\ UNCHANGED <<serving, linked, cmd, id, phase, inbox, late, oks, failed, rc, done, inTime>>
  BY DEF Ignore, resultVars, auditVars
<1>2. /\ QueueTypeOK' /\ InOrder' /\ OwnRequests' /\ h \notin done
      /\ \A g \in Hosts : g # h => queue'[g] = queue[g]
  BY <1>1, TakenQueues
<1>3. RestTypeOK' /\ done \subseteq Hosts
  BY <1>1, TypesSplit DEF RestTypeOK
<1>4. TypeOK'
  BY <1>2, <1>3 DEF TypeOK, QueueTypeOK, RestTypeOK, Requests
<1>5. DoneInv'
  BY <1>1, <1>2, <1>3 DEF DoneInv
<1>6. InboxInv' /\ ResultInv'
  BY <1>1 DEF InboxInv, ResultInv
<1>. QED
  BY <1>2, <1>4, <1>5, <1>6

(* A reply gets into the inbox only with the id of the command that waits. *)
LEMMA PublishInv ==
  ASSUME FleetInv, NEW h \in Hosts, NEW r, NEW reply \in {"ok", "error", "none"}, Publish(h, r, reply),
         UNCHANGED phase
  PROVE  /\ inbox' \in Seq(Replies \cup {NoResponders})
         /\ done' = (IF reply = "ok" /\ r.id = id THEN done \cup {h} ELSE done)
         /\ inTime' \subseteq Hosts /\ InboxInv'
<1> USE DEF FleetInv
<1> DEFINE m == [from |-> h, ok |-> reply = "ok"]
<1>1. /\ inbox' = inbox \/ (phase # "over" /\ r.id = id /\ inbox' = Append(inbox, m))
      /\ done' = (IF reply = "ok" /\ r.id = id THEN done \cup {h} ELSE done)
      /\ inTime' = inTime \cup {h} \/ inTime' = inTime
  BY DEF Publish, InboxOpen
<1>2. /\ inbox \in Seq(Replies \cup {NoResponders}) /\ inTime \subseteq Hosts
      /\ m \in Replies /\ m.from = h /\ m.ok = (reply = "ok")
  BY TypesSplit, ReplyFields DEF RestTypeOK
<1> HIDE DEF m
<1>3. CASE inbox' = inbox
  BY <1>1, <1>2, <1>3 DEF InboxInv
<1>4. CASE phase # "over" /\ r.id = id /\ inbox' = Append(inbox, m)
  <2>1. /\ inbox' \in Seq(Replies \cup {NoResponders})
        /\ DOMAIN inbox = 1 .. Len(inbox) /\ Len(inbox) \in Nat
        /\ DOMAIN inbox' = 1 .. Len(inbox) + 1
        /\ inbox'[Len(inbox) + 1] = m
        /\ \A i \in DOMAIN inbox : inbox'[i] = inbox[i]
    BY <1>2, <1>4, AppendIsLast
  <2>2. \A i \in DOMAIN inbox' : (i \in DOMAIN inbox /\ inbox'[i] = inbox[i]) \/ inbox'[i] = m
    BY <2>1
  <2>3. m.ok => m.from \in done'
    BY <1>1, <1>2, <1>4
  <2>4. done \subseteq done'
    BY <1>1
  <2>5. InboxInv'
    BY <1>4, <2>2, <2>3, <2>4 DEF InboxInv
  <2>. QED
    BY <1>1, <1>2, <2>1, <2>5
<1>. QED
  BY <1>1, <1>3, <1>4

LEMMA HandleInv ==
  ASSUME FleetInv, NEW h \in Hosts, Handle(h)
  PROVE  FleetInv'
<1> USE DEF FleetInv
<1> DEFINE r == Head(queue[h])
<1>1. /\ queue[h] # <<>> /\ ForMe(h, r) /\ queue' = [queue EXCEPT ![h] = Tail(@)]
      /\ UNCHANGED <<linked, cmd, id, phase, late, oks, failed, rc>>
  BY DEF Handle, resultVars
<1>2. /\ QueueTypeOK' /\ InOrder' /\ OwnRequests' /\ h \notin done /\ r \in Requests
      /\ \A g \in Hosts : g # h => queue'[g] = queue[g]
      /\ r.id = id => (queue'[h] = <<>> /\ r = Request(cmd, id))
  BY <1>1, TakenQueues
<1>3. PICK o \in Outcomes(r) :
        /\ serving' = IF o.runs = "same" THEN serving
                      ELSE [serving EXCEPT ![h] = IF o.runs = "new" THEN r.model ELSE NoModel]
        /\ Publish(h, r, o.reply)
  BY DEF Handle
<1> HIDE DEF r
<1>4. /\ o.runs \in {"new", "same", "none"} /\ o.reply \in {"ok", "error", "none"}
      /\ o.runs = "new" => r.op = "swap"
      /\ (r.op = "swap" /\ o.reply = "ok") => o.runs = "new"
  BY <1>2, OutcomeFields
<1>5. /\ inbox' \in Seq(Replies \cup {NoResponders})
      /\ done' = (IF o.reply = "ok" /\ r.id = id THEN done \cup {h} ELSE done)
      /\ inTime' \subseteq Hosts /\ InboxInv'
  BY <1>1, <1>3, <1>4, PublishInv
<1>6. /\ serving' \in [Hosts -> Models \cup {NoModel}]
      /\ o.runs = "new" => serving'[h] = r.model
      /\ \A g \in Hosts : g # h => serving'[g] = serving[g]
  <2>1. serving \in [Hosts -> Models \cup {NoModel}]
    BY TypesSplit DEF RestTypeOK
  <2>2. o.runs = "new" => r.model \in Models
    BY <1>2, <1>4, RequestFields
  <2>. QED
    BY <1>3, <1>4, <2>1, <2>2
<1>7. RestTypeOK' /\ done \subseteq Hosts
  BY <1>1, <1>5, <1>6, TypesSplit DEF RestTypeOK
<1>8. TypeOK'
  BY <1>2, <1>7 DEF TypeOK, QueueTypeOK, RestTypeOK, Requests
<1>9. DoneInv'
  <2>1. ASSUME NEW g \in done', g # h
        PROVE  /\ queue'[g] = <<>> /\ cmd.host \in {Everyone, g}
               /\ cmd.op = "swap" => serving'[g] \in {cmd.model, NoModel}
    BY <1>2, <1>5, <1>6, <1>7, <2>1 DEF DoneInv
  <2>2. ASSUME h \in done'
        PROVE  /\ queue'[h] = <<>> /\ cmd.host \in {Everyone, h}
               /\ cmd.op = "swap" => serving'[h] \in {cmd.model, NoModel}
    <3>1. o.reply = "ok" /\ r.id = id
      BY <1>2, <1>5, <2>2
    <3>2. queue'[h] = <<>> /\ r.op = cmd.op /\ r.model = cmd.model /\ r.host = cmd.host
      BY <1>2, <3>1 DEF Request
    <3>3. cmd.host \in {Everyone, h}
      BY <1>1, <3>2 DEF ForMe
    <3>. QED
      BY <1>4, <1>6, <3>1, <3>2, <3>3
  <2>. QED
    BY <1>1, <2>1, <2>2 DEF DoneInv
<1>10. ResultInv'
  BY <1>1, <1>5 DEF ResultInv
<1>. QED
  BY <1>2, <1>5, <1>8, <1>9, <1>10

LEMMA CrashInv ==
  ASSUME FleetInv, NEW h \in Hosts, Crash(h)
  PROVE  FleetInv'
<1> USE DEF FleetInv
<1>1. /\ linked' = linked \ {h} /\ queue' = [queue EXCEPT ![h] = <<>>]
      /\ serving' = [serving EXCEPT ![h] = NoModel]
      /\ UNCHANGED <<cmd, id, phase, inbox, late, oks, failed, rc, done, inTime>>
  BY DEF Crash, resultVars, auditVars
<1>2. /\ queue \in [Hosts -> Seq(Requests)] /\ serving \in [Hosts -> Models \cup {NoModel}]
      /\ done \subseteq Hosts
  BY TypesSplit DEF QueueTypeOK, RestTypeOK
<1>3. /\ queue' \in [Hosts -> Seq(Requests)] /\ queue'[h] = <<>>
      /\ serving' \in [Hosts -> Models \cup {NoModel}] /\ serving'[h] = NoModel
      /\ \A g \in Hosts : g # h => queue'[g] = queue[g] /\ serving'[g] = serving[g]
  <2>1. <<>> \in Seq(Requests)
    OBVIOUS
  <2>. QED
    BY <1>1, <1>2, <2>1
<1>4. RestTypeOK'
  BY <1>1, <1>3, TypesSplit DEF RestTypeOK
<1>5. TypeOK'
  BY <1>3, <1>4 DEF TypeOK, RestTypeOK, Requests
<1>6. InOrder' /\ OwnRequests'
  <2>1. DOMAIN queue'[h] = {}
    BY <1>3
  <2>. QED
    BY <1>1, <1>3, <2>1 DEF InOrder, OwnRequests
<1>7. DoneInv'
  BY <1>1, <1>2, <1>3 DEF DoneInv
<1>8. InboxInv' /\ ResultInv'
  BY <1>1 DEF InboxInv, ResultInv
<1>. QED
  BY <1>5, <1>6, <1>7, <1>8

-----------------------------------------------------------------------------
(* The invariant.                                                          *)

LEMMA InitInv == Init => FleetInv
<1> SUFFICES ASSUME Init PROVE FleetInv
  OBVIOUS
<1>1. <<>> \in Seq(Requests) /\ <<>> \in Seq(Replies \cup {NoResponders})
  OBVIOUS
<1>2. QueueTypeOK
  BY <1>1 DEF Init, QueueTypeOK
<1>3. RestTypeOK
  <2>1. id \in 0 .. MaxCmds /\ cmd \in Commands
    BY MaxCmdsAssumption DEF Init, Commands
  <2>. QED
    BY <1>1, <2>1 DEF Init, RestTypeOK, Phases
<1>4. InOrder /\ OwnRequests
  BY DEF Init, InOrder, OwnRequests
<1>5. DoneInv /\ InboxInv /\ ResultInv
  BY DEF Init, DoneInv, InboxInv, ResultInv
<1>. QED
  BY <1>2, <1>3, <1>4, <1>5, TypesSplit DEF FleetInv

LEMMA NextInv == FleetInv /\ [Next]_vars => FleetInv'
<1> SUFFICES ASSUME FleetInv, [Next]_vars PROVE FleetInv'
  OBVIOUS
<1>1. ASSUME NEW c \in Commands, Send(c) \/ NotSent(c) PROVE FleetInv'
  BY <1>1, SendInv, NotSentInv
<1>2. CASE ClientStep
  BY <1>2, RequestInv, CollectInv, WindowInv DEF ClientStep
<1>3. CASE TimeoutPasses \/ \E h \in Hosts : Disconnect(h) \/ Reconnect(h)
  BY <1>3, AroundInv
<1>4. ASSUME NEW h \in Hosts, Handle(h) \/ Ignore(h) \/ Crash(h) PROVE FleetInv'
  BY <1>4, HandleInv, IgnoreInv, CrashInv
<1>5. CASE UNCHANGED vars
  <2>1. UNCHANGED <<queue, serving, linked, cmd, id, phase, inbox, late, oks, failed, rc, done, inTime>>
    BY <1>5 DEF vars, hostVars, resultVars, auditVars
  <2>2. RestTypeOK' /\ InboxInv' /\ ResultInv'
    BY <2>1, TypesSplit DEF FleetInv, RestTypeOK, InboxInv, ResultInv
  <2>. QED
    BY <2>1, <2>2, ClientOnly
<1>. QED
  BY <1>1, <1>2, <1>3, <1>4, <1>5 DEF Next

(* The strengthening that is inductive.                                    *)
THEOREM FleetInvariance == Spec => []FleetInv
<1>. QED
  BY InitInv, NextInv, PTL DEF Spec

-----------------------------------------------------------------------------
(* What the invariant says.                                                *)

(* Every variable of the client and of the workers keeps its type.         *)
THEOREM TypeOKHolds == Spec => []TypeOK
<1>1. FleetInv => TypeOK
  BY DEF FleetInv
<1>. QED
  BY <1>1, FleetInvariance, PTL

(* A command that exits 0 names only hosts that did this very request,     *)
(* whatever replies to earlier ones are still on their way.                *)
THEOREM OkMeansDoneHolds == Spec => []OkMeansDone
<1>1. FleetInv => OkMeansDone
  BY DEF FleetInv, ResultInv, OkMeansDone
<1>. QED
  BY <1>1, FleetInvariance, PTL

(* After a swap the hosts reported OK serve its model, or nothing after a  *)
(* crash: no swap that timed out earlier is still waiting there.           *)
THEOREM OkServesHolds == Spec => []OkServes
<1>1. FleetInv => OkServes
  BY DEF FleetInv, ResultInv, DoneInv, OkServes
<1>. QED
  BY <1>1, FleetInvariance, PTL
=============================================================================
