------------------------------ MODULE ProxyProofs ------------------------------
(***************************************************************************)
(* Proofs about module Proxy, for every set of handles, every set of       *)
(* lists and every number of signals.                                      *)
(*                                                                         *)
(* Every step but one only takes processes away: it ends them, or signals  *)
(* them.  The exception is the spawn of a reload, and the invariant says   *)
(* when it may happen: nothing else is up then (OneChild), and no signal   *)
(* handler has got past the lock (Handled).                                *)
(***************************************************************************)
EXTENDS Proxy, FiniteSetTheorems, TLAPS

(* A returncode is set when the process is over, never before.             *)
ReapedOver == \A k \in reaped : proc[k] = Over

(* Only child_state["child"] may be up, and not even that one when a       *)
(* reload has come to its spawn.                                           *)
OneChild ==
  /\ Untouched \subseteq {child}
  /\ refresh = "spawn" => Untouched = {}

(* A signal is handled once its frames are gone; a frame past the lock     *)
(* drains the child there is, and no refresh is going to replace it.       *)
Handled ==
  /\ frames # <<>> => stop
  /\ main = "gone" => frames = <<>>
  /\ (stop /\ frames = <<>>) => (Untouched = {} /\ ~RefreshLocked)
  /\ \A i \in DOMAIN frames :
       frames[i].pc = "drain" => (frames[i].kid = child /\ ~RefreshLocked)

(* A refresh that finds the list unchanged leaves a child with that list;  *)
(* one that finds it changed stops the child before it goes on.            *)
ListInv ==
  ~stop =>
    /\ refresh = "drain" => proc[child].st # "up"
    /\ ((refresh = "decide" => ~changed) /\ proc[child].st = "up")
         => proc[child].list = lastList

ProxyInv == TypeOK /\ ReapedOver /\ OneChild /\ Handled /\ ListInv

ProcTypeOK == proc \in [Kids -> Proc] /\ reaped \subseteq Kids

-----------------------------------------------------------------------------
(* Processes.                                                              *)

LEMMA ProcCases ==
  \A p \in Proc : \/ p = Over
                  \/ p.st \in {"up", "term", "kill"} /\ p.list \in Lists /\ p # Over
<1>. QED
  BY DEF Proc, Over

(* A step that ends processes or signals them, and starts none.            *)
Wanes ==
  /\ ProcTypeOK'
  /\ Untouched' \subseteq Untouched
  /\ ReapedOver'
  /\ \A k \in Kids : proc'[k].st = "up" => proc'[k] = proc[k]

LEMMA WithKeeps ==
  ASSUME proc \in [Kids -> Proc], NEW k \in Untouched, NEW st \in {"term", "kill"}
  PROVE  /\ With(k, st) \in [Kids -> Proc]
         /\ With(k, st)[k].st = st
         /\ With(k, st)[k] # Over
         /\ \A j \in Kids : j # k => With(k, st)[j] = proc[j]
<1>1. k \in Kids /\ proc[k] \in [st : {"up", "term", "kill"}, list : Lists]
  BY DEF Untouched, Proc, Over
<1>2. [proc[k] EXCEPT !.st = st] \in [st : {"up", "term", "kill"}, list : Lists]
  BY <1>1
<1>3. [proc[k] EXCEPT !.st = st].st = st
  BY <1>1
<1>. QED
  BY <1>1, <1>2, <1>3 DEF With, Proc, Over

LEMMA StillWanes ==
  ASSUME ProcTypeOK, ReapedOver, proc' = proc,
         reaped' \subseteq reaped \/ \E k \in Kids : proc[k] = Over /\ reaped' \subseteq reaped \cup {k}
  PROVE  Wanes /\ Untouched' = Untouched
<1>. QED
  BY DEF ProcTypeOK, Wanes, ReapedOver, Untouched

LEMMA PollFindsOver ==
  ASSUME ProcTypeOK, ReapedOver, NEW k \in Kids, PollSees(k)
  PROVE  proc[k] = Over
<1>1. k \in reaped \/ proc[k].st = "over"
  BY DEF PollSees
<1>. QED
  BY <1>1, ProcCases DEF ProcTypeOK, ReapedOver

LEMMA PollWanes ==
  ASSUME ProcTypeOK, ReapedOver, NEW k \in Kids, proc' = proc, reaped' = Polled(k)
  PROVE  Wanes /\ Untouched' = Untouched
<1>1. CASE PollSees(k)
  BY <1>1, PollFindsOver, StillWanes DEF Polled
<1>2. CASE ~PollSees(k)
  BY <1>2, StillWanes DEF Polled
<1>. QED
  BY <1>1, <1>2

LEMMA TerminateWanes ==
  ASSUME ProcTypeOK, ReapedOver, NEW k \in Kids, proc' = Terminated(k), reaped' = reaped
  PROVE  Wanes /\ proc'[k].st # "up"
<1>1. CASE proc[k].st = "up"
  <2>1. k \in Untouched /\ proc' = With(k, "term")
    BY <1>1 DEF Terminated, Untouched
  <2>2. /\ proc' \in [Kids -> Proc] /\ proc'[k].st = "term"
        /\ \A j \in Kids : j # k => proc'[j] = proc[j]
    BY <2>1, WithKeeps DEF ProcTypeOK
  <2>3. k \notin reaped
    BY <1>1 DEF ReapedOver, Over
  <2>. QED
    BY <2>1, <2>2, <2>3 DEF Wanes, ProcTypeOK, ReapedOver, Untouched
<1>2. CASE proc[k].st # "up"
  BY <1>2, StillWanes DEF Terminated
<1>. QED
  BY <1>1, <1>2

LEMMA KillWanes ==
  ASSUME ProcTypeOK, ReapedOver, NEW k \in Kids, proc' = Killed(k), reaped' = reaped
  PROVE  Wanes /\ Untouched' = Untouched \ {k}
<1>1. CASE k \in Untouched
  <2>1. /\ proc' \in [Kids -> Proc] /\ proc'[k].st = "kill"
        /\ \A j \in Kids : j # k => proc'[j] = proc[j]
    BY <1>1, WithKeeps DEF ProcTypeOK, Killed
  <2>2. k \notin reaped
    BY <1>1 DEF ReapedOver, Over, Untouched
  <2>. QED
    BY <2>1, <2>2 DEF Wanes, ProcTypeOK, ReapedOver, Untouched
<1>2. CASE k \notin Untouched
  BY <1>2, StillWanes DEF Killed
<1>. QED
  BY <1>1, <1>2

LEMMA ExitWanes ==
  ASSUME ProcTypeOK, ReapedOver, NEW k \in Kids, proc' = [proc EXCEPT ![k] = Over], reaped' = reaped
  PROVE  Wanes
<1>1. Over \in Proc /\ Over.st = "over"
  BY DEF Proc, Over
<1>2. proc' \in [Kids -> Proc] /\ \A j \in Kids : proc'[j] = IF j = k THEN Over ELSE proc[j]
  BY <1>1 DEF ProcTypeOK
<1>. QED
  BY <1>1, <1>2 DEF Wanes, ProcTypeOK, ReapedOver, Untouched

-----------------------------------------------------------------------------
(* The stack of signal handlers.                                           *)

LEMMA FramesPushed ==
  ASSUME NEW f \in Frame, frames \in Seq(Frame), frames' = Append(frames, f)
  PROVE  /\ frames' \in Seq(Frame) /\ frames' # <<>>
         /\ \A i \in DOMAIN frames' : (i \in DOMAIN frames /\ frames'[i] = frames[i]) \/ frames'[i] = f
<1>. QED
  OBVIOUS

LEMMA FramesPopped ==
  ASSUME frames \in Seq(Frame), frames # <<>>
  PROVE  /\ Top \in Frame /\ \E i \in DOMAIN frames : Top = frames[i]
         /\ Popped \in Seq(Frame)
         /\ \A i \in DOMAIN Popped : i \in DOMAIN frames /\ Popped[i] = frames[i]
<1>1. Len(frames) \in DOMAIN frames /\ Len(frames) \in Nat /\ Len(frames) > 0
  OBVIOUS
<1>. QED
  BY <1>1 DEF Top, Popped

LEMMA DrainFrame ==
  \A f \in Frame : f.pc = "drain" => f.kid \in Kids
<1>. QED
  BY DEF Frame

-----------------------------------------------------------------------------
(* What a step that starts no process may disturb.                         *)

RestTypeOK ==
  /\ child \in Kids /\ waited \in Kids
  /\ stop \in BOOLEAN /\ draining \in BOOLEAN /\ changed \in BOOLEAN
  /\ lastList \in Lists /\ upstream \in Lists
  /\ refresh \in {"sleep", "build", "decide", "drain", "spawn", "ended"}
  /\ main \in {"wait", "check", "exit", "gone"}
  /\ frames \in Seq(Frame)
  /\ signals \in 0 .. MaxSignals

LEMMA TypesSplit == TypeOK <=> (ProcTypeOK /\ RestTypeOK)
<1>. QED
  BY DEF TypeOK, ProcTypeOK, RestTypeOK

LEMMA WanesInv ==
  ASSUME OneChild, Wanes, RestTypeOK', child' = child, Handled', ListInv',
         refresh' = "spawn" => Untouched' = {}
  PROVE  ProxyInv'
<1>1. TypeOK'
  BY DEF Wanes, TypeOK, ProcTypeOK, RestTypeOK
<1>2. OneChild'
  BY DEF OneChild, Wanes
<1>. QED
  BY <1>1, <1>2 DEF Wanes, ProxyInv

LEMMA HandledKept ==
  ASSUME Handled, Wanes, child' = child, UNCHANGED <<stop, frames>>,
         main' = "gone" => frames = <<>>,
         (stop /\ RefreshLocked') => RefreshLocked
  PROVE  Handled'
<1>. QED
  BY DEF Handled, Wanes

LEMMA ListKept ==
  ASSUME TypeOK, ListInv, Wanes, UNCHANGED <<child, lastList, refresh, changed>>, ~stop' => ~stop
  PROVE  ListInv'
<1>1. proc'[child].st = "up" => proc'[child] = proc[child]
  BY DEF TypeOK, Wanes
<1>. QED
  BY <1>1 DEF ListInv

(* The refresh thread leaves the main thread alone.                        *)
LEMMA RefreshInv ==
  ASSUME ProxyInv, Wanes, child' = child, UNCHANGED <<stop, mainVars, upstream>>,
         changed' \in BOOLEAN, lastList' \in Lists,
         refresh' \in {"sleep", "build", "decide", "drain", "spawn", "ended"},
         RefreshLocked \/ ~stop \/ ~RefreshLocked',
         ListInv', refresh' = "spawn" => Untouched' = {}
  PROVE  ProxyInv'
<1> USE DEF ProxyInv
<1>1. UNCHANGED <<main, waited, frames, draining, signals>>
  BY DEF mainVars
<1>2. RestTypeOK'
  BY <1>1 DEF TypeOK, RestTypeOK
<1>3. Handled'
  BY <1>1, HandledKept DEF Handled
<1>. QED
  BY <1>2, <1>3, WanesInv

-----------------------------------------------------------------------------
(* The refresh thread.                                                     *)

LEMMA RefreshBetween ==
  ASSUME ProxyInv, RefreshBegin \/ RefreshEnds \/ RefreshWrite \/ RefreshFails
  PROVE  ProxyInv'
<1> USE DEF ProxyInv
<1>1. /\ UNCHANGED <<proc, reaped, child, stop, mainVars, upstream>>
      /\ changed' \in BOOLEAN /\ lastList' \in Lists
      /\ refresh' \in {"sleep", "build", "decide", "ended"}
      /\ RefreshLocked \/ ~stop \/ ~RefreshLocked'
  BY DEF RefreshBegin, RefreshEnds, RefreshWrite, RefreshFails, kids, state, TypeOK,
         Changed, Discovered, RefreshLocked
<1>2. Wanes
  BY <1>1, StillWanes DEF TypeOK, ProcTypeOK
<1>3. ListInv'
  <2>1. CASE RefreshWrite
    <3>1. refresh = "build" /\ refresh' = "decide" /\ (~changed' => lastList' = lastList)
      BY <2>1 DEF RefreshWrite, Changed, Discovered
    <3>. QED
      BY <1>1, <3>1 DEF ListInv
  <2>2. CASE RefreshBegin \/ RefreshEnds \/ RefreshFails
    <3>1. refresh \in {"sleep", "build"} /\ refresh' \in {"sleep", "build", "ended"} /\ lastList' = lastList
      BY <2>2 DEF RefreshBegin, RefreshEnds, RefreshFails, state
    <3>. QED
      BY <1>1, <3>1 DEF ListInv
  <2>. QED
    BY <2>1, <2>2
<1>. QED
  BY <1>1, <1>2, <1>3, RefreshInv

(* Nothing to replace: the flag, the list or the child says so.            *)
LEMMA RefreshSkipInv ==
  ASSUME ProxyInv, RefreshSkip
  PROVE  ProxyInv'
<1> USE DEF ProxyInv
<1>1. /\ refresh = "decide" /\ refresh' = "sleep"
      /\ stop \/ ~changed \/ PollSees(child)
      /\ UNCHANGED <<proc, child, stop, lastList, changed, mainVars, upstream>>
      /\ reaped' = (IF stop THEN reaped ELSE Polled(child))
  BY DEF RefreshSkip, state
<1>2. Wanes
  BY <1>1, StillWanes, PollWanes DEF TypeOK, ProcTypeOK
<1>3. ListInv'
  <2>1. CASE stop
    BY <1>1, <2>1 DEF ListInv
  <2>2. CASE ~changed
    BY <1>1, <2>2 DEF ListInv
  <2>3. CASE PollSees(child)
    <3>1. proc[child].st = "over"
      BY <2>3, PollFindsOver DEF TypeOK, ProcTypeOK, Over
    <3>. QED
      BY <1>1, <3>1 DEF ListInv
  <2>. QED
    BY <1>1, <2>1, <2>2, <2>3
<1>4. changed' \in BOOLEAN /\ lastList' \in Lists /\ RefreshLocked
  BY <1>1 DEF TypeOK, RefreshLocked
<1>. QED
  BY <1>1, <1>2, <1>3, <1>4, RefreshInv

LEMMA RefreshReloadInv ==
  ASSUME ProxyInv, RefreshReload
  PROVE  ProxyInv'
<1> USE DEF ProxyInv
<1>1. /\ refresh = "decide" /\ refresh' = "drain" /\ proc' = Terminated(child)
      /\ UNCHANGED <<reaped, child, stop, lastList, changed, mainVars, upstream>>
  BY DEF RefreshReload, state
<1>2. Wanes /\ proc'[child].st # "up"
  BY <1>1, TerminateWanes DEF TypeOK, ProcTypeOK
<1>3. ListInv'
  BY <1>1, <1>2 DEF ListInv
<1>4. changed' \in BOOLEAN /\ lastList' \in Lists /\ RefreshLocked
  BY <1>1 DEF TypeOK, RefreshLocked
<1>. QED
  BY <1>1, <1>2, <1>3, <1>4, RefreshInv

(* The child has exited, or is killed: either way nothing is left.         *)
LEMMA ReloadDrainedInv ==
  ASSUME ProxyInv, ReloadSeesExit \/ ReloadDeadline
  PROVE  ProxyInv'
<1> USE DEF ProxyInv
<1>1. /\ refresh = "drain" /\ refresh' = "spawn"
      /\ UNCHANGED <<child, stop, lastList, changed, mainVars, upstream>>
  BY DEF ReloadSeesExit, ReloadDeadline, state
<1>2. Wanes /\ Untouched' = {}
  <2>1. CASE ReloadSeesExit
    <3>1. PollSees(child) /\ proc' = proc /\ reaped' = Polled(child)
      BY <2>1 DEF ReloadSeesExit
    <3>2. proc[child].st = "over"
      BY <3>1, PollFindsOver DEF TypeOK, ProcTypeOK, Over
    <3>3. Wanes /\ Untouched' = Untouched
      BY <3>1, PollWanes DEF TypeOK, ProcTypeOK
    <3>. QED
      BY <3>2, <3>3 DEF OneChild, Untouched
  <2>2. CASE ReloadDeadline
    <3>1. proc' = Killed(child) /\ reaped' = reaped
      BY <2>2 DEF ReloadDeadline, ReloadKill
    <3>2. Wanes /\ Untouched' = Untouched \ {child}
      BY <3>1, KillWanes DEF TypeOK, ProcTypeOK
    <3>. QED
      BY <3>2 DEF OneChild
  <2>. QED
    BY <2>1, <2>2
<1>3. ListInv'
  <2>1. proc'[child].st # "up"
    BY <1>2 DEF Untouched, TypeOK
  <2>. QED
    BY <1>1, <2>1 DEF ListInv
<1>4. changed' \in BOOLEAN /\ lastList' \in Lists /\ RefreshLocked
  BY <1>1 DEF TypeOK, RefreshLocked
<1>. QED
  BY <1>1, <1>2, <1>3, <1>4, RefreshInv

LEMMA ReloadSpawnFailsInv ==
  ASSUME ProxyInv, ReloadSpawnFails
  PROVE  ProxyInv'
<1> USE DEF ProxyInv
<1>1. /\ refresh = "spawn" /\ refresh' = "sleep"
      /\ UNCHANGED <<proc, reaped, child, stop, lastList, changed, mainVars, upstream>>
  BY DEF ReloadSpawnFails, kids, state
<1>2. Wanes
  BY <1>1, StillWanes DEF TypeOK, ProcTypeOK
<1>3. ListInv'
  <2>1. proc[child].st # "up"
    BY <1>1 DEF OneChild, Untouched, TypeOK
  <2>. QED
    BY <1>1, <2>1 DEF ListInv
<1>4. changed' \in BOOLEAN /\ lastList' \in Lists /\ RefreshLocked
  BY <1>1 DEF TypeOK, RefreshLocked
<1>. QED
  BY <1>1, <1>2, <1>3, <1>4, RefreshInv

(* The one step that starts a process: no other is up, and no handler      *)
(* drains the child that it replaces.                                      *)
LEMMA ReloadSpawnInv ==
  ASSUME ProxyInv, ReloadSpawn
  PROVE  ProxyInv'
<1> USE DEF ProxyInv
<1>1. PICK k \in Unused :
        /\ proc' = [proc EXCEPT ![k] = [st |-> "up", list |-> lastList]]
        /\ reaped' = reaped \ {k} /\ child' = k
  BY DEF ReloadSpawn
<1>2. /\ refresh = "spawn" /\ refresh' = "sleep"
      /\ UNCHANGED <<stop, lastList, changed, main, waited, frames, draining, signals, upstream>>
  BY DEF ReloadSpawn, state, mainVars
<1>3. k \in Kids /\ [st |-> "up", list |-> lastList] \in Proc
  BY DEF Unused, TypeOK, Proc
<1>4. /\ proc' \in [Kids -> Proc] /\ proc'[k].st = "up" /\ proc'[k].list = lastList
      /\ \A j \in Kids : j # k => proc'[j] = proc[j]
  BY <1>1, <1>3 DEF TypeOK
<1>5. TypeOK'
  BY <1>1, <1>2, <1>3, <1>4 DEF TypeOK
<1>6. ReapedOver'
  BY <1>1, <1>4 DEF ReapedOver, TypeOK
<1>7. OneChild'
  BY <1>1, <1>2, <1>4 DEF OneChild, Untouched
<1>8. Handled'
  <2>1. RefreshLocked /\ ~RefreshLocked'
    BY <1>2 DEF RefreshLocked
  <2>. QED
    BY <1>2, <2>1 DEF Handled
<1>9. ListInv'
  BY <1>1, <1>2, <1>4 DEF ListInv
<1>. QED
  BY <1>5, <1>6, <1>7, <1>8, <1>9

-----------------------------------------------------------------------------
(* The main thread and its signal handlers.                                *)

(* Frames come and go, stop is set already: the list is nobody's concern.  *)
LEMMA HandlerInv ==
  ASSUME ProxyInv, Wanes, UNCHANGED <<child, state, thread, waited, signals, upstream>>,
         stop, frames' \in Seq(Frame), draining' \in BOOLEAN,
         main' \in {"wait", "check", "exit", "gone"}, main' = "gone" => main = "gone",
         main = "gone" => frames' = <<>>,
         frames' = <<>> => (Untouched' = {} /\ ~RefreshLocked),
         \A i \in DOMAIN frames' :
           frames'[i].pc = "drain" => (frames'[i].kid = child /\ ~RefreshLocked)
  PROVE  ProxyInv'
<1> USE DEF ProxyInv
<1>1. UNCHANGED <<stop, lastList, refresh, changed, RefreshLocked>>
  BY DEF state, thread, RefreshLocked
<1>2. RestTypeOK'
  BY <1>1 DEF TypeOK, RestTypeOK
<1>3. Handled'
  BY <1>1 DEF Handled
<1>4. ListInv'
  BY <1>1 DEF ListInv
<1>5. refresh' = "spawn" => Untouched' = {}
  BY <1>1 DEF OneChild, Wanes
<1>. QED
  BY <1>2, <1>3, <1>4, <1>5, WanesInv

(* The frame on top, with what the invariant knows of it.                  *)
LEMMA TopFrame ==
  ASSUME ProxyInv, frames # <<>>
  PROVE  /\ stop /\ main # "gone"
         /\ Popped \in Seq(Frame)
         /\ Top.pc = "drain" => (Top.kid = child /\ ~RefreshLocked)
         /\ \A i \in DOMAIN Popped :
              Popped[i].pc = "drain" => (Popped[i].kid = child /\ ~RefreshLocked)
<1>. QED
  BY FramesPopped DEF ProxyInv, TypeOK, Handled

LEMMA HandlerTerminatesInv ==
  ASSUME ProxyInv, HandlerTerminates
  PROVE  ProxyInv'
<1> USE DEF ProxyInv
<1>1. /\ frames # <<>> /\ ~RefreshLocked /\ draining' = TRUE
      /\ proc' = Terminated(child) /\ reaped' = reaped
      /\ frames' = Append(Popped, [pc |-> "drain", kid |-> child])
      /\ UNCHANGED <<child, state, thread, main, waited, signals, upstream>>
  BY DEF HandlerTerminates, Quiet
<1>2. Wanes
  BY <1>1, TerminateWanes DEF TypeOK, ProcTypeOK
<1>3. [pc |-> "drain", kid |-> child] \in Frame
  BY DEF TypeOK, Frame
<1>4. /\ frames' \in Seq(Frame) /\ frames' # <<>>
      /\ \A i \in DOMAIN frames' :
           frames'[i].pc = "drain" => (frames'[i].kid = child /\ ~RefreshLocked)
  <2> DEFINE f == [pc |-> "drain", kid |-> child]
             q == Popped
  <2>1. f \in Frame /\ q \in Seq(Frame) /\ frames' = Append(q, f) /\ f.kid = child
    BY <1>1, <1>3, TopFrame
  <2>2. \A i \in DOMAIN q : q[i].pc = "drain" => (q[i].kid = child /\ ~RefreshLocked)
    BY <1>1, TopFrame
  <2> HIDE DEF f, q
  <2>3. /\ frames' \in Seq(Frame) /\ frames' # <<>>
        /\ \A i \in DOMAIN frames' : (i \in DOMAIN q /\ frames'[i] = q[i]) \/ frames'[i] = f
    BY <2>1
  <2>. QED
    BY <1>1, <2>1, <2>2, <2>3
<1>5. stop /\ main \in {"wait", "check", "exit", "gone"} /\ main # "gone"
  BY <1>1, TopFrame DEF TypeOK
<1>. QED
  BY <1>1, <1>2, <1>4, <1>5, HandlerInv

LEMMA HandlerAbortsInv ==
  ASSUME ProxyInv, HandlerAborts
  PROVE  ProxyInv'
<1> USE DEF ProxyInv
<1>1. /\ frames # <<>> /\ ~RefreshLocked /\ main' = "exit" /\ frames' = <<>>
      /\ proc' = Killed(child) /\ reaped' = reaped
      /\ UNCHANGED <<child, state, thread, draining, waited, signals, upstream>>
  BY DEF HandlerAborts, Quiet
<1>2. Wanes /\ Untouched' = Untouched \ {child}
  BY <1>1, KillWanes DEF TypeOK, ProcTypeOK
<1>3. Untouched' = {}
  BY <1>2 DEF OneChild
<1>4. stop /\ draining' \in BOOLEAN /\ frames' \in Seq(Frame)
  BY <1>1, TopFrame DEF TypeOK
<1>. QED
  BY <1>1, <1>2, <1>3, <1>4, HandlerInv

(* The last frame goes only when the child it drained is over, or killed.  *)
LEMMA HandlerPopsInv ==
  ASSUME ProxyInv, HandlerSeesExit \/ HandlerDeadline
  PROVE  ProxyInv'
<1> USE DEF ProxyInv
<1>1. /\ frames # <<>> /\ Top.pc = "drain" /\ frames' = Popped
      /\ UNCHANGED <<child, state, thread, main, draining, waited, signals, upstream>>
  BY DEF HandlerSeesExit, HandlerDeadline
<1>2. Top.kid = child /\ ~RefreshLocked /\ stop /\ main # "gone"
  BY <1>1, TopFrame
<1>3. Wanes /\ Untouched' = {}
  <2>1. CASE HandlerSeesExit
    <3>1. PollSees(child) /\ proc' = proc /\ reaped' = Polled(child)
      BY <1>2, <2>1 DEF HandlerSeesExit
    <3>2. proc[child].st = "over"
      BY <3>1, PollFindsOver DEF TypeOK, ProcTypeOK, Over
    <3>3. Wanes /\ Untouched' = Untouched
      BY <3>1, PollWanes DEF TypeOK, ProcTypeOK
    <3>. QED
      BY <3>2, <3>3 DEF OneChild, Untouched
  <2>2. CASE HandlerDeadline
    <3>1. proc' = Killed(child) /\ reaped' = reaped
      BY <1>2, <2>2 DEF HandlerDeadline, HandlerKill
    <3>2. Wanes /\ Untouched' = Untouched \ {child}
      BY <3>1, KillWanes DEF TypeOK, ProcTypeOK
    <3>. QED
      BY <3>2 DEF OneChild
  <2>. QED
    BY <1>1, <2>1, <2>2
<1>4. /\ frames' \in Seq(Frame)
      /\ \A i \in DOMAIN frames' :
           frames'[i].pc = "drain" => (frames'[i].kid = child /\ ~RefreshLocked)
  BY <1>1, TopFrame
<1>5. draining' \in BOOLEAN /\ main' \in {"wait", "check", "exit", "gone"}
  BY <1>1 DEF TypeOK
<1>. QED
  BY <1>1, <1>2, <1>3, <1>4, <1>5, HandlerInv

(* The signal arrives: the handler has not got to the lock yet.            *)
LEMMA SignalInv ==
  ASSUME ProxyInv, NEW sig \in {"TERM", "INT"}, Signal(sig)
  PROVE  ProxyInv'
<1> USE DEF ProxyInv
<1>1. /\ main # "gone" /\ signals < MaxSignals /\ signals' = signals + 1 /\ stop' = TRUE
      /\ frames' = Append(frames, [pc |-> "lock", sig |-> sig])
      /\ UNCHANGED <<proc, reaped, child, lastList, refresh, changed, main, waited, draining, upstream>>
  BY DEF Signal, kids, thread
<1>2. Wanes
  BY <1>1, StillWanes DEF TypeOK, ProcTypeOK
<1>3. /\ frames' \in Seq(Frame) /\ frames' # <<>>
      /\ \A i \in DOMAIN frames' : (i \in DOMAIN frames /\ frames'[i] = frames[i]) \/ frames'[i].pc = "lock"
  <2> DEFINE f == [pc |-> "lock", sig |-> sig]
  <2>1. f \in Frame /\ f.pc = "lock" /\ frames' = Append(frames, f)
    BY <1>1 DEF Frame
  <2> HIDE DEF f
  <2>. QED
    BY <2>1, FramesPushed DEF TypeOK
<1>4. RestTypeOK'
  <2>1. signals' \in 0 .. MaxSignals
    BY <1>1, BoundAssumption DEF TypeOK
  <2>. QED
    BY <1>1, <1>3, <2>1 DEF TypeOK, RestTypeOK
<1>5. Handled'
  BY <1>1, <1>3 DEF Handled, RefreshLocked
<1>6. ListInv'
  BY <1>1 DEF ListInv
<1>7. refresh' = "spawn" => Untouched' = {}
  BY <1>1, <1>2 DEF OneChild, Wanes
<1>. QED
  BY <1>1, <1>2, <1>4, <1>5, <1>6, <1>7, WanesInv

(* Nothing but the main thread's own variables, a returncode or a process  *)
(* that is over.                                                           *)
LEMMA BystanderInv ==
  ASSUME ProxyInv, Wanes, UNCHANGED <<child, state, thread, frames, draining, signals>>,
         main' \in {"wait", "check", "exit", "gone"}, waited' \in Kids, upstream' \in Lists,
         main' = "gone" => frames = <<>>
  PROVE  ProxyInv'
<1> USE DEF ProxyInv
<1>1. UNCHANGED <<stop, lastList, refresh, changed, RefreshLocked>>
  BY DEF state, thread, RefreshLocked
<1>2. RestTypeOK'
  BY <1>1 DEF TypeOK, RestTypeOK
<1>3. Handled' /\ ListInv'
  BY <1>1, HandledKept, ListKept
<1>4. refresh' = "spawn" => Untouched' = {}
  BY <1>1 DEF OneChild, Wanes
<1>. QED
  BY <1>2, <1>3, <1>4, WanesInv

LEMMA WaitInv ==
  ASSUME ProxyInv, WaitReturns \/ WaitAgain \/ WaitDone \/ Exit
  PROVE  ProxyInv'
<1> USE DEF ProxyInv
<1>1. /\ UNCHANGED <<proc, child, state, thread, frames, draining, signals, upstream>>
      /\ frames = <<>> /\ main' \in {"wait", "check", "exit", "gone"} /\ waited' \in Kids
  BY DEF WaitReturns, WaitAgain, WaitDone, Exit, kids, TypeOK
<1>2. Wanes
  <2>1. CASE WaitReturns
    <3>1. reaped' = reaped \cup {waited} /\ proc[waited] = Over /\ waited \in Kids
      BY <2>1, ProcCases DEF WaitReturns, ReapedOver, TypeOK
    <3>. QED
      BY <1>1, <3>1, StillWanes DEF TypeOK, ProcTypeOK
  <2>2. CASE WaitAgain \/ Exit
    BY <1>1, <2>2, StillWanes DEF WaitAgain, Exit, kids, TypeOK, ProcTypeOK
  <2>3. CASE WaitDone
    <3>1. reaped' = (IF stop THEN reaped ELSE Polled(child)) /\ child \in Kids
      BY <2>3 DEF WaitDone, TypeOK
    <3>. QED
      BY <1>1, <3>1, StillWanes, PollWanes DEF TypeOK, ProcTypeOK
  <2>. QED
    BY <2>1, <2>2, <2>3
<1>3. upstream' \in Lists
  BY <1>1 DEF TypeOK
<1>. QED
  BY <1>1, <1>2, <1>3, BystanderInv

LEMMA WorldInv ==
  ASSUME ProxyInv, DiscoveryChanges \/ \E k \in Kids : KidExits(k)
  PROVE  ProxyInv'
<1> USE DEF ProxyInv
<1>1. UNCHANGED <<child, state, thread, main, waited, frames, draining, signals>> /\ upstream' \in Lists
  BY DEF DiscoveryChanges, KidExits, kids, mainVars, TypeOK
<1>2. Wanes
  <2>1. CASE DiscoveryChanges
    BY <2>1, StillWanes DEF DiscoveryChanges, kids, TypeOK, ProcTypeOK
  <2>2. CASE \E k \in Kids : KidExits(k)
    BY <2>2, ExitWanes DEF KidExits, TypeOK, ProcTypeOK
  <2>. QED
    BY <2>1, <2>2
<1>3. main' \in {"wait", "check", "exit", "gone"} /\ waited' \in Kids /\ (main' = "gone" => frames = <<>>)
  BY <1>1 DEF TypeOK, Handled
<1>. QED
  BY <1>1, <1>2, <1>3, BystanderInv

-----------------------------------------------------------------------------
(* The invariant.                                                          *)

LEMMA InitInv == Init => ProxyInv
<1> SUFFICES ASSUME Init PROVE ProxyInv
  OBVIOUS
<1> DEFINE first == [st |-> "up", list |-> upstream]
<1>1. /\ first \in Proc /\ Over \in Proc /\ first.st = "up" /\ first.list = upstream
      /\ Over.st = "over"
  BY DEF Init, Proc, Over
<1>2. child \in Kids /\ proc = [k \in Kids |-> IF k = child THEN first ELSE Over]
  BY DEF Init
<1> HIDE DEF first
<1>3. ProcTypeOK /\ ReapedOver
  BY <1>1, <1>2 DEF Init, ProcTypeOK, ReapedOver
<1>4. RestTypeOK
  <2>1. frames \in Seq(Frame)
    BY DEF Init
  <2>2. signals \in 0 .. MaxSignals
    BY BoundAssumption DEF Init
  <2>. QED
    BY <2>1, <2>2 DEF Init, RestTypeOK
<1>5. OneChild
  BY <1>1, <1>2 DEF Init, OneChild, Untouched
<1>6. Handled
  BY DEF Init, Handled
<1>7. ListInv
  BY <1>1, <1>2 DEF Init, ListInv
<1>. QED
  BY <1>3, <1>4, <1>5, <1>6, <1>7, TypesSplit DEF ProxyInv

LEMMA NextInv == ProxyInv /\ [Next]_vars => ProxyInv'
<1> SUFFICES ASSUME ProxyInv, [Next]_vars PROVE ProxyInv'
  OBVIOUS
<1>1. CASE RefreshThread
  BY <1>1, RefreshBetween, RefreshSkipInv, RefreshReloadInv, ReloadDrainedInv, ReloadSpawnInv,
     ReloadSpawnFailsInv DEF RefreshThread
<1>2. CASE MainThread
  BY <1>2, WaitInv, HandlerTerminatesInv, HandlerAbortsInv, HandlerPopsInv DEF MainThread
<1>3. CASE \E sig \in {"TERM", "INT"} : Signal(sig)
  BY <1>3, SignalInv
<1>4. CASE DiscoveryChanges \/ \E k \in Kids : KidExits(k)
  BY <1>4, WorldInv
<1>5. CASE UNCHANGED vars
  <2>1. UNCHANGED <<proc, reaped, child, stop, lastList, refresh, changed, main, waited, frames,
                    draining, signals, upstream>>
    BY <1>5 DEF vars, kids, state, thread, mainVars
  <2>. QED
    BY <2>1 DEF ProxyInv, TypeOK, ReapedOver, OneChild, Untouched, Handled, RefreshLocked, ListInv
<1>. QED
  BY <1>1, <1>2, <1>3, <1>4, <1>5 DEF Next

(* The strengthening that is inductive.                                    *)
THEOREM ProxyInvariance == Spec => []ProxyInv
<1>. QED
  BY InitInv, NextInv, PTL DEF Spec

-----------------------------------------------------------------------------
(* What the invariant says.                                                *)

(* Every variable of the supervisor keeps its type.                        *)
THEOREM TypeOKHolds == Spec => []TypeOK
<1>1. ProxyInv => TypeOK
  BY DEF ProxyInv
<1>. QED
  BY <1>1, ProxyInvariance, PTL

(* At most one litellm has neither ended nor been killed, whatever signals *)
(* and refreshes meet: a reload spawns when no other is left.              *)
THEOREM OneListenerHolds == Spec => []OneListener
<1>1. ProxyInv => OneListener
  <2> SUFFICES ASSUME ProxyInv PROVE Cardinality(Untouched) <= 1
    BY DEF OneListener
  <2>1. Untouched = {} \/ Untouched = {child}
    BY DEF ProxyInv, OneChild
  <2>. QED
    BY <2>1, FS_EmptySet, FS_Singleton
<1>. QED
  BY <1>1, ProxyInvariance, PTL

(* A supervisor that was told to stop leaves no litellm behind: the        *)
(* handler waits for the refresh, and drains the child the refresh left.   *)
THEOREM ShutdownLeavesNoneHolds == Spec => []ShutdownLeavesNone
<1>1. ProxyInv => ShutdownLeavesNone
  BY DEF ProxyInv, Handled, ShutdownLeavesNone
<1>. QED
  BY <1>1, ProxyInvariance, PTL

(* Between refreshes a child that is up serves the list whose hash the     *)
(* supervisor remembers.                                                   *)
THEOREM ChildServesLastHolds == Spec => []ChildServesLast
<1>1. ProxyInv => ChildServesLast
  BY DEF ProxyInv, ListInv, ChildServesLast
<1>. QED
  BY <1>1, ProxyInvariance, PTL
=============================================================================
