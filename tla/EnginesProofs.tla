---------------------------- MODULE EnginesProofs -----------------------------
(***************************************************************************)
(* Proofs about module Engines, for every set of pids and of model specs.  *)
(* Module WorkerProofs uses the lemmas: its worker takes the same executor *)
(* and process steps.                                                      *)
(***************************************************************************)
EXTENDS Engines, TLAPS

ProcTypeOK == proc \in [Procs -> {Free} \cup Process]

(* A process keeps its type when its state, owner or signal changes.       *)
LEMMA ProcessUpdates ==
  ASSUME NEW x \in Process
  PROVE  /\ [x EXCEPT !.st = "zombie"] \in Process
         /\ [x EXCEPT !.st = "ready"] \in Process
         /\ [x EXCEPT !.owner = "lost"] \in Process
         /\ [x EXCEPT !.term = TRUE] \in Process
<1>. QED
  BY DEF Process

LEMMA FreeIsNoProcess == Free \notin Process /\ \A x \in Process : x.st # "free"
<1>. QED
  BY DEF Free, Process

(* What each kind of step leaves in the table.                             *)
LEMMA TableUpdates ==
  ASSUME ProcTypeOK, NEW p \in Procs, proc[p] # Free
  PROVE  /\ Gone(p) \in [Procs -> {Free} \cup Process]
         /\ [proc EXCEPT ![p].st = "ready"] \in [Procs -> {Free} \cup Process]
         /\ [proc EXCEPT ![p].owner = "lost"] \in [Procs -> {Free} \cup Process]
<1>1. proc[p] \in Process
  BY DEF ProcTypeOK
<1>. QED
  BY <1>1, ProcessUpdates DEF ProcTypeOK, Gone

LEMMA ReapedType ==
  ASSUME ProcTypeOK, NEW p \in Procs
  PROVE  Reaped(p) \in [Procs -> {Free} \cup Process]
<1>. QED
  BY DEF ProcTypeOK, Reaped

LEMMA CleanedUpType == ProcTypeOK => CleanedUp \in [Procs -> {Free} \cup Process]
<1>. QED
  BY DEF ProcTypeOK, CleanedUp

(* A call keeps its type when its state advances within its family.        *)
LEMMA JobTypes ==
  /\ \A s \in LocalSpecs : /\ [st |-> "spawn", spec |-> s] \in Job
                           /\ [st |-> "raised", spec |-> s] \in Job
  /\ \A s \in LocalSpecs, p \in Procs : /\ [st |-> "poll", spec |-> s, pid |-> p] \in Job
                                        /\ [st |-> "kill", spec |-> s, pid |-> p] \in Job
  /\ NoJob \in Job
<1>. QED
  BY DEF Job

LEMMA JobWithPid ==
  ASSUME NEW j \in Job, j.st \in {"poll", "started", "kill", "wait", "stopped"}
  PROVE  /\ j \in [st : {"poll", "started", "kill", "wait", "stopped"}, spec : LocalSpecs, pid : Procs]
         /\ j.spec \in LocalSpecs /\ j.pid \in Procs
         /\ \A x \in {"started", "wait", "stopped"} : [j EXCEPT !.st = x] \in Job
<1>1. j \in [st : {"poll", "started", "kill", "wait", "stopped"}, spec : LocalSpecs, pid : Procs]
  BY DEF Job, NoJob
<1>. QED
  BY <1>1 DEF Job

LEMMA JobWithSpec ==
  ASSUME NEW j \in Job, j.st \in {"spawn", "raised"}
  PROVE  j.spec \in LocalSpecs
<1>. QED
  BY DEF Job, NoJob

-----------------------------------------------------------------------------
(* Types alone are not inductive: a deadline that passes writes into the   *)
(* record of the child, which must be there.                               *)
EngInv == EngTypeOK /\ StartHoldsChild /\ StoppedIsReaped

LEMMA EngInitInv == EngInit => EngInv
<1> SUFFICES ASSUME EngInit PROVE EngInv
  OBVIOUS
<1>1. job = NoJob
  BY DEF EngInit
<1>2. proc \in [Procs -> {Free} \cup Process]
  <2>1. \A s \in LocalSpecs : OutsideEngine(s) \in Process
    BY DEF OutsideEngine, Process
  <2>. QED
    BY <2>1 DEF EngInit
<1>3. StartHoldsChild /\ StoppedIsReaped
  BY <1>1 DEF StartHoldsChild, StoppedIsReaped, NoJob
<1>. QED
  BY <1>1, <1>2, <1>3, JobTypes DEF EngInv, EngTypeOK

LEMMA ExecutorStepInv ==
  ASSUME EngInv, ExecutorStep
  PROVE  EngInv'
<1> USE DEF EngTypeOK
<1>. DEFINE Table == [Procs -> {Free} \cup Process]
<1>0. EngTypeOK /\ ProcTypeOK /\ StartHoldsChild /\ StoppedIsReaped
  BY DEF EngInv, ProcTypeOK
<1>1. ASSUME NEW p \in Procs, Spawn(p) PROVE EngInv'
  <2>1. job.spec \in LocalSpecs
    BY <1>0, <1>1, JobWithSpec DEF Spawn
  <2>. DEFINE child == [st |-> "loading", spec |-> job.spec, owner |-> "worker", term |-> FALSE]
  <2>2. child \in Process
    BY <2>1 DEF Process
  <2>3. proc' \in Table /\ proc'[p] = child
    BY <1>0, <1>1, <2>2, CleanedUpType DEF Spawn
  <2>4. job' \in Job /\ job'.st = "poll" /\ job'.pid = p
    BY <1>1, <2>1, JobTypes DEF Spawn
  <2>5. proc'[p] # Free /\ proc'[p].owner = "worker"
    <3>1. child # Free /\ child.owner = "worker"
      BY DEF Free
    <3>. QED
      BY <2>3, <3>1
  <2>6. StartHoldsChild' /\ StoppedIsReaped'
    BY <2>4, <2>5 DEF StartHoldsChild, StoppedIsReaped
  <2>. QED
    BY <1>0, <1>1, <2>3, <2>4, <2>6 DEF Spawn, EngInv
<1>2. CASE SpawnFails
  <2>1. job' \in Job /\ job'.st = "raised"
    BY <1>0, <1>2, JobWithSpec, JobTypes DEF SpawnFails
  <2>. QED
    BY <1>0, <1>2, <2>1 DEF SpawnFails, EngInv, StartHoldsChild, StoppedIsReaped
<1>3. CASE PollExited
  <2>1. job.spec \in LocalSpecs /\ job.pid \in Procs
    BY <1>0, <1>3, JobWithPid DEF PollExited
  <2>2. job' \in Job /\ job'.st = "raised"
    BY <1>3, <2>1, JobTypes DEF PollExited
  <2>3. proc' \in Table
    BY <1>0, <1>3, <2>1, ReapedType DEF PollExited
  <2>. QED
    BY <1>0, <1>3, <2>2, <2>3 DEF PollExited, EngInv, StartHoldsChild, StoppedIsReaped
<1>4. CASE PollReady
  <2>1. job' \in Job /\ job'.st = "started"
    BY <1>0, <1>4, JobWithPid DEF PollReady
  <2>. QED
    BY <1>0, <1>4, <2>1 DEF PollReady, EngInv, StartHoldsChild, StoppedIsReaped
<1>5. CASE PollTimeout
  <2>1. job.spec \in LocalSpecs /\ job.pid \in Procs
    BY <1>0, <1>5, JobWithPid DEF PollTimeout
  <2>2. proc[job.pid] # Free
    BY <1>0, <1>5 DEF PollTimeout, StartHoldsChild
  <2>3. proc' \in Table
    BY <1>0, <1>5, <2>1, <2>2, TableUpdates DEF PollTimeout
  <2>4. job' \in Job /\ job'.st = "raised"
    BY <1>5, <2>1, JobTypes DEF PollTimeout
  <2>. QED
    BY <1>0, <1>5, <2>3, <2>4 DEF PollTimeout, EngInv, StartHoldsChild, StoppedIsReaped
<1>6. CASE KillMissing
  <2>1. job' \in Job /\ job'.st = "stopped" /\ job'.pid = job.pid
    BY <1>0, <1>6, JobWithPid DEF KillMissing
  <2>. QED
    BY <1>0, <1>6, <2>1 DEF KillMissing, EngInv, StartHoldsChild, StoppedIsReaped
<1>7. CASE Kill
  <2>1. job' \in Job /\ job'.st = "wait"
    BY <1>0, <1>7, JobWithPid DEF Kill, AfterKill
  <2>2. \A p \in Signalled(job.pid) \cap Procs : proc[p] # Free
    BY <1>7 DEF Kill, Signalled, Group, OurProcs
  <2>3. proc' \in Table
    BY <1>0, <1>7, <2>2, ProcessUpdates DEF Kill, ProcTypeOK
  <2>. QED
    BY <2>1, <2>3 DEF EngInv, StartHoldsChild, StoppedIsReaped
<1>8. CASE WaitReaps
  <2>1. job.pid \in Procs /\ job' \in Job /\ job'.st = "stopped" /\ job'.pid = job.pid
    BY <1>0, <1>8, JobWithPid DEF WaitReaps
  <2>2. proc' \in Table /\ proc'[job.pid] = Free
    BY <1>0, <1>8, <2>1, ReapedType DEF WaitReaps, Reaped, ProcTypeOK
  <2>. QED
    BY <1>0, <1>8, <2>1, <2>2 DEF WaitReaps, EngInv, StartHoldsChild, StoppedIsReaped
<1>9. CASE WaitNoChild
  <2>1. job' \in Job /\ job'.st = "stopped" /\ job'.pid = job.pid
    BY <1>0, <1>9, JobWithPid DEF WaitNoChild
  <2>. QED
    BY <1>0, <1>9, <2>1 DEF WaitNoChild, EngInv, StartHoldsChild, StoppedIsReaped
<1>. QED
  BY <1>1, <1>2, <1>3, <1>4, <1>5, <1>6, <1>7, <1>8, <1>9 DEF ExecutorStep

(* A process that appears, exits or becomes ready is one of the table, and *)
(* an exit frees at once only what is not a child of the worker.           *)
LEMMA ProcStepInv ==
  ASSUME EngInv, ProcStep
  PROVE  EngInv'
<1>0. EngTypeOK /\ ProcTypeOK /\ StartHoldsChild /\ StoppedIsReaped
  BY DEF EngInv, ProcTypeOK, EngTypeOK
<1>1. PICK p \in Procs : ProcReady(p) \/ ProcExit(p) \/ ProcTerm(p)
  BY DEF ProcStep
<1>2. proc[p] # Free /\ UNCHANGED job
  BY <1>1 DEF ProcReady, ProcExit, ProcTerm, Live, Free
<1>3. proc[p] \in Process
  BY <1>0, <1>2 DEF ProcTypeOK
<1>4. proc' = Gone(p) \/ proc' = [proc EXCEPT ![p].st = "ready"]
  BY <1>1 DEF ProcReady, ProcExit, ProcTerm
<1>5. proc' \in [Procs -> {Free} \cup Process]
  BY <1>0, <1>2, <1>4, TableUpdates
<1>6. \A q \in Procs : proc[q] = Free => proc'[q] = Free
  BY <1>0, <1>2, <1>4 DEF ProcTypeOK, Gone
<1>10. \A q \in Procs : (proc[q] # Free /\ proc[q].owner = "worker")
                          => (proc'[q] # Free /\ proc'[q].owner = "worker")
  <2> SUFFICES ASSUME NEW q \in Procs, proc[q] # Free, proc[q].owner = "worker"
               PROVE  proc'[q] # Free /\ proc'[q].owner = "worker"
    OBVIOUS
  <2>1. CASE q # p
    BY <1>0, <1>4, <2>1 DEF ProcTypeOK, Gone
  <2>2. CASE q = p /\ proc' = [proc EXCEPT ![p].st = "ready"]
    <3>1. proc'[q] = [proc[q] EXCEPT !.st = "ready"]
      BY <1>0, <2>2 DEF ProcTypeOK
    <3>. QED
      BY <1>2, <1>3, <2>2, <3>1, ProcessUpdates, FreeIsNoProcess DEF Process
  <2>3. CASE q = p /\ proc' = Gone(p)
    <3>1. proc[q].owner = "worker" => proc'[q] = [proc[q] EXCEPT !.st = "zombie"]
      BY <1>0, <2>3 DEF ProcTypeOK, Gone
    <3>. QED
      BY <1>2, <1>3, <2>3, <3>1, ProcessUpdates, FreeIsNoProcess DEF Process
  <2>. QED
    BY <1>4, <2>1, <2>2, <2>3
<1>7. EngTypeOK'
  BY <1>0, <1>2, <1>5 DEF EngTypeOK
<1>8. StartHoldsChild'
  <2>1. job.st = "poll" => job.pid \in Procs
    BY <1>0, JobWithPid DEF EngTypeOK
  <2>. QED
    BY <1>0, <1>2, <1>10, <2>1 DEF StartHoldsChild
<1>9. StoppedIsReaped'
  <2> SUFFICES ASSUME job.st = "stopped" PROVE proc'[job.pid] = Free
    BY <1>2 DEF StoppedIsReaped, Free
  <2>1. job.pid \in Procs /\ proc[job.pid] = Free
    BY <1>0, JobWithPid DEF EngTypeOK, StoppedIsReaped
  <2>. QED
    BY <1>6, <2>1
<1>. QED
  BY <1>7, <1>8, <1>9 DEF EngInv

(* Another Popen() reaps exited children, except the one start() holds.    *)
LEMMA CleanedUpInv ==
  ASSUME EngInv, proc' = CleanedUp, UNCHANGED job
  PROVE  EngInv'
<1>0. EngTypeOK /\ ProcTypeOK /\ StartHoldsChild /\ StoppedIsReaped
  BY DEF EngInv, ProcTypeOK, EngTypeOK
<1>1. EngTypeOK'
  BY <1>0, CleanedUpType DEF EngTypeOK
<1>2. StartHoldsChild'
  <2>1. job.st = "poll" => job.pid \in Procs
    BY <1>0, JobWithPid DEF EngTypeOK
  <2>. QED
    BY <1>0, <2>1 DEF StartHoldsChild, CleanedUp, HeldByStart
<1>3. StoppedIsReaped'
  <2>1. job.st = "stopped" => job.pid \in Procs
    BY <1>0, JobWithPid DEF EngTypeOK
  <2>. QED
    BY <1>0, <2>1 DEF StoppedIsReaped, CleanedUp
<1>. QED
  BY <1>1, <1>2, <1>3 DEF EngInv

(* The caller submits a call or collects a result.                         *)
LEMMA NewJobInv ==
  ASSUME EngInv, job' \in Job, job'.st \notin {"poll", "stopped"}, UNCHANGED proc
  PROVE  EngInv'
<1>. QED
  BY DEF EngInv, EngTypeOK, StartHoldsChild, StoppedIsReaped

LEMMA EngRestartInv == EngInv /\ EngRestart => EngInv'
<1> SUFFICES ASSUME EngInv, EngRestart PROVE EngInv'
  OBVIOUS
<1>1. proc' \in [Procs -> {Free} \cup Process]
  BY DEF EngRestart, EngInv, EngTypeOK
<1>2. job' = NoJob
  BY DEF EngRestart
<1>. QED
  BY <1>1, <1>2, JobTypes DEF EngInv, EngTypeOK, StartHoldsChild, StoppedIsReaped, NoJob

LEMMA EngNextInv == EngInv /\ [EngNext]_engVars => EngInv'
<1> SUFFICES ASSUME EngInv, [EngNext]_engVars PROVE EngInv'
  OBVIOUS
<1>1. CASE ExecutorStep
  BY <1>1, ExecutorStepInv
<1>2. CASE ProcStep
  BY <1>2, ProcStepInv
<1>3. ASSUME NEW s \in LocalSpecs, SubmitStart(s) PROVE EngInv'
  BY <1>3, JobTypes, NewJobInv DEF SubmitStart
<1>4. ASSUME NEW p \in Procs, NEW s \in LocalSpecs, SubmitStop(p, s) PROVE EngInv'
  BY <1>4, JobTypes, NewJobInv DEF SubmitStop
<1>5. CASE Collect
  BY <1>5, JobTypes, NewJobInv DEF Collect, NoJob
<1>6. CASE OtherPopen
  BY <1>6, CleanedUpInv DEF OtherPopen
<1>7. CASE EngRestart
  BY <1>7, EngRestartInv
<1>8. CASE UNCHANGED engVars
  BY <1>8 DEF engVars, EngInv, EngTypeOK, StartHoldsChild, StoppedIsReaped
<1>. QED
  BY <1>1, <1>2, <1>3, <1>4, <1>5, <1>6, <1>7, <1>8 DEF EngNext

(* The inductive invariant of the process table and the executor. *)
THEOREM EngInvariance == EngSpec => []EngInv
<1>. QED
  BY EngInitInv, EngNextInv, PTL DEF EngSpec

(* The types of the process table and of the executor's call.              *)
THEOREM EngTypeOKHolds == EngSpec => []EngTypeOK
<1>1. EngInv => EngTypeOK
  BY DEF EngInv
<1>. QED
  BY <1>1, EngInvariance, PTL

(* The pid that start() polls is the child it spawned, however many other  *)
(* Popen() calls, exits and restarts happen meanwhile.                     *)
THEOREM StartHoldsChildHolds == EngSpec => []StartHoldsChild
<1>1. EngInv => StartHoldsChild
  BY DEF EngInv
<1>. QED
  BY <1>1, EngInvariance, PTL

(* When stop() has returned, its process is gone and reaped.               *)
THEOREM StoppedIsReapedHolds == EngSpec => []StoppedIsReaped
<1>1. EngInv => StoppedIsReaped
  BY DEF EngInv
<1>. QED
  BY <1>1, EngInvariance, PTL

=============================================================================
