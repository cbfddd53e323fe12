----------------------------- MODULE WorkerProofs -----------------------------
(***************************************************************************)
(* Proofs about module Worker, for every set of callers, clients, pids,    *)
(* models and catalogs.                                                    *)
(*                                                                         *)
(* Three invariants, each inductive with the help of those before it:      *)
(*   WorkerInv  the invariants of Admission and Engines, whose variables   *)
(*              the worker shares, the types of its own, the lock          *)
(*              discipline, and what the phase of the lock holder says of  *)
(*              the flag draining, of the executor and of the generations; *)
(*   TrackInv   where the worker's engine processes are known;             *)
(*   OpsInv     what a phase says of the request that is in it.            *)
(* The last two give the action properties and the refinement of HotSwap.  *)
(***************************************************************************)
EXTENDS Worker, AdmissionProofs, EnginesProofs

LifeTypeOK ==
  /\ catalog \in Catalogs
  /\ DOMAIN instances \subseteq Names
  /\ instances \in [DOMAIN instances -> Procs]
  /\ loadedModel \in Names
  /\ lock \in Seq(Clients)
  /\ pc \in [Clients -> Phases]
  /\ req \in [Clients -> Requests \cup {NoRequest}]
  /\ reply \in [code : Codes, running : SUBSET Names]
  /\ cut \in BOOLEAN

Swapping == {"drain", "stop", "start", "crashing"}    \* phases with the flag set
Employing == {"stop", "start", "halt"}    \* phases with a job in the executor

(* The catalog cannot change under a swap: reload-catalog needs the lock.   *)
TargetIsLocal ==
  \A c \in Clients : pc[c] \in {"drain", "stop"} => Resolvable(req[c].model)

WorkerInv ==
  /\ AdmInv
  /\ EngInv
  /\ LifeTypeOK
  /\ LockDiscipline
  /\ DrainingIsSwap
  /\ JobIsHolders
  /\ TargetIsLocal
  /\ QuiescentReplace

-----------------------------------------------------------------------------
(* What one step of the lock holder's handler does to the lock, the flag,  *)
(* the executor and the phases.                                            *)

PhaseAndLock(c) ==
  /\ pc' = [pc EXCEPT ![c] = pc'[c]]
  /\ \/ lock' = lock /\ pc'[c] \in {"drain", "stop", "start", "crashing", "halt", "replying"}
     \/ lock' = Tail(lock) /\ pc'[c] = "idle"

FlagAndJob(c) ==
  /\ draining' <=> pc'[c] \in Swapping
  /\ job' # NoJob <=> pc'[c] \in Employing

LEMMA LeaveEffect ==
  ASSUME NEW c \in Clients, pc \in [Clients -> Phases], Leave(c)
  PROVE  PhaseAndLock(c) /\ pc'[c] = "idle"
<1>. QED
  BY DEF Leave, PhaseAndLock

LEMMA GotoEffect ==
  ASSUME NEW c \in Clients, pc \in [Clients -> Phases],
         NEW ph \in {"drain", "stop", "start", "halt"}, Goto(c, ph)
  PROVE  PhaseAndLock(c) /\ pc'[c] = ph
<1>. QED
  BY DEF Goto, PhaseAndLock

LEMMA PublishEffect ==
  ASSUME NEW c \in Clients, pc \in [Clients -> Phases], NEW code, NEW running,
         NEW ph \in {"crashing", "replying"}, Publish(c, ph, code, running)
  PROVE  PhaseAndLock(c) /\ pc'[c] = ph
<1>. QED
  BY DEF Publish, PhaseAndLock

LEMMA ReplyEffect ==
  ASSUME NEW c \in Clients, pc \in [Clients -> Phases], NEW code, NEW running,
         Reply(c, code, running)
  PROVE  PhaseAndLock(c) /\ pc'[c] = "replying"
<1>. QED
  BY PublishEffect DEF Reply

LEMMA SwapContinueEffect ==
  ASSUME NEW c \in Clients, pc \in [Clients -> Phases], draining = TRUE,
         NEW insts, SwapContinue(c, insts)
  PROVE  PhaseAndLock(c) /\ FlagAndJob(c)
<1>1. CASE \E n \in DOMAIN insts :
             /\ job' = [st |-> "kill", spec |-> catalog[n], pid |-> insts[n]]
             /\ Goto(c, "stop") /\ UNCHANGED draining
  BY <1>1, GotoEffect DEF FlagAndJob, NoJob, Swapping, Employing
<1>2. CASE SwapCrash(c)
  BY <1>2, PublishEffect DEF SwapCrash, FlagAndJob, Swapping, Employing
<1>3. CASE /\ job' = [st |-> "spawn", spec |-> catalog[req[c].model]]
           /\ Goto(c, "start") /\ UNCHANGED draining
  BY <1>3, GotoEffect DEF FlagAndJob, NoJob, Swapping, Employing
<1>. QED
  BY <1>1, <1>2, <1>3 DEF SwapContinue

LEMMA StopContinueEffect ==
  ASSUME NEW c \in Clients, pc \in [Clients -> Phases], draining' = FALSE,
         NEW insts, StopContinue(c, insts)
  PROVE  PhaseAndLock(c) /\ FlagAndJob(c)
<1>1. CASE \E n \in DOMAIN insts :
             /\ job' = [st |-> "kill", spec |-> catalog[n], pid |-> insts[n]]
             /\ Goto(c, "halt")
  BY <1>1, GotoEffect DEF FlagAndJob, NoJob, Swapping, Employing
<1>2. CASE job' = NoJob /\ Leave(c)
  BY <1>2, LeaveEffect DEF FlagAndJob, Swapping, Employing
<1>3. CASE job' = NoJob /\ Reply(c, "ok", {})
  BY <1>3, ReplyEffect DEF FlagAndJob, Swapping, Employing
<1>. QED
  BY <1>1, <1>2, <1>3 DEF StopContinue

(* The operations that do not touch the flag or the executor.              *)
Answers(c) ==
  \/ Status(c) \/ List(c) \/ Reload(c)
  \/ SwapReject(c) \/ SwapUnsupported(c) \/ SwapOverBudget(c) \/ SwapEscapes(c) \/ SwapNoop(c)
  \/ Replied(c)

LEMMA AnswersEffect ==
  ASSUME NEW c \in Clients, pc \in [Clients -> Phases], Answers(c)
  PROVE  /\ PhaseAndLock(c) /\ pc'[c] \in {"idle", "replying"}
         /\ Holder(c) /\ pc[c] \in {"queued", "replying"}
         /\ UNCHANGED <<draining, genVars, job, instances, cut>>
<1>1. CASE Status(c)
  BY <1>1, ReplyEffect DEF Status, Begin, admVars, engVars
<1>2. CASE List(c)
  BY <1>2, ReplyEffect, LeaveEffect DEF List, Begin, admVars, engVars
<1>3. CASE Reload(c)
  BY <1>3, ReplyEffect, LeaveEffect DEF Reload, LoadCatalog, Begin, admVars, engVars
<1>4. CASE SwapReject(c)
  BY <1>4, ReplyEffect DEF SwapReject, Begin, admVars, engVars
<1>5. CASE SwapUnsupported(c)
  BY <1>5, ReplyEffect DEF SwapUnsupported, Begin, admVars, engVars
<1>6. CASE SwapOverBudget(c)
  BY <1>6, ReplyEffect DEF SwapOverBudget, Begin, Probe, admVars
<1>7. CASE SwapNoop(c)
  BY <1>7, ReplyEffect DEF SwapNoop, Fits, Begin, Probe, admVars
<1>8. CASE Replied(c)
  BY <1>8, LeaveEffect DEF Replied, admVars, engVars
<1>9. CASE SwapEscapes(c)
  BY <1>9, LeaveEffect DEF SwapEscapes, Begin, Probe, admVars
<1>. QED
  BY <1>1, <1>2, <1>3, <1>4, <1>5, <1>6, <1>7, <1>8, <1>9 DEF Answers

LEMMA HandlerEffect ==
  ASSUME NEW c \in Clients, pc \in [Clients -> Phases], draining \in BOOLEAN,
         draining <=> pc[c] \in Swapping, job # NoJob <=> pc[c] \in Employing,
         HandlerStep(c)
  PROVE  /\ Holder(c) /\ pc[c] # "idle"
         /\ PhaseAndLock(c) /\ FlagAndJob(c)
         /\ UNCHANGED genVars /\ draining' \in BOOLEAN
<1>1. CASE Answers(c)
  <2>1. pc[c] \notin Swapping /\ pc[c] \notin Employing
    BY <1>1, AnswersEffect DEF Swapping, Employing
  <2>2. FlagAndJob(c)
    BY <1>1, <2>1, AnswersEffect DEF FlagAndJob, Swapping, Employing
  <2>. QED
    BY <1>1, <2>2, AnswersEffect
<1>2. CASE SwapBegin(c)
  <2>1. Goto(c, "drain") /\ draining' = TRUE /\ job' = job /\ pc[c] = "queued"
    BY <1>2 DEF SwapBegin, Probe, Fits, Begin
  <2>2. FlagAndJob(c)
    BY <2>1, GotoEffect DEF FlagAndJob, Swapping, Employing
  <2>. QED
    BY <1>2, <2>1, <2>2, GotoEffect DEF SwapBegin, Probe, Fits, Begin
<1>3. CASE DrainIdle(c) \/ DrainTimeout(c)
  <2>1. SwapContinue(c, instances) /\ Holder(c) /\ pc[c] = "drain" /\ UNCHANGED genVars
    BY <1>3 DEF DrainIdle, DrainTimeout
  <2>2. draining = TRUE
    BY <2>1 DEF Swapping
  <2>3. PhaseAndLock(c) /\ FlagAndJob(c)
    BY <2>1, <2>2, SwapContinueEffect
  <2>4. draining' \in BOOLEAN
    BY <2>1 DEF SwapContinue, SwapCrash
  <2>. QED
    BY <2>1, <2>3, <2>4
<1>4. CASE SwapStopped(c)
  <2>1. /\ SwapContinue(c, Without(instances, job.spec.name))
        /\ Holder(c) /\ pc[c] = "stop" /\ UNCHANGED genVars
    BY <1>4 DEF SwapStopped
  <2>2. draining = TRUE
    BY <2>1 DEF Swapping
  <2>3. PhaseAndLock(c) /\ FlagAndJob(c)
    BY <2>1, <2>2, SwapContinueEffect
  <2>4. draining' \in BOOLEAN
    BY <2>1 DEF SwapContinue, SwapCrash
  <2>. QED
    BY <2>1, <2>3, <2>4
<1>5. CASE SwapStarted(c)
  <2>1. /\ Reply(c, "ok", {req[c].model}) /\ draining' = FALSE /\ job' = NoJob
        /\ Holder(c) /\ pc[c] = "start" /\ UNCHANGED genVars
    BY <1>5 DEF SwapStarted
  <2>2. FlagAndJob(c)
    BY <2>1, ReplyEffect DEF FlagAndJob, Swapping, Employing
  <2>. QED
    BY <2>1, <2>2, ReplyEffect
<1>6. CASE SwapRaised(c)
  <2>1. /\ Publish(c, "crashing", "crash", {}) /\ draining' = draining /\ job' = NoJob
        /\ Holder(c) /\ pc[c] = "start" /\ UNCHANGED genVars
    BY <1>6 DEF SwapRaised, SwapCrash
  <2>2. FlagAndJob(c)
    BY <2>1, PublishEffect DEF FlagAndJob, Swapping, Employing
  <2>. QED
    BY <2>1, <2>2, PublishEffect
<1>8. CASE SwapCrashed(c)
  <2>1. /\ Leave(c) /\ draining' = FALSE /\ job' = job
        /\ Holder(c) /\ pc[c] = "crashing" /\ UNCHANGED genVars
    BY <1>8 DEF SwapCrashed, Cleared, engVars
  <2>2. FlagAndJob(c)
    BY <2>1, LeaveEffect DEF FlagAndJob, Swapping, Employing
  <2>. QED
    BY <2>1, <2>2, LeaveEffect
<1>7. CASE StopBegin(c) \/ StopStopped(c)
  <2>1. /\ Holder(c) /\ pc[c] \in {"queued", "halt"} /\ UNCHANGED <<draining, genVars>>
        /\ \E insts : StopContinue(c, insts)
    BY <1>7 DEF StopBegin, StopStopped, Begin, admVars
  <2>2. draining' = FALSE
    BY <2>1 DEF Swapping
  <2>3. PhaseAndLock(c) /\ FlagAndJob(c)
    BY <2>1, <2>2, StopContinueEffect
  <2>. QED
    BY <2>1, <2>2, <2>3
<1>. QED
  BY <1>1, <1>2, <1>3, <1>4, <1>5, <1>6, <1>7, <1>8 DEF HandlerStep, Answers

-----------------------------------------------------------------------------
(* The lock.                                                               *)

(* The head of the lock leaves it, or changes its phase.                   *)
LEMMA LockStep ==
  ASSUME LockDiscipline, lock \in Seq(Clients), pc \in [Clients -> Phases],
         NEW c \in Clients, Holder(c), pc[c] # "idle", PhaseAndLock(c)
  PROVE  LockDiscipline' /\ lock' \in Seq(Clients) /\ pc' \in [Clients -> Phases]
<1>. DEFINE n == Len(lock)
<1>1. /\ n \in Nat /\ n > 0 /\ DOMAIN lock = 1 .. n /\ lock[1] = c
      /\ \A i \in 1 .. n : lock[i] \in Clients
  BY DEF Holder
<1>2. \A d \in Clients : d # c => pc'[d] = pc[d]
  BY DEF PhaseAndLock
<1>3. pc' \in [Clients -> Phases]
  BY DEF PhaseAndLock, Phases
<1>4. \A d \in Clients : d # c => pc[d] \in {"idle", "queued"}
  BY DEF LockDiscipline, Holder, Phases
<1>5. CASE lock' = lock /\ pc'[c] # "idle"
  <2>1. \A d \in Clients : pc'[d] # "idle" <=> pc[d] # "idle"
    BY <1>2, <1>5
  <2>2. \A d \in Clients : pc'[d] \notin {"idle", "queued"} => d = c
    BY <1>2, <1>4
  <2>. QED
    BY <1>3, <1>5, <2>1, <2>2 DEF LockDiscipline, Holder
<1>6. CASE lock' = Tail(lock) /\ pc'[c] = "idle"
  <2>1. /\ lock' \in Seq(Clients) /\ DOMAIN lock' = 1 .. n - 1
        /\ \A i \in 1 .. n - 1 : lock'[i] = lock[i + 1] /\ i + 1 \in 1 .. n
    BY <1>1, <1>6
  <2>2. \A i, j \in DOMAIN lock' : lock'[i] = lock'[j] => i = j
    <3> SUFFICES ASSUME NEW i \in 1 .. n - 1, NEW j \in 1 .. n - 1, lock'[i] = lock'[j]
                 PROVE  i = j
      BY <2>1
    <3>1. i + 1 = j + 1
      BY <1>1, <2>1 DEF LockDiscipline
    <3>. QED
      BY <3>1
  <2>3. ASSUME NEW d \in Clients
        PROVE  pc'[d] # "idle" <=> \E i \in DOMAIN lock' : lock'[i] = d
    <3>1. CASE d = c
      <4>1. \A i \in 1 .. n - 1 : lock[i + 1] # c
        BY <1>1, <2>1 DEF LockDiscipline
      <4>. QED
        BY <1>6, <2>1, <3>1, <4>1
    <3>2. CASE d # c
      <4>1. pc'[d] # "idle" <=> \E i \in 1 .. n : lock[i] = d
        BY <1>1, <1>2, <3>2 DEF LockDiscipline
      <4>2. (\E i \in 1 .. n : lock[i] = d) => \E i \in 1 .. n - 1 : lock'[i] = d
        <5> SUFFICES ASSUME NEW i \in 1 .. n, lock[i] = d
                     PROVE  \E k \in 1 .. n - 1 : lock'[k] = d
          OBVIOUS
        <5>1. i # 1
          BY <1>1, <3>2
        <5>2. i - 1 \in 1 .. n - 1 /\ (i - 1) + 1 = i
          BY <1>1, <5>1
        <5>. QED
          BY <2>1, <5>2
      <4>3. (\E i \in 1 .. n - 1 : lock'[i] = d) => \E i \in 1 .. n : lock[i] = d
        BY <2>1
      <4>. QED
        BY <2>1, <4>1, <4>2, <4>3
    <3>. QED
      BY <3>1, <3>2
  <2>4. \A d \in Clients : pc'[d] \in {"idle", "queued"}
    BY <1>2, <1>4, <1>6
  <2>. QED
    BY <1>3, <2>1, <2>2, <2>3, <2>4 DEF LockDiscipline
<1>. QED
  BY <1>5, <1>6 DEF PhaseAndLock

(* A request arrives behind the others.                                    *)
LEMMA ArriveLock ==
  ASSUME LockDiscipline, lock \in Seq(Clients), pc \in [Clients -> Phases],
         NEW c \in Clients, Arrive(c)
  PROVE  LockDiscipline' /\ lock' \in Seq(Clients) /\ pc' \in [Clients -> Phases]
<1>. DEFINE n == Len(lock)
<1>1. pc' = [pc EXCEPT ![c] = "queued"] /\ lock' = Append(lock, c) /\ pc[c] = "idle"
  BY DEF Arrive
<1>2. /\ n \in Nat /\ DOMAIN lock = 1 .. n /\ DOMAIN lock' = 1 .. n + 1
      /\ \A i \in 1 .. n : lock'[i] = lock[i] /\ lock[i] # c
      /\ lock'[n + 1] = c
  BY <1>1 DEF LockDiscipline
<1>3. lock' \in Seq(Clients) /\ pc' \in [Clients -> Phases]
  BY <1>1 DEF Phases
<1>4. \A i, j \in DOMAIN lock' : lock'[i] = lock'[j] => i = j
  BY <1>2 DEF LockDiscipline
<1>5. ASSUME NEW d \in Clients
      PROVE  pc'[d] # "idle" <=> \E i \in DOMAIN lock' : lock'[i] = d
  <2>1. CASE d = c
    BY <1>1, <1>2, <2>1
  <2>2. CASE d # c
    <3>1. pc'[d] # "idle" <=> \E i \in 1 .. n : lock[i] = d
      BY <1>1, <1>2, <2>2 DEF LockDiscipline
    <3>. QED
      BY <1>2, <2>2, <3>1
  <2>. QED
    BY <2>1, <2>2
<1>6. ASSUME NEW d \in Clients, pc'[d] \notin {"idle", "queued"}
      PROVE  Holder(d)'
  <2>1. pc[d] \notin {"idle", "queued"} /\ d # c
    BY <1>1, <1>6
  <2>2. lock # <<>> /\ d = lock[1] /\ 1 \in 1 .. n
    BY <2>1, <1>2 DEF LockDiscipline, Holder
  <2>. QED
    BY <1>2, <1>3, <2>2 DEF Holder
<1>. QED
  BY <1>3, <1>4, <1>5, <1>6 DEF LockDiscipline

-----------------------------------------------------------------------------
(* Types under the handlers.                                               *)

MessageTypeOK ==
  /\ loadedModel \in Names
  /\ req \in [Clients -> Requests \cup {NoRequest}]
  /\ reply \in [code : Codes, running : SUBSET Names]

LEMMA LeaveTypes ==
  ASSUME MessageTypeOK, NEW c \in Clients, Leave(c)
  PROVE  MessageTypeOK'
<1>1. reply' \in [code : Codes, running : SUBSET Names]
  BY DEF Leave, NoReply, Codes
<1>. QED
  BY <1>1 DEF Leave, MessageTypeOK

LEMMA GotoTypes ==
  ASSUME MessageTypeOK, NEW c \in Clients, NEW ph, Goto(c, ph)
  PROVE  MessageTypeOK' /\ req' = req
<1>. QED
  BY DEF Goto, MessageTypeOK

LEMMA PublishTypes ==
  ASSUME MessageTypeOK, NEW c \in Clients, NEW code \in Codes, NEW running \in SUBSET Names,
         NEW ph, Publish(c, ph, code, running)
  PROVE  MessageTypeOK' /\ req' = req
<1>. QED
  BY DEF Publish, MessageTypeOK

LEMMA ReplyTypes ==
  ASSUME MessageTypeOK, NEW c \in Clients, NEW code \in Codes, NEW running \in SUBSET Names,
         Reply(c, code, running)
  PROVE  MessageTypeOK' /\ req' = req
<1>. QED
  BY PublishTypes DEF Reply

LEMMA RequestModel ==
  ASSUME MessageTypeOK, NEW c \in Clients
  PROVE  req[c].model \in Names
<1>. QED
  BY ModelNameAssumption DEF MessageTypeOK, Requests, NoRequest

LEMMA LocalOfCatalog ==
  ASSUME catalog \in Catalogs, NEW n, Resolvable(n)
  PROVE  catalog[n] \in LocalSpecs /\ n \in Names
<1>. QED
  BY CatalogsAssumption DEF Resolvable, LocalSpecs

(* What a handler step leaves in the executor, apart from probing.         *)
LEMMA KillJob ==
  ASSUME catalog \in Catalogs, NEW n, Resolvable(n), NEW p \in Procs,
         job' = [st |-> "kill", spec |-> catalog[n], pid |-> p]
  PROVE  job' \in Job /\ job'.st \notin {"poll", "stopped"}
<1>. QED
  BY LocalOfCatalog, JobTypes

LEMMA NoJobLeft ==
  ASSUME job' = NoJob
  PROVE  job' \in Job /\ job'.st \notin {"poll", "stopped"}
<1>. QED
  BY JobTypes DEF NoJob

LEMMA SwapContinueTypes ==
  ASSUME MessageTypeOK, catalog \in Catalogs, NEW c \in Clients, Resolvable(req[c].model),
         NEW insts, \A n \in DOMAIN insts : insts[n] \in Procs,
         SwapContinue(c, insts)
  PROVE  /\ job' \in Job /\ job'.st \notin {"poll", "stopped"}
         /\ MessageTypeOK' /\ req' = req
<1>1. ASSUME NEW n \in DOMAIN insts, Resolvable(n),
             job' = [st |-> "kill", spec |-> catalog[n], pid |-> insts[n]],
             Goto(c, "stop")
      PROVE  /\ job' \in Job /\ job'.st \notin {"poll", "stopped"}
             /\ MessageTypeOK' /\ req' = req
  BY <1>1, KillJob, GotoTypes
<1>2. CASE SwapCrash(c)
  <2>1. Publish(c, "crashing", "crash", {}) /\ job' = NoJob
    BY <1>2 DEF SwapCrash
  <2>. QED
    BY <2>1, PublishTypes, NoJobLeft DEF Codes
<1>3. CASE job' = [st |-> "spawn", spec |-> catalog[req[c].model]] /\ Goto(c, "start")
  <2>1. job' \in Job /\ job'.st = "spawn"
    BY <1>3, LocalOfCatalog, JobTypes
  <2>. QED
    BY <1>3, <2>1, GotoTypes
<1>. QED
  BY <1>1, <1>2, <1>3 DEF SwapContinue

LEMMA StopContinueTypes ==
  ASSUME MessageTypeOK, catalog \in Catalogs, NEW c \in Clients,
         NEW insts, \A n \in DOMAIN insts : insts[n] \in Procs,
         StopContinue(c, insts)
  PROVE  /\ job' \in Job /\ job'.st \notin {"poll", "stopped"}
         /\ MessageTypeOK'
<1>1. ASSUME NEW n \in DOMAIN insts, Resolvable(n),
             job' = [st |-> "kill", spec |-> catalog[n], pid |-> insts[n]],
             Goto(c, "halt")
      PROVE  /\ job' \in Job /\ job'.st \notin {"poll", "stopped"}
             /\ MessageTypeOK'
  BY <1>1, KillJob, GotoTypes
<1>2. CASE job' = NoJob /\ Leave(c)
  BY <1>2, LeaveTypes, NoJobLeft
<1>3. CASE job' = NoJob /\ Reply(c, "ok", {})
  BY <1>3, ReplyTypes, NoJobLeft DEF Codes
<1>. QED
  BY <1>1, <1>2, <1>3 DEF StopContinue

LEMMA WithoutTypes ==
  ASSUME DOMAIN instances \subseteq Names, instances \in [DOMAIN instances -> Procs], NEW m
  PROVE  LET rest == Without(instances, m) IN
         /\ DOMAIN rest \subseteq Names /\ rest \in [DOMAIN rest -> Procs]
         /\ \A n \in DOMAIN rest : rest[n] \in Procs
<1>. QED
  BY DEF Without

OwnTypeOK ==
  /\ catalog \in Catalogs
  /\ DOMAIN instances \subseteq Names
  /\ instances \in [DOMAIN instances -> Procs]
  /\ cut \in BOOLEAN

LEMMA AnswersTypes ==
  ASSUME EngInv, OwnTypeOK, MessageTypeOK, NEW c \in Clients, Answers(c)
  PROVE  EngInv' /\ OwnTypeOK' /\ MessageTypeOK'
<1> USE DEF OwnTypeOK
<1>0. req[c].model \in Names
  BY RequestModel
<1>1. CASE Status(c)
  <2>1. MessageTypeOK'
    <3>1. \E running \in SUBSET Names : Reply(c, "ok", running)
      <4>1. {} \in SUBSET Names /\ \A n \in DOMAIN instances : {n} \in SUBSET Names
        OBVIOUS
      <4>. QED
        BY <1>1, <4>1 DEF Status
    <3>. QED
      BY <3>1, ReplyTypes DEF Codes
  <2>. QED
    BY <1>1, <2>1 DEF Status, engVars, EngInv, EngTypeOK, StartHoldsChild, StoppedIsReaped
<1>2. CASE List(c)
  <2>1. MessageTypeOK'
    BY <1>2, ReplyTypes, LeaveTypes DEF List, Codes
  <2>. QED
    BY <1>2, <2>1 DEF List, engVars, EngInv, EngTypeOK, StartHoldsChild, StoppedIsReaped
<1>3. CASE Reload(c)
  <2>1. MessageTypeOK'
    BY <1>3, ReplyTypes, LeaveTypes DEF Reload, LoadCatalog, Codes
  <2>. QED
    BY <1>3, <2>1 DEF Reload, LoadCatalog, engVars, EngInv, EngTypeOK, StartHoldsChild, StoppedIsReaped
<1>4. CASE SwapReject(c) \/ SwapUnsupported(c)
  <2>1. MessageTypeOK'
    BY <1>4, ReplyTypes DEF SwapReject, SwapUnsupported, Codes
  <2>. QED
    BY <1>4, <2>1 DEF SwapReject, SwapUnsupported, engVars, EngInv, EngTypeOK,
                      StartHoldsChild, StoppedIsReaped
<1>5. CASE SwapOverBudget(c) \/ SwapEscapes(c) \/ SwapNoop(c)
  <2>1. MessageTypeOK'
    BY <1>0, <1>5, ReplyTypes, LeaveTypes DEF SwapOverBudget, SwapEscapes, SwapNoop, Codes
  <2>2. EngInv'
    <3>1. proc' \in {proc, CleanedUp} /\ UNCHANGED job
      BY <1>5 DEF SwapOverBudget, SwapEscapes, SwapNoop, Probe
    <3>2. CASE proc' = proc
      BY <3>1, <3>2 DEF EngInv, EngTypeOK, StartHoldsChild, StoppedIsReaped
    <3>. QED
      BY <3>1, <3>2, CleanedUpInv
  <2>. QED
    BY <1>5, <2>1, <2>2 DEF SwapOverBudget, SwapEscapes, SwapNoop
<1>6. CASE Replied(c)
  <2>1. MessageTypeOK'
    BY <1>6, LeaveTypes DEF Replied
  <2>. QED
    BY <1>6, <2>1 DEF Replied, engVars, EngInv, EngTypeOK, StartHoldsChild, StoppedIsReaped
<1>. QED
  BY <1>1, <1>2, <1>3, <1>4, <1>5, <1>6 DEF Answers

LEMMA HandlerTypes ==
  ASSUME EngInv, OwnTypeOK, MessageTypeOK, NEW c \in Clients,
         pc[c] \in {"drain", "stop"} => Resolvable(req[c].model),
         HandlerStep(c)
  PROVE  EngInv' /\ OwnTypeOK' /\ MessageTypeOK'
<1> USE DEF OwnTypeOK
<1>0. /\ \A n \in DOMAIN instances : instances[n] \in Procs
      /\ req[c].model \in Names
  BY RequestModel
<1>1. CASE Answers(c)
  BY <1>1, AnswersTypes
<1>2. CASE SwapBegin(c)
  <2>1. MessageTypeOK'
    BY <1>2, GotoTypes DEF SwapBegin
  <2>2. EngInv'
    <3>1. proc' \in {proc, CleanedUp} /\ UNCHANGED job
      BY <1>2 DEF SwapBegin, Probe
    <3>2. CASE proc' = proc
      BY <3>1, <3>2 DEF EngInv, EngTypeOK, StartHoldsChild, StoppedIsReaped
    <3>. QED
      BY <3>1, <3>2, CleanedUpInv
  <2>. QED
    BY <1>2, <2>1, <2>2 DEF SwapBegin
<1>3. CASE DrainIdle(c) \/ DrainTimeout(c)
  <2>1. /\ SwapContinue(c, instances) /\ Resolvable(req[c].model)
        /\ UNCHANGED <<proc, catalog, instances>> /\ cut' \in BOOLEAN
    BY <1>3 DEF DrainIdle, DrainTimeout
  <2>. QED
    BY <1>0, <2>1, SwapContinueTypes, NewJobInv
<1>4. CASE SwapStopped(c)
  <2>. DEFINE rest == Without(instances, job.spec.name)
  <2>1. /\ SwapContinue(c, rest) /\ Resolvable(req[c].model)
        /\ UNCHANGED <<proc, catalog, cut>> /\ instances' = rest
    BY <1>4 DEF SwapStopped
  <2>2. /\ DOMAIN rest \subseteq Names /\ rest \in [DOMAIN rest -> Procs]
        /\ \A n \in DOMAIN rest : rest[n] \in Procs
    BY WithoutTypes
  <2>. HIDE DEF rest
  <2>. QED
    BY <2>1, <2>2, SwapContinueTypes, NewJobInv
<1>5. CASE SwapStarted(c)
  <2>1. job.pid \in Procs
    BY <1>5, JobWithPid DEF SwapStarted, EngInv, EngTypeOK
  <2>2. DOMAIN instances' \subseteq Names /\ instances' \in [DOMAIN instances' -> Procs]
    BY <1>0, <1>5, <2>1 DEF SwapStarted, Registered
  <2>3. MessageTypeOK'
    BY <1>0, <1>5, ReplyTypes DEF SwapStarted, Codes
  <2>4. EngInv'
    BY <1>5, NoJobLeft, NewJobInv DEF SwapStarted
  <2>. QED
    BY <1>5, <2>2, <2>3, <2>4 DEF SwapStarted
<1>6. CASE SwapRaised(c)
  <2>1. MessageTypeOK'
    BY <1>6, PublishTypes DEF SwapRaised, SwapCrash, Codes
  <2>2. EngInv'
    BY <1>6, NoJobLeft, NewJobInv DEF SwapRaised, SwapCrash
  <2>. QED
    BY <1>6, <2>1, <2>2 DEF SwapRaised
<1>7. CASE StopBegin(c)
  <2>1. /\ StopContinue(c, instances) /\ UNCHANGED <<proc, catalog, instances, cut>>
    BY <1>7 DEF StopBegin
  <2>. QED
    BY <1>0, <2>1, StopContinueTypes, NewJobInv
<1>8. CASE StopStopped(c)
  <2>. DEFINE rest == Without(instances, job.spec.name)
  <2>1. /\ StopContinue(c, rest) /\ instances' = rest
        /\ UNCHANGED <<proc, catalog, cut>>
    BY <1>8 DEF StopStopped
  <2>2. /\ DOMAIN rest \subseteq Names /\ rest \in [DOMAIN rest -> Procs]
        /\ \A n \in DOMAIN rest : rest[n] \in Procs
    BY WithoutTypes
  <2>. HIDE DEF rest
  <2>. QED
    BY <2>1, <2>2, StopContinueTypes, NewJobInv
<1>9. CASE SwapCrashed(c)
  <2>1. MessageTypeOK'
    BY <1>9, LeaveTypes DEF SwapCrashed
  <2>. QED
    BY <1>9, <2>1 DEF SwapCrashed, engVars, EngInv, EngTypeOK, StartHoldsChild, StoppedIsReaped
<1>. QED
  BY <1>1, <1>2, <1>3, <1>4, <1>5, <1>6, <1>7, <1>8, <1>9 DEF HandlerStep, Answers

(* The target of a swap stays a local model of the catalog.                *)
LEMMA TargetKept ==
  ASSUME MessageTypeOK, catalog \in Catalogs, pc \in [Clients -> Phases],
         TargetIsLocal, LockDiscipline, NEW c \in Clients,
         Holder(c), PhaseAndLock(c), HandlerStep(c)
  PROVE  TargetIsLocal'
<1>1. \A d \in Clients : d # c => pc'[d] = pc[d] /\ pc[d] \in {"idle", "queued"}
  BY DEF PhaseAndLock, LockDiscipline, Holder, Phases
<1>2. ASSUME pc'[c] \in {"drain", "stop"}
      PROVE  /\ Resolvable(req[c].model) /\ UNCHANGED <<catalog, req>>
  <2>1. CASE Answers(c)
    BY <1>2, <2>1, AnswersEffect
  <2>2. CASE SwapBegin(c)
    BY <2>2 DEF SwapBegin, Fits, Swappable, Goto
  <2>3. CASE DrainIdle(c) \/ DrainTimeout(c)
    <3>1. SwapContinue(c, instances) /\ pc[c] = "drain" /\ UNCHANGED catalog
      BY <2>3 DEF DrainIdle, DrainTimeout
    <3>. QED
      BY <1>2, <3>1, PublishEffect DEF SwapContinue, SwapCrash, Goto, TargetIsLocal
  <2>4. CASE SwapStopped(c)
    <3>1. SwapContinue(c, Without(instances, job.spec.name)) /\ pc[c] = "stop" /\ UNCHANGED catalog
      BY <2>4 DEF SwapStopped
    <3>. QED
      BY <1>2, <3>1, PublishEffect DEF SwapContinue, SwapCrash, Goto, TargetIsLocal
  <2>5. CASE SwapStarted(c) \/ SwapRaised(c) \/ SwapCrashed(c)
    BY <1>2, <2>5, ReplyEffect, PublishEffect, LeaveEffect
       DEF SwapStarted, SwapRaised, SwapCrash, SwapCrashed
  <2>6. CASE StopBegin(c) \/ StopStopped(c)
    <3>1. \E insts : StopContinue(c, insts)
      BY <2>6 DEF StopBegin, StopStopped
    <3>. QED
      BY <1>2, <3>1, GotoEffect, ReplyEffect, LeaveEffect DEF StopContinue
  <2>. QED
    BY <2>1, <2>2, <2>3, <2>4, <2>5, <2>6 DEF HandlerStep, Answers
<1>. QED
  BY <1>1, <1>2 DEF TargetIsLocal, Resolvable

-----------------------------------------------------------------------------
(* The flag, the executor and the phase of the lock holder agree.          *)

LEMMA HandlerHolds ==
  ASSUME NEW c \in Clients, HandlerStep(c)
  PROVE  Holder(c)
<1>. QED
  BY DEF HandlerStep, Status, List, Reload, LoadCatalog, SwapReject, SwapUnsupported, SwapOverBudget,
         SwapEscapes, SwapNoop, SwapBegin, Fits, Begin, DrainIdle, DrainTimeout, SwapStopped,
         SwapStarted, SwapRaised, SwapCrashed, StopBegin, StopStopped, Replied

LEMMA OnlyTheHolderWorks ==
  ASSUME LockDiscipline, pc \in [Clients -> Phases], NEW c \in Clients, Holder(c)
  PROVE  \A d \in Clients : d # c => pc[d] \in {"idle", "queued"}
<1>. QED
  BY DEF LockDiscipline, Holder, Phases

LEMMA HolderFacts ==
  ASSUME LockDiscipline, DrainingIsSwap, JobIsHolders, pc \in [Clients -> Phases],
         NEW c \in Clients, Holder(c)
  PROVE  /\ draining <=> pc[c] \in Swapping
         /\ job # NoJob <=> pc[c] \in Employing
<1>. QED
  BY OnlyTheHolderWorks DEF DrainingIsSwap, JobIsHolders, Swapping, Employing

LEMMA FlagAndJobInv ==
  ASSUME LockDiscipline, pc \in [Clients -> Phases], NEW c \in Clients, Holder(c),
         PhaseAndLock(c), FlagAndJob(c)
  PROVE  DrainingIsSwap' /\ JobIsHolders'
<1>1. \A d \in Clients : d # c => pc'[d] \in {"idle", "queued"}
  BY OnlyTheHolderWorks DEF PhaseAndLock
<1>2. DrainingIsSwap'
  BY <1>1 DEF FlagAndJob, DrainingIsSwap, Swapping
<1>3. JobIsHolders'
  BY <1>1 DEF FlagAndJob, JobIsHolders, Employing, NoJob
<1>. QED
  BY <1>2, <1>3

(* A swap stops or starts an engine after a drain only: either the counter *)
(* was full when the drain ended, and then nobody was in flight, or cut is *)
(* set.                                                                    *)
LEMMA QuiescentKept ==
  ASSUME AdmInv, QuiescentReplace, LockDiscipline, pc \in [Clients -> Phases],
         NEW c \in Clients, Holder(c), PhaseAndLock(c), UNCHANGED genVars, HandlerStep(c)
  PROVE  QuiescentReplace'
<1>1. InFlight' = InFlight
  BY DEF genVars, InFlight, Holders, Pending
<1>2. \A d \in Clients : d # c => pc'[d] \in {"idle", "queued"}
  BY OnlyTheHolderWorks DEF PhaseAndLock
<1>3. SUFFICES ASSUME pc'[c] \in {"stop", "start"}, ~cut'
               PROVE  InFlight = {}
  BY <1>1, <1>2 DEF QuiescentReplace
<1>4. CASE Answers(c)
  BY <1>3, <1>4, AnswersEffect
<1>5. CASE SwapBegin(c)
  BY <1>3, <1>5, GotoEffect DEF SwapBegin
<1>6. CASE DrainIdle(c)
  <2>1. permits = MaxConcurrent
    BY <1>6 DEF DrainIdle, SemIdle
  <2>. QED
    BY <2>1, FullCounterIsIdle DEF IdleMeansNobody
<1>7. CASE DrainTimeout(c)
  BY <1>3, <1>7 DEF DrainTimeout
<1>8. CASE SwapStopped(c)
  BY <1>3, <1>8 DEF SwapStopped, QuiescentReplace
<1>9. CASE SwapStarted(c) \/ SwapRaised(c) \/ SwapCrashed(c)
  BY <1>3, <1>9, ReplyEffect, PublishEffect, LeaveEffect
     DEF SwapStarted, SwapRaised, SwapCrash, SwapCrashed
<1>10. CASE StopBegin(c) \/ StopStopped(c)
  <2>1. \E insts : StopContinue(c, insts)
    BY <1>10 DEF StopBegin, StopStopped
  <2>. QED
    BY <1>3, <2>1, GotoEffect, ReplyEffect, LeaveEffect DEF StopContinue
<1>. QED
  BY <1>4, <1>5, <1>6, <1>7, <1>8, <1>9, <1>10 DEF HandlerStep, Answers

-----------------------------------------------------------------------------
(* WorkerInv is inductive.                                                 *)

LEMMA TypesSplit ==
  LifeTypeOK <=> (OwnTypeOK /\ MessageTypeOK /\ lock \in Seq(Clients) /\ pc \in [Clients -> Phases])
<1>. QED
  BY DEF LifeTypeOK, OwnTypeOK, MessageTypeOK

LEMMA HandlerInv ==
  ASSUME WorkerInv, NEW c \in Clients, HandlerStep(c)
  PROVE  WorkerInv'
<1> USE DEF WorkerInv
<1>1. /\ OwnTypeOK /\ MessageTypeOK /\ catalog \in Catalogs
      /\ lock \in Seq(Clients) /\ pc \in [Clients -> Phases]
  BY TypesSplit DEF OwnTypeOK
<1>2. Holder(c)
  BY HandlerHolds
<1>3. /\ draining <=> pc[c] \in Swapping
      /\ job # NoJob <=> pc[c] \in Employing
  BY <1>1, <1>2, HolderFacts
<1>4. /\ pc[c] # "idle" /\ PhaseAndLock(c) /\ FlagAndJob(c)
      /\ UNCHANGED genVars /\ draining' \in BOOLEAN
  <2>1. draining \in BOOLEAN
    BY DEF AdmInv, AdmTypeOK
  <2>. QED
    BY <1>1, <1>3, <2>1, HandlerEffect
<1>5. LockDiscipline' /\ lock' \in Seq(Clients) /\ pc' \in [Clients -> Phases]
  BY <1>1, <1>2, <1>4, LockStep
<1>6. EngInv' /\ OwnTypeOK' /\ MessageTypeOK'
  <2>1. pc[c] \in {"drain", "stop"} => Resolvable(req[c].model)
    BY DEF TargetIsLocal
  <2>. QED
    BY <1>1, <2>1, HandlerTypes
<1>7. LifeTypeOK'
  BY <1>5, <1>6 DEF LifeTypeOK, OwnTypeOK, MessageTypeOK
<1>8. AdmInv'
  BY <1>4, AdmEnvInv
<1>9. DrainingIsSwap' /\ JobIsHolders'
  BY <1>1, <1>2, <1>4, FlagAndJobInv
<1>10. TargetIsLocal'
  BY <1>1, <1>2, <1>4, TargetKept
<1>11. QuiescentReplace'
  BY <1>1, <1>2, <1>4, QuiescentKept
<1>. QED
  BY <1>5, <1>6, <1>7, <1>8, <1>9, <1>10, <1>11

LEMMA ArriveInv ==
  ASSUME WorkerInv, NEW c \in Clients, Arrive(c)
  PROVE  WorkerInv'
<1> USE DEF WorkerInv
<1>1. /\ OwnTypeOK /\ MessageTypeOK
      /\ lock \in Seq(Clients) /\ pc \in [Clients -> Phases]
  BY TypesSplit
<1>2. LockDiscipline' /\ lock' \in Seq(Clients) /\ pc' \in [Clients -> Phases]
  BY <1>1, ArriveLock
<1>3. /\ UNCHANGED <<admVars, engVars, catalog, instances, loadedModel, reply, cut>>
      /\ pc[c] = "idle" /\ pc' = [pc EXCEPT ![c] = "queued"]
      /\ \E r \in Requests : req' = [req EXCEPT ![c] = r]
  BY DEF Arrive
<1>4. \A d \in Clients : pc'[d] \notin {"idle", "queued"} =>
                           (pc[d] = pc'[d] /\ req'[d] = req[d])
  BY <1>1, <1>3 DEF MessageTypeOK
<1>5. \A d \in Clients : pc[d] \notin {"idle", "queued"} => pc[d] = pc'[d]
  BY <1>1, <1>3
<1>6. LifeTypeOK'
  BY <1>1, <1>2, <1>3 DEF LifeTypeOK, OwnTypeOK, MessageTypeOK
<1>7. AdmInv'
  BY <1>3, AdmEnvInv DEF admVars, AdmInv, AdmTypeOK
<1>8. EngInv'
  BY <1>3 DEF engVars, EngInv, EngTypeOK, StartHoldsChild, StoppedIsReaped
<1>9. DrainingIsSwap' /\ JobIsHolders'
  <2>1. UNCHANGED <<draining, job>>
    BY <1>3 DEF admVars, engVars
  <2>2. DrainingIsSwap'
    BY <1>4, <1>5, <2>1 DEF DrainingIsSwap
  <2>3. JobIsHolders'
    BY <1>4, <1>5, <2>1 DEF JobIsHolders, NoJob
  <2>. QED
    BY <2>2, <2>3
<1>10. TargetIsLocal'
  BY <1>3, <1>4 DEF TargetIsLocal, Resolvable
<1>11. QuiescentReplace'
  <2>1. InFlight' = InFlight /\ cut' = cut
    BY <1>3 DEF admVars, genVars, InFlight, Holders, Pending
  <2>. QED
    BY <1>4, <2>1 DEF QuiescentReplace
<1>. QED
  BY <1>2, <1>6, <1>7, <1>8, <1>9, <1>10, <1>11

(* Generations leave during a drain, none enters.                          *)
LEMMA NobodyEnters ==
  ASSUME AdmInv, draining = TRUE, NEW g \in Gens, GenStep(g)
  PROVE  InFlight' \subseteq InFlight
<1> USE DEF InFlight, Holders, Pending
<1>1. gen \in [Gens -> GenStates]
  BY DEF AdmInv, AdmTypeOK
<1>2. ~Acquire(g) /\ ~Await(g)
  BY DEF Acquire, Await, MayEnter
<1>3. CASE Refuse(g) \/ Refused(g) \/ Answer(g)
  BY <1>1, <1>3 DEF Refuse, Refused, Answer
<1>4. CASE Resume(g) \/ Release(g)
  BY <1>1, <1>4 DEF Resume, Release, WakeOnResume, WakeOnRelease, Woken
<1>. QED
  BY <1>2, <1>3, <1>4 DEF GenStep

LEMMA GenerateInv ==
  ASSUME WorkerInv, NEW g \in Gens, Generate(g)
  PROVE  WorkerInv'
<1> USE DEF WorkerInv
<1>1. GenStep(g) /\ UNCHANGED <<engVars, lifeVars>>
  BY DEF Generate
<1>2. AdmInv' /\ UNCHANGED draining
  <2>1. UNCHANGED draining
    BY <1>1 DEF GenStep, Refuse, Refused,
                Acquire, Await, Resume, Answer, Release
  <2>. QED
    BY <1>1, <2>1, GenStepInv
<1>3. EngInv'
  BY <1>1 DEF engVars, EngInv, EngTypeOK, StartHoldsChild, StoppedIsReaped
<1>4. LifeTypeOK' /\ LockDiscipline' /\ TargetIsLocal'
  BY <1>1 DEF lifeVars, LifeTypeOK, LockDiscipline, Holder, TargetIsLocal, Resolvable
<1>5. DrainingIsSwap'
  BY <1>1, <1>2 DEF lifeVars, DrainingIsSwap
<1>6. JobIsHolders'
  BY <1>1 DEF lifeVars, engVars, JobIsHolders, NoJob
<1>7. QuiescentReplace'
  <2> SUFFICES ASSUME ~cut, NEW c \in Clients, pc[c] \in {"stop", "start"}
               PROVE  InFlight' = {}
    BY <1>1 DEF lifeVars, QuiescentReplace
  <2>1. InFlight = {}
    BY DEF QuiescentReplace
  <2>2. draining = TRUE
    BY DEF DrainingIsSwap, AdmInv, AdmTypeOK
  <2>. QED
    BY <1>1, <2>1, <2>2, NobodyEnters
<1>. QED
  BY <1>2, <1>3, <1>4, <1>5, <1>6, <1>7

(* A running call keeps running or ends; it does not vanish.               *)
LEMMA JobStaysAJob ==
  ASSUME EngInv, ExecutorStep
  PROVE  job # NoJob /\ job' # NoJob
<1>1. job \in Job /\ job.st \in {"spawn", "poll", "kill", "wait"}
  BY DEF EngInv, EngTypeOK, ExecutorStep, Spawn, SpawnFails, PollExited, PollReady, PollTimeout,
         KillMissing, Kill, WaitReaps, WaitNoChild
<1>2. job # NoJob
  BY <1>1 DEF NoJob
<1>3. CASE job.st = "spawn"
  BY <1>3 DEF ExecutorStep, Spawn, SpawnFails, PollExited, PollReady, PollTimeout,
              KillMissing, Kill, WaitReaps, WaitNoChild, NoJob
<1>4. CASE job.st \in {"poll", "kill", "wait"}
  <2>1. job \in [st : {"poll", "started", "kill", "wait", "stopped"}, spec : LocalSpecs, pid : Procs]
    BY <1>1, <1>4, JobWithPid
  <2>2. \/ \E x \in {"started", "stopped", "wait"} : job' = [job EXCEPT !.st = x]
        \/ job' = [st |-> "raised", spec |-> job.spec]
    BY <1>4 DEF ExecutorStep, Spawn, SpawnFails, PollExited, PollReady, PollTimeout,
                KillMissing, Kill, AfterKill, WaitReaps, WaitNoChild
  <2>. QED
    BY <1>2, <2>1, <2>2 DEF NoJob
<1>. QED
  BY <1>1, <1>2, <1>3, <1>4

LEMMA EngineInv ==
  ASSUME WorkerInv, Execute \/ ProcessStep
  PROVE  WorkerInv'
<1> USE DEF WorkerInv
<1>1. (ExecutorStep \/ ProcStep) /\ UNCHANGED <<admVars, lifeVars>>
  BY DEF Execute, ProcessStep
<1>2. EngInv'
  BY <1>1, ExecutorStepInv, ProcStepInv
<1>3. AdmInv'
  BY <1>1, AdmEnvInv DEF admVars, AdmInv, AdmTypeOK
<1>4. LifeTypeOK' /\ LockDiscipline' /\ TargetIsLocal'
  BY <1>1 DEF lifeVars, LifeTypeOK, LockDiscipline, Holder, TargetIsLocal, Resolvable
<1>5. DrainingIsSwap'
  BY <1>1 DEF admVars, lifeVars, DrainingIsSwap
<1>6. JobIsHolders'
  <2>1. job' # NoJob <=> job # NoJob
    <3>1. CASE ExecutorStep
      BY <3>1, JobStaysAJob
    <3>2. CASE ProcStep
      BY <3>2 DEF ProcStep, ProcReady, ProcExit, ProcTerm
    <3>. QED
      BY <1>1, <3>1, <3>2
  <2>. QED
    BY <1>1, <2>1 DEF lifeVars, JobIsHolders, NoJob
<1>7. QuiescentReplace'
  BY <1>1 DEF admVars, genVars, lifeVars, QuiescentReplace, InFlight, Holders, Pending
<1>. QED
  BY <1>2, <1>3, <1>4, <1>5, <1>6, <1>7

(* Nobody is anywhere: the state of a worker that has just started.        *)
LEMMA FreshInv ==
  ASSUME AdmInv, EngInv, Fresh, draining = FALSE, job = NoJob
  PROVE  WorkerInv
<1>1. LifeTypeOK
  <2>1. /\ instances = Empty /\ DOMAIN instances = {}
        /\ instances \in [DOMAIN instances -> Procs]
    BY DEF Fresh, Empty
  <2>2. lock \in Seq(Clients) /\ pc \in [Clients -> Phases]
    BY DEF Fresh, Phases
  <2>3. req \in [Clients -> Requests \cup {NoRequest}]
    BY DEF Fresh
  <2>4. reply \in [code : Codes, running : SUBSET Names]
    BY DEF Fresh, NoReply, Codes
  <2>5. catalog \in Catalogs /\ loadedModel \in Names /\ cut \in BOOLEAN
    BY ModelNameAssumption DEF Fresh
  <2>. QED
    BY <2>1, <2>2, <2>3, <2>4, <2>5 DEF LifeTypeOK
<1>2. LockDiscipline /\ DrainingIsSwap /\ JobIsHolders /\ TargetIsLocal /\ QuiescentReplace
  BY DEF Fresh, LockDiscipline, DrainingIsSwap, JobIsHolders, TargetIsLocal, QuiescentReplace
<1>. QED
  BY <1>1, <1>2 DEF WorkerInv

LEMMA RestartInv ==
  ASSUME WorkerInv, Restart
  PROVE  WorkerInv'
<1>1. AdmInv' /\ draining' = FALSE
  BY AdmRestartInv DEF Restart, LoadCatalog, AdmRestart
<1>2. EngInv' /\ job' = NoJob
  BY EngRestartInv DEF WorkerInv, Restart, LoadCatalog, EngRestart
<1>3. LifeTypeOK'
  <2>1. /\ instances' = Empty /\ DOMAIN instances' = {}
        /\ instances' \in [DOMAIN instances' -> Procs]
    BY DEF Restart, LoadCatalog, Empty
  <2>2. lock' \in Seq(Clients) /\ pc' \in [Clients -> Phases]
    BY DEF Restart, LoadCatalog, Phases
  <2>3. req' \in [Clients -> Requests \cup {NoRequest}]
    BY DEF Restart, LoadCatalog
  <2>4. reply' \in [code : Codes, running : SUBSET Names]
    BY DEF Restart, LoadCatalog, NoReply, Codes
  <2>5. catalog' \in Catalogs /\ loadedModel' \in Names /\ cut' \in BOOLEAN
    BY ModelNameAssumption DEF Restart, LoadCatalog
  <2>. QED
    BY <2>1, <2>2, <2>3, <2>4, <2>5 DEF LifeTypeOK
<1>4. LockDiscipline' /\ TargetIsLocal' /\ QuiescentReplace'
  BY DEF Restart, LoadCatalog, LockDiscipline, TargetIsLocal, QuiescentReplace
<1>5. DrainingIsSwap'
  BY <1>1 DEF Restart, LoadCatalog, DrainingIsSwap
<1>6. JobIsHolders'
  BY <1>2 DEF Restart, LoadCatalog, JobIsHolders, NoJob
<1>. QED
  BY <1>1, <1>2, <1>3, <1>4, <1>5, <1>6 DEF WorkerInv

LEMMA StutterInv ==
  ASSUME WorkerInv, UNCHANGED vars
  PROVE  WorkerInv'
<1> USE DEF WorkerInv, vars
<1>1. AdmInv'
  BY AdmEnvInv DEF admVars, AdmInv, AdmTypeOK
<1>2. EngInv'
  BY DEF engVars, EngInv, EngTypeOK, StartHoldsChild, StoppedIsReaped
<1>3. LifeTypeOK' /\ LockDiscipline' /\ TargetIsLocal'
  BY DEF lifeVars, LifeTypeOK, LockDiscipline, Holder, TargetIsLocal, Resolvable
<1>4. DrainingIsSwap' /\ QuiescentReplace'
  BY DEF admVars, genVars, lifeVars, DrainingIsSwap, QuiescentReplace, InFlight, Holders, Pending
<1>5. JobIsHolders'
  BY DEF engVars, lifeVars, JobIsHolders, NoJob
<1>. QED
  BY <1>1, <1>2, <1>3, <1>4, <1>5

LEMMA WorkerInitInv == Init => WorkerInv
<1>1. EngInit => job = NoJob
  BY DEF EngInit
<1>2. AdmInit => draining = FALSE
  BY DEF AdmInit
<1>. QED
  BY <1>1, <1>2, AdmInitInv, EngInitInv, FreshInv DEF Init

LEMMA WorkerNextInv == WorkerInv /\ [Next]_vars => WorkerInv'
<1> SUFFICES ASSUME WorkerInv, [Next]_vars PROVE WorkerInv'
  OBVIOUS
<1>1. ASSUME NEW c \in Clients, Arrive(c) PROVE WorkerInv'
  BY <1>1, ArriveInv
<1>2. ASSUME NEW c \in Clients, HandlerStep(c) PROVE WorkerInv'
  BY <1>2, HandlerInv
<1>3. ASSUME NEW g \in Gens, Generate(g) PROVE WorkerInv'
  BY <1>3, GenerateInv
<1>4. CASE Execute \/ ProcessStep
  BY <1>4, EngineInv
<1>5. CASE Restart
  BY <1>5, RestartInv
<1>6. CASE UNCHANGED vars
  BY <1>6, StutterInv
<1>. QED
  BY <1>1, <1>2, <1>3, <1>4, <1>5, <1>6 DEF Next

(* The inductive invariant of the worker: admission, executor, lock and flag. *)
THEOREM WorkerInvariance == Spec => []WorkerInv
<1>. QED
  BY WorkerInitInv, WorkerNextInv, PTL DEF Spec

-----------------------------------------------------------------------------
(* What the invariant says.                                                *)

(* Every variable of the worker keeps its type.                            *)
THEOREM TypeOKHolds == Spec => []TypeOK
<1>1. WorkerInv => TypeOK
  BY DEF WorkerInv, AdmInv, EngInv, LifeTypeOK, TypeOK
<1>. QED
  BY <1>1, WorkerInvariance, PTL

(* One lifecycle handler runs at a time, in order of arrival.              *)
THEOREM LockDisciplineHolds == Spec => []LockDiscipline
<1>1. WorkerInv => LockDiscipline
  BY DEF WorkerInv
<1>. QED
  BY <1>1, WorkerInvariance, PTL

(* The flag that refuses generations is set by a running swap, and by      *)
(* nothing that is over.                                                   *)
THEOREM DrainingIsSwapHolds == Spec => []DrainingIsSwap
<1>1. WorkerInv => DrainingIsSwap
  BY DEF WorkerInv
<1>. QED
  BY <1>1, WorkerInvariance, PTL

(* The executor works for the lock holder only.                            *)
THEOREM JobIsHoldersHolds == Spec => []JobIsHolders
<1>1. WorkerInv => JobIsHolders
  BY DEF WorkerInv
<1>. QED
  BY <1>1, WorkerInvariance, PTL

(* After a drain that did not time out, an engine is replaced under        *)
(* nobody's feet.                                                          *)
THEOREM QuiescentReplaceHolds == Spec => []QuiescentReplace
<1>1. WorkerInv => QuiescentReplace
  BY DEF WorkerInv
<1>. QED
  BY <1>1, WorkerInvariance, PTL

-----------------------------------------------------------------------------
(* Engine processes are tracked.  The worker knows a live child of its own *)
(* by its entry in _instances, or by the call of the executor that is      *)
(* starting it.  That nobody else's pid is behind an entry, and that no    *)
(* entry is written over, rests on the order of a swap: the loop over the  *)
(* instances is finished before an engine is started, and the entry stays  *)
(* until its process has been reaped.                                      *)

KillStates == {"kill", "wait", "stopped"}
StartStates == {"spawn", "poll", "started", "raised"}

OneInstance == \A n, m \in DOMAIN instances : n = m

(* stop() works on the instance whose entry is dropped when it returns.    *)
JobIsInstance ==
  \A c \in Clients : pc[c] \in {"stop", "halt"} =>
    /\ job.st \in KillStates
    /\ job.spec.name \in DOMAIN instances
    /\ job.pid = instances[job.spec.name]

(* start() runs with nothing registered.                                   *)
StartsEmpty ==
  \A c \in Clients : pc[c] = "start" => job.st \in StartStates /\ instances = Empty

Held(p) == job.st \in {"poll", "started"} /\ job.pid = p
Tracked(p) == p \in Instances \/ Held(p)
OursAt(p) == proc[p] # Free /\ proc[p].owner = "worker"
FreeOrOurs(p) == proc[p] = Free \/ proc[p].owner = "worker"

WorkersAreTracked == \A p \in Procs : OursAt(p) => Tracked(p)
TrackedAreOurs == \A p \in Procs : Tracked(p) => FreeOrOurs(p)

TrackInv ==
  /\ OneInstance
  /\ JobIsInstance
  /\ StartsEmpty
  /\ WorkersAreTracked
  /\ TrackedAreOurs

(* A table step that makes no new child of ours and takes none away from   *)
(* us, except by freeing its pid.                                          *)
NoNewChild ==
  \A p \in Procs : /\ OursAt(p)' => OursAt(p)
                   /\ FreeOrOurs(p) => FreeOrOurs(p)'

LEMMA SameTable ==
  ASSUME UNCHANGED proc
  PROVE  NoNewChild
<1>. QED
  BY DEF NoNewChild, OursAt, FreeOrOurs

LEMMA CleanedUpChildren ==
  ASSUME proc' = CleanedUp
  PROVE  NoNewChild
<1>. QED
  BY DEF NoNewChild, OursAt, FreeOrOurs, CleanedUp

LEMMA ProcStepChildren ==
  ASSUME EngInv, ProcStep
  PROVE  NoNewChild
<1>1. ProcTypeOK
  BY DEF EngInv, EngTypeOK, ProcTypeOK
<1>2. PICK p \in Procs : ProcReady(p) \/ ProcExit(p) \/ ProcTerm(p)
  BY DEF ProcStep
<1>3. proc[p] # Free /\ proc[p] \in Process
  BY <1>1, <1>2 DEF ProcReady, ProcExit, ProcTerm, Live, Free, ProcTypeOK
<1>4. proc' = Gone(p) \/ proc' = [proc EXCEPT ![p].st = "ready"]
  BY <1>2 DEF ProcReady, ProcExit, ProcTerm
<1>5. \A q \in Procs : q # p => proc'[q] = proc[q]
  BY <1>1, <1>4 DEF ProcTypeOK, Gone
<1>6. proc'[p] = Free \/ proc'[p].owner = proc[p].owner
  BY <1>1, <1>3, <1>4 DEF ProcTypeOK, Gone, Process
<1>. QED
  BY <1>3, <1>5, <1>6 DEF NoNewChild, OursAt, FreeOrOurs

LEMMA StopChildren ==
  ASSUME EngInv, ExecutorStep, job.st \in KillStates
  PROVE  /\ NoNewChild
         /\ job'.st \in KillStates /\ job'.spec = job.spec /\ job'.pid = job.pid
<1>1. ProcTypeOK /\ job \in Job
  BY DEF EngInv, EngTypeOK, ProcTypeOK
<1>2. /\ job \in [st : {"poll", "started", "kill", "wait", "stopped"}, spec : LocalSpecs, pid : Procs]
      /\ job.pid \in Procs
  BY <1>1, JobWithPid DEF KillStates
<1>3. KillMissing \/ Kill \/ WaitReaps \/ WaitNoChild
  BY DEF ExecutorStep, KillStates, Spawn, SpawnFails, PollExited, PollReady, PollTimeout
<1>4. job'.st \in KillStates /\ job'.spec = job.spec /\ job'.pid = job.pid
  BY <1>2, <1>3 DEF KillMissing, Kill, AfterKill, WaitReaps, WaitNoChild, KillStates
<1>5. CASE KillMissing \/ WaitNoChild
  BY <1>4, <1>5, SameTable DEF KillMissing, WaitNoChild
<1>6. CASE WaitReaps
  BY <1>1, <1>4, <1>6 DEF WaitReaps, Reaped, NoNewChild, OursAt, FreeOrOurs, ProcTypeOK
<1>7. CASE Kill
  <2>1. \A p \in Procs : p \in Signalled(job.pid) => proc[p] # Free
    BY <1>7 DEF Kill, Signalled, Group, OurProcs
  <2>2. \A p \in Procs : \/ proc'[p] = proc[p]
                         \/ proc[p] \in Process /\ proc'[p] = [proc[p] EXCEPT !.term = TRUE]
    BY <1>1, <1>7, <2>1 DEF Kill, ProcTypeOK
  <2>3. \A x \in Process : [x EXCEPT !.term = TRUE].owner = x.owner /\ x # Free
    BY FreeIsNoProcess DEF Process
  <2>. QED
    BY <1>4, <2>2, <2>3 DEF NoNewChild, OursAt, FreeOrOurs
<1>. QED
  BY <1>3, <1>4, <1>5, <1>6, <1>7

(* A start leaves no child behind that it does not hold: it reaps the one  *)
(* that exited, and gives up the one that it leaves running.               *)
LEMMA StartChildren ==
  ASSUME EngInv, ExecutorStep, job.st \in StartStates,
         \A p \in Procs : OursAt(p) => Held(p)
  PROVE  /\ job'.st \in StartStates
         /\ \A p \in Procs : OursAt(p)' => Held(p)'
         /\ \A p \in Procs : Held(p)' => FreeOrOurs(p)'
<1> USE DEF StartStates
<1>1. ProcTypeOK /\ job \in Job /\ StartHoldsChild
  BY DEF EngInv, EngTypeOK, ProcTypeOK
<1>2. (\E p \in Procs : Spawn(p)) \/ SpawnFails \/ PollExited \/ PollReady \/ PollTimeout
  BY DEF ExecutorStep, KillMissing, Kill, WaitReaps, WaitNoChild
<1>3. ASSUME NEW p \in Procs, Spawn(p)
      PROVE  /\ job'.st \in StartStates
             /\ \A q \in Procs : OursAt(q)' => Held(q)'
             /\ \A q \in Procs : Held(q)' => FreeOrOurs(q)'
  <2>1. \A q \in Procs : ~OursAt(q)
    BY <1>3 DEF Spawn, Held
  <2>2. job'.st = "poll" /\ job'.pid = p
    BY <1>3 DEF Spawn
  <2>3. proc'[p].owner = "worker" /\ \A q \in Procs : q # p => proc'[q] = CleanedUp[q]
    BY <1>3 DEF Spawn, CleanedUp
  <2>. QED
    BY <2>1, <2>2, <2>3 DEF OursAt, FreeOrOurs, Held, CleanedUp
<1>4. CASE SpawnFails
  BY <1>4 DEF SpawnFails, Held, OursAt
<1>5. CASE PollExited
  <2>1. job'.st = "raised" /\ proc' = [proc EXCEPT ![job.pid] = Free]
    BY <1>5 DEF PollExited, Reaped
  <2>. QED
    BY <1>1, <2>1 DEF Held, OursAt, ProcTypeOK
<1>6. CASE PollReady
  <2>1. job.pid \in Procs /\ job'.st = "started" /\ job'.pid = job.pid /\ UNCHANGED proc
    BY <1>1, <1>6, JobWithPid DEF PollReady
  <2>. QED
    BY <1>1, <1>6, <2>1 DEF Held, OursAt, FreeOrOurs, PollReady, StartHoldsChild
<1>7. CASE PollTimeout
  <2>1. job'.st = "raised" /\ proc' = [proc EXCEPT ![job.pid].owner = "lost"] /\ job.st = "poll"
    BY <1>7 DEF PollTimeout
  <2>2. job.pid \in Procs /\ proc[job.pid] \in Process
    BY <1>1, <2>1, JobWithPid DEF StartHoldsChild, ProcTypeOK
  <2>3. proc'[job.pid].owner = "lost" /\ \A q \in Procs : q # job.pid => proc'[q] = proc[q]
    BY <1>1, <2>1, <2>2 DEF ProcTypeOK, Process
  <2>. QED
    BY <2>1, <2>3 DEF Held, OursAt
<1>. QED
  BY <1>2, <1>3, <1>4, <1>5, <1>6, <1>7

-----------------------------------------------------------------------------
(* The next await of a loop over the instances: what is left of them is    *)
(* registered, and the executor holds no child.                            *)

Loops(c, insts) == SwapContinue(c, insts) \/ StopContinue(c, insts)

LEMMA LoopTrack ==
  ASSUME catalog \in Catalogs, LockDiscipline, pc \in [Clients -> Phases],
         NEW c \in Clients, Holder(c), NEW insts, Loops(c, insts),
         UNCHANGED proc, instances' = insts,
         \A n, m \in DOMAIN insts : n = m,
         \A p \in Procs : OursAt(p) => \E n \in DOMAIN insts : insts[n] = p,
         \A n \in DOMAIN insts : FreeOrOurs(insts[n])
  PROVE  TrackInv'
<1>1. \A d \in Clients : d # c => pc[d] \in {"idle", "queued"}
  BY OnlyTheHolderWorks
<1>2. PhaseAndLock(c) /\ job'.st \in {"none", "kill", "spawn"}
  <2>1. CASE SwapContinue(c, insts)
    BY <2>1, GotoEffect, PublishEffect DEF SwapContinue, SwapCrash, NoJob
  <2>2. CASE StopContinue(c, insts)
    BY <2>2, GotoEffect, ReplyEffect, LeaveEffect DEF StopContinue, NoJob
  <2>. QED
    BY <2>1, <2>2 DEF Loops
<1>3. \A d \in Clients : d # c => pc'[d] \in {"idle", "queued"}
  BY <1>1, <1>2 DEF PhaseAndLock
<1>4. ASSUME pc'[c] \in {"stop", "halt"}
      PROVE  /\ job'.st = "kill" /\ job'.spec.name \in DOMAIN insts
             /\ job'.pid = insts[job'.spec.name]
  <2>1. \E n \in DOMAIN insts : /\ Resolvable(n)
                                /\ job' = [st |-> "kill", spec |-> catalog[n], pid |-> insts[n]]
    BY <1>4, GotoEffect, PublishEffect, ReplyEffect, LeaveEffect
       DEF Loops, SwapContinue, SwapCrash, StopContinue
  <2>2. \A n : Resolvable(n) => catalog[n].name = n
    BY CatalogsAssumption DEF Resolvable
  <2>. QED
    BY <2>1, <2>2
<1>5. pc'[c] = "start" => job'.st = "spawn" /\ insts = Empty
  BY GotoEffect, PublishEffect, ReplyEffect, LeaveEffect
     DEF Loops, SwapContinue, SwapCrash, StopContinue, NothingLeft
<1>6. \A p \in Procs : ~Held(p)'
  BY <1>2 DEF Held
<1>7. Instances' = {p \in Procs : \E n \in DOMAIN insts : insts[n] = p}
  BY DEF Instances
<1>8. WorkersAreTracked' /\ TrackedAreOurs'
  BY <1>6, <1>7 DEF WorkersAreTracked, TrackedAreOurs, Tracked, OursAt, FreeOrOurs
<1>9. OneInstance'
  BY DEF OneInstance
<1>10. JobIsInstance' /\ StartsEmpty'
  BY <1>3, <1>4, <1>5 DEF JobIsInstance, StartsEmpty, KillStates, StartStates
<1>. QED
  BY <1>8, <1>9, <1>10 DEF TrackInv

(* The loop drops the entry of the process it has just reaped, which was   *)
(* the only one.                                                           *)
LEMMA DroppedTrack ==
  ASSUME WorkerInv, TrackInv, NEW c \in Clients, pc[c] \in {"stop", "halt"}, job.st = "stopped"
  PROVE  LET rest == Without(instances, job.spec.name) IN
         /\ rest = Empty
         /\ \A p \in Procs : ~OursAt(p)
<1>1. /\ job.spec.name \in DOMAIN instances /\ job.pid = instances[job.spec.name]
      /\ \A n \in DOMAIN instances : n = job.spec.name
  BY DEF TrackInv, JobIsInstance, OneInstance
<1>2. proc[job.pid] = Free
  BY DEF WorkerInv, EngInv, StoppedIsReaped
<1>3. DOMAIN instances \ {job.spec.name} = {}
  BY <1>1
<1>4. Without(instances, job.spec.name) = Empty
  BY <1>3 DEF Without, Empty
<1>5. \A p \in Procs : OursAt(p) => p = job.pid
  BY <1>1 DEF TrackInv, WorkersAreTracked, Tracked, Held, Instances
<1>. QED
  BY <1>2, <1>4, <1>5 DEF OursAt

LEMMA EmptyHasNoName == DOMAIN Empty = {}
<1>. QED
  BY DEF Empty

LEMMA HandlerTrack ==
  ASSUME WorkerInv, TrackInv, NEW c \in Clients, HandlerStep(c)
  PROVE  TrackInv'
<1>1. /\ catalog \in Catalogs /\ LockDiscipline /\ pc \in [Clients -> Phases]
      /\ \A n \in DOMAIN instances : instances[n] \in Procs
  BY DEF WorkerInv, LifeTypeOK
<1>2. Holder(c) /\ \A d \in Clients : d # c => pc[d] \in {"idle", "queued"}
  BY <1>1, HandlerHolds, OnlyTheHolderWorks
<1>3. /\ draining <=> pc[c] \in Swapping
      /\ job # NoJob <=> pc[c] \in Employing
  BY <1>1, <1>2, HolderFacts DEF WorkerInv
<1>4. PhaseAndLock(c)
  BY <1>1, <1>3, HandlerEffect DEF WorkerInv, AdmInv, AdmTypeOK
<1>5. \A d \in Clients : d # c => pc'[d] \in {"idle", "queued"}
  BY <1>1, <1>2, <1>4 DEF PhaseAndLock
<1>6. ASSUME UNCHANGED <<instances, job>>, NoNewChild,
             pc'[c] \notin Employing
      PROVE  TrackInv'
  <2>1. Instances' = Instances /\ \A p \in Procs : Tracked(p)' <=> Tracked(p)
    BY <1>6 DEF Instances, Tracked, Held
  <2>2. WorkersAreTracked' /\ TrackedAreOurs'
    BY <1>6, <2>1 DEF TrackInv, WorkersAreTracked, TrackedAreOurs, NoNewChild
  <2>3. OneInstance' /\ JobIsInstance' /\ StartsEmpty'
    BY <1>5, <1>6 DEF TrackInv, OneInstance, JobIsInstance, StartsEmpty, Employing
  <2>. QED
    BY <2>2, <2>3 DEF TrackInv
<1>7. ASSUME job.st \notin {"poll", "started"}
      PROVE  /\ \A n, m \in DOMAIN instances : n = m
             /\ \A p \in Procs : OursAt(p) => \E n \in DOMAIN instances : instances[n] = p
             /\ \A n \in DOMAIN instances : FreeOrOurs(instances[n])
  BY <1>1, <1>7 DEF TrackInv, OneInstance, WorkersAreTracked, TrackedAreOurs, Tracked, Held, Instances
<1>8. CASE Answers(c)
  <2>1. UNCHANGED <<instances, job>> /\ pc'[c] \notin Employing
    BY <1>1, <1>8, AnswersEffect DEF Employing
  <2>2. proc' \in {proc, CleanedUp}
    BY <1>8 DEF Answers, Status, List, Reload, SwapReject, SwapUnsupported, SwapOverBudget,
                SwapEscapes, SwapNoop, Replied, Probe, engVars
  <2>. QED
    BY <1>6, <2>1, <2>2, SameTable, CleanedUpChildren
<1>9. CASE SwapBegin(c)
  <2>1. UNCHANGED <<instances, job>> /\ pc'[c] = "drain" /\ proc' \in {proc, CleanedUp}
    BY <1>1, <1>9, GotoEffect DEF SwapBegin, Probe
  <2>. QED
    BY <1>6, <2>1, SameTable, CleanedUpChildren DEF Employing
<1>10. CASE DrainIdle(c) \/ DrainTimeout(c)
  <2>1. SwapContinue(c, instances) /\ UNCHANGED <<proc, instances>> /\ pc[c] = "drain"
    BY <1>10 DEF DrainIdle, DrainTimeout
  <2>2. job = NoJob
    BY <1>3, <2>1 DEF Employing
  <2>. QED
    BY <1>1, <1>2, <1>7, <2>1, <2>2, LoopTrack DEF Loops, NoJob
<1>11. CASE SwapStopped(c) \/ StopStopped(c)
  <2>. DEFINE rest == Without(instances, job.spec.name)
  <2>1. /\ pc[c] \in {"stop", "halt"} /\ job.st = "stopped"
        /\ instances' = rest /\ UNCHANGED proc /\ Loops(c, rest)
    BY <1>11 DEF SwapStopped, StopStopped, Loops
  <2>2. rest = Empty /\ \A p \in Procs : ~OursAt(p)
    BY <2>1, DroppedTrack
  <2>. HIDE DEF rest
  <2>. QED
    BY <1>1, <1>2, <2>1, <2>2, LoopTrack, EmptyHasNoName
<1>12. CASE SwapStarted(c)
  <2>1. /\ instances = Empty /\ job.st = "started" /\ pc[c] = "start"
    BY <1>12 DEF SwapStarted, TrackInv, StartsEmpty
  <2>2. /\ DOMAIN instances' = {req[c].model} /\ instances'[req[c].model] = job.pid
        /\ job' = NoJob /\ UNCHANGED proc /\ pc'[c] = "replying"
    BY <1>1, <1>12, <2>1, ReplyEffect DEF SwapStarted, Registered, Empty
  <2>3. \A p \in Procs : OursAt(p) => p = job.pid
    BY <2>1 DEF TrackInv, WorkersAreTracked, Tracked, Held, Instances, Empty
  <2>4. \A p \in Procs : p = job.pid => FreeOrOurs(p)
    BY <2>1 DEF TrackInv, TrackedAreOurs, Tracked, Held
  <2>5. Instances' = {p \in Procs : p = job.pid} /\ \A p \in Procs : ~Held(p)'
    BY <2>2 DEF Instances, Held, NoJob
  <2>6. WorkersAreTracked' /\ TrackedAreOurs'
    BY <2>2, <2>3, <2>4, <2>5 DEF WorkersAreTracked, TrackedAreOurs, Tracked, OursAt, FreeOrOurs
  <2>7. OneInstance' /\ JobIsInstance' /\ StartsEmpty'
    BY <1>5, <2>2 DEF OneInstance, JobIsInstance, StartsEmpty
  <2>. QED
    BY <2>6, <2>7 DEF TrackInv
<1>13. CASE SwapRaised(c)
  <2>1. /\ instances' = instances /\ job.st = "raised" /\ job' = NoJob
        /\ UNCHANGED proc /\ pc'[c] = "crashing"
    BY <1>1, <1>13, PublishEffect DEF SwapRaised, SwapCrash
  <2>2. \A p \in Procs : Tracked(p)' <=> Tracked(p)
    BY <2>1 DEF Tracked, Held, Instances, NoJob
  <2>3. WorkersAreTracked' /\ TrackedAreOurs'
    BY <2>1, <2>2 DEF TrackInv, WorkersAreTracked, TrackedAreOurs, OursAt, FreeOrOurs
  <2>4. OneInstance' /\ JobIsInstance' /\ StartsEmpty'
    BY <1>5, <2>1 DEF TrackInv, OneInstance, JobIsInstance, StartsEmpty
  <2>. QED
    BY <2>3, <2>4 DEF TrackInv
<1>14. CASE SwapCrashed(c)
  <2>1. UNCHANGED <<instances, job, proc>> /\ pc'[c] = "idle"
    BY <1>1, <1>14, LeaveEffect DEF SwapCrashed, engVars
  <2>. QED
    BY <1>6, <2>1, SameTable DEF Employing
<1>15. CASE StopBegin(c)
  <2>1. StopContinue(c, instances) /\ UNCHANGED <<proc, instances>> /\ pc[c] = "queued"
    BY <1>15 DEF StopBegin, Begin
  <2>2. job = NoJob
    BY <1>3, <2>1 DEF Employing
  <2>. QED
    BY <1>1, <1>2, <1>7, <2>1, <2>2, LoopTrack DEF Loops, NoJob
<1>. QED
  BY <1>8, <1>9, <1>10, <1>11, <1>12, <1>13, <1>14, <1>15 DEF HandlerStep, Answers

(* The executor steps under the holder's call: it stops the one instance,  *)
(* or starts with none.                                                    *)
LEMMA ExecutorTrack ==
  ASSUME WorkerInv, TrackInv, ExecutorStep, UNCHANGED lifeVars
  PROVE  TrackInv'
<1>1. EngInv /\ job # NoJob
  BY JobStaysAJob DEF WorkerInv
<1>2. PICK c \in Clients : pc[c] \in Employing
  BY <1>1 DEF WorkerInv, JobIsHolders, Employing
<1>3. \A d \in Clients : d # c => pc[d] \in {"idle", "queued"}
  <2>1. LockDiscipline /\ pc \in [Clients -> Phases] /\ Holder(c)
    BY <1>2 DEF WorkerInv, LifeTypeOK, LockDiscipline, Employing
  <2>. QED
    BY <2>1, OnlyTheHolderWorks
<1>4. UNCHANGED <<pc, instances>> /\ Instances' = Instances
  BY DEF lifeVars, Instances
<1>5. OneInstance'
  BY <1>4 DEF TrackInv, OneInstance
<1>6. CASE pc[c] \in {"stop", "halt"}
  <2>1. /\ job.st \in KillStates /\ job.spec.name \in DOMAIN instances
        /\ job.pid = instances[job.spec.name]
    BY <1>6 DEF TrackInv, JobIsInstance
  <2>2. NoNewChild /\ job'.st \in KillStates /\ job'.spec = job.spec /\ job'.pid = job.pid
    BY <1>1, <2>1, StopChildren
  <2>3. JobIsInstance' /\ StartsEmpty'
    BY <1>3, <1>4, <1>6, <2>1, <2>2 DEF JobIsInstance, StartsEmpty
  <2>4. \A p \in Procs : Tracked(p)' <=> Tracked(p)
    BY <1>4, <2>1, <2>2 DEF Tracked, Held, KillStates
  <2>5. WorkersAreTracked' /\ TrackedAreOurs'
    BY <2>2, <2>4 DEF TrackInv, WorkersAreTracked, TrackedAreOurs, NoNewChild
  <2>. QED
    BY <1>5, <2>3, <2>5 DEF TrackInv
<1>7. CASE pc[c] = "start"
  <2>1. job.st \in StartStates /\ instances = Empty
    BY <1>7 DEF TrackInv, StartsEmpty
  <2>2. Instances = {} /\ Instances' = {}
    BY <1>4, <2>1, EmptyHasNoName DEF Instances
  <2>3. \A p \in Procs : OursAt(p) => Held(p)
    BY <2>2 DEF TrackInv, WorkersAreTracked, Tracked
  <2>4. /\ job'.st \in StartStates
        /\ \A p \in Procs : OursAt(p)' => Held(p)'
        /\ \A p \in Procs : Held(p)' => FreeOrOurs(p)'
    BY <1>1, <2>1, <2>3, StartChildren
  <2>5. WorkersAreTracked' /\ TrackedAreOurs'
    BY <2>2, <2>4 DEF WorkersAreTracked, TrackedAreOurs, Tracked
  <2>6. JobIsInstance' /\ StartsEmpty'
    BY <1>3, <1>4, <1>7, <2>1, <2>4 DEF JobIsInstance, StartsEmpty
  <2>. QED
    BY <1>5, <2>5, <2>6 DEF TrackInv
<1>. QED
  BY <1>2, <1>6, <1>7 DEF Employing

(* Steps that leave the instances, the executor's call and every handler   *)
(* where they are.                                                         *)
LEMMA OtherTrack ==
  ASSUME TrackInv, UNCHANGED <<instances, job>>, NoNewChild,
         \A c \in Clients : pc'[c] \notin {"idle", "queued"} => pc'[c] = pc[c]
  PROVE  TrackInv'
<1>1. \A p \in Procs : Tracked(p)' <=> Tracked(p)
  BY DEF Tracked, Held, Instances
<1>2. WorkersAreTracked' /\ TrackedAreOurs'
  BY <1>1 DEF TrackInv, WorkersAreTracked, TrackedAreOurs, NoNewChild
<1>3. OneInstance' /\ JobIsInstance' /\ StartsEmpty'
  BY DEF TrackInv, OneInstance, JobIsInstance, StartsEmpty
<1>. QED
  BY <1>2, <1>3 DEF TrackInv

(* A worker that has just started has no child and no instance.            *)
LEMMA FreshTrack ==
  ASSUME instances = Empty, job = NoJob, \A p \in Procs : ~OursAt(p),
         \A c \in Clients : pc[c] = "idle"
  PROVE  TrackInv
<1>1. Instances = {} /\ \A p \in Procs : ~Held(p)
  BY EmptyHasNoName DEF Instances, Held, NoJob
<1>. QED
  BY <1>1, EmptyHasNoName DEF TrackInv, OneInstance, JobIsInstance, StartsEmpty,
                              WorkersAreTracked, TrackedAreOurs, Tracked

LEMMA TrackInitInv == Init => TrackInv
<1> SUFFICES ASSUME Init PROVE TrackInv
  OBVIOUS
<1>1. instances = Empty /\ job = NoJob /\ \A c \in Clients : pc[c] = "idle"
  BY DEF Init, Fresh, EngInit
<1>2. \A p \in Procs : proc[p] = Free \/ proc[p].owner = "outside"
  BY DEF Init, EngInit, OutsideEngine
<1>. QED
  BY <1>1, <1>2, FreshTrack DEF OursAt

LEMMA TrackNextInv == WorkerInv /\ TrackInv /\ [Next]_vars => TrackInv'
<1> SUFFICES ASSUME WorkerInv, TrackInv, [Next]_vars PROVE TrackInv'
  OBVIOUS
<1>1. ASSUME NEW c \in Clients, Arrive(c) PROVE TrackInv'
  <2>1. UNCHANGED <<instances, job, proc>> /\ pc' = [pc EXCEPT ![c] = "queued"]
    BY <1>1 DEF Arrive, engVars
  <2>2. pc \in [Clients -> Phases]
    BY DEF WorkerInv, LifeTypeOK
  <2>. QED
    BY <2>1, <2>2, OtherTrack, SameTable
<1>2. ASSUME NEW c \in Clients, HandlerStep(c) PROVE TrackInv'
  BY <1>2, HandlerTrack
<1>3. CASE (\E g \in Gens : Generate(g)) \/ UNCHANGED vars
  <2>1. UNCHANGED <<instances, job, proc, pc>>
    BY <1>3 DEF Generate, vars, engVars, lifeVars
  <2>. QED
    BY <2>1, OtherTrack, SameTable
<1>4. CASE Execute
  BY <1>4, ExecutorTrack DEF Execute
<1>5. CASE ProcessStep
  <2>1. ProcStep /\ UNCHANGED <<instances, job, pc>>
    BY <1>5 DEF ProcessStep, lifeVars, ProcStep, ProcReady, ProcExit, ProcTerm
  <2>2. NoNewChild
    BY <2>1, ProcStepChildren DEF WorkerInv
  <2>. QED
    BY <2>1, <2>2, OtherTrack
<1>6. CASE Restart
  <2>1. /\ instances' = Empty /\ job' = NoJob /\ \A c \in Clients : pc'[c] = "idle"
        /\ proc' = [p \in Procs |-> IF p \in OurProcs THEN Free ELSE proc[p]]
    BY <1>6 DEF Restart, LoadCatalog, EngRestart
  <2>2. \A p \in Procs : ~OursAt(p)'
    BY <2>1 DEF OursAt, OurProcs
  <2>3. Instances' = {} /\ \A p \in Procs : ~Held(p)'
    BY <2>1, EmptyHasNoName DEF Instances, Held, NoJob
  <2>. QED
    BY <2>1, <2>2, <2>3, EmptyHasNoName
       DEF TrackInv, OneInstance, JobIsInstance, StartsEmpty,
           WorkersAreTracked, TrackedAreOurs, Tracked
<1>. QED
  BY <1>1, <1>2, <1>3, <1>4, <1>5, <1>6 DEF Next

(* The inductive invariant of the tracking: what is registered, started, stopped. *)
THEOREM TrackInvariance == Spec => []TrackInv
<1>. QED
  BY WorkerInvariance, TrackInitInv, TrackNextInv, PTL DEF Spec

(* _instances names at most one process, a child of ours or one that is    *)
(* gone: a pid that the kernel has given to somebody else is never there.  *)
THEOREM InstancesAreOursHolds == Spec => []InstancesAreOurs
<1>1. TrackInv => InstancesAreOurs
  BY DEF TrackInv, OneInstance, TrackedAreOurs, Tracked, FreeOrOurs, InstancesAreOurs, Instances
<1>. QED
  BY <1>1, TrackInvariance, PTL

LEMMA TrackedByCode ==
  ASSUME WorkerInv, TrackInv, NEW p \in Procs, OursAt(p)
  PROVE  p \in Instances \/ (job # NoJob /\ "pid" \in DOMAIN job /\ job.pid = p)
<1>1. p \in Instances \/ Held(p)
  BY DEF TrackInv, WorkersAreTracked, Tracked
<1>2. CASE Held(p)
  <2>1. job \in [st : {"poll", "started", "kill", "wait", "stopped"}, spec : LocalSpecs, pid : Procs]
    BY <1>2, JobWithPid DEF Held, WorkerInv, EngInv, EngTypeOK
  <2>. QED
    BY <1>2, <2>1 DEF Held, NoJob
<1>. QED
  BY <1>1, <1>2

(* No live child of ours is unknown to the worker: whatever fails, crashes *)
(* or times out, an engine is in _instances, in the hands of the executor, *)
(* or one that a failed start() is known to have left behind.              *)
THEOREM NoUntrackedEngineHolds == Spec => []NoUntrackedEngine
<1>1. WorkerInv /\ TrackInv => NoUntrackedEngine
  BY TrackedByCode DEF NoUntrackedEngine, OursAt, LiveProcs, Live, Free
<1>. QED
  BY <1>1, WorkerInvariance, TrackInvariance, PTL

(* All children of ours have one pid: start() is never called before the   *)
(* process of the instance it replaces has been reaped.                    *)
LEMMA OneChild ==
  ASSUME WorkerInv, TrackInv, NEW p \in Procs, NEW q \in Procs, OursAt(p), OursAt(q)
  PROVE  p = q
<1>1. Tracked(p) /\ Tracked(q) /\ \A n, m \in DOMAIN instances : n = m
  BY DEF TrackInv, WorkersAreTracked, OneInstance
<1>2. CASE \E x \in Procs : Held(x)
  <2>1. job.st \in {"poll", "started"} /\ job # NoJob
    BY <1>2 DEF Held, NoJob
  <2>2. PICK c \in Clients : pc[c] \in Employing
    BY <2>1 DEF WorkerInv, JobIsHolders, Employing
  <2>3. pc[c] = "start"
    BY <2>1, <2>2 DEF TrackInv, JobIsInstance, Employing, KillStates
  <2>4. Instances = {}
    BY <2>3, EmptyHasNoName DEF TrackInv, StartsEmpty, Instances
  <2>. QED
    BY <1>1, <2>4 DEF Tracked, Held
<1>3. CASE \A x \in Procs : ~Held(x)
  BY <1>1, <1>3 DEF Tracked, Instances
<1>. QED
  BY <1>2, <1>3

(* Two engines of ours are never alive together.                           *)
THEOREM OneTrackedEngineHolds == Spec => []OneTrackedEngine
<1>1. ASSUME WorkerInv, TrackInv PROVE OneTrackedEngine
  <2>. DEFINE S == {p \in LiveProcs : proc[p].owner = "worker"}
  <2>1. \A p, q \in S : p = q
    BY <1>1, OneChild DEF OursAt, LiveProcs, Live, Free
  <2>2. CASE S = {}
    BY <2>2, FS_EmptySet DEF OneTrackedEngine
  <2>3. CASE S # {}
    <3>1. PICK p \in S : S = {p}
      BY <2>1, <2>3
    <3>. HIDE DEF S
    <3>2. Cardinality(S) = 1
      BY <3>1, FS_Singleton
    <3>. QED
      BY <3>2 DEF S, OneTrackedEngine
  <2>. QED
    BY <2>2, <2>3
<1>. QED
  BY <1>1, WorkerInvariance, TrackInvariance, PTL

-----------------------------------------------------------------------------
(* The phase of a request tells which operation it is, and what a reply    *)
(* and a start that is under way say of the instances and the catalog.     *)
OpsInv ==
  \A c \in Clients :
    /\ pc[c] = "idle" => req[c] = NoRequest
    /\ pc[c] = "halt" => req[c].op = "stop"
    /\ pc[c] \in {"drain", "stop", "start", "crashing"} => req[c].op = "swap"
    /\ pc[c] = "start" => Resolvable(req[c].model)
    /\ (pc[c] = "replying" /\ req[c].op = "stop") => instances = Empty

LeavesWith(c) == pc'[c] = "idle" /\ req' = [req EXCEPT ![c] = NoRequest]

LEMMA SwapContinueOps ==
  ASSUME pc \in [Clients -> Phases], NEW c \in Clients, NEW insts, SwapContinue(c, insts)
  PROVE  pc'[c] \in {"stop", "start", "crashing"} /\ UNCHANGED req
<1>. QED
  BY GotoEffect, PublishEffect DEF SwapContinue, SwapCrash, Goto, Publish

LEMMA StopContinueOps ==
  ASSUME pc \in [Clients -> Phases], NEW c \in Clients, NEW insts, StopContinue(c, insts)
  PROVE  \/ pc'[c] = "halt" /\ UNCHANGED req
         \/ pc'[c] = "replying" /\ UNCHANGED req /\ insts = Empty
         \/ LeavesWith(c) /\ \E n \in DOMAIN insts : ~Resolvable(n)
<1>. QED
  BY GotoEffect, ReplyEffect, LeaveEffect
     DEF StopContinue, NothingLeft, Goto, Reply, Publish, Leave, LeavesWith

(* Where a handler can go next, operation by operation.                    *)
LEMMA HandlerMoves ==
  ASSUME WorkerInv, TrackInv, OpsInv, NEW c \in Clients, HandlerStep(c)
  PROVE  \/ /\ LeavesWith(c)
            /\ \/ req[c].op \in {"list", "reload-catalog"}
               \/ pc[c] \in {"replying", "crashing"} /\ UNCHANGED instances
               \/ /\ req[c].op = "swap" /\ pc[c] = "queued"
                  /\ ~catalog[req[c].model].typed
                  /\ UNCHANGED <<instances, draining>>
               \/ req[c].op = "stop" /\ \E n \in DOMAIN instances : ~Resolvable(n)
         \/ /\ pc'[c] = "replying" /\ UNCHANGED req
            /\ req[c].op = "stop" => instances' = Empty
         \/ /\ pc'[c] \in {"drain", "stop", "start", "crashing"} /\ UNCHANGED req
            /\ UNCHANGED catalog
            /\ req[c].op = "swap"
         \/ pc'[c] = "halt" /\ UNCHANGED req /\ req[c].op = "stop"
<1>1. pc \in [Clients -> Phases] /\ req \in [Clients -> Requests \cup {NoRequest}]
  BY DEF WorkerInv, LifeTypeOK
<1>2. CASE Status(c) \/ SwapReject(c) \/ SwapUnsupported(c) \/ SwapOverBudget(c) \/ SwapNoop(c)
  BY <1>1, <1>2, ReplyEffect
     DEF Status, SwapReject, SwapUnsupported, SwapOverBudget, SwapNoop, Fits, Begin, Reply, Publish
<1>3. CASE List(c) \/ Reload(c)
  BY <1>1, <1>3, ReplyEffect, LeaveEffect
     DEF List, Reload, LoadCatalog, Begin, Reply, Publish, Leave, LeavesWith
<1>4. CASE Replied(c) \/ SwapCrashed(c)
  BY <1>1, <1>4, LeaveEffect DEF Replied, SwapCrashed, Leave, LeavesWith
<1>11. CASE SwapEscapes(c)
  BY <1>1, <1>11, LeaveEffect DEF SwapEscapes, Begin, Leave, LeavesWith, admVars
<1>5. CASE SwapBegin(c)
  BY <1>1, <1>5, GotoEffect DEF SwapBegin, Fits, Begin, Goto
<1>6. CASE DrainIdle(c) \/ DrainTimeout(c) \/ SwapStopped(c)
  <2>1. /\ \E insts : SwapContinue(c, insts)
        /\ pc[c] \in {"drain", "stop"} /\ UNCHANGED catalog
    BY <1>6 DEF DrainIdle, DrainTimeout, SwapStopped
  <2>2. req[c].op = "swap"
    BY <2>1 DEF OpsInv
  <2>. QED
    BY <1>1, <2>1, <2>2, SwapContinueOps
<1>7. CASE SwapStarted(c)
  <2>1. pc'[c] = "replying" /\ UNCHANGED req /\ pc[c] = "start"
    BY <1>1, <1>7, ReplyEffect DEF SwapStarted, Reply, Publish
  <2>. QED
    BY <2>1 DEF OpsInv
<1>8. CASE SwapRaised(c)
  <2>1. pc'[c] = "crashing" /\ UNCHANGED <<req, catalog>> /\ pc[c] = "start"
    BY <1>1, <1>8, PublishEffect DEF SwapRaised, SwapCrash, Publish
  <2>. QED
    BY <2>1 DEF OpsInv
<1>9. CASE StopBegin(c)
  <2>1. StopContinue(c, instances) /\ req[c].op = "stop" /\ UNCHANGED instances
    BY <1>9 DEF StopBegin, Begin
  <2>. QED
    BY <1>1, <2>1, StopContinueOps
<1>10. CASE StopStopped(c)
  <2>. DEFINE rest == Without(instances, job.spec.name)
  <2>1. /\ pc[c] = "halt" /\ job.st = "stopped" /\ instances' = rest
        /\ StopContinue(c, rest)
    BY <1>10 DEF StopStopped
  <2>2. rest = Empty
    BY <2>1, DroppedTrack
  <2>3. req[c].op = "stop"
    BY <2>1 DEF OpsInv
  <2>. HIDE DEF rest
  <2>. QED
    BY <1>1, <2>1, <2>2, <2>3, StopContinueOps, EmptyHasNoName
<1>. QED
  BY <1>2, <1>3, <1>4, <1>5, <1>6, <1>7, <1>8, <1>9, <1>10, <1>11 DEF HandlerStep

(* A start is called for the model the request names, which the loop has   *)
(* resolved before.                                                        *)
LEMMA StartTarget ==
  ASSUME WorkerInv, NEW c \in Clients, HandlerStep(c), pc'[c] = "start"
  PROVE  Resolvable(req[c].model) /\ UNCHANGED <<catalog, req>>
<1>1. pc \in [Clients -> Phases]
  BY DEF WorkerInv, LifeTypeOK
<1>2. CASE DrainIdle(c) \/ DrainTimeout(c) \/ SwapStopped(c)
  <2>1. /\ \E insts : SwapContinue(c, insts)
        /\ pc[c] \in {"drain", "stop"} /\ UNCHANGED catalog
    BY <1>2 DEF DrainIdle, DrainTimeout, SwapStopped
  <2>. QED
    BY <1>1, <2>1, SwapContinueOps DEF WorkerInv, TargetIsLocal
<1>3. CASE Answers(c)
  BY <1>1, <1>3, AnswersEffect
<1>4. CASE SwapBegin(c) \/ SwapStarted(c) \/ SwapRaised(c) \/ SwapCrashed(c)
  BY <1>1, <1>4, GotoEffect, ReplyEffect, PublishEffect, LeaveEffect
     DEF SwapBegin, SwapStarted, SwapRaised, SwapCrash, SwapCrashed
<1>5. CASE StopBegin(c) \/ StopStopped(c)
  <2>1. \E insts : StopContinue(c, insts)
    BY <1>5 DEF StopBegin, StopStopped
  <2>. QED
    BY <1>1, <2>1, StopContinueOps DEF LeavesWith
<1>. QED
  BY <1>2, <1>3, <1>4, <1>5 DEF HandlerStep, Answers

(* Only the lock holder's request changes phase, or goes away.             *)
LEMMA OthersWait ==
  ASSUME WorkerInv, NEW c \in Clients, HandlerStep(c)
  PROVE  \A d \in Clients : d # c => pc'[d] = pc[d] /\ pc[d] \in {"idle", "queued"}
<1>1. pc \in [Clients -> Phases] /\ Holder(c) /\ LockDiscipline
  BY HandlerHolds DEF WorkerInv, LifeTypeOK
<1>2. draining <=> pc[c] \in Swapping
  BY <1>1, HolderFacts DEF WorkerInv
<1>3. job # NoJob <=> pc[c] \in Employing
  BY <1>1, HolderFacts DEF WorkerInv
<1>4. PhaseAndLock(c)
  BY <1>1, <1>2, <1>3, HandlerEffect DEF WorkerInv, AdmInv, AdmTypeOK
<1>. QED
  BY <1>1, <1>4, OnlyTheHolderWorks DEF PhaseAndLock

LEMMA OpsInitInv == Init => OpsInv
<1>. QED
  BY DEF Init, Fresh, OpsInv

LEMMA OpsNextInv == WorkerInv /\ TrackInv /\ OpsInv /\ [Next]_vars => OpsInv'
<1> SUFFICES ASSUME WorkerInv, TrackInv, OpsInv, [Next]_vars PROVE OpsInv'
  OBVIOUS
<1>1. pc \in [Clients -> Phases] /\ req \in [Clients -> Requests \cup {NoRequest}]
  BY DEF WorkerInv, LifeTypeOK
<1>2. ASSUME NEW c \in Clients, Arrive(c) PROVE OpsInv'
  <2>1. /\ pc' = [pc EXCEPT ![c] = "queued"] /\ UNCHANGED <<catalog, instances>>
        /\ \A d \in Clients : d # c => req'[d] = req[d]
    BY <1>1, <1>2 DEF Arrive
  <2>. QED
    BY <1>1, <2>1 DEF OpsInv, Resolvable
<1>3. ASSUME NEW c \in Clients, HandlerStep(c) PROVE OpsInv'
  <2>1. \A d \in Clients : d # c => pc'[d] = pc[d] /\ pc[d] \in {"idle", "queued"}
    BY <1>3, OthersWait
  <2>2. \A d \in Clients : d # c => req'[d] = req[d]
    BY <1>1, <1>3, HandlerMoves DEF LeavesWith
  <2>3. ASSUME NEW d \in Clients, d # c
        PROVE  /\ pc'[d] \in {"idle", "queued"}
               /\ pc'[d] = "idle" => req'[d] = NoRequest
    BY <2>1, <2>2, <2>3 DEF OpsInv
  <2>4. /\ pc'[c] = "idle" => req'[c] = NoRequest
        /\ pc'[c] = "halt" => req'[c].op = "stop"
        /\ pc'[c] \in {"drain", "stop", "start", "crashing"} => req'[c].op = "swap"
        /\ (pc'[c] = "replying" /\ req'[c].op = "stop") => instances' = Empty
    BY <1>1, <1>3, HandlerMoves DEF LeavesWith
  <2>5. pc'[c] = "start" => Resolvable(req[c].model)'
    BY <1>3, StartTarget DEF Resolvable
  <2>. QED
    BY <2>3, <2>4, <2>5 DEF OpsInv, Resolvable
<1>4. CASE (\E g \in Gens : Generate(g)) \/ Execute \/ ProcessStep \/ UNCHANGED vars
  <2>1. UNCHANGED <<pc, req, instances, catalog>>
    BY <1>4 DEF Generate, Execute, ProcessStep, vars, lifeVars
  <2>. QED
    BY <2>1 DEF OpsInv, Resolvable
<1>5. CASE Restart
  BY <1>5 DEF Restart, LoadCatalog, OpsInv
<1>. QED
  BY <1>2, <1>3, <1>4, <1>5 DEF Next

(* The invariant on the operations that hold the lock, on top of WorkerInv. *)
THEOREM OpsInvariance == Spec => []OpsInv
<1>. QED
  BY WorkerInvariance, TrackInvariance, OpsInitInv, OpsNextInv, PTL DEF Spec

-----------------------------------------------------------------------------
(* A request that goes away does so by its handler, or with the process.   *)
LEMMA WhoEnds ==
  ASSUME WorkerInv, TrackInv, OpsInv, [Next]_vars, NEW c \in Clients,
         req[c] # NoRequest, pc'[c] = "idle"
  PROVE  HandlerStep(c) \/ Restart
<1>1. pc \in [Clients -> Phases] /\ pc[c] # "idle"
  BY DEF WorkerInv, LifeTypeOK, OpsInv
<1>2. ASSUME NEW d \in Clients, Arrive(d) PROVE FALSE
  BY <1>1, <1>2 DEF Arrive
<1>3. ASSUME NEW d \in Clients, HandlerStep(d) PROVE HandlerStep(c)
  BY <1>1, <1>3, OthersWait
<1>4. CASE (\E g \in Gens : Generate(g)) \/ Execute \/ ProcessStep \/ UNCHANGED vars
  BY <1>1, <1>4 DEF Generate, Execute, ProcessStep, vars, lifeVars
<1>. QED
  BY <1>2, <1>3, <1>4 DEF Next

(* A swap ends by publishing its reply, unless the process dies or the VRAM *)
(* test raises on an ill-typed model, before the swap has touched anything. *)
THEOREM SwapRepliesHolds == Spec => SwapReplies
<1>. DEFINE Step == \A c \in Clients :
       (req[c].op = "swap" /\ pc[c] \notin {"replying", "crashing"} /\ pc'[c] = "idle")
         => \/ Restart
            \/ /\ pc[c] = "queued" /\ ~catalog[req[c].model].typed
               /\ UNCHANGED <<instances, draining>>
<1>1. WorkerInv /\ TrackInv /\ OpsInv /\ [Next]_vars => Step
  <2> SUFFICES ASSUME WorkerInv, TrackInv, OpsInv, [Next]_vars, NEW c \in Clients,
                      req[c].op = "swap", pc[c] \notin {"replying", "crashing"}, pc'[c] = "idle",
                      HandlerStep(c)
               PROVE  /\ pc[c] = "queued" /\ ~catalog[req[c].model].typed
                      /\ UNCHANGED <<instances, draining>>
    BY WhoEnds DEF NoRequest
  <2>. QED
    BY HandlerMoves
<1>2. WorkerInv /\ TrackInv /\ OpsInv /\ [Next]_vars => [Step]_vars
  BY <1>1
<1>. QED
  BY <1>2, WorkerInvariance, TrackInvariance, OpsInvariance, PTL DEF Spec, SwapReplies

-----------------------------------------------------------------------------
(* "After _do_stop, _instances is empty": a stop that answers leaves        *)
(* nothing registered, whatever is done to the catalog between a start and *)
(* the stop; one that does not answer met a model the catalog of the moment *)
(* no longer has as a local one.                                           *)
THEOREM StopEmptiesHolds == Spec => StopEmpties
<1>. DEFINE Step == \A c \in Clients :
       (req[c].op = "stop" /\ pc'[c] = "idle") =>
         \/ instances' = Empty
         \/ pc[c] # "replying" /\ \E n \in DOMAIN instances : ~Resolvable(n)
<1>1. WorkerInv /\ TrackInv /\ OpsInv /\ [Next]_vars => Step
  <2> SUFFICES ASSUME WorkerInv, TrackInv, OpsInv, [Next]_vars,
                      NEW c \in Clients, req[c].op = "stop", pc'[c] = "idle"
               PROVE  \/ instances' = Empty
                      \/ pc[c] # "replying" /\ \E n \in DOMAIN instances : ~Resolvable(n)
    OBVIOUS
  <2>1. CASE Restart
    BY <2>1 DEF Restart, LoadCatalog
  <2>2. CASE HandlerStep(c)
    <3>1. CASE pc[c] \in {"replying", "crashing"} /\ UNCHANGED instances
      BY <3>1 DEF OpsInv
    <3>2. CASE \E n \in DOMAIN instances : ~Resolvable(n)
      BY <3>2, EmptyHasNoName DEF OpsInv
    <3>. QED
      BY <2>2, <3>1, <3>2, HandlerMoves
  <2>. QED
    BY <2>1, <2>2, WhoEnds DEF NoRequest
<1>2. WorkerInv /\ TrackInv /\ OpsInv /\ [Next]_vars => [Step]_vars
  BY <1>1
<1>. QED
  BY <1>2, WorkerInvariance, TrackInvariance, OpsInvariance, PTL DEF Spec, StopEmpties

-----------------------------------------------------------------------------
(* The worker implements HotSwap: each step, seen through the mapping      *)
(*   served <- Served, phase <- Phase, busy <- InFlight, forced <- cut,    *)
(* is a step of the abstract machine or changes nothing of it.             *)

(* No step of the executor, of an engine, or of an arrival is seen.        *)
LEMMA UnseenStep ==
  ASSUME UNCHANGED <<draining, genVars, instances, cut>>,
         \A c \in Clients : pc'[c] = "drain" <=> pc[c] = "drain"
  PROVE  UNCHANGED HS!vars
<1>1. InFlight' = InFlight
  BY DEF genVars, InFlight, Holders, Pending
<1>2. Served' = Served
  BY DEF Served
<1>3. Phase' = Phase
  BY DEF Phase
<1>. QED
  BY <1>1, <1>2, <1>3 DEF HS!vars

(* A generation enters by an open door, or leaves.                         *)
LEMMA GenerateRefines ==
  ASSUME WorkerInv, NEW g \in Gens, Generate(g)
  PROVE  HS!Admit(g) \/ HS!Done(g) \/ UNCHANGED HS!vars
<1>1. gen \in [Gens -> GenStates] /\ draining \in BOOLEAN
  BY DEF WorkerInv, AdmInv, AdmTypeOK
<1>2. GenStep(g) /\ UNCHANGED <<instances, pc, cut>>
  BY DEF Generate, lifeVars
<1>3. UNCHANGED draining
  BY <1>2 DEF GenStep, Refuse, Refused, Acquire, Await, Resume, Answer, Release
<1>4. Served' = Served /\ Phase' = Phase
  BY <1>2, <1>3 DEF Served, Phase
<1>5. CASE Acquire(g) \/ Await(g)
  <2>1. Phase = "open"
    BY <1>5 DEF Acquire, Await, MayEnter, Phase
  <2>2. InFlight' = InFlight \cup {g}
    BY <1>1, <1>5 DEF Acquire, Await, InFlight, Holders, Pending
  <2>. QED
    BY <1>2, <1>4, <2>1, <2>2 DEF HS!Admit
<1>6. CASE Refuse(g) \/ Refused(g) \/ Answer(g)
  <2>1. InFlight' = InFlight
    BY <1>1, <1>6 DEF Refuse, Refused, Answer, InFlight, Holders, Pending
  <2>. QED
    BY <1>2, <1>4, <2>1 DEF HS!vars
<1>7. CASE Resume(g)
  <2>1. PICK W \in SUBSET Pending :
          gen' = [h \in Gens |-> IF h = g THEN "running"
                                 ELSE IF h \in W THEN "granted" ELSE gen[h]]
    BY <1>7 DEF Resume, WakeOnResume, Woken
  <2>2. gen[g] = "granted"
    BY <1>7 DEF Resume
  <2>3. InFlight' = InFlight
    BY <1>1, <2>1, <2>2 DEF InFlight, Holders, Pending
  <2>. QED
    BY <1>2, <1>4, <2>3 DEF HS!vars
<1>8. CASE Release(g)
  <2>1. PICK W \in SUBSET Pending :
          gen' = [h \in Gens |-> IF h = g THEN "idle"
                                 ELSE IF h \in W THEN "granted" ELSE gen[h]]
    BY <1>8 DEF Release, WakeOnRelease, Woken
  <2>2. InFlight' = InFlight \ {g}
    BY <1>1, <2>1 DEF InFlight, Holders, Pending
  <2>. QED
    BY <1>2, <1>4, <2>2 DEF HS!Done
<1>. QED
  BY <1>2, <1>5, <1>6, <1>7, <1>8 DEF GenStep

(* The exchange goes on, or fails: the loop has more to do, the new engine *)
(* is started, or the reply of the except branch is on its way.            *)
LEMMA LoopPhase ==
  ASSUME WorkerInv, NEW c \in Clients, HandlerStep(c), draining = TRUE,
         NEW insts, SwapContinue(c, insts)
  PROVE  draining' = TRUE /\ Phase' = "replacing"
<1>1. pc \in [Clients -> Phases]
  BY DEF WorkerInv, LifeTypeOK
<1>2. draining' = TRUE
  BY DEF SwapContinue, SwapCrash
<1>3. \A d \in Clients : pc'[d] # "drain"
  BY <1>1, SwapContinueOps, OthersWait
<1>. QED
  BY <1>2, <1>3 DEF Phase

LEMMA HandlerRefines ==
  ASSUME WorkerInv, TrackInv, TrackInv', OpsInv, NEW c \in Clients, HandlerStep(c)
  PROVE  HS!Next \/ UNCHANGED HS!vars
<1>1. /\ pc \in [Clients -> Phases] /\ draining \in BOOLEAN
      /\ \A n \in DOMAIN instances : n \in Names
      /\ req[c].model \in Names
  BY RequestModel, TypesSplit DEF WorkerInv, LifeTypeOK, AdmInv, AdmTypeOK
<1>2. /\ \A d \in Clients : d # c => pc'[d] = pc[d] /\ pc[d] \in {"idle", "queued"}
  BY OthersWait
<1>3. draining <=> pc[c] \in Swapping
  BY <1>1, HandlerHolds, HolderFacts DEF WorkerInv
<1>4. UNCHANGED genVars /\ InFlight' = InFlight
  <2>1. job # NoJob <=> pc[c] \in Employing
    BY <1>1, HandlerHolds, HolderFacts DEF WorkerInv
  <2>2. UNCHANGED genVars
    BY <1>1, <1>3, <2>1, HandlerEffect
  <2>. QED
    BY <2>2 DEF genVars, InFlight, Holders, Pending
<1>5. CASE Answers(c)
  <2>1. /\ UNCHANGED <<draining, genVars, instances, cut>>
        /\ pc[c] # "drain" /\ pc'[c] # "drain"
    BY <1>1, <1>5, AnswersEffect
  <2>. QED
    BY <1>2, <2>1, UnseenStep
<1>6. CASE SwapBegin(c)
  <2>1. /\ pc'[c] = "drain" /\ pc[c] = "queued" /\ draining' = TRUE
        /\ UNCHANGED <<instances, cut>>
    BY <1>1, <1>6, GotoEffect DEF SwapBegin, Fits, Begin
  <2>2. Phase = "open" /\ Phase' = "draining"
    BY <1>3, <2>1 DEF Phase, Swapping
  <2>3. Served' = Served
    BY <2>1 DEF Served
  <2>. QED
    BY <1>4, <2>1, <2>2, <2>3 DEF HS!CloseDoor, HS!Next
<1>7. CASE DrainIdle(c) \/ DrainTimeout(c)
  <2>1. /\ pc[c] = "drain" /\ SwapContinue(c, instances)
        /\ UNCHANGED instances /\ cut' \in BOOLEAN
        /\ ~cut' => SemIdle
    BY <1>7 DEF DrainIdle, DrainTimeout
  <2>2. draining = TRUE
    BY <1>1, <1>3, <2>1 DEF Swapping
  <2>3. Phase = "draining" /\ Phase' = "replacing"
    BY <2>1, <2>2, LoopPhase DEF Phase
  <2>4. ~cut' => InFlight = {}
    BY <2>1, FullCounterIsIdle DEF WorkerInv, SemIdle, IdleMeansNobody
  <2>5. Served' = Served
    BY <2>1 DEF Served
  <2>. QED
    BY <1>4, <2>1, <2>3, <2>4, <2>5 DEF HS!BeginExchange, HS!NobodyLeft, HS!Next
<1>8. CASE SwapStopped(c)
  <2>1. /\ pc[c] = "stop" /\ SwapContinue(c, Without(instances, job.spec.name))
        /\ instances' = Empty /\ UNCHANGED cut
    BY <1>8, DroppedTrack DEF SwapStopped
  <2>2. draining = TRUE
    BY <1>1, <1>3, <2>1 DEF Swapping
  <2>3. Phase' = "replacing" /\ Phase = "replacing"
    BY <1>2, <2>1, <2>2, LoopPhase DEF Phase
  <2>4. Served' = NoModel
    BY <2>1 DEF Served
  <2>. QED
    BY <1>4, <2>1, <2>3, <2>4 DEF HS!DropOld, HS!Next
<1>9. CASE SwapStarted(c)
  <2>1. /\ pc[c] = "start" /\ draining' = FALSE /\ UNCHANGED cut
        /\ DOMAIN instances' = DOMAIN instances \cup {req[c].model}
    BY <1>9 DEF SwapStarted, Registered
  <2>2. instances = Empty
    BY <2>1 DEF TrackInv, StartsEmpty
  <2>3. Served = NoModel /\ Served' = req[c].model
    <3>1. instances' # Empty /\ \A n \in DOMAIN instances' : n = req[c].model
      BY <2>1, <2>2, EmptyHasNoName
    <3>. QED
      BY <2>1, <2>2, <3>1 DEF Served
  <2>4. Phase = "replacing" /\ Phase' = "open"
    BY <1>1, <1>2, <1>3, <2>1 DEF Phase, Swapping
  <2>. QED
    BY <1>1, <1>4, <2>1, <2>3, <2>4 DEF HS!ServeNew, HS!Next
<1>10. CASE SwapRaised(c)
  <2>1. /\ UNCHANGED <<draining, instances, cut>> /\ pc[c] = "start" /\ pc'[c] = "crashing"
    BY <1>1, <1>10, PublishEffect DEF SwapRaised, SwapCrash
  <2>. QED
    BY <1>2, <1>4, <2>1, UnseenStep
<1>11. CASE SwapCrashed(c)
  <2>1. /\ pc[c] = "crashing" /\ draining' = FALSE /\ UNCHANGED <<instances, cut>>
    BY <1>11 DEF SwapCrashed, Cleared
  <2>2. Phase = "replacing" /\ Phase' = "open"
    BY <1>1, <1>2, <1>3, <2>1 DEF Phase, Swapping
  <2>3. Served' = Served
    BY <2>1 DEF Served
  <2>. QED
    BY <1>4, <2>1, <2>2, <2>3 DEF HS!GiveUp, HS!Next
<1>12. CASE StopBegin(c)
  <2>1. /\ StopContinue(c, instances) /\ pc[c] = "queued"
        /\ UNCHANGED <<draining, instances, cut>>
    BY <1>12 DEF StopBegin, Begin, admVars
  <2>2. pc'[c] # "drain"
    BY <1>1, <2>1, StopContinueOps DEF LeavesWith
  <2>. QED
    BY <1>2, <1>4, <2>1, <2>2, UnseenStep
<1>13. CASE StopStopped(c)
  <2>1. /\ pc[c] = "halt" /\ instances' = Empty /\ UNCHANGED <<draining, cut>>
    BY <1>13, DroppedTrack DEF StopStopped, admVars
  <2>2. Phase = "open" /\ Phase' = "open"
    BY <1>3, <2>1 DEF Phase, Swapping
  <2>3. Served' = NoModel
    BY <2>1 DEF Served
  <2>. QED
    BY <1>4, <2>1, <2>2, <2>3 DEF HS!Unload, HS!Next
<1>. QED
  BY <1>5, <1>6, <1>7, <1>8, <1>9, <1>10, <1>11, <1>12, <1>13 DEF HandlerStep, Answers

LEMMA InitRefines == Init => HS!Init
<1> SUFFICES ASSUME Init PROVE HS!Init
  OBVIOUS
<1>1. InFlight = {}
  BY DEF Init, AdmInit, GenInit, InFlight, Holders, Pending
<1>2. Served = NoModel /\ Phase = "open" /\ cut = FALSE
  BY DEF Init, Fresh, AdmInit, Served, Phase
<1>. QED
  BY <1>1, <1>2 DEF HS!Init

LEMMA StepRefines ==
  WorkerInv /\ TrackInv /\ TrackInv' /\ OpsInv /\ [Next]_vars => [HS!Next]_HS!vars
<1> SUFFICES ASSUME WorkerInv, TrackInv, TrackInv', OpsInv, [Next]_vars
             PROVE  HS!Next \/ UNCHANGED HS!vars
  OBVIOUS
<1>1. ASSUME NEW c \in Clients, Arrive(c) PROVE UNCHANGED HS!vars
  <2>1. /\ UNCHANGED <<draining, genVars, instances, cut>>
        /\ pc[c] = "idle" /\ pc' = [pc EXCEPT ![c] = "queued"]
    BY <1>1 DEF Arrive, admVars
  <2>2. pc \in [Clients -> Phases]
    BY DEF WorkerInv, LifeTypeOK
  <2>. QED
    BY <2>1, <2>2, UnseenStep
<1>2. ASSUME NEW c \in Clients, HandlerStep(c) PROVE HS!Next \/ UNCHANGED HS!vars
  BY <1>2, HandlerRefines
<1>3. ASSUME NEW g \in Gens, Generate(g) PROVE HS!Next \/ UNCHANGED HS!vars
  BY <1>3, GenerateRefines DEF HS!Next
<1>4. CASE Execute \/ ProcessStep \/ UNCHANGED vars
  <2>1. UNCHANGED <<draining, genVars, instances, cut, pc>>
    BY <1>4 DEF Execute, ProcessStep, vars, admVars, lifeVars
  <2>. QED
    BY <2>1, UnseenStep
<1>5. CASE Restart
  <2>1. /\ instances' = Empty /\ draining' = FALSE /\ cut' = FALSE
        /\ gen' = [g \in Gens |-> "idle"]
    BY <1>5 DEF Restart, LoadCatalog, AdmRestart, GenRestart
  <2>2. InFlight' = {} /\ Served' = NoModel /\ Phase' = "open"
    BY <2>1 DEF InFlight, Holders, Pending, Served, Phase
  <2>. QED
    BY <2>1, <2>2 DEF HS!Restart, HS!Next
<1>. QED
  BY <1>1, <1>2, <1>3, <1>4, <1>5 DEF Next

(* One model is served at a time, and it is exchanged behind a closed      *)
(* door: for every number of callers, clients, pids, models and catalogs.  *)
THEOREM WorkerImplementsHotSwap == Spec => ImplementsHotSwap
<1>. QED
  BY InitRefines, StepRefines, WorkerInvariance, TrackInvariance, OpsInvariance, PTL
     DEF Spec, ImplementsHotSwap, HS!Spec

=============================================================================
