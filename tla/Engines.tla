------------------------------- MODULE Engines -------------------------------
(***************************************************************************)
(* Engine processes and the worker's single-thread executor, which runs    *)
(* Engine.start and Engine.stop (llama-server and vLLM adapters).          *)
(*                                                                         *)
(* proc is the table of engine processes as the kernel sees it; job is     *)
(* what the executor thread is doing.  The lifecycle side submits a job    *)
(* and collects its result (module Worker); here the environment does.     *)
(***************************************************************************)
EXTENDS Naturals, FiniteSets, FiniteSetsExt

CONSTANTS Procs,   \* pids; a start that finds none left fails like a fork error
          Specs,   \* ModelSpec records of every catalog in play
          OutsideSpecs  \* what the operator may have started before the boot

ASSUME OutsideAssumption == OutsideSpecs \subseteq Specs
ASSUME ProcsAssumption == IsFiniteSet(Procs)
(* vram is vram_gib, kv the KV-cache overhead its flags cost; typed says    *)
(* that its values have the types the VRAM test computes with (ModelSpec    *)
(* takes whatever the TOML file holds).                                     *)
ASSUME SpecsAssumption ==
  \A s \in Specs : /\ {"name", "engine", "port", "vram", "kv", "typed"} \subseteq DOMAIN s
                   /\ s.engine \in {"llamacpp", "vllm", "remote"}
                   /\ s.vram \in Nat /\ s.kv \in Nat
                   /\ s.typed \in BOOLEAN

VARIABLES proc,   \* pid -> process
          job     \* the executor's current call, or its uncollected result

engVars == <<proc, job>>

LocalSpecs == {s \in Specs : s.engine # "remote"}

(* owner: "worker" while a handle to it exists or is being made, "lost" when *)
(* start() raised and left it running, "outside" when it is not our child.   *)
(* term: a SIGTERM is pending or being handled.                              *)
Free == [st |-> "free"]
Process == [st : {"loading", "ready", "zombie"}, spec : LocalSpecs,
            owner : {"worker", "lost", "outside"}, term : BOOLEAN]

NoJob == [st |-> "none"]
Job == {NoJob}
  \cup [st : {"spawn", "raised"}, spec : LocalSpecs]
  \cup [st : {"poll", "started", "kill", "wait", "stopped"}, spec : LocalSpecs, pid : Procs]

Live(p) == proc[p].st \in {"loading", "ready"}
LiveProcs == {p \in Procs : Live(p)}
OurProcs == {p \in Procs : proc[p] # Free /\ proc[p].owner # "outside"}

(* default_health: whoever listens on the port answers.                    *)
Healthy(port) == \E p \in Procs : proc[p].st = "ready" /\ proc[p].spec.port = port

VramOf(S) == MapThenSumSet(LAMBDA p : proc[p].spec.vram + proc[p].spec.kv, S)

(* The table after an exit or a reap of p.                                 *)
Gone(p) == [proc EXCEPT ![p] = IF proc[p].owner = "outside" THEN Free
                               ELSE [proc[p] EXCEPT !.st = "zombie"]]
Reaped(p) == [proc EXCEPT ![p] = Free]

(* subprocess._cleanup(), run by every Popen(): an exited child whose Popen *)
(* object was dropped is reaped there.  start() holds its own object until  *)
(* it returns or raises.                                                    *)
HeldByStart(p) == job.st = "poll" /\ job.pid = p
CleanedUp == [p \in Procs |-> IF proc[p].st = "zombie" /\ ~HeldByStart(p)
                              THEN Free ELSE proc[p]]

-----------------------------------------------------------------------------
(* Engine.start in the executor.                                           *)

(* _build_cmd and Popen.  SpawnFails: no model file, no binary, no fork.   *)
Spawn(p) ==
  /\ job.st = "spawn"
  /\ CleanedUp[p] = Free
  /\ proc' = [CleanedUp EXCEPT ![p] = [st |-> "loading", spec |-> job.spec,
                                       owner |-> "worker", term |-> FALSE]]
  /\ job' = [st |-> "poll", spec |-> job.spec, pid |-> p]

SpawnFails ==
  /\ job.st = "spawn"
  /\ job' = [st |-> "raised", spec |-> job.spec]
  /\ UNCHANGED proc

(* _wait_ready: proc.poll() first, the health probe second, the deadline   *)
(* between two rounds.                                                     *)
PollExited ==
  /\ job.st = "poll"
  /\ proc[job.pid].st = "zombie"
  /\ proc' = Reaped(job.pid)
  /\ job' = [st |-> "raised", spec |-> job.spec]

PollReady ==
  /\ job.st = "poll"
  /\ Live(job.pid)
  /\ Healthy(job.spec.port)
  /\ job' = [job EXCEPT !.st = "started"]
  /\ UNCHANGED proc

(* The deadline passes: RuntimeError, and the process is left as it is.    *)
PollTimeout ==
  /\ job.st = "poll"
  /\ proc' = [proc EXCEPT ![job.pid].owner = "lost"]
  /\ job' = [st |-> "raised", spec |-> job.spec]

-----------------------------------------------------------------------------
(* Engine.stop in the executor; job.spec is the spec the caller looked up, *)
(* which selects the adapter, whoever started the process.                 *)

(* os.killpg(os.getpgid(pid)): vLLM processes lead a session of their own, *)
(* llama-server processes share the worker's group (whose shutdown, when   *)
(* it gets the signal too, is a restart).                                  *)
OwnSession(p) == proc[p].spec.engine = "vllm"
Group(p) == IF OwnSession(p) THEN {p} ELSE {q \in OurProcs : ~OwnSession(q)}

(* vLLM is stopped by group, llama-server by pid.                          *)
ByGroup(s) == s.engine = "vllm"

Signalled(p) == IF ByGroup(job.spec) THEN Group(p) ELSE {p}

(* ProcessLookupError: the pid was reaped already, stop() returns.         *)
KillMissing ==
  /\ job.st = "kill"
  /\ proc[job.pid] = Free
  /\ job' = [job EXCEPT !.st = "stopped"]
  /\ UNCHANGED proc

(* The state after a successful kill; the mutated form skips waitpid.      *)
AfterKillNoWait == "stopped"
AfterKill == "wait"

Kill ==
  /\ job.st = "kill"
  /\ proc[job.pid] # Free
  /\ proc' = [p \in Procs |-> IF p \in Signalled(job.pid)
                              THEN [proc[p] EXCEPT !.term = TRUE] ELSE proc[p]]
  /\ job' = [job EXCEPT !.st = AfterKill]

(* os.waitpid(pid, 0) returns.                                             *)
WaitReaps ==
  /\ job.st = "wait"
  /\ proc[job.pid].st = "zombie"
  /\ proc' = Reaped(job.pid)
  /\ job' = [job EXCEPT !.st = "stopped"]

(* ChildProcessError: somebody else reaped it, so the SIGKILL that follows *)
(* finds no process.                                                       *)
WaitNoChild ==
  /\ job.st = "wait"
  /\ proc[job.pid] = Free
  /\ job' = [job EXCEPT !.st = "stopped"]
  /\ UNCHANGED proc

ExecutorStep ==
  \/ \E p \in Procs : Spawn(p)
  \/ SpawnFails
  \/ PollExited
  \/ PollReady
  \/ PollTimeout
  \/ KillMissing
  \/ Kill
  \/ WaitReaps
  \/ WaitNoChild

-----------------------------------------------------------------------------
(* The processes themselves (external programs).                           *)

(* The port is free, the model is loaded: the server answers 200.          *)
ProcReady(p) ==
  /\ proc[p].st = "loading"
  /\ ~Healthy(proc[p].spec.port)
  /\ proc' = [proc EXCEPT ![p].st = "ready"]
  /\ UNCHANGED job

(* A crash, an out-of-memory kill, a port already bound.                   *)
ProcExit(p) == Live(p) /\ proc' = Gone(p) /\ UNCHANGED job

(* SIGTERM is honoured.                                                    *)
ProcTerm(p) == Live(p) /\ proc[p].term /\ proc' = Gone(p) /\ UNCHANGED job

ProcStep == \E p \in Procs : ProcReady(p) \/ ProcExit(p) \/ ProcTerm(p)

(* At boot an engine started by the operator may already run.              *)
OutsideEngine(s) == [st |-> "ready", spec |-> s, owner |-> "outside", term |-> FALSE]
EngInit ==
  /\ proc \in {[p \in Procs |-> Free]}
       \cup {[[p \in Procs |-> Free] EXCEPT ![q] = OutsideEngine(s)] : q \in Procs, s \in OutsideSpecs \cap LocalSpecs}
  /\ job = NoJob

(* The container of the worker dies with every child in it.                *)
EngRestart ==
  /\ proc' = [p \in Procs |-> IF p \in OurProcs THEN Free ELSE proc[p]]
  /\ job' = NoJob

-----------------------------------------------------------------------------
(* The environment of the executor: its callers, and other Popen() calls.  *)

(* No call is running: the caller collects the result of the last one, if  *)
(* any, before it submits the next.                                        *)
ExecutorFree == job.st \in {"none", "started", "raised", "stopped"}

SubmitStart(s) ==
  /\ ExecutorFree
  /\ job' = [st |-> "spawn", spec |-> s]
  /\ UNCHANGED proc

SubmitStop(p, s) ==
  /\ ExecutorFree
  /\ proc[p] # Free => proc[p].owner = "worker"
  /\ job' = [st |-> "kill", spec |-> s, pid |-> p]
  /\ UNCHANGED proc

Collect ==
  /\ ExecutorFree
  /\ job' = NoJob
  /\ UNCHANGED proc

OtherPopen == proc' = CleanedUp /\ UNCHANGED job

EngNext ==
  \/ ExecutorStep
  \/ ProcStep
  \/ \E s \in LocalSpecs : SubmitStart(s)
  \/ \E p \in Procs, s \in LocalSpecs : SubmitStop(p, s)
  \/ Collect
  \/ OtherPopen
  \/ EngRestart

(* The thread runs; a process that got SIGTERM exits in the end.           *)
ExecutorFairness == WF_engVars(ExecutorStep)
TermFairness == \A p \in Procs : WF_engVars(ProcTerm(p))

EngSpec == EngInit /\ [][EngNext]_engVars
EngFairSpec == EngSpec /\ ExecutorFairness /\ TermFairness

(* The same without the assumption that a process honours SIGTERM.         *)
DeafSpec == EngSpec /\ ExecutorFairness

-----------------------------------------------------------------------------
(* Properties.                                                             *)

(* Types of the process table and of the executor's call.                  *)
EngTypeOK ==
  /\ proc \in [Procs -> {Free} \cup Process]
  /\ job \in Job

(* While start() polls, the pid it polls is the child it spawned: neither  *)
(* another Popen() nor an exit takes it out of the table.                  *)
StartHoldsChild ==
  job.st = "poll" => (proc[job.pid] # Free /\ proc[job.pid].owner = "worker")

(* When stop() has returned, the process is gone and reaped: its memory    *)
(* and its port are free before the caller goes on.                        *)
StoppedIsReaped == job.st = "stopped" => proc[job.pid] = Free

(* stop() returns.                                                         *)
StopEnds == job.st = "kill" ~> job.st \in {"stopped", "none"}

=============================================================================
