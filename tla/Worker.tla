------------------------------- MODULE Worker --------------------------------
(***************************************************************************)
(* The NATS worker: LlmNatsAdapter with LifecycleMixin.  Lifecycle         *)
(* requests (swap, stop, status, list, reload-catalog) run one at a time   *)
(* under _lifecycle_lock; generations are admitted by module Admission;    *)
(* Engine.start and Engine.stop run in the executor of module Engines.     *)
(*                                                                         *)
(* A member of Clients sends one lifecycle request at a time.  One action  *)
(* is one segment of a handler between two awaits; the handler of the      *)
(* request at the head of lock is the only one that runs.                  *)
(***************************************************************************)
EXTENDS Admission, Engines

CONSTANTS Clients,      \* senders of lifecycle requests
          Names,        \* model names a request may carry
          Catalogs,     \* what load_catalog() may return
          ModelName,    \* --model, the name the worker was started with
          NoModel,      \* the abstract name of "nothing is served"
          VramBudget,   \* host.vram_budget_gib
          HostVram      \* memory of the GPU

ASSUME CatalogsAssumption ==
  \A cat \in Catalogs : /\ cat \in [DOMAIN cat -> Specs]
                        /\ DOMAIN cat \subseteq Names
                        /\ \A n \in DOMAIN cat : cat[n].name = n
ASSUME ModelNameAssumption == ModelName \in Names
ASSUME NoNameAssumption == NoModel \notin Names
ASSUME VramAssumption == VramBudget \in Nat /\ HostVram \in Nat

VARIABLES catalog,      \* _catalog.models
          instances,    \* _instances: name -> pid of its EngineInstance
          loadedModel,  \* _loaded_model
          lock,         \* _lifecycle_lock: the holder, then its waiters in order
          pc,           \* where each client's request is
          req,          \* the request
          reply,        \* what the lock holder is publishing
          cut           \* the last drain ended by its timeout

lifeVars == <<catalog, instances, loadedModel, lock, pc, req, reply, cut>>
vars == <<admVars, engVars, lifeVars>>

Ops == {"swap", "stop", "status", "list", "reload-catalog"}
Phases == {"idle", "queued", "drain", "stop", "start", "crashing", "halt", "replying"}
Codes == {"none", "ok", "rejected", "unsupported", "crash"}

(* A LifecycleResponse: its code, and the models it says are running.      *)
NoReply == [code |-> "none", running |-> {}]

(* LifecycleRequest: only a swap carries a model name that is read.        *)
Requests == [op : {"swap"}, model : Names] \cup [op : Ops \ {"swap"}, model : {ModelName}]
NoRequest == [op |-> "none", model |-> ModelName]

Empty == [n \in {} |-> n]
Without(f, n) == [m \in DOMAIN f \ {n} |-> f[m]]
Instances == {p \in Procs : \E n \in DOMAIN instances : instances[n] = p}

(* The mutated form lets every request run its handler at once.            *)
HolderAny(c) == \E i \in DOMAIN lock : lock[i] = c
Holder(c) == lock # <<>> /\ c = Head(lock)

(* The catalog entry an operation dispatches on: catalog.models[name]      *)
(* raises KeyError, _engine_for_spec raises ValueError for a remote model. *)
Resolvable(n) == n \in DOMAIN catalog /\ catalog[n].engine # "remote"

-----------------------------------------------------------------------------
(* Arrival and departure.                                                  *)

Arrive(c) ==
  /\ pc[c] = "idle"
  /\ \E r \in Requests : req' = [req EXCEPT ![c] = r]
  /\ pc' = [pc EXCEPT ![c] = "queued"]
  /\ lock' = Append(lock, c)
  /\ UNCHANGED <<admVars, engVars, catalog, instances, loadedModel, reply, cut>>

(* The handler returns, or an exception escapes it: the lock passes on.    *)
Leave(c) ==
  /\ lock' = Tail(lock)
  /\ pc' = [pc EXCEPT ![c] = "idle"]
  /\ req' = [req EXCEPT ![c] = NoRequest]
  /\ reply' = NoReply
  /\ UNCHANGED loadedModel

(* await _reply_ok / _reply_err: the lock is still held.  In every handler  *)
(* but the except branch of a swap it is the last thing to do.              *)
Publish(c, phase, code, running) ==
  /\ pc' = [pc EXCEPT ![c] = phase]
  /\ reply' = [code |-> code, running |-> running]
  /\ UNCHANGED <<loadedModel, lock, req>>

Reply(c, code, running) == Publish(c, "replying", code, running)

Replied(c) ==
  /\ Holder(c) /\ pc[c] = "replying"
  /\ Leave(c)
  /\ UNCHANGED <<admVars, engVars, catalog, instances, cut>>

Goto(c, phase) ==
  /\ pc' = [pc EXCEPT ![c] = phase]
  /\ UNCHANGED <<loadedModel, lock, req, reply>>

Begin(c, op) == Holder(c) /\ pc[c] = "queued" /\ req[c].op = op

-----------------------------------------------------------------------------
(* status, list, reload-catalog: one segment each.                         *)

(* _do_status: the first instance of the dict, or none.                    *)
Status(c) ==
  /\ Begin(c, "status")
  /\ \/ instances = Empty /\ Reply(c, "ok", {})
     \/ \E n \in DOMAIN instances : Reply(c, "ok", {n})
  /\ UNCHANGED <<admVars, engVars, catalog, instances, cut>>

(* _do_list: the catalog's models, each with name in instances.  The xAI    *)
(* models are fetched too, and an answer that is JSON but not an object     *)
(* raises outside the try block of fetch_xai_models.                        *)
List(c) ==
  /\ Begin(c, "list")
  /\ Reply(c, "ok", DOMAIN catalog \cap DOMAIN instances) \/ Leave(c)
  /\ UNCHANGED <<admVars, engVars, catalog, instances, cut>>

(* load_catalog() reads what the operator left on disk.                    *)
LoadCatalog == catalog' \in Catalogs

(* _do_reload_catalog: the new catalog, an error reply for a file that     *)
(* does not parse or validate, or an exception that is not caught (an      *)
(* unknown key of a model makes ModelSpec(...) raise TypeError).           *)
Reload(c) ==
  /\ Begin(c, "reload-catalog")
  /\ \/ LoadCatalog /\ Reply(c, "ok", {})
     \/ UNCHANGED catalog /\ Reply(c, "rejected", {})
     \/ UNCHANGED catalog /\ Leave(c)
  /\ UNCHANGED <<admVars, engVars, instances, cut>>

-----------------------------------------------------------------------------
(* swap: the checks, up to _draining.set().                                *)

(* probe_free_vram_gib(): 0 when no tool answers; a loading process may    *)
(* not have taken its memory yet.                                          *)
FreeVram ==
  {0} \cup {v \in 0 .. HostVram :
              /\ v + VramOf({p \in Procs : proc[p].st = "ready"}) <= HostVram
              /\ v + VramOf(LiveProcs) >= HostVram}

(* vram_gib against the host's budget, vram_gib and the KV-cache overhead   *)
(* against what is free.                                                    *)
OverBudget(s, free) == s.vram > VramBudget \/ (free # 0 /\ free < s.vram + s.kv)

(* The probe may run nvidia-smi through subprocess.                        *)
Probe == proc' \in {proc, CleanedUp} /\ UNCHANGED job

SwapReject(c) ==
  /\ Begin(c, "swap")
  /\ ~Resolvable(req[c].model)
  /\ Reply(c, "rejected", {})
  /\ UNCHANGED <<admVars, engVars, catalog, instances, cut>>

Swappable(n) == Resolvable(n) /\ catalog[n].engine # "vllm"

SwapUnsupported(c) ==
  /\ Begin(c, "swap")
  /\ Resolvable(req[c].model)
  /\ ~Swappable(req[c].model)
  /\ Reply(c, "unsupported", {})
  /\ UNCHANGED <<admVars, engVars, catalog, instances, cut>>

SwapOverBudget(c) ==
  /\ Begin(c, "swap")
  /\ Swappable(req[c].model)
  /\ \E free \in FreeVram : OverBudget(catalog[req[c].model], free)
  /\ Reply(c, "rejected", {})
  /\ Probe
  /\ UNCHANGED <<admVars, catalog, instances, cut>>

(* Any exception but ValueError escapes the test, the lock and the reply: a *)
(* string where a number is due, a flag that is not a string.               *)
SwapEscapes(c) ==
  /\ Begin(c, "swap")
  /\ Swappable(req[c].model)
  /\ ~catalog[req[c].model].typed
  /\ Leave(c)
  /\ Probe
  /\ UNCHANGED <<admVars, catalog, instances, cut>>

Fits(c) ==
  /\ Begin(c, "swap")
  /\ Swappable(req[c].model)
  /\ \E free \in FreeVram : ~OverBudget(catalog[req[c].model], free)

SwapNoop(c) ==
  /\ Fits(c)
  /\ req[c].model \in DOMAIN instances
  /\ Reply(c, "ok", {req[c].model})
  /\ Probe
  /\ UNCHANGED <<admVars, catalog, instances, cut>>

SwapBegin(c) ==
  /\ Fits(c)
  /\ req[c].model \notin DOMAIN instances
  /\ draining' = TRUE
  /\ Goto(c, "drain")
  /\ Probe
  /\ UNCHANGED <<genVars, catalog, instances, cut>>

-----------------------------------------------------------------------------
(* swap: drain, stop what runs, start the new engine.                      *)

(* The except branch publishes worker.crash while the flag is still set;    *)
(* the mutated form returns without a reply.                                *)
SwapCrashSilent(c) ==
  /\ draining' = FALSE
  /\ job' = NoJob
  /\ Leave(c)

SwapCrash(c) ==
  /\ job' = NoJob
  /\ Publish(c, "crashing", "crash", {})
  /\ UNCHANGED draining

(* _draining.clear() in finally, once the reply is out; mutated: forgotten. *)
ClearedNot == draining
Cleared == FALSE

SwapCrashed(c) ==
  /\ Holder(c) /\ pc[c] = "crashing"
  /\ draining' = Cleared
  /\ Leave(c)
  /\ UNCHANGED <<genVars, engVars, catalog, instances, cut>>

(* The loop over list(instances.items()) is over; mutated: is skipped.     *)
NothingLeftAlways(insts) == TRUE
NothingLeft(insts) == insts = Empty

(* The body of the try block from the loop over instances to the next      *)
(* await, when insts is what is left of _instances.                        *)
SwapContinue(c, insts) ==
  \/ \E n \in DOMAIN insts :
       /\ Resolvable(n)
       /\ job' = [st |-> "kill", spec |-> catalog[n], pid |-> insts[n]]
       /\ Goto(c, "stop")
       /\ UNCHANGED draining
  \/ \E n \in DOMAIN insts : ~Resolvable(n) /\ SwapCrash(c)
  \/ /\ NothingLeft(insts)
     /\ job' = [st |-> "spawn", spec |-> catalog[req[c].model]]
     /\ Goto(c, "start")
     /\ UNCHANGED draining

(* _wait_sem_idle(), and a mutated form that stops one slot early.         *)
SemIdleAlmost == permits + 1 >= MaxConcurrent
SemIdle == permits = MaxConcurrent

DrainIdle(c) ==
  /\ Holder(c) /\ pc[c] = "drain"
  /\ SemIdle
  /\ cut' = FALSE
  /\ SwapContinue(c, instances)
  /\ UNCHANGED <<genVars, proc, catalog, instances>>

(* asyncio.TimeoutError from wait_for, thrown into the sleep(0) of the wait *)
(* whatever the counter says by then; mutated: there is no timeout.         *)
DrainTimeoutNever(c) == FALSE /\ UNCHANGED vars
DrainTimeout(c) ==
  /\ Holder(c) /\ pc[c] = "drain"
  /\ cut' = TRUE
  /\ SwapContinue(c, instances)
  /\ UNCHANGED <<genVars, proc, catalog, instances>>

SwapStopped(c) ==
  /\ Holder(c) /\ pc[c] = "stop"
  /\ job.st = "stopped"
  /\ instances' = Without(instances, job.spec.name)
  /\ SwapContinue(c, Without(instances, job.spec.name))
  /\ UNCHANGED <<genVars, proc, catalog, cut>>

(* instances[model_name] = new_inst; mutated: it is forgotten.             *)
RegisteredNot(c) == instances
Registered(c) == [n \in DOMAIN instances \cup {req[c].model} |->
                    IF n = req[c].model THEN job.pid ELSE instances[n]]

SwapStarted(c) ==
  /\ Holder(c) /\ pc[c] = "start"
  /\ job.st = "started"
  /\ instances' = Registered(c)
  /\ job' = NoJob
  /\ draining' = FALSE
  /\ Reply(c, "ok", {req[c].model})
  /\ UNCHANGED <<genVars, proc, catalog, cut>>

SwapRaised(c) ==
  /\ Holder(c) /\ pc[c] = "start"
  /\ job.st = "raised"
  /\ SwapCrash(c)
  /\ UNCHANGED <<genVars, proc, catalog, instances, cut>>

-----------------------------------------------------------------------------
(* stop: the same loop, with no drain and no except branch.                *)

StopContinue(c, insts) ==
  \/ \E n \in DOMAIN insts :
       /\ Resolvable(n)
       /\ job' = [st |-> "kill", spec |-> catalog[n], pid |-> insts[n]]
       /\ Goto(c, "halt")
  \/ \E n \in DOMAIN insts : ~Resolvable(n) /\ job' = NoJob /\ Leave(c)
  \/ NothingLeft(insts) /\ job' = NoJob /\ Reply(c, "ok", {})

StopBegin(c) ==
  /\ Begin(c, "stop")
  /\ StopContinue(c, instances)
  /\ UNCHANGED <<admVars, proc, catalog, instances, cut>>

StopStopped(c) ==
  /\ Holder(c) /\ pc[c] = "halt"
  /\ job.st = "stopped"
  /\ instances' = Without(instances, job.spec.name)
  /\ StopContinue(c, Without(instances, job.spec.name))
  /\ UNCHANGED <<admVars, proc, catalog, cut>>

-----------------------------------------------------------------------------
HandlerStep(c) ==
  \/ Status(c) \/ List(c) \/ Reload(c)
  \/ SwapReject(c) \/ SwapUnsupported(c) \/ SwapOverBudget(c) \/ SwapEscapes(c) \/ SwapNoop(c)
  \/ SwapBegin(c) \/ DrainIdle(c) \/ DrainTimeout(c)
  \/ SwapStopped(c) \/ SwapStarted(c) \/ SwapRaised(c) \/ SwapCrashed(c)
  \/ StopBegin(c) \/ StopStopped(c)
  \/ Replied(c)

Generate(g) == GenStep(g) /\ UNCHANGED <<engVars, lifeVars>>
Execute == ExecutorStep /\ UNCHANGED <<admVars, lifeVars>>
ProcessStep == ProcStep /\ UNCHANGED <<admVars, lifeVars>>

(* run() loads the catalog and records the configured name as loaded.      *)
Fresh ==
  /\ catalog \in Catalogs
  /\ instances = Empty
  /\ loadedModel = ModelName
  /\ lock = <<>>
  /\ pc = [c \in Clients |-> "idle"]
  /\ req = [c \in Clients |-> NoRequest]
  /\ reply = NoReply
  /\ cut = FALSE

Init == AdmInit /\ EngInit /\ Fresh

(* The process dies and its supervisor starts it again.                    *)
Restart ==
  /\ AdmRestart
  /\ EngRestart
  /\ LoadCatalog
  /\ instances' = Empty
  /\ loadedModel' = ModelName
  /\ lock' = <<>>
  /\ pc' = [c \in Clients |-> "idle"]
  /\ req' = [c \in Clients |-> NoRequest]
  /\ reply' = NoReply
  /\ cut' = FALSE

Next ==
  \/ \E c \in Clients : Arrive(c) \/ HandlerStep(c)
  \/ \E g \in Gens : Generate(g)
  \/ Execute
  \/ ProcessStep
  \/ Restart

Spec == Init /\ [][Next]_vars

(* The event loop runs the lock holder, whose drain has a timeout; the     *)
(* executor thread runs; a process that got SIGTERM exits in the end.      *)
LifecycleFairness ==
  /\ \A c \in Clients : WF_vars(HandlerStep(c))
  /\ WF_vars(Execute)
  /\ \A p \in Procs : WF_vars(ProcTerm(p) /\ UNCHANGED <<admVars, lifeVars>>)

(* The event loop runs every ready task; a generation ends (module          *)
(* Generation, GenerationEnds).                                            *)
GenerationFairness ==
  \A g \in Gens :
    /\ WF_vars(Resume(g) /\ UNCHANGED <<engVars, lifeVars>>)
    /\ WF_vars(Answer(g) /\ UNCHANGED <<engVars, lifeVars>>)
    /\ WF_vars(Release(g) /\ UNCHANGED <<engVars, lifeVars>>)

FairSpec == Spec /\ LifecycleFairness

-----------------------------------------------------------------------------
(* Properties.                                                             *)

(* Types of the worker's own variables (those of Admission and Engines     *)
(* have theirs).                                                           *)
TypeOK ==
  /\ AdmTypeOK
  /\ EngTypeOK
  /\ catalog \in Catalogs
  /\ DOMAIN instances \subseteq Names
  /\ instances \in [DOMAIN instances -> Procs]
  /\ loadedModel \in Names
  /\ lock \in Seq(Clients)
  /\ pc \in [Clients -> Phases]
  /\ req \in [Clients -> Requests \cup {NoRequest}]
  /\ reply \in [code : Codes, running : SUBSET Names]
  /\ cut \in BOOLEAN

(* The handler that holds the lock is the only one past its first await.   *)
LockDiscipline ==
  /\ \A i, j \in DOMAIN lock : lock[i] = lock[j] => i = j
  /\ \A c \in Clients : pc[c] # "idle" <=> \E i \in DOMAIN lock : lock[i] = c
  /\ \A c \in Clients : pc[c] \notin {"idle", "queued"} => Holder(c)

(* _draining is set exactly while a swap is between its set() and its      *)
(* clear(): it is never left set by a failed swap, a crash branch or a     *)
(* request that was waiting for the lock.                                  *)
DrainingIsSwap ==
  draining <=> \E c \in Clients : pc[c] \in {"drain", "stop", "start", "crashing"}

(* The executor works for the lock holder, and for nobody else.            *)
JobIsHolders ==
  job # NoJob <=> \E c \in Clients : pc[c] \in {"stop", "start", "halt"}

(* After a drain that did not time out, no generation is running or queued *)
(* while the engine under it is stopped and replaced.                      *)
QuiescentReplace ==
  (~cut /\ \E c \in Clients : pc[c] \in {"stop", "start"}) => InFlight = {}

(* Every live process the worker started and did not drop is registered,   *)
(* or the executor is working on it: no other engine can be leaked.        *)
NoUntrackedEngine ==
  \A p \in LiveProcs : proc[p].owner = "worker" =>
    p \in Instances \/ (job # NoJob /\ "pid" \in DOMAIN job /\ job.pid = p)

(* Two tracked engines never hold GPU memory together: the new engine is   *)
(* spawned only after the old one was stopped and reaped.                  *)
OneTrackedEngine ==
  Cardinality({p \in LiveProcs : proc[p].owner = "worker"}) <= 1

(* _instances names only processes of ours, at most one of them.           *)
InstancesAreOurs ==
  /\ \A n, m \in DOMAIN instances : n = m
  /\ \A p \in Instances : proc[p] = Free \/ proc[p].owner = "worker"

(* Every lifecycle request leaves the lock in the end, whatever happens to *)
(* the engines and the generations meanwhile.                              *)
OpEnds == \A c \in Clients : pc[c] # "idle" ~> pc[c] = "idle"

(* If generations end, every queued one is served, whatever swaps, crashes *)
(* and restarts come between.                                              *)
EveryWaiterServed == GenerationFairness => WaiterServed

(* A swap ends by publishing its reply, whatever fails on its way: the one  *)
(* exception that leaves the handler comes from the VRAM test of a model    *)
(* whose catalog entry is ill-typed, before anything is touched.            *)
SwapReplies ==
  [][\A c \in Clients :
       (req[c].op = "swap" /\ pc[c] \notin {"replying", "crashing"} /\ pc'[c] = "idle")
         => \/ Restart
            \/ /\ pc[c] = "queued" /\ ~catalog[req[c].model].typed
               /\ UNCHANGED <<instances, draining>>]_vars

(* "After _do_stop, _instances is empty": a stop that ends leaves nothing  *)
(* registered.  The premise the test leaves unsaid is that the catalog still *)
(* has the registered model as a local one; when a reload or an edit has    *)
(* taken it away since its start, the stop ends with it registered, but     *)
(* then its caller is not told ok: it gets no reply at all.                 *)
StopEmpties ==
  [][\A c \in Clients :
       (req[c].op = "stop" /\ pc'[c] = "idle") =>
         \/ instances' = Empty
         \/ pc[c] # "replying" /\ \E n \in DOMAIN instances : ~Resolvable(n)]_vars

(* A swap to the model that is running is answered "ok".                   *)
SameModelSwapOk ==
  \A c \in Clients :
    (/\ pc[c] = "replying" /\ req[c].op = "swap"
     /\ Swappable(req[c].model)
     /\ req[c].model \in DOMAIN instances) => reply.code = "ok"

-----------------------------------------------------------------------------
(* The refinement mapping.                                                 *)

Served == IF instances = Empty THEN NoModel ELSE CHOOSE n \in DOMAIN instances : TRUE

Phase == IF ~draining THEN "open"
         ELSE IF \E c \in Clients : pc[c] = "drain" THEN "draining" ELSE "replacing"

HS == INSTANCE HotSwap WITH served <- Served, phase <- Phase, busy <- InFlight, forced <- cut

(* The worker implements the exchange behind a closed door.                *)
ImplementsHotSwap == HS!Spec

=============================================================================
