# llmCLI: a TLA+ model

TLA+ modules for the concurrent core of llmCLI, TLC configurations that check
them on small instances, and TLAPS proofs that hold for every instance.
Paths below are relative to the repository; `nats/`, `cli/`, `engines/`,
`proxy_forwarder/`, `support/` and `gpu/` are under `src/llmcli/`.

- [1. The system](#1-the-system)
- [2. Modules and the code](#2-modules-and-the-code)
- [3. Runs](#3-runs)
- [4. Disagreements between code and text](#4-disagreements-between-code-and-text)
- [5. Proofs](#5-proofs)
- [6. What is not modelled](#6-what-is-not-modelled)
- [7. Plan](#7-plan)

To check a run: `tlc -config <run>.cfg <Module>.tla`; to check the proofs of a
module: `tlapm <Module>.tla`. PROJECT.json lists the runs, the source lines of
every definition, a mutation that each property detects, and the hazards.

## 1. The system

llmCLI serves language models on a GPU host. Three long-running processes carry
the logic; the rest is command line.

```
 hub / callers --NATS--> worker (nats/) --HTTP--> litellm (child of cli/proxy.py)
 operator CLI --NATS-->    |                          |            |
                           | executor thread          v            v
                           +--> engine process   local engine   xAI forwarder
                                (engines/)                      (proxy_forwarder/)
```

| Component | State | Operations | Hard because |
|---|---|---|---|
| Generation admission: `nats/llm_adapter.py` | semaphore with its queue, `_draining` | `handle`, heartbeat | callers, drain and hand-over of slots interleave at every await; `_sem._value` is read from outside |
| Generation relay: `nats/_generation.py` | chunk count, `saw_done`, the reply inbox | `_stream_response`, `_blocking_response`, error report | every way an upstream or a publication can fail, at every point of the stream |
| Lifecycle and hot swap: `nats/_lifecycle.py`, `nats/_swap.py` | lock, `_instances`, `_catalog`, `_loaded_model` | swap, stop, status, list, reload-catalog | holds a lock across executor calls and a drain with a timeout; each step may fail; the catalog changes under it |
| Engine adapters: `engines/` | child processes, pids, ports | `start`, `_wait_ready`, `stop` | blocking calls in one thread; zombies, reaping by other `Popen` calls, process groups, a port anybody may answer on |
| Proxy supervisor: `cli/proxy.py` | `child_state`, `proxy.config.yaml` | refresh loop, reload, wait, signal handler | two threads, a handler that interrupts `wait()`, a child that may ignore SIGTERM |
| xAI forwarder: `proxy_forwarder/_common.py`, `xai_adapter.py`, `cli/xai.py` | `xai.json`, the refresh lock, the back-off | lazy refresh, retry after 401, `/health`, login, logout | a single-use refresh token shared by requests, and a file another process writes |
| Catalog, VRAM budget: `config.py`, `gpu/` | files on disk | `load`, `check_vram_budget`, probes | the answer is stale when it is used |
| Model discovery and LiteLLM configuration: `support/litellm_config.py`, `cli/proxy.py` (register-proxy) | cache, a managed block in a YAML file of the operator's, its `.bak` | `build_model_list`, `build_block`, `write_block` | sources that answer at different moments; two files written in place, and a crash between or within the writes |
| Fleet client: `cli/_nats_client.py`, `cli/_lifecycle_nats.py`, `cli/swap.py`, `cli/lifecycle.py`, `cli/lifecycle_extra.py` | collected replies, exit code | request, request_fleet, the five commands | requests outlive the command that sent them; two timeouts; partial and late answers |

They interact as follows. The worker posts generations to litellm, which routes
them to the local engine. Lifecycle requests start and stop that engine in the
worker's single executor thread while generations run on the event loop. The
supervisor asks the forwarder and the providers which models exist and restarts
litellm when the answer changes. `llmcli xai login` changes `xai.json` under both.
The operator's commands publish one request on a subject that every worker
hears, and read replies from an inbox of their own. `llmcli register-proxy` runs
the same discovery once and splices the result into the configuration of a
LiteLLM that somebody else runs.

What makes each of them correct:

- admission: the slots add up; no wake-up is lost; nobody enters during a
  drain; "idle" means that nobody is running or about to run;
- relay: exactly one terminal event per generation, `done` only for a complete
  stream with every delta before it, and the slot comes back;
- lifecycle: one operation at a time, one engine at a time, none forgotten; the
  drain flag cleared and the caller answered on every path; engines replaced
  behind a closed door;
- engines: `start` watches its own child, `stop` returns when the process is
  gone, and does return;
- supervisor: one litellm on the port, none left behind, serving the list that
  was written last;
- forwarder: a refresh token is never posted again once its successor is saved,
  or after a refusal, and only when a refresh is needed; every request is answered;
- commands: what is reported OK was done, by that host and for that request; a
  command ends; a fleet command hears everybody who answers in time;
- configuration: a model is offered once; a run replaces its own block and
  nothing else; the operator's lines survive a crash at any point.

## 2. Modules and the code

| Module | Models | Extends / composes |
|---|---|---|
| `Admission` | `handle()`, `asyncio.Semaphore`, `_draining` | |
| `Engines` | `Engine.start`, `_wait_ready`, `Engine.stop`, the process table | |
| `Worker` | the lifecycle operations, and the whole worker | EXTENDS Admission, Engines |
| `HotSwap` | the abstract specification of a swap | implemented by Worker (`ImplementsHotSwap`) |
| `Generation` | one generation, from POST to terminal event | |
| `Proxy` | the supervisor of litellm | |
| `Forwarder` | the shared OAuth credential | |
| `FleetClient` | the operator's commands against several workers | a worker is its queue of requests and the outcomes of Worker's operations |
| `RegisterProxy` | discovery of the model list, and the managed block with its backup | |
| `MCWorker`, `MCEngines`, `MCRegisterProxy` | small catalogs and spec sets | EXTENDS Worker, Engines, RegisterProxy |
| `AdmissionProofs`, `EnginesProofs`, `WorkerProofs`, `GenerationProofs`, `ProxyProofs`, `ForwarderProofs`, `FleetClientProofs`, `RegisterProxyProofs` | the proofs | EXTENDS the component |

One action is what runs between two points where something else can be
observed to interfere: two awaits on the event loop, two system calls of the
executor or of a thread. Each module has operators with a name like
`TakenNone` or `ReloadKillNot` before the one they vary: they are the plausible
bugs that the properties are tested against, and no specification uses them.

**Admission.** `gen[g]` is where a caller's `handle()` is; `permits` is
`_sem._value`, `waiters` the deque of futures. The semaphore is CPython 3.12's:
`acquire` takes a free slot only when nobody queues in front, `release`
increments and wakes the first sleeper, a resumed task wakes the next one while
slots are left (`WakeOnResume`). `Refuse` is any of the three early
returns (draining, bad request id, full), which differ in the error code only. `Answer` stands for the
generation, whose inside is module Generation.

**Generation.** `sent` is what the upstream has emitted, `read` how far the
worker is, `got` and `sawDone` the variables of `_stream_response`, `err` the
`WorkerError` on its way to the report, `out` the inbox. A line is a delta, JSON
without content ("other": a role, an error object), JSON of an unexpected shape
("odd"), junk, or `[DONE]`. The except clauses are `Fail` with the code and the
retryable flag they assign; `Broken` is the connection that drops, which only
the last clause catches. A delta that cannot be published fails the generation,
and so does a closed NATS connection at the end.

**Engines.** `proc[p]` is a process: loading, ready or zombie, who owns it and
whether it has SIGTERM. `job` is the executor's call and how far it is. `Free`
is a pid nobody has. `CleanedUp` is `subprocess._cleanup`, which every `Popen`
runs: it reaps children whose `Popen` object was dropped, and `start()` drops its
own when it returns. `Healthy` asks the port, as the probe does. A start that
times out leaves a process with owner "lost". `stop()` of llama.cpp signals the
pid, of vLLM the group of the pid; the spec that selects between them is the
one the caller looked up.

**Worker.** `lock` is the queue of `_lifecycle_lock`, `pc[c]` where client
`c`'s request is: "drain" in `wait_for(_wait_sem_idle)`, "stop" and "start" while
the executor works for a swap, "halt" while it works for a stop, "crashing" and
"replying" at the publication. `status` and the no-op swap take the dictionary as
it is; `list` and `reload-catalog` may also leave the lock without a reply, when
an exception that no clause lists escapes them, and so may a swap whose VRAM test
meets a value of the wrong type (`SwapEscapes`: `_do_swap` catches `ValueError` only).
A swap's tests are in the code's order: unknown or remote model, an engine that
cannot swap, VRAM (`vram_gib` against the budget, with the KV-cache overhead `kv`
against what is free), same model, drain. `cut`
records that the last drain ended by its timeout. `Restart` is the container
restarting the process: everything in memory and every child goes, an engine
started by hand stays.

**Proxy.** `proc` are litellm processes, `child` is `child_state["child"]`,
`refresh` the position of the refresh thread, `main` and `frames` the main
thread and the signal handlers stacked on it. `WaitpidLocked` is the reason why
the handler's polls learn nothing: `Popen.wait()` of the interrupted main thread
holds `_waitpid_lock`, and `poll()` then says "still running".

`Discovered` is `build_model_list` behind its cache, which a refresh clears first.

**FleetClient.** `queue[h]` is what waits at host `h`'s lifecycle lock, `serving[h]`
what its engine serves. `cmd`, `id`, `phase` and `inbox` are the command that
runs, its request and what has arrived for it; `late` says that `--timeout` has
passed. `Send` is the publication on the shared subject, which reaches every
connected worker once, and is answered by the server when there is none;
`ForMe` is the worker's host filter, `Outcomes` what an operation of Worker leaves
running and what it replies, including nothing. A command that has timed out is
over, and its request is not: the next one is queued behind it. `NothingComes` is
`next_msg()`'s own timeout, `WindowEnds` the operator's. `done` and `inTime` are not
state of the code: they record, for the properties, who did the request and who
answered it in time.

**RegisterProxy.** A file is the sequence of its lines: the operator's, the entries
of the block and its two sentinels. `Build` is `build_model_list` without the
cache: the catalog's models of this machine, remote ones if the provider's
probe is answered, then the ids of the xAI forwarder that are chat models and
not there yet. `OpenBackup` to `WriteFile` are the system calls of `write_block`;
opening a file truncates it, so `Crash` leaves any prefix of what was to be
written. `mine` is what the operator wrote, as the operator last left it. `Only(s, T)`
is a comprehension with an `if`, and `WithXai` the loop that appends; both are recursive
functions, so that they can be proved about. An image model that the catalog itself
names is offered, as in the code; `Images` are the others.

**Forwarder.** A credential is a number; the provider mints them in order,
`valid` are the refresh tokens it accepts, `expired` and `revoked` the access
tokens that need a refresh. `disk` is `xai.json`, which login and logout write
without the lock; a file that cannot be parsed is the model's `None`, since the load
that raises ends a request as a missing file does (with 503 for 401) and `/health`
leaves the flag alone in both cases. `new` is what the lock holder was granted and
has not saved: `Granted` saves it, `SaveFails` loses it, as `ExchangeLost` and
`Restart` do. After these three the file keeps a token that the provider has
already exchanged; the next request posts it once more, is refused, and the flag
stops the others. `superseded` and `refused` are history variables: the tokens whose
successor was saved, and those refused to this process.

**HotSwap.** What callers are promised: requests are admitted while the door is
open; the exchange begins when nobody is inside, or is forced; the next model is
served only after the previous one is gone. Under the mapping in Worker, `served`
is the registered instance, `phase` comes from `_draining`, `busy` is the set of
generations in flight, `forced` is `cut`.

## 3. Runs

| Run | Instance | Shows |
|---|---|---|
| `worker_safety` | 2 clients, 2 callers on 1 slot with `--reject-when-full`, 2 pids, 3 catalogs, an engine started by hand | lock discipline, the drain flag, one tracked engine, none forgotten, a stopped process is reaped, every swap replies (but for an ill-typed model), a stop that is answered leaves nothing registered |
| `worker_generations` | 3 callers, 2 slots, 1 client, stable catalog | the worker implements HotSwap; idle means nobody and no wake-up is lost; nobody in flight after a complete drain |
| `worker_liveness` | 2 clients, 2 callers, 1 slot | every lifecycle request leaves the lock; every queued generation is served, also across swaps, crashes and restarts |
| `generation` | responses of up to 4 lines | one terminal event, last; an honest and complete `done`; every generation ends |
| `proxy` | 3 handles, 2 lists, 2 signals | one listener, nothing left behind, the child serves the last list, a signal ends the supervisor, the list converges |
| `forwarder` | 2 requests, 3 credentials | no post of a token whose successor was saved, post only when needed, no repost of a refused one, `/health` knows the dead token, every request is answered |
| `fleet` | 2 hosts, 2 models, 2 commands of any kind | OK means done, and for a swap that the host serves the model; the exit code; every command ends |
| `register_proxy` | 4 catalog models (local, behind a key, OAuth, of another machine), 2 lists of ids, 2 lines of the operator's | a model is offered once, a run replaces its block, nothing of the operator's is lost |
| `found_*` | | section 4 |

**Bounds.** Two clients are enough to have one wait for the lock while another
holds it through every phase. Three callers on two slots give a holder, a granted
and a sleeping waiter, because a caller that was answered comes back: that is
what hand-over needs. Two pids let an engine that a
start has lost, or one started by hand, live beside the tracked one; a third
would only be another lost one. The three catalogs are the full one, one that
drops a model, and one that changes the engine of each model; a model with a value
of the wrong type is in the first two. Model "a" needs KV-cache memory, "b" none, and
the GPU holds either and never both. Three `Popen`
handles are the old child, the new one and the one the main thread still waits
for; handles nobody refers to are reused. Three credentials are an old one, its
refresh and a login. Two signals stack two handlers. Four lines are enough for a
delta on either side of every other kind of line and `[DONE]`. Two hosts give one
that answers and one that is silent, slow, elsewhere or the one that was not
asked; two commands give one that timed out and one that runs while its request
is still queued. Of `register_proxy` the catalog has a model of each kind the list
is built from, and the ids repeat one another and the catalog; two lines of the
operator's can stand before, behind, and on either side of the block. `MaxToken`,
`MaxSignals`, `MaxLines` and `MaxCmds` are the only bounds on otherwise unbounded
counters.
Symmetry is used in runs without liveness properties only.

**Deadlock** is checked except in `generation`, `proxy` and `found_reload_exits`: a
worker whose NATS connection is closed takes no more requests, and a supervisor
that has exited is over.

**Fairness.** Weak fairness of a handler's steps, of the executor, of the
forwarder's and the generation's steps is what an event loop and a running
thread give: a task that stays ready is run. The waits that could block a step
have a timeout in the code: the drain (`_swap.py:50`), the read of the upstream
(`llm_adapter.py:80`; the model's `Timeout`), the readiness poll, the drains of
the supervisor, and the calls to the token endpoint. Nothing is assumed of the
upstream, of the callers, or of the operator.

- `OpEnds` assumes that an engine exits after SIGTERM, because `os.waitpid(pid, 0)`
  has no timeout; without that assumption (`DeafSpec`) the run `found_stop_hangs`
  refutes it for `stop()` itself.
- `OpEnds` assumes nothing of the generations: the drain has its timeout.
  `EveryWaiterServed` has `GenerationFairness` as its premise: that they end is
  `GenerationEnds` of module Generation.
- `GenerationEnds` needs a bound on the lines of a response: the 120 s are per
  read, so an upstream that keeps sending is never cut off.
- `SignalEnds` assumes only that SIGKILL works.
- `ListConverges` states its own premises: upstream comes to rest, and refreshes go
  on succeeding for ever, which says that the supervisor is never signalled, that its
  child crashes at no moment that ends it, and that no reload does. A supervisor that does end (section 4) is promised nothing: what its
  container starts next is `Init`.
- `CommandEnds` assumes the client's process and its clock, and nothing of the
  workers, which may be silent for ever.

**Assumptions on the operator.** In `fleet` one command runs at a time: of two at
once each has an inbox of its own, and their requests are ordered by the lock as
those of a timed-out command are. In `register_proxy` one run at a time, and a
file that a crash has cut is restored from the backup before the next run
(`Whole`): a run that starts on a cut file saves the cut file over the only whole
copy, which no text of the repository excludes or promises.

## 4. Disagreements between code and text

Each has a run that finds it.

- **A swap to the running model may be rejected** (`found_same_model`). The VRAM
  test (`_lifecycle.py:185`) precedes the same-model fast path (`_swap.py:26`) and
  counts the memory of the very model that is running. The lifecycle spec
  (`artifacts/specs/34-nats-lifecycle-fold-spec.mdx:216`) calls the fast path
  idempotent.
- **`stop()` can block for ever** (`found_stop_hangs`). `os.waitpid(pid, 0)` waits
  without a limit, and the SIGKILL sits in the `ChildProcessError` branch, which
  only runs when the child is gone. The test of the escalation
  (`tests/test_llamacpp.py:598`) makes `waitpid` raise.
- **The supervisor may exit during its own reload** (`found_reload_exits`). The
  main thread sees the exit of the terminated child before the refresh thread
  has stored the next one, takes it for a real exit, and leaves.
- **A fleet command stops listening after one second of silence**
  (`found_fleet_window`). `request_fleet` calls `sub.next_msg()` without a timeout
  (`cli/_nats_client.py:124`), whose default is 1 s, and takes its `TimeoutError` for the
  end of the window. `artifacts/specs/61-fleet-lifecycle-ops-spec.mdx:136` says that
  `--timeout` controls the reply window; a fleet swap, which loads a model, will hardly
  ever be heard.

Observed in the model, without a run of their own because a property would only
restate one assignment or disjunct:

- a litellm reload whose respawn fails ends the supervisor.
  `artifacts/specs/130-unified-dynamic-v1-models-spec.mdx:147` says of it "Log error;
  retry next poll; do not crash parent `llmcli proxy`". In the code `_spawn_litellm`
  raises after the old child was stopped; the loop logs it, and `child_state["child"]`
  stays the dead handle (`ReloadSpawnFails`). No later poll retries: each finds the
  child over and does nothing (`cli/proxy.py:411`; `RefreshSkip`). The main thread takes
  the exit for a real one and leaves (`cli/proxy.py:371`; `WaitDone`), and the process
  with it. `found_reload_exits` shows the other way a reload ends its supervisor.
- `_do_stop` and the loop of a swap look specs up in the *current* catalog. After
  a reload that drops the running model or makes it remote, stop raises out of
  the lock without a reply and the engine keeps running, where
  `tests/nats/test_lifecycle_status.py:352` says without a condition that
  `_instances` is empty after a stop. `StopEmpties` states what holds: a stop that is
  answered leaves nothing registered, and only that edit keeps one from answering.
- a swap to a model whose catalog entry has a value of the wrong type may get no
  reply: `ModelSpec` takes what the TOML file holds, and `check_vram_budget` raises
  `TypeError` or `AttributeError` past the `except ValueError` (`_lifecycle.py:186`).
- `_loaded_model` is written at boot only: after a swap the heartbeat and the
  `model` field of every generation still name the model of `--model`, where
  `artifacts/specs/12-nats-worker-spec.mdx:49` has "current SWAP target".
- stop does not drain, where the lifecycle spec (line 128) says it does.
- `reload-catalog` lets exceptions outside its except clause escape the lock
  without a reply, against the comment at `_lifecycle.py:286`; `list` does so when
  the forwarder answers with JSON that is not an object, and it asks the forwarder
  with a blocking call of up to three seconds on the event loop.
- a generation that is cut off by a swap after its drain has timed out is reported
  as `worker.internal`, `retryable=False`: the broken connection is neither a timeout
  nor a `ConnectError`. The lifecycle spec (line 214) promises `upstream.unavailable`,
  retryable.
- a login that falls between a refresh's discovery and `cli/proxy.py:400`, where it
  stores the token of `xai.json`, waits for the next interval, where
  `docs/guides/deployment.md:718` says "regen-reloads within one second".
- `status --fleet` and `list --fleet` exit 0 whatever they hear; `list` and `status` take
  any reply, because the inbox is their own.
- `docs/guides/deployment.md:381` says that register-proxy restores the backup when the
  reload fails; `cli/proxy.py:100` prints a warning and keeps the new file.
- `write_block` writes the backup before it looks for lone sentinels, so a run that
  refuses the file has replaced the backup all the same.
- a start whose readiness poll times out leaves its process running and
  unregistered; the next start on that port may be answered by it.
- status, list and the same-model path never ask whether the process is alive.

## 5. Proofs

All proofs assume only the named assumptions on constants (`Gens` is finite,
`MaxConcurrent` is a positive number, catalogs map names to specs of their own
name, and so on), which TLC evaluates in every run.

**AdmissionProofs** proves every safety property of Admission for any number of
callers and slots. The properties are not inductive by themselves. `AdmInv` adds
the slot accounting as a sum (`SlotSum`), that the queue holds exactly the
waiting and granted callers (`QueueMembers`), once (`QueueDistinct`), the granted
ones in front (`GrantedFirst`). `NoLostWakeup` needs the queue: a caller sleeps
only behind somebody who will wake it. `IdleMeansNobody`, which
`_wait_sem_idle` relies on, follows from the sum and `NoLostWakeup`.

**EnginesProofs** proves the types and that `start()` holds its child and
`stop()` returns with its process reaped. Types alone are not inductive: a
deadline that passes writes into the record of the child, which must exist
(`StartHoldsChild`), and a `Popen` elsewhere must not reap it, which is what
`HeldByStart` says of CPython.

**WorkerProofs** composes both. `WorkerInv` is `AdmInv`, `EngInv`, the types of
the worker's variables, `LockDiscipline`, `DrainingIsSwap`, `JobIsHolders`,
`TargetIsLocal` (the model a swap was admitted for can be resolved until it is
started: reload-catalog needs the lock the swap holds) and `QuiescentReplace`. One
lemma per building block of a handler says what it does to the phase, the lock,
the flag and the executor (`PhaseAndLock`, `FlagAndJob`); a step of a handler is
then one case each. `QuiescentReplace` combines both sides: a complete drain ends
with a full counter, hence by `IdleMeansNobody` with nobody in flight, and
`MayEnter` keeps everybody out until the flag is cleared.

On top of it, `TrackInv` says where the live engines are: nothing is registered
while a start runs (`StartsEmpty`), a stop works on the one registered pid
(`JobIsInstance`), a child of ours is registered or in the executor's hands
(`WorkersAreTracked`), and a registered pid is free or ours (`TrackedAreOurs`). The
order of a swap is what keeps it: the loop over the instances is finished before
an engine is started, and an entry stays until its process is reaped.
`NoUntrackedEngine`, `OneTrackedEngine` and `InstancesAreOurs` follow. `OpsInv` ties
a phase to the operation of its request, and what a reply says to the instances;
`SwapReplies` and `StopEmpties` are read off where a handler can go next
(`HandlerMoves`): a handler of a stop that does not reply has met an instance whose
model the catalog of the moment cannot resolve, and nothing is assumed of the
catalogs.

**The refinement** `Spec => ImplementsHotSwap` (`WorkerImplementsHotSwap`) holds for
every number of callers, clients, pids, models and catalogs. Every handler step is one step of HotSwap or none: `DrainIdle` and
`DrainTimeout` begin the exchange, where `IdleMeansNobody` makes the abstract
guard true; `SwapStopped` drops the old model and leaves nothing registered, by
`TrackInv`; `SwapStarted` finds nothing registered, so that the model it registers
is the only one. The executor, the engines and the arrivals are not seen.

**GenerationProofs** proves, for responses of any length, that a caller gets one
terminal event and that `done` is honest. `GenerationInv` adds that nothing but
deltas is published before the end (`OnlyDeltas`), that `chunk_count` and
`saw_done` say something true of the lines sent (`Counted`), which phase belongs
to which kind of request (`Reading`) and how the loop is left (`LoopLeft`). Its
steps are of three kinds: silent ones, deltas, and the last one. A second
invariant, `RelayInv`, counts: every line up to the end, or to the `[DONE]` nothing
follows, has been read (`ReadOn`), and what was published is as many events as
there are deltas among the lines read (`Relayed`). Hence `NothingDropped`.

**ProxyProofs.** All steps of the supervisor but one only take processes away
(`Wanes`). The exception is the spawn of a reload. `OneChild` says that only
`child_state["child"]` may be up, and nothing at the spawn; `Handled` that a signal
handler past the lock drains the child there is while no refresh can replace it,
and that once the handlers are done nothing is up and no refresh holds the lock.
`ListInv` says when the child's list may differ from the last one. `OneListener`,
`ShutdownLeavesNone` and `ChildServesLast` follow.

**ForwarderProofs.** `LockDiscipline` is the mutual exclusion of `_REFRESH_LOCK`: one
request is between its load of the credential and the end of its refresh. The
rest of `ForwarderInv` is about the credential on disk. Its successor has not been
saved (`DiskCurrent`), and it was not refused, unless it is flagged or the holder is
about to flag it (`DiskUnrefused`, which a failing save needs: it clears the flag and
leaves the file as it was); what is about to be saved has never been used
(`GrantIsNew`); who posts, or queues after a 401, has a credential that needs a
refresh (`AskedFor`). Logins and
logouts write the file outside the lock, and the proof covers them: a login
brings a credential nobody has used.

**FleetClientProofs.** The argument is about request ids. Each command has a new
one, so a queue is sorted by id (`InOrder`) and the current request, if it waits,
is the last (`OwnRequests`). A host that has done it has nothing left to do, and
serves what it was asked for (`DoneInv`), although earlier swaps may have been
waiting when the command was sent. With `InboxInv` (who says OK has done it),
`OkMeansDone` and `OkServes` follow.

**RegisterProxyProofs.** A crash leaves any prefix of a file, and the operator edits
what a run has left, so that a later run may find one sentinel, both or none. The
invariant must say that a splice is right in all of them. `Shape(f, a, b)` says that
the operator's lines are exactly those outside the places `a + 1` to `b`, and that
the sentinels stand only at the two ends of this part; `FilesShaped` that every file
a run may read has such a part. A prefix of what `write_block` writes has the
shape again (`WrittenShaped`), and so has a file after each of the operator's edits
(`FirstLineShaped`, `LastLineShaped`, `RemovedShaped`). `Kept` says, phase by phase,
which of the two files holds all the operator's lines: the backup is complete before
the file is opened, and a run opens the backup only when the file is whole.
`NothingLost` and `BlockReplaced` follow from the two. `NamesOnce` is a fact about
`WithXai`, for lists of any length.

What the two recursive functions compute is proved by induction over sequences. The
library's induction theorems take an operator as a parameter, which the provers
cannot instantiate; `SetInduction` and `SeqInduction` state the principle for a *set* of
numbers or of sequences instead, and follow from the fact that `<` is well-founded
on `Nat`.

`cut`, Worker's record of a timed-out drain, and the audit variables of
FleetClient are history variables: no guard reads them.

Theorems, each `THEOREM <name>Holds == Spec => []<name>` (for an action property
`Spec => <name>`):

| Module | Properties proved |
|---|---|
| AdmissionProofs | `AdmTypeOK`, `SlotAccounting`, `IdleMeansNobody`, `NoLostWakeup`, `QueueIsWaiters`, `RejectNeverQueues`, `DrainOnlyShrinks` |
| EnginesProofs | `EngTypeOK`, `StartHoldsChild`, `StoppedIsReaped` |
| WorkerProofs | `TypeOK`, `LockDiscipline`, `DrainingIsSwap`, `JobIsHolders`, `QuiescentReplace`, `InstancesAreOurs`, `NoUntrackedEngine`, `OneTrackedEngine`, `SwapReplies`, `StopEmpties`; `WorkerImplementsHotSwap` |
| GenerationProofs | `TypeOK` (as `GenerationTypeOKHolds`), `OneTerminal`, `DoneIsHonest`, `NothingDropped` |
| ProxyProofs | `TypeOK`, `OneListener`, `ShutdownLeavesNone`, `ChildServesLast` |
| ForwarderProofs | `TypeOK`, `SingleUse`, `PostOnlyWhenNeeded`, `NoRepost`, `DeadDiskFlagged` |
| FleetClientProofs | `TypeOK`, `OkMeansDone`, `OkServes` |
| RegisterProxyProofs | `TypeOK`, `NamesOnce`, `BlockReplaced`, `NothingLost` |

`SlotAccounting`, `QueueIsWaiters`, `RejectNeverQueues`, `DrainOnlyShrinks`,
`StartHoldsChild` and `JobIsHolders` are not checked by a run of their own: the proof
covers every instance. The other inductive invariants were checked by TLC, on the
instances of the runs, before they were proved.

Every invariant, action property and refinement that a passing run checks is proved.
**Only model-checked:** every liveness property (`EveryWaiterServed`, `OpEnds`,
`GenerationEnds`, `SignalEnds`, `ListConverges`, `Answered`, `CommandEnds`), which
TLAPS cannot prove under fairness.

## 6. What is not modelled

- the printing of the commands, `serve` (a stub that exits), and the merge of the
  fleet's lists into one table;
- the layers of `proxy-base.yaml` and the telemetry callback; the YAML of an entry
  beyond its name; the custom auth module that register-proxy writes beside the
  configuration; two runs of register-proxy at once;
- the start of the supervisor before its handlers are installed
  (`cli/proxy.py:206` to `:245`): a signal in this window takes its default action,
  ends the supervisor at once, and leaves the litellm it has just spawned to the
  container; every property of Proxy speaks of what comes after;
- the token that wakes the supervisor's refresh early: a login between discovery
  and the line that stores the token waits for the interval;
- the field validation of the catalog and the `[nats]` table: a catalog that
  does not load is a reply of reload-catalog;
- the contents of messages and payloads, header rewriting and body streaming of
  the forwarder, the Fireworks adapter (a static key, no state);
- command lines, model downloads, the stderr pipe of an engine, time: only the
  order of deadlines and events;
- login flow and credential store (external package `roxabi_xai`), telemetry,
  the authentication hook of litellm, VRAM monitor and sampler, deployment,
  plugins, tools and scripts.

NATS delivers requests in the model at any time and in any order; redelivery does
not exist in core NATS. A reply that is published while the connection is gone is
modelled in Generation, not in Worker.

## 7. Plan

Done: all nine modules with their runs, and a proof of every safety property that a
run checks, with the refinement.

Next, each with its proofs extended: the stderr pipe and the reuse of pids in
Engines; a lost NATS connection in Worker; the token of the refresh thread in
Proxy; two concurrent writers in RegisterProxy. New questions share the instances
of existing runs.
