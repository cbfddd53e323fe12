------------------------------ MODULE Admission ------------------------------
(***************************************************************************)
(* Admission of text generations by the NATS worker: the part of           *)
(* LlmNatsAdapter.handle that follows the lifecycle branch, and the        *)
(* asyncio.Semaphore (CPython 3.12) it takes its slots from.               *)
(*                                                                         *)
(* A member of Gens is one caller with at most one generation in flight;   *)
(* it may send again once its previous generation is over.  The flag       *)
(* draining belongs to the lifecycle side (LifecycleMixin): here it is set *)
(* and cleared by the environment, and module Worker composes the two.     *)
(*                                                                         *)
(* One action is one segment of the handler between two awaits.            *)
(***************************************************************************)
EXTENDS Naturals, Sequences, FiniteSets

CONSTANTS Gens,            \* callers of the generation subject
          MaxConcurrent,   \* --max-concurrent: slots of the semaphore
          RejectWhenFull   \* --reject-when-full

ASSUME GensAssumption == IsFiniteSet(Gens)
ASSUME MaxConcurrentAssumption == MaxConcurrent \in Nat \ {0}
ASSUME RejectWhenFullAssumption == RejectWhenFull \in BOOLEAN

VARIABLES draining,  \* _draining.is_set()
          gen,       \* where each caller's generation is
          permits,   \* Semaphore._value
          waiters    \* Semaphore._waiters: the callers whose future is queued

genVars == <<gen, permits, waiters>>
admVars == <<draining, genVars>>

(* "refused": an error reply is being published, no slot is involved;      *)
(* "granted": the caller's future has its result, its task has not resumed; *)
(* "replied": the terminal reply is out, the slot is still held.            *)
GenStates == {"idle", "refused", "waiting", "granted", "running", "replied"}

Holders == {g \in Gens : gen[g] \in {"granted", "running", "replied"}}
Pending == {g \in Gens : gen[g] = "waiting"}
InFlight == Holders \cup Pending

(* LlmNatsAdapter._active_requests, published in every heartbeat.          *)
ActiveRequests == MaxConcurrent - permits

-----------------------------------------------------------------------------
(* The semaphore.                                                          *)

(* Semaphore.locked(): nobody may pass a queued waiter, even one whose     *)
(* future is already done.                                                 *)
Locked == permits = 0 \/ waiters # <<>>

Before(g, h) ==
  \E i, j \in DOMAIN waiters : i < j /\ waiters[i] = g /\ waiters[j] = h

(* _wake_up_next, called until n futures are done or none is pending: the  *)
(* sets of callers it may wake (exactly one set: the n oldest).            *)
Woken(n) ==
  {W \in SUBSET Pending :
     /\ Cardinality(W) <= n
     /\ Cardinality(W) = n \/ W = Pending
     /\ \A g \in W, h \in Pending \ W : Before(g, h)}

(* The queue after a new waiter.                                           *)
Enqueued(g) == Append(waiters, g)

(* The counter after an immediate acquisition, and a mutated form that     *)
(* forgets to take the slot.                                               *)
TakenNone == permits
Taken == permits - 1

(* acquire() wakes as many callers as the counter allows when it resumes,  *)
(* release() wakes one; the mutated forms wake nobody.                     *)
WakeOnResumeNone == {{}}
WakeOnResume == Woken(permits)
WakeOnReleaseNone == {{}}
WakeOnRelease == Woken(1)

-----------------------------------------------------------------------------
(* handle(): everything up to the first await is one step.                 *)

(* The rejection test.                                                     *)
Full == RejectWhenFull /\ Locked

(* The tests a generation passes, valid being that of its request_id; the  *)
(* mutated form has no test of the flag.                                   *)
MayEnterDuringDrain(valid) == valid /\ ~Full
MayEnter(valid) == ~draining /\ valid /\ ~Full

(* The early returns: worker.capacity, transport.parse, capacity_exceeded. *)
Refuse(g) ==
  /\ gen[g] = "idle"
  /\ \E valid \in BOOLEAN : ~MayEnter(valid)
  /\ gen' = [gen EXCEPT ![g] = "refused"]
  /\ UNCHANGED <<draining, permits, waiters>>

(* await self._err(...) returns.                                           *)
Refused(g) ==
  /\ gen[g] = "refused"
  /\ gen' = [gen EXCEPT ![g] = "idle"]
  /\ UNCHANGED <<draining, permits, waiters>>

(* async with self._sem with a free slot: no suspension.                   *)
Acquire(g) ==
  /\ gen[g] = "idle"
  /\ MayEnter(TRUE)
  /\ ~Locked
  /\ gen' = [gen EXCEPT ![g] = "running"]
  /\ permits' = Taken
  /\ UNCHANGED <<draining, waiters>>

Await(g) ==
  /\ gen[g] = "idle"
  /\ MayEnter(TRUE)
  /\ Locked
  /\ gen' = [gen EXCEPT ![g] = "waiting"]
  /\ waiters' = Enqueued(g)
  /\ UNCHANGED <<draining, permits>>

(* The tasks of done futures resume in the order they were woken.          *)
Resume(g) ==
  /\ waiters # <<>>
  /\ g = Head(waiters)
  /\ gen[g] = "granted"
  /\ waiters' = Tail(waiters)
  /\ \E W \in WakeOnResume :
       /\ gen' = [h \in Gens |-> IF h = g THEN "running"
                                 ELSE IF h \in W THEN "granted" ELSE gen[h]]
       /\ permits' = permits - Cardinality(W)
  /\ UNCHANGED draining

(* _run_generation: one terminal reply, or its failure, which is swallowed. *)
Answer(g) ==
  /\ gen[g] = "running"
  /\ gen' = [gen EXCEPT ![g] = "replied"]
  /\ UNCHANGED <<draining, permits, waiters>>

(* Leaving "async with self._sem".                                         *)
Release(g) ==
  /\ gen[g] = "replied"
  /\ \E W \in WakeOnRelease :
       /\ gen' = [h \in Gens |-> IF h = g THEN "idle"
                                 ELSE IF h \in W THEN "granted" ELSE gen[h]]
       /\ permits' = permits + 1 - Cardinality(W)
  /\ UNCHANGED <<draining, waiters>>

GenStep(g) ==
  \/ Refuse(g)
  \/ Refused(g)
  \/ Acquire(g)
  \/ Await(g)
  \/ Resume(g)
  \/ Answer(g)
  \/ Release(g)

GenInit ==
  /\ gen = [g \in Gens |-> "idle"]
  /\ permits = MaxConcurrent
  /\ waiters = <<>>

(* A new process starts with a new semaphore and no task.                  *)
GenRestart ==
  /\ gen' = [g \in Gens |-> "idle"]
  /\ permits' = MaxConcurrent
  /\ waiters' = <<>>

-----------------------------------------------------------------------------
(* The environment of admission: the lifecycle side and the supervisor.    *)

BeginDrain == ~draining /\ draining' = TRUE /\ UNCHANGED genVars
EndDrain == draining /\ draining' = FALSE /\ UNCHANGED genVars
AdmRestart == draining' = FALSE /\ GenRestart

AdmInit == draining = FALSE /\ GenInit

AdmNext ==
  \/ \E g \in Gens : GenStep(g)
  \/ BeginDrain
  \/ EndDrain
  \/ AdmRestart

(* The event loop runs every ready task; a generation ends because every   *)
(* httpx read is bounded (read=120 s) and a model emits finitely many      *)
(* chunks.                                                                 *)
GenFairness ==
  \A g \in Gens : WF_admVars(Resume(g)) /\ WF_admVars(Answer(g)) /\ WF_admVars(Release(g))

AdmSpec == AdmInit /\ [][AdmNext]_admVars
AdmFairSpec == AdmSpec /\ GenFairness

-----------------------------------------------------------------------------
(* Properties.                                                             *)

(* Types of the four variables.                                            *)
AdmTypeOK ==
  /\ draining \in BOOLEAN
  /\ gen \in [Gens -> GenStates]
  /\ permits \in 0 .. MaxConcurrent
  /\ waiters \in Seq(Gens)

(* The number the heartbeat reports (_max_concurrent - _sem._value) is the *)
(* number of generations that hold a slot, whatever is in the queue.       *)
SlotAccounting == ActiveRequests = Cardinality(Holders)

(* The deque of futures holds exactly the callers that wait or were just   *)
(* granted a slot, each once, with the granted ones in front.              *)
QueueIsWaiters ==
  /\ {waiters[i] : i \in DOMAIN waiters} = {g \in Gens : gen[g] \in {"waiting", "granted"}}
  /\ \A i, j \in DOMAIN waiters : waiters[i] = waiters[j] => i = j
  /\ \A i, j \in DOMAIN waiters :
       (i < j /\ gen[waiters[j]] = "granted") => gen[waiters[i]] = "granted"

(* No lost wake-up: a free slot and a sleeping waiter coexist only while a *)
(* granted task is about to resume and pass the slot on.                   *)
NoLostWakeup ==
  (permits > 0 /\ Pending # {}) => \E g \in Gens : gen[g] = "granted"

(* What _wait_sem_idle relies on: _value = _max_concurrent means that no   *)
(* generation is running and that none is queued either.                   *)
IdleMeansNobody == permits = MaxConcurrent => InFlight = {}

(* With --reject-when-full nobody ever queues: the test and the            *)
(* acquisition are not separated by an await.                              *)
RejectNeverQueues == RejectWhenFull => waiters = <<>>

(* Every queued generation eventually leaves the queue.                    *)
WaiterServed == \A g \in Gens : gen[g] = "waiting" ~> gen[g] # "waiting"

(* While the drain lasts, the set of generations in flight only shrinks:   *)
(* the refusal comes before every other test of handle().                  *)
DrainOnlyShrinks == [][draining => InFlight' \subseteq InFlight]_admVars

=============================================================================
