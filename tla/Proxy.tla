-------------------------------- MODULE Proxy ---------------------------------
(***************************************************************************)
(* llmcli proxy: the supervisor of the litellm child.  The main thread     *)
(* waits for the child, runs the signal handler, and exits with the child; *)
(* a daemon thread rebuilds the model list, writes proxy.config.yaml and   *)
(* replaces the child when the list changed.  They share child_state.      *)
(*                                                                         *)
(* One action is what a thread does between two points where the other     *)
(* thread, a signal or a child can be observed to interfere.               *)
(***************************************************************************)
EXTENDS Naturals, Sequences, FiniteSets

CONSTANTS Kids,        \* Popen handles of litellm processes
          Lists,       \* what model discovery may return
          MaxSignals   \* bound on the signals sent to the supervisor

ASSUME KidsAssumption == Kids # {} /\ Lists # {}
ASSUME BoundAssumption == MaxSignals \in Nat

VARIABLES proc,      \* kid -> its process
          reaped,    \* handles whose returncode is set
          child,     \* child_state["child"]
          stop,      \* child_state["stop"]
          lastList,  \* child_state["last_model_list_hash"], and proxy.config.yaml
          refresh,   \* where the refresh thread is
          changed,   \* prev_hash # new_hash, a local of _run_catalogue_refresh
          main,      \* where the main thread is
          waited,    \* the handle _wait_for_litellm_child waits for
          frames,    \* signal handlers on the stack of the main thread
          draining,  \* drain_state["active"]
          signals,   \* signals received
          upstream   \* what discovery returns now

kids == <<proc, reaped, child>>
state == <<stop, lastList>>
thread == <<refresh, changed>>
mainVars == <<main, waited, frames, draining, signals>>
vars == <<kids, state, thread, mainVars, upstream>>

(* A process is up, has SIGTERM pending, has SIGKILL pending, or is over.  *)
Over == [st |-> "over"]
Proc == {Over} \cup [st : {"up", "term", "kill"}, list : Lists]
Live == {k \in Kids : proc[k].st \in {"up", "term", "kill"}}
Untouched == {k \in Kids : proc[k].st \in {"up", "term"}}

With(k, st) == [proc EXCEPT ![k].st = st]

(* Popen.terminate() and Popen.kill() of a process that may be over: they  *)
(* poll first (mutated: kill does not, and signals what is gone).          *)
Terminated(k) == IF proc[k].st = "up" THEN With(k, "term") ELSE proc
KilledBlind(k) == With(k, "kill")
Killed(k) == IF k \in Untouched THEN With(k, "kill") ELSE proc

(* Popen.wait() without a timeout keeps _waitpid_lock until the child is   *)
(* over, also while a signal handler interrupts it.                        *)
WaitpidLocked(k) == main = "wait" /\ waited = k /\ k \notin reaped

(* Popen.poll() is not None: it never waits for the lock, it says "still   *)
(* running" when somebody else has it.                                     *)
PollSees(k) == k \in reaped \/ (~WaitpidLocked(k) /\ proc[k].st = "over")
Polled(k) == IF PollSees(k) THEN reaped \cup {k} ELSE reaped

RefreshLocked == refresh \in {"build", "decide", "drain", "spawn"}

-----------------------------------------------------------------------------
(* The litellm child.                                                      *)

KidExits(k) ==
  /\ k \in Live
  /\ proc' = [proc EXCEPT ![k] = Over]
  /\ UNCHANGED <<reaped, child, state, thread, mainVars, upstream>>

-----------------------------------------------------------------------------
(* The refresh thread.                                                     *)

(* _loop: the interval is over, or xai.json changed.                       *)
RefreshBegin ==
  /\ refresh = "sleep" /\ ~stop
  /\ refresh' = "build"
  /\ UNCHANGED <<kids, state, changed, mainVars, upstream>>

RefreshEnds ==
  /\ refresh = "sleep" /\ stop
  /\ refresh' = "ended"
  /\ UNCHANGED <<kids, state, changed, mainVars, upstream>>

(* prev_hash is read before it is replaced; mutated: after.                *)
ChangedLate(list) == FALSE
Changed(list) == list # lastList

(* clear_model_cache() makes build_model_list ask again; mutated: it gives *)
(* the cached entries of the previous refresh.                             *)
DiscoveredBefore == lastList
Discovered == upstream

(* _write_proxy_config(): discovery, then the file.                        *)
RefreshWrite ==
  /\ refresh = "build"
  /\ changed' = Changed(Discovered)
  /\ lastList' = Discovered
  /\ refresh' = "decide"
  /\ UNCHANGED <<kids, stop, mainVars, upstream>>

(* Discovery or the write raises: the loop logs it and goes on.            *)
RefreshFails ==
  /\ refresh = "build"
  /\ refresh' = "sleep"
  /\ UNCHANGED <<kids, state, changed, mainVars, upstream>>

(* stop is read again, then the child is polled.                           *)
RefreshSkip ==
  /\ refresh = "decide"
  /\ stop \/ ~changed \/ PollSees(child)
  /\ reaped' = IF stop THEN reaped ELSE Polled(child)
  /\ refresh' = "sleep"
  /\ UNCHANGED <<proc, child, state, changed, mainVars, upstream>>

RefreshReload ==
  /\ refresh = "decide"
  /\ ~stop /\ changed /\ ~PollSees(child)
  /\ proc' = Terminated(child)
  /\ refresh' = "drain"
  /\ UNCHANGED <<reaped, child, state, changed, mainVars, upstream>>

ReloadSeesExit ==
  /\ refresh = "drain"
  /\ PollSees(child)
  /\ reaped' = Polled(child)
  /\ refresh' = "spawn"
  /\ UNCHANGED <<proc, child, state, changed, mainVars, upstream>>

(* drain_timeout of _reload_litellm_child; mutated: the kill is missing.   *)
ReloadKillNot(k) == proc
ReloadKill(k) == Killed(k)

ReloadDeadline ==
  /\ refresh = "drain"
  /\ ~PollSees(child)
  /\ proc' = ReloadKill(child)
  /\ refresh' = "spawn"
  /\ UNCHANGED <<reaped, child, state, changed, mainVars, upstream>>

(* A handle nobody refers to any more is reused.                           *)
Unused == {k \in Kids : /\ proc[k] = Over
                        /\ k \notin {child, waited}}

ReloadSpawn ==
  /\ refresh = "spawn"
  /\ \E k \in Unused :
       /\ proc' = [proc EXCEPT ![k] = [st |-> "up", list |-> lastList]]
       /\ reaped' = reaped \ {k}
       /\ child' = k
  /\ refresh' = "sleep"
  /\ UNCHANGED <<state, changed, mainVars, upstream>>

(* _spawn_litellm: the binary is gone, or fork fails.  child stays the dead *)
(* handle, which every later refresh polls as over and the main thread as   *)
(* the end: the reload is not tried again.                                  *)
ReloadSpawnFails ==
  /\ refresh = "spawn"
  /\ refresh' = "sleep"
  /\ UNCHANGED <<kids, state, changed, mainVars, upstream>>

RefreshThread ==
  /\ main # "gone"
  /\ \/ RefreshBegin \/ RefreshEnds \/ RefreshWrite \/ RefreshFails
     \/ RefreshSkip \/ RefreshReload \/ ReloadSeesExit \/ ReloadDeadline
     \/ ReloadSpawn \/ ReloadSpawnFails

-----------------------------------------------------------------------------
(* The main thread: _wait_for_litellm_child.                               *)

WaitReturns ==
  /\ main = "wait" /\ frames = <<>>
  /\ waited \in reaped \/ proc[waited].st = "over"
  /\ reaped' = reaped \cup {waited}
  /\ main' = "check"
  /\ UNCHANGED <<proc, child, state, thread, waited, frames, draining, signals, upstream>>

Replaced == ~stop /\ child # waited /\ ~PollSees(child)

WaitAgain ==
  /\ main = "check" /\ frames = <<>>
  /\ Replaced
  /\ waited' = child
  /\ main' = "wait"
  /\ UNCHANGED <<kids, state, thread, frames, draining, signals, upstream>>

WaitDone ==
  /\ main = "check" /\ frames = <<>>
  /\ ~Replaced
  /\ reaped' = IF stop THEN reaped ELSE Polled(child)
  /\ main' = "exit"
  /\ UNCHANGED <<proc, child, state, thread, waited, frames, draining, signals, upstream>>

(* typer.Exit: the interpreter shuts down and the daemon thread with it.   *)
Exit ==
  /\ main = "exit" /\ frames = <<>>
  /\ main' = "gone"
  /\ UNCHANGED <<kids, state, thread, waited, frames, draining, signals, upstream>>

-----------------------------------------------------------------------------
(* The signal handler, on the stack of the main thread.                    *)

Frame == [pc : {"lock"}, sig : {"TERM", "INT"}] \cup [pc : {"drain"}, kid : Kids]
Top == frames[Len(frames)]
Popped == SubSeq(frames, 1, Len(frames) - 1)

(* _shutdown_handler up to the lock.                                       *)
Signal(sig) ==
  /\ main # "gone" /\ signals < MaxSignals
  /\ signals' = signals + 1
  /\ stop' = TRUE
  /\ frames' = Append(frames, [pc |-> "lock", sig |-> sig])
  /\ UNCHANGED <<kids, lastList, thread, main, waited, draining, upstream>>

(* with refresh_lock: pass; mutated: nobody waits for a refresh under way. *)
QuietAlways == TRUE
Quiet == ~RefreshLocked

(* The lock was free; child_state["child"] is read after it.               *)
HandlerTerminates ==
  /\ frames # <<>> /\ Top.pc = "lock" /\ Quiet
  /\ ~(draining /\ Top.sig = "INT")
  /\ draining' = TRUE
  /\ proc' = Terminated(child)
  /\ frames' = Append(Popped, [pc |-> "drain", kid |-> child])
  /\ UNCHANGED <<reaped, child, state, thread, main, waited, signals, upstream>>

(* A second SIGINT: kill, SystemExit(130) through every frame.             *)
HandlerAborts ==
  /\ frames # <<>> /\ Top.pc = "lock" /\ Quiet
  /\ draining /\ Top.sig = "INT"
  /\ proc' = Killed(child)
  /\ frames' = <<>>
  /\ main' = "exit"
  /\ UNCHANGED <<reaped, child, state, thread, waited, draining, signals, upstream>>

HandlerSeesExit ==
  /\ frames # <<>> /\ Top.pc = "drain"
  /\ PollSees(Top.kid)
  /\ reaped' = Polled(Top.kid)
  /\ frames' = Popped
  /\ UNCHANGED <<proc, child, state, thread, main, waited, draining, signals, upstream>>

(* drain_timeout of the handler; mutated: it returns without the kill.     *)
HandlerKillNot(k) == proc
HandlerKill(k) == Killed(k)

HandlerDeadline ==
  /\ frames # <<>> /\ Top.pc = "drain"
  /\ proc' = HandlerKill(Top.kid)
  /\ frames' = Popped
  /\ UNCHANGED <<reaped, child, state, thread, main, waited, draining, signals, upstream>>

MainThread ==
  \/ WaitReturns \/ WaitAgain \/ WaitDone \/ Exit
  \/ HandlerTerminates \/ HandlerAborts \/ HandlerSeesExit \/ HandlerDeadline

-----------------------------------------------------------------------------
(* The world: providers come and go, login and logout included.            *)

DiscoveryChanges ==
  /\ upstream' \in Lists \ {upstream}
  /\ UNCHANGED <<kids, state, thread, mainVars>>

(* proxy(): the file is written, the child spawned, the thread started and *)
(* the handlers installed.  Before that a signal takes its default action. *)
Init ==
  /\ upstream \in Lists
  /\ lastList = upstream
  /\ child \in Kids
  /\ waited = child
  /\ proc = [k \in Kids |-> IF k = child THEN [st |-> "up", list |-> upstream] ELSE Over]
  /\ reaped = {}
  /\ stop = FALSE
  /\ refresh = "sleep" /\ changed = FALSE
  /\ main = "wait" /\ frames = <<>> /\ draining = FALSE /\ signals = 0

Next ==
  \/ \E k \in Kids : KidExits(k)
  \/ RefreshThread
  \/ MainThread
  \/ \E sig \in {"TERM", "INT"} : Signal(sig)
  \/ main # "gone" /\ DiscoveryChanges

Spec == Init /\ [][Next]_vars

(* A litellm that exits only when it is told to.                           *)
ObedientSpec ==
  Init /\ [][Next /\ \A k \in Kids : proc[k].st = "up" => proc'[k].st # "over"]_vars

(* Both threads run, their deadlines pass, and SIGKILL works.  Nothing is  *)
(* assumed of a child that got SIGTERM.                                    *)
FairSpec ==
  /\ Spec
  /\ WF_vars(RefreshThread)
  /\ WF_vars(MainThread)
  /\ \A k \in Kids : WF_vars(proc[k].st = "kill" /\ KidExits(k))

-----------------------------------------------------------------------------
(* Properties.                                                             *)

(* Types.                                                                  *)
TypeOK ==
  /\ proc \in [Kids -> Proc]
  /\ reaped \subseteq Kids
  /\ child \in Kids /\ waited \in Kids
  /\ stop \in BOOLEAN /\ draining \in BOOLEAN /\ changed \in BOOLEAN
  /\ {lastList, upstream} \subseteq Lists
  /\ refresh \in {"sleep", "build", "decide", "drain", "spawn", "ended"}
  /\ main \in {"wait", "check", "exit", "gone"}
  /\ frames \in Seq(Frame)
  /\ signals \in 0 .. MaxSignals

(* No two litellm processes contend for the port: when a reload spawns the *)
(* next one, the previous one is over or has been killed.                  *)
OneListener == Cardinality(Untouched) <= 1

(* A supervisor that was told to stop leaves no litellm behind, whatever a *)
(* reload was doing when the signal came.                                  *)
ShutdownLeavesNone == (main = "gone" /\ stop) => Untouched = {}

(* Between refreshes the child serves the list that last_model_list_hash   *)
(* stands for: an unchanged hash means there is nothing to reload.         *)
ChildServesLast ==
  (refresh = "sleep" /\ ~stop /\ proc[child].st = "up") => proc[child].list = lastList

(* A signal ends the supervisor, also when the child ignores SIGTERM and a *)
(* refresh holds the lock.                                                 *)
SignalEnds == stop ~> main = "gone"

(* When the world has settled and refreshes go on succeeding, litellm comes *)
(* to serve the list of the world as it is, and stays up with it.  That     *)
(* refreshes go on says that the supervisor runs: nothing is promised of    *)
(* one that a reload ends, by its respawn failing or by ReloadSurvives.     *)
ListConverges ==
  \A l \in Lists :
    (<>[](upstream = l) /\ []<><<RefreshWrite>>_vars)
      => <>[](proc[child].st = "up" /\ proc[child].list = l)

(* "no Podman/container restart": replacing the child does not end the     *)
(* supervisor.                                                             *)
ReloadSurvives ==
  [][(main = "check" /\ main' = "exit" /\ ~stop) => refresh \notin {"drain", "spawn"}]_vars
=============================================================================
