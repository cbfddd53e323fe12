------------------------------- MODULE HotSwap -------------------------------
(***************************************************************************)
(* What the worker promises to the callers of a GPU host: one model is     *)
(* served at a time, and it is exchanged behind a closed door.  Requests   *)
(* are admitted only while the door is open; the exchange begins when the  *)
(* requests inside are done, or when the drain is forced; the next model   *)
(* is served only after the previous one is gone.                          *)
(*                                                                         *)
(* Module Worker implements this specification.                            *)
(***************************************************************************)
CONSTANTS Gens,     \* callers
          Names,    \* models
          NoModel   \* "nothing is served"

VARIABLES served,   \* the model that lifecycle operations report
          phase,    \* "open", "draining" or "replacing"
          busy,     \* callers whose generation is inside
          forced    \* the last exchange began with somebody inside

vars == <<served, phase, busy, forced>>

Init ==
  /\ served = NoModel
  /\ phase = "open"
  /\ busy = {}
  /\ forced = FALSE

Admit(g) ==
  /\ phase = "open"
  /\ busy' = busy \cup {g}
  /\ UNCHANGED <<served, phase, forced>>

Done(g) ==
  /\ busy' = busy \ {g}
  /\ UNCHANGED <<served, phase, forced>>

CloseDoor ==
  /\ phase = "open"
  /\ phase' = "draining"
  /\ UNCHANGED <<served, busy, forced>>

(* Nobody is inside any more.                                              *)
NobodyLeft == busy = {}

(* The exchange begins: nobody is inside, or it is forced.                 *)
BeginExchange ==
  /\ phase = "draining"
  /\ phase' = "replacing"
  /\ forced' \in BOOLEAN
  /\ ~forced' => NobodyLeft
  /\ UNCHANGED <<served, busy>>

DropOld ==
  /\ phase = "replacing"
  /\ served' = NoModel
  /\ UNCHANGED <<phase, busy, forced>>

ServeNew(m) ==
  /\ phase = "replacing"
  /\ served = NoModel
  /\ served' = m
  /\ phase' = "open"
  /\ UNCHANGED <<busy, forced>>

(* The exchange fails; the door opens again all the same.                  *)
GiveUp ==
  /\ phase = "replacing"
  /\ phase' = "open"
  /\ UNCHANGED <<served, busy, forced>>

(* An explicit stop does not close the door.                               *)
Unload ==
  /\ phase = "open"
  /\ served' = NoModel
  /\ UNCHANGED <<phase, busy, forced>>

Restart == served' = NoModel /\ phase' = "open" /\ busy' = {} /\ forced' = FALSE

Next ==
  \/ \E g \in Gens : Admit(g) \/ Done(g)
  \/ CloseDoor
  \/ BeginExchange
  \/ DropOld
  \/ \E m \in Names : ServeNew(m)
  \/ GiveUp
  \/ Unload
  \/ Restart

Spec == Init /\ [][Next]_vars

=============================================================================
