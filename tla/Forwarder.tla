------------------------------ MODULE Forwarder -------------------------------
(***************************************************************************)
(* The xAI forwarder: requests that share one rotating OAuth credential.   *)
(* Each request loads xai.json, refreshes an expired token before it       *)
(* sends, and once more when the upstream answers 401; refreshes run under *)
(* _REFRESH_LOCK.  The operator logs in and out in another process, which  *)
(* writes the same file without that lock.                                 *)
(*                                                                         *)
(* A credential is a number, for its access and its refresh token alike.   *)
(* One action is one segment of a request between two awaits.              *)
(***************************************************************************)
EXTENDS Naturals, Sequences, FiniteSets

CONSTANTS Reqs,       \* requests in progress
          MaxToken    \* bound on the credentials that are ever minted

ASSUME TokensAssumption == MaxToken \in Nat \ {0}

VARIABLES disk,       \* xai.json; None if it is missing or cannot be parsed
          pc,         \* where each request is
          why,        \* what it refreshes for
          creds,      \* the credential each request works with
          new,        \* what the lock holder was granted and has not saved yet
          lock,       \* _REFRESH_LOCK: the holder, then its waiters in order
          flag,       \* _reauth_required
          dead,       \* _dead_refresh_token
          minted,     \* credentials the provider has issued
          valid,      \* refresh tokens the provider accepts
          expired,    \* access tokens past their expires_at
          revoked,    \* other access tokens the provider answers with 401
          superseded, \* refresh tokens whose successor has been saved
          refused     \* refresh tokens refused to this process

adapter == <<flag, dead>>
provider == <<minted, valid, expired, revoked>>
seen == <<superseded, refused>>
vars == <<disk, pc, why, creds, new, lock, adapter, provider, seen>>

Tokens == 1 .. MaxToken
None == 0

(* A request waits for the lock in _refresh_if_expired ("expiry") or       *)
(* _refresh_after_rejection ("rejection"); "post" is its call to the token *)
(* endpoint, "granted" and "refused" the answer on its way back.           *)
Reasons == {"expiry", "rejection"}
Phases == {"idle", "send", "wait", "post", "granted", "refused", "resend"}

At(r, phase) == pc' = [pc EXCEPT ![r] = phase]
Holding(r, t) == creds' = [creds EXCEPT ![r] = t]
Holder(r) == lock # <<>> /\ r = Head(lock)

(* async with releases on every way out; mutated: it does not.             *)
ReleasedNot == lock
Released == Tail(lock)

(* The answer to the caller: 2xx, 401, 403, 502 or 503 alike.              *)
Answer(r) ==
  At(r, "idle") /\ Holding(r, None) /\ why' = [why EXCEPT ![r] = "expiry"]

-----------------------------------------------------------------------------
(* lazy_retry_on_401, where xai.json holds a credential (the answer is 401  *)
(* without it and 503 when it cannot be parsed, with nothing changed).     *)

LoadFresh(r) ==
  /\ pc[r] = "idle"
  /\ disk # None /\ disk \notin expired
  /\ At(r, "send") /\ Holding(r, disk)
  /\ UNCHANGED <<disk, why, new, lock, adapter, provider, seen>>

LoadExpired(r) ==
  /\ pc[r] = "idle"
  /\ disk \in expired
  /\ At(r, "wait") /\ why' = [why EXCEPT ![r] = "expiry"] /\ Holding(r, disk)
  /\ lock' = Append(lock, r)
  /\ UNCHANGED <<disk, new, adapter, provider, seen>>

SendAnswered(r) ==
  /\ pc[r] = "send" /\ creds[r] \notin revoked
  /\ Answer(r)
  /\ UNCHANGED <<disk, new, lock, adapter, provider, seen>>

Send401(r) ==
  /\ pc[r] = "send" /\ creds[r] \in expired \cup revoked
  /\ At(r, "wait") /\ why' = [why EXCEPT ![r] = "rejection"]
  /\ lock' = Append(lock, r)
  /\ UNCHANGED <<disk, creds, new, adapter, provider, seen>>

(* The connection fails, or times out.                                     *)
SendFails(r) ==
  /\ pc[r] = "send"
  /\ Answer(r)
  /\ UNCHANGED <<disk, new, lock, adapter, provider, seen>>

ResendAnswered(r) ==
  /\ pc[r] = "resend"
  /\ Answer(r)
  /\ UNCHANGED <<disk, new, lock, adapter, provider, seen>>

-----------------------------------------------------------------------------
(* Under the lock.                                                         *)

(* The credential the refresh works with is loaded again; mutated: it is   *)
(* the one the request came with.                                          *)
LoadedBefore(r) == creds[r]
Loaded(r) == disk

(* Somebody else refreshed while this request waited; mutated: not asked.  *)
FreshNever(r) == FALSE
Fresh(r) ==
  \/ why[r] = "expiry" /\ Loaded(r) \notin expired
  \/ why[r] = "rejection" /\ Loaded(r) # creds[r]

(* The back-off of refresh(); mutated: there is none.                      *)
BackOffNever(t) == FALSE
BackOff(t) == flag /\ t = dead

(* creds is None, or the load raises; mutated: not asked.                  *)
GoneNever(r) == FALSE
Gone(r) == Loaded(r) = None

Enters(r) == Holder(r) /\ pc[r] = "wait"
SendAgain(r) == At(r, IF why[r] = "expiry" THEN "send" ELSE "resend")

Vanished(r) ==
  /\ Enters(r) /\ Gone(r)
  /\ Answer(r)
  /\ lock' = Released
  /\ UNCHANGED <<disk, new, adapter, provider, seen>>

AlreadyRefreshed(r) ==
  /\ Enters(r) /\ ~Gone(r) /\ Fresh(r)
  /\ SendAgain(r) /\ Holding(r, Loaded(r))
  /\ lock' = Released
  /\ UNCHANGED <<disk, why, new, adapter, provider, seen>>

BacksOff(r) ==
  /\ Enters(r) /\ ~Gone(r) /\ ~Fresh(r) /\ BackOff(Loaded(r))
  /\ Answer(r)
  /\ lock' = Released
  /\ UNCHANGED <<disk, new, adapter, provider, seen>>

Post(r) ==
  /\ Enters(r) /\ ~Gone(r) /\ ~Fresh(r) /\ ~BackOff(Loaded(r))
  /\ At(r, "post") /\ Holding(r, Loaded(r))
  /\ UNCHANGED <<disk, why, new, lock, adapter, provider, seen>>

(* refresh() returns: the flag is cleared, the credential saved, and the   *)
(* lock released in one segment.                                           *)
Returned ==
  /\ flag' = FALSE /\ dead' = None
  /\ new' = None
  /\ lock' = Released

Granted(r) ==
  /\ pc[r] = "granted"
  /\ Returned
  /\ disk' = new /\ superseded' = superseded \cup {creds[r]}
  /\ SendAgain(r) /\ Holding(r, new)
  /\ UNCHANGED <<why, provider, refused>>

(* store_save() raises.  It renames a file it has written beside, so that  *)
(* xai.json keeps the credential that was exchanged, and what was granted  *)
(* is lost.                                                                *)
SaveFails(r) ==
  /\ pc[r] = "granted"
  /\ Returned
  /\ Answer(r)
  /\ UNCHANGED <<disk, provider, seen>>

(* ReauthRequired: mutated, the flag is set by the first refusal only.     *)
DeadKept(r) == IF flag THEN dead ELSE creds[r]
Dead(r) == creds[r]

Refused(r) ==
  /\ pc[r] = "refused"
  /\ flag' = TRUE /\ dead' = Dead(r)
  /\ Answer(r)
  /\ lock' = Released
  /\ UNCHANGED <<disk, new, provider, seen>>

(* RuntimeError and the like: 5xx, no connection.                          *)
PostFails(r) ==
  /\ pc[r] = "post"
  /\ Answer(r)
  /\ lock' = Released
  /\ UNCHANGED <<disk, new, adapter, provider, seen>>

-----------------------------------------------------------------------------
(* The provider (refresh_credentials runs in the executor).                *)

(* A refresh token is exchanged once; the answer may be lost.              *)
Exchange(r) ==
  /\ pc[r] = "post"
  /\ creds[r] \in valid /\ minted < MaxToken
  /\ minted' = minted + 1
  /\ valid' = (valid \ {creds[r]}) \cup {minted'}
  /\ At(r, "granted") /\ new' = minted'
  /\ UNCHANGED <<disk, why, creds, lock, adapter, expired, revoked, seen>>

ExchangeLost(r) ==
  /\ pc[r] = "post"
  /\ creds[r] \in valid
  /\ valid' = valid \ {creds[r]}
  /\ Answer(r)
  /\ lock' = Released
  /\ UNCHANGED <<disk, new, adapter, minted, expired, revoked, seen>>

Refuse(r) ==
  /\ pc[r] = "post"
  /\ creds[r] \notin valid
  /\ refused' = refused \cup {creds[r]}
  /\ At(r, "refused")
  /\ UNCHANGED <<disk, why, creds, new, lock, adapter, provider, superseded>>

(* An access token that expired in flight gets 401 or 403.                 *)
Lapse ==
  /\ \/ \E t \in (1 .. minted) \ expired :
          /\ expired' = expired \cup {t} /\ revoked' = revoked \ {t}
          /\ UNCHANGED valid
     \/ \E t \in (1 .. minted) \ (expired \cup revoked) :
          revoked' = revoked \cup {t} /\ UNCHANGED <<valid, expired>>
     \/ \E t \in valid : valid' = valid \ {t} /\ UNCHANGED <<expired, revoked>>
  /\ UNCHANGED <<disk, pc, why, creds, new, lock, adapter, minted, seen>>

-----------------------------------------------------------------------------
(* GET /health, the operator, and restarts.                                *)

(* _sync_reauth_state, which a file that cannot be parsed does not reach;  *)
(* mutated: any credential clears the flag.                                *)
ReauthedAlways == disk # None
Reauthed == disk # None /\ disk # dead

Health ==
  /\ flag /\ Reauthed
  /\ flag' = FALSE /\ dead' = None
  /\ UNCHANGED <<disk, pc, why, creds, new, lock, provider, seen>>

(* llmcli xai login; logout, or an edit that leaves no credential to load. *)
Login ==
  /\ minted < MaxToken
  /\ minted' = minted + 1
  /\ valid' = valid \cup {minted'}
  /\ disk' = minted'
  /\ UNCHANGED <<pc, why, creds, new, lock, adapter, expired, revoked, seen>>

Logout ==
  /\ disk # None
  /\ disk' = None
  /\ UNCHANGED <<pc, why, creds, new, lock, adapter, provider, seen>>

(* The process ends: what the provider granted and was not saved is lost.  *)
Restart ==
  /\ pc' = [r \in Reqs |-> "idle"]
  /\ why' = [r \in Reqs |-> "expiry"]
  /\ creds' = [r \in Reqs |-> None] /\ new' = None
  /\ lock' = <<>>
  /\ flag' = FALSE /\ dead' = None
  /\ refused' = {}
  /\ UNCHANGED <<disk, provider, superseded>>

-----------------------------------------------------------------------------
Init ==
  /\ disk = None /\ minted = 0 /\ valid = {} /\ expired = {} /\ revoked = {}
  /\ pc = [r \in Reqs |-> "idle"]
  /\ why = [r \in Reqs |-> "expiry"]
  /\ creds = [r \in Reqs |-> None] /\ new = None
  /\ lock = <<>>
  /\ flag = FALSE /\ dead = None
  /\ superseded = {} /\ refused = {}

Arrives(r) == LoadFresh(r) \/ LoadExpired(r)

Proceeds(r) ==
  \/ SendAnswered(r) \/ Send401(r) \/ SendFails(r) \/ ResendAnswered(r)
  \/ Vanished(r) \/ AlreadyRefreshed(r) \/ BacksOff(r) \/ Post(r)
  \/ Granted(r) \/ SaveFails(r) \/ Refused(r) \/ PostFails(r)
  \/ Exchange(r) \/ ExchangeLost(r) \/ Refuse(r)

Next ==
  \/ \E r \in Reqs : Arrives(r) \/ Proceeds(r)
  \/ Lapse \/ Health \/ Login \/ Logout \/ Restart

Spec == Init /\ [][Next]_vars

(* The event loop runs every request; the provider answers, or the call    *)
(* times out.                                                              *)
FairSpec == Spec /\ \A r \in Reqs : WF_vars(Proceeds(r))

-----------------------------------------------------------------------------
(* Properties.                                                             *)

(* Types; a request in progress has a credential.                          *)
TypeOK ==
  /\ disk \in Tokens \cup {None}
  /\ pc \in [Reqs -> Phases]
  /\ why \in [Reqs -> Reasons]
  /\ creds \in [Reqs -> Tokens \cup {None}]
  /\ \A r \in Reqs : creds[r] = None <=> pc[r] = "idle"
  /\ new \in Tokens \cup {None}
  /\ lock \in Seq(Reqs)
  /\ flag \in BOOLEAN /\ dead \in Tokens \cup {None}
  /\ minted \in 0 .. MaxToken
  /\ valid \cup expired \cup revoked \cup superseded \cup refused \subseteq 1 .. minted

Posts(r) == pc[r] = "post"

(* "Protects single-use refresh tokens": once the successor of a refresh   *)
(* token has been saved, no request posts the old one again, whatever it   *)
(* had loaded before and whoever refreshed, in this process or before.  A  *)
(* token whose successor was never saved (the answer was lost, the save    *)
(* failed, the process ended) stays on disk and is posted again: the       *)
(* provider refuses it, and NoRepost says that this happens once.          *)
SingleUse == \A r \in Reqs : Posts(r) => creds[r] \notin superseded

(* "Exactly one refresh": requests that waited for the lock do not post    *)
(* again a credential somebody else has just refreshed.                    *)
PostOnlyWhenNeeded == \A r \in Reqs : Posts(r) => creds[r] \in expired \cup revoked

(* "Not re-POSTing": a refresh token that was refused to this process is   *)
(* not posted by it again.                                                 *)
NoRepost == \A r \in Reqs : Posts(r) => creds[r] \notin refused

(* While the file holds a credential known to be dead, /health says so.    *)
DeadDiskFlagged ==
  (disk \in refused /\ \A r \in Reqs : pc[r] # "refused")
    => flag /\ dead = disk

(* Every request is answered.                                              *)
Answered == \A r \in Reqs : pc[r] # "idle" ~> pc[r] = "idle"
=============================================================================
