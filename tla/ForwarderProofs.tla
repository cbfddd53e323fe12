--------------------------- MODULE ForwarderProofs ----------------------------
(***************************************************************************)
(* Proofs about module Forwarder, for every set of requests and every      *)
(* number of credentials.                                                  *)
(*                                                                         *)
(* The invariant ForwarderInv has two halves.  LockDiscipline says that    *)
(* one request at a time is between the load of the credential and the     *)
(* end of its refresh.  The others say what that buys: the credential on   *)
(* disk is never one whose successor was saved, and one that was refused   *)
(* only while its holder is on the way to flag it.                         *)
(***************************************************************************)
EXTENDS Forwarder, TLAPS

Queued == {"wait", "post", "granted", "refused"}    \* phases with a place in lock
Refreshing == {"post", "granted", "refused"}        \* phases of the lock holder

LockDiscipline ==
  /\ \A i, j \in DOMAIN lock : lock[i] = lock[j] => i = j
  /\ \A r \in Reqs : pc[r] \in Queued <=> \E i \in DOMAIN lock : lock[i] = r
  /\ \A r \in Reqs : pc[r] \in Refreshing => Holder(r)

(* Every credential in use has been issued.                                *)
Issued ==
  /\ disk <= minted
  /\ \A r \in Reqs : creds[r] <= minted

(* Whoever posts, or waits after a 401, has a credential that is no good.  *)
AskedFor ==
  \A r \in Reqs :
    (pc[r] = "post" \/ (pc[r] = "wait" /\ why[r] = "rejection"))
      => creds[r] \in expired \cup revoked

(* What is on disk or posted is not a credential that has been replaced.   *)
DiskCurrent ==
  /\ disk \notin superseded
  /\ \A r \in Reqs : pc[r] = "post" => creds[r] \notin superseded \cup refused

(* What is about to be saved has been issued, and never been used.         *)
GrantIsNew ==
  \A r \in Reqs : pc[r] = "granted" =>
    new \in 1 .. minted /\ new # creds[r] /\ new \notin superseded \cup refused

(* A refused credential is on disk only until it is flagged.               *)
DiskUnrefused ==
  /\ disk \in refused => (flag /\ dead = disk) \/ \E r \in Reqs : pc[r] = "refused"
  /\ \A r \in Reqs : pc[r] \in {"post", "granted"} => disk \notin refused
  /\ \A r \in Reqs : (pc[r] = "refused" /\ disk \in refused) => disk = creds[r]

ForwarderInv ==
  /\ TypeOK
  /\ LockDiscipline
  /\ Issued
  /\ AskedFor
  /\ DiskCurrent
  /\ GrantIsNew
  /\ DiskUnrefused

(* Somebody else's step.                                                   *)
Spares(r) ==
  \A s \in Reqs : s # r => pc'[s] = pc[s] /\ creds'[s] = creds[s] /\ why'[s] = why[s]

LEMMA OneRefreshes ==
  ASSUME LockDiscipline, NEW r \in Reqs, pc[r] \in Refreshing \/ Holder(r)
  PROVE  \A s \in Reqs : s # r => pc[s] \notin Refreshing
<1>. QED
  BY DEF LockDiscipline, Holder

-----------------------------------------------------------------------------
(* The lock.                                                               *)

LockTypeOK == pc \in [Reqs -> Phases] /\ lock \in Seq(Reqs)

LEMMA LockJoined ==
  ASSUME LockTypeOK, LockDiscipline, NEW r \in Reqs, pc[r] \notin Queued,
         pc' = [pc EXCEPT ![r] = "wait"], lock' = Append(lock, r)
  PROVE  LockDiscipline' /\ lock' \in Seq(Reqs)
<1>. DEFINE n == Len(lock)
<1>1. /\ n \in Nat /\ DOMAIN lock = 1 .. n /\ DOMAIN lock' = 1 .. n + 1
      /\ \A i \in 1 .. n : lock'[i] = lock[i] /\ lock[i] # r
      /\ lock'[n + 1] = r /\ lock' \in Seq(Reqs)
  BY DEF LockTypeOK, LockDiscipline
<1>2. \A i, j \in DOMAIN lock' : lock'[i] = lock'[j] => i = j
  BY <1>1 DEF LockDiscipline
<1>3. ASSUME NEW s \in Reqs
      PROVE  pc'[s] \in Queued <=> \E i \in DOMAIN lock' : lock'[i] = s
  <2>1. CASE s = r
    BY <1>1, <2>1 DEF LockTypeOK, Queued
  <2>2. CASE s # r
    <3>1. pc'[s] \in Queued <=> \E i \in 1 .. n : lock[i] = s
      BY <1>1, <2>2 DEF LockDiscipline, LockTypeOK
    <3>. QED
      BY <1>1, <2>2, <3>1
  <2>. QED
    BY <2>1, <2>2
<1>4. ASSUME NEW s \in Reqs, pc'[s] \in Refreshing
      PROVE  Holder(s)'
  <2>1. pc[s] \in Refreshing
    BY <1>4 DEF LockTypeOK, Refreshing
  <2>2. lock # <<>> /\ s = lock[1] /\ 1 \in 1 .. n
    BY <1>1, <2>1 DEF LockDiscipline, Holder
  <2>. QED
    BY <1>1, <2>2 DEF Holder
<1>. QED
  BY <1>1, <1>2, <1>3, <1>4 DEF LockDiscipline

LEMMA LockLeft ==
  ASSUME LockTypeOK, LockDiscipline, NEW r \in Reqs, Holder(r), NEW ph \in Phases \ Queued,
         pc' = [pc EXCEPT ![r] = ph], lock' = Tail(lock)
  PROVE  LockDiscipline' /\ lock' \in Seq(Reqs)
<1>. DEFINE n == Len(lock)
<1>1. /\ n \in Nat /\ n > 0 /\ DOMAIN lock = 1 .. n /\ lock[1] = r
      /\ \A i \in 1 .. n : lock[i] \in Reqs
  BY DEF Holder, LockTypeOK
<1>2. /\ lock' \in Seq(Reqs) /\ DOMAIN lock' = 1 .. n - 1
      /\ \A i \in 1 .. n - 1 : lock'[i] = lock[i + 1] /\ i + 1 \in 1 .. n
  BY <1>1 DEF LockTypeOK
<1>3. \A i, j \in DOMAIN lock' : lock'[i] = lock'[j] => i = j
  <2> SUFFICES ASSUME NEW i \in 1 .. n - 1, NEW j \in 1 .. n - 1, lock'[i] = lock'[j]
               PROVE  i = j
    BY <1>2
  <2>1. i + 1 = j + 1
    BY <1>1, <1>2 DEF LockDiscipline
  <2>. QED
    BY <2>1
<1>4. ASSUME NEW s \in Reqs
      PROVE  pc'[s] \in Queued <=> \E i \in DOMAIN lock' : lock'[i] = s
  <2>1. CASE s = r
    <3>1. \A i \in 1 .. n - 1 : lock[i + 1] # r
      BY <1>1, <1>2 DEF LockDiscipline
    <3>. QED
      BY <1>2, <2>1, <3>1 DEF LockTypeOK
  <2>2. CASE s # r
    <3>1. pc'[s] \in Queued <=> \E i \in 1 .. n : lock[i] = s
      BY <1>1, <2>2 DEF LockDiscipline, LockTypeOK
    <3>2. ASSUME NEW i \in 1 .. n, lock[i] = s
          PROVE  \E k \in 1 .. n - 1 : lock'[k] = s
      <4>1. i # 1
        BY <1>1, <2>2, <3>2
      <4>2. i - 1 \in 1 .. n - 1 /\ (i - 1) + 1 = i
        BY <1>1, <4>1
      <4>. QED
        BY <1>2, <3>2, <4>2
    <3>3. (\E i \in 1 .. n - 1 : lock'[i] = s) => \E i \in 1 .. n : lock[i] = s
      BY <1>2
    <3>. QED
      BY <1>2, <3>1, <3>2, <3>3
  <2>. QED
    BY <2>1, <2>2
<1>5. \A s \in Reqs : pc'[s] \notin Refreshing
  BY OneRefreshes DEF LockTypeOK, Refreshing, Queued
<1>. QED
  BY <1>2, <1>3, <1>4, <1>5 DEF LockDiscipline

LEMMA LockKept ==
  ASSUME LockTypeOK, LockDiscipline, NEW r \in Reqs, NEW ph \in Phases,
         pc' = [pc EXCEPT ![r] = ph], lock' = lock,
         \/ pc[r] \notin Queued /\ ph \notin Queued
         \/ pc[r] \in Queued /\ ph \in Queued /\ Holder(r)
  PROVE  LockDiscipline'
<1>1. \A s \in Reqs : pc'[s] \in Queued <=> pc[s] \in Queued
  BY DEF LockTypeOK
<1>2. \A s \in Reqs : pc'[s] \in Refreshing => Holder(s)
  BY DEF LockTypeOK, LockDiscipline, Queued, Refreshing
<1>. QED
  BY <1>1, <1>2 DEF LockDiscipline, Holder

(* Which requests are at the head of the lock.                             *)
LEMMA RefreshHolds ==
  ASSUME LockDiscipline, NEW r \in Reqs, pc[r] \in Refreshing
  PROVE  Holder(r) /\ pc[r] \in Queued
<1>. QED
  BY DEF LockDiscipline, Queued, Refreshing

LEMMA StepLock ==
  ASSUME LockTypeOK, LockDiscipline, NEW r \in Reqs, Arrives(r) \/ Proceeds(r)
  PROVE  LockDiscipline' /\ lock' \in Seq(Reqs)
<1> USE DEF At, Answer, SendAgain, Released, Enters, Phases, Queued, Refreshing
<1>1. CASE LoadExpired(r) \/ Send401(r)
  BY <1>1, LockJoined DEF LoadExpired, Send401
<1>2. CASE LoadFresh(r) \/ SendAnswered(r) \/ SendFails(r) \/ ResendAnswered(r)
  <2>1. /\ pc[r] \notin Queued /\ lock' = lock
        /\ \E ph \in Phases \ Queued : pc' = [pc EXCEPT ![r] = ph]
    BY <1>2 DEF LoadFresh, SendAnswered, SendFails, ResendAnswered
  <2>. QED
    BY <2>1, LockKept DEF LockTypeOK
<1>3. CASE Vanished(r) \/ AlreadyRefreshed(r) \/ BacksOff(r)
  <2>1. /\ Holder(r) /\ lock' = Tail(lock)
        /\ \E ph \in Phases \ Queued : pc' = [pc EXCEPT ![r] = ph]
    BY <1>3 DEF Vanished, AlreadyRefreshed, BacksOff
  <2>. QED
    BY <2>1, LockLeft
<1>4. CASE Granted(r) \/ SaveFails(r) \/ Refused(r) \/ PostFails(r) \/ ExchangeLost(r)
  <2>1. /\ pc[r] \in Refreshing /\ lock' = Tail(lock)
        /\ \E ph \in Phases \ Queued : pc' = [pc EXCEPT ![r] = ph]
    BY <1>4 DEF Granted, SaveFails, Returned, Refused, PostFails, ExchangeLost
  <2>. QED
    BY <2>1, LockLeft, RefreshHolds
<1>5. CASE Post(r) \/ Exchange(r) \/ Refuse(r)
  <2>1. /\ pc[r] = "post" \/ (pc[r] = "wait" /\ Holder(r))
        /\ lock' = lock
        /\ \E ph \in Queued : pc' = [pc EXCEPT ![r] = ph]
    BY <1>5 DEF Post, Exchange, Refuse
  <2>2. Holder(r) /\ pc[r] \in Queued
    BY <2>1, RefreshHolds
  <2>. QED
    BY <2>1, <2>2, LockKept DEF LockTypeOK
<1>. QED
  BY <1>1, <1>2, <1>3, <1>4, <1>5 DEF Arrives, Proceeds

LEMMA StepSpares ==
  ASSUME TypeOK, NEW r \in Reqs, Arrives(r) \/ Proceeds(r)
  PROVE  Spares(r)
<1> USE DEF TypeOK, Spares, At, Holding, Answer, SendAgain
<1>1. CASE Arrives(r) \/ SendAnswered(r) \/ Send401(r) \/ SendFails(r) \/ ResendAnswered(r)
  BY <1>1 DEF Arrives, LoadFresh, LoadExpired, SendAnswered, Send401, SendFails, ResendAnswered
<1>2. CASE \/ Vanished(r) \/ AlreadyRefreshed(r) \/ BacksOff(r) \/ Post(r)
           \/ Granted(r) \/ SaveFails(r) \/ Refused(r) \/ PostFails(r)
  BY <1>2 DEF Vanished, AlreadyRefreshed, BacksOff, Post, Granted, SaveFails, Refused, PostFails
<1>3. CASE Exchange(r) \/ ExchangeLost(r) \/ Refuse(r)
  BY <1>3 DEF Exchange, ExchangeLost, Refuse
<1>. QED
  BY <1>1, <1>2, <1>3 DEF Proceeds

-----------------------------------------------------------------------------
(* Types, and the credentials that have been issued.                       *)

TokenTypeOK ==
  /\ disk \in Tokens \cup {None}
  /\ flag \in BOOLEAN /\ dead \in Tokens \cup {None}
  /\ new \in Tokens \cup {None}
  /\ minted \in 0 .. MaxToken
  /\ valid \cup expired \cup revoked \cup superseded \cup refused \subseteq 1 .. minted

RequestTypeOK ==
  /\ pc \in [Reqs -> Phases]
  /\ why \in [Reqs -> Reasons]
  /\ creds \in [Reqs -> Tokens \cup {None}]
  /\ \A r \in Reqs : creds[r] = None <=> pc[r] = "idle"

LEMMA TypesSplit == TypeOK <=> (TokenTypeOK /\ RequestTypeOK /\ lock \in Seq(Reqs))
<1>. QED
  BY DEF TypeOK, TokenTypeOK, RequestTypeOK

LEMMA StepTypes ==
  ASSUME TypeOK, Issued, LockDiscipline, GrantIsNew, NEW r \in Reqs, Arrives(r) \/ Proceeds(r)
  PROVE  RequestTypeOK' /\ TokenTypeOK' /\ Issued'
<1> USE TokensAssumption DEF Tokens, None, Phases, Reasons, At, Holding
<1>0. /\ pc \in [Reqs -> Phases] /\ creds \in [Reqs -> Tokens \cup {None}]
      /\ why \in [Reqs -> Reasons] /\ TokenTypeOK
      /\ \A s \in Reqs : creds[s] = None <=> pc[s] = "idle"
  BY TypesSplit DEF TypeOK
<1>1. CASE Arrives(r)
  <2>1. /\ disk \in Tokens \ {None} /\ creds' = [creds EXCEPT ![r] = disk]
        /\ UNCHANGED <<disk, new, flag, dead, minted, valid, expired, revoked, superseded, refused>>
    BY <1>0, <1>1 DEF Arrives, LoadFresh, LoadExpired, adapter, provider, seen, TokenTypeOK
  <2>2. TokenTypeOK'
    BY <1>0, <2>1 DEF TokenTypeOK
  <2>3. RequestTypeOK'
    BY <1>0, <1>1, <2>1 DEF Arrives, LoadFresh, LoadExpired, RequestTypeOK
  <2>4. Issued'
    BY <1>0, <2>1 DEF Issued
  <2>. QED
    BY <2>2, <2>3, <2>4
<1>2. CASE Answer(r) /\ UNCHANGED <<disk, provider>> /\ TokenTypeOK'
  BY <1>0, <1>2 DEF Answer, provider, RequestTypeOK, Issued, TokenTypeOK
<1>3. CASE \/ SendAnswered(r) \/ SendFails(r) \/ ResendAnswered(r)
           \/ Vanished(r) \/ BacksOff(r) \/ PostFails(r)
  BY <1>0, <1>2, <1>3 DEF SendAnswered, SendFails, ResendAnswered, Vanished, BacksOff, PostFails,
                          adapter, provider, seen, TokenTypeOK
<1>4. CASE Refused(r) \/ SaveFails(r)
  BY <1>0, <1>2, <1>4 DEF Refused, Dead, SaveFails, Returned, provider, seen, TokenTypeOK
<1>5. CASE Send401(r) \/ Refuse(r)
  <2>1. pc[r] \in {"send", "post"} /\ UNCHANGED <<creds, new, disk, adapter, minted, valid, expired, revoked, superseded>>
    BY <1>5 DEF Send401, Refuse, provider, seen, adapter
  <2>2. creds[r] \in 1 .. minted
    BY <1>0, <2>1 DEF Issued, TokenTypeOK
  <2>. QED
    BY <1>0, <1>5, <2>1, <2>2 DEF Send401, Refuse, provider, seen, adapter,
                            TokenTypeOK, RequestTypeOK, Issued
<1>6. CASE AlreadyRefreshed(r) \/ Post(r)
  BY <1>0, <1>6 DEF AlreadyRefreshed, Post, Enters, Gone, Loaded, SendAgain, adapter, provider, seen,
                    TokenTypeOK, RequestTypeOK, Issued
<1>7. CASE Granted(r)
  <2>1. /\ disk' = new /\ creds' = [creds EXCEPT ![r] = new] /\ superseded' = superseded \cup {creds[r]}
        /\ flag' = FALSE /\ dead' = None /\ new' = None
        /\ UNCHANGED <<why, minted, valid, expired, revoked, refused>>
        /\ \E ph \in Phases \ {"idle"} : pc' = [pc EXCEPT ![r] = ph]
    BY <1>7 DEF Granted, Returned, SendAgain, provider
  <2>2. /\ new \in 1 .. minted /\ minted \in Nat /\ minted <= MaxToken
        /\ creds[r] \in 1 .. minted
    BY <1>0, <1>7 DEF Granted, GrantIsNew, Issued, TokenTypeOK
  <2>3. new \in Tokens /\ new # None /\ new <= minted
    BY <2>2
  <2>4. TokenTypeOK'
    BY <1>0, <2>1, <2>2, <2>3 DEF TokenTypeOK
  <2>5. RequestTypeOK'
    BY <1>0, <2>1, <2>3 DEF RequestTypeOK
  <2>6. Issued'
    BY <1>0, <2>1, <2>3 DEF Issued
  <2>. QED
    BY <2>4, <2>5, <2>6
<1>8. CASE Exchange(r)
  <2>1. minted \in Nat /\ minted' = minted + 1 /\ minted' \in Tokens /\ minted' # None
    BY <1>0, <1>8 DEF Exchange, TokenTypeOK
  <2>2. 1 .. minted \subseteq 1 .. minted' /\ minted' \in 1 .. minted' /\ minted <= minted'
    BY <2>1
  <2>3. creds[r] \in 1 .. minted
    BY <1>0, <1>8 DEF Exchange, TokenTypeOK
  <2>4. TokenTypeOK'
    BY <1>0, <1>8, <2>1, <2>2, <2>3 DEF Exchange, adapter, seen, TokenTypeOK
  <2>5. RequestTypeOK'
    BY <1>0, <1>8, <2>1 DEF Exchange, RequestTypeOK
  <2>6. Issued'
    BY <1>0, <1>8, <2>1 DEF Exchange, Issued, TokenTypeOK
  <2>. QED
    BY <2>4, <2>5, <2>6
<1>9. CASE ExchangeLost(r)
  BY <1>0, <1>9 DEF ExchangeLost, Answer, adapter, seen, TokenTypeOK, RequestTypeOK, Issued
<1>. QED
  BY <1>1, <1>3, <1>4, <1>5, <1>6, <1>7, <1>8, <1>9 DEF Proceeds

-----------------------------------------------------------------------------
(* What the credentials have been through.                                 *)

TokenInv == AskedFor /\ DiskCurrent /\ GrantIsNew /\ DiskUnrefused

(* A request that is about to post has loaded the credential under the     *)
(* lock: nobody has an answer on its way that would spend or condemn it.   *)
LEMMA PostIsSafe ==
  ASSUME TypeOK, LockDiscipline, AskedFor, DiskCurrent, DiskUnrefused, NEW r \in Reqs, Post(r)
  PROVE  /\ disk \notin superseded \cup refused
         /\ disk \in expired \cup revoked
         /\ creds'[r] = disk /\ pc'[r] = "post"
<1>1. /\ pc[r] = "wait" /\ Holder(r)
      /\ ~Fresh(r) /\ ~BackOff(disk)
      /\ creds'[r] = disk /\ pc'[r] = "post"
  BY DEF Post, Enters, Loaded, Holding, At, TypeOK
<1>2. \A s \in Reqs : pc[s] \notin Refreshing
  BY <1>1, OneRefreshes DEF Refreshing
<1>3. disk \notin superseded
  BY DEF DiskCurrent
<1>4. disk \notin refused
  BY <1>1, <1>2 DEF DiskUnrefused, Refreshing, BackOff
<1>5. disk \in expired \cup revoked
  <2>1. CASE why[r] = "expiry"
    BY <1>1, <2>1 DEF Fresh, Loaded
  <2>2. CASE why[r] = "rejection"
    BY <1>1, <2>2 DEF Fresh, Loaded, AskedFor
  <2>. QED
    BY <2>1, <2>2 DEF TypeOK, Reasons
<1>. QED
  BY <1>1, <1>3, <1>4, <1>5

(* The steps that leave the file, the adapter and the provider alone.      *)
Quiet(r) ==
  /\ UNCHANGED <<disk, new, adapter, provider, seen>>
  /\ pc[r] \in {"idle", "send", "resend", "wait", "post"}
  /\ pc'[r] \in {"idle", "send", "resend", "wait", "post"}

LEMMA QuietSteps ==
  ASSUME TypeOK, NEW r \in Reqs,
         \/ Arrives(r) \/ SendAnswered(r) \/ Send401(r) \/ SendFails(r) \/ ResendAnswered(r)
         \/ Vanished(r) \/ AlreadyRefreshed(r) \/ BacksOff(r) \/ Post(r) \/ PostFails(r)
  PROVE  /\ Quiet(r)
         /\ pc'[r] = "post" => Post(r)
         /\ (pc'[r] = "wait" /\ why'[r] = "rejection") => (UNCHANGED creds /\ creds[r] \in expired \cup revoked)
<1> USE DEF TypeOK, Quiet, At, Holding, Answer, SendAgain, Enters
<1>1. CASE Arrives(r) \/ SendAnswered(r) \/ Send401(r) \/ SendFails(r) \/ ResendAnswered(r)
  BY <1>1 DEF Arrives, LoadFresh, LoadExpired, SendAnswered, Send401, SendFails, ResendAnswered
<1>2. CASE Vanished(r) \/ AlreadyRefreshed(r) \/ BacksOff(r) \/ PostFails(r)
  BY <1>2 DEF Vanished, AlreadyRefreshed, BacksOff, PostFails
<1>3. CASE Post(r)
  BY <1>3 DEF Post
<1>. QED
  BY <1>1, <1>2, <1>3

LEMMA QuietInv ==
  ASSUME TypeOK, LockDiscipline, TokenInv, NEW r \in Reqs, Spares(r), Quiet(r),
         pc'[r] = "post" => Post(r),
         (pc'[r] = "wait" /\ why'[r] = "rejection") => (UNCHANGED creds /\ creds[r] \in expired \cup revoked)
  PROVE  TokenInv'
<1> USE DEF TokenInv
<1>1. UNCHANGED <<disk, new, flag, dead, minted, valid, expired, revoked, superseded, refused>>
  BY DEF Quiet, adapter, provider, seen
<1>2. pc'[r] = "post" => /\ disk \notin superseded \cup refused
                         /\ disk \in expired \cup revoked /\ creds'[r] = disk
  BY PostIsSafe
<1>3. AskedFor'
  BY <1>1, <1>2 DEF AskedFor, Spares
<1>4. DiskCurrent'
  BY <1>1, <1>2 DEF Spares, DiskCurrent
<1>5. GrantIsNew'
  BY <1>1 DEF Quiet, Spares, GrantIsNew
<1>6. DiskUnrefused'
  <2>1. \A s \in Reqs : pc[s] = "refused" => pc'[s] = "refused"
    BY DEF Quiet, Spares
  <2>2. ASSUME NEW s \in Reqs, pc'[s] \in {"post", "granted"}
        PROVE  disk \notin refused
    BY <1>2, <2>2 DEF Quiet, Spares, DiskUnrefused
  <2>3. ASSUME NEW s \in Reqs, pc'[s] = "refused", disk \in refused
        PROVE  disk = creds'[s]
    BY <2>3 DEF Quiet, Spares, DiskUnrefused
  <2>. QED
    BY <1>1, <2>1, <2>2, <2>3 DEF DiskUnrefused
<1>. QED
  BY <1>3, <1>4, <1>5, <1>6

(* The answers of the provider, and what the holder makes of them: nobody  *)
(* else is between the load of a credential and the end of its refresh.    *)
LEMMA HolderInv ==
  ASSUME TypeOK, LockDiscipline, Issued, TokenInv, NEW r \in Reqs, Spares(r),
         Granted(r) \/ SaveFails(r) \/ Refused(r) \/ Exchange(r) \/ ExchangeLost(r) \/ Refuse(r)
  PROVE  TokenInv'
<1> USE DEF TokenInv
<1>1. pc[r] \in Refreshing
  BY DEF Granted, SaveFails, Refused, Exchange, ExchangeLost, Refuse, Refreshing
<1>2. \A s \in Reqs : s # r => pc'[s] \notin Refreshing /\ pc[s] \notin Refreshing
  BY <1>1, OneRefreshes DEF Spares
<1>3. CASE Granted(r)
  <2>1. /\ disk' = new /\ superseded' = superseded \cup {creds[r]}
        /\ UNCHANGED <<why, minted, expired, revoked, refused>>
        /\ pc[r] = "granted" /\ pc'[r] \in {"send", "resend"}
    BY <1>3 DEF Granted, SendAgain, At, provider, TypeOK
  <2>2. disk' \notin superseded' \cup refused
    BY <2>1 DEF GrantIsNew
  <2>3. AskedFor'
    BY <1>2, <2>1 DEF AskedFor, Spares, Refreshing
  <2>4. DiskCurrent' /\ GrantIsNew' /\ DiskUnrefused'
    BY <1>2, <2>1, <2>2 DEF DiskCurrent, GrantIsNew, DiskUnrefused, Refreshing
  <2>. QED
    BY <2>3, <2>4
<1>4. CASE Refused(r)
  <2>1. /\ flag' = TRUE /\ dead' = creds[r]
        /\ UNCHANGED <<disk, new, minted, expired, revoked, superseded, refused>>
        /\ pc[r] = "refused" /\ pc'[r] = "idle"
    BY <1>4 DEF Refused, Dead, Answer, At, provider, seen, TypeOK
  <2>2. AskedFor'
    BY <1>2, <2>1 DEF AskedFor, Spares
  <2>3. DiskCurrent' /\ GrantIsNew'
    BY <1>2, <2>1 DEF DiskCurrent, GrantIsNew, Refreshing
  <2>4. DiskUnrefused'
    BY <1>2, <2>1 DEF DiskUnrefused, Refreshing
  <2>. QED
    BY <2>2, <2>3, <2>4
<1>5. CASE Exchange(r)
  <2>1. /\ pc[r] = "post" /\ pc'[r] = "granted" /\ new' = minted' /\ minted' = minted + 1
        /\ UNCHANGED <<disk, why, creds, flag, dead, expired, revoked, superseded, refused>>
    BY <1>5 DEF Exchange, At, adapter, seen, TypeOK
  <2>2. /\ minted' \in 1 .. minted' /\ minted' # creds[r]
        /\ minted' \notin superseded \cup refused
    <3>1. minted \in Nat /\ superseded \cup refused \subseteq 1 .. minted /\ creds[r] <= minted /\ creds[r] \in Nat
      BY TokensAssumption DEF TypeOK, Issued, Tokens, None
    <3>2. minted + 1 \notin 1 .. minted /\ minted + 1 # creds[r] /\ minted + 1 \in 1 .. minted + 1
      BY <3>1
    <3>. QED
      BY <2>1, <3>1, <3>2
  <2>3. disk \notin refused
    BY <2>1 DEF DiskUnrefused
  <2>4. AskedFor'
    BY <2>1 DEF AskedFor, Spares
  <2>5. DiskCurrent' /\ GrantIsNew'
    BY <1>2, <2>1, <2>2 DEF DiskCurrent, GrantIsNew, Refreshing
  <2>6. DiskUnrefused'
    BY <1>2, <2>1, <2>3 DEF DiskUnrefused, Refreshing
  <2>. QED
    BY <2>4, <2>5, <2>6
<1>6. CASE ExchangeLost(r) \/ SaveFails(r)
  <2>1. /\ pc[r] \in {"post", "granted"} /\ pc'[r] = "idle"
        /\ UNCHANGED <<disk, minted, expired, revoked, superseded, refused>>
    BY <1>6 DEF ExchangeLost, SaveFails, Answer, At, provider, seen, TypeOK
  <2>2. disk \notin refused
    BY <2>1 DEF DiskUnrefused
  <2>3. AskedFor'
    BY <2>1 DEF AskedFor, Spares
  <2>4. DiskCurrent' /\ GrantIsNew' /\ DiskUnrefused'
    BY <1>2, <2>1, <2>2 DEF DiskCurrent, GrantIsNew, DiskUnrefused, Refreshing
  <2>. QED
    BY <2>3, <2>4
<1>7. CASE Refuse(r)
  <2>1. /\ pc[r] = "post" /\ pc'[r] = "refused"
        /\ refused' = refused \cup {creds[r]}
        /\ UNCHANGED <<disk, new, why, creds, flag, dead, minted, expired, revoked, superseded>>
    BY <1>7 DEF Refuse, At, adapter, provider, TypeOK
  <2>2. disk \notin refused
    BY <2>1 DEF DiskUnrefused
  <2>3. AskedFor'
    BY <2>1 DEF AskedFor, Spares
  <2>4. DiskCurrent' /\ GrantIsNew' /\ DiskUnrefused'
    BY <1>2, <2>1, <2>2 DEF DiskCurrent, GrantIsNew, DiskUnrefused, Refreshing
  <2>. QED
    BY <2>3, <2>4
<1>. QED
  BY <1>3, <1>4, <1>5, <1>6, <1>7

LEMMA StepInv ==
  ASSUME ForwarderInv, NEW r \in Reqs, Arrives(r) \/ Proceeds(r)
  PROVE  ForwarderInv'
<1> USE DEF ForwarderInv
<1>1. LockTypeOK /\ TokenInv
  BY DEF LockTypeOK, TypeOK, TokenInv
<1>2. LockDiscipline' /\ lock' \in Seq(Reqs)
  BY <1>1, StepLock
<1>3. TypeOK' /\ Issued'
  <2>1. RequestTypeOK' /\ TokenTypeOK' /\ Issued'
    BY StepTypes
  <2>. QED
    BY <1>2, <2>1 DEF TypeOK, RequestTypeOK, TokenTypeOK
<1>4. Spares(r)
  BY StepSpares
<1>5. TokenInv'
  <2>1. CASE Granted(r) \/ SaveFails(r) \/ Refused(r) \/ Exchange(r) \/ ExchangeLost(r) \/ Refuse(r)
    BY <1>1, <1>4, <2>1, HolderInv
  <2>2. CASE ~(Granted(r) \/ SaveFails(r) \/ Refused(r) \/ Exchange(r) \/ ExchangeLost(r) \/ Refuse(r))
    BY <1>1, <1>4, <2>2, QuietSteps, QuietInv DEF Proceeds
  <2>. QED
    BY <2>1, <2>2
<1>. QED
  BY <1>2, <1>3, <1>5 DEF TokenInv

-----------------------------------------------------------------------------
(* The rest of the world.                                                  *)

LEMMA SameLock ==
  ASSUME LockDiscipline, UNCHANGED <<pc, lock>>
  PROVE  LockDiscipline'
<1>. QED
  BY DEF LockDiscipline, Holder

LEMMA LapseInv ==
  ASSUME ForwarderInv, Lapse
  PROVE  ForwarderInv'
<1> USE DEF ForwarderInv
<1>1. /\ UNCHANGED <<disk, pc, why, creds, new, lock, flag, dead, minted, superseded, refused>>
      /\ valid' \subseteq valid
      /\ expired \cup revoked \subseteq expired' \cup revoked'
      /\ expired' \cup revoked' \subseteq 1 .. minted
  BY DEF Lapse, adapter, seen, TypeOK
<1>2. TypeOK' /\ Issued'
  BY <1>1 DEF TypeOK, Issued
<1>3. LockDiscipline'
  BY <1>1, SameLock
<1>4. AskedFor'
  BY <1>1 DEF AskedFor
<1>5. DiskCurrent' /\ GrantIsNew' /\ DiskUnrefused'
  BY <1>1 DEF DiskCurrent, GrantIsNew, DiskUnrefused
<1>. QED
  BY <1>2, <1>3, <1>4, <1>5

(* GET /health clears the flag only when the file holds something else.    *)
LEMMA HealthInv ==
  ASSUME ForwarderInv, Health
  PROVE  ForwarderInv'
<1> USE DEF ForwarderInv
<1>1. /\ UNCHANGED <<disk, pc, why, creds, new, lock, minted, valid, expired, revoked, superseded, refused>>
      /\ flag' = FALSE /\ dead' = None /\ disk # dead
  BY DEF Health, Reauthed, provider, seen
<1>2. TypeOK' /\ Issued'
  BY <1>1 DEF TypeOK, Issued
<1>3. LockDiscipline'
  BY <1>1, SameLock
<1>4. AskedFor' /\ DiskCurrent' /\ GrantIsNew'
  BY <1>1 DEF AskedFor, DiskCurrent, GrantIsNew
<1>5. DiskUnrefused'
  BY <1>1 DEF DiskUnrefused
<1>. QED
  BY <1>2, <1>3, <1>4, <1>5

(* The operator writes a credential of his own, or none.                   *)
LEMMA OperatorInv ==
  ASSUME ForwarderInv, Login \/ Logout
  PROVE  ForwarderInv'
<1> USE DEF ForwarderInv
<1>1. /\ UNCHANGED <<pc, why, creds, new, lock, flag, dead, expired, revoked, superseded, refused>>
      /\ \/ /\ minted' = minted + 1 /\ minted < MaxToken
            /\ valid' = valid \cup {minted'} /\ disk' = minted'
         \/ UNCHANGED <<minted, valid>> /\ disk' = None
  BY DEF Login, Logout, adapter, provider, seen
<1>2. /\ minted \in Nat /\ MaxToken \in Nat /\ minted <= MaxToken
      /\ superseded \cup refused \subseteq 1 .. minted
      /\ valid \cup expired \cup revoked \subseteq 1 .. minted
  BY TokensAssumption DEF TypeOK
<1>3. disk' \notin superseded \cup refused /\ minted <= minted' /\ minted' \in 0 .. MaxToken
      /\ disk' \in 0 .. minted'
  BY <1>1, <1>2 DEF None
<1>4. TypeOK'
  <2>1. disk' \in Tokens \cup {None}
    BY <1>2, <1>3 DEF Tokens, None
  <2>2. valid' \cup expired' \cup revoked' \cup superseded' \cup refused' \subseteq 1 .. minted'
    BY <1>1, <1>2
  <2>. QED
    BY <1>1, <1>3, <2>1, <2>2 DEF TypeOK
<1>5. Issued'
  <2>1. \A r \in Reqs : creds[r] \in Nat /\ creds[r] <= minted
    BY DEF TypeOK, Issued, Tokens, None
  <2>. QED
    BY <1>1, <1>2, <1>3, <2>1 DEF Issued
<1>6. LockDiscipline'
  BY <1>1, SameLock
<1>7. GrantIsNew'
  <2>1. 1 .. minted \subseteq 1 .. minted'
    BY <1>1, <1>2
  <2>. QED
    BY <1>1, <2>1 DEF GrantIsNew
<1>8. AskedFor' /\ DiskCurrent' /\ DiskUnrefused'
  BY <1>1, <1>3 DEF AskedFor, DiskCurrent, DiskUnrefused
<1>. QED
  BY <1>4, <1>5, <1>6, <1>7, <1>8

LEMMA RestartInv ==
  ASSUME ForwarderInv, Restart
  PROVE  ForwarderInv'
<1> USE DEF ForwarderInv
<1>1. /\ UNCHANGED <<disk, minted, valid, expired, revoked, superseded>>
      /\ pc' = [r \in Reqs |-> "idle"] /\ why' = [r \in Reqs |-> "expiry"]
      /\ creds' = [r \in Reqs |-> None] /\ lock' = <<>>
      /\ flag' = FALSE /\ dead' = None /\ new' = None /\ refused' = {}
  BY DEF Restart, provider
<1>2. RequestTypeOK'
  BY <1>1 DEF RequestTypeOK, Phases, Reasons
<1>3. TokenTypeOK' /\ lock' \in Seq(Reqs)
  <2>1. lock' \in Seq(Reqs)
    BY <1>1
  <2>2. TokenTypeOK'
    BY <1>1 DEF TypeOK, TokenTypeOK
  <2>. QED
    BY <2>1, <2>2
<1>4. TypeOK'
  BY <1>2, <1>3 DEF TypeOK, RequestTypeOK, TokenTypeOK
<1>5. Issued'
  <2>1. minted \in Nat
    BY TokensAssumption DEF TypeOK
  <2>. QED
    BY <1>1, <2>1 DEF Issued, None
<1>6. LockDiscipline'
  BY <1>1 DEF LockDiscipline, Queued, Refreshing
<1>7. AskedFor' /\ DiskCurrent' /\ GrantIsNew' /\ DiskUnrefused'
  BY <1>1 DEF AskedFor, DiskCurrent, GrantIsNew, DiskUnrefused
<1>. QED
  BY <1>4, <1>5, <1>6, <1>7

LEMMA InitInv == Init => ForwarderInv
<1> SUFFICES ASSUME Init PROVE ForwarderInv
  OBVIOUS
<1>1. TypeOK /\ Issued
  <2>1. RequestTypeOK
    BY DEF Init, RequestTypeOK, Phases, Reasons
  <2>2. TokenTypeOK
    <3>1. minted \in 0 .. MaxToken
      BY TokensAssumption DEF Init
    <3>2. valid \cup expired \cup revoked \cup superseded \cup refused = {}
      BY DEF Init
    <3>. QED
      BY <3>1, <3>2 DEF Init, TokenTypeOK
  <2>3. lock \in Seq(Reqs)
    BY DEF Init
  <2>4. Issued
    BY DEF Init, Issued, None
  <2>. QED
    BY <2>1, <2>2, <2>3, <2>4, TypesSplit
<1>2. LockDiscipline
  BY DEF Init, LockDiscipline, Queued, Refreshing
<1>3. AskedFor /\ DiskCurrent /\ GrantIsNew /\ DiskUnrefused
  BY DEF Init, AskedFor, DiskCurrent, GrantIsNew, DiskUnrefused
<1>. QED
  BY <1>1, <1>2, <1>3 DEF ForwarderInv

LEMMA NextInv == ForwarderInv /\ [Next]_vars => ForwarderInv'
<1> SUFFICES ASSUME ForwarderInv, [Next]_vars PROVE ForwarderInv'
  OBVIOUS
<1>1. ASSUME NEW r \in Reqs, Arrives(r) \/ Proceeds(r) PROVE ForwarderInv'
  BY <1>1, StepInv
<1>2. CASE Lapse
  BY <1>2, LapseInv
<1>3. CASE Health
  BY <1>3, HealthInv
<1>4. CASE Login \/ Logout
  BY <1>4, OperatorInv
<1>5. CASE Restart
  BY <1>5, RestartInv
<1>6. CASE UNCHANGED vars
  <2>1. UNCHANGED <<disk, pc, why, creds, new, lock, flag, dead, minted, valid, expired, revoked, superseded, refused>>
    BY <1>6 DEF vars, adapter, provider, seen
  <2>. QED
    BY <2>1, SameLock DEF ForwarderInv, TypeOK, Issued, AskedFor, DiskCurrent, GrantIsNew, DiskUnrefused
<1>. QED
  BY <1>1, <1>2, <1>3, <1>4, <1>5, <1>6 DEF Next

(* The inductive invariant: who holds the lock, and what the disk can hold. *)
THEOREM ForwarderInvariance == Spec => []ForwarderInv
<1>. QED
  BY InitInv, NextInv, PTL DEF Spec

-----------------------------------------------------------------------------
(* What the invariant says.                                                *)

(* Every variable keeps its type, and a request in progress has a          *)
(* credential.                                                             *)
THEOREM TypeOKHolds == Spec => []TypeOK
<1>1. ForwarderInv => TypeOK
  BY DEF ForwarderInv
<1>. QED
  BY <1>1, ForwarderInvariance, PTL

(* No request posts a refresh token whose successor has been saved, in     *)
(* whatever order requests, logins, lost answers, failing saves and        *)
(* restarts come.                                                          *)
THEOREM SingleUseHolds == Spec => []SingleUse
<1>1. ForwarderInv => SingleUse
  BY DEF ForwarderInv, DiskCurrent, SingleUse, Posts
<1>. QED
  BY <1>1, ForwarderInvariance, PTL

(* A request that finds the credential refreshed when it gets the lock     *)
(* does not refresh it again.                                              *)
THEOREM PostOnlyWhenNeededHolds == Spec => []PostOnlyWhenNeeded
<1>1. ForwarderInv => PostOnlyWhenNeeded
  BY DEF ForwarderInv, AskedFor, PostOnlyWhenNeeded, Posts
<1>. QED
  BY <1>1, ForwarderInvariance, PTL

(* A refresh token that was refused is not posted again by this process.   *)
THEOREM NoRepostHolds == Spec => []NoRepost
<1>1. ForwarderInv => NoRepost
  BY DEF ForwarderInv, DiskCurrent, NoRepost, Posts
<1>. QED
  BY <1>1, ForwarderInvariance, PTL

(* While the file holds a credential known to be dead, /health says so.    *)
THEOREM DeadDiskFlaggedHolds == Spec => []DeadDiskFlagged
<1>1. ForwarderInv => DeadDiskFlagged
  BY DEF ForwarderInv, DiskUnrefused, DeadDiskFlagged
<1>. QED
  BY <1>1, ForwarderInvariance, PTL

=============================================================================
