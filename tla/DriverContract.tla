--------------------------- MODULE DriverContract ---------------------------
(***************************************************************************)
(* What the driver promises to whoever calls it, without saying how: calls *)
(* are taken, get to act for an account, and are answered.  A success is   *)
(* decided at one instant, at which what it reports is the case.  Between  *)
(* calls and beside them, buckets and access keys come and go only through *)
(* work that was asked for, under the names it was asked for, and a key    *)
(* that was taken back is never live again.                                *)
(***************************************************************************)
CONSTANTS Rpc, Bucket, User, Account, Key, None

VARIABLES
  stage,   \* stage[r]: "idle", "busy", "ok" or "failed"
  work,    \* work[r]: what call r is to do, [op, bucket, user, acct]
  atWork,  \* works of which some request may still reach the provider
  cred,    \* cred[r]: the access key in the reply of r, or None
  owner,   \* owner[b]: account owning bucket b, or None
  live,    \* live access keys <<account, user, key>>
  issued   \* every key ever issued

storage == <<owner, live, issued>>
calls == <<stage, work, cred>>

NoWork == [op |-> "none", bucket |-> None, user |-> None, acct |-> None]

\* What may be asked for; the account is found out later.
Orders ==
  [op : {"CreateBucket", "DeleteBucket"}, bucket : Bucket, user : {None},
   acct : {None}]
    \union
  [op : {"GrantBucketAccess", "RevokeBucketAccess"}, bucket : Bucket,
   user : User, acct : {None}]

Init ==
  /\ stage = [r \in Rpc |-> "idle"]
  /\ work = [r \in Rpc |-> NoWork]
  /\ atWork = {}
  /\ cred = [r \in Rpc |-> None]
  /\ owner = [b \in Bucket |-> None]
  /\ live = {} /\ issued = {}

---------------------------------------------------------------------------

Take(r, w) ==
  /\ stage[r] = "idle"
  /\ stage' = [stage EXCEPT ![r] = "busy"]
  /\ work' = [work EXCEPT ![r] = w]
  /\ UNCHANGED <<atWork, cred, storage>>

\* The call has found the account it acts for and sets to work.
Engage(r, a) ==
  /\ stage[r] = "busy" /\ work[r].acct = None
  /\ work' = [work EXCEPT ![r].acct = a]
  /\ atWork' = atWork \union {work'[r]}
  /\ UNCHANGED <<stage, cred, storage>>

(***************************************************************************)
(* The steps by which work w changes what there is.                        *)
(***************************************************************************)
Creates(w) ==
  /\ w.op = "CreateBucket" /\ owner[w.bucket] \in {None, w.acct}
  /\ owner' = [owner EXCEPT ![w.bucket] = w.acct]
  /\ UNCHANGED <<live, issued>>

Deletes(w) ==
  /\ w.op = "DeleteBucket" /\ owner[w.bucket] = w.acct
  /\ owner' = [owner EXCEPT ![w.bucket] = None]
  /\ UNCHANGED <<live, issued>>

Issues(w, k) ==
  /\ w.op = "GrantBucketAccess" /\ k \notin issued
  /\ live' = live \union {<<w.acct, w.user, k>>}
  /\ issued' = issued \union {k}
  /\ UNCHANGED owner

TakesBack(w, k) ==
  /\ w.op = "RevokeBucketAccess"
  /\ live' = live \ {<<w.acct, w.user, k>>}
  /\ UNCHANGED <<owner, issued>>

Effect(w) == \/ Creates(w) \/ Deletes(w)
             \/ \E k \in Key : Issues(w, k) \/ TakesBack(w, k)

\* Work under way has an effect, answered or not; it may be its last.
Progress ==
  /\ \E w \in atWork : Effect(w)
  /\ atWork' \subseteq atWork
  /\ UNCHANGED calls

\* Requests that nobody waits for any more die out.
Expire == atWork' \subseteq atWork /\ UNCHANGED <<calls, storage>>

---------------------------------------------------------------------------

(***************************************************************************)
(* The instant at which call r succeeds: the account owns the bucket, or   *)
(* no longer does; the key in the reply has just been issued to the user;  *)
(* the user has no live key at all.                                        *)
(***************************************************************************)
Created(r) ==
  LET w == work[r] IN
  /\ Creates(w) /\ UNCHANGED cred

Deleted(r) ==
  LET w == work[r] IN
  /\ w.op = "DeleteBucket"
  /\ Deletes(w) \/ (owner[w.bucket] # w.acct /\ UNCHANGED storage)
  /\ UNCHANGED cred

Granted(r) ==
  \E k \in Key : Issues(work[r], k) /\ cred' = [cred EXCEPT ![r] = k]

Revoked(r) ==
  LET w == work[r] IN
  /\ w.op = "RevokeBucketAccess"
  /\ \A k \in Key : <<w.acct, w.user, k>> \notin live
  /\ UNCHANGED <<cred, storage>>

Succeed(r) ==
  /\ stage[r] = "busy" /\ work[r] \in atWork
  /\ stage' = [stage EXCEPT ![r] = "ok"]
  /\ Created(r) \/ Deleted(r) \/ Granted(r) \/ Revoked(r)
  /\ atWork' \subseteq atWork
  /\ UNCHANGED work

Fail(r) ==
  /\ stage[r] = "busy"
  /\ stage' = [stage EXCEPT ![r] = "failed"]
  /\ atWork' \subseteq atWork
  /\ UNCHANGED <<work, cred, storage>>

\* Calls end: one that was answered, or all of them with the process.
End(R) ==
  /\ stage' = [r \in Rpc |-> IF r \in R THEN "idle" ELSE stage[r]]
  /\ work' = [r \in Rpc |-> IF r \in R THEN NoWork ELSE work[r]]
  /\ cred' = [r \in Rpc |-> IF r \in R THEN None ELSE cred[r]]
  /\ atWork' \subseteq atWork
  /\ UNCHANGED storage

Next ==
  \/ \E r \in Rpc : \/ \E w \in Orders : Take(r, w)
                    \/ \E a \in Account : Engage(r, a)
                    \/ Succeed(r) \/ Fail(r)
  \/ Progress \/ Expire
  \/ \E R \in SUBSET Rpc : End(R)

vars == <<stage, work, atWork, cred, owner, live, issued>>

Spec == Init /\ [][Next]_vars

============================================================================
