---------------------------- MODULE CosiSidecar ----------------------------
(***************************************************************************)
(* The COSI provisioner sidecar, external to this repository, driving the  *)
(* Provisioner through the life of its objects.  For a BucketClaim it      *)
(* calls Create, for a BucketAccess Grant, until one call succeeds; once   *)
(* the object is being deleted, Delete or Revoke until one succeeds.  It   *)
(* has at most one call per object outstanding, but may stop waiting for a *)
(* call that the driver still works on.                                    *)
(*                                                                         *)
(* Names derive from the objects' UIDs and are not used again.  Finalizers *)
(* keep a Bucket object until its deletion succeeded, and a bucket as long *)
(* as there are accesses to it.  Class parameters and Secret are in place. *)
(***************************************************************************)
EXTENDS Provisioner

CONSTANTS Claims,     \* buckets made for BucketClaims; others exist already
          TheBucket,  \* the one accesses are for
          TheParams, TheAccount,
          MaxFaults   \* bound: lost answers, failed lookups, crashes, hang-ups

ASSUME SidecarAssumption ==
  /\ Claims \subseteq Bucket /\ User \intersect Bucket = {}
  /\ TheBucket \in Bucket /\ TheParams \in Params /\ TheAccount \in Account
  /\ MaxFaults \in Nat
  /\ None \notin Rpc

\* A BucketAccess goes by its user, a BucketClaim by its bucket.
Objects == User \union Claims

VARIABLES
  phase,     \* phase[o]: life of object o
  awaiting,  \* awaiting[o]: the call the sidecar waits for, or None
  delivered, \* access keys handed to workloads, <<user, key>>
  faults     \* faults so far

sidecarVars == <<vars, phase, awaiting, delivered, faults>>

SidecarInit ==
  /\ Init
  /\ bucketObj = [b \in Bucket |-> IF b \in Claims THEN None ELSE TheParams]
  /\ secretAcct[TheParams] = TheAccount
  /\ phase = [o \in Objects |-> "absent"]
  /\ awaiting = [o \in Objects |-> None]
  /\ delivered = {}
  /\ faults = 0

Fault == faults < MaxFaults /\ faults' = faults + 1

---------------------------------------------------------------------------

Becomes(o, p) == phase' = [phase EXCEPT ![o] = p]

(***************************************************************************)
(* A user creates the BucketClaim, and the Bucket object is made from its  *)
(* class; or deletes it when no access is left.  Before the creation has   *)
(* succeeded there is no bucket_id to delete, and the claim is dropped.    *)
(***************************************************************************)
ClaimRequested(b) ==
  /\ phase[b] = "absent" /\ Becomes(b, "wanted")
  /\ BucketObjectChanges(b, TheParams)
  /\ UNCHANGED <<awaiting, delivered, faults>>

ClaimDeleted(b) ==
  /\ b = TheBucket => \A u \in User : phase[u] \in {"absent", "gone"}
  /\ \/ phase[b] = "ready" /\ Becomes(b, "deleting")
     \/ phase[b] \in {"wanted", "failed"} /\ Becomes(b, "gone")
  /\ UNCHANGED <<vars, awaiting, delivered, faults>>

\* The finalizer of the Bucket object goes with the deletion, not before.
BucketObjectRemoved(b) ==
  /\ phase[b] = "gone"
  /\ BucketObjectChanges(b, None)
  /\ UNCHANGED <<phase, awaiting, delivered, faults>>

\* A user creates the BucketAccess object, for a bucket that is ready.
AccessRequested(u) ==
  /\ phase[u] = "absent" /\ Becomes(u, "wanted")
  /\ TheBucket \in Claims => phase[TheBucket] = "ready"
  /\ UNCHANGED <<vars, awaiting, delivered, faults>>

\* A user deletes it.  One that was never granted has no account_id to revoke
\* yet: whether it is revoked under its user name or just dropped is left open.
AccessDeleted(u) ==
  /\ \/ phase[u] \in {"wanted", "ready"} /\ Becomes(u, "deleting")
     \/ phase[u] = "wanted" /\ Becomes(u, "gone")
  /\ UNCHANGED <<vars, awaiting, delivered, faults>>

---------------------------------------------------------------------------

\* The sidecar calls the driver for o; the answer comes later, if at all.
CallFor(o) ==
  LET making == phase[o] = "wanted" IN
  [op |-> IF o \in Claims
            THEN IF making THEN "CreateBucket" ELSE "DeleteBucket"
            ELSE IF making THEN "GrantBucketAccess" ELSE "RevokeBucketAccess",
   bucket |-> IF o \in Claims THEN o ELSE TheBucket,
   user   |-> IF o \in Claims THEN None ELSE o,
   params |-> IF making THEN TheParams ELSE None]

\* The object a call was made for.
ObjectOf(c) == IF c.user = None THEN c.bucket ELSE c.user

CallDriver(o) ==
  /\ phase[o] \in {"wanted", "deleting"} /\ awaiting[o] = None
  /\ \E r \in Rpc :
       /\ Receive(r, CallFor(o))
       /\ awaiting' = [awaiting EXCEPT ![o] = r]
  /\ UNCHANGED <<phase, delivered, faults>>

\* The sidecar's own deadline passes; the driver is not stopped by that alone.
HangUp(o) ==
  /\ awaiting[o] # None
  /\ awaiting' = [awaiting EXCEPT ![o] = None]
  /\ Fault
  /\ UNCHANGED <<vars, phase, delivered>>

(***************************************************************************)
(* Where a reply takes its object: success moves it on, AlreadyExists of a *)
(* creation ends it ("No more retries"), anything else is retried.         *)
(***************************************************************************)
PhaseAfter(r, p) ==
  CASE reply[r] = OK /\ NeedsBucketObject(call[r].op)                -> "gone"
    [] reply[r] = OK /\ ~NeedsBucketObject(call[r].op) /\ p = "wanted" -> "ready"
    [] /\ reply[r] = "AlreadyExists" /\ p = "wanted"
       /\ call[r].op = "CreateBucket"                               -> "failed"
    [] OTHER                                                        -> p

(***************************************************************************)
(* A call ends.  Its reply counts only if it is the one awaited.           *)
(* Credentials reach the workload if there still is an object to attach    *)
(* them to.                                                                *)
(***************************************************************************)
Reply(r) ==
  /\ Finish(r)
  /\ LET o == ObjectOf(call[r]) IN
     \/ /\ awaiting[o] = r
        /\ awaiting' = [awaiting EXCEPT ![o] = None]
        /\ phase' = [phase EXCEPT ![o] = PhaseAfter(r, @)]
        /\ delivered' = IF Succeeded(r, "GrantBucketAccess") /\ phase[o] # "gone"
                          THEN delivered \union {<<o, key[r]>>} ELSE delivered
     \/ awaiting[o] # r /\ UNCHANGED <<phase, awaiting, delivered>>
  /\ UNCHANGED faults

\* A handler step is sound when neither a lookup nor an answer is lost in it.
Sound(r) == attempt'[r] = 1 /\ reply'[r] # "Internal"

SoundStep(r) ==
  /\ Handle(r) /\ Sound(r)
  /\ UNCHANGED <<phase, awaiting, delivered, faults>>

FaultyStep(r) ==
  /\ Handle(r) /\ ~Sound(r) /\ Fault
  /\ UNCHANGED <<phase, awaiting, delivered>>

DriverCrash ==
  /\ Crash /\ Fault
  /\ awaiting' = [o \in Objects |-> None]
  /\ UNCHANGED <<phase, delivered>>

Straggler ==
  /\ \E q \in late : LateArrival(q)
  /\ UNCHANGED <<phase, awaiting, delivered, faults>>

\* Another tenant takes the bucket name before the claim gets it.
NameTaken(b) ==
  /\ phase[b] \in {"absent", "wanted"} /\ owner[b] = None
  /\ \E a \in Account \ {TheAccount} : owner' = [owner EXCEPT ![b] = a]
  /\ UNCHANGED <<nonEmpty, users, policies, accessKeys, minted, handlerVars,
                 clusterVars, late, phase, awaiting, delivered, faults>>

\* Workloads fill a bucket they can use, and empty one they give up.
Fills(b) ==
  /\ phase[b] = "ready" /\ WorkloadWrites(b)
  /\ UNCHANGED <<handlerVars, clusterVars, late, phase, awaiting, delivered,
                 faults>>

Empties(b) ==
  /\ phase[b] = "deleting" /\ WorkloadEmpties(b)
  /\ UNCHANGED <<handlerVars, clusterVars, late, phase, awaiting, delivered,
                 faults>>

SidecarNext ==
  \/ \E b \in Claims : \/ ClaimRequested(b) \/ ClaimDeleted(b)
                       \/ BucketObjectRemoved(b) \/ NameTaken(b)
                       \/ Fills(b) \/ Empties(b)
  \/ \E u \in User : AccessRequested(u) \/ AccessDeleted(u)
  \/ \E o \in Objects : CallDriver(o) \/ HangUp(o)
  \/ \E r \in Rpc : SoundStep(r) \/ FaultyStep(r) \/ Reply(r)
  \/ DriverCrash
  \/ Straggler

(***************************************************************************)
(* The sidecar requeues what failed, the driver's goroutines run, requests *)
(* under way arrive, faults are not for ever, and a bucket given up is     *)
(* emptied in the end.                                                     *)
(***************************************************************************)
SidecarSpec ==
  /\ SidecarInit /\ [][SidecarNext]_sidecarVars
  /\ \A o \in Objects : WF_sidecarVars(CallDriver(o))
  /\ \A r \in Rpc : WF_sidecarVars(SoundStep(r)) /\ WF_sidecarVars(Reply(r))
  /\ WF_sidecarVars(Straggler)
  /\ \A b \in Claims : WF_sidecarVars(Empties(b))

---------------------------------------------------------------------------

(***************************************************************************)
(* Revoking converges: from whatever partial grant or revoke, duplicate    *)
(* key or straggling request, retried calls of DriverRevokeBucketAccess    *)
(* end in success, and the finalizer of the object can go.                 *)
(***************************************************************************)
RevokeConverges == \A u \in User : phase[u] = "deleting" ~> phase[u] = "gone"

(***************************************************************************)
(* Once the object is gone, no key that a workload was ever given for it   *)
(* works, even if a grant that the sidecar gave up on is still running.    *)
(***************************************************************************)
DeliveredKeysDie ==
  \A u \in User : phase[u] = "gone" =>
    \A k \in Key : <<u, k>> \in delivered =>
      <<TheAccount, u, k>> \notin accessKeys

(***************************************************************************)
(* An access that was granted stays usable until its deletion is asked     *)
(* for: the key delivered is live, whatever earlier attempts are still     *)
(* running or under way.                                                   *)
(***************************************************************************)
GrantedStaysUsable ==
  \A u \in User : phase[u] = "ready" =>
    /\ <<TheAccount, u, TheBucket>> \in policies
    /\ \E k \in Key : <<u, k>> \in delivered /\ <<TheAccount, u, k>> \in accessKeys

(***************************************************************************)
(* Deleting converges: once a claim is being deleted, DriverDeleteBucket,  *)
(* retried after lost answers, crashes and refusals for objects still in   *)
(* the bucket, succeeds in the end; the Bucket object with the parameters  *)
(* it acts on is there whenever it is needed.                              *)
(***************************************************************************)
DeleteConverges == \A b \in Claims : phase[b] = "deleting" ~> phase[b] = "gone"

(***************************************************************************)
(* A claim is reported ready only over a bucket that the class's account   *)
(* owns, whoever else went for the name, and neither the claim nor an      *)
(* access to it outlives the bucket: no retried, abandoned or straggling   *)
(* call takes it away.                                                     *)
(***************************************************************************)
ReadyBucketHolds ==
  \A b \in Claims :
    \/ phase[b] = "ready"
    \/ b = TheBucket /\ \E u \in User : phase[u] \in {"wanted", "ready"}
    => owner[b] = TheAccount

Ending == {"deleting", "gone"}

\* User u of account a loses, or gets, something in a step.
Lost(a, u) ==
  \/ <<a, u>> \in users \ users'
  \/ \E b \in Bucket : <<a, u, b>> \in policies \ policies'
  \/ \E k \in Key : <<a, u, k>> \in accessKeys \ accessKeys'

Gained(a, u) ==
  \/ <<a, u>> \in users' \ users
  \/ \E b \in Bucket : <<a, u, b>> \in policies' \ policies
  \/ \E k \in Key : <<a, u, k>> \in accessKeys' \ accessKeys

\* Whatever a step changes at the provider, it was asked for.
AsAsked ==
  /\ \A b \in Bucket : owner'[b] # owner[b] =>
       \/ /\ owner[b] = None
          /\ owner'[b] = TheAccount => b \in Claims /\ phase[b] # "absent"
       \/ owner[b] = TheAccount /\ b \in Claims /\ phase[b] \in Ending
  /\ \A a \in Account, u \in User :
       /\ Lost(a, u) => a = TheAccount /\ phase[u] \in Ending
       /\ Gained(a, u) => a = TheAccount /\ phase[u] # "absent"

(***************************************************************************)
(* The provider changes only as users of the cluster asked: nothing is     *)
(* taken from an object before its deletion was asked for, nothing is made *)
(* for one that was not asked for, and neither another account nor another *)
(* tenant's bucket is touched, however late a request of an abandoned call *)
(* or a dead process is carried out.                                       *)
(***************************************************************************)
OnlyAsAsked == [][AsAsked]_sidecarVars

---------------------------------------------------------------------------
(***************************************************************************)
(* The inductive invariant behind these.                               *)
(***************************************************************************)

Phases == {"absent", "wanted", "ready", "failed", "deleting", "gone"}

\* Calls, and requests they left, serve an object; those that take something
\* back serve one whose deletion was asked for.
Owned(c) ==
  /\ IF c.op \in S3Apis THEN c.bucket \in Claims /\ c.user = None
                        ELSE c.bucket = TheBucket /\ c.user \in User
  /\ phase[ObjectOf(c)] # "absent"
  /\ NeedsBucketObject(c.op) => phase[ObjectOf(c)] \in Ending

\* Every call is the sidecar's, for the account of the class, and meets with
\* contention only once its object is being deleted.
CallsOwned ==
  \A r \in Rpc :
    /\ pc[r] # "idle" => /\ Owned(call[r])
                         /\ call[r].params \in {TheParams, None}
                         /\ acct[r] \in {TheAccount, None}
    /\ r \in contended => pc[r] # "idle" /\ phase[ObjectOf(call[r])] \in Ending

LateOwned == \A q \in late : Owned(q) /\ q.acct = TheAccount

\* The call awaited is one for the object.  An awaited revoke came in after
\* every delivery.
AwaitedOwned ==
  \A o \in Objects : awaiting[o] # None =>
    LET r == awaiting[o] IN
    /\ pc[r] # "idle" /\ ObjectOf(call[r]) = o
    /\ call[r].op = "RevokeBucketAccess" =>
         \A k \in Key : <<o, k>> \in delivered => k \in seen[r]

\* Workloads are given keys that were issued, and only for granted accesses.
DeliveredIssued ==
  \A u \in User, k \in Key : <<u, k>> \in delivered =>
    k \in minted /\ phase[u] \notin {"absent", "wanted"}

\* A ready bucket is the account's, and stays ready as long as it is accessed.
BucketsReady ==
  /\ \A b \in Claims : phase[b] = "ready" => owner[b] = TheAccount
  /\ \A u \in User : phase[u] \notin {"absent", "gone"} /\ TheBucket \in Claims =>
       phase[TheBucket] = "ready"

(***************************************************************************)
(* The life of the objects and the work of the driver keep in step: every  *)
(* call and straggling request serves an object, none takes back what is   *)
(* not being deleted, and a revoke that is waited for knows of every key   *)
(* delivered before.                                                       *)
(***************************************************************************)
SidecarInv ==
  /\ IInv
  /\ phase \in [Objects -> Phases] /\ awaiting \in [Objects -> Rpc \union {None}]
  /\ delivered \subseteq User \X Key
  /\ secretAcct[TheParams] = TheAccount
  /\ \A b \in Bucket : bucketObj[b] \in {TheParams, None}
  /\ CallsOwned /\ LateOwned /\ AwaitedOwned /\ DeliveredIssued /\ BucketsReady
  /\ DeliveredKeysDie /\ GrantedStaysUsable

---------------------------------------------------------------------------

(***************************************************************************)
(* Granting converges: "an idempotent method", requeued on error "with     *)
(* exponential backoff", succeeds in the end unless the object is deleted. *)
(***************************************************************************)
GrantConverges == \A u \in User : phase[u] = "wanted" ~> phase[u] # "wanted"

============================================================================
