--------------------------- MODULE ContractProofs ---------------------------
(***************************************************************************)
(* Proof that Provisioner implements DriverContract: under the mapping of  *)
(* ProvisionerContract, every step of the handlers, the provider and the   *)
(* cluster is a step that the contract allows, or none that it sees.       *)
(***************************************************************************)
EXTENDS ProvisionerContract, ProvisionerProofs

\* What the contract allows in one step.
Allowed == [Contract!Next]_(Contract!vars)

\* A handler that does not move, as far as the contract can see, looks the same.
LEMMA LooksSame ==
  ASSUME NEW r \in Rpc, pc'[r] = pc[r], reply'[r] = reply[r], key'[r] = key[r],
         call'[r].op = call[r].op, call'[r].bucket = call[r].bucket,
         call'[r].user = call[r].user, acct'[r] = acct[r]
  PROVE  /\ Stage'[r] = Stage[r] /\ Work'[r] = Work[r] /\ Cred'[r] = Cred[r]
<1>1. Stage'[r] = Stage[r]
  BY DEF Stage
<1>2. Work'[r] = Work[r]
  BY DEF Work, WorkOf, Request
<1>3. Cred'[r] = Cred[r]
  BY DEF Cred, Succeeded
<1> QED  BY <1>1, <1>2, <1>3

\* The three views of the handlers are functions on them.
LEMMA ViewShape ==
  /\ Stage = [s \in Rpc |-> Stage[s]] /\ Stage' = [s \in Rpc |-> Stage'[s]]
  /\ Work = [s \in Rpc |-> Work[s]] /\ Work' = [s \in Rpc |-> Work'[s]]
  /\ Cred = [s \in Rpc |-> Cred[s]] /\ Cred' = [s \in Rpc |-> Cred'[s]]
BY DEF Stage, Work, Cred

\* If all handlers look the same, the contract sees no call move.
LEMMA CallsSame ==
  ASSUME \A r \in Rpc : /\ Stage'[r] = Stage[r] /\ Work'[r] = Work[r]
                        /\ Cred'[r] = Cred[r]
  PROVE  UNCHANGED <<Stage, Work, Cred>>
BY ViewShape

(***************************************************************************)
(* A request carried out has an effect that the contract grants the work   *)
(* it belongs to, or one that the contract does not see.                   *)
(***************************************************************************)
LEMMA EffectOfRequest ==
  ASSUME TypeOK, NEW q \in Requests, NEW k \in Issuable(q), Execute(q, k)
  PROVE  \/ UNCHANGED <<owner, accessKeys, minted>>
         \/ Contract!Effect(WorkOf(q))
<1>1. /\ q.op \in Actions /\ q.api \in Apis /\ q.acct \in Account
      /\ q.bucket \in Bucket /\ q.api \in Steps(q.op)
  BY DEF Requests
<1>2. /\ WorkOf(q).op = q.op /\ WorkOf(q).acct = q.acct
      /\ WorkOf(q).bucket = q.bucket /\ WorkOf(q).user = q.user
  BY DEF WorkOf
<1>3. CASE q.api = "CreateBucket"
  <2>1. q.op = "CreateBucket"
    BY <1>1, <1>3 DEF Steps, Actions
  <2>2. owner[q.bucket] \in {None, q.acct}
    BY <1>3 DEF Execute, Accepted, Outcome, OK
  <2> QED  BY <1>2, <1>3, <2>1, <2>2 DEF Execute, Contract!Effect, Contract!Creates
<1>4. CASE q.api = "DeleteBucket"
  <2>1. q.op = "DeleteBucket"
    BY <1>1, <1>4 DEF Steps, Actions
  <2>2. owner[q.bucket] = q.acct
    BY <1>4 DEF Execute, Accepted, Outcome, OK
  <2> QED  BY <1>2, <1>4, <2>1, <2>2 DEF Execute, Contract!Effect, Contract!Deletes
<1>5. CASE q.api = "CreateAccessKey"
  <2>1. q.op = "GrantBucketAccess" /\ k \in Key /\ k \notin minted
    BY <1>1, <1>5 DEF Steps, Actions, Issuable
  <2>2. Contract!Issues(WorkOf(q), k)
    BY <1>2, <1>5, <2>1 DEF Execute, Contract!Issues
  <2> QED  BY <2>1, <2>2 DEF Contract!Effect
<1>6. CASE q.api = "DeleteAccessKey"
  <2>1. q.op = "RevokeBucketAccess"
    BY <1>1, <1>6 DEF Steps, Actions
  <2>2. q.key \in Key
    BY <1>6 DEF Execute, Accepted, Outcome, OK, HasKey, TypeOK, StorageTypeOK
  <2>3. Contract!TakesBack(WorkOf(q), q.key)
    BY <1>2, <1>6, <2>1 DEF Execute, Contract!TakesBack
  <2> QED  BY <2>2, <2>3 DEF Contract!Effect
<1>7. CASE q.api \notin {"CreateBucket", "DeleteBucket", "CreateAccessKey",
                         "DeleteAccessKey"}
  BY <1>7 DEF Execute, storageVars
<1> QED  BY <1>3, <1>4, <1>5, <1>6, <1>7

---------------------------------------------------------------------------

\* No work is added to that under way when every request now under way is one
\* that was, be it a late one or the one its handler waits in.
LEMMA AtWorkShrinks ==
  ASSUME \A q \in late' : \/ q \in late
                          \/ \E s \in Rpc : InApi(s) /\ q = Request(s),
         \A s \in Rpc : InApi(s)' =>
           InApi(s) /\ WorkOf(Request(s))' = WorkOf(Request(s))
  PROVE  AtWork' \subseteq AtWork
<1> SUFFICES ASSUME NEW w \in AtWork' PROVE w \in AtWork
  OBVIOUS
<1>1. CASE \E q \in late' : w = WorkOf(q)
  <2>1. PICK q \in late' : w = WorkOf(q)
    BY <1>1
  <2>2. CASE q \in late
    BY <2>1, <2>2 DEF AtWork
  <2>3. CASE \E s \in Rpc : InApi(s) /\ q = Request(s)
    <3>1. PICK s \in Rpc : InApi(s) /\ q = Request(s)
      BY <2>3
    <3> QED  BY <2>1, <3>1 DEF AtWork
  <2> QED  BY <2>2, <2>3
<1>2. CASE \E s \in Rpc : InApi(s)' /\ w = WorkOf(Request(s))'
  <2>1. PICK s \in Rpc : InApi(s)' /\ w = WorkOf(Request(s))'
    BY <1>2
  <2>2. InApi(s) /\ w = WorkOf(Request(s))
    BY <2>1
  <2> QED  BY <2>2 DEF AtWork
<1> QED  BY <1>1, <1>2 DEF AtWork

(***************************************************************************)
(* A handler waiting for the provider: whatever it does next, its work     *)
(* stays what it is, and no work is added to that under way.               *)
(***************************************************************************)
LEMMA ApiLooks ==
  ASSUME IInv, NEW r \in Rpc, ApiStep(r)
  PROVE  /\ Work' = Work /\ AtWork' \subseteq AtWork
         /\ Stage[r] = "busy" /\ Work[r] \in AtWork /\ Cred[r] = None
         /\ \A s \in Rpc \ {r} : Stage'[s] = Stage[s] /\ Cred'[s] = Cred[s]
<1>1. UNCHANGED <<call, acct>> /\ InApi(r)
  BY DEF ApiStep
<1>2. Work' = Work
  BY <1>1 DEF Work, WorkOf, Request
<1>3. AtWork' \subseteq AtWork
  <2>1. \A s \in Rpc : WorkOf(Request(s))' = WorkOf(Request(s))
    BY <1>1 DEF WorkOf, Request
  <2>2. \A s \in Rpc : InApi(s)' => InApi(s)
    BY DEF ApiStep, InApi
  <2>3. \A q \in late' : q \in late \/ q = Request(r)
    BY DEF ApiStep
  <2> QED  BY <1>1, <2>1, <2>2, <2>3, AtWorkShrinks
<1>4. Stage[r] = "busy" /\ Cred[r] = None
  BY <1>1 DEF InApi, Apis, S3Apis, IAMApis, Stage, Cred, Succeeded
<1>5. Work[r] \in AtWork
  BY <1>1 DEF Work, AtWork
<1>6. \A s \in Rpc \ {r} : Stage'[s] = Stage[s] /\ Cred'[s] = Cred[s]
  BY <1>1, LooksSame DEF ApiStep
<1> QED  BY <1>2, <1>3, <1>4, <1>5, <1>6

\* As long as a call goes on, its requests are work in progress.
LEMMA UnderwayAllowed ==
  ASSUME IInv, NEW r \in Rpc, ApiStep(r), pc'[r] \in Apis
  PROVE  Allowed
<1>1. /\ Work' = Work /\ AtWork' \subseteq AtWork
      /\ Stage[r] = "busy" /\ Work[r] \in AtWork /\ Cred[r] = None
      /\ \A s \in Rpc \ {r} : Stage'[s] = Stage[s] /\ Cred'[s] = Cred[s]
  BY ApiLooks
<1>2. Stage'[r] = "busy" /\ Cred'[r] = None
  BY DEF Apis, S3Apis, IAMApis, Stage, Cred, Succeeded
<1>3. UNCHANGED <<Stage, Work, Cred>>
  BY <1>1, <1>2, CallsSame
<1>4. CASE UNCHANGED <<owner, accessKeys, minted>>
  BY <1>1, <1>3, <1>4
  DEF Allowed, Contract!Next, Contract!Expire, Contract!calls, Contract!storage
<1>5. CASE Contract!Effect(WorkOf(Request(r)))
  <2>1. Work[r] = WorkOf(Request(r))
    BY DEF Work
  <2> QED
    BY <1>1, <1>3, <1>5, <2>1
    DEF Allowed, Contract!Next, Contract!Progress, Contract!calls
<1>6. \/ UNCHANGED storageVars
      \/ \E k \in Issuable(Request(r)) : Execute(Request(r), k)
  BY DEF ApiStep
<1>7. Request(r) \in Requests /\ TypeOK
  BY RequestTyped DEF ApiStep, IInv
<1> QED  BY <1>4, <1>5, <1>6, <1>7, EffectOfRequest DEF storageVars

\* When a call returns, its stage tells how.
LEMMA ReturnLooks ==
  ASSUME IInv, NEW r \in Rpc, ApiStep(r), pc'[r] = "done"
  PROVE  /\ Stage' = [Stage EXCEPT ![r] = IF reply'[r] = OK THEN "ok" ELSE "failed"]
         /\ Cred' = [Cred EXCEPT ![r] =
              IF reply'[r] = OK /\ call[r].op = "GrantBucketAccess"
                THEN key'[r] ELSE None]
<1>1. \A s \in Rpc \ {r} : Stage'[s] = Stage[s] /\ Cred'[s] = Cred[s]
  BY ApiLooks
<1>2. Stage'[r] = IF reply'[r] = OK THEN "ok" ELSE "failed"
  BY DEF Stage
<1>3. Cred'[r] = IF reply'[r] = OK /\ call[r].op = "GrantBucketAccess"
                   THEN key'[r] ELSE None
  BY DEF Cred, Succeeded, ApiStep
<1> QED  BY <1>1, <1>2, <1>3, ViewShape

\* An error reply promises nothing.
LEMMA FailureAllowed ==
  ASSUME IInv, NEW r \in Rpc, ApiStep(r), pc'[r] = "done", reply'[r] # OK,
         UNCHANGED storageVars
  PROVE  Allowed
<1>1. Stage' = [Stage EXCEPT ![r] = "failed"]
  BY ReturnLooks
<1>2. Cred' = Cred
  <2>1. Cred' = [Cred EXCEPT ![r] = None] /\ Cred[r] = None
    BY ReturnLooks, ApiLooks
  <2> QED  BY <2>1, ViewShape
<1>3. Contract!Fail(r)
  BY <1>1, <1>2, ApiLooks DEF Contract!Fail, Contract!storage, storageVars
<1> QED  BY <1>3 DEF Allowed, Contract!Next

\* A success reply is allowed at an instant at which it is true.
LEMMA SuccessAllowed ==
  ASSUME IInv, NEW r \in Rpc, ApiStep(r), pc'[r] = "done", reply'[r] = OK,
         \/ Contract!Created(r) \/ Contract!Deleted(r)
         \/ Contract!Granted(r) \/ Contract!Revoked(r)
  PROVE  Allowed
<1>1. Stage' = [Stage EXCEPT ![r] = "ok"]
  BY ReturnLooks
<1>2. Contract!Succeed(r)
  BY <1>1, ApiLooks DEF Contract!Succeed
<1> QED  BY <1>2 DEF Allowed, Contract!Next

\* Of the replies, only that of a grant carries credentials.
LEMMA NoCredentials ==
  ASSUME IInv, NEW r \in Rpc, ApiStep(r), pc'[r] = "done",
         call[r].op # "GrantBucketAccess"
  PROVE  Cred' = Cred
<1>1. Cred' = [Cred EXCEPT ![r] = None] /\ Cred[r] = None
  BY ReturnLooks, ApiLooks
<1> QED  BY <1>1, ViewShape

\* The user being gone, the contract has its revoke.
LEMMA RevokedAllowed ==
  ASSUME IInv, NEW r \in Rpc, ApiStep(r), pc'[r] = "done", reply'[r] = OK,
         call[r].op = "RevokeBucketAccess",
         \A k \in Key : <<acct[r], call[r].user, k>> \notin accessKeys,
         UNCHANGED <<owner, accessKeys, minted>>
  PROVE  Allowed
<1>1. /\ Work[r].op = "RevokeBucketAccess" /\ Work[r].acct = acct[r]
      /\ Work[r].user = call[r].user
  BY DEF Work, WorkOf, Request
<1>2. Contract!Revoked(r)
  BY <1>1, NoCredentials DEF Contract!Revoked, Contract!storage
<1> QED  BY <1>2, SuccessAllowed

(***************************************************************************)
(* Giving up with an error: a failure, or a deletion or revoke of what is  *)
(* not there, which the contract counts as done.                           *)
(***************************************************************************)
LEMMA AbortAllowed ==
  ASSUME IInv, NEW r \in Rpc, InApi(r), UNCHANGED storageVars,
         NEW err, Abort(r, err), late' \subseteq late \union {Request(r)},
         UNCHANGED <<call, acct, seen, contended, clusterVars>>,
         err \in Refusals(Request(r)) \/ err = NonAPIError,
         pc[r] \in {"DeleteUserPolicy", "DeleteAccessKey"} => err # "NoSuchEntity"
  PROVE  Allowed
<1>1. /\ ApiStep(r)
      /\ pc'[r] = "done" /\ reply'[r] = StatusOf(call[r].op, err)
  BY AbortStep
<1>2. CASE StatusOf(call[r].op, err) # OK
  BY <1>1, <1>2, FailureAllowed
<1>3. CASE StatusOf(call[r].op, err) = OK
  <2>1. /\ call[r].op \in Actions /\ pc[r] \in Steps(call[r].op) /\ pc[r] \in Apis
        /\ acct[r] \in Account /\ call[r].bucket \in Bucket
    BY RequestTyped DEF IInv, Request, Requests
  <2>2. err = Outcome(Request(r))
    BY <1>3, <2>1, StatusOK, SpontaneousAssumption
    DEF Refusals, MissingResourceCodes, NonAPIError
  <2>3. CASE call[r].op = "DeleteBucket"
    <3>1. owner[call[r].bucket] # acct[r]
      BY <1>3, <2>1, <2>2, <2>3, StatusOK, NoneAssumption DEF Outcome, Request, OK
    <3>2. /\ Work[r].op = "DeleteBucket" /\ Work[r].acct = acct[r]
          /\ Work[r].bucket = call[r].bucket
      BY <2>3 DEF Work, WorkOf, Request
    <3>3. Contract!Deleted(r)
      BY <1>1, <2>3, <3>1, <3>2, NoCredentials
      DEF Contract!Deleted, Contract!storage, storageVars
    <3> QED  BY <1>1, <1>3, <3>3, SuccessAllowed
  <2>4. CASE call[r].op = "RevokeBucketAccess"
    <3>1. <<acct[r], call[r].user>> \notin users
      BY <1>3, <2>1, <2>2, <2>4, StatusOK DEF Outcome, Request, OK, HasUser
    <3>2. \A k \in Key : <<acct[r], call[r].user, k>> \notin accessKeys
      BY <3>1 DEF IInv, TypeOK, StorageTypeOK, StorageInv
    <3> QED  BY <1>1, <1>3, <2>4, <3>2, RevokedAllowed DEF storageVars
  <2> QED  BY <1>3, <2>1, <2>3, <2>4, StatusOK
<1> QED  BY <1>2, <1>3

\* A refused request in particular.
LEMMA RefusedAllowed ==
  ASSUME IInv, NEW r \in Rpc, InApi(r), Rest,
         \/ Refused(r) /\ pc[r] \notin {"DeleteUserPolicy", "DeleteAccessKey"}
         \/ Untolerated(r)
  PROVE  Allowed
<1>1. PICK err \in Refusals(Request(r)) :
        /\ Abort(r, err) /\ UNCHANGED storageVars
        /\ pc[r] \in {"DeleteUserPolicy", "DeleteAccessKey"} => err # "NoSuchEntity"
  BY DEF Refused, Untolerated, RefusedWith
<1> QED  BY <1>1, AbortAllowed DEF Rest

---------------------------------------------------------------------------

(***************************************************************************)
(* One lemma per step of the clients: what it means to the contract.       *)
(***************************************************************************)
LEMMA CreateBucketAllowed ==
  ASSUME IInv, NEW r \in Rpc, CreateBucket(r)
  PROVE  Allowed
<1>1. InApi(r) /\ Rest /\ pc[r] = "CreateBucket"
  BY DEF CreateBucket, InApi, Apis, S3Apis
<1>2. CASE Executed(r) /\ Return(r, OK) /\ UNCHANGED <<key, todo>>
  <2>1. ApiStep(r) /\ pc'[r] = "done" /\ reply'[r] = OK
    BY <1>1, <1>2, ExecutedStep, ReturnStep DEF Codes, IInv, TypeOK
  <2>2. /\ Work[r].op = "CreateBucket" /\ Work[r].acct = acct[r]
        /\ Work[r].bucket = call[r].bucket /\ call[r].op = "CreateBucket"
    BY <1>1, OpOfStep DEF Work, WorkOf, Request, S3Apis
  <2>3. /\ owner[call[r].bucket] \in {None, acct[r]}
        /\ owner' = [owner EXCEPT ![call[r].bucket] = acct[r]]
        /\ UNCHANGED <<accessKeys, minted>>
    BY <1>1, <1>2 DEF Executed, Execute, Accepted, Outcome, Request, OK
  <2>4. Contract!Created(r)
    BY <2>1, <2>2, <2>3, NoCredentials DEF Contract!Created, Contract!Creates
  <2> QED  BY <2>1, <2>4, SuccessAllowed
<1>3. CASE Refused(r)
  BY <1>1, <1>3, RefusedAllowed
<1> QED  BY <1>2, <1>3 DEF CreateBucket

\* S3Client.DeleteBucket succeeds by deleting the account's own bucket.
LEMMA DeleteBucketAllowed ==
  ASSUME IInv, NEW r \in Rpc, DeleteBucket(r)
  PROVE  Allowed
<1>1. InApi(r) /\ Rest /\ pc[r] = "DeleteBucket"
  BY DEF DeleteBucket, InApi, Apis, S3Apis
<1>2. CASE Executed(r) /\ Return(r, OK) /\ UNCHANGED <<key, todo>>
  <2>1. ApiStep(r) /\ pc'[r] = "done" /\ reply'[r] = OK
    BY <1>1, <1>2, ExecutedStep, ReturnStep DEF Codes, IInv, TypeOK
  <2>2. /\ Work[r].op = "DeleteBucket" /\ Work[r].acct = acct[r]
        /\ Work[r].bucket = call[r].bucket /\ call[r].op = "DeleteBucket"
    BY <1>1, OpOfStep DEF Work, WorkOf, Request, S3Apis
  <2>3. /\ owner[call[r].bucket] = acct[r]
        /\ owner' = [owner EXCEPT ![call[r].bucket] = None]
        /\ UNCHANGED <<accessKeys, minted>>
    BY <1>1, <1>2 DEF Executed, Execute, Accepted, Outcome, Request, OK
  <2>4. Contract!Deleted(r)
    BY <2>1, <2>2, <2>3, NoCredentials DEF Contract!Deleted, Contract!Deletes
  <2> QED  BY <2>1, <2>4, SuccessAllowed
<1>3. CASE Refused(r)
  BY <1>1, <1>3, RefusedAllowed
<1> QED  BY <1>2, <1>3 DEF DeleteBucket

\* IAMClient.CreateUser: users are none of the contract's business.
LEMMA CreateUserAllowed ==
  ASSUME IInv, NEW r \in Rpc, CreateUser(r)
  PROVE  Allowed
<1>1. InApi(r) /\ Rest /\ pc[r] = "CreateUser" /\ call[r].op = "GrantBucketAccess"
  BY OpOfStep DEF CreateUser, InApi, Apis, IAMApis
<1>2. CASE Executed(r) /\ Proceed(r, "PutUserPolicy")
  <2>1. ApiStep(r) /\ pc'[r] = "PutUserPolicy"
    BY <1>1, <1>2, ExecutedStep, ProceedStep DEF Steps, Apis, IAMApis
  <2> QED  BY <2>1, UnderwayAllowed DEF Apis, IAMApis
<1>3. CASE Refused(r)
  BY <1>1, <1>3, RefusedAllowed
<1> QED  BY <1>2, <1>3 DEF CreateUser

\* IAMClient.CreateS3WildcardInlinePolicy: nor are policies.
LEMMA CreateS3WildcardInlinePolicyAllowed ==
  ASSUME IInv, NEW r \in Rpc, CreateS3WildcardInlinePolicy(r)
  PROVE  Allowed
<1>1. /\ InApi(r) /\ Rest /\ pc[r] = "PutUserPolicy"
      /\ call[r].op = "GrantBucketAccess"
  BY OpOfStep DEF CreateS3WildcardInlinePolicy, InApi, Apis, IAMApis
<1>2. CASE Executed(r) /\ Proceed(r, "CreateAccessKey")
  <2>1. ApiStep(r) /\ pc'[r] = "CreateAccessKey"
    BY <1>1, <1>2, ExecutedStep, ProceedStep DEF Steps, Apis, IAMApis
  <2> QED  BY <2>1, UnderwayAllowed DEF Apis, IAMApis
<1>3. CASE Refused(r)
  BY <1>1, <1>3, RefusedAllowed
<1> QED  BY <1>2, <1>3 DEF CreateS3WildcardInlinePolicy

\* IAMClient.CreateAccessKey: the key issued is the one in the reply.
LEMMA CreateAccessKeyAllowed ==
  ASSUME IInv, NEW r \in Rpc, CreateAccessKey(r)
  PROVE  Allowed
<1>1. /\ InApi(r) /\ Rest /\ pc[r] = "CreateAccessKey"
      /\ call[r].op = "GrantBucketAccess"
  BY OpOfStep DEF CreateAccessKey, InApi, Apis, IAMApis
<1>2. CASE \E k \in Issuable(Request(r)) :
             /\ Execute(Request(r), k) /\ Return(r, OK)
             /\ key' = [key EXCEPT ![r] = k] /\ UNCHANGED todo
  <2>1. PICK k \in Issuable(Request(r)) :
               /\ Execute(Request(r), k) /\ Return(r, OK)
               /\ key' = [key EXCEPT ![r] = k] /\ UNCHANGED todo
    BY <1>2
  <2>2. k \in Key /\ k \notin minted
    BY <1>1 DEF Issuable, Request
  <2>3. /\ key' \in [Rpc -> Key \union {None}] /\ key'[r] = k
        /\ \A s \in Rpc \ {r} : key'[s] = key[s]
    BY <2>1, <2>2 DEF IInv, TypeOK
  <2>4. ApiStep(r) /\ pc'[r] = "done" /\ reply'[r] = OK
    BY <1>1, <2>1, <2>3, ReturnStep DEF Codes, StorageStep
  <2>5. Cred' = [Cred EXCEPT ![r] = k]
    BY <1>1, <2>3, <2>4, ReturnLooks
  <2>6. /\ Work[r].op = "GrantBucketAccess" /\ Work[r].acct = acct[r]
        /\ Work[r].user = call[r].user
    BY <1>1 DEF Work, WorkOf, Request
  <2>7. /\ accessKeys' = accessKeys \union {<<acct[r], call[r].user, k>>}
        /\ minted' = minted \union {k} /\ UNCHANGED owner
    BY <1>1, <2>1 DEF Execute, Request
  <2>8. Contract!Granted(r)
    BY <2>2, <2>5, <2>6, <2>7 DEF Contract!Granted, Contract!Issues
  <2> QED  BY <2>4, <2>8, SuccessAllowed
<1>3. CASE Refused(r)
  BY <1>1, <1>3, RefusedAllowed
<1> QED  BY <1>2, <1>3 DEF CreateAccessKey

\* IAMClient.EnsureUserExists: a missing user ends the revoke at once.
LEMMA EnsureUserExistsAllowed ==
  ASSUME IInv, NEW r \in Rpc, EnsureUserExists(r)
  PROVE  Allowed
<1>1. InApi(r) /\ Rest /\ pc[r] = "GetUser" /\ call[r].op = "RevokeBucketAccess"
  BY OpOfStep DEF EnsureUserExists, InApi, Apis, IAMApis
<1>2. CASE Executed(r) /\ Proceed(r, "DeleteUserPolicy")
  <2>1. ApiStep(r) /\ pc'[r] = "DeleteUserPolicy"
    BY <1>1, <1>2, ExecutedStep, ProceedStep DEF Steps, Apis, IAMApis
  <2> QED  BY <2>1, UnderwayAllowed DEF Apis, IAMApis
<1>3. CASE Refused(r)
  BY <1>1, <1>3, RefusedAllowed
<1> QED  BY <1>2, <1>3 DEF EnsureUserExists

\* IAMClient.DeleteInlinePolicy, whether or not there was a policy.
LEMMA DeleteInlinePolicyAllowed ==
  ASSUME IInv, NEW r \in Rpc, DeleteInlinePolicy(r)
  PROVE  Allowed
<1>1. /\ InApi(r) /\ Rest /\ pc[r] = "DeleteUserPolicy"
      /\ call[r].op = "RevokeBucketAccess"
  BY OpOfStep DEF DeleteInlinePolicy, InApi, Apis, IAMApis
<1>2. CASE (Executed(r) \/ Tolerated(r)) /\ Proceed(r, "ListAccessKeys")
  <2>1. StorageStep(r)
    BY <1>1, <1>2, ExecutedStep DEF StorageStep, Tolerated
  <2>2. ApiStep(r) /\ pc'[r] = "ListAccessKeys"
    BY <1>1, <1>2, <2>1, ProceedStep DEF Steps, Apis, IAMApis
  <2> QED  BY <2>2, UnderwayAllowed DEF Apis, IAMApis
<1>3. CASE Untolerated(r)
  BY <1>1, <1>3, RefusedAllowed
<1> QED  BY <1>2, <1>3 DEF DeleteInlinePolicy

\* The loop of DeleteAllAccessKeys goes on.
LEMMA NextKeyAllowed ==
  ASSUME IInv, NEW r \in Rpc, InApi(r), Rest, StorageStep(r),
         call[r].op = "RevokeBucketAccess", UNCHANGED reply,
         NEW left \in SUBSET Key, NextKey(r, left),
         page' \in [Rpc -> SUBSET Key], \A s \in Rpc \ {r} : page'[s] = page[s]
  PROVE  Allowed
<1>1. ApiStep(r) /\ pc'[r] \in Apis
  BY NextKeyStep
<1> QED  BY <1>1, UnderwayAllowed

\* Its listing changes nothing.
LEMMA ListAccessKeysAllowed ==
  ASSUME IInv, NEW r \in Rpc, ListAccessKeys(r)
  PROVE  Allowed
<1>1. InApi(r) /\ Rest /\ pc[r] = "ListAccessKeys"
  BY DEF ListAccessKeys, InApi, Apis, IAMApis
<1>2. CASE /\ Executed(r)
           /\ \E p \in Pages(KeysOf(acct[r], call[r].user)) :
                page' = [page EXCEPT ![r] = p] /\ NextKey(r, p)
           /\ UNCHANGED reply
  <2>1. PICK p \in SUBSET Key : page' = [page EXCEPT ![r] = p] /\ NextKey(r, p)
    BY <1>2 DEF Pages, KeysOf
  <2>2. page' \in [Rpc -> SUBSET Key] /\ \A s \in Rpc \ {r} : page'[s] = page[s]
    BY <2>1 DEF IInv, TypeOK
  <2> QED  BY <1>1, <1>2, <2>1, <2>2, ExecutedStep, OpOfStep, NextKeyAllowed
<1>3. CASE Refused(r)
  BY <1>1, <1>3, RefusedAllowed
<1> QED  BY <1>2, <1>3 DEF ListAccessKeys

\* One round of it takes back at most one key of the user.
LEMMA DeleteAccessKeyAllowed ==
  ASSUME IInv, NEW r \in Rpc, DeleteAccessKey(r)
  PROVE  Allowed
<1>1. InApi(r) /\ Rest /\ pc[r] = "DeleteAccessKey"
  BY DEF DeleteAccessKey, InApi, Apis, IAMApis
<1>2. CASE /\ Executed(r) \/ Tolerated(r)
           /\ NextKey(r, todo[r]) /\ UNCHANGED <<page, reply>>
  <2>1. StorageStep(r)
    BY <1>1, <1>2, ExecutedStep DEF StorageStep, Tolerated
  <2>2. todo[r] \in SUBSET Key /\ page \in [Rpc -> SUBSET Key]
    BY DEF IInv, TypeOK
  <2> QED  BY <1>1, <1>2, <2>1, <2>2, OpOfStep, NextKeyAllowed
<1>3. CASE Untolerated(r)
  BY <1>1, <1>3, RefusedAllowed
<1> QED  BY <1>2, <1>3 DEF DeleteAccessKey

\* IAMClient.DeleteUser: IAM deletes no user that still has keys, and a user
\* that is missing has none.
LEMMA DeleteUserAllowed ==
  ASSUME IInv, NEW r \in Rpc, DeleteUser(r)
  PROVE  Allowed
<1>1. InApi(r) /\ Rest /\ pc[r] = "DeleteUser" /\ call[r].op = "RevokeBucketAccess"
  BY OpOfStep DEF DeleteUser, InApi, Apis, IAMApis
<1>2. CASE /\ Executed(r) \/ Tolerated(r)
           /\ Return(r, OK) /\ UNCHANGED <<key, todo>>
  <2>1. StorageStep(r)
    BY <1>1, <1>2, ExecutedStep DEF StorageStep, Tolerated
  <2>2. ApiStep(r) /\ pc'[r] = "done" /\ reply'[r] = OK
    BY <1>1, <1>2, <2>1, ReturnStep DEF Codes, IInv, TypeOK
  <2>3. UNCHANGED <<owner, accessKeys, minted>>
    BY <1>1, <1>2 DEF Executed, Execute, Request, Tolerated, storageVars
  <2>4. \A k \in Key : <<acct[r], call[r].user, k>> \notin accessKeys
    <3>1. CASE Executed(r)
      BY <1>1, <3>1
      DEF Executed, Execute, Accepted, Outcome, Attached, KeysOf, HasUser,
          Request, OK
    <3>2. CASE Tolerated(r)
      <4>1. Outcome(Request(r)) = "NoSuchEntity"
        BY <3>2, SpontaneousAssumption DEF Tolerated, Refusals, MissingResourceCodes
      <4>2. <<acct[r], call[r].user>> \notin users
        BY <1>1, <4>1 DEF Outcome, Request, HasUser, OK
      <4> QED  BY <4>2 DEF IInv, TypeOK, StorageTypeOK, StorageInv
    <3> QED  BY <1>2, <3>1, <3>2
  <2> QED  BY <1>1, <2>2, <2>3, <2>4, RevokedAllowed
<1>3. CASE Untolerated(r)
  BY <1>1, <1>3, RefusedAllowed
<1> QED  BY <1>2, <1>3 DEF DeleteUser

\* A request that goes unanswered is sent again or given up.
LEMMA UnansweredAllowed ==
  ASSUME IInv, NEW r \in Rpc, Unanswered(r)
  PROVE  Allowed
<1>1. /\ InApi(r) /\ UNCHANGED storageVars
      /\ UNCHANGED <<call, acct, seen, contended, clusterVars>>
      /\ late' \subseteq late \union {Request(r)}
  BY DEF Unanswered
<1>2. CASE /\ attempt[r] < MaxAttempts
           /\ attempt' = [attempt EXCEPT ![r] = @ + 1]
           /\ UNCHANGED <<pc, key, page, todo, reply>>
  <2>1. ApiStep(r)
    BY <1>1, <1>2, ResendStep
  <2> QED  BY <1>1, <1>2, <2>1, UnderwayAllowed DEF InApi
<1>3. CASE Abort(r, NonAPIError)
  BY <1>1, <1>3, AbortAllowed DEF NonAPIError
<1> QED  BY <1>2, <1>3 DEF Unanswered

---------------------------------------------------------------------------

(***************************************************************************)
(* The steps before a handler has its client, and those of the others.     *)
(***************************************************************************)

\* Work under way changes only with the requests that are.
LEMMA AtWorkSame ==
  ASSUME late' = late,
         \A s \in Rpc : /\ InApi(s)' <=> InApi(s)
                        /\ InApi(s) => WorkOf(Request(s))' = WorkOf(Request(s))
  PROVE  AtWork' = AtWork
<1>1. AtWork' \subseteq AtWork
  BY DEF AtWork, WorkOf
<1>2. AtWork \subseteq AtWork'
  BY DEF AtWork, WorkOf
<1> QED  BY <1>1, <1>2

\* The contract takes the call in; it learns of its account only later.
LEMMA ReceiveAllowed ==
  ASSUME IInv, NEW r \in Rpc, NEW c \in Calls, Receive(r, c)
  PROVE  Allowed
<1>1. TypeOK /\ pc[r] = "idle" /\ acct[r] = None
  BY DEF IInv, TypeOK, Receive
<1>2. /\ pc'[r] \in {"GetBucket", "InitClient"}
      /\ call'[r] = c /\ acct'[r] = None
      /\ \A s \in Rpc \ {r} : pc'[s] = pc[s] /\ call'[s] = call[s]
      /\ UNCHANGED <<acct, key, reply, late, storageVars>>
  BY <1>1 DEF Receive, Goto, TypeOK
<1>3. \A s \in Rpc \ {r} : /\ Stage'[s] = Stage[s] /\ Work'[s] = Work[s]
                           /\ Cred'[s] = Cred[s]
  BY <1>2, LooksSame
<1>4. /\ Stage[r] = "idle" /\ Stage'[r] = "busy"
      /\ Cred[r] = None /\ Cred'[r] = None
  BY <1>1, <1>2 DEF Stage, Cred, Succeeded
<1> DEFINE w == [op |-> c.op, bucket |-> c.bucket, user |-> c.user, acct |-> None]
<1>5. Work'[r] = w
  BY <1>2 DEF Work, WorkOf, Request
<1>6. w \in Contract!Orders
  BY DEF Contract!Orders, Calls
<1>7. /\ Stage' = [Stage EXCEPT ![r] = "busy"] /\ Work' = [Work EXCEPT ![r] = w]
      /\ Cred' = Cred
  BY <1>3, <1>4, <1>5, ViewShape
<1>8. AtWork' = AtWork
  <2>1. \A s \in Rpc : InApi(s)' <=> InApi(s)
    BY <1>1, <1>2 DEF InApi, Apis, S3Apis, IAMApis
  <2>2. \A s \in Rpc : InApi(s) => WorkOf(Request(s))' = WorkOf(Request(s))
    BY <1>1, <1>2 DEF WorkOf, Request, InApi, Apis, S3Apis, IAMApis
  <2> QED  BY <1>2, <2>1, <2>2, AtWorkSame
<1>9. Contract!Take(r, w)
  BY <1>2, <1>4, <1>7, <1>8 DEF Contract!Take, Contract!storage, storageVars
<1> QED  BY <1>6, <1>9 DEF Allowed, Contract!Next

\* Without a client, a handler goes on unseen or fails.
LEMMA EarlyAllowed ==
  ASSUME IInv, NEW r \in Rpc, EarlyStep(r),
         call'[r].bucket = call[r].bucket, call'[r].user = call[r].user
  PROVE  Allowed
<1>1. /\ pc[r] \in {"GetBucket", "InitClient"}
      /\ \A s \in Rpc \ {r} :
           pc'[s] = pc[s] /\ call'[s] = call[s] /\ reply'[s] = reply[s]
      /\ call'[r].op = call[r].op
      /\ UNCHANGED <<acct, key, late, storageVars>>
      /\ pc'[r] = "InitClient" \/ (pc'[r] = "done" /\ reply'[r] = "Internal")
  BY DEF EarlyStep
<1>2. \A s \in Rpc \ {r} : /\ Stage'[s] = Stage[s] /\ Work'[s] = Work[s]
                           /\ Cred'[s] = Cred[s]
  BY <1>1, LooksSame
<1>3. Stage[r] = "busy" /\ Work'[r] = Work[r] /\ Cred[r] = None /\ Cred'[r] = None
  BY <1>1 DEF Stage, Work, WorkOf, Request, Cred, Succeeded, OK
<1>4. Work' = Work /\ Cred' = Cred
  BY <1>2, <1>3, ViewShape
<1>5. AtWork' = AtWork
  <2>1. \A s \in Rpc : InApi(s)' <=> InApi(s)
    BY <1>1 DEF InApi, Apis, S3Apis, IAMApis
  <2>2. \A s \in Rpc : WorkOf(Request(s))' = WorkOf(Request(s))
    BY <1>1 DEF WorkOf, Request
  <2> QED  BY <1>1, <2>1, <2>2, AtWorkSame
<1>6. CASE pc'[r] = "InitClient"
  <2>1. Stage'[r] = "busy"
    BY <1>6 DEF Stage
  <2>2. Stage' = Stage
    BY <1>2, <1>3, <2>1, ViewShape
  <2> QED  BY <1>1, <1>4, <1>5, <2>2 DEF Allowed, Contract!vars, storageVars
<1>7. CASE pc'[r] = "done" /\ reply'[r] = "Internal"
  <2>1. Stage'[r] = "failed"
    BY <1>7 DEF Stage, OK
  <2>2. Stage' = [Stage EXCEPT ![r] = "failed"]
    BY <1>2, <2>1, ViewShape
  <2>3. Contract!Fail(r)
    BY <1>1, <1>3, <1>4, <1>5, <2>2 DEF Contract!Fail, Contract!storage, storageVars
  <2> QED  BY <2>3 DEF Allowed, Contract!Next
<1> QED  BY <1>1, <1>6, <1>7

\* The lookup of the Bucket object is not seen unless it fails.
LEMMA GetBucketAllowed ==
  ASSUME IInv, NEW r \in Rpc, GetBucket(r)
  PROVE  Allowed
<1>1. EarlyStep(r)
  BY GetBucketEarly
<1>2. call'[r].bucket = call[r].bucket /\ call'[r].user = call[r].user
  <2>1. call \in [Rpc -> Calls \union {NoCall}]
    BY DEF IInv, TypeOK
  <2>2. /\ DOMAIN call[r] = {"op", "bucket", "user", "params"}
        /\ r \in DOMAIN call
    BY <2>1 DEF Calls, NoCall
  <2> QED  BY <2>2 DEF GetBucket
<1> QED  BY <1>1, <1>2, EarlyAllowed

\* With its client the call sets to work for the account of the Secret.
LEMMA InitClientAllowed ==
  ASSUME IInv, NEW r \in Rpc, InitClient(r)
  PROVE  Allowed
<1>1. /\ TypeOK /\ pc[r] = "InitClient" /\ acct[r] = None
      /\ UNCHANGED <<call, seen, storageVars, clusterVars, late>>
  BY DEF IInv, TypeOK, InitClient
<1>2. CASE Return(r, "Internal") /\ UNCHANGED <<acct, key, todo, contended>>
  BY <1>1, <1>2, InitClientFails, EarlyAllowed
<1> DEFINE a == secretAcct[call[r].params]
<1>3. CASE /\ a # None
           /\ acct' = [acct EXCEPT ![r] = a]
           /\ Proceed(r, FirstApi(call[r].op))
  <2>1. a \in Account /\ FirstApi(call[r].op) \in Apis
    BY <1>1, <1>3
    DEF TypeOK, Calls, NoCall, Steps, FirstApi, Apis, S3Apis, IAMApis
  <2>2. /\ pc'[r] \in Apis /\ acct'[r] = a
        /\ \A s \in Rpc \ {r} : pc'[s] = pc[s] /\ acct'[s] = acct[s]
        /\ UNCHANGED <<key, reply>>
    BY <1>1, <1>3, <2>1 DEF TypeOK, Proceed, Goto
  <2>3. \A s \in Rpc \ {r} : /\ Stage'[s] = Stage[s] /\ Work'[s] = Work[s]
                             /\ Cred'[s] = Cred[s]
    BY <1>1, <2>2, LooksSame
  <2>4. /\ Stage[r] = "busy" /\ Stage'[r] = "busy"
        /\ Cred[r] = None /\ Cred'[r] = None
    BY <1>1, <2>2 DEF Stage, Cred, Succeeded, Apis, S3Apis, IAMApis
  <2>5. Work[r].acct = None /\ Work'[r] = [Work[r] EXCEPT !.acct = a]
    BY <1>1, <2>2 DEF Work, WorkOf, Request
  <2>6. /\ Stage' = Stage /\ Cred' = Cred
        /\ Work' = [Work EXCEPT ![r].acct = a]
    BY <2>3, <2>4, <2>5, ViewShape
  <2>7. AtWork' = AtWork \union {Work'[r]}
    <3>1. \A s \in Rpc \ {r} : /\ InApi(s)' <=> InApi(s)
                               /\ WorkOf(Request(s))' = WorkOf(Request(s))
      BY <1>1, <2>2 DEF InApi, WorkOf, Request
    <3>2. /\ ~InApi(r) /\ InApi(r)'
          /\ Work'[r] = WorkOf(Request(r))'
      BY <1>1, <2>2 DEF InApi, Work, Apis, S3Apis, IAMApis
    <3>3. ASSUME NEW w \in AtWork'
          PROVE  w \in AtWork \/ w = Work'[r]
      <4>1. CASE \E q \in late' : w = WorkOf(q)
        BY <1>1, <4>1 DEF AtWork
      <4>2. CASE \E s \in Rpc : InApi(s)' /\ w = WorkOf(Request(s))'
        BY <4>2, <3>1, <3>2 DEF AtWork
      <4> QED  BY <4>1, <4>2 DEF AtWork
    <3>4. ASSUME NEW w \in AtWork
          PROVE  w \in AtWork'
      <4>1. CASE \E q \in late : w = WorkOf(q)
        BY <1>1, <4>1 DEF AtWork
      <4>2. CASE \E s \in Rpc : InApi(s) /\ w = WorkOf(Request(s))
        BY <4>2, <3>1, <3>2 DEF AtWork
      <4> QED  BY <4>1, <4>2 DEF AtWork
    <3>5. Work'[r] \in AtWork'
      BY <3>2 DEF AtWork
    <3> QED  BY <3>3, <3>4, <3>5
  <2>8. Contract!Engage(r, a)
    BY <1>1, <2>4, <2>5, <2>6, <2>7
    DEF Contract!Engage, Contract!storage, storageVars
  <2> QED  BY <2>1, <2>8 DEF Allowed, Contract!Next
<1> QED  BY <1>2, <1>3 DEF InitClient

\* A request that nobody waits for any more is still work that was asked for.
LEMMA LateArrivalAllowed ==
  ASSUME IInv, NEW q \in late, LateArrival(q)
  PROVE  Allowed
<1>1. /\ UNCHANGED <<pc, call, acct, key, reply>> /\ late' \subseteq late
      /\ TypeOK /\ q \in Requests
  BY DEF LateArrival, handlerVars, IInv, TypeOK
<1>2. UNCHANGED <<Stage, Work, Cred>>
  BY <1>1, LooksSame, CallsSame
<1>3. AtWork' \subseteq AtWork
  BY <1>1 DEF AtWork, WorkOf, Request, InApi
<1>4. WorkOf(q) \in AtWork
  BY DEF AtWork
<1>5. CASE UNCHANGED <<owner, accessKeys, minted>>
  BY <1>2, <1>3, <1>5
  DEF Allowed, Contract!Next, Contract!Expire, Contract!calls, Contract!storage
<1>6. CASE Contract!Effect(WorkOf(q))
  BY <1>2, <1>3, <1>4, <1>6
  DEF Allowed, Contract!Next, Contract!Progress, Contract!calls
<1> QED  BY <1>1, <1>5, <1>6, EffectOfRequest DEF LateArrival, storageVars

\* Calls end, and leave at most the requests they were waiting in.
LEMMA ResetAllowed ==
  ASSUME IInv, NEW R \in SUBSET Rpc, Reset(R),
         \A q \in late' : q \in late \/ \E s \in Rpc : InApi(s) /\ q = Request(s)
  PROVE  Allowed
<1>1. /\ \A s \in R : pc'[s] = "idle" /\ call'[s] = NoCall /\ acct'[s] = None
      /\ \A s \in Rpc \ R :
           /\ pc'[s] = pc[s] /\ call'[s] = call[s] /\ acct'[s] = acct[s]
           /\ key'[s] = key[s] /\ reply'[s] = reply[s]
      /\ UNCHANGED storageVars
  BY DEF Reset
<1>2. \A s \in R : /\ Stage'[s] = "idle" /\ Cred'[s] = None
                   /\ Work'[s] = Contract!NoWork
  BY <1>1 DEF Stage, Cred, Succeeded, Work, WorkOf, Request, NoCall, Contract!NoWork
<1>3. \A s \in Rpc \ R : /\ Stage'[s] = Stage[s] /\ Work'[s] = Work[s]
                         /\ Cred'[s] = Cred[s]
  BY <1>1, LooksSame
<1>4. /\ Stage' = [s \in Rpc |-> IF s \in R THEN "idle" ELSE Stage[s]]
      /\ Work' = [s \in Rpc |-> IF s \in R THEN Contract!NoWork ELSE Work[s]]
      /\ Cred' = [s \in Rpc |-> IF s \in R THEN None ELSE Cred[s]]
  BY <1>2, <1>3, ViewShape
<1>5. AtWork' \subseteq AtWork
  <2>1. \A s \in Rpc : InApi(s)' =>
          InApi(s) /\ WorkOf(Request(s))' = WorkOf(Request(s))
    BY <1>1 DEF InApi, WorkOf, Request, Apis, S3Apis, IAMApis
  <2> QED  BY <2>1, AtWorkShrinks
<1>6. Contract!End(R)
  BY <1>1, <1>4, <1>5 DEF Contract!End, Contract!storage, storageVars
<1> QED  BY <1>6 DEF Allowed, Contract!Next

\* The contract does not see the cluster, nor what applications store.
LEMMA ClusterAllowed ==
  ASSUME UNCHANGED <<handlerVars, late>>, UNCHANGED <<owner, accessKeys, minted>>
  PROVE  Allowed
<1>1. UNCHANGED <<pc, call, acct, key, reply, late>>
  BY DEF handlerVars
<1>2. UNCHANGED <<Stage, Work, Cred>>
  BY <1>1, LooksSame, CallsSame
<1>3. AtWork' = AtWork
  BY <1>1, AtWorkSame DEF InApi, WorkOf, Request
<1> QED  BY <1>2, <1>3 DEF Allowed, Contract!vars

---------------------------------------------------------------------------

(***************************************************************************)
(* Every step is one that the contract allows.                             *)
(***************************************************************************)
LEMMA NextAllowed == IInv /\ [Next]_vars => [Contract!Next]_(Contract!vars)
<1> SUFFICES ASSUME IInv, [Next]_vars PROVE Allowed
  BY DEF Allowed
<1>1. ASSUME NEW r \in Rpc, Handle(r) PROVE Allowed
  BY <1>1, GetBucketAllowed, InitClientAllowed, CreateBucketAllowed,
     DeleteBucketAllowed, CreateUserAllowed, CreateS3WildcardInlinePolicyAllowed,
     CreateAccessKeyAllowed, EnsureUserExistsAllowed, DeleteInlinePolicyAllowed,
     ListAccessKeysAllowed, DeleteAccessKeyAllowed, DeleteUserAllowed,
     UnansweredAllowed
  DEF Handle
<1>2. ASSUME NEW r \in Rpc, Finish(r) PROVE Allowed
  BY <1>2, ResetAllowed DEF Finish
<1>3. ASSUME NEW r \in Rpc, NEW c \in Calls, Receive(r, c) PROVE Allowed
  BY <1>3, ReceiveAllowed
<1>4. ASSUME NEW q \in late, LateArrival(q) PROVE Allowed
  BY <1>4, LateArrivalAllowed
<1>5. CASE Crash
  <2>1. PICK Q \in SUBSET {Request(r) : r \in {s \in Rpc : InApi(s)}} :
          late' = late \union Q
    BY <1>5 DEF Crash
  <2>2. \A q \in late' : q \in late \/ \E s \in Rpc : InApi(s) /\ q = Request(s)
    BY <2>1
  <2> QED  BY <1>5, <2>2, ResetAllowed DEF Crash
<1>6. ASSUME NEW b \in Bucket, NEW p \in Params \union {None},
             BucketObjectChanges(b, p)
      PROVE  Allowed
  BY <1>6, ClusterAllowed DEF BucketObjectChanges, storageVars
<1>7. ASSUME NEW p \in Params, NEW a \in Account \union {None},
             SecretChanges(p, a)
      PROVE  Allowed
  BY <1>7, ClusterAllowed DEF SecretChanges, storageVars
<1>8. ASSUME NEW b \in Bucket, Workload(b) PROVE Allowed
  BY <1>8, ClusterAllowed DEF Workload, WorkloadWrites, WorkloadEmpties
<1>9. CASE UNCHANGED vars
  BY <1>9, ClusterAllowed DEF vars, storageVars
<1> QED
  BY <1>1, <1>2, <1>3, <1>4, <1>5, <1>6, <1>7, <1>8, <1>9 DEF Next, Environment

\* Nothing has been taken, issued or created to begin with.
LEMMA InitAllowed == Init => Contract!Init
<1> SUFFICES ASSUME Init PROVE Contract!Init
  OBVIOUS
<1>1. Stage = [r \in Rpc |-> "idle"] /\ Cred = [r \in Rpc |-> None]
  BY DEF Init, Stage, Cred, Succeeded
<1>2. Work = [r \in Rpc |-> Contract!NoWork]
  BY DEF Init, Work, WorkOf, Request, NoCall, Contract!NoWork
<1>3. AtWork = {}
  BY DEF Init, AtWork, InApi, Apis, S3Apis, IAMApis
<1> QED  BY <1>1, <1>2, <1>3 DEF Init, StorageInit, Contract!Init

(***************************************************************************)
(* The handlers implement the contract: every success they report is true  *)
(* at the instant it is decided, and nothing is created, issued, deleted   *)
(* or taken back but by work that was asked for, for any number of calls,  *)
(* whatever is lost, late, repeated or cut off by a crash.                 *)
(***************************************************************************)
THEOREM Implementation == Spec => ImplementsContract
BY Invariance, InitAllowed, NextAllowed, PTL
DEF Spec, ImplementsContract, Contract!Spec

============================================================================
