---------------------------- MODULE Provisioner ----------------------------
(***************************************************************************)
(* pkg/driver ProvisionerServer with pkg/clients/s3 and pkg/clients/iam:   *)
(* the four COSI calls as the gRPC server runs them, each in a goroutine   *)
(* of its own, over the object storage provider and the Kubernetes API.    *)
(*                                                                         *)
(* pc[r] names the blocking call that goroutine r is waiting in; between   *)
(* two of them the handler runs to the next.  A request to the provider    *)
(* may be answered, refused, or left unanswered past the HTTP timeout;     *)
(* one left unanswered may still be carried out at any later time.         *)
(***************************************************************************)
EXTENDS ObjectStorage, Naturals, FiniteSets

CONSTANTS Rpc,          \* goroutines serving gRPC calls
          Params,       \* parameter maps of BucketClasses and BucketAccessClasses
          Ops,          \* the COSI calls that are made
          MaxAttempts,  \* times the SDK sends one request
          PageSize,     \* access keys in one ListAccessKeys answer
          MaxLate       \* bound: unanswered requests pending at the provider

ASSUME ProvisionerAssumption ==
  /\ Ops \subseteq Actions
  /\ None \notin Params
  /\ MaxAttempts \in Nat \ {0}
  /\ PageSize \in Nat \ {0}
  /\ MaxLate \in Nat

VARIABLES
  pc,         \* pc[r]: the blocking call r is in, "idle" or "done"
  call,       \* call[r]: the gRPC request r serves
  acct,       \* acct[r]: account of the client r initialised, or None
  attempt,    \* attempt[r]: how often the pending request was sent
  key,        \* key[r]: access key being deleted, or the one granted
  page,       \* page[r]: access keys that ListAccessKeys returned
  todo,       \* todo[r]: those of them the loop has not come to yet
  reply,      \* reply[r]: gRPC code returned, or "Panic"
  bucketObj,  \* spec.parameters of each Bucket object, None if there is none
  secretAcct, \* account whose credentials the Secret named by params holds
  late,       \* requests given up by their sender, still pending
  seen,       \* history: keys minted when r received its call
  contended   \* history: the r whose work another call has set out to undo

handlerVars == <<pc, call, acct, attempt, key, page, todo, reply, seen,
                 contended>>
clusterVars == <<bucketObj, secretAcct>>
vars == <<storageVars, handlerVars, clusterVars, late>>

---------------------------------------------------------------------------

S3Apis  == {"CreateBucket", "DeleteBucket"}
IAMApis == {"CreateUser", "PutUserPolicy", "CreateAccessKey", "GetUser",
            "DeleteUserPolicy", "ListAccessKeys", "DeleteAccessKey",
            "DeleteUser"}
Apis    == S3Apis \union IAMApis

\* Delete and revoke bring no class parameters: the Bucket object has them.
NeedsBucketObject(op) == op \in {"DeleteBucket", "RevokeBucketAccess"}

\* The gRPC requests, with the parameters the handler has got so far.
Calls ==
  [op : {"CreateBucket", "DeleteBucket"},
   bucket : Bucket, user : {None}, params : Params \union {None}]
    \union
  [op : {"GrantBucketAccess", "RevokeBucketAccess"},
   bucket : Bucket, user : User, params : Params \union {None}]

NoCall == [op |-> "none", bucket |-> None, user |-> None, params |-> None]
NoReply == "none"

\* The handler has its client and is in, or past, its provider requests.
Engaged(r) == pc[r] \in Apis \union {"done"}
InApi(r)   == pc[r] \in Apis

\* Mutant: every request is signed with what the Secret holds by then.
MutRequest(r) ==
  [op |-> call[r].op, api |-> pc[r],
   acct |-> IF InApi(r) THEN secretAcct[call[r].params] ELSE acct[r],
   bucket |-> call[r].bucket, user |-> call[r].user, key |-> key[r]]

\* The provider request r is blocked in.
Request(r) ==
  [op |-> call[r].op, api |-> pc[r], acct |-> acct[r],
   bucket |-> call[r].bucket, user |-> call[r].user, key |-> key[r]]

(***************************************************************************)
(* The operation that takes back what op does, and whether two requests    *)
(* belong to operations that undo each other's work: on the same bucket,   *)
(* or on the same user, with the credentials of the same account.          *)
(***************************************************************************)
Opposite(op) ==
  CASE op = "CreateBucket"       -> "DeleteBucket"
    [] op = "DeleteBucket"       -> "CreateBucket"
    [] op = "GrantBucketAccess"  -> "RevokeBucketAccess"
    [] op = "RevokeBucketAccess" -> "GrantBucketAccess"

Undoes(q, p) ==
  /\ p.op = Opposite(q.op)
  /\ p.acct = q.acct
  /\ IF q.op \in S3Apis THEN p.bucket = q.bucket ELSE p.user = q.user

---------------------------------------------------------------------------

Init ==
  /\ StorageInit
  /\ pc = [r \in Rpc |-> "idle"]
  /\ call = [r \in Rpc |-> NoCall]
  /\ acct = [r \in Rpc |-> None]
  /\ attempt = [r \in Rpc |-> 1]
  /\ key = [r \in Rpc |-> None]
  /\ page = [r \in Rpc |-> {}]
  /\ todo = [r \in Rpc |-> {}]
  /\ reply = [r \in Rpc |-> NoReply]
  /\ seen = [r \in Rpc |-> {}]
  /\ contended = {}
  /\ bucketObj \in [Bucket -> Params \union {None}]
  /\ secretAcct \in [Params -> Account \union {None}]
  /\ late = {}

(***************************************************************************)
(* How a handler goes on.                                                  *)
(***************************************************************************)
Goto(r, step) ==
  /\ pc' = [pc EXCEPT ![r] = step]
  /\ attempt' = [attempt EXCEPT ![r] = 1]

Return(r, code) ==
  /\ Goto(r, "done")
  /\ page' = [page EXCEPT ![r] = {}]
  /\ reply' = [reply EXCEPT ![r] = code]

\* On to the next blocking call, keys untouched.
Proceed(r, step) == Goto(r, step) /\ UNCHANGED <<key, page, todo, reply>>

\* The status a handler returns for provider error err.  A grant whose
\* error translates to nil dereferences the credentials it did not get.
StatusOf(op, err) ==
  LET code == IF op \in S3Apis THEN TranslateS3Error(op, err)
                               ELSE TranslateIAMError(op, err)
  IN  IF op = "GrantBucketAccess" /\ code = OK THEN "Panic" ELSE code

Abort(r, err) ==
  /\ Return(r, StatusOf(call[r].op, err))
  /\ UNCHANGED <<key, todo>>

\* The request r is in is refused with err, and the method gives up.
RefusedWith(r, errs) ==
  \E err \in Refusals(Request(r)) \intersect errs :
    Abort(r, err) /\ UNCHANGED storageVars

Refused(r) == RefusedWith(r, Refusals(Request(r)))

\* Mutant: every refused deletion is passed over, whatever the error.
MutTolerated(r) == Refusals(Request(r)) # {} /\ UNCHANGED storageVars

\* The request is refused, but only because there is nothing to delete.
Tolerated(r) == "NoSuchEntity" \in Refusals(Request(r)) /\ UNCHANGED storageVars

Untolerated(r) == RefusedWith(r, Refusals(Request(r)) \ {"NoSuchEntity"})

Executed(r) == Execute(Request(r), None)

\* What an action on handler r leaves alone once its call is engaged.
Rest == UNCHANGED <<call, acct, seen, contended, clusterVars, late>>

---------------------------------------------------------------------------

(***************************************************************************)
(* The gRPC server hands a call to a goroutine.                            *)
(***************************************************************************)
Receive(r, c) ==
  /\ pc[r] = "idle"
  /\ c.op \in Ops /\ (c.params = None <=> NeedsBucketObject(c.op))
  /\ Goto(r, IF NeedsBucketObject(c.op) THEN "GetBucket" ELSE "InitClient")
  /\ call' = [call EXCEPT ![r] = c]
  /\ seen' = [seen EXCEPT ![r] = minted]
  /\ UNCHANGED <<acct, key, page, todo, reply, contended, storageVars,
                 clusterVars, late>>

\* Mutant: a lookup that fails is taken to mean that there is nothing to do.
MutGetBucket(r) ==
  /\ pc[r] = "GetBucket"
  /\ \/ /\ bucketObj[call[r].bucket] # None
        /\ call' = [call EXCEPT ![r].params = bucketObj[call[r].bucket]]
        /\ Proceed(r, "InitClient")
     \/ /\ Return(r, OK)
        /\ UNCHANGED <<call, key, todo>>
  /\ UNCHANGED <<acct, seen, contended, storageVars, clusterVars, late>>

(***************************************************************************)
(* Buckets().Get: delete and revoke take their parameters from the Bucket  *)
(* object.  Any error, a missing object or a failed request, is Internal.  *)
(***************************************************************************)
GetBucket(r) ==
  /\ pc[r] = "GetBucket"
  /\ \/ /\ bucketObj[call[r].bucket] # None
        /\ call' = [call EXCEPT ![r].params = bucketObj[call[r].bucket]]
        /\ Proceed(r, "InitClient")
     \/ /\ Return(r, "Internal")
        /\ UNCHANGED <<call, key, todo>>
  /\ UNCHANGED <<acct, seen, contended, storageVars, clusterVars, late>>

\* The first request of each operation.
FirstApi(op) ==
  CASE op = "CreateBucket"       -> "CreateBucket"
    [] op = "DeleteBucket"       -> "DeleteBucket"
    [] op = "GrantBucketAccess"  -> "CreateUser"
    [] op = "RevokeBucketAccess" -> "GetUser"

(***************************************************************************)
(* InitializeClient: read the Secret the parameters name and build the     *)
(* client from it.  From here on the call can undo others and be undone.   *)
(***************************************************************************)
InitClient(r) ==
  /\ pc[r] = "InitClient"
  /\ \/ LET a == secretAcct[call[r].params]
            q == [Request(r) EXCEPT !.acct = a]
        IN  /\ a # None
            /\ acct' = [acct EXCEPT ![r] = a]
            /\ Proceed(r, FirstApi(call[r].op))
            /\ contended' = {s \in Rpc :
                 IF s = r
                   THEN \/ \E t \in Rpc : InApi(t) /\ Undoes(q, Request(t))
                        \/ \E p \in late : Undoes(q, p)
                   ELSE s \in contended \/ (Engaged(s) /\ Undoes(q, Request(s)))}
     \/ /\ Return(r, "Internal")
        /\ UNCHANGED <<acct, key, todo, contended>>
  /\ UNCHANGED <<call, seen, storageVars, clusterVars, late>>

---------------------------------------------------------------------------

(***************************************************************************)
(* S3Client.CreateBucket and DeleteBucket, and the handler's return.       *)
(***************************************************************************)
CreateBucket(r) ==
  /\ pc[r] = "CreateBucket"
  /\ \/ Executed(r) /\ Return(r, OK) /\ UNCHANGED <<key, todo>>
     \/ Refused(r)
  /\ Rest

DeleteBucket(r) ==
  /\ pc[r] = "DeleteBucket"
  /\ \/ Executed(r) /\ Return(r, OK) /\ UNCHANGED <<key, todo>>
     \/ Refused(r)
  /\ Rest

(***************************************************************************)
(* IAMClient.CreateBucketAccess: user, then policy, then access key; the   *)
(* first error ends it and nothing done before is taken back.              *)
(***************************************************************************)
\* Mutant: the policy is forgotten.
MutCreateUser(r) ==
  /\ pc[r] = "CreateUser"
  /\ \/ Executed(r) /\ Proceed(r, "CreateAccessKey")
     \/ Refused(r)
  /\ Rest

\* Mutant: a user that is there already is deleted, to start over.
MutRecreateUser(r) ==
  /\ pc[r] = "CreateUser"
  /\ \/ Executed(r) /\ Proceed(r, "PutUserPolicy")
     \/ /\ HasUser(Request(r)) /\ ~Attached(Request(r))
        /\ users' = users \ {<<acct[r], call[r].user>>}
        /\ UNCHANGED <<owner, nonEmpty, policies, accessKeys, minted>>
        /\ Proceed(r, "CreateUser")
  /\ Rest

CreateUser(r) ==
  /\ pc[r] = "CreateUser"
  /\ \/ Executed(r) /\ Proceed(r, "PutUserPolicy")
     \/ Refused(r)
  /\ Rest

\* Mutant: the error of PutUserPolicy is dropped.
MutCreateS3WildcardInlinePolicy(r) ==
  /\ pc[r] = "PutUserPolicy"
  /\ Executed(r) \/ (Refusals(Request(r)) # {} /\ UNCHANGED storageVars)
  /\ Proceed(r, "CreateAccessKey")
  /\ Rest

CreateS3WildcardInlinePolicy(r) ==
  /\ pc[r] = "PutUserPolicy"
  /\ \/ Executed(r) /\ Proceed(r, "CreateAccessKey")
     \/ Refused(r)
  /\ Rest

CreateAccessKey(r) ==
  /\ pc[r] = "CreateAccessKey"
  /\ \/ \E k \in Issuable(Request(r)) :
           /\ Execute(Request(r), k)
           /\ Return(r, OK)
           /\ key' = [key EXCEPT ![r] = k]
           /\ UNCHANGED todo
     \/ Refused(r)
  /\ Rest

(***************************************************************************)
(* IAMClient.RevokeBucketAccess: the user must exist; its policy for the   *)
(* bucket, the access keys ListAccessKeys returns and the user itself are  *)
(* deleted in this order, and what is already gone is passed over.         *)
(***************************************************************************)
EnsureUserExists(r) ==
  /\ pc[r] = "GetUser"
  /\ \/ Executed(r) /\ Proceed(r, "DeleteUserPolicy")
     \/ Refused(r)
  /\ Rest

DeleteInlinePolicy(r) ==
  /\ pc[r] = "DeleteUserPolicy"
  /\ \/ (Executed(r) \/ Tolerated(r)) /\ Proceed(r, "ListAccessKeys")
     \/ Untolerated(r)
  /\ Rest

\* Mutant: the keys are listed page after page, and no page is the last.
MutNextPage(r, left) ==
  \/ /\ left = {}
     /\ Goto(r, "ListAccessKeys")
     /\ UNCHANGED <<key, todo>>
  \/ \E k \in left :
       /\ Goto(r, "DeleteAccessKey")
       /\ key' = [key EXCEPT ![r] = k]
       /\ todo' = [todo EXCEPT ![r] = left \ {k}]

\* Mutant: the loop ends one key too early.
MutLastKey(r, left) ==
  \/ /\ Cardinality(left) <= 1
     /\ Goto(r, "DeleteUser")
     /\ key' = [key EXCEPT ![r] = None]
     /\ todo' = [todo EXCEPT ![r] = {}]
  \/ /\ Cardinality(left) > 1
     /\ \E k \in left :
          /\ Goto(r, "DeleteAccessKey")
          /\ key' = [key EXCEPT ![r] = k]
          /\ todo' = [todo EXCEPT ![r] = left \ {k}]

\* The loop of DeleteAllAccessKeys takes up the next of the keys left, or ends.
NextKey(r, left) ==
  \/ /\ left = {}
     /\ Goto(r, "DeleteUser")
     /\ key' = [key EXCEPT ![r] = None]
     /\ todo' = [todo EXCEPT ![r] = {}]
  \/ \E k \in left :
       /\ Goto(r, "DeleteAccessKey")
       /\ key' = [key EXCEPT ![r] = k]
       /\ todo' = [todo EXCEPT ![r] = left \ {k}]

\* The keys one ListAccessKeys answer holds: all of ks, or a first page of them.
Pages(ks) ==
  {p \in SUBSET ks : IF Cardinality(ks) <= PageSize
                       THEN p = ks ELSE Cardinality(p) = PageSize}

ListAccessKeys(r) ==
  /\ pc[r] = "ListAccessKeys"
  /\ \/ /\ Executed(r)
        /\ \E p \in Pages(KeysOf(acct[r], call[r].user)) :
             page' = [page EXCEPT ![r] = p] /\ NextKey(r, p)
        /\ UNCHANGED reply
     \/ Refused(r)
  /\ Rest

DeleteAccessKey(r) ==
  /\ pc[r] = "DeleteAccessKey"
  /\ \/ /\ Executed(r) \/ Tolerated(r)
        /\ NextKey(r, todo[r])
        /\ UNCHANGED <<page, reply>>
     \/ Untolerated(r)
  /\ Rest

DeleteUser(r) ==
  /\ pc[r] = "DeleteUser"
  /\ \/ /\ Executed(r) \/ Tolerated(r)
        /\ Return(r, OK)
        /\ UNCHANGED <<key, todo>>
     \/ Untolerated(r)
  /\ Rest

---------------------------------------------------------------------------

(***************************************************************************)
(* No answer within the HTTP timeout, or the call's context is cancelled:  *)
(* the SDK sends the request again, or gives up with an error that is no   *)
(* APIError.  The request that went unanswered was lost, or is under way.  *)
(***************************************************************************)
MayLinger(Q) == Cardinality(late \union Q) <= MaxLate

Unanswered(r) ==
  /\ InApi(r)
  /\ \/ UNCHANGED late
     \/ MayLinger({Request(r)}) /\ late' = late \union {Request(r)}
  /\ \/ /\ attempt[r] < MaxAttempts
        /\ attempt' = [attempt EXCEPT ![r] = @ + 1]
        /\ UNCHANGED <<pc, key, page, todo, reply>>
     \/ Abort(r, NonAPIError)
  /\ UNCHANGED <<call, acct, seen, contended, storageVars, clusterVars>>

\* A request its sender gave up on reaches the provider, or dies out.
LateArrival(q) ==
  /\ late' = late \ {q}
  /\ \/ \E k \in Issuable(q) : Execute(q, k)
     \/ UNCHANGED storageVars
  /\ UNCHANGED <<handlerVars, clusterVars>>

(***************************************************************************)
(* The reply goes out and the goroutine ends.                              *)
(***************************************************************************)
Reset(R) ==
  /\ pc' = [r \in Rpc |-> IF r \in R THEN "idle" ELSE pc[r]]
  /\ call' = [r \in Rpc |-> IF r \in R THEN NoCall ELSE call[r]]
  /\ acct' = [r \in Rpc |-> IF r \in R THEN None ELSE acct[r]]
  /\ attempt' = [r \in Rpc |-> IF r \in R THEN 1 ELSE attempt[r]]
  /\ key' = [r \in Rpc |-> IF r \in R THEN None ELSE key[r]]
  /\ page' = [r \in Rpc |-> IF r \in R THEN {} ELSE page[r]]
  /\ todo' = [r \in Rpc |-> IF r \in R THEN {} ELSE todo[r]]
  /\ reply' = [r \in Rpc |-> IF r \in R THEN NoReply ELSE reply[r]]
  /\ seen' = [r \in Rpc |-> IF r \in R THEN {} ELSE seen[r]]
  /\ contended' = contended \ R
  /\ UNCHANGED <<storageVars, clusterVars>>

Finish(r) == pc[r] = "done" /\ Reset({r}) /\ UNCHANGED late

\* The process is killed; the requests it was waiting in may linger.
Crash ==
  /\ \E r \in Rpc : pc[r] # "idle"
  /\ \E Q \in SUBSET {Request(r) : r \in {s \in Rpc : InApi(s)}} :
       MayLinger(Q) /\ late' = late \union Q
  /\ Reset(Rpc)

(***************************************************************************)
(* The cluster: Bucket objects and Secrets are created, edited, deleted.   *)
(***************************************************************************)
BucketObjectChanges(b, p) ==
  /\ bucketObj[b] # p
  /\ bucketObj' = [bucketObj EXCEPT ![b] = p]
  /\ UNCHANGED <<storageVars, handlerVars, secretAcct, late>>

SecretChanges(p, a) ==
  /\ secretAcct[p] # a
  /\ secretAcct' = [secretAcct EXCEPT ![p] = a]
  /\ UNCHANGED <<storageVars, handlerVars, bucketObj, late>>

Workload(b) ==
  /\ WorkloadWrites(b) \/ WorkloadEmpties(b)
  /\ UNCHANGED <<handlerVars, clusterVars, late>>

---------------------------------------------------------------------------

Handle(r) ==
  \/ GetBucket(r) \/ InitClient(r)
  \/ CreateBucket(r) \/ DeleteBucket(r)
  \/ CreateUser(r) \/ CreateS3WildcardInlinePolicy(r) \/ CreateAccessKey(r)
  \/ EnsureUserExists(r) \/ DeleteInlinePolicy(r)
  \/ ListAccessKeys(r) \/ DeleteAccessKey(r) \/ DeleteUser(r)
  \/ Unanswered(r)

Environment ==
  \/ \E q \in late : LateArrival(q)
  \/ Crash
  \/ \E b \in Bucket, p \in Params \union {None} : BucketObjectChanges(b, p)
  \/ \E p \in Params, a \in Account \union {None} : SecretChanges(p, a)
  \/ \E b \in Bucket : Workload(b)

Next ==
  \/ \E r \in Rpc : Handle(r) \/ Finish(r) \/ \E c \in Calls : Receive(r, c)
  \/ Environment

Spec == Init /\ [][Next]_vars

\* The Go scheduler runs every goroutine, and no request outlives its timeout.
FairSpec == Spec /\ \A r \in Rpc : WF_vars(Handle(r))

---------------------------------------------------------------------------
(***************************************************************************)
(* Correctness.                                                            *)
(***************************************************************************)

\* The gRPC codes of the error tables and of the handlers themselves.
Codes == {"AlreadyExists", "InvalidArgument", "PermissionDenied",
          "FailedPrecondition", "DeadlineExceeded", "Unavailable",
          "ResourceExhausted", "Unauthenticated", "Internal", "NotFound", OK}

\* Where a handler serving op may be.
Steps(op) ==
  CASE op = "CreateBucket"       -> {"InitClient", "CreateBucket", "done"}
    [] op = "DeleteBucket"       -> {"GetBucket", "InitClient", "DeleteBucket",
                                     "done"}
    [] op = "GrantBucketAccess"  -> {"InitClient", "CreateUser",
                                     "PutUserPolicy", "CreateAccessKey", "done"}
    [] op = "RevokeBucketAccess" -> {"GetBucket", "InitClient", "GetUser",
                                     "DeleteUserPolicy", "ListAccessKeys",
                                     "DeleteAccessKey", "DeleteUser", "done"}
    [] op = "none"               -> {"idle"}

Requests ==
  {q \in [op : Actions, api : Apis, acct : Account, bucket : Bucket,
          user : User \union {None}, key : Key \union {None}] :
     /\ q.api \in Steps(q.op)
     /\ q.op \notin S3Apis => q.user \in User}

(***************************************************************************)
(* Every variable has its type; a handler only ever is in a step of its    *)
(* own operation, with parameters once it initialises its client and a     *)
(* client for some account once it sends requests.                         *)
(***************************************************************************)
TypeOK ==
  /\ StorageTypeOK
  /\ call \in [Rpc -> Calls \union {NoCall}]
  /\ pc \in [Rpc -> Apis \union {"idle", "GetBucket", "InitClient", "done"}]
  /\ \A r \in Rpc : pc[r] \in Steps(call[r].op)
  /\ \A r \in Rpc : pc[r] = "InitClient" => call[r].params # None
  /\ acct \in [Rpc -> Account \union {None}]
  /\ \A r \in Rpc :
       /\ InApi(r) \/ (pc[r] = "done" /\ reply[r] = OK) => acct[r] # None
       /\ pc[r] \in {"idle", "GetBucket", "InitClient"} => acct[r] = None
  /\ attempt \in [Rpc -> 1..MaxAttempts]
  /\ key \in [Rpc -> Key \union {None}]
  /\ page \in [Rpc -> SUBSET Key] /\ todo \in [Rpc -> SUBSET Key]
  /\ reply \in [Rpc -> Codes \union {NoReply, "Panic"}]
  /\ seen \in [Rpc -> SUBSET Key]
  /\ contended \subseteq Rpc
  /\ bucketObj \in [Bucket -> Params \union {None}]
  /\ secretAcct \in [Params -> Account \union {None}]
  /\ late \subseteq Requests

Succeeded(r, op) == pc[r] = "done" /\ reply[r] = OK /\ call[r].op = op

(***************************************************************************)
(* No handler ends in the dereference of credentials it did not get: the   *)
(* error tables translate no error of a grant to success, whatever step    *)
(* it comes from.                                                          *)
(***************************************************************************)
NoPanic == \A r \in Rpc : reply[r] # "Panic"

(***************************************************************************)
(* When DriverRevokeBucketAccess reports success, no access key that       *)
(* existed when the call came in is still live for that user in the        *)
(* account the call worked on, nor ever becomes live again; whatever       *)
(* grants, other revokes, lost answers, late requests, crashes and listing *)
(* pages went on meanwhile.                                                *)
(***************************************************************************)
RevokedKeysStayDead ==
  \A r \in Rpc : Succeeded(r, "RevokeBucketAccess") =>
    \A k \in seen[r] : <<acct[r], call[r].user, k>> \notin accessKeys

(***************************************************************************)
(* What a success reply promises, for as long as no call undoing it runs   *)
(* or left requests behind (contended).  A bucket that DriverCreateBucket  *)
(* reports as created belongs to the account of the class's Secret.        *)
(***************************************************************************)
CreatedBucketHolds ==
  \A r \in Rpc : Succeeded(r, "CreateBucket") /\ r \notin contended =>
    owner[call[r].bucket] = acct[r]

(***************************************************************************)
(* A bucket that DriverDeleteBucket reports as deleted, by an answer of    *)
(* its own or because it was missing, is not the account's any more.       *)
(***************************************************************************)
DeletedBucketHolds ==
  \A r \in Rpc : Succeeded(r, "DeleteBucket") /\ r \notin contended =>
    owner[call[r].bucket] # acct[r]

(***************************************************************************)
(* A granted access is usable: the user exists, its policy names the       *)
(* bucket, and the key returned in the credentials is live and the user's. *)
(* Other grants for the user, and requests left by failed ones, do not     *)
(* disturb it.                                                             *)
(***************************************************************************)
GrantedAccessHolds ==
  \A r \in Rpc : Succeeded(r, "GrantBucketAccess") /\ r \notin contended =>
    LET u == call[r].user IN
    /\ <<acct[r], u>> \in users
    /\ <<acct[r], u, call[r].bucket>> \in policies
    /\ <<acct[r], u, key[r]>> \in accessKeys

(***************************************************************************)
(* A revoked access leaves nothing behind: neither the user, nor a policy, *)
(* nor any key of the user.                                                *)
(***************************************************************************)
RevokedAccessHolds ==
  \A r \in Rpc : Succeeded(r, "RevokeBucketAccess") /\ r \notin contended =>
    LET u == call[r].user IN
    /\ <<acct[r], u>> \notin users
    /\ \A b \in Bucket : <<acct[r], u, b>> \notin policies
    /\ \A k \in Key : <<acct[r], u, k>> \notin accessKeys

\* What a revoke has cleared away by the time it reaches each of its steps.
Cleared(r) ==
  LET u       == call[r].user
      live    == KeysOf(acct[r], u)
      left    == IF pc[r] = "DeleteAccessKey" THEN todo[r] \union {key[r]} ELSE {}
      all(ks) == ks \subseteq page[r] \/ Cardinality(page[r]) = PageSize
  IN  /\ /\ pc[r] \in {"ListAccessKeys", "DeleteAccessKey", "DeleteUser"}
         /\ r \notin contended
         => <<acct[r], u, call[r].bucket>> \notin policies
      /\ pc[r] \in {"DeleteAccessKey", "DeleteUser"} =>
           /\ page[r] \subseteq minted
           /\ page[r] \intersect live \subseteq left
           /\ all(live \intersect seen[r])
           /\ r \in contended \/ all(live)

(***************************************************************************)
(* A revoke clears what stands in the way of its DeleteUser.  The keys of  *)
(* the page it listed are dead by then, and so are all the keys from       *)
(* before the call unless the page was full; without contention there is   *)
(* no key left at all, or a full page fewer, and no policy for the bucket. *)
(* So a refused revoke has come closer: only keys beyond the page,         *)
(* policies for other buckets, or calls beside it can get it refused, and  *)
(* a repetition starts from less.                                          *)
(***************************************************************************)
RevokeClears == \A r \in Rpc : Cleared(r)

(***************************************************************************)
(* A handler never stays in its loops and retries for ever: every call     *)
(* taken in returns, unless the process dies first.                        *)
(***************************************************************************)
EveryCallReturns ==
  \A r \in Rpc : (pc[r] # "idle") ~> (pc[r] \in {"done", "idle"})

\* Steps a call has before it, at most, the one it is in included.
StepsLeft(step) ==
  CASE step = "GetBucket"                              -> 8
    [] step = "InitClient"                             -> 7
    [] step = "GetUser"                                -> 6
    [] step = "DeleteUserPolicy"                       -> 5
    [] step \in {"ListAccessKeys", "CreateUser"}       -> 4
    [] step \in {"DeleteAccessKey", "PutUserPolicy"}   -> 3
    [] step \in {"DeleteUser", "CreateAccessKey",
                 "CreateBucket", "DeleteBucket"}       -> 2
    [] step = "done"                                   -> 1
    [] step = "idle"                                   -> 0

\* Less is left of call r: fewer steps, or fewer keys, or fewer attempts.
Advances(r) ==
  \/ StepsLeft(pc'[r]) < StepsLeft(pc[r])
  \/ /\ pc'[r] = pc[r]
     /\ \/ todo'[r] \subseteq todo[r] /\ todo'[r] # todo[r]
        \/ todo'[r] = todo[r] /\ attempt[r] < attempt'[r]

\* Every step of a handler is such a step, and no other step sets it back.
NoStepBack ==
  \A r \in Rpc : pc[r] # "idle" =>
    \/ Advances(r)
    \/ UNCHANGED <<pc[r], todo[r], attempt[r]>> /\ ~Handle(r)

(***************************************************************************)
(* Why every call returns: whatever answers it gets, each step of a        *)
(* handler leaves less to do, in the order of steps to come, keys to       *)
(* delete, attempts at the request.  No error path leads back to an        *)
(* earlier step, the loop over access keys takes up each one once, and     *)
(* what other calls and the provider do never sends a handler back.        *)
(***************************************************************************)
HandlersAdvance == [][NoStepBack]_vars

---------------------------------------------------------------------------
(***************************************************************************)
(* The inductive invariant behind these properties.                        *)
(***************************************************************************)

\* IAM keeps keys and policies only under an existing user, and issues a key once.
StorageInv ==
  /\ \A a \in Account, u \in User, k \in Key :
       <<a, u, k>> \in accessKeys => <<a, u>> \in users /\ k \in minted
  /\ \A a \in Account, u \in User, b \in Bucket :
       <<a, u, b>> \in policies => <<a, u>> \in users

\* Nothing that undoes r's work is running or lingering unless r is contended.
ContentionNoted(r) ==
  Engaged(r) /\ r \notin contended =>
    /\ \A s \in Rpc : InApi(s) => ~Undoes(Request(s), Request(r))
    /\ \A q \in late : ~Undoes(q, Request(r))

\* What a grant has put in place by the time it reaches each of its steps.
GrantProgress(r) ==
  r \notin contended =>
    /\ pc[r] \in {"PutUserPolicy", "CreateAccessKey"} =>
         <<acct[r], call[r].user>> \in users
    /\ pc[r] = "CreateAccessKey" =>
         <<acct[r], call[r].user, call[r].bucket>> \in policies

\* The credentials in the reply of a grant are a key that IAM did issue.
IssuedKeyReturned(r) == Succeeded(r, "GrantBucketAccess") => key[r] \in minted

\* The invariant itself: these with the promises of every success reply.
IInv ==
  /\ TypeOK
  /\ StorageInv
  /\ NoPanic
  /\ \A r \in Rpc : seen[r] \subseteq minted
  /\ \A r \in Rpc : ContentionNoted(r)
  /\ \A r \in Rpc : GrantProgress(r) /\ IssuedKeyReturned(r)
  /\ RevokedKeysStayDead
  /\ CreatedBucketHolds /\ DeletedBucketHolds
  /\ GrantedAccessHolds /\ RevokedAccessHolds

============================================================================
