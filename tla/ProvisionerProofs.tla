------------------------- MODULE ProvisionerProofs -------------------------
(***************************************************************************)
(* Proofs that IInv is an invariant of Provisioner, and with it what each  *)
(* success reply promises, for any number of goroutines, buckets, users,   *)
(* accounts and keys, any page size, number of attempts and pending        *)
(* requests.                                                               *)
(***************************************************************************)
EXTENDS Provisioner, TLAPS

(***************************************************************************)
(* A handler blocked in the provider sends a well-formed request.          *)
(***************************************************************************)
LEMMA RequestTyped ==
  ASSUME TypeOK, NEW r \in Rpc, InApi(r)
  PROVE  Request(r) \in Requests
<1>1. /\ call[r] \in Calls
      /\ call[r].op \in Actions
      /\ call[r].bucket \in Bucket
      /\ call[r].user \in User \union {None}
      /\ call[r].op \notin S3Apis => call[r].user \in User
  BY DEF TypeOK, InApi, Calls, NoCall, Steps, Apis, S3Apis, IAMApis, Actions
<1>2. /\ pc[r] \in Apis /\ pc[r] \in Steps(call[r].op)
      /\ acct[r] \in Account /\ key[r] \in Key \union {None}
  BY DEF TypeOK, InApi
<1> QED  BY <1>1, <1>2 DEF Request, Requests

(***************************************************************************)
(* The frame of a provider request: it adds only on behalf of a create or  *)
(* a grant, removes only on behalf of a delete or a revoke, and only what  *)
(* its operation names; keys added are fresh.                              *)
(***************************************************************************)
Frame(q) ==
  /\ minted \subseteq minted'
  /\ \A b \in Bucket : owner'[b] # owner[b] =>
       /\ b = q.bucket
       /\ \/ q.op = "CreateBucket" /\ owner[b] = None /\ owner'[b] = q.acct
          \/ q.op = "DeleteBucket" /\ owner[b] = q.acct /\ owner'[b] = None
  /\ \A a \in Account, u \in User :
       /\ <<a, u>> \in users /\ <<a, u>> \notin users' =>
            q.op = "RevokeBucketAccess" /\ a = q.acct /\ u = q.user
       /\ <<a, u>> \notin users /\ <<a, u>> \in users' =>
            q.op = "GrantBucketAccess" /\ a = q.acct /\ u = q.user
  /\ \A a \in Account, u \in User, b \in Bucket :
       /\ <<a, u, b>> \in policies /\ <<a, u, b>> \notin policies' =>
            q.op = "RevokeBucketAccess" /\ a = q.acct /\ u = q.user
       /\ <<a, u, b>> \notin policies /\ <<a, u, b>> \in policies' =>
            q.op = "GrantBucketAccess" /\ a = q.acct /\ u = q.user
  /\ \A a \in Account, u \in User, k \in Key :
       /\ <<a, u, k>> \in accessKeys /\ <<a, u, k>> \notin accessKeys' =>
            q.op = "RevokeBucketAccess" /\ a = q.acct /\ u = q.user
       /\ <<a, u, k>> \notin accessKeys /\ <<a, u, k>> \in accessKeys' =>
            /\ k \notin minted
            /\ q.op = "GrantBucketAccess" /\ a = q.acct /\ u = q.user

\* Whatever request the provider carries out, it stays within that frame.
LEMMA ExecuteFrame ==
  ASSUME StorageTypeOK, StorageInv,
         NEW q \in Requests, NEW k \in Issuable(q), Execute(q, k)
  PROVE  StorageTypeOK' /\ StorageInv' /\ Frame(q)
<1>1. /\ q.op \in Actions /\ q.api \in Apis /\ q.acct \in Account
      /\ q.bucket \in Bucket /\ q.api \in Steps(q.op)
      /\ q.op \notin S3Apis => q.user \in User
  BY DEF Requests
<1>2. CASE q.api \in S3Apis
  <2>1. UNCHANGED <<nonEmpty, users, policies, accessKeys, minted>>
    BY <1>2 DEF Execute, S3Apis, storageVars
  <2>2. q.op = q.api
    BY <1>1, <1>2 DEF Steps, S3Apis, Actions
  <2>3. StorageTypeOK'
    BY <1>1, <1>2, <2>1, NoneAssumption DEF StorageTypeOK, Execute, S3Apis
  <2>4. StorageInv'
    BY <2>1 DEF StorageInv
  <2>5. Frame(q)
    BY <1>1, <1>2, <2>1, <2>2, NoneAssumption
    DEF Frame, Execute, Accepted, Outcome, S3Apis, StorageTypeOK, OK
  <2> QED  BY <2>3, <2>4, <2>5
<1>3. CASE q.api \in IAMApis
  <2>1. q.user \in User /\ UNCHANGED <<owner, nonEmpty>>
    BY <1>1, <1>3 DEF Steps, S3Apis, IAMApis, Execute, storageVars, Actions
  <2>2. q.api \in {"CreateUser", "PutUserPolicy", "CreateAccessKey"}
          => q.op = "GrantBucketAccess"
    BY <1>1 DEF Steps, Actions
  <2>3. q.api \in {"DeleteUserPolicy", "DeleteAccessKey", "DeleteUser"}
          => q.op = "RevokeBucketAccess"
    BY <1>1 DEF Steps, Actions
  <2>4. q.api = "CreateAccessKey" => k \in Key /\ k \notin minted
    BY DEF Issuable
  <2>5. q.api \in {"PutUserPolicy", "CreateAccessKey"}
          => <<q.acct, q.user>> \in users
    BY DEF Execute, Accepted, Outcome, HasUser, OK
  <2>6. q.api = "DeleteUser" =>
          /\ \A b \in Bucket : <<q.acct, q.user, b>> \notin policies
          /\ \A j \in Key : <<q.acct, q.user, j>> \notin accessKeys
    BY DEF Execute, Accepted, Outcome, HasUser, Attached, KeysOf, OK
  <2>7. StorageTypeOK'
    BY <1>1, <1>3, <2>1, <2>4
    DEF StorageTypeOK, Execute, IAMApis, storageVars
  <2>8. StorageInv'
    BY <1>1, <1>3, <2>1, <2>4, <2>5, <2>6
    DEF StorageInv, StorageTypeOK, Execute, IAMApis, storageVars
  <2>9. Frame(q)
    BY <1>1, <1>3, <2>1, <2>2, <2>3, <2>4
    DEF Frame, StorageTypeOK, Execute, IAMApis, storageVars
  <2> QED  BY <2>7, <2>8, <2>9
<1> QED  BY <1>1, <1>2, <1>3 DEF Apis

(***************************************************************************)
(* Every provider error becomes one of the gRPC codes, and none panics.    *)
(***************************************************************************)
LEMMA StatusTyped ==
  ASSUME NEW op \in Actions, NEW err
  PROVE  StatusOf(op, err) \in Codes
<1>1. S3ErrorTable(err) \in Codes \union {NotInTable}
  BY DEF S3ErrorTable, Codes
<1>2. IAMErrorTable(err) \in Codes \union {NotInTable}
  BY DEF IAMErrorTable, Codes
<1>3. TranslateIAMError(op, err) \in Codes
  BY <1>2 DEF TranslateIAMError, TranslateObjectStorageProviderError, Codes
<1>4. TranslateS3Error(op, err) \in Codes
  BY <1>1 DEF TranslateS3Error, TranslateObjectStorageProviderError, Codes
<1>5. op = "GrantBucketAccess" => TranslateIAMError(op, err) # OK
  <2>1. IAMErrorTable(err) = OK => err \in MissingResourceCodes
    BY DEF IAMErrorTable, MissingResourceCodes, OK, NotInTable
  <2> QED
    BY <2>1 DEF TranslateIAMError, TranslateObjectStorageProviderError,
                isIdempotentAction, OK, NotInTable
<1> QED  BY <1>3, <1>4, <1>5 DEF StatusOf, S3Apis

---------------------------------------------------------------------------

(***************************************************************************)
(* The promises of one handler, and that they survive every step that      *)
(* leaves the handler alone and does not belong to an operation undoing it.*)
(***************************************************************************)
Promise(r) ==
  LET a == acct[r]  u == call[r].user  b == call[r].bucket IN
  /\ seen[r] \subseteq minted
  /\ GrantProgress(r) /\ IssuedKeyReturned(r)
  /\ Succeeded(r, "RevokeBucketAccess") =>
       \A k \in seen[r] : <<a, u, k>> \notin accessKeys
  /\ Succeeded(r, "CreateBucket") /\ r \notin contended => owner[b] = a
  /\ Succeeded(r, "DeleteBucket") /\ r \notin contended => owner[b] # a
  /\ Succeeded(r, "GrantBucketAccess") /\ r \notin contended =>
       /\ <<a, u>> \in users
       /\ <<a, u, b>> \in policies
       /\ <<a, u, key[r]>> \in accessKeys
  /\ Succeeded(r, "RevokeBucketAccess") /\ r \notin contended =>
       /\ <<a, u>> \notin users
       /\ \A c \in Bucket : <<a, u, c>> \notin policies
       /\ \A k \in Key : <<a, u, k>> \notin accessKeys

Parts ==
  /\ TypeOK /\ StorageInv /\ NoPanic
  /\ \A r \in Rpc : ContentionNoted(r)
  /\ \A r \in Rpc : Promise(r)

\* IInv, rearranged as one promise per handler.
LEMMA IInvParts == (IInv <=> Parts) /\ (IInv' <=> Parts')
<1>1. IInv <=> Parts
  BY DEF IInv, Parts, Promise, RevokedKeysStayDead, CreatedBucketHolds,
         DeletedBucketHolds, GrantedAccessHolds, RevokedAccessHolds
<1>2. IInv' <=> Parts'
  BY DEF IInv, Parts, Promise, RevokedKeysStayDead, CreatedBucketHolds,
         DeletedBucketHolds, GrantedAccessHolds, RevokedAccessHolds
<1> QED  BY <1>1, <1>2

\* Handler r takes no part in the step, except that it may become contended.
Bystander(r) ==
  /\ pc'[r] = pc[r] /\ call'[r] = call[r] /\ acct'[r] = acct[r]
  /\ key'[r] = key[r] /\ reply'[r] = reply[r] /\ seen'[r] = seen[r]
  /\ r \in contended => r \in contended'

\* The step's effect on the provider cannot hurt handler r.
Harmless(r) ==
  \/ UNCHANGED <<owner, users, policies, accessKeys, minted>>
  \/ \E q \in Requests :
       /\ Frame(q)
       /\ Engaged(r) /\ r \notin contended => ~Undoes(q, Request(r))

\* A bystander that the step cannot hurt keeps its promise.
LEMMA PromiseKept ==
  ASSUME TypeOK, StorageTypeOK', StorageInv',
         NEW r \in Rpc, Promise(r), Bystander(r), Harmless(r)
  PROVE  Promise(r)'
<1>1. CASE UNCHANGED <<owner, users, policies, accessKeys, minted>>
  BY <1>1 DEF Promise, Bystander, GrantProgress, IssuedKeyReturned, Succeeded
<1>2. CASE \E q \in Requests :
             /\ Frame(q)
             /\ Engaged(r) /\ r \notin contended => ~Undoes(q, Request(r))
  <2>1. PICK q \in Requests :
          /\ Frame(q)
          /\ Engaged(r) /\ r \notin contended => ~Undoes(q, Request(r))
    BY <1>2
  <2>2. q.op \in Actions
    BY DEF Requests
  <2> DEFINE a == acct[r]  u == call[r].user  b == call[r].bucket
  <2>3. Engaged(r) =>
          /\ call[r].op \in Actions /\ b \in Bucket
          /\ call[r].op \notin S3Apis => u \in User
    BY DEF TypeOK, Engaged, Calls, NoCall, Steps, Apis, S3Apis, IAMApis, Actions
  <2>4. seen[r] \subseteq minted /\ seen[r] \subseteq Key /\ seen'[r] \subseteq minted'
    BY <2>1 DEF Promise, Bystander, Frame, TypeOK
  <2>5. InApi(r) \/ (pc[r] = "done" /\ reply[r] = OK) => a \in Account
    BY DEF TypeOK
  <2>6. Engaged(r) /\ r \notin contended =>
          /\ call[r].op = "CreateBucket" /\ a = q.acct /\ b = q.bucket
               => q.op # "DeleteBucket"
          /\ call[r].op = "DeleteBucket" /\ a = q.acct /\ b = q.bucket
               => q.op # "CreateBucket"
          /\ call[r].op = "GrantBucketAccess" /\ a = q.acct /\ u = q.user
               => q.op # "RevokeBucketAccess"
          /\ call[r].op = "RevokeBucketAccess" /\ a = q.acct /\ u = q.user
               => q.op # "GrantBucketAccess"
    BY <2>1, <2>2 DEF Undoes, Opposite, Request, S3Apis
  <2>7. GrantProgress(r)'
    <3>1. pc[r] \in {"PutUserPolicy", "CreateAccessKey"} =>
            call[r].op = "GrantBucketAccess" /\ Engaged(r) /\ InApi(r)
      BY DEF TypeOK, Calls, NoCall, Steps, Engaged, InApi, Apis, IAMApis
    <3> QED
      BY <2>1, <2>3, <2>5, <2>6, <3>1
      DEF Promise, GrantProgress, Frame, Bystander, S3Apis
  <2>8. Succeeded(r, "RevokeBucketAccess")' =>
          \A k \in seen'[r] : <<acct'[r], call'[r].user, k>> \notin accessKeys'
    BY <2>1, <2>3, <2>4, <2>5
    DEF Promise, Frame, Bystander, Succeeded, Engaged, S3Apis
  <2>9. /\ Succeeded(r, "CreateBucket")' /\ r \notin contended' =>
             owner'[call'[r].bucket] = acct'[r]
        /\ Succeeded(r, "DeleteBucket")' /\ r \notin contended' =>
             owner'[call'[r].bucket] # acct'[r]
    BY <2>1, <2>3, <2>5, <2>6, NoneAssumption
    DEF Promise, Frame, Bystander, Succeeded, Engaged
  <2>10. Succeeded(r, "GrantBucketAccess")' /\ r \notin contended' =>
           /\ <<acct'[r], call'[r].user>> \in users'
           /\ <<acct'[r], call'[r].user, call'[r].bucket>> \in policies'
           /\ <<acct'[r], call'[r].user, key'[r]>> \in accessKeys'
    <3>1. <<a, u, key[r]>> \in accessKeys => key[r] \in Key
      BY DEF TypeOK, StorageTypeOK
    <3> QED
      BY <2>1, <2>3, <2>5, <2>6, <3>1
      DEF Promise, Frame, Bystander, Succeeded, Engaged, S3Apis
  <2>11. Succeeded(r, "RevokeBucketAccess")' /\ r \notin contended' =>
           /\ <<acct'[r], call'[r].user>> \notin users'
           /\ \A c \in Bucket : <<acct'[r], call'[r].user, c>> \notin policies'
           /\ \A k \in Key : <<acct'[r], call'[r].user, k>> \notin accessKeys'
    <3>1. Succeeded(r, "RevokeBucketAccess")' /\ r \notin contended' =>
            /\ acct'[r] \in Account /\ call'[r].user \in User
            /\ <<acct'[r], call'[r].user>> \notin users'
      BY <2>1, <2>3, <2>5, <2>6
      DEF Promise, Frame, Bystander, Succeeded, Engaged, S3Apis
    <3> QED  BY <3>1 DEF StorageInv
  <2>12. IssuedKeyReturned(r)'
    BY <2>1 DEF Promise, Frame, Bystander, IssuedKeyReturned, Succeeded
  <2> QED  BY <2>4, <2>7, <2>8, <2>9, <2>10, <2>11, <2>12 DEF Promise
<1> QED  BY <1>1, <1>2 DEF Harmless

(***************************************************************************)
(* Only initialising a client can bring about new contention: any other    *)
(* step leaves running and lingering requests of calls already reckoned    *)
(* with.                                                                   *)
(***************************************************************************)
LEMMA ContentionKept ==
  ASSUME TypeOK, \A r \in Rpc : ContentionNoted(r),
         UNCHANGED <<call, acct, contended>>,
         \A s \in Rpc : InApi(s)' => InApi(s),
         \A s \in Rpc : Engaged(s)' => Engaged(s) \/ acct[s] = None,
         \A q \in late' : q \in late \/ \E s \in Rpc : InApi(s) /\ q = Request(s)
  PROVE  \A r \in Rpc : ContentionNoted(r)'
<1> SUFFICES ASSUME NEW r \in Rpc, Engaged(r)', r \notin contended'
             PROVE  /\ \A s \in Rpc : InApi(s)' => ~Undoes(Request(s), Request(r))'
                    /\ \A q \in late' : ~Undoes(q, Request(r)')
  BY DEF ContentionNoted, Undoes
<1>1. \A s \in Rpc : InApi(s) => acct[s] # None
  BY DEF TypeOK
<1>2. \A q \in late : q.acct # None
  BY NoneAssumption DEF TypeOK, Requests
<1>3. \A s \in Rpc : InApi(s) => ~Undoes(Request(s), Request(r))
  BY <1>1 DEF ContentionNoted, Undoes, Request
<1>4. \A q \in late : ~Undoes(q, Request(r))
  BY <1>2 DEF ContentionNoted, Undoes, Request
<1>5. \A s \in Rpc : InApi(s)' => ~Undoes(Request(s), Request(r))'
  BY <1>3 DEF Undoes, Request
<1>6. \A q \in late' : ~Undoes(q, Request(r)')
  BY <1>3, <1>4 DEF Undoes, Request
<1> QED  BY <1>5, <1>6

(***************************************************************************)
(* Moving handler r to another step leaves the others where they are.      *)
(***************************************************************************)
LEMMA GotoTyped ==
  ASSUME TypeOK, NEW r \in Rpc, NEW step, Goto(r, step),
         step \in Apis \union {"idle", "GetBucket", "InitClient", "done"}
  PROVE  /\ pc' \in [Rpc -> Apis \union {"idle", "GetBucket", "InitClient", "done"}]
         /\ pc'[r] = step
         /\ \A s \in Rpc \ {r} : pc'[s] = pc[s] /\ attempt'[s] = attempt[s]
         /\ attempt' \in [Rpc -> 1..MaxAttempts]
BY ProvisionerAssumption DEF TypeOK, Goto

---------------------------------------------------------------------------

(***************************************************************************)
(* The initial states satisfy the invariant.                               *)
(***************************************************************************)
LEMMA InitIInv == Init => IInv
<1> SUFFICES ASSUME Init PROVE IInv
  OBVIOUS
<1>1. StorageTypeOK /\ StorageInv
  BY DEF Init, StorageInit, StorageTypeOK, StorageInv
<1>2. TypeOK
  BY <1>1, ProvisionerAssumption
  DEF Init, TypeOK, Steps, NoCall, InApi, Apis, S3Apis, IAMApis, NoReply
<1>3. NoPanic
  BY DEF Init, NoPanic, NoReply
<1>4. \A r \in Rpc : ~Engaged(r) /\ ~InApi(r)
  BY DEF Init, Engaged, InApi, Apis, S3Apis, IAMApis
<1>5. \A r \in Rpc : ContentionNoted(r)
  BY <1>4 DEF ContentionNoted
<1>6. \A r \in Rpc : Promise(r)
  BY <1>4 DEF Promise, GrantProgress, IssuedKeyReturned, Succeeded, Init
<1> QED  BY <1>1, <1>2, <1>3, <1>5, <1>6, IInvParts DEF Parts

---------------------------------------------------------------------------

(***************************************************************************)
(* What all steps of a handler waiting for the provider have in common:    *)
(* its request is carried out or not, it moves within its operation, and   *)
(* the other handlers do not move.                                         *)
(***************************************************************************)
ApiStep(r) ==
  /\ InApi(r)
  /\ UNCHANGED <<call, acct, seen, contended, clusterVars>>
  /\ late' \subseteq late \union {Request(r)}
  /\ \/ UNCHANGED storageVars
     \/ \E k \in Issuable(Request(r)) : Execute(Request(r), k)
  /\ pc' \in [Rpc -> Apis \union {"idle", "GetBucket", "InitClient", "done"}]
  /\ pc'[r] \in Steps(call[r].op) /\ pc'[r] \in Apis \union {"done"}
  /\ attempt' \in [Rpc -> 1..MaxAttempts]
  /\ key' \in [Rpc -> Key \union {None}]
  /\ page' \in [Rpc -> SUBSET Key] /\ todo' \in [Rpc -> SUBSET Key]
  /\ reply' \in [Rpc -> Codes \union {NoReply}]
  /\ \A s \in Rpc \ {r} :
       /\ pc'[s] = pc[s] /\ key'[s] = key[s] /\ reply'[s] = reply[s]
       /\ page'[s] = page[s] /\ todo'[s] = todo[s] /\ attempt'[s] = attempt[s]

\* If the handler that moves keeps its own promise, the invariant is kept.
LEMMA ApiStepKeeps ==
  ASSUME IInv, NEW r \in Rpc, ApiStep(r)
  PROVE  /\ TypeOK' /\ StorageInv' /\ NoPanic'
         /\ \A s \in Rpc : ContentionNoted(s)'
         /\ \A s \in Rpc \ {r} : Promise(s)'
         /\ \A s \in Rpc : Harmless(s)
         /\ seen'[r] \subseteq minted'
<1>1. /\ TypeOK /\ StorageInv /\ NoPanic
      /\ \A s \in Rpc : ContentionNoted(s)
      /\ \A s \in Rpc : Promise(s)
  BY IInvParts DEF Parts
<1>2. Request(r) \in Requests
  BY <1>1, RequestTyped DEF ApiStep
<1>5. /\ StorageTypeOK' /\ StorageInv' /\ minted \subseteq minted'
      /\ \A s \in Rpc : Harmless(s)
  <2>1. CASE UNCHANGED storageVars
    <3>1. StorageTypeOK' /\ StorageInv' /\ minted' = minted
      BY <1>1, <2>1 DEF TypeOK, StorageTypeOK, StorageInv, storageVars
    <3>2. \A s \in Rpc : Harmless(s)
      BY <2>1 DEF Harmless, storageVars
    <3> QED  BY <3>1, <3>2
  <2>2. CASE \E k \in Issuable(Request(r)) : Execute(Request(r), k)
    <3>1. StorageTypeOK' /\ StorageInv' /\ Frame(Request(r))
      BY <1>1, <1>2, <2>2, ExecuteFrame DEF TypeOK
    <3>2. \A s \in Rpc : Harmless(s)
      BY <1>1, <1>2, <3>1 DEF Harmless, ContentionNoted, ApiStep
    <3>3. minted \subseteq minted'
      BY <3>1 DEF Frame
    <3> QED  BY <3>1, <3>2, <3>3
  <2> QED  BY <2>1, <2>2 DEF ApiStep
<1>6. TypeOK'
  <2>1. late' \subseteq Requests
    BY <1>1, <1>2 DEF TypeOK, ApiStep
  <2>2. /\ call' \in [Rpc -> Calls \union {NoCall}]
        /\ acct' \in [Rpc -> Account \union {None}]
        /\ seen' \in [Rpc -> SUBSET Key] /\ contended' \subseteq Rpc
        /\ bucketObj' \in [Bucket -> Params \union {None}]
        /\ secretAcct' \in [Params -> Account \union {None}]
    BY <1>1 DEF TypeOK, ApiStep, clusterVars
  <2>3. \A s \in Rpc :
          /\ pc'[s] \in Steps(call'[s].op)
          /\ pc'[s] = "InitClient" => call'[s].params # None
    BY <1>1 DEF TypeOK, ApiStep, Apis, S3Apis, IAMApis
  <2>4. \A s \in Rpc :
          /\ InApi(s)' \/ (pc'[s] = "done" /\ reply'[s] = OK) => acct'[s] # None
          /\ pc'[s] \in {"idle", "GetBucket", "InitClient"} => acct'[s] = None
    BY <1>1 DEF TypeOK, ApiStep, InApi, Apis, S3Apis, IAMApis
  <2>5. reply' \in [Rpc -> Codes \union {NoReply, "Panic"}]
    BY DEF ApiStep
  <2>6. /\ pc' \in [Rpc -> Apis \union {"idle", "GetBucket", "InitClient", "done"}]
        /\ attempt' \in [Rpc -> 1..MaxAttempts]
        /\ key' \in [Rpc -> Key \union {None}]
        /\ page' \in [Rpc -> SUBSET Key] /\ todo' \in [Rpc -> SUBSET Key]
    BY DEF ApiStep
  <2> QED
    BY <1>5, <2>1, <2>2, <2>3, <2>4, <2>5, <2>6 DEF TypeOK
<1>7. NoPanic'
  BY DEF ApiStep, NoPanic, Codes, NoReply, OK
<1>8. \A s \in Rpc : ContentionNoted(s)'
  BY <1>1, ContentionKept DEF ApiStep, InApi, Engaged
<1>9. \A s \in Rpc \ {r} : Promise(s)'
  <2>1. \A s \in Rpc \ {r} : Bystander(s)
    BY DEF Bystander, ApiStep
  <2> QED  BY <1>1, <1>5, <2>1, PromiseKept
<1>10. seen'[r] \subseteq minted'
  BY <1>1, <1>5 DEF Promise, ApiStep
<1> QED  BY <1>5, <1>6, <1>7, <1>8, <1>9, <1>10

(***************************************************************************)
(* A revoke that ends with the user gone has kept its promise.             *)
(***************************************************************************)
LEMMA UserGone ==
  ASSUME TypeOK', StorageInv', NEW r \in Rpc, seen'[r] \subseteq minted',
         pc'[r] = "done", call'[r].op = "RevokeBucketAccess",
         <<acct'[r], call'[r].user>> \notin users'
  PROVE  Promise(r)'
<1>1. /\ \A b \in Bucket : <<acct'[r], call'[r].user, b>> \notin policies'
      /\ \A k : <<acct'[r], call'[r].user, k>> \notin accessKeys'
  BY DEF TypeOK, StorageTypeOK, StorageInv
<1> QED  BY <1>1 DEF Promise, GrantProgress, IssuedKeyReturned, Succeeded

(***************************************************************************)
(* The three ways a handler goes on after a request are steps of that kind.*)
(***************************************************************************)
StorageStep(r) ==
  \/ UNCHANGED storageVars
  \/ \E k \in Issuable(Request(r)) : Execute(Request(r), k)

\* Going on to the next request is such a step.
LEMMA ProceedStep ==
  ASSUME IInv, NEW r \in Rpc, InApi(r), Rest, StorageStep(r),
         NEW step \in Apis, step \in Steps(call[r].op), Proceed(r, step)
  PROVE  ApiStep(r) /\ pc'[r] = step
<1>1. TypeOK /\ NoPanic
  BY DEF IInv
<1>2. reply' \in [Rpc -> Codes \union {NoReply}]
  BY <1>1 DEF TypeOK, NoPanic, Proceed
<1> QED
  BY <1>1, <1>2, GotoTyped DEF ApiStep, Rest, StorageStep, Proceed, TypeOK

\* So is returning a gRPC code.
LEMMA ReturnStep ==
  ASSUME IInv, NEW r \in Rpc, InApi(r), Rest, StorageStep(r),
         NEW code \in Codes, Return(r, code),
         key' \in [Rpc -> Key \union {None}], UNCHANGED todo,
         \A s \in Rpc \ {r} : key'[s] = key[s]
  PROVE  ApiStep(r) /\ pc'[r] = "done" /\ reply'[r] = code
<1>1. TypeOK /\ NoPanic
  BY DEF IInv
<1>2. /\ reply' \in [Rpc -> Codes \union {NoReply}]
      /\ reply'[r] = code
      /\ \A s \in Rpc \ {r} : reply'[s] = reply[s]
  BY <1>1 DEF TypeOK, NoPanic, Return
<1>3. "done" \in Steps(call[r].op)
  BY <1>1 DEF TypeOK, InApi, Calls, NoCall, Steps, Apis, S3Apis, IAMApis
<1> QED
  BY <1>1, <1>2, <1>3, GotoTyped DEF ApiStep, Rest, StorageStep, Return, TypeOK

\* So is giving up with a provider error.
LEMMA AbortStep ==
  ASSUME IInv, NEW r \in Rpc, InApi(r), UNCHANGED storageVars, NEW err,
         Abort(r, err), late' \subseteq late \union {Request(r)},
         UNCHANGED <<call, acct, seen, contended, clusterVars>>
  PROVE  /\ ApiStep(r)
         /\ pc'[r] = "done" /\ reply'[r] = StatusOf(call[r].op, err)
<1>1. TypeOK /\ NoPanic
  BY DEF IInv
<1>2. call[r].op \in Actions
  BY <1>1, RequestTyped DEF Request, Requests
<1>3. StatusOf(call[r].op, err) \in Codes
  BY <1>2, StatusTyped
<1>4. /\ reply' \in [Rpc -> Codes \union {NoReply}]
      /\ reply'[r] = StatusOf(call[r].op, err)
      /\ \A s \in Rpc \ {r} : reply'[s] = reply[s]
  BY <1>1, <1>3 DEF TypeOK, NoPanic, Return, Abort
<1>5. "done" \in Steps(call[r].op)
  BY <1>2 DEF Steps, Actions
<1> QED
  BY <1>1, <1>4, <1>5, GotoTyped DEF ApiStep, Abort, Return, TypeOK

(***************************************************************************)
(* An error is reported as success only when what was to go is not there.  *)
(***************************************************************************)
LEMMA StatusOK ==
  ASSUME NEW op \in Actions, NEW err, StatusOf(op, err) = OK
  PROVE  \/ op = "DeleteBucket" /\ err \in {"NoSuchBucket", "NotFound"}
         \/ op = "RevokeBucketAccess" /\ err = "NoSuchEntity"
<1>1. S3ErrorTable(err) = OK => err \in {"NoSuchBucket", "NotFound"}
  BY DEF S3ErrorTable, OK, NotInTable
<1>2. IAMErrorTable(err) = OK => err = "NoSuchEntity"
  BY DEF IAMErrorTable, OK, NotInTable
<1>3. op = "CreateBucket" => TranslateS3Error(op, err) # OK
  BY <1>1 DEF TranslateS3Error, TranslateObjectStorageProviderError,
              isIdempotentAction, MissingResourceCodes, OK, NotInTable
<1>4. TranslateS3Error(op, err) = OK => S3ErrorTable(err) = OK
  BY DEF TranslateS3Error, TranslateObjectStorageProviderError, OK
<1>5. TranslateIAMError(op, err) = OK => IAMErrorTable(err) = OK
  BY DEF TranslateIAMError, TranslateObjectStorageProviderError, OK
<1> QED
  BY <1>1, <1>2, <1>3, <1>4, <1>5 DEF StatusOf, S3Apis, Actions, OK

(***************************************************************************)
(* A handler whose request is refused keeps its promise.                   *)
(***************************************************************************)
LEMMA AbortKeeps ==
  ASSUME IInv, NEW r \in Rpc, InApi(r), UNCHANGED storageVars,
         NEW err, Abort(r, err), late' \subseteq late \union {Request(r)},
         UNCHANGED <<call, acct, seen, contended, clusterVars>>,
         err \in Refusals(Request(r)) \/ err = NonAPIError,
         pc[r] \in {"DeleteUserPolicy", "DeleteAccessKey"} => err # "NoSuchEntity"
  PROVE  IInv'
<1>1. /\ ApiStep(r)
      /\ pc'[r] = "done" /\ reply'[r] = StatusOf(call[r].op, err)
  BY AbortStep
<1>2. /\ TypeOK' /\ StorageInv' /\ NoPanic'
      /\ \A s \in Rpc : ContentionNoted(s)'
      /\ \A s \in Rpc \ {r} : Promise(s)'
      /\ seen'[r] \subseteq minted'
  BY <1>1, ApiStepKeeps
<1>3. /\ call[r].op \in Actions /\ pc[r] \in Steps(call[r].op) /\ pc[r] \in Apis
      /\ acct[r] \in Account /\ call[r].bucket \in Bucket
  BY RequestTyped DEF IInv, Request, Requests
<1>4. CASE StatusOf(call[r].op, err) # OK
  <2>1. Promise(r)'
    BY <1>1, <1>2, <1>4 DEF Promise, GrantProgress, IssuedKeyReturned, Succeeded
  <2> QED  BY <1>2, <2>1, IInvParts DEF Parts
<1>5. CASE StatusOf(call[r].op, err) = OK
  <2>1. err = Outcome(Request(r))
    BY <1>3, <1>5, StatusOK, SpontaneousAssumption
    DEF Refusals, MissingResourceCodes, NonAPIError
  <2>2. CASE call[r].op = "DeleteBucket"
    <3>1. owner[call[r].bucket] = None
      BY <1>3, <1>5, <2>1, <2>2, StatusOK DEF Outcome, Request, OK
    <3>2. owner'[call'[r].bucket] # acct'[r]
      BY <1>3, <3>1, NoneAssumption DEF storageVars
    <3>3. Promise(r)'
      BY <1>1, <1>2, <2>2, <3>2
      DEF Promise, GrantProgress, IssuedKeyReturned, Succeeded
    <3> QED  BY <1>2, <3>3, IInvParts DEF Parts
  <2>3. CASE call[r].op = "RevokeBucketAccess"
    <3>1. <<acct[r], call[r].user>> \notin users
      BY <1>3, <1>5, <2>1, <2>3, StatusOK DEF Outcome, Request, OK, HasUser
    <3>2. Promise(r)'
      BY <1>1, <1>2, <2>3, <3>1, UserGone DEF storageVars
    <3> QED  BY <1>2, <3>2, IInvParts DEF Parts
  <2> QED  BY <1>3, <1>5, <2>2, <2>3, StatusOK
<1> QED  BY <1>4, <1>5

\* A refused request ends the call and keeps the invariant.
LEMMA RefusedKeeps ==
  ASSUME IInv, NEW r \in Rpc, InApi(r), Rest,
         \/ Refused(r) /\ pc[r] \notin {"DeleteUserPolicy", "DeleteAccessKey"}
         \/ Untolerated(r)
  PROVE  IInv'
<1>1. PICK err \in Refusals(Request(r)) :
        /\ Abort(r, err) /\ UNCHANGED storageVars
        /\ pc[r] \in {"DeleteUserPolicy", "DeleteAccessKey"} => err # "NoSuchEntity"
  BY DEF Refused, Untolerated, RefusedWith
<1> QED  BY <1>1, AbortKeeps DEF Rest

(***************************************************************************)
(* Where a handler is tells which operation it serves, and with what.      *)
(***************************************************************************)
LEMMA OpOfStep ==
  ASSUME IInv, NEW r \in Rpc, InApi(r)
  PROVE  /\ pc[r] \in S3Apis => call[r].op = pc[r]
         /\ pc[r] \in {"CreateUser", "PutUserPolicy", "CreateAccessKey"} =>
              call[r].op = "GrantBucketAccess"
         /\ pc[r] \in {"GetUser", "DeleteUserPolicy", "ListAccessKeys",
                       "DeleteAccessKey", "DeleteUser"} =>
              call[r].op = "RevokeBucketAccess"
         /\ acct[r] \in Account /\ call[r].bucket \in Bucket
         /\ call[r].op \notin S3Apis => call[r].user \in User
<1>1. Request(r) \in Requests
  BY RequestTyped DEF IInv
<1> QED  BY <1>1 DEF Request, Requests, Steps, S3Apis, Actions

\* A request carried out is a storage step of its own account and names.
LEMMA ExecutedStep ==
  ASSUME NEW r \in Rpc, Executed(r), pc[r] # "CreateAccessKey"
  PROVE  StorageStep(r)
BY DEF Executed, StorageStep, Issuable, Request

---------------------------------------------------------------------------

(***************************************************************************)
(* One lemma per step of the clients.                                      *)
(***************************************************************************)
LEMMA CreateBucketKeeps ==
  ASSUME IInv, NEW r \in Rpc, CreateBucket(r)
  PROVE  IInv'
<1>1. InApi(r) /\ Rest /\ pc[r] = "CreateBucket"
  BY DEF CreateBucket, InApi, Apis, S3Apis
<1>2. CASE Executed(r) /\ Return(r, OK) /\ UNCHANGED <<key, todo>>
  <2>1. ApiStep(r) /\ pc'[r] = "done" /\ reply'[r] = OK
    BY <1>1, <1>2, ExecutedStep, ReturnStep DEF Codes, IInv, TypeOK
  <2>2. call[r].op = "CreateBucket" /\ owner'[call[r].bucket] = acct[r]
    BY <1>1, <1>2, OpOfStep
    DEF Executed, Execute, Request, IInv, TypeOK, StorageTypeOK, S3Apis
  <2>3. Promise(r)'
    BY <1>1, <2>1, <2>2, ApiStepKeeps
    DEF Promise, GrantProgress, IssuedKeyReturned, Succeeded, Rest
  <2> QED  BY <2>1, <2>3, ApiStepKeeps, IInvParts DEF Parts
<1>3. CASE Refused(r)
  BY <1>1, <1>3, RefusedKeeps
<1> QED  BY <1>2, <1>3 DEF CreateBucket

\* S3Client.DeleteBucket: afterwards the account does not own the bucket.
LEMMA DeleteBucketKeeps ==
  ASSUME IInv, NEW r \in Rpc, DeleteBucket(r)
  PROVE  IInv'
<1>1. InApi(r) /\ Rest /\ pc[r] = "DeleteBucket"
  BY DEF DeleteBucket, InApi, Apis, S3Apis
<1>2. CASE Executed(r) /\ Return(r, OK) /\ UNCHANGED <<key, todo>>
  <2>1. ApiStep(r) /\ pc'[r] = "done" /\ reply'[r] = OK
    BY <1>1, <1>2, ExecutedStep, ReturnStep DEF Codes, IInv, TypeOK
  <2>2. call[r].op = "DeleteBucket" /\ owner'[call[r].bucket] # acct[r]
    BY <1>1, <1>2, OpOfStep, NoneAssumption
    DEF Executed, Execute, Request, IInv, TypeOK, StorageTypeOK, S3Apis
  <2>3. Promise(r)'
    BY <1>1, <2>1, <2>2, ApiStepKeeps
    DEF Promise, GrantProgress, IssuedKeyReturned, Succeeded, Rest
  <2> QED  BY <2>1, <2>3, ApiStepKeeps, IInvParts DEF Parts
<1>3. CASE Refused(r)
  BY <1>1, <1>3, RefusedKeeps
<1> QED  BY <1>2, <1>3 DEF DeleteBucket

\* IAMClient.CreateUser: afterwards the user of the grant exists.
LEMMA CreateUserKeeps ==
  ASSUME IInv, NEW r \in Rpc, CreateUser(r)
  PROVE  IInv'
<1>1. InApi(r) /\ Rest /\ pc[r] = "CreateUser"
  BY DEF CreateUser, InApi, Apis, IAMApis
<1>2. CASE Executed(r) /\ Proceed(r, "PutUserPolicy")
  <2>1. call[r].op = "GrantBucketAccess"
    BY <1>1, OpOfStep
  <2>2. ApiStep(r) /\ pc'[r] = "PutUserPolicy"
    BY <1>1, <1>2, <2>1, ExecutedStep, ProceedStep DEF Steps, Apis, IAMApis
  <2>3. <<acct[r], call[r].user>> \in users'
    BY <1>1, <1>2 DEF Executed, Execute, Request
  <2>4. Promise(r)'
    BY <1>1, <2>2, <2>3, ApiStepKeeps
    DEF Promise, GrantProgress, IssuedKeyReturned, Succeeded, Rest
  <2> QED  BY <2>2, <2>4, ApiStepKeeps, IInvParts DEF Parts
<1>3. CASE Refused(r)
  BY <1>1, <1>3, RefusedKeeps
<1> QED  BY <1>2, <1>3 DEF CreateUser

\* IAMClient.CreateS3WildcardInlinePolicy: afterwards the policy is there.
LEMMA CreateS3WildcardInlinePolicyKeeps ==
  ASSUME IInv, NEW r \in Rpc, CreateS3WildcardInlinePolicy(r)
  PROVE  IInv'
<1>1. InApi(r) /\ Rest /\ pc[r] = "PutUserPolicy"
  BY DEF CreateS3WildcardInlinePolicy, InApi, Apis, IAMApis
<1>2. CASE Executed(r) /\ Proceed(r, "CreateAccessKey")
  <2>1. call[r].op = "GrantBucketAccess"
    BY <1>1, OpOfStep
  <2>2. ApiStep(r) /\ pc'[r] = "CreateAccessKey"
    BY <1>1, <1>2, <2>1, ExecutedStep, ProceedStep DEF Steps, Apis, IAMApis
  <2>3. /\ <<acct[r], call[r].user, call[r].bucket>> \in policies'
        /\ users' = users
    BY <1>1, <1>2 DEF Executed, Execute, Request
  <2>4. GrantProgress(r)
    BY DEF IInv
  <2>5. Promise(r)'
    BY <1>1, <2>2, <2>3, <2>4, ApiStepKeeps
    DEF Promise, GrantProgress, IssuedKeyReturned, Succeeded, Rest
  <2> QED  BY <2>2, <2>5, ApiStepKeeps, IInvParts DEF Parts
<1>3. CASE Refused(r)
  BY <1>1, <1>3, RefusedKeeps
<1> QED  BY <1>2, <1>3 DEF CreateS3WildcardInlinePolicy

\* IAMClient.CreateAccessKey: the key returned is live, the grant complete.
LEMMA CreateAccessKeyKeeps ==
  ASSUME IInv, NEW r \in Rpc, CreateAccessKey(r)
  PROVE  IInv'
<1>1. InApi(r) /\ Rest /\ pc[r] = "CreateAccessKey"
  BY DEF CreateAccessKey, InApi, Apis, IAMApis
<1>2. CASE \E k \in Issuable(Request(r)) :
             /\ Execute(Request(r), k) /\ Return(r, OK)
             /\ key' = [key EXCEPT ![r] = k] /\ UNCHANGED todo
  <2>1. PICK k \in Key : /\ Execute(Request(r), k) /\ Return(r, OK)
                         /\ key' = [key EXCEPT ![r] = k] /\ UNCHANGED todo
                         /\ k \in Issuable(Request(r))
    BY <1>1, <1>2 DEF Issuable, Request
  <2>2. /\ key' \in [Rpc -> Key \union {None}] /\ key'[r] = k
        /\ \A s \in Rpc \ {r} : key'[s] = key[s]
    BY <2>1 DEF IInv, TypeOK
  <2>3. ApiStep(r) /\ pc'[r] = "done" /\ reply'[r] = OK
    BY <1>1, <2>1, <2>2, ReturnStep DEF Codes, StorageStep
  <2>4. /\ <<acct[r], call[r].user, k>> \in accessKeys'
        /\ k \in minted' /\ users' = users /\ policies' = policies
    BY <1>1, <2>1 DEF Execute, Request
  <2>5. GrantProgress(r) /\ call[r].op = "GrantBucketAccess"
    BY <1>1, OpOfStep DEF IInv
  <2>6. Promise(r)'
    BY <1>1, <2>2, <2>3, <2>4, <2>5, ApiStepKeeps
    DEF Promise, GrantProgress, IssuedKeyReturned, Succeeded, Rest
  <2> QED  BY <2>3, <2>6, ApiStepKeeps, IInvParts DEF Parts
<1>3. CASE Refused(r)
  BY <1>1, <1>3, RefusedKeeps
<1> QED  BY <1>2, <1>3 DEF CreateAccessKey

\* Until it is over, a revoke promises nothing.
LEMMA RevokeUnderway ==
  ASSUME IInv, NEW r \in Rpc, ApiStep(r), call[r].op = "RevokeBucketAccess",
         pc'[r] \in Apis
  PROVE  IInv'
<1>1. pc'[r] \notin {"PutUserPolicy", "CreateAccessKey", "done"}
  BY DEF ApiStep, Steps, Apis, S3Apis, IAMApis
<1>2. Promise(r)'
  BY <1>1, ApiStepKeeps DEF Promise, GrantProgress, IssuedKeyReturned, Succeeded
<1> QED  BY <1>2, ApiStepKeeps, IInvParts DEF Parts

\* IAMClient.EnsureUserExists: a user that is missing ends the revoke well.
LEMMA EnsureUserExistsKeeps ==
  ASSUME IInv, NEW r \in Rpc, EnsureUserExists(r)
  PROVE  IInv'
<1>1. InApi(r) /\ Rest /\ pc[r] = "GetUser"
  BY DEF EnsureUserExists, InApi, Apis, IAMApis
<1>2. CASE Executed(r) /\ Proceed(r, "DeleteUserPolicy")
  <2>1. call[r].op = "RevokeBucketAccess"
    BY <1>1, OpOfStep
  <2>2. ApiStep(r) /\ pc'[r] = "DeleteUserPolicy"
    BY <1>1, <1>2, <2>1, ExecutedStep, ProceedStep DEF Steps, Apis, IAMApis
  <2> QED  BY <2>1, <2>2, RevokeUnderway DEF Apis, IAMApis
<1>3. CASE Refused(r)
  BY <1>1, <1>3, RefusedKeeps
<1> QED  BY <1>2, <1>3 DEF EnsureUserExists

\* IAMClient.DeleteInlinePolicy, whether or not there was a policy.
LEMMA DeleteInlinePolicyKeeps ==
  ASSUME IInv, NEW r \in Rpc, DeleteInlinePolicy(r)
  PROVE  IInv'
<1>1. InApi(r) /\ Rest /\ pc[r] = "DeleteUserPolicy"
  BY DEF DeleteInlinePolicy, InApi, Apis, IAMApis
<1>2. CASE (Executed(r) \/ Tolerated(r)) /\ Proceed(r, "ListAccessKeys")
  <2>1. call[r].op = "RevokeBucketAccess"
    BY <1>1, OpOfStep
  <2>2. StorageStep(r)
    BY <1>1, <1>2, ExecutedStep DEF StorageStep, Tolerated
  <2>3. ApiStep(r) /\ pc'[r] = "ListAccessKeys"
    BY <1>1, <1>2, <2>1, <2>2, ProceedStep DEF Steps, Apis, IAMApis
  <2> QED  BY <2>1, <2>3, RevokeUnderway DEF Apis, IAMApis
<1>3. CASE Untolerated(r)
  BY <1>1, <1>3, RefusedKeeps
<1> QED  BY <1>2, <1>3 DEF DeleteInlinePolicy

\* Taking up the next key, or none, keeps the loop within the listed keys.
LEMMA NextKeyStep ==
  ASSUME IInv, NEW r \in Rpc, InApi(r), Rest, StorageStep(r),
         call[r].op = "RevokeBucketAccess", UNCHANGED reply,
         NEW left \in SUBSET Key, NextKey(r, left),
         page' \in [Rpc -> SUBSET Key], \A s \in Rpc \ {r} : page'[s] = page[s]
  PROVE  ApiStep(r) /\ pc'[r] \in Apis
<1>1. TypeOK /\ NoPanic
  BY DEF IInv
<1>2. PICK step \in {"DeleteUser", "DeleteAccessKey"} : Goto(r, step)
  BY DEF NextKey
<1>3. /\ key' \in [Rpc -> Key \union {None}]
      /\ todo' \in [Rpc -> SUBSET Key]
      /\ \A s \in Rpc \ {r} : key'[s] = key[s] /\ todo'[s] = todo[s]
  BY <1>1 DEF NextKey, TypeOK
<1>4. reply' \in [Rpc -> Codes \union {NoReply}]
  BY <1>1 DEF TypeOK, NoPanic
<1>5. step \in Apis /\ step \in Steps(call[r].op)
  BY DEF Apis, IAMApis, Steps
<1> QED
  BY <1>1, <1>2, <1>3, <1>4, <1>5, GotoTyped DEF ApiStep, Rest, StorageStep, TypeOK

\* So the loop keeps the invariant.
LEMMA NextKeyKeeps ==
  ASSUME IInv, NEW r \in Rpc, InApi(r), Rest, StorageStep(r),
         call[r].op = "RevokeBucketAccess", UNCHANGED reply,
         NEW left \in SUBSET Key, NextKey(r, left),
         page' \in [Rpc -> SUBSET Key], \A s \in Rpc \ {r} : page'[s] = page[s]
  PROVE  IInv'
BY NextKeyStep, RevokeUnderway

\* IAMClient.DeleteAllAccessKeys, its listing, whatever page it returns.
LEMMA ListAccessKeysKeeps ==
  ASSUME IInv, NEW r \in Rpc, ListAccessKeys(r)
  PROVE  IInv'
<1>1. InApi(r) /\ Rest /\ pc[r] = "ListAccessKeys"
  BY DEF ListAccessKeys, InApi, Apis, IAMApis
<1>2. CASE /\ Executed(r)
           /\ \E p \in Pages(KeysOf(acct[r], call[r].user)) :
                page' = [page EXCEPT ![r] = p] /\ NextKey(r, p)
           /\ UNCHANGED reply
  <2>1. PICK p \in SUBSET Key : page' = [page EXCEPT ![r] = p] /\ NextKey(r, p)
    BY <1>2 DEF Pages, KeysOf
  <2>2. page' \in [Rpc -> SUBSET Key] /\ \A s \in Rpc \ {r} : page'[s] = page[s]
    BY <2>1 DEF IInv, TypeOK
  <2> QED  BY <1>1, <1>2, <2>1, <2>2, ExecutedStep, OpOfStep, NextKeyKeeps
<1>3. CASE Refused(r)
  BY <1>1, <1>3, RefusedKeeps
<1> QED  BY <1>2, <1>3 DEF ListAccessKeys

\* IAMClient.DeleteAllAccessKeys, one round of its loop.
LEMMA DeleteAccessKeyKeeps ==
  ASSUME IInv, NEW r \in Rpc, DeleteAccessKey(r)
  PROVE  IInv'
<1>1. InApi(r) /\ Rest /\ pc[r] = "DeleteAccessKey"
  BY DEF DeleteAccessKey, InApi, Apis, IAMApis
<1>2. CASE /\ Executed(r) \/ Tolerated(r)
           /\ NextKey(r, todo[r]) /\ UNCHANGED <<page, reply>>
  <2>1. StorageStep(r)
    BY <1>1, <1>2, ExecutedStep DEF StorageStep, Tolerated
  <2>2. todo[r] \in SUBSET Key /\ page \in [Rpc -> SUBSET Key]
    BY DEF IInv, TypeOK
  <2> QED  BY <1>1, <1>2, <2>1, <2>2, OpOfStep, NextKeyKeeps
<1>3. CASE Untolerated(r)
  BY <1>1, <1>3, RefusedKeeps
<1> QED  BY <1>2, <1>3 DEF DeleteAccessKey

\* IAMClient.DeleteUser: success means that nothing of the user is left.
LEMMA DeleteUserKeeps ==
  ASSUME IInv, NEW r \in Rpc, DeleteUser(r)
  PROVE  IInv'
<1>1. InApi(r) /\ Rest /\ pc[r] = "DeleteUser"
  BY DEF DeleteUser, InApi, Apis, IAMApis
<1>2. CASE /\ Executed(r) \/ Tolerated(r)
           /\ Return(r, OK) /\ UNCHANGED <<key, todo>>
  <2>1. StorageStep(r)
    BY <1>1, <1>2, ExecutedStep DEF StorageStep, Tolerated
  <2>2. ApiStep(r) /\ pc'[r] = "done" /\ reply'[r] = OK
    BY <1>1, <1>2, <2>1, ReturnStep DEF Codes, IInv, TypeOK
  <2>3. <<acct[r], call[r].user>> \notin users'
    <3>1. CASE Executed(r)
      BY <1>1, <3>1 DEF Executed, Execute, Request
    <3>2. CASE Tolerated(r)
      <4>1. Outcome(Request(r)) = "NoSuchEntity" /\ users' = users
        BY <3>2, SpontaneousAssumption
        DEF Tolerated, Refusals, MissingResourceCodes, storageVars
      <4> QED  BY <1>1, <4>1 DEF Outcome, Request, HasUser, OK
    <3> QED  BY <1>2, <3>1, <3>2
  <2>4. Promise(r)'
    BY <1>1, <2>2, <2>3, OpOfStep, ApiStepKeeps, UserGone DEF Rest
  <2> QED  BY <2>2, <2>4, ApiStepKeeps, IInvParts DEF Parts
<1>3. CASE Untolerated(r)
  BY <1>1, <1>3, RefusedKeeps
<1> QED  BY <1>2, <1>3 DEF DeleteUser

(***************************************************************************)
(* Sending a request again moves nothing.                                  *)
(***************************************************************************)
LEMMA ResendStep ==
  ASSUME IInv, NEW r \in Rpc, InApi(r), UNCHANGED storageVars,
         UNCHANGED <<call, acct, seen, contended, clusterVars>>,
         late' \subseteq late \union {Request(r)},
         attempt[r] < MaxAttempts, attempt' = [attempt EXCEPT ![r] = @ + 1],
         UNCHANGED <<pc, key, page, todo, reply>>
  PROVE  ApiStep(r)
<1>1. TypeOK /\ NoPanic
  BY DEF IInv
<1>2. attempt' \in [Rpc -> 1..MaxAttempts]
  BY <1>1, ProvisionerAssumption DEF TypeOK
<1>3. reply' \in [Rpc -> Codes \union {NoReply}]
  BY <1>1 DEF TypeOK, NoPanic
<1> QED  BY <1>1, <1>2, <1>3 DEF ApiStep, TypeOK, InApi

\* A request that goes unanswered is sent again or given up.
LEMMA UnansweredKeeps ==
  ASSUME IInv, NEW r \in Rpc, Unanswered(r)
  PROVE  IInv'
<1>1. InApi(r) /\ UNCHANGED storageVars
      /\ UNCHANGED <<call, acct, seen, contended, clusterVars>>
      /\ late' \subseteq late \union {Request(r)}
  BY DEF Unanswered
<1>2. CASE /\ attempt[r] < MaxAttempts
           /\ attempt' = [attempt EXCEPT ![r] = @ + 1]
           /\ UNCHANGED <<pc, key, page, todo, reply>>
  <2>1. TypeOK /\ ApiStep(r)
    BY <1>1, <1>2, ResendStep DEF IInv
  <2>2. Promise(r)'
    <3>1. Promise(r) /\ Bystander(r) /\ Harmless(r)
      BY <1>1, <1>2, IInvParts DEF Parts, Bystander, Harmless, storageVars
    <3> QED  BY <2>1, <3>1, ApiStepKeeps, PromiseKept DEF TypeOK
  <2> QED  BY <2>1, <2>2, ApiStepKeeps, IInvParts DEF Parts
<1>3. CASE Abort(r, NonAPIError)
  BY <1>1, <1>3, AbortKeeps DEF NonAPIError
<1> QED  BY <1>2, <1>3 DEF Unanswered

---------------------------------------------------------------------------

(***************************************************************************)
(* A step of a handler is one of its two lookups, or one of the kind that  *)
(* all steps waiting for the provider are.                                 *)
(***************************************************************************)
LEMMA HandleKinds ==
  ASSUME IInv, NEW r \in Rpc, Handle(r)
  PROVE  GetBucket(r) \/ InitClient(r) \/ ApiStep(r)
<1>1. ASSUME InApi(r), Rest, Refused(r) \/ Untolerated(r)
      PROVE  ApiStep(r)
  <2>1. PICK err : Abort(r, err) /\ UNCHANGED storageVars
    BY <1>1 DEF Refused, Untolerated, RefusedWith
  <2> QED  BY <1>1, <2>1, AbortStep DEF Rest
<1>2. ASSUME InApi(r), Rest, Executed(r) \/ Tolerated(r), pc[r] # "CreateAccessKey",
             Return(r, OK), UNCHANGED <<key, todo>>
      PROVE  ApiStep(r)
  <2>1. StorageStep(r)
    BY <1>2, ExecutedStep DEF StorageStep, Tolerated
  <2> QED  BY <1>2, <2>1, ReturnStep DEF Codes, IInv, TypeOK
<1>3. ASSUME InApi(r), Rest, Executed(r) \/ Tolerated(r), pc[r] # "CreateAccessKey",
             NEW step \in Apis, step \in Steps(call[r].op), Proceed(r, step)
      PROVE  ApiStep(r)
  <2>1. StorageStep(r)
    BY <1>3, ExecutedStep DEF StorageStep, Tolerated
  <2> QED  BY <1>3, <2>1, ProceedStep
<1>4. ASSUME InApi(r), Rest, Executed(r) \/ Tolerated(r), pc[r] # "CreateAccessKey",
             call[r].op = "RevokeBucketAccess", UNCHANGED reply,
             NEW left \in SUBSET Key, NextKey(r, left),
             page' \in [Rpc -> SUBSET Key],
             \A s \in Rpc \ {r} : page'[s] = page[s]
      PROVE  ApiStep(r)
  <2>1. StorageStep(r)
    BY <1>4, ExecutedStep DEF StorageStep, Tolerated
  <2> QED  BY <1>4, <2>1, NextKeyStep
<1>5. CASE CreateBucket(r) \/ DeleteBucket(r) \/ DeleteUser(r)
  <2>1. InApi(r) /\ Rest /\ pc[r] # "CreateAccessKey"
    BY <1>5 DEF CreateBucket, DeleteBucket, DeleteUser, InApi, Apis, S3Apis, IAMApis
  <2> QED  BY <1>1, <1>2, <1>5, <2>1 DEF CreateBucket, DeleteBucket, DeleteUser
<1>6. CASE CreateUser(r) \/ CreateS3WildcardInlinePolicy(r)
  <2>1. /\ InApi(r) /\ Rest /\ pc[r] # "CreateAccessKey"
        /\ call[r].op = "GrantBucketAccess"
    BY <1>6, OpOfStep DEF CreateUser, CreateS3WildcardInlinePolicy, InApi, Apis, IAMApis
  <2>2. /\ {"PutUserPolicy", "CreateAccessKey"} \subseteq Apis
        /\ {"PutUserPolicy", "CreateAccessKey"} \subseteq Steps(call[r].op)
    BY <2>1 DEF Apis, IAMApis, Steps
  <2> QED
    BY <1>1, <1>3, <1>6, <2>1, <2>2 DEF CreateUser, CreateS3WildcardInlinePolicy
<1>7. CASE CreateAccessKey(r)
  <2>1. InApi(r) /\ Rest /\ pc[r] = "CreateAccessKey"
    BY <1>7 DEF CreateAccessKey, InApi, Apis, IAMApis
  <2>2. CASE Refused(r)
    BY <1>1, <2>1, <2>2
  <2>3. ASSUME NEW k \in Issuable(Request(r)), Execute(Request(r), k),
               Return(r, OK), key' = [key EXCEPT ![r] = k], UNCHANGED todo
        PROVE  ApiStep(r)
    <3>1. /\ key' \in [Rpc -> Key \union {None}]
          /\ \A s \in Rpc \ {r} : key'[s] = key[s]
      BY <2>1, <2>3 DEF IInv, TypeOK, Issuable, Request
    <3> QED  BY <2>1, <2>3, <3>1, ReturnStep DEF Codes, StorageStep
  <2> QED  BY <1>7, <2>2, <2>3 DEF CreateAccessKey
<1>8. CASE EnsureUserExists(r) \/ DeleteInlinePolicy(r)
  <2>1. /\ InApi(r) /\ Rest /\ pc[r] # "CreateAccessKey"
        /\ call[r].op = "RevokeBucketAccess"
    BY <1>8, OpOfStep DEF EnsureUserExists, DeleteInlinePolicy, InApi, Apis, IAMApis
  <2>2. /\ {"DeleteUserPolicy", "ListAccessKeys"} \subseteq Apis
        /\ {"DeleteUserPolicy", "ListAccessKeys"} \subseteq Steps(call[r].op)
    BY <2>1 DEF Apis, IAMApis, Steps
  <2> QED
    BY <1>1, <1>3, <1>8, <2>1, <2>2 DEF EnsureUserExists, DeleteInlinePolicy
<1>9. CASE ListAccessKeys(r) \/ DeleteAccessKey(r)
  <2>1. /\ InApi(r) /\ Rest /\ pc[r] # "CreateAccessKey"
        /\ call[r].op = "RevokeBucketAccess"
    BY <1>9, OpOfStep DEF ListAccessKeys, DeleteAccessKey, InApi, Apis, IAMApis
  <2>2. /\ todo[r] \in SUBSET Key /\ page \in [Rpc -> SUBSET Key]
        /\ \A p \in Pages(KeysOf(acct[r], call[r].user)) : p \in SUBSET Key
    BY DEF Pages, KeysOf, IInv, TypeOK
  <2>3. CASE ListAccessKeys(r)
    <3>1. ASSUME NEW p \in SUBSET Key, page' = [page EXCEPT ![r] = p]
          PROVE  /\ page' \in [Rpc -> SUBSET Key]
                 /\ \A s \in Rpc \ {r} : page'[s] = page[s]
      BY <2>2, <3>1
    <3> QED  BY <1>1, <1>4, <2>1, <2>2, <2>3, <3>1 DEF ListAccessKeys
  <2>4. CASE DeleteAccessKey(r)
    BY <1>1, <1>4, <2>1, <2>2, <2>4 DEF DeleteAccessKey
  <2> QED  BY <1>9, <2>3, <2>4
<1>10. CASE Unanswered(r)
  BY <1>10, ResendStep, AbortStep DEF Unanswered
<1> QED  BY <1>5, <1>6, <1>7, <1>8, <1>9, <1>10 DEF Handle

(***************************************************************************)
(* The steps before a handler has its client.                              *)
(***************************************************************************)
LEMMA ReceiveKeeps ==
  ASSUME IInv, NEW r \in Rpc, NEW c \in Calls, Receive(r, c)
  PROVE  IInv'
<1>1. /\ TypeOK /\ StorageInv /\ NoPanic
      /\ \A s \in Rpc : ContentionNoted(s)
      /\ \A s \in Rpc : Promise(s)
  BY IInvParts DEF Parts
<1> DEFINE step == IF NeedsBucketObject(c.op) THEN "GetBucket" ELSE "InitClient"
<1>2. /\ pc' \in [Rpc -> Apis \union {"idle", "GetBucket", "InitClient", "done"}]
      /\ pc'[r] = step /\ \A s \in Rpc \ {r} : pc'[s] = pc[s]
      /\ attempt' \in [Rpc -> 1..MaxAttempts]
  BY <1>1, GotoTyped DEF Receive
<1>3. /\ call' \in [Rpc -> Calls \union {NoCall}]
      /\ call'[r] = c /\ \A s \in Rpc \ {r} : call'[s] = call[s]
      /\ seen' \in [Rpc -> SUBSET Key]
      /\ seen'[r] = minted /\ \A s \in Rpc \ {r} : seen'[s] = seen[s]
  BY <1>1 DEF Receive, TypeOK, StorageTypeOK
<1>4. UNCHANGED <<acct, key, page, todo, reply, contended, storageVars, clusterVars,
                  late>>
  BY DEF Receive
<1>5. StorageTypeOK' /\ StorageInv'
  BY <1>1, <1>4 DEF TypeOK, StorageTypeOK, StorageInv, storageVars
<1>6. step \in Steps(c.op) /\ (step = "InitClient" => c.params # None)
  BY DEF Receive, NeedsBucketObject, Steps, Calls
<1>7. ~InApi(r)' /\ ~Engaged(r)' /\ acct[r] = None
  BY <1>1, <1>2 DEF InApi, Engaged, Apis, S3Apis, IAMApis, TypeOK, Receive
<1>8. TypeOK'
  <2>1. \A s \in Rpc :
          /\ pc'[s] \in Steps(call'[s].op)
          /\ pc'[s] = "InitClient" => call'[s].params # None
    BY <1>1, <1>2, <1>3, <1>6 DEF TypeOK
  <2>2. \A s \in Rpc :
          /\ InApi(s)' \/ (pc'[s] = "done" /\ reply'[s] = OK) => acct'[s] # None
          /\ pc'[s] \in {"idle", "GetBucket", "InitClient"} => acct'[s] = None
    BY <1>1, <1>2, <1>4, <1>7 DEF TypeOK, InApi
  <2> QED
    BY <1>1, <1>2, <1>3, <1>4, <1>5, <2>1, <2>2 DEF TypeOK, clusterVars
<1>9. NoPanic'
  BY <1>1, <1>4 DEF NoPanic
<1>10. \A s \in Rpc : ContentionNoted(s)'
  BY <1>1, <1>2, <1>3, <1>4, <1>7 DEF ContentionNoted, InApi, Engaged, Undoes, Request
<1>11. \A s \in Rpc : Promise(s)'
  <2>1. \A s \in Rpc \ {r} : Bystander(s) /\ Harmless(s)
    BY <1>2, <1>3, <1>4 DEF Bystander, Harmless, storageVars
  <2>2. Promise(r)'
    BY <1>2, <1>3, <1>4
    DEF Promise, GrantProgress, IssuedKeyReturned, Succeeded, storageVars
  <2> QED  BY <1>1, <1>5, <2>1, <2>2, PromiseKept
<1> QED  BY <1>5, <1>8, <1>9, <1>10, <1>11, IInvParts DEF Parts

\* Handlers that have not got a client yet, and return an error or go on.
EarlyStep(r) ==
  /\ pc[r] \in {"GetBucket", "InitClient"}
  /\ pc' \in [Rpc -> Apis \union {"idle", "GetBucket", "InitClient", "done"}]
  /\ \A s \in Rpc \ {r} :
       /\ pc'[s] = pc[s] /\ call'[s] = call[s] /\ reply'[s] = reply[s]
       /\ page'[s] = page[s] /\ attempt'[s] = attempt[s]
  /\ page' \in [Rpc -> SUBSET Key]
  /\ attempt' \in [Rpc -> 1..MaxAttempts]
  /\ call' \in [Rpc -> Calls \union {NoCall}]
  /\ call'[r].op = call[r].op
  /\ reply' \in [Rpc -> Codes \union {NoReply}]
  /\ \/ pc'[r] = "InitClient" /\ call'[r].params # None
     \/ pc'[r] = "done" /\ reply'[r] = "Internal"
  /\ UNCHANGED <<acct, key, todo, seen, contended, storageVars, clusterVars, late>>

\* Until it has a client, a handler promises nothing and disturbs nobody.
LEMMA EarlyStepKeeps ==
  ASSUME IInv, NEW r \in Rpc, EarlyStep(r)
  PROVE  IInv'
<1>1. /\ TypeOK /\ StorageInv /\ NoPanic
      /\ \A s \in Rpc : ContentionNoted(s)
      /\ \A s \in Rpc : Promise(s)
  BY IInvParts DEF Parts
<1>2. StorageTypeOK' /\ StorageInv'
  BY <1>1 DEF EarlyStep, TypeOK, StorageTypeOK, StorageInv, storageVars
<1>3. ~InApi(r)' /\ acct[r] = None /\ acct'[r] = None
  BY <1>1 DEF EarlyStep, InApi, Apis, S3Apis, IAMApis, TypeOK
<1>4. TypeOK'
  <2>1. pc'[r] \in Steps(call'[r].op)
    BY <1>1 DEF EarlyStep, TypeOK, Steps, Calls, NoCall
  <2>2. \A s \in Rpc :
          /\ pc'[s] \in Steps(call'[s].op)
          /\ pc'[s] = "InitClient" => call'[s].params # None
    BY <1>1, <2>1 DEF EarlyStep, TypeOK
  <2>3. \A s \in Rpc :
          /\ InApi(s)' \/ (pc'[s] = "done" /\ reply'[s] = OK) => acct'[s] # None
          /\ pc'[s] \in {"idle", "GetBucket", "InitClient"} => acct'[s] = None
    BY <1>1, <1>3 DEF EarlyStep, TypeOK, InApi, OK
  <2>4. reply' \in [Rpc -> Codes \union {NoReply, "Panic"}]
    BY DEF EarlyStep
  <2> QED
    BY <1>1, <1>2, <2>2, <2>3, <2>4 DEF EarlyStep, TypeOK, clusterVars
<1>5. NoPanic'
  BY DEF EarlyStep, NoPanic, Codes, NoReply, OK
<1>6. \A s \in Rpc : ContentionNoted(s)'
  <2>1. \A s \in Rpc : InApi(s)' => InApi(s) /\ acct[s] # None /\ s # r
    BY <1>1, <1>3 DEF EarlyStep, InApi, TypeOK
  <2>2. \A q \in late : q.acct # None
    BY <1>1, NoneAssumption DEF TypeOK, Requests
  <2>3. ContentionNoted(r)'
    BY <1>3, <2>1, <2>2 DEF EarlyStep, ContentionNoted, Undoes, Request
  <2>4. \A s \in Rpc \ {r} : ContentionNoted(s)'
    BY <1>1, <2>1 DEF EarlyStep, ContentionNoted, Undoes, Request, Engaged
  <2> QED  BY <2>3, <2>4
<1>7. \A s \in Rpc : Promise(s)'
  <2>1. \A s \in Rpc \ {r} : Bystander(s) /\ Harmless(s)
    BY DEF EarlyStep, Bystander, Harmless, storageVars
  <2>2. Promise(r)'
    BY <1>1
    DEF EarlyStep, Promise, GrantProgress, IssuedKeyReturned, Succeeded, storageVars, OK
  <2> QED  BY <1>1, <1>2, <2>1, <2>2, PromiseKept
<1> QED  BY <1>2, <1>4, <1>5, <1>6, <1>7, IInvParts DEF Parts

\* The lookup of the Bucket object, found or not.
LEMMA GetBucketEarly ==
  ASSUME IInv, NEW r \in Rpc, GetBucket(r)
  PROVE  EarlyStep(r)
<1>1. TypeOK /\ NoPanic /\ pc[r] = "GetBucket"
  BY DEF IInv, GetBucket
<1>2. call[r] \in Calls
  BY <1>1 DEF TypeOK, Steps, NoCall
<1>3. CASE /\ bucketObj[call[r].bucket] # None
           /\ call' = [call EXCEPT ![r].params = bucketObj[call[r].bucket]]
           /\ Proceed(r, "InitClient")
  <2>1. bucketObj[call[r].bucket] \in Params
    BY <1>1, <1>2, <1>3 DEF TypeOK, Calls
  <2>2. [call[r] EXCEPT !.params = bucketObj[call[r].bucket]] \in Calls
    BY <1>2, <2>1 DEF Calls
  <2>3. /\ call' \in [Rpc -> Calls \union {NoCall}]
        /\ call'[r] = [call[r] EXCEPT !.params = bucketObj[call[r].bucket]]
        /\ \A s \in Rpc \ {r} : call'[s] = call[s]
    BY <1>1, <1>3, <2>2 DEF TypeOK
  <2>4. call'[r].op = call[r].op /\ call'[r].params # None
    BY <1>2, <1>3, <2>3 DEF Calls
  <2>5. reply' \in [Rpc -> Codes \union {NoReply}]
    BY <1>1, <1>3 DEF TypeOK, NoPanic, Proceed
  <2> QED
    BY <1>1, <1>3, <2>3, <2>4, <2>5, GotoTyped
    DEF EarlyStep, GetBucket, Proceed, TypeOK
<1>4. CASE Return(r, "Internal") /\ UNCHANGED <<call, key, todo>>
  <2>1. /\ reply' \in [Rpc -> Codes \union {NoReply}]
        /\ reply'[r] = "Internal"
        /\ \A s \in Rpc \ {r} : reply'[s] = reply[s]
    BY <1>1, <1>4 DEF TypeOK, NoPanic, Return, Codes
  <2> QED
    BY <1>1, <1>4, <2>1, GotoTyped DEF EarlyStep, GetBucket, Return, TypeOK
<1> QED  BY <1>3, <1>4 DEF GetBucket

\* Either way the invariant is kept.
LEMMA GetBucketKeeps ==
  ASSUME IInv, NEW r \in Rpc, GetBucket(r)
  PROVE  IInv'
BY GetBucketEarly, EarlyStepKeeps

\* A handler that gets no client returns an error.
LEMMA InitClientFails ==
  ASSUME IInv, NEW r \in Rpc, pc[r] = "InitClient", Return(r, "Internal"),
         UNCHANGED <<call, acct, key, todo, seen, contended, storageVars,
                     clusterVars, late>>
  PROVE  EarlyStep(r)
<1>1. TypeOK /\ NoPanic
  BY DEF IInv
<1>2. /\ reply' \in [Rpc -> Codes \union {NoReply}]
      /\ reply'[r] = "Internal"
      /\ \A s \in Rpc \ {r} : reply'[s] = reply[s]
  BY <1>1 DEF TypeOK, NoPanic, Return, Codes
<1> QED  BY <1>1, <1>2, GotoTyped DEF EarlyStep, Return, TypeOK

\* Undoing is mutual, and no operation undoes itself.
LEMMA UndoesMutual ==
  ASSUME NEW q, NEW p, q.op \in Actions, p.op \in Actions
  PROVE  (Undoes(q, p) <=> Undoes(p, q)) /\ (q.op = p.op => ~Undoes(q, p))
BY DEF Undoes, Opposite, S3Apis, Actions

\* Initialising the client notes every contention that starts here.
LEMMA InitClientKeeps ==
  ASSUME IInv, NEW r \in Rpc, InitClient(r)
  PROVE  IInv'
<1>1. /\ TypeOK /\ StorageInv /\ NoPanic /\ pc[r] = "InitClient"
      /\ \A s \in Rpc : ContentionNoted(s)
      /\ \A s \in Rpc : Promise(s)
      /\ UNCHANGED <<call, seen, storageVars, clusterVars, late>>
  BY IInvParts DEF Parts, InitClient
<1>2. /\ call[r] \in Calls /\ call[r].op \in Actions
      /\ call[r].params \in Params
  BY <1>1 DEF TypeOK, Steps, Calls, NoCall, Actions
<1>3. CASE Return(r, "Internal") /\ UNCHANGED <<acct, key, todo, contended>>
  BY <1>1, <1>3, InitClientFails, EarlyStepKeeps
<1> DEFINE a == secretAcct[call[r].params]
           q == [Request(r) EXCEPT !.acct = a]
<1>4. CASE /\ a # None
           /\ acct' = [acct EXCEPT ![r] = a]
           /\ Proceed(r, FirstApi(call[r].op))
           /\ contended' = {s \in Rpc :
                IF s = r
                  THEN \/ \E t \in Rpc : InApi(t) /\ Undoes(q, Request(t))
                       \/ \E p \in late : Undoes(q, p)
                  ELSE s \in contended \/ (Engaged(s) /\ Undoes(q, Request(s)))}
  <2>1. a \in Account
    BY <1>1, <1>2, <1>4 DEF TypeOK
  <2>2. /\ acct' \in [Rpc -> Account \union {None}]
        /\ acct'[r] = a /\ \A s \in Rpc \ {r} : acct'[s] = acct[s]
    BY <1>1, <1>4, <2>1 DEF TypeOK
  <2>3. /\ FirstApi(call[r].op) \in {"CreateBucket", "DeleteBucket",
                                      "CreateUser", "GetUser"}
        /\ FirstApi(call[r].op) \in Steps(call[r].op)
    BY <1>2 DEF FirstApi, Steps, Actions
  <2>4. /\ pc' \in [Rpc -> Apis \union {"idle", "GetBucket", "InitClient", "done"}]
        /\ pc'[r] = FirstApi(call[r].op) /\ pc'[r] \in Apis
        /\ \A s \in Rpc \ {r} : pc'[s] = pc[s]
        /\ attempt' \in [Rpc -> 1..MaxAttempts]
        /\ UNCHANGED <<key, page, todo, reply>>
    BY <1>1, <1>4, <2>3, GotoTyped DEF Proceed, Apis, S3Apis, IAMApis
  <2>5. StorageTypeOK' /\ StorageInv'
    BY <1>1 DEF TypeOK, StorageTypeOK, StorageInv, storageVars
  <2>6. TypeOK'
    <3>1. \A s \in Rpc :
            /\ pc'[s] \in Steps(call'[s].op)
            /\ pc'[s] = "InitClient" => call'[s].params # None
      BY <1>1, <2>3, <2>4 DEF TypeOK
    <3>2. \A s \in Rpc :
            /\ InApi(s)' \/ (pc'[s] = "done" /\ reply'[s] = OK) => acct'[s] # None
            /\ pc'[s] \in {"idle", "GetBucket", "InitClient"} => acct'[s] = None
      BY <1>1, <1>4, <2>2, <2>3, <2>4 DEF TypeOK, InApi
    <3>3. contended' \subseteq Rpc
      BY <1>4
    <3> QED
      BY <1>1, <2>2, <2>4, <2>5, <3>1, <3>2, <3>3 DEF TypeOK, clusterVars
  <2>7. NoPanic'
    BY <1>1, <2>4 DEF NoPanic
  <2>8. /\ \A s \in Rpc \ {r} : InApi(s)' = InApi(s) /\ Engaged(s)' = Engaged(s)
        /\ \A s \in Rpc : InApi(s) => call[s].op \in Actions
    BY <1>1, <2>4, RequestTyped DEF InApi, Engaged, Requests, Request
  <2>9. \A p \in late : p.op \in Actions
    BY <1>1 DEF TypeOK, Requests
  <2>10. q.op = call[r].op /\ q.acct = a /\ q.bucket = call[r].bucket
         /\ q.user = call[r].user
    BY DEF Request
  <2>11. ContentionNoted(r)'
    <3> SUFFICES ASSUME r \notin contended'
                 PROVE  /\ \A s \in Rpc : InApi(s)' =>
                             ~Undoes(Request(s)', Request(r)')
                        /\ \A p \in late' : ~Undoes(p, Request(r)')
      BY DEF ContentionNoted, Undoes
    <3>1. /\ \A t \in Rpc : InApi(t) => ~Undoes(q, Request(t))
          /\ \A p \in late : ~Undoes(q, p)
      BY <1>4
    <3>2. \A t \in Rpc : InApi(t) => ~Undoes(Request(t), q)
      BY <1>2, <2>8, <2>10, <3>1, UndoesMutual DEF Request
    <3>3. \A p \in late : ~Undoes(p, q)
      BY <1>2, <2>9, <2>10, <3>1, UndoesMutual
    <3>4. \A s \in Rpc \ {r} : InApi(s)' => ~Undoes(Request(s)', Request(r)')
      BY <1>1, <2>2, <2>8, <2>10, <3>2 DEF Undoes, Request
    <3>5. ~Undoes(Request(r)', Request(r)')
      BY <1>1, <1>2 DEF Undoes, Opposite, Request, Actions
    <3>6. \A p \in late' : ~Undoes(p, Request(r)')
      BY <1>1, <2>2, <2>10, <3>3 DEF Undoes, Request
    <3> QED  BY <3>4, <3>5, <3>6
  <2>12. ASSUME NEW s \in Rpc \ {r} PROVE ContentionNoted(s)'
    <3> SUFFICES ASSUME Engaged(s)', s \notin contended'
                 PROVE  /\ \A t \in Rpc : InApi(t)' =>
                             ~Undoes(Request(t)', Request(s)')
                        /\ \A p \in late' : ~Undoes(p, Request(s)')
      BY DEF ContentionNoted, Undoes
    <3>1. Engaged(s) /\ s \notin contended /\ ~Undoes(q, Request(s))
      BY <1>4, <2>8
    <3>2. /\ \A t \in Rpc : InApi(t) => ~Undoes(Request(t), Request(s))
          /\ \A p \in late : ~Undoes(p, Request(s))
      BY <1>1, <3>1 DEF ContentionNoted
    <3>3. \A t \in Rpc \ {r} : InApi(t)' => ~Undoes(Request(t)', Request(s)')
      BY <1>1, <2>2, <2>8, <3>2 DEF Undoes, Request
    <3>4. ~Undoes(Request(r)', Request(s)')
      BY <1>1, <2>2, <2>10, <3>1 DEF Undoes, Request
    <3>5. \A p \in late' : ~Undoes(p, Request(s)')
      BY <1>1, <2>2, <3>2 DEF Undoes, Request
    <3> QED  BY <3>3, <3>4, <3>5
  <2>13. \A s \in Rpc : Promise(s)'
    <3>1. \A s \in Rpc \ {r} : Bystander(s) /\ Harmless(s)
      BY <1>1, <1>4, <2>2, <2>4 DEF Bystander, Harmless, storageVars
    <3>2. Promise(r)'
      BY <1>1, <2>3, <2>4
      DEF Promise, GrantProgress, IssuedKeyReturned, Succeeded, storageVars
    <3> QED  BY <1>1, <2>5, <3>1, <3>2, PromiseKept
  <2> QED
    BY <2>5, <2>6, <2>7, <2>11, <2>12, <2>13, IInvParts DEF Parts
<1> QED  BY <1>3, <1>4 DEF InitClient

---------------------------------------------------------------------------

(***************************************************************************)
(* Steps of the environment.  A request that arrives late hurts no handler *)
(* that has not been told of contention.                                   *)
(***************************************************************************)
LEMMA LateHarmless ==
  ASSUME IInv, NEW q \in late, LateArrival(q)
  PROVE  StorageTypeOK' /\ StorageInv' /\ \A s \in Rpc : Harmless(s)
<1>1. /\ TypeOK /\ StorageInv /\ \A s \in Rpc : ContentionNoted(s)
      /\ q \in Requests
  BY DEF IInv, TypeOK
<1>2. CASE \E k \in Issuable(q) : Execute(q, k)
  <2>1. StorageTypeOK' /\ StorageInv' /\ Frame(q)
    BY <1>1, <1>2, ExecuteFrame DEF TypeOK
  <2>2. \A s \in Rpc : Harmless(s)
    BY <1>1, <2>1 DEF Harmless, ContentionNoted
  <2> QED  BY <2>1, <2>2
<1>3. CASE UNCHANGED storageVars
  BY <1>1, <1>3 DEF TypeOK, StorageTypeOK, StorageInv, storageVars, Harmless
<1> QED  BY <1>2, <1>3 DEF LateArrival

\* So a request that comes late, or never, keeps the invariant.
LEMMA LateArrivalKeeps ==
  ASSUME IInv, NEW q \in late, LateArrival(q)
  PROVE  IInv'
<1>1. /\ TypeOK /\ StorageInv /\ NoPanic
      /\ \A s \in Rpc : ContentionNoted(s)
      /\ \A s \in Rpc : Promise(s)
      /\ UNCHANGED <<pc, call, acct, attempt, key, page, todo, reply, seen, contended>>
      /\ UNCHANGED <<bucketObj, secretAcct>>
      /\ late' \subseteq late
  BY IInvParts DEF Parts, LateArrival, handlerVars, clusterVars
<1>3. StorageTypeOK' /\ StorageInv' /\ \A s \in Rpc : Harmless(s)
  BY LateHarmless
<1>4. TypeOK'
  BY <1>1, <1>3 DEF TypeOK, InApi
<1>5. NoPanic'
  BY <1>1 DEF NoPanic
<1>6. \A s \in Rpc : ContentionNoted(s)'
  BY <1>1, ContentionKept DEF InApi, Engaged
<1>7. \A s \in Rpc : Promise(s)'
  <2>1. \A s \in Rpc : Bystander(s)
    BY <1>1 DEF Bystander
  <2> QED  BY <1>1, <1>3, <2>1, PromiseKept
<1> QED  BY <1>3, <1>4, <1>5, <1>6, <1>7, IInvParts DEF Parts

\* Handlers that end, by replying or by a crash, take their promises along.
LEMMA ResetKeeps ==
  ASSUME IInv, NEW R \in SUBSET Rpc, Reset(R),
         \A q \in late' : q \in late \/ \E s \in Rpc : InApi(s) /\ q = Request(s)
  PROVE  IInv'
<1>1. /\ TypeOK /\ StorageInv /\ NoPanic
      /\ \A s \in Rpc : ContentionNoted(s)
      /\ \A s \in Rpc : Promise(s)
      /\ UNCHANGED <<storageVars, clusterVars>>
  BY IInvParts DEF Parts, Reset
<1>2. \A s \in R : /\ pc'[s] = "idle" /\ call'[s] = NoCall /\ acct'[s] = None
                   /\ reply'[s] = NoReply /\ seen'[s] = {}
  BY DEF Reset
<1>3. \A s \in Rpc \ R :
        /\ pc'[s] = pc[s] /\ call'[s] = call[s] /\ acct'[s] = acct[s]
        /\ key'[s] = key[s] /\ reply'[s] = reply[s] /\ seen'[s] = seen[s]
        /\ s \in contended => s \in contended'
        /\ s \in contended' => s \in contended
  BY DEF Reset
<1>4. StorageTypeOK' /\ StorageInv'
  BY <1>1 DEF TypeOK, StorageTypeOK, StorageInv, storageVars
<1>5. \A s \in R : ~InApi(s)' /\ ~Engaged(s)'
  BY <1>2 DEF InApi, Engaged, Apis, S3Apis, IAMApis
<1>6. TypeOK'
  <2>1. late' \subseteq Requests
    BY <1>1, RequestTyped DEF TypeOK
  <2>2. \A s \in Rpc :
          /\ pc'[s] \in Steps(call'[s].op)
          /\ pc'[s] = "InitClient" => call'[s].params # None
    <3>1. "idle" \in Steps("none")
      BY DEF Steps
    <3>2. \A s \in R : pc'[s] \in Steps(call'[s].op) /\ pc'[s] # "InitClient"
      BY <1>2, <3>1 DEF NoCall
    <3> QED  BY <1>1, <1>3, <3>2 DEF TypeOK
  <2>3. \A s \in Rpc :
          /\ InApi(s)' \/ (pc'[s] = "done" /\ reply'[s] = OK) => acct'[s] # None
          /\ pc'[s] \in {"idle", "GetBucket", "InitClient"} => acct'[s] = None
    BY <1>1, <1>2, <1>3, <1>5 DEF TypeOK, InApi
  <2>4. /\ pc' \in [Rpc -> Apis \union {"idle", "GetBucket", "InitClient", "done"}]
        /\ call' \in [Rpc -> Calls \union {NoCall}]
        /\ acct' \in [Rpc -> Account \union {None}]
        /\ attempt' \in [Rpc -> 1..MaxAttempts]
        /\ key' \in [Rpc -> Key \union {None}]
        /\ page' \in [Rpc -> SUBSET Key] /\ todo' \in [Rpc -> SUBSET Key]
        /\ reply' \in [Rpc -> Codes \union {NoReply, "Panic"}]
        /\ seen' \in [Rpc -> SUBSET Key]
        /\ contended' \subseteq Rpc
    BY <1>1, ProvisionerAssumption DEF TypeOK, Reset
  <2> QED  BY <1>1, <1>4, <2>1, <2>2, <2>3, <2>4 DEF TypeOK, clusterVars
<1>7. NoPanic'
  BY <1>1, <1>2, <1>3 DEF NoPanic, NoReply
<1>8. \A s \in Rpc : ContentionNoted(s)'
  <2> SUFFICES ASSUME NEW s \in Rpc, Engaged(s)', s \notin contended'
               PROVE  /\ \A t \in Rpc : InApi(t)' =>
                           ~Undoes(Request(t)', Request(s)')
                      /\ \A p \in late' : ~Undoes(p, Request(s)')
    BY DEF ContentionNoted, Undoes
  <2>1. s \notin R /\ Engaged(s) /\ s \notin contended
    BY <1>3, <1>5 DEF Engaged
  <2>2. /\ \A t \in Rpc : InApi(t) => ~Undoes(Request(t), Request(s))
        /\ \A p \in late : ~Undoes(p, Request(s))
    BY <1>1, <2>1 DEF ContentionNoted
  <2>3. \A t \in Rpc : InApi(t)' => ~Undoes(Request(t)', Request(s)')
    BY <1>3, <1>5, <2>1, <2>2 DEF InApi, Undoes, Request
  <2>4. \A p \in late' : ~Undoes(p, Request(s)')
    BY <1>3, <2>1, <2>2 DEF Undoes, Request
  <2> QED  BY <2>3, <2>4
<1>9. \A s \in Rpc : Promise(s)'
  <2>1. \A s \in Rpc \ R : Bystander(s) /\ Harmless(s)
    BY <1>1, <1>3 DEF Bystander, Harmless, storageVars
  <2>2. \A s \in R : Promise(s)'
    BY <1>2 DEF Promise, GrantProgress, IssuedKeyReturned, Succeeded
  <2> QED  BY <1>1, <1>4, <2>1, <2>2, PromiseKept
<1> QED  BY <1>4, <1>6, <1>7, <1>8, <1>9, IInvParts DEF Parts

\* The cluster and the workloads touch neither handlers nor IAM.
LEMMA ClusterKeeps ==
  ASSUME IInv, UNCHANGED <<handlerVars, late>>,
         UNCHANGED <<owner, users, policies, accessKeys, minted>>,
         nonEmpty' \subseteq Bucket,
         bucketObj' \in [Bucket -> Params \union {None}],
         secretAcct' \in [Params -> Account \union {None}]
  PROVE  IInv'
<1>1. /\ TypeOK /\ StorageInv /\ NoPanic
      /\ \A s \in Rpc : ContentionNoted(s)
      /\ \A s \in Rpc : Promise(s)
      /\ UNCHANGED <<pc, call, acct, attempt, key, page, todo, reply, seen, contended>>
  BY IInvParts DEF Parts, handlerVars
<1>2. StorageTypeOK' /\ StorageInv'
  BY <1>1 DEF TypeOK, StorageTypeOK, StorageInv
<1>3. TypeOK'
  BY <1>1, <1>2 DEF TypeOK, InApi
<1>4. NoPanic'
  BY <1>1 DEF NoPanic
<1>5. \A s \in Rpc : ContentionNoted(s)'
  BY <1>1, ContentionKept DEF InApi, Engaged
<1>6. \A s \in Rpc : Promise(s)'
  <2>1. \A s \in Rpc : Bystander(s) /\ Harmless(s)
    BY <1>1 DEF Bystander, Harmless
  <2> QED  BY <1>1, <1>2, <2>1, PromiseKept
<1> QED  BY <1>2, <1>3, <1>4, <1>5, <1>6, IInvParts DEF Parts

---------------------------------------------------------------------------

(***************************************************************************)
(* Every step keeps the invariant.                                         *)
(***************************************************************************)
LEMMA NextIInv == IInv /\ [Next]_vars => IInv'
<1> SUFFICES ASSUME IInv, [Next]_vars PROVE IInv'
  OBVIOUS
<1>1. ASSUME NEW r \in Rpc, Handle(r) PROVE IInv'
  BY <1>1, GetBucketKeeps, InitClientKeeps, CreateBucketKeeps,
     DeleteBucketKeeps, CreateUserKeeps, CreateS3WildcardInlinePolicyKeeps,
     CreateAccessKeyKeeps, EnsureUserExistsKeeps, DeleteInlinePolicyKeeps,
     ListAccessKeysKeeps, DeleteAccessKeyKeeps, DeleteUserKeeps,
     UnansweredKeeps
  DEF Handle
<1>2. ASSUME NEW r \in Rpc, Finish(r) PROVE IInv'
  BY <1>2, ResetKeeps DEF Finish
<1>3. ASSUME NEW r \in Rpc, NEW c \in Calls, Receive(r, c) PROVE IInv'
  BY <1>3, ReceiveKeeps
<1>4. ASSUME NEW q \in late, LateArrival(q) PROVE IInv'
  BY <1>4, LateArrivalKeeps
<1>5. CASE Crash
  <2>1. PICK Q \in SUBSET {Request(r) : r \in {s \in Rpc : InApi(s)}} :
          late' = late \union Q
    BY <1>5 DEF Crash
  <2>2. \A q \in late' : q \in late \/ \E s \in Rpc : InApi(s) /\ q = Request(s)
    BY <2>1
  <2> QED  BY <1>5, <2>2, ResetKeeps DEF Crash
<1>6. ASSUME NEW b \in Bucket, NEW p \in Params \union {None},
             BucketObjectChanges(b, p)
      PROVE  IInv'
  BY <1>6, ClusterKeeps DEF BucketObjectChanges, IInv, TypeOK, StorageTypeOK, storageVars
<1>7. ASSUME NEW p \in Params, NEW a \in Account \union {None},
             SecretChanges(p, a)
      PROVE  IInv'
  BY <1>7, ClusterKeeps DEF SecretChanges, IInv, TypeOK, StorageTypeOK, storageVars
<1>8. ASSUME NEW b \in Bucket, Workload(b) PROVE IInv'
  <2>1. nonEmpty' \subseteq Bucket
    BY <1>8 DEF Workload, WorkloadWrites, WorkloadEmpties, IInv, TypeOK, StorageTypeOK
  <2>2. UNCHANGED <<handlerVars, late, clusterVars>>
    BY <1>8 DEF Workload
  <2>3. UNCHANGED <<owner, users, policies, accessKeys, minted>>
    BY <1>8 DEF Workload, WorkloadWrites, WorkloadEmpties
  <2>4. /\ bucketObj' \in [Bucket -> Params \union {None}]
        /\ secretAcct' \in [Params -> Account \union {None}]
    BY <2>2 DEF clusterVars, IInv, TypeOK
  <2> QED  BY <2>1, <2>2, <2>3, <2>4, ClusterKeeps
<1>9. CASE UNCHANGED vars
  BY <1>9, ClusterKeeps
  DEF vars, storageVars, clusterVars, IInv, TypeOK, StorageTypeOK
<1> QED
  BY <1>1, <1>2, <1>3, <1>4, <1>5, <1>6, <1>7, <1>8, <1>9 DEF Next, Environment

(***************************************************************************)
(* The handlers, the provider and the cluster keep IInv, whatever calls    *)
(* run concurrently and whatever requests are lost, late or repeated.      *)
(***************************************************************************)
THEOREM Invariance == Spec => []IInv
BY InitIInv, NextIInv, PTL DEF Spec

(***************************************************************************)
(* No error of the provider, whatever its code and whichever step of a     *)
(* grant it comes from, leads DriverGrantBucketAccess to dereference       *)
(* credentials it did not get.                                             *)
(***************************************************************************)
THEOREM GrantNeverPanics == Spec => []NoPanic
<1>1. IInv => NoPanic
  BY DEF IInv
<1> QED  BY <1>1, Invariance, PTL

(***************************************************************************)
(* A revoke that reports success has killed, for good, every key that      *)
(* existed when it came in.                                                *)
(***************************************************************************)
THEOREM RevokeIsFinal == Spec => []RevokedKeysStayDead
<1>1. IInv => RevokedKeysStayDead
  BY DEF IInv
<1> QED  BY <1>1, Invariance, PTL

(***************************************************************************)
(* A grant that reports success has made a usable access, as long as no    *)
(* revoke, or lingering request of one, works against it.                  *)
(***************************************************************************)
THEOREM GrantHolds == Spec => []GrantedAccessHolds
<1>1. IInv => GrantedAccessHolds
  BY DEF IInv
<1> QED  BY <1>1, Invariance, PTL

(***************************************************************************)
(* A revoke that reports success has left nothing of the access, as long   *)
(* as no grant, or lingering request of one, works against it.             *)
(***************************************************************************)
THEOREM RevokeHolds == Spec => []RevokedAccessHolds
<1>1. IInv => RevokedAccessHolds
  BY DEF IInv
<1> QED  BY <1>1, Invariance, PTL

(***************************************************************************)
(* A creation that reports success has made the bucket the account's, as   *)
(* long as no deletion works against it.                                   *)
(***************************************************************************)
THEOREM CreateHolds == Spec => []CreatedBucketHolds
<1>1. IInv => CreatedBucketHolds
  BY DEF IInv
<1> QED  BY <1>1, Invariance, PTL

(***************************************************************************)
(* A deletion that reports success has ended the account's ownership of the *)
(* bucket, as long as no creation works against it.                        *)
(***************************************************************************)
THEOREM DeleteHolds == Spec => []DeletedBucketHolds
<1>1. IInv => DeletedBucketHolds
  BY DEF IInv
<1> QED  BY <1>1, Invariance, PTL

============================================================================
