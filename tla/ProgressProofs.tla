--------------------------- MODULE ProgressProofs ---------------------------
(***************************************************************************)
(* Proofs of the safety facts that make calls end and revokes get through: *)
(* every step of a handler leaves less to do, and a revoke has cleared     *)
(* away what it found before it deletes the user.                          *)
(***************************************************************************)
EXTENDS ProvisionerProofs

\* Handler s gets no further, and what happens at the provider cannot hurt it.
Waits(s) ==
  /\ Bystander(s) /\ Harmless(s)
  /\ page'[s] = page[s] /\ todo'[s] = todo[s]

\* It does not even repeat its request.
Still(s) == Waits(s) /\ attempt'[s] = attempt[s]

\* What a step may mean to handler s.
StepFor(s) ==
  \/ Handle(s)
  \/ pc[s] = "idle" /\ pc'[s] \in {"GetBucket", "InitClient"}
  \/ pc'[s] = "idle"
  \/ Still(s)

\* A step that leaves the provider's resources alone hurts nobody.
LEMMA QuietHarmless ==
  ASSUME UNCHANGED <<owner, users, policies, accessKeys, minted>>
  PROVE  \A s \in Rpc : Harmless(s)
BY DEF Harmless

\* While one handler moves, the others stand still.
LEMMA HandleOthers ==
  ASSUME IInv, NEW r \in Rpc, Handle(r)
  PROVE  \A s \in Rpc \ {r} : Still(s)
<1>1. CASE ApiStep(r)
  <2>1. \A s \in Rpc : Harmless(s)
    BY <1>1, ApiStepKeeps
  <2> QED  BY <1>1, <2>1 DEF Still, Waits, Bystander, ApiStep
<1>2. CASE GetBucket(r)
  <2>1. EarlyStep(r)
    BY <1>2, GetBucketEarly
  <2>2. \A s \in Rpc : Harmless(s)
    BY <2>1, QuietHarmless DEF EarlyStep, storageVars
  <2> QED  BY <2>1, <2>2 DEF Still, Waits, Bystander, EarlyStep
<1>3. CASE InitClient(r)
  <2>1. /\ UNCHANGED <<call, seen, storageVars, key, todo>>
        /\ \A s \in Rpc \ {r} : /\ acct'[s] = acct[s]
                                /\ s \in contended => s \in contended'
    BY <1>3 DEF InitClient, Proceed, IInv, TypeOK
  <2>2. \A s \in Rpc : Harmless(s)
    BY <2>1, QuietHarmless DEF storageVars
  <2>3. \A s \in Rpc \ {r} : /\ pc'[s] = pc[s] /\ attempt'[s] = attempt[s]
                             /\ page'[s] = page[s] /\ reply'[s] = reply[s]
    BY <1>3 DEF InitClient, Proceed, Return, Goto, IInv, TypeOK
  <2> QED  BY <2>1, <2>2, <2>3 DEF Still, Waits, Bystander
<1> QED  BY <1>1, <1>2, <1>3, HandleKinds

\* Calls that come in, end or die leave the others standing still.
LEMMA CallsOthers ==
  ASSUME IInv,
         \/ \E r \in Rpc, c \in Calls : Receive(r, c)
         \/ \E R \in SUBSET Rpc : Reset(R)
  PROVE  \A s \in Rpc : StepFor(s)
<1>1. ASSUME NEW r \in Rpc, NEW c \in Calls, Receive(r, c)
      PROVE  \A s \in Rpc : StepFor(s)
  <2>1. pc[r] = "idle" /\ pc'[r] \in {"GetBucket", "InitClient"}
    BY <1>1 DEF Receive, Goto, IInv, TypeOK
  <2>2. \A s \in Rpc : Harmless(s)
    BY <1>1, QuietHarmless DEF Receive, storageVars
  <2>3. \A s \in Rpc \ {r} : Still(s)
    BY <1>1, <2>2 DEF Still, Waits, Bystander, Receive, Goto, IInv, TypeOK
  <2> QED  BY <2>1, <2>3 DEF StepFor
<1>2. ASSUME NEW R \in SUBSET Rpc, Reset(R)
      PROVE  \A s \in Rpc : StepFor(s)
  <2>1. \A s \in Rpc : Harmless(s)
    BY <1>2, QuietHarmless DEF Reset, storageVars
  <2>2. \A s \in R : pc'[s] = "idle"
    BY <1>2 DEF Reset
  <2>3. \A s \in Rpc \ R : Still(s)
    BY <1>2, <2>1 DEF Still, Waits, Bystander, Reset
  <2> QED  BY <2>2, <2>3 DEF StepFor
<1> QED  BY <1>1, <1>2

\* What the provider and the cluster do on their own moves no handler.
LEMMA EnvironmentOthers ==
  ASSUME IInv, UNCHANGED handlerVars, \A s \in Rpc : Harmless(s)
  PROVE  \A s \in Rpc : StepFor(s)
BY DEF StepFor, Still, Waits, Bystander, handlerVars

(***************************************************************************)
(* Every step is, for every handler, a step of its own, the beginning or   *)
(* the end of its call, or none.                                           *)
(***************************************************************************)
LEMMA NextStepFor ==
  ASSUME IInv, [Next]_vars
  PROVE  \A s \in Rpc : StepFor(s)
<1>1. ASSUME NEW r \in Rpc, Handle(r) PROVE \A s \in Rpc : StepFor(s)
  BY <1>1, HandleOthers DEF StepFor
<1>2. ASSUME NEW r \in Rpc, Finish(r) PROVE \A s \in Rpc : StepFor(s)
  BY <1>2, CallsOthers DEF Finish
<1>3. ASSUME NEW r \in Rpc, NEW c \in Calls, Receive(r, c)
      PROVE  \A s \in Rpc : StepFor(s)
  BY <1>3, CallsOthers
<1>4. ASSUME NEW q \in late, LateArrival(q) PROVE \A s \in Rpc : StepFor(s)
  <2>1. \A s \in Rpc : Harmless(s)
    BY <1>4, LateHarmless
  <2> QED  BY <1>4, <2>1, EnvironmentOthers DEF LateArrival
<1>5. CASE Crash
  BY <1>5, CallsOthers DEF Crash
<1>6. CASE \/ \E b \in Bucket, p \in Params \union {None} : BucketObjectChanges(b, p)
           \/ \E p \in Params, a \in Account \union {None} : SecretChanges(p, a)
           \/ \E b \in Bucket : Workload(b)
           \/ UNCHANGED vars
  <2>1. UNCHANGED <<owner, users, policies, accessKeys, minted>>
    BY <1>6 DEF BucketObjectChanges, SecretChanges, Workload, WorkloadWrites,
                WorkloadEmpties, vars, storageVars
  <2>2. UNCHANGED handlerVars
    BY <1>6 DEF BucketObjectChanges, SecretChanges, Workload, vars
  <2> QED  BY <2>1, <2>2, QuietHarmless, EnvironmentOthers
<1> QED
  BY <1>1, <1>2, <1>3, <1>4, <1>5, <1>6 DEF Next, Environment

---------------------------------------------------------------------------

(***************************************************************************)
(* Every call ends: the measure of Advances goes down with each step.      *)
(***************************************************************************)

\* Any step but those of a call that has ended comes before its end.
LEMMA StepsLeftBeforeDone ==
  ASSUME NEW step \in Apis \union {"GetBucket", "InitClient"}
  PROVE  StepsLeft(step) \in 2..8
BY DEF StepsLeft, Apis, S3Apis, IAMApis

\* A handler that returns, with whatever code, has advanced.
LEMMA ReturnAdvances ==
  ASSUME IInv, NEW r \in Rpc, pc[r] \in Apis \union {"GetBucket", "InitClient"},
         NEW code, Return(r, code)
  PROVE  Advances(r)
<1>1. pc'[r] = "done"
  BY DEF Return, Goto, IInv, TypeOK
<1>2. StepsLeft("done") = 1
  BY DEF StepsLeft
<1> QED  BY <1>1, <1>2, StepsLeftBeforeDone DEF Advances

\* So has one that goes on to a step further down.
LEMMA GotoAdvances ==
  ASSUME IInv, NEW r \in Rpc, NEW step, Goto(r, step),
         StepsLeft(step) < StepsLeft(pc[r])
  PROVE  Advances(r)
BY DEF Advances, Goto, IInv, TypeOK

\* So has one whose request is refused for good.
LEMMA RefusedAdvances ==
  ASSUME IInv, NEW r \in Rpc, InApi(r), Refused(r) \/ Untolerated(r)
  PROVE  Advances(r)
BY ReturnAdvances DEF Refused, Untolerated, RefusedWith, Abort, InApi

\* The loop over access keys goes on with one key less, or ends.
LEMMA NextKeyAdvances ==
  ASSUME IInv, NEW r \in Rpc, pc[r] = "DeleteAccessKey", NextKey(r, todo[r])
  PROVE  Advances(r)
<1>1. CASE Goto(r, "DeleteUser")
  <2>1. StepsLeft("DeleteUser") < StepsLeft(pc[r])
    BY DEF StepsLeft
  <2> QED  BY <1>1, <2>1, GotoAdvances
<1>2. CASE \E k \in todo[r] : /\ Goto(r, "DeleteAccessKey")
                              /\ todo' = [todo EXCEPT ![r] = todo[r] \ {k}]
  <2>1. pc'[r] = pc[r]
    BY <1>2 DEF Goto, IInv, TypeOK
  <2>2. todo'[r] \subseteq todo[r] /\ todo'[r] # todo[r]
    BY <1>2 DEF IInv, TypeOK
  <2> QED  BY <2>1, <2>2 DEF Advances
<1> QED  BY <1>1, <1>2 DEF NextKey

\* Whatever a handler does next, and however it is answered, it advances.
LEMMA HandleAdvances ==
  ASSUME IInv, NEW r \in Rpc, Handle(r)
  PROVE  Advances(r)
<1>1. CASE GetBucket(r)
  <2>1. CASE Proceed(r, "InitClient")
    <3>1. StepsLeft("InitClient") < StepsLeft(pc[r])
      BY <1>1 DEF GetBucket, StepsLeft
    <3> QED  BY <2>1, <3>1, GotoAdvances DEF Proceed
  <2>2. CASE Return(r, "Internal")
    BY <1>1, <2>2, ReturnAdvances DEF GetBucket
  <2> QED  BY <1>1, <2>1, <2>2 DEF GetBucket
<1>2. CASE InitClient(r)
  <2>1. CASE Proceed(r, FirstApi(call[r].op))
    <3>1. call[r].op \in Actions
      BY <1>2 DEF InitClient, IInv, TypeOK, Steps, Calls, NoCall, Actions
    <3>2. FirstApi(call[r].op) \in {"CreateBucket", "DeleteBucket", "CreateUser",
                                    "GetUser"}
      BY <3>1 DEF FirstApi, Actions
    <3>3. StepsLeft(FirstApi(call[r].op)) < StepsLeft("InitClient")
      BY <3>2 DEF StepsLeft
    <3> QED  BY <1>2, <2>1, <3>3, GotoAdvances DEF Proceed, InitClient
  <2>2. CASE Return(r, "Internal")
    BY <1>2, <2>2, ReturnAdvances DEF InitClient
  <2> QED  BY <1>2, <2>1, <2>2 DEF InitClient
<1>3. CASE CreateBucket(r) \/ DeleteBucket(r) \/ CreateAccessKey(r) \/ DeleteUser(r)
  <2>1. InApi(r)
    BY <1>3 DEF CreateBucket, DeleteBucket, CreateAccessKey, DeleteUser, InApi,
                Apis, S3Apis, IAMApis
  <2>2. Return(r, OK) \/ Refused(r) \/ Untolerated(r)
    BY <1>3 DEF CreateBucket, DeleteBucket, CreateAccessKey, DeleteUser
  <2> QED  BY <2>1, <2>2, ReturnAdvances, RefusedAdvances DEF InApi
<1>4. CASE CreateUser(r) \/ CreateS3WildcardInlinePolicy(r) \/ EnsureUserExists(r)
           \/ DeleteInlinePolicy(r)
  <2>1. InApi(r)
    BY <1>4 DEF CreateUser, CreateS3WildcardInlinePolicy, EnsureUserExists,
                DeleteInlinePolicy, InApi, Apis, IAMApis
  <2>2. CASE Refused(r) \/ Untolerated(r)
    BY <2>1, <2>2, RefusedAdvances
  <2>3. CASE \/ pc[r] = "CreateUser" /\ Proceed(r, "PutUserPolicy")
             \/ pc[r] = "PutUserPolicy" /\ Proceed(r, "CreateAccessKey")
             \/ pc[r] = "GetUser" /\ Proceed(r, "DeleteUserPolicy")
             \/ pc[r] = "DeleteUserPolicy" /\ Proceed(r, "ListAccessKeys")
    <3>1. PICK step \in Apis : Proceed(r, step) /\ StepsLeft(step) < StepsLeft(pc[r])
      BY <2>3 DEF StepsLeft, Apis, IAMApis
    <3> QED  BY <3>1, GotoAdvances DEF Proceed
  <2> QED  BY <1>4, <2>2, <2>3 DEF CreateUser, CreateS3WildcardInlinePolicy,
                                   EnsureUserExists, DeleteInlinePolicy
<1>5. CASE ListAccessKeys(r)
  <2>1. InApi(r) /\ pc[r] = "ListAccessKeys"
    BY <1>5 DEF ListAccessKeys, InApi, Apis, IAMApis
  <2>2. CASE \E p : NextKey(r, p)
    <3>1. PICK step \in {"DeleteUser", "DeleteAccessKey"} : Goto(r, step)
      BY <2>2 DEF NextKey
    <3>2. StepsLeft(step) < StepsLeft(pc[r])
      BY <2>1 DEF StepsLeft
    <3> QED  BY <3>1, <3>2, GotoAdvances
  <2> QED  BY <1>5, <2>1, <2>2, RefusedAdvances DEF ListAccessKeys
<1>6. CASE DeleteAccessKey(r)
  <2>1. InApi(r) /\ pc[r] = "DeleteAccessKey"
    BY <1>6 DEF DeleteAccessKey, InApi, Apis, IAMApis
  <2> QED  BY <1>6, <2>1, NextKeyAdvances, RefusedAdvances DEF DeleteAccessKey
<1>7. CASE Unanswered(r)
  <2>1. CASE attempt' = [attempt EXCEPT ![r] = @ + 1] /\ UNCHANGED <<pc, todo>>
    <3>1. attempt[r] \in Nat /\ attempt'[r] = attempt[r] + 1
      BY <2>1, ProvisionerAssumption DEF IInv, TypeOK
    <3> QED  BY <2>1, <3>1 DEF Advances
  <2>2. CASE Abort(r, NonAPIError)
    BY <1>7, <2>2, ReturnAdvances DEF Abort, Unanswered, InApi
  <2> QED  BY <1>7, <2>1, <2>2 DEF Unanswered
<1> QED  BY <1>1, <1>2, <1>3, <1>4, <1>5, <1>6, <1>7 DEF Handle

\* A handler that stands still has not made a step.
LEMMA StillIsNoStep ==
  ASSUME IInv, NEW r \in Rpc, UNCHANGED <<pc[r], todo[r], attempt[r]>>
  PROVE  ~Handle(r)
<1>1. StepsLeft(pc[r]) \in 0..8 /\ attempt[r] \in Nat
  <2>1. attempt[r] \in Nat
    BY ProvisionerAssumption DEF IInv, TypeOK
  <2>2. pc[r] \in Apis \union {"idle", "GetBucket", "InitClient", "done"}
    BY DEF IInv, TypeOK
  <2>3. StepsLeft("done") = 1 /\ StepsLeft("idle") = 0
    BY DEF StepsLeft
  <2>4. StepsLeft(pc[r]) \in 0..8
    BY <2>2, <2>3, StepsLeftBeforeDone
  <2> QED  BY <2>1, <2>4
<1>2. ~Advances(r)
  BY <1>1 DEF Advances
<1> QED  BY <1>2, HandleAdvances

(***************************************************************************)
(* Whatever answers a call gets and whatever runs beside it, each step of  *)
(* its handler leaves less to do, and no other step sets it back.          *)
(***************************************************************************)
THEOREM CallsAdvance == Spec => HandlersAdvance
<1>1. IInv /\ [Next]_vars => NoStepBack
  <2> SUFFICES ASSUME IInv, [Next]_vars, NEW r \in Rpc, pc[r] # "idle"
               PROVE  \/ Advances(r)
                      \/ UNCHANGED <<pc[r], todo[r], attempt[r]>> /\ ~Handle(r)
    BY DEF NoStepBack
  <2>1. CASE Handle(r)
    BY <2>1, HandleAdvances
  <2>2. CASE Still(r)
    <3>1. UNCHANGED <<pc[r], todo[r], attempt[r]>>
      BY <2>2 DEF Still, Waits, Bystander
    <3> QED  BY <3>1, StillIsNoStep
  <2>3. CASE pc'[r] = "idle"
    <3>1. pc[r] \in Apis \union {"GetBucket", "InitClient", "done"}
      BY DEF IInv, TypeOK
    <3>2. StepsLeft("idle") = 0 /\ StepsLeft("done") = 1
      BY DEF StepsLeft
    <3> QED  BY <2>3, <3>1, <3>2, StepsLeftBeforeDone DEF Advances
  <2> QED  BY <2>1, <2>2, <2>3, NextStepFor DEF StepFor
<1> QED  BY <1>1, Invariance, PTL DEF Spec, HandlersAdvance

---------------------------------------------------------------------------

(***************************************************************************)
(* Revokes clear away what they find.                                      *)
(***************************************************************************)

Clearing == {"ListAccessKeys", "DeleteAccessKey", "DeleteUser"}

\* A revoke at these steps works on a user of its account.
LEMMA ClearingRevoke ==
  ASSUME IInv, NEW r \in Rpc, pc[r] \in Clearing
  PROVE  /\ InApi(r) /\ call[r].op = "RevokeBucketAccess"
         /\ acct[r] \in Account /\ call[r].user \in User /\ call[r].bucket \in Bucket
<1>1. InApi(r)
  BY DEF Clearing, InApi, Apis, IAMApis
<1> QED  BY <1>1, OpOfStep DEF Clearing, S3Apis

\* Elsewhere nothing is said of what is cleared.
LEMMA ClearedElsewhere ==
  ASSUME NEW r \in Rpc, pc'[r] \notin Clearing
  PROVE  Cleared(r)'
BY DEF Cleared, Clearing

\* Beside a revoke only fresh keys, and nothing without contention, is added.
LEMMA WaitingAdds ==
  ASSUME IInv, NEW r \in Rpc, Waits(r), pc[r] \in Clearing
  PROVE  LET a == acct[r]  u == call[r].user  b == call[r].bucket IN
         /\ minted \subseteq minted'
         /\ \A k \in Key : <<a, u, k>> \in accessKeys' =>
              <<a, u, k>> \in accessKeys \/ (k \notin minted /\ r \in contended)
         /\ <<a, u, b>> \in policies' => <<a, u, b>> \in policies \/ r \in contended
<1>1. CASE UNCHANGED <<owner, users, policies, accessKeys, minted>>
  BY <1>1
<1>2. CASE \E q \in Requests :
             /\ Frame(q)
             /\ Engaged(r) /\ r \notin contended => ~Undoes(q, Request(r))
  <2>1. PICK q \in Requests :
          /\ Frame(q)
          /\ Engaged(r) /\ r \notin contended => ~Undoes(q, Request(r))
    BY <1>2
  <2>2. Engaged(r)
    BY ClearingRevoke DEF InApi, Engaged
  <2>3. /\ r \notin contended /\ q.acct = acct[r] /\ q.user = call[r].user
        => q.op # "GrantBucketAccess"
    BY <2>1, <2>2, ClearingRevoke DEF Undoes, Opposite, Request, S3Apis
  <2> QED  BY <2>1, <2>3, ClearingRevoke DEF Frame
<1> QED  BY <1>1, <1>2 DEF Waits, Harmless

\* So a revoke that waits loses nothing of what it has cleared.
LEMMA WaitingCleared ==
  ASSUME IInv, NEW r \in Rpc, Waits(r), Cleared(r)
  PROVE  Cleared(r)'
<1>1. CASE pc[r] \notin Clearing
  BY <1>1, ClearedElsewhere DEF Waits, Bystander
<1>2. CASE pc[r] \in Clearing
  <2> DEFINE a == acct[r]  u == call[r].user  b == call[r].bucket
  <2>1. /\ minted \subseteq minted'
        /\ \A k \in Key : <<a, u, k>> \in accessKeys' =>
             <<a, u, k>> \in accessKeys \/ (k \notin minted /\ r \in contended)
        /\ <<a, u, b>> \in policies' => <<a, u, b>> \in policies \/ r \in contended
    BY <1>2, WaitingAdds
  <2>2. /\ pc'[r] = pc[r] /\ call'[r] = call[r] /\ acct'[r] = acct[r]
        /\ key'[r] = key[r] /\ seen'[r] = seen[r] /\ page'[r] = page[r]
        /\ todo'[r] = todo[r]
        /\ r \in contended => r \in contended'
    BY DEF Waits, Bystander
  <2>3. seen[r] \subseteq minted
    BY DEF IInv
  <2> DEFINE live == KeysOf(a, u)  live2 == KeysOf(acct[r], call[r].user)'
  <2>4. \A k \in live2 : k \in live \/ (k \notin minted /\ r \in contended)
    BY <2>1, <2>2 DEF KeysOf
  <2>5. pc'[r] \in Clearing /\ r \notin contended' => <<a, u, b>> \notin policies'
    BY <1>2, <2>1, <2>2 DEF Cleared, Clearing
  <2>6. CASE pc[r] = "ListAccessKeys"
    BY <2>2, <2>5, <2>6 DEF Cleared, Clearing
  <2>7. CASE pc[r] \in {"DeleteAccessKey", "DeleteUser"}
    <3>1. /\ page[r] \subseteq minted
          /\ page[r] \intersect live \subseteq
               (IF pc[r] = "DeleteAccessKey" THEN todo[r] \union {key[r]} ELSE {})
          /\ live \intersect seen[r] \subseteq page[r] \/ Cardinality(page[r]) = PageSize
          /\ \/ r \in contended
             \/ live \subseteq page[r] \/ Cardinality(page[r]) = PageSize
      BY <2>7 DEF Cleared
    <3>2. page[r] \intersect live2 \subseteq page[r] \intersect live
      BY <2>4, <3>1
    <3>3. live2 \intersect seen[r] \subseteq live \intersect seen[r]
      BY <2>3, <2>4
    <3>4. r \notin contended => live2 \subseteq live
      BY <2>4
    <3>5. page[r] \subseteq minted'
      BY <2>1, <3>1
    <3> HIDE DEF live, live2
    <3>6. /\ page[r] \intersect live2 \subseteq
               (IF pc[r] = "DeleteAccessKey" THEN todo[r] \union {key[r]} ELSE {})
          /\ live2 \intersect seen[r] \subseteq page[r] \/ Cardinality(page[r]) = PageSize
          /\ \/ r \in contended'
             \/ live2 \subseteq page[r] \/ Cardinality(page[r]) = PageSize
      BY <2>2, <3>1, <3>2, <3>3, <3>4
    <3> QED  BY <2>2, <2>5, <2>7, <3>5, <3>6 DEF Cleared, Clearing, live2
  <2> QED  BY <1>2, <2>6, <2>7 DEF Clearing
<1> QED  BY <1>1, <1>2

(***************************************************************************)
(* Taking up the next key, or none: what is left of the page is what the   *)
(* loop still has before it.                                               *)
(***************************************************************************)
LEMMA NextKeyCleared ==
  ASSUME IInv, NEW r \in Rpc, Rest, NEW left \in SUBSET Key, NextKey(r, left),
         page'[r] \subseteq minted',
         NEW live, live = KeysOf(acct[r], call[r].user)',
         page'[r] \intersect live \subseteq left,
         live \intersect seen[r] \subseteq page'[r] \/ Cardinality(page'[r]) = PageSize,
         \/ r \in contended
         \/ live \subseteq page'[r] \/ Cardinality(page'[r]) = PageSize,
         \/ r \in contended
         \/ <<acct[r], call[r].user, call[r].bucket>> \notin policies'
  PROVE  Cleared(r)'
<1>1. UNCHANGED <<call, acct, seen, contended>>
  BY DEF Rest
<1>2. \/ pc'[r] = "DeleteUser" /\ left = {}
      \/ pc'[r] = "DeleteAccessKey" /\ left = todo'[r] \union {key'[r]}
  <2>1. CASE left = {} /\ Goto(r, "DeleteUser")
    BY <2>1 DEF Goto, IInv, TypeOK
  <2>2. CASE \E k \in left : /\ Goto(r, "DeleteAccessKey")
                             /\ key' = [key EXCEPT ![r] = k]
                             /\ todo' = [todo EXCEPT ![r] = left \ {k}]
    <3>1. PICK k \in left : /\ Goto(r, "DeleteAccessKey")
                            /\ key' = [key EXCEPT ![r] = k]
                            /\ todo' = [todo EXCEPT ![r] = left \ {k}]
      BY <2>2
    <3>2. /\ pc'[r] = "DeleteAccessKey" /\ key'[r] = k
          /\ todo'[r] = left \ {k}
      BY <3>1 DEF Goto, IInv, TypeOK
    <3> QED  BY <3>2
  <2> QED  BY <2>1, <2>2 DEF NextKey
<1>3. page'[r] \intersect live \subseteq
        (IF pc'[r] = "DeleteAccessKey" THEN todo'[r] \union {key'[r]} ELSE {})
  BY <1>2
<1> QED  BY <1>1, <1>2, <1>3 DEF Cleared

\* DeleteInlinePolicy leaves no policy for the bucket, if it goes on at all.
LEMMA DeleteInlinePolicyCleared ==
  ASSUME IInv, NEW r \in Rpc, pc[r] = "DeleteUserPolicy",
         Executed(r) \/ Tolerated(r), Proceed(r, "ListAccessKeys"), Rest
  PROVE  Cleared(r)'
<1>1. <<acct[r], call[r].user, call[r].bucket>> \notin policies'
  <2>1. CASE Executed(r)
    BY <2>1 DEF Executed, Execute, Request
  <2>2. CASE Tolerated(r)
    <3>1. Outcome(Request(r)) = "NoSuchEntity" /\ policies' = policies
      BY <2>2, SpontaneousAssumption
      DEF Tolerated, Refusals, MissingResourceCodes, storageVars
    <3> QED  BY <3>1 DEF Outcome, Request, HasPolicy, OK
  <2> QED  BY <2>1, <2>2
<1>2. pc'[r] = "ListAccessKeys" /\ UNCHANGED <<call, acct>>
  BY DEF Proceed, Goto, Rest, IInv, TypeOK
<1> QED  BY <1>1, <1>2 DEF Cleared

\* The page listed holds every key of the user, or as many as fit.
LEMMA ListAccessKeysCleared ==
  ASSUME IInv, NEW r \in Rpc, Cleared(r), pc[r] = "ListAccessKeys", Rest,
         Executed(r), NEW p \in Pages(KeysOf(acct[r], call[r].user)),
         page' = [page EXCEPT ![r] = p], NextKey(r, p)
  PROVE  Cleared(r)'
<1> DEFINE live == KeysOf(acct[r], call[r].user)'
<1>1. UNCHANGED storageVars /\ UNCHANGED <<call, acct>>
  BY DEF Executed, Execute, Request, Rest
<1>2. live = KeysOf(acct[r], call[r].user)
  BY <1>1 DEF KeysOf, storageVars
<1>3. page'[r] = p /\ p \subseteq live
  BY <1>2 DEF IInv, TypeOK, Pages
<1>4. p = live \/ Cardinality(p) = PageSize
  BY <1>2 DEF Pages
<1>5. live \subseteq minted' /\ live \subseteq Key
  BY <1>1, <1>2, ClearingRevoke DEF Clearing, KeysOf, IInv, StorageInv, storageVars
<1>6. \/ r \in contended
      \/ <<acct[r], call[r].user, call[r].bucket>> \notin policies'
  BY <1>1 DEF Cleared, storageVars
<1> HIDE DEF live
<1> QED  BY <1>3, <1>4, <1>5, <1>6, NextKeyCleared DEF live

\* A key the loop has dealt with is dead, whoever killed it.
LEMMA DeleteAccessKeyCleared ==
  ASSUME IInv, NEW r \in Rpc, Cleared(r), pc[r] = "DeleteAccessKey", Rest,
         Executed(r) \/ Tolerated(r), NextKey(r, todo[r]), UNCHANGED page
  PROVE  Cleared(r)'
<1> DEFINE was == KeysOf(acct[r], call[r].user)
           live == KeysOf(acct[r], call[r].user)'
<1>1. UNCHANGED <<call, acct, contended, policies, minted>>
  BY DEF Executed, Execute, Tolerated, Request, Rest, storageVars
<1>2. live \subseteq was \ {key[r]}
  <2>1. CASE Executed(r)
    BY <1>1, <2>1 DEF Executed, Execute, Request, KeysOf
  <2>2. CASE Tolerated(r)
    <3>1. Outcome(Request(r)) = "NoSuchEntity" /\ accessKeys' = accessKeys
      BY <2>2, SpontaneousAssumption
      DEF Tolerated, Refusals, MissingResourceCodes, storageVars
    <3>2. <<acct[r], call[r].user, key[r]>> \notin accessKeys
      BY <3>1 DEF Outcome, Request, HasKey, OK
    <3> QED  BY <1>1, <3>1, <3>2 DEF KeysOf
  <2> QED  BY <2>1, <2>2
<1>3. /\ page[r] \subseteq minted
      /\ page[r] \intersect was \subseteq todo[r] \union {key[r]}
      /\ was \intersect seen[r] \subseteq page[r] \/ Cardinality(page[r]) = PageSize
      /\ \/ r \in contended
         \/ was \subseteq page[r] \/ Cardinality(page[r]) = PageSize
      /\ \/ r \in contended
         \/ <<acct[r], call[r].user, call[r].bucket>> \notin policies
  BY DEF Cleared
<1>4. todo[r] \in SUBSET Key
  BY DEF IInv, TypeOK
<1> HIDE DEF was, live
<1>5. /\ page'[r] \subseteq minted'
      /\ page'[r] \intersect live \subseteq todo[r]
      /\ live \intersect seen[r] \subseteq page'[r] \/ Cardinality(page'[r]) = PageSize
      /\ \/ r \in contended
         \/ live \subseteq page'[r] \/ Cardinality(page'[r]) = PageSize
      /\ \/ r \in contended
         \/ <<acct[r], call[r].user, call[r].bucket>> \notin policies'
  BY <1>1, <1>2, <1>3
<1> QED  BY <1>4, <1>5, NextKeyCleared DEF live

\* A handler that returns has nothing left to clear.
LEMMA ReturnCleared ==
  ASSUME IInv, NEW r \in Rpc, \/ \E code : Return(r, code)
                              \/ Refused(r) \/ Untolerated(r)
  PROVE  Cleared(r)'
<1>1. pc'[r] = "done"
  BY DEF Return, Refused, Untolerated, RefusedWith, Abort, Goto, IInv, TypeOK
<1> QED  BY <1>1, ClearedElsewhere DEF Clearing

\* Whatever a revoke does next, what it had to clear by then is cleared.
LEMMA HandleCleared ==
  ASSUME IInv, NEW r \in Rpc, Cleared(r), Handle(r)
  PROVE  Cleared(r)'
<1>1. CASE \E code : Return(r, code)
  BY <1>1, ReturnCleared
<1>2. CASE Refused(r) \/ Untolerated(r)
  BY <1>2, ReturnCleared
<1>3. CASE \E step \in Apis \union {"InitClient"} : step \notin Clearing /\ Proceed(r, step)
  BY <1>3, ClearedElsewhere DEF Proceed, Goto, IInv, TypeOK
<1>4. CASE GetBucket(r)
  BY <1>1, <1>3, <1>4 DEF GetBucket, Clearing
<1>5. CASE InitClient(r)
  <2>1. call[r].op \in Actions
    BY <1>5 DEF InitClient, IInv, TypeOK, Steps, Calls, NoCall, Actions
  <2>2. FirstApi(call[r].op) \in Apis \ Clearing
    BY <2>1 DEF FirstApi, Actions, Apis, S3Apis, IAMApis, Clearing
  <2> QED  BY <1>1, <1>3, <1>5, <2>2 DEF InitClient
<1>6. CASE CreateBucket(r) \/ DeleteBucket(r) \/ CreateAccessKey(r) \/ DeleteUser(r)
  BY <1>1, <1>2, <1>6 DEF CreateBucket, DeleteBucket, CreateAccessKey, DeleteUser
<1>7. CASE CreateUser(r) \/ CreateS3WildcardInlinePolicy(r) \/ EnsureUserExists(r)
  <2>1. {"PutUserPolicy", "CreateAccessKey", "DeleteUserPolicy"} \subseteq Apis \ Clearing
    BY DEF Apis, IAMApis, Clearing
  <2> QED  BY <1>2, <1>3, <1>7, <2>1
           DEF CreateUser, CreateS3WildcardInlinePolicy, EnsureUserExists
<1>8. CASE DeleteInlinePolicy(r)
  BY <1>2, <1>8, DeleteInlinePolicyCleared DEF DeleteInlinePolicy
<1>9. CASE ListAccessKeys(r)
  <2>1. CASE Refused(r)
    BY <1>2, <2>1
  <2>2. CASE \E p \in Pages(KeysOf(acct[r], call[r].user)) :
               page' = [page EXCEPT ![r] = p] /\ NextKey(r, p)
    <3>1. CASE Executed(r)
      BY <1>9, <2>2, <3>1, ListAccessKeysCleared DEF ListAccessKeys
    <3>2. CASE Refused(r)
      BY <2>1, <3>2
    <3> QED  BY <1>9, <3>1, <3>2 DEF ListAccessKeys
  <2> QED  BY <1>9, <2>1, <2>2 DEF ListAccessKeys
<1>10. CASE DeleteAccessKey(r)
  BY <1>2, <1>10, DeleteAccessKeyCleared DEF DeleteAccessKey
<1>11. CASE Unanswered(r)
  <2>1. CASE Abort(r, NonAPIError)
    BY <1>1, <2>1 DEF Abort
  <2>2. CASE UNCHANGED <<pc, key, page, todo, reply>>
    <3>1. UNCHANGED <<call, acct, seen, contended>> /\ UNCHANGED storageVars
      BY <1>11 DEF Unanswered
    <3>2. Harmless(r)
      BY <3>1, QuietHarmless DEF storageVars
    <3>3. Waits(r)
      BY <2>2, <3>1, <3>2 DEF Waits, Bystander
    <3> QED  BY <3>3, WaitingCleared
  <2> QED  BY <1>11, <2>1, <2>2 DEF Unanswered
<1> QED  BY <1>4, <1>5, <1>6, <1>7, <1>8, <1>9, <1>10, <1>11 DEF Handle

\* With IInv, what is cleared away stays cleared in every step of the system.
LEMMA NextCleared ==
  ASSUME IInv, RevokeClears, [Next]_vars
  PROVE  RevokeClears'
<1> SUFFICES ASSUME NEW r \in Rpc PROVE Cleared(r)'
  BY DEF RevokeClears
<1>1. Cleared(r)
  BY DEF RevokeClears
<1>2. CASE Handle(r)
  BY <1>1, <1>2, HandleCleared
<1>3. CASE pc'[r] \in {"idle", "GetBucket", "InitClient"}
  BY <1>3, ClearedElsewhere DEF Clearing
<1>4. CASE Still(r)
  BY <1>1, <1>4, WaitingCleared DEF Still
<1> QED  BY <1>2, <1>3, <1>4, NextStepFor DEF StepFor

(***************************************************************************)
(* A revoke that reaches DeleteUser has deleted the keys it listed, every  *)
(* key from before the call unless its page was full and, without          *)
(* contention, all there was to delete: an unfinished revoke has still     *)
(* brought the next one closer.                                            *)
(***************************************************************************)
THEOREM RevokesClear == Spec => []RevokeClears
<1>1. Init => RevokeClears
  BY DEF Init, RevokeClears, Cleared
<1>2. IInv /\ RevokeClears /\ [Next]_vars => RevokeClears'
  BY NextCleared
<1> QED  BY <1>1, <1>2, Invariance, PTL DEF Spec

\* A user that still has keys or policies when an undisturbed revoke comes to
\* delete it has more keys than one page holds, or a policy for another bucket.
ConflictsExplained ==
  \A r \in Rpc :
    pc[r] = "DeleteUser" /\ r \notin contended /\ Attached(Request(r)) =>
      \/ Cardinality(page[r]) = PageSize
      \/ \E b \in Bucket \ {call[r].bucket} : <<acct[r], call[r].user, b>> \in policies

(***************************************************************************)
(* The DeleteConflict that ends an undisturbed revoke comes of keys beyond *)
(* the page it listed, a full page of which are dead now, or of a policy   *)
(* for a bucket it was not about, which no repetition removes.             *)
(***************************************************************************)
THEOREM OnlyTheseConflicts == Spec => []ConflictsExplained
<1>1. RevokeClears => ConflictsExplained
  <2> SUFFICES ASSUME RevokeClears, NEW r \in Rpc, pc[r] = "DeleteUser",
                      r \notin contended, Attached(Request(r)),
                      Cardinality(page[r]) # PageSize
               PROVE  \E b \in Bucket \ {call[r].bucket} :
                        <<acct[r], call[r].user, b>> \in policies
    BY DEF ConflictsExplained
  <2>1. Cleared(r)
    BY DEF RevokeClears
  <2>2. KeysOf(acct[r], call[r].user) = {}
    BY <2>1 DEF Cleared
  <2>3. <<acct[r], call[r].user, call[r].bucket>> \notin policies
    BY <2>1 DEF Cleared
  <2> QED  BY <2>2, <2>3 DEF Attached, Request
<1> QED  BY <1>1, RevokesClear, PTL

============================================================================
