------------------------- MODULE CosiSidecarProofs -------------------------
(***************************************************************************)
(* Proofs of what the driver means to the objects that the sidecar drives  *)
(* through their lives, for any number of claims, accesses, goroutines,    *)
(* keys, faults and requests under way.                                    *)
(***************************************************************************)
EXTENDS CosiSidecar, ProvisionerProofs

---------------------------------------------------------------------------

\* Removing or adding at the provider only what an object was asked to have.
Moved ==
  \/ UNCHANGED <<owner, users, policies, accessKeys, minted>>
  \/ \E q \in Requests : Owned(q) /\ q.acct = TheAccount /\ Frame(q)

(***************************************************************************)
(* As long as the objects stay as they are, no request of theirs can break *)
(* what they were promised.                                                *)
(***************************************************************************)
LEMMA PromisesKept ==
  ASSUME SidecarInv, Moved, UNCHANGED <<phase, delivered>>
  PROVE  /\ DeliveredIssued' /\ BucketsReady'
         /\ DeliveredKeysDie' /\ GrantedStaysUsable'
<1>1. /\ DeliveredIssued /\ BucketsReady /\ DeliveredKeysDie /\ GrantedStaysUsable
  BY DEF SidecarInv
<1>2. CASE UNCHANGED <<owner, users, policies, accessKeys, minted>>
  BY <1>1, <1>2
  DEF DeliveredIssued, BucketsReady, DeliveredKeysDie, GrantedStaysUsable
<1>3. ASSUME NEW q \in Requests, Owned(q), q.acct = TheAccount, Frame(q)
      PROVE  /\ DeliveredIssued' /\ BucketsReady'
             /\ DeliveredKeysDie' /\ GrantedStaysUsable'
  <2>1. DeliveredIssued'
    BY <1>1, <1>3 DEF DeliveredIssued, Frame
  <2>2. BucketsReady'
    <3>1. \A b \in Claims : phase[b] = "ready" => owner'[b] = TheAccount
      <4> SUFFICES ASSUME NEW b \in Claims, phase[b] = "ready",
                          owner'[b] # owner[b]
                   PROVE  FALSE
        BY <1>1 DEF BucketsReady
      <4>1. owner[b] = TheAccount /\ b \in Bucket /\ TheAccount # None
        BY <1>1, SidecarAssumption, NoneAssumption DEF BucketsReady
      <4>2. q.op = "DeleteBucket" /\ q.bucket = b
        BY <1>3, <4>1 DEF Frame
      <4>3. ObjectOf(q) = b /\ phase[ObjectOf(q)] \in Ending
        BY <1>3, <4>2 DEF Owned, ObjectOf, S3Apis, NeedsBucketObject
      <4> QED  BY <4>3 DEF Ending
    <3> QED  BY <1>1, <3>1 DEF BucketsReady
  <2>3. DeliveredKeysDie'
    BY <1>1, <1>3, SidecarAssumption DEF DeliveredKeysDie, DeliveredIssued, Frame
  <2>4. GrantedStaysUsable'
    <3> SUFFICES ASSUME NEW u \in User, phase[u] = "ready"
                 PROVE  /\ <<TheAccount, u, TheBucket>> \in policies'
                        /\ \E k \in Key : /\ <<u, k>> \in delivered
                                          /\ <<TheAccount, u, k>> \in accessKeys'
      BY DEF GrantedStaysUsable
    <3>1. ~(q.op = "RevokeBucketAccess" /\ q.user = u)
      BY <1>3, NoneAssumption DEF Owned, ObjectOf, NeedsBucketObject, Ending
    <3>2. PICK k \in Key : <<u, k>> \in delivered /\ <<TheAccount, u, k>> \in accessKeys
      BY <1>1 DEF GrantedStaysUsable
    <3>3. <<TheAccount, u, k>> \in accessKeys'
      BY <1>3, <3>1, <3>2, SidecarAssumption DEF Frame
    <3>4. <<TheAccount, u, TheBucket>> \in policies'
      BY <1>1, <1>3, <3>1, SidecarAssumption DEF Frame, GrantedStaysUsable
    <3> QED  BY <3>2, <3>3, <3>4
  <2> QED  BY <2>1, <2>2, <2>3, <2>4
<1> QED  BY <1>2, <1>3 DEF Moved

\* Handlers stay with their calls and take at most the class's parameters and
\* account; contention and requests left behind come from these calls.
SameCalls ==
  /\ \A s \in Rpc :
       /\ pc'[s] # "idle" <=> pc[s] # "idle"
       /\ call'[s].op = call[s].op /\ call'[s].bucket = call[s].bucket
       /\ call'[s].user = call[s].user
       /\ call'[s].params \in {call[s].params, TheParams, None}
       /\ acct'[s] \in {acct[s], TheAccount}
       /\ s \in contended' =>
            \/ s \in contended
            \/ pc[s] # "idle" /\ phase[ObjectOf(call[s])] \in Ending
  /\ \A q \in late' : q \in late \/ \E s \in Rpc : InApi(s) /\ q = Request(s)
  /\ UNCHANGED <<seen, phase, awaiting, delivered>>

\* A request under way is owned by the object its call serves.
LEMMA RequestOwned ==
  ASSUME SidecarInv, NEW r \in Rpc, InApi(r)
  PROVE  Owned(Request(r)) /\ Request(r).acct = TheAccount
<1>1. pc[r] # "idle" /\ acct[r] # None
  BY DEF SidecarInv, IInv, TypeOK, InApi, Apis, S3Apis, IAMApis
<1>2. Owned(call[r]) /\ acct[r] = TheAccount
  BY <1>1 DEF SidecarInv, CallsOwned
<1> QED  BY <1>2 DEF Owned, ObjectOf, Request

\* So calls, requests and awaited calls stay owned.
LEMMA CallsKept ==
  ASSUME SidecarInv, SameCalls
  PROVE  CallsOwned' /\ LateOwned' /\ AwaitedOwned'
<1>1. \A s \in Rpc : ObjectOf(call'[s]) = ObjectOf(call[s])
  BY DEF SameCalls, ObjectOf
<1>2. \A s \in Rpc : Owned(call[s]) => Owned(call[s])'
  BY DEF SameCalls, Owned, ObjectOf
<1>3. CallsOwned'
  BY <1>1, <1>2 DEF SidecarInv, CallsOwned, SameCalls
<1>4. LateOwned'
  <2>1. \A q \in late' : Owned(q) /\ q.acct = TheAccount
    BY RequestOwned DEF SidecarInv, LateOwned, SameCalls
  <2> QED  BY <2>1 DEF LateOwned, Owned, SameCalls
<1>5. AwaitedOwned'
  BY <1>1 DEF SidecarInv, AwaitedOwned, SameCalls
<1> QED  BY <1>3, <1>4, <1>5

\* The objects do not notice what the driver does between two replies.
LEMMA RunKept ==
  ASSUME SidecarInv, IInv', SameCalls, Moved, UNCHANGED <<bucketObj, secretAcct>>
  PROVE  SidecarInv'
<1>1. CallsOwned' /\ LateOwned' /\ AwaitedOwned'
  BY CallsKept
<1>2. DeliveredIssued' /\ BucketsReady' /\ DeliveredKeysDie' /\ GrantedStaysUsable'
  BY PromisesKept DEF SameCalls
<1> QED  BY <1>1, <1>2 DEF SidecarInv, SameCalls

---------------------------------------------------------------------------

(***************************************************************************)
(* The steps of a handler.                                                 *)
(***************************************************************************)
LEMMA ApiStepMoved ==
  ASSUME SidecarInv, NEW r \in Rpc, ApiStep(r)
  PROVE  Moved
<1>1. TypeOK /\ StorageInv
  BY DEF SidecarInv, IInv
<1>2. CASE UNCHANGED storageVars
  BY <1>2 DEF Moved, storageVars
<1>3. CASE \E k \in Issuable(Request(r)) : Execute(Request(r), k)
  <2>1. Request(r) \in Requests /\ Frame(Request(r))
    BY <1>1, <1>3, RequestTyped, ExecuteFrame DEF ApiStep, TypeOK
  <2> QED  BY <2>1, RequestOwned DEF Moved, ApiStep
<1> QED  BY <1>2, <1>3 DEF ApiStep

\* A step waiting for the provider leaves the objects' promises alone.
LEMMA ApiStepOwned ==
  ASSUME SidecarInv, IInv', NEW r \in Rpc, ApiStep(r),
         UNCHANGED <<phase, awaiting, delivered>>
  PROVE  SidecarInv'
<1>1. IInv /\ TypeOK /\ StorageInv
  BY DEF SidecarInv, IInv
<1>2. SameCalls
  <2>1. \A s \in Rpc : pc'[s] # "idle" <=> pc[s] # "idle"
    BY DEF ApiStep, InApi, Apis, S3Apis, IAMApis
  <2>2. /\ UNCHANGED <<call, acct, seen, contended>> /\ InApi(r)
        /\ late' \subseteq late \union {Request(r)}
    BY DEF ApiStep
  <2> QED  BY <2>1, <2>2 DEF SameCalls
<1>3. Moved
  BY ApiStepMoved
<1> QED  BY <1>2, <1>3, RunKept DEF ApiStep, clusterVars

\* A handler that looks up its Bucket object finds the class's parameters.
LEMMA GetBucketOwned ==
  ASSUME SidecarInv, IInv', NEW r \in Rpc, GetBucket(r),
         UNCHANGED <<phase, awaiting, delivered>>
  PROVE  SidecarInv'
<1>1. TypeOK /\ EarlyStep(r)
  BY GetBucketEarly DEF SidecarInv, IInv
<1>2. call[r] \in Calls
  BY <1>1 DEF TypeOK, Steps, NoCall, GetBucket
<1>3. /\ call'[r].bucket = call[r].bucket /\ call'[r].user = call[r].user
      /\ call'[r].params \in {call[r].params, bucketObj[call[r].bucket]}
  <2>1. /\ DOMAIN call[r] = {"op", "bucket", "user", "params"}
        /\ call = [s \in Rpc |-> call[s]]
    BY <1>1, <1>2 DEF TypeOK, Calls
  <2> QED  BY <2>1 DEF GetBucket
<1>4. bucketObj[call[r].bucket] \in {TheParams, None}
  BY <1>2 DEF SidecarInv, Calls
<1>5. \A s \in Rpc : pc'[s] # "idle" <=> pc[s] # "idle"
  BY <1>1 DEF EarlyStep
<1>6. SameCalls
  BY <1>1, <1>3, <1>4, <1>5 DEF SameCalls, EarlyStep
<1>7. Moved
  BY <1>1 DEF Moved, EarlyStep, storageVars
<1> QED  BY <1>1, <1>6, <1>7, RunKept DEF EarlyStep, clusterVars

\* Operations that undo each other serve the same object, and one of them
\* means that it is being deleted.
LEMMA UndoneIsEnding ==
  ASSUME NEW q, NEW p, q.op \in Actions, p.op \in Actions,
         Owned(q), Owned(p), Undoes(q, p)
  PROVE  ObjectOf(q) = ObjectOf(p) /\ phase[ObjectOf(q)] \in Ending
<1>1. ObjectOf(q) = ObjectOf(p)
  BY NoneAssumption DEF Undoes, Opposite, Owned, ObjectOf, S3Apis, Actions
<1>2. NeedsBucketObject(q.op) \/ NeedsBucketObject(p.op)
  BY DEF Undoes, Opposite, NeedsBucketObject, Actions
<1> QED  BY <1>1, <1>2 DEF Owned

\* A handler that gets its client gets the class's account.
LEMMA InitClientOwned ==
  ASSUME SidecarInv, IInv', NEW r \in Rpc, InitClient(r),
         UNCHANGED <<phase, awaiting, delivered>>
  PROVE  SidecarInv'
<1>1. /\ IInv /\ TypeOK /\ pc[r] = "InitClient" /\ Owned(call[r])
      /\ UNCHANGED <<call, seen, storageVars, clusterVars, late>>
  BY DEF SidecarInv, IInv, CallsOwned, InitClient
<1>2. call[r] \in Calls /\ call[r].op \in Actions /\ call[r].params = TheParams
  BY <1>1 DEF TypeOK, Steps, Calls, NoCall, Actions, SidecarInv, CallsOwned
<1>3. secretAcct[call[r].params] = TheAccount
  BY <1>2 DEF SidecarInv
<1>4. Moved
  BY <1>1 DEF Moved, storageVars
<1>5. CASE Return(r, "Internal") /\ UNCHANGED <<acct, key, todo, contended>>
  <2>1. \A s \in Rpc : pc'[s] # "idle" <=> pc[s] # "idle"
    BY <1>1, <1>5 DEF Return, Goto, TypeOK
  <2>2. SameCalls
    BY <1>1, <1>5, <2>1 DEF SameCalls
  <2> QED  BY <1>1, <1>4, <2>2, RunKept DEF clusterVars
<1> DEFINE q == [Request(r) EXCEPT !.acct = TheAccount]
<1>6. CASE /\ acct' = [acct EXCEPT ![r] = TheAccount]
           /\ Proceed(r, FirstApi(call[r].op))
           /\ contended' = {s \in Rpc :
                IF s = r
                  THEN \/ \E t \in Rpc : InApi(t) /\ Undoes(q, Request(t))
                       \/ \E p \in late : Undoes(q, p)
                  ELSE s \in contended \/ (Engaged(s) /\ Undoes(q, Request(s)))}
  <2>1. /\ q.op = call[r].op /\ q.bucket = call[r].bucket /\ q.user = call[r].user
        /\ ObjectOf(q) = ObjectOf(call[r]) /\ Owned(q)
    BY <1>1 DEF Request, ObjectOf, Owned
  <2>2. \A s \in Rpc : pc'[s] # "idle" <=> pc[s] # "idle"
    <3>1. FirstApi(call[r].op) # "idle"
      BY <1>2 DEF FirstApi, Actions
    <3> QED  BY <1>1, <1>6, <3>1 DEF Proceed, Goto, TypeOK
  <2>3. \A s \in Rpc : acct'[s] \in {acct[s], TheAccount}
    BY <1>1, <1>6 DEF TypeOK
  <2>4. r \in contended' => phase[ObjectOf(call[r])] \in Ending
    <3>1. ASSUME NEW t \in Rpc, InApi(t), Undoes(q, Request(t))
          PROVE  phase[ObjectOf(call[r])] \in Ending
      <4>1. Request(t).op \in Actions /\ Owned(Request(t))
        BY <1>1, <3>1, RequestTyped, RequestOwned DEF Requests
      <4> QED  BY <1>2, <2>1, <3>1, <4>1, UndoneIsEnding
    <3>2. ASSUME NEW p \in late, Undoes(q, p)
          PROVE  phase[ObjectOf(call[r])] \in Ending
      <4>1. p.op \in Actions /\ Owned(p)
        BY <1>1, <3>2 DEF TypeOK, Requests, SidecarInv, LateOwned
      <4> QED  BY <1>2, <2>1, <3>2, <4>1, UndoneIsEnding
    <3> QED  BY <1>6, <3>1, <3>2
  <2>5. ASSUME NEW s \in Rpc \ {r}, s \in contended', s \notin contended
        PROVE  pc[s] # "idle" /\ phase[ObjectOf(call[s])] \in Ending
    <3>1. Engaged(s) /\ Undoes(q, Request(s))
      BY <1>6, <2>5
    <3>2. pc[s] # "idle"
      BY <3>1 DEF Engaged, Apis, S3Apis, IAMApis
    <3>3. call[s].op \in Actions /\ Owned(call[s])
      BY <1>1, <3>2 DEF TypeOK, Steps, Calls, NoCall, Actions, SidecarInv, CallsOwned
    <3>4. /\ Request(s).op \in Actions /\ Owned(Request(s))
          /\ ObjectOf(Request(s)) = ObjectOf(call[s])
      BY <3>3 DEF Request, Owned, ObjectOf
    <3> QED  BY <1>2, <2>1, <3>1, <3>2, <3>4, UndoneIsEnding
  <2>6. SameCalls
    BY <1>1, <2>2, <2>3, <2>4, <2>5 DEF SameCalls
  <2> QED  BY <1>1, <1>4, <2>6, RunKept DEF clusterVars
<1> QED  BY <1>3, <1>5, <1>6 DEF InitClient

\* Any step of a handler.
LEMMA HandleOwned ==
  ASSUME SidecarInv, IInv', NEW r \in Rpc, Handle(r),
         UNCHANGED <<phase, awaiting, delivered>>
  PROVE  SidecarInv'
<1>1. GetBucket(r) \/ InitClient(r) \/ ApiStep(r)
  BY HandleKinds DEF SidecarInv
<1> QED  BY <1>1, GetBucketOwned, InitClientOwned, ApiStepOwned

\* A request that its sender gave up on is owned, too.
LEMMA StragglerMoved ==
  ASSUME SidecarInv, Straggler
  PROVE  Moved
<1>1. PICK q \in late : LateArrival(q)
  BY DEF Straggler
<1>2. q \in Requests /\ StorageTypeOK /\ StorageInv /\ Owned(q) /\ q.acct = TheAccount
  BY DEF SidecarInv, IInv, TypeOK, LateOwned
<1>3. CASE UNCHANGED storageVars
  BY <1>3 DEF Moved, storageVars
<1>4. CASE \E k \in Issuable(q) : Execute(q, k)
  BY <1>2, <1>4, ExecuteFrame DEF Moved
<1> QED  BY <1>1, <1>3, <1>4 DEF LateArrival

\* So it disturbs nothing when it arrives.
LEMMA StragglerOwned ==
  ASSUME SidecarInv, IInv', Straggler
  PROVE  SidecarInv'
<1>1. PICK q \in late : LateArrival(q)
  BY DEF Straggler
<1>2. /\ UNCHANGED <<pc, call, acct, seen, contended, clusterVars>>
      /\ UNCHANGED <<phase, awaiting, delivered>>
      /\ late' \subseteq late
  BY <1>1 DEF Straggler, LateArrival, handlerVars
<1>3. Moved
  BY StragglerMoved
<1>4. SameCalls
  BY <1>2 DEF SameCalls
<1> QED  BY <1>2, <1>3, <1>4, RunKept DEF clusterVars

---------------------------------------------------------------------------

(***************************************************************************)
(* The life of an object only goes forward.                                *)
(***************************************************************************)
Onward ==
  \A o \in Objects : /\ phase[o] # "absent" => phase'[o] # "absent"
                     /\ phase[o] \in Ending => phase'[o] \in Ending

\* Some calls end, the others stay as they are.
Fewer ==
  /\ \A s \in Rpc :
       /\ pc'[s] # "idle" =>
            pc[s] # "idle" /\ call'[s] = call[s] /\ acct'[s] = acct[s]
       /\ s \in contended' => s \in contended /\ pc'[s] # "idle"
  /\ \A q \in late' : q \in late \/ \E s \in Rpc : InApi(s) /\ q = Request(s)

\* The object a call serves is one of the sidecar's.
LEMMA OwnedObject ==
  ASSUME NEW c, Owned(c)
  PROVE  ObjectOf(c) \in Objects
BY NoneAssumption DEF Owned, ObjectOf, Objects

\* Calls and requests stay owned when their objects move on.
LEMMA CallsOnward ==
  ASSUME SidecarInv, Onward, Fewer
  PROVE  CallsOwned' /\ LateOwned'
<1>1. \A c : Owned(c) =>
        /\ IF c.op \in S3Apis THEN c.bucket \in Claims /\ c.user = None
                              ELSE c.bucket = TheBucket /\ c.user \in User
        /\ phase'[ObjectOf(c)] # "absent"
        /\ NeedsBucketObject(c.op) => phase'[ObjectOf(c)] \in Ending
  BY OwnedObject DEF Owned, Onward
<1>2. CallsOwned'
  <2> SUFFICES ASSUME NEW s \in Rpc
               PROVE  /\ pc'[s] # "idle" => /\ Owned(call[s])'
                                            /\ call'[s].params \in {TheParams, None}
                                            /\ acct'[s] \in {TheAccount, None}
                      /\ s \in contended' =>
                           pc'[s] # "idle" /\ phase'[ObjectOf(call'[s])] \in Ending
    BY DEF CallsOwned, ObjectOf
  <2>1. /\ pc[s] # "idle" => /\ Owned(call[s])
                             /\ call[s].params \in {TheParams, None}
                             /\ acct[s] \in {TheAccount, None}
        /\ s \in contended => phase[ObjectOf(call[s])] \in Ending
    BY DEF SidecarInv, CallsOwned
  <2>2. ASSUME pc'[s] # "idle"
        PROVE  /\ Owned(call[s])' /\ call'[s].params \in {TheParams, None}
               /\ acct'[s] \in {TheAccount, None}
    BY <1>1, <2>1, <2>2 DEF Fewer, Owned, ObjectOf
  <2>3. ASSUME s \in contended'
        PROVE  pc'[s] # "idle" /\ phase'[ObjectOf(call'[s])] \in Ending
    <3>1. /\ pc'[s] # "idle" /\ pc[s] # "idle" /\ call'[s] = call[s]
          /\ s \in contended
      BY <2>3 DEF Fewer
    <3> QED  BY <2>1, <3>1, OwnedObject DEF Onward
  <2> QED  BY <2>2, <2>3
<1>3. LateOwned'
  <2>1. \A q \in late' : Owned(q) /\ q.acct = TheAccount
    BY RequestOwned DEF SidecarInv, LateOwned, Fewer
  <2> QED  BY <1>1, <2>1 DEF LateOwned, Owned, ObjectOf
<1> QED  BY <1>2, <1>3

(***************************************************************************)
(* The process dies: nothing is awaited any more, and the requests it was  *)
(* waiting in may linger.                                                  *)
(***************************************************************************)
LEMMA DriverCrashOwned ==
  ASSUME SidecarInv, IInv', DriverCrash
  PROVE  SidecarInv'
<1>1. /\ Reset(Rpc) /\ UNCHANGED <<storageVars, clusterVars, phase, delivered>>
      /\ awaiting' = [o \in Objects |-> None]
      /\ \A q \in late' : q \in late \/ \E s \in Rpc : InApi(s) /\ q = Request(s)
  BY DEF DriverCrash, Crash, Reset
<1>2. \A s \in Rpc : pc'[s] = "idle" /\ s \notin contended'
  BY <1>1 DEF Reset
<1>3. Onward /\ Fewer
  <2>1. Onward
    BY <1>1 DEF Onward
  <2>2. Fewer
    BY <1>1, <1>2 DEF Fewer
  <2> QED  BY <2>1, <2>2
<1>4. CallsOwned' /\ LateOwned'
  BY <1>3, CallsOnward
<1>5. AwaitedOwned' /\ awaiting' \in [Objects -> Rpc \union {None}]
  BY <1>1 DEF AwaitedOwned
<1>6. DeliveredIssued' /\ BucketsReady' /\ DeliveredKeysDie' /\ GrantedStaysUsable'
  BY <1>1, PromisesKept DEF Moved, storageVars
<1> QED  BY <1>1, <1>4, <1>5, <1>6 DEF SidecarInv, clusterVars

\* The sidecar stops waiting; everything else is as it was.
LEMMA HangUpOwned ==
  ASSUME SidecarInv, IInv', NEW o \in Objects, HangUp(o)
  PROVE  SidecarInv'
<1>1. /\ UNCHANGED <<storageVars, pc, call, acct, seen, contended, clusterVars,
                     late, phase, delivered>>
      /\ awaiting' = [awaiting EXCEPT ![o] = None]
  BY DEF HangUp, vars, handlerVars
<1>2. Onward /\ Fewer
  <2>1. Onward
    BY <1>1 DEF Onward
  <2>2. Fewer
    BY <1>1 DEF Fewer, SidecarInv, CallsOwned
  <2> QED  BY <2>1, <2>2
<1>3. CallsOwned' /\ LateOwned'
  BY <1>2, CallsOnward
<1>4. /\ awaiting' \in [Objects -> Rpc \union {None}]
      /\ \A p \in Objects : awaiting'[p] # None => awaiting'[p] = awaiting[p]
  BY <1>1 DEF SidecarInv
<1>5. AwaitedOwned'
  BY <1>1, <1>4 DEF SidecarInv, AwaitedOwned, ObjectOf
<1>6. DeliveredIssued' /\ BucketsReady' /\ DeliveredKeysDie' /\ GrantedStaysUsable'
  BY <1>1, PromisesKept DEF Moved, storageVars
<1> QED  BY <1>1, <1>3, <1>4, <1>5, <1>6 DEF SidecarInv, clusterVars

---------------------------------------------------------------------------

(***************************************************************************)
(* A call ends.                                                            *)
(***************************************************************************)
LEMMA FinishFewer ==
  ASSUME SidecarInv, NEW r \in Rpc, Finish(r)
  PROVE  /\ Fewer /\ UNCHANGED <<storageVars, clusterVars>>
         /\ \A s \in Rpc \ {r} :
              pc'[s] = pc[s] /\ call'[s] = call[s] /\ seen'[s] = seen[s]
<1>1. /\ \A s \in Rpc \ {r} : /\ pc'[s] = pc[s] /\ call'[s] = call[s]
                              /\ seen'[s] = seen[s] /\ acct'[s] = acct[s]
      /\ pc'[r] = "idle" /\ contended' = contended \ {r}
      /\ UNCHANGED <<storageVars, clusterVars, late>>
  BY DEF Finish, Reset
<1>2. \A s \in Rpc : s \in contended => pc[s] # "idle"
  BY DEF SidecarInv, CallsOwned
<1> QED  BY <1>1, <1>2 DEF Fewer

\* What is awaited after the reply was awaited before, and is another call.
LEMMA StillAwaited ==
  ASSUME SidecarInv, NEW r \in Rpc, Finish(r),
         awaiting' \in [Objects -> Rpc \union {None}],
         \A p \in Objects : awaiting'[p] # None =>
           /\ awaiting'[p] = awaiting[p] /\ awaiting[p] # r
           /\ \A k \in Key : <<p, k>> \in delivered' => <<p, k>> \in delivered
  PROVE  AwaitedOwned'
<1> SUFFICES ASSUME NEW p \in Objects, NEW s \in Rpc, s = awaiting'[p],
                    awaiting'[p] # None
             PROVE  /\ pc'[s] # "idle" /\ ObjectOf(call'[s]) = p
                    /\ call'[s].op = "RevokeBucketAccess" =>
                         \A k \in Key : <<p, k>> \in delivered' => k \in seen'[s]
  BY DEF AwaitedOwned, ObjectOf
<1>1. s = awaiting[p] /\ s \in Rpc \ {r}
  OBVIOUS
<1>2. /\ pc[s] # "idle" /\ ObjectOf(call[s]) = p
      /\ call[s].op = "RevokeBucketAccess" =>
           \A k \in Key : <<p, k>> \in delivered => k \in seen[s]
  BY <1>1 DEF SidecarInv, AwaitedOwned
<1>3. pc'[s] = pc[s] /\ call'[s] = call[s] /\ seen'[s] = seen[s]
  BY <1>1, FinishFewer
<1> QED  BY <1>2, <1>3

\* What a success reply means for the object it was awaited for.
LEMMA SuccessMeans ==
  ASSUME SidecarInv, NEW r \in Rpc, pc[r] = "done", reply[r] = OK,
         NEW o, o = ObjectOf(call[r])
  PROVE  /\ o \in Objects /\ phase[o] # "absent"
         /\ call[r].op = "CreateBucket" /\ phase[o] = "wanted" =>
              o \in Claims /\ owner[o] = TheAccount
         /\ call[r].op = "GrantBucketAccess" =>
              /\ o \in User /\ key[r] \in Key /\ key[r] \in minted
              /\ phase[o] = "wanted" =>
                   /\ <<TheAccount, o, TheBucket>> \in policies
                   /\ <<TheAccount, o, key[r]>> \in accessKeys
         /\ call[r].op = "RevokeBucketAccess" =>
              /\ o \in User /\ o = call[r].user
              /\ phase[o] \in Ending /\ acct[r] = TheAccount
         /\ call[r].op = "DeleteBucket" => o \in Claims /\ phase[o] \in Ending
<1>1. /\ Owned(call[r]) /\ acct[r] = TheAccount
      /\ r \in contended => phase[o] \in Ending
  BY DEF SidecarInv, CallsOwned, IInv, TypeOK
<1>2. o \in Objects /\ phase[o] # "absent"
  BY <1>1, OwnedObject DEF Owned
<1>3. call[r].op \in S3Apis => o = call[r].bucket /\ o \in Claims
  BY <1>1 DEF Owned, ObjectOf
<1>4. call[r].op \notin S3Apis =>
        o = call[r].user /\ o \in User /\ call[r].bucket = TheBucket
  BY <1>1, NoneAssumption DEF Owned, ObjectOf
<1>5. phase[o] = "wanted" => r \notin contended
  BY <1>1 DEF Ending
<1>6. ASSUME call[r].op = "CreateBucket", phase[o] = "wanted"
      PROVE  o \in Claims /\ owner[o] = TheAccount
  BY <1>1, <1>3, <1>5, <1>6
  DEF SidecarInv, IInv, CreatedBucketHolds, Succeeded, S3Apis
<1>7. ASSUME call[r].op = "GrantBucketAccess"
      PROVE  /\ o \in User /\ key[r] \in Key /\ key[r] \in minted
             /\ phase[o] = "wanted" =>
                  /\ <<TheAccount, o, TheBucket>> \in policies
                  /\ <<TheAccount, o, key[r]>> \in accessKeys
  <2>1. o = call[r].user /\ o \in User /\ call[r].bucket = TheBucket
    BY <1>4, <1>7 DEF S3Apis
  <2>2. Succeeded(r, "GrantBucketAccess")
    BY <1>7 DEF Succeeded
  <2>3. key[r] \in minted /\ minted \subseteq Key
    BY <2>2 DEF SidecarInv, IInv, IssuedKeyReturned, TypeOK, StorageTypeOK
  <2>4. phase[o] = "wanted" =>
          /\ <<acct[r], call[r].user, call[r].bucket>> \in policies
          /\ <<acct[r], call[r].user, key[r]>> \in accessKeys
    BY <1>5, <2>2 DEF SidecarInv, IInv, GrantedAccessHolds
  <2> QED  BY <1>1, <2>1, <2>3, <2>4
<1>8. NeedsBucketObject(call[r].op) => phase[o] \in Ending
  BY <1>1 DEF Owned
<1> QED
  BY <1>1, <1>2, <1>3, <1>4, <1>6, <1>7, <1>8 DEF S3Apis, NeedsBucketObject

\* How a reply moves its object on.
LEMMA PhaseMoves ==
  ASSUME NEW r \in Rpc, NEW p \in Phases,
         reply[r] = OK /\ NeedsBucketObject(call[r].op) => p \in Ending,
         NEW n, n = PhaseAfter(r, p)
  PROVE  /\ n \in Phases
         /\ \/ n = p
            \/ n = "ready" /\ p = "wanted"
                 /\ reply[r] = OK /\ ~NeedsBucketObject(call[r].op)
            \/ n = "gone" /\ p \in Ending
                 /\ reply[r] = OK /\ NeedsBucketObject(call[r].op)
            \/ n = "failed" /\ p = "wanted" /\ call[r].op = "CreateBucket"
         /\ reply[r] = OK /\ p = "wanted" /\ ~NeedsBucketObject(call[r].op) =>
              n = "ready"
BY DEF PhaseAfter, Phases, Ending, OK

\* The reply that its object waits for.
LEMMA AwaitedReplyOwned ==
  ASSUME SidecarInv, IInv', NEW r \in Rpc, Finish(r),
         NEW o, o = ObjectOf(call[r]), awaiting[o] = r,
         awaiting' = [awaiting EXCEPT ![o] = None],
         phase' = [phase EXCEPT ![o] = PhaseAfter(r, phase[o])],
         delivered' = IF Succeeded(r, "GrantBucketAccess") /\ phase[o] # "gone"
                        THEN delivered \union {<<o, key[r]>>} ELSE delivered
  PROVE  SidecarInv'
<1> DEFINE op == call[r].op
           p  == phase[o]
           n  == PhaseAfter(r, phase[o])
<1>1. /\ pc[r] = "done" /\ Owned(call[r])
      /\ phase \in [Objects -> Phases] /\ awaiting \in [Objects -> Rpc \union {None}]
      /\ DeliveredIssued /\ BucketsReady /\ DeliveredKeysDie /\ GrantedStaysUsable
  BY DEF SidecarInv, CallsOwned, Finish
<1>2. /\ o \in Objects /\ p \in Phases /\ p # "absent"
      /\ NeedsBucketObject(op) => p \in Ending
  BY <1>1, OwnedObject DEF Owned
<1>3. op \in Actions
  BY <1>1 DEF SidecarInv, IInv, TypeOK, Steps, Calls, NoCall, Actions
<1>4. /\ Fewer /\ UNCHANGED <<storageVars, clusterVars>>
  BY FinishFewer
<1>5. /\ n \in Phases
      /\ \/ n = p
         \/ n = "ready" /\ p = "wanted" /\ reply[r] = OK /\ ~NeedsBucketObject(op)
         \/ n = "gone" /\ p \in Ending /\ reply[r] = OK /\ NeedsBucketObject(op)
         \/ n = "failed" /\ p = "wanted" /\ op = "CreateBucket"
      /\ reply[r] = OK /\ p = "wanted" /\ ~NeedsBucketObject(op) => n = "ready"
  BY <1>2, PhaseMoves
<1>6. /\ phase' \in [Objects -> Phases] /\ phase'[o] = n
      /\ \A x \in Objects \ {o} : phase'[x] = phase[x]
  BY <1>1, <1>2, <1>5
<1> HIDE DEF n
<1>7. CallsOwned' /\ LateOwned'
  <2>1. Onward
    BY <1>2, <1>5, <1>6 DEF Onward, Ending
  <2> QED  BY <1>4, <2>1, CallsOnward
<1>8. \A u \in User, k \in Key : <<u, k>> \in delivered' =>
        \/ <<u, k>> \in delivered
        \/ /\ u = o /\ k = key[r] /\ p # "gone"
           /\ reply[r] = OK /\ op = "GrantBucketAccess"
  BY <1>1 DEF Succeeded
<1>9. reply[r] = OK =>
        /\ op = "CreateBucket" /\ p = "wanted" =>
             o \in Claims /\ owner[o] = TheAccount
        /\ op = "GrantBucketAccess" =>
             /\ o \in User /\ key[r] \in Key /\ key[r] \in minted
             /\ p = "wanted" =>
                  /\ <<TheAccount, o, TheBucket>> \in policies
                  /\ <<TheAccount, o, key[r]>> \in accessKeys
        /\ op = "RevokeBucketAccess" =>
             /\ o \in User /\ o = call[r].user
             /\ p \in Ending /\ acct[r] = TheAccount
        /\ op = "DeleteBucket" => o \in Claims /\ p \in Ending
  BY <1>1, SuccessMeans
<1>10. User \intersect Claims = {} /\ User \subseteq Objects /\ Claims \subseteq Objects
  BY SidecarAssumption DEF Objects
<1>11. /\ awaiting' \in [Objects -> Rpc \union {None}] /\ AwaitedOwned'
       /\ delivered' \subseteq User \X Key
  <2>1. delivered' \subseteq User \X Key
    <3>1. delivered \subseteq User \X Key
      BY DEF SidecarInv
    <3>2. CASE Succeeded(r, "GrantBucketAccess")
      BY <1>9, <3>1, <3>2 DEF Succeeded
    <3>3. CASE ~Succeeded(r, "GrantBucketAccess")
      BY <3>1, <3>3
    <3> QED  BY <3>2, <3>3
  <2>2. awaiting' \in [Objects -> Rpc \union {None}]
    BY <1>1
  <2>3. ASSUME NEW x \in Objects, awaiting'[x] # None
        PROVE  /\ awaiting'[x] = awaiting[x] /\ awaiting[x] # r
               /\ \A k \in Key : <<x, k>> \in delivered' => <<x, k>> \in delivered
    <3>1. x # o /\ awaiting'[x] = awaiting[x]
      BY <1>1, <1>2, <2>3
    <3>2. awaiting[x] # r
      BY <2>3, <3>1 DEF SidecarInv, AwaitedOwned
    <3>3. \A k \in Key : <<x, k>> \in delivered' => <<x, k>> \in delivered
      BY <3>1
    <3> QED  BY <3>1, <3>2, <3>3
  <2> QED  BY <2>1, <2>2, <2>3, StillAwaited
<1>12. DeliveredIssued'
  <2> SUFFICES ASSUME NEW u \in User, NEW k \in Key, <<u, k>> \in delivered'
               PROVE  k \in minted /\ phase'[u] \notin {"absent", "wanted"}
    BY <1>4 DEF DeliveredIssued, storageVars
  <2>1. CASE <<u, k>> \in delivered
    <3>1. k \in minted /\ phase[u] \notin {"absent", "wanted"}
      BY <1>1, <2>1 DEF DeliveredIssued
    <3> QED  BY <1>5, <1>6, <1>10, <3>1
  <2>2. CASE /\ u = o /\ k = key[r] /\ reply[r] = OK /\ op = "GrantBucketAccess"
    <3>1. k \in minted /\ ~NeedsBucketObject(op)
      BY <1>9, <2>2 DEF NeedsBucketObject
    <3> QED  BY <1>2, <1>5, <1>6, <2>2, <3>1
  <2> QED  BY <1>8, <2>1, <2>2
<1>13. BucketsReady'
  <2>1. ASSUME NEW b \in Claims, phase'[b] = "ready"
        PROVE  owner[b] = TheAccount
    <3>1. CASE phase[b] = "ready"
      BY <1>1, <3>1 DEF BucketsReady
    <3>2. CASE phase[b] # "ready"
      <4>1. b = o /\ p = "wanted" /\ reply[r] = OK /\ ~NeedsBucketObject(op)
        BY <1>5, <1>6, <1>10, <2>1, <3>2
      <4>2. op = "CreateBucket"
        BY <1>3, <1>9, <1>10, <4>1 DEF Actions, NeedsBucketObject
      <4> QED  BY <1>9, <4>1, <4>2
    <3> QED  BY <3>1, <3>2
  <2>2. ASSUME NEW u \in User, phase'[u] \notin {"absent", "gone"},
               TheBucket \in Claims
        PROVE  phase'[TheBucket] = "ready"
    <3>1. phase[u] \notin {"absent", "gone"}
      BY <1>2, <1>5, <1>6, <1>10, <2>2
    <3>2. phase[TheBucket] = "ready"
      BY <1>1, <2>2, <3>1 DEF BucketsReady
    <3> QED  BY <1>5, <1>6, <1>10, <2>2, <3>2 DEF Ending
  <2> QED  BY <1>4, <2>1, <2>2 DEF BucketsReady, storageVars
<1>14. DeliveredKeysDie'
  <2> SUFFICES ASSUME NEW u \in User, NEW k \in Key, <<u, k>> \in delivered',
                      phase'[u] = "gone"
               PROVE  <<TheAccount, u, k>> \notin accessKeys
    BY <1>4 DEF DeliveredKeysDie, storageVars
  <2>1. CASE phase[u] = "gone"
    <3>1. <<u, k>> \in delivered
      BY <1>8, <2>1
    <3> QED  BY <1>1, <2>1, <3>1 DEF DeliveredKeysDie
  <2>2. CASE phase[u] # "gone"
    <3>1. u = o /\ reply[r] = OK /\ NeedsBucketObject(op)
      BY <1>5, <1>6, <1>10, <2>2
    <3>2. op = "RevokeBucketAccess" /\ acct[r] = TheAccount /\ u = call[r].user
      BY <1>9, <1>10, <3>1 DEF NeedsBucketObject
    <3>3. <<o, k>> \in delivered
      BY <1>8, <3>1, <3>2
    <3>4. k \in seen[r]
      <4>1. awaiting[o] # None
        BY SidecarAssumption
      <4> QED  BY <1>2, <3>2, <3>3, <4>1 DEF SidecarInv, AwaitedOwned
    <3>5. Succeeded(r, "RevokeBucketAccess")
      BY <1>1, <3>1, <3>2 DEF Succeeded
    <3> QED  BY <3>2, <3>4, <3>5 DEF SidecarInv, IInv, RevokedKeysStayDead
  <2> QED  BY <2>1, <2>2
<1>15. GrantedStaysUsable'
  <2> SUFFICES ASSUME NEW u \in User, phase'[u] = "ready"
               PROVE  /\ <<TheAccount, u, TheBucket>> \in policies
                      /\ \E k \in Key : /\ <<u, k>> \in delivered'
                                        /\ <<TheAccount, u, k>> \in accessKeys
    BY <1>4 DEF GrantedStaysUsable, storageVars
  <2>1. CASE phase[u] = "ready"
    BY <1>1, <2>1 DEF GrantedStaysUsable
  <2>2. CASE phase[u] # "ready"
    <3>1. u = o /\ p = "wanted" /\ reply[r] = OK /\ ~NeedsBucketObject(op)
      BY <1>5, <1>6, <1>10, <2>2
    <3>2. op = "GrantBucketAccess"
      BY <1>3, <1>9, <1>10, <3>1 DEF Actions, NeedsBucketObject
    <3>3. <<u, key[r]>> \in delivered'
      BY <1>1, <3>1, <3>2 DEF Succeeded
    <3> QED  BY <1>9, <3>1, <3>2, <3>3
  <2> QED  BY <2>1, <2>2
<1> QED
  BY <1>4, <1>6, <1>7, <1>11, <1>12, <1>13, <1>14, <1>15 DEF SidecarInv, clusterVars

\* A reply nobody waits for ends its call and changes nothing else.
LEMMA ReplyOwned ==
  ASSUME SidecarInv, IInv', NEW r \in Rpc, Reply(r)
  PROVE  SidecarInv'
<1> DEFINE o == ObjectOf(call[r])
<1>1. Finish(r)
  BY DEF Reply
<1>2. CASE awaiting[o] # r /\ UNCHANGED <<phase, awaiting, delivered>>
  <2>1. Fewer /\ UNCHANGED <<storageVars, clusterVars>>
    BY <1>1, FinishFewer
  <2>2. CallsOwned' /\ LateOwned'
    <3>1. Onward
      BY <1>2 DEF Onward
    <3> QED  BY <2>1, <3>1, CallsOnward
  <2>3. AwaitedOwned'
    <3>1. \A x \in Objects : awaiting[x] # None => awaiting[x] # r
      BY <1>2 DEF SidecarInv, AwaitedOwned
    <3>2. awaiting' \in [Objects -> Rpc \union {None}]
      BY <1>2 DEF SidecarInv
    <3> QED  BY <1>1, <1>2, <3>1, <3>2, StillAwaited
  <2>4. DeliveredIssued' /\ BucketsReady' /\ DeliveredKeysDie' /\ GrantedStaysUsable'
    BY <1>2, <2>1, PromisesKept DEF Moved, storageVars
  <2> QED  BY <1>2, <2>1, <2>2, <2>3, <2>4 DEF SidecarInv, clusterVars
<1>3. CASE awaiting[o] = r
  <2>1. /\ awaiting' = [awaiting EXCEPT ![o] = None]
        /\ phase' = [phase EXCEPT ![o] = PhaseAfter(r, phase[o])]
        /\ delivered' = IF Succeeded(r, "GrantBucketAccess") /\ phase[o] # "gone"
                          THEN delivered \union {<<o, key[r]>>} ELSE delivered
    BY <1>3 DEF Reply
  <2> QED  BY <1>1, <1>3, <2>1, AwaitedReplyOwned
<1> QED  BY <1>2, <1>3 DEF Reply

---------------------------------------------------------------------------

(***************************************************************************)
(* A call for an object, to make it or to take it back.                    *)
(***************************************************************************)
LEMMA CallForOwned ==
  ASSUME NEW o \in Objects, phase[o] \in {"wanted", "deleting"}
  PROVE  /\ CallFor(o) \in Calls /\ Owned(CallFor(o)) /\ ObjectOf(CallFor(o)) = o
         /\ CallFor(o).params \in {TheParams, None}
<1>1. CASE o \in Claims
  <2>1. /\ CallFor(o).op \in {"CreateBucket", "DeleteBucket"}
        /\ CallFor(o).op = "DeleteBucket" => phase[o] = "deleting"
        /\ CallFor(o).bucket = o /\ CallFor(o).user = None
        /\ CallFor(o).params \in {TheParams, None}
    BY <1>1 DEF CallFor
  <2>2. CallFor(o) \in Calls
    BY <1>1, SidecarAssumption DEF CallFor, Calls
  <2>3. ObjectOf(CallFor(o)) = o
    BY <2>1 DEF ObjectOf
  <2>4. Owned(CallFor(o))
    BY <1>1, <2>1, <2>3 DEF Owned, S3Apis, NeedsBucketObject, Ending
  <2> QED  BY <2>1, <2>2, <2>3, <2>4
<1>2. CASE o \notin Claims
  <2>1. o \in User /\ o # None
    BY <1>2, NoneAssumption DEF Objects
  <2>2. /\ CallFor(o).op \in {"GrantBucketAccess", "RevokeBucketAccess"}
        /\ CallFor(o).op = "RevokeBucketAccess" => phase[o] = "deleting"
        /\ CallFor(o).bucket = TheBucket /\ CallFor(o).user = o
        /\ CallFor(o).params \in {TheParams, None}
    BY <1>2 DEF CallFor
  <2>3. CallFor(o) \in Calls
    BY <1>2, <2>1, SidecarAssumption DEF CallFor, Calls
  <2>4. ObjectOf(CallFor(o)) = o
    BY <2>1, <2>2 DEF ObjectOf
  <2>5. Owned(CallFor(o))
    BY <2>1, <2>2, <2>4 DEF Owned, S3Apis, NeedsBucketObject, Ending
  <2> QED  BY <2>2, <2>3, <2>4, <2>5
<1> QED  BY <1>1, <1>2

\* A call that comes in has seen every key delivered so far.
LEMMA CallDriverOwned ==
  ASSUME SidecarInv, IInv', NEW o \in Objects, CallDriver(o)
  PROVE  SidecarInv'
<1>1. PICK r \in Rpc : /\ Receive(r, CallFor(o))
                       /\ awaiting' = [awaiting EXCEPT ![o] = r]
  BY DEF CallDriver
<1>2. /\ CallFor(o) \in Calls /\ Owned(CallFor(o)) /\ ObjectOf(CallFor(o)) = o
      /\ CallFor(o).params \in {TheParams, None}
  BY CallForOwned DEF CallDriver
<1>3. TypeOK /\ CallsOwned /\ awaiting \in [Objects -> Rpc \union {None}]
  BY DEF SidecarInv, IInv
<1>4. /\ pc[r] = "idle" /\ acct[r] = None /\ r \notin contended
      /\ UNCHANGED <<acct, contended, storageVars, clusterVars, late>>
      /\ UNCHANGED <<phase, delivered>>
  BY <1>1, <1>3 DEF Receive, TypeOK, CallsOwned, CallDriver
<1>5. /\ pc'[r] # "idle" /\ call'[r] = CallFor(o) /\ seen'[r] = minted
      /\ \A s \in Rpc \ {r} :
           pc'[s] = pc[s] /\ call'[s] = call[s] /\ seen'[s] = seen[s]
  BY <1>1, <1>3 DEF Receive, Goto, TypeOK
<1>6. CallsOwned'
  <2> SUFFICES ASSUME NEW s \in Rpc
               PROVE  /\ pc'[s] # "idle" => /\ Owned(call[s])'
                                            /\ call'[s].params \in {TheParams, None}
                                            /\ acct'[s] \in {TheAccount, None}
                      /\ s \in contended' =>
                           pc'[s] # "idle" /\ phase'[ObjectOf(call'[s])] \in Ending
    BY DEF CallsOwned, ObjectOf
  <2>1. CASE s = r
    <3>1. Owned(call[s])'
      BY <1>2, <1>4, <1>5, <2>1 DEF Owned, ObjectOf
    <3> QED  BY <1>2, <1>4, <1>5, <2>1, <3>1
  <2>2. CASE s # r
    <3>1. pc[s] # "idle" => Owned(call[s])'
      BY <1>3, <1>4, <1>5, <2>2 DEF CallsOwned, Owned, ObjectOf
    <3> QED  BY <1>3, <1>4, <1>5, <2>2, <3>1 DEF CallsOwned
  <2> QED  BY <2>1, <2>2
<1>7. LateOwned'
  BY <1>4 DEF SidecarInv, LateOwned, Owned, ObjectOf
<1>8. awaiting' \in [Objects -> Rpc \union {None}] /\ AwaitedOwned'
  <2>1. /\ awaiting' \in [Objects -> Rpc \union {None}] /\ awaiting'[o] = r
        /\ \A x \in Objects \ {o} : awaiting'[x] = awaiting[x]
    BY <1>1, <1>3
  <2> SUFFICES ASSUME NEW x \in Objects, NEW s \in Rpc, s = awaiting'[x],
                      awaiting'[x] # None
               PROVE  /\ pc'[s] # "idle" /\ ObjectOf(call'[s]) = x
                      /\ call'[s].op = "RevokeBucketAccess" =>
                           \A k \in Key : <<x, k>> \in delivered => k \in seen'[s]
    BY <1>4, <2>1 DEF AwaitedOwned, ObjectOf
  <2>2. CASE x = o
    <3>1. s = r /\ ObjectOf(call'[s]) = x
      BY <1>2, <1>5, <2>1, <2>2
    <3>2. ASSUME NEW k \in Key, <<x, k>> \in delivered PROVE k \in seen'[s]
      <4>1. x \in User
        BY <3>2 DEF SidecarInv
      <4> QED  BY <1>5, <3>1, <3>2, <4>1 DEF SidecarInv, DeliveredIssued
    <3> QED  BY <1>5, <3>1, <3>2
  <2>3. CASE x # o
    <3>1. /\ s = awaiting[x] /\ pc[s] # "idle" /\ ObjectOf(call[s]) = x
          /\ call[s].op = "RevokeBucketAccess" =>
               \A k \in Key : <<x, k>> \in delivered => k \in seen[s]
      BY <2>1, <2>3 DEF SidecarInv, AwaitedOwned
    <3>2. s \in Rpc \ {r}
      BY <1>4, <3>1
    <3> QED  BY <1>5, <3>1, <3>2
  <2> QED  BY <2>2, <2>3
<1>9. DeliveredIssued' /\ BucketsReady' /\ DeliveredKeysDie' /\ GrantedStaysUsable'
  BY <1>4, PromisesKept DEF Moved, storageVars
<1> QED  BY <1>4, <1>6, <1>7, <1>8, <1>9 DEF SidecarInv, clusterVars

---------------------------------------------------------------------------

(***************************************************************************)
(* The life of objects as users ask for it: how an access may move, and    *)
(* that calls and keys are none the wiser.                                 *)
(***************************************************************************)
UserMoves(u) ==
  \/ phase'[u] = phase[u]
  \/ phase[u] = "absent" /\ phase'[u] = "wanted"
  \/ phase[u] \in {"wanted", "ready"} /\ phase'[u] = "deleting"
  \/ phase[u] = "wanted" /\ phase'[u] = "gone"

LEMMA ObjectStep ==
  ASSUME SidecarInv, IInv',
         UNCHANGED <<owner, users, policies, accessKeys, minted>>,
         UNCHANGED <<pc, call, acct, seen, contended, late, secretAcct>>,
         UNCHANGED <<awaiting, delivered>>,
         \A b \in Bucket : bucketObj'[b] \in {TheParams, None},
         phase' \in [Objects -> Phases], Onward, BucketsReady',
         \A u \in User : UserMoves(u)
  PROVE  SidecarInv'
<1>1. DeliveredIssued /\ DeliveredKeysDie /\ GrantedStaysUsable /\ CallsOwned
  BY DEF SidecarInv
<1>2. Fewer
  BY <1>1 DEF Fewer, CallsOwned
<1>3. CallsOwned' /\ LateOwned'
  BY <1>2, CallsOnward
<1>4. AwaitedOwned'
  BY DEF SidecarInv, AwaitedOwned, ObjectOf
<1>5. DeliveredIssued'
  BY <1>1 DEF DeliveredIssued, UserMoves
<1>6. DeliveredKeysDie'
  BY <1>1 DEF DeliveredKeysDie, DeliveredIssued, UserMoves
<1>7. GrantedStaysUsable'
  BY <1>1 DEF GrantedStaysUsable, UserMoves
<1> QED  BY <1>3, <1>4, <1>5, <1>6, <1>7 DEF SidecarInv

\* A claim comes, goes, or loses its Bucket object.
LEMMA ClaimOwned ==
  ASSUME SidecarInv, IInv', NEW b \in Claims,
         ClaimRequested(b) \/ ClaimDeleted(b) \/ BucketObjectRemoved(b)
  PROVE  SidecarInv'
<1>1. /\ UNCHANGED <<owner, users, policies, accessKeys, minted>>
      /\ UNCHANGED <<pc, call, acct, seen, contended, late, secretAcct>>
      /\ UNCHANGED <<awaiting, delivered>>
  BY DEF ClaimRequested, ClaimDeleted, BucketObjectRemoved, BucketObjectChanges,
         vars, storageVars, handlerVars, clusterVars
<1>2. \A c \in Bucket : bucketObj'[c] \in {TheParams, None}
  <2>1. bucketObj' = bucketObj \/ \E p \in {TheParams, None} :
          bucketObj' = [bucketObj EXCEPT ![b] = p]
    BY DEF ClaimRequested, ClaimDeleted, BucketObjectRemoved, BucketObjectChanges,
           vars, clusterVars
  <2> QED  BY <2>1 DEF SidecarInv, IInv, TypeOK
<1>3. /\ b \in Objects /\ User \subseteq Objects /\ Claims \subseteq Objects
      /\ b \notin User /\ phase \in [Objects -> Phases] /\ BucketsReady
  BY SidecarAssumption DEF Objects, SidecarInv
<1>4. /\ phase' \in [Objects -> Phases]
      /\ \A x \in Objects \ {b} : phase'[x] = phase[x]
      /\ \/ phase'[b] = phase[b]
         \/ phase[b] = "absent" /\ phase'[b] = "wanted"
         \/ /\ phase'[b] \in Ending /\ phase[b] # "absent"
            /\ b = TheBucket => \A u \in User : phase[u] \in {"absent", "gone"}
  BY <1>3 DEF ClaimRequested, ClaimDeleted, BucketObjectRemoved, Becomes,
              Phases, Ending
<1>5. Onward
  BY <1>4 DEF Onward, Ending
<1>6. BucketsReady'
  BY <1>1, <1>3, <1>4 DEF BucketsReady, Ending
<1>7. \A u \in User : UserMoves(u)
  BY <1>3, <1>4 DEF UserMoves
<1> QED  BY <1>1, <1>2, <1>4, <1>5, <1>6, <1>7, ObjectStep

\* An access comes or goes.
LEMMA AccessOwned ==
  ASSUME SidecarInv, IInv', NEW u \in User, AccessRequested(u) \/ AccessDeleted(u)
  PROVE  SidecarInv'
<1>1. UNCHANGED <<vars, awaiting, delivered>>
  BY DEF AccessRequested, AccessDeleted
<1>2. /\ UNCHANGED <<owner, users, policies, accessKeys, minted>>
      /\ UNCHANGED <<pc, call, acct, seen, contended, late, bucketObj, secretAcct>>
  BY <1>1 DEF vars, storageVars, handlerVars, clusterVars
<1>3. /\ u \in Objects /\ User \subseteq Objects /\ Claims \subseteq Objects
      /\ u \notin Claims /\ phase \in [Objects -> Phases] /\ BucketsReady
  BY SidecarAssumption DEF Objects, SidecarInv
<1>4. /\ phase' \in [Objects -> Phases]
      /\ \A x \in Objects \ {u} : phase'[x] = phase[x]
      /\ \/ /\ phase[u] = "absent" /\ phase'[u] = "wanted"
            /\ TheBucket \in Claims => phase[TheBucket] = "ready"
         \/ phase[u] \in {"wanted", "ready"} /\ phase'[u] = "deleting"
         \/ phase[u] = "wanted" /\ phase'[u] = "gone"
  BY <1>3 DEF AccessRequested, AccessDeleted, Becomes, Phases
<1>5. Onward
  BY <1>4 DEF Onward, Ending
<1>6. BucketsReady'
  BY <1>2, <1>3, <1>4 DEF BucketsReady
<1>7. \A x \in User : UserMoves(x)
  BY <1>3, <1>4 DEF UserMoves
<1>8. \A b \in Bucket : bucketObj'[b] \in {TheParams, None}
  BY <1>2 DEF SidecarInv
<1> QED  BY <1>1, <1>2, <1>4, <1>5, <1>6, <1>7, <1>8, ObjectStep

\* Workloads fill and empty their buckets.
LEMMA WorkloadOwned ==
  ASSUME SidecarInv, IInv', NEW b \in Claims, Fills(b) \/ Empties(b)
  PROVE  SidecarInv'
<1>1. /\ UNCHANGED <<owner, users, policies, accessKeys, minted>>
      /\ UNCHANGED <<handlerVars, clusterVars, late, phase, awaiting, delivered>>
  BY DEF Fills, Empties, WorkloadWrites, WorkloadEmpties
<1>2. SameCalls
  BY <1>1 DEF SameCalls, handlerVars
<1> QED  BY <1>1, <1>2, RunKept DEF Moved, clusterVars

(***************************************************************************)
(* Another tenant takes a name that is free: no success reply of the       *)
(* class's account was about it.                                           *)
(***************************************************************************)
LEMMA NameTakenOwned ==
  ASSUME SidecarInv, NEW b \in Claims, NameTaken(b)
  PROVE  SidecarInv'
<1>1. PICK a \in Account \ {TheAccount} : owner' = [owner EXCEPT ![b] = a]
  BY DEF NameTaken
<1>2. /\ phase[b] \in {"absent", "wanted"} /\ owner[b] = None
      /\ UNCHANGED <<nonEmpty, users, policies, accessKeys, minted>>
      /\ UNCHANGED <<pc, call, acct, attempt, key, page, todo, reply, seen, contended>>
      /\ UNCHANGED <<bucketObj, secretAcct, late, phase, awaiting, delivered>>
  BY DEF NameTaken, handlerVars, clusterVars
<1>3. /\ TypeOK /\ StorageInv /\ NoPanic /\ CallsOwned
      /\ \A s \in Rpc : ContentionNoted(s)
      /\ \A s \in Rpc : Promise(s)
  BY IInvParts DEF Parts, SidecarInv
<1>4. /\ owner' \in [Bucket -> Account \union {None}] /\ owner'[b] = a /\ b \in Bucket
      /\ \A c \in Bucket \ {b} : owner'[c] = owner[c]
  BY <1>1, <1>3, SidecarAssumption DEF TypeOK, StorageTypeOK
<1>5. TypeOK' /\ StorageInv' /\ NoPanic'
  <2>1. StorageTypeOK' /\ StorageInv'
    BY <1>2, <1>3, <1>4 DEF TypeOK, StorageTypeOK, StorageInv
  <2> QED  BY <1>2, <1>3, <2>1 DEF TypeOK, NoPanic, InApi
<1>6. \A s \in Rpc : ContentionNoted(s)'
  BY <1>2, <1>3 DEF ContentionNoted, Engaged, InApi, Request
<1>7. ASSUME NEW s \in Rpc PROVE Promise(s)'
  <2>1. Promise(s)
    BY <1>3
  <2>2. ASSUME Succeeded(s, "CreateBucket") \/ Succeeded(s, "DeleteBucket"),
               s \notin contended
        PROVE  /\ call[s].bucket \in Bucket /\ acct[s] = TheAccount
               /\ TheAccount # None
    <3>1. pc[s] = "done" /\ reply[s] = OK /\ call[s].op # "none"
      BY <2>2 DEF Succeeded
    <3>2. call[s] \in Calls
      BY <1>3, <3>1 DEF TypeOK, NoCall
    <3>3. acct[s] = TheAccount
      BY <1>3, <3>1 DEF TypeOK, CallsOwned
    <3> QED  BY <3>2, <3>3, SidecarAssumption, NoneAssumption DEF Calls
  <2>3. Succeeded(s, "CreateBucket") /\ s \notin contended =>
          owner'[call[s].bucket] = acct[s]
    BY <1>2, <1>4, <2>1, <2>2 DEF Promise
  <2>4. Succeeded(s, "DeleteBucket") /\ s \notin contended =>
          owner'[call[s].bucket] # acct[s]
    BY <1>2, <1>4, <2>1, <2>2 DEF Promise
  <2> QED
    BY <1>2, <2>1, <2>3, <2>4
    DEF Promise, Succeeded, GrantProgress, IssuedKeyReturned
<1>8. IInv'
  BY <1>5, <1>6, <1>7, IInvParts DEF Parts
<1>9. CallsOwned' /\ LateOwned' /\ AwaitedOwned'
  BY <1>2, CallsKept DEF SameCalls
<1>10. BucketsReady'
  BY <1>2, <1>4, SidecarAssumption DEF SidecarInv, BucketsReady
<1>11. DeliveredIssued' /\ DeliveredKeysDie' /\ GrantedStaysUsable'
  BY <1>2 DEF SidecarInv, DeliveredIssued, DeliveredKeysDie, GrantedStaysUsable
<1> QED  BY <1>2, <1>8, <1>9, <1>10, <1>11 DEF SidecarInv

---------------------------------------------------------------------------

(***************************************************************************)
(* But for the tenant's, the sidecar's steps are the provisioner's.        *)
(***************************************************************************)
LEMMA SidecarStepIsStep ==
  ASSUME SidecarInv, [SidecarNext]_sidecarVars, \A b \in Claims : ~NameTaken(b)
  PROVE  IInv'
<1>1. IInv /\ Claims \subseteq Bucket /\ TheParams \in Params
  BY SidecarAssumption DEF SidecarInv
<1>2. ASSUME NEW b \in Claims, ClaimRequested(b) \/ BucketObjectRemoved(b)
      PROVE  Next
  BY <1>1, <1>2 DEF ClaimRequested, BucketObjectRemoved, Next, Environment
<1>3. ASSUME NEW b \in Claims, Fills(b) \/ Empties(b) PROVE Next
  BY <1>1, <1>3 DEF Fills, Empties, Next, Environment, Workload
<1>4. ASSUME NEW o \in Objects, CallDriver(o) PROVE Next
  BY <1>4, CallForOwned DEF CallDriver, Next
<1>5. ASSUME NEW r \in Rpc, SoundStep(r) \/ FaultyStep(r) \/ Reply(r) PROVE Next
  BY <1>5 DEF SoundStep, FaultyStep, Reply, Next
<1>6. ASSUME DriverCrash \/ Straggler PROVE Next
  BY <1>6 DEF DriverCrash, Straggler, Next, Environment
<1>7. ASSUME NEW b \in Claims, ClaimDeleted(b) PROVE UNCHANGED vars
  BY <1>7 DEF ClaimDeleted
<1>8. ASSUME NEW u \in User, AccessRequested(u) \/ AccessDeleted(u)
      PROVE  UNCHANGED vars
  BY <1>8 DEF AccessRequested, AccessDeleted
<1>9. ASSUME NEW o \in Objects, HangUp(o) PROVE UNCHANGED vars
  BY <1>9 DEF HangUp
<1>10. Next \/ UNCHANGED vars
  BY <1>2, <1>3, <1>4, <1>5, <1>6, <1>7, <1>8, <1>9 DEF SidecarNext, sidecarVars
<1> QED  BY <1>1, <1>10, NextIInv

\* Nothing was asked for yet.
LEMMA InitSidecarInv == SidecarInit => SidecarInv
<1> SUFFICES ASSUME SidecarInit PROVE SidecarInv
  OBVIOUS
<1>1. IInv
  BY InitIInv DEF SidecarInit
<1>2. /\ \A r \in Rpc : pc[r] = "idle"
      /\ contended = {} /\ late = {} /\ delivered = {}
      /\ \A o \in Objects : phase[o] = "absent" /\ awaiting[o] = None
      /\ User \subseteq Objects /\ Claims \subseteq Objects
  BY DEF SidecarInit, Init, Objects
<1>3. CallsOwned /\ LateOwned /\ AwaitedOwned
  BY <1>2 DEF CallsOwned, LateOwned, AwaitedOwned
<1>4. DeliveredIssued /\ BucketsReady /\ DeliveredKeysDie /\ GrantedStaysUsable
  BY <1>2 DEF DeliveredIssued, BucketsReady, DeliveredKeysDie, GrantedStaysUsable
<1>5. /\ phase \in [Objects -> Phases] /\ awaiting \in [Objects -> Rpc \union {None}]
      /\ delivered \subseteq User \X Key
      /\ secretAcct[TheParams] = TheAccount
      /\ \A b \in Bucket : bucketObj[b] \in {TheParams, None}
  BY DEF SidecarInit, Phases
<1> QED  BY <1>1, <1>3, <1>4, <1>5 DEF SidecarInv

\* Every step keeps the invariant.
LEMMA NextSidecarInv == SidecarInv /\ [SidecarNext]_sidecarVars => SidecarInv'
<1> SUFFICES ASSUME SidecarInv, [SidecarNext]_sidecarVars
             PROVE  SidecarInv'
  OBVIOUS
<1>1. CASE \E b \in Claims : NameTaken(b)
  BY <1>1, NameTakenOwned
<1>2. CASE \A b \in Claims : ~NameTaken(b)
  <2>1. IInv'
    BY <1>2, SidecarStepIsStep
  <2>2. ASSUME NEW b \in Claims,
               ClaimRequested(b) \/ ClaimDeleted(b) \/ BucketObjectRemoved(b)
        PROVE  SidecarInv'
    BY <2>1, <2>2, ClaimOwned
  <2>3. ASSUME NEW b \in Claims, Fills(b) \/ Empties(b) PROVE SidecarInv'
    BY <2>1, <2>3, WorkloadOwned
  <2>4. ASSUME NEW u \in User, AccessRequested(u) \/ AccessDeleted(u)
        PROVE  SidecarInv'
    BY <2>1, <2>4, AccessOwned
  <2>5. ASSUME NEW o \in Objects, CallDriver(o) \/ HangUp(o) PROVE SidecarInv'
    BY <2>1, <2>5, CallDriverOwned, HangUpOwned
  <2>6. ASSUME NEW r \in Rpc, SoundStep(r) \/ FaultyStep(r) PROVE SidecarInv'
    BY <2>1, <2>6, HandleOwned DEF SoundStep, FaultyStep
  <2>7. ASSUME NEW r \in Rpc, Reply(r) PROVE SidecarInv'
    BY <2>1, <2>7, ReplyOwned
  <2>8. CASE DriverCrash \/ Straggler
    BY <2>1, <2>8, DriverCrashOwned, StragglerOwned
  <2>9. CASE UNCHANGED sidecarVars
    <3>1. /\ UNCHANGED <<owner, users, policies, accessKeys, minted>>
          /\ UNCHANGED <<handlerVars, clusterVars, late, phase, awaiting, delivered>>
      BY <2>9 DEF sidecarVars, vars, storageVars
    <3>2. SameCalls
      BY <3>1 DEF SameCalls, handlerVars
    <3> QED  BY <2>1, <3>1, <3>2, RunKept DEF Moved, clusterVars
  <2> QED
    BY <1>2, <2>2, <2>3, <2>4, <2>5, <2>6, <2>7, <2>8, <2>9 DEF SidecarNext
<1> QED  BY <1>1, <1>2

(***************************************************************************)
(* The objects' lives and the driver's work keep in step, whatever replies *)
(* are lost or not waited for, whatever crashes, and whatever requests     *)
(* linger.                                                                 *)
(***************************************************************************)
THEOREM SidecarInvariance == SidecarSpec => []SidecarInv
BY InitSidecarInv, NextSidecarInv, PTL DEF SidecarSpec

(***************************************************************************)
(* After the revocation an object waited for, no key that was ever handed  *)
(* out for it works, or comes to work again.                               *)
(***************************************************************************)
THEOREM KeysDie == SidecarSpec => []DeliveredKeysDie
<1>1. SidecarInv => DeliveredKeysDie
  BY DEF SidecarInv
<1> QED  BY <1>1, SidecarInvariance, PTL

(***************************************************************************)
(* A granted access keeps its policy and a live key until its deletion is  *)
(* asked for.                                                              *)
(***************************************************************************)
THEOREM AccessUsable == SidecarSpec => []GrantedStaysUsable
<1>1. SidecarInv => GrantedStaysUsable
  BY DEF SidecarInv
<1> QED  BY <1>1, SidecarInvariance, PTL

(***************************************************************************)
(* A ready claim, and every access to it, has its bucket, owned by the     *)
(* account of the class, even though other tenants compete for the name.   *)
(***************************************************************************)
THEOREM BucketHolds == SidecarSpec => []ReadyBucketHolds
<1>1. SidecarInv => ReadyBucketHolds
  BY DEF SidecarInv, BucketsReady, ReadyBucketHolds
<1> QED  BY <1>1, SidecarInvariance, PTL

---------------------------------------------------------------------------

(***************************************************************************)
(* What any step does at the provider serves an object, or is another      *)
(* tenant's.                                                               *)
(***************************************************************************)
LEMMA StepMoved ==
  ASSUME SidecarInv, [SidecarNext]_sidecarVars, \A b \in Claims : ~NameTaken(b)
  PROVE  Moved
<1> DEFINE Untouched == UNCHANGED <<owner, users, policies, accessKeys, minted>>
<1>1. ASSUME NEW b \in Claims,
             \/ ClaimRequested(b) \/ ClaimDeleted(b) \/ BucketObjectRemoved(b)
             \/ Fills(b) \/ Empties(b)
      PROVE  Untouched
  BY <1>1 DEF ClaimRequested, ClaimDeleted, BucketObjectRemoved, BucketObjectChanges,
              Fills, Empties, WorkloadWrites, WorkloadEmpties, vars, storageVars
<1>2. ASSUME NEW u \in User, AccessRequested(u) \/ AccessDeleted(u)
      PROVE  Untouched
  BY <1>2 DEF AccessRequested, AccessDeleted, vars, storageVars
<1>3. ASSUME NEW o \in Objects, CallDriver(o) \/ HangUp(o)
      PROVE  Untouched
  BY <1>3 DEF CallDriver, Receive, HangUp, vars, storageVars
<1>4. ASSUME NEW r \in Rpc, Handle(r) PROVE Moved
  <2>1. GetBucket(r) \/ InitClient(r) \/ ApiStep(r)
    BY <1>4, HandleKinds DEF SidecarInv
  <2>2. GetBucket(r) \/ InitClient(r) => Untouched
    BY DEF GetBucket, InitClient, storageVars
  <2> QED  BY <2>1, <2>2, ApiStepMoved DEF Moved
<1>5. ASSUME NEW r \in Rpc, SoundStep(r) \/ FaultyStep(r) PROVE Moved
  BY <1>4, <1>5 DEF SoundStep, FaultyStep
<1>6. ASSUME (\E r \in Rpc : Reply(r)) \/ DriverCrash PROVE Untouched
  BY <1>6 DEF Reply, Finish, DriverCrash, Crash, Reset, storageVars
<1>7. ASSUME UNCHANGED sidecarVars PROVE Untouched
  BY <1>7 DEF sidecarVars, vars, storageVars
<1>8. Untouched \/ Moved
  BY <1>1, <1>2, <1>3, <1>5, <1>6, <1>7, StragglerMoved DEF SidecarNext
<1> QED  BY <1>8 DEF Moved

\* A request of an object does to the provider what the object was asked for.
LEMMA MovedAsAsked ==
  ASSUME SidecarInv, Moved
  PROVE  AsAsked
<1>1. CASE UNCHANGED <<owner, users, policies, accessKeys, minted>>
  BY <1>1 DEF AsAsked, Lost, Gained
<1>2. ASSUME NEW q \in Requests, Owned(q), q.acct = TheAccount, Frame(q)
      PROVE  AsAsked
  <2>1. /\ q.op \in S3Apis => q.bucket \in Claims /\ ObjectOf(q) = q.bucket
        /\ q.op \notin S3Apis => q.user \in User /\ ObjectOf(q) = q.user
        /\ phase[ObjectOf(q)] # "absent"
        /\ NeedsBucketObject(q.op) => phase[ObjectOf(q)] \in Ending
    BY <1>2, NoneAssumption DEF Owned, ObjectOf
  <2>2. ASSUME NEW b \in Bucket, owner'[b] # owner[b]
        PROVE  \/ /\ owner[b] = None
                  /\ owner'[b] = TheAccount => b \in Claims /\ phase[b] # "absent"
               \/ owner[b] = TheAccount /\ b \in Claims /\ phase[b] \in Ending
    BY <1>2, <2>1, <2>2 DEF Frame, S3Apis, NeedsBucketObject
  <2>3. ASSUME NEW a \in Account, NEW u \in User, Lost(a, u)
        PROVE  a = TheAccount /\ phase[u] \in Ending
    <3>1. q.op = "RevokeBucketAccess" /\ a = q.acct /\ u = q.user
      BY <1>2, <2>3 DEF Frame, Lost
    <3> QED  BY <1>2, <2>1, <3>1 DEF S3Apis, NeedsBucketObject
  <2>4. ASSUME NEW a \in Account, NEW u \in User, Gained(a, u)
        PROVE  a = TheAccount /\ phase[u] # "absent"
    <3>1. q.op = "GrantBucketAccess" /\ a = q.acct /\ u = q.user
      BY <1>2, <2>4 DEF Frame, Gained
    <3> QED  BY <1>2, <2>1, <3>1 DEF S3Apis
  <2> QED  BY <2>2, <2>3, <2>4 DEF AsAsked
<1> QED  BY <1>1, <1>2 DEF Moved

(***************************************************************************)
(* No step, of whatever call, straggler or tenant, changes anything at the *)
(* provider that was not asked for.                                        *)
(***************************************************************************)
THEOREM DriverDoesAsAsked == SidecarSpec => OnlyAsAsked
<1>1. SidecarInv /\ [SidecarNext]_sidecarVars => AsAsked
  <2> SUFFICES ASSUME SidecarInv, [SidecarNext]_sidecarVars
               PROVE  AsAsked
    OBVIOUS
  <2>1. CASE \A b \in Claims : ~NameTaken(b)
    BY <2>1, StepMoved, MovedAsAsked
  <2>2. ASSUME NEW b \in Claims, NameTaken(b) PROVE AsAsked
    <3>1. PICK a \in Account \ {TheAccount} : owner' = [owner EXCEPT ![b] = a]
      BY <2>2 DEF NameTaken
    <3>2. owner[b] = None /\ UNCHANGED <<users, policies, accessKeys>>
      BY <2>2 DEF NameTaken
    <3>3. owner \in [Bucket -> Account \union {None}]
      BY DEF SidecarInv, IInv, TypeOK, StorageTypeOK
    <3> QED  BY <3>1, <3>2, <3>3 DEF AsAsked, Lost, Gained
  <2> QED  BY <2>1, <2>2
<1> QED  BY <1>1, SidecarInvariance, PTL DEF SidecarSpec, OnlyAsAsked

============================================================================
