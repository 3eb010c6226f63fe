------------------------ MODULE ProvisionerContract ------------------------
(***************************************************************************)
(* The handlers of Provisioner implement DriverContract.  Of a handler the *)
(* contract sees that it is idle, busy or done and for whom it acts; of    *)
(* its requests, and of those left behind, only whose work they are.       *)
(* Users, policies, attempts, Secrets and Bucket objects are not seen.     *)
(***************************************************************************)
EXTENDS Provisioner

Stage ==
  [r \in Rpc |-> CASE pc[r] = "idle" -> "idle"
                   [] pc[r] = "done" -> IF reply[r] = OK THEN "ok" ELSE "failed"
                   [] OTHER          -> "busy"]

WorkOf(q) ==
  [op |-> q.op, bucket |-> q.bucket, user |-> q.user, acct |-> q.acct]

Work == [r \in Rpc |-> WorkOf(Request(r))]

AtWork == {WorkOf(q) : q \in late}
            \union {WorkOf(Request(r)) : r \in {s \in Rpc : InApi(s)}}

\* The credentials that go out with the reply of a grant.
Cred == [r \in Rpc |-> IF Succeeded(r, "GrantBucketAccess") THEN key[r] ELSE None]

Contract == INSTANCE DriverContract WITH
              stage <- Stage, work <- Work, atWork <- AtWork, cred <- Cred,
              live <- accessKeys, issued <- minted

(***************************************************************************)
(* Every behaviour of the handlers, with lost, late and repeated requests, *)
(* crashes and edited Secrets, is one that the contract allows: success is *)
(* reported at an instant at which it is true, and nothing is created,     *)
(* issued, deleted or taken back but by work that was asked for.           *)
(***************************************************************************)
ImplementsContract == Contract!Spec

============================================================================
