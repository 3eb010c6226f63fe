---------------------------- MODULE ObjectStorage ----------------------------
(***************************************************************************)
(* The object storage provider the driver drives, external to it: the S3   *)
(* and IAM requests issued by pkg/clients/s3 and pkg/clients/iam, with the *)
(* error codes that pkg/osperrors tabulates and the clients test for.      *)
(*                                                                         *)
(* A request is a record [op, api, acct, bucket, user, key]: acct is the   *)
(* account whose credentials sign it, op the COSI call it serves, which    *)
(* the provider does not look at.  Bucket names are global, user names are *)
(* per account, access key identifiers are never reused.                   *)
(***************************************************************************)
EXTENDS OspErrors

CONSTANTS Bucket, User, Account, Key,
          None,              \* absence of any of the above
          SpontaneousErrors  \* codes a healthy request may still be refused with

ASSUME NoneAssumption ==
  None \notin Bucket \union User \union Account \union Key

\* The provider never claims falsely that something succeeded or is missing.
ASSUME SpontaneousAssumption ==
  SpontaneousErrors \intersect
    (MissingResourceCodes \union {OK, NonAPIError}) = {}

VARIABLES
  owner,      \* owner[b]: account owning bucket b, or None
  nonEmpty,   \* buckets holding objects
  users,      \* IAM users <<account, user>>
  policies,   \* inline policies <<account, user, bucket named by the policy>>
  accessKeys, \* live access keys <<account, user, key>>
  minted      \* every key ever issued

storageVars == <<owner, nonEmpty, users, policies, accessKeys, minted>>

StorageTypeOK ==
  /\ owner \in [Bucket -> Account \union {None}]
  /\ nonEmpty \subseteq Bucket
  /\ users \subseteq Account \X User
  /\ policies \subseteq Account \X User \X Bucket
  /\ accessKeys \subseteq Account \X User \X Key
  /\ minted \subseteq Key

StorageInit ==
  /\ owner = [b \in Bucket |-> None]
  /\ nonEmpty = {} /\ users = {} /\ policies = {}
  /\ accessKeys = {} /\ minted = {}

---------------------------------------------------------------------------

HasUser(q)   == <<q.acct, q.user>> \in users
HasPolicy(q) == <<q.acct, q.user, q.bucket>> \in policies
HasKey(q)    == <<q.acct, q.user, q.key>> \in accessKeys

KeysOf(a, u) == {k \in Key : <<a, u, k>> \in accessKeys}

\* What still hangs on a user and keeps IAM from deleting it.
Attached(q) ==
  \/ KeysOf(q.acct, q.user) # {}
  \/ \E b \in Bucket : <<q.acct, q.user, b>> \in policies

(***************************************************************************)
(* The code with which the provider answers request q in its current state.*)
(***************************************************************************)
Outcome(q) ==
  CASE q.api = "CreateBucket" /\ owner[q.bucket] = q.acct
         -> "BucketAlreadyOwnedByYou"
    [] q.api = "CreateBucket" /\ owner[q.bucket] \notin {None, q.acct}
         -> "BucketAlreadyExists"
    [] q.api = "DeleteBucket" /\ owner[q.bucket] = None
         -> "NoSuchBucket"
    [] q.api = "DeleteBucket" /\ owner[q.bucket] \notin {None, q.acct}
         -> "AccessDenied"
    [] q.api = "DeleteBucket" /\ owner[q.bucket] = q.acct
                              /\ q.bucket \in nonEmpty
         -> "BucketNotEmpty"
    [] q.api = "CreateUser" /\ HasUser(q)
         -> "EntityAlreadyExists"
    [] q.api \in {"PutUserPolicy", "CreateAccessKey", "GetUser",
                  "ListAccessKeys"} /\ ~HasUser(q)
         -> "NoSuchEntity"
    [] q.api = "DeleteUserPolicy" /\ ~HasPolicy(q)
         -> "NoSuchEntity"
    [] q.api = "DeleteAccessKey" /\ ~HasKey(q)
         -> "NoSuchEntity"
    [] q.api = "DeleteUser" /\ ~HasUser(q)
         -> "NoSuchEntity"
    [] q.api = "DeleteUser" /\ HasUser(q) /\ Attached(q)
         -> "DeleteConflict"
    [] OTHER -> OK

\* In some regions the owner may create its bucket again, with no effect.
Accepted(q) ==
  \/ Outcome(q) = OK
  \/ q.api = "CreateBucket" /\ owner[q.bucket] = q.acct

\* The codes with which q may be refused, leaving the provider unchanged.
Refusals(q) == (SpontaneousErrors \union {Outcome(q)}) \ {OK}

\* The keys a request may be given: a fresh one for CreateAccessKey.
Issuable(q) == IF q.api = "CreateAccessKey" THEN Key \ minted ELSE {None}

(***************************************************************************)
(* The provider carries request q out; k is the key it issues, if any.     *)
(***************************************************************************)
Execute(q, k) ==
  /\ Accepted(q)
  /\ \/ /\ q.api = "CreateBucket"
        /\ owner' = [owner EXCEPT ![q.bucket] = q.acct]
        /\ UNCHANGED <<nonEmpty, users, policies, accessKeys, minted>>
     \/ /\ q.api = "DeleteBucket"
        /\ owner' = [owner EXCEPT ![q.bucket] = None]
        /\ UNCHANGED <<nonEmpty, users, policies, accessKeys, minted>>
     \/ /\ q.api = "CreateUser"
        /\ users' = users \union {<<q.acct, q.user>>}
        /\ UNCHANGED <<owner, nonEmpty, policies, accessKeys, minted>>
     \/ /\ q.api = "PutUserPolicy"
        /\ policies' = policies \union {<<q.acct, q.user, q.bucket>>}
        /\ UNCHANGED <<owner, nonEmpty, users, accessKeys, minted>>
     \/ /\ q.api = "CreateAccessKey"
        /\ accessKeys' = accessKeys \union {<<q.acct, q.user, k>>}
        /\ minted' = minted \union {k}
        /\ UNCHANGED <<owner, nonEmpty, users, policies>>
     \/ /\ q.api \in {"GetUser", "ListAccessKeys"}
        /\ UNCHANGED storageVars
     \/ /\ q.api = "DeleteUserPolicy"
        /\ policies' = policies \ {<<q.acct, q.user, q.bucket>>}
        /\ UNCHANGED <<owner, nonEmpty, users, accessKeys, minted>>
     \/ /\ q.api = "DeleteAccessKey"
        /\ accessKeys' = accessKeys \ {<<q.acct, q.user, q.key>>}
        /\ UNCHANGED <<owner, nonEmpty, users, policies, minted>>
     \/ /\ q.api = "DeleteUser"
        /\ users' = users \ {<<q.acct, q.user>>}
        /\ UNCHANGED <<owner, nonEmpty, policies, accessKeys, minted>>

(***************************************************************************)
(* Applications fill and empty the buckets they were given access to.      *)
(***************************************************************************)
WorkloadWrites(b) ==
  /\ owner[b] # None /\ b \notin nonEmpty
  /\ nonEmpty' = nonEmpty \union {b}
  /\ UNCHANGED <<owner, users, policies, accessKeys, minted>>

WorkloadEmpties(b) ==
  /\ b \in nonEmpty
  /\ nonEmpty' = nonEmpty \ {b}
  /\ UNCHANGED <<owner, users, policies, accessKeys, minted>>

============================================================================
