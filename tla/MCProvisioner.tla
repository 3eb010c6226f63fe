--------------------------- MODULE MCProvisioner ---------------------------
(***************************************************************************)
(* Small instances of Provisioner for TLC: symmetry of its model values,   *)
(* and the statements of the repository's documentation that are tested.   *)
(***************************************************************************)
EXTENDS ProvisionerContract, TLC

\* Goroutines, keys and accounts are interchangeable: nothing singles one out.
Symmetry == Permutations(Rpc) \union Permutations(Key) \union Permutations(Account)

---------------------------------------------------------------------------

(***************************************************************************)
(* provisioner_server_impl.go, on DriverCreateBucket: "If the bucket       *)
(* already exists AND the parameters are the same, then it MUST return no  *)
(* error".  With one parameter map and one account, a bucket the account   *)
(* owns is never reported as AlreadyExists.                                *)
(***************************************************************************)
CreateIsIdempotent ==
  \A r \in Rpc :
    /\ pc[r] = "done" /\ call[r].op = "CreateBucket"
    /\ owner[call[r].bucket] = acct[r]
    => reply[r] # "AlreadyExists"

(***************************************************************************)
(* README.md, on Revoke Bucket Access: "Removes access by deleting IAM     *)
(* credentials associated with the bucket".  After an undisturbed revoke   *)
(* no account has a user of that name with a policy for the bucket and a   *)
(* live access key.                                                        *)
(***************************************************************************)
RevokeRemovesAccess ==
  \A r \in Rpc :
    Succeeded(r, "RevokeBucketAccess") /\ r \notin contended =>
      \A a \in Account : <<a, call[r].user, call[r].bucket>> \in policies =>
        KeysOf(a, call[r].user) = {}

============================================================================
