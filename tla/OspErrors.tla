----------------------------- MODULE OspErrors -----------------------------
(***************************************************************************)
(* pkg/osperrors: how an error of the object storage provider (S3 or IAM)  *)
(* becomes the gRPC status of a COSI call.                                 *)
(*                                                                         *)
(* An error is the string its smithy.APIError.ErrorCode() returns, or      *)
(* NonAPIError when errors.As finds no APIError in it (a transport error,  *)
(* a timeout, a cancelled context).  A status is the name of its gRPC      *)
(* code; codes.OK stands for the nil error.  Log and client messages are   *)
(* left out.                                                               *)
(***************************************************************************)

OK          == "OK"
NonAPIError == "NonAPIError"
NotInTable  == "NotInTable"

(***************************************************************************)
(* The four driver actions of pkg/constants.                               *)
(***************************************************************************)
Actions == {"CreateBucket", "DeleteBucket",
            "GrantBucketAccess", "RevokeBucketAccess"}

\* Mutant: a revoke is not counted among the idempotent actions.
MutIsIdempotentAction(action) == action \in {"DeleteBucket", "delete"}

\* Mutant: only a revoke is.
MutOnlyRevokeIdempotent(action) == action = "RevokeBucketAccess"

\* The actions for which a missing resource is a success.
isIdempotentAction(action) ==
  action \in {"DeleteBucket", "RevokeBucketAccess", "delete"}

MissingResourceCodes == {"NoSuchBucket", "NotFound", "NoSuchEntity"}

---------------------------------------------------------------------------

\* Mutant: a bucket that exists already is filed under the successes.
MutS3TableCreate(code) ==
  CASE code \in {"NoSuchBucket", "NotFound", "BucketAlreadyExists",
                 "BucketAlreadyOwnedByYou"}       -> OK
    [] code = "AccessDenied"                      -> "PermissionDenied"
    [] code = "BucketNotEmpty"                    -> "FailedPrecondition"
    [] OTHER                                      -> NotInTable

\* Mutant: a bucket that still holds objects is filed under the successes.
MutS3TableDelete(code) ==
  CASE code \in {"NoSuchBucket", "NotFound", "BucketNotEmpty"} -> OK
    [] code = "AccessDenied"                      -> "PermissionDenied"
    [] OTHER                                      -> NotInTable

(***************************************************************************)
(* GRPCCode column of the two tables, looked up by provider error code.    *)
(***************************************************************************)
S3ErrorTable(code) ==
  CASE code \in {"BucketAlreadyExists", "BucketAlreadyOwnedByYou"}
         -> "AlreadyExists"
    [] code \in {"InvalidBucketName", "InvalidLocationConstraint",
                 "InvalidRequest", "MalformedXML"}
         -> "InvalidArgument"
    [] code = "AccessDenied"                      -> "PermissionDenied"
    [] code = "BucketNotEmpty"                    -> "FailedPrecondition"
    [] code \in {"NoSuchBucket", "NotFound"}      -> OK
    [] code = "RequestTimeout"                    -> "DeadlineExceeded"
    [] code = "ServiceUnavailable"                -> "Unavailable"
    [] code \in {"Throttled", "TooManyBuckets"}   -> "ResourceExhausted"
    [] code \in {"InvalidAccessKeyId", "SignatureDoesNotMatch"}
         -> "Unauthenticated"
    [] OTHER                                      -> NotInTable

\* Mutant: a conflict on DeleteUser filed under the idempotent successes.
MutIAMErrorTable(code) ==
  CASE code \in {"NoSuchEntity", "DeleteConflict"} -> OK
    [] code = "EntityAlreadyExists"                -> "AlreadyExists"
    [] OTHER                                       -> NotInTable

IAMErrorTable(code) ==
  CASE code \in {"EntityAlreadyExists", "AccessKeyAlreadyExists"}
         -> "AlreadyExists"
    [] code \in {"InvalidInput", "InvalidUserName", "ValidationError",
                 "MalformedPolicyDocument", "PolicyNotAttachable"}
         -> "InvalidArgument"
    [] code \in {"LimitExceeded", "AccessKeyLimitExceeded", "Throttled"}
         -> "ResourceExhausted"
    [] code \in {"AccessDenied", "UnauthorizedOperation"}
         -> "PermissionDenied"
    [] code = "DeleteConflict"                    -> "FailedPrecondition"
    [] code \in {"ServiceUnavailable", "EntityTemporarilyUnmodifiable"}
         -> "Unavailable"
    [] code = "ServiceFailure"                    -> "Internal"
    [] code = "NoSuchEntity"                      -> OK
    [] OTHER                                      -> NotInTable

---------------------------------------------------------------------------

\* Mutant: the resource-missing codes succeed for every action.
MutTranslate(action, err, meta) ==
  IF err = NonAPIError \/ meta = NotInTable THEN "Internal" ELSE meta

(***************************************************************************)
(* meta is the table's entry for err.  A missing resource is a success     *)
(* only for a delete or a revoke.                                          *)
(***************************************************************************)
TranslateObjectStorageProviderError(action, err, meta) ==
  CASE err = NonAPIError \/ meta = NotInTable
         -> "Internal"
    [] /\ err # NonAPIError /\ meta # NotInTable
       /\ err \in MissingResourceCodes /\ ~isIdempotentAction(action)
         -> "NotFound"
    [] OTHER
         -> meta

TranslateS3Error(action, err) ==
  TranslateObjectStorageProviderError(action, err, S3ErrorTable(err))

TranslateIAMError(action, err) ==
  TranslateObjectStorageProviderError(action, err, IAMErrorTable(err))

============================================================================
