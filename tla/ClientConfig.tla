---------------------------- MODULE ClientConfig ----------------------------
(***************************************************************************)
(* initializeObjectStorageClient of pkg/driver with pkg/util: how a call   *)
(* gets from the parameters of its class to an S3 or IAM client, while     *)
(* somebody edits the Secrets.                                             *)
(*                                                                         *)
(* A Secret maps keys to bytes or to None when the key is missing; "" is   *)
(* a value of no bytes.  Of an endpoint only its scheme is kept, of a      *)
(* certificate whether it is PEM.                                          *)
(***************************************************************************)
CONSTANTS None,
          Secrets,      \* contents that the Secret of a class may have
          Edits,        \* contents that Secrets are edited to
          DefaultRegion,
          SdkRegion     \* what the SDK finds in its environment, "" if nothing

Fields == {"accessKeyId", "secretAccessKey", "endpoint", "region", "tlsCert",
           "iamEndpoint"}

ASSUME ConfigAssumption ==
  /\ None \notin Secrets \union Edits
  /\ \A s \in Secrets \union Edits : DOMAIN s = Fields

Namespaces == {"driver", "class"}

VARIABLES
  pc,       \* step of initializeObjectStorageClient
  service,  \* "S3" or "IAM", by the handler that calls it
  class,    \* [name, namespace] of the class parameters, "" if unset
  podNs,    \* POD_NAMESPACE, "" if unset
  store,    \* store[ns]: the Secret of the class's name in namespace ns
  ns,       \* namespace settled on
  secret,   \* the Secret as Get returned it
  params,   \* StorageClientParameters
  client,   \* the client built, or None
  stood     \* history: <<ns, Secret>> there were while the call ran

inputs == <<service, class, podNs>>
vars == <<pc, inputs, store, ns, secret, params, client, stood>>

Init ==
  /\ pc = "info"
  /\ service \in {"S3", "IAM"}
  /\ class \in [name : {"", "secret"}, namespace : {"", "class"}]
  /\ podNs \in {"", "driver"}
  /\ \E m \in Namespaces, s \in Secrets, t \in Edits \union {None} :
       store = [n \in Namespaces |-> IF n = m THEN s ELSE t]
  /\ ns = "" /\ secret = None /\ params = None /\ client = None
  /\ stood = {<<n, store[n]>> : n \in Namespaces}

---------------------------------------------------------------------------

\* Converting a missing value to a string gives the empty string.
Str(v) == IF v = None THEN "" ELSE v

Fail ==
  /\ pc' = "failed"
  /\ UNCHANGED <<inputs, store, ns, secret, params, client, stood>>

\* Mutant: the driver's own namespace comes first.
MutSecretNamespace == IF podNs # "" THEN podNs ELSE class.namespace

\* The namespace of the class, or else the driver's own.
SecretNamespace == IF class.namespace # "" THEN class.namespace ELSE podNs

fetchObjectStorageProviderSecretInfo ==
  /\ pc = "info"
  /\ \/ (class.name = "" \/ SecretNamespace = "") /\ Fail
     \/ /\ class.name # "" /\ SecretNamespace # ""
        /\ pc' = "get" /\ ns' = SecretNamespace
        /\ UNCHANGED <<inputs, store, secret, params, client, stood>>

\* Mutant: the error of a Get that finds nothing is not looked at.
MutGetSecret ==
  /\ pc = "get"
  /\ secret' = store[ns] /\ pc' = "params"
  /\ UNCHANGED <<inputs, store, ns, params, client, stood>>

\* Secrets(ns).Get: any error, a missing Secret or a failed request, ends it.
GetSecret ==
  /\ pc = "get"
  /\ \/ Fail
     \/ /\ store[ns] # None
        /\ secret' = store[ns] /\ pc' = "params"
        /\ UNCHANGED <<inputs, store, ns, params, client, stood>>

---------------------------------------------------------------------------

\* Mutant: the secret access key is not required.
MutValidate(p) == p.AccessKeyID # "" /\ p.Endpoint # ""

Validate(p) == p.AccessKeyID # "" /\ p.SecretAccessKey # "" /\ p.Endpoint # ""

\* The fields taken from Secret s; its region replaces the default one of
\* NewStorageClientParameters.
Parameters(s) ==
  LET f(k) == Str(s[k]) IN
  [AccessKeyID     |-> f("accessKeyId"),
   SecretAccessKey |-> f("secretAccessKey"),
   Endpoint        |-> f("endpoint"),
   Region          |-> f("region"),
   TLSCert         |-> f("tlsCert"),
   IAMEndpoint     |-> IF f("iamEndpoint") # "" THEN f("iamEndpoint")
                                                ELSE f("endpoint")]

fetchS3Parameters ==
  /\ pc = "params"
  /\ LET p == Parameters(secret)
     IN  \/ ~Validate(p) /\ Fail
         \/ /\ Validate(p)
            /\ params' = p /\ pc' = "init"
            /\ UNCHANGED <<inputs, store, ns, secret, client, stood>>

\* Mutant: a certificate that does not parse turns verification off.
MutConfigureTLSTransport(cert) == IF cert = "PEM" THEN "verified" ELSE "unverified"

\* Which servers the transport trusts.  Without a usable certificate in the
\* pool it trusts none; without any certificate it does not ask.
ConfigureTLSTransport(cert) ==
  CASE cert = "PEM"          -> "verified"
    [] cert = ""             -> "unverified"
    [] OTHER                 -> "trusts none"

\* The client for an endpoint: TLS only if its scheme asks for it.  Without a
\* region in the parameters the SDK looks for one in its environment.
ClientFor(url) ==
  [id |-> params.AccessKeyID, key |-> params.SecretAccessKey, url |-> url,
   region |-> IF params.Region # "" THEN params.Region ELSE SdkRegion,
   tls |-> IF url = "https" THEN ConfigureTLSTransport(params.TLSCert) ELSE "plain",
   location |-> None]

\* The SDK's configuration may fail to load.
Build(svc, url) ==
  /\ pc = "init" /\ service = svc
  /\ \/ Fail
     \/ /\ client' = ClientFor(url) /\ pc' = "ready"
        /\ UNCHANGED <<inputs, store, ns, secret, params, stood>>

InitS3Client  == Build("S3", params.Endpoint)
InitIAMClient == Build("IAM", params.IAMEndpoint)

\* The location constraint S3Client.CreateBucket sends: none for the default.
CreateBucket ==
  /\ pc = "ready" /\ service = "S3"
  /\ pc' = "sent"
  /\ client' = [client EXCEPT !.location =
                  IF params.Region # DefaultRegion THEN params.Region ELSE None]
  /\ UNCHANGED <<inputs, store, ns, secret, params, stood>>

\* Somebody writes or deletes a Secret, all of its keys at once.
EditSecret(n, s) ==
  /\ store' = [store EXCEPT ![n] = s]
  /\ stood' = stood \union {<<n, s>>}
  /\ UNCHANGED <<pc, inputs, ns, secret, params, client>>

Next ==
  \/ fetchObjectStorageProviderSecretInfo \/ GetSecret \/ fetchS3Parameters
  \/ InitS3Client \/ InitIAMClient \/ CreateBucket
  \/ \E n \in Namespaces, s \in Edits \union {None} : EditSecret(n, s)

Spec == Init /\ [][Next]_vars

---------------------------------------------------------------------------
(***************************************************************************)
(* Correctness.                                                            *)
(***************************************************************************)

Built == client # None

\* The endpoint of the service the client is for.
Url == IF service = "S3" THEN params.Endpoint ELSE params.IAMEndpoint

(***************************************************************************)
(* How far the call has got tells what it holds: the namespace settled on  *)
(* from "get" on; then one content of the Secret there, read at once while *)
(* it stood; then exactly the parameters of that content, validated; and   *)
(* in the end the client of exactly these parameters.  Editing the Secret  *)
(* changes none of it.                                                     *)
(***************************************************************************)
ConfigInv ==
  /\ pc \in {"info", "get", "params", "init", "ready", "sent", "failed"}
  /\ service \in {"S3", "IAM"}
  /\ class \in [name : {"", "secret"}, namespace : {"", "class"}]
  /\ podNs \in {"", "driver"}
  /\ store \in [Namespaces -> Secrets \union Edits \union {None}]
  /\ \A n \in Namespaces : <<n, store[n]>> \in stood
  /\ pc \in {"get", "params", "init", "ready", "sent"} =>
       ns \in Namespaces /\ ns = SecretNamespace
  /\ pc \in {"params", "init", "ready", "sent"} =>
       secret \in Secrets \union Edits /\ <<ns, secret>> \in stood
  /\ pc \in {"init", "ready", "sent"} =>
       params = Parameters(secret) /\ Validate(params)
  /\ pc \in {"ready", "sent"} =>
       client = [ClientFor(Url) EXCEPT !.location = client.location]
  /\ Built => pc \in {"ready", "sent"}

(***************************************************************************)
(* A client carries the credentials, the endpoint and the region, if any,  *)
(* of one and the same content of a Secret, which stood during the call in *)
(* the namespace the class names or, if it names none, in the driver's:    *)
(* never one tenant's keys with another's endpoint, however the Secrets    *)
(* are edited.                                                             *)
(***************************************************************************)
ClientOfOneSecret ==
  Built => \E p \in stood :
    /\ p[1] = (IF class.namespace # "" THEN class.namespace ELSE podNs)
    /\ p[2] # None
    /\ client.id = p[2].accessKeyId /\ client.key = p[2].secretAccessKey
    /\ Str(p[2].region) \in {client.region, ""}
    /\ \/ client.url = p[2].endpoint
       \/ service = "IAM" /\ client.url = p[2].iamEndpoint

(***************************************************************************)
(* No client is built without credentials to sign with and a place to send *)
(* them to, whatever is missing or empty in the Secret.                    *)
(***************************************************************************)
ClientComplete == Built => "" \notin {client.id, client.key, client.url}

(***************************************************************************)
(* docs/driver-params.md: "If HTTPS is used without a TLS certificate, an  *)
(* insecure connection will be used".  Only then: whenever the Secret came *)
(* with a certificate, however broken, an HTTPS client verifies its peer,  *)
(* and a plain connection is made only to an http endpoint.                *)
(***************************************************************************)
CertificateCounts ==
  Built => /\ client.tls = "unverified" => Str(secret.tlsCert) = ""
           /\ client.tls = "plain" <=> client.url # "https"

============================================================================
