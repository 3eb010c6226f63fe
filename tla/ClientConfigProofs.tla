------------------------- MODULE ClientConfigProofs -------------------------
(***************************************************************************)
(* Proofs that a client is always built from one content of one Secret,    *)
(* whatever contents Secrets may have and however they are edited.         *)
(***************************************************************************)
EXTENDS ClientConfig, TLAPS

(***************************************************************************)
(* Parameters that pass Validate hold the values of the Secret itself, not *)
(* the empty strings that stand in for missing keys.                       *)
(***************************************************************************)
LEMMA ValidatedParameters ==
  ASSUME NEW s, Validate(Parameters(s))
  PROVE  LET p == Parameters(s) IN
         /\ p.AccessKeyID = s.accessKeyId /\ p.AccessKeyID # ""
         /\ p.SecretAccessKey = s.secretAccessKey /\ p.SecretAccessKey # ""
         /\ p.Endpoint = s.endpoint /\ p.Endpoint # ""
         /\ p.IAMEndpoint \in {s.iamEndpoint, s.endpoint} /\ p.IAMEndpoint # ""
BY DEF Validate, Parameters, Str

\* Region and certificate are taken over as they are, "" if missing.
LEMMA OptionalParameters ==
  ASSUME NEW s
  PROVE  /\ Parameters(s).Region = Str(s.region)
         /\ Parameters(s).TLSCert = Str(s.tlsCert)
BY DEF Parameters, Str

(***************************************************************************)
(* The transport skips verification only if there is no certificate at     *)
(* all, and is never the plain one.                                        *)
(***************************************************************************)
LEMMA TransportVerifies ==
  ASSUME NEW cert
  PROVE  /\ ConfigureTLSTransport(cert) = "unverified" => cert = ""
         /\ ConfigureTLSTransport(cert) # "plain"
BY DEF ConfigureTLSTransport

---------------------------------------------------------------------------

\* Before a call has looked at anything, it holds nothing.
LEMMA InitConfigInv == Init => ConfigInv
<1> SUFFICES ASSUME Init PROVE ConfigInv
  OBVIOUS
<1>1. store \in [Namespaces -> Secrets \union Edits \union {None}]
  BY DEF Init
<1>2. \A n \in Namespaces : <<n, store[n]>> \in stood
  BY DEF Init
<1>3. pc = "info" /\ ~Built
  BY DEF Init, Built
<1>4. /\ service \in {"S3", "IAM"}
      /\ class \in [name : {"", "secret"}, namespace : {"", "class"}]
      /\ podNs \in {"", "driver"}
  BY DEF Init
<1> QED  BY <1>1, <1>2, <1>3, <1>4 DEF ConfigInv

\* A call that fails keeps what it holds, and has built no client.
LEMMA FailKeeps ==
  ASSUME ConfigInv, Fail, pc \notin {"ready", "sent"}
  PROVE  ConfigInv'
BY DEF ConfigInv, Fail, inputs, Built

\* What a call holds stays right while only the Secrets around it change.
LEMMA CallUntouched ==
  ASSUME ConfigInv, UNCHANGED <<pc, inputs, ns, secret, params, client>>,
         stood \subseteq stood',
         store' \in [Namespaces -> Secrets \union Edits \union {None}],
         \A n \in Namespaces : <<n, store'[n]>> \in stood'
  PROVE  ConfigInv'
<1>1. UNCHANGED <<SecretNamespace, Url, Built>>
  BY DEF inputs, SecretNamespace, Url, Built
<1>2. Parameters(secret)' = Parameters(secret)
  BY DEF Parameters, Str
<1>3. Validate(params)' <=> Validate(params)
  BY DEF Validate
<1>4. ClientFor(Url)' = ClientFor(Url)
  BY <1>1 DEF ClientFor, ConfigureTLSTransport
<1> QED  BY <1>1, <1>2, <1>3, <1>4, Zenon DEF ConfigInv, inputs

\* The client of the parameters does not change while they do not.
LEMMA SameClient ==
  ASSUME UNCHANGED <<params, service>>
  PROVE  ClientFor(Url)' = ClientFor(Url)
<1>1. Url' = Url
  BY DEF Url
<1> QED  BY <1>1 DEF ClientFor

\* A client is the one of its endpoint but for the location it has sent.
LEMMA ClientButLocation ==
  ASSUME NEW url, NEW c, NEW l,
         c = ClientFor(url) \/ c = [ClientFor(url) EXCEPT !.location = l]
  PROVE  c = [ClientFor(url) EXCEPT !.location = c.location]
BY DEF ClientFor

\* Every step of the call, and every edit of a Secret, keeps the invariant.
LEMMA NextConfigInv == ConfigInv /\ [Next]_vars => ConfigInv'
<1> SUFFICES ASSUME ConfigInv, [Next]_vars PROVE ConfigInv'
  OBVIOUS
<1>1. CASE fetchObjectStorageProviderSecretInfo
  <2>1. CASE Fail
    BY <1>1, <2>1, FailKeeps DEF fetchObjectStorageProviderSecretInfo
  <2>2. CASE /\ class.name # "" /\ SecretNamespace # ""
             /\ pc' = "get" /\ ns' = SecretNamespace
             /\ UNCHANGED <<inputs, store, secret, params, client, stood>>
    <3>1. SecretNamespace \in Namespaces
      BY <2>2 DEF SecretNamespace, Namespaces, ConfigInv
    <3> QED
      BY <1>1, <2>2, <3>1
      DEF ConfigInv, fetchObjectStorageProviderSecretInfo, SecretNamespace, inputs, Built
  <2> QED  BY <1>1, <2>1, <2>2 DEF fetchObjectStorageProviderSecretInfo
<1>2. CASE GetSecret
  <2>1. CASE Fail
    BY <1>2, <2>1, FailKeeps DEF GetSecret
  <2>2. CASE /\ store[ns] # None
             /\ secret' = store[ns] /\ pc' = "params"
             /\ UNCHANGED <<inputs, store, ns, params, client, stood>>
    BY <1>2, <2>2 DEF ConfigInv, GetSecret, SecretNamespace, inputs, Built
  <2> QED  BY <1>2, <2>1, <2>2 DEF GetSecret
<1>3. CASE fetchS3Parameters
  <2>1. CASE Fail
    BY <1>3, <2>1, FailKeeps DEF fetchS3Parameters
  <2>2. CASE /\ Validate(Parameters(secret))
             /\ params' = Parameters(secret) /\ pc' = "init"
             /\ UNCHANGED <<inputs, store, ns, secret, client, stood>>
    <3>1. Validate(params)' /\ params' = Parameters(secret)'
      BY <2>2 DEF Validate, Parameters, Str
    <3> QED
      BY <1>3, <2>2, <3>1
      DEF ConfigInv, fetchS3Parameters, SecretNamespace, inputs, Built
  <2> QED  BY <1>3, <2>1, <2>2 DEF fetchS3Parameters
<1>4. ASSUME NEW svc \in {"S3", "IAM"}, NEW url, Build(svc, url), service = svc => url = Url
      PROVE  ConfigInv'
  <2>1. CASE Fail
    BY <1>4, <2>1, FailKeeps DEF Build
  <2>2. CASE /\ client' = ClientFor(url) /\ pc' = "ready"
             /\ UNCHANGED <<inputs, store, ns, secret, params, stood>>
    <3>1. client' = [ClientFor(Url)' EXCEPT !.location = client'.location]
      <4>1. client' = ClientFor(Url) /\ ClientFor(Url)' = ClientFor(Url)
        BY <1>4, <2>2, SameClient DEF Build, inputs
      <4> QED  BY <4>1, ClientButLocation
    <3>2. Validate(params)' /\ params' = Parameters(secret)'
      BY <1>4, <2>2 DEF Build, ConfigInv, Validate, Parameters, Str
    <3> QED
      BY <1>4, <2>2, <3>1, <3>2 DEF ConfigInv, Build, SecretNamespace, inputs, Built
  <2> QED  BY <1>4, <2>1, <2>2 DEF Build
<1>5. CASE InitS3Client
  BY <1>4, <1>5 DEF InitS3Client, Url
<1>6. CASE InitIAMClient
  BY <1>4, <1>6 DEF InitIAMClient, Url
<1>7. CASE CreateBucket
  <2>1. client' = [ClientFor(Url)' EXCEPT !.location = client'.location]
    <3>1. ClientFor(Url)' = ClientFor(Url)
      BY <1>7, SameClient DEF CreateBucket, inputs
    <3>2. client = [ClientFor(Url) EXCEPT !.location = client.location]
      BY <1>7 DEF CreateBucket, ConfigInv
    <3>3. PICK l : client' = [client EXCEPT !.location = l]
      BY <1>7 DEF CreateBucket
    <3>4. client' = [ClientFor(Url) EXCEPT !.location = l]
      BY <3>2, <3>3 DEF ClientFor
    <3> QED  BY <3>1, <3>4, ClientButLocation
  <2>2. Validate(params)' /\ params' = Parameters(secret)'
    BY <1>7 DEF CreateBucket, ConfigInv, Validate, Parameters, Str
  <2> QED
    BY <1>7, <2>1, <2>2 DEF ConfigInv, CreateBucket, SecretNamespace, inputs, Built
<1>8. ASSUME NEW n \in Namespaces, NEW s \in Edits \union {None}, EditSecret(n, s)
      PROVE  ConfigInv'
  <2>1. /\ store' \in [Namespaces -> Secrets \union Edits \union {None}]
        /\ \A m \in Namespaces : <<m, store'[m]>> \in stood'
    BY <1>8 DEF EditSecret, ConfigInv
  <2>2. UNCHANGED <<pc, inputs, ns, secret, params, client>>
        /\ stood \subseteq stood'
    BY <1>8 DEF EditSecret
  <2> QED  BY <2>1, <2>2, CallUntouched
<1>9. CASE UNCHANGED vars
  <2>1. /\ UNCHANGED <<pc, inputs, ns, secret, params, client, stood, store>>
        /\ store \in [Namespaces -> Secrets \union Edits \union {None}]
        /\ \A n \in Namespaces : <<n, store[n]>> \in stood
    BY <1>9 DEF vars, ConfigInv
  <2> QED  BY <2>1, CallUntouched
<1> QED  BY <1>1, <1>2, <1>3, <1>5, <1>6, <1>7, <1>8, <1>9 DEF Next

(***************************************************************************)
(* At every step the call holds what the Secret held when it was read.     *)
(***************************************************************************)
THEOREM ConfigInvariance == Spec => []ConfigInv
BY InitConfigInv, NextConfigInv, PTL DEF Spec

\* What a client is made of, once it is there.
LEMMA ClientParts ==
  ASSUME ConfigInv, Built
  PROVE  /\ params = Parameters(secret) /\ Validate(params)
         /\ secret \in Secrets \union Edits
         /\ <<SecretNamespace, secret>> \in stood
         /\ client.id = params.AccessKeyID /\ client.key = params.SecretAccessKey
         /\ client.url = Url /\ params.Region \in {client.region, ""}
         /\ client.tls = IF Url = "https" THEN ConfigureTLSTransport(params.TLSCert)
                                          ELSE "plain"
<1>1. client = [ClientFor(Url) EXCEPT !.location = client.location]
  BY DEF ConfigInv
<1>2. params.Region \in {ClientFor(Url).region, ""}
  BY DEF ClientFor
<1>3. params.Region \in {client.region, ""}
  <2>1. client.region = ClientFor(Url).region
    BY <1>1 DEF ClientFor
  <2> QED  BY <1>2, <2>1
<1> QED  BY <1>3 DEF ConfigInv, ClientFor

(***************************************************************************)
(* Credentials, endpoint and region, if any, of a client all come from one *)
(* content that the Secret had, in the namespace the class asks for.       *)
(***************************************************************************)
THEOREM OneSecret == Spec => []ClientOfOneSecret
<1>1. ConfigInv => ClientOfOneSecret
  <2> SUFFICES ASSUME ConfigInv, Built
               PROVE  \E p \in stood :
                        /\ p[1] = SecretNamespace /\ p[2] # None
                        /\ client.id = p[2].accessKeyId
                        /\ client.key = p[2].secretAccessKey
                        /\ Str(p[2].region) \in {client.region, ""}
                        /\ \/ client.url = p[2].endpoint
                           \/ service = "IAM" /\ client.url = p[2].iamEndpoint
    BY DEF ClientOfOneSecret, SecretNamespace
  <2>1. secret # None /\ <<SecretNamespace, secret>> \in stood
    BY ClientParts, ConfigAssumption
  <2>2. /\ client.id = secret.accessKeyId /\ client.key = secret.secretAccessKey
        /\ Str(secret.region) \in {client.region, ""}
    BY ClientParts, ValidatedParameters, OptionalParameters
  <2>3. \/ client.url = secret.endpoint
        \/ service = "IAM" /\ client.url = secret.iamEndpoint
    <3>1. params.Endpoint = secret.endpoint
          /\ params.IAMEndpoint \in {secret.iamEndpoint, secret.endpoint}
      BY ClientParts, ValidatedParameters
    <3>2. client.url = Url /\ service \in {"S3", "IAM"}
      BY ClientParts DEF ConfigInv
    <3> QED  BY <3>1, <3>2 DEF Url
  <2> QED  BY <2>1, <2>2, <2>3
<1> QED  BY <1>1, ConfigInvariance, PTL

(***************************************************************************)
(* Whatever is missing or empty in a Secret, no client goes without        *)
(* credentials or endpoint.                                                *)
(***************************************************************************)
THEOREM Complete == Spec => []ClientComplete
<1>1. ConfigInv => ClientComplete
  BY ClientParts, ValidatedParameters DEF ClientComplete, Url
<1> QED  BY <1>1, ConfigInvariance, PTL

(***************************************************************************)
(* An HTTPS client skips the verification of its peer only if the Secret   *)
(* has no certificate, and plain connections go to http endpoints only.    *)
(***************************************************************************)
THEOREM CertificateDecides == Spec => []CertificateCounts
<1>1. ConfigInv => CertificateCounts
  <2> SUFFICES ASSUME ConfigInv, Built
               PROVE  /\ client.tls = "unverified" => Str(secret.tlsCert) = ""
                      /\ client.tls = "plain" <=> client.url # "https"
    BY DEF CertificateCounts
  <2>1. params.TLSCert = Str(secret.tlsCert)
    BY ClientParts, OptionalParameters
  <2> QED  BY <2>1, ClientParts, TransportVerifies
<1> QED  BY <1>1, ConfigInvariance, PTL

============================================================================
