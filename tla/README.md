# Verification of the Scality COSI driver

TLA+ models, TLC configurations and TLAPS proofs for the driver in this
repository: a gRPC server that the COSI provisioner sidecar calls to create and
delete buckets and to grant and revoke access to them, and that carries these
calls out with S3 and IAM requests to an object storage provider. Paths below
are relative to the repository.

## 1. Inventory

| Component | State | Operations | Talks to |
|---|---|---|---|
| Provisioner server (`pkg/driver/provisioner_server_impl.go`) | none between calls; per call: parameters, client, progress | `DriverCreateBucket`, `DriverDeleteBucket`, `DriverGrantBucketAccess`, `DriverRevokeBucketAccess`, client initialisation | Kubernetes API (Bucket objects, Secrets), S3 and IAM clients |
| IAM client (`pkg/clients/iam`) | none | `CreateBucketAccess` (user, policy, key), `RevokeBucketAccess` (check, policy, keys, user) | provider, over HTTP with a 15 s timeout and SDK retries |
| S3 client (`pkg/clients/s3`) | none | `CreateBucket`, `DeleteBucket` | provider, likewise |
| Error translation (`pkg/osperrors`) | two constant tables | provider error code and action to gRPC status | called by the handlers |
| Client configuration (`pkg/util`, `fetchS3Parameters`) | none | Secret fields to client parameters, validation, TLS | Secrets |
| Process lifecycle (`cmd/scality-cosi-driver`, `pkg/grpcfactory/server.go`) | signal channel, context, listener socket, metrics server, tracer | start-up, serve, graceful stop, forced exit | signals, unix socket |
| gRPC factory, identity server | none | wiring, constant reply | sidecar |
| Metrics (`pkg/metrics`) | counters and histograms | one observation per request | Prometheus |
| *External:* object storage provider | buckets, users, inline policies, access keys | S3 and IAM requests | |
| *External:* COSI sidecar | BucketClaim and BucketAccess life cycles | calls, retries with backoff | driver |

What makes this hard is that the driver keeps no state. Whatever one call did is
known to the next only through the provider, and a call is a sequence of requests
each of which may be refused, or lost, or carried out with its answer lost. Two
calls on the same access may run at once (the sidecar gives up waiting, the
process does not), the process may be killed between two requests, the SDK
repeats requests that went unanswered, a request that was given up may be
carried out later, and the account a call acts for is looked up in a Secret each
time. `PROJECT.json` lists these hazards at their source lines.

Correctness, per component:

* **provisioner and IAM client** - success means the work is done and stays done
  until someone undoes it; a revoke that succeeded leaves no usable key; no
  handler dereferences credentials it was not given; every call returns;
* **error translation** - a missing resource is success for delete and revoke
  only, and no other error ever is;
* **with the sidecar** - repeating a call until it succeeds gets there in the end,
  and what was reported ready can be used until its deletion is asked for;
* **client configuration** - a client belongs to one Secret, is complete, and
  does not skip verification when a certificate was given;
* **process** - a shutdown ends; a graceful one lets handlers finish; whatever
  ends the process, it can be started again.

## 2. Modules

| Module | Models |
|---|---|
| `OspErrors` | `pkg/osperrors`: the two tables and the translation |
| `ObjectStorage` | the provider, external: what each S3 and IAM request does and which code refuses it |
| `Provisioner` | the four handlers with both clients, over `ObjectStorage` and the cluster; properties and the inductive invariant |
| `ProvisionerProofs` | proofs about `Provisioner`: what success replies mean |
| `ProgressProofs` | proofs about `Provisioner`: why calls end and revokes get through |
| `DriverContract` | abstract: what the four calls promise, without users, policies, attempts, Secrets or Bucket objects |
| `ProvisionerContract` | the refinement mapping from `Provisioner` to `DriverContract` |
| `ContractProofs` | the proof that `Provisioner` implements `DriverContract` |
| `MCProvisioner` | symmetry for TLC, and statements of the repository's documentation that the runs refute |
| `CosiSidecar` | the sidecar's retry loops over BucketClaim and BucketAccess objects, external, driving `Provisioner` |
| `CosiSidecarProofs` | proofs about `CosiSidecar` |
| `DriverProcess` | `main.go`, `cmd.go`, `pkg/grpcfactory/server.go`: start-up, signals, shutdown, restarts |
| `DriverProcessProofs` | proofs about `DriverProcess` |
| `ClientConfig` | from class parameters and Secret to a client: `initializeObjectStorageClient`, `pkg/util`, the client constructors |
| `MCClientConfig` | every small Secret, for TLC |
| `ClientConfigProofs` | proofs about `ClientConfig` |

`CosiSidecar` composes the sidecar with `Provisioner`; `ProvisionerContract`
extends `Provisioner` and instantiates `DriverContract`. Each module of proofs extends
the module it is about; `ContractProofs`, `CosiSidecarProofs` and `ProgressProofs` also
extend `ProvisionerProofs` and use its lemmas. `DriverProcess` and
`ClientConfig` stand beside them: a handler of `Provisioner` is a member of `calls`
in `DriverProcess`, whose `Kill`, `SecondSignal` and `ShutdownTimeout` are what
`Provisioner` calls `Crash`; the account that `InitClient` of `Provisioner` finds is the identity of
the client that `ClientConfig` builds step by step.

### How the model follows the code

* `pc[r]` is the blocking call that the goroutine of call `r` is waiting in:
  `GetBucket` (the Bucket object), `InitClient` (the Secret), or one provider
  request. Code between two blocking calls is local and belongs to the action of
  the first. There is one action per method of the clients; the loop of
  `DeleteAllAccessKeys` is `DeleteAccessKey`, with `page` the keys listed and `todo`
  those of them not yet reached.
* Every error path of client initialisation ends in `codes.Internal` in all four
  handlers, so `InitClient` either yields the account whose keys the Secret holds
  or returns `Internal`. The type checks on the client (`client.(*S3Client)`)
  cannot fail, since each handler names the service whose client it then expects,
  and are left out.
* `StatusOf` is the handlers' `if err != nil { if translated != nil ... } }`: a
  provider error that translates to nil falls through to the success return.
  For a grant that return reads `userInfo`, which is nil, so the reply is `Panic`.
* `Unanswered` is an HTTP timeout or a cancelled context: another attempt while
  the SDK has one left, otherwise an error that is no `smithy.APIError`. The
  request may have been lost or may linger in `late`; a lingering request is
  carried out, or dies out, at any later moment (`LateArrival`), also after its
  call has returned, and also if it was sent again and answered in the meantime.
* `Crash` is a killed process or a forced exit: all calls vanish without a reply, and
  requests under way may linger.
* Bucket objects and Secrets change under the driver at any time, in any way.
* Payloads, names, messages, logs, metrics and tracing are left out. The secret
  half of an access key stands and falls with its identifier.

`seen[r]` and `contended` are history variables that no action reads in a guard.
`seen[r]` holds the keys that had been issued when the call came in. `contended`
holds the calls whose work another call has set out to undo: an opposite call
(create/delete, grant/revoke) on the same bucket or user in the same account that
was sending requests, or had left requests behind, when the client of `r` was
initialised, or that initialised its own later.

### The contract

`DriverContract` says what a caller may rely on. A call is taken, finds the account
it acts for, has effects, and succeeds or fails. A success is one step, and at that
step it is true: the bucket becomes the account's or no longer is, the key in the
reply has just been issued, the user has no key left. Effects may happen beside
and after the calls, but only by work that was asked for (`atWork`), under the
names and the account it was asked for; a key that was taken back is never issued
again. `ImplementsContract` is `DriverContract`'s specification under the mapping
of `ProvisionerContract`: a call is busy until `done`, and `atWork` is what the
requests in progress and the lingering ones belong to.

### The sidecar

An object is absent, wanted, ready, deleting and gone. The reply the sidecar waits
for moves it on; any other outcome is retried, except that `AlreadyExists` ends a
creation ("No more retries", `provisioner_server_impl.go:105`). Assumed of it, since it is
external: the Bucket object is there from the claim until its deletion has
succeeded (the sidecar's finalizer; a lookup of it may fail all the same), a bucket is deleted only when no access to it is left, a bucket that
was never created is not deleted through the driver (there is no `bucket_id`),
and names are not reused. `NameTaken` is another tenant that takes the bucket's
name before the claim gets it.

### The process

`main` is the step of the main goroutine, `watcher` that of the signal goroutine,
`srv` what the goroutine in `server.Serve` and its connections are doing. A signal,
a failure or a kill may come at any step. Two facts about the libraries matter:
closing a unix listener removes its file, and listening on a path that exists fails
(a test in `server_test.go` says so too); `GracefulStop` closes only a listener that
`Serve` has taken over, and `Serve` after it closes the listener and returns.
So after a signal during start-up the file is removed by the deferred `Close` of
`Run`, or by the goroutine if that is faster. `sigs` is the signal channel: it holds
one signal, so a second one sent before the first is taken is dropped and `SecondSignal`
is not enabled. Time is not modelled: the 30 s limit (`ShutdownTimeout`) may pass at
any moment after the first signal is taken. `asked` is a history variable: the process
has been sent a signal. The checks of `InitProvisionerServer` are the failing half
of `CreateDriver`.

### The client configuration

One call runs `initializeObjectStorageClient` over two namespaces whose Secrets
are edited meanwhile. Values are kept as far as the code looks at them: missing,
empty, the scheme of an endpoint, PEM or not. Given an empty region the SDK looks for one in
its environment, which is `SdkRegion`. `stood` records what the Secrets
have been during the call.

### What is assumed of the provider

The S3 and IAM rules the clients rely on: names are unique (bucket names across
accounts, user names within one), a bucket with objects is not deleted, a user
with keys or policies is not deleted (`DeleteConflict`), and an access key
identifier is issued once. A request is carried out atomically. It may be refused for
other reasons with any code in `SpontaneousErrors`, which may not include the
codes that say that something is missing: a provider that falsely answers
`NoSuchEntity` makes any idempotent delete lie, and no client can help it. The
owner of a bucket may create it again without an error, as some regions allow.
`ListAccessKeys` returns any page of at most `PageSize` keys; the client reads
one page.

## 3. Runs

| Run | Instance | What it shows |
|---|---|---|
| `access` | 2 goroutines, 1 access, 2 keys, 2 attempts, pages of 1, 1 lingering request | `RevokedKeysStayDead`: a successful revoke has killed every key that existed when it came in, whatever ran beside it. `GrantedAccessHolds`, `RevokedAccessHolds`: an uncontended success means a usable access, or nothing left of it. `RevokeClears`: by its `DeleteUser` a revoke has killed what it listed. `IInv`, the inductive invariant of the proofs |
| `accounts` | 2 goroutines, 1 access, 2 accounts, 1 key, 1 lingering request | the same of grants and revokes while the Secret is edited between two accounts: `RevokedKeysStayDead`, `GrantedAccessHolds`, `RevokedAccessHolds` speak of the account each call found at its start |
| `contract` | 2 goroutines, 1 access, 2 keys, pages of 2, 1 lingering request | `ImplementsContract` for grants and revokes; `RevokeClears` where a page may hold every key |
| `buckets` | 2 goroutines, 1 bucket name, 2 accounts, 2 attempts, 1 lingering request | `CreatedBucketHolds`, `DeletedBucketHolds`, `ImplementsContract`, with workloads filling the bucket and accounts competing for the name |
| `calls` | 1 goroutine, all operations, every code of both tables and one in neither | `NoPanic`; `HandlersAdvance`: every step of a handler leaves less to do; `EveryCallReturns` under weak fairness of the handlers |
| `sidecar` | 1 BucketClaim, 1 BucketAccess to it, 2 goroutines, up to 2 faults, 3 keys, pages of 1, a rival account | `DeliveredKeysDie`, `GrantedStaysUsable`, `ReadyBucketHolds`, the invariant `SidecarInv`; `OnlyAsAsked`: no step takes away, makes or touches at the provider what its object was not asked for; `RevokeConverges`, `DeleteConverges`: retried revokes and deletes succeed from any partial state |
| `process` | 2 calls, 2 faults, 3 signals, OTLP exporter | `StaleSocketOnlyAfterKill`, `GracefulCutsNoCall`, the invariant `ProcessInv`; `ShutdownProceeds`: a process never goes back and, once cancelled, keeps its forced exit; `ShutdownEnds`: once sent a signal it ends, even if handlers hang and further signals are dropped; `ServesAgain` |
| `config` | every Secret with 2 to 4 values per key, in either of 2 namespaces, another tenant's Secret written over it or beside it | `ClientOfOneSecret`, `ClientComplete`, `CertificateCounts`, the invariant `ConfigInv` |
| `create_idempotent` | 1 goroutine | refuted: creating a bucket again with the same parameters is answered `AlreadyExists` |
| `revoke_removes` | 1 goroutine, 2 accounts, 2 parameter maps | refuted: a revoke succeeds in another account than the grant's, whose key stays live |
| `grant_converges` | 1 BucketAccess, 1 fault | refuted: one crash or lost answer after `CreateUser` makes every retry fail |
| `restart` | 1 call, 1 fault | refuted: after one kill no restarted process serves |

**Bounds.** Two goroutines are what an interleaving of a call with its opposite
or its own repetition needs; the next calls are reached since goroutines are
reused. `MaxLate` = 1 lets a straggler of an earlier call meet two later ones.
`PageSize` = 1 with two keys makes a page too small to hold all keys; `PageSize` = 2,
in `contract` and `calls`, makes loops of more than one key and pages that are not full.
`MaxAttempts` = 2 lets one call issue two keys, the one answered and the one not.
The SDK's default is 3; a third attempt adds nothing a second did not.
In the sidecar runs an extra key costs a fault, so `MaxFaults` + 1 keys suffice and
granting never stops for want of one. Goroutines, keys and accounts are
interchangeable in safety runs and declared symmetric; runs with liveness
properties use no symmetry. The contract for grants and revokes is checked with one
attempt per request, since a repeated request differs from a lingering one only
in who waits for it. In `process` two faults make a failure during the recovery from
another one possible, and three signals reach the second signal of one process
after the first of another, or a dropped one. The proofs have none of these
bounds. The runs of `CosiSidecar` and `ClientConfig` do not check deadlock: an
object that is gone, and a client that is built, are the end of the story. All
others do.

**Fairness.** `FairSpec` has weak fairness of each handler's steps: the Go
scheduler runs every goroutine, and every provider request ends by the 15 s HTTP
timeout. The handlers also wait for the Kubernetes API, in the Gets of the Bucket object and
the Secret (`provisioner_server_impl.go:156`, `258`, `299`). The driver sets no timeout
for these; that they end is an assumption, on the deadline of the sidecar's call, which
is their context, and on the API server's own limit for requests. No fairness is assumed of the
cluster, workloads or crashes, and none of successful answers, so
`EveryCallReturns` holds even if every request times out. `SidecarSpec` has weak
fairness of the sidecar's calls (failed objects are requeued), of the steps in
which neither a lookup nor an answer is lost, of replies, of stragglers, and of
workloads emptying a bucket that is to go; faults
are bounded in number, since no retry converges if every answer is lost.
`grant_converges` fails under this same fairness, so it is not for want of
retries. `FairSpec` of `DriverProcess` has weak fairness of restarts (the
container's restart policy), of the main, signal and `Serve` goroutines, with the
30 s timer among the steps of the second, but none of calls returning: `ShutdownEnds` holds even if a handler
hangs. Signals and faults are bounded there too; kills need not be for
`ServesAgain`, which gives up at the first one.

**Findings.** The four refuted statements are quoted with their lines in
`PROJECT.json`. The two create paths do not recognise their own earlier
work: `EntityAlreadyExists` and `BucketAlreadyOwnedByYou` end the call, so a
partial or repeated call cannot be completed; a partial grant is
cleaned up by a revoke under its user name, which does converge, provided the
sidecar makes one. A grant takes its Secret from the
BucketAccessClass, a revoke from the Bucket object. A leftover socket file stops
every later process until the pod is replaced. Noted while modelling, and not a matter of
behaviour over time: `run` passes `defaultMetricsPrefix` to `InitializeMetrics`
(`cmd.go:134`), so the flag `--driver-custom-metrics-prefix` (`docs/driver-params.md:37`)
has no effect; and `docs/driver-params.md:21` requires a `region` in
the Secret while `Validate` does not, and without one the default of
`NewStorageClientParameters` is overwritten with an empty value.

## 4. Proofs

`ProvisionerProofs` proves, for any number of goroutines, buckets, users,
accounts and keys, and any page size, attempts and lingering requests:

| Theorem | Statement |
|---|---|
| `Invariance` | `Spec => []IInv` |
| `GrantNeverPanics` | `Spec => []NoPanic` |
| `RevokeIsFinal` | `Spec => []RevokedKeysStayDead` |
| `GrantHolds` | `Spec => []GrantedAccessHolds` |
| `RevokeHolds` | `Spec => []RevokedAccessHolds` |
| `CreateHolds` | `Spec => []CreatedBucketHolds` |
| `DeleteHolds` | `Spec => []DeletedBucketHolds` |

`ProgressProofs` proves, under the same generality:

| Theorem | Statement |
|---|---|
| `CallsAdvance` | `Spec => HandlersAdvance` |
| `RevokesClear` | `Spec => []RevokeClears` |
| `OnlyTheseConflicts` | `Spec => []ConflictsExplained` |

`DriverProcessProofs` proves, for any calls, exporter and number of faults and
signals:

| Theorem | Statement |
|---|---|
| `ProcessInvariance` | `Spec => []ProcessInv` |
| `NoStaleSocket` | `Spec => []StaleSocketOnlyAfterKill` |
| `GracefulShutdown` | `Spec => []GracefulCutsNoCall` |
| `ShutdownNeverStalls` | `Spec => ShutdownProceeds` |

`ContractProofs` proves, under the same generality as `ProvisionerProofs`:

| Theorem | Statement |
|---|---|
| `Implementation` | `Spec => ImplementsContract` |

`CosiSidecarProofs` proves, for any number of claims, accesses to one bucket, calls,
faults and stragglers:

| Theorem | Statement |
|---|---|
| `SidecarInvariance` | `SidecarSpec => []SidecarInv` |
| `KeysDie` | `SidecarSpec => []DeliveredKeysDie` |
| `AccessUsable` | `SidecarSpec => []GrantedStaysUsable` |
| `BucketHolds` | `SidecarSpec => []ReadyBucketHolds` |
| `DriverDoesAsAsked` | `SidecarSpec => OnlyAsAsked` |

`ClientConfigProofs` proves, for any sets of Secrets and of edits to them:

| Theorem | Statement |
|---|---|
| `ConfigInvariance` | `Spec => []ConfigInv` |
| `OneSecret` | `Spec => []ClientOfOneSecret` |
| `Complete` | `Spec => []ClientComplete` |
| `CertificateDecides` | `Spec => []CertificateCounts` |

They rest on the named assumptions on the constants (`NoneAssumption`,
`SpontaneousAssumption`, `ProvisionerAssumption`, `SidecarAssumption`,
`ProcessAssumption`, `ConfigAssumption`), which TLC evaluates in
the runs. Of these only `SpontaneousAssumption` says something about the
environment (see the provider above); the others give the constants their types and
keep `None` apart from real values, and users apart from buckets.

**The invariant.** None of the properties is inductive. `RevokedKeysStayDead` is
established by the final `DeleteUser`, which the provider accepts only with no key
left, or by finding the user missing; that a missing user has no keys is
`StorageInv`, and that a dead key never comes back needs that keys under a user
have been issued before (`minted`) and that `seen` stays within `minted`.
`GrantedAccessHolds` is established by `CreateAccessKey`, but that the user and
the policy are still there is work of earlier requests: `GrantProgress` records
what each step has put in place. That nothing takes it away is
`ContentionNoted`: while a call is not contended, no opposite call sends
requests and none lingers.

**The argument.** `ExecuteFrame` says once what any provider request may change:
it adds only for a create or grant, removes only for a delete or revoke, and only
what its own account, bucket or user names. `PromiseKept` concludes that a handler which takes no part
in a step keeps what it promises, since a request that could hurt it would be an
opposite one (`Harmless`). So each action needs an argument only for the handler that moves:
`ApiStepKeeps` reduces the invariant to the promise of that handler, and one
lemma per action proves it. `StatusOK` does so for errors: an error is
reported as success only if what was to go is not there.

**Why calls end.** `HandlersAdvance` orders the states of a call by the steps still to come
(`StepsLeft`), then by the keys in `todo`, then by the attempts left. `HandleAdvances`
shows, action by action, that each step of a handler goes down in this order: errors return,
successes move to a step with fewer to come, the loop over keys crosses one off, and an
unanswered request uses up an attempt. `NextStepFor` shows that every step of the system
is, for every handler, its own, the start or end of its call, or none at all. The
order is well-founded, since a page is finite; with the weak fairness of `FairSpec` this is
`EveryCallReturns`, which only its last, temporal step keeps from being a theorem.

**Why revokes get through.** `RevokeClears` says what has been cleared at each step of a revoke,
relative to the keys it listed (`page`). A key of the page that is still live is one the
loop has yet to come to, because a key that was deleted, or found missing, never comes back:
keys of a page have been issued, and a key is issued once. The keys from before the call
(`seen`) that are still live are in the page, unless it is full. Without contention nothing is
added at all (`WaitingAdds`, from `ContentionNoted`), so that the same holds of every key,
and the policy for the bucket stays away once deleted. `Cleared` is preserved beside `IInv`:
`WaitingCleared` when others move, one lemma for each step that clears. `OnlyTheseConflicts`
draws the conclusion: an undisturbed revoke is refused its `DeleteUser` only over keys
beyond a full page, and then the next revoke has a page of keys fewer before it, or over a
policy for another bucket. The latter no repetition removes. The sidecar's accesses have a
user each and one bucket, so that it does not arise in `RevokeConverges`.

**The process.** `StaleSocketOnlyAfterKill` speaks of a process that is down; what
carries it there is `SocketInv`: an open listener has its file and is closed before the
last deferred calls, and a file without an open listener was left by a process that died.
`DrainInv` does the same for calls: none before `Listen`, none once `GracefulStop`
has returned, because no connection is left then and `Serve` cannot start any more.
Each is preserved by every step alone, given the types. `ShutdownProceeds` counts the steps
`main` has before it (`MainLeft`): each step of `main`, failed or not, lowers the count
(`MainStepLeft`) and nothing else raises it before the process has ended (`NextLeft`). Its
last conjunct needs that only the signal goroutine cancels the context, and waits for a
second signal or the limit from then on (`SignalInv`, which also says that a process that
was sent a signal has it in the channel or is cancelled, whatever was dropped): so the forced exit does not go away while a drain
waits for a handler that hangs, which is what `ShutdownEnds` rests on.

**The contract.** Every step of `Provisioner` is mapped to a step of `DriverContract` or
to none that it sees, with one lemma per action (`...Allowed`). `EffectOfRequest` says
that a request carried out is an effect the contract grants the work it belongs to,
whoever sent it and however late it comes; the rest is about replies. A success
must be true at the step that reports it: a created bucket is, since the provider
carried the request out; a deleted one and a revoked user because `StatusOK` allows an
error to pass for success only if what was to go is missing, and a missing user has no keys
(`StorageInv`). That no reply of a grant is a success on an error is `StatusOK` again.
The contract keeps the key of a granted call as its credentials, which needs that the
key was issued (`IssuedKeyReturned`, a conjunct of `IInv`).

**The sidecar.** `SidecarInv` relates the phases of objects to the work in the driver. It
contains `IInv`, for the sidecar's steps are steps of `Provisioner`, all but
`NameTaken`, for which `NameTakenOwned` shows that no success reply was about a free
name. `CallsOwned` and `LateOwned` say that every call and every straggler serves an
object that was asked for, and takes something back only if its deletion was; since
phases only go forward (`Onward`), this outlives the call, a hang-up, and a crash.
Two things follow. A request carried out, at whatever time, is one its object asked for
(`Moved`), which with `ExecuteFrame` is `OnlyAsAsked` and keeps ready objects usable. And
calls are contended only once their object is being deleted, so that the success
for an object still wanted is uncontended and what `IInv` promises of it holds when the object
becomes ready. `DeliveredKeysDie` needs more, because keys are delivered by one call and
killed by another: `AwaitedOwned` records that an awaited revoke came in after every
delivery (the sidecar waits for one call per object), so that `RevokedKeysStayDead` of its
reply covers them all. A grant the sidecar gave up on may still issue keys afterwards;
none of these is ever delivered.

**The client configuration.** `ConfigInv` records, for each step of
`initializeObjectStorageClient`, what the call holds: the namespace, then one content of the
Secret that stood there, then exactly the parameters of this content, validated, then the
client of these. Edits leave it alone, since the Secret is read once.

**Only model-checked.** Liveness (`EveryCallReturns`, `RevokeConverges`,
`DeleteConverges`, `ShutdownEnds`, `ServesAgain`), since fairness is beyond the
prover; the measures that `EveryCallReturns` and `ShutdownEnds` rest on are proved. And the
four refuted statements, whose counterexamples TLC gives. Every invariant and action
property that a run checks, and the refinement, is proved.

## 5. Not modelled

Not modelled: the gRPC factory's nil checks, its client half (which the driver does not
use) and its logging interceptors; the identity server's constant reply; the
counters of `pkg/metrics`, which are only added to and never read; parsing of the
command line; and the mocks. None has state a property could be about. Whether
the last spans reach the collector when the tracer provider is shut down with a
cancelled context (`cmd.go:156`) is left open: nothing promises it.
