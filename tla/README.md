# Swarm external secrets: a TLA+ verification project

The plugin serves Docker Swarm secrets from an external provider (Vault,
OpenBao, Infisical, AWS, GCP, Azure, OCI) and rotates them: when a value changes
at the provider, the Docker secret is replaced and the services that use it are
moved to the new one.  This directory holds TLA+ models of its concurrent
parts, TLC configurations that check them on small instances, and proofs for
TLAPS.  `PROJECT.json` lists components, runs, mutants, findings, hazards and
theorems, and maps every definition to the lines it models.

## 1. Inventory

| Component | State | Operations | Interacts with |
|---|---|---|---|
| **Secrets driver** (`driver.go`) | `secretTracker`: name -> path, `LastHash`, services; guarded by `trackerMutex` | `Get` and `trackSecret`; the ticker (`startMonitoring`, `checkForSecretChanges`); one goroutine per tracked secret: `hasSecretChanged`, `rotateSecret`, `updateDockerSecret`, `updateServicesSecretReference`; `Stop` | provider (fetch), transformer (decrypt), Docker API (secrets, services), Monitor (counters, heartbeat) |
| **Process** (`main.go`) | the goroutine that waits for a signal | serve the plugin socket; on a signal `Stop`, then exit | driver, log file |
| **Vault / OpenBao backend** (`internal/vaultcompat/backend.go`) | the client's token, `auth` (token, renewable, TTL) guarded by `authMu`; `renewCtx`; the worker's timer and `retryWait` | `New`, `GetSecret` with one login after a refused token, `renewLoop`, `Close` | server through `vclient`, login methods, driver |
| **Vault client, login, JWT sources, configuration** (`internal/vaultcompat/...`) | the API client's token | read, write, renew; log in by token, AppRole or JWT | backend |
| **Infisical provider** (`providers/infisical.go`) | `accessToken`, `tokenTTL`, `expiresAt`, `maxTTLAt` behind the channel `authGate`; `lifecycle` | `Initialize`, `GetSecret` (attempts, back-off), `authenticationToken`, `Close` | server, driver |
| **Other providers** (`providers/aws.go`, `gcp.go`, `azure.go`, `oci.go`) | an SDK client | `GetSecret`, `BuildSecretPath` | cloud APIs, driver |
| **Paths and fields** (`internal/kvpath`, `internal/utils`, `providers/common.go`, `factory.go`) | none | `BuildSecretPath`, `ExtractSecretValue`, `CreateProvider` | providers |
| **AWS KMS decryption** (`internal/secrettransform`) | a client created on first use under a mutex | `Transform` | driver |
| **Monitor** (`monitoring/monitor.go`) | counters, heartbeat, listeners (channels of 10) | increments, `AddListener`, `RemoveListener`, `monitorLoop`, `Stop`, health | driver, web interface |
| **Web interface** (`monitoring/web.go`) | an HTTP server | format metrics and health | Monitor |
| **Log file** (`internal/logging`) | an open file, its size | `Write` with rotation at 10 MB, `Close` | everything |

What is hard here.  Gets, the goroutines of a round, operators of the swarm and
writers of the provider interleave without any order between them; a rotation
is ten API calls, each of which can fail, or succeed and lose its answer, with
the process ending in between; the tracker is shared by all services but keyed
by the secret's name.  In the backends, readers and a worker share one token
that expires, is revoked, renewed and replaced, with timers, back-off,
deadlines and a shutdown.  `PROJECT.json` ("hazards") lists these at their
lines, with the properties that would notice.

What makes each component correct:

* **Driver**: no service ever refers to a secret that is gone; a slot keeps its
  secret; concurrent rotations do not undo each other; the old secret goes only
  after its users have moved; only decrypted values reach tasks; a change is
  eventually recorded.
* **Backends**: the token that reads are sent with is the one whose lease is
  being watched; the worker does not sleep past it; after failures a
  valid token comes back; nobody waits for ever; `Close` returns.
* **Process**: how long a call lasts is bounded, even behind a mutex that does
  not look at deadlines; one KMS client is made; a signal ends the process
  after every part was released.
* **Monitor**: nothing is sent on a closed channel, `Stop` ends, a listener that
  reads learns of every rotation, the health check is right.
* **Log file**: lines are kept in order over rotations, failures and crashes, and
  no call of `Write` hangs.
* **Paths, fields, login settings**: what is put together is taken apart the same
  way, an unchanged secret is not taken for a changed one, three switches over
  the login method agree.

## 2. Modules

| Module | What it is |
|---|---|
| `SecretsDriver` | the driver, the swarm manager and the provider; properties, and the inductive invariants `Inv` and `DeliveryInv` |
| `SecretDelivery` | what the swarm may rely on while its secrets are rotated; `SecretsDriver` implements it |
| `SecretsDriverProofs`, `SecretDeliveryProofs` | TLAPS proofs about `SecretsDriver`: its invariants, then the refinement |
| `VaultBackend` | the Vault and OpenBao backend with its server |
| `VaultBackendProofs` | TLAPS proofs about it |
| `InfisicalAuth` | the Infisical provider's token, retries and shutdown with its server |
| `InfisicalAuthProofs` | TLAPS proofs about it |
| `PluginProcess` | the process: start, signal, `Stop` part by part, exit, and the calls in flight with the lazily made KMS client |
| `PluginProcessProofs` | TLAPS proofs about it |
| `Monitor` | listeners, the sending loop, `Stop`, counters, heartbeat and health |
| `MonitorProofs` | TLAPS proofs about it |
| `LogStore`, `CappedLog` | what a reader of the log files may rely on, and the capped file writer that implements it |
| `CappedLogProofs` | TLAPS proofs about both: the sizes of files, the invariant, the refinement |
| `SecretValues` | the path, the place and the field of a secret for seven kinds of provider, with the entry of the tracker |
| `VaultLogin` | the settings of a Vault login, their validation, the JWT sources and each login |
| `ProvidersProofs` | TLAPS proofs about `SecretValues` and `VaultLogin` |
| `MCProviders` | composes `SecretValues` and `VaultLogin` for TLC |
| `MCSecretsDriver`, `MCVaultBackend`, `MCInfisicalAuth` | instances for TLC: path functions and symmetry |

An operator that is used nowhere and stands just before one whose name begins
like its own (`CompareUntilError` before `Compare`, `StopWebForever` before
`StopWeb`) is a faulty variant of it; the mutants of `PROJECT.json` put it in
the other's place and TLC then finds a property violated.

### SecretsDriver and SecretDelivery

| Variable | Code |
|---|---|
| `provider` | the value at each path, as a version number |
| `secrets`, `nextId`, `services` | Docker's secrets and services; a service has a version and one reference (ID and name) per slot |
| `running` | what the tasks of a service read in a slot |
| `tracker` | `d.secretTracker`: `SecretPath` and `LastHash` |
| `get[s][n]` | a `Get` call between its fetch, `trackSecret` and the answer |
| `worker[n]` | the goroutine of the current round for secret `n`: its place and its local variables (`currentValue`/`providerValue`, `existingSecret.ID`, the new ID, the listed services, those still to be updated) |
| `metrics` | the monitor's two rotation counters |
| `faults` | bound on failures |

`GetFetch`, `GetTrack` and `GetRespond` (or `GetTransformError`) are `Get`.
`Tick` is `checkForSecretChanges` taking its copy of the tracker, possible only
when all goroutines of the last round are back (`wg.Wait`).  `CheckFetch` and
`Compare` are `hasSecretChanged`; `Fetch`, `Lookup`, `Create`, `ListServices`,
`UpdateService` (one service), `Cleanup`, `RemoveOld` and `Record` are
`rotateSecret` and what it calls.  A step ends wherever the code makes a call or
takes the mutex.  `Restart` ends the process.  `ProviderWrite`, `Deploy` and
`Touch` are other people.

Abstractions.  A value is a version at a path, before or after decryption, and
its SHA-256 sum separates what the values separate.  The time in a rotated
secret's name is replaced by the secret's ID: `UnixNano` does not repeat.  The
swarm manager is the API as the code relies on it: a service update on an
outdated version is refused, a secret in use is not removed, names are unique.
A slot of a service has at most one `Get` in flight.

`SecretDelivery` has only the swarm's side: `held` (a version of a name under
each ID), `issued` and `slot`.  The mapping takes `held` from `secrets` without
their names' stamps, `issued` from `nextId` and `slot` from the references of
`services`.  `Create` is `Publish`, an `UpdateService` is `Move`, operators'
deployments are `Deploy`, `Cleanup` and `RemoveOld` are
`Retire`; everything else stutters.

### VaultBackend

`client` is the token in the API client, `auth` is `b.auth`, `left[t]` the time
until the server forgets `t`, `granted[x]` the answer to a login or a renewal
before it is assigned to `b.auth`, `lock` is `authMu`, `reader[r]` a `GetSecret` call, `worker` is
`renewLoop` with its timer and `retryWait`, `phase` tells how far `Close` is.
`Send`, `Answer`, `Reauthenticate`, `ReaderLogin`, `ReaderAssign` are
`GetSecret`; `NextDelay`, `WaitEnds`, `RenewLock`, `RenewSelf`, `WorkerLogin`,
`WorkerAssign` are `renewLoop`; `Revoke` and `Pass` are the server and the clock.
`Renewed` is `updateRenewedAuthLocked`: a renewal may return another token, which
goes to the client first and then, with the lease, into `b.auth`.  `Answer` may
refuse a token the server knows, as a 403 for a path does.  Time passes freely
while the worker sleeps; while it is inside a call, waits for the mutex or is not
scheduled, a unit of time is one of the bounded faults, since its calls under
`renewCtx` have only the client's own timeout.  Readers may take any time.
`worker.lease` and `worker.waited` remember for `WakesInTime` what lease the timer
was set for and how long ago it was granted then.  A cancelled context
makes the worker's calls fail; the back-off includes its jitter.  Leases are
positive.  Under `AuthMethod = "token"` no worker runs and no login is tried
after a refusal; the runs use "approle", "jwt" takes the same path.

### InfisicalAuth

`cached`, `tokenTTL`, `expires`, `maxLeft` are `accessToken`, `tokenTTL` and the
time until `expiresAt` and `maxTTLAt`; `gate` is `authGate`; `call[c]` is a
`GetSecret` call with its place, token, attempt, whether its context is done
(`late`) and whether the lifecycle's `AfterFunc` has cancelled its
authentication (`cut`); `answer` is what the server granted and the call has
not stored yet, with its age, and `travelled` remembers that age for
`HandsOutLive`.  `static` chooses between `INFISICAL_TOKEN` and
Universal Auth.  `Begin`, `Attempt`, `Read`, `Backoff` are `GetSecret` and
`retrieveSecret`; `Enter`, `LeaveQueue`, `Decide`, `Renew`, `Login`, `Store` are
`authenticationToken`; `CutOff` is the goroutine of `AfterFunc`, which runs at
some time after `Close`.  The three kinds of failure of a read (refused, not
worth a retry, worth one) are told apart, their causes are not.

### PluginProcess

`main` and `stopper` are the two goroutines of `main.go`; `released` collects
what `driver.Stop` has released, in its order (rotation, monitor, web interface,
provider, Docker client).  `Fatal` is every way the process ends without `Stop`:
`NewDriver` fails, a signal before `signal.Notify`, the socket fails.  A second
signal does nothing.  `StopWeb` is `Shutdown` with its grace: it waits for a
client that is being answered (`busy`), and the server sets no write timeout.
`call[c]` is a `Get` or a rotation with its age and how long it has been waiting
for a mutex; `locked` is the mutex of `aws_kms.go`; `clients` counts the KMS
clients.  `sync.Mutex` keeps no order.  `Acquire` lets any of those that came
within one unit of time take it, and `passed` counts how often a later call took
it before one that waits, up to `Passes`: a waiter of more than 1 ms that loses
once makes the mutex hand itself over, unless it is unlocked while a newcomer
spins for it.  A read that Vault refuses waits for `authMu` (`Refused`, `Login`),
which a call or the worker holds; the worker's calls have no deadline of the
plugin's, so that this wait has a bound of its own, `AuthWait`, and not one of the
code's.  Time stops for a call that looks at its context at its deadline, and
while the mutex is free and somebody waits for it, not for one that waits behind
a holder.  A caller rests for a moment between two calls (`over`).

### Monitor

`listeners` and `chan` are the channels of `AddListener`, with what is in their
buffers; `loop` is `monitorLoop` with its copy of the metrics and the listeners
it has yet to send to.  The length of the listeners is read without their lock:
`sawNone` records that it was zero at some time in the tick, so that `LoopTick`
may find either.  `LoopTick`, `GetMetrics`, `RLock`, `Send` (one listener) and
`RUnlock` are a tick; `CloseAll` is `Stop` behind the write lock, `Cancel` what
comes before it.  `ticker`, `round` and `beat` are the ticker of
`startMonitoring` with its buffer of one, the round going on, and the age of the
heartbeat; `Healthy` is `CheckTickerHealth`.

### CappedLog and LogStore

`active` and `old` are the two files, `handle` is `w.file`, `holder` and `pc`
are the goroutine that has `w.mu` and its place in `Write`: `Stat`,
`CloseFile`, `RemoveOld`, `Rename`, `Reopen` (also the way back from a rotation
that failed) and `WriteLine`.  Each of these may fail, `WriteLine` also after a
part of the line; `Restart` may come between any two.  `LogStore` is one
sequence of lines, `old \o active`, that grows at one end and loses at the
other, never below `MaxBytes` less a line.

### SecretValues, VaultLogin and MCProviders

A name is a sequence of words (between "-"), a path a sequence of names (between
"/"), so prefixes, joins and splits are those of sequences.  `BuildSecretPath`
is the function of that name of each provider, `Place` where `GetSecret` of that
provider looks, `Extract` the field it takes: without a field's name the first of
the default fields, and from a map that has none of them any string, as Go's
iteration does.  Infisical's four labels (project, environment, folder, name) are
four, each with its default, and the default name is in capitals; none but the
folder has a "/" in it.  `Get` and `CheckForChange`
are the driver's two ways to read: by the labels, and by the entry of the
tracker; `Relabel` and `Write` are Docker's user and the provider's.  `readers`,
`written` and `relabelled` are history, read by no step of the code: which
services' Gets made the entry, whether the value was written since, whether the
labels changed since.

In `VaultLogin` the settings are chosen at first; `Validate`, `Build` and
`FirstLogin` are the steps of `New`, `Relogin` is `reauthenticate`; `RewriteFile`
is the agent that keeps the JWT file, seen while the file is empty, blank or
whole, and `last` tells what the last login did if the file has not changed since.
`ValidateAuth`, `LoginMethod` and `CanReauthenticate` are the three
switches over the method.  `MCProviders` lets a Vault provider read nothing
before its first login; all settings are tried with one secret, and all secrets
with one set of settings, since nothing that is read depends on the settings.

## 3. Runs

Passing:

| Run | Question | Instance |
|---|---|---|
| `two_secrets` | do two rotations of one service disturb each other? | 2 secrets, 1 service, operators change it up to version 3, one write per path |
| `two_services` | does a rotation cover its services under failures, does a change settle, and is all this a `SecretDelivery`? | 1 decrypted secret, 2 services, 2 writes, 1 failure or restart, 7 IDs so that IDs do not run out |
| `vault_safety` | are client and `b.auth` consistent, does the worker wake in time? | 2 readers, leases of 1 and 3, renewable or not, delays of at least 2, 1 failure or slow call, back-off up to 2 |
| `vault_live` | does a valid token come back, does a reader get through, does `Close` return? | 1 reader, leases of 3, renewable or not, 3 failures, back-off up to 4 |
| `infisical_safety` | is a token handed out live, and replaced only when it must be? | 2 calls, TTL 3 of at most 6, margin 1, answers of up to 3, 2 failures |
| `infisical_live` | is the gate released, does each call end, is a revoked token got rid of? | 2 calls, TTL 1, no margin, 1 failure |
| `monitor` | does nothing panic, does `Stop` end, do readers learn of rotations, is the alarm right? | 2 listeners of which one must read, buffers of 1, interval 1, rounds up to 3 |
| `process` | are calls answered in time, is one client made, is everything released, does `Stop` end? | 3 calls, deadline 2, 1 later call let in, waits of up to 2 for `authMu`, grace 1 |
| `log` | do the files implement `LogStore`, do writers get through? | 2 goroutines, lines of 1 and 2, files of 2, 5 lines, 2 failures or crashes |
| `values` | are paths read back as built, are checks quiet, do logins send what they should? | all 7 kinds, 2 service and 2 secret names, 4 label paths, one name per label of Infisical, 2 changes; all login settings |

Runs that TLC finds violated, each against a sentence of the documentation:

| Run | Sentence | What the code does |
|---|---|---|
| `latest` | rotation.md:7, "always use the latest secret values" | the rotated secret is called `<name>-<time>`, the next rotation looks for `<name>` and fails: the second change never arrives |
| `agree` | rotation.md:22, "automatically updated" | a `Get` stores the new hash, the round sees no change, other services keep the old value |

### Bounds

Two of everything that interferes: two secrets whose goroutines overlap on one
service, two services of one loop, two readers or calls that contend for a lock;
three for `process`, where two wait for the mutex and one is let in first.
(`vault_live` has one reader and the worker: two readers make the liveness
check more than ten times as long, and room for a third failure, which takes the
back-off to its cap, shows more.)  The faults allow a failure and, but in
`two_services` and `vault_safety`, one during the recovery from it.  `MaxSecrets` leaves room for a
rotation, its retry and the operators' own secrets; when IDs run out `Create`
fails like a refused call (in `two_services`, whose liveness would suffer, that
never happens).  `MaxServiceVersion` bounds the operators, not the driver.
`MaxCount` saturates the counters, `MaxTokens` is enough for tokens to be reused
only when nobody holds them, and for one to be free.  Lease times are a few
units, so that two thirds, the minimum and the margin are different numbers.  A
round of `monitor` may last until the alarm and a little longer than the ticks
that the ticker keeps; one counted rotation is enough to be missed, and a buffer
of one is full after one update.  A log file of two holds two short lines or a
long one, and five lines take it through two rotations.  Two changes at the
provider or of the labels let one come before and one after a check.  In `values`
Infisical's names for project, environment and secret are given together or not at
all (`Tried`), and values are written where somebody reads (`Read`): what nobody
reads no step looks at.

The leases of `vault_safety`, one shorter and one longer than the minimal delay,
bring the clamp of backend.go:394 and the login that gets a shorter lease than the
one the timer was set for: `WakesInTime` says by how much each makes the worker
late, and that nothing else does.  `vault_live` has one length of leases above the
minimal delay: `KeepsToken` claims that the client's token is valid for good, which
the clamp does not give for a lease as short as the delay.  `KeepsToken` ends with
a lease that cannot be renewed, for the worker then ends; from there on
`RefusalRecovers` is what the callers have.  In `infisical_safety` answers travel
for up to three units, the lifetime of a token and more than the margin, as 30 s
are more than 5 s: `HandsOutLive` names that as the one way, but for revocation, in
which a dead token is handed out.  In `process` a call gets as old as
`AnswerInTime` allows, less one unit: the bound is not loose.

### Fairness

`SecretsDriver`: the ticker keeps firing, goroutines run, a `Get` that began
ends (every call has a deadline of 30 or 60 s).  Nothing obliges anybody to
write, deploy or ask.  `VaultBackend`: weak fairness of every started call and
of time, strong fairness of taking the mutex, because a `sync.Mutex` hands
itself over to a waiter that starves.  `InfisicalAuth`: weak fairness of each
call's steps, of its deadline and of time; none for the gate, calls end all the
same.  `Monitor`: the loop, time, the ends of rounds and the holders that keep
reading are weakly fair; `CloseAll` is strongly fair because a waiting writer of
a `sync.RWMutex` keeps new readers out.  `CappedLog`: the goroutine inside
`Write` goes on, and taking the mutex is strongly fair.  `PluginProcess`: `Stop`
and time go on, and a call goes on when its deadline or its turn has come;
nothing obliges a client of the web interface to read its answer, or AWS to
answer before the deadline.

Deadlock is checked in every run but `log` and `values`: these stop when the
lines, or the changes and logins, that their bounds allow are used up.

## 4. Proofs

For every value of the constants that meets the named assumptions of the
modules:

| Module | Theorem | States |
|---|---|---|
| `SecretsDriverProofs` | `Invariance` | `Spec => []Inv` |
| | `TypeCorrect` | `Spec => []TypeOK` |
| | `NeverDangling` | `Spec => []NoDanglingReference` |
| | `SlotsKept` | `Spec => []SlotKeepsItsSecret` |
| | `SnapshotCovered` | `Spec => []RotationCoversSnapshot` |
| | `NothingLost` | `Spec => NoLostUpdate` |
| | `Decrypted` | `Spec => []OnlyClearValues` |
| `SecretDeliveryProofs` | `Refinement` | `Spec => Implements`: the driver implements `SecretDelivery` |
| `VaultBackendProofs` | `TypeCorrect` | `Spec => []TypeOK` |
| | `AuthFollowsClient` | `Spec => []AuthIsClients` |
| | `TimerInLease` | `Spec => []WakesInTime` |
| `InfisicalAuthProofs` | `TypeCorrect` | `Spec => []TypeOK` |
| | `ReplacedOnlyWhenStale` | `Spec => NoWastedLogin` |
| | `HandsOutAlive` | `Spec => HandsOutLive` |
| `PluginProcessProofs` | `TypeCorrect` | `Spec => []TypeOK` |
| | `ClientMadeOnce` | `Spec => []OneClient` |
| | `AnsweredInTime` | `Spec => []AnswerInTime` |
| | `AllReleased` | `Spec => []ExitReleasesAll` |
| `MonitorProofs` | `Invariance` | `Spec => []Inv` |
| | `NeverPanics` | `Spec => []NoPanic` |
| | `AlarmsAreRight` | `Spec => []AlarmMeansLate` |
| `CappedLogProofs` | `Invariance` | `Spec => []Inv` |
| | `ImplementsLogStore` | `Spec => Implements`: the two files implement `LogStore` |
| | `DiskBounded` | `Spec => [](Store!Size(old \o active) <= 2 * Store!Cap)` |
| `ProvidersProofs` | `PathsAreSound` | `Spec => []PathsSound` |
| | `ChecksAreQuiet` | `Spec => QuietUnlessTouched` |
| | `SwitchesAgree` | `LoginSpec => []MethodsAgree` |
| | `LoginsSendCurrent` | `LoginSpec => []SendsCurrent` |

None of these properties is inductive by itself.  Each module names the
strengthening beside its properties; TLC checked each of them on the instances
of the runs before it was proved, and a lemma for each action (`...Inv`,
`...Step`) shows that the step preserves it.

**Driver.**  `NoDanglingReference` needs to know that the secret a goroutine is
about to put into services exists and that nobody else removes it: the IDs it
holds belong to secrets of its own base name (`HandlesInv`), one goroutine per
name exists, and each ID is given out once (`SecretsInv`).  A service update
writes back references from a listing that may be old; that this does no harm
follows from `SnapshotInv`: while a service has the version of the listing, its
references are those of the listing.  `RotationCoversSnapshot` is what survives
of the loop's progress when operators intervene.  `Inv` is the conjunction, and
`two_services` checks it.  `NothingLost` follows from `Inv` for each step;
`Decrypted` has an invariant of its own.

**Refinement.**  Two things in `SecretDelivery` do not follow from `Inv`.  A
published version must be no older than those held for the same path, although
the value was fetched a while ago: `FreshValue` says that since then only the
goroutine itself could have stored one, and `VersionsInv` that nobody has a
version the provider has not had.  A slot must move to the newest rotated
version: `NewestSecret` says that the goroutine's own is the newest of its name.
`BackedInv` tells secrets with a value from those the driver backs, as the
mapping does.  `DeliveryStep` proves them inductive on top of `Inv`;
`SecretDeliveryProofs` then maps every action to a step or a stutter.

**Vault.**  `AuthInv`: whoever is between `Lock` and `Unlock` holds the mutex,
and `b.auth` is the client's but for the holder that has an answer, to a login or
to a renewal, and has not yet stored it; the answer names the client's token.
`WakeInv`: the lease of the client's token, in `b.auth` or in the answer being
stored, has lost no more than the worker has waited since it was granted; a timer
that is set for it, two thirds of it or the minimal delay, keeps that distance
while both run, and a login in the meantime moves the end by the difference of the
leases.  Nothing is assumed of leases but that they are positive.

**Infisical.**  `GateInv`: a call is behind the gate exactly when it occupies it,
so what it saw of the cache stays true until it leaves.  `CallInv`: such a call
renews or logs in only while `expires <= Margin`, and an answer under way is at
most as old as its age says.  `CachedLives`: a token that looks usable is
forgotten by the server too early by its answer's travel at most.  `NoWastedLogin`
follows from the second; `HandsOutLive` from the third: a cached token has more
than the margin left, so that its answer must have travelled longer than that for
the server to have forgotten it.

**Process.**  The claim is about waiting, without a bound on the number of
callers or an order among them.  `TypeOK` has the mutex locked exactly while one
call makes the client, and `CallInv` that there is none then and that whoever waits
for a mutex came to it before its own deadline.  `WaitInv`: one that waits has
waited for as long as the holder is old, and a deadline for each call that came
later and was let in before it; the holder looks at its context, so that time does
not pass beyond its deadline.  Together a call is never older than two deadlines
and one for each that passed it.  A wait for `authMu` comes before that and counts
against the call's own deadline once it is over: only while it lasts, and until
the answer of the login that follows, may a call be older, by `AuthWait`.
`ReleasedInv`: `Stop` leaves no part out.

**Monitor.**  `Registered`: a channel is registered at most once, what is
registered is open, and whom the loop has yet to send to is registered.  The last
holds because the loop keeps the read lock over its sends, so that nobody can
remove or close a channel in between (`CanWrite`); with it `NoPanic` is kept by
every step.  `Clocks` ties the three clocks of the rotation together: a round is
as old as the heartbeat it began with, and while no tick waits in the ticker the
heartbeat is of this interval.  So a heartbeat of `MaxAge` or more means a round
that old, and the converse.  The lemmas that `Registered` rests on say that
taking one element out of a sequence without repetition leaves the others, once
each, and that an element added that was not there keeps it so.

**Log file.**  `Rooms`: neither file is larger than `Cap`, which is `MaxBytes`, or
a single line if lines may be longer (the code gives such a line a file of its
own); in the midst of a rotation nothing is where the next operation moves a
file, and a line is written only where it fits.  `LogStore` measures sequences of
lines by a recursive function, `Size`; what it does to a concatenation
(`SizeConcat`) would be an induction over the length, which no prover here can
take from the library.  The proof goes through sets instead: a set of lengths for
which the claim fails would have a least element (`WFMin` of the library, cited
for the order of the numbers), and just below it the claim holds.  The mapping is
`old \o active`: `RemoveOld` is `Forget` when there was an old file, and what is
left is large enough because the writer rotates only a file its line does not fit
into; `WriteLine` is `Accept`; everything else, a `Rename` included, leaves the
concatenation as it is.  `DiskBounded` is what the cap is for, and holds for torn
lines and broken-off rotations too.  The run has lines that fit into a file, so
that what `LogStore` keeps is a claim; the theorems hold for longer ones too.

**Paths and logins.**  `PathsSound` is about single paths, and is proved for
words, names and label paths of every length; that a prefix is taken off only
once, and that an Infisical path with any number of folders comes back as it
was, are facts about the positions of sequences.  `OwnPlace` needs that the path
of a service and a secret has the secret last and the service before it.  A
check is quiet because of `TrackerCurrent`: an entry names one field, never the
lack of one, so that the read it leads to has one result at most (`OneResult`),
whatever Go's iteration over a map would yield; and while what the entry reads was
not written, the labels stayed and the services that read the secret have it in
one place (`OnePath`), that result is the value recorded.  None of the three can
be left out, and without the default field of `BuildSecretInfo` it would be false
all the same.  `LoginInv` says what the settings must have been to get past
`validateAuth`, and with it the three switches agree; it has `SendsCurrent` in it,
which each login establishes, the first and the repeated ones, and which ends only
when the file is rewritten.

The constants are assumed to be no more than what the code has: an interval and a
buffer that are positive, a sentinel `None` that is not a channel, a writer or a
path, and words that include the few that the code itself puts into paths.

**Only model-checked.**  The liveness properties: `ChangeSettles` of
`two_services`, and those of `vault_live`, `infisical_live`, `monitor`
(`StopCloses`, `ReaderLearns`), `process` (`StopEnds`) and `log` (`WriteEnds`,
`GetsThrough`), because the prover does not handle fairness and ENABLED.  Every
invariant and every action property that a passing run checks is proved, none of
them under a condition beyond the named assumptions.  The composition `MCProviders` is
checked, and its two parts are proved apart, since neither touches the other's
variables.

## 5. What the checks leave out

Not modelled, and why:

* `Chain` of `jwtsource`: never built by the configuration.
* `Initialize` of the AWS, GCP, Azure and OCI providers: it builds SDK clients
  from settings and keeps no other state; OCI's lookups by OCID, for the same
  reason: they are two calls with no state of their own.
* Precedence of settings over the environment, addresses and TLS of the Vault
  client: a settings table without behaviour over time.
* HTML, JSON and text of the web interface; the log level; memory figures.
* `shouldNotReuse`: a pure function of one label.
* Services without a container specification, which the code skips, and
  operators who remove secrets themselves.
* Scripts, packaging and deployment files.

Observed while modelling, and described here because no run asks for it:

* rotation.md:16 speaks of "its corresponding Vault path": services with
  different default paths for one secret share a tracker entry.  The `Get` of the
  second stores the hash of its own value beside the path of the first, so that the
  next check finds a change although nothing changed, and rotates both services to
  the value of the first one's path.  The same holds for one service whose path
  label changes: the entry keeps the path and field of its first `Get`, and the next
  check rotates back to it.  `QuietUnlessTouched` has both as exceptions.
* rotation.md:22: after a rotation that failed half way the retry no longer
  matches the services that were already moved, and leaves them on that secret.
* driver.go:377 fetches again, so what is stored may be newer than what was
  compared; what is recorded is what was stored.
* aws_kms.go:74 and backend.go:333 take a mutex without looking at the context: a
  call may end later than its deadline (`AnswerInTime`), and behind the worker, which
  has no deadline, by as much as the client's own timeouts and retries allow.
* infisical.go:233-235 and 265-270: a token's lifetime is counted from the arrival of
  the answer; one that travelled longer than the five seconds of the margin may be
  handed out when the server has forgotten the token (`HandsOutLive`).
* backend.go:394: the renewal of a lease of one second begins when the lease ends, and a
  login must replace the token; a reader's login with a shorter lease does not wake the worker.
* jwt.md:109: the worker that renews tokens ends at a lease that cannot be
  renewed, and is not started again when a caller's login gets one that can.
* infisical.md:112 speaks of the SDK's `AutoTokenRefresh`; the provider renews by
  itself, as `InfisicalAuth` has it.
* multi-provider.md:282, on OCI, "Non-JSON values are returned as-is": with a field
  set the code returns an error.
* Default paths of GCP, Azure and OCI join service and secret with "-", which
  both may contain: two pairs can give one path (`OwnPlace` is stated for the
  others).
* `ROTATION_INTERVAL` of zero is accepted as a duration, and `time.NewTicker`
  panics on it.
* A listener added after `Monitor.Stop` is never closed.
* `os.Exit` in the goroutine that waits for the signal skips the deferred `Close`
  of the log file; nothing is buffered, so nothing is lost.

## 6. How to run

`tlc -workers 2 -config SecretsDriver_two_secrets.cfg MCSecretsDriver`, and so on
with the pairs of `PROJECT.json`; each takes from a few seconds to two minutes.
`tlapm` for each of `SecretsDriverProofs`, `SecretDeliveryProofs`,
`VaultBackendProofs`, `InfisicalAuthProofs`, `PluginProcessProofs`,
`MonitorProofs`, `CappedLogProofs` and `ProvidersProofs`.

## 7. Plan

Done: the driver with its abstract specification, the backends, the process, the
monitor, the log file, paths and fields, login settings, each with its proofs.

Next: safety facts under the liveness properties that can be proved without
fairness (that a goroutine's step is possible wherever it is said to go on); the
precedence of the Vault configuration as a table against a reference definition;
OCI's lookup by vault and name.  Section 5 says why the last two are left out so
far.
