--------------------------- MODULE SecretsDriver ---------------------------
(***************************************************************************)
(* The secrets driver of driver.go together with the Docker Swarm manager  *)
(* and the secret provider it talks to.                                    *)
(*                                                                         *)
(* Swarm asks the plugin for a value (Get) whenever a task of a service    *)
(* starts with a driver-backed secret.  The plugin remembers a hash of     *)
(* what it served and, on every tick of the monitoring goroutine, starts   *)
(* one goroutine per tracked secret.  A goroutine that sees another hash   *)
(* rotates the secret: it creates a secret under a new name, moves the     *)
(* services that referenced the old one and removes the old one.  Nothing  *)
(* but the tracker's mutex orders the Gets, the goroutines and the         *)
(* operators of the swarm.                                                 *)
(***************************************************************************)
EXTENDS Integers

CONSTANTS
    Names,              \* the names of the driver-backed Docker secrets
    Services,           \* the swarm services
    Paths,              \* the paths the provider stores values at
    SecretPath,         \* SecretPath[n][s]: what provider.BuildSecretPath answers
    KMSNames,           \* the secrets labelled for AWS KMS decryption
    None,               \* "nothing here"
    MaxVersion,         \* bound: the provider's writes, per path
    MaxSecrets,         \* bound: the Docker secrets ever created
    MaxServiceVersion,  \* bound: the service version operators may reach
    MaxFaults,          \* bound: the failed API calls and plugin restarts
    MaxCount            \* bound: the metrics saturate here

ASSUME PathAssumption  == SecretPath \in [Names -> [Services -> Paths]]
ASSUME KMSAssumption   == KMSNames \subseteq Names
ASSUME BoundAssumption == /\ MaxVersion \in Nat
                          /\ MaxSecrets \in Nat
                          /\ MaxServiceVersion \in Nat
                          /\ MaxFaults \in Nat
                          /\ MaxCount \in Nat

Ids == 1 .. MaxSecrets

\* A value is the version it had at its path, before or after decryption.  A
\* SHA-256 sum separates values as well as the values themselves do.
Value == [path : Paths, ver : Nat, clear : BOOLEAN]

\* Rotation renames secret n to n-<time>; the ID stands for the time.  Stamp 0
\* is the secret's own name: the one that is backed by the driver.
SecretName   == [base : Names, stamp : Nat]
Original(n)  == [base |-> n, stamp |-> 0]
DockerSecret == [name : SecretName, data : Value \cup {None}]

\* A service refers to a secret by ID and by name.  The slot (the file in the
\* container) is known by the name the service was deployed with.
Ref         == [id : Ids, name : SecretName]
ServiceSpec == [ver : Nat, refs : [Names -> Ref \cup {None}]]

Stages == {"idle", "check", "compare", "fetch", "lookup", "create", "list",
           "update", "cleanup", "removeOld", "record"}
Worker == [pc   : Stages,
           val  : Value \cup {None},       \* currentValue, then providerValue
           old  : Ids \cup {None},         \* existingSecret.ID
           new  : Ids \cup {None},         \* createResponse.ID
           snap : [Services -> ServiceSpec] \cup {None},  \* the services listed
           todo : SUBSET Services]         \* those the loop has yet to update
Request == [pc : {"idle", "fetched", "tracked"},
            val : Value \cup {None}, id : Ids \cup {None}]

ASSUME NoneAssumption == None \notin Value \cup DockerSecret \cup Ref \cup Ids
                                     \cup [path : Paths, hash : Value]
                                     \cup [Services -> ServiceSpec]
                                     \cup Paths
                                     \cup [name : Names, source : Paths \cup {None}, ver : Nat]

VARIABLES
    provider,   \* provider[p]: the version the provider holds at p
    secrets,    \* secrets[i]: the Docker secret with ID i
    nextId,     \* Docker never uses an ID twice
    services,   \* services[s]: version and secret references of service s
    running,    \* running[s][n]: what the tasks of s read in slot n
    tracker,    \* d.secretTracker: the path and LastHash of a tracked secret
    get,        \* get[s][n]: the Get call in flight for that slot
    worker,     \* worker[n]: the goroutine checkForSecretChanges started for n
    metrics,    \* the monitor's counts of rotations and of rotation errors
    faults      \* the failures so far

swarm == <<secrets, nextId, services, running>>
vars  == <<provider, secrets, nextId, services, running, tracker, get, worker,
           metrics, faults>>

IdleWorker  == [pc |-> "idle", val |-> None, old |-> None, new |-> None,
                snap |-> None, todo |-> {}]
IdleRequest == [pc |-> "idle", val |-> None, id |-> None]
NoMetrics   == [rotations |-> 0, errors |-> 0]

Init == /\ provider = [p \in Paths |-> 0]
        /\ secrets = [i \in Ids |-> None]
        /\ nextId = 1
        /\ services = [s \in Services |-> [ver |-> 0, refs |-> [n \in Names |-> None]]]
        /\ running = [s \in Services |-> [n \in Names |-> None]]
        /\ tracker = [n \in Names |-> None]
        /\ get = [s \in Services |-> [n \in Names |-> IdleRequest]]
        /\ worker = [n \in Names |-> IdleWorker]
        /\ metrics = NoMetrics
        /\ faults = 0

\* One API call fails: it is refused, times out, or its answer is lost.
Fault   == faults < MaxFaults /\ faults' = faults + 1
NoFault == faults' = faults

Stored(p)       == [path |-> p, ver |-> provider[p], clear |-> FALSE]
Transform(n, v) == IF n \in KMSNames THEN [v EXCEPT !.clear = TRUE] ELSE v
NamedByPrefix(name) == {i \in Ids : secrets[i] # None /\ secrets[i].name.base = name.base}
Named(name)     == {i \in Ids : secrets[i] # None /\ secrets[i].name = name}
InUse(i)        == \E s \in Services, n \in Names :
                      services[s].refs[n] # None /\ services[s].refs[n].id = i

\* Swarm gives the service a new specification and version.
Respecify(s, refs) ==
    services' = [services EXCEPT ![s] = [ver |-> services[s].ver + 1, refs |-> refs]]

-----------------------------------------------------------------------------
(***************************************************************************)
(* The environment: writers of the provider and operators of the swarm.    *)
(***************************************************************************)
ProviderWrite(p) == /\ provider[p] < MaxVersion
                    /\ provider' = [provider EXCEPT ![p] = @ + 1]
                    /\ UNCHANGED <<swarm, tracker, get, worker, metrics, faults>>

\* (Re)deploy service s with secret n, whose own name is created if it is gone.
Deploy(s, n) ==
    /\ services[s].ver < MaxServiceVersion
    /\ \E i \in Ids :
          /\ \/ i \in Named(Original(n)) /\ UNCHANGED <<secrets, nextId>>
             \/ /\ Named(Original(n)) = {}
                /\ i = nextId
                /\ nextId' = nextId + 1
                /\ secrets' = [secrets EXCEPT
                                 ![i] = [name |-> Original(n), data |-> None]]
          /\ services[s].refs[n] # [id |-> i, name |-> Original(n)]
          /\ Respecify(s, [services[s].refs EXCEPT
                            ![n] = [id |-> i, name |-> Original(n)]])
    /\ running' = [running EXCEPT ![s][n] = None]
    /\ UNCHANGED <<provider, tracker, get, worker, metrics, faults>>

\* Any other update of the service: a scale, a new image.
Touch(s) == /\ services[s].ver < MaxServiceVersion
            /\ Respecify(s, services[s].refs)
            /\ UNCHANGED <<provider, secrets, nextId, running, tracker, get,
                           worker, metrics, faults>>

-----------------------------------------------------------------------------
(***************************************************************************)
(* Get: Swarm wants the value of the driver-backed secret in slot n of s.  *)
(* A call whose fetch fails answers with an error and changes nothing.     *)
(***************************************************************************)
GetFetch(s, n) ==
    /\ get[s][n].pc = "idle"
    /\ services[s].refs[n] # None
    /\ services[s].refs[n].name = Original(n)
    /\ get' = [get EXCEPT ![s][n] =
                 [pc |-> "fetched", val |-> Stored(SecretPath[n][s]),
                  id |-> services[s].refs[n].id]]
    /\ UNCHANGED <<provider, swarm, tracker, worker, metrics, faults>>

\* An entry that exists keeps its path, whichever service asks.
Track(n, path, value) ==
    IF tracker[n] = None THEN [path |-> path, hash |-> value]
                         ELSE [tracker[n] EXCEPT !.hash = value]

GetTrack(s, n) ==
    /\ get[s][n].pc = "fetched"
    /\ tracker' = [tracker EXCEPT ![n] = Track(n, SecretPath[n][s], get[s][n].val)]
    /\ get' = [get EXCEPT ![s][n].pc = "tracked"]
    /\ UNCHANGED <<provider, swarm, worker, metrics, faults>>

\* The answer reaches the tasks it was asked for, if they are still wanted.
GetRespond(s, n) ==
    /\ get[s][n].pc = "tracked"
    /\ get' = [get EXCEPT ![s][n] = IdleRequest]
    /\ running' = IF services[s].refs[n] # None /\ services[s].refs[n].id = get[s][n].id
                  THEN [running EXCEPT ![s][n] = Transform(n, get[s][n].val)]
                  ELSE running
    /\ UNCHANGED <<provider, secrets, nextId, services, tracker, worker, metrics, faults>>

\* Decryption failed: the secret stays tracked, the task gets an error.
GetTransformError(s, n) ==
    /\ n \in KMSNames
    /\ get[s][n].pc = "tracked"
    /\ Fault
    /\ get' = [get EXCEPT ![s][n] = IdleRequest]
    /\ UNCHANGED <<provider, swarm, tracker, worker, metrics>>

-----------------------------------------------------------------------------
(***************************************************************************)
(* The monitoring goroutine and the goroutines it starts and waits for.    *)
(***************************************************************************)
Tracked == {n \in Names : tracker[n] # None}

TickAll == /\ \A n \in Names : worker[n].pc = "idle"
           /\ worker' = [n \in Names |-> [IdleWorker EXCEPT !.pc = "check"]]
           /\ UNCHANGED <<provider, swarm, tracker, get, metrics, faults>>

\* checkForSecretChanges: the previous round's goroutines have all returned.
Tick == /\ \A n \in Names : worker[n].pc = "idle"
        /\ worker' = [n \in Names |-> IF n \in Tracked
                                      THEN [IdleWorker EXCEPT !.pc = "check"]
                                      ELSE IdleWorker]
        /\ UNCHANGED <<provider, swarm, tracker, get, metrics, faults>>

Goto(n, w)    == worker' = [worker EXCEPT ![n] = w]
Capped(count) == IF count < MaxCount THEN count + 1 ELSE count
Fail(n)       == /\ Goto(n, IdleWorker)
                 /\ metrics' = [metrics EXCEPT !.errors = Capped(@)]

\* hasSecretChanged, up to the provider's answer.
CheckFetch(n) ==
    /\ worker[n].pc = "check"
    /\ \/ /\ NoFault
          /\ Goto(n, [worker[n] EXCEPT !.pc  = "compare",
                                       !.val = Stored(tracker[n].path)])
       \/ Fault /\ Goto(n, IdleWorker)
    /\ UNCHANGED <<provider, swarm, tracker, get, metrics>>

CompareUntilError(n) ==
    /\ worker[n].pc = "compare"
    /\ Goto(n, IF worker[n].val # tracker[n].hash /\ metrics.errors < MaxCount
               THEN [worker[n] EXCEPT !.pc = "fetch"]
               ELSE IdleWorker)
    /\ UNCHANGED <<provider, swarm, tracker, get, metrics, faults>>

\* hasSecretChanged, from there: LastHash is read after the fetch.
Compare(n) ==
    /\ worker[n].pc = "compare"
    /\ Goto(n, IF worker[n].val # tracker[n].hash
               THEN [worker[n] EXCEPT !.pc = "fetch"]
               ELSE IdleWorker)
    /\ UNCHANGED <<provider, swarm, tracker, get, metrics, faults>>

\* rotateSecret fetches again and transforms: one of the two calls may fail.
Fetch(n) ==
    /\ worker[n].pc = "fetch"
    /\ \/ /\ NoFault
          /\ Goto(n, [worker[n] EXCEPT !.pc  = "lookup",
                                       !.val = Stored(tracker[n].path)])
          /\ UNCHANGED metrics
       \/ Fault /\ Fail(n)
    /\ UNCHANGED <<provider, swarm, tracker, get>>

\* updateDockerSecret looks the secret up by its exact name.
Lookup(n) ==
    /\ worker[n].pc = "lookup"
    /\ \/ \E i \in Named(Original(n)) :
             /\ NoFault
             /\ Goto(n, [worker[n] EXCEPT !.pc = "create", !.old = i])
             /\ UNCHANGED metrics
       \/ Named(Original(n)) = {} /\ NoFault /\ Fail(n)
       \/ Fault /\ Fail(n)
    /\ UNCHANGED <<provider, swarm, tracker, get>>

NewName(n) == [base |-> n, stamp |-> nextId]
AddSecretRaw(n) ==
    /\ nextId \in Ids
    /\ nextId' = nextId + 1
    /\ secrets' = [secrets EXCEPT
          ![nextId] = [name |-> NewName(n), data |-> worker[n].val]]

AddSecretStale(n) ==
    /\ nextId \in Ids
    /\ nextId' = nextId + 1
    /\ secrets' = [secrets EXCEPT
          ![nextId] = [name |-> NewName(n), data |-> Transform(n, tracker[n].hash)]]

AddSecret(n) ==
    /\ nextId \in Ids
    /\ nextId' = nextId + 1
    /\ secrets' = [secrets EXCEPT
          ![nextId] = [name |-> NewName(n), data |-> Transform(n, worker[n].val)]]

\* SecretCreate.  When its answer is lost the secret is there but nobody knows.
Create(n) ==
    /\ worker[n].pc = "create"
    /\ \/ /\ AddSecret(n)
          /\ NoFault
          /\ Goto(n, [worker[n] EXCEPT !.pc = "list", !.new = nextId])
          /\ UNCHANGED metrics
       \/ AddSecret(n) /\ Fault /\ Fail(n)
       \/ UNCHANGED <<secrets, nextId>> /\ Fault /\ Fail(n)
       \/ nextId \notin Ids /\ UNCHANGED <<secrets, nextId, faults>> /\ Fail(n)
    /\ UNCHANGED <<provider, services, running, tracker, get>>

MatchesPrefix(ref, n, old) == ref # None

\* The condition of buildUpdatedSecretReferences: the old ID or the old name.
Matches(ref, n, old) == ref # None /\ (ref.id = old \/ ref.name = Original(n))

NeedsUpdate(spec, n, old) == \E m \in Names : Matches(spec.refs[m], n, old)

UpdatedRefs(spec, n, old, new) ==
    [m \in Names |-> IF Matches(spec.refs[m], n, old)
                     THEN [id |-> new, name |-> [base |-> n, stamp |-> new]]
                     ELSE spec.refs[m]]

\* What the loop of updateServicesSecretReference does next.
NextService(w, todo) ==
    [w EXCEPT !.todo = todo, !.pc = IF todo = {} THEN "removeOld" ELSE "update"]

ListServices(n) ==
    /\ worker[n].pc = "list"
    /\ \/ /\ NoFault
          /\ Goto(n, NextService([worker[n] EXCEPT !.snap = services],
                        {s \in Services : NeedsUpdate(services[s], n, worker[n].old)}))
       \/ Fault /\ Goto(n, [worker[n] EXCEPT !.pc = "cleanup"])
    /\ UNCHANGED <<provider, swarm, tracker, get, metrics>>

BaseVersionFresh(n, s) == services[s].ver

\* The version the update is based on: that of the listing.
BaseVersion(n, s) == worker[n].snap[s].ver

\* ServiceUpdate with the references of the listing; Swarm refuses it when the
\* service has changed since, and otherwise restarts the tasks.
ApplyUpdate(n, s) ==
    LET w == worker[n] IN
    /\ services[s].ver = BaseVersion(n, s)
    /\ Respecify(s, UpdatedRefs(w.snap[s], n, w.old, w.new))
    /\ running' = [running EXCEPT ![s] = [m \in Names |->
                     IF Matches(w.snap[s].refs[m], n, w.old)
                     THEN Transform(n, w.val) ELSE running[s][m]]]

Refused(n, s) == services[s].ver # BaseVersion(n, s) /\ NoFault

AfterUpdateErrorSwallowed(n, s) == NextService(worker[n], worker[n].todo \ {s})

\* The loop returns at the first service that cannot be updated.
AfterUpdateError(n, s) == [worker[n] EXCEPT !.pc = "cleanup"]

UpdateService(n, s) ==
    /\ worker[n].pc = "update"
    /\ s \in worker[n].todo
    /\ \/ ApplyUpdate(n, s) /\ NoFault /\ Goto(n, NextService(worker[n], worker[n].todo \ {s}))
       \/ ApplyUpdate(n, s) /\ Fault /\ Goto(n, AfterUpdateError(n, s))
       \/ /\ Refused(n, s) \/ Fault
          /\ Goto(n, AfterUpdateError(n, s))
          /\ UNCHANGED <<services, running>>
    /\ UNCHANGED <<provider, secrets, nextId, tracker, get, metrics>>

\* SecretRemove: Swarm refuses to remove a secret that a service refers to.
RemoveSecret(i) == secrets' = IF InUse(i) THEN secrets ELSE [secrets EXCEPT ![i] = None]

\* The rotation failed after SecretCreate: try to take the new secret back.
Cleanup(n) ==
    /\ worker[n].pc = "cleanup"
    /\ \/ RemoveSecret(worker[n].new) /\ NoFault
       \/ UNCHANGED secrets /\ Fault
    /\ Fail(n)
    /\ UNCHANGED <<provider, nextId, services, running, tracker, get>>

\* A failure to remove the old secret is only logged.
RemoveOld(n) ==
    /\ worker[n].pc = "removeOld"
    /\ \/ RemoveSecret(worker[n].old) /\ NoFault
       \/ UNCHANGED secrets /\ Fault
    /\ Goto(n, [worker[n] EXCEPT !.pc = "record"])
    /\ UNCHANGED <<provider, nextId, services, running, tracker, get, metrics>>

Record(n) ==
    /\ worker[n].pc = "record"
    /\ tracker' = [tracker EXCEPT ![n].hash = worker[n].val]
    /\ metrics' = [metrics EXCEPT !.rotations = Capped(@)]
    /\ Goto(n, IdleWorker)
    /\ UNCHANGED <<provider, swarm, get, faults>>

\* The process ends between any two steps and starts again with empty memory.
Restart == /\ Fault
           /\ tracker' = [n \in Names |-> None]
           /\ get' = [s \in Services |-> [n \in Names |-> IdleRequest]]
           /\ worker' = [n \in Names |-> IdleWorker]
           /\ metrics' = NoMetrics
           /\ UNCHANGED <<provider, swarm>>

-----------------------------------------------------------------------------
Environment == \/ \E p \in Paths : ProviderWrite(p)
               \/ \E s \in Services : Touch(s)
               \/ \E s \in Services, n \in Names : Deploy(s, n)

GetStep(s, n) == GetTrack(s, n) \/ GetRespond(s, n) \/ GetTransformError(s, n)

WorkerStep(n) == \/ CheckFetch(n) \/ Compare(n) \/ Fetch(n) \/ Lookup(n)
                 \/ Create(n) \/ ListServices(n)
                 \/ \E s \in Services : UpdateService(n, s)
                 \/ Cleanup(n) \/ RemoveOld(n) \/ Record(n)

Next == \/ Environment
        \/ \E s \in Services, n \in Names : GetFetch(s, n) \/ GetStep(s, n)
        \/ Tick
        \/ \E n \in Names : WorkerStep(n)
        \/ Restart

Spec == Init /\ [][Next]_vars

\* The ticker fires again and again, a started goroutine runs on, a Get that
\* was begun ends.  Nobody has to write, to deploy or to ask.
Fairness == /\ WF_vars(Tick)
            /\ \A n \in Names : WF_vars(WorkerStep(n))
            /\ \A s \in Services, n \in Names : WF_vars(GetStep(s, n))

FairSpec == Spec /\ Fairness

-----------------------------------------------------------------------------
(***************************************************************************)
(* Properties.                                                             *)
(***************************************************************************)
HasNew(n) == worker[n].pc \in {"list", "update", "cleanup", "removeOld", "record"}
Listed(n) == worker[n].pc \in {"update", "removeOld", "record"}

\* The types, and what the program counters promise: a goroutine only ever
\* works on a secret that is tracked (driver.go:298-333).
TypeOK ==
    /\ provider \in [Paths -> Nat]
    /\ secrets \in [Ids -> DockerSecret \cup {None}]
    /\ nextId \in Nat \ {0}
    /\ services \in [Services -> ServiceSpec]
    /\ running \in [Services -> [Names -> Value \cup {None}]]
    /\ tracker \in [Names -> [path : Paths, hash : Value] \cup {None}]
    /\ get \in [Services -> [Names -> Request]]
    /\ worker \in [Names -> Worker]
    /\ metrics \in [rotations : Nat, errors : Nat]
    /\ faults \in Nat
    /\ \A n \in Names : worker[n].pc # "idle" => tracker[n] # None
    /\ \A s \in Services, n \in Names : get[s][n].pc # "idle" => get[s][n].val # None

\* A service never refers to a secret that is gone, whatever the rotations of
\* several secrets, the operators and the failures do (driver.go:444-458).
NoDanglingReference ==
    \A s \in Services, n \in Names :
        services[s].refs[n] # None =>
            LET ref == services[s].refs[n]
            IN  secrets[ref.id] # None /\ secrets[ref.id].name = ref.name

\* A rotation never puts a value of one secret where a service expects
\* another (buildUpdatedSecretReferences, driver.go:508-537).
SlotKeepsItsSecret ==
    \A s \in Services, n \in Names :
        services[s].refs[n] # None => services[s].refs[n].name.base = n

\* Every service that used the old secret when the services were listed has
\* been moved, to the new secret unless somebody changed it again, before the
\* old secret is removed and its hash recorded (driver.go:444-458, 477-500).
Moved(n, s) == LET w == worker[n] IN
    /\ services[s].ver > w.snap[s].ver
    /\ services[s].ver = w.snap[s].ver + 1 =>
          \A m \in Names : ~Matches(services[s].refs[m], n, w.old)
Covered(n) ==
    Listed(n) =>
        \A s \in Services \ worker[n].todo :
            NeedsUpdate(worker[n].snap[s], n, worker[n].old) => Moved(n, s)
RotationCoversSnapshot == \A n \in Names : Covered(n)

\* What is stored in a rotated secret, and what tasks read, went through the
\* same decryption as the answers of Get (driver.go:184, 382).
OnlyClearValues ==
    /\ \A i \in Ids : secrets[i] # None /\ secrets[i].data # None
                        /\ secrets[i].name.base \in KMSNames => secrets[i].data.clear
    /\ \A s \in Services, n \in KMSNames : running[s][n] # None => running[s][n].clear

\* Updating a service for one secret never undoes what another goroutine did
\* to the service's other secrets in the meantime (driver.go:560).
NoLostUpdate ==
    [][\A n \in Names : worker[n].pc = "update" /\ worker'[n] # worker[n] =>
            \A s \in Services, m \in Names \ {n} :
                services'[s].refs[m] = services[s].refs[m]]_vars

\* When writers, operators and failures pause, a tracked secret that still has
\* its own name ends up with the provider's value as the recorded one, however
\* many rounds failed before (driver.go:276-333).
Recorded(n) == tracker[n] # None /\ Named(Original(n)) # {} =>
                   tracker[n].hash = Stored(tracker[n].path)
ChangeSettles == \A n \in Names : <>[]Recorded(n)

-----------------------------------------------------------------------------
(***************************************************************************)
(* The inductive invariant behind the safety properties.                   *)
(***************************************************************************)
\* IDs are handed out in order and a secret is the original or bears its ID.
SecretsInv ==
    \A i \in Ids : secrets[i] # None =>
        i < nextId /\ secrets[i].name.stamp \in {0, i}

\* old and new are secrets of the goroutine's own base name: nobody else
\* removes them, and old is the original as long as it exists.
HasOld(n) == worker[n].pc = "create" \/ HasNew(n)
HasVal(n) == worker[n].pc \in {"compare", "lookup"} \/ HasOld(n)
HandlesInv(n) ==
    LET w == worker[n] IN
    /\ HasVal(n) => w.val # None
    /\ HasOld(n) => /\ w.old \in Ids /\ w.old < nextId
                    /\ secrets[w.old] # None => secrets[w.old].name = Original(n)
    /\ HasNew(n) => /\ w.new \in Ids /\ secrets[w.new] # None
                    /\ secrets[w.new].name = [base |-> n, stamp |-> w.new]

\* A service whose version is that of the listing is as it was listed.
SnapshotInv(n) ==
    Listed(n) => /\ worker[n].snap # None
                 /\ \A s \in Services :
                       /\ services[s].ver >= worker[n].snap[s].ver
                       /\ services[s].ver = worker[n].snap[s].ver =>
                             services[s].refs = worker[n].snap[s].refs

Inv == /\ TypeOK
       /\ SecretsInv
       /\ NoDanglingReference
       /\ SlotKeepsItsSecret
       /\ \A n \in Names : HandlesInv(n) /\ SnapshotInv(n)
       /\ RotationCoversSnapshot

-----------------------------------------------------------------------------
(***************************************************************************)
(* The driver, its goroutines, failures and restarts implement what the    *)
(* swarm relies on.                                                        *)
(***************************************************************************)
\* The secret under an ID without its form, and the ID a slot refers to.
HeldAt(i) ==
    IF secrets[i] = None THEN None
    ELSE LET data == secrets[i].data
         IN  [name   |-> secrets[i].name.base,
              source |-> IF data = None THEN None ELSE data.path,
              ver    |-> IF data = None THEN 0 ELSE data.ver]
SlotAt(s, n) == IF services[s].refs[n] = None THEN None ELSE services[s].refs[n].id

HeldVersions == [i \in Ids |-> HeldAt(i)]
Slots        == [s \in Services |-> [n \in Names |-> SlotAt(s, n)]]

Delivery == INSTANCE SecretDelivery
    WITH Sources  <- Paths,
         Versions <- 0 .. MaxVersion,
         Absent   <- None,
         held     <- HeldVersions,
         issued   <- nextId - 1,
         slot     <- Slots

\* Whatever the Gets, goroutines, operators and failures do, the swarm sees
\* versions appear that are no older than the ones there, one slot at a time
\* move to the newest, and unused versions go (driver.go:403-506).
Implements == Delivery!Spec

(***************************************************************************)
(* The inductive invariant behind it, on top of Inv.                       *)
(***************************************************************************)
RotatedIds(n) == {i \in Ids : /\ secrets[i] # None /\ secrets[i].name.base = n
                              /\ secrets[i].data # None}

\* A secret is backed by the driver exactly under its own name.
BackedInv == \A i \in Ids : secrets[i] # None =>
                 (secrets[i].data = None <=> secrets[i].name.stamp = 0)

\* Nobody has a version that the provider does not have yet.
VersionsInv ==
    /\ \A p \in Paths : provider[p] <= MaxVersion
    /\ \A i \in Ids : secrets[i] # None /\ secrets[i].data # None =>
           secrets[i].data.ver <= provider[secrets[i].data.path]

\* The value a goroutine is about to store is as new as those it follows, ...
FreshValue(n) ==
    worker[n].pc \in {"lookup", "create"} =>
        /\ worker[n].val.ver <= provider[worker[n].val.path]
        /\ \A i \in RotatedIds(n) : secrets[i].data.path = worker[n].val.path =>
               secrets[i].data.ver <= worker[n].val.ver

\* ... and the secret it has stored is the newest of the name.
NewestSecret(n) ==
    HasNew(n) => /\ worker[n].new \in RotatedIds(n)
                 /\ \A i \in RotatedIds(n) : i <= worker[n].new

DeliveryInv == /\ BackedInv
               /\ VersionsInv
               /\ \A n \in Names : FreshValue(n) /\ NewestSecret(n)

-----------------------------------------------------------------------------
(***************************************************************************)
(* What the documentation promises and the code does not keep.             *)
(***************************************************************************)
UpToDate(s, n) == running[s][n] # None => running[s][n].ver = provider[SecretPath[n][s]]

\* docs/rotation.md:7: "applications always use the latest secret values
\* without manual intervention".
AlwaysLatest == \A s \in Services, n \in Names : <>[]UpToDate(s, n)

\* docs/rotation.md:22, "Services using the secret are automatically updated":
\* once changes pause, the services that use a secret all read the same value.
Agreed(n) == \A s, t \in Services :
                 running[s][n] # None /\ running[t][n] # None =>
                     running[s][n].ver = running[t][n].ver
AllServicesAgree == \A n \in Names : <>[]Agreed(n)
=============================================================================
