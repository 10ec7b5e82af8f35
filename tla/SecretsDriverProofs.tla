------------------------ MODULE SecretsDriverProofs ------------------------
(***************************************************************************)
(* Theorems about SecretsDriver, for all secrets, services, paths, labels  *)
(* and bounds.                                                             *)
(***************************************************************************)
EXTENDS SecretsDriver, TLAPS

-----------------------------------------------------------------------------
(***************************************************************************)
(* Facts about the operators the actions are built from.                   *)
(***************************************************************************)

\* What a provider answers is a value.
LEMMA StoredType ==
    ASSUME TypeOK, NEW p \in Paths
    PROVE  Stored(p) \in Value
  BY DEF TypeOK, Stored, Value

\* Decryption maps values to values and marks those of KMS secrets.
LEMMA TransformType ==
    ASSUME NEW n \in Names, NEW v \in Value
    PROVE  /\ Transform(n, v) \in Value
           /\ n \in KMSNames => Transform(n, v).clear = TRUE
  BY DEF Transform, Value

\* Nothing is not one of the things a variable may hold.
LEMMA NoneIsNothing ==
    /\ None \notin Value
    /\ None \notin DockerSecret
    /\ None \notin Ref
    /\ None \notin Ids
    /\ None \notin [path : Paths, hash : Value]
    /\ None \notin [Services -> ServiceSpec]
  BY NoneAssumption

\* A secret's own name is a secret name.
LEMMA OriginalType ==
    ASSUME NEW n \in Names
    PROVE  Original(n) \in SecretName
  BY DEF Original, SecretName

\* A service's new specification is a specification.
LEMMA RespecifyType ==
    ASSUME TypeOK, NEW s \in Services, NEW refs \in [Names -> Ref \cup {None}],
           Respecify(s, refs)
    PROVE  services' \in [Services -> ServiceSpec]
<1>1. [ver |-> services[s].ver + 1, refs |-> refs] \in ServiceSpec
  BY DEF TypeOK, ServiceSpec
<1> QED
  BY <1>1 DEF Respecify, TypeOK

LEMMA IdleTypes == IdleWorker \in Worker /\ IdleRequest \in Request
  BY DEF IdleWorker, IdleRequest, Worker, Request, Stages

\* The initial state is well typed.
LEMMA TypeInit == Init => TypeOK
<1> SUFFICES ASSUME Init PROVE TypeOK
  OBVIOUS
<1>1. /\ provider \in [Paths -> Nat]
      /\ secrets \in [Ids -> DockerSecret \cup {None}]
      /\ nextId \in Nat \ {0}
      /\ tracker \in [Names -> [path : Paths, hash : Value] \cup {None}]
      /\ metrics \in [rotations : Nat, errors : Nat]
      /\ faults \in Nat
  BY DEF Init, NoMetrics
<1>2. services \in [Services -> ServiceSpec]
  BY DEF Init, ServiceSpec
<1>3. running \in [Services -> [Names -> Value \cup {None}]]
  BY DEF Init
<1>4. /\ get \in [Services -> [Names -> Request]]
      /\ \A s \in Services, n \in Names : get[s][n].pc = "idle"
  BY IdleTypes DEF Init, IdleRequest
<1>5. /\ worker \in [Names -> Worker]
      /\ \A n \in Names : worker[n].pc = "idle"
  BY IdleTypes DEF Init, IdleWorker
<1> QED
  BY <1>1, <1>2, <1>3, <1>4, <1>5 DEF TypeOK

LEMMA EnvironmentTyped == TypeOK /\ Environment => TypeOK'
<1> SUFFICES ASSUME TypeOK, Environment PROVE TypeOK'
  OBVIOUS
<1>1. ASSUME NEW p \in Paths, ProviderWrite(p) PROVE TypeOK'
  BY <1>1 DEF ProviderWrite, TypeOK, swarm
<1>2. ASSUME NEW s \in Services, Touch(s) PROVE TypeOK'
  <2>1. services[s].refs \in [Names -> Ref \cup {None}]
    BY DEF TypeOK, ServiceSpec
  <2>3. services' \in [Services -> ServiceSpec]
    BY <1>2, <2>1, RespecifyType DEF Touch
  <2> QED
    BY <1>2, <2>3 DEF Touch, TypeOK
<1>3. ASSUME NEW s \in Services, NEW n \in Names, Deploy(s, n) PROVE TypeOK'
  <2>1. PICK i \in Ids :
          /\ \/ i \in Named(Original(n)) /\ UNCHANGED <<secrets, nextId>>
             \/ /\ Named(Original(n)) = {}
                /\ i = nextId
                /\ nextId' = nextId + 1
                /\ secrets' = [secrets EXCEPT
                                 ![i] = [name |-> Original(n), data |-> None]]
          /\ Respecify(s, [services[s].refs EXCEPT
                            ![n] = [id |-> i, name |-> Original(n)]])
    BY <1>3 DEF Deploy
  <2>2. [id |-> i, name |-> Original(n)] \in Ref
    BY OriginalType DEF Ref
  <2>3. services' \in [Services -> ServiceSpec]
    <3>1. [services[s].refs EXCEPT ![n] = [id |-> i, name |-> Original(n)]]
             \in [Names -> Ref \cup {None}]
      BY <2>2 DEF TypeOK, ServiceSpec
    <3> QED
      BY <2>1, <3>1, RespecifyType
  <2>4. [name |-> Original(n), data |-> None] \in DockerSecret
    BY OriginalType DEF DockerSecret
  <2>5. secrets' \in [Ids -> DockerSecret \cup {None}] /\ nextId' \in Nat \ {0}
    <3>1. CASE UNCHANGED <<secrets, nextId>>
      BY <3>1 DEF TypeOK
    <3>2. CASE /\ nextId' = nextId + 1
               /\ secrets' = [secrets EXCEPT
                                ![i] = [name |-> Original(n), data |-> None]]
      BY <2>4, <3>2 DEF TypeOK
    <3> QED
      BY <2>1, <3>1, <3>2
  <2>6. running' \in [Services -> [Names -> Value \cup {None}]]
    BY <1>3 DEF Deploy, TypeOK
  <2> QED
    BY <1>3, <2>3, <2>5, <2>6 DEF Deploy, TypeOK
<1> QED
  BY <1>1, <1>2, <1>3 DEF Environment

LEMMA GetTyped ==
    ASSUME TypeOK, NEW s \in Services, NEW n \in Names,
           GetFetch(s, n) \/ GetStep(s, n)
    PROVE  TypeOK'
<1>0. SecretPath[n][s] \in Paths
  BY PathAssumption
<1>1. CASE GetFetch(s, n)
  <2>1. services[s].refs[n].id \in Ids
    BY <1>1, NoneIsNothing DEF GetFetch, TypeOK, ServiceSpec, Ref
  <2>2. Stored(SecretPath[n][s]) \in Value
    BY <1>0, StoredType
  <2>3. [pc |-> "fetched", val |-> Stored(SecretPath[n][s]),
         id |-> services[s].refs[n].id] \in Request
    BY <2>1, <2>2 DEF Request
  <2>4. /\ get' \in [Services -> [Names -> Request]]
        /\ \A t \in Services, m \in Names :
              get'[t][m].pc # "idle" => get'[t][m].val # None
    BY <1>1, <2>2, <2>3, NoneIsNothing DEF GetFetch, TypeOK
  <2> QED
    BY <1>1, <2>4 DEF GetFetch, TypeOK, swarm
<1>2. CASE GetTrack(s, n)
  <2>1. get[s][n] \in Request /\ get[s][n].val \in Value
    BY <1>2 DEF GetTrack, TypeOK, Request
  <2>2. Track(n, SecretPath[n][s], get[s][n].val) \in [path : Paths, hash : Value]
    BY <1>0, <2>1 DEF Track, TypeOK
  <2>3. tracker' \in [Names -> [path : Paths, hash : Value] \cup {None}]
        /\ \A m \in Names : tracker[m] # None => tracker'[m] # None
    BY <1>2, <2>2, NoneIsNothing DEF GetTrack, TypeOK
  <2>4. get' \in [Services -> [Names -> Request]]
    BY <1>2, <2>1 DEF GetTrack, TypeOK, Request
  <2> QED
    BY <1>2, <2>1, <2>3, <2>4 DEF GetTrack, TypeOK, swarm
<1>3. CASE GetRespond(s, n)
  <2>1. get[s][n].val \in Value
    BY <1>3 DEF GetRespond, TypeOK, Request
  <2>2. running' \in [Services -> [Names -> Value \cup {None}]]
    BY <1>3, <2>1, TransformType DEF GetRespond, TypeOK
  <2> QED
    BY <1>3, <2>2, IdleTypes DEF GetRespond, TypeOK, IdleRequest
<1>4. CASE GetTransformError(s, n)
  BY <1>4, IdleTypes DEF GetTransformError, Fault, TypeOK, IdleRequest, swarm
<1> QED
  BY <1>1, <1>2, <1>3, <1>4 DEF GetStep

\* Setting the state of a goroutine that runs keeps the type of all and
\* starts no other.
LEMMA GotoType ==
    ASSUME TypeOK, NEW n \in Names, NEW w \in Worker, Goto(n, w),
           worker[n].pc # "idle"
    PROVE  /\ worker' \in [Names -> Worker]
           /\ \A m \in Names : worker'[m].pc # "idle" => worker[m].pc # "idle"
  BY DEF Goto, TypeOK

\* A metric that saturates stays a number.
LEMMA CappedType ==
    ASSUME NEW count \in Nat PROVE Capped(count) \in Nat
  BY DEF Capped

\* A goroutine that gives up is idle again and counts an error.
LEMMA FailType ==
    ASSUME TypeOK, NEW n \in Names, Fail(n), worker[n].pc # "idle"
    PROVE  /\ worker' \in [Names -> Worker]
           /\ metrics' \in [rotations : Nat, errors : Nat]
           /\ \A m \in Names : worker'[m].pc # "idle" => worker[m].pc # "idle"
<1>1. metrics' \in [rotations : Nat, errors : Nat]
  <2>1. metrics \in [rotations : Nat, errors : Nat]
    BY DEF TypeOK
  <2>2. Capped(metrics.errors) \in Nat
    BY <2>1, CappedType
  <2>3. metrics' = [metrics EXCEPT !.errors = Capped(metrics.errors)]
    BY DEF Fail
  <2> QED
    BY <2>1, <2>2, <2>3
<1>2. Goto(n, IdleWorker)
  BY DEF Fail
<1>3. IdleWorker \in Worker
  BY IdleTypes
<1> QED
  BY <1>1, <1>2, <1>3, GotoType

LEMMA FaultType == TypeOK /\ (Fault \/ NoFault \/ UNCHANGED faults) => faults' \in Nat
  BY DEF Fault, NoFault, TypeOK

LEMMA CheckTyped ==
    ASSUME TypeOK, NEW n \in Names,
           CheckFetch(n) \/ Compare(n) \/ Fetch(n) \/ Lookup(n)
    PROVE  TypeOK'
<1>0. worker[n] \in Worker
  BY DEF TypeOK
<1>1. CASE CheckFetch(n)
  <2>1. tracker[n].path \in Paths
    BY <1>1 DEF CheckFetch, TypeOK
  <2>2. [worker[n] EXCEPT !.pc = "compare", !.val = Stored(tracker[n].path)] \in Worker
    BY <1>0, <2>1, StoredType DEF Worker, Stages
  <2>3. \E w \in Worker : Goto(n, w)
    BY <1>1, <2>2, IdleTypes DEF CheckFetch
  <2>4. /\ worker' \in [Names -> Worker]
        /\ \A m \in Names : worker'[m].pc # "idle" => worker[m].pc # "idle"
    BY <1>1, <2>3, GotoType DEF CheckFetch
  <2>5. faults' \in Nat
    BY <1>1, FaultType DEF CheckFetch
  <2> QED
    BY <1>1, <2>4, <2>5 DEF CheckFetch, TypeOK, swarm
<1>2. CASE Compare(n)
  <2>1. [worker[n] EXCEPT !.pc = "fetch"] \in Worker
    BY <1>0 DEF Worker, Stages
  <2>2. \E w \in Worker : Goto(n, w)
    BY <1>2, <2>1, IdleTypes DEF Compare
  <2>3. /\ worker' \in [Names -> Worker]
        /\ \A m \in Names : worker'[m].pc # "idle" => worker[m].pc # "idle"
    BY <1>2, <2>2, GotoType DEF Compare
  <2> QED
    BY <1>2, <2>3 DEF Compare, TypeOK, swarm
<1>3. CASE Fetch(n)
  <2>1. tracker[n].path \in Paths
    BY <1>3 DEF Fetch, TypeOK
  <2>2. [worker[n] EXCEPT !.pc = "lookup", !.val = Stored(tracker[n].path)] \in Worker
    BY <1>0, <2>1, StoredType DEF Worker, Stages
  <2>3. \/ Fail(n)
        \/ (\E w \in Worker : Goto(n, w)) /\ UNCHANGED metrics
    BY <1>3, <2>2 DEF Fetch
  <2>4. /\ worker' \in [Names -> Worker]
        /\ metrics' \in [rotations : Nat, errors : Nat]
        /\ \A m \in Names : worker'[m].pc # "idle" => worker[m].pc # "idle"
    BY <1>3, <2>3, FailType, GotoType DEF Fetch, TypeOK
  <2>5. faults' \in Nat
    BY <1>3, FaultType DEF Fetch
  <2> QED
    BY <1>3, <2>4, <2>5 DEF Fetch, TypeOK, swarm
<1>4. CASE Lookup(n)
  <2>1. ASSUME NEW i \in Named(Original(n))
        PROVE  [worker[n] EXCEPT !.pc = "create", !.old = i] \in Worker
    BY <1>0, <2>1 DEF Worker, Stages, Named
  <2>2. \/ Fail(n)
        \/ (\E w \in Worker : Goto(n, w)) /\ UNCHANGED metrics
    BY <1>4, <2>1 DEF Lookup
  <2>3. /\ worker' \in [Names -> Worker]
        /\ metrics' \in [rotations : Nat, errors : Nat]
        /\ \A m \in Names : worker'[m].pc # "idle" => worker[m].pc # "idle"
    BY <1>4, <2>2, FailType, GotoType DEF Lookup, TypeOK
  <2>4. faults' \in Nat
    BY <1>4, FaultType DEF Lookup
  <2> QED
    BY <1>4, <2>3, <2>4 DEF Lookup, TypeOK, swarm
<1> QED
  BY <1>1, <1>2, <1>3, <1>4

\* Creating and removing secrets keeps their type.
LEMMA AddSecretType ==
    ASSUME TypeOK, NEW n \in Names, AddSecret(n), worker[n].val \in Value
    PROVE  secrets' \in [Ids -> DockerSecret \cup {None}] /\ nextId' \in Nat \ {0}
<1>1. [name |-> NewName(n), data |-> Transform(n, worker[n].val)] \in DockerSecret
  BY TransformType DEF NewName, DockerSecret, SecretName, TypeOK
<1> QED
  BY <1>1 DEF AddSecret, TypeOK

LEMMA RemoveSecretType ==
    ASSUME TypeOK, NEW i, RemoveSecret(i) \/ UNCHANGED secrets
    PROVE  secrets' \in [Ids -> DockerSecret \cup {None}]
  BY DEF RemoveSecret, TypeOK

\* So does rewriting the references of a service.
LEMMA UpdatedRefsType ==
    ASSUME NEW spec \in ServiceSpec, NEW n \in Names, NEW old, NEW new \in Ids
    PROVE  UpdatedRefs(spec, n, old, new) \in [Names -> Ref \cup {None}]
<1>1. new \in Nat
  BY BoundAssumption DEF Ids
<1>2. [id |-> new, name |-> [base |-> n, stamp |-> new]] \in Ref
  BY <1>1 DEF Ref, SecretName
<1> QED
  BY <1>2 DEF UpdatedRefs, ServiceSpec

LEMMA NextServiceType ==
    ASSUME NEW w \in Worker, NEW todo \in SUBSET Services
    PROVE  NextService(w, todo) \in Worker
  BY DEF NextService, Worker, Stages

LEMMA RotateTyped ==
    ASSUME TypeOK, NEW n \in Names, HandlesInv(n), SnapshotInv(n),
           \/ Create(n) \/ ListServices(n)
           \/ \E s \in Services : UpdateService(n, s)
           \/ Cleanup(n) \/ RemoveOld(n) \/ Record(n)
    PROVE  TypeOK'
<1>0. worker[n] \in Worker
  BY DEF TypeOK
<1>1. CASE Create(n)
  <2>1. worker[n].val \in Value
    BY <1>0, <1>1 DEF Create, HandlesInv, HasVal, HasOld, Worker
  <2>2. secrets' \in [Ids -> DockerSecret \cup {None}] /\ nextId' \in Nat \ {0}
    <3>1. CASE AddSecret(n)
      BY <2>1, <3>1, AddSecretType
    <3>2. CASE ~AddSecret(n)
      BY <1>1, <3>2 DEF Create, TypeOK
    <3> QED
      BY <3>1, <3>2
  <2>3. \/ Fail(n)
        \/ (\E w \in Worker : Goto(n, w)) /\ UNCHANGED metrics
    <3>1. nextId \in Ids => [worker[n] EXCEPT !.pc = "list", !.new = nextId] \in Worker
      BY <1>0 DEF Worker, Stages
    <3> QED
      BY <1>1, <3>1 DEF Create, AddSecret
  <2>4. /\ worker' \in [Names -> Worker]
        /\ metrics' \in [rotations : Nat, errors : Nat]
        /\ \A m \in Names : worker'[m].pc # "idle" => worker[m].pc # "idle"
    BY <1>1, <2>3, FailType, GotoType DEF Create, TypeOK
  <2>5. faults' \in Nat
    BY <1>1, FaultType DEF Create
  <2> QED
    BY <1>1, <2>2, <2>4, <2>5 DEF Create, TypeOK
<1>2. CASE ListServices(n)
  <2>1. [worker[n] EXCEPT !.snap = services] \in Worker
    BY <1>0 DEF Worker, TypeOK
  <2>2. [worker[n] EXCEPT !.pc = "cleanup"] \in Worker
    BY <1>0 DEF Worker, Stages
  <2>3. \E w \in Worker : Goto(n, w)
    BY <1>2, <2>1, <2>2, NextServiceType DEF ListServices
  <2>4. /\ worker' \in [Names -> Worker]
        /\ \A m \in Names : worker'[m].pc # "idle" => worker[m].pc # "idle"
    BY <1>2, <2>3, GotoType DEF ListServices
  <2>5. faults' \in Nat
    BY <1>2, FaultType DEF ListServices
  <2> QED
    BY <1>2, <2>4, <2>5 DEF ListServices, TypeOK, swarm
<1>3. ASSUME NEW s \in Services, UpdateService(n, s) PROVE TypeOK'
  <2>1. /\ worker[n].val \in Value
        /\ worker[n].new \in Ids
        /\ worker[n].snap[s] \in ServiceSpec
    BY <1>0, <1>3 DEF UpdateService, HandlesInv, HasVal, HasOld, HasNew,
                      SnapshotInv, Listed, Worker
  <2>2. /\ services' \in [Services -> ServiceSpec]
        /\ running' \in [Services -> [Names -> Value \cup {None}]]
    <3>1. CASE ApplyUpdate(n, s)
      <4>1. services' \in [Services -> ServiceSpec]
        BY <2>1, <3>1, UpdatedRefsType, RespecifyType DEF ApplyUpdate
      <4>2. Transform(n, worker[n].val) \in Value
        BY <2>1, TransformType
      <4>3. running' \in [Services -> [Names -> Value \cup {None}]]
        BY <3>1, <4>2 DEF ApplyUpdate, TypeOK
      <4> QED
        BY <4>1, <4>3
    <3>2. CASE UNCHANGED <<services, running>>
      BY <3>2 DEF TypeOK
    <3> QED
      BY <1>3, <3>1, <3>2 DEF UpdateService
  <2>3. \E w \in Worker : Goto(n, w)
    <3>1. AfterUpdateError(n, s) \in Worker
      BY <1>0 DEF AfterUpdateError, Worker, Stages
    <3>2. NextService(worker[n], worker[n].todo \ {s}) \in Worker
      <4>1. worker[n].todo \ {s} \in SUBSET Services
        BY <1>0 DEF Worker
      <4> QED
        BY <1>0, <4>1, NextServiceType
    <3> QED
      BY <1>3, <3>1, <3>2 DEF UpdateService
  <2>4. /\ worker' \in [Names -> Worker]
        /\ \A m \in Names : worker'[m].pc # "idle" => worker[m].pc # "idle"
    BY <1>3, <2>3, GotoType DEF UpdateService
  <2>5. faults' \in Nat
    BY <1>3, FaultType DEF UpdateService, Refused
  <2> QED
    BY <1>3, <2>2, <2>4, <2>5 DEF UpdateService, TypeOK
<1>4. CASE Cleanup(n)
  <2>1. secrets' \in [Ids -> DockerSecret \cup {None}]
    BY <1>4, RemoveSecretType DEF Cleanup
  <2>2. /\ worker' \in [Names -> Worker]
        /\ metrics' \in [rotations : Nat, errors : Nat]
        /\ \A m \in Names : worker'[m].pc # "idle" => worker[m].pc # "idle"
    BY <1>4, FailType DEF Cleanup
  <2>3. faults' \in Nat
    BY <1>4, FaultType DEF Cleanup
  <2> QED
    BY <1>4, <2>1, <2>2, <2>3 DEF Cleanup, TypeOK
<1>5. CASE RemoveOld(n)
  <2>1. secrets' \in [Ids -> DockerSecret \cup {None}]
    BY <1>5, RemoveSecretType DEF RemoveOld
  <2>2. [worker[n] EXCEPT !.pc = "record"] \in Worker
    BY <1>0 DEF Worker, Stages
  <2>3. /\ worker' \in [Names -> Worker]
        /\ \A m \in Names : worker'[m].pc # "idle" => worker[m].pc # "idle"
    BY <1>5, <2>2, GotoType DEF RemoveOld
  <2>4. faults' \in Nat
    BY <1>5, FaultType DEF RemoveOld
  <2> QED
    BY <1>5, <2>1, <2>3, <2>4 DEF RemoveOld, TypeOK
<1>6. CASE Record(n)
  <2>1. worker[n].val \in Value
    BY <1>0, <1>6 DEF Record, HandlesInv, HasVal, HasOld, HasNew, Worker
  <2>2. tracker[n] \in [path : Paths, hash : Value]
    BY <1>6 DEF Record, TypeOK
  <2>3. /\ tracker' \in [Names -> [path : Paths, hash : Value] \cup {None}]
        /\ \A m \in Names : tracker[m] # None => tracker'[m] # None
    <3>1. [tracker[n] EXCEPT !.hash = worker[n].val] \in [path : Paths, hash : Value]
      BY <2>1, <2>2
    <3> QED
      BY <1>6, <3>1, NoneIsNothing DEF Record, TypeOK
  <2>4. metrics' \in [rotations : Nat, errors : Nat]
    <3>1. metrics \in [rotations : Nat, errors : Nat]
      BY DEF TypeOK
    <3>2. Capped(metrics.rotations) \in Nat
      BY <3>1, CappedType
    <3>3. metrics' = [metrics EXCEPT !.rotations = Capped(metrics.rotations)]
      BY <1>6 DEF Record
    <3> QED
      BY <3>1, <3>2, <3>3
  <2>5. /\ worker' \in [Names -> Worker]
        /\ \A m \in Names : worker'[m].pc # "idle" => worker[m].pc # "idle"
    <3>1. Goto(n, IdleWorker) /\ worker[n].pc # "idle"
      BY <1>6 DEF Record
    <3>2. IdleWorker \in Worker
      BY IdleTypes
    <3> QED
      BY <3>1, <3>2, GotoType
  <2> QED
    BY <1>6, <2>3, <2>4, <2>5 DEF Record, TypeOK, swarm
<1> QED
  BY <1>1, <1>2, <1>3, <1>4, <1>5, <1>6

LEMMA TickTyped == TypeOK /\ Tick => TypeOK'
<1> SUFFICES ASSUME TypeOK, Tick PROVE TypeOK'
  OBVIOUS
<1>1. [IdleWorker EXCEPT !.pc = "check"] \in Worker
  BY DEF IdleWorker, Worker, Stages
<1>2. /\ worker' \in [Names -> Worker]
      /\ \A n \in Names : worker'[n].pc # "idle" => tracker[n] # None
  BY <1>1, IdleTypes DEF Tick, Tracked, IdleWorker
<1> QED
  BY <1>2 DEF Tick, TypeOK, swarm

LEMMA RestartTyped == TypeOK /\ Restart => TypeOK'
<1> SUFFICES ASSUME TypeOK, Restart PROVE TypeOK'
  OBVIOUS
<1>1. /\ worker' \in [Names -> Worker]
      /\ \A n \in Names : worker'[n].pc = "idle"
  BY IdleTypes DEF Restart, IdleWorker
<1>2. /\ get' \in [Services -> [Names -> Request]]
      /\ \A s \in Services, n \in Names : get'[s][n].pc = "idle"
  BY IdleTypes DEF Restart, IdleRequest
<1>3. faults' \in Nat
  BY FaultType DEF Restart
<1>4. metrics' \in [rotations : Nat, errors : Nat]
  BY DEF Restart, NoMetrics
<1>5. tracker' \in [Names -> [path : Paths, hash : Value] \cup {None}]
  BY DEF Restart
<1> QED
  BY <1>1, <1>2, <1>3, <1>4, <1>5 DEF Restart, TypeOK, swarm

-----------------------------------------------------------------------------
(***************************************************************************)
(* How the parts of the invariant survive each kind of change.             *)
(***************************************************************************)

\* A goroutine's handles survive when the others only add secrets or remove
\* secrets that are not its new one.
LEMMA HandlesFrame ==
    ASSUME TypeOK, SecretsInv, NEW n \in Names, HandlesInv(n),
           worker'[n] = worker[n], nextId' \in Nat, nextId' >= nextId,
           \A i \in Ids : i < nextId =>
              \/ secrets'[i] = secrets[i]
              \/ secrets'[i] = None /\ ~(HasNew(n) /\ i = worker[n].new)
    PROVE  HandlesInv(n)'
<1>1. \A i \in Ids : i \in Nat
  BY BoundAssumption DEF Ids
<1>2. HasNew(n) => worker[n].new < nextId
  BY DEF HandlesInv, SecretsInv
<1> QED
  BY <1>1, <1>2 DEF HandlesInv, HasVal, HasOld, HasNew, TypeOK

\* A new version of a service invalidates the listings, and nothing else.
LEMMA RespecifyFrame ==
    ASSUME TypeOK, NEW n \in Names, SnapshotInv(n), Covered(n),
           worker'[n] = worker[n],
           NEW s \in Services, NEW refs, Respecify(s, refs)
    PROVE  SnapshotInv(n)' /\ Covered(n)'
<1> SUFFICES ASSUME Listed(n) PROVE SnapshotInv(n)' /\ Covered(n)'
  BY DEF SnapshotInv, Covered, Listed
<1>1. worker[n].snap \in [Services -> ServiceSpec]
  BY DEF TypeOK, Worker, SnapshotInv
<1>2. /\ services'[s].ver = services[s].ver + 1
      /\ \A t \in Services \ {s} : services'[t] = services[t]
  BY DEF Respecify, TypeOK
<1>3. \A t \in Services : services[t].ver \in Nat /\ worker[n].snap[t].ver \in Nat
  BY <1>1 DEF TypeOK, ServiceSpec
<1>4. SnapshotInv(n)'
  BY <1>2, <1>3 DEF SnapshotInv, Listed
<1>5. ASSUME NEW t \in Services \ worker[n].todo,
             NeedsUpdate(worker[n].snap[t], n, worker[n].old)
      PROVE  Moved(n, t)'
  <2>1. Moved(n, t)
    BY <1>5 DEF Covered
  <2>2. CASE t = s
    BY <1>2, <1>3, <2>1, <2>2 DEF Moved
  <2>3. CASE t # s
    BY <1>2, <2>1, <2>3 DEF Moved
  <2> QED
    BY <2>2, <2>3
<1> QED
  BY <1>4, <1>5 DEF Covered, NeedsUpdate

\* Without a change of the services the listings stay as good as they were.
LEMMA SnapshotFrame ==
    ASSUME NEW n \in Names, SnapshotInv(n), Covered(n),
           worker'[n] = worker[n], services' = services
    PROVE  SnapshotInv(n)' /\ Covered(n)'
  BY DEF SnapshotInv, Covered, Listed, NeedsUpdate, Moved

\* Adding a secret under the next ID.
LEMMA GrowFrame ==
    ASSUME TypeOK, SecretsInv, NoDanglingReference, NEW sec \in DockerSecret,
           sec.name.stamp \in {0, nextId}, nextId \in Ids,
           secrets' = [secrets EXCEPT ![nextId] = sec], nextId' = nextId + 1
    PROVE  /\ SecretsInv'
           /\ \A i \in Ids : i < nextId => secrets'[i] = secrets[i]
           /\ secrets'[nextId] = sec
           /\ \A i \in Ids : secrets[i] # None => secrets'[i] = secrets[i]
<1>1. \A i \in Ids : i \in Nat
  BY BoundAssumption DEF Ids
<1>2. /\ \A i \in Ids : i # nextId => secrets'[i] = secrets[i]
      /\ secrets'[nextId] = sec
  BY DEF TypeOK
<1>3. secrets[nextId] = None
  BY <1>1 DEF SecretsInv
<1>4. SecretsInv'
  BY <1>1, <1>2 DEF SecretsInv
<1> QED
  BY <1>1, <1>2, <1>3, <1>4

\* Removing a secret that is not in use.
LEMMA RemoveFrame ==
    ASSUME TypeOK, SecretsInv, NoDanglingReference, NEW i \in Ids,
           RemoveSecret(i) \/ UNCHANGED secrets, UNCHANGED <<services, nextId>>
    PROVE  /\ SecretsInv' /\ NoDanglingReference'
           /\ \A j \in Ids :
                 secrets'[j] = secrets[j] \/ (secrets'[j] = None /\ j = i)
<1>1. \A j \in Ids :
         secrets'[j] = secrets[j] \/ (secrets'[j] = None /\ j = i /\ ~InUse(i))
  <2>1. CASE secrets' = secrets
    BY <2>1
  <2>2. CASE ~InUse(i) /\ secrets' = [secrets EXCEPT ![i] = None]
    BY <2>2 DEF TypeOK
  <2> QED
    BY <2>1, <2>2 DEF RemoveSecret
<1>2. SecretsInv'
  BY <1>1 DEF SecretsInv
<1>3. ASSUME NEW s \in Services, NEW n \in Names, services[s].refs[n] # None
      PROVE  secrets'[services[s].refs[n].id] = secrets[services[s].refs[n].id]
  <2>1. services[s].refs[n].id \in Ids
    BY <1>3 DEF TypeOK, ServiceSpec, Ref
  <2>2. InUse(services[s].refs[n].id)
    BY <1>3 DEF InUse
  <2> QED
    BY <1>1, <2>1, <2>2
<1>4. NoDanglingReference'
  <2> SUFFICES ASSUME NEW s \in Services, NEW n \in Names,
                      services'[s].refs[n] # None
               PROVE  LET ref == services'[s].refs[n]
                      IN  secrets'[ref.id] # None /\ secrets'[ref.id].name = ref.name
    BY DEF NoDanglingReference
  <2> QED
    BY <1>3 DEF NoDanglingReference
<1> QED
  BY <1>1, <1>2, <1>4

-----------------------------------------------------------------------------
(***************************************************************************)
(* The invariant is inductive.                                             *)
(***************************************************************************)
WorkerInv(n) == HandlesInv(n) /\ SnapshotInv(n) /\ Covered(n)

LEMMA InvParts == Inv <=> /\ TypeOK /\ SecretsInv /\ NoDanglingReference
                          /\ SlotKeepsItsSecret
                          /\ \A n \in Names : WorkerInv(n)
  BY DEF Inv, WorkerInv, RotationCoversSnapshot

LEMMA InvPartsNext == Inv' <=> /\ TypeOK' /\ SecretsInv' /\ NoDanglingReference'
                               /\ SlotKeepsItsSecret'
                               /\ \A n \in Names : WorkerInv(n)'
  BY DEF Inv, WorkerInv, RotationCoversSnapshot

LEMMA InvInit == Init => Inv
<1> SUFFICES ASSUME Init PROVE Inv
  OBVIOUS
<1>1. SecretsInv
  BY DEF Init, SecretsInv
<1>2. NoDanglingReference /\ SlotKeepsItsSecret
  BY DEF Init, NoDanglingReference, SlotKeepsItsSecret
<1>3. \A n \in Names : WorkerInv(n)
  BY DEF Init, WorkerInv, IdleWorker, HandlesInv, SnapshotInv, Covered,
         HasVal, HasOld, HasNew, Listed
<1> QED
  BY <1>1, <1>2, <1>3, TypeInit, InvParts

LEMMA GotoOnly ==
    ASSUME TypeOK, NEW n \in Names, NEW w, Goto(n, w)
    PROVE  worker'[n] = w /\ \A m \in Names \ {n} : worker'[m] = worker[m]
  BY DEF TypeOK, Goto

\* A goroutine that ended, or has only begun, has nothing to keep.
LEMMA BegunInv ==
    ASSUME NEW n \in Names, worker'[n].pc \in {"idle", "check"}
    PROVE  WorkerInv(n)'
  BY DEF WorkerInv, HandlesInv, SnapshotInv, Covered, HasVal, HasOld, HasNew, Listed

\* Nothing of it is disturbed when neither the swarm's specifications nor the
\* goroutine change.
LEMMA QuietInv ==
    ASSUME NEW n \in Names, WorkerInv(n), worker'[n] = worker[n],
           UNCHANGED <<secrets, nextId, services>>
    PROVE  WorkerInv(n)'
<1>1. HandlesInv(n)'
  BY DEF WorkerInv, HandlesInv, HasVal, HasOld, HasNew
<1> QED
  BY <1>1, SnapshotFrame DEF WorkerInv

LEMMA QuietStep ==
    ASSUME Inv, UNCHANGED <<secrets, nextId, services>>
    PROVE  SecretsInv' /\ NoDanglingReference' /\ SlotKeepsItsSecret'
  BY DEF Inv, SecretsInv, NoDanglingReference, SlotKeepsItsSecret

\* A step of goroutine n that leaves the swarm's specifications alone.
LEMMA LocalStep ==
    ASSUME Inv, TypeOK', NEW n \in Names, NEW w, Goto(n, w), WorkerInv(n)',
           UNCHANGED <<secrets, nextId, services>>
    PROVE  Inv'
<1>1. \A m \in Names \ {n} : WorkerInv(m)'
  BY GotoOnly, QuietInv, InvParts
<1> QED
  BY <1>1, QuietStep, InvPartsNext

\* A new specification for service s, made of references that exist.
LEMMA RespecifyRefs ==
    ASSUME TypeOK, NEW s \in Services, NEW refs \in [Names -> Ref \cup {None}],
           Respecify(s, refs)
    PROVE  /\ services'[s].refs = refs
           /\ \A t \in Services \ {s} : services'[t] = services[t]
  BY DEF Respecify, TypeOK

LEMMA EnvironmentInv == Inv /\ Environment => Inv'
<1> SUFFICES ASSUME Inv, Environment PROVE Inv'
  OBVIOUS
<1>0. TypeOK /\ TypeOK' /\ SecretsInv /\ NoDanglingReference /\ SlotKeepsItsSecret
  BY EnvironmentTyped, InvParts
<1>1. ASSUME NEW p \in Paths, ProviderWrite(p) PROVE Inv'
  <2>1. \A n \in Names : WorkerInv(n)'
    BY <1>1, QuietInv, InvParts DEF ProviderWrite, swarm
  <2> QED
    BY <1>0, <1>1, <2>1, QuietStep, InvPartsNext DEF ProviderWrite, swarm
<1>2. ASSUME NEW s \in Services, Touch(s) PROVE Inv'
  <2>1. /\ services[s].refs \in [Names -> Ref \cup {None}]
        /\ Respecify(s, services[s].refs)
        /\ UNCHANGED <<secrets, nextId, worker>>
    BY <1>0, <1>2 DEF Touch, TypeOK, ServiceSpec
  <2>2. \A t \in Services : services'[t].refs = services[t].refs
    BY <1>0, <2>1, RespecifyRefs
  <2>3. SecretsInv' /\ NoDanglingReference' /\ SlotKeepsItsSecret'
    BY <1>0, <2>1, <2>2 DEF SecretsInv, NoDanglingReference, SlotKeepsItsSecret
  <2>4. ASSUME NEW n \in Names PROVE WorkerInv(n)'
    <3>1. HandlesInv(n)'
      BY <2>1, InvParts DEF WorkerInv, HandlesInv, HasVal, HasOld, HasNew
    <3>2. SnapshotInv(n)' /\ Covered(n)'
      BY <1>0, <2>1, RespecifyFrame, InvParts DEF WorkerInv
    <3> QED
      BY <3>1, <3>2 DEF WorkerInv
  <2> QED
    BY <1>0, <2>3, <2>4, InvPartsNext
<1>3. ASSUME NEW s \in Services, NEW n \in Names, Deploy(s, n) PROVE Inv'
  <2>1. PICK i \in Ids :
          /\ \/ i \in Named(Original(n)) /\ UNCHANGED <<secrets, nextId>>
             \/ /\ Named(Original(n)) = {}
                /\ i = nextId
                /\ nextId' = nextId + 1
                /\ secrets' = [secrets EXCEPT
                                 ![i] = [name |-> Original(n), data |-> None]]
          /\ Respecify(s, [services[s].refs EXCEPT
                            ![n] = [id |-> i, name |-> Original(n)]])
          /\ UNCHANGED worker
    BY <1>3 DEF Deploy
  <2> DEFINE sec  == [name |-> Original(n), data |-> None]
             refs == [services[s].refs EXCEPT ![n] = [id |-> i, name |-> Original(n)]]
  <2>2. sec \in DockerSecret /\ sec.name.stamp = 0 /\ sec # None
    BY OriginalType, NoneIsNothing DEF DockerSecret, Original
  <2>3. /\ SecretsInv'
        /\ nextId' \in Nat /\ nextId' >= nextId
        /\ \A j \in Ids : j < nextId => secrets'[j] = secrets[j]
        /\ \A j \in Ids : secrets[j] # None => secrets'[j] = secrets[j]
        /\ secrets'[i] # None /\ secrets'[i].name = Original(n)
    <3>1. CASE i \in Named(Original(n)) /\ UNCHANGED <<secrets, nextId>>
      BY <1>0, <3>1 DEF Named, SecretsInv, TypeOK
    <3>2. CASE /\ i = nextId
               /\ nextId' = nextId + 1
               /\ secrets' = [secrets EXCEPT ![i] = sec]
      <4>1. nextId' \in Nat /\ nextId' >= nextId
        BY <1>0, <3>2 DEF TypeOK
      <4>2. /\ nextId \in Ids /\ sec.name.stamp \in {0, nextId}
            /\ secrets' = [secrets EXCEPT ![nextId] = sec]
        BY <2>2, <3>2
      <4> HIDE DEF sec
      <4>3. /\ SecretsInv'
            /\ \A j \in Ids : j < nextId => secrets'[j] = secrets[j]
            /\ secrets'[nextId] = sec
            /\ \A j \in Ids : secrets[j] # None => secrets'[j] = secrets[j]
        BY <1>0, <2>2, <3>2, <4>2, GrowFrame
      <4>4. sec.name = Original(n)
        BY DEF sec
      <4> QED
        BY <2>2, <3>2, <4>1, <4>3, <4>4
    <3> QED
      BY <2>1, <3>1, <3>2
  <2>4. refs \in [Names -> Ref \cup {None}] /\ [id |-> i, name |-> Original(n)] \in Ref
    BY <1>0, OriginalType DEF TypeOK, ServiceSpec, Ref
  <2>5. /\ services'[s].refs = refs
        /\ \A t \in Services \ {s} : services'[t] = services[t]
    BY <1>0, <2>1, <2>4, RespecifyRefs
  <2>6. \A t \in Services, m \in Names :
           \/ services'[t].refs[m] = services[t].refs[m]
           \/ m = n /\ services'[t].refs[m] = [id |-> i, name |-> Original(n)]
    <3> SUFFICES ASSUME NEW t \in Services, NEW m \in Names
                 PROVE  \/ services'[t].refs[m] = services[t].refs[m]
                        \/ /\ m = n
                           /\ services'[t].refs[m] = [id |-> i, name |-> Original(n)]
      OBVIOUS
    <3>1. CASE t = s
      <4>1. services[s].refs \in [Names -> Ref \cup {None}]
        BY <1>0 DEF TypeOK, ServiceSpec
      <4> QED
        BY <2>5, <3>1, <4>1
    <3>2. CASE t # s
      BY <2>5, <3>2
    <3> QED
      BY <3>1, <3>2
  <2>7. NoDanglingReference' /\ SlotKeepsItsSecret'
    <3> SUFFICES ASSUME NEW t \in Services, NEW m \in Names,
                        services'[t].refs[m] # None
                 PROVE  /\ secrets'[services'[t].refs[m].id] # None
                        /\ secrets'[services'[t].refs[m].id].name
                              = services'[t].refs[m].name
                        /\ services'[t].refs[m].name.base = m
      BY DEF NoDanglingReference, SlotKeepsItsSecret
    <3>1. CASE services'[t].refs[m] = services[t].refs[m]
      <4>1. services[t].refs[m].id \in Ids
        BY <1>0, <3>1 DEF TypeOK, ServiceSpec, Ref
      <4> QED
        BY <1>0, <2>3, <3>1, <4>1 DEF NoDanglingReference, SlotKeepsItsSecret
    <3>2. CASE m = n /\ services'[t].refs[m] = [id |-> i, name |-> Original(n)]
      BY <2>3, <3>2 DEF Original
    <3> QED
      BY <2>6, <3>1, <3>2
  <2>8. ASSUME NEW m \in Names PROVE WorkerInv(m)'
    <3>1. HandlesInv(m)'
      BY <1>0, <2>1, <2>3, HandlesFrame, InvParts DEF WorkerInv
    <3>2. SnapshotInv(m)' /\ Covered(m)'
      BY <1>0, <2>1, RespecifyFrame, InvParts DEF WorkerInv
    <3> QED
      BY <3>1, <3>2 DEF WorkerInv
  <2> QED
    BY <1>0, <2>3, <2>7, <2>8, InvPartsNext
<1> QED
  BY <1>1, <1>2, <1>3 DEF Environment

LEMMA GetInv ==
    ASSUME Inv, NEW s \in Services, NEW n \in Names,
           GetFetch(s, n) \/ GetStep(s, n)
    PROVE  Inv'
<1>1. UNCHANGED <<secrets, nextId, services, worker>>
  BY DEF GetFetch, GetStep, GetTrack, GetRespond, GetTransformError, swarm
<1>2. \A m \in Names : WorkerInv(m)'
  BY <1>1, QuietInv, InvParts
<1>3. TypeOK'
  BY GetTyped, InvParts
<1> QED
  BY <1>1, <1>2, <1>3, QuietStep, InvPartsNext

LEMMA TickInv == Inv /\ (Tick \/ Restart) => Inv'
<1> SUFFICES ASSUME Inv, Tick \/ Restart PROVE Inv'
  OBVIOUS
<1>1. TypeOK'
  BY TickTyped, RestartTyped, InvParts
<1>2. \A n \in Names : worker'[n].pc \in {"idle", "check"}
  BY DEF Tick, Restart, IdleWorker
<1>3. UNCHANGED <<secrets, nextId, services>>
  BY DEF Tick, Restart, swarm
<1> QED
  BY <1>1, <1>2, <1>3, BegunInv, QuietStep, InvPartsNext

LEMMA FailInv ==
    ASSUME NEW n \in Names, TypeOK, Fail(n)
    PROVE  WorkerInv(n)' /\ Goto(n, IdleWorker)
<1>1. Goto(n, IdleWorker)
  BY DEF Fail
<1> QED
  BY <1>1, GotoOnly, BegunInv DEF IdleWorker

LEMMA CheckInv ==
    ASSUME Inv, NEW n \in Names,
           CheckFetch(n) \/ Compare(n) \/ Fetch(n) \/ Lookup(n)
    PROVE  Inv'
<1>0. TypeOK /\ TypeOK' /\ WorkerInv(n) /\ worker[n] \in Worker
  BY CheckTyped, InvParts DEF TypeOK
<1>1. UNCHANGED <<secrets, nextId, services>>
  BY DEF CheckFetch, Compare, Fetch, Lookup, swarm
<1>2. ASSUME NEW w \in Worker, Goto(n, w), w.pc \in {"idle", "fetch"} PROVE Inv'
  <2>1. WorkerInv(n)'
    BY <1>0, <1>2, GotoOnly
       DEF WorkerInv, HandlesInv, SnapshotInv, Covered, HasVal, HasOld, HasNew, Listed
  <2> QED
    BY <1>0, <1>1, <1>2, <2>1, LocalStep
<1>3. ASSUME NEW w \in Worker, Goto(n, w), w.pc \in {"compare", "lookup"}, w.val # None
      PROVE  Inv'
  <2>1. WorkerInv(n)'
    BY <1>0, <1>3, GotoOnly
       DEF WorkerInv, HandlesInv, SnapshotInv, Covered, HasVal, HasOld, HasNew, Listed
  <2> QED
    BY <1>0, <1>1, <1>3, <2>1, LocalStep
<1>4. CASE Goto(n, IdleWorker)
  BY <1>2, <1>4, IdleTypes DEF IdleWorker
<1>5. ASSUME tracker[n] # None
      PROVE  /\ Stored(tracker[n].path) \in Value
             /\ Stored(tracker[n].path) # None
  BY <1>0, <1>5, StoredType, NoneIsNothing DEF TypeOK
<1>6. CASE CheckFetch(n)
  <2>1. tracker[n] # None
    BY <1>0, <1>6 DEF CheckFetch, TypeOK
  <2> DEFINE w == [worker[n] EXCEPT !.pc = "compare", !.val = Stored(tracker[n].path)]
  <2>2. w \in Worker /\ w.pc = "compare" /\ w.val # None
    BY <1>0, <1>5, <2>1 DEF Worker, Stages
  <2> QED
    BY <1>3, <1>4, <1>6, <2>2 DEF CheckFetch
<1>7. CASE Compare(n)
  <2> DEFINE w == [worker[n] EXCEPT !.pc = "fetch"]
  <2>1. w \in Worker /\ w.pc = "fetch"
    BY <1>0 DEF Worker, Stages
  <2> QED
    BY <1>2, <1>4, <1>7, <2>1 DEF Compare
<1>8. CASE Fetch(n)
  <2>1. tracker[n] # None
    BY <1>0, <1>8 DEF Fetch, TypeOK
  <2> DEFINE w == [worker[n] EXCEPT !.pc = "lookup", !.val = Stored(tracker[n].path)]
  <2>2. w \in Worker /\ w.pc = "lookup" /\ w.val # None
    BY <1>0, <1>5, <2>1 DEF Worker, Stages
  <2> QED
    BY <1>3, <1>4, <1>8, <2>2 DEF Fetch, Fail
<1>9. CASE Lookup(n)
  <2>1. ASSUME NEW i \in Named(Original(n)),
               Goto(n, [worker[n] EXCEPT !.pc = "create", !.old = i])
        PROVE  Inv'
    <3> DEFINE w == [worker[n] EXCEPT !.pc = "create", !.old = i]
    <3>1. /\ w.pc = "create" /\ w.old = i /\ w.val = worker[n].val
      BY <1>0 DEF Worker
    <3>2. /\ i \in Ids /\ secrets[i].name = Original(n) /\ i < nextId
          /\ worker[n].val # None
      BY <1>0, <1>9, InvParts
         DEF Named, SecretsInv, Lookup, WorkerInv, HandlesInv, HasVal
    <3>3. worker'[n] = w
      BY <1>0, <2>1, GotoOnly
    <3>4. WorkerInv(n)'
      BY <1>1, <3>1, <3>2, <3>3
         DEF WorkerInv, HandlesInv, SnapshotInv, Covered, HasVal, HasOld, HasNew, Listed
    <3> QED
      BY <1>0, <1>1, <2>1, <3>4, LocalStep
  <2> QED
    BY <1>4, <1>9, <2>1 DEF Lookup, Fail
<1> QED
  BY <1>6, <1>7, <1>8, <1>9

LEMMA CreateInv ==
    ASSUME Inv, NEW n \in Names, Create(n)
    PROVE  Inv'
<1>0. TypeOK /\ TypeOK' /\ SecretsInv /\ NoDanglingReference /\ WorkerInv(n)
  BY RotateTyped, InvParts DEF WorkerInv
<1>1. CASE UNCHANGED <<secrets, nextId>>
  <2>1. Fail(n)
    BY <1>0, <1>1 DEF Create, AddSecret, TypeOK
  <2> QED
    BY <1>0, <1>1, <2>1, FailInv, LocalStep DEF Create
<1>2. CASE AddSecret(n)
  <2> DEFINE sec == [name |-> NewName(n), data |-> Transform(n, worker[n].val)]
  <2>1. sec \in DockerSecret /\ sec.name = [base |-> n, stamp |-> nextId]
    <3>1. worker[n].val \in Value
      BY <1>0 DEF Create, WorkerInv, HandlesInv, HasVal, HasOld, TypeOK, Worker
    <3> QED
      BY <1>0, <3>1, TransformType DEF NewName, DockerSecret, SecretName, TypeOK
  <2>2. /\ nextId \in Ids /\ sec.name.stamp \in {0, nextId}
        /\ secrets' = [secrets EXCEPT ![nextId] = sec] /\ nextId' = nextId + 1
    BY <1>2, <2>1 DEF AddSecret
  <2> HIDE DEF sec
  <2>3. /\ SecretsInv'
        /\ \A i \in Ids : i < nextId => secrets'[i] = secrets[i]
        /\ secrets'[nextId] = sec
        /\ \A i \in Ids : secrets[i] # None => secrets'[i] = secrets[i]
    BY <1>0, <2>1, <2>2, GrowFrame
  <2>4. nextId' \in Nat /\ nextId' >= nextId /\ nextId < nextId' /\ sec # None
    BY <1>0, <2>1, <2>2, NoneIsNothing DEF TypeOK
  <2>5. NoDanglingReference' /\ SlotKeepsItsSecret'
    <3> SUFFICES ASSUME NEW s \in Services, NEW m \in Names,
                        services[s].refs[m] # None
                 PROVE  /\ secrets'[services[s].refs[m].id] # None
                        /\ secrets'[services[s].refs[m].id].name
                              = services[s].refs[m].name
                        /\ services[s].refs[m].name.base = m
      BY DEF Create, NoDanglingReference, SlotKeepsItsSecret
    <3>1. services[s].refs[m].id \in Ids
      BY <1>0 DEF TypeOK, ServiceSpec, Ref
    <3> QED
      BY <1>0, <2>3, <3>1, InvParts DEF NoDanglingReference, SlotKeepsItsSecret
  <2>6. ASSUME NEW m \in Names \ {n} PROVE WorkerInv(m)'
    <3>1. worker'[m] = worker[m]
      BY <1>0, GotoOnly DEF Create, Fail
    <3>2. HandlesInv(m)'
      BY <1>0, <2>3, <2>4, <3>1, HandlesFrame, InvParts DEF WorkerInv
    <3>3. SnapshotInv(m)' /\ Covered(m)'
      BY <3>1, SnapshotFrame, InvParts DEF WorkerInv, Create
    <3> QED
      BY <3>2, <3>3 DEF WorkerInv
  <2>7. WorkerInv(n)'
    <3>1. CASE Fail(n)
      BY <1>0, <3>1, FailInv
    <3>2. CASE Goto(n, [worker[n] EXCEPT !.pc = "list", !.new = nextId])
      <4>1. worker'[n] = [worker[n] EXCEPT !.pc = "list", !.new = nextId]
        BY <1>0, <3>2, GotoOnly
      <4>2. /\ worker'[n].pc = "list" /\ worker'[n].new = nextId
            /\ worker'[n].val = worker[n].val /\ worker'[n].old = worker[n].old
        BY <1>0, <4>1 DEF TypeOK, Worker
      <4>3. /\ worker[n].val # None /\ worker[n].old \in Ids
            /\ worker[n].old < nextId /\ worker[n].old < nextId'
            /\ secrets[worker[n].old] # None =>
                    secrets[worker[n].old].name = Original(n)
        <5>1. \A i \in Ids : i \in Nat
          BY BoundAssumption DEF Ids
        <5>2. /\ worker[n].val # None /\ worker[n].old \in Ids
              /\ worker[n].old < nextId
              /\ secrets[worker[n].old] # None =>
                    secrets[worker[n].old].name = Original(n)
          BY <1>0 DEF Create, WorkerInv, HandlesInv, HasVal, HasOld
        <5> QED
          BY <1>0, <2>4, <5>1, <5>2 DEF TypeOK
      <4>4. HandlesInv(n)'
        BY <2>1, <2>2, <2>3, <2>4, <4>2, <4>3 DEF HandlesInv, Original
      <4>5. ~Listed(n)'
        BY <4>2 DEF Listed
      <4> QED
        BY <4>4, <4>5 DEF WorkerInv, SnapshotInv, Covered, Listed
    <3> QED
      BY <1>2, <2>2, <2>4, <3>1, <3>2 DEF Create
  <2> QED
    BY <1>0, <2>3, <2>5, <2>6, <2>7, InvPartsNext
<1> QED
  BY <1>1, <1>2 DEF Create

\* NextService only decides where the loop goes on.
LEMMA NextServiceFields ==
    ASSUME NEW w \in Worker, NEW todo \in SUBSET Services
    PROVE  LET v == NextService(w, todo)
           IN  /\ v.val = w.val /\ v.old = w.old /\ v.new = w.new
               /\ v.snap = w.snap /\ v.todo = todo
               /\ v.pc \in {"update", "removeOld"}
  BY DEF NextService, Worker

LEMMA ListInv ==
    ASSUME Inv, NEW n \in Names, ListServices(n)
    PROVE  Inv'
<1>0. TypeOK /\ TypeOK' /\ WorkerInv(n) /\ worker[n] \in Worker
  BY RotateTyped, InvParts DEF WorkerInv, TypeOK
<1>1. UNCHANGED <<secrets, nextId, services>>
  BY DEF ListServices, swarm
<1>2. HandlesInv(n) /\ HasNew(n)
  BY <1>0 DEF WorkerInv, ListServices, HasNew
<1>3. CASE Goto(n, [worker[n] EXCEPT !.pc = "cleanup"])
  <2>1. worker'[n] = [worker[n] EXCEPT !.pc = "cleanup"]
    BY <1>0, <1>3, GotoOnly
  <2>2. WorkerInv(n)'
    BY <1>0, <1>1, <1>2, <2>1
       DEF WorkerInv, HandlesInv, SnapshotInv, Covered, HasVal, HasOld, HasNew,
           Listed, Worker
  <2> QED
    BY <1>0, <1>1, <1>3, <2>2, LocalStep
<1>4. CASE Goto(n, NextService([worker[n] EXCEPT !.snap = services],
                 {s \in Services : NeedsUpdate(services[s], n, worker[n].old)}))
  <2> DEFINE todo == {s \in Services : NeedsUpdate(services[s], n, worker[n].old)}
             w    == [worker[n] EXCEPT !.snap = services]
  <2>1. w \in Worker /\ todo \in SUBSET Services
    BY <1>0 DEF Worker, TypeOK
  <2>2. /\ w.val = worker[n].val /\ w.old = worker[n].old
        /\ w.new = worker[n].new /\ w.snap = services
    BY <1>0 DEF Worker
  <2>3. worker'[n] = NextService(w, todo)
    BY <1>0, <1>4, GotoOnly
  <2>4. /\ worker'[n].val = worker[n].val /\ worker'[n].old = worker[n].old
        /\ worker'[n].new = worker[n].new /\ worker'[n].snap = services
        /\ worker'[n].todo = todo /\ worker'[n].pc \in {"update", "removeOld"}
    <3> HIDE DEF w, todo
    <3> QED
      BY <2>1, <2>2, <2>3, NextServiceFields
  <2>5. HandlesInv(n)'
    BY <1>1, <1>2, <2>4 DEF HandlesInv, HasVal, HasOld, HasNew
  <2>6. services # None /\ \A s \in Services : services[s].ver \in Nat
    BY <1>0, NoneIsNothing DEF TypeOK, ServiceSpec
  <2>7. SnapshotInv(n)'
    BY <1>1, <2>4, <2>6 DEF SnapshotInv
  <2>8. Covered(n)'
    BY <2>4 DEF Covered, NeedsUpdate
  <2> QED
    BY <1>0, <1>1, <1>4, <2>5, <2>7, <2>8, LocalStep DEF WorkerInv
<1> QED
  BY <1>3, <1>4 DEF ListServices

\* What an accepted update leaves in the slots of its service: the new secret
\* where the old one was, and what the daemon held everywhere else.
LEMMA ApplySlots ==
    ASSUME Inv, NEW n \in Names, NEW s \in Services, ApplyUpdate(n, s),
           worker[n].pc = "update"
    PROVE  LET new == [id |-> worker[n].new,
                       name |-> [base |-> n, stamp |-> worker[n].new]]
           IN  /\ services'[s].refs = [m \in Names |->
                      IF Matches(services[s].refs[m], n, worker[n].old)
                      THEN new ELSE services[s].refs[m]]
               /\ \A m \in Names :
                      Matches(services[s].refs[m], n, worker[n].old) => m = n
               /\ worker[n].new \in Ids
               /\ secrets[worker[n].new] # None
               /\ secrets[worker[n].new].name = new.name
               /\ new \in Ref
               /\ services'[s].ver = services[s].ver + 1
               /\ worker[n].snap[s].ver = services[s].ver
               /\ \A t \in Services \ {s} : services'[t] = services[t]
               /\ ~Matches(new, n, worker[n].old)
<1> DEFINE new == [id |-> worker[n].new,
                   name |-> [base |-> n, stamp |-> worker[n].new]]
<1>1. /\ TypeOK /\ HandlesInv(n) /\ SnapshotInv(n)
      /\ NoDanglingReference /\ SlotKeepsItsSecret
  BY InvParts DEF WorkerInv
<1>2. /\ worker[n].snap[s].ver = services[s].ver
      /\ worker[n].snap[s].refs = services[s].refs
      /\ worker[n].snap[s] \in ServiceSpec
  BY <1>1 DEF ApplyUpdate, BaseVersion, SnapshotInv, Listed, TypeOK, Worker
<1>3. /\ worker[n].new \in Ids /\ secrets[worker[n].new] # None
      /\ secrets[worker[n].new].name = [base |-> n, stamp |-> worker[n].new]
      /\ worker[n].old \in Ids
      /\ secrets[worker[n].old] # None => secrets[worker[n].old].name = Original(n)
  BY <1>1 DEF HandlesInv, HasOld, HasNew
<1>4. worker[n].new # 0 /\ worker[n].new \in Nat
  BY <1>3, BoundAssumption DEF Ids
<1>5. new \in Ref
  BY <1>3, <1>4 DEF Ref, SecretName
<1>6. worker[n].new # worker[n].old
  BY <1>3, <1>4 DEF Original
<1>7. ~Matches(new, n, worker[n].old)
  BY <1>4, <1>6 DEF Matches, Original
<1>8. ASSUME NEW m \in Names, Matches(services[s].refs[m], n, worker[n].old)
      PROVE  m = n
  <2>1. services[s].refs[m] # None /\ services[s].refs[m].name.base = m
    BY <1>1, <1>8 DEF Matches, SlotKeepsItsSecret
  <2>2. services[s].refs[m].name = Original(n)
    BY <1>1, <1>3, <1>8, <2>1 DEF Matches, NoDanglingReference
  <2> QED
    BY <2>1, <2>2 DEF Original
<1>9. UpdatedRefs(worker[n].snap[s], n, worker[n].old, worker[n].new)
         = [m \in Names |-> IF Matches(services[s].refs[m], n, worker[n].old)
                            THEN new ELSE services[s].refs[m]]
  BY <1>2 DEF UpdatedRefs
<1>10. /\ services'[s].refs = [m \in Names |->
                IF Matches(services[s].refs[m], n, worker[n].old)
                THEN new ELSE services[s].refs[m]]
       /\ services'[s].ver = services[s].ver + 1
       /\ \A t \in Services \ {s} : services'[t] = services[t]
  BY <1>1, <1>9 DEF ApplyUpdate, Respecify, TypeOK
<1> QED
  BY <1>2, <1>3, <1>5, <1>7, <1>8, <1>10

LEMMA UpdateInv ==
    ASSUME Inv, NEW n \in Names, NEW s \in Services, UpdateService(n, s)
    PROVE  Inv'
<1> DEFINE new == [id |-> worker[n].new,
                   name |-> [base |-> n, stamp |-> worker[n].new]]
<1>0. /\ TypeOK /\ TypeOK' /\ SecretsInv /\ WorkerInv(n) /\ worker[n] \in Worker
      /\ NoDanglingReference /\ SlotKeepsItsSecret
  BY RotateTyped, InvParts DEF WorkerInv, TypeOK
<1>1. /\ UNCHANGED <<secrets, nextId>> /\ worker[n].pc = "update"
      /\ HandlesInv(n) /\ SnapshotInv(n) /\ Covered(n) /\ HasNew(n) /\ Listed(n)
  BY <1>0 DEF UpdateService, WorkerInv, HasNew, Listed
<1>2. \/ worker'[n] = NextService(worker[n], worker[n].todo \ {s}) /\ ApplyUpdate(n, s)
      \/ worker'[n] = [worker[n] EXCEPT !.pc = "cleanup"]
  BY <1>0, GotoOnly DEF UpdateService, AfterUpdateError
<1>3. /\ worker'[n].val = worker[n].val /\ worker'[n].old = worker[n].old
      /\ worker'[n].new = worker[n].new /\ worker'[n].snap = worker[n].snap
      /\ \/ /\ worker'[n].pc \in {"update", "removeOld"}
            /\ worker'[n].todo = worker[n].todo \ {s} /\ ApplyUpdate(n, s)
         \/ worker'[n].pc = "cleanup"
  <2>1. worker[n].todo \ {s} \in SUBSET Services
    BY <1>0 DEF Worker
  <2>2. CASE worker'[n] = [worker[n] EXCEPT !.pc = "cleanup"]
    BY <1>0, <2>2 DEF Worker
  <2>3. CASE /\ worker'[n] = NextService(worker[n], worker[n].todo \ {s})
             /\ ApplyUpdate(n, s)
    BY <1>0, <2>1, <2>3, NextServiceFields
  <2> QED
    BY <1>2, <2>2, <2>3
<1>4. HandlesInv(n)'
  BY <1>1, <1>3 DEF HandlesInv, HasVal, HasOld, HasNew
<1>5. \A m \in Names \ {n} : worker'[m] = worker[m]
  BY <1>0, GotoOnly DEF UpdateService
<1>6. SecretsInv'
  BY <1>0, <1>1 DEF SecretsInv
<1>7. ASSUME NEW m \in Names \ {n} PROVE HandlesInv(m)'
  BY <1>1, <1>5, InvParts DEF WorkerInv, HandlesInv, HasVal, HasOld, HasNew
<1>8. CASE ApplyUpdate(n, s)
  <2>1. /\ services'[s].refs = [m \in Names |->
               IF Matches(services[s].refs[m], n, worker[n].old)
               THEN new ELSE services[s].refs[m]]
        /\ \A m \in Names : Matches(services[s].refs[m], n, worker[n].old) => m = n
        /\ secrets[worker[n].new] # None
        /\ secrets[worker[n].new].name = new.name
        /\ services'[s].ver = services[s].ver + 1
        /\ worker[n].snap[s].ver = services[s].ver
        /\ \A t \in Services \ {s} : services'[t] = services[t]
        /\ ~Matches(new, n, worker[n].old)
    BY <1>1, <1>8, ApplySlots
  <2>2. \A m \in Names :
           \/ /\ services'[s].refs[m] = services[s].refs[m]
              /\ ~Matches(services[s].refs[m], n, worker[n].old)
           \/ m = n /\ services'[s].refs[m] = new
    BY <2>1
  <2>3. NoDanglingReference' /\ SlotKeepsItsSecret'
    <3> SUFFICES ASSUME NEW t \in Services, NEW m \in Names,
                        services'[t].refs[m] # None
                 PROVE  /\ secrets[services'[t].refs[m].id] # None
                        /\ secrets[services'[t].refs[m].id].name
                              = services'[t].refs[m].name
                        /\ services'[t].refs[m].name.base = m
      BY <1>1 DEF NoDanglingReference, SlotKeepsItsSecret
    <3>1. CASE services'[t].refs[m] = services[t].refs[m]
      BY <1>0, <3>1 DEF NoDanglingReference, SlotKeepsItsSecret
    <3>2. CASE t = s /\ m = n /\ services'[t].refs[m] = new
      BY <2>1, <3>2
    <3> QED
      BY <2>1, <2>2, <3>1, <3>2
  <2>4. ASSUME NEW m \in Names \ {n} PROVE SnapshotInv(m)' /\ Covered(m)'
    BY <1>0, <1>5, <1>8, RespecifyFrame, InvParts DEF ApplyUpdate, WorkerInv
  <2>5. \A t \in Services : services[t].ver \in Nat /\ worker[n].snap[t].ver \in Nat
    BY <1>0, <1>1 DEF TypeOK, ServiceSpec, Worker, SnapshotInv
  <2>6. SnapshotInv(n)'
    <3> SUFFICES ASSUME NEW t \in Services
                 PROVE  /\ services'[t].ver >= worker[n].snap[t].ver
                        /\ services'[t].ver = worker[n].snap[t].ver =>
                              services'[t].refs = worker[n].snap[t].refs
      BY <1>1, <1>3 DEF SnapshotInv
    <3> QED
      BY <1>1, <2>1, <2>5 DEF SnapshotInv
  <2>7. Covered(n)'
    <3> SUFFICES ASSUME worker'[n].todo = worker[n].todo \ {s},
                        NEW t \in Services \ (worker[n].todo \ {s}),
                        NeedsUpdate(worker[n].snap[t], n, worker[n].old)
                 PROVE  Moved(n, t)'
      BY <1>3 DEF Covered, Listed, NeedsUpdate
    <3>1. CASE t = s
      <4>1. \A m \in Names : ~Matches(services'[s].refs[m], n, worker[n].old)
        BY <2>1, <2>2
      <4>2. services'[s].ver > worker[n].snap[s].ver
        BY <2>1, <2>5
      <4>3. worker'[n].snap = worker[n].snap /\ worker'[n].old = worker[n].old
        BY <1>3
      <4> QED
        BY <3>1, <4>1, <4>2, <4>3 DEF Moved, Matches
    <3>2. CASE t # s
      <4>1. Moved(n, t)
        BY <1>1, <3>2 DEF Covered
      <4> QED
        BY <1>3, <2>1, <3>2, <4>1 DEF Moved, Matches
    <3> QED
      BY <3>1, <3>2
  <2> QED
    BY <1>0, <1>4, <1>6, <1>7, <2>3, <2>4, <2>6, <2>7, InvPartsNext DEF WorkerInv
<1>9. CASE UNCHANGED services
  <2>1. worker'[n].pc = "cleanup" \/ ApplyUpdate(n, s)
    BY <1>3
  <2>2. CASE ApplyUpdate(n, s)
    BY <1>8, <2>2
  <2>3. CASE worker'[n].pc = "cleanup"
    <3>1. WorkerInv(n)'
      BY <1>4, <2>3 DEF WorkerInv, SnapshotInv, Covered, Listed
    <3>2. \A m \in Names \ {n} : WorkerInv(m)'
      BY <1>1, <1>5, <1>9, QuietInv, InvParts
    <3> QED
      BY <1>0, <1>1, <1>9, <3>1, <3>2, QuietStep, InvPartsNext
  <2> QED
    BY <2>1, <2>2, <2>3
<1> QED
  BY <1>8, <1>9 DEF UpdateService

LEMMA RemoveInv ==
    ASSUME Inv, NEW n \in Names, Cleanup(n) \/ RemoveOld(n)
    PROVE  Inv'
<1>0. /\ TypeOK /\ TypeOK' /\ SecretsInv /\ WorkerInv(n) /\ worker[n] \in Worker
      /\ NoDanglingReference /\ SlotKeepsItsSecret
  BY RotateTyped, InvParts DEF WorkerInv, TypeOK
<1>1. /\ UNCHANGED <<services, nextId>> /\ HandlesInv(n) /\ HasNew(n)
  BY <1>0 DEF Cleanup, RemoveOld, WorkerInv, HasNew
<1>2. PICK i \in {worker[n].old, worker[n].new} :
         /\ RemoveSecret(i) \/ UNCHANGED secrets
         /\ Cleanup(n) => i = worker[n].new
         /\ RemoveOld(n) => i = worker[n].old
  BY DEF Cleanup, RemoveOld
<1>3. i \in Ids /\ (secrets[i] # None => secrets[i].name.base = n)
  BY <1>1, <1>2 DEF HandlesInv, HasOld, Original
<1>4. /\ SecretsInv' /\ NoDanglingReference'
      /\ \A j \in Ids :
            secrets'[j] = secrets[j] \/ (secrets'[j] = None /\ j = i)
  BY <1>0, <1>1, <1>2, <1>3, RemoveFrame
<1>5. SlotKeepsItsSecret'
  BY <1>0, <1>1 DEF SlotKeepsItsSecret
<1>6. \A m \in Names \ {n} : worker'[m] = worker[m]
  BY <1>0, GotoOnly DEF Cleanup, RemoveOld, Fail
<1>7. ASSUME NEW m \in Names \ {n} PROVE WorkerInv(m)'
  <2>1. HandlesInv(m) /\ SnapshotInv(m) /\ Covered(m)
    BY InvParts DEF WorkerInv
  <2>2. HasNew(m) => secrets'[worker[m].new] = secrets[worker[m].new]
    BY <1>3, <1>4, <2>1 DEF HandlesInv
  <2>3. HandlesInv(m)'
    BY <1>0, <1>1, <1>4, <1>6, <2>1, <2>2 DEF HandlesInv, HasVal, HasOld, HasNew
  <2> QED
    BY <1>1, <1>6, <2>1, <2>3, SnapshotFrame DEF WorkerInv
<1>8. WorkerInv(n)'
  <2>1. CASE Cleanup(n)
    BY <1>0, <2>1, FailInv DEF Cleanup
  <2>2. CASE RemoveOld(n)
    <3>1. worker'[n] = [worker[n] EXCEPT !.pc = "record"]
      BY <1>0, <2>2, GotoOnly DEF RemoveOld
    <3>2. /\ worker'[n].pc = "record" /\ worker'[n].todo = worker[n].todo
          /\ worker'[n].val = worker[n].val /\ worker'[n].old = worker[n].old
          /\ worker'[n].new = worker[n].new /\ worker'[n].snap = worker[n].snap
      BY <1>0, <3>1 DEF Worker
    <3>3. worker[n].new # worker[n].old
      <4>1. worker[n].new \in Nat /\ worker[n].new # 0
        BY <1>1, BoundAssumption DEF HandlesInv, Ids
      <4> QED
        BY <1>1, <4>1 DEF HandlesInv, HasOld, Original
    <3>4. HandlesInv(n)'
      BY <1>1, <1>2, <1>4, <2>2, <3>2, <3>3 DEF HandlesInv, HasVal, HasOld, HasNew
    <3>5. SnapshotInv(n) /\ Covered(n) /\ Listed(n)
      BY <1>0, <2>2 DEF WorkerInv, RemoveOld, Listed
    <3>6. SnapshotInv(n)' /\ Covered(n)'
      BY <1>1, <3>2, <3>5 DEF SnapshotInv, Covered, NeedsUpdate, Moved, Matches
    <3> QED
      BY <3>4, <3>6 DEF WorkerInv
  <2> QED
    BY <2>1, <2>2
<1> QED
  BY <1>0, <1>4, <1>5, <1>7, <1>8, InvPartsNext

LEMMA RecordInv ==
    ASSUME Inv, NEW n \in Names, Record(n)
    PROVE  Inv'
<1>0. TypeOK /\ TypeOK'
  BY RotateTyped, InvParts DEF WorkerInv
<1>1. WorkerInv(n)'
  BY <1>0, GotoOnly, BegunInv DEF Record, IdleWorker
<1> QED
  BY <1>0, <1>1, LocalStep DEF Record, swarm

LEMMA StutterInv == Inv /\ UNCHANGED vars => Inv'
  BY DEF vars, swarm, Inv, TypeOK, SecretsInv, NoDanglingReference,
         SlotKeepsItsSecret, HandlesInv, HasVal, HasOld, HasNew, SnapshotInv,
         RotationCoversSnapshot, Covered, Listed, NeedsUpdate, Moved

\* Every step keeps the invariant.
THEOREM InvStep == Inv /\ [Next]_vars => Inv'
<1> SUFFICES ASSUME Inv, [Next]_vars PROVE Inv'
  OBVIOUS
<1>1. ASSUME NEW n \in Names, WorkerStep(n) PROVE Inv'
  BY <1>1, CheckInv, CreateInv, ListInv, UpdateInv, RemoveInv, RecordInv
     DEF WorkerStep
<1> QED
  BY <1>1, EnvironmentInv, GetInv, TickInv, StutterInv DEF Next

-----------------------------------------------------------------------------
(***************************************************************************)
(* The theorems.                                                           *)
(***************************************************************************)

\* The invariant behind the theorems: what each goroutine and each snapshot it
\* took still has to do with the secrets, the services and the tracker.
THEOREM Invariance == Spec => []Inv
BY InvInit, InvStep, PTL DEF Spec

\* The variables keep their types, and goroutines only exist for tracked
\* secrets, in every behaviour.
THEOREM TypeCorrect == Spec => []TypeOK
<1>1. Inv => TypeOK
  BY DEF Inv
<1> QED
  BY <1>1, InvInit, InvStep, PTL DEF Spec

\* No service ever refers to a removed secret, without relying on the daemon
\* to check that the secrets of a ServiceUpdate exist.
THEOREM NeverDangling == Spec => []NoDanglingReference
<1>1. Inv => NoDanglingReference
  BY DEF Inv
<1> QED
  BY <1>1, InvInit, InvStep, PTL DEF Spec

\* No rotation puts a secret into another secret's slot.
THEOREM SlotsKept == Spec => []SlotKeepsItsSecret
<1>1. Inv => SlotKeepsItsSecret
  BY DEF Inv
<1> QED
  BY <1>1, InvInit, InvStep, PTL DEF Spec

\* A rotation that goes on to remove the old secret has moved every service
\* that it found using it.
THEOREM SnapshotCovered == Spec => []RotationCoversSnapshot
<1>1. Inv => RotationCoversSnapshot
  BY DEF Inv
<1> QED
  BY <1>1, InvInit, InvStep, PTL DEF Spec

\* Which goroutine a step of the system can move out of the update loop.
LEMMA UpdateSteps ==
    ASSUME Inv, Next, NEW n \in Names, worker[n].pc = "update",
           worker'[n] # worker[n]
    PROVE  UNCHANGED services \/ \E s \in Services : UpdateService(n, s)
<1>0. TypeOK
  BY InvParts
<1>1. CASE Environment
  BY <1>1 DEF Environment, ProviderWrite, Touch, Deploy
<1>2. CASE Restart \/ Tick
  BY <1>2 DEF Restart, Tick, swarm
<1>3. ASSUME NEW s \in Services, NEW m \in Names, GetFetch(s, m) \/ GetStep(s, m)
      PROVE  FALSE
  BY <1>3 DEF GetFetch, GetStep, GetTrack, GetRespond, GetTransformError
<1>4. ASSUME NEW m \in Names \ {n}, WorkerStep(m)
      PROVE  FALSE
  BY <1>0, <1>4 DEF WorkerStep, CheckFetch, Compare, Fetch, Lookup, Create,
         ListServices, UpdateService, Cleanup, RemoveOld, Record, Goto, Fail, TypeOK
<1>5. CASE WorkerStep(n)
  BY <1>5 DEF WorkerStep, CheckFetch, Compare, Fetch, Lookup, Create,
         ListServices, Cleanup, RemoveOld, Record
<1> QED
  BY <1>1, <1>2, <1>3, <1>4, <1>5 DEF Next

\* Updating a service for one secret leaves its other secrets as the daemon
\* has them, although the update is computed from an earlier listing.
THEOREM NothingLost == Spec => NoLostUpdate
<1> DEFINE Step == \A n \in Names : worker[n].pc = "update" /\ worker'[n] # worker[n] =>
                      \A s \in Services, m \in Names \ {n} :
                          services'[s].refs[m] = services[s].refs[m]
<1>1. ASSUME Inv, [Next]_vars PROVE Step
  <2> SUFFICES ASSUME NEW n \in Names, worker[n].pc = "update",
                      worker'[n] # worker[n],
                      NEW s \in Services, NEW m \in Names \ {n}
               PROVE  services'[s].refs[m] = services[s].refs[m]
    OBVIOUS
  <2>1. Next
    BY <1>1 DEF vars
  <2>2. CASE UNCHANGED services
    BY <2>2
  <2>3. ASSUME NEW t \in Services, UpdateService(n, t)
        PROVE  services'[s].refs[m] = services[s].refs[m]
    <3>1. CASE ApplyUpdate(n, t)
      <4>1. /\ ~Matches(services[t].refs[m], n, worker[n].old)
            /\ \A u \in Services \ {t} : services'[u] = services[u]
        BY <1>1, <3>1, ApplySlots
      <4>2. services'[t].refs = [k \in Names |->
               IF Matches(services[t].refs[k], n, worker[n].old)
               THEN [id |-> worker[n].new,
                     name |-> [base |-> n, stamp |-> worker[n].new]]
               ELSE services[t].refs[k]]
        BY <1>1, <3>1, ApplySlots
      <4> QED
        BY <4>1, <4>2
    <3>2. CASE UNCHANGED services
      BY <3>2
    <3> QED
      BY <2>3, <3>1, <3>2 DEF UpdateService
  <2> QED
    BY <1>1, <2>1, <2>2, <2>3, UpdateSteps
<1>2. Inv /\ [Next]_vars => Step
  BY <1>1
<1> QED
  BY <1>2, InvInit, InvStep, PTL DEF Spec, NoLostUpdate

\* Rotated secrets and running tasks only hold decrypted values of the secrets
\* that are to be decrypted.
THEOREM Decrypted == Spec => []OnlyClearValues
<1>1. Init => OnlyClearValues
  <2> SUFFICES ASSUME Init PROVE OnlyClearValues
    OBVIOUS
  <2>1. \A s \in Services, n \in KMSNames : running[s][n] = None
    BY KMSAssumption DEF Init
  <2> QED
    BY <2>1 DEF Init, OnlyClearValues
<1>2. ASSUME Inv, OnlyClearValues, [Next]_vars PROVE OnlyClearValues'
  <2>0. TypeOK
    BY <1>2, InvParts
  <2>1. CASE UNCHANGED <<secrets, running>>
    BY <1>2, <2>1 DEF OnlyClearValues
  <2>2. ASSUME NEW s \in Services, NEW n \in Names, Deploy(s, n)
        PROVE  OnlyClearValues'
    <3>1. \A i \in Ids : \/ secrets'[i] = secrets[i]
                        \/ secrets'[i].data = None
      BY <2>0, <2>2 DEF Deploy, TypeOK
    <3>2. \A t \in Services, m \in Names :
             running'[t][m] = running[t][m] \/ running'[t][m] = None
      BY <2>0, <2>2 DEF Deploy, TypeOK
    <3> QED
      BY <1>2, <3>1, <3>2, KMSAssumption DEF OnlyClearValues
  <2>3. ASSUME NEW s \in Services, NEW n \in Names, GetRespond(s, n)
        PROVE  OnlyClearValues'
    <3>1. get[s][n].val \in Value
      BY <2>0, <2>3 DEF GetRespond, TypeOK, Request
    <3>2. n \in KMSNames => Transform(n, get[s][n].val).clear = TRUE
      BY <3>1, TransformType
    <3>3. \A t \in Services, m \in Names :
             \/ running'[t][m] = running[t][m]
             \/ m = n /\ running'[t][m] = Transform(n, get[s][n].val)
      BY <2>0, <2>3 DEF GetRespond, TypeOK
    <3>4. secrets' = secrets
      BY <2>3 DEF GetRespond
    <3> QED
      BY <1>2, <3>2, <3>3, <3>4, KMSAssumption DEF OnlyClearValues
  <2>4. ASSUME NEW n \in Names, Create(n) PROVE OnlyClearValues'
    <3>1. worker[n].val \in Value
      BY <1>2, <2>0, <2>4, InvParts
         DEF Create, WorkerInv, HandlesInv, HasVal, HasOld, TypeOK, Worker
    <3>2. \A i \in Ids :
             \/ secrets'[i] = secrets[i]
             \/ secrets'[i] = [name |-> NewName(n),
                               data |-> Transform(n, worker[n].val)]
      BY <2>0, <2>4 DEF Create, AddSecret, TypeOK
    <3>3. n \in KMSNames => Transform(n, worker[n].val).clear = TRUE
      BY <3>1, TransformType
    <3>4. running' = running
      BY <2>4 DEF Create
    <3> QED
      BY <1>2, <3>2, <3>3, <3>4 DEF OnlyClearValues, NewName
  <2>5. ASSUME NEW n \in Names, NEW s \in Services, UpdateService(n, s)
        PROVE  OnlyClearValues'
    <3>1. worker[n].pc = "update" /\ worker[n].val \in Value /\ secrets' = secrets
      BY <1>2, <2>0, <2>5, InvParts
         DEF UpdateService, WorkerInv, HandlesInv, HasVal, HasOld, HasNew, TypeOK, Worker
    <3>2. CASE UNCHANGED running
      BY <2>1, <3>1, <3>2
    <3>3. CASE ApplyUpdate(n, s)
      <4>1. n \in KMSNames => Transform(n, worker[n].val).clear = TRUE
        BY <3>1, TransformType
      <4>2. worker[n].snap[s].refs = services[s].refs
        BY <1>2, <3>1, <3>3, InvParts
           DEF WorkerInv, SnapshotInv, Listed, ApplyUpdate, BaseVersion
      <4>3. \A m \in Names : Matches(worker[n].snap[s].refs[m], n, worker[n].old) => m = n
        BY <1>2, <3>1, <3>3, <4>2, ApplySlots
      <4>4. \A t \in Services, m \in Names :
               \/ running'[t][m] = running[t][m]
               \/ m = n /\ running'[t][m] = Transform(n, worker[n].val)
        BY <2>0, <3>3, <4>3 DEF ApplyUpdate, TypeOK
      <4> QED
        BY <1>2, <3>1, <4>1, <4>4, KMSAssumption DEF OnlyClearValues
    <3> QED
      BY <2>5, <3>2, <3>3 DEF UpdateService
  <2>6. ASSUME NEW n \in Names, Cleanup(n) \/ RemoveOld(n) PROVE OnlyClearValues'
    <3>1. \A i \in Ids : secrets'[i] = secrets[i] \/ secrets'[i] = None
      BY <2>0, <2>6 DEF Cleanup, RemoveOld, RemoveSecret, TypeOK
    <3>2. running' = running
      BY <2>6 DEF Cleanup, RemoveOld
    <3> QED
      BY <1>2, <3>1, <3>2 DEF OnlyClearValues
  <2>7. CASE UNCHANGED vars
    BY <2>1, <2>7 DEF vars, swarm
  <2>8. CASE Environment
    BY <2>1, <2>2, <2>8 DEF Environment, ProviderWrite, Touch, swarm
  <2>9. ASSUME NEW s \in Services, NEW n \in Names, GetFetch(s, n) \/ GetStep(s, n)
        PROVE  OnlyClearValues'
    BY <2>1, <2>3, <2>9 DEF GetFetch, GetStep, GetTrack, GetTransformError, swarm
  <2>10. ASSUME NEW n \in Names, WorkerStep(n) PROVE OnlyClearValues'
    BY <2>1, <2>4, <2>5, <2>6, <2>10
       DEF WorkerStep, CheckFetch, Compare, Fetch, Lookup, ListServices, Record, swarm
  <2>11. CASE Tick \/ Restart
    BY <2>1, <2>11 DEF Tick, Restart, swarm
  <2> QED
    BY <1>2, <2>7, <2>8, <2>9, <2>10, <2>11 DEF Next
<1>3. Inv /\ OnlyClearValues /\ [Next]_vars => OnlyClearValues'
  BY <1>2
<1> QED
  BY <1>1, <1>3, InvInit, InvStep, PTL DEF Spec

=============================================================================
