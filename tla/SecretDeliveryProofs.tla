------------------------ MODULE SecretDeliveryProofs ------------------------
(***************************************************************************)
(* SecretsDriver implements SecretDelivery, for all secrets, services,     *)
(* paths and bounds: DeliveryInv is inductive on top of Inv, and under     *)
(* both every step of the driver, of the operators and of the provider is  *)
(* a step of SecretDelivery or changes nothing there.                      *)
(***************************************************************************)
EXTENDS SecretsDriverProofs

-----------------------------------------------------------------------------
(***************************************************************************)
(* The invariant.                                                          *)
(***************************************************************************)
LEMMA DeliveryInit == Init => DeliveryInv
<1> SUFFICES ASSUME Init PROVE DeliveryInv
  OBVIOUS
<1>1. \A i \in Ids : secrets[i] = None
  BY DEF Init
<1>2. \A p \in Paths : provider[p] <= MaxVersion
  BY BoundAssumption DEF Init
<1>3. \A n \in Names : worker[n].pc = "idle"
  BY DEF Init, IdleWorker
<1> QED
  BY <1>1, <1>2, <1>3 DEF DeliveryInv, BackedInv, VersionsInv, FreshValue,
                          NewestSecret, HasNew

\* What the secrets hold, by type.
LEMMA SecretType ==
    ASSUME TypeOK, NEW i \in Ids, secrets[i] # None
    PROVE  /\ secrets[i].name.base \in Names /\ secrets[i].name.stamp \in Nat
           /\ secrets[i].data # None =>
                 /\ secrets[i].data \in Value
                 /\ secrets[i].data.path \in Paths /\ secrets[i].data.ver \in Nat
  BY DEF TypeOK, DockerSecret, SecretName, Value

\* The value a goroutine carries is one.
LEMMA CarriedType ==
    ASSUME Inv, NEW n \in Names, HasVal(n)
    PROVE  /\ worker[n].val \in Value
           /\ worker[n].val.path \in Paths /\ worker[n].val.ver \in Nat
<1>1. TypeOK /\ WorkerInv(n)
  BY InvParts
<1> QED
  BY <1>1 DEF WorkerInv, HandlesInv, TypeOK, Worker, Value

\* Steps in which no value enters the swarm: the provider moves on, secrets
\* backed by the driver are added, secrets are removed, and goroutines keep
\* what they carry or end.
Keeps(n) == \/ worker'[n].pc \in {"idle", "check", "compare", "fetch"}
            \/ /\ worker'[n].pc \in {"lookup", "create"}
               /\ worker[n].pc \in {"lookup", "create"}
               /\ worker'[n].val = worker[n].val
            \/ HasNew(n) /\ HasNew(n)' /\ worker'[n].new = worker[n].new

LEMMA PassiveStep ==
    ASSUME Inv, Inv', DeliveryInv,
           \A p \in Paths : provider'[p] >= provider[p] /\ provider'[p] <= MaxVersion,
           \A i \in Ids : \/ secrets'[i] = secrets[i]
                          \/ secrets'[i] = None
                          \/ secrets'[i].data = None /\ secrets'[i].name.stamp = 0,
           \A n \in Names : Keeps(n)
    PROVE  DeliveryInv'
<1>0. TypeOK /\ TypeOK'
  BY InvParts, InvPartsNext
<1>1. BackedInv'
  BY DEF DeliveryInv, BackedInv
<1>2. \A i \in Ids : secrets'[i] # None /\ secrets'[i].data # None =>
                         secrets[i] = secrets'[i]
  OBVIOUS
<1>3. \A p \in Paths : provider[p] \in Nat /\ provider'[p] \in Nat
  BY <1>0 DEF TypeOK
<1>4. VersionsInv'
  <2> SUFFICES ASSUME NEW i \in Ids, secrets'[i] # None, secrets'[i].data # None
               PROVE  secrets'[i].data.ver <= provider'[secrets'[i].data.path]
    BY DEF VersionsInv
  <2>1. /\ secrets[i] = secrets'[i] /\ secrets[i].data.path \in Paths
        /\ secrets[i].data.ver \in Nat
    BY <1>0, <1>2, SecretType
  <2>2. secrets[i].data.ver <= provider[secrets[i].data.path]
    BY <2>1 DEF DeliveryInv, VersionsInv
  <2> QED
    BY <1>3, <2>1, <2>2
<1>5. \A n \in Names : \A i \in RotatedIds(n)' : i \in RotatedIds(n) /\ secrets'[i] = secrets[i]
  BY <1>2 DEF RotatedIds
<1>6. ASSUME NEW n \in Names PROVE FreshValue(n)'
  <2> SUFFICES ASSUME worker'[n].pc \in {"lookup", "create"} PROVE FreshValue(n)'
    BY DEF FreshValue
  <2>1. worker[n].pc \in {"lookup", "create"} /\ worker'[n].val = worker[n].val
    BY DEF Keeps, HasNew
  <2>2. FreshValue(n) /\ HasVal(n)
    BY <2>1 DEF DeliveryInv, HasVal, HasOld
  <2>3. worker[n].val.path \in Paths /\ worker[n].val.ver \in Nat
    BY <2>2, CarriedType
  <2>4. worker[n].val.ver <= provider'[worker[n].val.path]
    BY <1>3, <2>1, <2>2, <2>3 DEF FreshValue
  <2> QED
    BY <1>5, <2>1, <2>2, <2>4 DEF FreshValue
<1>7. ASSUME NEW n \in Names PROVE NewestSecret(n)'
  <2> SUFFICES ASSUME HasNew(n)' PROVE NewestSecret(n)'
    BY DEF NewestSecret
  <2>1. HasNew(n) /\ worker'[n].new = worker[n].new
    BY DEF Keeps, HasNew
  <2>2. NewestSecret(n) /\ HandlesInv(n)'
    BY InvPartsNext DEF DeliveryInv, WorkerInv
  <2>3. /\ worker[n].new \in Ids /\ secrets'[worker[n].new] # None
        /\ secrets'[worker[n].new].name = [base |-> n, stamp |-> worker[n].new]
    BY <2>1, <2>2 DEF HandlesInv
  <2>4. worker[n].new # 0
    BY <2>3, BoundAssumption DEF Ids
  <2>5. secrets'[worker[n].new] = secrets[worker[n].new]
    BY <2>3, <2>4
  <2>6. worker[n].new \in RotatedIds(n)'
    BY <2>1, <2>2, <2>5 DEF NewestSecret, RotatedIds
  <2> QED
    BY <1>5, <2>1, <2>2, <2>6 DEF NewestSecret
<1> QED
  BY <1>1, <1>4, <1>6, <1>7 DEF DeliveryInv

\* Goroutine n is the only one to move, and nobody reads it while it does.
LEMMA LocalKeeps ==
    ASSUME TypeOK, NEW n \in Names, NEW w, Goto(n, w),
           worker'[n] = w => Keeps(n)
    PROVE  \A m \in Names : Keeps(m)
<1>1. worker'[n] = w /\ \A m \in Names \ {n} : worker'[m] = worker[m]
  BY GotoOnly
<1>2. ASSUME NEW m \in Names \ {n} PROVE Keeps(m)
  <2>1. worker[m].pc \in Stages /\ worker'[m] = worker[m]
    BY <1>1 DEF TypeOK, Worker
  <2> QED
    BY <2>1 DEF Keeps, HasNew, Stages
<1> QED
  BY <1>1, <1>2

\* Steps that change neither the provider nor the secrets.
LEMMA QuietDelivery ==
    ASSUME Inv, Inv', DeliveryInv, UNCHANGED <<provider, secrets>>,
           \A n \in Names : Keeps(n)
    PROVE  DeliveryInv'
<1>1. \A p \in Paths : provider'[p] >= provider[p] /\ provider'[p] <= MaxVersion
  BY InvParts DEF DeliveryInv, VersionsInv, TypeOK
<1> QED
  BY <1>1, PassiveStep

LEMMA SameWorkers ==
    ASSUME TypeOK, UNCHANGED worker
    PROVE  \A n \in Names : Keeps(n)
<1>1. \A n \in Names : worker[n].pc \in Stages
  BY DEF TypeOK, Worker
<1> QED
  BY <1>1 DEF Keeps, HasNew, Stages

LEMMA EnvironmentDelivery ==
    ASSUME Inv, Inv', DeliveryInv, Environment
    PROVE  DeliveryInv'
<1>0. TypeOK /\ \A n \in Names : Keeps(n)
  BY SameWorkers, InvParts DEF Environment, ProviderWrite, Touch, Deploy
<1>1. \A p \in Paths : provider[p] \in Nat /\ provider[p] <= MaxVersion
  BY <1>0 DEF TypeOK, DeliveryInv, VersionsInv
<1>2. ASSUME NEW p \in Paths, ProviderWrite(p) PROVE DeliveryInv'
  <2>1. \A q \in Paths : provider'[q] >= provider[q] /\ provider'[q] <= MaxVersion
    BY <1>0, <1>1, <1>2, BoundAssumption DEF ProviderWrite, TypeOK
  <2> QED
    BY <1>0, <1>2, <2>1, PassiveStep DEF ProviderWrite, swarm
<1>3. ASSUME NEW s \in Services, NEW n \in Names, Deploy(s, n) PROVE DeliveryInv'
  <2>1. \A i \in Ids : \/ secrets'[i] = secrets[i]
                       \/ secrets'[i].data = None /\ secrets'[i].name.stamp = 0
    BY <1>0, <1>3 DEF Deploy, TypeOK, Original
  <2>2. \A q \in Paths : provider'[q] >= provider[q] /\ provider'[q] <= MaxVersion
    BY <1>1, <1>3 DEF Deploy
  <2> QED
    BY <1>0, <2>1, <2>2, PassiveStep
<1>4. ASSUME NEW s \in Services, Touch(s) PROVE DeliveryInv'
  BY <1>0, <1>4, QuietDelivery DEF Touch
<1> QED
  BY <1>2, <1>3, <1>4 DEF Environment

LEMMA OthersDelivery ==
    ASSUME Inv, Inv', DeliveryInv,
           \/ \E s \in Services, n \in Names : GetFetch(s, n) \/ GetStep(s, n)
           \/ Tick \/ Restart \/ UNCHANGED vars
    PROVE  DeliveryInv'
<1>1. UNCHANGED <<provider, secrets>>
  BY DEF GetFetch, GetStep, GetTrack, GetRespond, GetTransformError, Tick, Restart,
         vars, swarm
<1>2. CASE UNCHANGED worker
  BY <1>1, <1>2, SameWorkers, QuietDelivery, InvParts
<1>3. CASE Tick \/ Restart
  <2>1. \A n \in Names : Keeps(n)
    BY <1>3 DEF Tick, Restart, IdleWorker, Keeps
  <2> QED
    BY <1>1, <2>1, QuietDelivery
<1> QED
  BY <1>2, <1>3 DEF GetFetch, GetStep, GetTrack, GetRespond, GetTransformError, vars

LEMMA IdleKeeps ==
    ASSUME TypeOK, NEW n \in Names, Fail(n) \/ Goto(n, IdleWorker)
    PROVE  \A m \in Names : Keeps(m)
  BY LocalKeeps DEF Fail, IdleWorker, Keeps

LEMMA CheckDelivery ==
    ASSUME Inv, Inv', DeliveryInv, NEW n \in Names,
           CheckFetch(n) \/ Compare(n) \/ Lookup(n) \/ Record(n)
    PROVE  DeliveryInv'
<1>0. TypeOK /\ worker[n] \in Worker
  BY InvParts DEF TypeOK
<1>1. UNCHANGED <<provider, secrets>>
  BY DEF CheckFetch, Compare, Lookup, Record, swarm
<1>2. CASE Fail(n) \/ Goto(n, IdleWorker)
  BY <1>0, <1>1, <1>2, IdleKeeps, QuietDelivery
<1>3. CASE Goto(n, [worker[n] EXCEPT !.pc  = "compare", !.val = Stored(tracker[n].path)])
  BY <1>0, <1>1, <1>3, LocalKeeps, QuietDelivery DEF Keeps, Worker
<1>4. CASE Goto(n, [worker[n] EXCEPT !.pc = "fetch"])
  BY <1>0, <1>1, <1>4, LocalKeeps, QuietDelivery DEF Keeps, Worker
<1>5. ASSUME NEW i \in Ids, Lookup(n),
             Goto(n, [worker[n] EXCEPT !.pc = "create", !.old = i])
      PROVE  DeliveryInv'
  BY <1>0, <1>1, <1>5, LocalKeeps, QuietDelivery DEF Keeps, Worker, Lookup
<1> QED
  BY <1>2, <1>3, <1>4, <1>5 DEF CheckFetch, Compare, Lookup, Record, Named

\* The value fetched for the rotation is the newest there is.
LEMMA FetchDelivery ==
    ASSUME Inv, Inv', DeliveryInv, NEW n \in Names, Fetch(n)
    PROVE  DeliveryInv'
<1>0. TypeOK /\ worker[n] \in Worker /\ tracker[n].path \in Paths
  <2>1. TypeOK
    BY InvParts
  <2> QED
    BY <2>1 DEF TypeOK, Fetch
<1>1. UNCHANGED <<provider, secrets>>
  BY DEF Fetch, swarm
<1>2. CASE Fail(n)
  BY <1>0, <1>1, <1>2, IdleKeeps, QuietDelivery
<1>3. CASE Goto(n, [worker[n] EXCEPT !.pc = "lookup", !.val = Stored(tracker[n].path)])
  <2>0. /\ worker'[n] = [worker[n] EXCEPT !.pc = "lookup", !.val = Stored(tracker[n].path)]
        /\ \A m \in Names \ {n} : worker'[m] = worker[m]
    BY <1>0, <1>3, GotoOnly
  <2>1. /\ worker'[n].pc = "lookup" /\ worker'[n].val = Stored(tracker[n].path)
        /\ \A m \in Names \ {n} : worker'[m] = worker[m]
    BY <1>0, <2>0 DEF Worker
  <2>2. /\ worker'[n].val.path = tracker[n].path
        /\ worker'[n].val.ver = provider[tracker[n].path]
        /\ provider[tracker[n].path] \in Nat
    BY <1>0, <2>1 DEF Stored, TypeOK
  <2>3. FreshValue(n)'
    BY <1>1, <2>2 DEF FreshValue, RotatedIds, DeliveryInv, VersionsInv
  <2>4. NewestSecret(n)'
    BY <2>1 DEF NewestSecret, HasNew
  <2>5. \A m \in Names \ {n} : FreshValue(m)' /\ NewestSecret(m)'
    BY <1>1, <2>1 DEF DeliveryInv, FreshValue, NewestSecret, RotatedIds, HasNew
  <2> QED
    BY <1>1, <2>3, <2>4, <2>5 DEF DeliveryInv, BackedInv, VersionsInv
<1> QED
  BY <1>2, <1>3 DEF Fetch

LEMMA ListDelivery ==
    ASSUME Inv, Inv', DeliveryInv, NEW n \in Names,
           ListServices(n) \/ \E s \in Services : UpdateService(n, s)
    PROVE  DeliveryInv'
<1>0. TypeOK /\ worker[n] \in Worker /\ HasNew(n)
  BY InvParts DEF TypeOK, HasNew, ListServices, UpdateService
<1>1. UNCHANGED <<provider, secrets>>
  BY DEF ListServices, UpdateService, swarm
<1>2. CASE Goto(n, [worker[n] EXCEPT !.pc = "cleanup"])
  BY <1>0, <1>1, <1>2, LocalKeeps, QuietDelivery DEF Keeps, HasNew, Worker
<1>3. ASSUME NEW w \in Worker, w.new = worker[n].new,
             NEW todo \in SUBSET Services, Goto(n, NextService(w, todo))
      PROVE  DeliveryInv'
  <2>1. /\ NextService(w, todo).new = worker[n].new
        /\ NextService(w, todo).pc \in {"update", "removeOld"}
    BY <1>3, NextServiceFields
  <2>2. worker'[n] = NextService(w, todo) => Keeps(n)
    BY <1>0, <2>1 DEF Keeps, HasNew
  <2> QED
    BY <1>0, <1>1, <1>3, <2>2, LocalKeeps, QuietDelivery
<1>4. CASE ListServices(n)
  <2> DEFINE w == [worker[n] EXCEPT !.snap = services]
  <2>1. w \in Worker /\ w.new = worker[n].new
    BY <1>0 DEF Worker, TypeOK
  <2>2. {s \in Services : NeedsUpdate(services[s], n, worker[n].old)} \in SUBSET Services
    OBVIOUS
  <2> HIDE DEF w
  <2>3. \/ Goto(n, NextService(w, {s \in Services : NeedsUpdate(services[s], n, worker[n].old)}))
        \/ Goto(n, [worker[n] EXCEPT !.pc = "cleanup"])
    BY <1>4 DEF ListServices, w
  <2> QED
    BY <1>2, <1>3, <2>1, <2>2, <2>3
<1>5. ASSUME NEW s \in Services, UpdateService(n, s) PROVE DeliveryInv'
  <2>1. worker[n].todo \ {s} \in SUBSET Services
    BY <1>0 DEF Worker
  <2>2. \/ Goto(n, NextService(worker[n], worker[n].todo \ {s}))
        \/ Goto(n, [worker[n] EXCEPT !.pc = "cleanup"])
    BY <1>5 DEF UpdateService, AfterUpdateError
  <2> QED
    BY <1>0, <1>2, <1>3, <2>1, <2>2
<1> QED
  BY <1>4, <1>5

LEMMA RemoveDelivery ==
    ASSUME Inv, Inv', DeliveryInv, NEW n \in Names, Cleanup(n) \/ RemoveOld(n)
    PROVE  DeliveryInv'
<1>0. TypeOK /\ worker[n] \in Worker /\ HasNew(n)
  BY InvParts DEF TypeOK, HasNew, Cleanup, RemoveOld
<1>1. \A i \in Ids : secrets'[i] = secrets[i] \/ secrets'[i] = None
  BY <1>0 DEF Cleanup, RemoveOld, RemoveSecret, TypeOK
<1>2. \A p \in Paths : provider'[p] >= provider[p] /\ provider'[p] <= MaxVersion
  BY <1>0 DEF DeliveryInv, VersionsInv, TypeOK, Cleanup, RemoveOld
<1>3. \A m \in Names : Keeps(m)
  <2>1. CASE Cleanup(n)
    BY <1>0, <2>1, IdleKeeps DEF Cleanup
  <2>2. CASE RemoveOld(n)
    BY <1>0, <2>2, LocalKeeps DEF RemoveOld, Keeps, HasNew, Worker
  <2> QED
    BY <2>1, <2>2
<1> QED
  BY <1>1, <1>2, <1>3, PassiveStep

\* What AddSecret adds, and that it is the newest of its name and path.
LEMMA AddedSecret ==
    ASSUME Inv, DeliveryInv, NEW n \in Names, Create(n), AddSecret(n)
    PROVE  LET new == secrets'[nextId]
           IN  /\ nextId \in Ids
               /\ \A i \in Ids \ {nextId} : secrets'[i] = secrets[i]
               /\ new \in DockerSecret
               /\ new.name = [base |-> n, stamp |-> nextId]
               /\ new.data # None
               /\ new.data.path = worker[n].val.path
               /\ new.data.ver = worker[n].val.ver
               /\ new.data.path \in Paths /\ new.data.ver \in Nat
               /\ new.data.ver <= provider[new.data.path]
               /\ \A i \in RotatedIds(n) : secrets[i].data.path = new.data.path =>
                      secrets[i].data.ver <= new.data.ver
<1>0. TypeOK /\ HasVal(n) /\ worker[n].pc = "create"
  BY InvParts DEF HasVal, HasOld, Create
<1>1. /\ worker[n].val \in Value
      /\ worker[n].val.path \in Paths /\ worker[n].val.ver \in Nat
  BY <1>0, CarriedType
<1> DEFINE data == Transform(n, worker[n].val)
           new  == [name |-> NewName(n), data |-> data]
<1>2. /\ data \in Value /\ data # None
      /\ data.path = worker[n].val.path /\ data.ver = worker[n].val.ver
  BY <1>1, NoneIsNothing, TransformType DEF Transform, Value
<1>3. new \in DockerSecret /\ NewName(n) = [base |-> n, stamp |-> nextId]
  <2>1. NewName(n) \in SecretName
    BY <1>0 DEF NewName, SecretName, TypeOK
  <2> QED
    BY <1>2, <2>1 DEF DockerSecret, NewName
<1>4. /\ nextId \in Ids /\ secrets'[nextId] = new
      /\ \A i \in Ids \ {nextId} : secrets'[i] = secrets[i]
  BY <1>0 DEF AddSecret, TypeOK
<1>5. FreshValue(n)
  BY DEF DeliveryInv
<1>6. /\ worker[n].val.ver <= provider[worker[n].val.path]
      /\ \A i \in RotatedIds(n) : secrets[i].data.path = worker[n].val.path =>
               secrets[i].data.ver <= worker[n].val.ver
  BY <1>0, <1>5 DEF FreshValue
<1>7. new.name = NewName(n) /\ new.data = data
  OBVIOUS
<1> HIDE DEF new, data
<1> QED
  BY <1>1, <1>2, <1>3, <1>4, <1>6, <1>7

LEMMA CreateDelivery ==
    ASSUME Inv, Inv', DeliveryInv, NEW n \in Names, Create(n)
    PROVE  DeliveryInv'
<1>0. TypeOK /\ SecretsInv /\ worker[n] \in Worker /\ provider' = provider
  BY InvParts DEF TypeOK, Create
<1>1. CASE UNCHANGED <<secrets, nextId>>
  <2>1. Fail(n)
    BY <1>0, <1>1 DEF Create, AddSecret, TypeOK
  <2> QED
    BY <1>0, <1>1, <2>1, IdleKeeps, QuietDelivery
<1>2. CASE AddSecret(n)
  <2> DEFINE new == secrets'[nextId]
  <2>1. /\ nextId \in Ids /\ nextId \in Nat /\ nextId # 0
        /\ \A i \in Ids \ {nextId} : secrets'[i] = secrets[i]
        /\ new # None /\ new.name = [base |-> n, stamp |-> nextId] /\ new.data # None
        /\ new.data.ver <= provider[new.data.path]
    BY <1>0, <1>2, AddedSecret, NoneIsNothing DEF TypeOK
  <2>2. \A i \in Ids : secrets[i] # None => i # nextId /\ i <= nextId
    <3>1. SecretsInv /\ nextId \in Nat /\ \A i \in Ids : i \in Nat
      BY <1>0, <2>1, BoundAssumption DEF Ids
    <3> QED
      BY <3>1 DEF SecretsInv
  <2>3. BackedInv'
    BY <2>1 DEF DeliveryInv, BackedInv
  <2>4. VersionsInv'
    BY <1>0, <2>1 DEF DeliveryInv, VersionsInv
  <2>5. \A m \in Names : \A i \in RotatedIds(m)' :
           (i \in RotatedIds(m) /\ secrets'[i] = secrets[i]) \/ (m = n /\ i = nextId)
    BY <2>1 DEF RotatedIds
  <2>6. \A m \in Names \ {n} : worker'[m] = worker[m]
    BY <1>0, GotoOnly DEF Create, Fail
  <2>7. ASSUME NEW m \in Names \ {n} PROVE FreshValue(m)' /\ NewestSecret(m)'
    <3>1. FreshValue(m)'
      BY <1>0, <2>5, <2>6 DEF DeliveryInv, FreshValue
    <3>2. HasNew(m)' => HasNew(m) /\ worker[m].new \in RotatedIds(m)
      BY <2>6 DEF HasNew, DeliveryInv, NewestSecret
    <3>3. \A i \in RotatedIds(m) : i \in RotatedIds(m)'
      BY <2>1, <2>2 DEF RotatedIds
    <3>4. NewestSecret(m)'
      BY <2>5, <2>6, <3>2, <3>3 DEF DeliveryInv, NewestSecret
    <3> QED
      BY <3>1, <3>4
  <2>8. FreshValue(n)' /\ NewestSecret(n)'
    <3>1. CASE Fail(n)
      <4>1. worker'[n].pc = "idle"
        BY <1>0, <3>1, GotoOnly DEF Fail, IdleWorker
      <4> QED
        BY <4>1 DEF FreshValue, NewestSecret, HasNew
    <3>2. CASE Goto(n, [worker[n] EXCEPT !.pc = "list", !.new = nextId])
      <4>1. worker'[n] = [worker[n] EXCEPT !.pc = "list", !.new = nextId]
        BY <1>0, <3>2, GotoOnly
      <4>2. worker'[n].pc = "list" /\ worker'[n].new = nextId
        BY <1>0, <4>1 DEF Worker
      <4>3. nextId \in RotatedIds(n)'
        BY <2>1 DEF RotatedIds
      <4>4. \A i \in RotatedIds(n)' : i <= nextId
        BY <2>1, <2>2, <2>5 DEF RotatedIds
      <4> QED
        BY <4>2, <4>3, <4>4 DEF FreshValue, NewestSecret
    <3> QED
      BY <1>2, <2>1, <3>1, <3>2 DEF Create, AddSecret
  <2> QED
    BY <2>3, <2>4, <2>7, <2>8 DEF DeliveryInv
<1> QED
  BY <1>1, <1>2 DEF Create

\* Every step keeps it.
THEOREM DeliveryStep == Inv /\ Inv' /\ DeliveryInv /\ [Next]_vars => DeliveryInv'
<1> SUFFICES ASSUME Inv, Inv', DeliveryInv, [Next]_vars PROVE DeliveryInv'
  OBVIOUS
<1>1. ASSUME NEW n \in Names, WorkerStep(n) PROVE DeliveryInv'
  BY <1>1, CheckDelivery, FetchDelivery, CreateDelivery, ListDelivery, RemoveDelivery
     DEF WorkerStep
<1> QED
  BY <1>1, EnvironmentDelivery, OthersDelivery DEF Next

-----------------------------------------------------------------------------
(***************************************************************************)
(* The refinement.                                                         *)
(***************************************************************************)

\* What SecretDelivery sees under an ID and in a slot.
LEMMA MappedSecret ==
    ASSUME TypeOK, NEW i \in Ids
    PROVE  /\ HeldVersions[i] = None <=> secrets[i] = None
           /\ secrets[i] # None =>
                 /\ HeldVersions[i].name = secrets[i].name.base
                 /\ HeldVersions[i].source = None <=> secrets[i].data = None
                 /\ secrets[i].data # None =>
                       /\ HeldVersions[i].source = secrets[i].data.path
                       /\ HeldVersions[i].ver = secrets[i].data.ver
<1>1. CASE secrets[i] = None
  BY <1>1 DEF HeldVersions, HeldAt
<1>2. CASE secrets[i] # None
  <2> DEFINE data == secrets[i].data
             h    == [name   |-> secrets[i].name.base,
                      source |-> IF data = None THEN None ELSE data.path,
                      ver    |-> IF data = None THEN 0 ELSE data.ver]
  <2>1. /\ secrets[i].name.base \in Names
        /\ data # None => data.path \in Paths /\ data.ver \in Nat
    BY <1>2, SecretType
  <2>2. h \in [name : Names, source : Paths \cup {None}, ver : Nat]
    BY <2>1
  <2>3. h # None /\ (data # None => data.path # None)
    BY <2>1, <2>2, NoneAssumption
  <2>4. HeldVersions[i] = h
    BY <1>2 DEF HeldVersions, HeldAt
  <2> QED
    BY <1>2, <2>3, <2>4
<1> QED
  BY <1>1, <1>2

\* The sets its actions choose from.
LEMMA MappedSets ==
    ASSUME TypeOK, BackedInv, NEW n \in Names
    PROVE  /\ Delivery!Rotated(n) = RotatedIds(n)
           /\ Delivery!Backed(n) = Named(Original(n))
           /\ \A i \in Ids : Delivery!Used(i) <=> InUse(i)
<1>1. Delivery!Rotated(n) = RotatedIds(n)
  BY MappedSecret DEF Delivery!Rotated, Delivery!Ids, RotatedIds, Ids
<1>2. \A i \in Ids : secrets[i] # None =>
         (secrets[i].name = Original(n) <=>
             secrets[i].name.base = n /\ secrets[i].data = None)
  BY DEF BackedInv, TypeOK, DockerSecret, SecretName, Original
<1>3. Delivery!Backed(n) = Named(Original(n))
  BY <1>2, MappedSecret DEF Delivery!Backed, Delivery!Ids, Named, Ids
<1>4. ASSUME NEW i \in Ids PROVE Delivery!Used(i) <=> InUse(i)
  <2>1. None # i
    BY NoneIsNothing
  <2> QED
    BY <2>1 DEF Delivery!Used, InUse, Slots, SlotAt
<1> QED
  BY <1>1, <1>3, <1>4

\* Versions are the same where secrets are, and slots where references are.
LEMMA MappedSame ==
    /\ \A i \in Ids : secrets'[i] = secrets[i] => HeldAt(i)' = HeldAt(i)
    /\ secrets' = secrets => HeldVersions' = HeldVersions
    /\ (\A s \in Services, n \in Names :
           services'[s].refs[n] = services[s].refs[n]) => Slots' = Slots
<1>1. \A i \in Ids : secrets'[i] = secrets[i] => HeldAt(i)' = HeldAt(i)
  BY DEF HeldAt
<1>2. secrets' = secrets => HeldVersions' = HeldVersions
  BY DEF HeldAt, HeldVersions
<1>3. ASSUME \A s \in Services, n \in Names :
                services'[s].refs[n] = services[s].refs[n]
      PROVE  Slots' = Slots
  <2>1. \A s \in Services, n \in Names : SlotAt(s, n)' = SlotAt(s, n)
    BY <1>3 DEF SlotAt
  <2> QED
    BY <2>1 DEF Slots
<1> QED
  BY <1>1, <1>2, <1>3

\* A step that the swarm does not see.
LEMMA UnseenStep ==
    ASSUME UNCHANGED <<secrets, nextId, services>>
    PROVE  UNCHANGED Delivery!vars
  BY MappedSame DEF Delivery!vars

LEMMA TouchMaps ==
    ASSUME TypeOK, NEW s \in Services, Touch(s)
    PROVE  UNCHANGED Delivery!vars
<1>1. services[s].refs \in [Names -> Ref \cup {None}]
  BY DEF TypeOK, ServiceSpec
<1>2. \A t \in Services : services'[t].refs = services[t].refs
  BY <1>1, RespecifyRefs DEF Touch
<1> QED
  BY <1>2, MappedSame DEF Touch, Delivery!vars

\* One entry of the map is replaced.
LEMMA MappedExcept ==
    ASSUME NEW i \in Ids, \A j \in Ids \ {i} : secrets'[j] = secrets[j]
    PROVE  HeldVersions' = [HeldVersions EXCEPT ![i] = HeldAt(i)']
<1>1. \A j \in Ids \ {i} : HeldAt(j)' = HeldAt(j)
  BY MappedSame
<1> QED
  BY <1>1 DEF HeldVersions

LEMMA RetireMaps ==
    ASSUME Inv, DeliveryInv, NEW i \in Ids, RemoveSecret(i) \/ UNCHANGED secrets,
           UNCHANGED <<services, nextId>>
    PROVE  Delivery!Retire(i) \/ UNCHANGED Delivery!vars
<1>0. TypeOK /\ BackedInv
  BY InvParts DEF DeliveryInv
<1>1. CASE UNCHANGED secrets
  BY <1>1, UnseenStep
<1>2. CASE ~InUse(i) /\ secrets' = [secrets EXCEPT ![i] = None] /\ secrets[i] # None
  <2>1. secrets'[i] = None /\ \A j \in Ids \ {i} : secrets'[j] = secrets[j]
    BY <1>0, <1>2 DEF TypeOK
  <2>2. HeldVersions' = [HeldVersions EXCEPT ![i] = None]
    <3>1. HeldAt(i)' = None
      BY <2>1 DEF HeldAt
    <3> QED
      BY <2>1, <3>1, MappedExcept
  <2>3. HeldVersions[i] # None
    BY <1>0, <1>2, MappedSecret
  <2>4. ~Delivery!Used(i)
    <3>1. CASE Names = {}
      BY <3>1 DEF Delivery!Used
    <3>2. ASSUME NEW n \in Names PROVE ~Delivery!Used(i)
      BY <1>0, <1>2, MappedSets
    <3> QED
      BY <3>1, <3>2
  <2>5. Slots' = Slots
    BY MappedSame
  <2> QED
    BY <2>2, <2>3, <2>4, <2>5 DEF Delivery!Retire
<1>3. CASE secrets' = [secrets EXCEPT ![i] = None] /\ secrets[i] = None
  <2>1. secrets' = secrets
    BY <1>0, <1>3 DEF TypeOK
  <2> QED
    BY <1>1, <2>1
<1> QED
  BY <1>1, <1>2, <1>3 DEF RemoveSecret

LEMMA PublishMaps ==
    ASSUME Inv, DeliveryInv, NEW n \in Names, Create(n), AddSecret(n)
    PROVE  Delivery!Publish(n)
<1> DEFINE new == secrets'[nextId]
           v   == [name |-> n, source |-> new.data.path, ver |-> new.data.ver]
<1>0. TypeOK /\ BackedInv /\ VersionsInv
  BY InvParts DEF DeliveryInv
<1>1. /\ nextId \in Ids
      /\ \A i \in Ids \ {nextId} : secrets'[i] = secrets[i]
      /\ new \in DockerSecret
      /\ new.name = [base |-> n, stamp |-> nextId]
      /\ new.data # None
      /\ new.data.path \in Paths /\ new.data.ver \in Nat
      /\ new.data.ver <= provider[new.data.path]
      /\ \A i \in RotatedIds(n) : secrets[i].data.path = new.data.path =>
             secrets[i].data.ver <= new.data.ver
  BY AddedSecret
<1>2. new.data.ver \in 0 .. MaxVersion
  BY <1>0, <1>1, BoundAssumption DEF VersionsInv, TypeOK
<1>3. PICK i \in Ids : i = nextId
  BY <1>1
<1>4. HeldVersions' = [HeldVersions EXCEPT ![nextId] = v]
  <2>1. new = secrets'[i]
    BY <1>3
  <2>2. HeldAt(i)' = v
    BY <1>1, <2>1, NoneIsNothing DEF HeldAt
  <2>3. \A j \in Ids \ {i} : secrets'[j] = secrets[j]
    BY <1>1, <1>3
  <2>4. HeldVersions' = [HeldVersions EXCEPT ![i] = HeldAt(i)']
    BY <2>3, MappedExcept
  <2> QED
    BY <1>3, <2>2, <2>4
<1>5. \A j \in Delivery!Rotated(n) :
         HeldVersions[j].source = new.data.path => HeldVersions[j].ver <= new.data.ver
  BY <1>0, <1>1, MappedSets, MappedSecret DEF RotatedIds
<1>6. nextId' = nextId + 1 /\ Slots' = Slots
  BY MappedSame DEF AddSecret, Create
<1>7. nextId - 1 < MaxSecrets /\ nextId \in Nat /\ nextId - 1 + 1 = nextId
  BY <1>1, BoundAssumption DEF Ids
<1>8. Delivery!Hold(v)
  BY <1>4, <1>6, <1>7 DEF Delivery!Hold
<1> HIDE DEF new
<1> QED
  BY <1>1, <1>2, <1>5, <1>6, <1>8 DEF Delivery!Publish

\* One slot changes.
LEMMA MappedSlot ==
    ASSUME NEW s \in Services, NEW n \in Names, NEW i,
           services'[s].refs[n] # None, services'[s].refs[n].id = i,
           \A t \in Services, m \in Names : t # s \/ m # n =>
               services'[t].refs[m] = services[t].refs[m]
    PROVE  Slots' = [Slots EXCEPT ![s][n] = i]
<1>1. SlotAt(s, n)' = i
  BY DEF SlotAt
<1>2. \A t \in Services, m \in Names : t # s \/ m # n => SlotAt(t, m)' = SlotAt(t, m)
  BY DEF SlotAt
<1>3. Slots'[s] = [Slots[s] EXCEPT ![n] = i]
  BY <1>1, <1>2 DEF Slots
<1>4. \A t \in Services \ {s} : Slots'[t] = Slots[t]
  BY <1>2 DEF Slots
<1> QED
  BY <1>3, <1>4 DEF Slots

LEMMA DeployMaps ==
    ASSUME Inv, DeliveryInv, NEW s \in Services, NEW n \in Names, Deploy(s, n)
    PROVE  Delivery!Deploy(s, n)
<1>0. TypeOK /\ BackedInv /\ SecretsInv
  BY InvParts DEF DeliveryInv
<1>1. PICK i \in Ids :
         /\ \/ i \in Named(Original(n)) /\ UNCHANGED <<secrets, nextId>>
            \/ /\ Named(Original(n)) = {}
               /\ i = nextId
               /\ nextId' = nextId + 1
               /\ secrets' = [secrets EXCEPT
                                ![i] = [name |-> Original(n), data |-> None]]
         /\ Respecify(s, [services[s].refs EXCEPT
                           ![n] = [id |-> i, name |-> Original(n)]])
  BY DEF Deploy
<1>2. Slots' = [Slots EXCEPT ![s][n] = i]
  <2> DEFINE ref == [id |-> i, name |-> Original(n)]
  <2>1. ref \in Ref /\ ref # None /\ ref.id = i
    BY OriginalType, NoneIsNothing DEF Ref
  <2> HIDE DEF ref
  <2>2. services[s].refs \in [Names -> Ref \cup {None}]
    BY <1>0 DEF TypeOK, ServiceSpec
  <2>3. /\ services'[s].refs = [services[s].refs EXCEPT ![n] = ref]
        /\ \A t \in Services \ {s} : services'[t] = services[t]
    BY <1>0, <1>1 DEF Respecify, TypeOK, ref
  <2>4. /\ services'[s].refs[n] = ref
        /\ \A t \in Services, m \in Names : t # s \/ m # n =>
               services'[t].refs[m] = services[t].refs[m]
    BY <2>2, <2>3
  <2> QED
    BY <2>1, <2>4, MappedSlot
<1>3. Delivery!Backed(n) = Named(Original(n)) /\ i \in Delivery!Ids
  BY <1>0, MappedSets DEF Ids, Delivery!Ids
<1>4. CASE i \in Named(Original(n)) /\ UNCHANGED <<secrets, nextId>>
  <2>1. HeldVersions' = HeldVersions
    BY <1>4, MappedSame
  <2> QED
    BY <1>2, <1>3, <1>4, <2>1 DEF Delivery!Deploy
<1>5. CASE /\ Named(Original(n)) = {}
           /\ i = nextId
           /\ nextId' = nextId + 1
           /\ secrets' = [secrets EXCEPT ![i] = [name |-> Original(n), data |-> None]]
  <2> DEFINE v == [name |-> n, source |-> None, ver |-> 0]
  <2>1. /\ secrets'[i] = [name |-> Original(n), data |-> None]
        /\ \A j \in Ids \ {i} : secrets'[j] = secrets[j]
    BY <1>0, <1>5 DEF TypeOK
  <2>2. [name |-> Original(n), data |-> None] # None
    BY OriginalType, NoneIsNothing DEF DockerSecret
  <2>3. HeldAt(i)' = v
    BY <2>1, <2>2 DEF HeldAt, Original
  <2>4. HeldVersions' = [HeldVersions EXCEPT ![nextId] = v]
    BY <1>5, <2>1, <2>3, MappedExcept
  <2>5. nextId - 1 < MaxSecrets /\ nextId \in Nat /\ nextId - 1 + 1 = nextId
    BY <1>5, BoundAssumption DEF Ids
  <2>6. Delivery!Hold(v)
    BY <1>5, <2>4, <2>5 DEF Delivery!Hold
  <2> QED
    BY <1>2, <1>3, <1>5, <2>5, <2>6 DEF Delivery!Deploy
<1> QED
  BY <1>1, <1>4, <1>5

\* An update moves the slot that refers to the old secret, if it still does.
LEMMA MoveMaps ==
    ASSUME Inv, DeliveryInv, NEW n \in Names, NEW s \in Services,
           UpdateService(n, s), ApplyUpdate(n, s)
    PROVE  Delivery!Move(s, n) \/ UNCHANGED Delivery!vars
<1> DEFINE new == [id |-> worker[n].new,
                   name |-> [base |-> n, stamp |-> worker[n].new]]
<1>0. /\ TypeOK /\ BackedInv /\ NewestSecret(n) /\ HasNew(n)
      /\ worker[n].pc = "update" /\ UNCHANGED <<secrets, nextId>>
  BY InvParts DEF DeliveryInv, UpdateService, HasNew
<1>1. /\ services'[s].refs = [m \in Names |->
             IF Matches(services[s].refs[m], n, worker[n].old)
             THEN new ELSE services[s].refs[m]]
      /\ \A m \in Names : Matches(services[s].refs[m], n, worker[n].old) => m = n
      /\ \A t \in Services \ {s} : services'[t] = services[t]
      /\ new \in Ref
  BY <1>0, ApplySlots
<1>2. new # None /\ new.id = worker[n].new
  BY <1>1, NoneIsNothing
<1> HIDE DEF new
<1>3. HeldVersions' = HeldVersions
  BY <1>0, MappedSame
<1>4. CASE ~Matches(services[s].refs[n], n, worker[n].old)
  <2>1. \A t \in Services, m \in Names : services'[t].refs[m] = services[t].refs[m]
    BY <1>1, <1>4
  <2> QED
    BY <1>0, <1>3, <2>1, MappedSame DEF Delivery!vars
<1>5. CASE Matches(services[s].refs[n], n, worker[n].old)
  <2>1. /\ services'[s].refs[n] = new
        /\ \A t \in Services, m \in Names : t # s \/ m # n =>
               services'[t].refs[m] = services[t].refs[m]
    BY <1>1, <1>5
  <2>2. PICK i \in Ids : i = worker[n].new
    BY <1>0 DEF NewestSecret, RotatedIds
  <2>3. Slots' = [Slots EXCEPT ![s][n] = i]
    BY <1>2, <2>1, <2>2, MappedSlot
  <2>4. i \in Delivery!Rotated(n) /\ \A j \in Delivery!Rotated(n) : j <= i
    BY <1>0, <2>2, MappedSets DEF NewestSecret
  <2>5. Slots[s][n] # None
    <3>1. services[s].refs[n] # None /\ services[s].refs[n].id \in Ids
      BY <1>0, <1>5 DEF Matches, TypeOK, ServiceSpec, Ref
    <3> QED
      BY <3>1, NoneIsNothing DEF Slots, SlotAt
  <2> QED
    BY <1>0, <1>3, <2>3, <2>4, <2>5 DEF Delivery!Move
<1> QED
  BY <1>4, <1>5

\* A step of a goroutine.
LEMMA WorkerMaps ==
    ASSUME Inv, DeliveryInv, NEW n \in Names, WorkerStep(n)
    PROVE  Delivery!Next \/ UNCHANGED Delivery!vars
<1>1. CASE UNCHANGED <<secrets, nextId, services>>
  BY <1>1, UnseenStep
<1>2. CASE Create(n) /\ AddSecret(n)
  BY <1>2, PublishMaps DEF Delivery!Next
<1>3. ASSUME NEW s \in Services, UpdateService(n, s), ApplyUpdate(n, s)
      PROVE  Delivery!Next \/ UNCHANGED Delivery!vars
  BY <1>3, MoveMaps DEF Delivery!Next
<1>4. CASE Cleanup(n) \/ RemoveOld(n)
  <2>1. /\ worker[n].old \in Ids /\ worker[n].new \in Ids
        /\ UNCHANGED <<services, nextId>>
    BY <1>4, InvParts
       DEF WorkerInv, HandlesInv, HasOld, HasNew, Cleanup, RemoveOld
  <2>2. \E i \in Ids : RemoveSecret(i) \/ UNCHANGED secrets
    BY <1>4, <2>1 DEF Cleanup, RemoveOld
  <2>3. \E i \in Ids : Delivery!Retire(i) \/ UNCHANGED Delivery!vars
    BY <2>1, <2>2, RetireMaps
  <2> QED
    BY <2>3 DEF Delivery!Next, Delivery!Ids, Ids
<1>5. CASE CheckFetch(n) \/ Compare(n) \/ Fetch(n) \/ Lookup(n) \/ ListServices(n) \/ Record(n)
  BY <1>1, <1>5 DEF CheckFetch, Compare, Fetch, Lookup, ListServices, Record, swarm
<1>6. CASE Create(n)
  BY <1>1, <1>2, <1>6 DEF Create
<1>7. ASSUME NEW s \in Services, UpdateService(n, s)
      PROVE  Delivery!Next \/ UNCHANGED Delivery!vars
  BY <1>1, <1>3, <1>7 DEF UpdateService
<1> QED
  BY <1>4, <1>5, <1>6, <1>7 DEF WorkerStep

LEMMA StepMaps ==
    Inv /\ DeliveryInv /\ [Next]_vars => [Delivery!Next]_(Delivery!vars)
<1> SUFFICES ASSUME Inv, DeliveryInv, [Next]_vars
             PROVE  Delivery!Next \/ UNCHANGED Delivery!vars
  OBVIOUS
<1>1. TypeOK
  BY InvParts
<1>2. ASSUME NEW s \in Services, NEW n \in Names, Deploy(s, n)
      PROVE  Delivery!Next
  BY <1>2, DeployMaps DEF Delivery!Next
<1>3. CASE Environment
  BY <1>1, <1>2, <1>3, TouchMaps, UnseenStep DEF Environment, ProviderWrite, swarm
<1>4. CASE \/ \E s \in Services, n \in Names : GetFetch(s, n) \/ GetStep(s, n)
           \/ Tick \/ Restart \/ UNCHANGED vars
  BY <1>4, UnseenStep DEF GetFetch, GetStep, GetTrack, GetRespond, GetTransformError,
                          Tick, Restart, vars, swarm
<1> QED
  BY <1>3, <1>4, WorkerMaps DEF Next

LEMMA InitMaps == Init => Delivery!Init
  BY DEF Init, Delivery!Init, Delivery!Ids, Ids, HeldVersions, HeldAt, Slots, SlotAt

\* The driver implements what the swarm relies on: versions are published that
\* are no older than those of the same path, slots move one at a time to the
\* newest version, and only unused versions are removed.
THEOREM Refinement == Spec => Implements
<1> QED
  BY InitMaps, StepMaps, InvInit, InvStep, DeliveryInit, DeliveryStep, PTL
     DEF Spec, Implements, Delivery!Spec

=============================================================================
