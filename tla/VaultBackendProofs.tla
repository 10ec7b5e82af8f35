------------------------- MODULE VaultBackendProofs -------------------------
(***************************************************************************)
(* Theorems about VaultBackend, for all callers, login methods, leases,    *)
(* delays and bounds.                                                      *)
(***************************************************************************)
EXTENDS VaultBackend, TLAPS

-----------------------------------------------------------------------------
(***************************************************************************)
(* Facts about the operators the actions are built from.                   *)
(***************************************************************************)

\* The constants, for the provers.
LEMMA Constants ==
    /\ \A ttl \in LeaseTTLs : ttl \in Nat /\ ttl > 0
    /\ \A r \in Renewables : r \in BOOLEAN
    /\ MinDelay \in Nat /\ MinDelay > 0
    /\ RetryWait \in Nat /\ RetryWait > 0 /\ RetryMaxWait \in Nat
    /\ RetryWait <= RetryMaxWait /\ MaxFaults \in Nat
    /\ MaxTokens \in Nat /\ MaxTokens > 0
    /\ "worker" \notin Readers /\ "free" \notin Processes
  BY LeaseAssumption, DelayAssumption, TokenAssumption, ReaderAssumption DEF Processes

LEMMA TokensAreNumbers == Tokens \subseteq Nat /\ NoToken \notin Tokens /\ 1 \in Tokens
  BY Constants DEF Tokens, NoToken

LEMMA AuthTypes ==
    /\ NoAuth \in Auth
    /\ \A t \in Tokens, ttl \in Nat, renewable \in BOOLEAN :
           [token |-> t, renewable |-> renewable, ttl |-> ttl] \in Auth
  BY DEF NoAuth, Auth

LEMMA DelayType ==
    ASSUME NEW ttl \in Nat
    PROVE  RenewDelay(ttl) \in Nat
  BY Constants DEF RenewDelay

LEMMA NextRetryType ==
    ASSUME NEW w \in RetryWait .. RetryMaxWait
    PROVE  NextRetryWait(w) \in RetryWait .. RetryMaxWait
  BY Constants DEF NextRetryWait

LEMMA FaultType == TypeOK /\ (Fault \/ NoFault \/ UNCHANGED faults) => faults' \in Nat
  BY DEF TypeOK, Fault, NoFault

\* Where the callers and the worker may be.
ReaderPlaces == {"idle", "read", "denied", "login", "assign", "reread", "again"}
WorkerPlaces == {"delay", "wait", "lock", "renew", "login", "assign", "backoff", "done"}

LEMMA ToType ==
    ASSUME TypeOK, NEW r \in Readers, NEW pc \in ReaderPlaces, To(r, pc)
    PROVE  /\ reader' \in [Readers -> ReaderState]
           /\ reader'[r].pc = pc
           /\ \A q \in Readers \ {r} : reader'[q] = reader[q]
<1>1. [pc |-> pc, tok |-> NoToken] \in ReaderState
  BY DEF ReaderState, ReaderPlaces
<1> QED
  BY <1>1 DEF To, TypeOK

\* The worker's own type, with the bounds of its retry wait.
WorkerOK == worker \in WorkerState /\ worker.retry \in RetryWait .. RetryMaxWait

LEMMA WorkerToType ==
    ASSUME WorkerOK, NEW pc \in WorkerPlaces, WorkerTo(pc)
    PROVE  /\ WorkerOK' /\ worker'.pc = pc /\ worker'.timer = worker.timer
  BY DEF WorkerOK, WorkerState, WorkerTo, WorkerPlaces

LEMMA WakesType ==
    ASSUME WorkerOK, Wakes
    PROVE  WorkerOK' /\ worker'.pc = "lock"
<1>1. worker' = [pc |-> "lock", timer |-> worker.timer, retry |-> worker.retry,
                 lease |-> 0, waited |-> 0]
  BY DEF WorkerOK, WorkerState, Wakes
<1> QED
  BY <1>1 DEF WorkerOK, WorkerState

LEMMA StoresNextType ==
    ASSUME WorkerOK, StoresNext
    PROVE  WorkerOK' /\ worker'.pc = "assign" /\ worker'.waited \in Nat
<1>1. worker' = [pc |-> "assign", timer |-> worker.timer, retry |-> worker.retry,
                 lease |-> worker.lease, waited |-> 0]
  BY DEF WorkerOK, WorkerState, StoresNext
<1> QED
  BY <1>1 DEF WorkerOK, WorkerState

LEMMA PlanType ==
    ASSUME WorkerOK, auth \in Auth, Plan
    PROVE  /\ WorkerOK' /\ worker'.pc = "wait"
           /\ worker'.timer = RenewDelay(auth.ttl) /\ worker'.lease = auth.ttl
           /\ worker'.waited = worker.waited
<1>1. RenewDelay(auth.ttl) \in Nat /\ auth.ttl \in Nat
  BY DelayType DEF Auth
<1>2. RetryWait \in RetryWait .. RetryMaxWait /\ RetryWait \in Nat
  BY Constants
<1> QED
  BY <1>1, <1>2 DEF WorkerOK, WorkerState, Plan

LEMMA AfterFailureType ==
    ASSUME WorkerOK, AfterFailure
    PROVE  WorkerOK' /\ worker'.pc = "backoff"
<1>1. PICK jitter \in {0} \cup 0 .. (worker.retry \div 2 - 1) :
         BackOff(worker.retry + jitter)
  BY DEF AfterFailure
<1>2. worker.retry \in Nat /\ jitter \in Nat
  BY Constants DEF WorkerOK
<1>3. NextRetryWait(worker.retry) \in RetryWait .. RetryMaxWait
      /\ NextRetryWait(worker.retry) \in Nat
  BY NextRetryType, Constants DEF WorkerOK
<1>4. worker.retry + jitter \in Nat
  BY <1>2
<1> QED
  BY <1>1, <1>3, <1>4 DEF BackOff, WorkerOK, WorkerState

LEMMA NewTokenType == Tokens \ Held # {} => NewToken \in Tokens
  BY DEF NewToken

\* What a login brings: a new token for the client, and a lease for it.
LEMMA LoginAnswerType ==
    ASSUME TypeOK, NEW x \in Processes, LoginAnswer(x)
    PROVE  /\ client' \in Tokens
           /\ left' \in [Tokens -> Nat]
           /\ granted' \in [Processes -> Auth]
           /\ granted'[x].token = client' /\ granted'[x].ttl \in LeaseTTLs
           /\ left'[client'] \in LeaseTTLs
           /\ \A y \in Processes \ {x} : granted'[y] = granted[y]
<1>1. PICK ttl \in LeaseTTLs, renewable \in Renewables :
         /\ Tokens \ Held # {}
         /\ left' = [left EXCEPT ![NewToken] = ttl]
         /\ granted' = [granted EXCEPT
                          ![x] = [token |-> NewToken, renewable |-> renewable, ttl |-> ttl]]
         /\ client' = NewToken
  BY DEF LoginAnswer
<1>2. \E t \in Tokens : t \notin Held
  BY <1>1
<1>3. client' \in Tokens
  BY <1>1, <1>2 DEF NewToken
<1>4. /\ left' = [left EXCEPT ![client'] = ttl]
      /\ granted' = [granted EXCEPT
                       ![x] = [token |-> client', renewable |-> renewable, ttl |-> ttl]]
  BY <1>1
<1>5. ttl \in Nat /\ renewable \in BOOLEAN
  BY Constants
<1>6. [token |-> client', renewable |-> renewable, ttl |-> ttl] \in Auth
  BY <1>3, <1>5, AuthTypes
<1> QED
  BY <1>3, <1>4, <1>5, <1>6 DEF TypeOK

\* What a renewal brings: the token of the answer for the client, or the one it
\* has, and a lease for it.
LEMMA RenewedType ==
    ASSUME TypeOK, Tokens \ Held # {},
           NEW ttl \in LeaseTTLs, NEW renewable \in Renewables,
           NEW token \in {NoToken, client, NewToken},
           left' = [left EXCEPT ![IF token = NoToken THEN client ELSE token] = ttl],
           Renewed(token, ttl, renewable)
    PROVE  /\ client' \in Tokens
           /\ left' \in [Tokens -> Nat]
           /\ granted' \in [Processes -> Auth]
           /\ auth.token = client => granted'["worker"].token = client'
           /\ granted'["worker"].ttl = ttl
           /\ left'[client'] = ttl
<1>1. "worker" \in Processes
  BY DEF Processes
<1>2. client \in Tokens /\ NewToken \in Tokens /\ auth.token \in Tokens \cup {NoToken}
  BY NewTokenType DEF TypeOK, Auth
<1>3. client' \in Tokens /\ client' = IF token = NoToken THEN client ELSE token
  BY <1>2 DEF Renewed
<1>4. ttl \in Nat /\ renewable \in BOOLEAN
  BY Constants
<1> DEFINE stored == IF token = NoToken THEN auth.token ELSE token
<1>5. stored \in Tokens \cup {NoToken} /\ (auth.token = client => stored = client')
  BY <1>2, <1>3
<1>6. granted' = [granted EXCEPT !["worker"] =
                    [token |-> stored, renewable |-> renewable, ttl |-> ttl]]
  BY DEF Renewed
<1> HIDE DEF stored
<1>7. [token |-> stored, renewable |-> renewable, ttl |-> ttl] \in Auth
  BY <1>4, <1>5 DEF Auth
<1>8. granted' \in [Processes -> Auth]
  BY <1>6, <1>7 DEF TypeOK
<1>9. granted'["worker"].token = stored /\ granted'["worker"].ttl = ttl
  BY <1>1, <1>6 DEF TypeOK
<1>10. left' = [left EXCEPT ![client'] = ttl]
  BY <1>3
<1> QED
  BY <1>3, <1>4, <1>5, <1>8, <1>9, <1>10 DEF TypeOK

-----------------------------------------------------------------------------
(***************************************************************************)
(* Types.                                                                  *)
(***************************************************************************)
LEMMA TypeParts == TypeOK => WorkerOK /\ "worker" \in Processes /\ Readers \subseteq Processes
  BY DEF TypeOK, WorkerOK, Processes

LEMMA TypeInit == Init => TypeOK
<1> SUFFICES ASSUME Init PROVE TypeOK
  OBVIOUS
<1>1. PICK ttl \in LeaseTTLs, renewable \in Renewables :
        /\ client = 1
        /\ auth = [token |-> 1, renewable |-> renewable, ttl |-> ttl]
        /\ left = [t \in Tokens |-> IF t = 1 THEN ttl ELSE 0]
        /\ worker = [pc |-> IF CanReauthenticate /\ renewable THEN "delay" ELSE "done",
                     timer |-> 0, retry |-> RetryWait, lease |-> 0, waited |-> 0]
  BY DEF Init
<1>2. ttl \in Nat /\ renewable \in BOOLEAN
  BY Constants
<1>3. client \in Tokens /\ auth \in Auth /\ left \in [Tokens -> Nat]
  BY <1>1, <1>2, TokensAreNumbers, AuthTypes
<1>4. worker \in WorkerState /\ worker.retry \in RetryWait .. RetryMaxWait
  BY <1>1, Constants DEF WorkerState
<1>5. granted \in [Processes -> Auth]
  BY AuthTypes DEF Init
<1>6. reader \in [Readers -> ReaderState]
  BY DEF Init, ReaderState
<1> QED
  BY <1>3, <1>4, <1>5, <1>6 DEF Init, TypeOK

LEMMA AssignType ==
    ASSUME TypeOK, NEW x \in Processes, Assign(x)
    PROVE  /\ auth' \in Auth /\ auth' = granted[x]
           /\ granted' \in [Processes -> Auth]
           /\ \A y \in Processes : granted'[y] = IF y = x THEN NoAuth ELSE granted[y]
           /\ lock' = "free"
  BY AuthTypes DEF Assign, Unlock, TypeOK

LEMMA ReaderTyped ==
    ASSUME TypeOK, NEW r \in Readers, Send(r) \/ ReaderStep(r)
    PROVE  TypeOK'
<1>0. r \in Processes
  BY TypeParts
<1>1. CASE Send(r)
  <2>1. \A pc \in {"read", "again"} : [pc |-> pc, tok |-> client] \in ReaderState
    BY DEF ReaderState, TypeOK
  <2>2. reader' \in [Readers -> ReaderState]
    BY <1>1, <2>1 DEF Send, TypeOK
  <2> QED
    BY <1>1, <2>2 DEF Send, TypeOK
<1>2. CASE Answer(r)
  <2>1. \E pc \in ReaderPlaces : To(r, pc)
    BY <1>2 DEF Answer, ReaderPlaces
  <2>2. reader' \in [Readers -> ReaderState] /\ faults' \in Nat
    BY <1>2, <2>1, ToType, FaultType DEF Answer
  <2> QED
    BY <1>2, <2>2 DEF Answer, TypeOK
<1>3. CASE Reauthenticate(r)
  <2>1. reader' \in [Readers -> ReaderState]
    BY <1>3, ToType DEF Reauthenticate, ReaderPlaces
  <2> QED
    BY <1>0, <1>3, <2>1 DEF Reauthenticate, Lock, TypeOK
<1>4. CASE ReaderLogin(r)
  <2>1. \E pc \in ReaderPlaces : To(r, pc)
    BY <1>4 DEF ReaderLogin, ReaderPlaces
  <2>2. reader' \in [Readers -> ReaderState] /\ faults' \in Nat
    BY <1>4, <2>1, ToType, FaultType DEF ReaderLogin
  <2>3. /\ client' \in Tokens /\ left' \in [Tokens -> Nat]
        /\ granted' \in [Processes -> Auth]
    BY <1>0, <1>4, LoginAnswerType DEF ReaderLogin, TypeOK
  <2> QED
    BY <1>4, <2>2, <2>3 DEF ReaderLogin, Unlock, TypeOK
<1>5. CASE ReaderAssign(r)
  <2>1. reader' \in [Readers -> ReaderState]
    BY <1>5, ToType DEF ReaderAssign, ReaderPlaces
  <2>2. auth' \in Auth /\ granted' \in [Processes -> Auth] /\ lock' = "free"
    BY <1>0, <1>5, AssignType DEF ReaderAssign
  <2> QED
    BY <1>5, <2>1, <2>2 DEF ReaderAssign, TypeOK
<1> QED
  BY <1>1, <1>2, <1>3, <1>4, <1>5 DEF ReaderStep

\* Going on with the worker's loop keeps the type of what the worker keeps.
LEMMA WorkerMoves ==
    ASSUME TypeOK,
           \/ \E pc \in WorkerPlaces : WorkerTo(pc)
           \/ AfterFailure \/ Plan \/ Wakes \/ StoresNext
    PROVE  WorkerOK'
<1>1. ASSUME NEW pc \in WorkerPlaces, WorkerTo(pc) PROVE WorkerOK'
  BY <1>1, TypeParts, WorkerToType
<1>2. CASE AfterFailure
  BY <1>2, TypeParts, AfterFailureType
<1>3. CASE Plan
  BY <1>3, TypeParts, PlanType DEF TypeOK
<1>4. CASE Wakes \/ StoresNext
  BY <1>4, TypeParts, WakesType, StoresNextType
<1> QED
  BY <1>1, <1>2, <1>3, <1>4

LEMMA WorkerTyped == TypeOK /\ WorkerStep => TypeOK'
<1> SUFFICES ASSUME TypeOK, WorkerStep PROVE TypeOK'
  OBVIOUS
<1>0. "worker" \in Processes /\ "lock" \in WorkerPlaces /\ "done" \in WorkerPlaces
      /\ "renew" \in WorkerPlaces /\ "login" \in WorkerPlaces
      /\ "delay" \in WorkerPlaces /\ "assign" \in WorkerPlaces
  BY TypeParts DEF WorkerPlaces
<1>1. CASE NextDelay
  <2>1. WorkerOK'
    BY <1>0, <1>1, WorkerMoves DEF NextDelay
  <2> QED
    BY <1>1, <2>1 DEF NextDelay, TypeOK, WorkerOK
<1>2. CASE WaitEnds
  <2>1. WorkerOK'
    BY <1>0, <1>2, WorkerMoves DEF WaitEnds, Fires, Stops
  <2> QED
    BY <1>2, <2>1 DEF WaitEnds, TypeOK, WorkerOK
<1>3. CASE RenewLock
  <2>1. WorkerOK'
    BY <1>0, <1>3, WorkerMoves DEF RenewLock
  <2> QED
    BY <1>0, <1>3, <2>1 DEF RenewLock, Lock, TypeOK, WorkerOK
<1>4. CASE RenewSelf
  <2>1. WorkerOK'
    BY <1>0, <1>4, WorkerMoves DEF RenewSelf, Renewed, NotRenewed
  <2>2. CASE NotRenewed
    <3>1. left' \in [Tokens -> Nat]
      BY <1>4, Constants DEF RenewSelf, TypeOK
    <3>2. lock' \in Processes \cup {"free"} /\ faults' \in Nat
      BY <1>4, <2>2, FaultType DEF RenewSelf, NotRenewed, Unlock, TypeOK
    <3> QED
      BY <1>4, <2>1, <2>2, <3>1, <3>2 DEF RenewSelf, NotRenewed, TypeOK, WorkerOK
  <2>3. ASSUME NEW ttl \in LeaseTTLs, NEW renewable \in Renewables,
               NEW token \in {NoToken, client, NewToken},
               Tokens \ Held # {},
               left' = [left EXCEPT ![IF token = NoToken THEN client ELSE token] = ttl],
               Renewed(token, ttl, renewable)
        PROVE  TypeOK'
    <3>1. /\ client' \in Tokens /\ left' \in [Tokens -> Nat]
          /\ granted' \in [Processes -> Auth]
      BY <2>3, RenewedType
    <3>2. lock' = lock /\ faults' \in Nat
      BY <1>4, <2>3, FaultType DEF RenewSelf, Renewed
    <3> QED
      BY <1>4, <2>1, <3>1, <3>2 DEF RenewSelf, TypeOK, WorkerOK
  <2> QED
    BY <1>4, <2>2, <2>3 DEF RenewSelf
<1>5. CASE WorkerLogin
  <2>1. WorkerOK'
    BY <1>0, <1>5, WorkerMoves DEF WorkerLogin
  <2>2. /\ client' \in Tokens /\ left' \in [Tokens -> Nat]
        /\ granted' \in [Processes -> Auth]
    BY <1>0, <1>5, LoginAnswerType DEF WorkerLogin, TypeOK
  <2>3. lock' \in Processes \cup {"free"} /\ faults' \in Nat
    BY <1>5, FaultType DEF WorkerLogin, Unlock, TypeOK
  <2> QED
    BY <1>5, <2>1, <2>2, <2>3 DEF WorkerLogin, TypeOK, WorkerOK
<1>6. CASE WorkerAssign
  <2>1. WorkerOK'
    BY <1>0, <1>6, WorkerMoves DEF WorkerAssign
  <2>2. auth' \in Auth /\ granted' \in [Processes -> Auth] /\ lock' = "free"
    BY <1>0, <1>6, AssignType DEF WorkerAssign
  <2> QED
    BY <1>6, <2>1, <2>2 DEF WorkerAssign, TypeOK, WorkerOK
<1> QED
  BY <1>1, <1>2, <1>3, <1>4, <1>5, <1>6 DEF WorkerStep

\* What a unit of time is to the worker.
LEMMA PassWorker ==
    ASSUME WorkerOK, Pass
    PROVE  /\ WorkerOK' /\ worker'.pc = worker.pc /\ worker'.retry = worker.retry
           /\ worker'.timer = GoneOver(worker.timer) /\ worker'.lease = worker.lease
           /\ worker'.waited = IF worker.pc \in {"assign", "delay"}
                               THEN worker.waited + 1 ELSE worker.waited
<1> DEFINE timer  == GoneOver(worker.timer)
           waited == IF worker.pc \in {"assign", "delay"} THEN worker.waited + 1
                                                         ELSE worker.waited
<1>1. timer \in Nat /\ waited \in Nat
  BY DEF GoneOver, WorkerOK, WorkerState
<1>2. worker' = [worker EXCEPT !.timer = timer, !.waited = waited]
  BY DEF Pass
<1> HIDE DEF timer, waited
<1>3. /\ worker' \in WorkerState /\ worker'.pc = worker.pc /\ worker'.retry = worker.retry
      /\ worker'.timer = timer /\ worker'.lease = worker.lease /\ worker'.waited = waited
  BY <1>1, <1>2 DEF WorkerOK, WorkerState
<1> QED
  BY <1>3 DEF timer, waited, WorkerOK

LEMMA OthersTyped ==
    TypeOK /\ (Close \/ Closed \/ (\E t \in Tokens : Revoke(t)) \/ Pass \/ UNCHANGED vars)
        => TypeOK'
<1> SUFFICES ASSUME TypeOK,
                    Close \/ Closed \/ (\E t \in Tokens : Revoke(t)) \/ Pass \/ UNCHANGED vars
             PROVE  TypeOK'
  OBVIOUS
<1>1. CASE Close \/ Closed
  BY <1>1 DEF Close, Closed, TypeOK
<1>2. ASSUME NEW t \in Tokens, Revoke(t) PROVE TypeOK'
  BY <1>2, FaultType DEF Revoke, TypeOK
<1>3. CASE Pass
  <2>1. \A t \in Tokens : GoneOver(left[t]) \in Nat
    BY DEF GoneOver, TypeOK
  <2>2. left' \in [Tokens -> Nat]
    BY <1>3, <2>1 DEF Pass
  <2>3. worker' \in WorkerState /\ worker'.retry = worker.retry
    BY <1>3, TypeParts, PassWorker DEF WorkerOK
  <2>4. faults' \in Nat
    BY <1>3, FaultType DEF Pass
  <2> QED
    BY <1>3, <2>2, <2>3, <2>4 DEF Pass, TypeOK
<1>4. CASE UNCHANGED vars
  BY <1>4 DEF vars, TypeOK
<1> QED
  BY <1>1, <1>2, <1>3, <1>4

LEMMA TypeStep == TypeOK /\ [Next]_vars => TypeOK'
  BY ReaderTyped, WorkerTyped, OthersTyped DEF Next

-----------------------------------------------------------------------------
(***************************************************************************)
(* The mutex and the client's token.                                       *)
(***************************************************************************)
LEMMA AuthInit == Init => AuthInv
<1> SUFFICES ASSUME Init PROVE AuthInv
  OBVIOUS
<1>1. client = 1 /\ auth.token = 1 /\ worker.pc \in {"delay", "done"} /\ lock = "free"
  BY DEF Init
<1>2. \A x \in Processes : ~Holds(x) /\ ~Assigning(x)
  BY <1>1 DEF Init, Processes, Holds, Assigning
<1> QED
  BY <1>1, <1>2, Constants DEF AuthInv

\* x is where it was, for the mutex and for the answer of a login.
Same(x) == (Holds(x)' <=> Holds(x)) /\ (Assigning(x)' <=> Assigning(x))

\* Steps by which nobody enters or leaves the mutex, logs in or stores.
LEMMA OutsideStep ==
    ASSUME TypeOK, AuthInv, UNCHANGED <<client, granted, lock>>,
           auth'.token = auth.token,
           \A x \in Processes : Same(x)
    PROVE  AuthInv'
  BY DEF AuthInv, Same

\* Only x moves: it takes the mutex, or gives it back with nothing to store.
LEMMA EnterLeave ==
    ASSUME TypeOK, AuthInv, NEW x \in Processes, UNCHANGED <<client, granted>>,
           auth'.token = auth.token, ~Assigning(x), ~Assigning(x)',
           \/ lock = "free" /\ lock' = x /\ Holds(x)'
           \/ lock = x /\ lock' = "free" /\ ~Holds(x)',
           \A y \in Processes \ {x} : Same(y)
    PROVE  AuthInv'
<1>1. \A y \in Processes : Holds(y)' <=> lock' = y
  BY Constants DEF AuthInv, Same
<1>2. \A y \in Processes : Assigning(y)' <=> Assigning(y)
  BY DEF Same
<1> QED
  BY <1>1, <1>2 DEF AuthInv

\* The holder has logged in, or renewed, and has yet to store the answer.
LEMMA AnsweredStep ==
    ASSUME TypeOK, AuthInv, NEW x \in Processes, granted'[x].token = client',
           UNCHANGED lock, lock = x, Holds(x)', Assigning(x)',
           \A y \in Processes \ {x} : Same(y),
           \A y \in Processes : Assigning(y) => Holds(y)
    PROVE  AuthInv'
<1>1. \A y \in Processes \ {x} : ~Assigning(y)
  BY DEF AuthInv
<1> QED
  BY <1>1 DEF AuthInv, Same

\* The holder stores what it was granted.
LEMMA AssignStep ==
    ASSUME TypeOK, AuthInv, NEW x \in Processes, Assign(x), UNCHANGED client,
           Assigning(x), lock = x, ~Holds(x)', ~Assigning(x)',
           \A y \in Processes \ {x} : Same(y),
           \A y \in Processes : Assigning(y) => Holds(y)
    PROVE  AuthInv'
<1>1. auth'.token = client /\ lock' = "free"
  BY AssignType DEF AuthInv
<1>2. \A y \in Processes : ~Assigning(y)'
  BY DEF AuthInv, Same
<1> QED
  BY <1>1, <1>2, Constants DEF AuthInv, Same

LEMMA AssigningHolds == \A y \in Processes : Assigning(y) => Holds(y)
  BY DEF Assigning, Holds

\* What a caller's step means to the others.
LEMMA OtherReaders ==
    ASSUME NEW r \in Readers, UNCHANGED worker,
           \A q \in Readers \ {r} : reader'[q] = reader[q]
    PROVE  \A y \in Processes \ {r} : Same(y)
  BY DEF Same, Holds, Assigning, Processes

LEMMA ReaderAuth ==
    ASSUME TypeOK, AuthInv, NEW r \in Readers, Send(r) \/ ReaderStep(r)
    PROVE  AuthInv'
<1>0. /\ r \in Processes /\ r # "worker"
      /\ \A pc \in ReaderPlaces : To(r, pc) =>
            /\ reader'[r].pc = pc
            /\ \A q \in Readers \ {r} : reader'[q] = reader[q]
  BY TypeParts, ToType, Constants
<1>1. CASE Send(r)
  <2>1. /\ reader[r].pc \in {"idle", "reread"} /\ reader'[r].pc \in {"read", "again"}
        /\ \A q \in Readers \ {r} : reader'[q] = reader[q]
    BY <1>1 DEF Send, TypeOK
  <2>2. \A y \in Processes : Same(y)
    BY <1>0, <1>1, <2>1, OtherReaders DEF Send, Same, Holds, Assigning
  <2> QED
    BY <1>1, <2>2, OutsideStep DEF Send
<1>2. CASE Answer(r)
  <2>1. /\ reader[r].pc \in {"read", "again"} /\ reader'[r].pc \in {"idle", "denied"}
        /\ \A q \in Readers \ {r} : reader'[q] = reader[q]
    BY <1>0, <1>2 DEF Answer, ReaderPlaces
  <2>2. \A y \in Processes : Same(y)
    BY <1>0, <1>2, <2>1, OtherReaders DEF Answer, Same, Holds, Assigning
  <2> QED
    BY <1>2, <2>2, OutsideStep DEF Answer
<1>3. CASE Reauthenticate(r)
  <2>1. /\ reader[r].pc = "denied" /\ reader'[r].pc = "login"
        /\ \A q \in Readers \ {r} : reader'[q] = reader[q]
    BY <1>0, <1>3 DEF Reauthenticate, ReaderPlaces
  <2> QED
    BY <1>0, <1>3, <2>1, OtherReaders, EnterLeave
       DEF Reauthenticate, Lock, Holds, Assigning
<1>4. CASE ReaderLogin(r)
  <2>1. reader[r].pc = "login" /\ lock = r
    BY <1>0, <1>4 DEF ReaderLogin, AuthInv, Holds
  <2>2. CASE LoginAnswer(r) /\ To(r, "assign") /\ UNCHANGED lock
    <3>1. reader'[r].pc = "assign" /\ \A q \in Readers \ {r} : reader'[q] = reader[q]
      BY <1>0, <2>2 DEF ReaderPlaces
    <3>2. Holds(r)' /\ Assigning(r)'
      BY <1>0, <3>1 DEF Holds, Assigning
    <3>3. \A y \in Processes \ {r} : Same(y)
      BY <1>4, <3>1, OtherReaders DEF ReaderLogin
    <3> QED
      BY <1>0, <2>1, <2>2, <3>2, <3>3, AssigningHolds, LoginAnswerType, AnsweredStep
  <2>3. CASE UNCHANGED <<client, left, granted>> /\ To(r, "idle") /\ Unlock(r)
    <3>1. reader'[r].pc = "idle" /\ \A q \in Readers \ {r} : reader'[q] = reader[q]
      BY <1>0, <2>3 DEF ReaderPlaces
    <3>2. \A y \in Processes \ {r} : Same(y)
      BY <1>4, <3>1, OtherReaders DEF ReaderLogin
    <3>3. ~Holds(r)' /\ ~Assigning(r)' /\ ~Assigning(r) /\ lock' = "free"
      BY <1>0, <2>1, <2>3, <3>1 DEF Holds, Assigning, Unlock
    <3> QED
      BY <1>0, <1>4, <2>1, <2>3, <3>2, <3>3, EnterLeave DEF ReaderLogin
  <2> QED
    BY <1>4, <2>2, <2>3 DEF ReaderLogin
<1>5. CASE ReaderAssign(r)
  <2>1. /\ reader[r].pc = "assign" /\ reader'[r].pc = "reread"
        /\ \A q \in Readers \ {r} : reader'[q] = reader[q]
    BY <1>0, <1>5 DEF ReaderAssign, ReaderPlaces
  <2>2. \A y \in Processes \ {r} : Same(y)
    BY <1>5, <2>1, OtherReaders DEF ReaderAssign
  <2>3. Assigning(r) /\ lock = r /\ ~Holds(r)' /\ ~Assigning(r)'
    BY <1>0, <2>1 DEF AuthInv, Holds, Assigning
  <2> QED
    BY <1>0, <1>5, <2>2, <2>3, AssigningHolds, AssignStep DEF ReaderAssign
<1> QED
  BY <1>1, <1>2, <1>3, <1>4, <1>5 DEF ReaderStep

\* What the worker's step means to the callers.
LEMMA OtherProcesses ==
    ASSUME UNCHANGED reader
    PROVE  \A y \in Processes \ {"worker"} : Same(y)
  BY DEF Same, Holds, Assigning

\* A step of the worker outside the mutex.
LEMMA WorkerOutside ==
    ASSUME TypeOK, AuthInv, UNCHANGED <<client, granted, lock, reader>>,
           auth'.token = auth.token,
           \/ /\ worker.pc \notin {"renew", "login", "assign"}
              /\ worker'.pc \notin {"renew", "login", "assign"}
           \/ worker.pc = "renew" /\ worker'.pc = "login"
    PROVE  AuthInv'
<1>1. Same("worker")
  BY DEF Same, Holds, Assigning
<1> QED
  BY <1>1, OtherProcesses, OutsideStep

\* The worker gives the mutex back with nothing to store.
LEMMA WorkerLeaves ==
    ASSUME TypeOK, AuthInv, UNCHANGED <<client, granted, reader>>,
           auth'.token = auth.token, worker.pc \in {"renew", "login"},
           worker'.pc = "backoff", Unlock("worker")
    PROVE  AuthInv'
<1>1. "worker" \in Processes
  BY TypeParts
<1>2. Holds("worker") /\ ~Assigning("worker") /\ ~Holds("worker")' /\ ~Assigning("worker")'
  BY DEF Holds, Assigning
<1>3. lock = "worker" /\ lock' = "free"
  BY <1>1, <1>2 DEF AuthInv, Unlock
<1> QED
  BY <1>1, <1>2, <1>3, OtherProcesses, EnterLeave

LEMMA WorkerAuth == TypeOK /\ AuthInv /\ WorkerStep => AuthInv'
<1> SUFFICES ASSUME TypeOK, AuthInv, WorkerStep PROVE AuthInv'
  OBVIOUS
<1>0. /\ "worker" \in Processes /\ WorkerOK
      /\ \A pc \in WorkerPlaces : WorkerTo(pc) => worker'.pc = pc
      /\ AfterFailure => worker'.pc = "backoff"
      /\ StoresNext => worker'.pc = "assign"
      /\ Wakes => worker'.pc = "lock"
      /\ Plan => worker'.pc = "wait"
  BY TypeParts, WorkerToType, AfterFailureType, StoresNextType, WakesType, PlanType
     DEF TypeOK
<1>1. CASE NextDelay
  <2>1. worker.pc = "delay" /\ worker'.pc \in {"wait", "done"}
    BY <1>0, <1>1 DEF NextDelay, WorkerPlaces
  <2> QED
    BY <1>1, <2>1, WorkerOutside DEF NextDelay
<1>2. CASE WaitEnds
  <2>1. worker.pc \in {"wait", "backoff"} /\ worker'.pc \in {"lock", "done"}
    BY <1>0, <1>2 DEF WaitEnds, Fires, Stops, WorkerPlaces
  <2> QED
    BY <1>2, <2>1, WorkerOutside DEF WaitEnds
<1>3. CASE RenewLock
  <2>1. CASE Lock("worker") /\ WorkerTo("renew")
    <3>1. worker.pc = "lock" /\ worker'.pc = "renew"
      BY <1>0, <1>3, <2>1 DEF RenewLock, WorkerPlaces
    <3> QED
      BY <1>0, <1>3, <2>1, <3>1, OtherProcesses, EnterLeave
         DEF RenewLock, Lock, Holds, Assigning
  <2>2. CASE UNCHANGED lock /\ AfterFailure
    BY <1>0, <1>3, <2>2, WorkerOutside DEF RenewLock
  <2> QED
    BY <1>3, <2>1, <2>2 DEF RenewLock
<1>4. CASE RenewSelf
  <2>1. worker.pc = "renew" /\ lock = "worker" /\ auth.token = client
    <3>1. worker.pc = "renew" /\ lock = "worker"
      BY <1>0, <1>4 DEF RenewSelf, AuthInv, Holds
    <3>2. \A y \in Processes : ~Assigning(y)
      BY <3>1, AssigningHolds DEF AuthInv, Assigning
    <3> QED
      BY <3>1, <3>2 DEF AuthInv
  <2>2. CASE NotRenewed
    <3>1. \/ worker'.pc = "backoff" /\ Unlock("worker")
          \/ worker'.pc = "login" /\ UNCHANGED lock
      BY <1>0, <2>2 DEF NotRenewed, WorkerPlaces
    <3> QED
      BY <1>4, <2>1, <2>2, <3>1, WorkerOutside, WorkerLeaves DEF RenewSelf, NotRenewed
  <2>3. ASSUME NEW ttl \in LeaseTTLs, NEW renewable \in Renewables,
               NEW token \in {NoToken, client, NewToken},
               Tokens \ Held # {},
               left' = [left EXCEPT ![IF token = NoToken THEN client ELSE token] = ttl],
               Renewed(token, ttl, renewable)
        PROVE  AuthInv'
    <3>1. granted'["worker"].token = client'
      BY <2>1, <2>3, RenewedType
    <3>2. Holds("worker")' /\ Assigning("worker")' /\ UNCHANGED lock
      BY <1>0, <2>3 DEF Renewed, Holds, Assigning
    <3> QED
      BY <1>0, <1>4, <2>1, <3>1, <3>2, OtherProcesses, AssigningHolds, AnsweredStep
         DEF RenewSelf
  <2> QED
    BY <1>4, <2>2, <2>3 DEF RenewSelf
<1>5. CASE WorkerLogin
  <2>1. worker.pc = "login" /\ lock = "worker"
    BY <1>0, <1>5 DEF WorkerLogin, AuthInv, Holds
  <2>2. CASE LoginAnswer("worker") /\ StoresNext /\ UNCHANGED lock
    <3>1. Holds("worker")' /\ Assigning("worker")'
      BY <1>0, <2>2 DEF Holds, Assigning
    <3> QED
      BY <1>0, <1>5, <2>1, <2>2, <3>1, OtherProcesses, AssigningHolds, LoginAnswerType,
         AnsweredStep DEF WorkerLogin
  <2>3. CASE UNCHANGED <<client, left, granted>> /\ Unlock("worker") /\ AfterFailure
    BY <1>0, <1>5, <2>1, <2>3, WorkerLeaves DEF WorkerLogin
  <2> QED
    BY <1>5, <2>2, <2>3 DEF WorkerLogin
<1>6. CASE WorkerAssign
  <2>1. worker.pc = "assign" /\ worker'.pc = "delay"
    BY <1>0, <1>6 DEF WorkerAssign, WorkerPlaces
  <2>2. Assigning("worker") /\ Holds("worker") /\ ~Holds("worker")' /\ ~Assigning("worker")'
    BY <2>1 DEF Holds, Assigning
  <2>3. lock = "worker"
    BY <1>0, <2>2 DEF AuthInv
  <2> QED
    BY <1>0, <1>6, <2>2, <2>3, OtherProcesses, AssigningHolds, AssignStep DEF WorkerAssign
<1> QED
  BY <1>1, <1>2, <1>3, <1>4, <1>5, <1>6 DEF WorkerStep

LEMMA OthersAuth ==
    ASSUME TypeOK, AuthInv,
           Close \/ Closed \/ (\E t \in Tokens : Revoke(t)) \/ Pass \/ UNCHANGED vars
    PROVE  AuthInv'
<1>1. UNCHANGED <<client, auth, granted, lock, reader>> /\ worker'.pc = worker.pc
  BY TypeParts, PassWorker DEF Close, Closed, Revoke, Pass, vars
<1>2. \A x \in Processes : Same(x)
  BY <1>1 DEF Same, Holds, Assigning
<1> QED
  BY <1>1, <1>2, OutsideStep

LEMMA AuthStep == TypeOK /\ AuthInv /\ [Next]_vars => AuthInv'
  BY ReaderAuth, WorkerAuth, OthersAuth DEF Next


\* The variables keep their types, whatever the callers, the worker, Close and
\* the server do (backend.go:21-33).
THEOREM TypeCorrect == Spec => []TypeOK
<1>1. Init => TypeOK
  BY TypeInit
<1>2. TypeOK /\ [Next]_vars => TypeOK'
  BY TypeStep
<1> QED
  BY <1>1, <1>2, PTL DEF Spec

\* Who holds the mutex, and what b.auth is meanwhile.
THEOREM MutexInvariant == Spec => []AuthInv
<1>1. Init => AuthInv
  BY AuthInit
<1>2. TypeOK /\ AuthInv /\ [Next]_vars => AuthInv'
  BY AuthStep
<1> QED
  BY <1>1, <1>2, TypeCorrect, PTL DEF Spec

\* For any number of callers, any leases and any failures, b.auth describes the
\* token reads are sent with whenever the mutex is free: no interleaving of
\* their logins with the worker's renewals can exchange two answers
\* (backend.go:225-228, 332-363).
THEOREM AuthFollowsClient == Spec => []AuthIsClients
<1>1. AuthInv => AuthIsClients
  <2> SUFFICES ASSUME AuthInv, lock = "free" PROVE auth.token = client
    BY DEF AuthIsClients
  <2>1. \A x \in Processes : ~Holds(x)
    BY Constants DEF AuthInv
  <2> QED
    BY <2>1, AssigningHolds DEF AuthInv
<1> QED
  BY <1>1, MutexInvariant, PTL

-----------------------------------------------------------------------------
(***************************************************************************)
(* The worker's timer and the lease of the client's token.                 *)
(***************************************************************************)
LEMMA LatenessTypes ==
    ASSUME NEW lease \in Nat, NEW ttl \in Nat
    PROVE  Clamped(lease) \in Nat /\ Shortened(lease, ttl) \in Nat
  BY Constants DEF Clamped, Shortened

\* The timer comes before the end of its lease, but for the clamp.
LEMMA DelayInLease ==
    ASSUME NEW ttl \in Nat, ttl > 0
    PROVE  RenewDelay(ttl) \in Nat /\ RenewDelay(ttl) < ttl + Clamped(ttl)
<1>1. (2 * ttl) \div 3 \in Nat /\ (2 * ttl) \div 3 < ttl
  OBVIOUS
<1>2. MinDelay \in Nat
  BY Constants
<1>3. Clamped(ttl) \in Nat /\ MinDelay < ttl + Clamped(ttl)
  BY <1>2 DEF Clamped
<1> QED
  BY <1>1, <1>2, <1>3 DEF RenewDelay

\* The types the arithmetic below is about.
LEMMA WakeTypes ==
    TypeOK => /\ client \in Tokens /\ left[client] \in Nat /\ auth.ttl \in Nat
              /\ \A x \in Processes : granted[x].ttl \in Nat
              /\ worker.timer \in Nat /\ worker.lease \in Nat /\ worker.waited \in Nat
  BY DEF TypeOK, WorkerState, Auth

LEMMA WakeInit == Init => WakeInv
<1> SUFFICES ASSUME Init PROVE WakeInv
  OBVIOUS
<1>1. PICK ttl \in LeaseTTLs, renewable \in Renewables :
        /\ client = 1
        /\ auth = [token |-> 1, renewable |-> renewable, ttl |-> ttl]
        /\ left = [t \in Tokens |-> IF t = 1 THEN ttl ELSE 0]
        /\ worker = [pc |-> IF CanReauthenticate /\ renewable THEN "delay" ELSE "done",
                     timer |-> 0, retry |-> RetryWait, lease |-> 0, waited |-> 0]
  BY DEF Init
<1>2. ttl \in Nat /\ auth.ttl = ttl /\ left[client] = ttl
  BY <1>1, TokensAreNumbers, Constants
<1>3. worker.pc \in {"delay", "done"} /\ worker.waited = 0
  BY <1>1
<1>4. \A x \in Processes : ~Assigning(x)
  BY <1>3 DEF Init, Processes, Assigning
<1> QED
  BY <1>2, <1>3, <1>4 DEF WakeInv, WakesFor

\* Nothing moves that the invariant is about.
LEMMA WakeUntouched ==
    ASSUME WakeInv, UNCHANGED <<client, left, worker, auth, granted>>,
           \A x \in Processes : Assigning(x)' <=> Assigning(x)
    PROVE  WakeInv'
  BY DEF WakeInv, WakesFor, Valid

\* The worker is, after its step, not where the lease matters to it.
LEMMA WorkerElsewhere ==
    worker'.pc \notin {"delay", "assign", "wait"} => WakeInv'
  BY DEF WakeInv, WakesFor

\* A login or renewal gives the client a lease that no timer outlasts by more
\* than it may: x has yet to store the answer.
LEMMA AnsweredWake ==
    ASSUME TypeOK, WakeInv, NEW x \in Processes, NEW ttl \in Nat,
           left'[client'] = ttl, granted'[x].ttl = ttl,
           Assigning(x)', \A y \in Processes \ {x} : ~Assigning(y)',
           worker' = worker \/ (worker'.pc = "assign" /\ worker'.waited \in Nat)
    PROVE  WakeInv'
<1>1. worker'.pc \in {"delay", "assign"} => ttl <= left'[client'] + worker'.waited
  BY WakeTypes
<1>2. worker'.pc = "wait" =>
        /\ worker' = worker /\ worker.timer < worker.lease + Clamped(worker.lease)
        /\ worker.timer < ttl + worker.waited + Clamped(worker.lease)
                             + Shortened(worker.lease, ttl)
  <2>1. Clamped(worker.lease) \in Nat /\ Shortened(worker.lease, ttl) \in Nat
        /\ worker.lease <= ttl + Shortened(worker.lease, ttl)
    BY WakeTypes, LatenessTypes DEF Shortened
  <2> HIDE DEF Clamped
  <2> QED
    BY <2>1, WakeTypes DEF WakeInv
<1>3. WakesFor(ttl)'
  BY <1>1, <1>2 DEF WakesFor
<1> QED
  BY <1>2, <1>3 DEF WakeInv

\* x stores its answer: the client's lease is that of b.auth.
LEMMA AssignWake ==
    ASSUME TypeOK, WakeInv, NEW x \in Processes, Assign(x), Assigning(x),
           UNCHANGED <<client, left>>,
           \A y \in Processes : ~Assigning(y)',
           worker' = worker \/ (worker.pc = "assign" /\ worker' = [worker EXCEPT !.pc = "delay"])
    PROVE  WakeInv'
<1>1. auth' = granted[x] /\ WakesFor(granted[x].ttl)
  BY AssignType DEF WakeInv
<1>2. WakesFor(auth.ttl)'
  BY <1>1 DEF WakesFor, Valid, TypeOK, WorkerState
<1>3. worker'.pc = "wait" => worker' = worker
  BY DEF TypeOK, WorkerState
<1> QED
  BY <1>2, <1>3 DEF WakeInv

\* The lease that a login grants is that of the client's new token.
LEMMA LoginLease ==
    ASSUME TypeOK, NEW x \in Processes, LoginAnswer(x)
    PROVE  \E ttl \in LeaseTTLs : left'[client'] = ttl /\ granted'[x].ttl = ttl
<1>1. PICK ttl \in LeaseTTLs, renewable \in Renewables :
         /\ Tokens \ Held # {}
         /\ left' = [left EXCEPT ![NewToken] = ttl]
         /\ granted' = [granted EXCEPT
                          ![x] = [token |-> NewToken, renewable |-> renewable, ttl |-> ttl]]
         /\ client' = NewToken
  BY DEF LoginAnswer
<1>2. left' = [left EXCEPT ![client'] = ttl] /\ client' \in Tokens
  BY <1>1, NewTokenType
<1>3. left'[client'] = ttl
  BY <1>2 DEF TypeOK
<1>4. granted'[x].ttl = ttl
  BY <1>1 DEF TypeOK
<1> QED
  BY <1>3, <1>4

\* While the worker is behind the mutex nobody else has an answer to store.
LEMMA WorkerAlone ==
    ASSUME AuthInv, worker.pc \in {"renew", "login", "assign"}, UNCHANGED reader
    PROVE  \A y \in Processes \ {"worker"} : ~Assigning(y)'
<1>1. "worker" \in Processes /\ Holds("worker")
  BY DEF Processes, Holds
<1>2. \A y \in Processes \ {"worker"} : ~Assigning(y)
  BY <1>1, AssigningHolds DEF AuthInv
<1> QED
  BY <1>2 DEF Assigning

LEMMA ReaderWake ==
    ASSUME TypeOK, AuthInv, WakeInv, NEW r \in Readers, Send(r) \/ ReaderStep(r)
    PROVE  WakeInv'
<1>0. /\ r \in Processes /\ r # "worker"
      /\ \A pc \in ReaderPlaces : To(r, pc) =>
            /\ reader'[r].pc = pc
            /\ \A q \in Readers \ {r} : reader'[q] = reader[q]
  BY TypeParts, ToType, Constants
<1>1. CASE Send(r) \/ Answer(r) \/ Reauthenticate(r)
  <2>1. /\ reader[r].pc # "assign" /\ reader'[r].pc # "assign"
        /\ \A q \in Readers \ {r} : reader'[q] = reader[q]
    BY <1>0, <1>1 DEF Send, Answer, Reauthenticate, ReaderPlaces, TypeOK
  <2>2. UNCHANGED <<client, left, worker, auth, granted>>
    BY <1>1 DEF Send, Answer, Reauthenticate
  <2>3. \A x \in Processes : Assigning(x)' <=> Assigning(x)
    BY <1>0, <2>1, <2>2 DEF Assigning, Processes
  <2> QED
    BY <2>2, <2>3, WakeUntouched
<1>2. CASE ReaderLogin(r)
  <2>1. reader[r].pc = "login" /\ UNCHANGED <<worker, auth>>
    BY <1>2 DEF ReaderLogin
  <2>2. \A q \in Readers \ {r} : reader'[q] = reader[q]
    BY <1>0, <1>2 DEF ReaderLogin, ReaderPlaces
  <2>3. CASE LoginAnswer(r) /\ To(r, "assign")
    <3>1. Assigning(r)'
      BY <1>0, <2>3 DEF Assigning, ReaderPlaces
    <3>2. \A y \in Processes \ {r} : ~Assigning(y)
      BY <1>0, <2>1, AssigningHolds DEF AuthInv, Holds
    <3>3. \A y \in Processes \ {r} : ~Assigning(y)'
      BY <2>1, <2>2, <3>2 DEF Assigning, Processes
    <3>4. PICK ttl \in LeaseTTLs : left'[client'] = ttl /\ granted'[r].ttl = ttl
      BY <1>0, <2>3, LoginLease
    <3>5. ttl \in Nat
      BY Constants
    <3> QED
      BY <1>0, <2>1, <3>1, <3>3, <3>4, <3>5, AnsweredWake
  <2>4. CASE UNCHANGED <<client, left, granted>> /\ To(r, "idle")
    <3>1. reader'[r].pc = "idle"
      BY <1>0, <2>4 DEF ReaderPlaces
    <3>2. \A x \in Processes : Assigning(x)' <=> Assigning(x)
      BY <1>0, <2>1, <2>2, <3>1 DEF Assigning, Processes
    <3> QED
      BY <2>1, <2>4, <3>2, WakeUntouched
  <2> QED
    BY <1>2, <2>3, <2>4 DEF ReaderLogin
<1>3. CASE ReaderAssign(r)
  <2>1. /\ reader[r].pc = "assign" /\ reader'[r].pc = "reread"
        /\ \A q \in Readers \ {r} : reader'[q] = reader[q]
        /\ UNCHANGED <<client, left, worker>>
    BY <1>0, <1>3 DEF ReaderAssign, ReaderPlaces
  <2>2. Assigning(r) /\ \A y \in Processes \ {r} : ~Assigning(y)
    BY <1>0, <2>1, AssigningHolds DEF AuthInv, Assigning
  <2>3. \A y \in Processes : ~Assigning(y)'
    BY <1>0, <2>1, <2>2 DEF Assigning, Processes
  <2> QED
    BY <1>0, <1>3, <2>1, <2>2, <2>3, AssignWake DEF ReaderAssign
<1> QED
  BY <1>1, <1>2, <1>3 DEF ReaderStep

LEMMA WorkerWake ==
    ASSUME TypeOK, AuthInv, WakeInv, WorkerStep
    PROVE  WakeInv'
<1>0. /\ "worker" \in Processes /\ WorkerOK
      /\ \A pc \in WorkerPlaces : WorkerTo(pc) => worker'.pc = pc
      /\ AfterFailure => worker'.pc = "backoff"
      /\ StoresNext => worker'.pc = "assign" /\ worker'.waited \in Nat
      /\ Wakes => worker'.pc = "lock"
  BY TypeParts, WorkerToType, AfterFailureType, StoresNextType, WakesType
<1>1. CASE NextDelay
  <2>1. CASE WorkerTo("done")
    BY <1>0, <1>1, <2>1, WorkerElsewhere DEF NextDelay, WorkerPlaces
  <2>2. CASE Renewing /\ Plan
    <3>1. /\ worker'.pc = "wait" /\ worker'.timer = RenewDelay(auth.ttl)
          /\ worker'.lease = auth.ttl /\ worker'.waited = worker.waited
      BY <1>0, <2>2, PlanType DEF TypeOK
    <3>2. UNCHANGED <<client, left, auth, reader>>
      BY <1>1 DEF NextDelay
    <3>3. \A y \in Processes : ~Assigning(y)
      BY <1>1, Constants, AssigningHolds DEF NextDelay, AuthInv
    <3>4. \A y \in Processes : ~Assigning(y)'
      BY <3>1, <3>2, <3>3 DEF Assigning, Processes
    <3>5. Valid(client) => auth.ttl <= left[client] + worker.waited
      BY <1>1, <3>3 DEF NextDelay, WakeInv, WakesFor
    <3>6. /\ RenewDelay(auth.ttl) \in Nat /\ Clamped(auth.ttl) \in Nat
          /\ RenewDelay(auth.ttl) < auth.ttl + Clamped(auth.ttl)
          /\ Shortened(auth.ttl, auth.ttl) = 0
      BY <2>2, WakeTypes, DelayInLease, LatenessTypes DEF Renewing, Shortened
    <3>7. Valid(client) =>
            RenewDelay(auth.ttl) < left[client] + worker.waited + Clamped(auth.ttl)
                                      + Shortened(auth.ttl, auth.ttl)
      BY <3>5, <3>6, WakeTypes
    <3>8. WakesFor(auth.ttl)'
      BY <3>1, <3>2, <3>7 DEF WakesFor, Valid
    <3> QED
      BY <3>1, <3>4, <3>6, <3>8 DEF WakeInv
  <2> QED
    BY <1>1, <2>1, <2>2 DEF NextDelay
<1>2. CASE WaitEnds
  <2>1. worker'.pc \in {"lock", "done"}
    BY <1>0, <1>2 DEF WaitEnds, Fires, Stops, WorkerPlaces
  <2> QED
    BY <2>1, WorkerElsewhere
<1>3. CASE RenewLock
  <2>1. worker'.pc \in {"renew", "backoff"}
    BY <1>0, <1>3 DEF RenewLock, WorkerPlaces
  <2> QED
    BY <2>1, WorkerElsewhere
<1>4. CASE RenewSelf
  <2>1. CASE NotRenewed
    <3>1. worker'.pc \in {"login", "backoff"}
      BY <1>0, <2>1 DEF NotRenewed, WorkerPlaces
    <3> QED
      BY <3>1, WorkerElsewhere
  <2>2. ASSUME NEW ttl \in LeaseTTLs, NEW renewable \in Renewables,
               NEW token \in {NoToken, client, NewToken},
               Tokens \ Held # {},
               left' = [left EXCEPT ![IF token = NoToken THEN client ELSE token] = ttl],
               Renewed(token, ttl, renewable)
        PROVE  WakeInv'
    <3>1. left'[client'] = ttl /\ granted'["worker"].ttl = ttl /\ ttl \in Nat
      BY <2>2, RenewedType, Constants
    <3>2. worker'.pc = "assign" /\ worker'.waited \in Nat
      BY <1>0, <2>2 DEF Renewed
    <3>3. Assigning("worker")' /\ \A y \in Processes \ {"worker"} : ~Assigning(y)'
      BY <1>4, <3>2, WorkerAlone DEF RenewSelf, Assigning
    <3> QED
      BY <1>0, <3>1, <3>2, <3>3, AnsweredWake
  <2> QED
    BY <1>4, <2>1, <2>2 DEF RenewSelf
<1>5. CASE WorkerLogin
  <2>1. CASE LoginAnswer("worker") /\ StoresNext
    <3>1. PICK ttl \in LeaseTTLs : left'[client'] = ttl /\ granted'["worker"].ttl = ttl
      BY <1>0, <2>1, LoginLease
    <3>2. worker'.pc = "assign" /\ worker'.waited \in Nat /\ ttl \in Nat
      BY <1>0, <2>1, Constants
    <3>3. Assigning("worker")' /\ \A y \in Processes \ {"worker"} : ~Assigning(y)'
      BY <1>5, <3>2, WorkerAlone DEF WorkerLogin, Assigning
    <3> QED
      BY <1>0, <3>1, <3>2, <3>3, AnsweredWake
  <2>2. CASE AfterFailure
    BY <1>0, <2>2, WorkerElsewhere
  <2> QED
    BY <1>5, <2>1, <2>2 DEF WorkerLogin
<1>6. CASE WorkerAssign
  <2>1. worker.pc = "assign" /\ worker' = [worker EXCEPT !.pc = "delay"]
        /\ worker'.pc = "delay"
    BY <1>0, <1>6 DEF WorkerAssign, WorkerTo, WorkerPlaces
  <2>2. Assigning("worker") /\ ~Assigning("worker")'
    BY <2>1 DEF Assigning
  <2>3. \A y \in Processes : ~Assigning(y)'
    BY <1>6, <2>1, <2>2, WorkerAlone DEF WorkerAssign
  <2> QED
    BY <1>0, <1>6, <2>1, <2>2, <2>3, AssignWake DEF WorkerAssign
<1> QED
  BY <1>1, <1>2, <1>3, <1>4, <1>5, <1>6 DEF WorkerStep

LEMMA OthersWake ==
    ASSUME TypeOK, WakeInv,
           Close \/ Closed \/ (\E t \in Tokens : Revoke(t)) \/ Pass \/ UNCHANGED vars
    PROVE  WakeInv'
<1>0. /\ UNCHANGED <<client, auth, granted, reader>> /\ worker'.pc = worker.pc
      /\ \A x \in Processes : Assigning(x)' <=> Assigning(x)
  <2>1. UNCHANGED <<client, auth, granted, reader>> /\ worker'.pc = worker.pc
    BY TypeParts, PassWorker DEF Close, Closed, Revoke, Pass, vars
  <2> QED
    BY <2>1 DEF Assigning
<1>1. CASE Close \/ Closed \/ UNCHANGED vars
  BY <1>0, <1>1, WakeUntouched DEF Close, Closed, vars
<1>2. ASSUME NEW t \in Tokens, Revoke(t) PROVE WakeInv'
  <2>1. left'[client'] = left[client] \/ ~Valid(client)'
    BY <1>0, <1>2 DEF Revoke, Valid, TypeOK
  <2>2. UNCHANGED worker
    BY <1>2 DEF Revoke
  <2>3. \A ttl : WakesFor(ttl) => WakesFor(ttl)'
    BY <1>0, <2>1, <2>2 DEF WakesFor, Valid
  <2> QED
    BY <1>0, <2>2, <2>3 DEF WakeInv
<1>3. CASE Pass
  <2>1. /\ worker'.timer = GoneOver(worker.timer) /\ worker'.lease = worker.lease
        /\ worker'.waited = IF worker.pc \in {"assign", "delay"}
                            THEN worker.waited + 1 ELSE worker.waited
    BY <1>3, TypeParts, PassWorker
  <2>2. client \in Held /\ left'[client'] = GoneOver(left[client])
    BY <1>0, <1>3, WakeTypes DEF Pass, Held
  <2>3. \A ttl \in Nat : WakesFor(ttl) => WakesFor(ttl)'
    <3> SUFFICES ASSUME NEW ttl \in Nat, WakesFor(ttl), Valid(client)' PROVE WakesFor(ttl)'
      BY DEF WakesFor
    <3>1. left[client] > 0 /\ left'[client'] = left[client] - 1 /\ left'[client'] > 0
      BY <1>0, <2>2, WakeTypes DEF Valid, GoneOver
    <3>2. worker.pc \in {"delay", "assign"} => ttl <= left'[client'] + worker'.waited
      BY <2>1, <3>1, WakeTypes DEF WakesFor, Valid
    <3>0. Clamped(worker.lease) \in Nat /\ Shortened(worker.lease, ttl) \in Nat
      BY WakeTypes, LatenessTypes
    <3>3. worker'.timer \in Nat /\ (worker'.timer = 0 \/ worker'.timer = worker.timer - 1)
      BY <2>1, WakeTypes DEF GoneOver
    <3>4. worker.pc = "wait" =>
            worker'.timer < left'[client'] + worker'.waited + Clamped(worker.lease)
                               + Shortened(worker.lease, ttl)
      BY <2>1, <3>0, <3>1, <3>3, WakeTypes DEF WakesFor, Valid
    <3> QED
      BY <1>0, <2>1, <3>2, <3>4 DEF WakesFor
  <2>4. worker'.pc = "wait" => worker'.timer < worker'.lease + Clamped(worker'.lease)
    <3>1. worker.pc = "wait" => worker.timer < worker.lease + Clamped(worker.lease)
      BY DEF WakeInv
    <3>2. Clamped(worker.lease) \in Nat
      BY WakeTypes, LatenessTypes
    <3>3. GoneOver(worker.timer) <= worker.timer /\ GoneOver(worker.timer) \in Nat
      BY WakeTypes DEF GoneOver
    <3> QED
      BY <1>0, <2>1, <3>1, <3>2, <3>3, WakeTypes
  <2> QED
    BY <1>0, <2>3, <2>4, WakeTypes DEF WakeInv
<1> QED
  BY <1>1, <1>2, <1>3

LEMMA WakeStep == TypeOK /\ AuthInv /\ WakeInv /\ [Next]_vars => WakeInv'
  BY ReaderWake, WorkerWake, OthersWake DEF Next

\* For any leases and delays, and however many callers log in meanwhile, the
\* worker's timer ends before the lease of the token that reads are sent with,
\* but for the clamp to the minimal delay, a login with a shorter lease, and
\* the time the worker needed to set it (backend.go:298-308, 385-399).
THEOREM TimerInLease == Spec => []WakesInTime
<1>1. Init => WakeInv
  BY WakeInit
<1>2. TypeOK /\ AuthInv /\ WakeInv /\ [Next]_vars => WakeInv'
  BY WakeStep
<1>3. AuthInv /\ WakeInv => WakesInTime
  <2> SUFFICES ASSUME AuthInv, WakeInv, lock = "free", worker.pc = "wait", Valid(client)
               PROVE  worker.timer < left[client] + worker.waited + Clamped(worker.lease)
                                        + Shortened(worker.lease, auth.ttl)
    BY DEF WakesInTime
  <2>1. \A x \in Processes : ~Assigning(x)
    BY Constants, AssigningHolds DEF AuthInv
  <2> QED
    BY <2>1 DEF WakeInv, WakesFor
<1> QED
  BY <1>1, <1>2, <1>3, TypeCorrect, MutexInvariant, PTL DEF Spec

=============================================================================
