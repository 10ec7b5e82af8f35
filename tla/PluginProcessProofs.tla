------------------------ MODULE PluginProcessProofs ------------------------
(***************************************************************************)
(* Theorems about PluginProcess, for all callers and all deadlines.        *)
(***************************************************************************)
EXTENDS PluginProcess, TLAPS

-----------------------------------------------------------------------------
(***************************************************************************)
(* The invariant: of the process, and of the calls.                        *)
(***************************************************************************)
CallState == [pc : {"idle", "over", "fetch", "auth", "login", "mutex", "load", "decrypt"},
              age : 0 .. Late, wait : 0 .. Late, passed : 0 .. Passes]

ProcessOK == /\ monitoring \in BOOLEAN
             /\ main \in {"starting", "serving", "exited"}
             /\ stopper \in {"none", "waiting", "cancel", "monitor", "web", "provider",
                             "docker", "exit"}
             /\ grace \in 0 .. WebGrace
             /\ busy \in BOOLEAN
             /\ released \subseteq Parts
             /\ ReleasedInv

CallsTyped == /\ call \in [Callers -> CallState]
              /\ locked \in BOOLEAN
              /\ clients \in {0, 1}

Loading(c) == call[c].pc = "load"

LockOK == /\ \A c \in Callers : Loading(c) => locked
          /\ locked => \E c \in Callers : Loading(c)
          /\ \A c, d \in Callers : Loading(c) /\ Loading(d) => c = d

CallsOK == CallsTyped /\ LockOK /\ CallInv /\ WaitInv /\ AnswerInTime

LEMMA Constants ==
    /\ Deadline \in Nat /\ Deadline > 0 /\ WebGrace \in Nat
    /\ AuthWait \in Nat /\ Passes \in Nat
  BY TimeAssumption

\* Deadlines added up.
LEMMA Product ==
    ASSUME NEW n \in Nat
    PROVE  /\ n * Deadline \in Nat
           /\ (n + 1) * Deadline = n * Deadline + Deadline
           /\ (2 + n) * Deadline = n * Deadline + 2 * Deadline
  BY Constants

LEMMA Products ==
    ASSUME NEW n \in Nat, NEW m \in 0 .. n
    PROVE  m * Deadline <= n * Deadline
<1>1. PICK k \in Nat : n = m + k
  <2>1. n - m \in Nat /\ n = m + (n - m)
    OBVIOUS
  <2> QED
    BY <2>1
<1>2. n * Deadline = m * Deadline + k * Deadline /\ m * Deadline \in Nat /\ k * Deadline \in Nat
  BY <1>1, Constants
<1> QED
  BY <1>2

LEMMA LateIs ==
    /\ Late \in Nat /\ Passes * Deadline \in Nat
    /\ Late = Passes * Deadline + 2 * Deadline + AuthWait + 1
    /\ (2 + Passes) * Deadline = Passes * Deadline + 2 * Deadline
  BY Constants, Product DEF Late

LEMMA Fields ==
    ASSUME NEW v \in CallState
    PROVE  /\ v.age \in Nat /\ v.wait \in Nat /\ v.passed \in Nat
           /\ v.age <= Late /\ v.wait <= Late /\ v.passed <= Passes
           /\ v.passed * Deadline \in Nat
           /\ v.passed * Deadline <= Passes * Deadline
<1>1. /\ v.age \in 0 .. Late /\ v.wait \in 0 .. Late /\ v.passed \in 0 .. Passes
  BY DEF CallState
<1>2. v.age \in Nat /\ v.wait \in Nat /\ v.passed \in Nat
      /\ v.age <= Late /\ v.wait <= Late /\ v.passed <= Passes
  BY <1>1, LateIs, Constants
<1>3. v.passed * Deadline \in Nat
  BY <1>2, Product
<1>4. v.passed * Deadline <= Passes * Deadline
  BY <1>1, Products, Constants
<1> QED
  BY <1>2, <1>3, <1>4

LEMMA NewTyped ==
    /\ \A pc \in {"idle", "over", "fetch"} :
          New(pc) \in CallState /\ New(pc).pc = pc /\ New(pc).age = 0 /\ New(pc).wait = 0
    /\ Idle = New("idle")
  BY Constants, LateIs DEF New, Idle, CallState

\* Only idle calls, as at the start and at the end of a process.
LEMMA AllIdle ==
    ASSUME call' = [c \in Callers |-> Idle], locked' = FALSE, clients' \in {0, 1}
    PROVE  CallsOK'
<1>1. /\ call' \in [Callers -> CallState]
      /\ \A c \in Callers : /\ call'[c].pc = "idle" /\ call'[c].age = 0
                            /\ call'[c].wait = 0
  BY NewTyped
<1>2. CallsTyped' /\ LockOK'
  BY <1>1 DEF CallsTyped, LockOK, Loading
<1>3. CallInv' /\ WaitInv'
  BY <1>1, Constants DEF CallInv, WaitInv, At
<1>4. AnswerInTime'
  <2>1. 0 <= (2 + Passes) * Deadline /\ 0 <= Deadline + AuthWait
    BY Constants, LateIs
  <2> QED
    BY <1>1, <2>1 DEF AnswerInTime
<1> QED
  BY <1>2, <1>3, <1>4 DEF CallsOK

LEMMA ProcessInit == Init => ProcessOK
<1> SUFFICES ASSUME Init PROVE ProcessOK
  OBVIOUS
<1>1. grace \in 0 .. WebGrace
  BY Constants DEF Init, Started
<1>2. monitoring \in BOOLEAN /\ busy \in BOOLEAN /\ released \subseteq Parts
  BY DEF Init, Started
<1>3. stopper = "none" /\ main = "starting"
  BY DEF Init, Started
<1> QED
  BY <1>1, <1>2, <1>3 DEF ProcessOK, ReleasedInv

LEMMA CallsInit == Init => CallsOK
<1> SUFFICES ASSUME Init PROVE CallsOK
  OBVIOUS
<1>0. call = [c \in Callers |-> Idle] /\ locked = FALSE /\ clients = 0
  BY DEF Init, Started
<1>1. /\ call \in [Callers -> CallState]
      /\ \A c \in Callers : /\ call[c].pc = "idle" /\ call[c].age = 0
                            /\ call[c].wait = 0
  BY <1>0, NewTyped
<1>2. CallsTyped /\ LockOK
  BY <1>0, <1>1 DEF CallsTyped, LockOK, Loading
<1>3. CallInv /\ WaitInv
  BY <1>1, Constants DEF CallInv, WaitInv, At
<1>4. AnswerInTime
  <2>1. 0 <= (2 + Passes) * Deadline /\ 0 <= Deadline + AuthWait
    BY Constants, LateIs
  <2> QED
    BY <1>1, <2>1 DEF AnswerInTime
<1> QED
  BY <1>2, <1>3, <1>4 DEF CallsOK

-----------------------------------------------------------------------------
(***************************************************************************)
(* The process.                                                            *)
(***************************************************************************)
LEMMA StopStepProcess ==
    ASSUME ProcessOK, Stop
    PROVE  ProcessOK'
<1>1. CASE CancelRotation \/ CloseProvider \/ CloseDocker
  BY <1>1 DEF CancelRotation, CloseProvider, CloseDocker, StopStep, ProcessOK, ReleasedInv, Parts
<1>2. CASE StopMonitor
  <2>1. grace' \in 0 .. WebGrace
    BY <1>2, Constants DEF StopMonitor
  <2> QED
    BY <1>2, <2>1 DEF StopMonitor, StopStep, ProcessOK, ReleasedInv, Parts
<1>3. CASE StopWeb
  BY <1>3 DEF StopWeb, StopStep, ProcessOK, ReleasedInv, Parts
<1>4. CASE OSExit
  BY <1>4 DEF OSExit, Exit, ProcessOK, ReleasedInv
<1> QED
  BY <1>1, <1>2, <1>3, <1>4 DEF Stop

LEMMA ProcessStep == ProcessOK /\ [Next]_vars => ProcessOK'
<1> SUFFICES ASSUME ProcessOK, [Next]_vars PROVE ProcessOK'
  OBVIOUS
<1>1. CASE NewDriver \/ Signal
  BY <1>1 DEF NewDriver, Signal, ProcessOK, ReleasedInv
<1>2. CASE Fatal
  BY <1>2 DEF Fatal, Exit, ProcessOK, ReleasedInv
<1>3. CASE Restart
  <2>1. grace' \in 0 .. WebGrace
    BY <1>3, Constants DEF Restart
  <2> QED
    BY <1>3, <2>1 DEF Restart, ProcessOK, ReleasedInv
<1>4. CASE Stop
  BY <1>4, StopStepProcess
<1>5. CASE WebRequest
  <2>1. busy' \in BOOLEAN
    BY <1>5 DEF WebRequest
  <2> QED
    BY <1>5, <2>1 DEF WebRequest, ProcessOK, ReleasedInv
<1>6. CASE Elapse
  <2>1. grace' \in 0 .. WebGrace
    BY <1>6, Constants DEF Elapse, ProcessOK
  <2> QED
    BY <1>6, <2>1 DEF Elapse, ProcessOK, ReleasedInv
<1>7. ASSUME NEW c \in Callers, Begin(c) \/ Proceed(c) PROVE ProcessOK'
  <2>1. UNCHANGED process
    BY <1>7 DEF Begin, Proceed, Fetch, Refused, Login, Acquire, Load, Decrypt
  <2> QED
    BY <2>1 DEF process, ProcessOK, ReleasedInv
<1>8. CASE UNCHANGED vars
  BY <1>8 DEF vars, process, ProcessOK, ReleasedInv
<1> QED
  BY <1>1, <1>2, <1>3, <1>4, <1>5, <1>6, <1>7, <1>8 DEF Next

-----------------------------------------------------------------------------
(***************************************************************************)
(* The calls.  What has to be shown of one call, and of a step that moves  *)
(* one and leaves the others alone.                                        *)
(***************************************************************************)
Waiting(v) == v.pc = "mutex"

\* What the invariants say of one call alone.
Sound(v) == /\ v.wait <= v.age
            /\ v.pc \in {"auth", "mutex"} => v.age < v.wait + Deadline
            /\ v.pc = "auth" => v.wait <= AuthWait
            /\ v.pc = "mutex" => v.wait <= Deadline + v.passed * Deadline
            /\ v.age <= IF v.pc \in {"auth", "login"} THEN Deadline + AuthWait
                        ELSE (2 + Passes) * Deadline

LEMMA AllSound == CallsOK => \A c \in Callers : call[c] \in CallState /\ Sound(call[c])
  BY DEF CallsOK, CallsTyped, CallInv, WaitInv, AnswerInTime, Sound, At

\* And what they say of the one that makes the client.
LEMMA Together ==
    ASSUME CallsTyped', LockOK', \A c \in Callers : Sound(call'[c]),
           \A c \in Callers : Loading(c)' => clients' = 0,
           \A c, d \in Callers : Waiting(call'[c]) /\ Loading(d)' =>
               call'[c].wait <= call'[d].age + call'[c].passed * Deadline
    PROVE  CallsOK'
<1>1. CallInv' /\ AnswerInTime'
  BY DEF CallInv, AnswerInTime, Sound, At, Loading
<1>2. WaitInv'
  BY DEF WaitInv, Sound, At, Loading, Waiting
<1> QED
  BY <1>1, <1>2 DEF CallsOK

\* A call that neither takes the mutex nor gives it back.
LEMMA Moves ==
    ASSUME CallsOK, NEW c \in Callers, ~Loading(c),
           NEW v \in CallState, v.pc # "load", Sound(v), Waiting(v) => v.wait = 0,
           call' = [call EXCEPT ![c] = v], UNCHANGED <<locked, clients>>
    PROVE  CallsOK'
<1>0. CallsTyped /\ LockOK /\ CallInv /\ WaitInv
  BY DEF CallsOK
<1>1. /\ call' \in [Callers -> CallState] /\ call'[c] = v
      /\ \A d \in Callers \ {c} : call'[d] = call[d]
  BY <1>0 DEF CallsTyped
<1>2. \A d \in Callers : Loading(d)' <=> Loading(d)
  BY <1>1 DEF Loading
<1>3. CallsTyped' /\ LockOK'
  BY <1>0, <1>1, <1>2 DEF CallsTyped, LockOK
<1>4. \A d \in Callers : Sound(call'[d])
  BY <1>1, AllSound
<1>5. \A d \in Callers : Loading(d)' => clients' = 0
  BY <1>0, <1>2 DEF CallInv, At, Loading
<1>6. ASSUME NEW w \in Callers, NEW d \in Callers, Waiting(call'[w]), Loading(d)'
      PROVE  call'[w].wait <= call'[d].age + call'[w].passed * Deadline
  <2>1. call'[d] = call[d] /\ Loading(d)
    BY <1>1, <1>2, <1>6 DEF Loading
  <2>2. CASE w = c
    BY <1>1, <1>6, <2>2, Fields DEF CallsTyped
  <2>3. CASE w # c
    BY <1>0, <1>1, <1>6, <2>1, <2>3 DEF WaitInv, At, Loading, Waiting
  <2> QED
    BY <2>2, <2>3
<1> QED
  BY <1>3, <1>4, <1>5, <1>6, Together

\* The one that makes the client gives the mutex back.
LEMMA GivesBack ==
    ASSUME CallsOK, NEW c \in Callers, Loading(c),
           NEW v \in CallState, v.pc \notin {"load", "mutex"}, Sound(v),
           call' = [call EXCEPT ![c] = v], locked' = FALSE, clients' \in {0, 1}
    PROVE  CallsOK'
<1>0. CallsTyped /\ LockOK
  BY DEF CallsOK
<1>1. /\ call' \in [Callers -> CallState] /\ call'[c] = v
      /\ \A d \in Callers \ {c} : call'[d] = call[d]
  BY <1>0 DEF CallsTyped
<1>2. \A d \in Callers : ~Loading(d)'
  BY <1>0, <1>1 DEF Loading, LockOK
<1>3. CallsTyped' /\ LockOK'
  BY <1>0, <1>1, <1>2 DEF CallsTyped, LockOK
<1>4. \A d \in Callers : Sound(call'[d])
  BY <1>1, AllSound
<1> QED
  BY <1>2, <1>3, <1>4, Together

\* A call that takes the mutex: those it passes have waited no longer than the
\* deadlines of those before it.
LEMMA Takes ==
    ASSUME CallsOK, NEW c \in Callers, Acquire(c)
    PROVE  CallsOK'
<1>0. /\ CallsTyped /\ LockOK /\ CallInv
      /\ \A d \in Callers : call[d] \in CallState /\ Sound(call[d]) /\ ~Loading(d)
      /\ call[c].pc = "mutex"
  BY AllSound DEF CallsOK, Acquire, MayTake, LockOK, At
<1>1. PICK to \in {"decrypt", "load"} :
         /\ to = "load" <=> clients = 0
         /\ Take(c, to)
         /\ locked' \in BOOLEAN /\ (locked' <=> clients = 0)
         /\ clients' = clients
  <2>1. clients \in {0, 1} /\ locked \in BOOLEAN /\ ~locked /\ clients' = clients
    BY <1>0 DEF Acquire, MayTake, CallsTyped
  <2>2. CASE clients = 1
    <3>1. Take(c, "decrypt") /\ UNCHANGED locked
      BY <2>2 DEF Acquire
    <3> QED
      BY <2>1, <2>2, <3>1
  <2>3. CASE clients = 0
    <3>1. Take(c, "load") /\ locked' = TRUE
      BY <2>3 DEF Acquire
    <3> QED
      BY <2>1, <2>3, <3>1
  <2> QED
    BY <2>1, <2>2, <2>3
<1>2. /\ call'[c] \in CallState /\ call'[c].pc = to /\ call'[c].age = call[c].age
      /\ Sound(call'[c])
  <2>1. call'[c] = Moved(call[c], to)
    BY <1>1 DEF Take
  <2>2. /\ call'[c] \in CallState /\ call'[c].pc = to /\ call'[c].age = call[c].age
        /\ call'[c].wait = 0 /\ call[c].age \in Nat
    BY <1>0, <2>1, Constants, LateIs DEF Moved, CallState
  <2> QED
    BY <1>0, <2>2 DEF Sound
<1>3. ASSUME NEW d \in Callers, d # c
      PROVE  /\ call'[d] \in CallState /\ call'[d].pc = call[d].pc
             /\ call'[d].age = call[d].age /\ call'[d].wait = call[d].wait
             /\ call'[d].passed * Deadline = call[d].passed * Deadline
                    + IF Overtakes(c, d) THEN Deadline ELSE 0
  <2>0. call[d] \in CallState /\ call[d].passed \in Nat /\ call[d].passed * Deadline \in Nat
    BY <1>0, Fields
  <2>1. CASE Overtakes(c, d)
    <3>1. call'[d] = [call[d] EXCEPT !.passed = call[d].passed + 1]
      BY <1>1, <1>3, <2>1 DEF Take
    <3>2. call[d].passed < Passes
      BY <2>1 DEF Acquire, MayTake
    <3>3. call'[d] \in CallState /\ call'[d].passed = call[d].passed + 1
      BY <2>0, <3>1, <3>2, Constants DEF CallState
    <3> QED
      BY <2>0, <2>1, <3>1, <3>3, Product DEF CallState
  <2>2. CASE ~Overtakes(c, d)
    BY <1>1, <1>3, <2>0, <2>2 DEF Take
  <2> QED
    BY <2>1, <2>2
<1>4. \A d \in Callers : call'[d] \in CallState
  BY <1>2, <1>3
<1>5. CallsTyped'
  <2>1. call' \in [Callers -> CallState]
    BY <1>1, <1>4 DEF Take
  <2> QED
    BY <1>0, <1>1, <2>1 DEF CallsTyped
<1>6. \A d \in Callers : Loading(d)' <=> d = c /\ clients = 0
  <2>1. \A d \in Callers : d # c => ~Loading(d)'
    BY <1>0, <1>3 DEF Loading
  <2>2. Loading(c)' <=> clients = 0
    BY <1>1, <1>2 DEF Loading
  <2> QED
    BY <2>1, <2>2
<1>7. LockOK'
  BY <1>1, <1>6 DEF LockOK
<1>8. ASSUME NEW d \in Callers PROVE Sound(call'[d])
  <2>1. CASE d # c
    <3>1. Sound(call[d]) /\ call[d] \in CallState
      BY <1>0
    <3>2. call'[d].passed * Deadline >= call[d].passed * Deadline
      BY <1>3, <2>1, <3>1, Fields, Constants
    <3>3. call[d].wait \in Nat /\ call'[d].passed * Deadline \in Nat
          /\ call[d].passed * Deadline \in Nat
      BY <1>4, <3>1, Fields
    <3> QED
      BY <1>3, <2>1, <3>1, <3>2, <3>3, Constants DEF Sound
  <2> QED
    BY <1>2, <2>1
<1>9. \A d \in Callers : Loading(d)' => clients' = 0
  BY <1>1, <1>6
<1>10. ASSUME NEW w \in Callers, NEW d \in Callers, Waiting(call'[w]), Loading(d)'
       PROVE  call'[w].wait <= call'[d].age + call'[w].passed * Deadline
  <2>1. d = c /\ w # c /\ call'[d].age = call[c].age /\ call[w].pc = "mutex"
    BY <1>2, <1>3, <1>6, <1>10 DEF Waiting, Loading
  <2>2. /\ call[w].wait \in Nat /\ call[c].age \in Nat /\ call[c].wait \in Nat
        /\ call[w].passed * Deadline \in Nat
    BY <1>0, Fields
  <2>3. CASE Overtakes(c, w)
    <3>1. call[w].wait <= Deadline + call[w].passed * Deadline
      BY <1>0, <2>1 DEF Sound
    <3> QED
      BY <1>3, <2>1, <2>2, <2>3, <3>1, Constants
  <2>4. CASE ~Overtakes(c, w)
    <3>1. call[w].wait <= call[c].wait
      BY <2>1, <2>2, <2>4 DEF Overtakes, At
    <3>2. call[c].wait <= call[c].age
      BY <1>0 DEF Sound
    <3> QED
      BY <1>3, <2>1, <2>2, <2>4, <3>1, <3>2
  <2> QED
    BY <2>3, <2>4
<1> QED
  BY <1>5, <1>7, <1>8, <1>9, <1>10, Together

\* A unit of time passes for a call that is in flight: it is not due.
LEMMA GrowsOlder ==
    ASSUME CallsOK, Elapse, NEW c \in Callers, call[c].pc \notin {"idle", "over"}
    PROVE  /\ call'[c] \in CallState
           /\ call'[c].pc = call[c].pc
           /\ call'[c].age = call[c].age + 1
           /\ call'[c].passed = call[c].passed
           /\ Waiting(call[c]) => call'[c].wait = call[c].wait + 1
           /\ Sound(call'[c])
<1> DEFINE v == call[c]
<1>0. /\ v \in CallState /\ Sound(v) /\ ~Due(c) /\ CallsTyped /\ LockOK /\ WaitInv
      /\ v.age \in Nat /\ v.wait \in Nat /\ v.passed \in Nat
      /\ v.passed * Deadline \in Nat /\ v.passed * Deadline <= Passes * Deadline
      /\ v.wait <= v.age
  BY AllSound, Fields DEF Elapse, CallsOK, Sound
<1>1. call'[c] = [pc     |-> v.pc,
                  age    |-> Grow(v.age),
                  wait   |-> IF v.pc \in {"auth", "mutex"} THEN Grow(v.wait) ELSE 0,
                  passed |-> v.passed]
  BY DEF Elapse, Older
<1>2. CASE v.pc \in {"fetch", "login", "load", "decrypt"}
  <2>1. v.age < Deadline
    BY <1>0, <1>2, Constants DEF Due, ObservesDeadline, At, Expired
  <2>2. v.age < Late
    BY <1>0, <2>1, LateIs, Constants
  <2>3. /\ call'[c].pc = v.pc /\ call'[c].age = v.age + 1 /\ call'[c].wait = 0
        /\ call'[c].passed = v.passed
    BY <1>1, <1>2, <2>2 DEF Grow
  <2>4. call'[c] \in CallState
    BY <1>0, <1>1, <1>2, <2>2, LateIs DEF CallState, Grow
  <2>5. v.age + 1 <= Deadline /\ Deadline <= (2 + Passes) * Deadline
    BY <1>0, <2>1, LateIs, Constants
  <2>6. Sound(call'[c])
    BY <1>0, <1>2, <2>1, <2>3, <2>5, LateIs, Constants DEF Sound
  <2> QED
    BY <1>2, <2>3, <2>4, <2>6 DEF Waiting
<1>3. CASE v.pc = "auth"
  <2>1. v.wait < AuthWait
    BY <1>0, <1>3, Constants DEF Due, At
  <2>2. v.age < v.wait + Deadline
    BY <1>0, <1>3 DEF Sound
  <2>3. v.age < Late /\ v.wait < Late
    BY <1>0, <2>1, <2>2, LateIs, Constants
  <2>4. /\ call'[c].pc = v.pc /\ call'[c].age = v.age + 1 /\ call'[c].wait = v.wait + 1
        /\ call'[c].passed = v.passed
    BY <1>1, <1>3, <2>3 DEF Grow
  <2>5. call'[c] \in CallState
    BY <1>0, <1>1, <1>3, <2>3, LateIs DEF CallState, Grow
  <2>6. Sound(call'[c])
    BY <1>0, <1>3, <2>1, <2>2, <2>4, Constants DEF Sound
  <2> QED
    BY <1>3, <2>4, <2>5, <2>6 DEF Waiting
<1>4. CASE v.pc = "mutex"
  <2>1. v.age < v.wait + Deadline
    BY <1>0, <1>4 DEF Sound
  <2>2. PICK d \in Callers : Loading(d) /\ call[d].age < Deadline /\ call[d].age \in Nat
    <3>1. locked
      BY <1>0, <1>4 DEF Due, At, CallsTyped
    <3>2. PICK d \in Callers : Loading(d)
      BY <1>0, <3>1 DEF LockOK
    <3>3. call[d] \in CallState /\ call[d].age \in Nat /\ ~Due(d)
      BY <3>2, AllSound, Fields DEF Elapse
    <3>4. call[d].age < Deadline
      BY <3>2, <3>3, Constants DEF Due, ObservesDeadline, At, Expired, Loading
    <3> QED
      BY <3>2, <3>3, <3>4
  <2>3. v.wait <= call[d].age + v.passed * Deadline
    BY <1>0, <1>4, <2>2 DEF WaitInv, At, Loading
  <2>4. v.wait + 1 <= Deadline + v.passed * Deadline
    BY <1>0, <2>2, <2>3, Constants
  <2>5. v.age + 1 <= (2 + Passes) * Deadline
    BY <1>0, <2>1, <2>4, LateIs, Constants
  <2>6. v.age < Late /\ v.wait < Late
    BY <1>0, <2>5, LateIs, Constants
  <2>7. /\ call'[c].pc = v.pc /\ call'[c].age = v.age + 1 /\ call'[c].wait = v.wait + 1
        /\ call'[c].passed = v.passed
    BY <1>1, <1>4, <2>6 DEF Grow
  <2>8. call'[c] \in CallState
    BY <1>0, <1>1, <1>4, <2>6, LateIs DEF CallState, Grow
  <2>9. Sound(call'[c])
    BY <1>0, <1>4, <2>1, <2>4, <2>5, <2>7, Constants DEF Sound
  <2> QED
    BY <1>4, <2>7, <2>8, <2>9 DEF Waiting
<1> QED
  BY <1>0, <1>2, <1>3, <1>4 DEF CallState

LEMMA TimePasses ==
    ASSUME CallsOK, Elapse
    PROVE  CallsOK'
<1>0. CallsTyped /\ LockOK /\ CallInv /\ WaitInv /\ UNCHANGED <<locked, clients>>
  BY DEF CallsOK, Elapse
<1>1. ASSUME NEW c \in Callers, call[c].pc \in {"idle", "over"}
      PROVE  call'[c] \in CallState /\ call'[c].pc = "idle" /\ Sound(call'[c])
  <2>1. call'[c] = Idle
    BY <1>1 DEF Elapse, Older
  <2> QED
    BY <2>1, NewTyped, Constants, LateIs DEF Sound, Idle, New
<1>2. \A c \in Callers : call'[c] \in CallState /\ Sound(call'[c])
  BY <1>1, GrowsOlder
<1>3. \A c \in Callers : /\ Loading(c)' <=> Loading(c)
                         /\ Waiting(call'[c]) <=> Waiting(call[c])
  BY <1>1, GrowsOlder DEF Loading, Waiting
<1>4. CallsTyped' /\ LockOK'
  <2>1. call' = [c \in Callers |-> call'[c]]
    BY DEF Elapse
  <2>2. call' \in [Callers -> CallState]
    BY <1>2, <2>1
  <2> QED
    BY <1>0, <1>3, <2>2 DEF CallsTyped, LockOK
<1>5. \A c \in Callers : Loading(c)' => clients' = 0
  BY <1>0, <1>3 DEF CallInv, At, Loading
<1>6. ASSUME NEW w \in Callers, NEW d \in Callers, Waiting(call'[w]), Loading(d)'
      PROVE  call'[w].wait <= call'[d].age + call'[w].passed * Deadline
  <2>1. Waiting(call[w]) /\ Loading(d)
    BY <1>3, <1>6
  <2>2. /\ call'[w].wait = call[w].wait + 1 /\ call'[w].passed = call[w].passed
        /\ call'[d].age = call[d].age + 1
    BY <2>1, GrowsOlder DEF Waiting, Loading
  <2>3. call[w].wait <= call[d].age + call[w].passed * Deadline
    BY <1>0, <2>1 DEF WaitInv, At, Waiting, Loading
  <2>4. /\ call[w].wait \in Nat /\ call[d].age \in Nat /\ call[w].passed * Deadline \in Nat
    BY Fields, AllSound
  <2> QED
    BY <2>2, <2>3, <2>4
<1> QED
  BY <1>2, <1>4, <1>5, <1>6, Together

\* A call goes on.
LEMMA MovedTo ==
    ASSUME NEW v \in CallState, Sound(v),
           NEW pc \in {"auth", "login", "mutex", "load", "decrypt"},
           pc \in {"auth", "mutex"} => v.age < Deadline,
           v.pc = "auth" <=> pc = "login",
           v.pc = "login" => pc = "mutex"
    PROVE  /\ Moved(v, pc) \in CallState /\ Moved(v, pc).pc = pc
           /\ Moved(v, pc).wait = 0 /\ Sound(Moved(v, pc))
<1>1. /\ Moved(v, pc) \in CallState /\ Moved(v, pc).pc = pc
      /\ Moved(v, pc).wait = 0 /\ Moved(v, pc).passed = 0 /\ Moved(v, pc).age = v.age
  BY Constants, LateIs DEF Moved, CallState
<1>2. /\ v.age \in Nat /\ v.wait \in Nat
  BY Fields
<1>3. Deadline <= (2 + Passes) * Deadline
  BY LateIs, Constants
<1>4. v.age <= IF pc \in {"auth", "login"} THEN Deadline + AuthWait ELSE (2 + Passes) * Deadline
  <2>1. CASE v.pc = "auth"
    BY <2>1 DEF Sound
  <2>2. CASE v.pc = "login" \/ pc \in {"auth", "mutex"}
    BY <1>2, <1>3, <2>2, Constants
  <2>3. CASE v.pc \notin {"auth", "login"} /\ pc \notin {"auth", "login", "mutex"}
    BY <2>3 DEF Sound
  <2> QED
    BY <2>1, <2>2, <2>3
<1>5. Sound(Moved(v, pc))
  <2> HIDE DEF Moved
  <2>1. 0 * Deadline = 0
    BY Constants
  <2> QED
    BY <1>1, <1>2, <1>4, <2>1, Constants DEF Sound
<1> QED
  BY <1>1, <1>5

LEMMA ProceedCalls ==
    ASSUME CallsOK, NEW c \in Callers, Proceed(c)
    PROVE  CallsOK'
<1> DEFINE v == call[c]
<1>0. /\ CallsTyped /\ LockOK /\ CallInv /\ v \in CallState /\ Sound(v)
      /\ v.age \in Nat /\ clients \in {0, 1}
  BY AllSound, Fields DEF CallsOK, CallsTyped
<1>1. New("over") \in CallState /\ New("over").pc = "over" /\ Sound(New("over"))
  BY NewTyped, LateIs, Constants DEF New, Sound
<1>2. ~Expired(c) => v.age < Deadline
  BY <1>0, Constants DEF Expired
<1>3. CASE Fetch(c)
  <2>0. v.pc \in {"fetch", "login"} /\ ~Loading(c)
    BY <1>3 DEF Fetch, At, Loading
  <2>1. CASE Answer(c)
    BY <1>1, <1>3, <2>0, <2>1, Moves DEF Fetch, Answer, Waiting
  <2>2. CASE ~Expired(c) /\ Goto(c, "mutex")
    <3>1. call' = [call EXCEPT ![c] = Moved(v, "mutex")]
      BY <2>2 DEF Goto
    <3>2. /\ Moved(v, "mutex") \in CallState /\ Moved(v, "mutex").pc = "mutex"
          /\ Moved(v, "mutex").wait = 0 /\ Sound(Moved(v, "mutex"))
      BY <1>0, <1>2, <2>0, <2>2, MovedTo
    <3> QED
      BY <1>3, <2>0, <3>1, <3>2, Moves DEF Fetch
  <2> QED
    BY <1>3, <2>1, <2>2 DEF Fetch
<1>4. CASE Refused(c)
  <2>0. v.pc = "fetch" /\ ~Loading(c) /\ v.age < Deadline
    BY <1>2, <1>4 DEF Refused, At, Loading
  <2>1. call' = [call EXCEPT ![c] = Moved(v, "auth")]
    BY <1>4 DEF Refused, Goto
  <2>2. /\ Moved(v, "auth") \in CallState /\ Moved(v, "auth").pc = "auth"
        /\ Sound(Moved(v, "auth"))
    BY <1>0, <2>0, MovedTo
  <2> QED
    BY <1>4, <2>0, <2>1, <2>2, Moves DEF Refused, Waiting
<1>5. CASE Login(c)
  <2>0. v.pc = "auth" /\ ~Loading(c)
    BY <1>5 DEF Login, At, Loading
  <2>1. call' = [call EXCEPT ![c] = Moved(v, "login")]
    BY <1>5 DEF Login, Goto
  <2>2. /\ Moved(v, "login") \in CallState /\ Moved(v, "login").pc = "login"
        /\ Sound(Moved(v, "login"))
    BY <1>0, <2>0, MovedTo
  <2> QED
    BY <1>5, <2>0, <2>1, <2>2, Moves DEF Login, Waiting
<1>6. CASE Acquire(c)
  BY <1>6, Takes
<1>7. CASE Load(c)
  <2>0. Loading(c) /\ clients = 0 /\ locked' = FALSE
    BY <1>0, <1>7 DEF Load, At, Loading, CallInv
  <2>1. CASE Goto(c, "decrypt") /\ clients' = IF clients < 2 THEN clients + 1 ELSE 2
    <3>1. call' = [call EXCEPT ![c] = Moved(v, "decrypt")] /\ clients' \in {0, 1}
      BY <2>0, <2>1 DEF Goto
    <3>2. /\ Moved(v, "decrypt") \in CallState /\ Moved(v, "decrypt").pc = "decrypt"
          /\ Sound(Moved(v, "decrypt"))
      BY <1>0, <2>0, MovedTo DEF Loading
    <3> QED
      BY <2>0, <3>1, <3>2, GivesBack
  <2>2. CASE Answer(c) /\ UNCHANGED clients
    BY <1>0, <1>1, <2>0, <2>2, GivesBack DEF Answer
  <2> QED
    BY <1>7, <2>1, <2>2 DEF Load
<1>8. CASE Decrypt(c)
  <2>1. ~Loading(c)
    BY <1>8 DEF Decrypt, At, Loading
  <2> QED
    BY <1>1, <1>8, <2>1, Moves DEF Decrypt, Answer, Waiting
<1> QED
  BY <1>3, <1>4, <1>5, <1>6, <1>7, <1>8 DEF Proceed

LEMMA CallsStep == CallsOK /\ [Next]_vars => CallsOK'
<1> SUFFICES ASSUME CallsOK, [Next]_vars PROVE CallsOK'
  OBVIOUS
<1>0. clients \in {0, 1}
  BY DEF CallsOK, CallsTyped
<1>1. CASE UNCHANGED <<call, locked, clients>>
  BY <1>1 DEF CallsOK, CallsTyped, LockOK, Loading, CallInv, WaitInv, AnswerInTime, At
<1>2. CASE Fatal \/ OSExit
  BY <1>0, <1>2, AllIdle DEF Fatal, OSExit, Exit
<1>3. CASE Restart
  <2>1. \A c \in Callers : call[c].pc = "load" => clients = 0
    BY DEF CallsOK, CallInv, At
  <2> QED
    BY <1>3, Constants
       DEF Restart, CallsOK, CallsTyped, LockOK, Loading, CallInv, WaitInv, AnswerInTime, At
<1>4. CASE Elapse
  BY <1>4, TimePasses
<1>5. ASSUME NEW c \in Callers, Begin(c) PROVE CallsOK'
  <2>1. New("fetch") \in CallState /\ New("fetch").pc = "fetch" /\ Sound(New("fetch"))
    BY NewTyped, LateIs, Constants DEF New, Sound
  <2>2. ~Loading(c) /\ call' = [call EXCEPT ![c] = New("fetch")]
    BY <1>5, NewTyped DEF Begin, Loading
  <2> QED
    BY <1>5, <2>1, <2>2, Moves DEF Begin, Waiting
<1>6. ASSUME NEW c \in Callers, Proceed(c) PROVE CallsOK'
  BY <1>6, ProceedCalls
<1>7. CASE NewDriver \/ Signal \/ WebRequest \/ UNCHANGED vars
  BY <1>1, <1>7 DEF NewDriver, Signal, WebRequest, vars
<1>8. CASE Stop
  <2>1. CASE CancelRotation \/ StopMonitor \/ StopWeb \/ CloseProvider \/ CloseDocker
    BY <1>1, <2>1
       DEF CancelRotation, StopMonitor, StopWeb, CloseProvider, CloseDocker, StopStep
  <2> QED
    BY <1>2, <1>8, <2>1 DEF Stop
<1> QED
  BY <1>2, <1>3, <1>4, <1>5, <1>6, <1>7, <1>8 DEF Next

-----------------------------------------------------------------------------
LEMMA Invariant == Spec => [](ProcessOK /\ CallsOK)
<1>1. Init => ProcessOK /\ CallsOK
  BY ProcessInit, CallsInit
<1>2. ProcessOK /\ CallsOK /\ [Next]_vars => ProcessOK' /\ CallsOK'
  BY ProcessStep, CallsStep
<1> QED
  BY <1>1, <1>2, PTL DEF Spec

\* The types, and: t.mu is locked for as long as a call makes the client, and at
\* most one does (aws_kms.go:73-91).
THEOREM TypeCorrect == Spec => []TypeOK
<1>1. ProcessOK /\ CallsOK => TypeOK
  <2> SUFFICES ASSUME ProcessOK, CallsOK PROVE TypeOK
    OBVIOUS
  <2>1. /\ \A c \in Callers : At(c, {"load"}) => locked
        /\ locked => \E c \in Callers : \A d \in Callers : At(d, {"load"}) <=> d = c
    BY DEF CallsOK, LockOK, Loading, At
  <2> QED
    BY <2>1 DEF ProcessOK, CallsOK, CallsTyped, CallState, TypeOK
<1> QED
  BY <1>1, Invariant, PTL

\* However many calls need the KMS client at once, whichever of them fail to
\* make it, a process makes one (aws_kms.go:73-91).
THEOREM ClientMadeOnce == Spec => []OneClient
<1>1. CallsOK => OneClient
  BY DEF CallsOK, CallsTyped, OneClient
<1> QED
  BY <1>1, Invariant, PTL

\* However many calls wait for the client, and whatever the deadline, none lasts
\* longer than twice that and once more for every later call that sync.Mutex lets
\* pass; one that Vault refused, no longer than its deadline and the wait for
\* authMu (driver.go:167, aws_kms.go:73-91, backend.go:107-113, 332-337).
THEOREM AnsweredInTime == Spec => []AnswerInTime
<1>1. CallsOK => AnswerInTime
  BY DEF CallsOK
<1> QED
  BY <1>1, Invariant, PTL

\* The process does not exit for a signal with a part of it unreleased
\* (main.go:49-56, driver.go:572-598).
THEOREM AllReleased == Spec => []ExitReleasesAll
<1>1. ProcessOK => ExitReleasesAll
  BY DEF ProcessOK, ReleasedInv, Parts, ExitReleasesAll
<1> QED
  BY <1>1, Invariant, PTL

=============================================================================
