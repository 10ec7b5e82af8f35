--------------------------- MODULE PluginProcess ---------------------------
(***************************************************************************)
(* The life of the plugin's process (main.go, NewDriver and Stop of        *)
(* driver.go) around the calls it serves: the Gets of Swarm and the        *)
(* rotations.  Each has a deadline, which the provider and AWS observe but *)
(* a wait for a mutex does not.  There are two: that of aws_kms.go, under  *)
(* which the first call that needs it makes the KMS client while others    *)
(* wait, and authMu of the Vault and OpenBao backend (VaultBackend.tla).   *)
(*                                                                         *)
(* sync.Mutex does not keep the order in which calls come: a new one may   *)
(* take a free mutex before one that was woken for it.  One that has       *)
(* waited for 1 ms and loses so is handed the mutex the next time.         *)
(***************************************************************************)
EXTENDS Integers

CONSTANTS
    Callers,    \* the calls that may be in flight at once
    Deadline,   \* of a call: 30 s in the code
    AuthWait,   \* how long a fetch may wait for authMu: it is held by calls with
                \* a deadline, and by the worker, whose calls have none
    Passes,     \* how often later calls may take t.mu before one that waits: once,
                \* and again when they spin for it at the instant it is unlocked
    WebGrace    \* what WebInterface.Stop gives requests to end: 5 s in the code

ASSUME TimeAssumption == /\ Deadline \in Nat \ {0}
                         /\ AuthWait \in Nat
                         /\ Passes \in Nat
                         /\ WebGrace \in Nat

Late == (2 + Passes) * Deadline + AuthWait + 1  \* times are not told apart from here on

Parts == {"rotation", "monitor", "web", "provider", "docker"}

VARIABLES
    monitoring, \* ENABLE_MONITORING
    main,       \* main: "starting", "serving", "exited"
    stopper,    \* the goroutine that waits for a signal: what it does next
    grace,      \* the time Shutdown has left
    busy,       \* a client of the web interface is being answered
    released,   \* the parts Stop has released
    call,       \* call[c]: where it is, its age, how long it has been waiting for
                \* a mutex, and how many calls that came later took it before
    locked,     \* t.mu
    clients     \* the KMS clients made, at most two told apart

process == <<monitoring, main, stopper, grace, busy, released>>
vars    == <<monitoring, main, stopper, grace, busy, released, call, locked, clients>>

New(pc) == [pc |-> pc, age |-> 0, wait |-> 0, passed |-> 0]
Idle    == New("idle")

Started == /\ main = "starting"
           /\ stopper = "none"
           /\ grace = 0
           /\ busy = FALSE
           /\ released = {}
           /\ call = [c \in Callers |-> Idle]
           /\ locked = FALSE
           /\ clients = 0

Init == /\ monitoring \in BOOLEAN
        /\ Started

Running == main # "exited"

Exit == /\ main' = "exited"
        /\ call' = [c \in Callers |-> Idle]
        /\ locked' = FALSE
        /\ busy' = FALSE

-----------------------------------------------------------------------------
(***************************************************************************)
(* main.                                                                   *)
(***************************************************************************)
NewDriver == /\ main = "starting"
             /\ main' = "serving"
             /\ stopper' = "waiting"
             /\ UNCHANGED <<monitoring, grace, busy, released, call, locked, clients>>

\* NewDriver fails or, before signal.Notify, a signal comes; later on, the
\* socket fails: the process ends and nothing is released.
Fatal == /\ Running
         /\ Exit
         /\ UNCHANGED <<monitoring, stopper, grace, released, clients>>

\* One signal starts Stop; Notify swallows those that follow.
Signal == /\ Running
          /\ stopper = "waiting"
          /\ stopper' = "cancel"
          /\ UNCHANGED <<monitoring, main, grace, busy, released, call, locked, clients>>

\* Docker starts the plugin's process again.
Restart == /\ main = "exited"
           /\ main' = "starting"
           /\ stopper' = "none"
           /\ grace' = 0
           /\ released' = {}
           /\ clients' = 0
           /\ UNCHANGED <<monitoring, busy, call, locked>>

-----------------------------------------------------------------------------
(***************************************************************************)
(* driver.Stop.  A part that was never started is skipped; one that fails  *)
(* to stop is logged, and the next one is released all the same.           *)
(***************************************************************************)
StopStep(at, part, next) ==
    /\ Running
    /\ stopper = at
    /\ stopper' = next
    /\ released' = released \cup {part}
    /\ UNCHANGED <<monitoring, main, busy, call, locked, clients>>

CancelRotation == StopStep("cancel", "rotation", "monitor") /\ UNCHANGED grace
StopMonitor    == StopStep("monitor", "monitor", "web") /\ grace' = WebGrace

\* Shutdown waits for the requests that are being answered, for so long.
StopWebForever == /\ monitoring => ~busy
                  /\ StopStep("web", "web", "provider")
                  /\ UNCHANGED grace
StopWebOrReturn ==
    /\ monitoring => ~busy \/ grace = 0
    /\ StopStep("web", "web", IF monitoring /\ busy THEN "exit" ELSE "provider")
    /\ UNCHANGED grace
StopWeb        == /\ monitoring => ~busy \/ grace = 0
                  /\ StopStep("web", "web", "provider")
                  /\ UNCHANGED grace
CloseProvider  == StopStep("provider", "provider", "docker") /\ UNCHANGED grace
CloseDocker    == StopStep("docker", "docker", "exit") /\ UNCHANGED grace
OSExit         == /\ Running
                  /\ stopper = "exit"
                  /\ Exit
                  /\ UNCHANGED <<monitoring, stopper, grace, released, clients>>

Stop == \/ CancelRotation \/ StopMonitor \/ StopWeb
        \/ CloseProvider \/ CloseDocker \/ OSExit

\* The server has no write timeout: a client may take for ever to read.
WebRequest == /\ main = "serving"
              /\ monitoring
              /\ IF busy THEN busy' = FALSE ELSE "web" \notin released /\ busy' = TRUE
              /\ UNCHANGED <<monitoring, main, stopper, grace, released, call, locked, clients>>

-----------------------------------------------------------------------------
(***************************************************************************)
(* Calls: the provider, then, for a secret with the label, AWS KMS.        *)
(***************************************************************************)
At(c, pcs)   == call[c].pc \in pcs
Moved(v, pc) == [pc |-> pc, age |-> v.age, wait |-> 0, passed |-> 0]
Goto(c, pc)  == call' = [call EXCEPT ![c] = Moved(@, pc)]
Answer(c)    == call' = [call EXCEPT ![c] = New("over")]
Expired(c)   == call[c].age >= Deadline

\* A caller lets time pass between two calls: there are not infinitely many of
\* them at one instant.
Begin(c) == /\ main = "serving"
            /\ call[c] = Idle
            /\ call' = [call EXCEPT ![c] = New("fetch")]
            /\ UNCHANGED <<process, locked, clients>>

\* The value, in time or not at all; without the label it needs no KMS.
Fetch(c) == /\ At(c, {"fetch", "login"})
            /\ \/ Answer(c)
               \/ ~Expired(c) /\ Goto(c, "mutex")
            /\ UNCHANGED <<process, locked, clients>>

\* Vault refuses the token: reauthenticate waits for authMu, then logs in and
\* reads again, with what is left of the deadline.
Refused(c) == /\ At(c, {"fetch"})
              /\ ~Expired(c)
              /\ Goto(c, "auth")
              /\ UNCHANGED <<process, locked, clients>>
Login(c)   == /\ At(c, {"auth"})
              /\ Goto(c, "login")
              /\ UNCHANGED <<process, locked, clients>>

\* decryptClient: t.mu.Lock().  Those that came within one unit of time take it
\* in any order; a later one may pass those that have waited.
Overtakes(c, d) == At(d, {"mutex"}) /\ call[d].wait > call[c].wait
MayTake(c) == /\ At(c, {"mutex"})
              /\ ~locked
              /\ \A d \in Callers : Overtakes(c, d) => call[d].passed < Passes
Take(c, pc) == call' = [d \in Callers |->
                   IF d = c THEN Moved(call[d], pc)
                   ELSE IF Overtakes(c, d) THEN [call[d] EXCEPT !.passed = @ + 1]
                   ELSE call[d]]

AcquireWithoutLooking(c) ==
    /\ MayTake(c)
    /\ Take(c, "load")
    /\ locked' = TRUE
    /\ UNCHANGED <<process, clients>>
Acquire(c) == /\ MayTake(c)
              /\ IF clients > 0 THEN Take(c, "decrypt") /\ UNCHANGED locked
                 ELSE Take(c, "load") /\ locked' = TRUE
              /\ UNCHANGED <<process, clients>>

\* loadAWSConfig, which may or may not need the time a call has left; when it
\* fails, the next call tries again.
LoadLeavesLocked(c) ==
    /\ At(c, {"load"})
    /\ \/ Goto(c, "decrypt") /\ clients' = clients + 1 /\ locked' = FALSE
       \/ Answer(c) /\ UNCHANGED <<clients, locked>>
    /\ UNCHANGED process
Load(c) == /\ At(c, {"load"})
           /\ \/ Goto(c, "decrypt") /\ clients' = IF clients < 2 THEN clients + 1 ELSE 2
              \/ Answer(c) /\ UNCHANGED clients
           /\ locked' = FALSE
           /\ UNCHANGED process

Decrypt(c) == /\ At(c, {"decrypt"})
              /\ Answer(c)
              /\ UNCHANGED <<process, locked, clients>>

\* Those that look at their context give up at the deadline: no time passes for
\* them after it, nor for those that wait for a mutex that is free.
ObserveUnlessLoading(c) == At(c, {"fetch", "login", "decrypt"})
ObservesDeadline(c) == At(c, {"fetch", "login", "load", "decrypt"})

Due(c) == \/ ObservesDeadline(c) /\ Expired(c)
          \/ At(c, {"auth"}) /\ call[c].wait >= AuthWait
          \/ At(c, {"mutex"}) /\ ~locked

Grow(n) == IF n < Late THEN n + 1 ELSE Late

Older(v) == IF v.pc \in {"idle", "over"} THEN Idle
            ELSE [pc     |-> v.pc,
                  age    |-> Grow(v.age),
                  wait   |-> IF v.pc \in {"auth", "mutex"} THEN Grow(v.wait) ELSE 0,
                  passed |-> v.passed]

Elapse == /\ Running
          /\ \A c \in Callers : ~Due(c)
          /\ stopper = "web" /\ monitoring => grace > 0
          /\ grace' = IF grace > 0 THEN grace - 1 ELSE 0
          /\ call' = [c \in Callers |-> Older(call[c])]
          /\ UNCHANGED <<monitoring, main, stopper, busy, released, locked, clients>>

-----------------------------------------------------------------------------
Proceed(c) == Fetch(c) \/ Refused(c) \/ Login(c) \/ Acquire(c) \/ Load(c) \/ Decrypt(c)

Next == \/ NewDriver \/ Fatal \/ Signal \/ Restart \/ Stop \/ WebRequest \/ Elapse
        \/ \E c \in Callers : Begin(c) \/ Proceed(c)

Spec == Init /\ [][Next]_vars

\* Stop goes on and time passes, so that deadlines come; nothing obliges the
\* clients of the web interface, or a call before its deadline.
FairSpec == /\ Spec
            /\ WF_vars(Stop)
            /\ WF_vars(Elapse)
            /\ \A c \in Callers : WF_vars(Due(c) /\ Proceed(c))

-----------------------------------------------------------------------------
\* The types, and: t.mu is locked for as long as a call makes the client, and at
\* most one does.
TypeOK == /\ monitoring \in BOOLEAN
          /\ main \in {"starting", "serving", "exited"}
          /\ stopper \in {"none", "waiting", "cancel", "monitor", "web", "provider",
                          "docker", "exit"}
          /\ grace \in 0 .. WebGrace
          /\ busy \in BOOLEAN
          /\ released \subseteq Parts
          /\ call \in [Callers -> [pc : {"idle", "over", "fetch", "auth", "login", "mutex",
                                         "load", "decrypt"},
                                   age : 0 .. Late, wait : 0 .. Late, passed : 0 .. Passes]]
          /\ locked \in BOOLEAN
          /\ \A c \in Callers : At(c, {"load"}) => locked
          /\ locked => \E c \in Callers : \A d \in Callers : At(d, {"load"}) <=> d = c
          /\ clients \in 0 .. 2

\* However long AWS takes, a call is over after twice its deadline, and once more
\* for every later call that was let in before it: nobody starts to wait after
\* its deadline, and whoever makes the client gives up at its own.  Only Vault's
\* login can take longer, by the wait for authMu.
AnswerInTime == \A c \in Callers :
    call[c].age <= IF At(c, {"auth", "login"}) THEN Deadline + AuthWait
                   ELSE (2 + Passes) * Deadline

\* The calls that need the client at the same time make one, whatever failed
\* before.
OneClient == clients <= 1

\* When the process exits for a signal, every part has been released, also
\* those that come after one that would not stop.
ExitReleasesAll == main = "exited" /\ stopper = "exit" => released = Parts

\* A signal ends the process, whoever reads the web interface and whatever
\* calls are in flight.
StopEnds == stopper = "cancel" ~> main = "exited"


-----------------------------------------------------------------------------
(***************************************************************************)
(* The inductive invariants behind them.                                   *)
(***************************************************************************)
\* The client is made when there is none, and those who wait for a mutex came to
\* it before their deadline.
CallInv == \A c \in Callers :
    /\ At(c, {"load"}) => clients = 0
    /\ call[c].wait <= call[c].age
    /\ At(c, {"auth", "mutex"}) => call[c].age < call[c].wait + Deadline
    /\ At(c, {"auth"}) => call[c].wait <= AuthWait

\* Each holder makes one wait for as long as it is old, and those that passed
\* made it wait for a deadline each.
WaitInv == \A c \in Callers : At(c, {"mutex"}) =>
    /\ call[c].wait <= Deadline + call[c].passed * Deadline
    /\ \A d \in Callers : At(d, {"load"}) =>
           call[c].wait <= call[d].age + call[c].passed * Deadline

\* Stop goes from part to part and leaves none out.
ReleasedInv ==
    /\ stopper \in {"monitor", "web", "provider", "docker", "exit"} => "rotation" \in released
    /\ stopper \in {"web", "provider", "docker", "exit"} => "monitor" \in released
    /\ stopper \in {"provider", "docker", "exit"} => "web" \in released
    /\ stopper \in {"docker", "exit"} => "provider" \in released
    /\ stopper = "exit" => "docker" \in released

=============================================================================
