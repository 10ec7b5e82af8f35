---------------------------- MODULE VaultBackend ----------------------------
(***************************************************************************)
(* The Vault and OpenBao backend, internal/vaultcompat/backend.go: callers *)
(* of GetSecret read with the client's token and log in again when it is   *)
(* refused, while a background worker renews the token before its lease    *)
(* ends, and Close stops the worker.  A mutex, authMu, orders the logins   *)
(* and the renewals; reads do not take it.                                 *)
(*                                                                         *)
(* Time is counted in units of the leases.  Where the worker is busy, with *)
(* a call or waiting for the mutex, a unit passes only as one of the       *)
(* bounded faults: its calls have no deadline of their own.                *)
(***************************************************************************)
EXTENDS Integers

CONSTANTS
    Readers,        \* concurrent callers of GetSecret
    AuthMethod,     \* config.AuthMethod: "token", "approle" or "jwt"
    MaxTokens,      \* bound: a client token that nobody holds is used again
    LeaseTTLs,      \* the lease durations the server may grant
    Renewables,     \* whether it may grant renewable leases, or others too
    MinDelay,       \* minRenewalDelay
    RetryWait,      \* renewalRetryWait
    RetryMaxWait,   \* renewalRetryMaxWait
    MaxFaults       \* bound: failed and slow calls, and revoked tokens

ASSUME LeaseAssumption == LeaseTTLs \subseteq Nat \ {0} /\ Renewables \subseteq BOOLEAN
ASSUME DelayAssumption == /\ MinDelay \in Nat \ {0}
                          /\ RetryWait \in Nat \ {0}
                          /\ RetryMaxWait \in Nat /\ RetryMaxWait >= RetryWait
                          /\ MaxFaults \in Nat
ASSUME TokenAssumption == MaxTokens \in Nat \ {0}
ASSUME ReaderAssumption == Readers \cap {"worker", "free"} = {}

Tokens      == 1 .. MaxTokens
NoToken     == 0
Auth        == [token : Tokens \cup {NoToken}, renewable : BOOLEAN, ttl : Nat]
NoAuth      == [token |-> NoToken, renewable |-> FALSE, ttl |-> 0]
ReaderState == [pc : {"idle", "read", "denied", "login", "assign", "reread", "again"},
                tok : Tokens \cup {NoToken}]
WorkerState == [pc : {"delay", "wait", "lock", "renew", "login", "assign",
                      "backoff", "done"},
                timer : Nat, retry : Nat,
                lease : Nat, waited : Nat]  \* read by WakesInTime alone

VARIABLES
    client,     \* the token in the vclient: what reads are sent with
    auth,       \* b.auth
    left,       \* left[t]: the time until the server forgets token t
    granted,    \* granted[x]: the answer process x has yet to store in b.auth
    lock,       \* who holds authMu
    reader,     \* the GetSecret calls and the token their request carries
    worker,     \* renewLoop: its place, its timer and its retryWait; and the
                \* lease the timer was set for, how long after its grant
    phase,      \* Close: "open", "closing" (renewCtx is cancelled), "closed"
    faults

vars == <<client, auth, left, granted, lock, reader, worker, phase, faults>>

Processes    == Readers \cup {"worker"}
Fault        == faults < MaxFaults /\ faults' = faults + 1
NoFault      == faults' = faults
Valid(t)     == left[t] > 0
GoneOver(x)  == IF x > 0 THEN x - 1 ELSE 0
NextRetryWaitUncapped(current) == current * 2
NextRetryWait(current) == IF current * 2 > RetryMaxWait THEN RetryMaxWait ELSE current * 2
CanReauthenticate      == AuthMethod \in {"approle", "jwt"}

RenewDelayFull(ttl) == IF ttl < MinDelay THEN MinDelay ELSE ttl

\* Two thirds of the lease, but at least the minimum.
RenewDelay(ttl) == IF (2 * ttl) \div 3 < MinDelay THEN MinDelay ELSE (2 * ttl) \div 3

\* authMu is only ever held by one of them, from Lock to Unlock.
Lock(x)   == lock = "free" /\ lock' = x
Unlock(x) == lock' = "free"

Renewing == auth.renewable /\ auth.ttl > 0

\* New has logged in and starts the worker if the lease can be renewed.
Init == \E ttl \in LeaseTTLs, renewable \in Renewables :
        /\ client = 1
        /\ auth = [token |-> 1, renewable |-> renewable, ttl |-> ttl]
        /\ left = [t \in Tokens |-> IF t = 1 THEN ttl ELSE 0]
        /\ granted = [x \in Processes |-> NoAuth]
        /\ lock = "free"
        /\ reader = [r \in Readers |-> [pc |-> "idle", tok |-> NoToken]]
        /\ worker = [pc |-> IF CanReauthenticate /\ renewable THEN "delay" ELSE "done",
                     timer |-> 0, retry |-> RetryWait, lease |-> 0, waited |-> 0]
        /\ phase = "open"
        /\ faults = 0

-----------------------------------------------------------------------------
(***************************************************************************)
(* Login and renewal, by whoever holds the mutex: the client gets the      *)
(* token first and b.auth follows.                                         *)
(***************************************************************************)
Held == {client, auth.token} \cup {reader[r].tok : r \in Readers}
             \cup {granted[x].token : x \in Processes}
NewToken == CHOOSE t \in Tokens : t \notin Held

\* The server answers a login and authenticate hands the token to the client.
LoginAnswer(x) ==
    \E ttl \in LeaseTTLs, renewable \in Renewables :
       /\ Tokens \ Held # {}
       /\ left' = [left EXCEPT ![NewToken] = ttl]
       /\ granted' = [granted EXCEPT
                        ![x] = [token |-> NewToken, renewable |-> renewable, ttl |-> ttl]]
       /\ client' = NewToken

\* b.auth = auth, and the mutex is released.
Assign(x) == /\ auth' = granted[x]
             /\ granted' = [granted EXCEPT ![x] = NoAuth]
             /\ Unlock(x)

-----------------------------------------------------------------------------
(***************************************************************************)
(* GetSecret.                                                              *)
(***************************************************************************)
To(r, pc) == reader' = [reader EXCEPT ![r] = [pc |-> pc, tok |-> NoToken]]

\* The request leaves with the token the client has now.
Send(r) ==
    /\ \/ reader[r].pc = "idle"   /\ reader' = [reader EXCEPT ![r] = [pc |-> "read", tok |-> client]]
       \/ reader[r].pc = "reread" /\ reader' = [reader EXCEPT ![r] = [pc |-> "again", tok |-> client]]
    /\ UNCHANGED <<client, auth, left, granted, lock, worker, phase, faults>>

\* The server's answer: the secret, a refusal, of an invalid token or of a valid
\* one that may not read the path, or a failure.  Only the first refusal leads to
\* a login.
Answer(r) ==
    /\ reader[r].pc \in {"read", "again"}
    /\ \/ Valid(reader[r].tok) /\ To(r, "idle") /\ NoFault
       \/ /\ To(r, IF reader[r].pc = "read" /\ CanReauthenticate THEN "denied" ELSE "idle")
          /\ NoFault
       \/ Fault /\ To(r, "idle")
    /\ UNCHANGED <<client, auth, left, granted, lock, worker, phase>>

Reauthenticate(r) ==
    /\ reader[r].pc = "denied"
    /\ Lock(r)
    /\ To(r, "login")
    /\ UNCHANGED <<client, auth, left, granted, worker, phase, faults>>

ReaderLoginLeaky(r) ==
    /\ reader[r].pc = "login"
    /\ \/ LoginAnswer(r) /\ NoFault /\ To(r, "assign") /\ UNCHANGED lock
       \/ UNCHANGED <<client, left, granted, lock>> /\ Fault /\ To(r, "idle")
    /\ UNCHANGED <<auth, worker, phase>>

ReaderLogin(r) ==
    /\ reader[r].pc = "login"
    /\ \/ LoginAnswer(r) /\ NoFault /\ To(r, "assign") /\ UNCHANGED lock
       \/ UNCHANGED <<client, left, granted>> /\ Fault /\ To(r, "idle") /\ Unlock(r)
    /\ UNCHANGED <<auth, worker, phase>>

ReaderAssign(r) ==
    /\ reader[r].pc = "assign"
    /\ Assign(r)
    /\ To(r, "reread")
    /\ UNCHANGED <<client, left, worker, phase, faults>>

-----------------------------------------------------------------------------
(***************************************************************************)
(* renewLoop.                                                              *)
(***************************************************************************)
WorkerTo(pc) == worker' = [worker EXCEPT !.pc = pc]
Plan         == worker' = [pc |-> "wait", timer |-> RenewDelay(auth.ttl), retry |-> RetryWait,
                           lease |-> auth.ttl, waited |-> worker.waited]
BackOff(d)   == worker' = [worker EXCEPT !.pc = "backoff", !.timer = d,
                                         !.retry = NextRetryWait(worker.retry)]
Wakes        == worker' = [worker EXCEPT !.pc = "lock", !.lease = 0, !.waited = 0]
StoresNext   == worker' = [worker EXCEPT !.pc = "assign", !.waited = 0]

\* nextRenewDelay; the worker ends when the lease cannot be renewed.
NextDelay ==
    /\ worker.pc = "delay"
    /\ lock = "free"
    /\ IF Renewing THEN Plan ELSE WorkerTo("done")
    /\ UNCHANGED <<client, auth, left, granted, lock, reader, phase, faults>>

StopsBackoff == worker.pc = "backoff" /\ phase # "open" /\ WorkerTo("done")

\* waitForRenewal: the timer fires or renewCtx is done, whichever select takes.
Stops     == worker.pc \in {"wait", "backoff"} /\ phase # "open" /\ WorkerTo("done")
Fires     == worker.pc \in {"wait", "backoff"} /\ worker.timer = 0 /\ Wakes
WaitEnds  == /\ Fires \/ Stops
             /\ UNCHANGED <<client, auth, left, granted, lock, reader, phase, faults>>

AfterFailureEnds == WorkerTo("done")

\* Back off, with up to half as much again, and renew again after that.
AfterFailure == \E jitter \in {0} \cup 0 .. (worker.retry \div 2 - 1) :
                   BackOff(worker.retry + jitter)

\* renewOrReauthenticate takes the mutex.  Under a context that is already
\* cancelled neither the renewal nor the login can succeed.
RenewLock == /\ worker.pc = "lock"
             /\ \/ phase = "open" /\ Lock("worker") /\ WorkerTo("renew")
                \/ phase # "open" /\ lock = "free" /\ UNCHANGED lock /\ AfterFailure
             /\ UNCHANGED <<client, auth, left, granted, reader, phase, faults>>

\* The token named in the answer goes to the client first, and then, with the
\* lease, into b.auth; where the answer names none, b.auth keeps its own.
RenewedClientOnly(token, ttl, renewable) ==
    /\ client' = IF token = NoToken THEN client ELSE token
    /\ granted' = [granted EXCEPT !["worker"] =
                     [token |-> auth.token, renewable |-> renewable, ttl |-> ttl]]
    /\ StoresNext
    /\ UNCHANGED lock

Renewed(token, ttl, renewable) ==
    /\ client' = IF token = NoToken THEN client ELSE token
    /\ granted' = [granted EXCEPT !["worker"] =
                     [token |-> IF token = NoToken THEN auth.token ELSE token,
                      renewable |-> renewable, ttl |-> ttl]]
    /\ StoresNext
    /\ UNCHANGED lock

\* It did not, or the answer was lost: log in, unless the context is cancelled.
NotRenewed == /\ UNCHANGED <<client, granted>>
              /\ IF phase = "open" THEN WorkerTo("login") /\ UNCHANGED lock
                                   ELSE AfterFailure /\ Unlock("worker")

\* The server gives the token a new lease, or a new token in its place.
RenewSelf ==
    /\ worker.pc = "renew"
    /\ \/ \E ttl \in LeaseTTLs, renewable \in Renewables, token \in {NoToken, client, NewToken} :
             /\ Valid(client) /\ auth.renewable
             /\ Tokens \ Held # {}
             /\ left' = [left EXCEPT ![IF token = NoToken THEN client ELSE token] = ttl]
             /\ (Renewed(token, ttl, renewable) /\ NoFault) \/ (NotRenewed /\ Fault)
       \/ /\ (~(Valid(client) /\ auth.renewable) /\ NoFault) \/ Fault
          /\ NotRenewed
          /\ UNCHANGED left
    /\ UNCHANGED <<auth, reader, phase>>

WorkerLogin ==
    /\ worker.pc = "login"
    /\ \/ LoginAnswer("worker") /\ NoFault /\ StoresNext /\ UNCHANGED lock
       \/ /\ UNCHANGED <<client, left, granted>>
          /\ Fault \/ (phase # "open" /\ NoFault)
          /\ Unlock("worker")
          /\ AfterFailure
    /\ UNCHANGED <<auth, reader, phase>>

WorkerAssign ==
    /\ worker.pc = "assign"
    /\ Assign("worker")
    /\ WorkerTo("delay")
    /\ UNCHANGED <<client, left, reader, phase, faults>>

-----------------------------------------------------------------------------
\* Close cancels renewCtx and waits for the worker.
Close == /\ phase = "open"
         /\ phase' = "closing"
         /\ UNCHANGED <<client, auth, left, granted, lock, reader, worker, faults>>

Closed == /\ phase = "closing"
          /\ worker.pc = "done"
          /\ phase' = "closed"
          /\ UNCHANGED <<client, auth, left, granted, lock, reader, worker, faults>>

\* The server revokes a token, or its maximum TTL is reached.
Revoke(t) == /\ t \in Held /\ Valid(t)
             /\ Fault
             /\ left' = [left EXCEPT ![t] = 0]
             /\ UNCHANGED <<client, auth, granted, lock, reader, worker, phase>>

\* A unit of time.  A timer that has fired comes first, and so does what the
\* worker does between its sleeps, except where the call, the mutex or the
\* scheduler is slow: a fault.
Pass == /\ \/ worker.pc = "done" /\ NoFault
           \/ /\ worker.pc \in {"wait", "backoff"}
              /\ worker.timer > 0 /\ phase = "open" /\ NoFault
           \/ worker.pc # "done" /\ Fault
        /\ left' = [t \in Tokens |-> IF t \in Held THEN GoneOver(left[t]) ELSE 0]
        /\ worker' = [worker EXCEPT !.timer = GoneOver(@),
                                    !.waited = IF worker.pc \in {"assign", "delay"}
                                               THEN @ + 1 ELSE @]
        /\ UNCHANGED <<client, auth, granted, lock, reader, phase>>

ReaderStep(r) == \/ Answer(r) \/ Reauthenticate(r) \/ ReaderLogin(r) \/ ReaderAssign(r)
                 \/ reader[r].pc = "reread" /\ Send(r)
WorkerStep == \/ NextDelay \/ WaitEnds \/ RenewLock \/ RenewSelf
              \/ WorkerLogin \/ WorkerAssign

Next == \/ \E r \in Readers : Send(r) \/ ReaderStep(r)
        \/ WorkerStep
        \/ Close \/ Closed
        \/ \E t \in Tokens : Revoke(t)
        \/ Pass

Spec == Init /\ [][Next]_vars

\* Goroutines run, calls return (a deadline or the client's timeout ends them)
\* and time goes on.  A sync.Mutex hands itself to a waiter that starves: strong
\* fairness.
Fairness == /\ \A r \in Readers : WF_vars(ReaderStep(r)) /\ SF_vars(Reauthenticate(r))
            /\ WF_vars(WorkerStep) /\ SF_vars(RenewLock) /\ SF_vars(NextDelay)
            /\ WF_vars(Closed)
            /\ WF_vars(Pass)

FairSpec == Spec /\ Fairness

-----------------------------------------------------------------------------
(***************************************************************************)
(* Properties.                                                             *)
(***************************************************************************)
TypeOK == /\ client \in Tokens
          /\ auth \in Auth
          /\ left \in [Tokens -> Nat]
          /\ granted \in [Processes -> Auth]
          /\ lock \in Processes \cup {"free"}
          /\ reader \in [Readers -> ReaderState]
          /\ worker \in WorkerState
          /\ worker.retry \in RetryWait .. RetryMaxWait
          /\ phase \in {"open", "closing", "closed"}
          /\ faults \in Nat

\* Whatever logins and renewals race, whenever the mutex is free b.auth
\* describes the token that reads are sent with: the worker times its renewals
\* by the lease of the right token (backend.go:225-228, 337-346, 350-363).
AuthIsClients == lock = "free" => auth.token = client

\* The worker does not give up: where leases have one length, the client has a
\* valid token for good once failures stop, unless the backend is closed or the
\* worker meets a lease that cannot be renewed (backend.go:246-274).
KeepsToken == \/ <>[]Valid(client)
              \/ <>(phase # "open" \/ (worker.pc = "done" /\ ~Renewing))

\* Without a worker the callers keep the token alive: once failures stop, a
\* refused read brings a valid one, whatever leases it got before, and even
\* after Close (backend.go:106-113, 332-348).
RefusalRecovers == \A r \in Readers :
    faults = MaxFaults /\ reader[r].pc = "denied" ~> Valid(client)

\* Nobody is left waiting for the mutex: a GetSecret ends (backend.go:103-128).
ReadEnds == \A r \in Readers : reader[r].pc = "denied" ~> reader[r].pc = "idle"

\* Close returns, wherever in its loop the worker is (backend.go:130-140).
CloseEnds == phase = "closing" ~> phase = "closed"

\* By how much the clamp to the minimal delay makes a timer outlast its lease.
Clamped(lease) == IF lease > MinDelay THEN 0 ELSE MinDelay - lease + 1

\* By how much the client's lease is shorter than the one the timer was set for.
Shortened(lease, ttl) == IF ttl < lease THEN lease - ttl ELSE 0

\* The worker wakes up while the lease of the client's token is running, whoever
\* logged in last.  What may make it late, and by how much, is the minimal delay
\* on a lease that is not longer, a login that was granted a shorter lease than
\* the timer was set for, and the time the worker needed to set the timer after
\* the grant; nothing else (backend.go:298-308, 385-399).
WakesInTime ==
    lock = "free" /\ phase = "open" /\ worker.pc = "wait" /\ Valid(client) =>
        worker.timer < left[client] + worker.waited + Clamped(worker.lease)
                          + Shortened(worker.lease, auth.ttl)

-----------------------------------------------------------------------------
(***************************************************************************)
(* The inductive invariants behind AuthIsClients and WakesInTime.          *)
(***************************************************************************)
Holds(x)     == IF x = "worker" THEN worker.pc \in {"renew", "login", "assign"}
                                ELSE reader[x].pc \in {"login", "assign"}
Assigning(x) == IF x = "worker" THEN worker.pc = "assign" ELSE reader[x].pc = "assign"

\* The mutex is held by whoever is between Lock and Unlock, and b.auth is that
\* of the client unless its holder has an answer that it has not stored yet.
AuthInv == /\ \A x \in Processes : Holds(x) <=> lock = x
           /\ \A x \in Processes : Assigning(x) => granted[x].token = client
           /\ (\A x \in Processes : ~Assigning(x)) => auth.token = client

\* The lease ttl of the client's token, being stored or planned with, has lost no
\* more than the worker has waited, and the timer keeps that distance.
WakesFor(ttl) ==
    /\ worker.pc \in {"delay", "assign"} /\ Valid(client) =>
           ttl <= left[client] + worker.waited
    /\ worker.pc = "wait" /\ Valid(client) =>
           worker.timer < left[client] + worker.waited + Clamped(worker.lease)
                             + Shortened(worker.lease, ttl)

\* The lease of the client's token is in b.auth, or in the answer that is not
\* stored yet; the timer was set by the lease it remembers.
WakeInv == /\ worker.pc = "wait" => worker.timer < worker.lease + Clamped(worker.lease)
           /\ \A x \in Processes : Assigning(x) => WakesFor(granted[x].ttl)
           /\ (\A x \in Processes : ~Assigning(x)) => WakesFor(auth.ttl)
=============================================================================
