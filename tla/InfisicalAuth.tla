--------------------------- MODULE InfisicalAuth ---------------------------
(***************************************************************************)
(* The Infisical provider, providers/infisical.go: concurrent GetSecret    *)
(* calls share one access token.  A channel of capacity one, authGate,     *)
(* lets one call at a time look at the token and renew it or log in; the   *)
(* read itself is tried up to three times, each time with the token of     *)
(* the moment.  A call has a deadline, and Close ends authentications.     *)
(*                                                                         *)
(* Time is counted in units of the lifetimes of tokens.                    *)
(***************************************************************************)
EXTENDS Integers

CONSTANTS
    Callers,        \* concurrent callers of GetSecret
    MaxTokens,      \* bound: an access token that nobody holds is used again
    TTLs,           \* the expiresIn the server may answer
    MaxTTLs,        \* the accessTokenMaxTTL it may answer
    Margin,         \* the five seconds a cached token must have left
    MaxLatency,     \* infisicalRetrieveTimeout: how long an answer may travel
    MaxAttempts,    \* infisicalMaxAttempts
    MaxFaults       \* bound: failed calls and revoked tokens

ASSUME TimeAssumption  == /\ Margin \in Nat /\ MaxLatency \in Nat
                          /\ TTLs \subseteq Nat \ {0} /\ MaxTTLs \subseteq Nat
ASSUME CountAssumption == /\ MaxTokens \in Nat \ {0}
                          /\ MaxAttempts \in Nat \ {0}
                          /\ MaxFaults \in Nat
ASSUME CallerAssumption == "free" \notin Callers

Tokens   == 1 .. MaxTokens
NoToken  == 0
\* What the server answered and the call has yet to store, and its age.
Answer   == [token : Tokens, ttl : Nat, max : Nat, renewed : BOOLEAN, age : Nat]
NoAnswer == [token |-> NoToken, ttl |-> 0, max |-> 0, renewed |-> FALSE, age |-> 0]

Call == [pc      : {"idle", "attempt", "gate", "entered", "renew", "login",
                    "granted", "read", "backoff"},
         tok     : Tokens \cup {NoToken},        \* the bearer of the request
         attempt : Nat,
         late    : BOOLEAN,                      \* the caller's ctx is done
         cut     : BOOLEAN,                      \* the AfterFunc of Close has run
         answer  : Answer \cup {NoAnswer}]

VARIABLES
    static,     \* whether config.Token is set
    cached,     \* accessToken
    tokenTTL,
    expires,    \* the time until expiresAt, 0 once it has passed
    maxLeft,    \* the time until maxTTLAt, 0 once it has passed
    travelled,  \* how old the answer was that they were set from: read by no
                \* action, for HandsOutLive alone
    gate,       \* who occupies authGate
    call,       \* the GetSecret calls in flight
    closed,     \* Close has cancelled the lifecycle context
    left,       \* left[t]: the time until the server forgets token t
    revoked,    \* the tokens it has forgotten before their time
    faults

cache  == <<static, cached, tokenTTL, expires, maxLeft, travelled>>
server == <<left, revoked>>
vars   == <<cache, gate, call, closed, server, faults>>

Idle        == [pc |-> "idle", tok |-> NoToken, attempt |-> 0, late |-> FALSE,
                cut |-> FALSE, answer |-> NoAnswer]
StaticToken == 1
Fault       == faults < MaxFaults /\ faults' = faults + 1
NoFault     == faults' = faults
Less(x)     == IF x > 0 THEN x - 1 ELSE 0

\* Initialize has authenticated, or was given a token.
Init == \E ttl \in TTLs, max \in MaxTTLs :
        /\ static \in BOOLEAN
        /\ cached = IF static THEN NoToken ELSE 1
        /\ tokenTTL = IF static THEN 0 ELSE ttl
        /\ expires = tokenTTL
        /\ maxLeft = IF static THEN 0 ELSE max
        /\ travelled = 0
        /\ gate = "free"
        /\ call = [c \in Callers |-> Idle]
        /\ closed = FALSE
        /\ left = [t \in Tokens |-> IF t = 1 THEN ttl ELSE 0]
        /\ revoked = {}
        /\ faults = 0

Set(c, r)    == call' = [call EXCEPT ![c] = r]
To(c, pc)    == Set(c, [call[c] EXCEPT !.pc = pc])
Finish(c)    == Set(c, Idle)
Release      == gate' = "free"

\* The context of the authentication follows the caller's and the lifecycle.
Cancelled(c) == call[c].late \/ call[c].cut

-----------------------------------------------------------------------------
(***************************************************************************)
(* GetSecret and retrieveSecret, up to the gate.                           *)
(***************************************************************************)
Begin(c) ==
    /\ call[c].pc = "idle"
    /\ To(c, "attempt")
    /\ UNCHANGED <<cache, gate, closed, server, faults>>

\* Each attempt looks at the deadline and asks for a token anew.
Attempt(c) ==
    /\ call[c].pc = "attempt"
    /\ IF call[c].late THEN Finish(c) ELSE To(c, "gate")
    /\ UNCHANGED <<cache, gate, closed, server, faults>>

EnterUngated(c) ==
    /\ call[c].pc = "gate"
    /\ To(c, "entered")
    /\ UNCHANGED <<cache, gate, closed, server, faults>>

\* The select takes either branch when both are ready.
Enter(c) ==
    /\ call[c].pc = "gate"
    /\ gate = "free"
    /\ gate' = c
    /\ To(c, "entered")
    /\ UNCHANGED <<cache, closed, server, faults>>

LeaveQueueNever(c) == FALSE /\ UNCHANGED vars

LeaveQueue(c) ==
    /\ call[c].pc = "gate"
    /\ Cancelled(c)
    /\ Finish(c)
    /\ UNCHANGED <<cache, gate, closed, server, faults>>

-----------------------------------------------------------------------------
(***************************************************************************)
(* authenticationToken, behind the gate.                                   *)
(***************************************************************************)
\* The token is returned: the gate opens and the read is sent with it.
HandOut(c, t) == /\ Set(c, [call[c] EXCEPT !.pc = "read", !.tok = t, !.cut = FALSE,
                                           !.answer = NoAnswer])
                 /\ Release

UsableAlways == cached # NoToken
Usable       == cached # NoToken /\ expires > Margin
CanRenew     == cached # NoToken /\ maxLeft > tokenTTL

Decide(c) ==
    /\ call[c].pc = "entered"
    /\ \/ Cancelled(c) /\ Finish(c) /\ Release
       \/ ~Cancelled(c) /\ static /\ HandOut(c, StaticToken)
       \/ ~Cancelled(c) /\ ~static /\ Usable /\ HandOut(c, cached)
       \/ /\ ~Cancelled(c) /\ ~static /\ ~Usable
          /\ To(c, IF CanRenew THEN "renew" ELSE "login")
          /\ UNCHANGED gate
    /\ UNCHANGED <<cache, closed, server, faults>>

Granted(c, t, ttl, max, renewed) ==
    /\ left' = [left EXCEPT ![t] = ttl]
    /\ revoked' = revoked \ {t}
    /\ Set(c, [call[c] EXCEPT !.pc = "granted",
                  !.answer = [token |-> t, ttl |-> ttl, max |-> max,
                              renewed |-> renewed, age |-> 0]])

\* Without a renewal, log in, unless the context is done by now.
NotRenewed(c) == IF Cancelled(c) THEN Finish(c) /\ Release
                                 ELSE To(c, "login") /\ UNCHANGED gate

\* The server renews a token it knows; the answer may get lost.
Renew(c) ==
    /\ call[c].pc = "renew"
    /\ \/ /\ left[cached] > 0
          /\ \E ttl \in TTLs : Granted(c, cached, ttl, 0, TRUE)
          /\ NoFault /\ UNCHANGED gate
       \/ /\ left[cached] > 0
          /\ \E ttl \in TTLs : left' = [left EXCEPT ![cached] = ttl]
          /\ Fault \/ (Cancelled(c) /\ NoFault)
          /\ NotRenewed(c)
          /\ UNCHANGED revoked
       \/ /\ Fault \/ ((left[cached] = 0 \/ Cancelled(c)) /\ NoFault)
          /\ NotRenewed(c)
          /\ UNCHANGED server
    /\ UNCHANGED <<cache, closed>>

Held == {cached} \cup {call[c].tok : c \in Callers}
                 \cup {call[c].answer.token : c \in Callers}
NewToken == CHOOSE t \in Tokens : t \notin Held

LoginLeaky(c) ==
    /\ call[c].pc = "login"
    /\ \/ /\ Tokens \ Held # {}
          /\ \E ttl \in TTLs, max \in MaxTTLs :
                Granted(c, NewToken, ttl, max, FALSE)
          /\ NoFault /\ UNCHANGED gate
       \/ /\ Fault \/ (Cancelled(c) /\ NoFault)
          /\ Finish(c)
          /\ UNCHANGED <<gate, server>>
    /\ UNCHANGED <<cache, closed>>

Login(c) ==
    /\ call[c].pc = "login"
    /\ \/ /\ Tokens \ Held # {}
          /\ \E ttl \in TTLs, max \in MaxTTLs :
                Granted(c, NewToken, ttl, max, FALSE)
          /\ NoFault /\ UNCHANGED gate
       \/ /\ Fault \/ (Cancelled(c) /\ NoFault)
          /\ Finish(c) /\ Release
          /\ UNCHANGED server
    /\ UNCHANGED <<cache, closed>>

\* The answer arrives.  One that makes no sense is an error, of a renewal too;
\* the lifetimes count from now.
Store(c) ==
    /\ call[c].pc = "granted"
    /\ LET a == call[c].answer IN
       \/ Fault /\ Finish(c) /\ Release /\ UNCHANGED cache
       \/ /\ NoFault
          /\ cached' = a.token
          /\ tokenTTL' = a.ttl
          /\ expires' = a.ttl
          /\ maxLeft' = IF a.renewed THEN maxLeft ELSE a.max
          /\ travelled' = a.age
          /\ HandOut(c, a.token)
          /\ UNCHANGED static
    /\ UNCHANGED <<closed, server>>

-----------------------------------------------------------------------------
(***************************************************************************)
(* retrieveSecretOnce, from the request on, and the loop around it.        *)
(***************************************************************************)
RetryForever(c) == To(c, "backoff")

Retry(c) == IF call[c].attempt = MaxAttempts - 1 THEN Finish(c) ELSE To(c, "backoff")

\* The secret, a refused token or the end of ctx: the call ends.  So it does
\* with a failure, unless that is one of those worth another attempt.
Read(c) ==
    /\ call[c].pc = "read"
    /\ \/ NoFault /\ Finish(c)
       \/ Fault /\ Finish(c)
       \/ ~call[c].late /\ Fault /\ Retry(c)
    /\ UNCHANGED <<cache, gate, closed, server>>

\* sleepInfisical: any time up to the cap, or until ctx is done.
Backoff(c) ==
    /\ call[c].pc = "backoff"
    /\ \/ Set(c, [call[c] EXCEPT !.pc = "attempt", !.attempt = @ + 1, !.tok = NoToken])
       \/ call[c].late /\ Finish(c)
    /\ UNCHANGED <<cache, gate, closed, server, faults>>

-----------------------------------------------------------------------------
\* The deadline of the call.
Deadline(c) == /\ call[c].pc # "idle" /\ ~call[c].late
               /\ Set(c, [call[c] EXCEPT !.late = TRUE])
               /\ UNCHANGED <<cache, gate, closed, server, faults>>

Authenticating(c) == call[c].pc \in {"gate", "entered", "renew", "login", "granted"}

Close == /\ ~closed /\ closed' = TRUE
         /\ UNCHANGED <<cache, gate, call, server, faults>>

\* The goroutine of context.AfterFunc gets to run.
CutOff(c) == /\ closed /\ Authenticating(c) /\ ~call[c].cut
             /\ Set(c, [call[c] EXCEPT !.cut = TRUE])
             /\ UNCHANGED <<cache, gate, closed, server, faults>>

Revoke(t) == /\ left[t] > 0
             /\ Fault
             /\ left' = [left EXCEPT ![t] = 0]
             /\ revoked' = revoked \cup {t}
             /\ UNCHANGED <<cache, gate, call, closed>>

\* A unit of time; no answer travels longer than MaxLatency, the 30 seconds of an
\* authentication.
Pass == /\ \A c \in Callers : call[c].pc = "granted" => call[c].answer.age < MaxLatency
        /\ left' = [t \in Tokens |-> Less(left[t])]
        /\ expires' = Less(expires)
        /\ maxLeft' = Less(maxLeft)
        /\ call' = [c \in Callers |-> IF call[c].pc = "granted"
                                      THEN [call[c] EXCEPT !.answer.age = @ + 1]
                                      ELSE call[c]]
        /\ UNCHANGED <<static, cached, tokenTTL, travelled, gate, closed, revoked, faults>>

CallStep(c) == \/ Attempt(c) \/ Enter(c) \/ LeaveQueue(c) \/ Decide(c) \/ Renew(c)
               \/ Login(c) \/ Store(c) \/ Read(c) \/ Backoff(c)

Next == \/ \E c \in Callers : Begin(c) \/ CallStep(c) \/ Deadline(c) \/ CutOff(c)
        \/ Close
        \/ \E t \in Tokens : Revoke(t)
        \/ Pass

Spec == Init /\ [][Next]_vars

\* Goroutines run, requests end, deadlines strike and time goes on.  Nothing is
\* assumed of the order in which the gate lets its waiters in.
Fairness == /\ \A c \in Callers : WF_vars(CallStep(c)) /\ WF_vars(Deadline(c))
            /\ WF_vars(Pass)

FairSpec == Spec /\ Fairness

-----------------------------------------------------------------------------
(***************************************************************************)
(* Properties.                                                             *)
(***************************************************************************)
\* The types, and the promise of "at most three total attempts" (docs/infisical.md:156).
TypeOK == /\ static \in BOOLEAN /\ closed \in BOOLEAN
          /\ cached \in Tokens \cup {NoToken}
          /\ tokenTTL \in Nat /\ expires \in Nat /\ maxLeft \in Nat /\ travelled \in Nat
          /\ gate \in Callers \cup {"free"}
          /\ call \in [Callers -> Call]
          /\ \A c \in Callers : call[c].attempt < MaxAttempts
          /\ left \in [Tokens -> Nat]
          /\ revoked \subseteq Tokens
          /\ faults \in Nat

HandsOut(c) == ~static /\ call[c].pc # "read" /\ call'[c].pc = "read"

\* A token is handed out for a read only while the server knows it.  But for a
\* revocation, a token that the server has forgotten gets out in one way alone:
\* its answer travelled longer than the margin of five seconds, or longer than
\* the token lives, which the 30 seconds of an authentication allow
\* (infisical.go:217, 233-235, 265-270).
HandsOutLive ==
    [][\A c \in Callers : HandsOut(c) =>
            \/ call'[c].tok \in revoked \/ left[call'[c].tok] > 0
            \/ travelled' > Margin \/ travelled' >= tokenTTL']_vars

\* However many calls find the token expired at once, one of them replaces it:
\* a token that is still usable is never replaced (infisical.go:221-235).
NoWastedLogin ==
    [][cached' # cached \/ expires' > expires => expires <= Margin]_vars

\* No call keeps the gate, whatever fails and whenever Close comes
\* (infisical.go:222-223).
GateReleased == \A c \in Callers : gate = c ~> gate # c

\* Every call ends, even one the gate would never let in: it stops waiting at
\* its deadline (infisical.go:221-226, 274-293).
CallEnds == \A c \in Callers : call[c].pc # "idle" ~> call[c].pc = "idle"


-----------------------------------------------------------------------------
(***************************************************************************)
(* The inductive invariant behind HandsOutLive and NoWastedLogin.          *)
(***************************************************************************)
Behind(c) == call[c].pc \in {"entered", "renew", "login", "granted"}

\* The gate is occupied by the call that is behind it.
GateInv == \A c \in Callers : Behind(c) <=> gate = c

\* Calls that replace the token do so because it is no longer usable, and an
\* answer on its way is as old as it looks.
CallInv(c) ==
    /\ call[c].pc = "backoff" => call[c].attempt < MaxAttempts - 1
    /\ call[c].pc \in {"renew", "login", "granted"} => ~static /\ expires <= Margin
    /\ call[c].pc = "granted" =>
          LET a == call[c].answer IN
             /\ a.token \in Tokens /\ a.ttl \in TTLs /\ a.age <= MaxLatency
             /\ a.token \in revoked \/ a.ttl <= left[a.token] + a.age

\* A token that still looks usable is forgotten too early by its answer's travel
\* at most.
CachedLives == cached # NoToken => \/ cached \in revoked
                                   \/ expires <= Margin
                                   \/ expires <= left[cached] + travelled

LifeInv == /\ GateInv
           /\ cached = NoToken <=> static
           /\ CachedLives
           /\ \A c \in Callers : CallInv(c)

=============================================================================
