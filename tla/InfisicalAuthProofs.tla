------------------------ MODULE InfisicalAuthProofs ------------------------
(***************************************************************************)
(* Theorems about InfisicalAuth, for all callers, lifetimes, attempts,     *)
(* failures and travelling times of answers.                               *)
(***************************************************************************)
EXTENDS InfisicalAuth, TLAPS

-----------------------------------------------------------------------------
LEMMA Constants ==
    /\ Margin \in Nat /\ MaxLatency \in Nat
    /\ \A ttl \in TTLs : ttl \in Nat /\ ttl > 0
    /\ \A max \in MaxTTLs : max \in Nat
    /\ MaxTokens \in Nat /\ MaxTokens > 0 /\ MaxAttempts \in Nat /\ MaxAttempts > 0
    /\ MaxFaults \in Nat
    /\ "free" \notin Callers
  BY TimeAssumption, CountAssumption, CallerAssumption

LEMMA TokensAreNumbers ==
    /\ Tokens \subseteq Nat /\ NoToken \notin Tokens
    /\ 1 \in Tokens /\ StaticToken \in Tokens
  BY Constants DEF Tokens, NoToken, StaticToken

LEMMA IdleType == /\ Idle \in Call /\ Idle.pc = "idle" /\ Idle.attempt = 0
                  /\ Idle.tok = NoToken /\ Idle.answer = NoAnswer
  BY DEF Idle, Call

LEMMA FaultType == TypeOK /\ (Fault \/ NoFault \/ UNCHANGED faults) => faults' \in Nat
  BY DEF TypeOK, Fault, NoFault

-----------------------------------------------------------------------------
(***************************************************************************)
(* The invariant.                                                          *)
(***************************************************************************)
Inv == TypeOK /\ LifeInv

\* The cache and what the server knows: one part of the invariant.
CacheOK == /\ static \in BOOLEAN
           /\ cached \in Tokens \cup {NoToken}
           /\ tokenTTL \in Nat /\ expires \in Nat /\ maxLeft \in Nat /\ travelled \in Nat
           /\ left \in [Tokens -> Nat]
           /\ revoked \subseteq Tokens
           /\ cached = NoToken <=> static
           /\ CachedLives

LEMMA InvInit == Init => Inv
<1> SUFFICES ASSUME Init PROVE Inv
  OBVIOUS
<1>1. PICK ttl \in TTLs, max \in MaxTTLs :
        /\ static \in BOOLEAN
        /\ cached = IF static THEN NoToken ELSE 1
        /\ tokenTTL = IF static THEN 0 ELSE ttl
        /\ expires = tokenTTL
        /\ maxLeft = IF static THEN 0 ELSE max
        /\ travelled = 0
        /\ left = [t \in Tokens |-> IF t = 1 THEN ttl ELSE 0]
        /\ revoked = {}
  BY DEF Init
<1>2. ttl \in Nat /\ max \in Nat /\ 0 \in Nat
  BY Constants
<1>3. /\ tokenTTL \in Nat /\ expires \in Nat /\ maxLeft \in Nat /\ travelled \in Nat
      /\ left \in [Tokens -> Nat]
  BY <1>1, <1>2
<1>4. cached \in Tokens \cup {NoToken} /\ (cached = NoToken <=> static)
  BY <1>1, TokensAreNumbers
<1>5. CachedLives
  <2>1. cached # NoToken => expires = ttl /\ left[cached] = ttl
    BY <1>1, TokensAreNumbers
  <2> QED
    BY <1>1, <1>2, <2>1 DEF CachedLives
<1>6. call \in [Callers -> Call] /\ \A c \in Callers : call[c] = Idle
  BY IdleType DEF Init
<1>7. \A c \in Callers : ~Behind(c) /\ CallInv(c)
  BY <1>6, IdleType DEF Behind, CallInv
<1>8. GateInv
  <2>1. gate = "free"
    BY DEF Init
  <2> QED
    BY <1>7, <2>1, Constants DEF GateInv
<1>9. TypeOK
  <2>1. \A c \in Callers : call[c].attempt < MaxAttempts
    BY <1>6, IdleType, Constants
  <2>2. gate = "free" /\ closed = FALSE /\ faults = 0 /\ revoked \subseteq Tokens
    BY <1>1 DEF Init
  <2> QED
    BY <1>1, <1>3, <1>4, <1>6, <2>1, <2>2 DEF TypeOK
<1> QED
  BY <1>4, <1>5, <1>7, <1>8, <1>9 DEF Inv, LifeInv

\* One call moves.  Who is behind the gate may change the cache and what the
\* server knows; nobody else is concerned by these.
LEMMA CallMoves ==
    ASSUME Inv, NEW c \in Callers, NEW r \in Call, Set(c, r), r.attempt < MaxAttempts,
           \/ gate' = gate /\ (Behind(c)' <=> Behind(c))
           \/ gate = "free" /\ gate' = c /\ Behind(c)'
           \/ gate = c /\ gate' = "free" /\ ~Behind(c)',
           \/ UNCHANGED <<cache, server>>
           \/ Behind(c) /\ CacheOK',
           CallInv(c)', UNCHANGED closed, faults' \in Nat
    PROVE  Inv'
<1>0. TypeOK /\ LifeInv
  BY DEF Inv
<1>1. /\ call' \in [Callers -> Call] /\ call'[c] = r
      /\ \A d \in Callers \ {c} : call'[d] = call[d]
  BY <1>0 DEF TypeOK, Set
<1>2. CacheOK'
  <2>1. CASE UNCHANGED <<cache, server>>
    BY <1>0, <2>1 DEF CacheOK, TypeOK, LifeInv, CachedLives, cache, server
  <2> QED
    BY <2>1
<1>3. TypeOK'
  <2>1. gate' \in Callers \cup {"free"}
    BY <1>0 DEF TypeOK
  <2>2. \A d \in Callers : call'[d].attempt < MaxAttempts
    BY <1>0, <1>1 DEF TypeOK
  <2> QED
    BY <1>0, <1>1, <1>2, <2>1, <2>2 DEF TypeOK, CacheOK
<1>4. \A d \in Callers \ {c} : Behind(d)' <=> Behind(d)
  BY <1>1 DEF Behind
<1>5. GateInv'
  BY <1>0, <1>4, Constants DEF GateInv, LifeInv
<1>6. ASSUME NEW d \in Callers PROVE CallInv(d)'
  <2>1. CASE d = c
    BY <2>1
  <2>2. CASE d # c /\ UNCHANGED <<cache, server>>
    BY <1>0, <1>1, <2>2 DEF LifeInv, CallInv, cache, server
  <2>3. CASE d # c /\ Behind(c)
    <3>1. ~Behind(d)
      BY <1>0, <2>3 DEF LifeInv, GateInv
    <3>2. call'[d] = call[d] /\ CallInv(d)
      BY <1>0, <1>1, <2>3 DEF LifeInv
    <3> QED
      BY <3>1, <3>2 DEF Behind, CallInv
  <2> QED
    BY <2>1, <2>2, <2>3
<1> QED
  BY <1>2, <1>3, <1>5, <1>6 DEF Inv, LifeInv, CacheOK

-----------------------------------------------------------------------------
(***************************************************************************)
(* The steps of a call.                                                    *)
(***************************************************************************)
\* A call that goes to another place, on its side of the gate.
LEMMA StepTo ==
    ASSUME Inv, NEW c \in Callers,
           NEW pc \in {"attempt", "gate", "login", "renew"}, To(c, pc),
           pc \in {"login", "renew"} <=> Behind(c),
           pc \in {"login", "renew"} => ~static /\ expires <= Margin,
           UNCHANGED <<cache, gate, closed>>, faults' \in Nat,
           UNCHANGED server \/ (Behind(c) /\ CacheOK')
    PROVE  Inv'
<1>1. call[c] \in Call /\ call[c].attempt < MaxAttempts /\ call \in [Callers -> Call]
  BY DEF Inv, TypeOK
<1> DEFINE r == [call[c] EXCEPT !.pc = pc]
<1>2. r \in Call /\ r.pc = pc /\ r.attempt = call[c].attempt
  BY <1>1 DEF Call
<1>3. call' = [call EXCEPT ![c] = r] /\ call'[c] = r
  BY <1>1 DEF To, Set
<1>4. CallInv(c)' /\ (Behind(c)' <=> Behind(c))
  BY <1>2, <1>3 DEF CallInv, Behind, cache
<1> QED
  BY <1>1, <1>2, <1>3, <1>4, CallMoves DEF Set

\* A call that ends, giving the gate back if it has it.
LEMMA StepFinish ==
    ASSUME Inv, NEW c \in Callers, Finish(c),
           IF Behind(c) THEN Release ELSE UNCHANGED gate,
           UNCHANGED <<cache, closed>>, faults' \in Nat,
           UNCHANGED server \/ (Behind(c) /\ CacheOK')
    PROVE  Inv'
<1>1. call \in [Callers -> Call] /\ (Behind(c) => gate = c)
  BY DEF Inv, TypeOK, LifeInv, GateInv
<1>2. call'[c] = Idle /\ Idle.attempt < MaxAttempts
  BY <1>1, IdleType, Constants DEF Finish, Set
<1>3. CallInv(c)' /\ ~Behind(c)'
  BY <1>2, IdleType DEF CallInv, Behind
<1> QED
  BY <1>1, <1>2, <1>3, IdleType, CallMoves DEF Finish, Release

\* A token is handed out by whoever is behind the gate.
LEMMA StepHandOut ==
    ASSUME Inv, NEW c \in Callers, Behind(c), NEW t \in Tokens, HandOut(c, t),
           UNCHANGED closed, faults' \in Nat, UNCHANGED <<cache, server>> \/ CacheOK'
    PROVE  Inv' /\ call'[c].tok = t
<1>1. call[c] \in Call /\ call[c].attempt < MaxAttempts /\ call \in [Callers -> Call]
      /\ gate = c
  BY DEF Inv, TypeOK, LifeInv, GateInv
<1> DEFINE r == [call[c] EXCEPT !.pc = "read", !.tok = t, !.cut = FALSE, !.answer = NoAnswer]
<1>2. r \in Call /\ r.pc = "read" /\ r.tok = t /\ r.attempt = call[c].attempt
  BY <1>1 DEF Call
<1>3. call' = [call EXCEPT ![c] = r] /\ call'[c] = r /\ gate' = "free"
  BY <1>1 DEF HandOut, Set, Release
<1>4. CallInv(c)' /\ ~Behind(c)'
  BY <1>2, <1>3 DEF CallInv, Behind
<1> QED
  BY <1>1, <1>2, <1>3, <1>4, CallMoves DEF Set

\* The server has granted a token, new or renewed.
LEMMA StepGranted ==
    ASSUME Inv, NEW c \in Callers, call[c].pc \in {"renew", "login"},
           NEW t \in Tokens, NEW ttl \in TTLs, NEW max \in Nat, NEW renewed \in BOOLEAN,
           Granted(c, t, ttl, max, renewed), UNCHANGED <<cache, gate, closed>>,
           faults' \in Nat
    PROVE  Inv'
<1>1. /\ call[c] \in Call /\ call[c].attempt < MaxAttempts /\ call \in [Callers -> Call]
      /\ Behind(c) /\ CallInv(c) /\ TypeOK /\ (cached = NoToken <=> static)
  BY DEF Inv, TypeOK, LifeInv, Behind
<1> DEFINE a == [token |-> t, ttl |-> ttl, max |-> max, renewed |-> renewed, age |-> 0]
           r == [call[c] EXCEPT !.pc = "granted", !.answer = a]
<1>2. a \in Answer /\ ttl \in Nat
  BY Constants DEF Answer
<1>3. r \in Call /\ r.pc = "granted" /\ r.answer = a /\ r.attempt = call[c].attempt
  BY <1>1, <1>2 DEF Call
<1>4. call' = [call EXCEPT ![c] = r] /\ call'[c] = r
  BY <1>1 DEF Granted, Set
<1>5. left' \in [Tokens -> Nat] /\ left'[t] = ttl /\ revoked' = revoked \ {t}
  BY <1>1, <1>2 DEF Granted, TypeOK
<1>6. ~static /\ expires <= Margin
  BY <1>1 DEF CallInv
<1>7. CacheOK'
  BY <1>1, <1>5, <1>6 DEF CacheOK, TypeOK, CachedLives, cache
<1>8. CallInv(c)' /\ Behind(c)'
  BY <1>2, <1>3, <1>4, <1>5, <1>6, Constants DEF CallInv, Behind, cache
<1> HIDE DEF a, r
<1> QED
  BY <1>1, <1>3, <1>4, <1>7, <1>8, CallMoves DEF Set

\* The deadline and Close leave their mark on a call that stays where it is.
LEMMA StepMark ==
    ASSUME Inv, NEW c \in Callers, NEW r \in Call, Set(c, r), r.pc = call[c].pc,
           r.attempt = call[c].attempt, r.answer = call[c].answer,
           UNCHANGED <<cache, gate, closed, server, faults>>
    PROVE  Inv'
<1>1. call[c].attempt < MaxAttempts /\ call'[c] = r /\ CallInv(c) /\ faults' \in Nat
  BY DEF Inv, TypeOK, LifeInv, Set
<1>2. CallInv(c)' /\ (Behind(c)' <=> Behind(c))
  BY <1>1 DEF CallInv, Behind, cache, server
<1> QED
  BY <1>1, <1>2, CallMoves

LEMMA BeforeGate ==
    ASSUME Inv, NEW c \in Callers, Begin(c) \/ Attempt(c) \/ Enter(c) \/ LeaveQueue(c)
    PROVE  Inv'
<1>0. /\ call[c] \in Call /\ call[c].attempt < MaxAttempts /\ call \in [Callers -> Call]
      /\ faults \in Nat
  BY DEF Inv, TypeOK
<1>1. CASE Begin(c)
  BY <1>0, <1>1, StepTo DEF Begin, Behind
<1>2. CASE Attempt(c)
  BY <1>0, <1>2, StepTo, StepFinish DEF Attempt, Behind
<1>3. CASE Enter(c)
  <2> DEFINE r == [call[c] EXCEPT !.pc = "entered"]
  <2>1. r \in Call /\ r.pc = "entered" /\ r.attempt = call[c].attempt
    BY <1>0 DEF Call
  <2>2. call' = [call EXCEPT ![c] = r] /\ call'[c] = r
    BY <1>0, <1>3 DEF Enter, To, Set
  <2>3. CallInv(c)' /\ Behind(c)'
    BY <2>1, <2>2 DEF CallInv, Behind
  <2> QED
    BY <1>0, <1>3, <2>1, <2>2, <2>3, CallMoves DEF Enter, Set
<1>4. CASE LeaveQueue(c)
  BY <1>0, <1>4, StepFinish DEF LeaveQueue, Behind
<1> QED
  BY <1>1, <1>2, <1>3, <1>4

LEMMA DecideInv ==
    ASSUME Inv, NEW c \in Callers, Decide(c)
    PROVE  Inv'
<1>0. Behind(c) /\ cached \in Tokens \cup {NoToken} /\ faults \in Nat
      /\ expires \in Nat /\ (cached = NoToken <=> static) /\ Margin \in Nat
  BY Constants DEF Decide, Behind, Inv, TypeOK, LifeInv
<1>1. CASE Finish(c) /\ Release
  BY <1>0, <1>1, StepFinish DEF Decide
<1>2. CASE HandOut(c, StaticToken)
  BY <1>0, <1>2, TokensAreNumbers, StepHandOut DEF Decide
<1>3. CASE Usable /\ HandOut(c, cached)
  <2>1. cached \in Tokens
    BY <1>0, <1>3 DEF Usable
  <2> QED
    BY <1>0, <1>3, <2>1, StepHandOut DEF Decide
<1>4. CASE ~static /\ ~Usable /\ To(c, IF CanRenew THEN "renew" ELSE "login") /\ UNCHANGED gate
  <2>1. expires <= Margin
    BY <1>0, <1>4 DEF Usable
  <2> QED
    BY <1>0, <1>4, <2>1, StepTo DEF Decide
<1> QED
  BY <1>1, <1>2, <1>3, <1>4 DEF Decide

LEMMA NotRenewedInv ==
    ASSUME Inv, NEW c \in Callers, call[c].pc = "renew", NotRenewed(c),
           UNCHANGED <<cache, closed>>, faults' \in Nat, UNCHANGED server \/ CacheOK'
    PROVE  Inv'
<1>1. Behind(c) /\ ~static /\ expires <= Margin
  BY DEF Behind, Inv, LifeInv, CallInv
<1>2. CASE Finish(c) /\ Release
  BY <1>1, <1>2, StepFinish
<1>3. CASE To(c, "login") /\ UNCHANGED gate
  BY <1>1, <1>3, StepTo
<1> QED
  BY <1>2, <1>3 DEF NotRenewed

LEMMA RenewInv ==
    ASSUME Inv, NEW c \in Callers, Renew(c)
    PROVE  Inv'
<1>0. /\ call[c].pc = "renew" /\ ~static /\ expires <= Margin /\ cached \in Tokens
      /\ TypeOK /\ faults' \in Nat /\ (cached = NoToken <=> static)
  BY FaultType DEF Renew, Inv, LifeInv, CallInv, TypeOK
<1>1. CASE \E ttl \in TTLs : Granted(c, cached, ttl, 0, TRUE) /\ UNCHANGED gate
  <2>1. 0 \in Nat
    OBVIOUS
  <2> QED
    BY <1>0, <1>1, <2>1, StepGranted DEF Renew
<1>2. CASE /\ \E ttl \in TTLs : left' = [left EXCEPT ![cached] = ttl]
           /\ NotRenewed(c) /\ UNCHANGED revoked
  <2>1. left' \in [Tokens -> Nat]
    BY <1>0, <1>2, Constants DEF TypeOK
  <2>2. CacheOK'
    BY <1>0, <1>2, <2>1 DEF Renew, TypeOK, CacheOK, CachedLives, cache
  <2> QED
    BY <1>0, <1>2, <2>2, NotRenewedInv DEF Renew
<1>3. CASE NotRenewed(c) /\ UNCHANGED server
  BY <1>0, <1>3, NotRenewedInv DEF Renew
<1> QED
  BY <1>1, <1>2, <1>3 DEF Renew

LEMMA LoginInv ==
    ASSUME Inv, NEW c \in Callers, Login(c)
    PROVE  Inv'
<1>0. call[c].pc = "login" /\ Behind(c) /\ faults' \in Nat
  BY FaultType DEF Login, Behind, Inv
<1>1. ASSUME Tokens \ Held # {}, NEW ttl \in TTLs, NEW max \in MaxTTLs,
             Granted(c, NewToken, ttl, max, FALSE), UNCHANGED gate
      PROVE  Inv'
  <2>1. NewToken \in Tokens
    BY <1>1 DEF NewToken
  <2> QED
    BY <1>0, <1>1, <2>1, Constants, StepGranted DEF Login
<1>2. CASE Finish(c) /\ Release /\ UNCHANGED server
  BY <1>0, <1>2, StepFinish DEF Login
<1> QED
  BY <1>1, <1>2 DEF Login

\* What a grant that is stored had to do with the server.
LEMMA StoredLives ==
    ASSUME Inv, NEW c \in Callers, call[c].pc = "granted"
    PROVE  LET a == call[c].answer IN
           /\ a.token \in Tokens /\ a.ttl \in TTLs /\ a.age \in Nat /\ a.max \in Nat
           /\ a.token \in revoked \/ a.ttl <= left[a.token] + a.age
           /\ a.token \in revoked \/ left[a.token] > 0 \/ a.age >= a.ttl
<1>0. TypeOK /\ CallInv(c) /\ call[c] \in Call /\ call[c].answer \in Answer \cup {NoAnswer}
  BY DEF Inv, TypeOK, LifeInv, Call
<1>1. LET a == call[c].answer IN
           /\ a.token \in Tokens /\ a.ttl \in TTLs
           /\ a.token \in revoked \/ a.ttl <= left[a.token] + a.age
  BY <1>0 DEF CallInv
<1>2. call[c].answer.age \in Nat /\ call[c].answer.max \in Nat
  BY <1>0 DEF Answer, NoAnswer
<1>3. left[call[c].answer.token] \in Nat /\ call[c].answer.ttl \in Nat
  BY <1>0, <1>1, Constants DEF TypeOK
<1> QED
  BY <1>1, <1>2, <1>3, Constants

LEMMA StoreInv ==
    ASSUME Inv, NEW c \in Callers, Store(c)
    PROVE  Inv'
<1>0. /\ call[c].pc = "granted" /\ Behind(c) /\ faults' \in Nat /\ TypeOK
      /\ ~static /\ (cached = NoToken <=> static)
  BY FaultType DEF Store, Behind, Inv, LifeInv, CallInv
<1>1. CASE Finish(c) /\ Release /\ UNCHANGED cache
  BY <1>0, <1>1, StepFinish DEF Store
<1>2. CASE /\ cached' = call[c].answer.token
           /\ tokenTTL' = call[c].answer.ttl
           /\ expires' = call[c].answer.ttl
           /\ maxLeft' = IF call[c].answer.renewed THEN maxLeft ELSE call[c].answer.max
           /\ travelled' = call[c].answer.age
           /\ HandOut(c, call[c].answer.token)
           /\ UNCHANGED static
  <2> DEFINE a == call[c].answer
  <2>1. /\ a.token \in Tokens /\ a.ttl \in Nat /\ a.age \in Nat /\ a.max \in Nat
        /\ a.token \in revoked \/ a.ttl <= left[a.token] + a.age
    BY <1>0, StoredLives, Constants
  <2>2. UNCHANGED server
    BY <1>2 DEF Store
  <2>3. CachedLives'
    BY <1>2, <2>1, <2>2 DEF CachedLives, server
  <2>4. CacheOK'
    BY <1>0, <1>2, <2>1, <2>2, <2>3, TokensAreNumbers DEF CacheOK, TypeOK, server
  <2> QED
    BY <1>0, <1>2, <2>1, <2>4, StepHandOut DEF Store
<1> QED
  BY <1>0, <1>1, <1>2 DEF Store

LEMMA AfterGate ==
    ASSUME Inv, NEW c \in Callers, Read(c) \/ Backoff(c)
    PROVE  Inv'
<1>0. /\ call[c] \in Call /\ call[c].attempt < MaxAttempts /\ call \in [Callers -> Call]
      /\ ~Behind(c) /\ faults' \in Nat /\ CallInv(c) /\ call[c].attempt \in Nat
  BY FaultType DEF Read, Backoff, Behind, Inv, TypeOK, LifeInv, Call
<1>1. CASE Finish(c)
  BY <1>0, <1>1, StepFinish DEF Read, Backoff
<1>2. CASE Read(c) /\ call[c].attempt # MaxAttempts - 1 /\ To(c, "backoff")
  <2> DEFINE r == [call[c] EXCEPT !.pc = "backoff"]
  <2>1. r \in Call /\ r.pc = "backoff" /\ r.attempt = call[c].attempt
    BY <1>0 DEF Call
  <2>2. call' = [call EXCEPT ![c] = r] /\ call'[c] = r
    BY <1>0, <1>2 DEF To, Set
  <2>3. CallInv(c)' /\ ~Behind(c)'
    BY <1>0, <1>2, <2>1, <2>2, Constants DEF CallInv, Behind
  <2> QED
    BY <1>0, <1>2, <2>1, <2>2, <2>3, CallMoves DEF Read, Set
<1>3. CASE Backoff(c) /\ Set(c, [call[c] EXCEPT !.pc = "attempt", !.attempt = @ + 1,
                                                !.tok = NoToken])
  <2> DEFINE r == [call[c] EXCEPT !.pc = "attempt", !.attempt = call[c].attempt + 1,
                                  !.tok = NoToken]
  <2>0. call[c].attempt + 1 \in Nat /\ NoToken \in Tokens \cup {NoToken}
    BY <1>0
  <2>1. r \in Call /\ r.pc = "attempt" /\ r.attempt = call[c].attempt + 1
    BY <1>0, <2>0 DEF Call
  <2>2. call' = [call EXCEPT ![c] = r] /\ call'[c] = r
    BY <1>0, <1>3 DEF Set
  <2>3. call[c].attempt + 1 < MaxAttempts
    BY <1>0, <1>3, Constants DEF CallInv, Backoff
  <2>4. CallInv(c)' /\ ~Behind(c)'
    BY <2>1, <2>2 DEF CallInv, Behind
  <2> QED
    BY <1>0, <1>3, <2>1, <2>2, <2>3, <2>4, CallMoves DEF Backoff, Set
<1> QED
  BY <1>1, <1>2, <1>3 DEF Read, Backoff, Retry

LEMMA MarkInv ==
    ASSUME Inv, NEW c \in Callers, Deadline(c) \/ CutOff(c)
    PROVE  Inv'
<1>1. call[c] \in Call
  BY DEF Inv, TypeOK
<1>2. PICK r \in {[call[c] EXCEPT !.late = TRUE], [call[c] EXCEPT !.cut = TRUE]} : Set(c, r)
  BY DEF Deadline, CutOff
<1>3. r \in Call /\ r.pc = call[c].pc /\ r.attempt = call[c].attempt
      /\ r.answer = call[c].answer
  BY <1>1, <1>2 DEF Call
<1> QED
  BY <1>2, <1>3, StepMark DEF Deadline, CutOff


-----------------------------------------------------------------------------
(***************************************************************************)
(* The steps of the others: Close, the server and time.                    *)
(***************************************************************************)
LEMMA CloseInv ==
    ASSUME Inv, Close
    PROVE  Inv'
<1>1. TypeOK'
  BY DEF Inv, TypeOK, Close, cache, server
<1>2. LifeInv'
  BY DEF Inv, LifeInv, GateInv, Behind, CachedLives, CallInv, Close, cache, server
<1> QED
  BY <1>1, <1>2 DEF Inv

LEMMA StutterInv ==
    ASSUME Inv, UNCHANGED vars
    PROVE  Inv'
<1>1. TypeOK'
  BY DEF Inv, TypeOK, vars, cache, server
<1>2. LifeInv'
  BY DEF Inv, LifeInv, GateInv, Behind, CachedLives, CallInv, vars, cache, server
<1> QED
  BY <1>1, <1>2 DEF Inv

LEMMA RevokeInv ==
    ASSUME Inv, NEW t \in Tokens, Revoke(t)
    PROVE  Inv'
<1>0. TypeOK /\ LifeInv /\ faults' \in Nat
  BY FaultType DEF Inv, Revoke
<1>1. left' \in [Tokens -> Nat] /\ revoked' = revoked \cup {t}
      /\ \A u \in Tokens \ {t} : left'[u] = left[u]
  BY <1>0 DEF Revoke, TypeOK
<1>2. TypeOK'
  BY <1>0, <1>1 DEF Revoke, TypeOK, cache
<1>3. CachedLives'
  BY <1>0, <1>1, TokensAreNumbers DEF Revoke, LifeInv, CachedLives, TypeOK, cache
<1>4. ASSUME NEW c \in Callers PROVE CallInv(c)'
  BY <1>0, <1>1 DEF Revoke, LifeInv, CallInv, cache
<1>5. GateInv'
  BY <1>0 DEF Revoke, LifeInv, GateInv, Behind
<1> QED
  BY <1>0, <1>2, <1>3, <1>4, <1>5 DEF Inv, LifeInv, Revoke, cache

LEMMA LessType == \A x \in Nat : Less(x) \in Nat /\ Less(x) <= x /\ x <= Less(x) + 1
  BY DEF Less

LEMMA PassInv ==
    ASSUME Inv, Pass
    PROVE  Inv'
<1>0. /\ TypeOK /\ LifeInv /\ Margin \in Nat /\ MaxLatency \in Nat
      /\ expires \in Nat /\ maxLeft \in Nat /\ travelled \in Nat
      /\ left \in [Tokens -> Nat]
  BY Constants DEF Inv, TypeOK
<1>1. /\ expires' \in Nat /\ maxLeft' \in Nat /\ left' \in [Tokens -> Nat]
      /\ expires' <= expires /\ \A t \in Tokens : left[t] <= left'[t] + 1
  <2>1. \A t \in Tokens : left'[t] = Less(left[t])
    BY DEF Pass
  <2> QED
    BY <1>0, <2>1, LessType DEF Pass
<1>2. ASSUME NEW c \in Callers
      PROVE  /\ call'[c] \in Call /\ call'[c].pc = call[c].pc
             /\ call'[c].attempt = call[c].attempt
             /\ CallInv(c)'
  <2>0. call[c] \in Call /\ CallInv(c)
    BY <1>0 DEF TypeOK, LifeInv
  <2>1. CASE call[c].pc # "granted"
    <3>1. call'[c] = call[c]
      BY <2>1 DEF Pass
    <3> QED
      BY <1>0, <1>1, <2>0, <2>1, <3>1 DEF CallInv, Pass
  <2>2. CASE call[c].pc = "granted"
    <3> DEFINE a == call[c].answer
               n == a.age + 1
               b == [a EXCEPT !.age = n]
               r == [call[c] EXCEPT !.answer = b]
    <3>1. a \in Answer
      BY <2>0, <2>2 DEF Call, CallInv, NoAnswer, Tokens, NoToken
    <3>2. n \in Nat /\ a.age \in Nat /\ a.age < MaxLatency /\ n <= MaxLatency
      BY <1>0, <2>2, <3>1 DEF Pass, Answer
    <3> HIDE DEF n
    <3>3. b \in Answer /\ b.token = a.token /\ b.ttl = a.ttl /\ b.age = n
      BY <3>1, <3>2 DEF Answer
    <3>4. call'[c] = r
      BY <2>2 DEF Pass, n
    <3> HIDE DEF b
    <3>5. r \in Call /\ r.pc = "granted" /\ r.attempt = call[c].attempt /\ r.answer = b
      BY <2>0, <2>2, <3>3 DEF Call
    <3>6. a.token \in Tokens /\ a.ttl \in TTLs /\ a.ttl \in Nat
      BY <2>0, <2>2, Constants DEF CallInv
    <3>7. a.token \in revoked \/ a.ttl <= left'[a.token] + n
      BY <1>0, <1>1, <2>0, <2>2, <3>2, <3>6 DEF CallInv, n
    <3>8. ~static /\ expires' <= Margin
      BY <1>0, <1>1, <2>0, <2>2 DEF CallInv
    <3> HIDE DEF r
    <3>9. revoked' = revoked /\ static' = static
      BY DEF Pass
    <3>10. CallInv(c)'
      BY <3>2, <3>3, <3>4, <3>5, <3>6, <3>7, <3>8, <3>9 DEF CallInv
    <3> QED
      BY <2>2, <3>4, <3>5, <3>10
  <2> QED
    BY <2>1, <2>2
<1>3. TypeOK'
  <2>1. call' \in [Callers -> Call]
    BY <1>2 DEF Pass
  <2>2. \A c \in Callers : call'[c].attempt < MaxAttempts
    BY <1>0, <1>2 DEF TypeOK
  <2> QED
    BY <1>0, <1>1, <2>1, <2>2 DEF TypeOK, Pass
<1>4. CachedLives'
  <2>1. CASE cached \in Tokens
    <3>1. left[cached] \in Nat /\ left'[cached] = Less(left[cached]) /\ expires' = Less(expires)
      BY <1>0, <2>1 DEF Pass
    <3>2. CachedLives
      BY <1>0 DEF LifeInv
    <3> QED
      BY <1>0, <2>1, <3>1, <3>2 DEF CachedLives, Pass, Less
  <2>2. CASE cached = NoToken
    BY <2>2 DEF CachedLives, Pass
  <2> QED
    BY <1>0, <2>1, <2>2 DEF TypeOK
<1>5. GateInv'
  BY <1>0, <1>2 DEF LifeInv, GateInv, Behind, Pass
<1> QED
  BY <1>0, <1>2, <1>3, <1>4, <1>5 DEF Inv, LifeInv, Pass

LEMMA InvStep == Inv /\ [Next]_vars => Inv'
<1> SUFFICES ASSUME Inv, [Next]_vars PROVE Inv'
  OBVIOUS
<1>1. ASSUME NEW c \in Callers, Begin(c) \/ CallStep(c) \/ Deadline(c) \/ CutOff(c)
      PROVE  Inv'
  BY <1>1, BeforeGate, DecideInv, RenewInv, LoginInv, StoreInv, AfterGate, MarkInv
     DEF CallStep
<1> QED
  BY <1>1, CloseInv, RevokeInv, PassInv, StutterInv DEF Next

LEMMA InvAlways == Spec => []Inv
  BY InvInit, InvStep, PTL DEF Spec


\* The types hold in every reachable state, and no call makes more than
\* infisicalMaxAttempts attempts (docs/infisical.md:156).
THEOREM TypeCorrect == Spec => []TypeOK
<1>1. Inv => TypeOK
  BY DEF Inv
<1> QED
  BY <1>1, InvAlways, PTL

-----------------------------------------------------------------------------
(***************************************************************************)
(* What the steps may do.                                                  *)
(***************************************************************************)
\* The token or its expiry changes for the later in Store alone.
LEMMA StaleStep == Inv /\ [Next]_vars =>
                     (cached' # cached \/ expires' > expires => expires <= Margin)
<1> SUFFICES ASSUME Inv, [Next]_vars, cached' # cached \/ expires' > expires
             PROVE  expires <= Margin
  OBVIOUS
<1>1. expires \in Nat
  BY DEF Inv, TypeOK
<1>2. ~UNCHANGED cache
  BY <1>1 DEF cache
<1>3. ~Pass
  BY <1>1, LessType DEF Pass
<1>4. PICK c \in Callers : Begin(c) \/ CallStep(c) \/ Deadline(c) \/ CutOff(c)
  BY <1>2, <1>3 DEF Next, Close, Revoke, vars
<1>5. Store(c)
  BY <1>2, <1>4 DEF Begin, CallStep, Attempt, Enter, LeaveQueue, Decide, Renew, Login,
                    Read, Backoff, Deadline, CutOff
<1> QED
  BY <1>5 DEF Store, Inv, LifeInv, CallInv

\* However many calls find the token expired at once, one of them replaces it:
\* a token that is still usable is never replaced (infisical.go:221-235).
THEOREM ReplacedOnlyWhenStale == Spec => NoWastedLogin
  BY InvAlways, StaleStep, PTL DEF Spec, NoWastedLogin

\* A step of one call leaves the others where they are.
LEMMA SetOthers ==
    ASSUME Inv, NEW c \in Callers, NEW d \in Callers, d # c, NEW r, Set(d, r)
    PROVE  call'[c] = call[c]
  BY DEF Inv, TypeOK, Set

LEMMA SetSelf ==
    ASSUME Inv, NEW c \in Callers, NEW r, Set(c, r)
    PROVE  call'[c] = r
  BY DEF Inv, TypeOK, Set

\* Where a call goes on to read: the cached token is usable, or one was granted.
LEMMA WhoHandsOut ==
    ASSUME Inv, NEW c \in Callers, NEW d \in Callers,
           Begin(d) \/ CallStep(d) \/ Deadline(d) \/ CutOff(d), HandsOut(c)
    PROVE  /\ d = c
           /\ \/ Decide(c) /\ Usable /\ HandOut(c, cached)
              \/ Store(c) /\ HandOut(c, call[c].answer.token)
<1>0. /\ call[c].pc # "read" /\ call'[c].pc = "read" /\ ~static
      /\ call[c] \in Call /\ call[d] \in Call
  BY DEF HandsOut, Inv, TypeOK
<1>1. PICK r : Set(d, r)
  BY DEF Begin, CallStep, Attempt, Enter, LeaveQueue, Decide, Renew, Login, Store, Read,
         Backoff, Deadline, CutOff, To, Finish, HandOut, Granted, NotRenewed, Retry
<1>2. d = c
  BY <1>0, <1>1, SetOthers
<1>3. ASSUME NEW pc, pc # "read" PROVE ~To(c, pc)
  BY <1>0, <1>3, SetSelf DEF To, Call
<1>4. ~Finish(c)
  BY <1>0, IdleType, SetSelf DEF Finish
<1>5. ~Begin(c) /\ ~Attempt(c) /\ ~Enter(c) /\ ~LeaveQueue(c)
  BY <1>3, <1>4 DEF Begin, Attempt, Enter, LeaveQueue
<1>6. ASSUME NEW t, NEW ttl, NEW max, NEW renewed, Granted(c, t, ttl, max, renewed)
      PROVE  FALSE
  BY <1>0, <1>6, SetSelf DEF Granted, Call
<1>7. ~NotRenewed(c)
  BY <1>3, <1>4 DEF NotRenewed
<1>8. ~Renew(c)
  BY <1>6, <1>7 DEF Renew
<1>9. ~Login(c)
  BY <1>4, <1>6 DEF Login
<1>10. ~Read(c)
  BY <1>0 DEF Read
<1>11. ~Backoff(c)
  <2> DEFINE q == [call[c] EXCEPT !.pc = "attempt", !.attempt = call[c].attempt + 1,
                                  !.tok = NoToken]
  <2>1. q.pc = "attempt"
    BY <1>0 DEF Call
  <2> HIDE DEF q
  <2>2. ~Set(c, q)
    BY <1>0, <2>1, SetSelf
  <2> QED
    BY <1>4, <2>2 DEF Backoff, q
<1>12. ~Deadline(c) /\ ~CutOff(c)
  BY <1>0, SetSelf DEF Deadline, CutOff, Call
<1>13. CASE Decide(c)
  <2>1. ~To(c, IF CanRenew THEN "renew" ELSE "login")
    BY <1>3
  <2> QED
    BY <1>0, <1>2, <1>4, <1>13, <2>1 DEF Decide
<1>14. CASE Store(c)
  BY <1>2, <1>4, <1>14 DEF Store
<1> QED
  BY <1>2, <1>5, <1>8, <1>9, <1>10, <1>11, <1>12, <1>13, <1>14 DEF CallStep

LEMMA LiveStep ==
    ASSUME Inv, [Next]_vars, NEW c \in Callers, HandsOut(c)
    PROVE  \/ call'[c].tok \in revoked \/ left[call'[c].tok] > 0
           \/ travelled' > Margin \/ travelled' >= tokenTTL'
<1>0. call[c].pc # "read" /\ call'[c].pc = "read" /\ TypeOK /\ CachedLives
  BY DEF HandsOut, Inv, LifeInv
<1>1. ~UNCHANGED vars /\ ~Close /\ ~(\E t \in Tokens : Revoke(t))
  BY <1>0 DEF vars, Close, Revoke
<1>2. ~Pass
  <2>1. CASE call[c].pc = "granted"
    <3> DEFINE b == [call[c].answer EXCEPT !.age = call[c].answer.age + 1]
    <3>1. Pass => call'[c] = [call[c] EXCEPT !.answer = b]
      BY <2>1 DEF Pass
    <3> HIDE DEF b
    <3> QED
      BY <1>0, <2>1, <3>1 DEF TypeOK, Call
  <2>2. CASE call[c].pc # "granted"
    BY <1>0, <2>2 DEF Pass
  <2> QED
    BY <2>1, <2>2
<1>3. PICK d \in Callers : Begin(d) \/ CallStep(d) \/ Deadline(d) \/ CutOff(d)
  BY <1>1, <1>2 DEF Next
<1>4. \/ Decide(c) /\ Usable /\ HandOut(c, cached)
      \/ Store(c) /\ HandOut(c, call[c].answer.token)
  BY <1>3, WhoHandsOut
<1>5. \A t : HandOut(c, t) => call'[c].tok = t
  BY <1>0, SetSelf DEF HandOut, TypeOK, Call
<1>6. CASE Decide(c) /\ Usable /\ HandOut(c, cached)
  <2>1. cached \in Tokens /\ left[cached] \in Nat /\ expires \in Nat
        /\ Margin \in Nat /\ travelled \in Nat /\ expires > Margin
    BY <1>0, <1>6, Constants DEF TypeOK, Usable
  <2>2. cached \in revoked \/ left[cached] > 0 \/ travelled > Margin
    BY <1>0, <1>6, <2>1 DEF CachedLives, Usable
  <2>3. travelled' = travelled
    BY <1>6 DEF Decide, cache
  <2> QED
    BY <1>5, <1>6, <2>2, <2>3
<1>7. CASE Store(c) /\ HandOut(c, call[c].answer.token)
  <2>1. ~Finish(c)
    BY <1>0, IdleType, SetSelf DEF Finish
  <2>2. travelled' = call[c].answer.age /\ tokenTTL' = call[c].answer.ttl
    BY <1>7, <2>1 DEF Store
  <2>3. \/ call[c].answer.token \in revoked \/ left[call[c].answer.token] > 0
        \/ call[c].answer.age >= call[c].answer.ttl
    BY <1>7, StoredLives DEF Store
  <2> QED
    BY <1>5, <1>7, <2>2, <2>3
<1> QED
  BY <1>4, <1>6, <1>7

\* However long answers travel, a token is handed out for a read only while the
\* server knows it, unless it was revoked, or its answer travelled longer than
\* the margin of five seconds or the life of the token (infisical.go:217,
\* 233-235, 265-270).
THEOREM HandsOutAlive == Spec => HandsOutLive
<1>1. Inv /\ [Next]_vars => (\A c \in Callers : HandsOut(c) =>
                               \/ call'[c].tok \in revoked \/ left[call'[c].tok] > 0
                               \/ travelled' > Margin \/ travelled' >= tokenTTL')
  BY LiveStep
<1> QED
  BY <1>1, InvAlways, PTL DEF Spec, HandsOutLive

=============================================================================
