------------------------------ MODULE Monitor ------------------------------
(***************************************************************************)
(* monitoring/monitor.go and the goroutines that meet in it: its own loop, *)
(* which sends a copy of the metrics to every listener, the holders of the *)
(* listeners, driver.Stop, and the rotation goroutine of driver.go, whose  *)
(* heartbeat CheckTickerHealth judges and whose rounds count rotations.    *)
(*                                                                         *)
(* Closing a closed channel and sending on one panic.  The critical        *)
(* sections under listenersMu are single steps, but for the sending loop   *)
(* of notifyListeners, which holds the read lock over its sends.           *)
(***************************************************************************)
EXTENDS Integers, SequencesExt

CONSTANTS
    Channels,   \* the channels AddListener makes
    Readers,    \* those whose holders keep reading
    Buffer,     \* their capacity: 10 in the code
    Interval,   \* the rotation interval, in units of time
    MaxRound,   \* bound: how long checkForSecretChanges takes
    MaxCount,   \* bound: the rotations and the errors counted
    None

ASSUME ChannelAssumption == Readers \subseteq Channels
ASSUME NoneAssumption    == None \notin Channels /\ None \notin Nat
ASSUME ClockAssumption   == Interval \in Nat \ {0} /\ MaxRound \in Nat /\ MaxCount \in Nat
ASSUME BufferAssumption  == Buffer \in Nat \ {0}

Metrics == [rotations : 0 .. MaxCount, errors : 0 .. MaxCount]
a \preceq b == a.rotations <= b.rotations /\ a.errors <= b.errors

VARIABLES
    metrics,    \* m.metrics: the counters
    listeners,  \* m.listeners
    sawNone,    \* m.listeners was empty at some time since the loop read its length
    chan,       \* chan[c]: made, closed, and what is in its buffer
    loop,       \* monitorLoop: where it is, its copy of the metrics, whom it has yet to send to
    seen,       \* seen[c]: what the holder of c read last
    stop,       \* Stop: "no", "cancelled", "done"
    panicked,
    ticker,     \* the rotation ticker: time to its next tick, and whether one is waiting
    round,      \* the rotation round going on: how long it has been, or None
    beat        \* the age of TickerHeartbeat, or None

lists  == <<listeners, sawNone, chan, seen, stop, panicked>>
rounds == <<ticker, round, beat>>
vars   == <<metrics, listeners, sawNone, chan, loop, seen, stop, panicked,
            ticker, round, beat>>

NoCounts == [rotations |-> 0, errors |-> 0]
Waiting  == [pc |-> "select", msg |-> NoCounts, todo |-> <<>>]

Init == /\ metrics = NoCounts
        /\ listeners = <<>>
        /\ sawNone = TRUE
        /\ chan = [c \in Channels |-> [made |-> FALSE, closed |-> FALSE, buf |-> <<>>]]
        /\ loop = Waiting
        /\ seen = [c \in Channels |-> NoCounts]
        /\ stop = "no"
        /\ panicked = FALSE
        /\ ticker = [left |-> Interval, pending |-> FALSE]
        /\ round = None
        /\ beat = None

-----------------------------------------------------------------------------
(***************************************************************************)
(* Listeners.  Writers of m.listeners wait for the loop's read lock.       *)
(***************************************************************************)
CanWriteAlways == TRUE
CanWrite == loop.pc # "send"

SetListeners(ls) == /\ listeners' = ls
                    /\ sawNone' = (sawNone \/ ls = <<>>)

Close(cs) == /\ chan' = [c \in Channels |->
                           IF c \in cs THEN [chan[c] EXCEPT !.closed = TRUE] ELSE chan[c]]
             /\ panicked' = (panicked \/ \E c \in cs : chan[c].closed)

AddListener(c) == /\ CanWrite
                  /\ ~chan[c].made
                  /\ chan' = [chan EXCEPT ![c].made = TRUE]
                  /\ SetListeners(Append(listeners, c))
                  /\ UNCHANGED <<metrics, loop, seen, stop, panicked, rounds>>

RemoveListenerLeavesNil(c) ==
    /\ CanWrite
    /\ Contains(listeners, c)
    /\ Close({c})
    /\ SetListeners([i \in DOMAIN listeners |-> IF listeners[i] = c THEN None
                                                                ELSE listeners[i]])
    /\ UNCHANGED <<metrics, loop, seen, stop, rounds>>
RemoveListener(c) ==
    /\ CanWrite
    /\ \E i \in DOMAIN listeners :
          /\ listeners[i] = c
          /\ \A j \in 1 .. i - 1 : listeners[j] # c
          /\ SetListeners(RemoveAt(listeners, i))
    /\ Close({c})
    /\ UNCHANGED <<metrics, loop, seen, stop, rounds>>

\* A closed channel still hands out what is in its buffer.
Read(c) == /\ chan[c].buf # <<>>
           /\ seen' = [seen EXCEPT ![c] = Head(chan[c].buf)]
           /\ chan' = [chan EXCEPT ![c].buf = Tail(@)]
           /\ UNCHANGED <<metrics, listeners, sawNone, loop, stop, panicked, rounds>>

\* driver.Stop cancels the rotation goroutine and then the monitor.
Cancel == /\ stop = "no"
          /\ stop' = "cancelled"
          /\ UNCHANGED <<metrics, listeners, sawNone, chan, loop, seen, panicked, rounds>>

CloseAll ==
    /\ CanWrite
    /\ stop = "cancelled"
    /\ stop' = "done"
    /\ Close(ToSet(listeners))
    /\ SetListeners(<<>>)
    /\ UNCHANGED <<metrics, loop, seen, rounds>>

-----------------------------------------------------------------------------
(***************************************************************************)
(* monitorLoop.  A tick and the cancellation may both be there for select  *)
(* to choose from.                                                         *)
(***************************************************************************)
Goto(pc) == loop' = [loop EXCEPT !.pc = pc]

LoopStops == /\ loop.pc = "select"
             /\ stop # "no"
             /\ Goto("gone")
             /\ UNCHANGED <<metrics, lists, rounds>>

\* The length is read without the lock: it may be one that is no longer true.
LoopTick ==
    /\ loop.pc = "select"
    /\ \/ (listeners # <<>> \/ ~sawNone) /\ Goto("copy")
       \/ (listeners = <<>> \/ sawNone) /\ UNCHANGED loop
    /\ sawNone' = (listeners = <<>>)
    /\ UNCHANGED <<metrics, listeners, chan, seen, stop, panicked, rounds>>

GetMetrics == /\ loop.pc = "copy"
              /\ loop' = [loop EXCEPT !.pc = "lock", !.msg = metrics]
              /\ UNCHANGED <<metrics, lists, rounds>>

RLock == /\ loop.pc = "lock"
         /\ loop' = [loop EXCEPT !.pc = "send", !.todo = listeners]
         /\ UNCHANGED <<metrics, lists, rounds>>

\* A full channel misses the update.
SendOrWait ==
    /\ loop.pc = "send"
    /\ loop.todo # <<>>
    /\ LET c == Head(loop.todo) IN
          /\ Len(chan[c].buf) < Buffer
          /\ chan' = [chan EXCEPT ![c].buf = Append(@, loop.msg)]
          /\ panicked' = (panicked \/ chan[c].closed)
    /\ loop' = [loop EXCEPT !.todo = Tail(@)]
    /\ UNCHANGED <<metrics, listeners, sawNone, seen, stop, rounds>>
SendOrReturn ==
    /\ loop.pc = "send"
    /\ loop.todo # <<>>
    /\ LET c == Head(loop.todo) IN
          \/ /\ Len(chan[c].buf) < Buffer
             /\ chan' = [chan EXCEPT ![c].buf = Append(@, loop.msg)]
             /\ loop' = [loop EXCEPT !.todo = Tail(@)]
          \/ /\ Len(chan[c].buf) >= Buffer
             /\ UNCHANGED chan
             /\ loop' = [loop EXCEPT !.todo = <<>>]
    /\ UNCHANGED <<metrics, listeners, sawNone, seen, stop, panicked, rounds>>
Send ==
    /\ loop.pc = "send"
    /\ loop.todo # <<>>
    /\ LET c == Head(loop.todo) IN
          /\ chan' = IF ~chan[c].closed /\ Len(chan[c].buf) < Buffer
                     THEN [chan EXCEPT ![c].buf = Append(@, loop.msg)] ELSE chan
          /\ panicked' = (panicked \/ chan[c].closed)
    /\ loop' = [loop EXCEPT !.todo = Tail(@)]
    /\ UNCHANGED <<metrics, listeners, sawNone, seen, stop, rounds>>

RUnlock == /\ loop.pc = "send"
           /\ loop.todo = <<>>
           /\ loop' = Waiting
           /\ UNCHANGED <<metrics, lists, rounds>>

-----------------------------------------------------------------------------
(***************************************************************************)
(* The rotation goroutine.  Its ticker keeps one tick for it and drops     *)
(* those that come while that one waits.  Time does not pass while the     *)
(* goroutine could go on: it is slow only in its rounds.                   *)
(***************************************************************************)
MaxAge == 3 * Interval
Healthy == beat = None \/ beat < MaxAge

Elapse ==
    /\ ticker.pending => round # None \/ stop # "no"
    /\ round # None => round < MaxRound
    /\ ticker' = IF ticker.left > 1 THEN [ticker EXCEPT !.left = @ - 1]
                                    ELSE [left |-> Interval, pending |-> TRUE]
    /\ round' = IF round = None THEN None ELSE round + 1
    /\ beat' = IF beat = None THEN None ELSE IF beat < MaxAge THEN beat + 1 ELSE beat
    /\ UNCHANGED <<metrics, lists, loop>>

StartRoundSilently ==
    /\ round = None
    /\ ticker.pending
    /\ ticker' = [ticker EXCEPT !.pending = FALSE]
    /\ round' = 0
    /\ UNCHANGED <<metrics, lists, loop, beat>>
StartRound ==
    /\ round = None
    /\ ticker.pending
    /\ ticker' = [ticker EXCEPT !.pending = FALSE]
    /\ beat' = 0
    /\ round' = 0
    /\ UNCHANGED <<metrics, lists, loop>>

EndRound == /\ round # None
            /\ round' = None
            /\ UNCHANGED <<metrics, lists, loop, ticker, beat>>

IncrementSecretRotations ==
    /\ round # None
    /\ metrics.rotations < MaxCount
    /\ metrics' = [metrics EXCEPT !.rotations = @ + 1]
    /\ UNCHANGED <<lists, loop, rounds>>

IncrementRotationErrors ==
    /\ round # None
    /\ metrics.errors < MaxCount
    /\ metrics' = [metrics EXCEPT !.errors = @ + 1]
    /\ UNCHANGED <<lists, loop, rounds>>

-----------------------------------------------------------------------------
Holders  == \E c \in Channels : AddListener(c) \/ RemoveListener(c) \/ Read(c)
LoopStep == LoopTick \/ GetMetrics \/ RLock \/ Send \/ RUnlock
Rotation == \/ Elapse \/ StartRound \/ EndRound
            \/ IncrementSecretRotations \/ IncrementRotationErrors
Next     == Holders \/ Cancel \/ CloseAll \/ LoopStops \/ LoopStep \/ Rotation

Spec == Init /\ [][Next]_vars

\* Goroutines go on and time passes.  AddListener, RemoveListener, Stop and the
\* rotations are up to others, and only the Readers are sure to read.  A
\* waiting writer of a sync.RWMutex keeps new readers out.
Fairness == /\ WF_vars(LoopStep)
            /\ SF_vars(CloseAll)
            /\ WF_vars(Elapse \/ StartRound)
            /\ WF_vars(EndRound)
            /\ \A c \in Readers : WF_vars(Read(c))

FairSpec == Spec /\ Fairness

-----------------------------------------------------------------------------
\* The types of the variables of the monitor and of the rotation goroutine.
TypeOK ==
    /\ metrics \in Metrics
    /\ listeners \in Seq(Channels)
    /\ sawNone \in BOOLEAN
    /\ chan \in [Channels -> [made : BOOLEAN, closed : BOOLEAN, buf : Seq(Metrics)]]
    /\ loop \in [pc : {"select", "copy", "lock", "send", "gone"},
                 msg : Metrics, todo : Seq(Channels)]
    /\ seen \in [Channels -> Metrics]
    /\ stop \in {"no", "cancelled", "done"}
    /\ panicked \in BOOLEAN
    /\ ticker \in [left : 1 .. Interval, pending : BOOLEAN]
    /\ round \in 0 .. MaxRound \cup {None}
    /\ beat \in 0 .. MaxAge \cup {None}

\* What NoPanic rests on: a channel is registered once, and closed only when it
\* goes; and those the loop has yet to send to are registered.
Registered ==
    /\ \A i, j \in DOMAIN listeners : listeners[i] = listeners[j] => i = j
    /\ \A i \in DOMAIN listeners : chan[listeners[i]].made /\ ~chan[listeners[i]].closed
    /\ \A c \in Channels : chan[c].closed => chan[c].made
    /\ loop.pc = "send" => \A i \in DOMAIN loop.todo :
                             \E j \in DOMAIN listeners : listeners[j] = loop.todo[i]

\* What AlarmMeansLate rests on: a round is as old as the heartbeat, which it
\* began with, and as long as no tick waits the heartbeat is of this interval.
Clocks == /\ round # None => beat = IF round < MaxAge THEN round ELSE MaxAge
          /\ beat # None /\ ~ticker.pending => beat + ticker.left <= Interval

Inv == TypeOK /\ Registered /\ Clocks

\* However AddListener, RemoveListener, Stop and the sends of notifyListeners
\* interleave, no closed channel is sent on or closed again.
NoPanic == ~panicked

\* CheckTickerHealth raises the alarm exactly while a round of rotations has
\* been going on for three intervals, and until the next one starts: never
\* between rounds, and not for the ticks that a slow round makes the ticker drop.
AlarmMeansLate ==
    stop = "no" /\ (round = None => ~ticker.pending) =>
        (~Healthy <=> round # None /\ round >= MaxAge)

\* Stop comes to an end and closes every channel registered at the time, also
\* those whose holders have stopped reading.
StopCloses == \A c \in Channels :
    stop = "cancelled" /\ Contains(listeners, c) ~> chan[c].closed /\ stop = "done"

\* A listener that keeps reading learns of every rotation, whether or not the
\* others read: an update it misses is made up for by a later one.
ReaderLearns == \A c \in Readers, m \in Metrics :
    metrics = m /\ Contains(listeners, c) ~> m \preceq seen[c] \/ chan[c].closed \/ stop # "no"
=============================================================================
