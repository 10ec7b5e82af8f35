--------------------------- MODULE MonitorProofs ---------------------------
(***************************************************************************)
(* Proofs about Monitor: the listeners' channels and the heartbeat.  The   *)
(* invariant Inv is inductive; NoPanic and AlarmMeansLate follow from it   *)
(* and from what the steps do to panicked.                                 *)
(***************************************************************************)
EXTENDS Monitor, SequenceTheorems, TLAPS

Loops == [pc : {"select", "copy", "lock", "send", "gone"}, msg : Metrics, todo : Seq(Channels)]
Chans == [made : BOOLEAN, closed : BOOLEAN, buf : Seq(Metrics)]

LEMMA Numbers == /\ MaxAge \in Nat /\ Interval \in Nat /\ Interval >= 1 /\ 3 * Interval = MaxAge
                 /\ MaxRound \in Nat /\ MaxCount \in Nat /\ None \notin Nat
BY ClockAssumption, NoneAssumption DEF MaxAge

\* RemoveAt takes one element out and leaves the others in their order.
LEMMA RemoveAtProperties ==
    ASSUME NEW S, NEW s \in Seq(S), NEW i \in 1 .. Len(s)
    PROVE  /\ RemoveAt(s, i) \in Seq(S)
           /\ Len(RemoveAt(s, i)) = Len(s) - 1
           /\ \A j \in 1 .. Len(s) - 1 :
                 RemoveAt(s, i)[j] = IF j < i THEN s[j] ELSE s[j + 1]
<1> DEFINE a == SubSeq(s, 1, i - 1)
           b == SubSeq(s, i + 1, Len(s))
<1>1. Len(s) \in Nat /\ \A j \in 1 .. Len(s) : s[j] \in S
  BY LenProperties, ElementOfSeq
<1>2. a \in Seq(S) /\ Len(a) = i - 1 /\ \A j \in 1 .. i - 1 : a[j] = s[j]
  <2>1. \A j \in 1 .. i - 1 : s[j] \in S
    BY <1>1
  <2> QED
    BY <1>1, <2>1, SubSeqProperties
<1>3. b \in Seq(S) /\ Len(b) = Len(s) - i /\ \A j \in 1 .. Len(s) - i : b[j] = s[j + i]
  <2>1. \A j \in i + 1 .. Len(s) : s[j] \in S
    BY <1>1
  <2>2. /\ b \in Seq(S)
        /\ Len(b) = IF i + 1 <= Len(s) THEN Len(s) - (i + 1) + 1 ELSE 0
        /\ \A j \in 1 .. Len(s) - (i + 1) + 1 : b[j] = s[i + 1 + j - 1]
    BY <1>1, <2>1, SubSeqProperties
  <2> QED
    BY <1>1, <2>2
<1> HIDE DEF a, b
<1>4. /\ a \o b \in Seq(S)
      /\ Len(a \o b) = Len(a) + Len(b)
      /\ \A j \in 1 .. Len(a) + Len(b) : (a \o b)[j] = IF j <= Len(a) THEN a[j] ELSE b[j - Len(a)]
  BY <1>2, <1>3, ConcatProperties
<1>5. ASSUME NEW j \in 1 .. Len(s) - 1
      PROVE  (a \o b)[j] = IF j < i THEN s[j] ELSE s[j + 1]
  <2>1. CASE j < i
    BY <1>1, <1>2, <1>3, <1>4, <2>1
  <2>2. CASE ~(j < i)
    <3>1. (a \o b)[j] = b[j - (i - 1)] /\ j - (i - 1) \in 1 .. Len(s) - i
      BY <1>1, <1>2, <1>3, <1>4, <2>2
    <3>2. b[j - (i - 1)] = s[j - (i - 1) + i]
      BY <1>3, <3>1
    <3> QED
      BY <2>2, <3>1, <3>2, <1>1
  <2> QED
    BY <2>1, <2>2
<1>6. RemoveAt(s, i) = a \o b
  BY DEF RemoveAt, a, b
<1> QED
  BY <1>1, <1>2, <1>3, <1>4, <1>5, <1>6

-----------------------------------------------------------------------------
LEMMA InitInv == Init => Inv
<1> SUFFICES ASSUME Init PROVE Inv
  OBVIOUS
<1>1. NoCounts \in Metrics
  BY Numbers DEF NoCounts, Metrics
<1>2. <<>> \in Seq(Channels) /\ <<>> \in Seq(Metrics) /\ DOMAIN <<>> = {}
  BY EmptySeq
<1>3. TypeOK
  <2>1. metrics \in Metrics /\ listeners \in Seq(Channels) /\ seen \in [Channels -> Metrics]
    BY <1>1, <1>2 DEF Init
  <2>2. chan \in [Channels -> Chans]
    BY <1>2 DEF Init, Chans
  <2>3. loop \in Loops
    BY <1>1, <1>2 DEF Init, Waiting, Loops
  <2>4. ticker \in [left : 1 .. Interval, pending : BOOLEAN]
    BY Numbers DEF Init
  <2>5. round = None /\ beat = None /\ sawNone \in BOOLEAN /\ panicked \in BOOLEAN
    BY DEF Init
  <2> QED
    BY <2>1, <2>2, <2>3, <2>4, <2>5 DEF Init, TypeOK, Chans, Loops
<1>4. /\ listeners = <<>> /\ loop.pc = "select" /\ round = None /\ beat = None
      /\ \A c \in Channels : ~chan[c].closed
  BY DEF Init, Waiting
<1>5. Registered
  BY <1>2, <1>4 DEF Registered
<1> QED
  BY <1>3, <1>4, <1>5 DEF Inv, Clocks

-----------------------------------------------------------------------------
(***************************************************************************)
(* The steps of the holders and of Stop.                                   *)
(***************************************************************************)
\* Clocks is about the rotation goroutine alone.
LEMMA ClocksStay ==
    ASSUME Clocks, UNCHANGED rounds
    PROVE  Clocks'
BY DEF Clocks, rounds

LEMMA CloseType ==
    ASSUME TypeOK, NEW cs \in SUBSET Channels, Close(cs)
    PROVE  /\ chan' \in [Channels -> Chans]
           /\ panicked' \in BOOLEAN
           /\ \A d \in Channels : chan'[d].made = chan[d].made
           /\ \A d \in Channels \ cs : chan'[d].closed = chan[d].closed
<1>1. \A d \in Channels : [chan[d] EXCEPT !.closed = TRUE] \in Chans
  BY DEF TypeOK, Chans
<1> QED
  BY <1>1 DEF Close, TypeOK, Chans

LEMMA AddListenerInv ==
    ASSUME Inv, NEW c \in Channels, AddListener(c)
    PROVE  Inv'
<1>1. /\ listeners \in Seq(Channels) /\ Len(listeners) \in Nat
      /\ DOMAIN listeners = 1 .. Len(listeners)
      /\ \A i \in 1 .. Len(listeners) : listeners[i] \in Channels
  BY LenProperties, ElementOfSeq DEF Inv, TypeOK
<1>2. listeners' = Append(listeners, c)
  BY DEF AddListener, SetListeners
<1>3. /\ listeners' \in Seq(Channels)
      /\ DOMAIN listeners' = 1 .. Len(listeners) + 1
      /\ \A i \in 1 .. Len(listeners) : listeners'[i] = listeners[i]
      /\ listeners'[Len(listeners) + 1] = c
  <2>1. /\ Append(listeners, c) \in Seq(Channels)
        /\ Len(Append(listeners, c)) = Len(listeners) + 1
        /\ \A i \in 1 .. Len(listeners) : Append(listeners, c)[i] = listeners[i]
        /\ Append(listeners, c)[Len(listeners) + 1] = c
    BY <1>1, AppendProperties
  <2>2. DOMAIN Append(listeners, c) = 1 .. Len(Append(listeners, c))
    BY <2>1, LenProperties
  <2> QED
    BY <1>2, <2>1, <2>2
<1>4. /\ chan' \in [Channels -> Chans]
      /\ \A d \in Channels : chan'[d].closed = chan[d].closed
      /\ \A d \in Channels \ {c} : chan'[d] = chan[d]
      /\ chan'[c].made
  <2>1. [chan[c] EXCEPT !.made = TRUE] \in Chans
    BY DEF Inv, TypeOK, Chans
  <2> QED
    BY <2>1 DEF AddListener, Inv, TypeOK, Chans
<1>5. \A i \in DOMAIN listeners : listeners[i] # c
  BY DEF AddListener, Inv, Registered
<1>6. ~chan[c].closed /\ CanWrite
  BY DEF AddListener, Inv, Registered, TypeOK, Chans
<1>7. TypeOK'
  <2>1. sawNone' \in BOOLEAN
    BY DEF AddListener, SetListeners, Inv, TypeOK
  <2> QED
    BY <1>3, <1>4, <2>1 DEF AddListener, Inv, TypeOK, Chans, rounds
<1>8. Registered'
  <2>1. ASSUME NEW i \in DOMAIN listeners', NEW j \in DOMAIN listeners',
               listeners'[i] = listeners'[j]
        PROVE  i = j
    BY <1>1, <1>3, <1>5, <2>1 DEF Inv, Registered
  <2>2. ASSUME NEW i \in DOMAIN listeners'
        PROVE  chan'[listeners'[i]].made /\ ~chan'[listeners'[i]].closed
    <3>1. CASE i = Len(listeners) + 1
      BY <1>3, <1>4, <1>6, <3>1
    <3>2. CASE i \in 1 .. Len(listeners)
      BY <1>1, <1>3, <1>4, <1>5, <3>2 DEF Inv, Registered
    <3> QED
      BY <1>1, <1>3, <3>1, <3>2
  <2>3. \A d \in Channels : chan'[d].closed => chan'[d].made
    BY <1>4, <1>6 DEF Inv, Registered
  <2>4. loop'.pc # "send"
    BY <1>6 DEF AddListener, CanWrite
  <2> QED
    BY <2>1, <2>2, <2>3, <2>4 DEF Registered
<1>9. Clocks'
  BY ClocksStay DEF AddListener, Inv
<1> QED
  BY <1>7, <1>8, <1>9 DEF Inv

\* The writers of the list find the loop elsewhere, and leave it there.
LEMMA RegisteredLater ==
    ASSUME Inv, CanWrite, UNCHANGED loop, listeners' \in Seq(Channels),
           chan' \in [Channels -> Chans],
           \A i, j \in 1 .. Len(listeners') : listeners'[i] = listeners'[j] => i = j,
           \A i \in 1 .. Len(listeners') : chan'[listeners'[i]].made /\ ~chan'[listeners'[i]].closed,
           \A d \in Channels : chan'[d].closed => chan'[d].made
    PROVE  Registered'
<1>1. DOMAIN listeners' = 1 .. Len(listeners')
  BY LenProperties
<1> QED
  BY <1>1 DEF Registered, CanWrite

LEMMA RemoveListenerInv ==
    ASSUME Inv, NEW c \in Channels, RemoveListener(c)
    PROVE  Inv'
<1>1. /\ listeners \in Seq(Channels) /\ Len(listeners) \in Nat
      /\ DOMAIN listeners = 1 .. Len(listeners)
      /\ \A i \in 1 .. Len(listeners) : listeners[i] \in Channels
  BY LenProperties, ElementOfSeq DEF Inv, TypeOK
<1>2. PICK i \in 1 .. Len(listeners) :
         listeners[i] = c /\ SetListeners(RemoveAt(listeners, i))
  BY <1>1 DEF RemoveListener
<1> DEFINE From(j) == IF j < i THEN j ELSE j + 1
<1>3. /\ listeners' \in Seq(Channels)
      /\ Len(listeners') = Len(listeners) - 1
      /\ \A j \in 1 .. Len(listeners') :
            From(j) \in (1 .. Len(listeners)) \ {i} /\ listeners'[j] = listeners[From(j)]
  <2>1. /\ RemoveAt(listeners, i) \in Seq(Channels)
        /\ Len(RemoveAt(listeners, i)) = Len(listeners) - 1
        /\ \A j \in 1 .. Len(listeners) - 1 :
              RemoveAt(listeners, i)[j] = IF j < i THEN listeners[j] ELSE listeners[j + 1]
    BY <1>1, RemoveAtProperties
  <2>2. \A j \in 1 .. Len(listeners) - 1 : From(j) \in (1 .. Len(listeners)) \ {i}
    BY <1>1
  <2> QED
    BY <1>2, <2>1, <2>2 DEF SetListeners
<1>4. /\ chan' \in [Channels -> Chans] /\ panicked' \in BOOLEAN
      /\ \A d \in Channels : chan'[d].made = chan[d].made
      /\ \A d \in Channels \ {c} : chan'[d].closed = chan[d].closed
  <2>1. Close({c}) /\ TypeOK
    BY DEF RemoveListener, Inv
  <2> QED
    BY <2>1, CloseType
<1>5. \A j, k \in 1 .. Len(listeners) : listeners[j] = listeners[k] => j = k
  BY <1>1 DEF Inv, Registered
<1>6. TypeOK'
  <2>1. sawNone' \in BOOLEAN
    BY <1>2 DEF SetListeners, Inv, TypeOK
  <2> QED
    BY <1>3, <1>4, <2>1 DEF RemoveListener, Inv, TypeOK, Chans, rounds
<1>7. Registered'
  <2>1. ASSUME NEW j \in 1 .. Len(listeners'), NEW k \in 1 .. Len(listeners'),
               listeners'[j] = listeners'[k]
        PROVE  j = k
    <3>1. From(j) = From(k)
      BY <1>3, <1>5, <2>1
    <3> QED
      BY <1>1, <1>3, <3>1
  <2>2. ASSUME NEW j \in 1 .. Len(listeners')
        PROVE  chan'[listeners'[j]].made /\ ~chan'[listeners'[j]].closed
    <3>1. From(j) \in 1 .. Len(listeners) /\ From(j) # i /\ listeners'[j] = listeners[From(j)]
      BY <1>3
    <3>2. listeners'[j] \in Channels \ {c}
      BY <1>1, <1>2, <1>5, <3>1
    <3>3. chan[listeners[From(j)]].made /\ ~chan[listeners[From(j)]].closed
      BY <1>1, <3>1 DEF Inv, Registered
    <3> QED
      BY <1>4, <3>1, <3>2, <3>3
  <2>3. chan[c].made
    BY <1>1, <1>2 DEF Inv, Registered
  <2>4. \A d \in Channels : chan'[d].closed => chan'[d].made
    BY <1>4, <2>3 DEF Inv, Registered
  <2> QED
    BY <1>3, <1>4, <2>1, <2>2, <2>4, RegisteredLater DEF RemoveListener
<1>8. Clocks'
  BY ClocksStay DEF RemoveListener, Inv
<1> QED
  BY <1>6, <1>7, <1>8 DEF Inv

LEMMA CloseAllInv ==
    ASSUME Inv, CloseAll
    PROVE  Inv'
<1>1. /\ listeners \in Seq(Channels) /\ Len(listeners) \in Nat
      /\ DOMAIN listeners = 1 .. Len(listeners)
      /\ \A i \in 1 .. Len(listeners) : listeners[i] \in Channels
  BY LenProperties, ElementOfSeq DEF Inv, TypeOK
<1>2. ToSet(listeners) \in SUBSET Channels /\ Close(ToSet(listeners)) /\ TypeOK
  BY <1>1 DEF ToSet, CloseAll, Inv
<1>3. /\ chan' \in [Channels -> Chans] /\ panicked' \in BOOLEAN
      /\ \A d \in Channels : chan'[d].made = chan[d].made
      /\ \A d \in Channels \ ToSet(listeners) : chan'[d].closed = chan[d].closed
  BY <1>2, CloseType
<1>4. listeners' = <<>> /\ sawNone' \in BOOLEAN
  BY DEF CloseAll, SetListeners, Inv, TypeOK
<1>5. listeners' \in Seq(Channels) /\ Len(listeners') = 0
  BY <1>4, EmptySeq
<1>6. TypeOK'
  BY <1>3, <1>4, <1>5 DEF CloseAll, Inv, TypeOK, Chans, rounds
<1>7. Registered'
  <2>1. \A d \in Channels : chan'[d].closed => chan'[d].made
    <3>1. \A d \in ToSet(listeners) : chan[d].made
      BY <1>1 DEF ToSet, Inv, Registered
    <3> QED
      BY <1>3, <3>1 DEF Inv, Registered
  <2> QED
    BY <1>3, <1>5, <2>1, RegisteredLater DEF CloseAll
<1>8. Clocks'
  BY ClocksStay DEF CloseAll, Inv
<1> QED
  BY <1>6, <1>7, <1>8 DEF Inv

\* Whoever only takes from the buffers or puts into them leaves the rest be.
LEMMA RegisteredStays ==
    ASSUME Registered, UNCHANGED listeners, TypeOK,
           \A d \in Channels : chan'[d].made = chan[d].made /\ chan'[d].closed = chan[d].closed,
           loop'.pc = "send" => \A i \in DOMAIN loop'.todo :
                                   \E j \in DOMAIN listeners : listeners[j] = loop'.todo[i]
    PROVE  Registered'
<1>1. \A i \in DOMAIN listeners : listeners[i] \in Channels
  BY LenProperties, ElementOfSeq DEF TypeOK
<1> QED
  BY <1>1 DEF Registered

LEMMA ReadInv ==
    ASSUME Inv, NEW c \in Channels, Read(c)
    PROVE  Inv'
<1> DEFINE buf == chan[c].buf
<1>1. buf \in Seq(Metrics) /\ buf # <<>> /\ chan[c] \in Chans
  BY DEF Read, Inv, TypeOK, Chans
<1>2. Head(buf) \in Metrics /\ Tail(buf) \in Seq(Metrics)
  BY <1>1, HeadTailProperties
<1>3. [chan[c] EXCEPT !.buf = Tail(buf)] \in Chans
  BY <1>1, <1>2 DEF Chans
<1>4. chan' = [chan EXCEPT ![c] = [chan[c] EXCEPT !.buf = Tail(buf)]]
  BY DEF Read, Inv, TypeOK
<1>5. /\ chan' \in [Channels -> Chans]
      /\ \A d \in Channels : chan'[d].made = chan[d].made /\ chan'[d].closed = chan[d].closed
  BY <1>1, <1>3, <1>4 DEF Inv, TypeOK, Chans
<1>6. TypeOK'
  BY <1>2, <1>5 DEF Read, Inv, TypeOK, Chans, rounds
<1>7. Registered'
  BY <1>5, RegisteredStays DEF Read, Inv, Registered
<1>8. Clocks'
  BY ClocksStay DEF Read, Inv
<1> QED
  BY <1>6, <1>7, <1>8 DEF Inv

-----------------------------------------------------------------------------
(***************************************************************************)
(* The steps of monitorLoop.                                               *)
(***************************************************************************)
LEMMA LoopStepsInv ==
    ASSUME Inv, LoopStops \/ LoopTick \/ GetMetrics \/ RLock \/ RUnlock
    PROVE  Inv'
<1>1. /\ loop \in Loops
      /\ UNCHANGED <<metrics, listeners, chan, seen, stop, panicked, rounds>>
      /\ sawNone' \in BOOLEAN
  BY DEF Inv, TypeOK, Loops, LoopStops, LoopTick, GetMetrics, RLock, RUnlock, lists
<1>2. loop' \in Loops /\ (loop'.pc = "send" => loop'.todo = listeners)
  <2>1. CASE LoopStops
    BY <1>1, <2>1 DEF LoopStops, Goto, Loops
  <2>2. CASE LoopTick
    BY <1>1, <2>2 DEF LoopTick, Goto, Loops
  <2>3. CASE GetMetrics
    BY <1>1, <2>3 DEF GetMetrics, Loops, Inv, TypeOK
  <2>4. CASE RLock
    BY <1>1, <2>4 DEF RLock, Loops, Inv, TypeOK
  <2>5. CASE RUnlock
    <3>1. NoCounts \in Metrics /\ <<>> \in Seq(Channels)
      BY Numbers, EmptySeq DEF NoCounts, Metrics
    <3> QED
      BY <2>5, <3>1 DEF RUnlock, Waiting, Loops
  <2> QED
    BY <2>1, <2>2, <2>3, <2>4, <2>5
<1>3. TypeOK'
  BY <1>1, <1>2 DEF Inv, TypeOK, Loops, rounds
<1>4. Registered'
  BY <1>1, <1>2, RegisteredStays DEF Inv
<1>5. Clocks'
  BY <1>1, ClocksStay DEF Inv
<1> QED
  BY <1>3, <1>4, <1>5 DEF Inv

\* The channel the loop sends to is registered, and so it is not closed.
LEMMA SendInv ==
    ASSUME Inv, Send
    PROVE  Inv' /\ UNCHANGED panicked
<1> DEFINE todo == loop.todo
           c == Head(todo)
<1>1. todo \in Seq(Channels) /\ todo # <<>> /\ loop \in Loops /\ loop.pc = "send"
  BY DEF Send, Inv, TypeOK, Loops
<1>2. /\ c \in Channels /\ c = todo[1] /\ Tail(todo) \in Seq(Channels)
      /\ DOMAIN todo = 1 .. Len(todo) /\ Len(todo) \in Nat /\ Len(todo) >= 1
      /\ DOMAIN Tail(todo) = 1 .. Len(todo) - 1
      /\ \A i \in 1 .. Len(todo) - 1 : Tail(todo)[i] = todo[i + 1]
  <2>1. /\ Head(todo) \in Channels /\ Tail(todo) \in Seq(Channels)
        /\ Len(Tail(todo)) = Len(todo) - 1
        /\ \A i \in 1 .. Len(Tail(todo)) : Tail(todo)[i] = todo[i + 1]
    BY <1>1, HeadTailProperties
  <2>2. DOMAIN todo = 1 .. Len(todo) /\ Len(todo) \in Nat \ {0}
    BY <1>1, LenProperties, EmptySeq
  <2>3. DOMAIN Tail(todo) = 1 .. Len(Tail(todo))
    BY <2>1, LenProperties
  <2> QED
    BY <2>1, <2>2, <2>3
<1>3. PICK j \in DOMAIN listeners : listeners[j] = c
  BY <1>1, <1>2 DEF Inv, Registered
<1>4. ~chan[c].closed
  BY <1>3 DEF Inv, Registered
<1>5. chan[c] \in Chans /\ loop.msg \in Metrics
  BY <1>1, <1>2 DEF Inv, TypeOK, Chans, Loops
<1>6. Append(chan[c].buf, loop.msg) \in Seq(Metrics)
  BY <1>5, AppendProperties DEF Chans
<1>7. [chan[c] EXCEPT !.buf = Append(chan[c].buf, loop.msg)] \in Chans
  BY <1>5, <1>6 DEF Chans
<1>8. \/ chan' = chan
      \/ chan' = [chan EXCEPT ![c] = [chan[c] EXCEPT !.buf = Append(chan[c].buf, loop.msg)]]
  BY <1>2 DEF Send, Inv, TypeOK
<1>9. /\ chan' \in [Channels -> Chans]
      /\ \A d \in Channels : chan'[d].made = chan[d].made /\ chan'[d].closed = chan[d].closed
  <2>1. chan \in [Channels -> Chans]
    BY DEF Inv, TypeOK, Chans
  <2> QED
    BY <1>2, <1>5, <1>7, <1>8, <2>1 DEF Chans
<1>10. loop' \in Loops /\ loop'.pc = "send" /\ loop'.todo = Tail(todo)
  BY <1>1, <1>2 DEF Send, Loops
<1>11. panicked' = panicked
  BY <1>4 DEF Send, Inv, TypeOK
<1>12. TypeOK'
  BY <1>9, <1>10, <1>11 DEF Send, Inv, TypeOK, Chans, Loops, rounds
<1>13. Registered'
  <2>1. ASSUME NEW i \in DOMAIN Tail(todo)
        PROVE  \E k \in DOMAIN listeners : listeners[k] = Tail(todo)[i]
    BY <1>1, <1>2 DEF Inv, Registered
  <2> QED
    BY <1>9, <1>10, <2>1, RegisteredStays DEF Send, Inv
<1>14. Clocks'
  BY ClocksStay DEF Send, Inv
<1> QED
  BY <1>11, <1>12, <1>13, <1>14 DEF Inv

-----------------------------------------------------------------------------
(***************************************************************************)
(* The steps of the rotation goroutine.                                    *)
(***************************************************************************)
Ticker == [left : 1 .. Interval, pending : BOOLEAN]

\* The listeners do not hear of them.
LEMMA ListenersStay ==
    ASSUME Inv, UNCHANGED <<lists, loop>>, metrics' \in Metrics, ticker' \in Ticker,
           round' \in 0 .. MaxRound \cup {None}, beat' \in 0 .. MaxAge \cup {None}
    PROVE  TypeOK' /\ Registered'
<1>1. TypeOK'
  BY DEF Inv, TypeOK, lists, Ticker
<1>2. Registered'
  BY DEF Inv, Registered, lists
<1> QED
  BY <1>1, <1>2

LEMMA ElapseInv ==
    ASSUME Inv, Elapse
    PROVE  Inv'
<1>1. /\ round \in 0 .. MaxRound \cup {None} /\ beat \in 0 .. MaxAge \cup {None}
      /\ ticker \in Ticker /\ metrics \in Metrics
  BY DEF Inv, TypeOK, Ticker
<1>2. ticker' = IF ticker.left > 1 THEN [ticker EXCEPT !.left = ticker.left - 1]
                                   ELSE [left |-> Interval, pending |-> TRUE]
  BY DEF Elapse
<1>3. /\ ticker' \in Ticker
      /\ ~ticker'.pending => ~ticker.pending /\ ticker'.left + 1 = ticker.left
  <2>1. CASE ticker.left > 1
    <3> DEFINE sooner == ticker.left - 1
    <3>1. sooner \in 1 .. Interval /\ sooner + 1 = ticker.left
      BY <1>1, <2>1, Numbers DEF Ticker
    <3>2. ticker' = [ticker EXCEPT !.left = sooner]
      BY <1>2, <2>1
    <3> HIDE DEF sooner
    <3>3. ticker' \in Ticker /\ ticker'.left = sooner /\ ticker'.pending = ticker.pending
      BY <1>1, <3>1, <3>2 DEF Ticker
    <3> QED
      BY <3>1, <3>3
  <2>2. CASE ~(ticker.left > 1)
    BY <1>2, <2>2, Numbers DEF Ticker
  <2> QED
    BY <2>1, <2>2
<1>4. CASE round = None
  <2>1. round' = None
    BY <1>4 DEF Elapse
  <2>2. beat' \in 0 .. MaxAge \cup {None} /\ (beat' # None => beat # None /\ beat' <= beat + 1)
    BY <1>1, Numbers DEF Elapse
  <2>3. beat' # None /\ ~ticker'.pending => beat' + ticker'.left <= Interval
    <3> SUFFICES ASSUME beat' # None, ~ticker'.pending
                 PROVE  beat' + ticker'.left <= Interval
      OBVIOUS
    <3>1. beat # None /\ beat + ticker.left <= Interval
      BY <1>3, <2>2 DEF Inv, Clocks
    <3> QED
      BY <1>1, <1>3, <2>2, <3>1, Numbers DEF Ticker
  <2>4. TypeOK' /\ Registered'
    BY <1>1, <1>3, <2>1, <2>2, ListenersStay DEF Elapse
  <2> QED
    BY <2>1, <2>3, <2>4 DEF Inv, Clocks
<1>5. CASE round # None
  <2>1. round < MaxRound /\ round' = round + 1 /\ round \in Nat /\ round' \in 0 .. MaxRound
    BY <1>1, <1>5, Numbers DEF Elapse
  <2>2. beat = IF round < MaxAge THEN round ELSE MaxAge
    BY <1>5 DEF Inv, Clocks
  <2>3. beat # None /\ beat \in 0 .. MaxAge
    BY <1>1, <2>1, <2>2, Numbers
  <2>4. /\ beat' = IF round' < MaxAge THEN round' ELSE MaxAge
        /\ beat' \in 0 .. MaxAge /\ beat' <= beat + 1
    BY <2>1, <2>2, <2>3, Numbers DEF Elapse
  <2>5. ~ticker'.pending => beat' + ticker'.left <= Interval
    <3> SUFFICES ASSUME ~ticker'.pending
                 PROVE  beat' + ticker'.left <= Interval
      OBVIOUS
    <3>1. beat + ticker.left <= Interval
      BY <1>3, <2>3 DEF Inv, Clocks
    <3> QED
      BY <1>1, <1>3, <2>3, <2>4, <3>1, Numbers DEF Ticker
  <2>6. TypeOK' /\ Registered'
    BY <1>1, <1>3, <2>1, <2>4, ListenersStay DEF Elapse
  <2> QED
    BY <2>4, <2>5, <2>6 DEF Inv, Clocks
<1> QED
  BY <1>4, <1>5

LEMMA StartRoundInv ==
    ASSUME Inv, StartRound
    PROVE  Inv'
<1>1. ticker \in Ticker /\ metrics \in Metrics
  BY DEF Inv, TypeOK, Ticker
<1>2. /\ ticker' \in Ticker /\ 0 + ticker'.left <= Interval
      /\ beat' = 0 /\ round' = 0 /\ 0 < MaxAge
      /\ UNCHANGED <<metrics, lists, loop>>
  <2>1. ticker' = [ticker EXCEPT !.pending = FALSE]
    BY DEF StartRound
  <2>2. ticker' \in Ticker /\ ticker'.left = ticker.left
    BY <1>1, <2>1 DEF Ticker
  <2> QED
    BY <1>1, <2>2, Numbers DEF StartRound, Ticker
<1>3. TypeOK' /\ Registered'
  BY <1>1, <1>2, Numbers, ListenersStay
<1>4. Clocks'
  BY <1>2 DEF Clocks
<1> QED
  BY <1>3, <1>4 DEF Inv

LEMMA EndRoundInv ==
    ASSUME Inv, EndRound
    PROVE  Inv'
<1>1. /\ ticker \in Ticker /\ metrics \in Metrics
      /\ beat \in 0 .. MaxAge \cup {None}
  BY DEF Inv, TypeOK, Ticker
<1>2. TypeOK' /\ Registered'
  BY <1>1, ListenersStay DEF EndRound
<1>3. round' = None /\ beat' = beat /\ ticker' = ticker
  BY DEF EndRound
<1>4. Clocks'
  BY <1>3 DEF Inv, Clocks
<1> QED
  BY <1>2, <1>4 DEF Inv

LEMMA CountInv ==
    ASSUME Inv, IncrementSecretRotations \/ IncrementRotationErrors
    PROVE  Inv'
<1>1. /\ metrics \in Metrics /\ ticker \in Ticker
      /\ round \in 0 .. MaxRound \cup {None} /\ beat \in 0 .. MaxAge \cup {None}
  BY DEF Inv, TypeOK, Ticker
<1>2. metrics' \in Metrics
  <2>1. CASE IncrementSecretRotations
    <3> DEFINE one == metrics.rotations + 1
    <3>1. one \in 0 .. MaxCount
      BY <1>1, <2>1, Numbers DEF IncrementSecretRotations, Metrics
    <3>2. metrics' = [metrics EXCEPT !.rotations = one]
      BY <2>1 DEF IncrementSecretRotations
    <3> HIDE DEF one
    <3> QED
      BY <1>1, <3>1, <3>2 DEF Metrics
  <2>2. CASE IncrementRotationErrors
    <3> DEFINE one == metrics.errors + 1
    <3>1. one \in 0 .. MaxCount
      BY <1>1, <2>2, Numbers DEF IncrementRotationErrors, Metrics
    <3>2. metrics' = [metrics EXCEPT !.errors = one]
      BY <2>2 DEF IncrementRotationErrors
    <3> HIDE DEF one
    <3> QED
      BY <1>1, <3>1, <3>2 DEF Metrics
  <2> QED
    BY <2>1, <2>2
<1>3. UNCHANGED <<lists, loop, rounds>>
  BY DEF IncrementSecretRotations, IncrementRotationErrors
<1>4. TypeOK' /\ Registered'
  BY <1>1, <1>2, <1>3, ListenersStay DEF rounds
<1>5. Clocks'
  BY <1>3, ClocksStay DEF Inv
<1> QED
  BY <1>4, <1>5 DEF Inv

-----------------------------------------------------------------------------
LEMMA CancelInv ==
    ASSUME Inv, Cancel
    PROVE  Inv'
<1>1. TypeOK'
  BY DEF Cancel, Inv, TypeOK, rounds
<1>2. Registered'
  BY DEF Cancel, Inv, Registered
<1>3. Clocks'
  BY ClocksStay DEF Cancel, Inv
<1> QED
  BY <1>1, <1>2, <1>3 DEF Inv

LEMMA StepInv == Inv /\ [Next]_vars => Inv'
<1> SUFFICES ASSUME Inv, [Next]_vars PROVE Inv'
  OBVIOUS
<1>1. CASE Holders
  BY <1>1, AddListenerInv, RemoveListenerInv, ReadInv DEF Holders
<1>2. CASE Cancel \/ CloseAll
  BY <1>2, CancelInv, CloseAllInv
<1>3. CASE LoopStops \/ LoopStep
  BY <1>3, LoopStepsInv, SendInv DEF LoopStep
<1>4. CASE Rotation
  BY <1>4, ElapseInv, StartRoundInv, EndRoundInv, CountInv DEF Rotation
<1>5. CASE UNCHANGED vars
  BY <1>5 DEF vars, Inv, TypeOK, Registered, Clocks
<1> QED
  BY <1>1, <1>2, <1>3, <1>4, <1>5 DEF Next

\* Every listener registered is open and registered once, those the loop has yet
\* to send to are among them, and the heartbeat has the age of the round.
THEOREM Invariance == Spec => []Inv
<1> QED
  BY InitInv, StepInv, PTL DEF Spec

\* No step panics: whoever closes a channel finds it in the list, and so open.
LEMMA StepNoPanic == Inv /\ NoPanic /\ [Next]_vars => NoPanic'
<1> SUFFICES ASSUME Inv, ~panicked, [Next]_vars PROVE ~panicked'
  BY DEF NoPanic
<1>1. \A i \in DOMAIN listeners : ~chan[listeners[i]].closed
  BY DEF Inv, Registered
<1>2. ASSUME NEW c \in Channels, RemoveListener(c) PROVE ~panicked'
  <2>1. ~chan[c].closed
    BY <1>1, <1>2 DEF RemoveListener
  <2>2. panicked' <=> panicked \/ \E d \in {c} : chan[d].closed
    BY <1>2 DEF RemoveListener, Close
  <2> QED
    BY <2>1, <2>2
<1>3. CASE CloseAll
  <2>1. panicked' <=> panicked \/ \E d \in ToSet(listeners) : chan[d].closed
    BY <1>3 DEF CloseAll, Close
  <2> QED
    BY <1>1, <2>1 DEF ToSet
<1>4. CASE Holders
  BY <1>2, <1>4 DEF Holders, AddListener, Read
<1>5. CASE LoopStops \/ LoopStep
  BY <1>5, SendInv DEF LoopStops, LoopStep, LoopTick, GetMetrics, RLock, RUnlock, lists
<1>6. CASE Rotation
  BY <1>6 DEF Rotation, Elapse, StartRound, EndRound, IncrementSecretRotations,
     IncrementRotationErrors, lists
<1> QED
  BY <1>3, <1>4, <1>5, <1>6 DEF Next, Cancel, vars

\* No interleaving of AddListener, RemoveListener, Stop and the sends of
\* notifyListeners sends on a closed channel or closes one twice.
THEOREM NeverPanics == Spec => []NoPanic
<1>1. Init => NoPanic
  BY DEF Init, NoPanic
<1> QED
  BY <1>1, StepNoPanic, Invariance, PTL DEF Spec

\* CheckTickerHealth alarms when, and only when, a round has lasted three
\* intervals.
THEOREM AlarmsAreRight == Spec => []AlarmMeansLate
<1>1. Inv => AlarmMeansLate
  <2> SUFFICES ASSUME Inv, round = None => ~ticker.pending
               PROVE  ~Healthy <=> round # None /\ round >= MaxAge
    BY DEF AlarmMeansLate
  <2>1. /\ round \in 0 .. MaxRound \cup {None} /\ beat \in 0 .. MaxAge \cup {None}
        /\ ticker.left \in 1 .. Interval
    BY DEF Inv, TypeOK
  <2>2. CASE round = None
    <3>1. beat # None => beat + ticker.left <= Interval
      BY <2>2 DEF Inv, Clocks
    <3> QED
      BY <2>1, <2>2, <3>1, Numbers DEF Healthy
  <2>3. CASE round # None
    <3>1. beat = IF round < MaxAge THEN round ELSE MaxAge
      BY <2>3 DEF Inv, Clocks
    <3> QED
      BY <2>1, <2>3, <3>1, Numbers DEF Healthy
  <2> QED
    BY <2>2, <2>3
<1> QED
  BY <1>1, Invariance, PTL
=============================================================================
