-------------------------- MODULE CappedLogProofs --------------------------
(***************************************************************************)
(* Proofs about CappedLog: a file stays within its cap, and the two files  *)
(* implement LogStore, step by step, whatever fails.                       *)
(***************************************************************************)
EXTENDS CappedLog, SequenceTheorems, WellFoundedInduction, TLAPS

(***************************************************************************)
(* Induction, for a set of numbers.                                        *)
(***************************************************************************)
\* A set of naturals that is not empty has a least element.
LEMMA LeastElement ==
    ASSUME NEW S \in SUBSET Nat, S # {}
    PROVE  \E x \in S : \A y \in S : x <= y
<1>1. \E R : /\ IsWellFoundedOn(R, Nat)
             /\ \A i, j \in Nat : i < j => <<i, j>> \in R
  <2>1. \A i, j \in Nat : i < j => <<i, j>> \in OpToRel(<, Nat)
    BY DEF OpToRel
  <2> QED
    BY <2>1, NatLessThanWellFounded
<1>2. PICK R : /\ IsWellFoundedOn(R, Nat)
               /\ \A i, j \in Nat : i < j => <<i, j>> \in R
  BY <1>1
<1>3. PICK x \in S : \A y \in S : ~(<<y, x>> \in R)
  <2>1. S \subseteq Nat /\ S # {} /\ IsWellFoundedOn(R, Nat)
    BY <1>2
  <2> QED
    BY ONLY <2>1, WFMin
<1>4. \A y \in S : ~(y < x)
  BY <1>2, <1>3
<1>5. x \in Nat /\ \A y \in S : y \in Nat
  OBVIOUS
<1> QED
  BY <1>4, <1>5

\* A set that has 0 and, with every number below Limit, the next one.
LEMMA UpTo ==
    ASSUME NEW Limit \in Nat, NEW S, 0 \in S,
           \A n \in 0 .. Limit - 1 : n \in S => n + 1 \in S
    PROVE  0 .. Limit \subseteq S
<1> DEFINE Bad == {n \in 0 .. Limit : n \notin S}
<1> SUFFICES ASSUME Bad # {} PROVE FALSE
  OBVIOUS
<1>1. Bad \in SUBSET Nat
  OBVIOUS
<1>2. PICK x \in Bad : \A y \in Bad : x <= y
  <2> HIDE DEF Bad
  <2> QED
    BY <1>1, LeastElement
<1>3. x \in 1 .. Limit /\ x \notin S
  BY <1>2
<1>4. x - 1 \in 0 .. Limit - 1 /\ (x - 1) + 1 = x
  BY <1>3
<1>5. x - 1 \in S
  BY <1>2, <1>4
<1> QED
  BY <1>3, <1>4, <1>5

-----------------------------------------------------------------------------
(***************************************************************************)
(* Size.                                                                   *)
(***************************************************************************)
Sums(f, ls) == f = [n \in 0 .. Len(ls) |-> IF n = 0 THEN 0 ELSE f[n - 1] + ls[n].size]

\* The function that Size is defined by.
LEMMA SumsExist ==
    ASSUME NEW ls \in Seq(Line)
    PROVE  \E f : Sums(f, ls)
<1> DEFINE L == Len(ls)
           Part(f, k) == f = [n \in 0 .. k |-> IF n = 0 THEN 0 ELSE f[n - 1] + ls[n].size]
           S == {k \in 0 .. L : \E f : Part(f, k)}
<1>1. L \in Nat
  BY LenProperties
<1>2. 0 \in S
  <2>1. Part([n \in 0 .. 0 |-> 0], 0)
    OBVIOUS
  <2> HIDE DEF Part
  <2>2. 0 \in 0 .. L /\ \E f : Part(f, 0)
    BY <1>1, <2>1
  <2> QED
    BY ONLY <2>2 DEF S
<1>3. ASSUME NEW k \in 0 .. L - 1, k \in S PROVE k + 1 \in S
  <2>1. PICK f : Part(f, k)
    BY <1>3
  <2> DEFINE g == [n \in 0 .. k + 1 |-> IF n = k + 1 THEN f[k] + ls[k + 1].size ELSE f[n]]
  <2>2. ASSUME NEW n \in 0 .. k + 1
        PROVE  g[n] = IF n = 0 THEN 0 ELSE g[n - 1] + ls[n].size
    <3>1. CASE n = k + 1
      BY <1>1, <3>1
    <3>2. CASE n = 0
      BY <1>1, <2>1, <3>2
    <3>3. CASE n \in 1 .. k
      <4>1. f[n] = f[n - 1] + ls[n].size
        BY <1>1, <2>1, <3>3
      <4> QED
        BY <1>1, <3>3, <4>1
    <3> QED
      BY <1>1, <3>1, <3>2, <3>3
  <2>3. g = [n \in 0 .. k + 1 |-> IF n = 0 THEN 0 ELSE g[n - 1] + ls[n].size]
    <3>1. g = [n \in 0 .. k + 1 |-> g[n]]
      OBVIOUS
    <3> HIDE DEF g
    <3> QED
      BY <2>2, <3>1
  <2>4. Part(g, k + 1)
    BY <2>3
  <2> HIDE DEF Part, g
  <2>5. k + 1 \in 0 .. L /\ \E h : Part(h, k + 1)
    BY <1>1, <2>4
  <2> QED
    BY ONLY <2>5 DEF S
<1>4. L \in S
  <2> HIDE DEF S
  <2>1. 0 .. L \subseteq S
    BY <1>1, <1>2, <1>3, UpTo
  <2> QED
    BY <1>1, <2>1
<1> QED
  BY <1>4 DEF Sums

\* Size by its partial sums.
LEMMA SizeBySums ==
    ASSUME NEW ls \in Seq(Line)
    PROVE  \E f : /\ f \in [0 .. Len(ls) -> Nat]
                  /\ f[0] = 0
                  /\ \A n \in 1 .. Len(ls) : f[n] = f[n - 1] + ls[n].size
                  /\ Store!Size(ls) = f[Len(ls)]
<1> DEFINE f == CHOOSE g : Sums(g, ls)
           S == {n \in 0 .. Len(ls) : f[n] \in Nat}
<1>1. Len(ls) \in Nat /\ \A n \in 1 .. Len(ls) : ls[n].size \in Nat
  <2>1. Len(ls) \in Nat /\ \A n \in 1 .. Len(ls) : ls[n] \in Line
    BY LenProperties, ElementOfSeq
  <2> QED
    BY <2>1, SizeAssumption DEF Line
<1>2. Sums(f, ls)
  BY SumsExist
<1>3. Store!Size(ls) = f[Len(ls)]
  BY DEF Store!Size, Sums
<1> HIDE DEF f
<1>4. /\ DOMAIN f = 0 .. Len(ls)
      /\ f = [n \in 0 .. Len(ls) |-> f[n]]
      /\ f[0] = 0
      /\ \A n \in 1 .. Len(ls) : f[n] = f[n - 1] + ls[n].size
  BY <1>1, <1>2 DEF Sums
<1>5. 0 .. Len(ls) \subseteq S
  <2>1. 0 \in S
    BY <1>1, <1>4
  <2>2. ASSUME NEW n \in 0 .. Len(ls) - 1, n \in S PROVE n + 1 \in S
    <3>1. n + 1 \in 1 .. Len(ls) /\ (n + 1) - 1 = n
      BY <1>1
    <3>2. f[n + 1] = f[n] + ls[n + 1].size
      BY <1>4, <3>1
    <3> QED
      BY <1>1, <2>2, <3>1, <3>2
  <2> HIDE DEF S
  <2> QED
    BY <1>1, <2>1, <2>2, UpTo
<1> QED
  BY <1>3, <1>4, <1>5

LEMMA SizeEmpty == Store!Size(<<>>) = 0
<1>1. <<>> \in Seq(Line) /\ Len(<<>>) = 0
  BY EmptySeq
<1>2. PICK f : f[0] = 0 /\ Store!Size(<<>>) = f[Len(<<>>)]
  BY <1>1, SizeBySums
<1> QED
  BY <1>1, <1>2

LEMMA SizeType ==
    ASSUME NEW ls \in Seq(Line)
    PROVE  Store!Size(ls) \in Nat
<1>1. PICK f : f \in [0 .. Len(ls) -> Nat] /\ Store!Size(ls) = f[Len(ls)]
  BY SizeBySums
<1>2. Len(ls) \in Nat
  BY LenProperties
<1> QED
  BY <1>1, <1>2

\* The sizes of two parts make up the size of the whole.
LEMMA SizeConcat ==
    ASSUME NEW s \in Seq(Line), NEW t \in Seq(Line)
    PROVE  Store!Size(s \o t) = Store!Size(s) + Store!Size(t)
<1> DEFINE A == Len(s)
           B == Len(t)
<1>1. /\ s \o t \in Seq(Line) /\ Len(s \o t) = A + B /\ A \in Nat /\ B \in Nat
      /\ \A i \in 1 .. A : (s \o t)[i] = s[i]
      /\ \A i \in 1 .. B : (s \o t)[A + i] = t[i]
  <2>1. /\ s \o t \in Seq(Line) /\ Len(s \o t) = A + B /\ A \in Nat /\ B \in Nat
        /\ \A i \in 1 .. A + B : (s \o t)[i] = IF i <= A THEN s[i] ELSE t[i - A]
    BY ConcatProperties, LenProperties
  <2>2. \A i \in 1 .. A : (s \o t)[i] = s[i]
    BY <2>1
  <2>3. ASSUME NEW i \in 1 .. B PROVE (s \o t)[A + i] = t[i]
    <3>1. A + i \in 1 .. A + B /\ ~(A + i <= A) /\ (A + i) - A = i
      BY <2>1
    <3> QED
      BY <2>1, <3>1
  <2> QED
    BY <2>1, <2>2, <2>3
<1>2. PICK f : /\ f \in [0 .. A + B -> Nat] /\ f[0] = 0
               /\ \A n \in 1 .. A + B : f[n] = f[n - 1] + (s \o t)[n].size
               /\ Store!Size(s \o t) = f[A + B]
  BY <1>1, SizeBySums
<1>3. PICK g : /\ g \in [0 .. A -> Nat] /\ g[0] = 0
               /\ \A n \in 1 .. A : g[n] = g[n - 1] + s[n].size
               /\ Store!Size(s) = g[A]
  BY SizeBySums
<1>4. PICK h : /\ h \in [0 .. B -> Nat] /\ h[0] = 0
               /\ \A n \in 1 .. B : h[n] = h[n - 1] + t[n].size
               /\ Store!Size(t) = h[B]
  BY SizeBySums
<1> HIDE DEF A, B
<1>5. f[A] = g[A]
  <2> DEFINE S == {n \in 0 .. A : f[n] = g[n]}
  <2>1. 0 \in S
    BY <1>1, <1>2, <1>3
  <2>2. ASSUME NEW n \in 0 .. A - 1, n \in S PROVE n + 1 \in S
    <3>1. n + 1 \in 1 .. A /\ n + 1 \in 1 .. A + B /\ (n + 1) - 1 = n
      BY <1>1
    <3>2. f[n + 1] = f[n] + (s \o t)[n + 1].size /\ g[n + 1] = g[n] + s[n + 1].size
      BY <1>2, <1>3, <3>1
    <3> QED
      BY <1>1, <2>2, <3>1, <3>2
  <2>3. 0 .. A \subseteq S
    <3> HIDE DEF S
    <3> QED
      BY <1>1, <2>1, <2>2, UpTo
  <2> QED
    BY <1>1, <2>3
<1>6. f[A + B] = g[A] + h[B]
  <2> DEFINE S == {n \in 0 .. B : f[A + n] = g[A] + h[n]}
  <2>0. g[A] \in Nat /\ \A n \in 0 .. B : h[n] \in Nat
    BY <1>1, <1>3, <1>4
  <2>1. 0 \in S
    BY <1>1, <1>4, <1>5, <2>0
  <2>2. ASSUME NEW n \in 0 .. B - 1, n \in S PROVE n + 1 \in S
    <3>1. /\ n + 1 \in 1 .. B /\ A + (n + 1) \in 1 .. A + B /\ (n + 1) - 1 = n
          /\ (A + (n + 1)) - 1 = A + n
      BY <1>1
    <3>2. /\ f[A + (n + 1)] = f[A + n] + (s \o t)[A + (n + 1)].size
          /\ h[n + 1] = h[n] + t[n + 1].size
          /\ (s \o t)[A + (n + 1)] = t[n + 1]
      BY <1>1, <1>2, <1>4, <3>1
    <3>3. t[n + 1].size \in Nat
      <4>1. t[n + 1] \in Line
        BY <3>1, ElementOfSeq DEF B
      <4> QED
        BY <4>1, SizeAssumption DEF Line
    <3>4. h[n] \in Nat
      BY <1>1, <2>0
    <3>5. f[A + n] = g[A] + h[n]
      BY <2>2
    <3>6. f[A + (n + 1)] = g[A] + h[n + 1]
      BY <2>0, <3>1, <3>2, <3>3, <3>4, <3>5
    <3> QED
      BY <3>1, <3>6
  <2>3. 0 .. B \subseteq S
    <3> HIDE DEF S
    <3> QED
      BY <1>1, <2>1, <2>2, UpTo
  <2> QED
    BY <1>1, <2>3
<1> QED
  BY <1>2, <1>3, <1>4, <1>6

LEMMA SizeOfOne ==
    ASSUME NEW l \in Line
    PROVE  <<l>> \in Seq(Line) /\ Store!Size(<<l>>) = l.size
<1>1. <<l>> \in Seq(Line) /\ Len(<<l>>) = 1 /\ <<l>>[1] = l
  OBVIOUS
<1>2. PICK f : /\ f[0] = 0
               /\ \A n \in 1 .. Len(<<l>>) : f[n] = f[n - 1] + <<l>>[n].size
               /\ Store!Size(<<l>>) = f[Len(<<l>>)]
  BY <1>1, SizeBySums
<1>3. l.size \in Nat
  BY SizeAssumption DEF Line
<1>4. f[1] = f[1 - 1] + <<l>>[1].size /\ 1 - 1 = 0
  BY <1>1, <1>2
<1> QED
  BY <1>1, <1>2, <1>3, <1>4

\* One more line.
LEMMA SizeAppend ==
    ASSUME NEW s \in Seq(Line), NEW l \in Line
    PROVE  Store!Size(Append(s, l)) = Store!Size(s) + l.size
BY SizeOfOne, SizeConcat, AppendIsConcat

-----------------------------------------------------------------------------
(***************************************************************************)
(* The invariant.                                                          *)
(***************************************************************************)
LEMMA Bytes ==
    /\ MaxBytes \in Nat /\ MaxLines \in Nat /\ MaxFaults \in Nat
    /\ LongestLine \in Nat /\ Sizes \subseteq 1 .. LongestLine /\ None \notin Writers
    /\ \A l \in Line : l.size \in 1 .. LongestLine
    /\ Store!Cap \in Nat /\ MaxBytes <= Store!Cap /\ LongestLine <= Store!Cap
BY SizeAssumption, BoundAssumption, WriterAssumption DEF Line, Store!Cap

LEMMA InitInv == Init => Inv
<1> SUFFICES ASSUME Init PROVE Inv
  OBVIOUS
<1>1. <<>> \in Seq(Line)
  BY EmptySeq
<1>2. TypeOK
  BY <1>1, Bytes DEF Init, TypeOK, Handles, Steps
<1>3. Rooms
  BY SizeEmpty, Bytes DEF Init, Rooms
<1> QED
  BY <1>2, <1>3 DEF Inv

\* The goroutine in Write has a line, of one of the sizes.
LEMMA HolderWrites ==
    ASSUME Inv, holder # None
    PROVE  /\ holder \in Writers /\ Incoming \in Line /\ Incoming.size \in Sizes
           /\ Incoming.size \in 1 .. LongestLine
           /\ Store!Size(active) \in Nat /\ Store!Size(old) \in Nat
           /\ TooLarge \in BOOLEAN
<1>1. holder \in Writers /\ Incoming \in Line
  BY DEF Inv, TypeOK, Incoming
<1>2. Incoming.size \in Sizes
  BY <1>1 DEF Inv, Rooms, TypeOK, Incoming
<1> QED
  BY <1>1, <1>2, Bytes, SizeType DEF Inv, TypeOK, TooLarge

\* Whoever leaves Write, or was never in it, leaves the files' sizes as they are.
LEMMA ReturnInv ==
    ASSUME Inv, NEW a \in {"ok", "error"}, holder # None, Return(a), UNCHANGED logged,
           active' \in Seq(Line), old' \in Seq(Line), handle' \in Handles,
           failed' \in Steps \cup {None}, faults' \in 0 .. MaxFaults,
           Store!Size(active') <= Store!Cap, Store!Size(old') <= Store!Cap
    PROVE  Inv'
<1>1. TypeOK'
  BY HolderWrites, Bytes DEF Return, Inv, TypeOK, Steps
<1>2. Rooms'
  <2>1. \A w \in Writers : writing'[w] # None => writing'[w].size \in Sizes
    BY HolderWrites DEF Return, Inv, TypeOK, Rooms
  <2> QED
    BY <2>1 DEF Return, Rooms
<1> QED
  BY <1>1, <1>2 DEF Inv

\* A step on, for which there is the reason it needs.
LEMMA GotoInv ==
    ASSUME Inv, NEW step \in Steps, holder # None, Goto(step), UNCHANGED <<logged, failed, faults>>,
           active' \in Seq(Line), old' \in Seq(Line), handle' \in Handles,
           Store!Size(active') <= Store!Cap, Store!Size(old') <= Store!Cap,
           step \in {"close", "remove"} => Store!Size(active') + Incoming.size > MaxBytes,
           step = "rename" => old' = <<>>,
           step = "reopen" => active' = <<>>,
           step = "write" => ~(Store!Size(active') + Incoming.size > MaxBytes) \/ active' = <<>>
    PROVE  Inv'
<1>1. TypeOK'
  BY DEF Goto, Inv, TypeOK, Incoming
<1>2. Incoming' = Incoming
  BY DEF Goto, Incoming
<1>3. TooLarge' <=> Store!Size(active') + Incoming.size > MaxBytes
  BY <1>2 DEF TooLarge
<1>4. Rooms'
  BY <1>3 DEF Goto, Rooms, Inv
<1> QED
  BY <1>1, <1>4 DEF Inv

LEMMA Faults ==
    ASSUME Inv
    PROVE  /\ Succeeds => failed' \in Steps \cup {None} /\ faults' \in 0 .. MaxFaults
           /\ Fails => failed' \in Steps \cup {None} /\ faults' \in 0 .. MaxFaults
BY Bytes DEF Inv, TypeOK, Succeeds, Fails

-----------------------------------------------------------------------------
LEMMA LogInv ==
    ASSUME Inv, NEW w \in Writers, Log(w)
    PROVE  Inv'
<1>1. PICK s \in Sizes : writing' = [writing EXCEPT ![w] = [id |-> logged', size |-> s]]
  BY DEF Log
<1>2. logged' \in 1 .. MaxLines /\ [id |-> logged', size |-> s] \in Line
  BY Bytes DEF Log, Inv, TypeOK, Line
<1>3. /\ writing' \in [Writers -> Line \cup {None}]
      /\ \A v \in Writers : v # w => writing'[v] = writing[v]
      /\ writing'[w] = [id |-> logged', size |-> s]
  BY <1>1, <1>2 DEF Inv, TypeOK
<1>4. holder # None => holder # w /\ Incoming' = Incoming
  BY <1>3 DEF Log, Inv, TypeOK, Incoming
<1>5. answer' \in [Writers -> {"ok", "error", None}]
  BY DEF Log, Inv, TypeOK
<1>6. TypeOK'
  BY <1>2, <1>3, <1>4, <1>5, Bytes DEF Log, Inv, TypeOK, files
<1>7. Rooms'
  <2>1. \A v \in Writers : writing'[v] # None => writing'[v].size \in Sizes
    BY <1>3 DEF Inv, Rooms
  <2>2. holder # None => TooLarge' = TooLarge
    BY <1>4 DEF Log, TooLarge, files
  <2> QED
    BY <2>1, <2>2 DEF Log, Inv, Rooms, files
<1> QED
  BY <1>6, <1>7 DEF Inv

\* w.mu is free only when nobody is in Write, which begins with "stat".
LEMMA LockInv ==
    ASSUME Inv, NEW w \in Writers, Lock(w)
    PROVE  Inv'
<1>1. TypeOK'
  BY DEF Lock, Inv, TypeOK, Incoming, files
<1>2. pc = "stat"
  BY DEF Lock, Inv, Rooms
<1>3. Rooms'
  BY <1>2 DEF Lock, Inv, Rooms, files
<1> QED
  BY <1>1, <1>3 DEF Inv

LEMMA StatInv ==
    ASSUME Inv, Stat
    PROVE  Inv'
<1>1. /\ holder # None /\ UNCHANGED <<logged, active, old, handle>>
      /\ TypeOK /\ Store!Size(active) <= Store!Cap /\ Store!Size(old) <= Store!Cap
      /\ active \in Seq(Line) /\ old \in Seq(Line) /\ handle \in Handles
  BY DEF Stat, At, files, Inv, TypeOK, Rooms
<1>2. CASE Return("error") /\ (Succeeds \/ Fails)
  BY <1>1, <1>2, Faults, ReturnInv
<1>3. CASE Goto("close") /\ TooLarge /\ Succeeds
  BY <1>1, <1>3, GotoInv DEF Succeeds, TooLarge, Steps
<1>4. CASE Goto("write") /\ ~TooLarge /\ Succeeds
  BY <1>1, <1>4, GotoInv DEF Succeeds, TooLarge, Steps
<1> QED
  BY <1>2, <1>3, <1>4 DEF Stat

LEMMA CloseFileInv ==
    ASSUME Inv, CloseFile
    PROVE  Inv'
<1>1. /\ holder # None /\ UNCHANGED <<logged, active, old>> /\ TooLarge
      /\ Store!Size(active) <= Store!Cap /\ Store!Size(old) <= Store!Cap
      /\ active \in Seq(Line) /\ old \in Seq(Line) /\ handle' \in Handles
  BY DEF CloseFile, At, files, Inv, TypeOK, Rooms, Handles
<1>2. CASE Return("error") /\ Fails
  BY <1>1, <1>2, Faults, ReturnInv
<1>3. CASE Goto("remove") /\ Succeeds
  BY <1>1, <1>3, GotoInv DEF Succeeds, TooLarge, Steps
<1> QED
  BY <1>2, <1>3 DEF CloseFile

\* A failed step of the rotation is counted, and the way back begins.
LEMMA RestoreInv ==
    ASSUME Inv, holder # None, Fails, Goto("restore"), UNCHANGED <<logged, files, handle>>
    PROVE  Inv'
<1>1. TypeOK'
  BY Faults DEF Goto, Inv, TypeOK, Incoming, files, Steps
<1>2. Rooms'
  BY DEF Goto, Inv, Rooms, files
<1> QED
  BY <1>1, <1>2 DEF Inv

LEMMA RemoveOldInv ==
    ASSUME Inv, RemoveOld
    PROVE  Inv'
<1>1. /\ holder # None /\ UNCHANGED <<logged, active, handle>>
      /\ Store!Size(active) <= Store!Cap /\ active \in Seq(Line) /\ handle \in Handles
  BY DEF RemoveOld, At, Inv, TypeOK, Rooms
<1>2. CASE Fails /\ UNCHANGED old /\ Goto("restore")
  BY <1>1, <1>2, RestoreInv DEF files
<1>3. CASE Succeeds /\ old' = <<>> /\ Goto("rename")
  <2>1. old' \in Seq(Line) /\ Store!Size(old') <= Store!Cap
    BY <1>3, EmptySeq, SizeEmpty, Bytes
  <2> QED
    BY <1>1, <1>3, <2>1, GotoInv DEF Succeeds, Steps
<1> QED
  BY <1>2, <1>3 DEF RemoveOld

LEMMA RenameInv ==
    ASSUME Inv, Rename
    PROVE  Inv'
<1>1. /\ holder # None /\ UNCHANGED <<logged, handle>> /\ handle \in Handles
      /\ Store!Size(active) <= Store!Cap /\ active \in Seq(Line)
  BY DEF Rename, At, Inv, TypeOK, Rooms
<1>2. CASE Fails /\ UNCHANGED files /\ Goto("restore")
  BY <1>1, <1>2, RestoreInv
<1>3. CASE Succeeds /\ old' = active /\ active' = <<>> /\ Goto("reopen")
  <2>1. active' \in Seq(Line) /\ Store!Size(active') <= Store!Cap
    BY <1>3, EmptySeq, SizeEmpty, Bytes
  <2> QED
    BY <1>1, <1>3, <2>1, GotoInv DEF Succeeds, Steps
<1> QED
  BY <1>2, <1>3 DEF Rename

LEMMA ReopenInv ==
    ASSUME Inv, Reopen
    PROVE  Inv'
<1>1. /\ holder # None /\ UNCHANGED <<logged, active, old>> /\ handle' \in Handles
      /\ Store!Size(active) <= Store!Cap /\ Store!Size(old) <= Store!Cap
      /\ active \in Seq(Line) /\ old \in Seq(Line)
  BY DEF Reopen, At, files, Inv, TypeOK, Rooms, Handles
<1>2. CASE Return("error") /\ (Succeeds \/ Fails)
  BY <1>1, <1>2, Faults, ReturnInv
<1>3. CASE pc = "reopen" /\ Succeeds /\ Goto("write")
  <2>1. active = <<>>
    BY <1>1, <1>3 DEF Inv, Rooms
  <2> QED
    BY <1>1, <1>3, <2>1, GotoInv DEF Succeeds, Steps
<1> QED
  BY <1>2, <1>3 DEF Reopen

\* What may be appended to the file: the line, or a part of it.
LEMMA WriteLineAppends ==
    ASSUME Inv, WriteLine
    PROVE  \/ active' = active
           \/ \E l \in Line : l.size <= Incoming.size /\ active' = Append(active, l)
<1>1. Incoming \in Line /\ Incoming.size \in 1 .. LongestLine
  BY HolderWrites DEF WriteLine, At
<1>2. ASSUME NEW part \in 1 .. Incoming.size - 1
      PROVE  /\ [Incoming EXCEPT !.size = part] \in Line
             /\ [Incoming EXCEPT !.size = part].size <= Incoming.size
  <2>1. part \in 1 .. LongestLine /\ part <= Incoming.size
    BY <1>1, Bytes
  <2> QED
    BY <1>1, <2>1 DEF Line
<1>3. Incoming.size <= Incoming.size
  BY <1>1
<1> QED
  BY <1>1, <1>2, <1>3 DEF WriteLine

LEMMA WriteLineInv ==
    ASSUME Inv, WriteLine
    PROVE  /\ Inv'
           /\ Store!Size(active') <= Store!Cap
<1>1. /\ holder # None /\ UNCHANGED <<logged, old, handle>> /\ handle \in Handles
      /\ Store!Size(old) <= Store!Cap /\ old \in Seq(Line)
      /\ Store!Size(active) <= Store!Cap /\ active \in Seq(Line)
      /\ ~TooLarge \/ active = <<>>
  BY DEF WriteLine, At, Inv, TypeOK, Rooms
<1>2. active' \in Seq(Line) /\ Store!Size(active') <= Store!Cap
  <2>1. ASSUME NEW l \in Line, l.size <= Incoming.size
        PROVE  Append(active, l) \in Seq(Line) /\ Store!Size(Append(active, l)) <= Store!Cap
    <3>1. Append(active, l) \in Seq(Line)
      BY <1>1, AppendProperties
    <3>2. Store!Size(Append(active, l)) = Store!Size(active) + l.size
      BY <1>1, SizeAppend
    <3>3. /\ Store!Size(active) \in Nat /\ Incoming.size \in 1 .. LongestLine
          /\ l.size \in 1 .. LongestLine
      BY <1>1, HolderWrites, Bytes
    <3>4. CASE ~TooLarge
      BY <2>1, <3>1, <3>2, <3>3, <3>4, Bytes DEF TooLarge
    <3>5. CASE active = <<>>
      BY <3>1, <3>2, <3>3, <3>5, SizeEmpty, Bytes
    <3> QED
      BY <1>1, <3>4, <3>5
  <2> QED
    BY <1>1, <2>1, WriteLineAppends
<1>3. (Return("ok") /\ Succeeds) \/ (Return("error") /\ Fails)
  BY DEF WriteLine
<1> QED
  BY <1>1, <1>2, <1>3, Faults, ReturnInv

LEMMA OutsideInv ==
    ASSUME Inv, Close \/ Restart \/ UNCHANGED vars
    PROVE  Inv'
<1>1. CASE Close
  <2>1. TypeOK'
    BY <1>1 DEF Close, Inv, TypeOK, Handles, files
  <2>2. Rooms'
    BY <1>1 DEF Close, Inv, Rooms, files
  <2> QED
    BY <2>1, <2>2 DEF Inv
<1>2. CASE Restart
  <2>1. TypeOK'
    BY <1>2, Bytes DEF Restart, Inv, TypeOK, Handles, Steps, files
  <2>2. Rooms'
    BY <1>2 DEF Restart, Inv, Rooms, files
  <2> QED
    BY <2>1, <2>2 DEF Inv
<1>3. CASE UNCHANGED vars
  BY <1>3 DEF vars, Inv, TypeOK, Rooms, TooLarge, Incoming
<1> QED
  BY <1>1, <1>2, <1>3

LEMMA StepInv == Inv /\ [Next]_vars => Inv'
BY LogInv, LockInv, StatInv, CloseFileInv, RemoveOldInv, RenameInv, ReopenInv, WriteLineInv,
   OutsideInv DEF Next, Write

\* Each of the two files stays within MaxBytes or is a single line, torn lines and
\* failed rotations included, and no line is written where it would not fit.
THEOREM Invariance == Spec => []Inv
BY InitInv, StepInv, PTL DEF Spec

-----------------------------------------------------------------------------
(***************************************************************************)
(* The refinement: w.path.1 and then w.path are what LogStore keeps.       *)
(***************************************************************************)
Kept == old \o active

LEMMA InitRefines == Init => Store!Init
BY ConcatEmptySeq, EmptySeq DEF Init, Store!Init

\* Removing w.path.1 forgets its lines: w.path and the next line are MaxBytes.
LEMMA RemoveOldRefines ==
    ASSUME Inv, RemoveOld
    PROVE  [Store!Next]_Kept
<1>1. /\ active \in Seq(Line) /\ old \in Seq(Line) /\ active' = active
      /\ Len(old) \in Nat /\ Len(active) \in Nat
  BY LenProperties DEF Inv, TypeOK, RemoveOld
<1>2. CASE old' = old
  BY <1>1, <1>2 DEF Kept
<1>3. CASE old' = <<>> /\ old # <<>>
  <2>1. Len(old) >= 1
    BY <1>1, <1>3, EmptySeq
  <2>2. Kept' = active
    BY <1>1, <1>3, ConcatEmptySeq DEF Kept
  <2>3. SubSeq(Kept, Len(old) + 1, Len(Kept)) = active
    <3> DEFINE rest == SubSeq(Kept, Len(old) + 1, Len(Kept))
    <3>1. /\ Kept \in Seq(Line) /\ Len(Kept) = Len(old) + Len(active)
          /\ \A i \in 1 .. Len(old) + Len(active) :
                Kept[i] = IF i <= Len(old) THEN old[i] ELSE active[i - Len(old)]
      BY <1>1, ConcatProperties DEF Kept
    <3>2. \A i \in Len(old) + 1 .. Len(Kept) : Kept[i] \in Line
      BY <1>1, <3>1, ElementOfSeq
    <3>3. /\ rest \in Seq(Line)
          /\ Len(rest) = IF Len(old) + 1 <= Len(Kept) THEN Len(Kept) - (Len(old) + 1) + 1 ELSE 0
          /\ \A i \in 1 .. Len(Kept) - (Len(old) + 1) + 1 : rest[i] = Kept[Len(old) + 1 + i - 1]
      BY <1>1, <3>1, <3>2, SubSeqProperties
    <3> HIDE DEF rest
    <3>4. Len(rest) = Len(active)
      BY <1>1, <3>1, <3>3
    <3>5. ASSUME NEW i \in 1 .. Len(rest) PROVE rest[i] = active[i]
      <4>1. rest[i] = Kept[Len(old) + i]
        BY <1>1, <3>1, <3>3, <3>4
      <4>2. /\ Len(old) + i \in 1 .. Len(old) + Len(active)
            /\ ~(Len(old) + i <= Len(old)) /\ (Len(old) + i) - Len(old) = i
        BY <1>1, <3>4
      <4> QED
        BY <3>1, <4>1, <4>2
    <3>6. rest = active
      BY <1>1, <3>3, <3>4, <3>5, SeqEqual
    <3> QED
      BY <3>6 DEF rest
  <2>4. Store!Size(Kept') + LongestLine > MaxBytes
    <3>0. holder # None /\ TooLarge
      BY DEF RemoveOld, At, Inv, Rooms
    <3>1. /\ Store!Size(active) + Incoming.size > MaxBytes
          /\ Incoming.size \in Sizes /\ Store!Size(active) \in Nat
      BY <3>0, HolderWrites DEF TooLarge
    <3>2. Incoming.size \in 1 .. LongestLine
      BY <3>1, Bytes
    <3> QED
      BY <2>2, <3>1, <3>2, Bytes
  <2>5. Len(old) \in 1 .. Len(Kept)
    <3>1. Len(Kept) = Len(old) + Len(active)
      BY <1>1, ConcatProperties DEF Kept
    <3> QED
      BY <1>1, <2>1, <3>1
  <2>6. Store!Forget
    BY <2>2, <2>3, <2>4, <2>5 DEF Store!Forget, Kept
  <2> QED
    BY <2>6 DEF Store!Next
<1> QED
  BY <1>2, <1>3 DEF RemoveOld

\* Moving w.path aside changes nothing: w.path.1 is gone by then.
LEMMA RenameRefines ==
    ASSUME Inv, Rename
    PROVE  Kept' = Kept
<1>1. active \in Seq(Line) /\ old = <<>>
  BY DEF Inv, TypeOK, Rooms, Rename, At
<1>2. CASE UNCHANGED files
  BY <1>2 DEF files, Kept
<1>3. CASE old' = active /\ active' = <<>>
  BY <1>1, <1>3, ConcatEmptySeq DEF Kept
<1> QED
  BY <1>2, <1>3 DEF Rename

LEMMA WriteLineRefines ==
    ASSUME Inv, WriteLine
    PROVE  [Store!Next]_Kept
<1>1. /\ active \in Seq(Line) /\ old \in Seq(Line) /\ old' = old
      /\ Store!Size(old) <= Store!Cap /\ Store!Size(active') <= Store!Cap
  BY WriteLineInv DEF Inv, TypeOK, Rooms, WriteLine
<1>2. CASE active' = active
  BY <1>1, <1>2 DEF Kept
<1>3. ASSUME NEW l \in Line, active' = Append(active, l)
      PROVE  Store!Next
  <2>1. active' \in Seq(Line)
    BY <1>1, <1>3, AppendProperties
  <2>2. Store!Size(Kept') <= 2 * Store!Cap
    <3>1. Store!Size(old') \in Nat /\ Store!Size(active') \in Nat
      BY <1>1, <2>1, SizeType
    <3>2. Store!Size(Kept') = Store!Size(old') + Store!Size(active')
      BY <1>1, <2>1, SizeConcat DEF Kept
    <3> QED
      BY <1>1, <3>1, <3>2, Bytes
  <2>3. Kept' = Append(Kept, l)
    <3>1. Append(active, l) = active \o <<l>> /\ <<l>> \in Seq(Line)
      BY <1>1, AppendIsConcat
    <3>2. old \o (active \o <<l>>) = (old \o active) \o <<l>>
      BY <1>1, <3>1, ConcatAssociative
    <3>3. old \o active \in Seq(Line)
      BY <1>1, ConcatProperties
    <3>4. Append(old \o active, l) = (old \o active) \o <<l>>
      BY <3>3, AppendIsConcat
    <3> QED
      BY <1>1, <1>3, <3>1, <3>2, <3>4 DEF Kept
  <2> QED
    BY <2>2, <2>3 DEF Store!Next, Store!Accept, Kept
<1> QED
  BY <1>2, <1>3, WriteLineAppends

LEMMA StepRefines == Inv /\ [Next]_vars => [Store!Next]_Kept
<1> SUFFICES ASSUME Inv, [Next]_vars PROVE [Store!Next]_Kept
  OBVIOUS
<1>1. CASE UNCHANGED files
  BY <1>1 DEF files, Kept
<1>2. CASE RemoveOld \/ Rename \/ WriteLine
  BY <1>2, RemoveOldRefines, RenameRefines, WriteLineRefines
<1>3. CASE (\E w \in Writers : Log(w) \/ Lock(w)) \/ Stat \/ CloseFile \/ Reopen \/ Close
              \/ Restart \/ UNCHANGED vars
  BY <1>1, <1>3 DEF Log, Lock, Stat, CloseFile, Reopen, Close, Restart, vars, files
<1> QED
  BY <1>2, <1>3 DEF Next, Write

\* The two files of the log implement LogStore, whatever operation fails and
\* whenever the process ends: the lines stay in order, only the oldest go, the
\* newest MaxBytes stay but for one line, and there are never more than twice
\* MaxBytes, or twice the longest line.
THEOREM ImplementsLogStore == Spec => Implements
<1>1. Inv /\ [Next]_vars => [Store!Next]_(old \o active)
  BY StepRefines DEF Kept
<1> QED
  BY <1>1, InitRefines, Invariance, PTL DEF Spec, Implements, Store!Spec

\* What the cap of the log is for: w.path and w.path.1 together are never larger
\* than twice w.maxBytes, in the midst of a rotation and with torn lines too; but
\* for a line longer than that, which has a file of its own.
THEOREM DiskBounded == Spec => [](Store!Size(old \o active) <= 2 * Store!Cap)
<1>1. Inv => Store!Size(old \o active) <= 2 * Store!Cap
  <2> SUFFICES ASSUME Inv PROVE Store!Size(old \o active) <= 2 * Store!Cap
    OBVIOUS
  <2>1. /\ old \in Seq(Line) /\ active \in Seq(Line)
        /\ Store!Size(old) <= Store!Cap /\ Store!Size(active) <= Store!Cap
    BY DEF Inv, TypeOK, Rooms
  <2>2. Store!Size(old) \in Nat /\ Store!Size(active) \in Nat
    BY <2>1, SizeType
  <2> QED
    BY <2>1, <2>2, SizeConcat, Bytes
<1> QED
  BY <1>1, Invariance, PTL

=============================================================================
