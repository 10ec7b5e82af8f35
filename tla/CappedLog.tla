----------------------------- MODULE CappedLog -----------------------------
(***************************************************************************)
(* The cappedFileWriter of internal/logging/logging.go: goroutines write   *)
(* lines to one file; the one that would make it too large first moves it  *)
(* aside, file operation by file operation.  Any of these may fail, and    *)
(* the process may end between any two of them.                            *)
(***************************************************************************)
EXTENDS Integers, Sequences

CONSTANTS
    Writers,        \* goroutines that log
    Sizes,          \* the sizes of their lines
    LongestLine,    \* the greatest of them
    MaxBytes,       \* w.maxBytes
    MaxLines,       \* bound: the lines ever logged
    MaxFaults,      \* bound: the file operations that fail and the restarts
    None

ASSUME SizeAssumption   == MaxBytes \in Nat /\ LongestLine \in Nat /\ Sizes \subseteq 1 .. LongestLine
ASSUME BoundAssumption  == MaxLines \in Nat /\ MaxFaults \in Nat
ASSUME WriterAssumption == None \notin Writers

\* A line that the disk had no room for is torn: less of it is there.
Line == [id : 1 .. MaxLines, size : 1 .. LongestLine]

Steps   == {"stat", "close", "remove", "rename", "reopen", "restore", "write"}
Handles == {"open", "dead", "closed", "absent"}

VARIABLES
    active,     \* what is in the file w.path
    old,        \* what is in w.path.1
    handle,     \* w.file: open, dead after a failure, closed by Close; absent: no writer
    writing,    \* writing[w]: the line goroutine w has to write, or None
    holder,     \* the goroutine that has w.mu
    pc,         \* where it is in Write
    logged,     \* the lines so far
    answer,     \* answer[w]: what Write told w of its last line, or None
    failed,     \* the step that failed last, or None
    faults

vars == <<active, old, handle, writing, holder, pc, logged, answer, failed, faults>>
files == <<active, old>>

Init == /\ active = <<>>
        /\ old = <<>>
        /\ handle = "open"
        /\ writing = [w \in Writers |-> None]
        /\ holder = None
        /\ pc = "stat"
        /\ logged = 0
        /\ answer = [w \in Writers |-> None]
        /\ failed = None
        /\ faults = 0

Store == INSTANCE LogStore WITH
           kept <- old \o active, Lines <- Line

Incoming == writing[holder]

Succeeds == UNCHANGED <<failed, faults>>
Fails    == /\ faults < MaxFaults
            /\ faults' = faults + 1
            /\ failed' = pc

\* The deferred unlock, with the line written or an error.
ReturnLocked(a) == /\ writing' = [writing EXCEPT ![holder] = None]
                   /\ answer' = [answer EXCEPT ![holder] = a]
                   /\ pc' = "stat"
                   /\ UNCHANGED holder
Return(a) == /\ writing' = [writing EXCEPT ![holder] = None]
             /\ holder' = None
             /\ pc' = "stat"
             /\ answer' = [answer EXCEPT ![holder] = a]

Goto(step) == /\ pc' = step
              /\ UNCHANGED <<writing, holder, answer>>

At(step) == holder # None /\ pc = step /\ UNCHANGED logged

-----------------------------------------------------------------------------
Log(w) == /\ handle # "absent"
          /\ writing[w] = None
          /\ logged < MaxLines
          /\ logged' = logged + 1
          /\ \E s \in Sizes : writing' = [writing EXCEPT ![w] = [id |-> logged', size |-> s]]
          /\ answer' = [answer EXCEPT ![w] = None]
          /\ UNCHANGED <<files, handle, holder, pc, failed, faults>>

LockUsable(w) ==
    /\ holder = None
    /\ handle = "open"
    /\ writing[w] # None
    /\ holder' = w
    /\ UNCHANGED <<files, handle, writing, pc, logged, answer, failed, faults>>
Lock(w) == /\ holder = None
           /\ writing[w] # None
           /\ holder' = w
           /\ UNCHANGED <<files, handle, writing, pc, logged, answer, failed, faults>>

TooLarge == Store!Size(active) + Incoming.size > MaxBytes

Stat == /\ At("stat")
        /\ \/ handle = "open" /\ Goto(IF TooLarge THEN "close" ELSE "write") /\ Succeeds
           \/ handle = "open" /\ Fails /\ Return("error")
           \/ handle # "open" /\ Succeeds /\ Return("error")
        /\ UNCHANGED <<files, handle>>

\* A file whose Close failed is closed all the same.
CloseFile == /\ At("close")
             /\ handle' = "dead"
             /\ \/ Succeeds /\ Goto("remove")
                \/ Fails /\ Return("error")
             /\ UNCHANGED files

RemoveOld == /\ At("remove")
             /\ \/ Succeeds /\ old' = <<>> /\ Goto("rename")
                \/ Fails /\ UNCHANGED old /\ Goto("restore")
             /\ UNCHANGED <<active, handle>>

RenameOrReturn == /\ At("rename")
                  /\ \/ Succeeds /\ old' = active /\ active' = <<>> /\ Goto("reopen")
                     \/ Fails /\ UNCHANGED files /\ Return("error")
                  /\ UNCHANGED handle
Rename == /\ At("rename")
          /\ \/ Succeeds /\ old' = active /\ active' = <<>> /\ Goto("reopen")
             \/ Fails /\ UNCHANGED files /\ Goto("restore")
          /\ UNCHANGED handle

\* reopenActiveFile: "restore" is the way back from a rotation that failed.
ReopenTruncated ==
    /\ At("reopen") \/ At("restore")
    /\ \/ Succeeds /\ handle' = "open" /\ active' = <<>>
          /\ IF pc = "reopen" THEN Goto("write") ELSE Return("error")
       \/ Fails /\ UNCHANGED <<handle, active>> /\ Return("error")
    /\ UNCHANGED old
Reopen ==
    /\ At("reopen") \/ At("restore")
    /\ \/ Succeeds /\ handle' = "open"
          /\ IF pc = "reopen" THEN Goto("write") ELSE Return("error")
       \/ Fails /\ UNCHANGED handle /\ Return("error")
    /\ UNCHANGED files

WriteLine ==
    /\ At("write")
    /\ \/ Succeeds /\ active' = Append(active, Incoming) /\ Return("ok")
       \/ Fails /\ Return("error")
          /\ \/ UNCHANGED active
             \/ \E part \in 1 .. Incoming.size - 1 :
                   active' = Append(active, [Incoming EXCEPT !.size = part])
    /\ UNCHANGED <<old, handle>>

-----------------------------------------------------------------------------
\* main has returned from ServeUnix: the deferred Close.
Close == /\ holder = None
         /\ handle \in {"open", "dead"}
         /\ handle' = "closed"
         /\ UNCHANGED <<files, writing, holder, pc, logged, answer, failed, faults>>

\* The process ends, by os.Exit or a crash, and Docker starts it again:
\* ConfigureLogger goes on with stderr alone when the file cannot be opened.
Restart == /\ faults < MaxFaults
           /\ faults' = faults + 1
           /\ handle' \in {"open", "absent"}
           /\ writing' = [w \in Writers |-> None]
           /\ holder' = None
           /\ pc' = "stat"
           /\ answer' = [w \in Writers |-> None]
           /\ failed' = None
           /\ UNCHANGED <<files, logged>>

Write == Stat \/ CloseFile \/ RemoveOld \/ Rename \/ Reopen \/ WriteLine
Next  == (\E w \in Writers : Log(w) \/ Lock(w)) \/ Write \/ Close \/ Restart
Spec  == Init /\ [][Next]_vars

\* Goroutines go on; a sync.Mutex lets a waiting one in before long.
FairSpec == Spec /\ WF_vars(Write) /\ \A w \in Writers : SF_vars(Lock(w))

-----------------------------------------------------------------------------
\* The types, and: w.mu is held by a goroutine that has a line to write.
TypeOK == /\ active \in Seq(Line) /\ old \in Seq(Line)
          /\ handle \in Handles
          /\ writing \in [Writers -> Line \cup {None}]
          /\ holder \in Writers \cup {None}
          /\ holder # None => Incoming # None
          /\ pc \in Steps
          /\ logged \in 0 .. MaxLines
          /\ answer \in [Writers -> {"ok", "error", None}]
          /\ failed \in Steps \cup {None}
          /\ faults \in 0 .. MaxFaults

Lost == failed \in {"close", "reopen", "restore"}

\* What Implements rests on: a file is no larger than MaxBytes or a single line,
\* and there is room for the line about to be written, or it has a file of its
\* own; a file is moved aside only when it is full, and not onto another.
Rooms ==
    /\ Store!Size(old) <= Store!Cap /\ Store!Size(active) <= Store!Cap
    /\ \A w \in Writers : writing[w] # None => writing[w].size \in Sizes
    /\ holder = None => pc = "stat"
    /\ holder # None =>
          /\ pc \in {"close", "remove"} => TooLarge
          /\ pc = "rename" => old = <<>>
          /\ pc = "reopen" => active = <<>>
          /\ pc = "write"  => ~TooLarge \/ active = <<>>

Inv == TypeOK /\ Rooms

\* The two files together are a LogStore, in the midst of rotations and over
\* failures and restarts: lines in order, the newest MaxBytes always kept.
Implements == Store!Spec

\* Every call of Write returns, whatever fails, and leaves w.mu to the others.
WriteEnds == \A w \in Writers : writing[w] # None ~> writing[w] = None

\* Failed rotations do not silence the log: once nothing fails any more, the
\* lines are accepted again, unless the file was lost or is closed.
GetsThrough == \A w \in Writers :
    faults = MaxFaults /\ ~Lost /\ holder = None /\ writing[w] # None
        ~> answer[w] = "ok" \/ handle = "closed"
=============================================================================
