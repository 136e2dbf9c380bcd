------------------------------ MODULE AuditLog ------------------------------
(***************************************************************************)
(* The audit log (audit.py): the hash chain kept in memory, the executor   *)
(* that writes the records behind the event loop, the file sink with its   *)
(* rotation, the tasks by which the gateway logs a block (gateway.py       *)
(* _record_block) and their end with the event loop, and the start of a    *)
(* process on the files of an earlier one.                                 *)
(*                                                                         *)
(* A record is the payload and the hash of its predecessor.  Payloads      *)
(* carry their time and details and never repeat, so a record's hash is    *)
(* represented by the number of its payload, in the order of logging; 0 is *)
(* the None before the first.  Each record's line has a size of its own,   *)
(* and a file's size is the sum of its lines.  A line is written as a      *)
(* whole or not at all; signatures cover what the hashes cover and are     *)
(* left out.                                                               *)
(***************************************************************************)
EXTENDS Integers, SequencesExt

CONSTANTS
  Workers,    \* the threads of the executor _external
  Caller,     \* the thread of the event loop, which emits within log()
  NoOne,      \* the sink's lock is free
  LineBytes,  \* the size of each record's line, by the record's number
  MaxSize,    \* max_bytes; 0 means that nothing is rotated
  MaxFiles,   \* max_files, at least 1: a 0 is replaced by 10
  MaxRecords, \* bound on the records reported
  MaxPending, \* bound on the tasks that have not begun
  MaxStarts   \* bound on the restarts

ASSUME AuditAssumption ==
  /\ Caller \notin Workers
  /\ NoOne \notin Workers \cup {Caller}
  /\ MaxSize \in Nat
  /\ MaxFiles \in Nat \ {0}
  /\ MaxRecords \in Nat
  /\ LineBytes \in [1..MaxRecords -> Nat \ {0}]
  /\ MaxPending \in Nat
  /\ MaxStarts \in Nat

Emitters == Workers \cup {Caller}

Record == [event : 1..MaxRecords, previous : 0..MaxRecords]

NoRecord == [event |-> 0, previous |-> 0]

Missing == <<>>   \* no file: one that exists was created by a write

VARIABLES
  program,    \* who runs: the gateway calls alog(), the terminal log()
  loop,       \* the event loop: "running", or "ended" by the shutdown
  reported,   \* history: how many events there were to log
  pending,    \* the tasks that were created and have not begun alog()
  tail,       \* _tail_hash
  logged,     \* how many payloads there have been
  queue,      \* the executor's queue
  working,    \* the record each thread is writing, or NoRecord
  lock,       \* FileSink._lock
  shift,      \* how far the holder of the lock is in _rotate(); -1 when through
  files,      \* the files: 0 is path, i + 1 is path.i
  starts,     \* how often the process was restarted
  written,    \* history: the records in the order in which they were written
  disturbed   \* history: what has happened that a chain need not survive

process == <<program, loop>>

tasks == <<reported, pending>>

vars == <<process, tasks, tail, logged, queue, working, lock, shift, files, starts, written, disturbed>>

Exists(i) == files[i] # Missing

(* st_size of a file. *)
Size(file) ==
  SumFunction([i \in DOMAIN file |-> LineBytes[file[i].event]])

(* What verify_chain() reads: the backups, the oldest first, and then path. *)
Stored ==
  FlattenSeq([i \in 1..(MaxFiles + 1) |-> files[MaxFiles + 1 - i]])

(* Each record's hash is that of its payload with the hash before it. *)
Linked(s) ==
  \A i \in DOMAIN s : s[i].previous = IF i = 1 THEN 0 ELSE s[i - 1].event

(* verify_chain() reads path without asking whether it exists.             *)
VerifyChain ==
  IF ~Exists(0) THEN "raised"
  ELSE IF Linked(Stored) THEN "verified" ELSE "broken"

(* Records that are logged and on their way to the file. *)
Underway ==
  {queue[i].event : i \in DOMAIN queue} \cup ({working[x].event : x \in Emitters} \ {0})

-----------------------------------------------------------------------------

Programs == {"gateway", "terminal"}

Init ==
  /\ program \in Programs
  /\ loop = "running"
  /\ reported = 0
  /\ pending = 0
  /\ tail = 0
  /\ logged = 0
  /\ queue = <<>>
  /\ working = [x \in Emitters |-> NoRecord]
  /\ lock = NoOne
  /\ shift = -1
  /\ files = [i \in 0..MaxFiles |-> Missing]
  /\ starts = 0
  /\ written = <<>>
  /\ disturbed = {}

(* Mutant: the record is made before the task that logs it is created, and *)
(* the task of an earlier one that has not begun is forgotten.             *)
RecordBlockReplacing ==
  /\ program = "gateway" /\ loop = "running"
  /\ reported < MaxRecords /\ pending < MaxPending
  /\ reported' = reported + 1
  /\ pending' = 1
  /\ UNCHANGED <<process, tail, logged, queue, working, lock, shift, files, starts, written, disturbed>>

(* _record_block(): a task is created for the record and not awaited. *)
RecordBlock ==
  /\ program = "gateway" /\ loop = "running"
  /\ reported < MaxRecords /\ pending < MaxPending
  /\ reported' = reported + 1
  /\ pending' = pending + 1
  /\ UNCHANGED <<process, tail, logged, queue, working, lock, shift, files, starts, written, disturbed>>

(* _make_record() and the update of the tail, with no await between them. *)
Chain ==
  /\ logged' = logged + 1
  /\ tail' = logged + 1
  /\ disturbed' = disturbed \cup (IF Underway = {} THEN {} ELSE {"overlap"})

NewRecord == [event |-> logged + 1, previous |-> tail]

(* alog(), when its task begins: the record is chained and given to the    *)
(* executor.                                                               *)
Alog ==
  /\ pending > 0
  /\ pending' = pending - 1
  /\ Chain
  /\ queue' = Append(queue, NewRecord)
  /\ UNCHANGED <<process, reported, working, lock, shift, files, starts, written>>

(* log(): the caller writes the record itself, and does not log another    *)
(* before it is done.                                                      *)
Log ==
  /\ program = "terminal"
  /\ working[Caller] = NoRecord
  /\ reported < MaxRecords
  /\ reported' = reported + 1
  /\ Chain
  /\ working' = [working EXCEPT ![Caller] = NewRecord]
  /\ UNCHANGED <<process, pending, queue, lock, shift, files, starts, written>>

(* A free worker takes the next record from the queue. *)
Take(w) ==
  /\ working[w] = NoRecord
  /\ queue # <<>>
  /\ working' = [working EXCEPT ![w] = Head(queue)]
  /\ queue' = Tail(queue)
  /\ UNCHANGED <<process, tasks, tail, logged, lock, shift, files, starts, written, disturbed>>

-----------------------------------------------------------------------------
(* FileSink.emit, under its lock *)

(* Mutant: a file that has just reached max_bytes has room. *)
FullLate(file) == MaxSize > 0 /\ file # Missing /\ Size(file) > MaxSize

(* A file that is there has reached max_bytes, without the line to come. *)
Full(file) == MaxSize > 0 /\ file # Missing /\ Size(file) >= MaxSize

(* Mutant: the loop of _rotate() begins one file too high. *)
EnterTooHigh(x) ==
  /\ working[x] # NoRecord
  /\ lock = NoOne
  /\ lock' = x
  /\ shift' = IF Full(files[0]) THEN MaxFiles ELSE -1
  /\ UNCHANGED <<process, tasks, tail, logged, queue, working, files, starts, written, disturbed>>

(* The lock is taken and the size of path looked at. *)
Enter(x) ==
  /\ working[x] # NoRecord
  /\ lock = NoOne
  /\ lock' = x
  /\ shift' = IF Full(files[0]) THEN MaxFiles - 1 ELSE -1
  /\ UNCHANGED <<process, tasks, tail, logged, queue, working, files, starts, written, disturbed>>

(* Mutant: a file is copied, not renamed, and stays where it was. *)
RotateCopies(x) ==
  /\ lock = x
  /\ shift >= 0
  /\ files' = IF Exists(shift) THEN [files EXCEPT ![shift + 1] = files[shift]] ELSE files
  /\ shift' = shift - 1
  /\ UNCHANGED <<process, tasks, tail, logged, queue, working, lock, starts, written, disturbed>>

(* One file operation of _rotate(): from the oldest backup down to path, a *)
(* file that exists is moved up by one; what is in its way is unlinked.    *)
Rotate(x) ==
  /\ lock = x
  /\ shift >= 0
  /\ \/ /\ ~Exists(shift)
        /\ shift' = shift - 1
        /\ UNCHANGED files
     \/ /\ Exists(shift) /\ Exists(shift + 1)
        /\ files' = [files EXCEPT ![shift + 1] = Missing]
        /\ UNCHANGED shift
     \/ /\ Exists(shift) /\ ~Exists(shift + 1)
        /\ files' = [files EXCEPT ![shift + 1] = files[shift], ![shift] = Missing]
        /\ shift' = shift - 1
  /\ UNCHANGED <<process, tasks, tail, logged, queue, working, lock, starts, written, disturbed>>

(* Mutant: the record is queued again, as a retry that does not know that  *)
(* it was written would do.                                                *)
WriteAgain(x) ==
  /\ lock = x /\ working[x] # NoRecord
  /\ shift = -1
  /\ files' = [files EXCEPT ![0] = Append(@, working[x])]
  /\ written' = Append(written, working[x])
  /\ working' = [working EXCEPT ![x] = NoRecord]
  /\ queue' = Append(queue, working[x])
  /\ lock' = NoOne
  /\ UNCHANGED <<process, tasks, tail, logged, shift, starts, disturbed>>

(* The line is appended; path is created when it does not exist. *)
Write(x) ==
  /\ lock = x /\ working[x] # NoRecord
  /\ shift = -1
  /\ files' = [files EXCEPT ![0] = Append(@, working[x])]
  /\ written' = Append(written, working[x])
  /\ working' = [working EXCEPT ![x] = NoRecord]
  /\ lock' = NoOne
  /\ UNCHANGED <<process, tasks, tail, logged, queue, shift, starts, disturbed>>

(* Mutant: the lock is not released when a file operation raises. *)
EmitFailsHolding(x) ==
  /\ lock = x
  /\ working' = [working EXCEPT ![x] = NoRecord]
  /\ disturbed' = disturbed \cup {"failure"}
  /\ UNCHANGED <<process, tasks, tail, logged, queue, lock, shift, files, starts, written>>

(* Any file operation may raise: _emit() swallows the exception, and the   *)
(* record is lost while the tail goes on.                                  *)
EmitFails(x) ==
  /\ lock = x
  /\ working' = [working EXCEPT ![x] = NoRecord]
  /\ lock' = NoOne
  /\ shift' = -1
  /\ disturbed' = disturbed \cup {"failure"}
  /\ UNCHANGED <<process, tasks, tail, logged, queue, files, starts, written>>

-----------------------------------------------------------------------------

(* Mutant: the tail of a process that starts is always None. *)
LoadedNothing == 0

(* _load_existing(): the hash of the last record in path; the backups are  *)
(* not looked at.                                                          *)
Loaded == IF Exists(0) THEN files[0][Len(files[0])].event ELSE 0

(* asyncio.run() ends: the tasks that have not begun are cancelled, *)
EndLoop ==
  /\ program = "gateway" /\ loop = "running"
  /\ loop' = "ended"
  /\ pending' = 0
  /\ disturbed' = disturbed \cup (IF pending = 0 /\ queue = <<>> THEN {} ELSE {"stopped"})
  /\ UNCHANGED <<program, reported, tail, logged, queue, working, lock, shift, files, starts, written>>

(* and so are those that wait for the executor, in the order of a set: a   *)
(* record that no thread has taken is dropped, while the threads go on.    *)
CancelQueued(i) ==
  /\ loop = "ended"
  /\ queue' = RemoveAt(queue, i)
  /\ UNCHANGED <<process, tasks, tail, logged, working, lock, shift, files, starts, written, disturbed>>

(* The process dies at any point, with what it had queued, and another one *)
(* starts on its files.                                                    *)
Restart ==
  /\ starts < MaxStarts
  /\ starts' = starts + 1
  /\ program' \in Programs
  /\ loop' = "running"
  /\ pending' = 0
  /\ tail' = Loaded
  /\ queue' = <<>>
  /\ working' = [x \in Emitters |-> NoRecord]
  /\ lock' = NoOne
  /\ shift' = -1
  /\ disturbed' = disturbed \cup (IF ~Exists(0) /\ written # <<>> THEN {"gap"} ELSE {})
  /\ UNCHANGED <<reported, logged, files, written>>

Emit(x) == Enter(x) \/ Rotate(x) \/ Write(x) \/ EmitFails(x)

Next ==
  \/ RecordBlock \/ Alog \/ Log
  \/ EndLoop \/ Restart
  \/ \E i \in DOMAIN queue : CancelQueued(i)
  \/ \E w \in Workers : Take(w)
  \/ \E x \in Emitters : Emit(x)

(* A task that was created begins, the threads run, and a file operation   *)
(* ends, well or badly.                                                    *)
Fairness ==
  /\ WF_vars(Alog)
  /\ \A w \in Workers : WF_vars(Take(w))
  /\ \A x \in Emitters : WF_vars(Emit(x))

Spec == Init /\ [][Next]_vars

FairSpec == Spec /\ Fairness

-----------------------------------------------------------------------------
(* Properties *)

(* The types of the logger's, the executor's and the sink's state. *)
TypeOK ==
  /\ program \in Programs
  /\ loop \in {"running", "ended"}
  /\ reported \in 0..MaxRecords
  /\ pending \in 0..MaxPending
  /\ tail \in 0..MaxRecords
  /\ logged \in 0..MaxRecords
  /\ queue \in Seq(Record)
  /\ working \in [Emitters -> Record \cup {NoRecord}]
  /\ lock \in Emitters \cup {NoOne}
  /\ shift \in -1..(MaxFiles - 1)
  /\ DOMAIN files = 0..MaxFiles
  /\ \A i \in 0..MaxFiles : files[i] \in Seq(Record)
  /\ starts \in 0..MaxStarts
  /\ written \in Seq(Record)
  /\ disturbed \subseteq {"overlap", "failure", "gap", "stopped"}

(* Whatever is interrupted, the backups and path hold what was written, in *)
(* its order, and only the oldest part of it may have gone: no rotation,   *)
(* finished or not, loses a record in the middle or swaps two files.       *)
StoredIsSuffix == IsSuffix(Stored, written)

(* Each record is written once at most, and one that is still underway has *)
(* not been written, across failures, threads and restarts.                *)
WrittenOnce ==
  /\ \A i, j \in DOMAIN written : written[i].event = written[j].event => i = j
  /\ \A i \in DOMAIN written : written[i].event \notin Underway

(* Although several threads write to it and rotations are interrupted, no  *)
(* file gets a line once it has reached its limit: it exceeds max_bytes by *)
(* less than its last line, which the code does not reckon with.           *)
FileSizeBounded ==
  MaxSize > 0 =>
    \A i \in 0..MaxFiles : Len(files[i]) > 1 => ~(Size(Front(files[i])) >= MaxSize)

(* The chain is never found broken, through rotations and restarts at any  *)
(* point, as long as records are logged one at a time, none fails to be    *)
(* written, no process starts while path is missing and the genesis is     *)
(* still there.                                                            *)
AwaitedChainVerifies ==
  (disturbed = {} /\ Stored = written) => VerifyChain # "broken"

(* Although nobody awaits the task that logs it, no event is lost, and     *)
(* none logged twice, as long as no write fails, the process does not die  *)
(* and its loop does not end with work left: an event waits for its task,  *)
(* is underway, or is written.                                             *)
EventsAccountedFor ==
  (disturbed \cap {"failure", "stopped"} = {} /\ starts = 0) =>
    /\ reported = pending + Cardinality(Underway) + Len(written)
    /\ Underway \cup {written[i].event : i \in DOMAIN written} = 1..logged

(* No event waits for its task, its thread or its file for ever: when      *)
(* there are no more to come, all are written or lost.                     *)
EventuallyEmitted == <>[](pending = 0 /\ Underway = {})

-----------------------------------------------------------------------------
(* What the documents say and the code does not do *)

(* README.md: the log is "hash-chained" and "survives rotation             *)
(* (verify_chain())"; tests/test_audit.py expects it of alog().  When all  *)
(* is written, nothing failed or was stopped and nothing was evicted, the  *)
(* chain verifies.                                                         *)
ChainVerifies ==
  (Underway = {} /\ disturbed \subseteq {"overlap"} /\ starts = 0 /\ Stored = written)
    => VerifyChain # "broken"
=============================================================================
