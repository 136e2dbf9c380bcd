--------------------------- MODULE AuditLogProofs ---------------------------
(***************************************************************************)
(* Theorems about AuditLog, for any number of threads, files and records   *)
(* and any sizes of lines and files: its types, that each record is        *)
(* written once, that a file gets no line once it has reached its limit,   *)
(* that no event is lost without a failure, a stop or a restart, that the  *)
(* files hold the end of what was written, in its order, and when the      *)
(* chain over them verifies.                                               *)
(***************************************************************************)
EXTENDS AuditLog, OperatorLemmas, FiniteSetTheorems

(* A record is logged for a task, and a task created for an event. *)
Counters == logged + pending <= reported

(* The number of every record that there is was given out. *)
Given ==
  /\ \A i \in DOMAIN queue : queue[i].event \in 1..logged
  /\ \A x \in Emitters : working[x] # NoRecord => working[x].event \in 1..logged
  /\ \A i \in DOMAIN written : written[i].event \in 1..logged

(* And is that of one record, at one place. *)
Distinct ==
  /\ \A i, j \in DOMAIN queue : queue[i].event = queue[j].event => i = j
  /\ \A i, j \in DOMAIN written : written[i].event = written[j].event => i = j
  /\ \A x, y \in Emitters :
       (working[x] # NoRecord /\ working[x].event = working[y].event) => x = y
  /\ \A i \in DOMAIN queue, j \in DOMAIN written : queue[i].event # written[j].event
  /\ \A x \in Emitters : working[x] # NoRecord =>
       /\ \A i \in DOMAIN queue : queue[i].event # working[x].event
       /\ \A i \in DOMAIN written : written[i].event # working[x].event

(* Who holds the sink's lock has a record to write; only he rotates, and   *)
(* when he is through path is below its limit.                             *)
Held ==
  /\ lock # NoOne => working[lock] # NoRecord
  /\ shift >= 0 => lock # NoOne /\ MaxSize > 0
  /\ (lock # NoOne /\ shift = -1) => ~Full(files[0])

(* Nothing has gone wrong that loses an event. *)
Calm == disturbed \cap {"failure", "stopped"} = {} /\ starts = 0

WrittenEvents == {written[i].event : i \in DOMAIN written}

(* Then no task is missing and no record either. *)
Complete ==
  /\ loop = "ended" => program = "gateway" /\ pending = 0
  /\ Calm => /\ reported = pending + logged
             /\ Underway \cup WrittenEvents = 1..logged
             /\ loop = "ended" => queue = <<>>

(* The inductive invariant. *)
IInv ==
  TypeOK /\ Counters /\ Given /\ Distinct /\ Held /\ FileSizeBounded /\ Complete

-----------------------------------------------------------------------------
(* Lemmas *)

(* The numbers among the constants. *)
LEMMA Numbers ==
  /\ MaxSize \in Nat /\ MaxFiles \in Nat \ {0} /\ MaxRecords \in Nat
  /\ MaxPending \in Nat /\ MaxStarts \in Nat
  /\ Caller \in Emitters /\ NoOne \notin Emitters
  BY AuditAssumption DEF Emitters

(* NoRecord is none. *)
LEMMA RecordEvent ==
  /\ NoRecord \notin Record
  /\ \A r \in Record : r.event \in 1..MaxRecords /\ r.event # 0 /\ r # NoRecord
  /\ NoRecord.event = 0
  BY DEF Record, NoRecord

(* The records of a sequence. *)
LEMMA RecordsOf ==
  ASSUME NEW q \in Seq(Record)
  PROVE  /\ Len(q) \in Nat /\ DOMAIN q = 1..Len(q)
         /\ \A i \in DOMAIN q : q[i] \in Record /\ q[i].event \in 1..MaxRecords
  BY RecordEvent

(* A sequence with one record more. *)
LEMMA Appended ==
  ASSUME NEW q \in Seq(Record), NEW r \in Record
  PROVE  /\ Append(q, r) \in Seq(Record) /\ Len(Append(q, r)) = Len(q) + 1
         /\ DOMAIN Append(q, r) = DOMAIN q \cup {Len(q) + 1} /\ Len(q) + 1 \notin DOMAIN q
         /\ \A i \in DOMAIN q : Append(q, r)[i] = q[i]
         /\ Append(q, r)[Len(q) + 1] = r
  BY RecordsOf

(* Without that record it is what it was. *)
LEMMA FrontAppended ==
  ASSUME NEW q \in Seq(Record), NEW r \in Record
  PROVE  Front(Append(q, r)) = q
  <1>1. /\ Front(Append(q, r)) \in Seq(Record) /\ Len(Front(Append(q, r))) = Len(q)
        /\ \A i \in 1..Len(q) : Front(Append(q, r))[i] = q[i]
    BY Appended, RecordsOf DEF Front
  <1> QED
    BY <1>1, SeqEqual

(* A queue without its first record. *)
LEMMA Taken ==
  ASSUME NEW q \in Seq(Record), q # <<>>
  PROVE  /\ Tail(q) \in Seq(Record) /\ Head(q) = q[1] /\ 1 \in DOMAIN q
         /\ \A i \in DOMAIN Tail(q) : i + 1 \in DOMAIN q /\ i + 1 # 1 /\ Tail(q)[i] = q[i + 1]
         /\ \A i \in DOMAIN q : i = 1 \/ (i - 1 \in DOMAIN Tail(q) /\ Tail(q)[i - 1] = q[i])
  BY RecordsOf, HeadTailProperties

(* A queue without one of its records. *)
LEMMA Dropped ==
  ASSUME NEW q \in Seq(Record), NEW i \in DOMAIN q
  PROVE  /\ RemoveAt(q, i) \in Seq(Record)
         /\ \A k \in DOMAIN RemoveAt(q, i) :
              LET o == IF k < i THEN k ELSE k + 1
              IN  o \in DOMAIN q /\ RemoveAt(q, i)[k] = q[o]
  <1> DEFINE a == SubSeq(q, 1, i - 1)
             b == SubSeq(q, i + 1, Len(q))
  <1>1. Len(q) \in Nat /\ DOMAIN q = 1..Len(q) /\ i \in 1..Len(q) /\ \A k \in 1..Len(q) : q[k] \in Record
    BY RecordsOf
  <1>2. /\ a \in Seq(Record) /\ Len(a) = i - 1
        /\ \A k \in 1..(i - 1) : a[k] = q[k]
    BY <1>1, SubSeqProperties
  <1>3. /\ b \in Seq(Record) /\ Len(b) = Len(q) - i
        /\ \A k \in 1..(Len(q) - i) : b[k] = q[k + i]
    <2>1. /\ SubSeq(q, i + 1, Len(q)) \in Seq(Record)
          /\ Len(SubSeq(q, i + 1, Len(q))) = IF i + 1 <= Len(q) THEN Len(q) - (i + 1) + 1 ELSE 0
          /\ \A k \in 1..(Len(q) - (i + 1) + 1) : SubSeq(q, i + 1, Len(q))[k] = q[(i + 1) + k - 1]
      BY <1>1, SubSeqProperties
    <2>2. (IF i + 1 <= Len(q) THEN Len(q) - (i + 1) + 1 ELSE 0) = Len(q) - i
          /\ Len(q) - (i + 1) + 1 = Len(q) - i
      BY <1>1
    <2>3. \A k \in 1..(Len(q) - i) : (i + 1) + k - 1 = k + i
      BY <1>1
    <2> QED
      BY <2>1, <2>2, <2>3
  <1> HIDE DEF a, b
  <1>4. /\ a \o b \in Seq(Record) /\ Len(a \o b) = Len(q) - 1
        /\ \A k \in 1..(Len(q) - 1) : (a \o b)[k] = IF k <= i - 1 THEN a[k] ELSE b[k - (i - 1)]
    <2>1. /\ a \o b \in Seq(Record) /\ Len(a \o b) = Len(a) + Len(b)
          /\ \A k \in 1..(Len(a) + Len(b)) :
               (a \o b)[k] = IF k <= Len(a) THEN a[k] ELSE b[k - Len(a)]
      BY <1>2, <1>3, ConcatProperties
    <2>2. Len(a) + Len(b) = Len(q) - 1
      BY <1>1, <1>2, <1>3
    <2> QED
      BY <1>2, <2>1, <2>2
  <1>5. RemoveAt(q, i) = a \o b
    BY DEF RemoveAt, a, b
  <1>6. ASSUME NEW k \in 1..(Len(q) - 1)
        PROVE  LET o == IF k < i THEN k ELSE k + 1
               IN  o \in DOMAIN q /\ (a \o b)[k] = q[o]
    <2>1. CASE k < i
      BY <1>1, <1>2, <1>4, <2>1
    <2>2. CASE ~(k < i)
      <3>1. k - (i - 1) \in 1..(Len(q) - i) /\ k - (i - 1) + i = k + 1
        BY <1>1, <2>2
      <3> QED
        BY <1>1, <1>3, <1>4, <2>2, <3>1, SMTT(30)
    <2> QED
      BY <2>1, <2>2
  <1>7. DOMAIN (a \o b) = 1..(Len(q) - 1)
    BY <1>4
  <1> QED
    BY <1>4, <1>5, <1>6, <1>7

-----------------------------------------------------------------------------
(* The initial states *)

LEMMA InitIInv == Init => IInv
  <1> SUFFICES ASSUME Init PROVE IInv
    OBVIOUS
  <1> USE Numbers DEF Init
  <1>1. TypeOK
    BY RecordEvent DEF TypeOK, Missing
  <1>2. Counters /\ Given /\ Distinct
    BY DEF Counters, Given, Distinct
  <1>3. Held /\ FileSizeBounded
    <2>1. Len(Missing) = 0
      BY DEF Missing
    <2> QED
      BY <2>1 DEF Held, FileSizeBounded
  <1>4. Complete
    <2>1. Underway = {} /\ WrittenEvents = {} /\ 1..logged = {}
      BY RecordEvent DEF Underway, WrittenEvents
    <2> QED
      BY <2>1 DEF Complete, Programs
  <1> QED
    BY <1>1, <1>2, <1>3, <1>4 DEF IInv

-----------------------------------------------------------------------------
(* Logging *)

(* A task that is created is one event more to log. *)
LEMMA RecordBlockIInv == ASSUME IInv, RecordBlock PROVE IInv'
  <1> USE Numbers
  <1>1. TypeOK'
    BY DEF IInv, TypeOK, RecordBlock, process
  <1>2. Counters' /\ Given' /\ Distinct' /\ Held' /\ FileSizeBounded'
    BY DEF IInv, TypeOK, RecordBlock, process, Counters, Given, Distinct, Held, FileSizeBounded
  <1>3. Complete'
    <2>1. Underway' = Underway /\ WrittenEvents' = WrittenEvents
      BY DEF RecordBlock, Underway, WrittenEvents
    <2> QED
      BY <2>1 DEF IInv, TypeOK, RecordBlock, process, Complete, Calm
  <1> QED
    BY <1>1, <1>2, <1>3 DEF IInv

(* The record that is made next. *)
LEMMA NextRecord ==
  ASSUME IInv, logged < MaxRecords
  PROVE  /\ NewRecord \in Record /\ NewRecord # NoRecord /\ NewRecord.event = logged + 1
         /\ logged + 1 \in 1..MaxRecords
         /\ \A i \in DOMAIN queue : queue[i].event # NewRecord.event
         /\ \A x \in Emitters : working[x].event # NewRecord.event
         /\ \A i \in DOMAIN written : written[i].event # NewRecord.event
         /\ 1..(logged + 1) = (1..logged) \cup {NewRecord.event}
  <1> USE Numbers
  <1>1. logged \in 0..MaxRecords /\ tail \in 0..MaxRecords
    BY DEF IInv, TypeOK
  <1>2. NewRecord \in Record /\ NewRecord.event = logged + 1 /\ logged + 1 \in 1..MaxRecords
    BY <1>1 DEF NewRecord, Record
  <1>3. \A x \in Emitters : working[x].event # NewRecord.event
    BY <1>1, <1>2, RecordEvent DEF IInv, Given
  <1>4. /\ \A i \in DOMAIN queue : queue[i].event # NewRecord.event
        /\ \A i \in DOMAIN written : written[i].event # NewRecord.event
    BY <1>1, <1>2 DEF IInv, Given
  <1>5. 1..(logged + 1) = (1..logged) \cup {NewRecord.event}
    BY <1>1, <1>2
  <1> QED
    BY <1>2, <1>3, <1>4, <1>5, RecordEvent

(* A task that begins: its event becomes the last record of the queue. *)
LEMMA AlogIInv == ASSUME IInv, Alog PROVE IInv'
  <1> USE Numbers
  <1>0. /\ pending \in 1..MaxPending /\ logged \in 0..MaxRecords /\ logged < MaxRecords
        /\ queue \in Seq(Record)
    BY DEF IInv, TypeOK, Alog, Counters
  <1>1. /\ queue' = Append(queue, NewRecord) /\ pending' = pending - 1
        /\ logged' = logged + 1 /\ tail' = logged + 1
        /\ UNCHANGED <<process, reported, working, lock, shift, files, starts, written>>
        /\ disturbed' = disturbed \cup (IF Underway = {} THEN {} ELSE {"overlap"})
    BY DEF Alog, Chain
  <1>n. NewRecord \in Record /\ NewRecord.event = logged + 1 /\ logged + 1 \in 1..MaxRecords
    BY <1>0, NextRecord
  <1>2. TypeOK'
    BY <1>0, <1>1, <1>n, Appended, SMTT(30) DEF IInv, TypeOK, process
  <1>3. Counters' /\ Held' /\ FileSizeBounded'
    BY <1>0, <1>1 DEF IInv, TypeOK, process, Counters, Held, FileSizeBounded
  <1>q. /\ DOMAIN queue' = DOMAIN queue \cup {Len(queue) + 1} /\ Len(queue) + 1 \notin DOMAIN queue
        /\ \A i \in DOMAIN queue : queue'[i] = queue[i]
        /\ queue'[Len(queue) + 1] = NewRecord
    BY <1>0, <1>1, <1>n, Appended
  <1>4. Given'
    BY <1>0, <1>1, <1>n, <1>q DEF IInv, Given
  <1>5. Distinct'
    <2>1. /\ \A i \in DOMAIN queue : queue[i].event # NewRecord.event
          /\ \A x \in Emitters : working[x].event # NewRecord.event
          /\ \A i \in DOMAIN written : written[i].event # NewRecord.event
      BY <1>0, NextRecord
    <2> QED
      BY <1>1, <1>q, <2>1 DEF IInv, Distinct
  <1>6. Complete'
    <2>1. Underway' = Underway \cup {NewRecord.event}
      BY <1>1, <1>q DEF Underway
    <2>2. WrittenEvents' = WrittenEvents /\ 1..logged' = (1..logged) \cup {NewRecord.event}
      BY <1>0, <1>1, NextRecord DEF WrittenEvents
    <2>3. loop # "ended" /\ process' = process
      BY <1>0, <1>1 DEF IInv, Complete
    <2>4. Calm' => Calm
      BY <1>1 DEF Calm
    <2>5. Calm => reported = pending + logged
      BY DEF IInv, Complete
    <2>6. reported \in Nat
      BY DEF IInv, TypeOK
    <2> QED
      BY <1>0, <1>1, <2>1, <2>2, <2>3, <2>4, <2>5, <2>6 DEF IInv, Complete, process
  <1> QED
    BY <1>2, <1>3, <1>4, <1>5, <1>6 DEF IInv

(* The caller that logs has its record at hand. *)
LEMMA LogIInv == ASSUME IInv, Log PROVE IInv'
  <1> USE Numbers
  <1>0. /\ logged \in 0..MaxRecords /\ logged < MaxRecords /\ reported < MaxRecords
        /\ pending \in Nat /\ reported \in Nat
        /\ working \in [Emitters -> Record \cup {NoRecord}] /\ working[Caller] = NoRecord
    BY DEF IInv, TypeOK, Log, Counters
  <1>1. /\ working' = [working EXCEPT ![Caller] = NewRecord] /\ reported' = reported + 1
        /\ logged' = logged + 1 /\ tail' = logged + 1 /\ program = "terminal"
        /\ UNCHANGED <<process, pending, queue, lock, shift, files, starts, written>>
        /\ disturbed' = disturbed \cup (IF Underway = {} THEN {} ELSE {"overlap"})
    BY DEF Log, Chain
  <1>n. /\ NewRecord \in Record /\ NewRecord # NoRecord /\ NewRecord.event = logged + 1
        /\ logged + 1 \in 1..MaxRecords
    BY <1>0, NextRecord
  <1>2. TypeOK'
    BY <1>0, <1>1, <1>n DEF IInv, TypeOK, process
  <1>w. working'[Caller] = NewRecord /\ \A x \in Emitters : x # Caller => working'[x] = working[x]
    BY <1>0, <1>1
  <1>3. Counters' /\ FileSizeBounded'
    BY <1>0, <1>1 DEF IInv, TypeOK, process, Counters, FileSizeBounded
  <1>h. Held'
    BY <1>0, <1>1, <1>n, <1>w DEF IInv, TypeOK, Held
  <1>4. Given'
    BY <1>0, <1>1, <1>n, <1>w DEF IInv, Given
  <1>5. Distinct'
    <2>1. /\ \A i \in DOMAIN queue : queue[i].event # NewRecord.event
          /\ \A x \in Emitters : working[x].event # NewRecord.event
          /\ \A i \in DOMAIN written : written[i].event # NewRecord.event
      BY <1>0, NextRecord
    <2> QED
      BY <1>1, <1>w, <2>1 DEF IInv, Distinct
  <1>6. Complete'
    <2>1. Underway' = Underway \cup {NewRecord.event}
      BY <1>0, <1>1, <1>n, <1>w, RecordEvent DEF Underway
    <2>2. WrittenEvents' = WrittenEvents /\ 1..logged' = (1..logged) \cup {NewRecord.event}
      BY <1>0, <1>1, NextRecord DEF WrittenEvents
    <2>3. loop # "ended" /\ process' = process
      BY <1>0, <1>1 DEF IInv, Complete
    <2>4. Calm' => Calm
      BY <1>1 DEF Calm
    <2>5. Calm => reported = pending + logged
      BY DEF IInv, Complete
    <2> QED
      BY <1>0, <1>1, <2>1, <2>2, <2>3, <2>4, <2>5 DEF IInv, Complete, process
  <1> QED
    BY <1>2, <1>3, <1>4, <1>5, <1>6, <1>h DEF IInv

-----------------------------------------------------------------------------
(* The queue and its threads *)

(* The first of the queue changes its place. *)
LEMMA TakeIInv == ASSUME IInv, NEW w \in Workers, Take(w) PROVE IInv'
  <1> USE Numbers
  <1>0. /\ w \in Emitters /\ working[w] = NoRecord /\ queue # <<>> /\ queue \in Seq(Record)
        /\ working \in [Emitters -> Record \cup {NoRecord}]
        /\ working' = [working EXCEPT ![w] = Head(queue)] /\ queue' = Tail(queue)
        /\ UNCHANGED <<process, tasks, tail, logged, lock, shift, files, starts, written, disturbed>>
    BY DEF IInv, TypeOK, Take, Emitters
  <1>q. /\ queue' \in Seq(Record) /\ Head(queue) = queue[1] /\ 1 \in DOMAIN queue
        /\ \A i \in DOMAIN queue' : i + 1 \in DOMAIN queue /\ i + 1 # 1 /\ queue'[i] = queue[i + 1]
        /\ \A i \in DOMAIN queue : i = 1 \/ (i - 1 \in DOMAIN queue' /\ queue'[i - 1] = queue[i])
    BY <1>0, Taken
  <1>w. /\ working'[w] = queue[1] /\ working'[w] \in Record /\ working'[w] # NoRecord
        /\ \A x \in Emitters : x # w => working'[x] = working[x]
    <2>1. queue[1] \in Record
      BY <1>0, <1>q, RecordsOf
    <2> QED
      BY <1>0, <1>q, <2>1, RecordEvent
  <1>2. TypeOK'
    BY <1>0, <1>q, <1>w DEF IInv, TypeOK, process, tasks
  <1>3. Counters' /\ FileSizeBounded'
    BY <1>0 DEF IInv, Counters, FileSizeBounded, tasks
  <1>h. Held'
    BY <1>0, <1>w DEF IInv, TypeOK, Held
  <1>4. Given'
    BY <1>0, <1>q, <1>w DEF IInv, Given
  <1>5. Distinct'
    <2>1. \A i, j \in DOMAIN queue' : queue'[i].event = queue'[j].event => i = j
      <3> SUFFICES ASSUME NEW i \in DOMAIN queue', NEW j \in DOMAIN queue',
                          queue'[i].event = queue'[j].event
                   PROVE  i = j
        OBVIOUS
      <3>1. i + 1 = j + 1
        BY <1>q DEF IInv, Distinct
      <3>2. i \in Int /\ j \in Int
        BY <1>q, RecordsOf
      <3> QED
        BY <3>1, <3>2
    <2>2. \A x, y \in Emitters :
            (working'[x] # NoRecord /\ working'[x].event = working'[y].event) => x = y
      <3> SUFFICES ASSUME NEW x \in Emitters, NEW y \in Emitters, working'[x] # NoRecord,
                          working'[x].event = working'[y].event, x # y
                   PROVE  FALSE
        OBVIOUS
      <3>1. \A z \in Emitters : z # w => working'[z].event # working'[w].event
        <4> SUFFICES ASSUME NEW z \in Emitters, z # w, working[z].event = queue[1].event
                     PROVE  FALSE
          BY <1>w
        <4>1. working[z] # NoRecord
          BY <1>w, RecordEvent
        <4> QED
          BY <1>q, <4>1 DEF IInv, Distinct
      <3> QED
        BY <1>w, <3>1 DEF IInv, Distinct
    <2>3. \A x \in Emitters : working'[x] # NoRecord =>
            \A i \in DOMAIN queue' : queue'[i].event # working'[x].event
      <3> SUFFICES ASSUME NEW x \in Emitters, working'[x] # NoRecord, NEW i \in DOMAIN queue'
                   PROVE  queue'[i].event # working'[x].event
        OBVIOUS
      <3>1. i + 1 \in DOMAIN queue /\ i + 1 # 1 /\ queue'[i] = queue[i + 1]
        BY <1>q
      <3>2. CASE x = w
        BY <1>q, <1>w, <3>1, <3>2 DEF IInv, Distinct
      <3>3. CASE x # w
        BY <1>w, <3>1, <3>3 DEF IInv, Distinct
      <3> QED
        BY <3>2, <3>3
    <2>4. written' = written /\ \A i \in DOMAIN queue', j \in DOMAIN written :
            queue'[i].event # written[j].event
      BY <1>0, <1>q DEF IInv, Distinct
    <2>5. \A x \in Emitters : working'[x] # NoRecord =>
            \A i \in DOMAIN written : written[i].event # working'[x].event
      BY <1>q, <1>w DEF IInv, Distinct
    <2> QED
      BY <2>1, <2>2, <2>3, <2>4, <2>5 DEF IInv, Distinct
  <1>6. Complete'
    <2>1. Underway' = Underway
      <3>1. \A e : e \in Underway' => e \in Underway
        BY <1>0, <1>q, <1>w, RecordEvent DEF Underway
      <3>2. ASSUME NEW i \in DOMAIN queue PROVE queue[i].event \in Underway'
        <4>1. CASE i = 1
          BY <1>0, <1>w, <4>1, RecordEvent DEF Underway
        <4>2. CASE i # 1
          BY <1>q, <4>2 DEF Underway
        <4> QED
          BY <4>1, <4>2
      <3>3. ASSUME NEW x \in Emitters, working[x].event # 0 PROVE working[x].event \in Underway'
        BY <1>0, <1>w, <3>3, RecordEvent DEF Underway
      <3> QED
        BY <3>1, <3>2, <3>3 DEF Underway
    <2>2. WrittenEvents' = WrittenEvents /\ Calm' = Calm
      BY <1>0 DEF WrittenEvents, Calm
    <2>3. queue = <<>> => queue' = <<>>
      BY <1>0
    <2> QED
      BY <1>0, <2>1, <2>2, <2>3 DEF IInv, Complete, process, tasks
  <1> QED
    BY <1>2, <1>3, <1>4, <1>5, <1>6, <1>h DEF IInv

(* After the end of the loop a queue that was not empty loses records, but *)
(* then it was stopped.                                                    *)
LEMMA CancelQueuedIInv == ASSUME IInv, NEW n \in DOMAIN queue, CancelQueued(n) PROVE IInv'
  <1> USE Numbers
  <1>0. /\ queue \in Seq(Record) /\ queue' = RemoveAt(queue, n) /\ loop = "ended" /\ queue # <<>>
        /\ UNCHANGED <<process, tasks, tail, logged, working, lock, shift, files, starts, written, disturbed>>
    BY DEF IInv, TypeOK, CancelQueued
  <1>q. /\ queue' \in Seq(Record)
        /\ \A k \in DOMAIN queue' :
             LET o == IF k < n THEN k ELSE k + 1
             IN  o \in DOMAIN queue /\ queue'[k] = queue[o]
    BY <1>0, Dropped
  <1>2. TypeOK'
    BY <1>0, <1>q DEF IInv, TypeOK, process, tasks
  <1>3. Counters' /\ FileSizeBounded' /\ Held'
    BY <1>0 DEF IInv, Counters, FileSizeBounded, Held, tasks
  <1>4. Given'
    BY <1>0, <1>q DEF IInv, Given
  <1>5. Distinct'
    <2>1. \A i, j \in DOMAIN queue' : queue'[i].event = queue'[j].event => i = j
      <3> SUFFICES ASSUME NEW i \in DOMAIN queue', NEW j \in DOMAIN queue',
                          queue'[i].event = queue'[j].event
                   PROVE  i = j
        OBVIOUS
      <3>1. (IF i < n THEN i ELSE i + 1) = (IF j < n THEN j ELSE j + 1)
        BY <1>q DEF IInv, Distinct
      <3>2. i \in Int /\ j \in Int /\ n \in Int
        BY <1>0, <1>q, RecordsOf
      <3> QED
        BY <3>1, <3>2
    <2>2. \A i \in DOMAIN queue' : \E o \in DOMAIN queue : queue'[i] = queue[o]
      BY <1>q
    <2> QED
      BY <1>0, <2>1, <2>2 DEF IInv, Distinct
  <1>6. Complete'
    <2>1. ~Calm
      BY <1>0 DEF IInv, Complete
    <2> QED
      BY <1>0, <2>1 DEF IInv, Complete, Calm, process, tasks
  <1> QED
    BY <1>2, <1>3, <1>4, <1>5, <1>6 DEF IInv

(* The end of the loop. *)
LEMMA EndLoopIInv == ASSUME IInv, EndLoop PROVE IInv'
  <1> USE Numbers
  <1>0. /\ program = "gateway" /\ loop' = "ended" /\ pending' = 0 /\ pending \in Nat
        /\ logged \in Nat /\ reported \in Nat
        /\ disturbed' = disturbed \cup (IF pending = 0 /\ queue = <<>> THEN {} ELSE {"stopped"})
        /\ UNCHANGED <<program, reported, tail, logged, queue, working, lock, shift, files, starts, written>>
    BY DEF IInv, TypeOK, EndLoop
  <1>1. TypeOK'
    BY <1>0 DEF IInv, TypeOK
  <1>2. Counters' /\ Given' /\ Distinct' /\ Held' /\ FileSizeBounded'
    BY <1>0 DEF IInv, Counters, Given, Distinct, Held, FileSizeBounded
  <1>3. Complete'
    <2>1. Underway' = Underway /\ WrittenEvents' = WrittenEvents
      BY <1>0 DEF Underway, WrittenEvents
    <2>2. Calm' => Calm /\ pending = 0 /\ queue = <<>>
      BY <1>0 DEF Calm
    <2> QED
      BY <1>0, <2>1, <2>2 DEF IInv, Complete
  <1> QED
    BY <1>1, <1>2, <1>3 DEF IInv

-----------------------------------------------------------------------------
(* The sink *)

(* The lock is taken by one that has a record. *)
LEMMA EnterIInv == ASSUME IInv, NEW x \in Emitters, Enter(x) PROVE IInv'
  <1> USE Numbers
  <1>0. /\ working[x] # NoRecord /\ lock' = x /\ x # NoOne
        /\ shift' = IF Full(files[0]) THEN MaxFiles - 1 ELSE -1
        /\ UNCHANGED <<process, tasks, tail, logged, queue, working, files, starts, written, disturbed>>
    BY DEF Enter
  <1>1. TypeOK'
    BY <1>0 DEF IInv, TypeOK, process, tasks
  <1>2. Counters' /\ Given' /\ Distinct' /\ FileSizeBounded'
    BY <1>0 DEF IInv, Counters, Given, Distinct, FileSizeBounded, tasks
  <1>3. Held'
    BY <1>0 DEF IInv, Held, Full
  <1>4. Complete'
    BY <1>0 DEF IInv, Complete, Calm, Underway, WrittenEvents, process, tasks
  <1> QED
    BY <1>1, <1>2, <1>3, <1>4 DEF IInv

(* A file operation of the rotation moves files and no records. *)
LEMMA RotateIInv == ASSUME IInv, NEW x \in Emitters, Rotate(x) PROVE IInv'
  <1> USE Numbers
  <1>0. /\ lock = x /\ shift >= 0 /\ shift \in 0..(MaxFiles - 1) /\ MaxSize > 0
        /\ DOMAIN files = 0..MaxFiles
        /\ UNCHANGED <<process, tasks, tail, logged, queue, working, lock, starts, written, disturbed>>
        /\ shift' \in {shift, shift - 1}
    BY DEF Rotate, IInv, TypeOK, Held
  <1>f. /\ DOMAIN files' = 0..MaxFiles
        /\ \A i \in 0..MaxFiles : files'[i] = Missing \/ \E j \in 0..MaxFiles : files'[i] = files[j]
        /\ shift' = -1 => files'[0] = Missing
    <2>1. CASE ~Exists(shift) /\ shift' = shift - 1 /\ UNCHANGED files
      BY <1>0, <2>1 DEF Exists
    <2>2. CASE files' = [files EXCEPT ![shift + 1] = Missing] /\ UNCHANGED shift
      BY <1>0, <2>2
    <2>3. CASE /\ files' = [files EXCEPT ![shift + 1] = files[shift], ![shift] = Missing]
               /\ shift' = shift - 1
      BY <1>0, <2>3
    <2> QED
      BY <2>1, <2>2, <2>3 DEF Rotate
  <1>m. Missing \in Seq(Record) /\ Len(Missing) = 0
    BY DEF Missing
  <1>1. TypeOK'
    <2>1. \A i \in 0..MaxFiles : files'[i] \in Seq(Record)
      BY <1>f, <1>m DEF IInv, TypeOK
    <2> QED
      BY <1>0, <1>f, <2>1 DEF IInv, TypeOK, process, tasks
  <1>2. Counters' /\ Given' /\ Distinct'
    BY <1>0 DEF IInv, Counters, Given, Distinct, tasks
  <1>3. FileSizeBounded'
    <2>1. \A i \in 0..MaxFiles : Len(files'[i]) > 1 => \E j \in 0..MaxFiles : files'[i] = files[j]
      BY <1>f, <1>m
    <2> QED
      BY <2>1 DEF IInv, FileSizeBounded, Size
  <1>4. Held'
    <2>1. ~Full(Missing)
      BY DEF Full
    <2> QED
      BY <1>0, <1>f, <2>1 DEF IInv, Held
  <1>5. Complete'
    BY <1>0 DEF IInv, Complete, Calm, Underway, WrittenEvents, process, tasks
  <1> QED
    BY <1>1, <1>2, <1>3, <1>4, <1>5 DEF IInv

(* The record that was at hand is written, into a file with room for it. *)
LEMMA WriteIInv == ASSUME IInv, NEW x \in Emitters, Write(x) PROVE IInv'
  <1> USE Numbers
  <1>p. PICK r \in Record : r = working[x]
    BY DEF Write, IInv, TypeOK
  <1>0. /\ lock = x /\ lock # NoOne /\ shift = -1 /\ working[x] = r /\ r # NoRecord
        /\ working \in [Emitters -> Record \cup {NoRecord}]
        /\ written \in Seq(Record) /\ files[0] \in Seq(Record) /\ DOMAIN files = 0..MaxFiles
        /\ files' = [files EXCEPT ![0] = Append(@, r)]
        /\ written' = Append(written, r)
        /\ working' = [working EXCEPT ![x] = NoRecord] /\ lock' = NoOne
        /\ UNCHANGED <<process, tasks, tail, logged, queue, shift, starts, disturbed>>
    <2>1. /\ lock = x /\ shift = -1 /\ lock' = NoOne
          /\ files' = [files EXCEPT ![0] = Append(@, r)]
          /\ written' = Append(written, r)
          /\ working' = [working EXCEPT ![x] = NoRecord]
          /\ UNCHANGED <<process, tasks, tail, logged, queue, shift, starts, disturbed>>
      BY <1>p DEF Write
    <2>2. /\ working \in [Emitters -> Record \cup {NoRecord}]
          /\ written \in Seq(Record) /\ files[0] \in Seq(Record) /\ DOMAIN files = 0..MaxFiles
      BY DEF IInv, TypeOK
    <2> QED
      BY <1>p, <2>1, <2>2, RecordEvent
  <1>w. working'[x] = NoRecord /\ \A y \in Emitters : y # x => working'[y] = working[y]
    BY <1>0
  <1>a. /\ written' \in Seq(Record)
        /\ DOMAIN written' = DOMAIN written \cup {Len(written) + 1}
        /\ Len(written) + 1 \notin DOMAIN written
        /\ \A i \in DOMAIN written : written'[i] = written[i]
        /\ written'[Len(written) + 1] = r
    BY <1>0, Appended
  <1>f. /\ DOMAIN files' = 0..MaxFiles
        /\ files'[0] \in Seq(Record) /\ Len(files'[0]) = Len(files[0]) + 1 /\ Len(files[0]) \in Nat
        /\ \A i \in 0..MaxFiles : i # 0 => files'[i] = files[i]
    BY <1>0, Appended, RecordsOf
  <1>1. TypeOK'
    <2>1. \A i \in 0..MaxFiles : files'[i] \in Seq(Record)
      BY <1>f DEF IInv, TypeOK
    <2>2. working' \in [Emitters -> Record \cup {NoRecord}]
      BY <1>0
    <2> QED
      BY <1>0, <1>a, <1>f, <2>1, <2>2 DEF IInv, TypeOK, process, tasks
  <1>2. Counters'
    BY <1>0 DEF IInv, Counters, tasks
  <1>3. Given'
    BY <1>0, <1>a, <1>w DEF IInv, Given
  <1>4. Distinct'
    <2>1. /\ \A i \in DOMAIN written : written[i].event # r.event
          /\ \A i \in DOMAIN queue : queue[i].event # r.event
      BY <1>0 DEF IInv, Distinct
    <2>2. \A y \in Emitters : working'[y] # NoRecord =>
            y # x /\ working'[y] = working[y] /\ working[y].event # r.event
      BY <1>0, <1>w DEF IInv, Distinct
    <2>3. \A i, j \in DOMAIN written' : written'[i].event = written'[j].event => i = j
      BY <1>a, <2>1 DEF IInv, Distinct
    <2>4. \A i \in DOMAIN queue, j \in DOMAIN written' : queue[i].event # written'[j].event
      BY <1>a, <2>1 DEF IInv, Distinct
    <2>5. \A y, z \in Emitters :
            (working'[y] # NoRecord /\ working'[y].event = working'[z].event) => y = z
      <3> SUFFICES ASSUME NEW y \in Emitters, NEW z \in Emitters, working'[y] # NoRecord,
                          working'[y].event = working'[z].event
                   PROVE  y = z
        OBVIOUS
      <3>1. working[y] \in Record /\ working[y] = working'[y] /\ working'[y].event # 0
        BY <1>0, <2>2, RecordEvent
      <3>2. z # x
        BY <1>w, <3>1, RecordEvent
      <3> QED
        BY <1>w, <2>2, <3>2 DEF IInv, Distinct
    <2>6. \A y \in Emitters : working'[y] # NoRecord =>
            /\ \A i \in DOMAIN queue : queue[i].event # working'[y].event
            /\ \A i \in DOMAIN written' : written'[i].event # working'[y].event
      BY <1>a, <2>2 DEF IInv, Distinct
    <2> QED
      BY <1>0, <2>3, <2>4, <2>5, <2>6 DEF IInv, Distinct
  <1>5. FileSizeBounded'
    <2>1. Front(files'[0]) = files[0]
      BY <1>0, FrontAppended
    <2>2. ~Full(files[0])
      BY <1>0 DEF IInv, Held
    <2>3. MaxSize > 0 => (Len(files'[0]) > 1 => ~(Size(Front(files'[0])) >= MaxSize))
      <3>1. Len(files'[0]) > 1 => files[0] # Missing
        BY <1>0, <1>f DEF IInv, TypeOK, Missing
      <3> QED
        BY <2>1, <2>2, <3>1 DEF Full
    <2> QED
      BY <1>f, <2>3 DEF IInv, FileSizeBounded, Size
  <1>6. Held'
    BY <1>0 DEF Held
  <1>7. Complete'
    <2>1. WrittenEvents' = WrittenEvents \cup {r.event}
      BY <1>a DEF WrittenEvents
    <2>2. Underway \subseteq Underway' \cup {r.event}
      <3>1. \A y \in Emitters : working[y].event # 0 => working[y].event \in Underway' \cup {r.event}
        BY <1>0, <1>w DEF Underway
      <3>2. \A i \in DOMAIN queue : queue[i].event \in Underway'
        BY <1>0 DEF Underway
      <3> QED
        BY <3>1, <3>2 DEF Underway
    <2>3. Underway' \subseteq Underway
      BY <1>0, <1>w, RecordEvent DEF Underway
    <2>4. r.event \in Underway
      BY <1>0, RecordEvent DEF Underway
    <2>5. Underway' \cup WrittenEvents' = Underway \cup WrittenEvents
      BY <2>1, <2>2, <2>3, <2>4
    <2> QED
      BY <1>0, <2>5 DEF IInv, Complete, Calm, process, tasks
  <1> QED
    BY <1>1, <1>2, <1>3, <1>4, <1>5, <1>6, <1>7 DEF IInv

(* A record that could not be written is lost; something failed. *)
LEMMA EmitFailsIInv == ASSUME IInv, NEW x \in Emitters, EmitFails(x) PROVE IInv'
  <1> USE Numbers
  <1>0. /\ working \in [Emitters -> Record \cup {NoRecord}]
        /\ working' = [working EXCEPT ![x] = NoRecord] /\ lock' = NoOne /\ shift' = -1
        /\ disturbed' = disturbed \cup {"failure"}
        /\ UNCHANGED <<process, tasks, tail, logged, queue, files, starts, written>>
    BY DEF EmitFails, IInv, TypeOK
  <1>w. \A y \in Emitters : working'[y] # NoRecord => y # x /\ working'[y] = working[y]
    BY <1>0
  <1>1. TypeOK'
    BY <1>0 DEF IInv, TypeOK, process, tasks
  <1>2. Counters' /\ FileSizeBounded' /\ Held' /\ Given'
    BY <1>0, <1>w DEF IInv, Counters, FileSizeBounded, Held, Given, tasks
  <1>3. Distinct'
    <2>1. \A y, z \in Emitters :
            (working'[y] # NoRecord /\ working'[y].event = working'[z].event) => y = z
      <3> SUFFICES ASSUME NEW y \in Emitters, NEW z \in Emitters, working'[y] # NoRecord,
                          working'[y].event = working'[z].event
                   PROVE  y = z
        OBVIOUS
      <3>1. working[y] \in Record /\ working[y] = working'[y] /\ working'[y].event # 0
        BY <1>0, <1>w, RecordEvent
      <3>2. z # x
        BY <1>0, <3>1, RecordEvent
      <3> QED
        BY <1>0, <1>w, <3>2 DEF IInv, Distinct
    <2> QED
      BY <1>0, <1>w, <2>1 DEF IInv, Distinct
  <1>4. Complete'
    BY <1>0 DEF IInv, Complete, Calm, process, tasks
  <1> QED
    BY <1>1, <1>2, <1>3, <1>4 DEF IInv

(* A new process begins with nothing underway. *)
LEMMA RestartIInv == ASSUME IInv, Restart PROVE IInv'
  <1> USE Numbers
  <1>0. /\ starts \in 0..MaxStarts /\ starts < MaxStarts /\ starts' = starts + 1
        /\ program' \in Programs /\ loop' = "running" /\ pending' = 0
        /\ pending \in Nat /\ logged \in Nat /\ reported \in Nat
        /\ tail' = Loaded /\ queue' = <<>> /\ working' = [y \in Emitters |-> NoRecord]
        /\ lock' = NoOne /\ shift' = -1
        /\ disturbed' = disturbed \cup (IF ~Exists(0) /\ written # <<>> THEN {"gap"} ELSE {})
        /\ UNCHANGED <<reported, logged, files, written>>
    BY DEF IInv, TypeOK, Restart
  <1>1. Loaded \in 0..MaxRecords
    <2>1. files[0] \in Seq(Record)
      BY DEF IInv, TypeOK
    <2>2. CASE files[0] = <<>>
      BY <2>2 DEF Loaded, Exists, Missing
    <2>3. CASE files[0] # <<>>
      <3>1. Len(files[0]) \in DOMAIN files[0]
        BY <2>1, <2>3
      <3> QED
        BY <2>1, <2>3, <3>1, RecordsOf DEF Loaded, Exists, Missing
    <2> QED
      BY <2>2, <2>3
  <1>2. TypeOK'
    BY <1>0, <1>1 DEF IInv, TypeOK
  <1>3. FileSizeBounded' /\ Held' /\ Given' /\ Distinct'
    BY <1>0 DEF IInv, FileSizeBounded, Held, Given, Distinct
  <1>4. Complete'
    BY <1>0 DEF Complete, Calm
  <1> QED
    BY <1>0, <1>1, <1>2, <1>3, <1>4 DEF IInv, Counters

-----------------------------------------------------------------------------
(* The theorems *)

LEMMA NextIInv == IInv /\ [Next]_vars => IInv'
  <1> SUFFICES ASSUME IInv, [Next]_vars PROVE IInv'
    OBVIOUS
  <1>1. CASE RecordBlock \/ Alog \/ Log
    BY <1>1, RecordBlockIInv, AlogIInv, LogIInv
  <1>2. CASE EndLoop \/ Restart
    BY <1>2, EndLoopIInv, RestartIInv
  <1>3. ASSUME NEW i \in DOMAIN queue, CancelQueued(i) PROVE IInv'
    BY <1>3, CancelQueuedIInv
  <1>4. ASSUME NEW w \in Workers, Take(w) PROVE IInv'
    BY <1>4, TakeIInv
  <1>5. ASSUME NEW x \in Emitters, Emit(x) PROVE IInv'
    BY <1>5, EnterIInv, RotateIInv, WriteIInv, EmitFailsIInv DEF Emit
  <1>6. CASE UNCHANGED vars
    <2>1. TypeOK' /\ Counters' /\ Given' /\ Distinct'
      BY <1>6 DEF vars, process, tasks, IInv, TypeOK, Counters, Given, Distinct
    <2>2. Held' /\ FileSizeBounded'
      BY <1>6 DEF vars, IInv, Held, FileSizeBounded
    <2>3. Complete'
      BY <1>6 DEF vars, process, tasks, IInv, Complete, Calm, Underway, WrittenEvents
    <2> QED
      BY <2>1, <2>2, <2>3 DEF IInv
  <1> QED
    BY <1>1, <1>2, <1>3, <1>4, <1>5, <1>6 DEF Next

LEMMA Invariance == Spec => []IInv
  BY InitIInv, NextIInv, PTL DEF Spec

(* The log's, the queue's and the sink's state keep their types; the       *)
(* numbers of the records never run past the events there were.            *)
THEOREM TypeCorrect == Spec => []TypeOK
  BY Invariance, PTL DEF IInv

(* However the threads interleave, fail and are restarted, no record is    *)
(* written twice and none that is underway has been written.               *)
THEOREM RecordsWrittenOnce == Spec => []WrittenOnce
  <1>1. IInv => WrittenOnce
    BY RecordEvent DEF IInv, Distinct, WrittenOnce, Underway
  <1> QED
    BY <1>1, Invariance, PTL

(* No file gets a line once it has reached its limit, wherever a rotation  *)
(* is interrupted and however long the lines are: without its last line    *)
(* each is below max_bytes.                                                *)
THEOREM SizesBounded == Spec => []FileSizeBounded
  BY Invariance, PTL DEF IInv

(* As many events are written as records: none is the event of two. *)
LEMMA WrittenCounted ==
  ASSUME IInv
  PROVE  Cardinality(WrittenEvents) = Len(written)
  <1>1. PICK n \in Nat : n = Len(written) /\ DOMAIN written = 1..n
    BY RecordsOf DEF IInv, TypeOK
  <1> DEFINE f == [i \in 1..n |-> written[i].event]
  <1>2. \A i, j \in 1..n : written[i].event = written[j].event => i = j
    BY <1>1 DEF IInv, Distinct
  <1>3. f \in [1..n -> WrittenEvents]
    BY <1>1 DEF WrittenEvents
  <1>4. \A i, j \in 1..n : f[i] = f[j] => i = j
    BY <1>2
  <1>5. \A e \in WrittenEvents : \E i \in 1..n : f[i] = e
    BY <1>1 DEF WrittenEvents
  <1> HIDE DEF f
  <1>6. f \in Bijection(1..n, WrittenEvents)
    BY <1>3, <1>4, <1>5 DEF Bijection, Injection, Surjection, IsInjective
  <1>7. ExistsBijection(1..n, WrittenEvents)
    BY <1>6 DEF ExistsBijection
  <1>8. IsFiniteSet(1..n) /\ Cardinality(1..n) = n
    BY FS_Interval
  <1> QED
    BY <1>1, <1>7, <1>8, FS_Bijection

(* Without a failure, a stop or a restart every event there was waits for  *)
(* its task, is underway or is written, in one place only, although nobody *)
(* awaits the tasks.                                                       *)
THEOREM NoEventLost == Spec => []EventsAccountedFor
  <1>1. IInv => EventsAccountedFor
    <2> SUFFICES ASSUME IInv, Calm
                 PROVE  /\ reported = pending + Cardinality(Underway) + Len(written)
                        /\ Underway \cup WrittenEvents = 1..logged
      BY DEF EventsAccountedFor, Calm, WrittenEvents
    <2>1. /\ reported = pending + logged /\ Underway \cup WrittenEvents = 1..logged
          /\ logged \in Nat /\ pending \in Nat
      BY Numbers DEF IInv, TypeOK, Complete
    <2>2. Underway \cap WrittenEvents = {}
      BY RecordEvent DEF IInv, Distinct, Underway, WrittenEvents
    <2>3. IsFiniteSet(1..logged) /\ Cardinality(1..logged) = logged
      BY <2>1, FS_Interval
    <2>4. IsFiniteSet(Underway) /\ IsFiniteSet(WrittenEvents)
      BY <2>1, <2>3, FS_Subset
    <2>5. Cardinality(Underway \cup WrittenEvents)
            = Cardinality(Underway) + Cardinality(WrittenEvents)
                - Cardinality(Underway \cap WrittenEvents)
      BY <2>4, FS_Union
    <2>6. Cardinality(Underway \cap WrittenEvents) = 0
      BY <2>2, FS_EmptySet
    <2>7. Cardinality(Underway) \in Nat /\ Cardinality(WrittenEvents) \in Nat
      BY <2>4, FS_CardinalityType
    <2>8. Cardinality(Underway \cup WrittenEvents) = logged
      BY <2>1, <2>3
    <2>9. logged = Cardinality(Underway) + Len(written)
      BY <2>5, <2>6, <2>7, <2>8, WrittenCounted
    <2>10. Len(written) \in Nat
      BY RecordsOf DEF IInv, TypeOK
    <2> QED
      BY <2>1, <2>7, <2>9, <2>10
  <1> QED
    BY <1>1, Invariance, PTL
-----------------------------------------------------------------------------
(* The files and what was written *)

(* Each file holds a run of what was written, which ends at end[i], where  *)
(* that of the next younger file begins; the first end[MaxFiles + 1]       *)
(* records have gone with the oldest backups.                              *)
InPlace(end) ==
  /\ end[0] = Len(written)
  /\ \A i \in 0..MaxFiles :
       /\ end[i] = end[i + 1] + Len(files[i])
       /\ \A k \in 1..Len(files[i]) : files[i][k] = written[end[i + 1] + k]

Placed == \E end \in [0..(MaxFiles + 1) -> Nat] : InPlace(end)

(* And what a rotation unlinks is the oldest backup: in the way of any     *)
(* younger one there is nothing.                                           *)
Placement ==
  /\ Placed
  /\ (shift >= 0 /\ shift + 1 < MaxFiles) => files[shift + 1] = Missing

(* The files, as the type invariant has them. *)
LEMMA FilesType ==
  ASSUME IInv
  PROVE  /\ DOMAIN files = 0..MaxFiles /\ MaxFiles \in Nat \ {0}
         /\ \A i \in 0..MaxFiles : files[i] \in Seq(Record) /\ Len(files[i]) \in Nat
         /\ written \in Seq(Record) /\ Len(written) \in Nat
         /\ shift \in -1..(MaxFiles - 1)
  BY Numbers, RecordsOf DEF IInv, TypeOK

LEMMA PlacementInit == Init => Placement
  <1> SUFFICES ASSUME Init PROVE Placement
    OBVIOUS
  <1> DEFINE end == [i \in 0..(MaxFiles + 1) |-> 0]
  <1>1. /\ Len(written) = 0 /\ shift = -1
        /\ \A i \in 0..MaxFiles : files[i] = <<>> /\ Len(files[i]) = 0
    BY DEF Init, Missing
  <1>2. end \in [0..(MaxFiles + 1) -> Nat] /\ InPlace(end)
    <2>1. \A i \in 0..MaxFiles : i + 1 \in 0..(MaxFiles + 1) /\ 1..Len(files[i]) = {}
      BY <1>1, Numbers
    <2> QED
      BY <1>1, <2>1, Numbers DEF InPlace
  <1> HIDE DEF end
  <1> QED
    BY <1>1, <1>2 DEF Placement, Placed

(* The lock is free or taken, and the younger backups are no nearer. *)
LEMMA PlacementKept ==
  ASSUME IInv, Placement, UNCHANGED <<files, written>>,
         shift' = -1 \/ shift' = MaxFiles - 1 \/ shift' = shift
  PROVE  Placement'
  <1>1. \A end : InPlace(end)' <=> InPlace(end)
    BY DEF InPlace
  <1> QED
    BY <1>1, FilesType DEF Placement, Placed

LEMMA PlacementRotate ==
  ASSUME IInv, Placement, NEW x \in Emitters, Rotate(x)
  PROVE  Placement'
  <1>0. MaxFiles \in Nat \ {0} /\ DOMAIN files = 0..MaxFiles
    BY FilesType
  <1>l. \A i \in 0..MaxFiles : Len(files[i]) \in Nat
    BY FilesType
  <1> USE <1>0
  <1>1. PICK end \in [0..(MaxFiles + 1) -> Nat] : InPlace(end)
    BY DEF Placement, Placed
  <1>2. /\ shift \in 0..(MaxFiles - 1) /\ written' = written
        /\ shift + 1 < MaxFiles => files[shift + 1] = Missing
    BY FilesType DEF Rotate, Placement
  <1>3. CASE ~Exists(shift) /\ shift' = shift - 1 /\ UNCHANGED files
    <2>1. InPlace(end)'
      BY <1>1, <1>2, <1>3 DEF InPlace
    <2> QED
      BY <1>2, <1>3, <2>1 DEF Placement, Placed, Exists
  <1>4. CASE /\ Exists(shift) /\ Exists(shift + 1)
             /\ files' = [files EXCEPT ![shift + 1] = Missing] /\ UNCHANGED shift
    <2>1. shift + 1 = MaxFiles
      BY <1>2, <1>4 DEF Exists
    <2>2. PICK new \in [0..(MaxFiles + 1) -> Nat] :
            /\ \A i \in 0..MaxFiles : new[i] = end[i]
            /\ new[MaxFiles + 1] = end[MaxFiles]
      <3> DEFINE n == [end EXCEPT ![MaxFiles + 1] = end[MaxFiles]]
      <3>1. /\ n \in [0..(MaxFiles + 1) -> Nat]
            /\ \A i \in 0..MaxFiles : n[i] = end[i]
            /\ n[MaxFiles + 1] = end[MaxFiles]
        BY <1>1
      <3> HIDE DEF n
      <3> QED
        BY <3>1
    <2>3. /\ files'[MaxFiles] = <<>> /\ Len(files'[MaxFiles]) = 0
          /\ \A i \in 0..MaxFiles : i # MaxFiles => files'[i] = files[i] /\ i + 1 \in 0..MaxFiles
      BY <1>4, <2>1 DEF Missing
    <2>4. InPlace(new)'
      <3>1. new[0] = Len(written')
        <4>1. end[0] = Len(written') /\ 0 \in 0..MaxFiles /\ 0 \in 0..(MaxFiles + 1)
          BY <1>1, <1>2 DEF InPlace
        <4> QED
          BY <1>2, <2>2, <4>1
      <3>2. ASSUME NEW i \in 0..MaxFiles
            PROVE  /\ new[i] = new[i + 1] + Len(files'[i])
                   /\ \A k \in 1..Len(files'[i]) : files'[i][k] = written'[new[i + 1] + k]
        <4>1. CASE i = MaxFiles
          <5>1. new[MaxFiles] = end[MaxFiles] /\ end[MaxFiles] \in Nat
            BY <1>1, <2>2
          <5>2. new[i] = new[i + 1] + Len(files'[i])
            BY <2>2, <2>3, <4>1, <5>1
          <5>3. 1..Len(files'[i]) = {}
            BY <2>3, <4>1
          <5> QED
            BY <5>2, <5>3
        <4>2. CASE i # MaxFiles
          <5>1. /\ end[i] = end[i + 1] + Len(files[i])
                /\ \A k \in 1..Len(files[i]) : files[i][k] = written'[end[i + 1] + k]
            BY <1>1, <1>2 DEF InPlace
          <5>2. new[i] = end[i] /\ new[i + 1] = end[i + 1] /\ files'[i] = files[i]
            BY <2>2, <2>3, <4>2
          <5> QED
            BY <5>1, <5>2
        <4> QED
          BY <4>1, <4>2
      <3> QED
        BY <3>1, <3>2 DEF InPlace
    <2>5. Placed'
      BY <2>4 DEF Placed
    <2> QED
      BY <1>4, <2>1, <2>5 DEF Placement
  <1>5. CASE /\ Exists(shift) /\ ~Exists(shift + 1)
             /\ files' = [files EXCEPT ![shift + 1] = files[shift], ![shift] = Missing]
             /\ shift' = shift - 1
    <2>1. /\ files'[shift + 1] = files[shift] /\ files'[shift] = <<>> /\ Len(files'[shift]) = 0
          /\ Len(files[shift + 1]) = 0
          /\ \A i \in 0..MaxFiles : i # shift /\ i # shift + 1 => files'[i] = files[i]
      BY <1>2, <1>5 DEF Exists, Missing
    <2>2. PICK new \in [0..(MaxFiles + 1) -> Nat] :
            /\ \A i \in 0..(MaxFiles + 1) : i # shift + 1 => new[i] = end[i]
            /\ new[shift + 1] = end[shift]
      <3> DEFINE n == [end EXCEPT ![shift + 1] = end[shift]]
      <3>1. shift \in 0..(MaxFiles + 1) /\ shift + 1 \in 0..(MaxFiles + 1)
        BY <1>2
      <3>2. end[shift] \in Nat
        BY <1>1, <3>1
      <3>3. /\ n \in [0..(MaxFiles + 1) -> Nat]
            /\ \A i \in 0..(MaxFiles + 1) : i # shift + 1 => n[i] = end[i]
            /\ n[shift + 1] = end[shift]
        BY <1>1, <3>1, <3>2
      <3> HIDE DEF n
      <3> QED
        BY <3>3
    <2>3. end[shift + 1] = end[shift + 2]
      <3>1. /\ shift + 1 \in 0..MaxFiles /\ (shift + 1) + 1 = shift + 2
            /\ shift + 2 \in 0..(MaxFiles + 1)
        BY <1>2
      <3>2. end[shift + 1] = end[shift + 2] + Len(files[shift + 1]) /\ end[shift + 2] \in Nat
        BY <1>1, <3>1 DEF InPlace
      <3> QED
        BY <2>1, <3>2
    <2>4. InPlace(new)'
      <3>1. new[0] = Len(written')
        <4>1. end[0] = Len(written') /\ 0 \in 0..MaxFiles /\ 0 \in 0..(MaxFiles + 1)
          BY <1>1, <1>2 DEF InPlace
        <4> QED
          BY <1>2, <2>2, <4>1
      <3>2. ASSUME NEW i \in 0..MaxFiles
            PROVE  /\ new[i] = new[i + 1] + Len(files'[i])
                   /\ \A k \in 1..Len(files'[i]) : files'[i][k] = written'[new[i + 1] + k]
        <4>0. /\ end[i] = end[i + 1] + Len(files[i])
              /\ \A k \in 1..Len(files[i]) : files[i][k] = written'[end[i + 1] + k]
          BY <1>1, <1>2 DEF InPlace
        <4>1. CASE i = shift
          <5>1. new[i] = end[shift] /\ new[i + 1] = end[shift] /\ end[shift] \in Nat
            BY <1>1, <1>2, <2>2, <4>1
          <5>2. Len(files'[i]) = 0 /\ 1..Len(files'[i]) = {}
            BY <2>1, <4>1
          <5> QED
            BY <5>1, <5>2, SMTT(30)
        <4>2. CASE i = shift + 1
          <5>1. /\ end[shift] = end[shift + 1] + Len(files[shift])
                /\ \A k \in 1..Len(files[shift]) : files[shift][k] = written'[end[shift + 1] + k]
            <6>1. shift \in 0..MaxFiles
              BY <1>2
            <6> QED
              BY <1>1, <1>2, <6>1 DEF InPlace
          <5>2. new[i] = end[shift] /\ new[i + 1] = end[shift + 1] /\ files'[i] = files[shift]
            BY <1>2, <2>1, <2>2, <2>3, <4>2
          <5> QED
            BY <5>1, <5>2
        <4>3. CASE i # shift /\ i # shift + 1
          <5>1. i \in 0..(MaxFiles + 1) /\ i + 1 \in 0..(MaxFiles + 1)
                /\ i + 1 # shift + 1
            BY <1>2, <4>3
          <5>2. new[i] = end[i] /\ new[i + 1] = end[i + 1]
            BY <2>2, <4>3, <5>1
          <5>3. files'[i] = files[i]
            BY <2>1, <4>3
          <5> QED
            BY <4>0, <5>2, <5>3
        <4> QED
          BY <4>1, <4>2, <4>3
      <3> QED
        BY <3>1, <3>2 DEF InPlace
    <2>5. Placed'
      BY <2>4 DEF Placed
    <2>6. shift' + 1 = shift /\ files'[shift] = Missing
      BY <1>2, <1>5, <2>1 DEF Missing
    <2> QED
      BY <2>5, <2>6 DEF Placement
  <1> QED
    BY <1>3, <1>4, <1>5 DEF Rotate

LEMMA PlacementWrite ==
  ASSUME IInv, Placement, NEW x \in Emitters, Write(x)
  PROVE  Placement'
  <1>0. MaxFiles \in Nat \ {0} /\ DOMAIN files = 0..MaxFiles /\ Len(written) \in Nat
    BY FilesType
  <1>l. \A i \in 0..MaxFiles : Len(files[i]) \in Nat
    BY FilesType
  <1> USE <1>0
  <1>1. PICK end \in [0..(MaxFiles + 1) -> Nat] : InPlace(end)
    BY DEF Placement, Placed
  <1>p. PICK r \in Record : r = working[x]
    BY DEF Write, IInv, TypeOK
  <1>2. /\ files' = [files EXCEPT ![0] = Append(@, r)]
        /\ written' = Append(written, r) /\ shift' = -1
    BY <1>p DEF Write
  <1>3. /\ files'[0] = Append(files[0], r)
        /\ \A i \in 0..MaxFiles : i # 0 => files'[i] = files[i]
    BY <1>2
  <1>4. /\ Len(files'[0]) = Len(files[0]) + 1 /\ Len(written') = Len(written) + 1
        /\ \A k \in 1..Len(files[0]) : files'[0][k] = files[0][k]
        /\ files'[0][Len(files[0]) + 1] = r
        /\ \A k \in 1..Len(written) : written'[k] = written[k]
        /\ written'[Len(written) + 1] = r
    BY <1>2, <1>3, Appended, RecordsOf, FilesType
  <1>5. PICK new \in [0..(MaxFiles + 1) -> Nat] :
          /\ \A i \in 1..(MaxFiles + 1) : new[i] = end[i]
          /\ new[0] = end[0] + 1
    <2> DEFINE n == [end EXCEPT ![0] = end[0] + 1]
    <2>1. 0 \in 0..(MaxFiles + 1) /\ 1..(MaxFiles + 1) \subseteq 0..(MaxFiles + 1) /\ end[0] + 1 \in Nat
      BY <1>1
    <2>2. /\ n \in [0..(MaxFiles + 1) -> Nat]
          /\ \A i \in 1..(MaxFiles + 1) : n[i] = end[i]
          /\ n[0] = end[0] + 1
      BY <1>1, <2>1
    <2> HIDE DEF n
    <2> QED
      BY <2>2
  <1>6. \A i \in 0..MaxFiles : end[i] <= Len(written)
    <2> DEFINE T == {i \in 0..MaxFiles : end[i] <= Len(written)}
    <2>1. 0 \in T
      BY <1>1, SMTT(30) DEF InPlace
    <2>2. ASSUME NEW k \in 0..(MaxFiles - 1), k \in T PROVE k + 1 \in T
      <3>1. k \in 0..MaxFiles /\ k + 1 \in 0..MaxFiles
        OBVIOUS
      <3>2. end[k] = end[k + 1] + Len(files[k]) /\ Len(files[k]) \in Nat /\ end[k + 1] \in Nat
        <4>1. k + 1 \in 0..(MaxFiles + 1)
          OBVIOUS
        <4>2. end[k] = end[k + 1] + Len(files[k])
          BY <1>1, <3>1 DEF InPlace
        <4> QED
          BY <1>1, <1>l, <3>1, <4>1, <4>2
      <3> QED
        BY <2>2, <3>1, <3>2, SMTT(30)
    <2> HIDE DEF T
    <2>3. 0..MaxFiles \subseteq T
      BY <2>1, <2>2, InductionUpTo
    <2> QED
      BY <2>3 DEF T
  <1>7. InPlace(new)'
    <2>1. new[0] = Len(written')
      BY <1>1, <1>4, <1>5 DEF InPlace
    <2>2. ASSUME NEW i \in 0..MaxFiles
          PROVE  /\ new[i] = new[i + 1] + Len(files'[i])
                 /\ \A k \in 1..Len(files'[i]) : files'[i][k] = written'[new[i + 1] + k]
      <3>0. /\ end[i] = end[i + 1] + Len(files[i]) /\ end[i] <= Len(written)
            /\ \A k \in 1..Len(files[i]) : files[i][k] = written[end[i + 1] + k]
            /\ end[i + 1] \in Nat /\ new[i + 1] = end[i + 1]
        <4>1. i + 1 \in 0..(MaxFiles + 1) /\ i + 1 \in 1..(MaxFiles + 1)
          OBVIOUS
        <4>2. /\ end[i] = end[i + 1] + Len(files[i])
              /\ \A k \in 1..Len(files[i]) : files[i][k] = written[end[i + 1] + k]
          BY <1>1 DEF InPlace
        <4> QED
          BY <1>5, <1>6, <4>1, <4>2
      <3>1. \A k \in 1..Len(files[i]) :
              end[i + 1] + k \in 1..Len(written) /\ files[i][k] = written'[end[i + 1] + k]
        <4>1. ASSUME NEW k \in 1..Len(files[i]) PROVE end[i + 1] + k \in 1..Len(written)
          <5>1. /\ Len(files[i]) \in Nat /\ k \in Nat /\ k >= 1 /\ k <= Len(files[i])
                /\ end[i] = end[i + 1] + Len(files[i]) /\ end[i] <= Len(written)
                /\ end[i + 1] \in Nat
            BY <1>l, <3>0
          <5>2. \A e, l, w, j \in Nat : j >= 1 /\ j <= l /\ e + l <= w => e + j \in 1..w
            OBVIOUS
          <5> QED
            BY <5>1, <5>2
        <4> QED
          BY <1>4, <3>0, <4>1
      <3>2. CASE i # 0
        <4>1. new[i] = end[i] /\ files'[i] = files[i]
          BY <1>3, <1>5, <3>2
        <4> QED
          BY <3>0, <3>1, <4>1
      <3>3. CASE i = 0
        <4>1. end[1] + Len(files[0]) + 1 = Len(written) + 1
          <5>1. end[0] = Len(written) /\ end[0] = end[1] + Len(files[0]) /\ end[1] \in Nat
            BY <1>1, <3>0, <3>3 DEF InPlace
          <5> QED
            BY <1>l, <5>1
        <4>2. new[0] = new[1] + Len(files'[0])
          <5>1. end[0] = end[1] + Len(files[0]) /\ new[1] = end[1] /\ end[1] \in Nat
            BY <3>0, <3>3
          <5>2. Len(files[0]) \in Nat
            BY <1>l
          <5> QED
            BY <1>4, <1>5, <5>1, <5>2
        <4>3. ASSUME NEW k \in 1..Len(files'[0]) PROVE files'[0][k] = written'[new[1] + k]
          <5>1. CASE k \in 1..Len(files[0])
            BY <1>4, <3>0, <3>1, <3>3, <5>1
          <5>2. CASE k = Len(files[0]) + 1
            <6>1. new[1] + k = Len(written) + 1
              BY <3>0, <3>3, <4>1, <5>2
            <6> QED
              BY <1>4, <5>2, <6>1
          <5> QED
            BY <1>4, <5>1, <5>2, SMTT(30)
        <4> QED
          BY <3>3, <4>2, <4>3
      <3> QED
        BY <3>2, <3>3
    <2> QED
      BY <2>1, <2>2 DEF InPlace
  <1>8. Placed'
    BY <1>7 DEF Placed
  <1> QED
    BY <1>2, <1>8 DEF Placement

LEMMA NextPlacement == IInv /\ Placement /\ [Next]_vars => Placement'
  <1> SUFFICES ASSUME IInv, Placement, [Next]_vars PROVE Placement'
    OBVIOUS
  <1>1. CASE RecordBlock \/ Alog \/ Log \/ EndLoop \/ Restart
    <2>1. UNCHANGED <<files, written>> /\ (shift' = -1 \/ shift' = shift)
      BY <1>1 DEF RecordBlock, Alog, Log, EndLoop, Restart
    <2> QED
      BY <2>1, PlacementKept
  <1>2. ASSUME NEW i \in DOMAIN queue, CancelQueued(i) PROVE Placement'
    BY <1>2, PlacementKept DEF CancelQueued
  <1>3. ASSUME NEW w \in Workers, Take(w) PROVE Placement'
    BY <1>3, PlacementKept DEF Take
  <1>4. ASSUME NEW x \in Emitters, Enter(x) \/ EmitFails(x) PROVE Placement'
    <2>1. UNCHANGED <<files, written>> /\ (shift' = -1 \/ shift' = MaxFiles - 1)
      BY <1>4 DEF Enter, EmitFails
    <2> QED
      BY <2>1, PlacementKept
  <1>5. ASSUME NEW x \in Emitters, Rotate(x) \/ Write(x) PROVE Placement'
    BY <1>5, PlacementRotate, PlacementWrite
  <1>6. CASE UNCHANGED vars
    BY <1>6, PlacementKept DEF vars
  <1> QED
    BY <1>1, <1>2, <1>3, <1>4, <1>5, <1>6 DEF Next, Emit

LEMMA AlwaysPlaced == Spec => [](IInv /\ Placement)
  <1>1. Init => Placement
    BY PlacementInit
  <1>2. IInv /\ Placement /\ [Next]_vars => Placement'
    BY NextPlacement
  <1> QED
    BY <1>1, <1>2, InitIInv, NextIInv, PTL DEF Spec

(* The files in the order of verify_chain() are the end of what was        *)
(* written: placed next to each other, their runs meet.                    *)
LEMMA StoredInPlace ==
  ASSUME IInv, Placement
  PROVE  /\ Stored \in Seq(Record)
         /\ \E e \in Nat : Len(written) = e + Len(Stored) /\ Run(Stored, written, e)
  <1>1. PICK end \in [0..(MaxFiles + 1) -> Nat] : InPlace(end)
    BY DEF Placement, Placed
  <1> DEFINE n == MaxFiles + 1
             ss == [i \in 1..(MaxFiles + 1) |-> files[MaxFiles + 1 - i]]
  <1>s. Stored = FlattenSeq(ss)
    BY DEF Stored
  <1>2. n \in Nat /\ MaxFiles \in Nat /\ n = MaxFiles + 1
    BY Numbers
  <1> HIDE DEF n
  <1> USE <1>2
  <1>3. \A i \in 1..n : n - i \in 0..MaxFiles /\ files[n - i] \in Seq(Record)
    BY <1>2, FilesType
  <1>4. ss \in [1..n -> Seq(Record)] /\ Stored = FlattenSeq(ss)
    BY <1>s, <1>3
  <1>5. \A i \in 1..n : ss[i] = files[n - i]
    OBVIOUS
  <1> HIDE DEF ss
  <1>6. PICK bound \in [0..n -> Nat] : \A i \in 0..n : bound[i] = end[n - i]
    <2> DEFINE b == [i \in 0..n |-> end[n - i]]
    <2>1. \A i \in 0..n : n - i \in 0..(MaxFiles + 1)
      BY <1>2
    <2>2. \A i \in 0..n : end[n - i] \in Nat
      BY <1>1, <2>1
    <2>3. b \in [0..n -> Nat] /\ \A i \in 0..n : b[i] = end[n - i]
      BY <2>2
    <2> HIDE DEF b
    <2> QED
      BY <2>3
  <1>7. ASSUME NEW i \in 1..n
        PROVE  bound[i] = bound[i - 1] + Len(ss[i]) /\ Run(ss[i], written, bound[i - 1])
    <2>1. PICK j \in 0..MaxFiles : j = n - i /\ j + 1 = n - (i - 1) /\ i - 1 \in 0..n /\ i \in 0..n
      BY <1>2
    <2>2. ss[i] = files[j] /\ bound[i] = end[j] /\ bound[i - 1] = end[j + 1]
      BY <1>5, <1>6, <2>1
    <2>3. /\ end[j] = end[j + 1] + Len(files[j])
          /\ \A k \in 1..Len(files[j]) : files[j][k] = written[end[j + 1] + k]
      BY <1>1 DEF InPlace
    <2> QED
      BY <2>2, <2>3 DEF Run
  <1>m. Meet(ss, n, written, bound)
    BY <1>7 DEF Meet
  <1>8. PICK e \in Nat : e = bound[0]
    BY <1>2
  <1>9. /\ FlattenSeq(ss) \in Seq(Record)
        /\ bound[n] = bound[0] + Len(FlattenSeq(ss))
        /\ Run(FlattenSeq(ss), written, bound[0])
    BY <1>2, <1>4, <1>m, FlattenedRuns
  <1>10. bound[n] = Len(written)
    BY <1>1, <1>2, <1>6 DEF InPlace
  <1> QED
    BY <1>4, <1>8, <1>9, <1>10

(* However rotations are interrupted, what verify_chain() reads is the end *)
(* of what was written: nothing is missing in the middle, doubled or out   *)
(* of place, for any number and size of files.                             *)
THEOREM StoredInOrder == Spec => []StoredIsSuffix
  <1>1. IInv /\ Placement => StoredIsSuffix
    BY StoredInPlace, FilesType, SuffixByElements DEF StoredIsSuffix
  <1> QED
    BY <1>1, AlwaysPlaced, PTL

-----------------------------------------------------------------------------
(* The chain *)

LastWritten == IF written = <<>> THEN 0 ELSE written[Len(written)].event

(* A record that comes next, and that the next one follows. *)
Continues(r) == r.previous = LastWritten /\ r.event = tail

(* As long as nothing has disturbed it, the chain is whole: the record     *)
(* underway, if there is one, continues it, and the tail is its end.       *)
Chained ==
  /\ "stopped" \notin disturbed => (loop = "ended" => queue = <<>>)
  /\ disturbed = {} =>
       /\ Linked(written)
       /\ \A i \in DOMAIN queue : Continues(queue[i])
       /\ \A x \in Emitters : working[x] # NoRecord => Continues(working[x])
       /\ Underway = {} => tail = LastWritten

LEMMA ChainedInit == Init => Chained
  <1> SUFFICES ASSUME Init PROVE Chained
    OBVIOUS
  <1>1. DOMAIN written = {} /\ DOMAIN queue = {}
    BY DEF Init
  <1> QED
    BY <1>1 DEF Init, Chained, Linked, LastWritten, NoRecord

(* Nothing is underway when no record is queued or being written. *)
LEMMA NothingUnderway ==
  ASSUME IInv
  PROVE  Underway = {} <=> queue = <<>> /\ \A x \in Emitters : working[x] = NoRecord
  <1>1. queue \in Seq(Record) /\ working \in [Emitters -> Record \cup {NoRecord}]
    BY DEF IInv, TypeOK
  <1>2. queue = <<>> <=> DOMAIN queue = {}
    BY <1>1, EmptySeq, RecordsOf
  <1>3. {queue[i].event : i \in DOMAIN queue} = {} <=> DOMAIN queue = {}
    OBVIOUS
  <1>4. \A x \in Emitters : working[x] = NoRecord <=> working[x].event = 0
    BY <1>1, RecordEvent
  <1>5. ({working[x].event : x \in Emitters} \ {0}) = {} <=> \A x \in Emitters : working[x].event = 0
    OBVIOUS
  <1> QED
    BY <1>2, <1>3, <1>4, <1>5 DEF Underway

(* A record is logged onto a whole chain when nothing is underway. *)
LEMMA ChainedLogging ==
  ASSUME IInv, Chained, Alog \/ Log
  PROVE  Chained'
  <1>1. written' = written /\ loop' = loop /\ disturbed \subseteq disturbed'
    BY DEF Alog, Log, Chain, process
  <1>2. "stopped" \notin disturbed' => (loop' = "ended" => queue' = <<>>)
    <2>1. CASE Alog
      BY <1>1, <2>1 DEF Alog, IInv, Complete, TypeOK
    <2>2. CASE Log
      BY <1>1, <2>2 DEF Log, Chained
    <2> QED
      BY <2>1, <2>2
  <1>3. ASSUME disturbed' = {}
        PROVE  /\ Linked(written')
               /\ \A i \in DOMAIN queue' : Continues(queue[i])'
               /\ \A x \in Emitters : working'[x] # NoRecord => Continues(working[x])'
               /\ ~(Underway' = {})
    <2>1. disturbed = {} /\ Underway = {}
      BY <1>3 DEF Alog, Log, Chain
    <2>2. /\ Linked(written) /\ tail = LastWritten
          /\ queue = <<>> /\ \A x \in Emitters : working[x] = NoRecord
      BY <2>1, NothingUnderway DEF Chained
    <2>3. LastWritten' = LastWritten /\ tail' = logged + 1
      BY <1>1 DEF LastWritten, Alog, Log, Chain
    <2>4. NewRecord.previous = LastWritten' /\ NewRecord.event = tail'
      BY <2>2, <2>3 DEF NewRecord
    <2>5. CASE Alog
      <3>1. queue' = <<NewRecord>> /\ working' = working
        BY <2>2, <2>5 DEF Alog
      <3>2. DOMAIN queue' = {1} /\ queue'[1] = NewRecord
        BY <3>1
      <3>3. Underway' # {}
        BY <3>2 DEF Underway
      <3> QED
        BY <1>1, <2>2, <2>4, <3>1, <3>2, <3>3 DEF Linked, Continues
    <2>6. CASE Log
      <3>1. queue' = <<>> /\ DOMAIN queue' = {} /\ working' = [working EXCEPT ![Caller] = NewRecord]
        BY <2>2, <2>6 DEF Log
      <3>2. /\ working'[Caller] = NewRecord /\ Caller \in Emitters
            /\ \A x \in Emitters : x # Caller => working'[x] = NoRecord
        BY <2>2, <3>1, Numbers DEF IInv, TypeOK
      <3>3. NewRecord.event # 0
        BY DEF NewRecord, IInv, TypeOK
      <3>4. Underway' # {}
        BY <3>2, <3>3 DEF Underway
      <3> QED
        BY <1>1, <2>2, <2>4, <3>1, <3>2, <3>4 DEF Linked, Continues
    <2> QED
      BY <2>5, <2>6
  <1> QED
    BY <1>2, <1>3 DEF Chained

LEMMA ChainedTake ==
  ASSUME IInv, Chained, NEW w \in Workers, Take(w)
  PROVE  Chained'
  <1>1. /\ queue \in Seq(Record) /\ queue # <<>> /\ w \in Emitters
        /\ queue' = Tail(queue) /\ working' = [working EXCEPT ![w] = Head(queue)]
        /\ working \in [Emitters -> Record \cup {NoRecord}]
        /\ UNCHANGED <<loop, written, tail, disturbed>>
    BY DEF Take, IInv, TypeOK, Emitters, process
  <1>2. /\ working'[w] = queue[1] /\ 1 \in DOMAIN queue
        /\ \A x \in Emitters : x # w => working'[x] = working[x]
        /\ \A i \in DOMAIN queue' : i + 1 \in DOMAIN queue /\ queue'[i] = queue[i + 1]
    BY <1>1, Taken
  <1>3. \A r : Continues(r)' <=> Continues(r)
    BY <1>1 DEF Continues, LastWritten
  <1>4. queue[1].event # 0 /\ queue[1].event = working'[w].event
    BY <1>1, <1>2, RecordsOf
  <1>5. Underway' # {}
    BY <1>1, <1>4 DEF Underway
  <1> QED
    BY <1>1, <1>2, <1>3, <1>5 DEF Chained, Linked

(* The record that is written is the only one underway, and continues the  *)
(* chain.                                                                  *)
LEMMA ChainedWrite ==
  ASSUME IInv, Chained, NEW x \in Emitters, Write(x)
  PROVE  Chained'
  <1>1. PICK r \in Record : r = working[x] /\ r # NoRecord
    BY DEF Write, IInv, TypeOK
  <1>2. /\ written' = Append(written, r) /\ working' = [working EXCEPT ![x] = NoRecord]
        /\ UNCHANGED <<loop, queue, tail, disturbed>>
        /\ written \in Seq(Record) /\ queue \in Seq(Record)
        /\ working \in [Emitters -> Record \cup {NoRecord}]
    BY <1>1 DEF Write, process, IInv, TypeOK
  <1>3. PICK n \in Nat : n = Len(written) /\ DOMAIN written = 1..n
    BY <1>2, RecordsOf
  <1>4. /\ DOMAIN written' = 1..(n + 1) /\ Len(written') = n + 1 /\ written' # <<>>
        /\ \A i \in 1..n : written'[i] = written[i]
        /\ written'[n + 1] = r
    <2>1. /\ DOMAIN written' = DOMAIN written \cup {n + 1} /\ Len(written') = n + 1
          /\ \A i \in DOMAIN written : written'[i] = written[i]
          /\ written'[n + 1] = r
      BY <1>2, <1>3, Appended
    <2>2. 1..(n + 1) = (1..n) \cup {n + 1}
      OBVIOUS
    <2>3. written' # <<>>
      BY <2>1
    <2> QED
      BY <1>3, <2>1, <2>2, <2>3
  <1>5. ASSUME disturbed = {}
        PROVE  /\ Linked(written')
               /\ DOMAIN queue' = {}
               /\ \A y \in Emitters : working'[y] = NoRecord
               /\ tail' = LastWritten'
    <2>1. r.previous = LastWritten /\ r.event = tail /\ Linked(written)
      BY <1>1, <1>5 DEF Chained, Continues
    <2>2. DOMAIN queue = {}
      <3> SUFFICES ASSUME NEW i \in DOMAIN queue PROVE FALSE
        OBVIOUS
      <3>1. queue[i].event = tail
        BY <1>5 DEF Chained, Continues
      <3> QED
        BY <1>1, <2>1, <3>1 DEF IInv, Distinct
    <2>3. \A y \in Emitters : y # x => working[y] = NoRecord
      <3> SUFFICES ASSUME NEW y \in Emitters, y # x, working[y] # NoRecord PROVE FALSE
        OBVIOUS
      <3>1. working[y].event = tail
        BY <1>5 DEF Chained, Continues
      <3> QED
        BY <1>1, <2>1, <3>1 DEF IInv, Distinct
    <2>4. tail' = LastWritten'
      BY <1>2, <1>4, <2>1 DEF LastWritten
    <2>5. ASSUME NEW i \in 1..(n + 1)
          PROVE  written'[i].previous = IF i = 1 THEN 0 ELSE written'[i - 1].event
      <3>1. CASE i = n + 1
        <4>1. CASE n = 0
          <5>1. written = <<>>
            BY <1>2, <1>3, <4>1, EmptySeq
          <5> QED
            BY <1>4, <2>1, <3>1, <4>1, <5>1 DEF LastWritten
        <4>2. CASE n # 0
          <5>1. written # <<>> /\ i - 1 \in 1..n /\ i - 1 = n /\ i # 1
            BY <1>3, <3>1, <4>2
          <5>2. r.previous = written[n].event /\ written'[i - 1] = written[n]
            BY <1>3, <1>4, <2>1, <5>1 DEF LastWritten
          <5> QED
            BY <1>4, <3>1, <5>1, <5>2
        <4> QED
          BY <4>1, <4>2
      <3>2. CASE i # n + 1
        <4>1. i \in 1..n /\ (i # 1 => i - 1 \in 1..n)
          BY <3>2
        <4>2. written[i].previous = IF i = 1 THEN 0 ELSE written[i - 1].event
          BY <1>3, <2>1, <4>1 DEF Linked
        <4> QED
          BY <1>4, <4>1, <4>2
      <3> QED
        BY <3>1, <3>2
    <2>6. Linked(written')
      BY <1>4, <2>5 DEF Linked
    <2> QED
      BY <1>2, <2>2, <2>3, <2>4, <2>6
  <1>6. "stopped" \notin disturbed' => (loop' = "ended" => queue' = <<>>)
    BY <1>2 DEF Chained
  <1>7. Linked(written)' <=> Linked(written')
    BY DEF Linked
  <1> QED
    BY <1>2, <1>5, <1>6, <1>7 DEF Chained

(* A process that starts finds the end of the chain in path, when there is *)
(* one.                                                                    *)
LEMMA ChainedRestart ==
  ASSUME IInv, Placement, Chained, Restart
  PROVE  Chained'
  <1>1. /\ loop' = "running" /\ tail' = Loaded /\ queue' = <<>> /\ DOMAIN queue' = {}
        /\ working' = [x \in Emitters |-> NoRecord] /\ written' = written
        /\ disturbed' = {} => disturbed = {} /\ (Exists(0) \/ written = <<>>)
    BY DEF Restart
  <1>2. ASSUME Exists(0) \/ written = <<>> PROVE Loaded = LastWritten
    <2>1. PICK end \in [0..(MaxFiles + 1) -> Nat] : InPlace(end)
      BY DEF Placement, Placed
    <2>2. /\ end[0] = Len(written) /\ end[0] = end[1] + Len(files[0])
          /\ \A k \in 1..Len(files[0]) : files[0][k] = written[end[1] + k]
      <3>1. 0 \in 0..MaxFiles /\ 0 + 1 = 1
        BY FilesType
      <3> QED
        BY <2>1, <3>1 DEF InPlace
    <2>3. files[0] \in Seq(Record) /\ Len(files[0]) \in Nat /\ end[1] \in Nat
      BY <2>1, FilesType
    <2>4. CASE Exists(0)
      <3>1. Len(files[0]) \in 1..Len(files[0])
        BY <2>3, <2>4, EmptySeq DEF Exists, Missing
      <3>2. files[0][Len(files[0])] = written[Len(written)] /\ Len(written) # 0
        BY <2>2, <2>3, <3>1
      <3>3. written # <<>>
        BY <3>2
      <3> QED
        BY <2>4, <3>2, <3>3 DEF Loaded, LastWritten
    <2>5. CASE ~Exists(0)
      BY <1>2, <2>5 DEF Loaded, LastWritten
    <2> QED
      BY <2>4, <2>5
  <1>3. LastWritten' = LastWritten /\ (Linked(written)' <=> Linked(written))
    BY <1>1 DEF LastWritten, Linked
  <1> QED
    BY <1>1, <1>2, <1>3 DEF Chained

LEMMA NextChained == IInv /\ Placement /\ Chained /\ [Next]_vars => Chained'
  <1> SUFFICES ASSUME IInv, Placement, Chained, [Next]_vars PROVE Chained'
    OBVIOUS
  <1>s. ASSUME UNCHANGED <<loop, written, queue, working, tail, disturbed>> PROVE Chained'
    <2>1. Underway' = Underway /\ LastWritten' = LastWritten
      BY <1>s DEF Underway, LastWritten
    <2> QED
      BY <1>s, <2>1 DEF Chained, Linked, Continues
  <1>1. CASE Alog \/ Log
    BY <1>1, ChainedLogging
  <1>2. CASE RecordBlock
    BY <1>2, <1>s DEF RecordBlock, process
  <1>3. CASE Restart
    BY <1>3, ChainedRestart
  <1>4. CASE EndLoop
    <2>1. /\ UNCHANGED <<written, queue, working, tail>> /\ disturbed \subseteq disturbed'
          /\ "stopped" \notin disturbed' => queue = <<>>
      BY <1>4 DEF EndLoop
    <2>2. Underway' = Underway /\ LastWritten' = LastWritten
      BY <2>1 DEF Underway, LastWritten
    <2> QED
      BY <2>1, <2>2 DEF Chained, Linked, Continues
  <1>5. ASSUME NEW i \in DOMAIN queue, CancelQueued(i) PROVE Chained'
    <2>1. queue # <<>> /\ loop = "ended" /\ disturbed' = disturbed
      BY <1>5 DEF CancelQueued
    <2>2. "stopped" \in disturbed
      BY <2>1 DEF Chained
    <2> QED
      BY <2>1, <2>2 DEF Chained
  <1>6. ASSUME NEW w \in Workers, Take(w) PROVE Chained'
    BY <1>6, ChainedTake
  <1>7. ASSUME NEW x \in Emitters, Enter(x) \/ Rotate(x) PROVE Chained'
    BY <1>7, <1>s DEF Enter, Rotate, process
  <1>8. ASSUME NEW x \in Emitters, Write(x) PROVE Chained'
    BY <1>8, ChainedWrite
  <1>9. ASSUME NEW x \in Emitters, EmitFails(x) PROVE Chained'
    BY <1>9 DEF EmitFails, Chained, process
  <1>10. CASE UNCHANGED vars
    BY <1>10, <1>s DEF vars, process
  <1> QED
    BY <1>1, <1>2, <1>3, <1>4, <1>5, <1>6, <1>7, <1>8, <1>9, <1>10 DEF Next, Emit

(* The chain that verify_chain() reads is whole as long as records are     *)
(* logged one at a time, none is lost and no process starts between the    *)
(* moving away of path and its creation: through rotations, restarts and   *)
(* the end of an idle event loop, for any number and size of files.        *)
THEOREM ChainKept == Spec => []AwaitedChainVerifies
  <1>1. Init => Chained
    BY ChainedInit
  <1>2. IInv /\ Placement /\ Chained /\ [Next]_vars => Chained'
    BY NextChained
  <1>3. Chained => AwaitedChainVerifies
    BY DEF Chained, AwaitedChainVerifies, VerifyChain
  <1> QED
    BY <1>1, <1>2, <1>3, AlwaysPlaced, PTL DEF Spec

=============================================================================
