------------------------- MODULE SSEInspectorProofs -------------------------
(***************************************************************************)
(* Theorems about SSEInspector, for every lookahead, text, policy and way  *)
(* of cutting the stream: its types, the four safety invariants that the   *)
(* runs check, and the two action properties, of what is masked.           *)
(***************************************************************************)
EXTENDS SSEInspector, OperatorLemmas

Event == [start : 0..MaxLength, end : 0..MaxLength]

(* q cuts the text from lo to hi into consecutive events of at most        *)
(* MaxDelta characters.                                                    *)
Covers(q, lo, hi) ==
  /\ lo <= hi
  /\ \A i \in DOMAIN q :
       /\ lo <= q[i].start
       /\ q[i].start <= q[i].end
       /\ q[i].end <= hi
       /\ q[i].end <= q[i].start + MaxDelta
       /\ q[i].start = IF i = 1 THEN lo ELSE q[i - 1].end
  /\ \A i, j \in DOMAIN q : i < j => q[i].end <= q[j].start
  /\ hi = IF q = <<>> THEN lo ELSE q[Len(q)].end

Types ==
  /\ text \in Texts
  /\ length \in 0..MaxLength
  /\ flushed \in 0..MaxLength
  /\ lastScan \in -1..MaxLength
  /\ queue \in Seq(Event)
  /\ decision.action \in Actions
  /\ status \in {"open", "finished", "blocked", "failed"}
  /\ redacted \subseteq 0..MaxLength

(* What a stream still being inspected satisfies: unless nothing is held,  *)
(* fewer than ScanStep characters came after the last scan; what has been  *)
(* written lies Lookahead behind the head, and not much further.           *)
Paced ==
  status = "open" =>
    /\ length = flushed \/ length - lastScan < ScanStep
    /\ flushed > 0 => flushed <= length - Lookahead
    /\ length - flushed < Lookahead + MaxDelta

(* The last scan saw everything that is still held and that lies before it. *)
HeldIsReported ==
  \A f \in text : flushed <= f.start /\ f.end <= lastScan => f \in reported

IInv ==
  /\ Types
  /\ Covers(queue, flushed, length)
  /\ lastScan <= length
  /\ NothingUnscanned
  /\ Paced
  /\ HeldIsReported
  /\ DetectedBeforeFlush

-----------------------------------------------------------------------------
(* Lemmas about the operators of the inspector *)

(* The numbers among the constants, without the rest of their assumption. *)
LEMMA Numbers ==
  /\ Lookahead \in Nat \ {0} /\ ScanStep \in Nat \ {0} /\ ScanStep <= Lookahead + 1
  /\ MaxDelta \in Nat \ {0} /\ MaxLength \in Nat /\ MaxChunk \in Nat
BY InspectorAssumption

(* The events of a sequence of events. *)
LEMMA EventsOf ==
  ASSUME NEW q \in Seq(Event)
  PROVE  /\ Len(q) \in Nat
         /\ DOMAIN q = 1..Len(q)
         /\ \A i \in 1..Len(q) : q[i] \in Event /\ q[i].start \in Int /\ q[i].end \in Int
<1>1. ASSUME NEW e \in Event PROVE e.start \in Int /\ e.end \in Int
  BY Numbers DEF Event
<1>2. ASSUME NEW i \in 1..Len(q) PROVE q[i] \in Event
  OBVIOUS
<1> QED BY <1>1, <1>2

(* Appending the events of a chunk extends the text the queue covers. *)
LEMMA AppendCovers ==
  ASSUME NEW q \in Seq(Event), NEW lo \in 0..MaxLength, NEW hi \in 0..MaxLength,
         Covers(q, lo, hi), NEW c \in Chunks(hi)
  PROVE  /\ q \o Parsed(hi, c) \in Seq(Event)
         /\ NewLength(hi, c) \in hi..MaxLength
         /\ Covers(q \o Parsed(hi, c), lo, NewLength(hi, c))
<1> DEFINE p == Parsed(hi, c)
           r == q \o p
           to == NewLength(hi, c)
           m == Len(q)
<1> USE Numbers
<1>0. /\ m \in Nat /\ lo \in Int /\ hi \in Int /\ lo <= hi
      /\ \A i \in 1..m :
           /\ q[i].start \in Int /\ q[i].end \in Int
           /\ lo <= q[i].start /\ q[i].start <= q[i].end /\ q[i].end <= hi
           /\ q[i].end <= q[i].start + MaxDelta
           /\ q[i].start = IF i = 1 THEN lo ELSE q[i - 1].end
      /\ \A i, j \in 1..m : i < j => q[i].end <= q[j].start
      /\ hi = IF q = <<>> THEN lo ELSE q[m].end
  <2>1. m \in Nat /\ DOMAIN q = 1..m /\ \A i \in 1..m : q[i].start \in Int /\ q[i].end \in Int
    BY EventsOf
  <2>2. lo \in Int /\ hi \in Int
    OBVIOUS
  <2>3. \A i \in 1..Len(q) :
           /\ lo <= q[i].start /\ q[i].start <= q[i].end /\ q[i].end <= hi
           /\ q[i].end <= q[i].start + MaxDelta
           /\ q[i].start = IF i = 1 THEN lo ELSE q[i - 1].end
    BY <2>1 DEF Covers
  <2>4. \A i, j \in 1..Len(q) : i < j => q[i].end <= q[j].start
    BY <2>1 DEF Covers
  <2>5. lo <= hi /\ hi = IF q = <<>> THEN lo ELSE q[Len(q)].end
    BY DEF Covers
  <2> QED BY <2>1, <2>2, <2>3, <2>4, <2>5
<1>1. PICK n \in 0..MaxChunk : c \in [1..n -> hi..MaxLength]
  BY DEF Chunks
<1>2. /\ Len(c) = n /\ DOMAIN c = 1..n /\ c \in Seq(Int)
      /\ \A i, j \in 1..n : i <= j => c[i] <= c[j]
      /\ \A i \in 1..n : /\ c[i] \in Int /\ hi <= c[i] /\ c[i] <= MaxLength
                         /\ c[i] <= Start(hi, c, i) + MaxDelta
  BY <1>1 DEF Chunks
<1>3. \A i \in 1..n : /\ Start(hi, c, i) \in Int /\ hi <= Start(hi, c, i)
                      /\ Start(hi, c, i) <= c[i]
  BY <1>2 DEF Start
<1>4. \A i \in 1..n : [start |-> Start(hi, c, i), end |-> c[i]] \in Event
  BY <1>2, <1>3 DEF Event
<1>5. p = [i \in 1..n |-> [start |-> Start(hi, c, i), end |-> c[i]]]
  BY <1>2 DEF Parsed
<1>6. p \in Seq(Event) /\ Len(p) = n
  BY <1>4, <1>5
<1>7. \A i \in 1..n : p[i].start = Start(hi, c, i) /\ p[i].end = c[i]
  BY <1>5
<1> HIDE DEF p
<1>8. /\ r \in Seq(Event) /\ Len(r) = m + n /\ DOMAIN r = 1..(m + n)
      /\ \A i \in 1..m : r[i] = q[i]
      /\ \A i \in 1..n : r[i + m] = p[i]
  <2>1. /\ r \in Seq(Event) /\ Len(r) = m + n
        /\ \A i \in 1..(m + n) : r[i] = IF i <= m THEN q[i] ELSE p[i - m]
    BY <1>6, ConcatProperties
  <2>2. DOMAIN r = 1..(m + n)
    BY <2>1
  <2>3. ASSUME NEW i \in 1..n PROVE r[i + m] = p[i]
    <3>1. i + m \in 1..(m + n) /\ ~(i + m <= m) /\ (i + m) - m = i
      BY <1>0
    <3> QED BY <3>1, <2>1
  <2>4. ASSUME NEW i \in 1..m PROVE r[i] = q[i]
    BY <2>1, <1>0
  <2> QED BY <2>1, <2>2, <2>3, <2>4
<1> HIDE DEF r
<1>9. /\ to \in Int /\ hi <= to /\ to <= MaxLength
      /\ \A i \in 1..n : c[i] <= to
  BY <1>2 DEF NewLength
<1>10. \A i \in 1..n : r[i + m].start = Start(hi, c, i) /\ r[i + m].end = c[i]
  BY <1>7, <1>8
<1>11. \A i \in 1..m :
        /\ lo <= r[i].start /\ r[i].start <= r[i].end /\ r[i].end <= to
        /\ r[i].end <= r[i].start + MaxDelta
        /\ r[i].start = IF i = 1 THEN lo ELSE r[i - 1].end
  <2> SUFFICES ASSUME NEW i \in 1..m
               PROVE  /\ lo <= r[i].start /\ r[i].start <= r[i].end /\ r[i].end <= to
                      /\ r[i].end <= r[i].start + MaxDelta
                      /\ r[i].start = IF i = 1 THEN lo ELSE r[i - 1].end
    OBVIOUS
  <2>1. r[i] = q[i] /\ q[i].end <= hi
    BY <1>0, <1>8
  <2>2. ASSUME i # 1 PROVE r[i - 1] = q[i - 1]
    <3>1. i - 1 \in 1..m
      BY <2>2, <1>0
    <3> QED BY <3>1, <1>8
  <2> QED BY <2>1, <2>2, <1>0, <1>9, SMTT(30)
<1>12. \A i \in 1..n :
        /\ lo <= r[i + m].start /\ r[i + m].start <= r[i + m].end /\ r[i + m].end <= to
        /\ r[i + m].end <= r[i + m].start + MaxDelta
  <2> SUFFICES ASSUME NEW i \in 1..n
               PROVE  /\ lo <= r[i + m].start /\ r[i + m].start <= r[i + m].end /\ r[i + m].end <= to
                      /\ r[i + m].end <= r[i + m].start + MaxDelta
    OBVIOUS
  <2>1. r[i + m].start = Start(hi, c, i) /\ r[i + m].end = c[i]
    BY <1>10
  <2>2. /\ c[i] \in Int /\ hi <= Start(hi, c, i) /\ Start(hi, c, i) <= c[i]
        /\ Start(hi, c, i) \in Int /\ c[i] <= to /\ c[i] <= Start(hi, c, i) + MaxDelta
    BY <1>2, <1>3, <1>9
  <2> QED BY <2>1, <2>2, <1>0
<1>13. ASSUME NEW i \in 1..n
       PROVE  r[i + m].start = IF i + m = 1 THEN lo ELSE r[(i + m) - 1].end
  <2>1. CASE i = 1 /\ m = 0
    <3>1. r[i + m].start = hi /\ i + m = 1
      BY <2>1, <1>10 DEF Start
    <3>2. q = <<>>
      BY <2>1
    <3> QED BY <3>1, <3>2, <1>0
  <2>2. CASE i = 1 /\ m > 0
    <3>1. r[i + m].start = hi
      BY <2>2, <1>10 DEF Start
    <3>2. r[(i + m) - 1].end = hi
      <4>1. (i + m) - 1 = m /\ m \in 1..m /\ q # <<>>
        BY <2>2, <1>0
      <4> QED BY <4>1, <1>0, <1>8
    <3> QED BY <2>2, <3>1, <3>2
  <2>3. CASE i > 1
    <3>1. r[i + m].start = c[i - 1]
      <4>1. i # 1 /\ r[i + m].start = Start(hi, c, i)
        BY <2>3, <1>10
      <4> QED BY <4>1 DEF Start
    <3>2. i - 1 \in 1..n /\ (i - 1) + m = (i + m) - 1
      BY <2>3
    <3>3. r[(i + m) - 1].end = c[i - 1]
      BY <3>2, <1>10
    <3> QED BY <2>3, <3>1, <3>3
  <2> QED BY <2>1, <2>2, <2>3
<1>14. ASSUME NEW i \in 1..(m + n), NEW j \in 1..(m + n), i < j
       PROVE  r[i].end <= r[j].start
  <2>1. CASE j <= m
    <3>1. i \in 1..m /\ j \in 1..m
      BY <2>1, <1>14, <1>0
    <3> QED BY <3>1, <1>14, <1>0, <1>8
  <2>2. CASE i <= m /\ j > m
    <3>1. r[i].end <= hi /\ r[i].end \in Int
      BY <2>2, <1>0, <1>8
    <3>2. j - m \in 1..n /\ (j - m) + m = j
      BY <2>2
    <3>3. r[j].start = Start(hi, c, j - m)
      BY <3>2, <1>10
    <3>4. hi <= r[j].start /\ r[j].start \in Int
      BY <3>2, <3>3, <1>3
    <3> QED BY <3>1, <3>4
  <2>3. CASE i > m
    <3>1. /\ i - m \in 1..n /\ (i - m) + m = i
          /\ j - m \in 1..n /\ (j - m) + m = j /\ j - m # 1
          /\ (j - m) - 1 \in 1..n /\ i - m <= (j - m) - 1
      BY <2>3, <1>14
    <3>2. r[i].end = c[i - m]
      BY <3>1, <1>10
    <3>3. r[j].start = c[(j - m) - 1]
      BY <3>1, <1>10 DEF Start
    <3> QED BY <3>1, <3>2, <3>3, <1>2
  <2> QED BY <2>1, <2>2, <2>3
<1>15. to = IF r = <<>> THEN lo ELSE r[Len(r)].end
  <2>1. CASE n = 0
    <3>1. to = hi /\ r = q
      BY <2>1, <1>2, <1>6, <1>8 DEF NewLength, r
    <3> QED BY <3>1, <1>0
  <2>2. CASE n > 0
    <3>1. to = c[n] /\ r # <<>> /\ Len(r) = n + m
      BY <2>2, <1>2, <1>8 DEF NewLength
    <3> QED BY <2>2, <3>1, <1>10
  <2> QED BY <2>1, <2>2
<1>16. \A i \in 1..(m + n) : i \in 1..m \/ (i - m \in 1..n /\ (i - m) + m = i)
  BY <1>0
<1>17. \A i \in DOMAIN r :
         /\ lo <= r[i].start /\ r[i].start <= r[i].end /\ r[i].end <= to
         /\ r[i].end <= r[i].start + MaxDelta
         /\ r[i].start = IF i = 1 THEN lo ELSE r[i - 1].end
  <2> SUFFICES ASSUME NEW i \in 1..(m + n)
               PROVE  /\ lo <= r[i].start /\ r[i].start <= r[i].end /\ r[i].end <= to
                      /\ r[i].end <= r[i].start + MaxDelta
                      /\ r[i].start = IF i = 1 THEN lo ELSE r[i - 1].end
    BY <1>8
  <2>1. CASE i \in 1..m
    BY <2>1, <1>11
  <2>2. CASE i - m \in 1..n /\ (i - m) + m = i
    BY <2>2, <1>12, <1>13
  <2> QED BY <2>1, <2>2, <1>16
<1>18. lo <= to
  BY <1>0, <1>9
<1> QED
  <2>1. Covers(r, lo, to)
    BY <1>8, <1>14, <1>15, <1>17, <1>18 DEF Covers
  <2> QED BY <2>1, <1>8, <1>9 DEF r, p

(* Taking events off the front leaves a queue that covers the rest. *)
LEMMA DropCovers ==
  ASSUME NEW q \in Seq(Event), NEW lo \in 0..MaxLength, NEW hi \in 0..MaxLength,
         Covers(q, lo, hi), NEW k \in 0..Len(q),
         NEW to, to = IF k = 0 THEN lo ELSE q[k].end
  PROVE  /\ SubSeq(q, k + 1, Len(q)) \in Seq(Event)
         /\ to \in lo..hi
         /\ Covers(SubSeq(q, k + 1, Len(q)), to, hi)
<1> DEFINE r == SubSeq(q, k + 1, Len(q))
<1> USE Numbers
<1>0. /\ Len(q) \in Nat /\ lo \in Int /\ hi \in Int /\ lo <= hi
      /\ \A i \in 1..Len(q) :
           /\ q[i].start \in Int /\ q[i].end \in Int
           /\ lo <= q[i].start /\ q[i].start <= q[i].end /\ q[i].end <= hi
           /\ q[i].end <= q[i].start + MaxDelta
           /\ q[i].start = IF i = 1 THEN lo ELSE q[i - 1].end
      /\ \A i, j \in 1..Len(q) : i < j => q[i].end <= q[j].start
      /\ hi = IF q = <<>> THEN lo ELSE q[Len(q)].end
  <2>1. /\ Len(q) \in Nat /\ DOMAIN q = 1..Len(q)
        /\ \A i \in 1..Len(q) : q[i].start \in Int /\ q[i].end \in Int
    BY EventsOf
  <2>2. lo \in Int /\ hi \in Int
    OBVIOUS
  <2>3. \A i \in 1..Len(q) :
           /\ lo <= q[i].start /\ q[i].start <= q[i].end /\ q[i].end <= hi
           /\ q[i].end <= q[i].start + MaxDelta
           /\ q[i].start = IF i = 1 THEN lo ELSE q[i - 1].end
    BY <2>1 DEF Covers
  <2>4. \A i, j \in 1..Len(q) : i < j => q[i].end <= q[j].start
    BY <2>1 DEF Covers
  <2>5. lo <= hi /\ hi = IF q = <<>> THEN lo ELSE q[Len(q)].end
    BY DEF Covers
  <2> QED BY <2>1, <2>2, <2>3, <2>4, <2>5
<1>1. r \in Seq(Event) /\ Len(r) = Len(q) - k
  OBVIOUS
<1>2. \A i \in 1..Len(r) : r[i] = q[i + k]
  BY <1>1
<1>3. DOMAIN r = 1..Len(r)
  BY <1>1
<1> HIDE DEF r
<1>4. to \in Int /\ lo <= to /\ to <= hi
  <2>1. CASE k = 0
    BY <2>1, <1>0
  <2>2. CASE k > 0
    <3>1. /\ lo <= q[k].start /\ q[k].start <= q[k].end /\ q[k].end <= hi
          /\ q[k].start \in Int /\ q[k].end \in Int
      BY <2>2, <1>0
    <3>2. to = q[k].end
      BY <2>2
    <3> QED BY <3>1, <3>2, <1>0
  <2> QED BY <2>1, <2>2
<1>5. ASSUME NEW i \in 1..Len(r)
      PROVE  /\ to <= r[i].start
             /\ r[i].start <= r[i].end
             /\ r[i].end <= hi
             /\ r[i].end <= r[i].start + MaxDelta
             /\ r[i].start = IF i = 1 THEN to ELSE r[i - 1].end
  <2>1. r[i] = q[i + k] /\ i + k \in 1..Len(q)
    BY <1>1, <1>2
  <2>2. to <= r[i].start
    <3>1. CASE k = 0
      BY <3>1, <2>1, <1>0
    <3>2. CASE k > 0
      BY <3>2, <2>1, <1>0
    <3> QED BY <3>1, <3>2
  <2>3. r[i].start = IF i = 1 THEN to ELSE r[i - 1].end
    <3>1. q[i + k].start = IF i + k = 1 THEN lo ELSE q[(i + k) - 1].end
      BY <2>1, <1>0
    <3>2. CASE i = 1
      BY <3>1, <3>2, <2>1
    <3>3. CASE i # 1
      <4>1. i - 1 \in 1..Len(r) /\ (i - 1) + k = (i + k) - 1 /\ i + k # 1
        BY <3>3, <1>0, <1>1
      <4> QED BY <4>1, <3>1, <3>3, <2>1, <1>2
    <3> QED BY <3>2, <3>3
  <2> QED BY <2>1, <2>2, <2>3, <1>0
<1>6. ASSUME NEW i \in 1..Len(r), NEW j \in 1..Len(r), i < j
      PROVE  r[i].end <= r[j].start
  <2>1. i + k \in 1..Len(q) /\ j + k \in 1..Len(q) /\ i + k < j + k
    BY <1>1, <1>6
  <2>2. r[i] = q[i + k] /\ r[j] = q[j + k]
    BY <1>2
  <2> QED BY <2>1, <2>2, <1>0
<1>7. hi = IF r = <<>> THEN to ELSE r[Len(r)].end
  <2>1. CASE k = Len(q)
    <3>1. r = <<>>
      BY <2>1, <1>1
    <3> QED BY <2>1, <3>1, <1>0
  <2>2. CASE k < Len(q)
    <3>1. r # <<>> /\ Len(r) \in 1..Len(r) /\ Len(r) + k = Len(q) /\ q # <<>>
      BY <2>2, <1>1
    <3> QED BY <3>1, <1>0, <1>2
  <2> QED BY <2>1, <2>2
<1>8. Covers(r, to, hi)
  BY <1>3, <1>4, <1>5, <1>6, <1>7 DEF Covers
<1> QED
  BY <1>1, <1>4, <1>8 DEF r

-----------------------------------------------------------------------------
(* Lemmas about the parts of a step *)

(* What holds once the scan that a step needs has been made, of the text   *)
(* up to position to.                                                      *)
LEMMA ScanFacts ==
  ASSUME Types, lastScan <= length, HeldIsReported,
         NEW to \in length..MaxLength, NEW force \in BOOLEAN,
         ScanIfNeeded(to, force)
  PROVE  /\ lastScan' \in -1..MaxLength /\ lastScan <= lastScan' /\ lastScan' <= to
         /\ decision'.action \in Actions
         /\ reported \subseteq reported'
         /\ to = flushed \/ to - lastScan' < ScanStep
         /\ (force /\ to # flushed) => lastScan' = to
         /\ \A f \in text : flushed <= f.start /\ f.end <= lastScan' => f \in reported'
<1> USE Numbers
<1>1. to \in 0..MaxLength /\ length \in 0..MaxLength /\ flushed \in 0..MaxLength /\ lastScan \in -1..MaxLength
  BY DEF Types
<1>2. CASE ScanNotNeeded(to, force)
  <2>1. UNCHANGED <<lastScan, decision, reported>>
    BY <1>2 DEF ScanIfNeeded
  <2>2. to = flushed \/ (~force /\ to - lastScan < ScanStep)
    BY <1>2 DEF ScanNotNeeded
  <2>3. lastScan' = lastScan /\ decision' = decision /\ reported' = reported
    BY <2>1
  <2>4. decision.action \in Actions
    BY DEF Types
  <2> QED BY <1>1, <2>2, <2>3, <2>4 DEF HeldIsReported
<1>3. CASE ~ScanNotNeeded(to, force)
  <2>1. Scan(to)
    BY <1>3 DEF ScanIfNeeded
  <2>2. lastScan' = to /\ reported' = reported \cup Visible(flushed, to)
    BY <2>1 DEF Scan
  <2>3. decision'.action \in Actions
    <3>1. Evaluate(Rules, "stream", Reports(flushed, to), Tenant, FailMode).action \in Actions
      BY EvaluateAction, InspectorAssumption
    <3>2. decision.action \in Actions
      BY DEF Types
    <3> QED BY <2>1, <3>1, <3>2 DEF Scan
  <2>4. \A f \in text : flushed <= f.start /\ f.end <= to => f \in reported'
    BY <2>2 DEF Visible
  <2> QED BY <1>1, <2>2, <2>3, <2>4
<1> QED BY <1>2, <1>3

(* What a flush up to the boundary leaves of a queue that covers the text  *)
(* from flushed to position to.                                            *)
LEMMA FlushFacts ==
  ASSUME flushed \in 0..MaxLength, redacted \subseteq 0..MaxLength,
         NEW q \in Seq(Event), NEW to \in 0..MaxLength, Covers(q, flushed, to),
         NEW boundary \in Int, Flush(q, boundary)
  PROVE  /\ queue' \in Seq(Event)
         /\ flushed' \in flushed..to
         /\ Covers(queue', flushed', to)
         /\ flushed' = flushed \/ flushed' <= boundary
         /\ to = flushed' \/ boundary < flushed' + MaxDelta
         /\ redacted' \subseteq 0..MaxLength
<1> USE Numbers
<1>1. PICK k \in 0..Len(q) : IsFlushable(q, k, boundary) /\ Emit(q, k)
  BY DEF Flush
<1>2. /\ flushed' = IF k = 0 THEN flushed ELSE q[k].end
      /\ queue' = SubSeq(q, k + 1, Len(q))
      /\ redacted' \subseteq redacted \cup (flushed .. (flushed' - 1))
  BY <1>1 DEF Emit
<1>3. queue' \in Seq(Event) /\ flushed' \in flushed..to /\ Covers(queue', flushed', to)
  BY <1>2, DropCovers
<1>4. flushed' = flushed \/ flushed' <= boundary
  BY <1>1, <1>2 DEF IsFlushable
<1>5. to = flushed' \/ boundary < flushed' + MaxDelta
  <2>1. CASE k = Len(q)
    <3>1. queue' = <<>>
      BY <2>1, <1>2, EventsOf, SubSeqEmpty
    <3> QED BY <3>1, <1>3 DEF Covers
  <2>2. CASE k < Len(q)
    <3>1. /\ k + 1 \in DOMAIN q /\ q[k + 1].end > boundary
          /\ q[k + 1].end \in Int /\ q[k + 1].start \in Int
      BY <2>2, <1>1, EventsOf DEF IsFlushable
    <3>2. q[k + 1].end <= q[k + 1].start + MaxDelta
      BY <3>1 DEF Covers
    <3>3. q[k + 1].start = IF k + 1 = 1 THEN flushed ELSE q[(k + 1) - 1].end
      BY <3>1 DEF Covers
    <3>4. q[k + 1].start = flushed'
      BY <3>3, <1>2
    <3> QED BY <3>1, <3>2, <3>4, <1>3
  <2>3. Len(q) \in Nat
    BY EventsOf
  <2> QED BY <2>1, <2>2, <2>3
<1>6. redacted' \subseteq 0..MaxLength
  BY <1>2, <1>3, SMTT(30)
<1> QED BY <1>3, <1>4, <1>5, <1>6

-----------------------------------------------------------------------------

LEMMA InitIInv == Init => IInv
<1> SUFFICES ASSUME Init PROVE IInv
  OBVIOUS
<1> USE Numbers DEF Init
<1>1. Types
  BY DEF Types, Allow, Actions
<1>2. Covers(queue, flushed, length)
  BY DEF Covers
<1>3. lastScan <= length /\ NothingUnscanned /\ Paced
  BY DEF NothingUnscanned, Paced
<1>4. HeldIsReported /\ DetectedBeforeFlush
  <2>1. \A f \in text : f.start \in Nat /\ f.end \in Nat
    BY InspectorAssumption DEF Finding
  <2> QED BY <2>1 DEF HeldIsReported, DetectedBeforeFlush
<1> QED BY <1>1, <1>2, <1>3, <1>4 DEF IInv

(* The arithmetic of the pace: w is written, b the boundary, t the head of *)
(* the stream, s the last scan.                                            *)
LEMMA Behind ==
  ASSUME NEW w \in Int, NEW s \in Int, NEW t \in Int, NEW L \in Int, NEW step \in Int,
         step <= L + 1, w <= t - L, t - s < step
  PROVE  w <= s
OBVIOUS

LEMMA Moved ==
  ASSUME NEW w \in Int, NEW w2 \in Int, NEW t \in Int, w <= w2, w2 <= t, w2 # w
  PROVE  t # w
OBVIOUS

LEMMA Held ==
  ASSUME NEW w \in Int, NEW t \in Int, NEW L \in Int, NEW d \in Int, L > 0, d > 0,
         t = w \/ t - L < w + d
  PROVE  t - w < L + d
OBVIOUS

LEMMA Inside ==
  ASSUME NEW x \in Int, NEW y \in Int, NEW w \in Int, NEW s \in Int, NEW t \in Int,
         NEW L \in Int, NEW step \in Int,
         x < w, y - x <= L - step + 1, w <= t - L, t - s < step
  PROVE  y <= s
OBVIOUS

(* What a release that flushes preserves: the common part of Inspect and   *)
(* Finish.  The queue q covers the text from flushed to position to, and   *)
(* the scan has been made.                                                 *)
LEMMA ReleasePreserves ==
  ASSUME IInv, text' = text, status = "open",
         NEW to \in length..MaxLength, length' = to,
         NEW q \in Seq(Event), Covers(q, flushed, to),
         NEW after \in {"open", "finished"}, ScanIfNeeded(to, after = "finished"),
         NEW boundary \in Int, boundary = IF after = "finished" THEN to ELSE to - Lookahead,
         Release(q, boundary, after)
  PROVE  IInv'
<1> USE Numbers
<1>1. /\ to \in 0..MaxLength /\ length \in 0..MaxLength /\ flushed \in 0..MaxLength
      /\ lastScan \in -1..MaxLength /\ lastScan <= length /\ redacted \subseteq 0..MaxLength
      /\ text \in Texts
  BY DEF IInv, Types
<1>2. /\ lastScan' \in -1..MaxLength /\ lastScan <= lastScan' /\ lastScan' <= to
      /\ decision'.action \in Actions
      /\ reported \subseteq reported'
      /\ to = flushed \/ to - lastScan' < ScanStep
      /\ (after = "finished" /\ to # flushed) => lastScan' = to
      /\ \A f \in text : flushed <= f.start /\ f.end <= lastScan' => f \in reported'
  <2>1. (after = "finished") \in BOOLEAN
    OBVIOUS
  <2> QED BY <2>1, ScanFacts DEF IInv
<1>3. /\ NothingUnscanned
      /\ flushed > 0 => flushed <= length - Lookahead
      /\ DetectedBeforeFlush
  BY DEF IInv, Paced
<1>4. \A f \in text : f.start \in Nat /\ f.end \in Nat
  BY <1>1, InspectorAssumption DEF Finding
<1>5. CASE Blocks(decision', boundary)
  <2>1. status' = "blocked" /\ queue' = q /\ flushed' = flushed /\ redacted' = redacted
    BY <1>5 DEF Release
  <2>2. Types'
    BY <1>1, <1>2, <2>1 DEF Types
  <2>3. Covers(queue', flushed', length') /\ lastScan' <= length'
    BY <1>2, <2>1
  <2>4. NothingUnscanned' /\ Paced'
    BY <1>1, <1>2, <1>3, <2>1 DEF NothingUnscanned, Paced
  <2>5. HeldIsReported'
    BY <1>2, <2>1 DEF HeldIsReported
  <2>6. ASSUME NEW f \in text, f.end - f.start <= Lookahead - ScanStep + 1, f.end <= to,
               f.start < flushed
        PROVE  f \in reported'
    <3>1. f.end <= length
      BY <2>6, <1>1, <1>3, <1>4
    <3> QED BY <3>1, <2>6, <1>2, <1>3 DEF DetectedBeforeFlush
  <2>7. DetectedBeforeFlush'
    BY <2>1, <2>6 DEF DetectedBeforeFlush
  <2>8. Covers(queue, flushed, length)'
    BY <2>3
  <2> QED BY <2>2, <2>3, <2>4, <2>5, <2>7, <2>8 DEF IInv
<1>6. CASE ~Blocks(decision', boundary)
  <2>1. status' = after /\ Flush(q, boundary)
    BY <1>6 DEF Release
  <2>2. /\ queue' \in Seq(Event)
        /\ flushed' \in flushed..to
        /\ Covers(queue', flushed', to)
        /\ flushed' = flushed \/ flushed' <= boundary
        /\ to = flushed' \/ boundary < flushed' + MaxDelta
        /\ redacted' \subseteq 0..MaxLength
    BY <1>1, <2>1, FlushFacts
  <2> DEFINE to2 == flushed'
  <2>a. /\ to2 \in Int /\ flushed <= to2 /\ to2 <= to
        /\ flushed \in Int /\ to \in Int /\ lastScan' \in Int
        /\ Lookahead \in Int /\ ScanStep \in Int
    BY <1>1, <1>2, <2>2
  <2>b. after = "open" => boundary = to - Lookahead
    OBVIOUS
  <2>c. ASSUME to2 # flushed
        PROVE  to # flushed /\ to2 <= boundary /\ to - lastScan' < ScanStep
    <3>1. to # flushed
      BY <2>c, <2>a, Moved
    <3> QED BY <3>1, <2>c, <2>2, <1>2
  <2>3. Types'
    BY <1>1, <1>2, <2>1, <2>2 DEF Types
  <2>4. lastScan' <= length' /\ Covers(queue, flushed, length)'
    BY <1>2, <2>2
  <2>5. NothingUnscanned'
    <3>1. CASE flushed' = flushed
      BY <3>1, <1>1, <1>2, <1>3 DEF NothingUnscanned
    <3>2. CASE flushed' # flushed
      <4>1. CASE after = "finished"
        BY <4>1, <3>2, <2>a, <2>c, <1>2 DEF NothingUnscanned
      <4>2. CASE after = "open"
        <5>1. to2 <= to - Lookahead /\ to - lastScan' < ScanStep
          BY <4>2, <3>2, <2>b, <2>c
        <5>2. to2 <= lastScan'
          BY <5>1, <2>a, Behind
        <5> QED BY <5>2 DEF NothingUnscanned
      <4> QED BY <4>1, <4>2
    <3> QED BY <3>1, <3>2
  <2>6. Paced'
    <3> SUFFICES ASSUME after = "open"
                 PROVE  /\ to = flushed' \/ to - lastScan' < ScanStep
                        /\ flushed' > 0 => flushed' <= to - Lookahead
                        /\ to - flushed' < Lookahead + MaxDelta
      BY <2>1 DEF Paced
    <3>1. to = flushed' \/ to - lastScan' < ScanStep
      <4>1. CASE to2 = flushed
        BY <4>1, <1>2
      <4>2. CASE to2 # flushed
        BY <4>2, <2>c
      <4> QED BY <4>1, <4>2
    <3>2. flushed' > 0 => flushed' <= to - Lookahead
      <4>1. CASE to2 = flushed
        BY <4>1, <1>1, <1>3, <2>a
      <4>2. CASE to2 # flushed
        BY <4>2, <2>b, <2>c
      <4> QED BY <4>1, <4>2
    <3>3. to - flushed' < Lookahead + MaxDelta
      <4>1. to = to2 \/ to - Lookahead < to2 + MaxDelta
        BY <2>2, <2>b
      <4>2. MaxDelta \in Int /\ MaxDelta > 0 /\ Lookahead > 0
        BY Numbers
      <4> QED BY <4>1, <4>2, <2>a, Held
    <3> QED BY <3>1, <3>2, <3>3
  <2>7. HeldIsReported'
    BY <1>1, <1>2, <1>4, <2>2 DEF HeldIsReported
  <2>8. ASSUME NEW f \in text, f.end - f.start <= Lookahead - ScanStep + 1, f.end <= to,
               f.start < flushed'
        PROVE  f \in reported'
    <3>1. CASE f.start < flushed
      <4>1. f.end <= length
        BY <3>1, <2>8, <1>1, <1>3, <1>4
      <4> QED BY <4>1, <3>1, <2>8, <1>2, <1>3 DEF DetectedBeforeFlush
    <3>2. CASE flushed <= f.start
      <4>1. to # flushed /\ flushed' <= boundary
        BY <3>2, <2>8, <1>1, <1>4, <2>2
      <4>2. f.end <= lastScan'
        <5>1. CASE after = "finished"
          BY <5>1, <4>1, <2>8, <1>2
        <5>2. CASE after = "open"
          <6>1. to2 <= to - Lookahead /\ to - lastScan' < ScanStep
            BY <5>2, <4>1, <1>2, <2>b
          <6>2. f.end \in Int /\ f.start \in Int
            BY <1>4
          <6>3. f.start < to2 /\ f.end - f.start <= Lookahead - ScanStep + 1
            BY <2>8
          <6> QED BY <6>1, <6>2, <6>3, <2>a, Inside
        <5> QED BY <5>1, <5>2
      <4> QED BY <4>2, <3>2, <1>2
    <3> QED BY <3>1, <3>2, <1>1, <1>4
  <2>9. DetectedBeforeFlush'
    BY <2>8 DEF DetectedBeforeFlush
  <2> QED BY <2>3, <2>4, <2>5, <2>6, <2>7, <2>9 DEF IInv
<1> QED BY <1>5, <1>6

LEMMA NextIInv == IInv /\ [Next]_vars => IInv'
<1> SUFFICES ASSUME IInv, [Next]_vars PROVE IInv'
  OBVIOUS
<1> USE Numbers
<1>1. /\ queue \in Seq(Event) /\ length \in 0..MaxLength /\ flushed \in 0..MaxLength
      /\ Covers(queue, flushed, length)
  BY DEF IInv, Types
<1>2. CASE Inspect
  <2>1. PICK c \in Chunks(length) :
          /\ length' = NewLength(length, c)
          /\ ScanIfNeeded(NewLength(length, c), FALSE)
          /\ Release(queue \o Parsed(length, c), NewLength(length, c) - Lookahead, "open")
    BY <1>2 DEF Inspect
  <2>2. status = "open" /\ text' = text
    BY <1>2 DEF Inspect
  <2> DEFINE to == NewLength(length, c)
             q == queue \o Parsed(length, c)
  <2>3. q \in Seq(Event) /\ to \in length..MaxLength /\ Covers(q, flushed, to)
    BY <1>1, AppendCovers
  <2> HIDE DEF to, q
  <2>4. to - Lookahead \in Int
    BY <1>1, <2>3
  <2>5. length' = to /\ ScanIfNeeded(to, "open" = "finished") /\ Release(q, to - Lookahead, "open")
    BY <2>1 DEF to, q
  <2> QED BY <2>2, <2>3, <2>4, <2>5, ReleasePreserves
<1>3. CASE Finish
  <2>1. /\ status = "open" /\ text' = text /\ length' = length
        /\ ScanIfNeeded(length, "finished" = "finished") /\ Release(queue, length, "finished")
    BY <1>3 DEF Finish
  <2>2. length \in length..MaxLength /\ length \in Int
    BY <1>1
  <2> QED BY <1>1, <2>1, <2>2, ReleasePreserves
<1>4. CASE Fail
  <2>1. /\ UNCHANGED <<text, length, flushed, queue, lastScan, decision, reported, redacted>>
        /\ status' = "failed"
    BY <1>4 DEF Fail
  <2> QED BY <2>1 DEF IInv, Types, NothingUnscanned, Paced, HeldIsReported, DetectedBeforeFlush, Covers
<1>5. CASE UNCHANGED vars
  BY <1>5 DEF vars, IInv, Types, NothingUnscanned, Paced, HeldIsReported, DetectedBeforeFlush, Covers
<1> QED BY <1>2, <1>3, <1>4, <1>5 DEF Next

(* The inductive invariant holds in every state of the inspector. *)
THEOREM Invariance == Spec => []IInv
BY InitIInv, NextIInv, PTL DEF Spec

-----------------------------------------------------------------------------
(* The invariants that the runs check *)

(* Type correctness of the inspector's state. *)
THEOREM TypeCorrect == Spec => []TypeOK
<1>1. IInv => TypeOK
  BY DEF IInv, Types, TypeOK, Event
<1> QED BY <1>1, Invariance, PTL

(* The held events are exactly the text received and not written: the      *)
(* partial drain of the deque and the move of _flushed_abs lose nothing.   *)
THEOREM QueueCorrect == Spec => []QueueCoversHeldText
<1>1. IInv => QueueCoversHeldText
  BY DEF IInv, Covers, QueueCoversHeldText
<1> QED BY <1>1, Invariance, PTL

(* No character is written before a scan has seen it, for every lookahead  *)
(* not smaller than the scan step less one.                                *)
THEOREM ScannedBeforeFlush == Spec => []NothingUnscanned
<1>1. IInv => NothingUnscanned
  BY DEF IInv
<1> QED BY <1>1, Invariance, PTL

(* The text held is bounded by the lookahead and the longest delta. *)
THEOREM BoundedHold == Spec => []HeldTextBounded
<1>1. IInv => HeldTextBounded
  BY DEF IInv, Paced, HeldTextBounded
<1> QED BY <1>1, Invariance, PTL

(* A finding that is narrow enough is reported before any of it is written. *)
THEOREM NarrowFindingsDetected == Spec => []DetectedBeforeFlush
<1>1. IInv => DetectedBeforeFlush
  BY DEF IInv
<1> QED BY <1>1, Invariance, PTL

-----------------------------------------------------------------------------
(* Which characters are replaced *)

(* A finding as a scan of the window from lo reports it, without a judge. *)
Shifted(f, lo) == [f EXCEPT !.start = f.start - lo, !.end = f.end - lo]

(* What a window holds is a part of the text. *)
LEMMA VisibleType ==
  ASSUME text \in Texts, NEW lo, NEW hi
  PROVE  /\ Visible(lo, hi) \subseteq text
         /\ \A f \in Visible(lo, hi) : /\ f \in Finding /\ f.start < f.end
                                       /\ lo <= f.start /\ f.end <= hi
BY InspectorAssumption DEF Visible

(* A shift moves a finding and changes nothing of what a rule looks at. *)
LEMMA ShiftedFields ==
  ASSUME NEW f \in Finding, NEW lo \in Int
  PROVE  /\ Shifted(f, lo).start = f.start - lo /\ Shifted(f, lo).end = f.end - lo
         /\ Shifted(f, lo).detector = f.detector /\ Shifted(f, lo).severity = f.severity
         /\ Shifted(f, lo).confidence = f.confidence
BY DEF Finding, Shifted

LEMMA ReportsShifted ==
  ASSUME text \in Texts, NoJudgement, NEW lo \in Int, NEW hi
  PROVE  Reports(lo, hi) = {Shifted(f, lo) : f \in Visible(lo, hi)}
<1>1. ASSUME NEW f \in Visible(lo, hi)
      PROVE  [f EXCEPT !.start = IF f.detector \in Judges THEN 0 ELSE f.start - lo,
                       !.end   = IF f.detector \in Judges THEN hi - lo ELSE f.end - lo]
               = Shifted(f, lo)
  <2>1. f.detector \notin Judges
    BY VisibleType DEF NoJudgement
  <2> QED BY <2>1 DEF Shifted
<1> QED BY <1>1 DEF Reports

(* The characters that the claimed findings of a window cover, shifted with *)
(* the window and back.                                                     *)
Spanned(fs, action) == UNION {Span(f) : f \in Claimed(fs, action)}

(* What the rules claim of the reports is what they claim of the text. *)
LEMMA ReportsClaimed ==
  ASSUME text \in Texts, NoJudgement, NEW lo \in Int, NEW hi, NEW action, NEW x
  PROVE  x \in Claimed(Reports(lo, hi), action)
           <=> \E f \in Claimed(Visible(lo, hi), action) : x = Shifted(f, lo)
<1>1. \A y : y \in Claimed(Reports(lo, hi), action)
               <=> \E j \in DOMAIN Rules : /\ Applies(Rules[j], "stream", Tenant)
                                           /\ Rules[j].action = action
                                           /\ y \in Matching(Rules[j], Reports(lo, hi))
  BY ClaimedByRules DEF Claimed
<1>2. \A y : y \in Claimed(Visible(lo, hi), action)
               <=> \E j \in DOMAIN Rules : /\ Applies(Rules[j], "stream", Tenant)
                                           /\ Rules[j].action = action
                                           /\ y \in Matching(Rules[j], Visible(lo, hi))
  BY ClaimedByRules DEF Claimed
<1>3. ASSUME NEW f \in Visible(lo, hi), NEW j \in DOMAIN Rules
      PROVE  Shifted(f, lo) \in Matching(Rules[j], Reports(lo, hi))
               <=> f \in Matching(Rules[j], Visible(lo, hi))
  <2>1. Shifted(f, lo) \in Reports(lo, hi)
    BY ReportsShifted
  <2>2. /\ Shifted(f, lo).detector = f.detector /\ Shifted(f, lo).severity = f.severity
        /\ Shifted(f, lo).confidence = f.confidence
    BY VisibleType, ShiftedFields
  <2> QED BY <2>1, <2>2 DEF Matching
<1>4. ASSUME x \in Claimed(Reports(lo, hi), action)
      PROVE  \E f \in Claimed(Visible(lo, hi), action) : x = Shifted(f, lo)
  <2>1. PICK j \in DOMAIN Rules : /\ Applies(Rules[j], "stream", Tenant)
                                  /\ Rules[j].action = action
                                  /\ x \in Matching(Rules[j], Reports(lo, hi))
    BY <1>1, <1>4
  <2>2. PICK f \in Visible(lo, hi) : x = Shifted(f, lo)
    BY <2>1, ReportsShifted DEF Matching
  <2>3. f \in Matching(Rules[j], Visible(lo, hi))
    BY <1>3, <2>1, <2>2
  <2> QED BY <1>2, <2>1, <2>2, <2>3
<1>5. ASSUME NEW f \in Claimed(Visible(lo, hi), action), x = Shifted(f, lo)
      PROVE  x \in Claimed(Reports(lo, hi), action)
  <2>1. PICK j \in DOMAIN Rules : /\ Applies(Rules[j], "stream", Tenant)
                                  /\ Rules[j].action = action
                                  /\ f \in Matching(Rules[j], Visible(lo, hi))
    BY <1>2
  <2>2. f \in Visible(lo, hi)
    BY <2>1 DEF Matching
  <2>3. x \in Matching(Rules[j], Reports(lo, hi))
    BY <1>3, <1>5, <2>1, <2>2
  <2> QED BY <1>1, <2>1, <2>3
<1> QED BY <1>4, <1>5

(* The verdict of a scan. *)
Judged(lo, hi) == Evaluate(Rules, "stream", Reports(lo, hi), Tenant, FailMode)

LEMMA ClaimedHit ==
  ASSUME NEW fs, NEW action, Claimed(fs, action) # {}
  PROVE  \E h \in Match(Rules, "stream", fs, Tenant) : h.rule.action = action
BY DEF Claimed, ClaimedBy

(* The redact hits of a verdict are those of the rules. *)
LEMMA RedactHits ==
  ASSUME NEW lo, NEW hi
  PROVE  /\ ClaimedBy(Judged(lo, hi).hits, "redact") = Claimed(Reports(lo, hi), "redact")
         /\ Claimed(Reports(lo, hi), "redact") # {} => Judged(lo, hi).action \in {"redact", "block"}
         /\ Claimed(Reports(lo, hi), "block") # {} => Judged(lo, hi).action = "block"
<1>1. CASE \E h \in Match(Rules, "stream", Reports(lo, hi), Tenant) : h.rule.action = "redact"
  <2>1. /\ Judged(lo, hi).action \in {"redact", "block"}
        /\ Judged(lo, hi).hits = Match(Rules, "stream", Reports(lo, hi), Tenant)
    BY <1>1, RedactHitRedacts DEF Judged
  <2>2. Claimed(Reports(lo, hi), "block") # {} => Judged(lo, hi).action = "block"
    BY ClaimedHit, BlockHitBlocks DEF Judged
  <2> QED BY <2>1, <2>2 DEF Claimed
<1>2. CASE ~\E h \in Match(Rules, "stream", Reports(lo, hi), Tenant) : h.rule.action = "redact"
  <2>1. Judged(lo, hi).hits \subseteq Match(Rules, "stream", Reports(lo, hi), Tenant)
    BY EvaluateHits DEF Judged
  <2>2. Claimed(Reports(lo, hi), "redact") = {}
    BY <1>2, ClaimedHit
  <2>3. ClaimedBy(Judged(lo, hi).hits, "redact") = {}
    BY <1>2, <2>1 DEF ClaimedBy
  <2>4. Claimed(Reports(lo, hi), "block") # {} => Judged(lo, hi).action = "block"
    BY ClaimedHit, BlockHitBlocks DEF Judged
  <2> QED BY <2>2, <2>3, <2>4
<1> QED BY <1>1, <1>2

(* The verdict of a scan, applied at once, covers exactly the claimed text. *)
LEMMA FreshCovers ==
  ASSUME text \in Texts, NoJudgement, flushed \in Nat, NEW hi
  PROVE  Covered(Judged(flushed, hi)) = Spanned(Visible(flushed, hi), "redact")
<1> DEFINE found == Claimed(Visible(flushed, hi), "redact")
<1>1. \A x : x \in ClaimedBy(Judged(flushed, hi).hits, "redact")
               <=> \E f \in found : x = Shifted(f, flushed)
  BY RedactHits, ReportsClaimed
<1>2. ASSUME NEW f \in found
      PROVE  (flushed + Shifted(f, flushed).start) .. (flushed + Shifted(f, flushed).end - 1) = Span(f)
  <2>1. f \in Finding
    BY VisibleType DEF Claimed, ClaimedBy, Match, Matching
  <2>2. /\ Shifted(f, flushed).start = f.start - flushed
        /\ Shifted(f, flushed).end = f.end - flushed
    BY <2>1, ShiftedFields
  <2>3. f.start \in Int /\ f.end \in Int /\ flushed \in Int
    BY <2>1 DEF Finding
  <2>4. /\ flushed + Shifted(f, flushed).start = f.start
        /\ flushed + Shifted(f, flushed).end - 1 = f.end - 1
    BY <2>2, <2>3
  <2> QED BY <2>4 DEF Span
<1> HIDE DEF found
<1>3. \A p : p \in Covered(Judged(flushed, hi)) <=> \E f \in found : p \in Span(f)
  BY <1>1, <1>2, ZenonT(60) DEF Covered
<1> QED BY <1>3 DEF Spanned, found

-----------------------------------------------------------------------------
(* The action properties that the runs check *)

(* Only written characters have been replaced. *)
Written == redacted \subseteq 0..(flushed - 1)

(* As long as nothing was written, a pending decision that redacts does so *)
(* for a finding the last scan saw.                                        *)
Earlier ==
  (NoJudgement /\ flushed = 0 /\ ClaimedBy(decision.hits, "redact") # {})
    => Claimed(Visible(0, lastScan), "redact") # {}

Exactness == IInv /\ Written /\ Earlier

(* What inspect() and finish() have in common: the scan of the text up to  *)
(* position to, if one is needed, and the release of the queue q.          *)
Move(to, q, after, boundary) ==
  /\ status = "open" /\ text' = text /\ length' = to
  /\ to \in length..MaxLength
  /\ q \in Seq(Event) /\ Covers(q, flushed, to)
  /\ boundary \in Int /\ boundary = IF after = "finished" THEN to ELSE to - Lookahead
  /\ ScanIfNeeded(to, after = "finished")
  /\ Release(q, boundary, after)

LEMMA InspectMoves ==
  ASSUME IInv, Inspect
  PROVE  \E to, q, boundary : Move(to, q, "open", boundary)
<1> USE Numbers
<1>1. /\ queue \in Seq(Event) /\ length \in 0..MaxLength /\ flushed \in 0..MaxLength
      /\ Covers(queue, flushed, length)
  BY DEF IInv, Types
<1>2. PICK c \in Chunks(length) :
        /\ length' = NewLength(length, c)
        /\ ScanIfNeeded(NewLength(length, c), FALSE)
        /\ Release(queue \o Parsed(length, c), NewLength(length, c) - Lookahead, "open")
  BY DEF Inspect
<1>3. status = "open" /\ text' = text
  BY DEF Inspect
<1> DEFINE to == NewLength(length, c)
           q == queue \o Parsed(length, c)
<1>4. q \in Seq(Event) /\ to \in length..MaxLength /\ Covers(q, flushed, to)
  BY <1>1, AppendCovers
<1>5. length' = to /\ ScanIfNeeded(to, "open" = "finished") /\ Release(q, to - Lookahead, "open")
  BY <1>2
<1> HIDE DEF to, q
<1>6. to - Lookahead \in Int
  BY <1>1, <1>4
<1>7. Move(to, q, "open", to - Lookahead)
  BY <1>3, <1>4, <1>5, <1>6 DEF Move
<1> QED BY <1>7

LEMMA FinishMoves ==
  ASSUME IInv, Finish
  PROVE  Move(length, queue, "finished", length)
<1> USE Numbers
<1>1. /\ queue \in Seq(Event) /\ length \in 0..MaxLength /\ flushed \in 0..MaxLength
      /\ Covers(queue, flushed, length)
  BY DEF IInv, Types
<1>2. /\ status = "open" /\ text' = text /\ length' = length
      /\ ScanIfNeeded(length, "finished" = "finished") /\ Release(queue, length, "finished")
  BY DEF Finish
<1>3. length \in length..MaxLength /\ length \in Int
  BY <1>1
<1> QED BY <1>1, <1>2, <1>3 DEF Move

(* A step writes from flushed on, and replaces there what the decision     *)
(* covers; a block writes nothing.                                         *)
LEMMA MoveWrites ==
  ASSUME IInv, NEW to, NEW q, NEW after, NEW boundary, Move(to, q, after, boundary)
  PROVE  /\ flushed' \in flushed..to
         /\ \/ /\ status' = "blocked" /\ flushed' = flushed /\ redacted' = redacted
            \/ /\ status' = after
               /\ redacted' = redacted \cup (Covered(decision') \cap (flushed .. (flushed' - 1)))
               /\ after = "finished" => flushed' = to /\ ~Blocks(decision', to)
<1> USE Numbers
<1>1. /\ to \in 0..MaxLength /\ flushed \in 0..MaxLength /\ redacted \subseteq 0..MaxLength
      /\ q \in Seq(Event) /\ Covers(q, flushed, to) /\ boundary \in Int
      /\ Release(q, boundary, after)
      /\ after = "finished" => boundary = to
  BY DEF Move, IInv, Types
<1>2. CASE Blocks(decision', boundary)
  <2>1. status' = "blocked" /\ flushed' = flushed /\ redacted' = redacted
    BY <1>1, <1>2 DEF Release
  <2>2. flushed <= to
    BY <1>1 DEF Covers
  <2> QED BY <1>1, <2>1, <2>2
<1>3. CASE ~Blocks(decision', boundary)
  <2>1. status' = after /\ Flush(q, boundary)
    BY <1>1, <1>3 DEF Release
  <2>2. flushed' \in flushed..to
    BY <1>1, <2>1, FlushFacts
  <2>3. PICK k \in 0..Len(q) : IsFlushable(q, k, boundary) /\ Emit(q, k)
    BY <2>1 DEF Flush
  <2>4. /\ flushed' = IF k = 0 THEN flushed ELSE q[k].end
        /\ redacted' = redacted \cup (Covered(decision') \cap (flushed .. (flushed' - 1)))
    BY <2>3 DEF Emit
  <2>5. ASSUME after = "finished" PROVE flushed' = to
    <3>1. DOMAIN q = 1..Len(q) /\ \A i \in 1..Len(q) : q[i].end \in Int
      BY <1>1, EventsOf
    <3>0. Len(q) \in Nat /\ to \in Int
      BY <1>1, EventsOf
    <3>2. k = Len(q)
      <4> SUFFICES ASSUME k # Len(q) PROVE FALSE
        OBVIOUS
      <4>0. Len(q) \in Nat /\ k \in Nat /\ k <= Len(q)
        BY <2>3, <3>0
      <4>1. k + 1 \in 1..Len(q) /\ k < Len(q)
        BY <4>0
      <4>2. q[k + 1].end > to
        BY <1>1, <2>3, <2>5, <4>1 DEF IsFlushable
      <4>3. q[k + 1].end <= to
        BY <1>1, <3>1, <4>1 DEF Covers
      <4>4. q[k + 1].end \in Int /\ to \in Int
        BY <3>0, <3>1, <4>1
      <4> QED BY <4>2, <4>3, <4>4
    <3>3. to = IF q = <<>> THEN flushed ELSE q[Len(q)].end
      BY <1>1 DEF Covers
    <3>4. q = <<>> <=> Len(q) = 0
      BY <1>1, EmptySeq
    <3> QED BY <2>4, <3>2, <3>3, <3>4
  <2> QED BY <1>1, <1>3, <2>1, <2>2, <2>4, <2>5
<1> QED BY <1>2, <1>3

(* The scan of a step: none, or one whose verdict is kept unless it allows. *)
LEMMA MoveScans ==
  ASSUME IInv, NEW to, NEW q, NEW after, NEW boundary, Move(to, q, after, boundary)
  PROVE  /\ lastScan \in -1..to /\ to \in Nat
         /\ \/ lastScan' = lastScan /\ decision' = decision
            \/ /\ lastScan' = to
               /\ decision' = IF Judged(flushed, to).action = "allow" THEN decision ELSE Judged(flushed, to)
         /\ (after = "finished" /\ to # flushed)
              => decision' = IF Judged(flushed, to).action = "allow" THEN decision ELSE Judged(flushed, to)
<1> USE Numbers
<1>1. lastScan \in -1..to /\ to \in Nat
  BY DEF Move, IInv, Types
<1>2. ScanIfNeeded(to, after = "finished")
  BY DEF Move
<1>3. CASE ScanNotNeeded(to, after = "finished")
  BY <1>1, <1>2, <1>3 DEF ScanIfNeeded, ScanNotNeeded
<1>4. CASE ~ScanNotNeeded(to, after = "finished")
  BY <1>1, <1>2, <1>4 DEF ScanIfNeeded, Scan, Judged
<1> QED BY <1>3, <1>4


(* A window that ends later shows the rules no less. *)
LEMMA MoreIsClaimed ==
  ASSUME text \in Texts, NEW lo \in Int, NEW hi \in Int, NEW later \in Int, hi <= later,
         NEW action, Claimed(Visible(lo, hi), action) # {}
  PROVE  Claimed(Visible(lo, later), action) # {}
<1>1. PICK f : f \in Claimed(Visible(lo, hi), action)
  OBVIOUS
<1>2. PICK j \in DOMAIN Rules : /\ Applies(Rules[j], "stream", Tenant)
                                /\ Rules[j].action = action
                                /\ f \in Matching(Rules[j], Visible(lo, hi))
  BY <1>1, ClaimedByRules DEF Claimed
<1>3. f \in Visible(lo, later)
  <2>1. f \in Visible(lo, hi)
    BY <1>2 DEF Matching
  <2>2. f \in Finding /\ f \in text /\ lo <= f.start /\ f.end <= hi
    BY <2>1, VisibleType
  <2>3. f.end \in Int
    BY <2>2 DEF Finding
  <2> QED BY <2>2, <2>3 DEF Visible
<1>4. f \in Matching(Rules[j], Visible(lo, later))
  BY <1>2, <1>3 DEF Matching
<1>5. f \in Claimed(Visible(lo, later), action)
  BY <1>2, <1>4, ClaimedByRules DEF Claimed
<1> QED BY <1>5

(* Something to redact in the window makes a verdict that is kept. *)
LEMMA RedactIsKept ==
  ASSUME text \in Texts, NoJudgement, NEW lo \in Int, NEW hi,
         Claimed(Visible(lo, hi), "redact") # {}
  PROVE  Judged(lo, hi).action # "allow"
<1>1. PICK f : f \in Claimed(Visible(lo, hi), "redact")
  OBVIOUS
<1>2. Shifted(f, lo) \in Claimed(Reports(lo, hi), "redact")
  BY <1>1, ReportsClaimed
<1> QED BY <1>2, RedactHits

(* Something to block in the window blocks once all of it may be written. *)
LEMMA BlockTakesEffect ==
  ASSUME text \in Texts, NoJudgement, flushed \in Nat, NEW hi \in Int,
         Claimed(Visible(flushed, hi), "block") # {}
  PROVE  Judged(flushed, hi).action # "allow" /\ Blocks(Judged(flushed, hi), hi)
<1>1. PICK f : f \in Claimed(Visible(flushed, hi), "block")
  OBVIOUS
<1>2. Shifted(f, flushed) \in Claimed(Reports(flushed, hi), "block")
  BY <1>1, ReportsClaimed
<1>3. Judged(flushed, hi).action = "block"
  BY <1>2, RedactHits
<1>4. Judged(flushed, hi).findings = Reports(flushed, hi)
  BY <1>2, ClaimedHit, BlockHitReportsAll DEF Judged
<1>5. f \in Visible(flushed, hi)
  BY <1>1 DEF Claimed, ClaimedBy, Match, Matching
<1>6. f \in Finding /\ flushed <= f.start /\ f.end <= hi
  BY <1>5, VisibleType
<1>7. Shifted(f, flushed).start >= 0 /\ flushed + Shifted(f, flushed).end <= hi
  <2>1. f.start \in Int /\ f.end \in Int /\ flushed \in Int
    BY <1>6 DEF Finding
  <2>2. Shifted(f, flushed).start = f.start - flushed /\ Shifted(f, flushed).end = f.end - flushed
    BY <1>6, ShiftedFields
  <2> QED BY <1>6, <2>1, <2>2
<1>8. Shifted(f, flushed) \in Judged(flushed, hi).findings
  BY <1>4, <1>5, ReportsShifted
<1> QED BY <1>3, <1>7, <1>8 DEF Blocks

-----------------------------------------------------------------------------

LEMMA FurtherOn ==
  ASSUME NEW w \in Nat, NEW w2 \in Nat, w <= w2
  PROVE  /\ \A x \in 0..(w - 1) : x \in 0..(w2 - 1)
         /\ \A x \in w..(w2 - 1) : x \in 0..(w2 - 1)
OBVIOUS

LEMMA MoveExact ==
  ASSUME Exactness, NEW to, NEW q, NEW after, NEW boundary, Move(to, q, after, boundary)
  PROVE  Written' /\ Earlier'
<1>0. IInv
  BY DEF Exactness
<1>1. /\ flushed \in Nat /\ to \in Nat /\ flushed' \in flushed..to /\ text \in Texts
      /\ lastScan \in -1..to /\ text' = text
  <2>1. flushed' \in flushed..to
    BY <1>0, MoveWrites
  <2>2. lastScan \in -1..to /\ to \in Nat
    BY <1>0, MoveScans
  <2>3. flushed \in Nat /\ text \in Texts /\ text' = text
    BY <1>0, Numbers DEF IInv, Types, Move
  <2> QED BY <2>1, <2>2, <2>3
<1>2. Written'
  <2>1. redacted' = redacted \/ redacted' = redacted \cup (Covered(decision') \cap (flushed .. (flushed' - 1)))
    BY MoveWrites DEF Exactness
  <2>2. redacted \subseteq 0..(flushed - 1)
    BY DEF Exactness, Written
  <2>3. /\ \A x \in 0..(flushed - 1) : x \in 0..(flushed' - 1)
        /\ \A x \in flushed..(flushed' - 1) : x \in 0..(flushed' - 1)
    <3>1. flushed \in Nat /\ flushed' \in Nat /\ flushed <= flushed'
      BY <1>1
    <3> QED BY <3>1, FurtherOn
  <2>4. redacted' \subseteq 0..(flushed' - 1)
    BY <2>1, <2>2, <2>3
  <2> QED BY <2>4 DEF Written
<1>3. ASSUME NoJudgement, flushed' = 0, ClaimedBy(decision'.hits, "redact") # {}
      PROVE  Claimed(Visible(0, lastScan'), "redact") # {}
  <2>1. flushed = 0
    BY <1>1, <1>3
  <2>2. CASE lastScan' = lastScan /\ decision' = decision
    BY <1>3, <2>1, <2>2 DEF Exactness, Earlier
  <2>3. CASE lastScan' = to /\ decision' = decision
    <3>1. Claimed(Visible(0, lastScan), "redact") # {}
      BY <1>3, <2>1, <2>3 DEF Exactness, Earlier
    <3>2. Claimed(Visible(0, to), "redact") # {}
      BY <1>1, <3>1, MoreIsClaimed
    <3> QED BY <2>3, <3>2
  <2>4. CASE lastScan' = to /\ decision' = Judged(flushed, to)
    <3>1. PICK x : x \in Claimed(Reports(0, to), "redact")
      BY <1>3, <2>1, <2>4, RedactHits
    <3>2. Claimed(Visible(0, to), "redact") # {}
      BY <1>1, <1>3, <3>1, ReportsClaimed
    <3> QED BY <2>4, <3>2
  <2> QED BY <2>2, <2>3, <2>4, MoveScans DEF Exactness
<1>4. NoJudgement' <=> NoJudgement
  BY <1>1 DEF NoJudgement
<1>5. Claimed(Visible(0, lastScan), "redact")' = Claimed(Visible(0, lastScan'), "redact")
  BY <1>1 DEF Claimed, Visible
<1> QED BY <1>2, <1>3, <1>4, <1>5 DEF Earlier

LEMMA InitExactness == Init => Exactness
<1> SUFFICES ASSUME Init PROVE Exactness
  OBVIOUS
<1>1. IInv
  BY InitIInv
<1>2. Written
  BY DEF Init, Written
<1>3. Earlier
  BY DEF Init, Allow, ClaimedBy, Earlier
<1> QED BY <1>1, <1>2, <1>3 DEF Exactness

LEMMA NextExactness == Exactness /\ [Next]_vars => Exactness'
<1> SUFFICES ASSUME Exactness, [Next]_vars PROVE Exactness'
  OBVIOUS
<1>1. IInv'
  BY NextIInv DEF Exactness
<1>2. CASE Inspect
  BY <1>1, <1>2, InspectMoves, MoveExact DEF Exactness
<1>3. CASE Finish
  BY <1>1, <1>3, FinishMoves, MoveExact DEF Exactness
<1>4. CASE Fail \/ UNCHANGED vars
  <2>1. UNCHANGED <<text, flushed, lastScan, decision, redacted>>
    BY <1>4 DEF Fail, vars
  <2>2. Written'
    BY <2>1 DEF Exactness, Written
  <2>3. Earlier'
    BY <2>1 DEF Exactness, Earlier, NoJudgement, Claimed, Visible
  <2> QED BY <1>1, <2>2, <2>3 DEF Exactness
<1> QED BY <1>2, <1>3, <1>4 DEF Next

LEMMA ExactnessInvariance == Spec => []Exactness
BY InitExactness, NextExactness, PTL DEF Spec

(* A step that scans and finds something to redact redacts exactly that in *)
(* what it writes.                                                         *)
LEMMA MoveFresh ==
  ASSUME Exactness, NoJudgement,
         NEW to, NEW q, NEW after, NEW boundary, Move(to, q, after, boundary),
         lastScan' # lastScan, Claimed(Visible(flushed, to), "redact") # {}
  PROVE  redacted' \ redacted = Spanned(Visible(flushed, to), "redact") \cap (flushed .. (flushed' - 1))
<1>0. IInv
  BY DEF Exactness
<1>1. /\ flushed \in Nat /\ to \in Nat /\ flushed' \in flushed..to /\ text \in Texts
  <2>1. flushed' \in flushed..to
    BY <1>0, MoveWrites
  <2>2. to \in Nat
    BY <1>0, MoveScans
  <2>3. flushed \in Nat /\ text \in Texts
    BY <1>0, Numbers DEF IInv, Types
  <2> QED BY <2>1, <2>2, <2>3
<1>2. decision' = Judged(flushed, to)
  BY <1>1, MoveScans, RedactIsKept DEF Exactness
<1>3. Covered(decision') = Spanned(Visible(flushed, to), "redact")
  BY <1>1, <1>2, FreshCovers
<1>4. redacted \subseteq 0..(flushed - 1)
  BY DEF Exactness, Written
<1>5. CASE flushed' = flushed /\ redacted' = redacted
  <2>1. flushed .. (flushed' - 1) = {}
    BY <1>1, <1>5
  <2> QED BY <1>5, <2>1
<1>6. CASE redacted' = redacted \cup (Covered(decision') \cap (flushed .. (flushed' - 1)))
  <2>1. \A x \in redacted : x < flushed /\ x \in Int
    BY <1>1, <1>4
  <2>2. \A x \in flushed .. (flushed' - 1) : flushed <= x
    BY <1>1
  <2>3. \A x : ~(x \in redacted /\ x \in flushed .. (flushed' - 1))
    BY <1>1, <2>1, <2>2
  <2> QED BY <1>3, <1>6, <2>3
<1> QED BY <1>5, <1>6, MoveWrites DEF Exactness

(* The offsets of a fresh decision are those of the window that is written *)
(* in the same step: what a scan finds to redact is redacted, and no more. *)
THEOREM FreshRedaction == Spec => FreshRedactionExact
<1> DEFINE Fresh ==
      LET found == Claimed(Visible(flushed, length'), "redact")
      IN  (NoJudgement /\ lastScan' # lastScan /\ found # {})
            => redacted' \ redacted
                 = (UNION {Span(f) : f \in found}) \cap (flushed .. (flushed' - 1))
<1>1. Exactness /\ [Next]_vars => [Fresh]_vars
  <2> SUFFICES ASSUME Exactness, Next, NoJudgement, lastScan' # lastScan,
                      Claimed(Visible(flushed, length'), "redact") # {}
               PROVE  redacted' \ redacted
                        = Spanned(Visible(flushed, length'), "redact") \cap (flushed .. (flushed' - 1))
    BY DEF Spanned
  <2>1. CASE Inspect
    <3>1. PICK to, q, boundary : Move(to, q, "open", boundary)
      BY <2>1, InspectMoves DEF Exactness
    <3>2. length' = to
      BY <3>1 DEF Move
    <3> QED BY <3>1, <3>2, MoveFresh
  <2>2. CASE Finish
    <3>1. Move(length, queue, "finished", length)
      BY <2>2, FinishMoves DEF Exactness
    <3>2. length' = length
      BY <3>1 DEF Move
    <3> QED BY <3>1, <3>2, MoveFresh
  <2>3. ~Fail
    BY DEF Fail
  <2> QED BY <2>1, <2>2, <2>3 DEF Next
<1> QED
  BY ExactnessInvariance, <1>1, PTL DEF Spec, FreshRedactionExact

(* The last step of a stream of which nothing was written before. *)
LEMMA MoveHeld ==
  ASSUME Exactness, NoJudgement, flushed = 0,
         Move(length, queue, "finished", length), status' = "finished"
  PROVE  /\ Claimed(Visible(0, length), "block") = {}
         /\ redacted' = Spanned(Visible(0, length), "redact")
<1>1. /\ length \in Nat /\ text \in Texts /\ lastScan \in -1..length
  BY MoveScans DEF Exactness, IInv, Types
<1>2. /\ flushed' = length /\ ~Blocks(decision', length)
      /\ redacted' = redacted \cup (Covered(decision') \cap (0 .. (length - 1)))
  BY MoveWrites DEF Exactness
<1>3. redacted = {}
  <2>1. redacted \subseteq 0..(0 - 1)
    BY DEF Exactness, Written
  <2> QED BY <2>1
<1>4. CASE length = 0
  <2>1. Visible(0, length) = {}
    <3> SUFFICES ASSUME NEW f \in Visible(0, length) PROVE FALSE
      OBVIOUS
    <3>1. f \in Finding /\ f.start < f.end /\ f.end <= 0
      BY <1>1, <1>4, VisibleType
    <3> QED BY <3>1 DEF Finding
  <2>2. \A action : Claimed(Visible(0, length), action) = {}
    BY <2>1 DEF Claimed, ClaimedBy, Match, Matching
  <2>3. redacted' = {}
    BY <1>2, <1>3, <1>4
  <2> QED BY <2>2, <2>3 DEF Spanned
<1>5. CASE length # 0
  <2>1. decision' = IF Judged(0, length).action = "allow" THEN decision ELSE Judged(0, length)
    BY <1>5, MoveScans DEF Exactness
  <2>2. Claimed(Visible(0, length), "block") = {}
    BY <1>1, <1>2, <2>1, BlockTakesEffect
  <2>3. Covered(decision') = Spanned(Visible(0, length), "redact")
    <3>1. CASE Judged(0, length).action # "allow"
      BY <1>1, <2>1, <3>1, FreshCovers
    <3>2. CASE Judged(0, length).action = "allow"
      <4>1. Claimed(Visible(0, length), "redact") = {}
        BY <1>1, <3>2, RedactIsKept
      <4>2. Claimed(Visible(0, lastScan), "redact") = {}
        BY <1>1, <4>1, MoreIsClaimed
      <4>3. ClaimedBy(decision.hits, "redact") = {}
        BY <4>2 DEF Exactness, Earlier
      <4>4. Covered(decision') = {}
        BY <2>1, <3>2, <4>3 DEF Covered
      <4> QED BY <4>1, <4>4 DEF Spanned
    <3> QED BY <3>1, <3>2
  <2>4. Spanned(Visible(0, length), "redact") \subseteq 0 .. (length - 1)
    <3> SUFFICES ASSUME NEW f \in Claimed(Visible(0, length), "redact")
                 PROVE  Span(f) \subseteq 0 .. (length - 1)
      BY DEF Spanned
    <3>1. f \in Visible(0, length)
      BY DEF Claimed, ClaimedBy, Match, Matching
    <3>2. f \in Finding /\ f.end <= length
      BY <1>1, <3>1, VisibleType
    <3> QED BY <1>1, <3>2 DEF Finding, Span
  <2> QED BY <1>2, <1>3, <2>2, <2>3, <2>4
<1> QED BY <1>4, <1>5

(* A response that is held to its end is released as the policy says. *)
THEOREM HeldResponseExact == Spec => ExactWhenHeld
<1> DEFINE Exact ==
      (NoJudgement /\ flushed = 0 /\ status' = "finished")
        => /\ Claimed(Visible(0, length), "block") = {}
           /\ redacted' = UNION {Span(f) : f \in Claimed(Visible(0, length), "redact")}
<1>1. Exactness /\ [Next]_vars => [Exact]_vars
  <2> SUFFICES ASSUME Exactness, Next, NoJudgement, flushed = 0, status' = "finished"
               PROVE  /\ Claimed(Visible(0, length), "block") = {}
                      /\ redacted' = Spanned(Visible(0, length), "redact")
    BY DEF Spanned
  <2>1. ASSUME Inspect PROVE FALSE
    BY <2>1 DEF Inspect, Release
  <2>2. ASSUME Fail PROVE FALSE
    BY <2>2 DEF Fail
  <2>3. Move(length, queue, "finished", length)
    BY <2>1, <2>2, FinishMoves DEF Next, Exactness
  <2> QED BY <2>3, MoveHeld
<1> QED
  BY ExactnessInvariance, <1>1, PTL DEF Spec, ExactWhenHeld
=============================================================================
