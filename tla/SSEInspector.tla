---------------------------- MODULE SSEInspector ----------------------------
(***************************************************************************)
(* The stream inspector (proxy/sse.py, class SSEStreamInspector): it       *)
(* reassembles the text of a server-sent-event stream, holds back the last *)
(* Lookahead characters, scans what it holds, and lets events go once they *)
(* lie far enough behind the head of the stream, redacted or not.          *)
(*                                                                         *)
(* A character is its absolute position in the stream.  The text is known  *)
(* by the findings a detector would report on the whole of it: a regex     *)
(* detector reports a finding as soon as all of its characters are in the  *)
(* scanned window, a judge reports the whole window once it holds the      *)
(* finding (detect/judge.py reports start 0 and end len(text)).  An event  *)
(* is the stretch of text its delta adds, empty for an event without text  *)
(* ([DONE], a comment, a delta of no characters).  The bytes around the    *)
(* text (field names, delimiters, JSON) are left out.                      *)
(***************************************************************************)
EXTENDS PolicyEngine, FiniteSets

CONSTANTS
  Lookahead,   \* characters held back, max(64, max_sse_buffered_bytes \div 4)
  ScanStep,    \* new characters that cause a scan: 32
  MaxDelta,    \* longest delta an upstream sends
  MaxChunk,    \* most events completed by one chunk
  MaxLength,   \* longest response text
  MaxEvents,   \* most events held: bounds the runs of events without text
  Texts,       \* the response texts, each a set of findings on all of it
  Judges,      \* the detectors that are LLM judges
  Rules,       \* the decisions of the route's policy
  Tenant,
  FailMode

Finding ==
  [detector : STRING, severity : 0..4, confidence : Int, start : Nat, end : Nat]

(* No pattern matches the empty text, and no judge is asked about it. *)
ASSUME InspectorAssumption ==
  /\ Lookahead \in Nat \ {0}
  /\ ScanStep \in Nat \ {0}
  /\ ScanStep <= Lookahead + 1
  /\ MaxDelta \in Nat \ {0}
  /\ MaxChunk \in Nat
  /\ MaxLength \in Nat
  /\ MaxEvents \in Nat
  /\ FailMode \in FailModes
  /\ \A t \in Texts : \A f \in t : f \in Finding /\ f.start < f.end

VARIABLES
  text,      \* the findings on the response the upstream is sending
  length,    \* content_length: characters received
  flushed,   \* _flushed_abs: characters already written to the client
  queue,     \* _events: the events held, oldest first, with start and end
  lastScan,  \* _last_scan_abs: content_length at the last scan
  decision,  \* _decision; Allow stands for None
  status,    \* "open", "finished", "blocked" (SSEBlocked) or "failed"
  reported,  \* history: the findings of the text some scan reported
  redacted   \* history: the characters replaced in what the client got

vars == <<text, length, flushed, queue, lastScan, decision, status, reported, redacted>>

Span(f) == f.start .. (f.end - 1)

-----------------------------------------------------------------------------

(* A chunk completes a few events; a chunk is given by where each of its   *)
(* events ends.  None at all when it only carries a part of one event.     *)
Start(from, c, i) == IF i = 1 THEN from ELSE c[i - 1]

Chunks(from) ==
  {c \in UNION {[1..n -> from..MaxLength] : n \in 0..MaxChunk} :
     /\ \A i, j \in DOMAIN c : i <= j => c[i] <= c[j]
     /\ \A i \in DOMAIN c : c[i] <= Start(from, c, i) + MaxDelta}

(* The events of a chunk, each starting where the one before it ends. *)
Parsed(from, c) ==
  [i \in DOMAIN c |-> [start |-> Start(from, c, i), end |-> c[i]]]

NewLength(from, c) == IF c = <<>> THEN from ELSE c[Len(c)]

(* The text findings that lie in the window from lo to hi. *)
Visible(lo, hi) == {f \in text : lo <= f.start /\ f.end <= hi}

(* The findings a scan of the window reports, relative to the window. *)
Reports(lo, hi) ==
  {[f EXCEPT !.start = IF f.detector \in Judges THEN 0 ELSE f.start - lo,
             !.end   = IF f.detector \in Judges THEN hi - lo ELSE f.end - lo] :
     f \in Visible(lo, hi)}

(* Mutant: the position of the scan counted as if the window were new text. *)
ScanMovesByWindow(to) ==
  LET verdict == Evaluate(Rules, "stream", Reports(flushed, to), Tenant, FailMode)
  IN  /\ lastScan' = lastScan + (to - flushed)
      /\ decision' = IF verdict.action = "allow" THEN decision ELSE verdict
      /\ reported' = reported \cup Visible(flushed, to)

(* Mutant: only the text since the last scan is scanned, without overlap. *)
ScanNewTextOnly(to) ==
  LET from    == IF lastScan > flushed THEN lastScan ELSE flushed
      verdict == Evaluate(Rules, "stream", Reports(from, to), Tenant, FailMode)
  IN  /\ lastScan' = to
      /\ decision' = IF verdict.action = "allow" THEN decision ELSE verdict
      /\ reported' = reported \cup Visible(from, to)

(* The scan of what is held.  A verdict of allow leaves the decision of an *)
(* earlier scan in place.                                                  *)
Scan(to) ==
  LET verdict == Evaluate(Rules, "stream", Reports(flushed, to), Tenant, FailMode)
  IN  /\ lastScan' = to
      /\ decision' = IF verdict.action = "allow" THEN decision ELSE verdict
      /\ reported' = reported \cup Visible(flushed, to)

(* Mutant: the step between scans is twice as long. *)
ScanNotNeededTwiceAsLong(to, force) ==
  \/ to = flushed
  \/ ~force /\ to - lastScan < 2 * ScanStep

(* Nothing held, or too little new text since the last scan. *)
ScanNotNeeded(to, force) ==
  \/ to = flushed
  \/ ~force /\ to - lastScan < ScanStep

ScanIfNeeded(to, force) ==
  IF ScanNotNeeded(to, force)
    THEN UNCHANGED <<lastScan, decision, reported>>
    ELSE Scan(to)

-----------------------------------------------------------------------------

(* A pending block takes effect once one of its findings ends at or before *)
(* the candidate position; offsets are taken from the present _flushed_abs. *)
Blocks(d, candidate) ==
  /\ d.action = "block"
  /\ \E f \in d.findings : f.start >= 0 /\ flushed + f.end <= candidate

(* Mutant: an event that ends at the boundary is held. *)
IsFlushableBelow(q, k, boundary) ==
  /\ \A i \in 1..k : q[i].end < boundary
  /\ k < Len(q) => q[k + 1].end >= boundary

(* The longest run of events at the front of q that end by the boundary. *)
IsFlushable(q, k, boundary) ==
  /\ \A i \in 1..k : q[i].end <= boundary
  /\ k < Len(q) => q[k + 1].end > boundary

(* Mutant: the offsets of the findings taken as offsets of the stream. *)
CoveredNotMoved(d) ==
  UNION {f.start .. (f.end - 1) : f \in ClaimedBy(d.hits, "redact")}

(* The held characters that the redact hits cover, by offsets taken from   *)
(* the present _flushed_abs.                                               *)
Covered(d) ==
  UNION {(flushed + f.start) .. (flushed + f.end - 1) : f \in ClaimedBy(d.hits, "redact")}

(* Mutant: one event too many is taken from the deque. *)
EmitDropsOne(q, k) ==
  LET to == IF k = 0 THEN flushed ELSE q[k].end
  IN  /\ queue' = SubSeq(q, k + 2, Len(q))
      /\ flushed' = to
      /\ redacted' = redacted \cup (Covered(decision') \cap (flushed .. (to - 1)))

(* Writing the first k events of q.  An event without text ends where its  *)
(* predecessor ends, so the last one written tells what has been flushed.  *)
Emit(q, k) ==
  LET to == IF k = 0 THEN flushed ELSE q[k].end
  IN  /\ queue' = SubSeq(q, k + 1, Len(q))
      /\ flushed' = to
      /\ redacted' = redacted \cup (Covered(decision') \cap (flushed .. (to - 1)))

Flush(q, boundary) ==
  \E k \in 0..Len(q) : IsFlushable(q, k, boundary) /\ Emit(q, k)

(* What follows the scan: the block, or else the flush. *)
Release(q, boundary, after) ==
  IF Blocks(decision', boundary)
    THEN /\ status' = "blocked"
         /\ queue' = q
         /\ UNCHANGED <<flushed, redacted>>
    ELSE /\ status' = after
         /\ Flush(q, boundary)

-----------------------------------------------------------------------------

Init ==
  /\ text \in Texts
  /\ length = 0
  /\ flushed = 0
  /\ queue = <<>>
  /\ lastScan = -1
  /\ decision = Allow
  /\ status = "open"
  /\ reported = {}
  /\ redacted = {}

(* inspect(chunk): append the events, scan, block or flush. *)
Inspect ==
  /\ status = "open"
  /\ \E c \in Chunks(length) :
       /\ Len(queue) + Len(c) <= MaxEvents
       /\ length' = NewLength(length, c)
       /\ ScanIfNeeded(NewLength(length, c), FALSE)
       /\ Release(queue \o Parsed(length, c), NewLength(length, c) - Lookahead, "open")
  /\ UNCHANGED text

(* Mutant: the last scan is not forced. *)
FinishUnforced ==
  /\ status = "open"
  /\ ScanIfNeeded(length, FALSE)
  /\ Release(queue, length, "finished")
  /\ UNCHANGED <<text, length>>

(* finish(): an incomplete last event is dropped, what is held is scanned  *)
(* and all of it is blocked or flushed.                                    *)
Finish ==
  /\ status = "open"
  /\ ScanIfNeeded(length, TRUE)
  /\ Release(queue, length, "finished")
  /\ UNCHANGED <<text, length>>

(* An event whose payload is not an object, or a judge that does not       *)
(* answer: the exception leaves the inspector, nothing more is written.    *)
Fail ==
  /\ status = "open"
  /\ status' = "failed"
  /\ UNCHANGED <<text, length, flushed, queue, lastScan, decision, reported, redacted>>

Next == Inspect \/ Finish \/ Fail

Spec == Init /\ [][Next]_vars

-----------------------------------------------------------------------------
(* Properties *)

(* The types of the inspector's state. *)
TypeOK ==
  /\ length \in 0..MaxLength
  /\ flushed \in 0..MaxLength
  /\ lastScan \in -1..MaxLength
  /\ queue \in Seq([start : 0..MaxLength, end : 0..MaxLength])
  /\ decision.action \in Actions
  /\ status \in {"open", "finished", "blocked", "failed"}
  /\ redacted \subseteq 0..MaxLength

(* The events held are exactly the text that has been received and not     *)
(* written: no character is lost, written twice or out of order when the   *)
(* deque is drained in part and the offsets are moved.                     *)
QueueCoversHeldText ==
  /\ flushed <= length
  /\ \A i \in DOMAIN queue :
       /\ queue[i].start <= queue[i].end
       /\ queue[i].start = IF i = 1 THEN flushed ELSE queue[i - 1].end
  /\ length = IF queue = <<>> THEN flushed ELSE queue[Len(queue)].end

(* No character reaches the client before a scan has seen it, although a   *)
(* chunk that brings little text is flushed without a scan.                *)
NothingUnscanned == flushed > 0 => flushed <= lastScan

(* The inspector never holds more than the lookahead and one delta, in     *)
(* whatever sizes the upstream cuts the stream.                            *)
HeldTextBounded == status = "open" => length - flushed < Lookahead + MaxDelta

(* A finding no wider than Lookahead - ScanStep + 1 is reported by a scan  *)
(* before its first character is written, wherever the events are cut and  *)
(* however the scans fall.                                                 *)
DetectedBeforeFlush ==
  \A f \in text :
    (f.end - f.start <= Lookahead - ScanStep + 1 /\ f.end <= length /\ f.start < flushed)
      => f \in reported

(* The findings on the text that the rules redact, or that they block. *)
Claimed(fs, action) == ClaimedBy(Match(Rules, "stream", fs, Tenant), action)

(* A judge reports the whole window: offsets are exact only without one. *)
NoJudgement == \A f \in text : f.detector \notin Judges

(* A step that scans and finds something to redact redacts exactly that in *)
(* what it writes: the offsets of a fresh decision are those of the window. *)
FreshRedactionExact ==
  [][LET found == Claimed(Visible(flushed, length'), "redact")
     IN  (NoJudgement /\ lastScan' # lastScan /\ found # {})
           => redacted' \ redacted
                 = (UNION {Span(f) : f \in found}) \cap (flushed .. (flushed' - 1))
    ]_vars

(* A response that was held to its end is released exactly as the policy   *)
(* says: nothing the rules block, all that the rules redact, no more.      *)
ExactWhenHeld ==
  [][(NoJudgement /\ flushed = 0 /\ status' = "finished")
       => /\ Claimed(Visible(0, length), "block") = {}
          /\ redacted' = UNION {Span(f) : f \in Claimed(Visible(0, length), "redact")}
    ]_vars

-----------------------------------------------------------------------------
(* What the documents say and the code does not do *)

(* docs/policy.md: a blocked finding is stopped "before any harmful token  *)
(* is flushed to the client".                                              *)
BlockBeforeFlush ==
  \A f \in Claimed(reported, "block") : flushed <= f.start
=============================================================================
