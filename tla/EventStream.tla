---------------------------- MODULE EventStream -----------------------------
(***************************************************************************)
(* The bytes around the text of a stream (proxy/sse.py): how chunks are    *)
(* cut into events (_consume_events, _parse_event), and how the events are *)
(* written again, as they came or rewritten (_emit_event,                  *)
(* _replace_data_line), with what a block appends (gateway.py).            *)
(*                                                                         *)
(* A byte string is a sequence of carriage returns, line feeds and tokens, *)
(* a token being the bytes of one field with its name; only line breaks    *)
(* are looked at byte by byte.  Which events are flushed, redacted or      *)
(* blocked is free here: SSEInspector decides it.                          *)
(***************************************************************************)
EXTENDS Integers, SequencesExt

CONSTANTS
  Payloads,  \* tokens: data fields whose JSON has a delta
  Masked,    \* the token that each payload is rewritten to
  Streams    \* the byte strings an upstream may send

Cr == "cr"
Lf == "lf"
Breaks == {Cr, Lf}

(* Two data fields that are one payload when joined by a line feed. *)
Opening == "opening"
Closing == "closing"

Done == "done"       \* data: [DONE]
Note == "note"       \* a comment, or a field other than data
Notice == "notice"   \* the error that tells the client of a block

DataTokens ==
  Payloads \cup {Masked[p] : p \in Payloads} \cup {Opening, Closing, Done, Notice}

(* What an upstream sends. *)
Bytes == Breaks \cup Payloads \cup {Opening, Closing, Done, Note}

ASSUME EventStreamAssumption ==
  /\ (Breaks \cup {Opening, Closing}) \cap Payloads = {}
  /\ DOMAIN Masked = Payloads \cup {Opening}
  /\ \A p \in DOMAIN Masked : Masked[p] \notin Bytes \cup {Notice}
  /\ \A p, q \in DOMAIN Masked : Masked[p] = Masked[q] => p = q
  /\ Streams \subseteq Seq(Bytes)

VARIABLES
  stream,    \* what the upstream sends
  received,  \* how much of it has arrived
  buffer,    \* _buffer
  parsed,    \* history: all events that were cut off
  held,      \* _events, each by its raw bytes
  out,       \* history: what was written to the client
  ended      \* "no", "finished" or "blocked"

vars == <<stream, received, buffer, parsed, held, out, ended>>

-----------------------------------------------------------------------------
(* Cutting *)

(* buffer.find(): where sep first begins, 0 when it does not occur. *)
Find(s, sep) ==
  LET hits == {i \in 1..Len(s) : IsPrefix(sep, SubSeq(s, i, Len(s)))}
  IN  IF hits = {} THEN 0 ELSE CHOOSE i \in hits : \A j \in hits : i <= j

CrLfTwice == <<Cr, Lf, Cr, Lf>>
LfTwice == <<Lf, Lf>>

(* Mutant: the longer separator is preferred wherever it is. *)
BoundaryCrFirst(s) ==
  IF Find(s, CrLfTwice) # 0 THEN [at |-> Find(s, CrLfTwice), advance |-> 4]
  ELSE [at |-> Find(s, LfTwice), advance |-> 2]

(* Mutant: only line feeds are looked for. *)
BoundaryLfOnly(s) == [at |-> Find(s, LfTwice), advance |-> 2]

(* The earlier of the two separators. *)
Boundary(s) ==
  LET crlf == Find(s, CrLfTwice)
      lf   == Find(s, LfTwice)
  IN  IF crlf # 0 /\ (lf = 0 \/ crlf <= lf)
        THEN [at |-> crlf, advance |-> 4]
        ELSE [at |-> lf, advance |-> 2]

IsBlank(raw) == \A i \in DOMAIN raw : raw[i] \in Breaks

(* One turn of the loop of _consume_events(): an event is cut off the rest *)
(* of the buffer, and is kept unless it is blank.                          *)
CutOff(c) ==
  LET cut == Boundary(c.rest)
      raw == SubSeq(c.rest, 1, cut.at - 1)
  IN  IF cut.at = 0 THEN c
      ELSE [events |-> IF IsBlank(raw) THEN c.events ELSE Append(c.events, raw),
            rest   |-> SubSeq(c.rest, cut.at + cut.advance, Len(c.rest))]

(* _consume_events(): all complete events, and what is left in the buffer; *)
(* there are fewer events than bytes.                                      *)
Consume(s) ==
  LET loop[n \in 0..Len(s)] ==
        IF n = 0 THEN [events |-> <<>>, rest |-> s] ELSE CutOff(loop[n - 1])
  IN  loop[Len(s)]

(* splitlines(), without the empty lines, which have no field: a line      *)
(* begins behind a break and goes on to the next.                          *)
Lines(s) ==
  LET begins(i) == s[i] \notin Breaks /\ (i = 1 \/ s[i - 1] \in Breaks)
      end(i) == CHOOSE j \in i..Len(s) :
                  /\ \A k \in i..j : s[k] \notin Breaks
                  /\ j = Len(s) \/ s[j + 1] \in Breaks
  IN  FlattenSeq([i \in DOMAIN s |-> IF begins(i) THEN <<SubSeq(s, i, end(i))>> ELSE <<>>])

IsData(line) == line[1] \in DataTokens

DataLines(lines) ==
  FlattenSeq([i \in DOMAIN lines |-> IF IsData(lines[i]) THEN <<lines[i]>> ELSE <<>>])

(* The data fields of an event, to be joined. *)
Data(raw) == DataLines(Lines(raw))

(* json.loads() of the joined fields succeeds and finds a delta. *)
HasDelta(raw) ==
  \/ \E p \in Payloads : Data(raw) = <<<<p>>>>
  \/ Data(raw) = <<<<Opening>>, <<Closing>>>>

-----------------------------------------------------------------------------
(* Writing *)

(* _replace_data_line(): the first data field is replaced by the payload,  *)
(* the other lines stay; what is rewritten ends with a blank line.  (An    *)
(* empty line, which only mixed breaks leave within an event, would stay   *)
(* too and is dropped here.)                                               *)
Rewritten(raw) ==
  LET lines  == Lines(raw)
      first  == CHOOSE i \in DOMAIN lines :
                  IsData(lines[i]) /\ \A j \in 1..(i - 1) : ~IsData(lines[j])
      line(i) == IF i = first THEN <<Masked[lines[i][1]]>> ELSE lines[i]
  IN  FlattenSeq([i \in DOMAIN lines |-> IF i = 1 THEN line(i) ELSE <<Lf>> \o line(i)])
        \o <<Lf, Lf>>

(* _emit_event(): an event that is not redacted is written as it was cut,  *)
(* without the separator.                                                  *)
Emitted(raw, redact) == IF redact /\ HasDelta(raw) THEN Rewritten(raw) ELSE raw

(* _sse_block_events() *)
BlockEvents == <<Notice, Lf, Lf, Done, Lf, Lf>>

-----------------------------------------------------------------------------

Init ==
  /\ stream \in Streams
  /\ received = 0
  /\ buffer = <<>>
  /\ parsed = <<>>
  /\ held = <<>>
  /\ out = <<>>
  /\ ended = "no"

(* Mutant: the last of the flushed events stays in the deque. *)
FlushKeepingLast(events, k) ==
  /\ \E redact \in [1..k -> BOOLEAN] :
       out' = out \o FlattenSeq([i \in 1..k |-> Emitted(events[i], redact[i])])
  /\ held' = SubSeq(events, IF k = 0 THEN 1 ELSE k, Len(events))

(* The first k of the events are written, some of them redacted. *)
Flush(events, k) ==
  /\ \E redact \in [1..k -> BOOLEAN] :
       out' = out \o FlattenSeq([i \in 1..k |-> Emitted(events[i], redact[i])])
  /\ held' = SubSeq(events, k + 1, Len(events))

(* The gateway tells the client of the block and ends the response. *)
Blocked(events) ==
  /\ out' = out \o BlockEvents
  /\ held' = events
  /\ ended' = "blocked"

(* inspect(chunk): any cut of the stream into chunks. *)
Inspect(n) ==
  /\ ended = "no"
  /\ received + n <= Len(stream)
  /\ received' = received + n
  /\ LET cut == Consume(buffer \o SubSeq(stream, received + 1, received + n))
         all == held \o cut.events
     IN  /\ buffer' = cut.rest
         /\ parsed' = parsed \o cut.events
         /\ \/ \E k \in 0..Len(all) : Flush(all, k) /\ UNCHANGED ended
            \/ Blocked(all)
  /\ UNCHANGED stream

(* finish(): what was not completed is dropped, all events are written. *)
Finish ==
  /\ ended = "no"
  /\ received = Len(stream)
  /\ buffer' = <<>>
  /\ \/ Flush(held, Len(held)) /\ ended' = "finished"
     \/ Blocked(held)
  /\ UNCHANGED <<stream, received, parsed>>

Next == Finish \/ \E n \in 1..Len(stream) : Inspect(n)

Spec == Init /\ [][Next]_vars

-----------------------------------------------------------------------------
(* Properties *)

Received == SubSeq(stream, 1, received)

(* However the stream is cut into chunks, in the middle of a separator or  *)
(* of both kinds of it, the events are those of the bytes taken at once:   *)
(* nothing is decided that a later chunk would decide otherwise.           *)
ChunkingIrrelevant ==
  /\ parsed = Consume(Received).events
  /\ ended = "no" => buffer = Consume(Received).rest

(* A client reads lines that end with any of the three breaks, ...         *)
Unified(s) ==
  FlattenSeq([i \in DOMAIN s |->
                IF s[i] # Cr THEN <<s[i]>>
                ELSE IF i < Len(s) /\ s[i + 1] = Lf THEN <<>> ELSE <<Lf>>])

(* ... a blank line ends an event, of which there is nothing to tell when  *)
(* it has no data, ...                                                     *)
Ends(u) == {i \in 2..(Len(u) - 1) : u[i] = Lf /\ u[i + 1] = Lf /\ u[i - 1] # Lf}

Told(data) == IF data = <<>> THEN <<>> ELSE <<data>>

(* ... and the next one begins there. *)
ClientEvents(s) ==
  LET u == Unified(s)
      begin(i) == Max({1} \cup {j \in Ends(u) : j < i})
  IN  FlattenSeq([i \in DOMAIN u |->
                    IF i \in Ends(u) THEN Told(Data(SubSeq(u, begin(i), i))) ELSE <<>>])

(* All line breaks are line feeds, or all are pairs. *)
OneKindOfBreak(s) ==
  \/ \A i \in DOMAIN s : s[i] # Cr
  \/ \A i \in DOMAIN s :
       /\ s[i] = Cr => i < Len(s) /\ s[i + 1] = Lf
       /\ s[i] = Lf => i > 1 /\ s[i - 1] = Cr

(* The inspector cuts a stream with one kind of break into the events, and *)
(* finds in them the data, that a client would: no text is scanned as part *)
(* of another event or not at all.                                         *)
CutsAsClient ==
  OneKindOfBreak(Received) =>
    FlattenSeq([i \in DOMAIN parsed |-> Told(Data(parsed[i]))]) = ClientEvents(Received)

Tokens(s) == FlattenSeq([i \in DOMAIN s |-> IF s[i] \in Breaks THEN <<>> ELSE <<s[i]>>])

(* The payload behind a rewritten one. *)
Original(x) ==
  IF \E p \in DOMAIN Masked : Masked[p] = x THEN CHOOSE p \in DOMAIN Masked : Masked[p] = x ELSE x

Originals(s) == [i \in DOMAIN s |-> Original(s[i])]

(* What was written of the upstream's fields; the two of a block are not.  *)
Written ==
  LET tokens == Originals(Tokens(out))
  IN  SubSeq(tokens, 1, Len(tokens) - (IF ended = "blocked" THEN 2 ELSE 0))

(* No field of the upstream's is lost, repeated or moved between what was  *)
(* written, what is held and what is incomplete, however events are cut,   *)
(* held and rewritten; only the end may drop what was never completed.     *)
FieldsConserved ==
  LET kept == Written \o Tokens(FlattenSeq(held)) \o Tokens(buffer)
  IN  /\ IsPrefix(Tokens(FlattenSeq(parsed)), kept)
      /\ IsPrefix(kept, Tokens(Received))
      /\ ended = "no" => kept = Tokens(Received)
      /\ ended = "finished" => held = <<>>

-----------------------------------------------------------------------------
(* What the documents say and the code does not do *)

(* README.md: "Point your existing SDK at ZeroLLM instead of the           *)
(* provider".  A client that reads the stream through the gateway to its   *)
(* end gets the events that the upstream sent, redacted or not.            *)
ClientGetsEvents ==
  ended = "finished" =>
    LET got == ClientEvents(out)
    IN  [i \in DOMAIN got |-> [j \in DOMAIN got[i] |-> Originals(got[i][j])]] = ClientEvents(stream)
=============================================================================
