------------------------------ MODULE Redaction ------------------------------
(***************************************************************************)
(* The two algorithms that cut findings out of a text: redact_spans of the *)
(* detection engine (engine.py), which the gateway uses, and redact_prompt *)
(* of the firewall facade (firewall.py), with the facade's decision what   *)
(* to intercept.  Pure operators.                                          *)
(*                                                                         *)
(* A text is the positions 0 .. Width - 1 of its characters; a redacted    *)
(* one is a sequence of positions and of replacement texts, which are      *)
(* represented by numbers that are no positions, the empty one by -1.      *)
(***************************************************************************)
EXTENDS Integers, SequencesExt

CONSTANTS
  Width,           \* characters of a text
  BlockDetectors,  \* _BLOCK_DETECTORS of the facade
  CreditCard       \* pii_credit_card

ASSUME RedactionAssumption ==
  /\ Width \in Nat
  /\ CreditCard \notin BlockDetectors

NoText == -1      \* an empty replace_with

Financial == -2   \* [REDACTED_FINANCIAL_DATA]

Redacted == -3    \* [REDACTED]

(* By their start, the widest first. *)
Before(f, g) == f.start < g.start \/ (f.start = g.start /\ f.end > g.end)

(* The spans in that order: sorted(), of which equal ones are as good as   *)
(* one.  (SetToSortSeq goes through an operator that TLC overrides and     *)
(* that cannot be reasoned about.)                                         *)
Sorted(spans) ==
  CHOOSE s \in [1..Cardinality(spans) -> spans] :
    \A i, j \in DOMAIN s : i < j => Before(s[i], s[j])

(* Mutant: a region ends where the last finding merged into it ends. *)
MergeLastEnd(regions, f) ==
  LET last == regions[Len(regions)]
  IN  IF regions = <<>> \/ f.start > last.end
        THEN Append(regions, [start |-> f.start, end |-> f.end])
        ELSE [regions EXCEPT ![Len(regions)].end = f.end]

(* A finding opens a region, or is merged into one it overlaps or touches. *)
Merge(regions, f) ==
  LET last == regions[Len(regions)]
  IN  IF regions = <<>> \/ f.start > last.end
        THEN Append(regions, [start |-> f.start, end |-> f.end])
        ELSE [regions EXCEPT ![Len(regions)].end = IF f.end > @ THEN f.end ELSE @]

Spans(findings) == {[start |-> f.start, end |-> f.end] : f \in findings}

Regions(findings) == FoldLeft(Merge, <<>>, Sorted(Spans(findings)))

(* The characters from position lo up to hi. *)
Slice(lo, hi) == [i \in 1..(hi - lo) |-> lo + i - 1]

Original == Slice(0, Width)

(* The text up to a region, and its token. *)
Cut(acc, region) ==
  [parts  |-> acc.parts \o Slice(acc.cursor, region.start) \o <<region.token>>,
   cursor |-> region.end]

(* The text between the regions, with their tokens. *)
CutOut(regions) ==
  LET all == FoldLeft(Cut, [parts |-> <<>>, cursor |-> 0], regions)
  IN  all.parts \o Slice(all.cursor, Width)

RedactSpans(token, findings) ==
  LET regions == Regions(findings)
  IN  CutOut([i \in DOMAIN regions |->
        [start |-> regions[i].start, end |-> regions[i].end, token |-> token]])

-----------------------------------------------------------------------------
(* The facade *)

IsBlock(f) == f.detector \in BlockDetectors

(* _raise_if_blocked: an exception, no text. *)
Intercepted == <<NoText>>

FacadeToken(card) == IF card THEN Financial ELSE Redacted

(* A span with a card's finding, or without. *)
Sensitive(findings) ==
  {[start |-> f.start, end |-> f.end,
    card  |-> \E g \in findings : /\ g.start = f.start /\ g.end = f.end
                                  /\ g.detector = CreditCard] :
     f \in {g \in findings : ~IsBlock(g)}}

(* Mutant: a region keeps the words of the finding that opened it. *)
MergeCardFirst(regions, f) ==
  LET last == regions[Len(regions)]
  IN  IF regions = <<>> \/ f.start > last.end
        THEN Append(regions, f)
        ELSE [regions EXCEPT ![Len(regions)].end = IF f.end > @ THEN f.end ELSE @]

(* As Merge; a region is a card's as soon as one of its findings is. *)
MergeCard(regions, f) ==
  LET last == regions[Len(regions)]
  IN  IF regions = <<>> \/ f.start > last.end
        THEN Append(regions, f)
        ELSE [regions EXCEPT ![Len(regions)] =
                [start |-> last.start,
                 end   |-> IF f.end > last.end THEN f.end ELSE last.end,
                 card  |-> last.card \/ f.card]]

CardRegions(findings) == FoldLeft(MergeCard, <<>>, Sorted(Sensitive(findings)))

RedactPrompt(findings) ==
  LET regions == CardRegions(findings)
  IN  CutOut([i \in DOMAIN regions |->
        [start |-> regions[i].start, end |-> regions[i].end,
         token |-> FacadeToken(regions[i].card)]])

SanitizePrompt(findings) ==
  IF \E f \in findings : IsBlock(f) THEN Intercepted ELSE RedactPrompt(findings)

-----------------------------------------------------------------------------
(* What redacting a text means, by position: a character is kept if no     *)
(* finding covers it; a token stands where a finding begins that neither   *)
(* overlaps nor touches one that begins before it.                         *)

TokenAt(findings, p) ==
  /\ \E f \in findings : f.start = p
  /\ ~\E f \in findings : f.start < p /\ p <= f.end

KeptAt(findings, p) == ~\E f \in findings : f.start <= p /\ p < f.end

Reference(TokenOf(_), findings) ==
  FlattenSeq([i \in 1..Width |->
    (IF TokenAt(findings, i - 1) THEN <<TokenOf(i - 1)>> ELSE <<>>) \o
    (IF KeptAt(findings, i - 1) THEN <<i - 1>> ELSE <<>>)])

(* A card's finding is in the region that begins at p. *)
HasCard(findings, p) ==
  \E f \in findings : /\ f.detector = CreditCard /\ p <= f.start
                      /\ \A q \in (p + 1)..f.start : ~TokenAt(findings, q)
=============================================================================
