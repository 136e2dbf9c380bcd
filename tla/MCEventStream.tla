--------------------------- MODULE MCEventStream ----------------------------
(***************************************************************************)
(* Instances of EventStream for TLC: every short sequence of line breaks   *)
(* and payloads, and two events of every form with either separator.       *)
(***************************************************************************)
EXTENDS EventStream, TLC

CONSTANTS MaxFree   \* bound on the sequences of single tokens

TwoMasks == [d1 |-> "d1_masked", d2 |-> "d2_masked", opening |-> "opening_masked"]

Free == UNION {[1..n -> {"cr", "lf", "d1"}] : n \in 0..MaxFree}

Forms(break) ==
  {<<"d1">>, <<"d2">>, <<"note", break, "d1">>, <<"opening", break, "closing">>, <<"done">>}

WithLf == {e \o <<"lf", "lf">> : e \in Forms("lf")}

(* A carriage return and a line feed after each line. *)
WithCrLf ==
  {e \o <<"cr", "lf", "cr", "lf">> :
     e \in {<<"d1">>, <<"d2">>, <<"note", "cr", "lf", "d1">>, <<"done">>}}

TwoEvents == {a \o b : a, b \in WithLf \cup WithCrLf}

ManyStreams == Free \cup TwoEvents
=============================================================================
