------------------------ MODULE BodyInspectionProofs ------------------------
(***************************************************************************)
(* Theorems about BodyInspection and Redaction, for any number of fields,  *)
(* any findings in them, any policy and fail mode: which bodies are not    *)
(* forwarded, what of a body is forwarded, and that the facade redacts     *)
(* what the gateway does.                                                  *)
(***************************************************************************)
EXTENDS BodyInspection, OperatorLemmas

(* What has been found is what the fields scanned so far hold. *)
Scanned ==
  next # 0 => found = [i \in Fields |-> IF i < next THEN body[i] ELSE {}]

(* The verdict on all that was found, in whichever field. *)
Verdict == Evaluate(rules, phase, AllFindings(body), Tenant, FailMode)

(* The inductive invariant: a body goes on, inspected, only when all of its *)
(* fields were scanned and the verdict on them is not to block.             *)
IInv ==
  /\ next \in 0..(NumFields + 1)
  /\ status = "scanning" => next # 0
  /\ Scanned
  /\ Inspected => Verdict.action # "block"

(* A finding of one field is a finding of the body. *)
LEMMA HitInBody ==
  ASSUME NEW i \in Fields, NEW h \in Match(rules, phase, body[i], Tenant)
  PROVE  \E g \in Match(rules, phase, AllFindings(body), Tenant) : g.rule = h.rule
<1>1. PICK j \in DOMAIN rules :
        /\ Applies(rules[j], phase, Tenant)
        /\ Matching(rules[j], body[i]) # {}
        /\ h = [at |-> j, rule |-> rules[j], findings |-> Matching(rules[j], body[i])]
  BY DEF Match
<1>2. Matching(rules[j], AllFindings(body)) # {}
  BY <1>1 DEF Matching, AllFindings
<1> DEFINE g == [at |-> j, rule |-> rules[j], findings |-> Matching(rules[j], AllFindings(body))]
<1>3. g \in Match(rules, phase, AllFindings(body), Tenant)
  BY <1>1, <1>2 DEF Match
<1>4. g.rule = h.rule
  BY <1>1
<1> QED BY <1>3, <1>4

(* And the other way round. *)
LEMMA HitInField ==
  ASSUME NEW g \in Match(rules, phase, AllFindings(body), Tenant)
  PROVE  \E i \in Fields : \E h \in Match(rules, phase, body[i], Tenant) : h.rule = g.rule
<1>1. PICK j \in DOMAIN rules :
        /\ Applies(rules[j], phase, Tenant)
        /\ Matching(rules[j], AllFindings(body)) # {}
        /\ g = [at |-> j, rule |-> rules[j], findings |-> Matching(rules[j], AllFindings(body))]
  BY DEF Match
<1>2. PICK i \in Fields : Matching(rules[j], body[i]) # {}
  BY <1>1 DEF Matching, AllFindings
<1> DEFINE h == [at |-> j, rule |-> rules[j], findings |-> Matching(rules[j], body[i])]
<1>3. h \in Match(rules, phase, body[i], Tenant)
  BY <1>1, <1>2 DEF Match
<1>4. h.rule = g.rule
  BY <1>1
<1> QED BY <1>3, <1>4

LEMMA InitIInv == Init => IInv
BY InspectionAssumption DEF Init, IInv, Scanned, Inspected, Fields

LEMMA NextIInv == IInv /\ [Next]_vars => IInv'
<1> SUFFICES ASSUME IInv, [Next]_vars PROVE IInv'
  OBVIOUS
<1> USE InspectionAssumption
<1>1. CASE NotJson
  BY <1>1 DEF NotJson, IInv, Scanned, Inspected
<1>2. CASE ScanField
  <2>1. found = [i \in Fields |-> IF i < next THEN body[i] ELSE {}] /\ next \in Fields
    BY <1>2 DEF ScanField, IInv, Scanned
  <2>2. found' = [i \in Fields |-> IF i < next + 1 THEN body[i] ELSE {}]
    <3>1. found' = [i \in Fields |-> IF i = next THEN body[next]
                                     ELSE IF i < next THEN body[i] ELSE {}]
      BY <1>2, <2>1 DEF ScanField
    <3>2. \A i \in Fields : i < next + 1 <=> i = next \/ i < next
      BY <2>1 DEF Fields
    <3>3. \A i \in Fields : (IF i = next THEN body[next] ELSE IF i < next THEN body[i] ELSE {})
                             = IF i < next + 1 THEN body[i] ELSE {}
      BY <3>2
    <3> QED BY <3>1, <3>3, Zenon
  <2>3. next' = next + 1 /\ body' = body /\ status' = "scanning"
    BY <1>2 DEF ScanField
  <2> QED BY <2>1, <2>2, <2>3 DEF IInv, Scanned, Inspected, Fields
<1>3. CASE Conclude
  <2>1. AllFindings(found) = AllFindings(body)
    <3>1. found = [i \in Fields |-> IF i < next THEN body[i] ELSE {}] /\ next = NumFields + 1
      BY <1>3 DEF Conclude, IInv, Scanned
    <3>2. \A i \in Fields : found[i] = body[i]
      BY <3>1 DEF Fields
    <3> QED BY <3>2 DEF AllFindings
  <2>2. status' = IF Verdict.action = "block" THEN "blocked" ELSE "forwarded"
    BY <1>3, <2>1 DEF Conclude, Verdict
  <2>3. UNCHANGED <<phase, body, rules, next, found>>
    BY <1>3 DEF Conclude
  <2>4. Verdict' = Verdict
    BY <2>3 DEF Verdict, AllFindings
  <2> QED BY <2>2, <2>3, <2>4 DEF IInv, Scanned, Inspected
<1>4. CASE ScanFails
  BY <1>4 DEF ScanFails, IInv, Scanned, Inspected
<1>5. CASE UNCHANGED vars
  BY <1>5 DEF vars, IInv, Scanned, Inspected, Verdict, AllFindings
<1> QED BY <1>1, <1>2, <1>3, <1>4, <1>5 DEF Next

LEMMA Invariance == Spec => []IInv
BY InitIInv, NextIInv, PTL DEF Spec

(* A body is not forwarded when any of its fields, however many there are,  *)
(* holds what any rule of the policy blocks.                                *)
THEOREM BlockedBodiesStay == Spec => []BlockedNeverForwarded
<1>1. IInv => BlockedNeverForwarded
  <2> SUFFICES ASSUME IInv, Inspected, NEW i \in Fields, Claimed(i, "block") # {}
               PROVE  FALSE
    BY DEF BlockedNeverForwarded
  <2>1. PICK h \in Match(rules, phase, body[i], Tenant) : h.rule.action = "block"
    BY DEF Claimed, ClaimedBy
  <2>2. PICK g \in Match(rules, phase, AllFindings(body), Tenant) : g.rule = h.rule
    BY HitInBody
  <2>3. Verdict.action = "block"
    BY <2>1, <2>2, BlockHitBlocks DEF Verdict
  <2> QED BY <2>3 DEF IInv
<1> QED BY <1>1, Invariance, PTL

(* In fail-closed mode no body is forwarded whose findings no rule with a   *)
(* known action claims.                                                     *)
THEOREM UnmatchedBodiesStay == Spec => []UnmatchedAloneBlocks
<1>1. IInv => UnmatchedAloneBlocks
  <2> SUFFICES ASSUME IInv, Inspected, FailMode = "fail-closed", AllFindings(body) # {},
                      \A i \in Fields :
                        HitActions(Match(rules, phase, body[i], Tenant)) \cap Actions = {}
               PROVE  FALSE
    BY DEF UnmatchedAloneBlocks
  <2>1. HitActions(Match(rules, phase, AllFindings(body), Tenant)) \cap Actions = {}
    <3> SUFFICES ASSUME NEW g \in Match(rules, phase, AllFindings(body), Tenant),
                        g.rule.action \in Actions
                 PROVE  FALSE
      BY DEF HitActions
    <3>1. PICK i \in Fields : \E h \in Match(rules, phase, body[i], Tenant) : h.rule = g.rule
      BY HitInField
    <3>2. g.rule.action \in HitActions(Match(rules, phase, body[i], Tenant))
      BY <3>1 DEF HitActions
    <3> QED BY <3>2
  <2>2. Verdict.action = "block"
    BY <2>1, UnclaimedBlocks DEF Verdict
  <2> QED BY <2>2 DEF IInv
<1> QED BY <1>1, Invariance, PTL
-----------------------------------------------------------------------------
(* Redaction: the spans in their order *)

Span == [start : 0..Width, end : 0..Width]

CardSpan == [start : 0..Width, end : 0..Width, card : BOOLEAN]

(* A span is within the text and not empty. *)
Proper(x) == x.start \in 0..(Width - 1) /\ x.end \in (x.start + 1)..Width

LEMMA WidthType == Width \in Nat
BY RedactionAssumption

(* There are no more of them than the text has places. *)
LEMMA SpansFinite == IsFiniteSet(Span) /\ IsFiniteSet(CardSpan)
<1> DEFINE P == (0..Width) \X (0..Width)
           f == [p \in P |-> [start |-> p[1], end |-> p[2]]]
           g == [p \in P \X BOOLEAN |-> [start |-> p[1][1], end |-> p[1][2], card |-> p[2]]]
<1>1. IsFiniteSet(0..Width)
  BY WidthType, FS_Interval
<1>2. IsFiniteSet(P)
  BY <1>1, FS_Product
<1>3. IsFiniteSet(BOOLEAN)
  <2>1. BOOLEAN = {TRUE} \cup {FALSE}
    OBVIOUS
  <2>2. IsFiniteSet({TRUE}) /\ IsFiniteSet({FALSE})
    BY FS_Singleton
  <2> QED BY <2>1, <2>2, FS_Union
<1>4. IsFiniteSet(P \X BOOLEAN)
  BY <1>2, <1>3, FS_Product
<1>5. f \in Surjection(P, Span)
  <2>1. f \in [P -> Span]
    BY DEF Span
  <2>2. \A r \in Span : <<r.start, r.end>> \in P /\ f[<<r.start, r.end>>] = r
    BY DEF Span
  <2> HIDE DEF f, P
  <2> QED BY <2>1, <2>2 DEF Surjection
<1>6. g \in Surjection(P \X BOOLEAN, CardSpan)
  <2>1. g \in [P \X BOOLEAN -> CardSpan]
    BY DEF CardSpan
  <2>2. ASSUME NEW r \in CardSpan PROVE \E p \in P \X BOOLEAN : g[p] = r
    <3>1. <<<<r.start, r.end>>, r.card>> \in P \X BOOLEAN
      BY DEF CardSpan
    <3>2. g[<<<<r.start, r.end>>, r.card>>] = [start |-> r.start, end |-> r.end, card |-> r.card]
      BY <3>1
    <3>3. r = [start |-> r.start, end |-> r.end, card |-> r.card]
      BY DEF CardSpan
    <3> QED BY <3>1, <3>2, <3>3
  <2> HIDE DEF g, P
  <2> QED BY <2>1, <2>2 DEF Surjection
<1> QED BY <1>2, <1>4, <1>5, <1>6, FS_Surjection

(* A finite set of spans that differ in their ends has all of them, in     *)
(* order, in Sorted.                                                       *)
LEMMA SortedSpans ==
  ASSUME NEW S, IsFiniteSet(S),
         \A x \in S : x.start \in Nat /\ x.end \in Nat,
         \A x, y \in S : x.start = y.start /\ x.end = y.end => x = y
  PROVE  /\ Cardinality(S) \in Nat
         /\ Sorted(S) \in [1..Cardinality(S) -> S]
         /\ \A i, j \in 1..Cardinality(S) : i < j => Sorted(S)[i].start <= Sorted(S)[j].start
         /\ \A x \in S : \E i \in 1..Cardinality(S) : Sorted(S)[i] = x
<1> DEFINE n == Cardinality(S)
           R == {p \in S \X S : Before(p[1], p[2])}
           InOrder(s) == \A i, j \in DOMAIN s : i < j => Before(s[i], s[j])
<1>1. n \in Nat
  BY FS_CardinalityType
<1>2. Orders(R, S)
  BY DEF Orders, Before
<1>3. \A x, y \in S : <<x, y>> \in R => Before(x, y)
  OBVIOUS
<1> HIDE DEF R
<1>4. PICK s \in [1..n -> S] : \A i, j \in 1..n : i < j => <<s[i], s[j]>> \in R
  BY <1>2, SortedEnumeration
<1>5. InOrder(s)
  BY <1>3, <1>4
<1> DEFINE c == CHOOSE q \in [1..n -> S] : InOrder(q)
<1>6. c \in [1..n -> S] /\ InOrder(c)
  <2> HIDE DEF InOrder
  <2> QED BY <1>5
<1>7. Sorted(S) = c
  BY DEF Sorted
<1> HIDE DEF c
<1>8. \A i, j \in 1..n : i < j => Before(c[i], c[j])
  BY <1>6
<1>9. \A i \in 1..n : c[i] \in S /\ c[i].start \in Nat /\ c[i].end \in Nat
  BY <1>6
<1>10. \A i, j \in 1..n : i < j => c[i].start <= c[j].start
  BY <1>8, <1>9 DEF Before
<1>11. \A i, j \in 1..n : i # j => c[i] # c[j]
  <2> SUFFICES ASSUME NEW i \in 1..n, NEW j \in 1..n, i < j PROVE c[i] # c[j]
    BY <1>1
  <2>1. Before(c[i], c[j]) /\ c[i].start \in Nat /\ c[i].end \in Nat
    BY <1>8, <1>9
  <2> QED BY <2>1 DEF Before
<1>12. \A x \in S : \E i \in 1..n : c[i] = x
  BY <1>6, <1>11, SortedIsWhole
<1> QED BY <1>1, <1>6, <1>7, <1>10, <1>12

-----------------------------------------------------------------------------
(* The regions *)

(* The region r became of q when a finding's span f was added to it. *)
Opened(q, r, f) ==
  /\ q = <<>> \/ f.start > q[Len(q)].end
  /\ Len(r) = Len(q) + 1
  /\ \A i \in 1..Len(q) : r[i] = q[i]
  /\ r[Len(q) + 1].start = f.start /\ r[Len(q) + 1].end = f.end

Merged(q, r, f) ==
  /\ q # <<>> /\ f.start <= q[Len(q)].end
  /\ Len(r) = Len(q)
  /\ \A i \in 1..(Len(q) - 1) : r[i] = q[i]
  /\ r[Len(q)].start = q[Len(q)].start
  /\ r[Len(q)].end = IF f.end > q[Len(q)].end THEN f.end ELSE q[Len(q)].end

LEMMA MergeType ==
  ASSUME NEW q \in Seq(Span), NEW f \in Span
  PROVE  /\ Merge(q, f) \in Seq(Span)
         /\ Opened(q, Merge(q, f), f) \/ Merged(q, Merge(q, f), f)
<1>1. Len(q) \in Nat /\ \A i \in 1..Len(q) : q[i] \in Span
  BY LenProperties, ElementOfSeq
<1>2. f = [start |-> f.start, end |-> f.end] /\ f.start \in Int /\ f.end \in Int
  BY WidthType DEF Span
<1>3. CASE q = <<>> \/ f.start > q[Len(q)].end
  <2>1. Merge(q, f) = Append(q, f)
    BY <1>2, <1>3 DEF Merge
  <2>2. /\ Append(q, f) \in Seq(Span) /\ Len(Append(q, f)) = Len(q) + 1
        /\ \A i \in 1..Len(q) : Append(q, f)[i] = q[i]
        /\ Append(q, f)[Len(q) + 1] = f
    BY <1>1, AppendProperties
  <2> QED BY <1>3, <2>1, <2>2 DEF Opened
<1>4. CASE ~(q = <<>> \/ f.start > q[Len(q)].end)
  <2> DEFINE n == Len(q)
             e == IF f.end > q[n].end THEN f.end ELSE q[n].end
             m == [q EXCEPT ![n].end = e]
  <2>1. Merge(q, f) = m
    BY <1>4 DEF Merge
  <2>2. n \in 1..n /\ q[n] \in Span /\ q[n].end \in Int /\ f.start <= q[n].end
    <3>1. n # 0
      BY <1>4, EmptySeq
    <3>2. n \in 1..n
      BY <1>1, <3>1
    <3> QED BY <1>1, <1>2, <1>4, <3>2, WidthType DEF Span
  <2>3. e \in 0..Width
    BY <2>2 DEF Span
  <2>4. /\ m \in [1..n -> Span] /\ \A i \in 1..(n - 1) : m[i] = q[i]
        /\ m[n].start = q[n].start /\ m[n].end = e
    <3>1. q \in [1..n -> Span]
      BY <1>1, LenProperties
    <3> DEFINE x == [q[n] EXCEPT !.end = e]
    <3>2. x \in Span /\ x.start = q[n].start /\ x.end = e
      BY <2>2, <2>3 DEF Span
    <3>3. m = [q EXCEPT ![n] = x]
      OBVIOUS
    <3> HIDE DEF x, m, e, n
    <3>4. m \in [1..n -> Span] /\ \A i \in 1..n : m[i] = IF i = n THEN x ELSE q[i]
      BY <2>2, <3>1, <3>2, <3>3
    <3>5. \A i \in 1..(n - 1) : i \in 1..n /\ i # n
      BY <1>1 DEF n
    <3>6. m[n] = x /\ \A i \in 1..(n - 1) : m[i] = q[i]
      BY <2>2, <3>4, <3>5
    <3> QED BY <3>2, <3>4, <3>6
  <2>5. m \in Seq(Span) /\ Len(m) = n
    <3> HIDE DEF m
    <3> QED BY <1>1, <2>4, IsASeq, LenProperties
  <2> HIDE DEF m
  <2> QED BY <1>4, <2>1, <2>2, <2>4, <2>5 DEF Merged
<1> QED BY <1>3, <1>4
(* And so for a region that may be a card's. *)
CardKept(q, r, f) ==
  \/ Opened(q, r, f) /\ r[Len(q) + 1].card = f.card
  \/ Merged(q, r, f) /\ (r[Len(q)].card <=> q[Len(q)].card \/ f.card)

LEMMA MergeCardType ==
  ASSUME NEW q \in Seq(CardSpan), NEW f \in CardSpan
  PROVE  MergeCard(q, f) \in Seq(CardSpan) /\ CardKept(q, MergeCard(q, f), f)
<1>1. Len(q) \in Nat /\ \A i \in 1..Len(q) : q[i] \in CardSpan
  BY LenProperties, ElementOfSeq
<1>2. f.start \in Int /\ f.end \in Int
  BY WidthType DEF CardSpan
<1>3. CASE q = <<>> \/ f.start > q[Len(q)].end
  <2>1. MergeCard(q, f) = Append(q, f)
    BY <1>3 DEF MergeCard
  <2>2. /\ Append(q, f) \in Seq(CardSpan) /\ Len(Append(q, f)) = Len(q) + 1
        /\ \A i \in 1..Len(q) : Append(q, f)[i] = q[i]
        /\ Append(q, f)[Len(q) + 1] = f
    BY <1>1, AppendProperties
  <2> QED BY <1>3, <2>1, <2>2 DEF Opened, CardKept
<1>4. CASE ~(q = <<>> \/ f.start > q[Len(q)].end)
  <2> DEFINE n == Len(q)
             e == IF f.end > q[n].end THEN f.end ELSE q[n].end
             x == [start |-> q[n].start, end |-> e, card |-> q[n].card \/ f.card]
             m == [q EXCEPT ![n] = x]
  <2>1. MergeCard(q, f) = m
    <3>1. MergeCard(q, f) = IF q = <<>> \/ f.start > q[Len(q)].end THEN Append(q, f) ELSE m
      BY DEF MergeCard
    <3> HIDE DEF m
    <3> QED BY <1>4, <3>1
  <2>2. n \in 1..n /\ q[n] \in CardSpan /\ q[n].end \in Int /\ f.start <= q[n].end
    <3>1. n # 0
      BY <1>4, EmptySeq
    <3>2. n \in 1..n
      BY <1>1, <3>1
    <3> QED BY <1>1, <1>2, <1>4, <3>2, WidthType DEF CardSpan
  <2>3. e \in 0..Width
    BY <2>2 DEF CardSpan
  <2>4. x \in CardSpan /\ x.start = q[n].start /\ x.end = e /\ (x.card <=> q[n].card \/ f.card)
    <3> DEFINE c == q[n].card \/ f.card
    <3>1. c \in BOOLEAN
      OBVIOUS
    <3>2. x = [start |-> q[n].start, end |-> e, card |-> c]
      OBVIOUS
    <3>3. q[n].start \in 0..Width
      BY <2>2 DEF CardSpan
    <3> HIDE DEF x, c, e
    <3>4. x \in CardSpan /\ x.start = q[n].start /\ x.end = e /\ x.card = c
      BY <2>3, <3>1, <3>2, <3>3 DEF CardSpan
    <3> QED BY <3>4 DEF c
  <2>5. m \in [1..n -> CardSpan] /\ m[n] = x /\ \A i \in 1..(n - 1) : m[i] = q[i]
    <3> HIDE DEF x, n
    <3>1. q \in [1..n -> CardSpan]
      BY <1>1, LenProperties DEF n
    <3>2. m \in [1..n -> CardSpan] /\ \A i \in 1..n : m[i] = IF i = n THEN x ELSE q[i]
      BY <2>2, <2>4, <3>1
    <3>3. \A i \in 1..(n - 1) : i \in 1..n /\ i # n
      BY <1>1 DEF n
    <3> QED BY <2>2, <3>2, <3>3
  <2>6. m \in Seq(CardSpan) /\ Len(m) = n
    <3> HIDE DEF m
    <3> QED BY <1>1, <2>5, IsASeq, LenProperties
  <2> HIDE DEF m, x
  <2> QED BY <1>4, <2>1, <2>2, <2>4, <2>5, <2>6 DEF Merged, CardKept
<1> QED BY <1>3, <1>4

(* The regions, finding by finding. *)
LEMMA MergeSteps ==
  ASSUME NEW n \in Nat, NEW s \in [1..n -> Span]
  PROVE  \E f \in [0..n -> Seq(Span)] :
           /\ f[0] = <<>>
           /\ \A i \in 1..n : Opened(f[i - 1], f[i], s[i]) \/ Merged(f[i - 1], f[i], s[i])
           /\ FoldLeft(Merge, <<>>, s) = f[n]
<1> DEFINE A == Seq(Span)
           step == [p \in A \X (1..n) |-> Merge(p[1], s[p[2]])]
           Is(h) == h = [t \in SUBSET (1..n) |->
                           IF t = {} THEN <<>> ELSE Merge(h[t \ {Max(t)}], s[Max(t)])]
           h == CHOOSE g : Is(g)
<1>1. step \in [A \X (1..n) -> A]
  BY MergeType
<1>2. \A q \in A, i \in 1..n : step[<<q, i>>] = Merge(q, s[i])
  OBVIOUS
<1>3. <<>> \in A
  OBVIOUS
<1> HIDE DEF step
<1>4. PICK g \in [SUBSET (1..n) -> A] : IsFold(g, n, <<>>, step)
  <2> HIDE DEF A
  <2> QED BY <1>1, <1>3, SubsetRecursion
<1>5. Is(g)
  <2> DEFINE k == [t \in SUBSET (1..n) |->
                     IF t = {} THEN <<>> ELSE Merge(g[t \ {Max(t)}], s[Max(t)])]
  <2>1. ASSUME NEW t \in SUBSET (1..n) PROVE g[t] = k[t]
    <3>1. CASE t = {}
      BY <1>4, <3>1 DEF IsFold
    <3>2. CASE t # {}
      <4>1. Max(t) \in 1..n /\ g[t \ {Max(t)}] \in A
        BY <1>4, <3>2, MaxWithin
      <4>2. g[t] = step[<<g[t \ {Max(t)}], Max(t)>>]
        BY <1>4, <3>2 DEF IsFold
      <4> QED BY <1>2, <3>2, <4>1, <4>2
    <3> QED BY <3>1, <3>2
  <2>2. g = [t \in SUBSET (1..n) |-> g[t]]
    BY <1>4
  <2>3. g = k
    BY <2>1, <2>2
  <2> QED BY <2>3
<1>6. Is(h)
  <2> HIDE DEF Is
  <2> QED BY <1>5
<1>7. FoldLeft(Merge, <<>>, s) = h[1..n]
  BY DEF FoldLeft, MapThenFoldSet
<1> HIDE DEF h
<1>8. Follows(h, n, A, <<>>, step)
  <2>1. h[{}] = <<>>
    <3>1. {} \in SUBSET (1..n)
      OBVIOUS
    <3> QED BY <1>6, <3>1
  <2>2. ASSUME NEW t \in SUBSET (1..n), t # {}, h[t \ {Max(t)}] \in A
        PROVE  h[t] = step[<<h[t \ {Max(t)}], Max(t)>>]
    <3>1. h[t] = Merge(h[t \ {Max(t)}], s[Max(t)])
      BY <1>6, <2>2
    <3>2. Max(t) \in 1..n
      BY <2>2, MaxWithin
    <3> HIDE DEF A
    <3> QED BY <1>2, <2>2, <3>1, <3>2
  <2> QED BY <2>1, <2>2 DEF Follows
<1>9. PICK f \in [0..n -> A] : IsSteps(f, n, <<>>, step) /\ f[n] = h[1..n]
  <2> HIDE DEF A, Is
  <2>1. Reached(h[1..n], A, n, <<>>, step)
    BY <1>1, <1>3, <1>8, Unrolled
  <2> QED BY <2>1 DEF Reached
<1>10. \A i \in 1..n : Opened(f[i - 1], f[i], s[i]) \/ Merged(f[i - 1], f[i], s[i])
  <2> SUFFICES ASSUME NEW i \in 1..n
               PROVE  Opened(f[i - 1], f[i], s[i]) \/ Merged(f[i - 1], f[i], s[i])
    OBVIOUS
  <2>1. f[i - 1] \in A /\ s[i] \in Span
    <3>1. i - 1 \in 0..n
      OBVIOUS
    <3> QED BY <1>9, <3>1
  <2>2. f[i] = Merge(f[i - 1], s[i])
    BY <1>2, <1>9, <2>1 DEF IsSteps
  <2> QED BY <2>1, <2>2, MergeType
<1> QED BY <1>7, <1>9, <1>10 DEF IsSteps

LEMMA MergeCardSteps ==
  ASSUME NEW n \in Nat, NEW s \in [1..n -> CardSpan]
  PROVE  \E f \in [0..n -> Seq(CardSpan)] :
           /\ f[0] = <<>>
           /\ \A i \in 1..n : CardKept(f[i - 1], f[i], s[i])
           /\ FoldLeft(MergeCard, <<>>, s) = f[n]
<1> DEFINE A == Seq(CardSpan)
           step == [p \in A \X (1..n) |-> MergeCard(p[1], s[p[2]])]
           Is(h) == h = [t \in SUBSET (1..n) |->
                           IF t = {} THEN <<>> ELSE MergeCard(h[t \ {Max(t)}], s[Max(t)])]
           h == CHOOSE g : Is(g)
<1>1. step \in [A \X (1..n) -> A]
  BY MergeCardType
<1>2. \A q \in A, i \in 1..n : step[<<q, i>>] = MergeCard(q, s[i])
  OBVIOUS
<1>3. <<>> \in A
  OBVIOUS
<1> HIDE DEF step
<1>4. PICK g \in [SUBSET (1..n) -> A] : IsFold(g, n, <<>>, step)
  <2> HIDE DEF A
  <2> QED BY <1>1, <1>3, SubsetRecursion
<1>5. Is(g)
  <2> DEFINE k == [t \in SUBSET (1..n) |->
                     IF t = {} THEN <<>> ELSE MergeCard(g[t \ {Max(t)}], s[Max(t)])]
  <2>1. ASSUME NEW t \in SUBSET (1..n) PROVE g[t] = k[t]
    <3>1. CASE t = {}
      BY <1>4, <3>1 DEF IsFold
    <3>2. CASE t # {}
      <4>1. Max(t) \in 1..n /\ g[t \ {Max(t)}] \in A
        BY <1>4, <3>2, MaxWithin
      <4>2. g[t] = step[<<g[t \ {Max(t)}], Max(t)>>]
        BY <1>4, <3>2 DEF IsFold
      <4> QED BY <1>2, <3>2, <4>1, <4>2
    <3> QED BY <3>1, <3>2
  <2>2. g = [t \in SUBSET (1..n) |-> g[t]]
    BY <1>4
  <2>3. g = k
    BY <2>1, <2>2
  <2> QED BY <2>3
<1>6. Is(h)
  <2> HIDE DEF Is
  <2> QED BY <1>5
<1>7. FoldLeft(MergeCard, <<>>, s) = h[1..n]
  BY DEF FoldLeft, MapThenFoldSet
<1> HIDE DEF h
<1>8. Follows(h, n, A, <<>>, step)
  <2>1. h[{}] = <<>>
    <3>1. {} \in SUBSET (1..n)
      OBVIOUS
    <3> QED BY <1>6, <3>1
  <2>2. ASSUME NEW t \in SUBSET (1..n), t # {}, h[t \ {Max(t)}] \in A
        PROVE  h[t] = step[<<h[t \ {Max(t)}], Max(t)>>]
    <3>1. h[t] = MergeCard(h[t \ {Max(t)}], s[Max(t)])
      BY <1>6, <2>2
    <3>2. Max(t) \in 1..n
      BY <2>2, MaxWithin
    <3> HIDE DEF A
    <3> QED BY <1>2, <2>2, <3>1, <3>2
  <2> QED BY <2>1, <2>2 DEF Follows
<1>9. PICK f \in [0..n -> A] : IsSteps(f, n, <<>>, step) /\ f[n] = h[1..n]
  <2> HIDE DEF A, Is
  <2>1. Reached(h[1..n], A, n, <<>>, step)
    BY <1>1, <1>3, <1>8, Unrolled
  <2> QED BY <2>1 DEF Reached
<1>10. \A i \in 1..n : CardKept(f[i - 1], f[i], s[i])
  <2> SUFFICES ASSUME NEW i \in 1..n
               PROVE  CardKept(f[i - 1], f[i], s[i])
    OBVIOUS
  <2>1. f[i - 1] \in A /\ s[i] \in CardSpan
    <3>1. i - 1 \in 0..n
      OBVIOUS
    <3> QED BY <1>9, <3>1
  <2>2. f[i] = MergeCard(f[i - 1], s[i])
    BY <1>2, <1>9, <2>1 DEF IsSteps
  <2> QED BY <2>1, <2>2, MergeCardType
<1> QED BY <1>7, <1>9, <1>10 DEF IsSteps

-----------------------------------------------------------------------------
(* The text that is put together from them *)

TokenSpan == [start : 0..Width, end : 0..Width, token : Int]

Cutting == [parts : Seq(Int), cursor : 0..Width]

NothingCut == [parts |-> <<>>, cursor |-> 0]

LEMMA SliceType ==
  ASSUME NEW lo \in 0..Width, NEW hi \in 0..Width
  PROVE  /\ Slice(lo, hi) \in Seq(Int)
         /\ Len(Slice(lo, hi)) = IF lo <= hi THEN hi - lo ELSE 0
         /\ \A i \in 1..Len(Slice(lo, hi)) : Slice(lo, hi)[i] = lo + i - 1
<1>1. CASE lo <= hi
  <2> DEFINE n == hi - lo
  <2>1. n \in Nat
    BY <1>1
  <2>2. Slice(lo, hi) \in [1..n -> Int]
    BY DEF Slice
  <2>3. Slice(lo, hi) \in Seq(Int) /\ Len(Slice(lo, hi)) = n
    BY <2>1, <2>2, IsASeq, LenProperties
  <2> QED BY <1>1, <2>3 DEF Slice
<1>2. CASE ~(lo <= hi)
  <2>1. 1..(hi - lo) = {} /\ 1..0 = {}
    BY <1>2
  <2>2. Slice(lo, hi) \in [1..0 -> Int]
    BY <2>1 DEF Slice
  <2>3. Slice(lo, hi) \in Seq(Int) /\ Len(Slice(lo, hi)) = 0
    BY <2>2, IsASeq, LenProperties
  <2> QED BY <1>2, <2>3
<1> QED BY <1>1, <1>2

LEMMA CutType ==
  ASSUME NEW acc \in Cutting, NEW region \in TokenSpan
  PROVE  Cut(acc, region) \in Cutting
<1>1. Slice(acc.cursor, region.start) \in Seq(Int)
  BY SliceType DEF Cutting, TokenSpan
<1>2. <<region.token>> \in Seq(Int)
  BY DEF TokenSpan
<1>3. acc.parts \o Slice(acc.cursor, region.start) \in Seq(Int)
  BY <1>1, ConcatProperties DEF Cutting
<1>4. acc.parts \o Slice(acc.cursor, region.start) \o <<region.token>> \in Seq(Int)
  BY <1>2, <1>3, ConcatProperties
<1> QED BY <1>4 DEF Cut, Cutting, TokenSpan

LEMMA CutSteps ==
  ASSUME NEW n \in Nat, NEW s \in [1..n -> TokenSpan]
  PROVE  \E f \in [0..n -> Cutting] :
           /\ f[0] = NothingCut
           /\ \A i \in 1..n : f[i] = Cut(f[i - 1], s[i])
           /\ FoldLeft(Cut, NothingCut, s) = f[n]
<1> DEFINE A == Cutting
           step == [p \in A \X (1..n) |-> Cut(p[1], s[p[2]])]
           Is(h) == h = [t \in SUBSET (1..n) |->
                           IF t = {} THEN NothingCut ELSE Cut(h[t \ {Max(t)}], s[Max(t)])]
           h == CHOOSE g : Is(g)
<1>1. step \in [A \X (1..n) -> A]
  BY CutType
<1>2. \A q \in A, i \in 1..n : step[<<q, i>>] = Cut(q, s[i])
  OBVIOUS
<1>3. NothingCut \in A
  BY WidthType DEF NothingCut, Cutting
<1> HIDE DEF step
<1>4. PICK g \in [SUBSET (1..n) -> A] : IsFold(g, n, NothingCut, step)
  <2> HIDE DEF A
  <2> QED BY <1>1, <1>3, SubsetRecursion
<1>5. Is(g)
  <2> DEFINE k == [t \in SUBSET (1..n) |->
                     IF t = {} THEN NothingCut ELSE Cut(g[t \ {Max(t)}], s[Max(t)])]
  <2>1. ASSUME NEW t \in SUBSET (1..n) PROVE g[t] = k[t]
    <3>1. CASE t = {}
      BY <1>4, <3>1 DEF IsFold
    <3>2. CASE t # {}
      <4>1. Max(t) \in 1..n /\ g[t \ {Max(t)}] \in A
        BY <1>4, <3>2, MaxWithin
      <4>2. g[t] = step[<<g[t \ {Max(t)}], Max(t)>>]
        BY <1>4, <3>2 DEF IsFold
      <4> QED BY <1>2, <3>2, <4>1, <4>2
    <3> QED BY <3>1, <3>2
  <2>2. g = [t \in SUBSET (1..n) |-> g[t]]
    BY <1>4
  <2>3. g = k
    BY <2>1, <2>2
  <2> QED BY <2>3
<1>6. Is(h)
  <2> HIDE DEF Is
  <2> QED BY <1>5
<1>7. FoldLeft(Cut, NothingCut, s) = h[1..n]
  BY DEF FoldLeft, MapThenFoldSet
<1> HIDE DEF h
<1>8. Follows(h, n, A, NothingCut, step)
  <2>1. h[{}] = NothingCut
    <3>1. {} \in SUBSET (1..n)
      OBVIOUS
    <3> QED BY <1>6, <3>1
  <2>2. ASSUME NEW t \in SUBSET (1..n), t # {}, h[t \ {Max(t)}] \in A
        PROVE  h[t] = step[<<h[t \ {Max(t)}], Max(t)>>]
    <3>1. h[t] = Cut(h[t \ {Max(t)}], s[Max(t)])
      BY <1>6, <2>2
    <3>2. Max(t) \in 1..n
      BY <2>2, MaxWithin
    <3> HIDE DEF A
    <3> QED BY <1>2, <2>2, <3>1, <3>2
  <2> QED BY <2>1, <2>2 DEF Follows
<1>9. PICK f \in [0..n -> A] : IsSteps(f, n, NothingCut, step) /\ f[n] = h[1..n]
  <2> HIDE DEF A, Is
  <2>1. Reached(h[1..n], A, n, NothingCut, step)
    BY <1>1, <1>3, <1>8, Unrolled
  <2> QED BY <2>1 DEF Reached
<1>10. \A i \in 1..n : f[i] = Cut(f[i - 1], s[i])
  <2> SUFFICES ASSUME NEW i \in 1..n
               PROVE  f[i] = Cut(f[i - 1], s[i])
    OBVIOUS
  <2>1. f[i - 1] \in A /\ s[i] \in TokenSpan
    <3>1. i - 1 \in 0..n
      OBVIOUS
    <3> QED BY <1>9, <3>1
  <2>2. f[i] = Cut(f[i - 1], s[i])
    BY <1>2, <1>9, <2>1 DEF IsSteps
  <2> QED BY <2>1, <2>2, CutType
<1> QED BY <1>7, <1>9, <1>10 DEF IsSteps
-----------------------------------------------------------------------------
(* What the regions are *)

Hit(x, p) == x.start <= p /\ p < x.end

(* The k first of the spans s make the regions q: none meets the next, they *)
(* cover what the spans cover, and each begins where a span begins.         *)
Apart(q) == \A i, j \in 1..Len(q) : i < j => q[i].end < q[j].start

RegionsOf(q, s, k) ==
  /\ \A i \in 1..Len(q) : Proper(q[i])
  /\ Apart(q)
  /\ \A p \in 0..Width : (\E i \in 1..Len(q) : Hit(q[i], p)) <=> \E j \in 1..k : Hit(s[j], p)
  /\ \A i \in 1..Len(q) : \E j \in 1..k : q[i].start = s[j].start

LEMMA ProperNumbers ==
  ASSUME NEW x, Proper(x)
  PROVE  x.start \in Nat /\ x.end \in Nat /\ x.start < x.end /\ x.end <= Width /\ x.start < Width
BY WidthType DEF Proper

LEMMA OpenedRegions ==
  ASSUME NEW q, Len(q) \in Nat, q = <<>> => Len(q) = 0, NEW r, NEW k \in Nat, NEW s,
         Proper(s[k + 1]), RegionsOf(q, s, k), Opened(q, r, s[k + 1])
  PROVE  RegionsOf(r, s, k + 1)
<1>1. PICK n \in Nat : n = Len(q)
  OBVIOUS
<1>2. PICK f : f = s[k + 1]
  OBVIOUS
<1>3. /\ Len(r) = n + 1 /\ \A i \in 1..n : r[i] = q[i]
      /\ r[n + 1].start = f.start /\ r[n + 1].end = f.end
      /\ n = 0 \/ f.start > q[n].end
  BY <1>1, <1>2 DEF Opened
<1>4. \A i \in 1..(n + 1) : i = n + 1 \/ i \in 1..n
  OBVIOUS
<1>5. Proper(f) /\ Proper(r[n + 1])
  BY <1>2, <1>3 DEF Proper
<1>6. \A i \in 1..n : Proper(q[i])
  BY <1>1 DEF RegionsOf
<1>7. \A i \in 1..Len(r) : Proper(r[i])
  BY <1>3, <1>4, <1>5, <1>6
<1>8. Apart(r)
  <2>1. ASSUME NEW i \in 1..n PROVE q[i].end < f.start
    <3>1. n # 0 /\ n \in 1..n
      OBVIOUS
    <3>2. f.start > q[n].end /\ Proper(q[n]) /\ Proper(q[i])
      BY <1>3, <1>6, <3>1
    <3>3. i # n => q[i].end < q[n].start
      BY <1>1, <3>1 DEF RegionsOf, Apart
    <3> QED BY <1>5, <3>2, <3>3, ProperNumbers, SMTT(30)
  <2> SUFFICES ASSUME NEW i \in 1..(n + 1), NEW j \in 1..(n + 1), i < j
               PROVE  r[i].end < r[j].start
    BY <1>3 DEF Apart
  <2>2. i \in 1..n
    OBVIOUS
  <2>3. CASE j = n + 1
    BY <1>3, <2>1, <2>2, <2>3
  <2>4. CASE j \in 1..n
    BY <1>1, <1>3, <2>2, <2>4 DEF RegionsOf, Apart
  <2> QED BY <1>4, <2>3, <2>4
<1>9. \A j \in 1..(k + 1) : j = k + 1 \/ j \in 1..k
  OBVIOUS
<1>10. 1..k \subseteq 1..(k + 1) /\ k + 1 \in 1..(k + 1) /\ 1..n \subseteq 1..(n + 1) /\ n + 1 \in 1..(n + 1)
  OBVIOUS
<1>11. ASSUME NEW p \in 0..Width
       PROVE  (\E i \in 1..Len(r) : Hit(r[i], p)) <=> \E j \in 1..(k + 1) : Hit(s[j], p)
  <2>1. (\E i \in 1..n : Hit(q[i], p)) <=> \E j \in 1..k : Hit(s[j], p)
    BY <1>1 DEF RegionsOf
  <2>2. Hit(r[n + 1], p) <=> Hit(f, p)
    BY <1>3 DEF Hit
  <2>3. (\E i \in 1..Len(r) : Hit(r[i], p)) <=> (\E i \in 1..n : Hit(q[i], p)) \/ Hit(f, p)
    <3> HIDE DEF Hit
    <3> QED BY <1>3, <1>4, <1>10, <2>2
  <2>4. (\E j \in 1..(k + 1) : Hit(s[j], p)) <=> (\E j \in 1..k : Hit(s[j], p)) \/ Hit(f, p)
    BY <1>2, <1>9, <1>10
  <2> QED BY <2>1, <2>3, <2>4
<1>12. ASSUME NEW i \in 1..Len(r) PROVE \E j \in 1..(k + 1) : r[i].start = s[j].start
  <2>1. CASE i = n + 1
    BY <1>2, <1>3, <1>10, <2>1
  <2>2. CASE i \in 1..n
    <3>1. PICK j \in 1..k : q[i].start = s[j].start
      BY <1>1, <2>2 DEF RegionsOf
    <3> QED BY <1>3, <1>10, <2>2, <3>1
  <2> QED BY <1>3, <1>4, <2>1, <2>2
<1> QED BY <1>7, <1>8, <1>11, <1>12 DEF RegionsOf

LEMMA MergedRegions ==
  ASSUME NEW q, Len(q) \in Nat \ {0}, NEW r, NEW k \in Nat, NEW s,
         Proper(s[k + 1]), \A j \in 1..k : s[j].start <= s[k + 1].start,
         RegionsOf(q, s, k), Merged(q, r, s[k + 1])
  PROVE  RegionsOf(r, s, k + 1)
<1>1. PICK n \in Nat \ {0} : n = Len(q)
  OBVIOUS
<1>2. PICK f : f = s[k + 1]
  OBVIOUS
<1>3. /\ Len(r) = n /\ \A i \in 1..(n - 1) : r[i] = q[i]
      /\ r[n].start = q[n].start
      /\ r[n].end = IF f.end > q[n].end THEN f.end ELSE q[n].end
      /\ f.start <= q[n].end
  BY <1>1, <1>2 DEF Merged
<1>4. /\ \A i \in 1..n : i = n \/ i \in 1..(n - 1)
      /\ \A i \in 1..(n - 1) : i \in 1..n
      /\ n \in 1..n
  OBVIOUS
<1>5. Proper(f) /\ Proper(q[n]) /\ \A i \in 1..n : Proper(q[i])
  BY <1>1, <1>2, <1>4 DEF RegionsOf
<1>6. q[n].start <= f.start
  <2>1. PICK j \in 1..k : q[n].start = s[j].start
    BY <1>1, <1>4 DEF RegionsOf
  <2> QED BY <1>2, <2>1
<1>7. Proper(r[n])
  <2>1. /\ f.end \in Nat /\ f.end <= Width
        /\ q[n].start \in Nat /\ q[n].end \in Nat /\ q[n].start < q[n].end
        /\ q[n].end <= Width /\ q[n].start < Width
    BY <1>5, ProperNumbers
  <2>2. CASE f.end > q[n].end
    <3>1. r[n].start = q[n].start /\ r[n].end = f.end
      BY <1>3, <2>2
    <3>2. \A a, b, c \in Nat : a < b /\ b < c /\ c <= Width /\ a < Width =>
            a \in 0..(Width - 1) /\ c \in (a + 1)..Width
      BY WidthType
    <3>3. q[n].start \in 0..(Width - 1) /\ f.end \in (q[n].start + 1)..Width
      BY <2>1, <2>2, <3>2
    <3> QED BY <3>1, <3>3 DEF Proper
  <2>3. CASE ~(f.end > q[n].end)
    BY <1>3, <2>1, <2>3, WidthType, SMTT(30) DEF Proper
  <2> QED BY <2>2, <2>3
<1>8. \A i \in 1..Len(r) : Proper(r[i])
  BY <1>3, <1>4, <1>5, <1>7
<1>9. Apart(r)
  <2> SUFFICES ASSUME NEW i \in 1..n, NEW j \in 1..n, i < j PROVE r[i].end < r[j].start
    BY <1>3 DEF Apart
  <2>1. i \in 1..(n - 1) /\ q[i].end < q[j].start
    BY <1>1 DEF RegionsOf, Apart
  <2>2. r[i] = q[i] /\ r[j].start = q[j].start
    BY <1>3, <1>4, <2>1
  <2> QED BY <2>1, <2>2
<1>10. /\ \A j \in 1..(k + 1) : j = k + 1 \/ j \in 1..k
       /\ 1..k \subseteq 1..(k + 1) /\ k + 1 \in 1..(k + 1)
  OBVIOUS
<1>11. ASSUME NEW p \in 0..Width
       PROVE  (\E i \in 1..Len(r) : Hit(r[i], p)) <=> \E j \in 1..(k + 1) : Hit(s[j], p)
  <2>1. (\E i \in 1..n : Hit(q[i], p)) <=> \E j \in 1..k : Hit(s[j], p)
    BY <1>1 DEF RegionsOf
  <2>2. Hit(r[n], p) <=> Hit(q[n], p) \/ Hit(f, p)
    <3>1. p \in Int
      BY WidthType
    <3>2. /\ f.start \in Nat /\ f.end \in Nat /\ q[n].start \in Nat /\ q[n].end \in Nat
          /\ f.start < f.end /\ q[n].start < q[n].end
      BY <1>5, ProperNumbers
    <3> QED BY <1>3, <1>6, <3>1, <3>2, SMTT(30) DEF Hit
  <2>3. (\E i \in 1..Len(r) : Hit(r[i], p)) <=> (\E i \in 1..n : Hit(q[i], p)) \/ Hit(f, p)
    BY <1>3, <1>4, <2>2
  <2>4. (\E j \in 1..(k + 1) : Hit(s[j], p)) <=> (\E j \in 1..k : Hit(s[j], p)) \/ Hit(f, p)
    BY <1>2, <1>10
  <2> QED BY <2>1, <2>3, <2>4
<1>12. ASSUME NEW i \in 1..Len(r) PROVE \E j \in 1..(k + 1) : r[i].start = s[j].start
  <2>1. r[i].start = q[i].start /\ i \in 1..n
    BY <1>3, <1>4
  <2>2. PICK j \in 1..k : q[i].start = s[j].start
    BY <1>1, <2>1 DEF RegionsOf
  <2> QED BY <1>10, <2>1, <2>2
<1> QED BY <1>8, <1>9, <1>11, <1>12 DEF RegionsOf

(* From the first finding to the last. *)
LEMMA AllRegions ==
  ASSUME NEW X, NEW n \in Nat, NEW s, NEW f \in [0..n -> Seq(X)], f[0] = <<>>,
         \A i \in 1..n : Proper(s[i]),
         \A i, j \in 1..n : i < j => s[i].start <= s[j].start,
         \A i \in 1..n : Opened(f[i - 1], f[i], s[i]) \/ Merged(f[i - 1], f[i], s[i])
  PROVE  \A k \in 0..n : RegionsOf(f[k], s, k)
<1> DEFINE T == {k \in 0..n : RegionsOf(f[k], s, k)}
<1>1. 0 \in T
  <2>1. Len(f[0]) = 0 /\ 1..0 = {}
    OBVIOUS
  <2> QED BY <2>1 DEF RegionsOf, Apart
<1>2. ASSUME NEW k \in 0..(n - 1), k \in T PROVE k + 1 \in T
  <2>1. k \in 0..n /\ k \in Nat /\ k + 1 \in 0..n /\ k + 1 \in 1..n /\ (k + 1) - 1 = k
    OBVIOUS
  <2>2. PICK q \in Seq(X) : q = f[k]
    BY <2>1
  <2>3. PICK r \in Seq(X) : r = f[k + 1]
    BY <2>1
  <2>4. RegionsOf(q, s, k) /\ (Opened(q, r, s[k + 1]) \/ Merged(q, r, s[k + 1])) /\ Proper(s[k + 1])
    BY <1>2, <2>1, <2>2, <2>3
  <2>5. \A j \in 1..k : s[j].start <= s[k + 1].start
    <3>1. \A j \in 1..k : j \in 1..n /\ j < k + 1
      OBVIOUS
    <3> QED BY <2>1, <3>1
  <2>6. Len(q) \in Nat /\ (q = <<>> => Len(q) = 0) /\ (q # <<>> => Len(q) # 0)
    BY LenProperties, EmptySeq
  <2>7. RegionsOf(r, s, k + 1)
    <3>1. CASE Opened(q, r, s[k + 1])
      BY <2>1, <2>4, <2>6, <3>1, OpenedRegions
    <3>2. CASE Merged(q, r, s[k + 1])
      <4>1. Len(q) \in Nat \ {0}
        BY <2>6, <3>2 DEF Merged
      <4> QED BY <2>1, <2>4, <2>5, <3>2, <4>1, MergedRegions
    <3> QED BY <2>4, <3>1, <3>2
  <2> QED BY <2>1, <2>3, <2>7
<1> HIDE DEF T
<1>3. 0..n \subseteq T
  BY <1>1, <1>2, InductionUpTo
<1> QED BY <1>3 DEF T
(* A region is a card's when one of the spans that begin in it is. *)
Cards(q, s, k) ==
  \A i \in 1..Len(q) : q[i].card <=> \E j \in 1..k : s[j].card /\ Hit(q[i], s[j].start)

LEMMA KeptCards ==
  ASSUME NEW q, Len(q) \in Nat, q = <<>> => Len(q) = 0, q # <<>> => Len(q) # 0,
         NEW r, NEW k \in Nat, NEW s,
         \A j \in 1..(k + 1) : Proper(s[j]), \A j \in 1..k : s[j].start <= s[k + 1].start,
         RegionsOf(q, s, k), Cards(q, s, k), CardKept(q, r, s[k + 1])
  PROVE  Cards(r, s, k + 1)
<1>1. PICK n \in Nat : n = Len(q)
  OBVIOUS
<1>2. PICK f : f = s[k + 1]
  OBVIOUS
<1>3. /\ \A j \in 1..(k + 1) : j = k + 1 \/ j \in 1..k
      /\ 1..k \subseteq 1..(k + 1) /\ k + 1 \in 1..(k + 1)
  OBVIOUS
<1>4. /\ \A i \in 1..n : Proper(q[i])
      /\ \A i, j \in 1..n : i < j => q[i].end < q[j].start
  BY <1>1 DEF RegionsOf, Apart
<1>5. Proper(f) /\ \A j \in 1..k : Proper(s[j]) /\ s[j].start <= f.start
  BY <1>2, <1>3
<1>6. ASSUME NEW j \in 1..k PROVE \E i \in 1..n : Hit(q[i], s[j].start)
  <2>1. s[j].start \in 0..Width /\ Hit(s[j], s[j].start)
    BY <1>5, ProperNumbers, WidthType DEF Hit
  <2> QED BY <1>1, <2>1 DEF RegionsOf
<1>7. CASE Opened(q, r, f) /\ r[n + 1].card = f.card
  <2>1. /\ Len(r) = n + 1 /\ \A i \in 1..n : r[i] = q[i]
        /\ r[n + 1].start = f.start /\ r[n + 1].end = f.end
        /\ n = 0 \/ f.start > q[n].end
    BY <1>1, <1>7 DEF Opened
  <2>2. ASSUME NEW i \in 1..n PROVE ~Hit(q[i], f.start)
    <3>1. n # 0 /\ n \in 1..n
      OBVIOUS
    <3>2. i # n => q[i].end < q[n].start
      BY <1>4, <3>1
    <3>3. Proper(q[i]) /\ Proper(q[n]) /\ f.start > q[n].end
      BY <1>4, <2>1, <3>1
    <3> QED BY <1>5, <3>2, <3>3, ProperNumbers, SMTT(30) DEF Hit
  <2>3. ASSUME NEW i \in 1..Len(r)
        PROVE  r[i].card <=> \E j \in 1..(k + 1) : s[j].card /\ Hit(r[i], s[j].start)
    <3>1. CASE i \in 1..n
      <4>1. r[i] = q[i] /\ ~Hit(r[i], f.start)
        BY <2>1, <2>2, <3>1
      <4>2. q[i].card <=> \E j \in 1..k : s[j].card /\ Hit(q[i], s[j].start)
        BY <1>1, <3>1 DEF Cards
      <4> QED BY <1>2, <1>3, <4>1, <4>2
    <3>2. CASE i = n + 1
      <4>1. Hit(r[i], f.start)
        BY <1>5, <2>1, <3>2, ProperNumbers DEF Hit
      <4>2. ASSUME NEW j \in 1..k PROVE ~Hit(r[i], s[j].start)
        <5>1. PICK m \in 1..n : Hit(q[m], s[j].start)
          BY <1>6
        <5>2. s[j].start # f.start
          BY <2>2, <5>1
        <5>3. s[j].start < f.start
          BY <1>5, <5>2, ProperNumbers
        <5> QED BY <1>5, <2>1, <3>2, <5>3, ProperNumbers DEF Hit
      <4>3. r[i].card = f.card
        BY <1>7, <3>2
      <4> QED BY <1>2, <1>3, <4>1, <4>2, <4>3
    <3>3. i = n + 1 \/ i \in 1..n
      BY <2>1
    <3> QED BY <3>1, <3>2, <3>3
  <2> QED BY <2>3 DEF Cards
<1>8. CASE Merged(q, r, f) /\ (r[n].card <=> q[n].card \/ f.card)
  <2>1. /\ Len(r) = n /\ \A i \in 1..(n - 1) : r[i] = q[i]
        /\ r[n].start = q[n].start
        /\ r[n].end = IF f.end > q[n].end THEN f.end ELSE q[n].end
        /\ n # 0
    BY <1>1, <1>8 DEF Merged
  <2>2. n \in 1..n /\ \A i \in 1..n : i = n \/ (i \in 1..(n - 1) /\ i < n)
    BY <2>1
  <2>3. q[n].start <= f.start
    <3>1. PICK j \in 1..k : q[n].start = s[j].start
      BY <1>1, <2>2 DEF RegionsOf
    <3> QED BY <1>5, <3>1
  <2>4. /\ f.start \in Nat /\ f.end \in Nat /\ q[n].start \in Nat /\ q[n].end \in Nat
        /\ f.start < f.end /\ q[n].start < q[n].end
    BY <1>4, <1>5, <2>2, ProperNumbers
  <2>5. ASSUME NEW i \in 1..(n - 1)
        PROVE  r[i].card <=> \E j \in 1..(k + 1) : s[j].card /\ Hit(r[i], s[j].start)
    <3>1. i \in 1..n /\ r[i] = q[i] /\ q[i].end < q[n].start
      BY <1>4, <2>1, <2>2
    <3>2. ~Hit(r[i], f.start)
      BY <1>4, <2>3, <2>4, <3>1, ProperNumbers, SMTT(30) DEF Hit
    <3>3. q[i].card <=> \E j \in 1..k : s[j].card /\ Hit(q[i], s[j].start)
      BY <1>1, <3>1 DEF Cards
    <3> QED BY <1>2, <1>3, <3>1, <3>2, <3>3
  <2>6. r[n].card <=> \E j \in 1..(k + 1) : s[j].card /\ Hit(r[n], s[j].start)
    <3>1. Hit(r[n], f.start)
      BY <2>1, <2>3, <2>4 DEF Hit
    <3>2. ASSUME NEW j \in 1..k PROVE Hit(r[n], s[j].start) <=> Hit(q[n], s[j].start)
      <4>1. PICK m \in 1..n : Hit(q[m], s[j].start)
        BY <1>6
      <4>2. s[j].start \in Nat /\ Proper(q[m])
        BY <1>4, <1>5, ProperNumbers
      <4>3. CASE m = n
        <5>1. Hit(q[n], s[j].start)
          BY <4>1, <4>3
        <5>2. Hit(r[n], s[j].start)
          BY <2>1, <2>4, <4>2, <5>1, SMTT(30) DEF Hit
        <5> QED BY <5>1, <5>2
      <4>4. CASE m # n
        <5>1. q[m].end < q[n].start
          BY <1>4, <2>2, <4>4
        <5>2. s[j].start < q[n].start
          BY <2>4, <4>1, <4>2, <5>1, ProperNumbers, SMTT(30) DEF Hit
        <5> QED BY <2>1, <2>4, <4>2, <5>2, SMTT(30) DEF Hit
      <4> QED BY <4>3, <4>4
    <3>3. q[n].card <=> \E j \in 1..k : s[j].card /\ Hit(q[n], s[j].start)
      BY <1>1, <2>2 DEF Cards
    <3> HIDE DEF Hit
    <3> QED BY <1>2, <1>3, <1>8, <3>1, <3>2, <3>3
  <2> QED BY <2>1, <2>2, <2>5, <2>6 DEF Cards
<1> QED BY <1>1, <1>2, <1>7, <1>8 DEF CardKept

(* From the first finding to the last. *)
LEMMA AllCards ==
  ASSUME NEW X, NEW n \in Nat, NEW s, NEW f \in [0..n -> Seq(X)], f[0] = <<>>,
         \A i \in 1..n : Proper(s[i]),
         \A i, j \in 1..n : i < j => s[i].start <= s[j].start,
         \A i \in 1..n : CardKept(f[i - 1], f[i], s[i])
  PROVE  RegionsOf(f[n], s, n) /\ Cards(f[n], s, n)
<1>1. \A k \in 0..n : RegionsOf(f[k], s, k)
  <2>1. \A i \in 1..n : Opened(f[i - 1], f[i], s[i]) \/ Merged(f[i - 1], f[i], s[i])
    BY DEF CardKept
  <2> QED BY <2>1, AllRegions
<1> DEFINE T == {k \in 0..n : Cards(f[k], s, k)}
<1>2. 0 \in T
  <2>1. Len(f[0]) = 0 /\ 1..0 = {}
    OBVIOUS
  <2> QED BY <2>1 DEF Cards
<1>3. ASSUME NEW k \in 0..(n - 1), k \in T PROVE k + 1 \in T
  <2>1. k \in 0..n /\ k \in Nat /\ k + 1 \in 0..n /\ k + 1 \in 1..n /\ (k + 1) - 1 = k
    OBVIOUS
  <2>2. PICK q \in Seq(X) : q = f[k]
    BY <2>1
  <2>3. PICK r \in Seq(X) : r = f[k + 1]
    BY <2>1
  <2>4. RegionsOf(q, s, k) /\ Cards(q, s, k) /\ CardKept(q, r, s[k + 1])
    BY <1>1, <1>3, <2>1, <2>2, <2>3
  <2>5. /\ \A j \in 1..(k + 1) : Proper(s[j])
        /\ \A j \in 1..k : s[j].start <= s[k + 1].start
    <3>1. /\ \A j \in 1..k : j \in 1..n /\ j < k + 1
          /\ \A j \in 1..(k + 1) : j \in 1..n
      OBVIOUS
    <3> QED BY <2>1, <3>1
  <2>6. Len(q) \in Nat /\ (q = <<>> => Len(q) = 0) /\ (q # <<>> => Len(q) # 0)
    BY LenProperties, EmptySeq
  <2>7. Cards(r, s, k + 1)
    BY <2>1, <2>4, <2>5, <2>6, KeptCards
  <2> QED BY <2>1, <2>3, <2>7
<1> HIDE DEF T
<1>4. 0..n \subseteq T
  BY <1>2, <1>3, InductionUpTo
<1>5. n \in T /\ n \in 0..n
  BY <1>4
<1> QED BY <1>1, <1>5 DEF T

(* What the regions q say of the findings: where a token stands and which  *)
(* characters are kept.                                                    *)
Describes(q, findings) ==
  /\ \A i \in 1..Len(q) : Proper(q[i])
  /\ Apart(q)
  /\ \A p \in 0..(Width - 1) :
       /\ TokenAt(findings, p) <=> \E i \in 1..Len(q) : q[i].start = p
       /\ KeptAt(findings, p) <=> ~\E i \in 1..Len(q) : Hit(q[i], p)

(* The spans s are those of the findings. *)
SpansOf(s, n, findings) ==
  /\ \A f \in findings : \E j \in 1..n : s[j].start = f.start /\ s[j].end = f.end
  /\ \A j \in 1..n : \E f \in findings : s[j].start = f.start /\ s[j].end = f.end

LEMMA RegionsDescribe ==
  ASSUME NEW q, Len(q) \in Nat, NEW n \in Nat, NEW s, NEW findings,
         \A f \in findings : Proper(f), SpansOf(s, n, findings), RegionsOf(q, s, n)
  PROVE  Describes(q, findings)
<1>1. PICK l \in Nat : l = Len(q)
  OBVIOUS
<1>2. /\ \A i \in 1..l : Proper(q[i])
      /\ \A i, j \in 1..l : i < j => q[i].end < q[j].start
  BY <1>1 DEF RegionsOf, Apart
<1>3. ASSUME NEW p \in 0..Width
      PROVE  (\E i \in 1..l : Hit(q[i], p)) <=> \E f \in findings : Hit(f, p)
  <2>1. (\E i \in 1..l : Hit(q[i], p)) <=> \E j \in 1..n : Hit(s[j], p)
    BY <1>1 DEF RegionsOf
  <2>2. (\E j \in 1..n : Hit(s[j], p)) <=> \E f \in findings : Hit(f, p)
    BY DEF SpansOf, Hit
  <2> QED BY <2>1, <2>2
<1>4. \A p \in 0..(Width - 1) : p \in 0..Width
  BY WidthType
<1>5. ASSUME NEW p \in 0..(Width - 1)
      PROVE  KeptAt(findings, p) <=> ~\E i \in 1..l : Hit(q[i], p)
  BY <1>3, <1>4 DEF KeptAt, Hit
<1>6. ASSUME NEW p \in 0..(Width - 1), NEW i \in 1..l, q[i].start = p
      PROVE  TokenAt(findings, p)
  <2>1. \E f \in findings : f.start = p
    <3>1. PICK j \in 1..n : q[i].start = s[j].start
      BY <1>1 DEF RegionsOf
    <3> QED BY <1>6, <3>1 DEF SpansOf
  <2>2. ASSUME NEW f \in findings, f.start < p, p <= f.end PROVE FALSE
    <3>1. p \in Nat /\ f.start \in Nat /\ f.end \in Nat
      BY <2>2, ProperNumbers, WidthType
    <3>2. p - 1 \in 0..Width /\ Hit(f, p - 1)
      BY <2>2, <3>1, WidthType DEF Hit
    <3>3. PICK m \in 1..l : Hit(q[m], p - 1)
      BY <1>3, <3>2
    <3>4. /\ q[m].start \in Nat /\ q[m].end \in Nat /\ q[i].end \in Nat /\ q[i].start < q[i].end
      BY <1>2, ProperNumbers
    <3>5. q[m].start < p /\ p <= q[m].end
      BY <3>1, <3>3, <3>4, SMTT(30) DEF Hit
    <3>6. m # i
      BY <1>6, <3>1, <3>5
    <3>7. q[m].end < q[i].start \/ q[i].end < q[m].start
      BY <1>2, <3>6
    <3>8. ~(q[m].end < q[i].start)
      BY <1>6, <3>1, <3>4, <3>5
    <3>9. ~(q[i].end < q[m].start)
      BY <1>6, <3>1, <3>4, <3>5
    <3> QED BY <3>7, <3>8, <3>9
  <2> QED BY <2>1, <2>2 DEF TokenAt
<1>7. ASSUME NEW p \in 0..(Width - 1), TokenAt(findings, p)
      PROVE  \E i \in 1..l : q[i].start = p
  <2>1. PICK f \in findings : f.start = p
    BY <1>7 DEF TokenAt
  <2>2. Hit(f, p) /\ p \in Nat
    BY <2>1, ProperNumbers, WidthType DEF Hit
  <2>3. PICK i \in 1..l : Hit(q[i], p)
    BY <1>3, <1>4, <2>2
  <2>4. q[i].start \in Nat /\ q[i].end \in Nat
    BY <1>2, ProperNumbers
  <2>5. ASSUME q[i].start # p PROVE FALSE
    <3>1. p - 1 \in 0..Width /\ Hit(q[i], p - 1)
      BY <2>2, <2>3, <2>4, <2>5, WidthType DEF Hit
    <3>2. PICK g \in findings : Hit(g, p - 1)
      BY <1>3, <3>1
    <3>3. g.start \in Nat /\ g.end \in Nat
      BY ProperNumbers
    <3>4. g.start < p /\ p <= g.end
      BY <2>2, <3>2, <3>3 DEF Hit
    <3> QED BY <1>7, <3>4 DEF TokenAt
  <2> QED BY <2>5
<1> QED BY <1>1, <1>2, <1>5, <1>6, <1>7 DEF Describes, Apart

(* The regions of the gateway. *)
LEMMA GatewayRegions ==
  ASSUME NEW findings, \A f \in findings : Proper(f)
  PROVE  Regions(findings) \in Seq(Span) /\ Describes(Regions(findings), findings)
<1> DEFINE S == Spans(findings)
           n == Cardinality(S)
           s == Sorted(S)
<1>1. S \in SUBSET Span
  <2>1. ASSUME NEW f \in findings PROVE [start |-> f.start, end |-> f.end] \in Span
    <3>1. f.start \in 0..Width /\ f.end \in 0..Width
      BY ProperNumbers, WidthType
    <3> QED BY <3>1 DEF Span
  <2> QED BY <2>1 DEF Spans
<1>2. IsFiniteSet(S)
  BY <1>1, SpansFinite, FS_Subset
<1>3. /\ \A x \in S : x.start \in Nat /\ x.end \in Nat
      /\ \A x, y \in S : x.start = y.start /\ x.end = y.end => x = y
  BY <1>1, WidthType DEF Span
<1>4. \A x \in S : \E f \in findings : x.start = f.start /\ x.end = f.end
  BY DEF Spans
<1>5. \A f \in findings : \E x \in S : x.start = f.start /\ x.end = f.end
  <2> SUFFICES ASSUME NEW f \in findings PROVE \E x \in S : x.start = f.start /\ x.end = f.end
    OBVIOUS
  <2> DEFINE x == [start |-> f.start, end |-> f.end]
  <2>1. x \in S
    BY DEF Spans
  <2>2. x.start = f.start /\ x.end = f.end
    OBVIOUS
  <2> HIDE DEF x, S
  <2> QED BY <2>1, <2>2
<1>0. Regions(findings) = FoldLeft(Merge, <<>>, s)
  BY DEF Regions
<1> HIDE DEF S
<1>6. /\ n \in Nat /\ s \in [1..n -> S]
      /\ \A i, j \in 1..n : i < j => s[i].start <= s[j].start
      /\ \A x \in S : \E i \in 1..n : s[i] = x
  BY <1>2, <1>3, SortedSpans
<1> HIDE DEF n, s
<1>7. s \in [1..n -> Span] /\ SpansOf(s, n, findings) /\ \A i \in 1..n : Proper(s[i])
  <2>1. s \in [1..n -> Span]
    BY <1>1, <1>6
  <2>2. SpansOf(s, n, findings)
    <3>1. \A j \in 1..n : \E f \in findings : s[j].start = f.start /\ s[j].end = f.end
      BY <1>4, <1>6
    <3>2. \A f \in findings : \E j \in 1..n : s[j].start = f.start /\ s[j].end = f.end
      BY <1>5, <1>6
    <3> QED BY <3>1, <3>2 DEF SpansOf
  <2>3. \A i \in 1..n : Proper(s[i])
    BY <2>2 DEF SpansOf, Proper
  <2> QED BY <2>1, <2>2, <2>3
<1>8. PICK f \in [0..n -> Seq(Span)] :
        /\ f[0] = <<>>
        /\ \A i \in 1..n : Opened(f[i - 1], f[i], s[i]) \/ Merged(f[i - 1], f[i], s[i])
        /\ FoldLeft(Merge, <<>>, s) = f[n]
  BY <1>6, <1>7, MergeSteps
<1>9. RegionsOf(f[n], s, n) /\ f[n] \in Seq(Span) /\ Len(f[n]) \in Nat
  <2>1. n \in 0..n
    BY <1>6
  <2>2. \A k \in 0..n : RegionsOf(f[k], s, k)
    BY <1>6, <1>7, <1>8, AllRegions
  <2> QED BY <2>1, <2>2, LenProperties
<1>10. Describes(f[n], findings)
  BY <1>6, <1>7, <1>9, RegionsDescribe
<1> QED BY <1>0, <1>8, <1>9, <1>10

(* And those of the facade, for findings it does not block, with the words *)
(* for a card where one of their findings is a card's.                     *)
LEMMA FacadeRegions ==
  ASSUME NEW findings, \A f \in findings : Proper(f), \A f \in findings : ~IsBlock(f)
  PROVE  /\ CardRegions(findings) \in Seq(CardSpan)
         /\ Describes(CardRegions(findings), findings)
         /\ \A i \in 1..Len(CardRegions(findings)) :
              CardRegions(findings)[i].card
                <=> \E f \in findings : /\ f.detector = CreditCard
                                        /\ Hit(CardRegions(findings)[i], f.start)
<1> DEFINE S == Sensitive(findings)
           n == Cardinality(S)
           s == Sorted(S)
           card(f) == \E g \in findings : /\ g.start = f.start /\ g.end = f.end
                                          /\ g.detector = CreditCard
<1>0. CardRegions(findings) = FoldLeft(MergeCard, <<>>, s)
  BY DEF CardRegions
<1>a. S = {[start |-> f.start, end |-> f.end, card |-> card(f)] : f \in findings}
  BY DEF Sensitive
<1> HIDE DEF S
<1>1. S \in SUBSET CardSpan
  <2>1. ASSUME NEW f \in findings PROVE [start |-> f.start, end |-> f.end, card |-> card(f)] \in CardSpan
    <3>1. f.start \in 0..Width /\ f.end \in 0..Width
      BY ProperNumbers, WidthType
    <3>2. card(f) \in BOOLEAN
      OBVIOUS
    <3> HIDE DEF card
    <3> QED BY <3>1, <3>2 DEF CardSpan
  <2> QED BY <1>a, <2>1
<1>2. IsFiniteSet(S)
  BY <1>1, SpansFinite, FS_Subset
<1>4. \A x \in S : \E f \in findings : x.start = f.start /\ x.end = f.end /\ (x.card <=> card(f))
  BY <1>a
<1>5. \A f \in findings : \E x \in S : x.start = f.start /\ x.end = f.end /\ (x.card <=> card(f))
  <2> SUFFICES ASSUME NEW f \in findings
               PROVE  \E x \in S : x.start = f.start /\ x.end = f.end /\ (x.card <=> card(f))
    OBVIOUS
  <2> HIDE DEF card
  <2> DEFINE x == [start |-> f.start, end |-> f.end, card |-> card(f)]
  <2>1. x \in S
    BY <1>a
  <2>2. x.start = f.start /\ x.end = f.end /\ x.card = card(f)
    OBVIOUS
  <2> HIDE DEF x
  <2> QED BY <2>1, <2>2
<1>3. /\ \A x \in S : x.start \in Nat /\ x.end \in Nat
      /\ \A x, y \in S : x.start = y.start /\ x.end = y.end => x = y
  <2>1. \A x \in S : x.start \in Nat /\ x.end \in Nat
    BY <1>1, WidthType DEF CardSpan
  <2>2. ASSUME NEW x \in S, NEW y \in S, x.start = y.start, x.end = y.end PROVE x = y
    <3>1. PICK f \in findings : x = [start |-> f.start, end |-> f.end, card |-> card(f)]
      BY <1>a
    <3>2. PICK g \in findings : y = [start |-> g.start, end |-> g.end, card |-> card(g)]
      BY <1>a
    <3>3. f.start = g.start /\ f.end = g.end
      BY <2>2, <3>1, <3>2
    <3>4. card(f) = card(g)
      BY <3>3
    <3> HIDE DEF card
    <3> QED BY <3>1, <3>2, <3>3, <3>4
  <2> QED BY <2>1, <2>2
<1>6. /\ n \in Nat /\ s \in [1..n -> S]
      /\ \A i, j \in 1..n : i < j => s[i].start <= s[j].start
      /\ \A x \in S : \E i \in 1..n : s[i] = x
  BY <1>2, <1>3, SortedSpans
<1> HIDE DEF n, s
<1>7. s \in [1..n -> CardSpan] /\ SpansOf(s, n, findings) /\ \A i \in 1..n : Proper(s[i])
  <2>1. s \in [1..n -> CardSpan]
    BY <1>1, <1>6
  <2>2. SpansOf(s, n, findings)
    <3>1. \A j \in 1..n : \E f \in findings : s[j].start = f.start /\ s[j].end = f.end
      BY <1>4, <1>6
    <3>2. \A f \in findings : \E j \in 1..n : s[j].start = f.start /\ s[j].end = f.end
      BY <1>5, <1>6
    <3> QED BY <3>1, <3>2 DEF SpansOf
  <2>3. \A i \in 1..n : Proper(s[i])
    BY <2>2 DEF SpansOf, Proper
  <2> QED BY <2>1, <2>2, <2>3
<1>8. PICK g \in [0..n -> Seq(CardSpan)] :
        /\ g[0] = <<>>
        /\ \A i \in 1..n : CardKept(g[i - 1], g[i], s[i])
        /\ FoldLeft(MergeCard, <<>>, s) = g[n]
  BY <1>6, <1>7, MergeCardSteps
<1>9. RegionsOf(g[n], s, n) /\ Cards(g[n], s, n)
  BY <1>6, <1>7, <1>8, AllCards
<1>10. PICK q \in Seq(CardSpan) : q = g[n] /\ Len(q) \in Nat
  <2>1. n \in 0..n
    BY <1>6
  <2> QED BY <2>1, LenProperties
<1>11. Describes(q, findings)
  BY <1>6, <1>7, <1>9, <1>10, RegionsDescribe
<1>12. ASSUME NEW i \in 1..Len(q)
       PROVE  q[i].card <=> \E f \in findings : f.detector = CreditCard /\ Hit(q[i], f.start)
  <2>1. q[i].card <=> \E j \in 1..n : s[j].card /\ Hit(q[i], s[j].start)
    BY <1>9, <1>10 DEF Cards
  <2>2. ASSUME NEW j \in 1..n, s[j].card, Hit(q[i], s[j].start)
        PROVE  \E f \in findings : f.detector = CreditCard /\ Hit(q[i], f.start)
    <3>1. PICK f \in findings : s[j].start = f.start /\ card(f)
      BY <1>4, <1>6, <2>2
    <3> QED BY <2>2, <3>1
  <2>3. ASSUME NEW f \in findings, f.detector = CreditCard, Hit(q[i], f.start)
        PROVE  \E j \in 1..n : s[j].card /\ Hit(q[i], s[j].start)
    <3>1. card(f)
      BY <2>3
    <3>2. PICK x \in S : x.start = f.start /\ x.card
      BY <1>5, <3>1
    <3>3. PICK j \in 1..n : s[j] = x
      BY <1>6
    <3> QED BY <2>3, <3>2, <3>3
  <2> QED BY <2>1, <2>2, <2>3
<1> QED BY <1>0, <1>8, <1>10, <1>11, <1>12

(* What a redacted text is made of: for each position its token, the T of  *)
(* the position, and its character.                                        *)
Pieces(T, findings) ==
  [i \in 1..Width |->
    (IF TokenAt(findings, i - 1) THEN <<T[i - 1]>> ELSE <<>>) \o
    (IF KeptAt(findings, i - 1) THEN <<i - 1>> ELSE <<>>)]

LEMMA PiecesType ==
  ASSUME NEW T \in [0..(Width - 1) -> Int], NEW findings
  PROVE  Pieces(T, findings) \in [1..Width -> Seq(Int)]
<1> SUFFICES ASSUME NEW i \in 1..Width
             PROVE  (IF TokenAt(findings, i - 1) THEN <<T[i - 1]>> ELSE <<>>) \o
                    (IF KeptAt(findings, i - 1) THEN <<i - 1>> ELSE <<>>) \in Seq(Int)
  BY DEF Pieces
<1>1. i - 1 \in 0..(Width - 1) /\ i - 1 \in Int
  BY WidthType
<1>2. T[i - 1] \in Int
  BY <1>1
<1>3. <<T[i - 1]>> \in Seq(Int) /\ <<i - 1>> \in Seq(Int) /\ <<>> \in Seq(Int)
  BY <1>1, <1>2
<1> DEFINE a == IF TokenAt(findings, i - 1) THEN <<T[i - 1]>> ELSE <<>>
           b == IF KeptAt(findings, i - 1) THEN <<i - 1>> ELSE <<>>
<1>4. a \in Seq(Int) /\ b \in Seq(Int)
  BY <1>3
<1> HIDE DEF a, b
<1>5. a \o b \in Seq(Int)
  BY <1>4, ConcatProperties
<1> QED BY <1>5 DEF a, b

(* A position is kept, opens a region, or is within one. *)
PieceAt(ss, T, q, p) ==
  /\ (\A i \in 1..Len(q) : ~Hit(q[i], p)) => ss[p + 1] = <<p>>
  /\ \A i \in 1..Len(q) : p = q[i].start => ss[p + 1] = <<T[p]>>
  /\ \A i \in 1..Len(q) : q[i].start < p /\ p < q[i].end => ss[p + 1] = <<>>

LEMMA PieceOf ==
  ASSUME NEW q, NEW findings, Describes(q, findings),
         NEW T \in [0..(Width - 1) -> Int], NEW p \in 0..(Width - 1)
  PROVE  PieceAt(Pieces(T, findings), T, q, p)
<1> DEFINE a == IF TokenAt(findings, p) THEN <<T[p]>> ELSE <<>>
           b == IF KeptAt(findings, p) THEN <<p>> ELSE <<>>
<1>1. Pieces(T, findings)[p + 1] = a \o b
  <2>1. p + 1 \in 1..Width /\ (p + 1) - 1 = p
    BY WidthType
  <2> QED BY <2>1 DEF Pieces
<1>2. <<p>> \in Seq(Int) /\ <<T[p]>> \in Seq(Int)
  BY WidthType
<1>3. <<>> \o <<p>> = <<p>> /\ <<T[p]>> \o <<>> = <<T[p]>> /\ <<>> \o <<>> = <<>>
  BY <1>2, ConcatEmptySeq
<1>4. /\ TokenAt(findings, p) <=> \E i \in 1..Len(q) : q[i].start = p
      /\ KeptAt(findings, p) <=> ~\E i \in 1..Len(q) : Hit(q[i], p)
  BY DEF Describes
<1>5. \A i \in 1..Len(q) : /\ q[i].start \in Nat /\ q[i].end \in Nat
                           /\ q[i].start < q[i].end
  BY ProperNumbers DEF Describes
<1>6. ASSUME \A i \in 1..Len(q) : ~Hit(q[i], p) PROVE Pieces(T, findings)[p + 1] = <<p>>
  <2>1. KeptAt(findings, p)
    BY <1>4, <1>6
  <2>2. ~TokenAt(findings, p)
    BY <1>4, <1>5, <1>6 DEF Hit
  <2>3. a \o b = <<p>>
    BY <1>3, <2>1, <2>2
  <2> QED BY <1>1, <2>3
<1>7. ASSUME NEW i \in 1..Len(q), Hit(q[i], p)
      PROVE  /\ p = q[i].start => Pieces(T, findings)[p + 1] = <<T[p]>>
             /\ q[i].start < p => Pieces(T, findings)[p + 1] = <<>>
  <2>1. ~KeptAt(findings, p)
    BY <1>4, <1>7
  <2>2. ASSUME p = q[i].start PROVE a \o b = <<T[p]>>
    BY <1>3, <1>4, <2>1, <2>2
  <2>3. ASSUME q[i].start < p PROVE ~TokenAt(findings, p)
    <3> SUFFICES ASSUME NEW j \in 1..Len(q), q[j].start = p PROVE FALSE
      BY <1>4
    <3>1. i # j
      BY <1>5, <2>3
    <3>2. i \in Int /\ j \in Int
      OBVIOUS
    <3>3. q[i].end < q[j].start \/ q[j].end < q[i].start
      BY <3>1, <3>2 DEF Describes, Apart
    <3> QED BY <1>5, <1>7, <2>3, <3>3 DEF Hit
  <2>4. ASSUME q[i].start < p PROVE a \o b = <<>>
    BY <1>3, <2>1, <2>3, <2>4
  <2> QED BY <1>1, <2>2, <2>4
<1>8. ASSUME NEW i \in 1..Len(q), p = q[i].start \/ (q[i].start < p /\ p < q[i].end)
      PROVE  Hit(q[i], p)
  BY <1>5, <1>8 DEF Hit
<1> HIDE DEF a, b
<1>9. (\A i \in 1..Len(q) : ~Hit(q[i], p)) => Pieces(T, findings)[p + 1] = <<p>>
  BY <1>6
<1>10. ASSUME NEW i \in 1..Len(q), p = q[i].start PROVE Pieces(T, findings)[p + 1] = <<T[p]>>
  BY <1>7, <1>8, <1>10
<1>11. ASSUME NEW i \in 1..Len(q), q[i].start < p, p < q[i].end
       PROVE  Pieces(T, findings)[p + 1] = <<>>
  BY <1>7, <1>8, <1>11
<1> QED BY <1>9, <1>10, <1>11 DEF PieceAt

(* A position of a stretch. *)
LEMMA StretchPosition ==
  ASSUME NEW w \in Nat, NEW lo \in Nat, NEW hi \in Nat, lo <= hi, hi <= w,
         NEW k \in 0..((hi - lo) - 1), NEW p, p = lo + k
  PROVE  /\ p \in Nat /\ k \in Nat /\ p \in lo..(hi - 1) /\ p \in 0..w
         /\ p + 1 \in 1..w /\ p + 1 \in 0..w /\ (p + 1) - 1 = p
         /\ lo + (k + 1) = p + 1 /\ k + 1 \in 0..(hi - lo) /\ k \in 0..(hi - lo)
<1>1. k \in Nat /\ k < hi - lo
  OBVIOUS
<1>2. p \in Nat /\ p < hi
  BY <1>1
<1>3. p \in lo..(hi - 1) /\ p \in 0..w
  BY <1>1, <1>2
<1>4. p + 1 \in 1..w /\ p + 1 \in 0..w /\ (p + 1) - 1 = p
  BY <1>1, <1>2
<1>5. lo + (k + 1) = p + 1
  BY <1>1
<1>6. k + 1 \in 0..(hi - lo) /\ k \in 0..(hi - lo)
  BY <1>1
<1> QED BY <1>1, <1>2, <1>3, <1>4, <1>5, <1>6

(* g is the text that the pieces ss make up to each position. *)
PutTogether(g, ss) == \A i \in 1..Width : g[i] = g[i - 1] \o ss[i]

AllKept(ss, lo, hi) == \A p \in lo..(hi - 1) : ss[p + 1] = <<p>>

AllCut(ss, lo, hi) == \A p \in lo..(hi - 1) : ss[p + 1] = <<>>

LEMMA IntsAssociate ==
  \A x, y, z \in Seq(Int) : Associates(x, y, z)
BY ConcatAssociates

(* The text of a stretch whose positions are all kept, *)
LEMMA KeptStretch ==
  ASSUME NEW g \in [0..Width -> Seq(Int)], NEW ss, PutTogether(g, ss),
         NEW lo \in 0..Width, NEW hi \in lo..Width, AllKept(ss, lo, hi)
  PROVE  g[hi] = g[lo] \o Slice(lo, hi)
<1>0. lo \in Nat /\ hi \in Nat /\ lo <= hi /\ hi <= Width /\ hi - lo \in Nat
  BY WidthType
<1> DEFINE K == {k \in 0..(hi - lo) : g[lo + k] = g[lo] \o Slice(lo, lo + k)}
<1>1. 0 \in K
  <2>1. Slice(lo, lo) \in Seq(Int) /\ Len(Slice(lo, lo)) = 0
    BY SliceType, <1>0
  <2>2. Slice(lo, lo) = <<>>
    BY <2>1, EmptySeq
  <2>3. g[lo] \in Seq(Int) /\ g[lo] \o <<>> = g[lo]
    BY ConcatEmptySeq
  <2> QED BY <1>0, <2>2, <2>3
<1>2. ASSUME NEW k \in 0..((hi - lo) - 1), k \in K PROVE k + 1 \in K
  <2>1. PICK p \in Nat : p = lo + k
    BY <1>0
  <2>2. /\ p \in lo..(hi - 1) /\ p + 1 \in 1..Width /\ (p + 1) - 1 = p /\ lo + (k + 1) = p + 1
        /\ k + 1 \in 0..(hi - lo) /\ p \in 0..Width /\ p + 1 \in 0..Width
    BY <1>0, <2>1, WidthType, StretchPosition
  <2>3. g[p + 1] = g[p] \o <<p>>
    BY <2>2 DEF PutTogether, AllKept
  <2>4. g[p] = g[lo] \o Slice(lo, p)
    BY <1>2, <2>1
  <2>5. /\ Slice(lo, p) \in Seq(Int) /\ Slice(lo, p + 1) \in Seq(Int)
        /\ Len(Slice(lo, p)) = k /\ Len(Slice(lo, p + 1)) = k + 1
        /\ \A i \in 1..k : Slice(lo, p)[i] = lo + i - 1
        /\ \A i \in 1..(k + 1) : Slice(lo, p + 1)[i] = lo + i - 1
    <3>1. /\ Slice(lo, p) \in Seq(Int)
          /\ Len(Slice(lo, p)) = IF lo <= p THEN p - lo ELSE 0
          /\ \A i \in 1..Len(Slice(lo, p)) : Slice(lo, p)[i] = lo + i - 1
      BY <2>2, SliceType
    <3>2. /\ Slice(lo, p + 1) \in Seq(Int)
          /\ Len(Slice(lo, p + 1)) = IF lo <= p + 1 THEN (p + 1) - lo ELSE 0
          /\ \A i \in 1..Len(Slice(lo, p + 1)) : Slice(lo, p + 1)[i] = lo + i - 1
      BY <2>2, SliceType
    <3>3. lo <= p /\ p - lo = k /\ lo <= p + 1 /\ (p + 1) - lo = k + 1
      BY <1>0, <2>1
    <3> QED BY <3>1, <3>2, <3>3
  <2>6. Slice(lo, p + 1) = Slice(lo, p) \o <<p>>
    <3>1. PICK a \in Seq(Int) : a = Slice(lo, p)
      BY <2>5
    <3>2. PICK b \in Seq(Int) : b = Slice(lo, p + 1)
      BY <2>5
    <3>3. a \o <<p>> = Append(a, p) /\ Append(a, p) \in Seq(Int)
      BY <2>1, AppendIsConcat
    <3>4. Len(Append(a, p)) = k + 1 /\ \A i \in 1..(k + 1) : Append(a, p)[i] = b[i]
      <4>1. /\ Len(a) = k /\ Len(Append(a, p)) = k + 1
            /\ \A i \in 1..k : Append(a, p)[i] = a[i]
            /\ Append(a, p)[k + 1] = p
        BY <2>1, <2>5, <3>1, AppendProperties, SMTT(30)
      <4>2. b[k + 1] = p /\ \A i \in 1..k : b[i] = a[i]
        <5>1. k + 1 \in 1..(k + 1) /\ \A i \in 1..k : i \in 1..(k + 1)
          OBVIOUS
        <5>2. lo + (k + 1) - 1 = p
          BY <1>0, <2>1
        <5> QED BY <2>5, <3>1, <3>2, <5>1, <5>2
      <4>3. \A i \in 1..(k + 1) : i = k + 1 \/ i \in 1..k
        OBVIOUS
      <4> QED BY <4>1, <4>2, <4>3
    <3>5. Append(a, p) = b
      BY <2>5, <3>2, <3>3, <3>4, SeqEqual
    <3> QED BY <3>1, <3>2, <3>3, <3>5
  <2>7. (g[lo] \o Slice(lo, p)) \o <<p>> = g[lo] \o (Slice(lo, p) \o <<p>>)
    <3>1. PICK a \in Seq(Int) : a = g[lo]
      OBVIOUS
    <3>2. PICK b \in Seq(Int) : b = Slice(lo, p)
      BY <2>5
    <3>0. p \in Int
      BY <2>1
    <3>c. <<p>> \in Seq(Int)
      BY <3>0
    <3>3. PICK c \in Seq(Int) : c = <<p>>
      BY <3>c
    <3>4. (a \o b) \o c = a \o (b \o c)
      <4>1. Associates(a, b, c)
        BY IntsAssociate
      <4> QED BY <4>1 DEF Associates
    <3> QED BY <3>1, <3>2, <3>3, <3>4
  <2> QED BY <2>2, <2>3, <2>4, <2>6, <2>7
<1> HIDE DEF K
<1>3. 0..(hi - lo) \subseteq K
  BY <1>0, <1>1, <1>2, InductionUpTo
<1>4. hi - lo \in K /\ lo + (hi - lo) = hi
  BY <1>0, <1>3
<1> QED BY <1>4 DEF K

(* and of one that is cut out. *)
LEMMA CutStretch ==
  ASSUME NEW g \in [0..Width -> Seq(Int)], NEW ss, PutTogether(g, ss),
         NEW lo \in 0..Width, NEW hi \in lo..Width, AllCut(ss, lo, hi)
  PROVE  g[hi] = g[lo]
<1>0. lo \in Nat /\ hi \in Nat /\ lo <= hi /\ hi <= Width /\ hi - lo \in Nat
  BY WidthType
<1> DEFINE K == {k \in 0..(hi - lo) : g[lo + k] = g[lo]}
<1>1. 0 \in K
  BY <1>0
<1>2. ASSUME NEW k \in 0..((hi - lo) - 1), k \in K PROVE k + 1 \in K
  <2>1. PICK p \in Nat : p = lo + k
    BY <1>0
  <2>2. /\ p \in lo..(hi - 1) /\ p + 1 \in 1..Width /\ (p + 1) - 1 = p /\ lo + (k + 1) = p + 1
        /\ k + 1 \in 0..(hi - lo) /\ p \in 0..Width
    BY <1>0, <2>1, WidthType, StretchPosition
  <2>3. g[p + 1] = g[p] \o <<>> /\ g[p] \in Seq(Int)
    BY <2>2 DEF PutTogether, AllCut
  <2>4. g[p + 1] = g[p]
    BY <2>3, ConcatEmptySeq
  <2> QED BY <1>2, <2>1, <2>2, <2>4
<1> HIDE DEF K
<1>3. 0..(hi - lo) \subseteq K
  BY <1>0, <1>1, <1>2, InductionUpTo
<1>4. hi - lo \in K /\ lo + (hi - lo) = hi
  BY <1>0, <1>3
<1> QED BY <1>4 DEF K

(* No region hits a position from lo up to hi. *)
Untouched(q, lo, hi) ==
  \A p \in lo..(hi - 1) : p \in 0..(Width - 1) /\ \A j \in 1..Len(q) : ~Hit(q[j], p)

LEMMA UntouchedKept ==
  ASSUME NEW q, NEW findings, Describes(q, findings), NEW T \in [0..(Width - 1) -> Int],
         NEW lo, NEW hi, Untouched(q, lo, hi)
  PROVE  AllKept(Pieces(T, findings), lo, hi)
<1> SUFFICES ASSUME NEW p \in lo..(hi - 1) PROVE Pieces(T, findings)[p + 1] = <<p>>
  BY DEF AllKept
<1>1. p \in 0..(Width - 1) /\ \A j \in 1..Len(q) : ~Hit(q[j], p)
  BY DEF Untouched
<1>2. PieceAt(Pieces(T, findings), T, q, p)
  BY <1>1, PieceOf
<1> QED BY <1>1, <1>2 DEF PieceAt

(* What is inside a region is inside the text. *)
LEMMA Inside ==
  ASSUME NEW w \in Nat, NEW a \in Nat, NEW b \in Nat, b <= w, NEW p \in (a + 1)..(b - 1)
  PROVE  p \in 0..(w - 1) /\ a < p /\ p < b
OBVIOUS

(* Between the end of a region and the start of the next nothing is hit. *)
EndOf(q, k) == IF k = 0 THEN 0 ELSE q[k].end

StartAfter(q, k) == IF k = Len(q) THEN Width ELSE q[k + 1].start

LEMMA KeptBetween ==
  ASSUME NEW q, NEW n \in Nat, Len(q) = n, Apart(q), \A i \in 1..n : Proper(q[i]),
         NEW k \in 0..n
  PROVE  /\ EndOf(q, k) \in 0..Width
         /\ StartAfter(q, k) \in EndOf(q, k)..Width /\ StartAfter(q, k) \in 0..Width
         /\ Untouched(q, EndOf(q, k), StartAfter(q, k))
<1>l. PICK lo : lo = EndOf(q, k)
  OBVIOUS
<1>h. PICK hi : hi = StartAfter(q, k)
  OBVIOUS
<1>d. /\ lo = IF k = 0 THEN 0 ELSE q[k].end
      /\ hi = IF k = n THEN Width ELSE q[k + 1].start
  BY <1>l, <1>h DEF EndOf, StartAfter
<1>1. \A i \in 1..n : /\ q[i].start \in Nat /\ q[i].end \in Nat
                      /\ q[i].start < q[i].end /\ q[i].end <= Width
  BY ProperNumbers
<1>2. \A i, j \in 1..n : i < j => q[i].end < q[j].start
  BY DEF Apart
<1>3. lo \in Nat /\ lo <= Width
  BY <1>1, <1>d, WidthType
<1>4. hi \in Nat /\ hi <= Width
  <2>1. CASE k = n
    BY <1>d, <2>1, WidthType
  <2>2. CASE k # n
    <3>1. k + 1 \in 1..n
      BY <2>2
    <3> QED BY <1>1, <1>d, <2>2, <3>1, WidthType
  <2> QED BY <2>1, <2>2
<1>5. lo <= hi
  <2>1. CASE k = 0
    BY <1>4, <1>d, <2>1
  <2>2. CASE k # 0 /\ k = n
    BY <1>1, <1>d, <2>2, WidthType
  <2>3. CASE k # 0 /\ k # n
    <3>1. k \in 1..n /\ k + 1 \in 1..n /\ k < k + 1
      BY <2>3
    <3>2. q[k].end < q[k + 1].start
      BY <1>2, <3>1
    <3> QED BY <1>1, <1>d, <2>3, <3>1, <3>2
  <2> QED BY <2>1, <2>2, <2>3
<1>6. ASSUME NEW p \in lo..(hi - 1) PROVE p \in 0..(Width - 1)
  BY <1>3, <1>4, WidthType
<1>7. ASSUME NEW p \in lo..(hi - 1), NEW j \in 1..n, Hit(q[j], p) PROVE FALSE
  <2>0. p \in Nat /\ lo <= p /\ p < hi
    BY <1>3, <1>4
  <2>1. q[j].start <= p /\ p < q[j].end
    BY <1>7 DEF Hit
  <2>2. CASE j <= k
    <3>1. k # 0 /\ k \in 1..n /\ lo = q[k].end
      BY <1>d, <2>2
    <3>2. CASE j = k
      BY <1>1, <2>0, <2>1, <3>1, <3>2
    <3>3. CASE j < k
      <4>1. q[j].end < q[k].start
        BY <1>2, <3>1, <3>3
      <4> QED BY <1>1, <2>0, <2>1, <3>1, <4>1
    <3> QED BY <2>2, <3>2, <3>3
  <2>3. CASE k < j
    <3>1. k # n /\ k + 1 \in 1..n /\ hi = q[k + 1].start
      BY <1>d, <2>3
    <3>2. CASE j = k + 1
      BY <1>1, <2>0, <2>1, <3>1, <3>2
    <3>3. CASE k + 1 < j
      <4>1. q[k + 1].end < q[j].start
        BY <1>2, <3>1, <3>3
      <4> QED BY <1>1, <2>0, <2>1, <3>1, <4>1
    <3> QED BY <2>3, <3>2, <3>3
  <2> QED BY <2>2, <2>3
<1>8. Untouched(q, lo, hi)
  BY <1>6, <1>7 DEF Untouched
<1>9. lo \in 0..Width /\ hi \in lo..Width /\ hi \in 0..Width
  BY <1>3, <1>4, <1>5, WidthType
<1> QED BY <1>8, <1>9, <1>l, <1>h

(* What is put together when k regions are cut out. *)
CutUpTo(q, g, k, acc) ==
  /\ acc.cursor = EndOf(q, k)
  /\ acc.parts = g[EndOf(q, k)]
  /\ Len(acc.parts) <= EndOf(q, k) + k

(* r is the region x with the token that T has for its start. *)
Tokenized(r, x, T) == r.start = x.start /\ r.end = x.end /\ r.token = T[x.start]

(* One region more. *)
LEMMA CutOnce ==
  ASSUME NEW findings, NEW q, NEW n \in Nat, Len(q) = n, Describes(q, findings),
         NEW T \in [0..(Width - 1) -> Int], NEW g \in [0..Width -> Seq(Int)],
         PutTogether(g, Pieces(T, findings)),
         NEW k \in 0..(n - 1), NEW r \in TokenSpan, Tokenized(r, q[k + 1], T),
         NEW acc \in Cutting, CutUpTo(q, g, k, acc)
  PROVE  CutUpTo(q, g, k + 1, Cut(acc, r))
<1>0. k + 1 \in 1..n /\ k \in 0..n /\ k # n /\ k \in Nat /\ k + 1 # 0
  OBVIOUS
<1>1. PICK lo \in 0..Width : lo = acc.cursor /\ lo = EndOf(q, k)
  BY DEF Cutting, CutUpTo
<1>a. PICK hi : hi = q[k + 1].start
  OBVIOUS
<1>b. Apart(q) /\ \A i \in 1..n : Proper(q[i])
  BY DEF Describes
<1>2. hi \in lo..Width /\ hi \in 0..Width /\ Untouched(q, lo, hi)
  <2>1. hi = StartAfter(q, k)
    BY <1>0, <1>a DEF StartAfter
  <2>2. /\ StartAfter(q, k) \in EndOf(q, k)..Width /\ StartAfter(q, k) \in 0..Width
        /\ Untouched(q, EndOf(q, k), StartAfter(q, k))
    BY <1>0, <1>b, KeptBetween
  <2> QED BY <1>1, <2>1, <2>2
<1>3. PICK end : end = q[k + 1].end
  OBVIOUS
<1>c. /\ hi \in Nat /\ end \in Nat /\ hi < end /\ end <= Width
  BY <1>0, <1>a, <1>b, <1>3, ProperNumbers
<1>4. g[hi] = g[lo] \o Slice(lo, hi)
  <2>1. AllKept(Pieces(T, findings), lo, hi)
    BY <1>2, UntouchedKept
  <2> QED BY <1>2, <2>1, KeptStretch
<1>5. hi \in 0..(Width - 1) /\ hi + 1 \in 1..Width /\ (hi + 1) - 1 = hi /\ hi + 1 \in 0..Width
  BY <1>c, WidthType
<1>6. g[hi + 1] = g[hi] \o <<T[hi]>>
  <2>1. Pieces(T, findings)[hi + 1] = <<T[hi]>>
    <3>1. k + 1 \in 1..Len(q)
      BY <1>0
    <3>2. PieceAt(Pieces(T, findings), T, q, hi)
      BY <1>5, PieceOf
    <3> QED BY <1>a, <3>1, <3>2 DEF PieceAt
  <2> QED BY <1>5, <2>1 DEF PutTogether
<1>7. g[end] = g[hi + 1]
  <2>1. ASSUME NEW p \in (hi + 1)..(end - 1) PROVE Pieces(T, findings)[p + 1] = <<>>
    <3>1. p \in 0..(Width - 1) /\ hi < p /\ p < end
      BY <1>c, WidthType, Inside
    <3>2. k + 1 \in 1..Len(q)
      BY <1>0
    <3>3. PieceAt(Pieces(T, findings), T, q, p)
      BY <3>1, PieceOf
    <3> QED BY <1>a, <1>3, <3>1, <3>2, <3>3 DEF PieceAt
  <2>2. end \in (hi + 1)..Width
    BY <1>c, WidthType
  <2>3. PICK after \in 0..Width : after = hi + 1
    BY <1>5
  <2>4. AllCut(Pieces(T, findings), after, end)
    BY <2>1, <2>3 DEF AllCut
  <2> QED BY <2>2, <2>3, <2>4, CutStretch
<1>8. PICK a \in Seq(Int) : a = g[lo] /\ a = acc.parts
  BY <1>1 DEF CutUpTo
<1>9. PICK b \in Seq(Int) : b = Slice(lo, hi) /\ Len(b) = hi - lo
  <2>1. lo <= hi
    BY <1>2, WidthType
  <2> QED BY <1>2, <2>1, SliceType
<1>10. PICK c \in Seq(Int) : c = <<T[hi]>> /\ Len(c) = 1
  <2>1. T[hi] \in Int
    BY <1>5
  <2>2. <<T[hi]>> \in Seq(Int) /\ Len(<<T[hi]>>) = 1
    BY <2>1
  <2> QED BY <2>2
<1>11. Cut(acc, r).parts = (a \o b) \o c /\ Cut(acc, r).cursor = end
  BY <1>1, <1>a, <1>3, <1>8, <1>9, <1>10 DEF Cut, Tokenized
<1>12. g[end] = (a \o b) \o c
  BY <1>4, <1>6, <1>7, <1>8, <1>9, <1>10
<1>13. Len((a \o b) \o c) <= end + (k + 1)
  <2>1. a \o b \in Seq(Int) /\ Len(a \o b) = Len(a) + Len(b)
    BY ConcatProperties
  <2>2. Len((a \o b) \o c) = Len(a \o b) + Len(c)
    BY <2>1, ConcatProperties
  <2>3. Len(a) <= lo + k /\ Len(a) \in Nat
    BY <1>1, <1>8, LenProperties DEF CutUpTo
  <2>4. lo \in Nat
    BY WidthType
  <2> QED BY <1>0, <1>c, <1>9, <1>10, <2>1, <2>2, <2>3, <2>4, SMTT(30)
<1>14. EndOf(q, k + 1) = end
  BY <1>0, <1>3 DEF EndOf
<1> QED BY <1>11, <1>12, <1>13, <1>14 DEF CutUpTo

(* Cutting the regions out leaves the kept characters and the tokens. *)
LEMMA CutOutIs ==
  ASSUME NEW findings, NEW q, NEW n \in Nat, Len(q) = n, Describes(q, findings),
         NEW T \in [0..(Width - 1) -> Int], NEW rs \in [1..n -> TokenSpan],
         \A i \in 1..n : Tokenized(rs[i], q[i], T)
  PROVE  /\ CutOut(rs) = FlattenSeq(Pieces(T, findings))
         /\ CutOut(rs) \in Seq(Int)
         /\ Len(CutOut(rs)) <= Width + n
<1>1. PICK f \in [0..n -> Cutting] :
        /\ f[0] = NothingCut
        /\ \A i \in 1..n : f[i] = Cut(f[i - 1], rs[i])
        /\ FoldLeft(Cut, NothingCut, rs) = f[n]
  BY CutSteps
<1>2. PICK g \in [0..Width -> Seq(Int)] :
        /\ g[0] = <<>>
        /\ PutTogether(g, Pieces(T, findings))
        /\ FlattenSeq(Pieces(T, findings)) = g[Width]
  <2>1. PICK ss \in [1..Width -> Seq(Int)] : ss = Pieces(T, findings)
    BY PiecesType
  <2>2. \E g \in [0..Width -> Seq(Int)] : Flattened(g, Width, ss)
    BY WidthType, FlattenPrefixes
  <2> QED BY <2>1, <2>2 DEF PutTogether, Flattened
<1> DEFINE K == {k \in 0..n : CutUpTo(q, g, k, f[k])}
<1>3. 0 \in K
  <2>1. f[0].cursor = 0 /\ f[0].parts = <<>>
    BY <1>1 DEF NothingCut
  <2>2. Len(<<>>) = 0
    OBVIOUS
  <2>3. EndOf(q, 0) = 0
    BY DEF EndOf
  <2> QED BY <1>2, <2>1, <2>2, <2>3 DEF CutUpTo
<1>4. ASSUME NEW k \in 0..(n - 1), k \in K PROVE k + 1 \in K
  <2>1. k \in 0..n /\ k + 1 \in 1..n /\ k + 1 \in 0..n /\ (k + 1) - 1 = k /\ k + 1 # 0
    OBVIOUS
  <2>2. PICK acc \in Cutting : acc = f[k]
    BY <2>1
  <2>3. PICK r \in TokenSpan : r = rs[k + 1]
    BY <2>1
  <2>4. f[k + 1] = Cut(acc, r)
    BY <1>1, <2>1, <2>2, <2>3
  <2>5. CutUpTo(q, g, k, acc)
    BY <1>4, <2>2
  <2>6. Tokenized(r, q[k + 1], T)
    BY <2>1, <2>3
  <2>7. CutUpTo(q, g, k + 1, Cut(acc, r))
    BY <1>2, <2>5, <2>6, CutOnce
  <2> QED BY <2>1, <2>4, <2>7
<1> HIDE DEF K
<1>5. n \in K
  <2>1. 0..n \subseteq K
    BY <1>3, <1>4, InductionUpTo
  <2> QED BY <2>1
<1> USE DEF K
<1>6. PICK acc \in Cutting : acc = f[n]
  OBVIOUS
<1>a. CutUpTo(q, g, n, acc)
  BY <1>5, <1>6
<1>7. PICK lo \in 0..Width : lo = acc.cursor /\ lo = EndOf(q, n)
  BY <1>a DEF Cutting, CutUpTo
<1>8. Width \in lo..Width /\ Width \in 0..Width /\ Untouched(q, lo, Width)
  <2>1. Width = StartAfter(q, n)
    BY DEF StartAfter
  <2>2. n \in 0..n
    OBVIOUS
  <2>3. Apart(q) /\ \A i \in 1..n : Proper(q[i])
    BY DEF Describes
  <2>4. /\ StartAfter(q, n) \in EndOf(q, n)..Width /\ StartAfter(q, n) \in 0..Width
        /\ Untouched(q, EndOf(q, n), StartAfter(q, n))
    BY <2>2, <2>3, KeptBetween
  <2> QED BY <1>7, <2>1, <2>4
<1>9. g[Width] = g[lo] \o Slice(lo, Width)
  <2>1. AllKept(Pieces(T, findings), lo, Width)
    BY <1>8, UntouchedKept
  <2> QED BY <1>2, <1>8, <2>1, KeptStretch
<1>10. CutOut(rs) = g[Width]
  <2>1. CutOut(rs) = acc.parts \o Slice(acc.cursor, Width)
    BY <1>1, <1>6 DEF CutOut, NothingCut
  <2>2. acc.parts = g[lo]
    BY <1>a, <1>7 DEF CutUpTo
  <2> QED BY <1>7, <1>9, <2>1, <2>2
<1>11. PICK a \in Seq(Int) : a = acc.parts /\ Len(a) <= lo + n /\ Len(a) \in Nat
  BY <1>a, <1>7, LenProperties DEF Cutting, CutUpTo
<1>12. PICK b \in Seq(Int) : b = Slice(lo, Width) /\ Len(b) = Width - lo
  <2>1. Width \in 0..Width /\ lo <= Width
    BY WidthType
  <2> QED BY <2>1, SliceType
<1>13. CutOut(rs) = a \o b
  BY <1>a, <1>7, <1>9, <1>10, <1>11, <1>12 DEF CutUpTo
<1>14. a \o b \in Seq(Int) /\ Len(a \o b) = Len(a) + Len(b)
  BY ConcatProperties
<1>15. Len(a \o b) <= Width + n
  BY <1>11, <1>12, <1>14, WidthType, SMTT(30)
<1> QED BY <1>2, <1>10, <1>13, <1>14, <1>15

(* The gateway's text is the reference's. *)
LEMMA GatewayRedacts ==
  ASSUME NEW token \in Int, NEW findings, \A f \in findings : Proper(f)
  PROVE  /\ RedactSpans(token, findings) = Reference(LAMBDA p : token, findings)
         /\ RedactSpans(token, findings) \in Seq(Int)
         /\ Len(RedactSpans(token, findings)) <= Width + Len(Regions(findings))
<1>1. PICK q : q = Regions(findings)
  OBVIOUS
<1>2. q \in Seq(Span) /\ Describes(q, findings)
  BY <1>1, GatewayRegions
<1>3. PICK n \in Nat : n = Len(q) /\ DOMAIN q = 1..n
  BY <1>2, LenProperties
<1>4. PICK T \in [0..(Width - 1) -> Int] : T = [p \in 0..(Width - 1) |-> token]
  OBVIOUS
<1>5. PICK rs : rs = [i \in 1..n |-> [start |-> q[i].start, end |-> q[i].end, token |-> token]]
  OBVIOUS
<1>6. rs \in [1..n -> TokenSpan]
  <2>1. \A i \in 1..n : q[i] \in Span
    BY <1>2, <1>3
  <2>2. \A i \in 1..n : [start |-> q[i].start, end |-> q[i].end, token |-> token] \in TokenSpan
    BY <2>1 DEF Span, TokenSpan
  <2> QED BY <1>5, <2>2
<1>7. \A i \in 1..n : Tokenized(rs[i], q[i], T)
  <2> SUFFICES ASSUME NEW i \in 1..n PROVE Tokenized(rs[i], q[i], T)
    OBVIOUS
  <2>1. q[i].start \in 0..(Width - 1)
    BY <1>2, <1>3 DEF Describes, Proper
  <2> QED BY <1>4, <1>5, <2>1 DEF Tokenized
<1>8. RedactSpans(token, findings) = CutOut(rs)
  BY <1>1, <1>3, <1>5 DEF RedactSpans
<1>9. Reference(LAMBDA p : token, findings) = FlattenSeq(Pieces(T, findings))
  <2>1. \A i \in 1..Width : T[i - 1] = token
    BY <1>4, WidthType
  <2>2. Pieces(T, findings) =
          [i \in 1..Width |-> (IF TokenAt(findings, i - 1) THEN <<token>> ELSE <<>>) \o
                              (IF KeptAt(findings, i - 1) THEN <<i - 1>> ELSE <<>>)]
    BY <2>1 DEF Pieces
  <2> QED BY <2>2 DEF Reference
<1>10. /\ CutOut(rs) = FlattenSeq(Pieces(T, findings))
       /\ CutOut(rs) \in Seq(Int) /\ Len(CutOut(rs)) <= Width + n
  BY <1>2, <1>3, <1>6, <1>7, CutOutIs
<1> QED BY <1>1, <1>3, <1>8, <1>9, <1>10

(* A region is a card's when the reference says so of the place where it    *)
(* begins.                                                                  *)
LEMMA CardByPlace ==
  ASSUME NEW findings, \A f \in findings : Proper(f),
         NEW q, NEW n \in Nat, Len(q) = n, Describes(q, findings), NEW i \in 1..n
  PROVE  HasCard(findings, q[i].start)
           <=> \E f \in findings : f.detector = CreditCard /\ Hit(q[i], f.start)
<1>1. \A j \in 1..n : /\ q[j].start \in Nat /\ q[j].end \in Nat
                      /\ q[j].start < q[j].end /\ q[j].end <= Width
                      /\ q[j].start \in 0..(Width - 1)
  BY ProperNumbers DEF Describes, Proper
<1>2. \A f \in findings : f.start \in Nat /\ f.end \in Nat /\ f.start < f.end /\ f.start \in 0..(Width - 1)
  BY ProperNumbers DEF Proper
<1>3. \A x, y \in 1..n : x < y => q[x].end < q[y].start
  BY DEF Describes, Apart
<1>4. ASSUME NEW j \in 1..n, NEW p \in Nat, Hit(q[i], p), Hit(q[j], p) PROVE i = j
  <2>1. i < j \/ j < i \/ i = j
    OBVIOUS
  <2> QED BY <1>1, <1>3, <1>4, <2>1 DEF Hit
<1>5. ASSUME NEW f \in findings, f.detector = CreditCard, Hit(q[i], f.start)
      PROVE  HasCard(findings, q[i].start)
  <2>1. q[i].start <= f.start /\ f.start < q[i].end
    BY <1>5 DEF Hit
  <2>2. ASSUME NEW x \in (q[i].start + 1)..f.start, TokenAt(findings, x) PROVE FALSE
    <3>1. x \in Nat /\ x \in 0..(Width - 1) /\ q[i].start < x /\ x < q[i].end
      BY <1>1, <1>2, <2>1, WidthType
    <3>2. PICK j \in 1..n : q[j].start = x
      BY <2>2, <3>1 DEF Describes
    <3>3. Hit(q[i], x) /\ Hit(q[j], x)
      BY <1>1, <3>1, <3>2 DEF Hit
    <3>4. i = j
      BY <1>4, <3>1, <3>3
    <3> QED BY <1>1, <3>1, <3>2, <3>4
  <2> QED BY <1>5, <2>1, <2>2 DEF HasCard
<1>6. ASSUME HasCard(findings, q[i].start)
      PROVE  \E f \in findings : f.detector = CreditCard /\ Hit(q[i], f.start)
  <2>1. PICK f \in findings :
          /\ f.detector = CreditCard /\ q[i].start <= f.start
          /\ \A x \in (q[i].start + 1)..f.start : ~TokenAt(findings, x)
    BY <1>6 DEF HasCard
  <2>2. ~KeptAt(findings, f.start)
    BY <1>2 DEF KeptAt
  <2>3. PICK j \in 1..n : Hit(q[j], f.start)
    BY <1>2, <2>2 DEF Describes
  <2>4. q[j].start <= f.start /\ f.start < q[j].end
    BY <2>3 DEF Hit
  <2>5. TokenAt(findings, q[j].start)
    BY <1>1 DEF Describes
  <2>6. q[j].start <= q[i].start
    BY <1>1, <1>2, <2>1, <2>4, <2>5
  <2>7. Hit(q[i], q[i].start) /\ Hit(q[j], q[i].start)
    BY <1>1, <1>2, <2>1, <2>4, <2>6 DEF Hit
  <2>8. i = j
    BY <1>1, <1>4, <2>7
  <2> QED BY <2>1, <2>3, <2>8
<1> QED BY <1>5, <1>6

(* And so is the facade's, with the words for a card where one is. *)
FacadeText(findings) == Reference(LAMBDA p : FacadeToken(HasCard(findings, p)), findings)

LEMMA FacadeRedacts ==
  ASSUME NEW findings, \A f \in findings : Proper(f), \A f \in findings : ~IsBlock(f)
  PROVE  RedactPrompt(findings) = FacadeText(findings)
<1>1. PICK q : q = CardRegions(findings)
  OBVIOUS
<1>2. /\ q \in Seq(CardSpan) /\ Describes(q, findings)
      /\ \A i \in 1..Len(q) :
           q[i].card <=> \E f \in findings : f.detector = CreditCard /\ Hit(q[i], f.start)
  BY <1>1, FacadeRegions
<1>3. PICK n \in Nat : n = Len(q) /\ DOMAIN q = 1..n
  BY <1>2, LenProperties
<1>4. PICK T : T = [p \in 0..(Width - 1) |-> FacadeToken(HasCard(findings, p))]
  OBVIOUS
<1>t. \A c : FacadeToken(c) \in Int
  BY DEF FacadeToken, Financial, Redacted
<1>5. T \in [0..(Width - 1) -> Int]
  BY <1>4, <1>t
<1>6. PICK rs : rs = [i \in 1..n |-> [start |-> q[i].start, end |-> q[i].end,
                                      token |-> FacadeToken(q[i].card)]]
  OBVIOUS
<1>7. rs \in [1..n -> TokenSpan]
  <2>1. \A i \in 1..n : q[i] \in CardSpan
    BY <1>2, <1>3
  <2>2. \A i \in 1..n : [start |-> q[i].start, end |-> q[i].end,
                         token |-> FacadeToken(q[i].card)] \in TokenSpan
    BY <1>t, <2>1 DEF CardSpan, TokenSpan
  <2> QED BY <1>6, <2>2
<1>8. \A i \in 1..n : Tokenized(rs[i], q[i], T)
  <2> SUFFICES ASSUME NEW i \in 1..n PROVE Tokenized(rs[i], q[i], T)
    OBVIOUS
  <2>1. q[i].start \in 0..(Width - 1)
    BY <1>2, <1>3 DEF Describes, Proper
  <2>2. q[i].card <=> HasCard(findings, q[i].start)
    BY <1>2, <1>3, CardByPlace
  <2>3. FacadeToken(q[i].card) = FacadeToken(HasCard(findings, q[i].start))
    BY <2>2 DEF FacadeToken
  <2>4. T[q[i].start] = FacadeToken(HasCard(findings, q[i].start))
    BY <1>4, <2>1
  <2> QED BY <1>6, <2>3, <2>4 DEF Tokenized
<1>9. RedactPrompt(findings) = CutOut(rs)
  BY <1>1, <1>3, <1>6 DEF RedactPrompt
<1>10. FacadeText(findings) = FlattenSeq(Pieces(T, findings))
  <2>1. \A i \in 1..Width : T[i - 1] = FacadeToken(HasCard(findings, i - 1))
    <3> SUFFICES ASSUME NEW i \in 1..Width PROVE T[i - 1] = FacadeToken(HasCard(findings, i - 1))
      OBVIOUS
    <3>1. i - 1 \in 0..(Width - 1)
      BY WidthType
    <3> QED BY <1>4, <3>1
  <2>2. Pieces(T, findings) =
          [i \in 1..Width |->
            (IF TokenAt(findings, i - 1) THEN <<FacadeToken(HasCard(findings, i - 1))>> ELSE <<>>) \o
            (IF KeptAt(findings, i - 1) THEN <<i - 1>> ELSE <<>>)]
    BY <2>1 DEF Pieces
  <2> QED BY <2>2 DEF FacadeText, Reference
<1>11. CutOut(rs) = FlattenSeq(Pieces(T, findings))
  BY <1>2, <1>3, <1>5, <1>7, <1>8, CutOutIs
<1> QED BY <1>9, <1>10, <1>11

-----------------------------------------------------------------------------
(* What is forwarded *)

(* What an inspection comes to: nothing is put out before it ends, a body   *)
(* that is not JSON goes on as it came, and every other as the verdict on   *)
(* all that its fields hold makes of it.                                    *)
Outcome ==
  \/ /\ status \in {"scanning", "failed"} /\ decision = Allow
     /\ output = [i \in Fields |-> <<>>]
  \/ /\ status = "forwarded" /\ next = 0 /\ decision = Allow
     /\ output = [i \in Fields |-> Original]
  \/ /\ status \in {"forwarded", "blocked"} /\ next = NumFields + 1
     /\ decision = Verdict /\ output = ApplyRedaction(Verdict, body)

Settled ==
  /\ body \in Bodies
  /\ rules \in Policies
  /\ \A i \in Fields : found[i] \in {{}, body[i]}
  /\ Outcome

LEMMA SettledInvariance == Spec => [](IInv /\ Settled)
<1>1. Init => Settled
  BY DEF Init, Settled, Outcome
<1>2. IInv /\ Settled /\ [Next]_vars => Settled'
  <2> SUFFICES ASSUME IInv, Settled, [Next]_vars PROVE Settled'
    OBVIOUS
  <2> USE InspectionAssumption
  <2>1. CASE NotJson
    <3>1. UNCHANGED <<phase, body, rules, found, decision>>
      BY <2>1 DEF NotJson
    <3>2. decision = Allow
      BY <2>1 DEF NotJson, Settled, Outcome
    <3>3. Outcome'
      BY <2>1, <3>1, <3>2 DEF NotJson, Outcome
    <3> QED BY <3>1, <3>3 DEF Settled
  <2>2. CASE ScanField
    <3>1. UNCHANGED <<phase, body, rules, decision, output, status>> /\ status = "scanning"
      BY <2>2 DEF ScanField
    <3>2. Outcome'
      BY <3>1 DEF Settled, Outcome
    <3>3. ASSUME NEW i \in Fields PROVE found'[i] \in {{}, body'[i]}
      <4>1. DOMAIN found = Fields
        BY <2>2 DEF ScanField, IInv, Scanned, Fields
      <4>2. found' = [found EXCEPT ![next] = body[next]]
        BY <2>2 DEF ScanField
      <4>3. found'[i] = IF i = next THEN body[next] ELSE found[i]
        BY <4>1, <4>2
      <4> QED BY <3>1, <4>3 DEF Settled
    <3> QED BY <3>1, <3>2, <3>3 DEF Settled
  <2>3. CASE Conclude
    <3>1. UNCHANGED <<phase, body, rules, next, found>> /\ next = NumFields + 1
      BY <2>3 DEF Conclude
    <3>2. \A i \in Fields : found[i] = body[i]
      BY <3>1 DEF IInv, Scanned, Fields
    <3>3. AllFindings(found) = AllFindings(body)
      BY <3>2 DEF AllFindings
    <3>4. decision' = Verdict /\ status' \in {"forwarded", "blocked"}
      BY <2>3, <3>3 DEF Conclude, Verdict
    <3>5. output' = ApplyRedaction(Verdict, body)
      <4>1. output' = ApplyRedaction(Verdict, found)
        BY <2>3, <3>3 DEF Conclude, Verdict
      <4>2. ApplyRedaction(Verdict, found) = ApplyRedaction(Verdict, body)
        BY <3>2 DEF ApplyRedaction
      <4> QED BY <4>1, <4>2
    <3>6. Verdict' = Verdict /\ ApplyRedaction(Verdict, body)' = ApplyRedaction(Verdict, body)
      <4>1. Verdict' = Verdict
        BY <3>1 DEF Verdict, AllFindings
      <4> QED BY <3>1, <4>1
             DEF ApplyRedaction, Rewritten, Replacement, Fitting, Candidates
    <3>7. Outcome'
      BY <3>1, <3>4, <3>5, <3>6 DEF Outcome
    <3> QED BY <3>1, <3>7 DEF Settled
  <2>4. CASE ScanFails
    <3>1. /\ UNCHANGED <<phase, body, rules, next, found, decision, output>>
          /\ status = "scanning" /\ status' = "failed"
      BY <2>4 DEF ScanFails
    <3>2. Outcome'
      BY <3>1 DEF Settled, Outcome
    <3> QED BY <3>1, <3>2 DEF Settled
  <2>5. CASE UNCHANGED vars
    <3>1. UNCHANGED <<phase, body, rules, next, found, decision, output, status>>
      BY <2>5 DEF vars
    <3>2. Verdict' = Verdict
      BY <3>1 DEF Verdict, AllFindings
    <3>3. ApplyRedaction(Verdict, body)' = ApplyRedaction(Verdict, body)
      BY <3>1, <3>2 DEF ApplyRedaction, Rewritten, Replacement, Fitting, Candidates
    <3>4. Outcome'
      BY <3>1, <3>2, <3>3 DEF Settled, Outcome
    <3> QED BY <3>1, <3>4 DEF Settled
  <2> QED BY <2>1, <2>2, <2>3, <2>4, <2>5 DEF Next
<1> QED BY <1>1, <1>2, InitIInv, NextIInv, PTL DEF Spec

(* A replacement is that of a rule, for a field which one fits. *)
LEMMA ReplacementOf ==
  ASSUME rules \in Policies, NEW i \in Fields, Fitting(Verdict, body[i]) # {}
  PROVE  \E j \in DOMAIN rules :
           Offers(j, i) /\ Replacement(Verdict, body[i]) = rules[j].replace_with
<1> DEFINE Fit == Fitting(Verdict, body[i])
           places == {h.at : h \in Fit}
<1>1. Fit \subseteq Match(rules, phase, AllFindings(body), Tenant)
  BY EvaluateHits DEF Fitting, Candidates, Verdict
<1>2. \A h \in Fit : h.at \in DOMAIN rules /\ h.rule = rules[h.at]
  BY <1>1 DEF Match
<1>3. places \subseteq Nat /\ places # {}
  BY <1>2, InspectionAssumption
<1>4. PICK a \in places : \A b \in places : a <= b
  BY <1>3, LeastNatural
<1>5. \E h \in Fit : \A g \in Fit : h.at <= g.at
  BY <1>4
<1> DEFINE first == CHOOSE h \in Fit : \A g \in Fit : h.at <= g.at
<1>6. first \in Fit
  <2> HIDE DEF Fit
  <2> QED BY <1>5
<1>7. Replacement(Verdict, body[i]) = first.rule.replace_with
  BY DEF Replacement
<1>8. \A h \in Fit : Offers(h.at, i)
  BY <1>1, <1>2 DEF Match, Fitting, Candidates, Offers
<1> HIDE DEF first, Fit
<1> QED BY <1>2, <1>6, <1>7, <1>8

LEMMA FieldsProper ==
  ASSUME body \in Bodies, NEW i \in Fields
  PROVE  \A f \in body[i] : Proper(f)
BY InspectionAssumption DEF Proper

(* A text put in the place of findings is no part of the original. *)
LEMMA ReplacementType ==
  ASSUME rules \in Policies, NEW j \in DOMAIN rules
  PROVE  rules[j].replace_with \in Int \ 0..(Width - 1)
BY InspectionAssumption

(* What a field becomes: it is as it was, or its findings are cut out. *)
LEMMA RewrittenIs ==
  ASSUME Settled, NEW i \in Fields
  PROVE  \/ Rewritten(Verdict, body[i]) = Original
         \/ \E j \in DOMAIN rules :
              /\ Offers(j, i)
              /\ Rewritten(Verdict, body[i]) = RedactSpans(rules[j].replace_with, body[i])
<1> SUFFICES ASSUME Rewritten(Verdict, body[i]) # Original
             PROVE  \E j \in DOMAIN rules :
                      Offers(j, i) /\ Rewritten(Verdict, body[i]) = RedactSpans(rules[j].replace_with, body[i])
  OBVIOUS
<1>1. /\ Replacement(Verdict, body[i]) # NoText
      /\ Rewritten(Verdict, body[i]) = RedactSpans(Replacement(Verdict, body[i]), body[i])
  BY DEF Rewritten
<1>2. Fitting(Verdict, body[i]) # {}
  BY <1>1 DEF Replacement
<1>3. PICK j \in DOMAIN rules :
        Offers(j, i) /\ Replacement(Verdict, body[i]) = rules[j].replace_with
  BY <1>2, ReplacementOf DEF Settled
<1> QED BY <1>1, <1>3

(* The state of an inspection has its types; a field grows by no more than  *)
(* a text per region.                                                       *)
THEOREM Types == Spec => []TypeOK
<1>1. IInv /\ Settled => TypeOK
  <2> SUFFICES ASSUME IInv, Settled PROVE TypeOK
    OBVIOUS
  <2>1. decision.action \in Actions
    <3>1. CASE decision = Allow
      BY <3>1 DEF Allow, Actions
    <3>2. CASE decision = Verdict
      BY <3>2, EvaluateAction DEF Verdict
    <3> QED BY <3>1, <3>2 DEF Settled, Outcome
  <2>2. ASSUME NEW i \in Fields PROVE Len(output[i]) <= Width + Len(Regions(body[i]))
    <3>1. \A f \in body[i] : Proper(f)
      BY FieldsProper DEF Settled
    <3>2. Len(Regions(body[i])) \in Nat
      BY <3>1, GatewayRegions, LenProperties
    <3>3. Len(Original) = Width
      <4>1. 0 \in 0..Width /\ Width \in 0..Width /\ Width - 0 = Width /\ 0 <= Width
        BY WidthType
      <4>2. Len(Slice(0, Width)) = Width - 0
        BY <4>1, SliceType
      <4> QED BY <4>1, <4>2 DEF Original
    <3>4. CASE output[i] = <<>>
      BY <3>2, <3>4, WidthType
    <3>5. CASE output[i] = Original
      BY <3>2, <3>3, <3>5, WidthType
    <3>6. CASE \E j \in DOMAIN rules : output[i] = RedactSpans(rules[j].replace_with, body[i])
      <4>1. PICK token \in Int : output[i] = RedactSpans(token, body[i])
        BY <3>6, ReplacementType DEF Settled
      <4> QED BY <3>1, <4>1, GatewayRedacts
    <3> QED BY <3>4, <3>5, <3>6, RewrittenIs DEF Settled, Outcome, ApplyRedaction
  <2> QED BY <2>1, <2>2 DEF TypeOK, IInv, Settled, Outcome
<1> QED BY <1>1, SettledInvariance, PTL

(* Only what was found is replaced, matched by a rule or not, by the text  *)
(* of a rule whose detector found something in the field, and only in a    *)
(* body in which a redacting rule matches something.                       *)
THEOREM BenignTextSurvives == Spec => []RedactionExact
<1>1. IInv /\ Settled => RedactionExact
  <2> SUFFICES ASSUME IInv, Settled, status = "forwarded", NEW i \in Fields, output[i] # Original
               PROVE  /\ \E j \in DOMAIN rules : rules[j].action = "redact"
                           /\ Applies(rules[j], phase, Tenant)
                           /\ Matching(rules[j], AllFindings(body)) # {}
                      /\ \E j \in DOMAIN rules :
                           Offers(j, i) /\ output[i] = Reference(LAMBDA p : rules[j].replace_with, body[i])
    BY DEF RedactionExact
  <2>1. output[i] = Rewritten(Verdict, body[i]) /\ Verdict.action = "redact"
    BY DEF Settled, Outcome, ApplyRedaction
  <2>2. \E j \in DOMAIN rules : rules[j].action = "redact"
                                /\ Applies(rules[j], phase, Tenant)
                                /\ Matching(rules[j], AllFindings(body)) # {}
    <3>1. PICK h \in Match(rules, phase, AllFindings(body), Tenant) : h.rule.action = "redact"
      BY <2>1, RedactsForAHit DEF Verdict
    <3> QED BY <3>1 DEF Match
  <2>3. PICK j \in DOMAIN rules :
          Offers(j, i) /\ output[i] = RedactSpans(rules[j].replace_with, body[i])
    BY <2>1, RewrittenIs
  <2>4. PICK token \in Int : token = rules[j].replace_with
    BY ReplacementType DEF Settled
  <2>5. output[i] = Reference(LAMBDA p : token, body[i])
    BY <2>3, <2>4, FieldsProper, GatewayRedacts DEF Settled
  <2>6. output[i] = Reference(LAMBDA p : rules[j].replace_with, body[i])
    BY <2>4, <2>5 DEF Reference
  <2> QED BY <2>2, <2>3, <2>6
<1> QED BY <1>1, SettledInvariance, PTL

(* No position of a finding is among the elements of the text. *)
LEMMA NothingLeft ==
  ASSUME NEW token \in Int \ 0..(Width - 1), NEW findings, \A f \in findings : Proper(f),
         NEW f \in findings
  PROVE  \A p \in DOMAIN RedactSpans(token, findings) :
           RedactSpans(token, findings)[p] \notin f.start .. (f.end - 1)
<1>1. PICK T \in [0..(Width - 1) -> Int] : T = [p \in 0..(Width - 1) |-> token]
  OBVIOUS
<1>2. RedactSpans(token, findings) = FlattenSeq(Pieces(T, findings))
  <2>1. RedactSpans(token, findings) = Reference(LAMBDA p : token, findings)
    BY GatewayRedacts
  <2>2. \A i \in 1..Width : T[i - 1] = token
    BY <1>1, WidthType
  <2>3. Pieces(T, findings) =
          [i \in 1..Width |-> (IF TokenAt(findings, i - 1) THEN <<token>> ELSE <<>>) \o
                              (IF KeptAt(findings, i - 1) THEN <<i - 1>> ELSE <<>>)]
    BY <2>2 DEF Pieces
  <2> QED BY <2>1, <2>3 DEF Reference
<1>3. RedactSpans(token, findings) \in Seq(Int)
  BY GatewayRedacts
<1>4. PICK E : E = Int \ (f.start .. (f.end - 1))
  OBVIOUS
<1>5. token \in E
  <2>1. f.start \in 0..(Width - 1) /\ f.end \in (f.start + 1)..Width
    BY DEF Proper
  <2>2. \A x \in f.start .. (f.end - 1) : x \in 0..(Width - 1)
    BY <2>1, WidthType
  <2> QED BY <1>4, <2>2
<1>6. ASSUME NEW p \in 0..(Width - 1), KeptAt(findings, p) PROVE p \in E
  <2>1. ~(f.start <= p /\ p < f.end)
    BY <1>6 DEF KeptAt
  <2>2. f.start \in Nat /\ f.end \in Nat /\ p \in Int
    BY ProperNumbers, WidthType
  <2> QED BY <1>4, <2>1, <2>2
<1>7. ASSUME NEW i \in 1..Width, NEW k \in 1..Len(Pieces(T, findings)[i])
      PROVE  Pieces(T, findings)[i][k] \in E
  <2>1. PICK p \in 0..(Width - 1) : p = i - 1
    BY WidthType
  <2> DEFINE a == IF TokenAt(findings, p) THEN <<T[p]>> ELSE <<>>
             b == IF KeptAt(findings, p) THEN <<p>> ELSE <<>>
  <2>2. Pieces(T, findings)[i] = a \o b
    BY <2>1 DEF Pieces
  <2>3. T[p] = token /\ p \in Int
    BY <1>1, WidthType
  <2>4. a \in Seq(Int) /\ b \in Seq(Int) /\ Len(a) <= 1 /\ Len(b) <= 1
    BY <2>3
  <2>5. \A x \in 1..Len(a) : a[x] \in E
    BY <1>5, <2>3
  <2>6. \A x \in 1..Len(b) : b[x] \in E
    BY <1>6, <2>3
  <2> HIDE DEF a, b
  <2>7. /\ Len(a) \in Nat /\ Len(b) \in Nat /\ Len(a \o b) = Len(a) + Len(b)
        /\ \A x \in 1..(Len(a) + Len(b)) :
             (a \o b)[x] = IF x <= Len(a) THEN a[x] ELSE b[x - Len(a)]
    BY <2>4, ConcatProperties
  <2>8. k \in 1..(Len(a) + Len(b))
    BY <2>2, <2>7
  <2>9. CASE k <= Len(a)
    BY <2>2, <2>5, <2>7, <2>8, <2>9
  <2>10. CASE k > Len(a)
    <3>1. k - Len(a) \in 1..Len(b)
      BY <2>7, <2>8, <2>10
    <3> QED BY <2>2, <2>6, <2>7, <2>8, <2>10, <3>1
  <2> QED BY <2>7, <2>8, <2>9, <2>10
<1>8. \A k \in 1..Len(FlattenSeq(Pieces(T, findings))) : FlattenSeq(Pieces(T, findings))[k] \in E
  <2>1. PICK ss \in [1..Width -> Seq(Int)] : ss = Pieces(T, findings)
    BY PiecesType
  <2>2. \A i \in 1..Width : \A k \in 1..Len(ss[i]) : ss[i][k] \in E
    BY <1>7, <2>1
  <2>3. \A k \in 1..Len(FlattenSeq(ss)) : FlattenSeq(ss)[k] \in E
    BY <2>2, WidthType, FlattenedElements
  <2> QED BY <2>1, <2>3
<1>9. DOMAIN RedactSpans(token, findings) = 1..Len(RedactSpans(token, findings))
  BY <1>3, LenProperties
<1> QED BY <1>2, <1>4, <1>8, <1>9

(* No character of what a rule redacts is forwarded, whatever the fields,   *)
(* the findings in them and the policy, when every rule has a text to put   *)
(* in its place.                                                            *)
THEOREM RedactedIsGone == Spec => []ClaimedNeverForwarded
<1>1. IInv /\ Settled => ClaimedNeverForwarded
  <2> SUFFICES ASSUME IInv, Settled, Inspected,
                      \A j \in DOMAIN rules : rules[j].replace_with # NoText,
                      NEW i \in Fields, NEW f \in Claimed(i, "redact"),
                      NEW p \in DOMAIN output[i]
               PROVE  output[i][p] \notin f.start .. (f.end - 1)
    BY DEF ClaimedNeverForwarded
  <2>1. PICK h \in Match(rules, phase, body[i], Tenant) :
          h.rule.action = "redact" /\ f \in h.findings
    BY DEF Claimed, ClaimedBy
  <2>2. f \in body[i] /\ f.detector = h.rule.detector
    BY <2>1 DEF Match, Matching
  <2>3. PICK g \in Match(rules, phase, AllFindings(body), Tenant) : g.rule = h.rule
    BY HitInBody
  <2>4. /\ Verdict.action = "redact"
        /\ Verdict.hits = Match(rules, phase, AllFindings(body), Tenant)
    BY <2>1, <2>3, RedactHitRedacts DEF Verdict, IInv
  <2>5. g \in Fitting(Verdict, body[i])
    BY <2>1, <2>2, <2>3, <2>4 DEF Fitting, Candidates
  <2>6. PICK j \in DOMAIN rules : Replacement(Verdict, body[i]) = rules[j].replace_with
    BY <2>5, ReplacementOf DEF Settled
  <2>7. output[i] = RedactSpans(rules[j].replace_with, body[i])
    <3>1. output = ApplyRedaction(Verdict, body)
      BY DEF Settled, Outcome, Inspected
    <3>2. output[i] = Rewritten(Verdict, body[i])
      BY <2>4, <3>1 DEF ApplyRedaction
    <3>3. rules[j].replace_with # NoText /\ body[i] # {}
      BY <2>2
    <3> QED BY <2>6, <3>2, <3>3 DEF Rewritten
  <2>8. PICK token \in Int \ 0..(Width - 1) : token = rules[j].replace_with
    BY ReplacementType DEF Settled
  <2>9. \A x \in body[i] : Proper(x)
    BY FieldsProper DEF Settled
  <2> QED BY <2>2, <2>7, <2>8, <2>9, NothingLeft
<1> QED BY <1>1, SettledInvariance, PTL

(* The facade intercepts, or replaces exactly the findings, whatever they   *)
(* are and however they overlap.                                            *)
THEOREM FacadeAgrees == Spec => []FacadeExact
<1>1. Settled => FacadeExact
  <2> SUFFICES ASSUME Settled, NEW i \in Fields
               PROVE  SanitizePrompt(body[i]) =
                        IF \E f \in body[i] : IsBlock(f) THEN Intercepted
                        ELSE Reference(LAMBDA p : FacadeToken(HasCard(body[i], p)), body[i])
    BY DEF FacadeExact
  <2>1. CASE \E f \in body[i] : IsBlock(f)
    BY <2>1 DEF SanitizePrompt
  <2>2. CASE ~\E f \in body[i] : IsBlock(f)
    <3>1. \A f \in body[i] : Proper(f) /\ ~IsBlock(f)
      BY <2>2, FieldsProper DEF Settled
    <3>2. RedactPrompt(body[i]) = FacadeText(body[i])
      BY <3>1, FacadeRedacts
    <3> QED BY <2>2, <3>2 DEF SanitizePrompt, FacadeText
  <2> QED BY <2>1, <2>2
<1> QED BY <1>1, SettledInvariance, PTL
=============================================================================
