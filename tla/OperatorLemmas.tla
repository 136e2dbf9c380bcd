--------------------------- MODULE OperatorLemmas ---------------------------
(***************************************************************************)
(* Lemmas about what the models are built from: induction over the natural *)
(* numbers, definitions by recursion, the operators of SequencesExt that   *)
(* are defined by it, and the policy engine's operators.                   *)
(*                                                                         *)
(* The induction theorems of the library have an operator as a parameter,  *)
(* which the provers cannot instantiate; these are stated with a set, and  *)
(* rest on the well-foundedness of the natural numbers.                    *)
(***************************************************************************)
EXTENDS PolicyEngine, SequencesExt, SequenceTheorems, FiniteSetTheorems, WellFoundedInduction,
        TLAPS

-----------------------------------------------------------------------------
(* It does not matter which of three sequences are joined first. *)
Associates(x, y, z) == (x \o y) \o z = x \o (y \o z)

LEMMA ConcatAssociates ==
  ASSUME NEW S
  PROVE  \A x, y, z \in Seq(S) : Associates(x, y, z)
BY ConcatAssociative, SMTT(30) DEF Associates

-----------------------------------------------------------------------------
(* Induction and recursion *)

(* Some number of a set is the least. *)
LEMMA LeastNatural ==
  ASSUME NEW T, T \subseteq Nat, T # {}
  PROVE  \E n \in T : \A m \in T : n <= m
<1> DEFINE R == OpToRel(<, Nat)
<1>1. IsWellFoundedOn(R, Nat)
  BY NatLessThanWellFounded
<1>2. \A a, b \in Nat : <<a, b>> \in R <=> a < b
  BY DEF OpToRel
<1> HIDE DEF R
<1>3. \E n \in T : \A m \in T : ~(<<m, n>> \in R)
  BY <1>1, WFMin
<1>4. PICK n \in T : \A m \in T : ~(<<m, n>> \in R)
  BY <1>3
<1>5. \A m \in T : ~(m < n)
  BY <1>2, <1>4
<1>6. \A m \in T : n <= m
  BY <1>5
<1> QED BY <1>6

(* What holds of 0, and of a number's successor when it holds of the       *)
(* number, holds of all of them, up to a bound.                            *)
LEMMA InductionUpTo ==
  ASSUME NEW n \in Nat, NEW S, 0 \in S,
         \A k \in 0..(n - 1) : k \in S => k + 1 \in S
  PROVE  0..n \subseteq S
<1> SUFFICES ASSUME (0..n) \ S # {} PROVE FALSE
  OBVIOUS
<1> DEFINE T == (0..n) \ S
<1>0. T \subseteq Nat /\ T # {}
  OBVIOUS
<1> HIDE DEF T
<1>1. PICK k \in T : \A m \in T : k <= m
  BY <1>0, LeastNatural
<1> USE DEF T
<1>2. k # 0 /\ k - 1 \in 0..(n - 1) /\ k - 1 \in 0..n
  BY <1>1
<1>3. k - 1 \in S
  BY <1>1, <1>2
<1> QED BY <1>1, <1>2, <1>3

(* The numbers up to one of them. *)
LEMMA UpTo ==
  ASSUME NEW i \in Nat \ {0}
  PROVE  Max(1..i) = i /\ (1..i) \ {i} = 1..(i - 1) /\ 1..i # {}
<1>1. i \in 1..i /\ \A y \in 1..i : i >= y
  OBVIOUS
<1>2. \A x \in 1..i : (\A y \in 1..i : x >= y) => x = i
  BY <1>1
<1> QED BY <1>1, <1>2 DEF Max

(* f is what folding step over the subsets of 1..n from base defines.      *)
IsFold(f, n, base, step) ==
  f = [s \in SUBSET (1..n) |->
         IF s = {} THEN base ELSE step[<<f[s \ {Max(s)}], Max(s)>>]]

(* A definition by recursion over the subsets of 1..n, by their greatest   *)
(* element, defines a function; the folds are of this form.                *)
LEMMA SubsetRecursion ==
  ASSUME NEW A, NEW n \in Nat, NEW base \in A, NEW step \in [A \X (1..n) -> A]
  PROVE  \E f \in [SUBSET (1..n) -> A] : IsFold(f, n, base, step)
<1> DEFINE Defined(f, k) == IsFold(f, k, base, step)
           S == {k \in 0..n : \E f \in [SUBSET (1..k) -> A] : Defined(f, k)}
<1>1. 0 \in S
  <2> DEFINE f == [s \in SUBSET (1..0) |-> base]
  <2>1. \A s \in SUBSET (1..0) : s = {}
    OBVIOUS
  <2>2. f \in [SUBSET (1..0) -> A] /\ Defined(f, 0)
    BY <2>1 DEF IsFold
  <2> QED BY <2>2
<1>2. ASSUME NEW k \in 0..(n - 1), k \in S PROVE k + 1 \in S
  <2>1. PICK f \in [SUBSET (1..k) -> A] : Defined(f, k)
    BY <1>2
  <2> DEFINE g == [s \in SUBSET (1..(k + 1)) |->
                     IF k + 1 \in s THEN step[<<f[s \ {k + 1}], k + 1>>] ELSE f[s]]
  <2>2. k + 1 \in 1..n /\ k + 1 \in 0..n /\ k \in Nat
    BY <1>2
  <2>3. \A s \in SUBSET (1..(k + 1)) : s \ {k + 1} \in SUBSET (1..k)
    BY <2>2
  <2>4. g \in [SUBSET (1..(k + 1)) -> A]
    <3>1. ASSUME NEW s \in SUBSET (1..(k + 1)) PROVE g[s] \in A
      <4>1. f[s \ {k + 1}] \in A
        BY <2>3
      <4>2. <<f[s \ {k + 1}], k + 1>> \in A \X (1..n)
        BY <4>1, <2>2
      <4>3. step[<<f[s \ {k + 1}], k + 1>>] \in A
        BY <4>2
      <4>4. k + 1 \notin s => s \ {k + 1} = s
        OBVIOUS
      <4> QED BY <4>1, <4>3, <4>4
    <3> QED BY <3>1
  <2>5. ASSUME NEW s \in SUBSET (1..(k + 1)), s # {}
        PROVE  g[s] = step[<<g[s \ {Max(s)}], Max(s)>>]
    <3>1. CASE k + 1 \in s
      <4>1. Max(s) = k + 1
        <5>1. \A y \in s : k + 1 >= y
          BY <2>2
        <5>2. \A x \in s : (\A y \in s : x >= y) => x = k + 1
          BY <3>1, <5>1, <2>2
        <5> QED BY <3>1, <5>1, <5>2 DEF Max
      <4>2. s \ {k + 1} \in SUBSET (1..(k + 1)) /\ k + 1 \notin s \ {k + 1}
        OBVIOUS
      <4>3. g[s \ {k + 1}] = f[s \ {k + 1}]
        BY <4>2
      <4> QED BY <3>1, <4>1, <4>3
    <3>2. CASE k + 1 \notin s
      <4>1. s \in SUBSET (1..k)
        BY <3>2, <2>2
      <4>2. g[s] = f[s] /\ f[s] = step[<<f[s \ {Max(s)}], Max(s)>>]
        BY <2>1, <2>5, <3>2, <4>1 DEF IsFold
      <4>3. s \ {Max(s)} \in SUBSET (1..(k + 1)) /\ k + 1 \notin s \ {Max(s)}
        BY <3>2
      <4>4. g[s \ {Max(s)}] = f[s \ {Max(s)}]
        BY <4>3
      <4> QED BY <4>2, <4>4
    <3> QED BY <3>1, <3>2
  <2>6. g[{}] = base
    <3>1. {} \in SUBSET (1..k) /\ {} \in SUBSET (1..(k + 1))
      OBVIOUS
    <3> QED BY <2>1, <3>1 DEF IsFold
  <2>7. Defined(g, k + 1)
    <3> DEFINE h == [s \in SUBSET (1..(k + 1)) |->
                       IF s = {} THEN base ELSE step[<<g[s \ {Max(s)}], Max(s)>>]]
    <3>1. \A s \in SUBSET (1..(k + 1)) : g[s] = h[s]
      BY <2>5, <2>6
    <3>2. DOMAIN g = SUBSET (1..(k + 1)) /\ DOMAIN h = SUBSET (1..(k + 1))
      OBVIOUS
    <3>3. g = [s \in SUBSET (1..(k + 1)) |-> g[s]]
      OBVIOUS
    <3> HIDE DEF g
    <3>4. g = h
      BY <3>1, <3>3
    <3> QED BY <3>4 DEF IsFold
  <2> HIDE DEF g, Defined
  <2> QED BY <2>2, <2>4, <2>7
<1> HIDE DEF S
<1>3. 0..n \subseteq S
  BY <1>1, <1>2, InductionUpTo
<1>4. n \in S
  BY <1>3
<1> QED BY <1>4 DEF S

(* f is what repeating step from base defines. *)
IsSteps(f, n, base, step) ==
  f[0] = base /\ \A i \in 1..n : f[i] = step[<<f[i - 1], i>>]

(* A definition by recursion over 0..n defines a function. *)
LEMMA StepRecursion ==
  ASSUME NEW A, NEW n \in Nat, NEW base \in A, NEW step \in [A \X (1..n) -> A]
  PROVE  \E f \in [0..n -> A] : IsSteps(f, n, base, step)
<1>1. PICK g \in [SUBSET (1..n) -> A] : IsFold(g, n, base, step)
  BY SubsetRecursion
<1> DEFINE f == [i \in 0..n |-> g[1..i]]
<1>2. \A i \in 0..n : 1..i \in SUBSET (1..n)
  OBVIOUS
<1>3. f \in [0..n -> A]
  BY <1>2
<1>4. f[0] = base
  <2>1. 1..0 = {} /\ 0 \in 0..n
    OBVIOUS
  <2> QED BY <1>1, <1>2, <2>1 DEF IsFold
<1>5. ASSUME NEW i \in 1..n PROVE f[i] = step[<<f[i - 1], i>>]
  <2>1. Max(1..i) = i /\ (1..i) \ {i} = 1..(i - 1) /\ 1..i # {}
    BY UpTo, SMTT(30)
  <2>2. f[i] = g[1..i] /\ f[i - 1] = g[1..(i - 1)] /\ 1..i \in SUBSET (1..n)
    BY <1>2
  <2>3. g[1..i] = step[<<g[(1..i) \ {Max(1..i)}], Max(1..i)>>]
    BY <1>1, <2>1, <2>2 DEF IsFold
  <2> QED BY <2>1, <2>2, <2>3
<1> QED BY <1>3, <1>4, <1>5 DEF IsSteps

(* A sequence of sequences is flattened from its first to its last. *)
LEMMA FlattenSteps ==
  ASSUME NEW S, NEW n \in Nat, NEW ss \in [1..n -> Seq(S)]
  PROVE  \E f \in [0..n -> Seq(S)] :
           /\ f[0] = <<>>
           /\ \A i \in 1..n : f[i] = f[i - 1] \o ss[i]
           /\ FlattenSeq(ss) = f[n]
<1>1. Len(ss) = n /\ ss \in Seq(Seq(S))
  BY IsASeq, LenProperties
<1> DEFINE step == [p \in Seq(S) \X (1..n) |-> p[1] \o ss[p[2]]]
<1>2. step \in [Seq(S) \X (1..n) -> Seq(S)]
  BY ConcatProperties
<1>3. <<>> \in Seq(S)
  OBVIOUS
<1> HIDE DEF step
<1>4. PICK f \in [0..n -> Seq(S)] : IsSteps(f, n, <<>>, step)
  BY <1>2, <1>3, StepRecursion
<1>5. \A i \in 1..n : f[i] = f[i - 1] \o ss[i]
  <2> SUFFICES ASSUME NEW i \in 1..n PROVE f[i] = f[i - 1] \o ss[i]
    OBVIOUS
  <2>1. i - 1 \in 0..n /\ <<f[i - 1], i>> \in Seq(S) \X (1..n)
    BY <1>4
  <2>2. step[<<f[i - 1], i>>] = f[i - 1] \o ss[i]
    BY <2>1 DEF step
  <2> QED BY <1>4, <2>2 DEF IsSteps
<1>6. f[0] = <<>>
  BY <1>4 DEF IsSteps
<1>7. FlattenSeq(ss) = f[n]
  <2>1. CASE n = 0
    <3>1. ss = <<>>
      BY <1>1, <2>1, EmptySeq
    <3>2. FlattenSeq(ss) = ss
      BY <1>1, <2>1 DEF FlattenSeq
    <3> QED BY <1>6, <2>1, <3>1, <3>2
  <2>2. CASE n # 0
    <3> DEFINE Is(h) == h = [i \in 1..n |-> IF i = 1 THEN ss[i] ELSE h[i - 1] \o ss[i]]
               g == [i \in 1..n |-> f[i]]
               h == CHOOSE h : Is(h)
    <3>1. Is(g)
      <4>1. ASSUME NEW i \in 1..n PROVE g[i] = IF i = 1 THEN ss[i] ELSE g[i - 1] \o ss[i]
        <5>1. CASE i = 1
          <6>1. ss[1] \in Seq(S) /\ f[1] = f[0] \o ss[1]
            BY <1>5, <5>1
          <6>2. f[1] = ss[1]
            BY <1>6, <6>1, ConcatEmptySeq
          <6> QED BY <5>1, <6>2
        <5>2. CASE i # 1
          <6>1. i - 1 \in 1..n
            BY <5>2
          <6>2. g[i] = f[i] /\ g[i - 1] = f[i - 1]
            BY <6>1
          <6> QED BY <1>5, <5>2, <6>2
        <5> QED BY <5>1, <5>2
      <4> QED BY <4>1
    <3> HIDE DEF g, Is
    <3>2. Is(h)
      BY <3>1
    <3>3. FlattenSeq(ss) = h[n]
      BY <1>1, <2>2 DEF FlattenSeq, Is
    <3> HIDE DEF h
    <3> DEFINE T == {i \in 0..n : i = 0 \/ h[i] = f[i]}
    <3>4. 0 \in T
      OBVIOUS
    <3>5. ASSUME NEW k \in 0..(n - 1), k \in T PROVE k + 1 \in T
      <4>0. k + 1 \in 1..n /\ (k + 1) - 1 = k
        OBVIOUS
      <4>1. h[k + 1] = IF k = 0 THEN ss[k + 1] ELSE h[k] \o ss[k + 1]
        <5>1. h[k + 1] = IF k + 1 = 1 THEN ss[k + 1] ELSE h[(k + 1) - 1] \o ss[k + 1]
          <6> HIDE DEF h
          <6>1. \A i \in 1..n : h[i] = IF i = 1 THEN ss[i] ELSE h[i - 1] \o ss[i]
            BY <3>2 DEF Is
          <6> QED BY <6>1, <4>0
        <5>2. k + 1 = 1 <=> k = 0
          OBVIOUS
        <5> QED BY <4>0, <5>1, <5>2
      <4>2. f[k + 1] = f[k] \o ss[k + 1]
        BY <1>5, <4>0
      <4>3. k = 0 => f[k + 1] = ss[k + 1]
        <5>1. ss[k + 1] \in Seq(S)
          BY <4>0
        <5> QED BY <1>6, <4>2, <5>1, ConcatEmptySeq
      <4>4. h[k + 1] = f[k + 1]
        BY <3>5, <4>1, <4>2, <4>3 DEF T
      <4> QED BY <4>0, <4>4 DEF T
    <3> HIDE DEF T
    <3>6. 0..n \subseteq T
      BY <3>4, <3>5, InductionUpTo
    <3>7. h[n] = f[n]
      BY <2>2, <3>6 DEF T
    <3> QED BY <3>3, <3>7
  <2> QED BY <2>1, <2>2
<1> QED BY <1>5, <1>6, <1>7

(* The same, with a name for what f is. *)
Flattened(f, n, ss) ==
  /\ f[0] = <<>>
  /\ \A i \in 1..n : f[i] = f[i - 1] \o ss[i]
  /\ FlattenSeq(ss) = f[n]

LEMMA FlattenPrefixes ==
  ASSUME NEW S, NEW n \in Nat, NEW ss \in [1..n -> Seq(S)]
  PROVE  \E f \in [0..n -> Seq(S)] : Flattened(f, n, ss)
BY FlattenSteps, ZenonT(60) DEF Flattened

(* A sequence is flattened part by part. *)
LEMMA FlattenConcat ==
  ASSUME NEW S, NEW ss \in Seq(Seq(S)), NEW tt \in Seq(Seq(S))
  PROVE  /\ FlattenSeq(ss) \in Seq(S) /\ FlattenSeq(tt) \in Seq(S)
         /\ FlattenSeq(ss \o tt) = FlattenSeq(ss) \o FlattenSeq(tt)
<1> DEFINE n == Len(ss)
           m == Len(tt)
           uu == ss \o tt
<1>1. n \in Nat /\ m \in Nat /\ ss \in [1..n -> Seq(S)] /\ tt \in [1..m -> Seq(S)]
  BY LenProperties
<1>2. /\ uu \in Seq(Seq(S)) /\ Len(uu) = n + m
      /\ \A i \in 1..(n + m) : uu[i] = IF i <= n THEN ss[i] ELSE tt[i - n]
  BY ConcatProperties
<1>3. uu \in [1..(n + m) -> Seq(S)]
  BY <1>2, LenProperties
<1> HIDE DEF n, m, uu
<1>4. PICK f \in [0..n -> Seq(S)] : Flattened(f, n, ss)
  BY <1>1, FlattenPrefixes
<1>5. PICK g \in [0..m -> Seq(S)] : Flattened(g, m, tt)
  BY <1>1, FlattenPrefixes
<1>6. n + m \in Nat
  BY <1>1
<1>7. PICK h \in [0..(n + m) -> Seq(S)] : Flattened(h, n + m, uu)
  BY <1>3, <1>6, FlattenPrefixes
<1> DEFINE T == {i \in 0..n : h[i] = f[i]}
<1>8. 0 \in T
  BY <1>1, <1>4, <1>7 DEF Flattened
<1>9. ASSUME NEW i \in 0..(n - 1), i \in T PROVE i + 1 \in T
  <2>1. /\ i + 1 \in 1..n /\ i + 1 \in 0..n /\ i + 1 \in 1..(n + m) /\ i + 1 <= n
        /\ (i + 1) - 1 = i
    BY <1>1
  <2>2. h[i + 1] = h[i] \o uu[i + 1] /\ f[i + 1] = f[i] \o ss[i + 1]
    BY <1>4, <1>7, <2>1 DEF Flattened
  <2>3. uu[i + 1] = ss[i + 1]
    BY <1>2, <2>1
  <2> QED BY <1>9, <2>1, <2>2, <2>3
<1> HIDE DEF T
<1>10. h[n] = f[n]
  <2>1. 0..n \subseteq T
    BY <1>1, <1>8, <1>9, InductionUpTo
  <2> QED BY <1>1, <2>1 DEF T
<1> DEFINE R == {i \in 0..m : h[n + i] = f[n] \o g[i]}
<1>11. 0 \in R
  <2>1. PICK p \in Seq(S) : p = f[n]
    BY <1>1, <1>4
  <2>2. p \o <<>> = p
    BY ConcatEmptySeq
  <2>3. n + 0 = n /\ 0 \in 0..m
    BY <1>1
  <2>4. g[0] = <<>>
    BY <1>5 DEF Flattened
  <2>5. h[n + 0] = f[n] \o g[0]
    BY <1>10, <2>1, <2>2, <2>3, <2>4
  <2> QED BY <2>3, <2>5
<1>12. ASSUME NEW i \in 0..(m - 1), i \in R PROVE i + 1 \in R
  <2>1. /\ i + 1 \in 1..m /\ i + 1 \in 0..m /\ (i + 1) - 1 = i /\ i \in 0..m
        /\ n + (i + 1) \in 1..(n + m) /\ (n + (i + 1)) - 1 = n + i
        /\ ~(n + (i + 1) <= n) /\ (n + (i + 1)) - n = i + 1
    BY <1>1
  <2>2. h[n + (i + 1)] = h[n + i] \o uu[n + (i + 1)] /\ g[i + 1] = g[i] \o tt[i + 1]
    BY <1>5, <1>7, <2>1 DEF Flattened
  <2>3. uu[n + (i + 1)] = tt[i + 1]
    BY <1>2, <2>1
  <2>4. PICK p \in Seq(S) : p = f[n]
    BY <1>1, <1>4
  <2>5. PICK q \in Seq(S) : q = g[i]
    BY <1>5, <2>1
  <2>6. PICK r \in Seq(S) : r = tt[i + 1]
    BY <1>1, <2>1
  <2>7. (p \o q) \o r = p \o (q \o r)
    <3>1. Associates(p, q, r)
      BY ConcatAssociates
    <3> QED BY <3>1 DEF Associates
  <2> QED BY <1>12, <2>1, <2>2, <2>3, <2>4, <2>5, <2>6, <2>7
<1> HIDE DEF R
<1>13. h[n + m] = f[n] \o g[m]
  <2>1. 0..m \subseteq R
    BY <1>1, <1>11, <1>12, InductionUpTo
  <2> QED BY <1>1, <2>1 DEF R
<1>14. FlattenSeq(ss) = f[n] /\ FlattenSeq(tt) = g[m] /\ FlattenSeq(uu) = h[n + m]
  BY <1>4, <1>5, <1>7 DEF Flattened
<1>15. f[n] \in Seq(S) /\ g[m] \in Seq(S)
  BY <1>1, <1>4, <1>5
<1> QED BY <1>13, <1>14, <1>15 DEF uu

(* One sequence, or none, flattened. *)
LEMMA FlattenOne ==
  ASSUME NEW S, NEW s \in Seq(S)
  PROVE  FlattenSeq(<<s>>) = s /\ FlattenSeq(<<>>) = <<>>
<1>1. <<s>> \in [1..1 -> Seq(S)] /\ <<>> \in [1..0 -> Seq(S)]
  OBVIOUS
<1>2. PICK f \in [0..1 -> Seq(S)] : Flattened(f, 1, <<s>>)
  BY <1>1, FlattenPrefixes
<1>3. PICK g \in [0..0 -> Seq(S)] : Flattened(g, 0, <<>>)
  BY <1>1, FlattenPrefixes
<1>4. f[1] = <<>> \o s
  <2>1. f[0] = <<>> /\ \A i \in 1..1 : f[i] = f[i - 1] \o <<s>>[i]
    BY <1>2 DEF Flattened
  <2>2. 1 \in 1..1 /\ 1 - 1 = 0
    OBVIOUS
  <2>3. f[1] = f[1 - 1] \o <<s>>[1]
    BY <2>1, <2>2
  <2> QED BY <2>1, <2>2, <2>3
<1>5. <<>> \o s = s
  BY ConcatEmptySeq
<1> QED BY <1>2, <1>3, <1>4, <1>5 DEF Flattened

(* s is what follows the first e elements of w. *)
Run(s, w, e) == \A k \in 1..Len(s) : s[k] = w[e + k]

(* A sequence is a suffix of another when it is its last elements. *)
LEMMA SuffixByElements ==
  ASSUME NEW S, NEW s \in Seq(S), NEW t \in Seq(S), NEW e \in Nat,
         Len(t) = e + Len(s), Run(s, t, e)
  PROVE  IsSuffix(s, t)
<1> DEFINE r == Reverse(s)
           q == Reverse(t)
           n == Len(s)
<1>1. n \in Nat /\ Len(t) \in Nat /\ n <= Len(t)
  BY LenProperties
<1>2. /\ r \in Seq(S) /\ Len(r) = n /\ \A i \in 1..n : r[i] = s[(n - i) + 1]
      /\ q \in Seq(S) /\ Len(q) = Len(t) /\ \A i \in 1..Len(t) : q[i] = t[(Len(t) - i) + 1]
  <2>1. /\ \A i \in 1..n : s[(n - i) + 1] \in S
        /\ \A i \in 1..Len(t) : t[(Len(t) - i) + 1] \in S
    BY <1>1
  <2>2. r = [i \in 1..n |-> s[(n - i) + 1]] /\ q = [i \in 1..Len(t) |-> t[(Len(t) - i) + 1]]
    BY DEF Reverse
  <2> QED BY <1>1, <2>1, <2>2
<1>3. \A i \in 1..n : r[i] = q[i]
  <2> SUFFICES ASSUME NEW i \in 1..n PROVE r[i] = q[i]
    OBVIOUS
  <2>1. (n - i) + 1 \in 1..n /\ e + ((n - i) + 1) = (Len(t) - i) + 1 /\ i \in 1..Len(t)
    BY <1>1
  <2>2. s[(n - i) + 1] = t[e + ((n - i) + 1)]
    BY <2>1 DEF Run
  <2> QED BY <1>2, <2>1, <2>2
<1> HIDE DEF r, q
<1>4. \A i \in 1..n : r[i] \in S /\ q[i] \in S
  BY <1>1, <1>2, <1>3
<1>5. /\ SubSeq(r, 1, n) \in Seq(S) /\ Len(SubSeq(r, 1, n)) = n
      /\ \A i \in 1..n : SubSeq(r, 1, n)[i] = r[i]
      /\ SubSeq(q, 1, n) \in Seq(S) /\ Len(SubSeq(q, 1, n)) = n
      /\ \A i \in 1..n : SubSeq(q, 1, n)[i] = q[i]
  BY <1>1, <1>4, SubSeqProperties
<1>6. SubSeq(r, 1, n) = SubSeq(q, 1, n)
  BY <1>3, <1>5, SeqEqual
<1> QED BY <1>1, <1>2, <1>6 DEF IsSuffix, IsPrefix, r, q

(* Two runs of a sequence, the second of which begins where the first      *)
(* ends, make a run.                                                       *)
LEMMA JoinedRuns ==
  ASSUME NEW S, NEW a \in Seq(S), NEW b \in Seq(S), NEW w, NEW e \in Nat,
         Run(a, w, e), Run(b, w, e + Len(a))
  PROVE  /\ a \o b \in Seq(S) /\ Len(a \o b) = Len(a) + Len(b)
         /\ Run(a \o b, w, e)
<1>1. Len(a) \in Nat /\ Len(b) \in Nat
  BY LenProperties
<1>2. /\ a \o b \in Seq(S) /\ Len(a \o b) = Len(a) + Len(b)
      /\ \A k \in 1..(Len(a) + Len(b)) :
           (a \o b)[k] = IF k <= Len(a) THEN a[k] ELSE b[k - Len(a)]
  BY ConcatProperties
<1>3. ASSUME NEW k \in 1..(Len(a) + Len(b)) PROVE (a \o b)[k] = w[e + k]
  <2>1. CASE k <= Len(a)
    BY <1>1, <1>2, <2>1 DEF Run
  <2>2. CASE k > Len(a)
    <3>1. k - Len(a) \in 1..Len(b) /\ (e + Len(a)) + (k - Len(a)) = e + k
      BY <1>1, <2>2
    <3>2. (a \o b)[k] = b[k - Len(a)]
      BY <1>1, <1>2, <2>2
    <3> QED BY <3>1, <3>2 DEF Run
  <2> QED BY <1>1, <2>1, <2>2
<1> QED BY <1>2, <1>3 DEF Run

(* The i-th of n sequences is the run of w from bound[i - 1] to bound[i]. *)
Meet(ss, n, w, bound) ==
  \A i \in 1..n :
    bound[i] = bound[i - 1] + Len(ss[i]) /\ Run(ss[i], w, bound[i - 1])

(* Runs of a sequence each of which begins where the one before it ends    *)
(* make a run when they are flattened.                                     *)
LEMMA FlattenedRuns ==
  ASSUME NEW S, NEW n \in Nat, NEW ss \in [1..n -> Seq(S)], NEW w,
         NEW bound \in [0..n -> Nat], Meet(ss, n, w, bound)
  PROVE  /\ FlattenSeq(ss) \in Seq(S)
         /\ bound[n] = bound[0] + Len(FlattenSeq(ss))
         /\ Run(FlattenSeq(ss), w, bound[0])
<1>1. PICK f \in [0..n -> Seq(S)] : /\ f[0] = <<>>
                                    /\ \A i \in 1..n : f[i] = f[i - 1] \o ss[i]
                                    /\ FlattenSeq(ss) = f[n]
  BY FlattenSteps
<1>2. PICK e \in Nat : e = bound[0]
  OBVIOUS
<1> DEFINE T == {i \in 0..n : bound[i] = e + Len(f[i]) /\ Run(f[i], w, e)}
<1>3. 0 \in T
  <2>1. Len(f[0]) = 0 /\ 1..Len(f[0]) = {}
    BY <1>1
  <2> QED BY <1>2, <2>1, SMTT(30) DEF Run
<1>4. ASSUME NEW i \in 0..(n - 1), i \in T PROVE i + 1 \in T
  <2>1. i + 1 \in 1..n /\ i + 1 \in 0..n /\ i \in 0..n /\ (i + 1) - 1 = i
    OBVIOUS
  <2>2. PICK p \in Seq(S) : p = f[i]
    BY <2>1
  <2>3. PICK q \in Seq(S) : q = ss[i + 1]
    BY <2>1
  <2>4. f[i + 1] = p \o q
    BY <1>1, <2>1, <2>2, <2>3
  <2>5. bound[i] = e + Len(p) /\ Run(p, w, e)
    BY <1>4, <2>2
  <2>6. bound[i + 1] = bound[i] + Len(q) /\ Run(q, w, bound[i])
    <3>1. /\ bound[i + 1] = bound[(i + 1) - 1] + Len(ss[i + 1])
          /\ Run(ss[i + 1], w, bound[(i + 1) - 1])
      BY <2>1 DEF Meet
    <3> QED BY <2>1, <2>3, <3>1
  <2>7. Run(q, w, e + Len(p))
    BY <2>5, <2>6
  <2>8. Len(p \o q) = Len(p) + Len(q) /\ Run(p \o q, w, e)
    <3> HIDE DEF T
    <3> QED BY <2>5, <2>7, JoinedRuns
  <2>9. bound[i + 1] = e + Len(p \o q)
    <3>1. Len(p) \in Nat /\ Len(q) \in Nat
      BY LenProperties
    <3>2. bound[i + 1] = (e + Len(p)) + Len(q)
      BY <2>5, <2>6
    <3>3. \A a, b \in Nat : (e + a) + b = e + (a + b)
      OBVIOUS
    <3> QED BY <2>8, <3>1, <3>2, <3>3
  <2> QED BY <2>1, <2>4, <2>8, <2>9
<1> HIDE DEF T
<1>5. n \in T
  <2>1. 0..n \subseteq T
    BY <1>3, <1>4, InductionUpTo
  <2> QED BY <2>1
<1>6. bound[n] = e + Len(f[n]) /\ Run(f[n], w, e)
  BY <1>5 DEF T
<1> QED BY <1>1, <1>2, <1>6

(* A set of such numbers has a greatest one. *)
LEMMA MaxWithin ==
  ASSUME NEW n \in Nat, NEW t \in SUBSET (1..n), t # {}
  PROVE  Max(t) \in t /\ \A x \in t : x <= Max(t)
<1> DEFINE T == {m \in 0..n : n - m \in t}
<1>1. T \subseteq Nat /\ T # {}
  <2>1. PICK x \in t : TRUE
    OBVIOUS
  <2>2. x \in 1..n
    BY <2>1
  <2>3. n - x \in 0..n /\ n - (n - x) = x
    BY <2>2
  <2>4. n - x \in T
    BY <2>1, <2>3
  <2>5. T \subseteq Nat
    OBVIOUS
  <2> HIDE DEF T
  <2> QED BY <2>4, <2>5
<1> HIDE DEF T
<1>2. PICK m \in T : \A k \in T : m <= k
  BY <1>1, LeastNatural
<1>3. n - m \in t /\ \A x \in t : n - m >= x
  <2>1. ASSUME NEW x \in t PROVE n - x \in T /\ n - x >= m
    <3>1. n - x \in 0..n /\ n - (n - x) = x
      OBVIOUS
    <3>2. n - x \in T
      BY <3>1 DEF T
    <3> QED BY <1>2, <3>2
  <2> QED BY <1>2, <2>1 DEF T
<1>4. \A x \in t : (\A y \in t : x >= y) => x = n - m
  <2> SUFFICES ASSUME NEW x \in t, \A y \in t : x >= y PROVE x = n - m
    OBVIOUS
  <2>1. PICK y \in t : y = n - m
    BY <1>3
  <2>2. x \in 1..n /\ y \in 1..n /\ x >= y /\ y >= x
    BY <1>3, <2>1
  <2> QED BY <2>1, <2>2
<1> QED BY <1>3, <1>4 DEF Max

(* h agrees with step wherever its values are in A. *)
Follows(h, n, A, base, step) ==
  /\ h[{}] = base
  /\ \A t \in SUBSET (1..n) :
       (t # {} /\ h[t \ {Max(t)}] \in A) => h[t] = step[<<h[t \ {Max(t)}], Max(t)>>]

(* v is the last of the steps. *)
Reached(v, A, n, base, step) ==
  \E f \in [0..n -> A] : IsSteps(f, n, base, step) /\ f[n] = v

(* What a fold computes, it computes from the first element to the last.   *)
LEMMA Unrolled ==
  ASSUME NEW A, NEW n \in Nat, NEW base \in A, NEW step \in [A \X (1..n) -> A],
         NEW h, Follows(h, n, A, base, step)
  PROVE  Reached(h[1..n], A, n, base, step)
<1>1. PICK f \in [0..n -> A] : IsSteps(f, n, base, step)
  BY StepRecursion
<1> DEFINE T == {i \in 0..n : f[i] = h[1..i]}
<1>2. 0 \in T
  <2>1. 1..0 = {}
    OBVIOUS
  <2> QED BY <1>1, <2>1 DEF IsSteps, Follows
<1>3. ASSUME NEW i \in 0..(n - 1), i \in T PROVE i + 1 \in T
  <2>1. i + 1 \in 1..n /\ i + 1 \in 0..n /\ i \in 0..n /\ (i + 1) - 1 = i /\ i + 1 \in Nat \ {0}
    OBVIOUS
  <2>2. Max(1..(i + 1)) = i + 1 /\ (1..(i + 1)) \ {i + 1} = 1..i /\ 1..(i + 1) # {}
    BY <2>1, UpTo
  <2>3. f[i] = h[1..i] /\ f[i] \in A
    BY <1>1, <1>3, <2>1
  <2>4. h[1..(i + 1)] = step[<<h[1..i], i + 1>>]
    <3>1. 1..(i + 1) \in SUBSET (1..n)
      BY <2>1
    <3> QED BY <2>2, <2>3, <3>1 DEF Follows
  <2>5. f[i + 1] = step[<<f[i], i + 1>>]
    BY <1>1, <2>1 DEF IsSteps
  <2> QED BY <2>1, <2>3, <2>4, <2>5
<1> HIDE DEF T
<1>4. n \in T
  <2>1. 0..n \subseteq T
    BY <1>2, <1>3, InductionUpTo
  <2> QED BY <2>1
<1> QED BY <1>1, <1>4 DEF T, Reached

(* R is a strict total order on S. *)
Orders(R, S) ==
  /\ \A x \in S : <<x, x>> \notin R
  /\ \A x, y, z \in S : <<x, y>> \in R /\ <<y, z>> \in R => <<x, z>> \in R
  /\ \A x, y \in S : x = y \/ <<x, y>> \in R \/ <<y, x>> \in R

(* A finite set has a sequence of its elements in the order R: each stands *)
(* where there are as many before it as in R.                              *)
LEMMA SortedEnumeration ==
  ASSUME NEW S, IsFiniteSet(S), NEW R, Orders(R, S)
  PROVE  \E s \in [1..Cardinality(S) -> S] :
           \A i, j \in 1..Cardinality(S) : i < j => <<s[i], s[j]>> \in R
<1> DEFINE n == Cardinality(S)
           pred(x) == {y \in S : <<y, x>> \in R}
           rank == [x \in S |-> Cardinality(pred(x)) + 1]
<1>1. n \in Nat
  BY FS_CardinalityType
<1>2. \A x \in S : pred(x) \in SUBSET S /\ IsFiniteSet(pred(x)) /\ Cardinality(pred(x)) \in Nat
  <2>1. \A T \in SUBSET S : IsFiniteSet(T) /\ Cardinality(T) \in Nat
    BY FS_Subset, FS_CardinalityType
  <2> QED BY <2>1
<1>3. \A x \in S : rank[x] \in 1..n
  <2> SUFFICES ASSUME NEW x \in S PROVE rank[x] \in 1..n
    OBVIOUS
  <2>1. pred(x) # S
    BY DEF Orders
  <2>2. Cardinality(pred(x)) <= n /\ Cardinality(pred(x)) # n
    BY <1>2, <2>1, FS_Subset
  <2> QED BY <1>1, <1>2, <2>2
<1>4. ASSUME NEW x \in S, NEW y \in S, <<x, y>> \in R PROVE rank[x] < rank[y]
  <2>1. pred(x) \in SUBSET pred(y)
    BY <1>4 DEF Orders
  <2>2. x \in pred(y) /\ x \notin pred(x)
    BY <1>4 DEF Orders
  <2>3. Cardinality(pred(x)) <= Cardinality(pred(y)) /\ Cardinality(pred(x)) # Cardinality(pred(y))
    <3>1. \A P, Q : IsFiniteSet(P) /\ Q \in SUBSET P =>
            Cardinality(Q) <= Cardinality(P) /\ (Cardinality(P) = Cardinality(Q) => P = Q)
      BY FS_Subset
    <3>2. pred(x) # pred(y)
      BY <2>2
    <3> HIDE DEF pred
    <3> QED BY <1>2, <2>1, <3>1, <3>2
  <2>4. rank[x] = Cardinality(pred(x)) + 1 /\ rank[y] = Cardinality(pred(y)) + 1
    OBVIOUS
  <2>5. Cardinality(pred(x)) \in Nat /\ Cardinality(pred(y)) \in Nat
    BY <1>2
  <2> HIDE DEF rank, pred
  <2> QED BY <2>3, <2>4, <2>5
<1> HIDE DEF pred
<1>5. rank \in Injection(S, 1..n)
  <2>1. rank \in [S -> 1..n]
    BY <1>3
  <2>2. \A x \in S : rank[x] \in Nat
    BY <1>1, <1>3
  <2>3. ASSUME NEW x \in S, NEW y \in S, rank[x] = rank[y] PROVE x = y
    <3>1. ~(rank[x] < rank[y]) /\ ~(rank[y] < rank[x])
      BY <2>2, <2>3
    <3> QED BY <1>4, <3>1 DEF Orders
  <2> HIDE DEF rank
  <2> QED BY <2>1, <2>3 DEF Injection, IsInjective
<1> HIDE DEF rank
<1>6. rank \in Surjection(S, 1..n)
  <2>1. IsFiniteSet(1..n) /\ Cardinality(1..n) = n
    BY <1>1, FS_Interval
  <2> QED BY <1>5, <2>1, FS_Injection
<1>7. \A i \in 1..n : \E x \in S : rank[x] = i
  BY <1>6 DEF Surjection
<1> DEFINE s == [i \in 1..n |-> CHOOSE x \in S : rank[x] = i]
<1>8. \A i \in 1..n : s[i] \in S /\ rank[s[i]] = i
  BY <1>7
<1>9. s \in [1..n -> S]
  BY <1>8
<1>10. ASSUME NEW i \in 1..n, NEW j \in 1..n, i < j PROVE <<s[i], s[j]>> \in R
  <2> DEFINE x == s[i]
             y == s[j]
  <2>1. x \in S /\ y \in S /\ rank[x] = i /\ rank[y] = j
    BY <1>8
  <2> HIDE DEF x, y
  <2>2. x # y /\ ~(rank[y] < rank[x])
    BY <1>1, <1>10, <2>1
  <2>3. <<x, y>> \in R
    BY <1>4, <2>1, <2>2 DEF Orders
  <2> QED BY <2>3 DEF x, y
<1> HIDE DEF s
<1> QED BY <1>9, <1>10

(* In such a sequence there are all the elements of the set. *)
LEMMA SortedIsWhole ==
  ASSUME NEW S, IsFiniteSet(S), NEW s \in [1..Cardinality(S) -> S],
         \A i, j \in 1..Cardinality(S) : i # j => s[i] # s[j]
  PROVE  \A x \in S : \E i \in 1..Cardinality(S) : s[i] = x
<1> DEFINE n == Cardinality(S)
<1>1. n \in Nat
  BY FS_CardinalityType
<1>2. IsFiniteSet(1..n) /\ Cardinality(1..n) = n
  BY <1>1, FS_Interval
<1>3. s \in Injection(1..n, S)
  BY DEF Injection, IsInjective
<1>4. s \in Surjection(1..n, S)
  BY <1>2, <1>3, FS_Injection
<1> QED BY <1>4 DEF Surjection

(* An element of a flattened sequence is one of a sequence in it. *)
LEMMA FlattenedElements ==
  ASSUME NEW S, NEW n \in Nat, NEW ss \in [1..n -> Seq(S)], NEW E,
         \A i \in 1..n : \A k \in 1..Len(ss[i]) : ss[i][k] \in E
  PROVE  \A k \in 1..Len(FlattenSeq(ss)) : FlattenSeq(ss)[k] \in E
<1> DEFINE within(q) == \A k \in 1..Len(q) : q[k] \in E
<1>1. PICK f \in [0..n -> Seq(S)] : /\ f[0] = <<>>
                                    /\ \A i \in 1..n : f[i] = f[i - 1] \o ss[i]
                                    /\ FlattenSeq(ss) = f[n]
  BY FlattenSteps, ZenonT(60)
<1> DEFINE T == {i \in 0..n : within(f[i])}
<1>2. 0 \in T
  BY <1>1
<1>3. ASSUME NEW i \in 0..(n - 1), i \in T PROVE i + 1 \in T
  <2>1. i + 1 \in 1..n /\ i + 1 \in 0..n /\ i \in 0..n /\ (i + 1) - 1 = i
    OBVIOUS
  <2>2. PICK p \in Seq(S) : p = f[i]
    BY <2>1
  <2>3. PICK q \in Seq(S) : q = ss[i + 1]
    BY <2>1
  <2>4. within(p) /\ within(q)
    BY <1>3, <2>1, <2>2, <2>3
  <2>5. within(p \o q)
    <3> SUFFICES ASSUME NEW k \in 1..Len(p \o q) PROVE (p \o q)[k] \in E
      OBVIOUS
    <3>1. /\ Len(p) \in Nat /\ Len(q) \in Nat /\ Len(p \o q) = Len(p) + Len(q)
          /\ (p \o q)[k] = IF k <= Len(p) THEN p[k] ELSE q[k - Len(p)]
      BY ConcatProperties
    <3>2. CASE k <= Len(p)
      BY <2>4, <3>1, <3>2
    <3>3. CASE k > Len(p)
      <4>1. k - Len(p) \in 1..Len(q)
        BY <3>1, <3>3
      <4> QED BY <2>4, <3>1, <3>3, <4>1
    <3> QED BY <3>1, <3>2, <3>3
  <2>6. f[i + 1] = p \o q
    BY <1>1, <2>1, <2>2, <2>3
  <2> QED BY <2>1, <2>5, <2>6
<1> HIDE DEF T
<1>4. n \in T
  <2>1. 0..n \subseteq T
    BY <1>2, <1>3, InductionUpTo
  <2> QED BY <2>1
<1> QED BY <1>1, <1>4 DEF T

(* Nothing, flattened. *)
LEMMA FlattenNone ==
  ASSUME NEW S, NEW n \in Nat, NEW ss \in [1..n -> Seq(S)], \A i \in 1..n : ss[i] = <<>>
  PROVE  FlattenSeq(ss) = <<>>
<1>1. PICK f \in [0..n -> Seq(S)] : Flattened(f, n, ss)
  BY FlattenPrefixes
<1> DEFINE T == {i \in 0..n : f[i] = <<>>}
<1>2. 0 \in T
  BY <1>1 DEF Flattened
<1>3. ASSUME NEW i \in 0..(n - 1), i \in T PROVE i + 1 \in T
  <2>1. i + 1 \in 1..n /\ i + 1 \in 0..n /\ (i + 1) - 1 = i
    OBVIOUS
  <2>2. f[i + 1] = f[i] \o ss[i + 1]
    BY <1>1, <2>1 DEF Flattened
  <2>3. f[i] = <<>> /\ ss[i + 1] = <<>>
    BY <1>3, <2>1
  <2>4. <<>> \o <<>> = <<>>
    BY ConcatEmptySeq
  <2> QED BY <2>1, <2>2, <2>3, <2>4
<1> HIDE DEF T
<1>4. n \in T
  <2>1. 0..n \subseteq T
    BY <1>2, <1>3, InductionUpTo
  <2> QED BY <2>1
<1> QED BY <1>1, <1>4 DEF Flattened, T

(* All sequences but the k-th are empty. *)
OnlyAt(ss, n, k) == \A i \in 1..n : i # k => ss[i] = <<>>

LEMMA FlattenSingle ==
  ASSUME NEW S, NEW n \in Nat, NEW ss \in [1..n -> Seq(S)], NEW k \in 1..n, OnlyAt(ss, n, k)
  PROVE  FlattenSeq(ss) = ss[k]
<1>1. PICK f \in [0..n -> Seq(S)] : Flattened(f, n, ss)
  BY FlattenPrefixes
<1> DEFINE T == {i \in 0..n : f[i] = IF i < k THEN <<>> ELSE ss[k]}
<1>2. 0 \in T
  BY <1>1 DEF Flattened
<1>3. ASSUME NEW i \in 0..(n - 1), i \in T PROVE i + 1 \in T
  <2>1. i + 1 \in 1..n /\ i + 1 \in 0..n /\ (i + 1) - 1 = i /\ i \in 0..n /\ k \in Int
    OBVIOUS
  <2>2. f[i + 1] = f[i] \o ss[i + 1]
    BY <1>1, <2>1 DEF Flattened
  <2>3. PICK x \in Seq(S) : x = ss[i + 1]
    BY <2>1
  <2>4. PICK y \in Seq(S) : y = f[i]
    BY <2>1
  <2>5. <<>> \o x = x /\ y \o <<>> = y
    BY ConcatEmptySeq
  <2>6. CASE i + 1 = k
    <3>1. i < k /\ ~(i + 1 < k)
      BY <2>1, <2>6
    <3>2. f[i] = <<>>
      BY <1>3, <3>1
    <3>3. f[i + 1] = ss[k]
      BY <2>2, <2>3, <2>5, <2>6, <3>2
    <3> QED BY <2>1, <3>1, <3>3
  <2>7. CASE i + 1 # k
    <3>1. i < k <=> i + 1 < k
      BY <2>1, <2>7
    <3>2. f[i + 1] = f[i]
      BY <2>1, <2>2, <2>4, <2>5, <2>7 DEF OnlyAt
    <3>3. f[i] = IF i < k THEN <<>> ELSE ss[k]
      BY <1>3
    <3>4. f[i + 1] = IF i + 1 < k THEN <<>> ELSE ss[k]
      BY <3>1, <3>2, <3>3
    <3> QED BY <2>1, <3>4
  <2> QED BY <2>6, <2>7
<1> HIDE DEF T
<1>4. n \in T
  <2>1. 0..n \subseteq T
    BY <1>2, <1>3, InductionUpTo
  <2> QED BY <2>1
<1> QED BY <1>1, <1>4 DEF Flattened, T

(* What h has for the elements of s, one after the other. *)
EachOf(h, s) == [i \in DOMAIN s |-> h[s[i]]]

Mapped(h, s) == FlattenSeq(EachOf(h, s))

(* q has what h has for the elements of s. *)
IsEach(q, h, s, R) ==
  q \in Seq(Seq(R)) /\ Len(q) = Len(s) /\ \A i \in 1..Len(s) : q[i] = h[s[i]]

LEMMA MappedType ==
  ASSUME NEW S, NEW R, NEW h \in [S -> Seq(R)], NEW s \in Seq(S)
  PROVE  IsEach(EachOf(h, s), h, s, R)
<1>1. Len(s) \in Nat /\ DOMAIN s = 1..Len(s) /\ \A i \in 1..Len(s) : s[i] \in S
  BY LenProperties, ElementOfSeq
<1>2. PICK q : q = [i \in DOMAIN s |-> h[s[i]]] /\ q = EachOf(h, s)
  BY DEF EachOf
<1>3. q \in [1..Len(s) -> Seq(R)] /\ \A i \in 1..Len(s) : q[i] = h[s[i]]
  BY <1>1, <1>2
<1>4. q \in Seq(Seq(R)) /\ Len(q) = Len(s)
  <2>1. PICK n \in Nat : n = Len(s)
    BY <1>1
  <2>2. PICK ss \in [1..n -> Seq(R)] : ss = q
    BY <1>3, <2>1
  <2>3. Len(ss) = n /\ ss \in Seq(Seq(R))
    BY IsASeq, LenProperties
  <2> QED BY <2>1, <2>2, <2>3
<1> QED BY <1>2, <1>3, <1>4 DEF IsEach

(* What h has for two sequences one after the other. *)
IsBoth(h, a, b, R) ==
  /\ Mapped(h, a) \in Seq(R) /\ Mapped(h, b) \in Seq(R)
  /\ Mapped(h, a \o b) = Mapped(h, a) \o Mapped(h, b)

LEMMA MappedConcat ==
  ASSUME NEW S, NEW R, NEW h \in [S -> Seq(R)], NEW a \in Seq(S), NEW b \in Seq(S)
  PROVE  IsBoth(h, a, b, R)
<1>1. /\ a \o b \in Seq(S) /\ Len(a \o b) = Len(a) + Len(b) /\ Len(a) \in Nat /\ Len(b) \in Nat
      /\ \A i \in 1..(Len(a) + Len(b)) : (a \o b)[i] = IF i <= Len(a) THEN a[i] ELSE b[i - Len(a)]
  BY ConcatProperties, LenProperties
<1>2. PICK u \in Seq(S) : u = a \o b
  BY <1>1
<1>3. PICK x \in Seq(Seq(R)) :
        x = EachOf(h, a) /\ Len(x) = Len(a) /\ \A i \in 1..Len(a) : x[i] = h[a[i]]
  <2>1. IsEach(EachOf(h, a), h, a, R)
    BY MappedType
  <2> QED BY <2>1 DEF IsEach
<1>4. PICK y \in Seq(Seq(R)) :
        y = EachOf(h, b) /\ Len(y) = Len(b) /\ \A i \in 1..Len(b) : y[i] = h[b[i]]
  <2>1. IsEach(EachOf(h, b), h, b, R)
    BY MappedType
  <2> QED BY <2>1 DEF IsEach
<1>5. PICK z \in Seq(Seq(R)) :
        z = EachOf(h, u) /\ Len(z) = Len(u) /\ \A i \in 1..Len(u) : z[i] = h[u[i]]
  <2>1. IsEach(EachOf(h, u), h, u, R)
    BY MappedType
  <2> QED BY <2>1 DEF IsEach
<1>6. /\ x \o y \in Seq(Seq(R)) /\ Len(x \o y) = Len(a) + Len(b)
      /\ \A i \in 1..(Len(a) + Len(b)) : (x \o y)[i] = IF i <= Len(a) THEN x[i] ELSE y[i - Len(a)]
  <2>1. /\ x \o y \in Seq(Seq(R)) /\ Len(x \o y) = Len(x) + Len(y)
        /\ \A i \in 1..(Len(x) + Len(y)) : (x \o y)[i] = IF i <= Len(x) THEN x[i] ELSE y[i - Len(x)]
    BY ConcatProperties
  <2>2. Len(x) = Len(a) /\ Len(y) = Len(b)
    BY <1>3, <1>4
  <2> QED BY <2>1, <2>2
<1>7. ASSUME NEW i \in 1..Len(z) PROVE z[i] = (x \o y)[i]
  <2>1. i \in 1..(Len(a) + Len(b)) /\ z[i] = h[u[i]]
    BY <1>1, <1>2, <1>5
  <2>2. CASE i <= Len(a)
    <3>1. i \in 1..Len(a) /\ u[i] = a[i]
      BY <1>1, <1>2, <2>1, <2>2
    <3> QED BY <1>3, <1>6, <2>1, <2>2, <3>1
  <2>3. CASE ~(i <= Len(a))
    <3>1. i - Len(a) \in 1..Len(b) /\ u[i] = b[i - Len(a)]
      BY <1>1, <1>2, <2>1, <2>3
    <3> QED BY <1>4, <1>6, <2>1, <2>3, <3>1
  <2> QED BY <2>2, <2>3
<1>8. z = x \o y
  <2>1. Len(z) = Len(x \o y)
    BY <1>1, <1>2, <1>5, <1>6
  <2> QED BY <1>6, <1>7, <2>1, SeqEqual
<1>9. /\ FlattenSeq(x) \in Seq(R) /\ FlattenSeq(y) \in Seq(R)
      /\ FlattenSeq(x \o y) = FlattenSeq(x) \o FlattenSeq(y)
  BY FlattenConcat
<1>10. Mapped(h, a) = FlattenSeq(x) /\ Mapped(h, b) = FlattenSeq(y) /\ Mapped(h, u) = FlattenSeq(z)
  BY <1>3, <1>4, <1>5 DEF Mapped
<1> QED BY <1>2, <1>8, <1>9, <1>10 DEF IsBoth

LEMMA MappedOne ==
  ASSUME NEW S, NEW R, NEW h \in [S -> Seq(R)]
  PROVE  Mapped(h, <<>>) = <<>> /\ \A x \in S : Mapped(h, <<x>>) = h[x]
<1>1. Mapped(h, <<>>) = <<>>
  <2>1. EachOf(h, <<>>) = <<>>
    BY DEF EachOf
  <2>2. <<>> \in Seq(R)
    OBVIOUS
  <2> QED BY <2>1, <2>2, FlattenOne DEF Mapped
<1>2. ASSUME NEW x \in S PROVE Mapped(h, <<x>>) = h[x]
  <2>1. PICK y \in Seq(R) : y = h[x]
    OBVIOUS
  <2>2. EachOf(h, <<x>>) = <<y>>
    BY <2>1 DEF EachOf
  <2> QED BY <2>1, <2>2, FlattenOne DEF Mapped
<1> QED BY <1>1, <1>2

-----------------------------------------------------------------------------
(* The policy engine *)

(* The strongest of some actions is one of them. *)
LEMMA StrongestAction ==
  ASSUME NEW acts \in SUBSET Actions, acts # {}
  PROVE  Strongest(acts) \in acts
<1>1. \A a \in Actions : Precedence[a] \in 0..3
  BY DEF Actions, Precedence
<1>2. \E a \in acts : \A b \in acts : Precedence[b] <= Precedence[a]
  <2>1. CASE "block" \in acts
    BY <2>1 DEF Actions, Precedence
  <2>2. CASE "block" \notin acts /\ "redact" \in acts
    BY <2>2 DEF Actions, Precedence
  <2>3. CASE "block" \notin acts /\ "redact" \notin acts /\ "flag" \in acts
    BY <2>3 DEF Actions, Precedence
  <2>4. CASE "block" \notin acts /\ "redact" \notin acts /\ "flag" \notin acts
    <3>1. acts = {"allow"}
      BY <2>4 DEF Actions
    <3> QED BY <3>1 DEF Precedence
  <2> QED BY <2>1, <2>2, <2>3, <2>4
<1> QED BY <1>2 DEF Strongest

(* Nothing is stronger than a block. *)
LEMMA BlockIsStrongest ==
  ASSUME NEW acts \in SUBSET Actions, "block" \in acts
  PROVE  Strongest(acts) = "block"
<1>1. Strongest(acts) \in acts
  BY StrongestAction
<1>2. /\ Precedence["block"] = 3 /\ Precedence["redact"] = 2
      /\ Precedence["flag"] = 1 /\ Precedence["allow"] = 0
  BY DEF Precedence
<1>3. \A b \in acts : b \in {"block", "redact", "flag", "allow"}
  BY DEF Actions
<1>4. \A b \in acts : Precedence[b] <= Precedence["block"]
  BY <1>2, <1>3
<1>5. \A b \in acts : Precedence[b] <= Precedence[Strongest(acts)]
  BY <1>4 DEF Strongest
<1>6. Precedence["block"] <= Precedence[Strongest(acts)]
  BY <1>5
<1> QED BY <1>1, <1>2, <1>3, <1>6

(* Whatever is found and whatever the rules, the verdict is an action. *)
LEMMA EvaluateAction ==
  ASSUME NEW rules, NEW phase, NEW findings, NEW tenant, NEW fail_mode
  PROVE  Evaluate(rules, phase, findings, tenant, fail_mode).action \in Actions
<1> DEFINE known == HitActions(Match(rules, phase, findings, tenant)) \cap Actions
<1>1. CASE known = {}
  BY <1>1 DEF Evaluate, Unclaimed, Allow, Actions
<1>2. CASE known # {}
  <2>1. Strongest(known) \in Actions
    BY <1>2, StrongestAction
  <2> QED BY <1>2, <2>1 DEF Evaluate, Allow, Actions
<1> QED BY <1>1, <1>2

(* A rule that blocks and claims a finding blocks. *)
LEMMA BlockHitBlocks ==
  ASSUME NEW rules, NEW phase, NEW findings, NEW tenant, NEW fail_mode,
         NEW h \in Match(rules, phase, findings, tenant), h.rule.action = "block"
  PROVE  Evaluate(rules, phase, findings, tenant, fail_mode).action = "block"
<1> DEFINE known == HitActions(Match(rules, phase, findings, tenant)) \cap Actions
<1>1. "block" \in known
  BY DEF HitActions, Actions
<1>2. Strongest(known) = "block" /\ known # {}
  BY <1>1, BlockIsStrongest
<1> QED BY <1>2 DEF Evaluate

(* In fail-closed mode what is found and claimed by no rule is blocked. *)
LEMMA UnclaimedBlocks ==
  ASSUME NEW rules, NEW phase, NEW findings, NEW tenant, findings # {},
         HitActions(Match(rules, phase, findings, tenant)) \cap Actions = {}
  PROVE  Evaluate(rules, phase, findings, tenant, "fail-closed").action = "block"
BY DEF Evaluate, Unclaimed

(* The hits of a verdict are hits of the rules. *)
LEMMA EvaluateHits ==
  ASSUME NEW rules, NEW phase, NEW findings, NEW tenant, NEW fail_mode
  PROVE  Evaluate(rules, phase, findings, tenant, fail_mode).hits
           \subseteq Match(rules, phase, findings, tenant)
<1> DEFINE known == HitActions(Match(rules, phase, findings, tenant)) \cap Actions
<1>1. CASE known = {}
  BY <1>1 DEF Evaluate, Unclaimed, Allow
<1>2. CASE known # {} /\ Strongest(known) = "allow"
  BY <1>2 DEF Evaluate, Allow
<1>3. CASE known # {} /\ Strongest(known) # "allow"
  BY <1>3 DEF Evaluate
<1> QED BY <1>1, <1>2, <1>3

(* What the hits of an action claim, rule by rule. *)
LEMMA ClaimedByRules ==
  ASSUME NEW rules, NEW phase, NEW findings, NEW tenant, NEW action, NEW f
  PROVE  f \in ClaimedBy(Match(rules, phase, findings, tenant), action)
           <=> \E j \in DOMAIN rules : /\ Applies(rules[j], phase, tenant)
                                       /\ rules[j].action = action
                                       /\ f \in Matching(rules[j], findings)
<1>1. ASSUME f \in ClaimedBy(Match(rules, phase, findings, tenant), action)
      PROVE  \E j \in DOMAIN rules : /\ Applies(rules[j], phase, tenant)
                                     /\ rules[j].action = action
                                     /\ f \in Matching(rules[j], findings)
  BY <1>1 DEF ClaimedBy, Match
<1>2. ASSUME NEW j \in DOMAIN rules, Applies(rules[j], phase, tenant),
             rules[j].action = action, f \in Matching(rules[j], findings)
      PROVE  f \in ClaimedBy(Match(rules, phase, findings, tenant), action)
  <2> DEFINE h == [at |-> j, rule |-> rules[j], findings |-> Matching(rules[j], findings)]
  <2>1. h \in Match(rules, phase, findings, tenant)
    BY <1>2 DEF Match
  <2>2. h.rule.action = action /\ f \in h.findings
    BY <1>2
  <2> HIDE DEF h
  <2> QED BY <2>1, <2>2 DEF ClaimedBy
<1> QED BY <1>1, <1>2

(* A rule that redacts and claims a finding redacts, unless another blocks. *)
LEMMA RedactHitRedacts ==
  ASSUME NEW rules, NEW phase, NEW findings, NEW tenant, NEW fail_mode,
         NEW h \in Match(rules, phase, findings, tenant), h.rule.action = "redact"
  PROVE  /\ Evaluate(rules, phase, findings, tenant, fail_mode).action \in {"redact", "block"}
         /\ Evaluate(rules, phase, findings, tenant, fail_mode).hits
              = Match(rules, phase, findings, tenant)
<1> DEFINE known == HitActions(Match(rules, phase, findings, tenant)) \cap Actions
           action == Strongest(known)
<1>1. "redact" \in known /\ known \in SUBSET Actions
  BY DEF HitActions, Actions
<1>2. action \in known /\ \A b \in known : Precedence[b] <= Precedence[action]
  <2>1. \E a \in known : \A b \in known : Precedence[b] <= Precedence[a]
    <3>1. CASE "block" \in known
      <4>1. \A b \in Actions : Precedence[b] <= Precedence["block"]
        BY DEF Actions, Precedence
      <4> HIDE DEF known
      <4> QED BY <1>1, <3>1, <4>1
    <3>2. CASE "block" \notin known
      <4>1. \A b \in Actions : b # "block" => Precedence[b] <= Precedence["redact"]
        BY DEF Actions, Precedence
      <4> HIDE DEF known
      <4> QED BY <1>1, <3>2, <4>1
    <3> QED BY <3>1, <3>2
  <2> HIDE DEF known
  <2> QED BY <2>1 DEF Strongest
<1>3. action \in {"redact", "block"}
  <2>1. action \in Actions /\ Precedence["redact"] <= Precedence[action]
    BY <1>1, <1>2
  <2> HIDE DEF action
  <2> QED BY <2>1 DEF Actions, Precedence
<1>4. known # {} /\ action # "allow"
  BY <1>1, <1>3
<1>5. /\ Evaluate(rules, phase, findings, tenant, fail_mode).action = action
      /\ Evaluate(rules, phase, findings, tenant, fail_mode).hits
           = Match(rules, phase, findings, tenant)
  BY <1>4 DEF Evaluate
<1> QED BY <1>3, <1>5

(* Nothing is redacted unless a rule that redacts claims a finding. *)
LEMMA RedactsForAHit ==
  ASSUME NEW rules, NEW phase, NEW findings, NEW tenant, NEW fail_mode,
         Evaluate(rules, phase, findings, tenant, fail_mode).action = "redact"
  PROVE  \E h \in Match(rules, phase, findings, tenant) : h.rule.action = "redact"
<1> DEFINE known == HitActions(Match(rules, phase, findings, tenant)) \cap Actions
<1>1. known # {} /\ Strongest(known) = "redact"
  <2>1. CASE known = {}
    BY <2>1 DEF Evaluate, Unclaimed, Allow
  <2>2. CASE known # {}
    BY <2>2 DEF Evaluate, Allow
  <2> QED BY <2>1, <2>2
<1>2. "redact" \in known
  BY <1>1, StrongestAction
<1> QED BY <1>2 DEF HitActions

(* A verdict that blocks for a rule reports all that was found. *)
LEMMA BlockHitReportsAll ==
  ASSUME NEW rules, NEW phase, NEW findings, NEW tenant, NEW fail_mode,
         NEW h \in Match(rules, phase, findings, tenant), h.rule.action = "block"
  PROVE  Evaluate(rules, phase, findings, tenant, fail_mode).findings = findings
<1> DEFINE known == HitActions(Match(rules, phase, findings, tenant)) \cap Actions
<1>1. "block" \in known
  BY DEF HitActions, Actions
<1>2. Strongest(known) = "block" /\ known # {}
  BY <1>1, BlockIsStrongest
<1> QED BY <1>2 DEF Evaluate
=============================================================================
