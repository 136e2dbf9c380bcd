-------------------------- MODULE EventStreamProofs --------------------------
(***************************************************************************)
(* Theorems about EventStream, for every byte string: into whatever chunks *)
(* a stream is cut, the events are those of the bytes taken at once, and   *)
(* no field is lost between what is written, held and incomplete.          *)
(***************************************************************************)
EXTENDS EventStream, OperatorLemmas

(* What a buffer holds and an event consists of. *)
Text == Seq(Bytes)

-----------------------------------------------------------------------------
(* Where events end *)

(* The bytes of a separator stand in s from i on. *)
Occurs(sep, s, i) ==
  i >= 1 /\ i + Len(sep) - 1 <= Len(s) /\ \A k \in 1..Len(sep) : s[i + k - 1] = sep[k]

LEMMA OccursIsPrefix ==
  ASSUME NEW sep \in Text, NEW s \in Text, NEW i \in 1..Len(s)
  PROVE  IsPrefix(sep, SubSeq(s, i, Len(s))) <=> Occurs(sep, s, i)
<1> DEFINE r == SubSeq(s, i, Len(s))
           n == Len(sep)
<1>1. n \in Nat /\ Len(s) \in Nat /\ i \in Nat /\ i >= 1 /\ i <= Len(s)
  BY LenProperties
<1>2. \A k \in i..Len(s) : s[k] \in Bytes
  BY <1>1, ElementOfSeq DEF Text
<1>3. /\ r \in Text /\ Len(r) = Len(s) - i + 1
      /\ \A k \in 1..(Len(s) - i + 1) : r[k] = s[i + k - 1]
  BY <1>1, <1>2, SubSeqProperties DEF Text
<1> HIDE DEF r
<1>4. SubSeq(sep, 1, n) = sep
  BY SubSeqFull DEF Text
<1>5. CASE n <= Len(r)
  <2>1. \A k \in 1..n : r[k] \in Bytes
    BY <1>1, <1>3, <1>5, ElementOfSeq DEF Text
  <2>2. /\ SubSeq(r, 1, n) \in Text /\ Len(SubSeq(r, 1, n)) = n
        /\ \A k \in 1..n : SubSeq(r, 1, n)[k] = r[k]
    BY <1>1, <2>1, SubSeqProperties DEF Text
  <2>3. sep = SubSeq(r, 1, n) <=> \A k \in 1..n : r[k] = sep[k]
    BY <2>2, SeqEqual DEF Text
  <2>4. \A k \in 1..n : r[k] = s[i + k - 1]
    BY <1>1, <1>3, <1>5
  <2> QED BY <1>1, <1>3, <1>4, <1>5, <2>3, <2>4 DEF IsPrefix, Occurs
<1>6. CASE ~(n <= Len(r))
  BY <1>1, <1>3, <1>6 DEF IsPrefix, Occurs
<1> QED BY <1>5, <1>6 DEF r

(* find() gives the first place of a separator, or none. *)
LEMMA FindIs ==
  ASSUME NEW sep \in Text, sep # <<>>, NEW s \in Text
  PROVE  \/ Find(s, sep) = 0 /\ \A i \in Nat : ~Occurs(sep, s, i)
         \/ /\ Find(s, sep) \in 1..Len(s) /\ Occurs(sep, s, Find(s, sep))
            /\ \A i \in Nat : Occurs(sep, s, i) => Find(s, sep) <= i
<1> DEFINE hits == {i \in 1..Len(s) : IsPrefix(sep, SubSeq(s, i, Len(s)))}
<1>0. Len(s) \in Nat /\ Len(sep) \in Nat /\ Len(sep) >= 1
  BY LenProperties, EmptySeq DEF Text
<1>1. \A i \in Nat : i \in hits <=> Occurs(sep, s, i)
  <2> SUFFICES ASSUME NEW i \in Nat PROVE i \in hits <=> Occurs(sep, s, i)
    OBVIOUS
  <2>1. CASE i \in 1..Len(s)
    BY <2>1, OccursIsPrefix
  <2>2. CASE i \notin 1..Len(s)
    BY <1>0, <2>2 DEF Occurs
  <2> QED BY <2>1, <2>2
<1>2. hits \subseteq Nat /\ hits \subseteq 1..Len(s)
  BY <1>0
<1>3. Find(s, sep) = IF hits = {} THEN 0 ELSE CHOOSE i \in hits : \A j \in hits : i <= j
  BY DEF Find
<1> HIDE DEF hits
<1>4. CASE hits = {}
  BY <1>1, <1>3, <1>4
<1>5. CASE hits # {}
  <2>1. \E i \in hits : \A j \in hits : i <= j
    BY <1>2, <1>5, LeastNatural
  <2>2. Find(s, sep) \in hits /\ \A j \in hits : Find(s, sep) <= j
    BY <1>3, <1>5, <2>1
  <2> QED BY <1>1, <1>2, <2>2
<1> QED BY <1>4, <1>5

(* The two separators. *)
LEMMA Separators ==
  /\ CrLfTwice \in Text /\ CrLfTwice # <<>> /\ Len(CrLfTwice) = 4
  /\ CrLfTwice[1] = Cr /\ CrLfTwice[2] = Lf /\ CrLfTwice[3] = Cr /\ CrLfTwice[4] = Lf
  /\ LfTwice \in Text /\ LfTwice # <<>> /\ Len(LfTwice) = 2
  /\ LfTwice[1] = Lf /\ LfTwice[2] = Lf
  /\ Cr # Lf
BY DEF CrLfTwice, LfTwice, Text, Bytes, Breaks, Cr, Lf

LEMMA CrLfOccurs ==
  ASSUME NEW s \in Text, NEW i \in Nat
  PROVE  Occurs(CrLfTwice, s, i) <=>
           /\ i >= 1 /\ i + 3 <= Len(s)
           /\ s[i] = Cr /\ s[i + 1] = Lf /\ s[i + 2] = Cr /\ s[i + 3] = Lf
<1>1. i + 4 - 1 = i + 3 /\ i + 1 - 1 = i /\ i + 2 - 1 = i + 1 /\ i + 3 - 1 = i + 2
  OBVIOUS
<1>2. 1..4 = {1, 2, 3, 4}
  OBVIOUS
<1> QED BY <1>1, <1>2, Separators DEF Occurs

LEMMA LfOccurs ==
  ASSUME NEW s \in Text, NEW i \in Nat
  PROVE  Occurs(LfTwice, s, i) <=>
           /\ i >= 1 /\ i + 1 <= Len(s)
           /\ s[i] = Lf /\ s[i + 1] = Lf
<1>1. i + 2 - 1 = i + 1 /\ i + 1 - 1 = i
  OBVIOUS
<1>2. 1..2 = {1, 2}
  OBVIOUS
<1> QED BY <1>1, <1>2, Separators DEF Occurs

(* A separator ends the first event of s: it begins at i and is w long.    *)
EndsEvent(s, i, w) ==
  /\ \/ w = 4 /\ Occurs(CrLfTwice, s, i)
     \/ w = 2 /\ Occurs(LfTwice, s, i)
  /\ \A j \in Nat : Occurs(CrLfTwice, s, j) \/ Occurs(LfTwice, s, j) => i <= j

LEMMA BoundaryIs ==
  ASSUME NEW s \in Text
  PROVE  \/ /\ Boundary(s).at = 0
            /\ \A j \in Nat : ~Occurs(CrLfTwice, s, j) /\ ~Occurs(LfTwice, s, j)
         \/ /\ Boundary(s).at \in 1..Len(s)
            /\ EndsEvent(s, Boundary(s).at, Boundary(s).advance)
<1> DEFINE crlf == Find(s, CrLfTwice)
           lf == Find(s, LfTwice)
<1>1. \/ crlf = 0 /\ \A i \in Nat : ~Occurs(CrLfTwice, s, i)
      \/ /\ crlf \in 1..Len(s) /\ Occurs(CrLfTwice, s, crlf)
         /\ \A i \in Nat : Occurs(CrLfTwice, s, i) => crlf <= i
  BY FindIs, Separators
<1>2. \/ lf = 0 /\ \A i \in Nat : ~Occurs(LfTwice, s, i)
      \/ /\ lf \in 1..Len(s) /\ Occurs(LfTwice, s, lf)
         /\ \A i \in Nat : Occurs(LfTwice, s, i) => lf <= i
  BY FindIs, Separators
<1>3. Boundary(s) = IF crlf # 0 /\ (lf = 0 \/ crlf <= lf) THEN [at |-> crlf, advance |-> 4]
                                                          ELSE [at |-> lf, advance |-> 2]
  BY DEF Boundary
<1>4. Len(s) \in Nat
  BY LenProperties DEF Text
<1> HIDE DEF crlf, lf
<1>5. CASE crlf # 0 /\ (lf = 0 \/ crlf <= lf)
  <2>1. Boundary(s).at = crlf /\ Boundary(s).advance = 4
    BY <1>3, <1>5
  <2>2. crlf \in 1..Len(s) /\ crlf \in Nat /\ Occurs(CrLfTwice, s, crlf)
    BY <1>1, <1>4, <1>5
  <2>3. \A j \in Nat : Occurs(LfTwice, s, j) => crlf <= j
    BY <1>2, <1>4, <1>5, <2>2
  <2> QED BY <1>1, <2>1, <2>2, <2>3 DEF EndsEvent
<1>6. CASE ~(crlf # 0 /\ (lf = 0 \/ crlf <= lf))
  <2>1. Boundary(s).at = lf /\ Boundary(s).advance = 2
    BY <1>3, <1>6
  <2>2. CASE lf = 0
    BY <1>1, <1>2, <1>6, <2>1, <2>2
  <2>3. CASE lf # 0
    <3>1. lf \in 1..Len(s) /\ lf \in Nat /\ Occurs(LfTwice, s, lf)
      BY <1>2, <1>4, <2>3
    <3>2. \A j \in Nat : Occurs(CrLfTwice, s, j) => lf <= j
      BY <1>1, <1>4, <1>6, <2>3, <3>1
    <3> QED BY <1>2, <2>1, <2>3, <3>1, <3>2 DEF EndsEvent
  <2> QED BY <2>2, <2>3
<1> QED BY <1>5, <1>6

(* There is one end of the first event only. *)
LEMMA BoundaryUnique ==
  ASSUME NEW s \in Text, NEW i \in 1..Len(s), NEW w, EndsEvent(s, i, w)
  PROVE  Boundary(s).at = i /\ Boundary(s).advance = w
<1> DEFINE at == Boundary(s).at
           advance == Boundary(s).advance
<1>0. Len(s) \in Nat /\ i \in Nat
  BY LenProperties DEF Text
<1>1. Occurs(CrLfTwice, s, i) \/ Occurs(LfTwice, s, i)
  BY DEF EndsEvent
<1>2. at \in 1..Len(s) /\ EndsEvent(s, at, advance)
  BY <1>0, <1>1, BoundaryIs
<1> HIDE DEF at, advance
<1>3. at \in Nat /\ (Occurs(CrLfTwice, s, at) \/ Occurs(LfTwice, s, at))
  BY <1>0, <1>2 DEF EndsEvent
<1>4. at = i
  <2>1. at <= i
    BY <1>0, <1>1, <1>2 DEF EndsEvent
  <2>2. i <= at
    BY <1>3 DEF EndsEvent
  <2> QED BY <1>0, <1>3, <2>1, <2>2
<1>5. ~(Occurs(CrLfTwice, s, i) /\ Occurs(LfTwice, s, i))
  BY <1>0, CrLfOccurs, LfOccurs, Separators
<1>6. advance = w
  BY <1>2, <1>4, <1>5 DEF EndsEvent
<1> QED BY <1>4, <1>6 DEF at, advance

(* What follows an event in the buffer does not change where it ends: a    *)
(* separator that later bytes complete begins behind this one.             *)
LEMMA BoundaryKept ==
  ASSUME NEW s \in Text, NEW t \in Text, Boundary(s).at # 0
  PROVE  /\ Boundary(s \o t).at = Boundary(s).at
         /\ Boundary(s \o t).advance = Boundary(s).advance
         /\ Boundary(s).at \in Nat \ {0} /\ Boundary(s).advance \in {2, 4}
         /\ Boundary(s).at + Boundary(s).advance <= Len(s) + 1
<1> DEFINE at == Boundary(s).at
           w == Boundary(s).advance
           u == s \o t
<1>0. Len(s) \in Nat /\ Len(t) \in Nat
  BY LenProperties DEF Text
<1>1. /\ u \in Text /\ Len(u) = Len(s) + Len(t)
      /\ \A k \in 1..(Len(s) + Len(t)) : u[k] = IF k <= Len(s) THEN s[k] ELSE t[k - Len(s)]
  BY ConcatProperties DEF Text
<1>2. at \in 1..Len(s) /\ EndsEvent(s, at, w)
  BY BoundaryIs
<1> HIDE DEF at, w, u
<1>3. \A k \in 1..Len(s) : u[k] = s[k]
  BY <1>0, <1>1
<1>4. at \in Nat /\ at >= 1 /\ at <= Len(s)
  BY <1>0, <1>2
<1>5. /\ w = 4 /\ Occurs(CrLfTwice, s, at) => at + 3 <= Len(s)
      /\ w = 2 /\ Occurs(LfTwice, s, at) => at + 1 <= Len(s)
  BY <1>4, CrLfOccurs, LfOccurs
<1>6. \/ w = 4 /\ Occurs(CrLfTwice, s, at) /\ at + 3 <= Len(s)
      \/ w = 2 /\ Occurs(LfTwice, s, at) /\ at + 1 <= Len(s)
  BY <1>2, <1>5 DEF EndsEvent
<1>7. \/ w = 4 /\ Occurs(CrLfTwice, u, at)
      \/ w = 2 /\ Occurs(LfTwice, u, at)
  <2>1. CASE w = 4 /\ Occurs(CrLfTwice, s, at) /\ at + 3 <= Len(s)
    <3>1. /\ s[at] = Cr /\ s[at + 1] = Lf /\ s[at + 2] = Cr /\ s[at + 3] = Lf
      BY <1>4, <2>1, CrLfOccurs
    <3>2. at \in 1..Len(s) /\ at + 1 \in 1..Len(s) /\ at + 2 \in 1..Len(s) /\ at + 3 \in 1..Len(s)
      BY <1>0, <1>4, <2>1
    <3>3. /\ u[at] = Cr /\ u[at + 1] = Lf /\ u[at + 2] = Cr /\ u[at + 3] = Lf
      BY <1>3, <3>1, <3>2
    <3>4. at + 3 <= Len(u)
      BY <1>0, <1>1, <1>4, <2>1
    <3> QED BY <1>1, <1>4, <2>1, <3>3, <3>4, CrLfOccurs
  <2>2. CASE w = 2 /\ Occurs(LfTwice, s, at) /\ at + 1 <= Len(s)
    <3>1. s[at] = Lf /\ s[at + 1] = Lf
      BY <1>4, <2>2, LfOccurs
    <3>2. at \in 1..Len(s) /\ at + 1 \in 1..Len(s)
      BY <1>0, <1>4, <2>2
    <3>3. u[at] = Lf /\ u[at + 1] = Lf
      BY <1>3, <3>1, <3>2
    <3>4. at + 1 <= Len(u)
      BY <1>0, <1>1, <1>4, <2>2
    <3> QED BY <1>1, <1>4, <2>2, <3>3, <3>4, LfOccurs
  <2> QED BY <1>6, <2>1, <2>2
<1>8. ASSUME NEW j \in Nat, Occurs(CrLfTwice, u, j), j < at PROVE FALSE
  <2>1. j >= 1 /\ u[j] = Cr /\ u[j + 1] = Lf /\ u[j + 2] = Cr /\ u[j + 3] = Lf
    BY <1>1, <1>8, CrLfOccurs
  <2>2. CASE j + 3 <= Len(s)
    <3>1. j \in 1..Len(s) /\ j + 1 \in 1..Len(s) /\ j + 2 \in 1..Len(s) /\ j + 3 \in 1..Len(s)
      BY <1>0, <2>1, <2>2
    <3>2. s[j] = Cr /\ s[j + 1] = Lf /\ s[j + 2] = Cr /\ s[j + 3] = Lf
      BY <1>3, <2>1, <3>1
    <3>3. Occurs(CrLfTwice, s, j)
      BY <2>1, <2>2, <3>2, CrLfOccurs
    <3> QED BY <1>2, <1>4, <1>8, <3>3 DEF EndsEvent
  <2>3. CASE j + 3 > Len(s)
    <3>1. Occurs(LfTwice, s, at) /\ at + 1 <= Len(s) /\ at = j + 1
      BY <1>0, <1>4, <1>6, <1>8, <2>3
    <3>2. s[at + 1] = Lf /\ at + 1 \in 1..Len(s)
      BY <1>0, <1>4, <3>1, LfOccurs
    <3>3. u[at + 1] = Lf /\ u[at + 1] = Cr
      <4>1. at + 1 = j + 2
        BY <3>1
      <4> QED BY <1>3, <2>1, <3>2, <4>1
    <3> QED BY <3>3, Separators
  <2> QED BY <1>0, <2>2, <2>3
<1>9. ASSUME NEW j \in Nat, Occurs(LfTwice, u, j), j < at PROVE FALSE
  <2>1. j >= 1 /\ u[j] = Lf /\ u[j + 1] = Lf
    BY <1>1, <1>9, LfOccurs
  <2>2. j \in 1..Len(s) /\ j + 1 \in 1..Len(s) /\ j + 1 <= Len(s)
    BY <1>0, <1>4, <1>9, <2>1
  <2>3. Occurs(LfTwice, s, j)
    BY <1>3, <2>1, <2>2, LfOccurs
  <2> QED BY <1>2, <1>4, <1>9, <2>3 DEF EndsEvent
<1>10. EndsEvent(u, at, w)
  <2>1. \A j \in Nat : Occurs(CrLfTwice, u, j) \/ Occurs(LfTwice, u, j) => at <= j
    BY <1>4, <1>8, <1>9
  <2> QED BY <1>7, <2>1 DEF EndsEvent
<1>11. Boundary(u).at = at /\ Boundary(u).advance = w
  <2>1. at \in 1..Len(u)
    BY <1>0, <1>1, <1>4
  <2> QED BY <1>1, <1>10, <2>1, BoundaryUnique
<1>12. w \in {2, 4} /\ at + w <= Len(s) + 1
  BY <1>0, <1>4, <1>6
<1> QED BY <1>4, <1>11, <1>12 DEF at, w, u

-----------------------------------------------------------------------------
(* The loop of _consume_events() *)

(* What a turn of the loop leaves: the events so far and the rest. *)
Cuts == [events : Seq(Text), rest : Text]

(* The events e before those of c. *)
Prepend(e, c) == [events |-> e \o c.events, rest |-> c.rest]

(* Nothing is to be cut off. *)
Stuck(c) == Boundary(c.rest).at = 0

Fresh(s) == [events |-> <<>>, rest |-> s]

(* The two parts of a buffer that a turn of the loop makes. *)
LEMMA Parts ==
  ASSUME NEW s \in Text, NEW at \in Nat \ {0}, NEW w \in {2, 4}, at + w <= Len(s) + 1
  PROVE  /\ SubSeq(s, 1, at - 1) \in Text /\ Len(SubSeq(s, 1, at - 1)) = at - 1
         /\ \A k \in 1..(at - 1) : SubSeq(s, 1, at - 1)[k] = s[k]
         /\ SubSeq(s, at + w, Len(s)) \in Text
         /\ Len(SubSeq(s, at + w, Len(s))) = Len(s) + 1 - (at + w)
         /\ \A k \in 1..(Len(s) + 1 - (at + w)) :
              SubSeq(s, at + w, Len(s))[k] = s[k + (at + w - 1)]
<1>1. Len(s) \in Nat /\ at - 1 \in Int /\ at + w \in Int /\ at - 1 <= Len(s) /\ at + w >= 1
  BY LenProperties DEF Text
<1>2. \A k \in 1..Len(s) : s[k] \in Bytes
  BY ElementOfSeq DEF Text
<1>3. \A k \in 1..(at - 1) : s[k] \in Bytes
  BY <1>1, <1>2
<1>4. \A k \in (at + w)..Len(s) : s[k] \in Bytes
  BY <1>1, <1>2
<1>5. /\ SubSeq(s, 1, at - 1) \in Text
      /\ Len(SubSeq(s, 1, at - 1)) = IF 1 <= at - 1 THEN (at - 1) - 1 + 1 ELSE 0
      /\ \A k \in 1..((at - 1) - 1 + 1) : SubSeq(s, 1, at - 1)[k] = s[1 + k - 1]
  BY <1>1, <1>3, SubSeqProperties DEF Text
<1>6. /\ SubSeq(s, at + w, Len(s)) \in Text
      /\ Len(SubSeq(s, at + w, Len(s))) = IF at + w <= Len(s) THEN Len(s) - (at + w) + 1 ELSE 0
      /\ \A k \in 1..(Len(s) - (at + w) + 1) :
           SubSeq(s, at + w, Len(s))[k] = s[(at + w) + k - 1]
  BY <1>1, <1>4, SubSeqProperties DEF Text
<1>7. (at - 1) - 1 + 1 = at - 1 /\ Len(s) - (at + w) + 1 = Len(s) + 1 - (at + w)
  BY <1>1
<1>8. \A k \in Int : 1 + k - 1 = k /\ (at + w) + k - 1 = k + (at + w - 1)
  OBVIOUS
<1>9. Len(SubSeq(s, 1, at - 1)) = at - 1
  BY <1>1, <1>5
<1>10. Len(SubSeq(s, at + w, Len(s))) = Len(s) + 1 - (at + w)
  BY <1>1, <1>6
<1> QED BY <1>5, <1>6, <1>7, <1>8, <1>9, <1>10

(* A turn of the loop cuts off at least one byte, or nothing for good. *)
LEMMA CutOffType ==
  ASSUME NEW c \in Cuts
  PROVE  /\ CutOff(c) \in Cuts
         /\ Stuck(c) => CutOff(c) = c
         /\ ~Stuck(c) => Len(CutOff(c).rest) < Len(c.rest)
<1> DEFINE at == Boundary(c.rest).at
           w == Boundary(c.rest).advance
           raw == SubSeq(c.rest, 1, at - 1)
<1>1. c.rest \in Text /\ c.events \in Seq(Text)
  BY DEF Cuts
<1>2. CASE Stuck(c)
  BY <1>2 DEF Stuck, CutOff
<1>3. CASE ~Stuck(c)
  <2>1. at \in Nat \ {0} /\ w \in {2, 4} /\ at + w <= Len(c.rest) + 1
    <3>1. <<>> \in Text
      BY DEF Text
    <3> QED BY <1>1, <1>3, <3>1, BoundaryKept DEF Stuck
  <2>2. /\ raw \in Text /\ SubSeq(c.rest, at + w, Len(c.rest)) \in Text
        /\ Len(SubSeq(c.rest, at + w, Len(c.rest))) = Len(c.rest) + 1 - (at + w)
    BY <1>1, <2>1, Parts
  <2>3. CutOff(c) = [events |-> IF IsBlank(raw) THEN c.events ELSE Append(c.events, raw),
                     rest   |-> SubSeq(c.rest, at + w, Len(c.rest))]
    BY <1>3 DEF Stuck, CutOff
  <2>4. Append(c.events, raw) \in Seq(Text)
    BY <1>1, <2>2, AppendProperties
  <2> HIDE DEF at, w, raw
  <2>5. Len(c.rest) \in Nat
    BY <1>1, LenProperties DEF Text
  <2> QED BY <1>1, <1>3, <2>1, <2>2, <2>3, <2>4, <2>5 DEF Cuts
<1> QED BY <1>2, <1>3

(* f is what the turns of the loop leave one after the other. *)
IsLoop(f, s) ==
  /\ f[0] = Fresh(s)
  /\ \A n \in 1..Len(s) : f[n] = CutOff(f[n - 1])
  /\ Consume(s) = f[Len(s)]

LEMMA Loop ==
  ASSUME NEW s \in Text
  PROVE  \E f \in [0..Len(s) -> Cuts] : IsLoop(f, s)
<1> DEFINE N == Len(s)
           Is(h) == h = [n \in 0..N |-> IF n = 0 THEN Fresh(s) ELSE CutOff(h[n - 1])]
           h == CHOOSE g : Is(g)
           step == [p \in Cuts \X (1..N) |-> CutOff(p[1])]
<1>1. N \in Nat
  BY LenProperties DEF Text
<1>2. Fresh(s) \in Cuts
  BY DEF Fresh, Cuts
<1>3. step \in [Cuts \X (1..N) -> Cuts]
  BY CutOffType
<1> HIDE DEF step
<1>4. PICK f \in [0..N -> Cuts] : IsSteps(f, N, Fresh(s), step)
  BY <1>1, <1>2, <1>3, StepRecursion
<1>5. \A n \in 1..N : f[n] = CutOff(f[n - 1])
  <2> SUFFICES ASSUME NEW n \in 1..N PROVE f[n] = CutOff(f[n - 1])
    OBVIOUS
  <2>1. n - 1 \in 0..N /\ <<f[n - 1], n>> \in Cuts \X (1..N)
    BY <1>1, <1>4
  <2>2. step[<<f[n - 1], n>>] = CutOff(f[n - 1])
    BY <2>1 DEF step
  <2> QED BY <1>4, <2>2 DEF IsSteps
<1>6. f[0] = Fresh(s)
  BY <1>4 DEF IsSteps
<1>7. Is(f)
  <2>1. \A n \in 0..N : f[n] = IF n = 0 THEN Fresh(s) ELSE CutOff(f[n - 1])
    BY <1>1, <1>5, <1>6
  <2> QED BY <1>4, <2>1
<1>8. Consume(s) = h[N]
  BY DEF Consume, Fresh
<1> HIDE DEF h, Is
<1>9. Is(h)
  BY <1>7 DEF h
<1> DEFINE T == {n \in 0..N : h[n] = f[n]}
<1>10. \A n \in 0..N : h[n] = IF n = 0 THEN Fresh(s) ELSE CutOff(h[n - 1])
  BY <1>9 DEF Is
<1>11. 0 \in T
  BY <1>1, <1>6, <1>10
<1>12. ASSUME NEW n \in 0..(N - 1), n \in T PROVE n + 1 \in T
  <2>1. n + 1 \in 1..N /\ n + 1 \in 0..N /\ (n + 1) - 1 = n /\ n + 1 # 0
    BY <1>1
  <2>2. h[n + 1] = CutOff(h[n]) /\ f[n + 1] = CutOff(f[n])
    BY <1>5, <1>10, <2>1
  <2> QED BY <1>12, <2>1, <2>2
<1> HIDE DEF T
<1>13. N \in T
  <2>1. 0..N \subseteq T
    BY <1>1, <1>11, <1>12, InductionUpTo
  <2> QED BY <1>1, <2>1
<1>14. Consume(s) = f[N]
  BY <1>8, <1>13 DEF T
<1>15. IsLoop(f, s)
  BY <1>5, <1>6, <1>14 DEF IsLoop
<1> QED BY <1>4, <1>15

(* Once the loop is stuck, what it has left is what it returns. *)
LEMMA StuckIsLast ==
  ASSUME NEW s \in Text, NEW f \in [0..Len(s) -> Cuts], IsLoop(f, s),
         NEW n \in 0..Len(s), Stuck(f[n])
  PROVE  Consume(s) = f[n]
<1> DEFINE N == Len(s)
           T == {m \in 0..(N - n) : f[n + m] = f[n]}
<1>1. N \in Nat /\ n \in Nat /\ N - n \in Nat
  BY LenProperties DEF Text
<1>2. 0 \in T
  BY <1>1
<1>3. ASSUME NEW m \in 0..((N - n) - 1), m \in T PROVE m + 1 \in T
  <2>1. /\ n + (m + 1) \in 1..N /\ (n + (m + 1)) - 1 = n + m /\ m + 1 \in 0..(N - n)
        /\ n + m \in 0..N
    BY <1>1
  <2>2. f[n + (m + 1)] = CutOff(f[n + m])
    BY <2>1 DEF IsLoop
  <2>3. CutOff(f[n]) = f[n]
    BY CutOffType
  <2> QED BY <1>3, <2>1, <2>2, <2>3
<1> HIDE DEF T
<1>4. N - n \in T
  <2>1. 0..(N - n) \subseteq T
    BY <1>1, <1>2, <1>3, InductionUpTo
  <2> QED BY <1>1, <2>1
<1>5. n + (N - n) = N
  BY <1>1
<1> QED BY <1>4, <1>5 DEF T, IsLoop

(* What is left at the end holds no complete event. *)
LEMMA ConsumeType ==
  ASSUME NEW s \in Text
  PROVE  Consume(s) \in Cuts /\ Stuck(Consume(s))
<1> DEFINE N == Len(s)
<1>1. PICK f \in [0..N -> Cuts] : IsLoop(f, s)
  BY Loop
<1>2. N \in Nat
  BY LenProperties DEF Text
<1> DEFINE T == {n \in 0..N : Stuck(f[n]) \/ Len(f[n].rest) + n <= N}
<1>3. 0 \in T
  BY <1>1, <1>2 DEF IsLoop, Fresh
<1>4. ASSUME NEW n \in 0..(N - 1), n \in T PROVE n + 1 \in T
  <2>1. n + 1 \in 1..N /\ n + 1 \in 0..N /\ (n + 1) - 1 = n /\ n \in 0..N
    BY <1>2
  <2>2. f[n + 1] = CutOff(f[n]) /\ f[n] \in Cuts
    BY <1>1, <2>1 DEF IsLoop
  <2>3. CASE Stuck(f[n])
    BY <2>1, <2>2, <2>3, CutOffType
  <2>4. CASE ~Stuck(f[n])
    <3>1. Len(f[n + 1].rest) < Len(f[n].rest) /\ Len(f[n].rest) + n <= N
      BY <1>4, <2>2, <2>4, CutOffType
    <3>2. f[n].rest \in Text /\ f[n + 1].rest \in Text
      BY <2>2, CutOffType DEF Cuts
    <3>3. Len(f[n].rest) \in Nat /\ Len(f[n + 1].rest) \in Nat
      BY <3>2, LenProperties DEF Text
    <3>4. \A a, b \in Nat : a < b /\ b + n <= N => a + (n + 1) <= N
      BY <1>2
    <3>5. Len(f[n + 1].rest) + (n + 1) <= N
      BY <3>1, <3>3, <3>4
    <3> QED BY <2>1, <3>5
  <2> QED BY <2>3, <2>4
<1> HIDE DEF T
<1>5. N \in T
  <2>1. 0..N \subseteq T
    BY <1>2, <1>3, <1>4, InductionUpTo
  <2> QED BY <1>2, <2>1
<1>6. f[N] \in Cuts /\ Consume(s) = f[N]
  BY <1>1, <1>2 DEF IsLoop
<1>7. CASE Len(f[N].rest) + N <= N
  <2>1. f[N].rest \in Text
    BY <1>6 DEF Cuts
  <2>2. Len(f[N].rest) \in Nat
    BY <2>1, LenProperties DEF Text
  <2>3. 1..Len(f[N].rest) = {}
    BY <1>2, <1>7, <2>2
  <2> QED BY <1>6, <2>1, <2>3, BoundaryIs DEF Stuck
<1> QED BY <1>5, <1>6, <1>7 DEF T

(* Cutting does not look at the events that were cut off before. *)
LEMMA CutOffPrepends ==
  ASSUME NEW e \in Seq(Text), NEW c \in Cuts
  PROVE  Prepend(e, c) \in Cuts /\ CutOff(Prepend(e, c)) = Prepend(e, CutOff(c))
<1> DEFINE p == Prepend(e, c)
           raw == SubSeq(c.rest, 1, Boundary(c.rest).at - 1)
           rest == SubSeq(c.rest, Boundary(c.rest).at + Boundary(c.rest).advance, Len(c.rest))
<1>1. c.rest \in Text /\ c.events \in Seq(Text)
  BY DEF Cuts
<1>2. p.rest = c.rest /\ p.events = e \o c.events /\ p = [events |-> e \o c.events, rest |-> c.rest]
  BY DEF Prepend
<1>3. p \in Cuts
  BY <1>1, <1>2, ConcatProperties DEF Cuts
<1> HIDE DEF p
<1>4. CASE Stuck(c)
  <2>1. CutOff(p) = p /\ CutOff(c) = c
    BY <1>2, <1>4 DEF Stuck, CutOff
  <2> QED BY <1>3, <2>1 DEF p
<1>5. CASE ~Stuck(c)
  <2>1. /\ CutOff(c) = [events |-> IF IsBlank(raw) THEN c.events ELSE Append(c.events, raw),
                        rest   |-> rest]
        /\ CutOff(p) = [events |-> IF IsBlank(raw) THEN p.events ELSE Append(p.events, raw),
                        rest   |-> rest]
    BY <1>2, <1>5 DEF Stuck, CutOff
  <2>2. raw \in Text
    <3>1. <<>> \in Text
      BY DEF Text
    <3> QED BY <1>1, <1>5, <3>1, BoundaryKept, Parts DEF Stuck
  <2> HIDE DEF raw, rest
  <2>3. Append(e \o c.events, raw) = e \o Append(c.events, raw)
    <3>1. PICK d \in Seq(Text) : d = c.events
      BY <1>1
    <3>2. PICK y \in Text : y = raw
      BY <2>2
    <3>3. e \o d \in Seq(Text) /\ <<y>> \in Seq(Text)
      BY ConcatProperties
    <3>4. Append(e \o d, y) = (e \o d) \o <<y>> /\ Append(d, y) = d \o <<y>>
      BY <3>3, AppendIsConcat
    <3>5. (e \o d) \o <<y>> = e \o (d \o <<y>>)
      <4>1. PICK z \in Seq(Text) : z = <<y>>
        BY <3>3
      <4>2. Associates(e, d, z)
        BY ConcatAssociates
      <4> QED BY <4>1, <4>2 DEF Associates
    <3> QED BY <3>1, <3>2, <3>4, <3>5
  <2>4. CutOff(p) = Prepend(e, CutOff(c))
    <3>1. CASE IsBlank(raw)
      BY <1>2, <2>1, <3>1 DEF Prepend
    <3>2. CASE ~IsBlank(raw)
      BY <1>2, <2>1, <2>3, <3>2 DEF Prepend
    <3> QED BY <3>1, <3>2
  <2> QED BY <1>3, <2>4 DEF p
<1> QED BY <1>3, <1>4, <1>5 DEF p

(* The loop on a buffer of which something is cut off goes on as the loop  *)
(* on the rest of it.                                                      *)
LEMMA Unroll ==
  ASSUME NEW s \in Text, ~Stuck(Fresh(s)), NEW first \in Cuts, first = CutOff(Fresh(s))
  PROVE  Consume(s) = Prepend(first.events, Consume(first.rest))
<1> DEFINE e == first.events
           r == first.rest
           N == Len(s)
           M == Len(r)
<1>0. e \in Seq(Text) /\ r \in Text
  BY DEF Cuts
<1>1. PICK f \in [0..N -> Cuts] : IsLoop(f, s)
  BY Loop
<1>2. PICK g \in [0..M -> Cuts] : IsLoop(g, r)
  BY <1>0, Loop
<1>3. N \in Nat /\ M \in Nat /\ M + 1 <= N
  <2>1. Fresh(s) \in Cuts /\ Fresh(s).rest = s
    BY DEF Fresh, Cuts
  <2>2. Len(r) < Len(s)
    BY <2>1, CutOffType
  <2>3. N \in Nat /\ M \in Nat
    BY <1>0, LenProperties DEF Text
  <2> QED BY <2>2, <2>3
<1> HIDE DEF e, r, N, M
<1>4. /\ f[0] = Fresh(s) /\ \A n \in 1..N : f[n] = CutOff(f[n - 1])
      /\ g[0] = Fresh(r) /\ \A n \in 1..M : g[n] = CutOff(g[n - 1])
      /\ Consume(r) = g[M]
  BY <1>1, <1>2 DEF IsLoop, N, M
<1> DEFINE T == {n \in 0..M : f[n + 1] = Prepend(e, g[n])}
<1>5. 0 \in T
  <2>1. 1 \in 1..N /\ 1 - 1 = 0 /\ 0 + 1 = 1
    BY <1>3
  <2>2. f[1] = first
    BY <1>4, <2>1
  <2>3. first = [events |-> e, rest |-> r]
    BY DEF Cuts, e, r
  <2>4. Prepend(e, Fresh(r)) = [events |-> e, rest |-> r]
    BY <1>0, ConcatEmptySeq DEF Prepend, Fresh, e, r
  <2> QED BY <1>3, <1>4, <2>1, <2>2, <2>3, <2>4
<1>6. ASSUME NEW n \in 0..(M - 1), n \in T PROVE n + 1 \in T
  <2>1. /\ n + 1 \in 1..M /\ n + 1 \in 0..M /\ (n + 1) - 1 = n /\ n \in 0..M
        /\ (n + 1) + 1 \in 1..N /\ ((n + 1) + 1) - 1 = n + 1
    BY <1>3
  <2>2. f[(n + 1) + 1] = CutOff(f[n + 1]) /\ g[n + 1] = CutOff(g[n])
    BY <1>4, <2>1
  <2>3. f[n + 1] = Prepend(e, g[n]) /\ g[n] \in Cuts
    BY <1>2, <1>6, <2>1 DEF M
  <2>4. CutOff(Prepend(e, g[n])) = Prepend(e, CutOff(g[n]))
    BY <1>0, <2>3, CutOffPrepends DEF e
  <2> QED BY <2>1, <2>2, <2>3, <2>4
<1> HIDE DEF T
<1>7. M \in T
  <2>1. 0..M \subseteq T
    BY <1>3, <1>5, <1>6, InductionUpTo
  <2> QED BY <1>3, <2>1
<1>8. f[M + 1] = Prepend(e, Consume(r)) /\ M + 1 \in 0..N
  BY <1>3, <1>4, <1>7 DEF T
<1>9. Stuck(f[M + 1])
  <2>1. Stuck(Consume(r))
    BY <1>0, ConsumeType DEF r
  <2> QED BY <1>8, <2>1 DEF Stuck, Prepend
<1>10. Consume(s) = f[M + 1]
  BY <1>1, <1>8, <1>9, StuckIsLast DEF N
<1> QED BY <1>8, <1>10 DEF e, r

(* The loop on s and, once it is stuck, on what it left and t after that,  *)
(* does what the loop does on both.                                        *)
Joins(s) ==
  \A t \in Text :
    Consume(s \o t) = Prepend(Consume(s).events, Consume(Consume(s).rest \o t))

LEMMA StuckJoins ==
  ASSUME NEW s \in Text, Stuck(Fresh(s))
  PROVE  Joins(s)
<1> SUFFICES ASSUME NEW t \in Text
             PROVE  Consume(s \o t) = Prepend(Consume(s).events, Consume(Consume(s).rest \o t))
  BY DEF Joins
<1>1. PICK f \in [0..Len(s) -> Cuts] : IsLoop(f, s)
  BY Loop
<1>2. 0 \in 0..Len(s)
  BY LenProperties DEF Text
<1>3. Consume(s) = Fresh(s)
  BY <1>1, <1>2, StuckIsLast DEF IsLoop
<1>4. PICK c \in Cuts : c = Consume(s \o t)
  BY ConsumeType, ConcatProperties DEF Text
<1>5. Prepend(<<>>, c) = c
  BY ConcatEmptySeq DEF Prepend, Cuts
<1> QED BY <1>3, <1>4, <1>5 DEF Fresh

(* The first event of s is the first event of s and t. *)
LEMMA FirstOfBoth ==
  ASSUME NEW s \in Text, NEW t \in Text, ~Stuck(Fresh(s)),
         NEW first \in Cuts, first = CutOff(Fresh(s))
  PROVE  /\ ~Stuck(Fresh(s \o t))
         /\ CutOff(Fresh(s \o t)) = [events |-> first.events, rest |-> first.rest \o t]
<1> DEFINE at == Boundary(s).at
           w == Boundary(s).advance
           u == s \o t
           head(x) == SubSeq(x, 1, at - 1)
           tail(x) == SubSeq(x, at + w, Len(x))
<1>1. /\ Boundary(u).at = at /\ Boundary(u).advance = w
      /\ at \in Nat \ {0} /\ w \in {2, 4} /\ at + w <= Len(s) + 1
  BY BoundaryKept DEF Stuck, Fresh
<1>2. /\ first = [events |-> IF IsBlank(head(s)) THEN <<>> ELSE Append(<<>>, head(s)),
                  rest   |-> tail(s)]
  BY DEF CutOff, Stuck, Fresh
<1>3. /\ ~Stuck(Fresh(u))
      /\ CutOff(Fresh(u)) = [events |-> IF IsBlank(head(u)) THEN <<>> ELSE Append(<<>>, head(u)),
                             rest   |-> tail(u)]
  BY <1>1 DEF CutOff, Stuck, Fresh
<1>4. Len(s) \in Nat /\ Len(t) \in Nat
  BY LenProperties DEF Text
<1>5. /\ u \in Text /\ Len(u) = Len(s) + Len(t)
      /\ \A k \in 1..(Len(s) + Len(t)) : u[k] = IF k <= Len(s) THEN s[k] ELSE t[k - Len(s)]
  BY ConcatProperties DEF Text
<1> HIDE DEF at, w, u
<1>6. /\ head(s) \in Text /\ Len(head(s)) = at - 1
      /\ \A k \in 1..(at - 1) : head(s)[k] = s[k]
      /\ tail(s) \in Text /\ Len(tail(s)) = Len(s) + 1 - (at + w)
      /\ \A k \in 1..(Len(s) + 1 - (at + w)) : tail(s)[k] = s[k + (at + w - 1)]
  BY <1>1, Parts
<1>7. u \in Text /\ at \in Nat \ {0} /\ w \in {2, 4} /\ at + w <= Len(u) + 1
  BY <1>1, <1>4, <1>5
<1>8. /\ head(u) \in Text /\ Len(head(u)) = at - 1
      /\ \A k \in 1..(at - 1) : head(u)[k] = u[k]
      /\ tail(u) \in Text /\ Len(tail(u)) = Len(u) + 1 - (at + w)
      /\ \A k \in 1..(Len(u) + 1 - (at + w)) : tail(u)[k] = u[k + (at + w - 1)]
  BY <1>7, Parts, ZenonT(60)
<1> HIDE DEF head, tail
<1>9. head(u) = head(s)
  <2>1. \A k \in 1..(at - 1) : u[k] = s[k]
    BY <1>1, <1>4, <1>5
  <2>2. \A k \in 1..Len(head(u)) : head(u)[k] = head(s)[k]
    BY <1>6, <1>8, <2>1
  <2> QED BY <1>6, <1>8, <2>2, SeqEqual DEF Text
<1>10. tail(u) = tail(s) \o t
  <2> DEFINE m == Len(s) + 1 - (at + w)
  <2>1. m \in Nat /\ Len(u) + 1 - (at + w) = m + Len(t) /\ m + (at + w - 1) = Len(s)
    BY <1>1, <1>4, <1>5
  <2>2. /\ tail(s) \o t \in Text /\ Len(tail(s) \o t) = m + Len(t)
        /\ \A k \in 1..(m + Len(t)) : (tail(s) \o t)[k] = IF k <= m THEN tail(s)[k] ELSE t[k - m]
    BY <1>6, ConcatProperties DEF Text
  <2> HIDE DEF m
  <2>3. ASSUME NEW k \in 1..(m + Len(t)) PROVE tail(u)[k] = (tail(s) \o t)[k]
    <3>1. tail(u)[k] = u[k + (at + w - 1)]
      BY <1>8, <2>1
    <3>2. k + (at + w - 1) \in 1..(Len(s) + Len(t))
      BY <1>1, <1>4, <2>1
    <3>3. CASE k <= m
      <4>1. k + (at + w - 1) <= Len(s)
        BY <1>1, <1>4, <2>1, <3>3
      <4>2. u[k + (at + w - 1)] = s[k + (at + w - 1)]
        BY <1>5, <3>2, <4>1
      <4>3. k \in 1..m
        BY <2>1, <3>3
      <4>4. tail(s)[k] = s[k + (at + w - 1)]
        BY <1>6, <4>3 DEF m
      <4> QED BY <2>2, <3>1, <3>3, <4>2, <4>4
    <3>4. CASE ~(k <= m)
      <4>1. ~(k + (at + w - 1) <= Len(s)) /\ (k + (at + w - 1)) - Len(s) = k - m
        BY <1>1, <1>4, <2>1, <3>4
      <4>2. u[k + (at + w - 1)] = t[k - m]
        BY <1>5, <3>2, <4>1
      <4> QED BY <2>2, <3>1, <3>4, <4>2
    <3> QED BY <3>3, <3>4
  <2>4. Len(tail(u)) = Len(tail(s) \o t)
    BY <1>8, <2>1, <2>2
  <2>5. \A k \in 1..Len(tail(u)) : tail(u)[k] = (tail(s) \o t)[k]
    BY <1>8, <2>1, <2>3
  <2> QED BY <1>8, <2>2, <2>4, <2>5, SeqEqual DEF Text
<1>11. CutOff(Fresh(u)) = [events |-> first.events, rest |-> first.rest \o t]
  BY <1>2, <1>3, <1>9, <1>10
<1> QED BY <1>3, <1>11 DEF u

LEMMA ConsumeJoins ==
  ASSUME NEW s \in Text
  PROVE  Joins(s)
<1> DEFINE N == Len(s)
           T == {n \in 0..N : \A x \in Text : Len(x) <= n => Joins(x)}
<1>1. N \in Nat /\ \A x \in Text : Len(x) \in Nat
  BY LenProperties DEF Text
<1>2. 0 \in T
  <2> SUFFICES ASSUME NEW x \in Text, Len(x) <= 0 PROVE Joins(x)
    BY <1>1
  <2>1. Stuck(Fresh(x))
    <3>1. 1..Len(x) = {}
      BY <1>1
    <3> QED BY <3>1, BoundaryIs DEF Stuck, Fresh
  <2> QED BY <2>1, StuckJoins
<1>3. ASSUME NEW n \in 0..(N - 1), n \in T PROVE n + 1 \in T
  <2> SUFFICES ASSUME NEW x \in Text, Len(x) <= n + 1, ~Stuck(Fresh(x)), NEW t \in Text
               PROVE  Consume(x \o t) = Prepend(Consume(x).events, Consume(Consume(x).rest \o t))
    BY <1>1, StuckJoins DEF Joins
  <2>1. Fresh(x) \in Cuts /\ Fresh(x).rest = x
    BY DEF Fresh, Cuts
  <2>2. PICK first \in Cuts : first = CutOff(Fresh(x))
    BY <2>1, CutOffType
  <2>3. PICK e \in Seq(Text) : e = first.events
    BY DEF Cuts
  <2>4. PICK r \in Text : r = first.rest
    BY DEF Cuts
  <2>5. Joins(r)
    <3>1. Len(r) < Len(x)
      BY <2>1, <2>2, <2>4, CutOffType
    <3>2. Len(r) <= n
      BY <1>1, <3>1
    <3> QED BY <1>3, <3>2
  <2>6. Consume(x) = Prepend(e, Consume(r))
    BY <2>2, <2>3, <2>4, Unroll
  <2>7. Consume(x \o t) = Prepend(e, Consume(r \o t))
    <3>1. x \o t \in Text /\ r \o t \in Text
      BY ConcatProperties DEF Text
    <3>2. /\ ~Stuck(Fresh(x \o t))
          /\ CutOff(Fresh(x \o t)) = [events |-> e, rest |-> r \o t]
      BY <2>2, <2>3, <2>4, FirstOfBoth
    <3>3. [events |-> e, rest |-> r \o t] \in Cuts
      BY <3>1 DEF Cuts
    <3> DEFINE both == [events |-> e, rest |-> r \o t]
    <3>4. both.events = e /\ both.rest = r \o t /\ both \in Cuts /\ both = CutOff(Fresh(x \o t))
      BY <3>2, <3>3
    <3> HIDE DEF both
    <3>5. Consume(x \o t) = Prepend(both.events, Consume(both.rest))
      BY <3>1, <3>2, <3>4, Unroll
    <3> QED BY <3>4, <3>5
  <2>8. PICK c \in Cuts : c = Consume(r)
    BY ConsumeType
  <2>9. PICK d \in Cuts : d = Consume(c.rest \o t)
    <3>1. c.rest \o t \in Text
      BY ConcatProperties DEF Text, Cuts
    <3> QED BY <3>1, ConsumeType
  <2>10. Consume(r \o t) = Prepend(c.events, d)
    BY <2>5, <2>8, <2>9 DEF Joins
  <2>11. Prepend(e, Prepend(c.events, d)) = Prepend(e \o c.events, d)
    <3>1. PICK a \in Seq(Text) : a = c.events
      BY DEF Cuts
    <3>2. PICK b \in Seq(Text) : b = d.events
      BY DEF Cuts
    <3>3. e \o (a \o b) = (e \o a) \o b
      <4>1. Associates(e, a, b)
        BY ConcatAssociates
      <4> QED BY <4>1 DEF Associates
    <3> QED BY <3>1, <3>2, <3>3 DEF Prepend
  <2>12. Consume(x).events = e \o c.events /\ Consume(x).rest = c.rest
    BY <2>6, <2>8, SMTT(30) DEF Prepend
  <2> QED BY <2>7, <2>9, <2>10, <2>11, <2>12
<1> HIDE DEF T
<1>4. N \in T
  <2>1. 0..N \subseteq T
    BY <1>1, <1>2, <1>3, InductionUpTo
  <2> QED BY <1>1, <2>1
<1> QED BY <1>1, <1>4 DEF T

-----------------------------------------------------------------------------
(* The stream *)

IInv ==
  /\ stream \in Text
  /\ received \in 0..Len(stream)
  /\ ChunkingIrrelevant

(* A chunk extends what was received. *)
LEMMA NextChunk ==
  ASSUME NEW s \in Text, NEW m \in 0..Len(s), NEW n \in Nat, m + n <= Len(s)
  PROVE  /\ SubSeq(s, 1, m) \in Text /\ SubSeq(s, m + 1, m + n) \in Text
         /\ SubSeq(s, 1, m) \o SubSeq(s, m + 1, m + n) = SubSeq(s, 1, m + n)
<1>1. Len(s) \in Nat /\ m \in Nat
  BY LenProperties DEF Text
<1>2. \A k \in 1..Len(s) : s[k] \in Bytes
  BY ElementOfSeq DEF Text
<1>3. \A k \in 1..m : s[k] \in Bytes
  BY <1>1, <1>2
<1>4. \A k \in (m + 1)..(m + n) : s[k] \in Bytes
  BY <1>1, <1>2
<1>5. SubSeq(s, 1, m) \in Text /\ SubSeq(s, m + 1, m + n) \in Text
  BY <1>1, <1>3, <1>4, SubSeqProperties DEF Text
<1>6. 1 \in 1..(Len(s) + 1) /\ m \in (1 - 1)..Len(s) /\ m + n \in m..Len(s)
  BY <1>1
<1>7. SubSeq(s, 1, m) \o SubSeq(s, m + 1, m + n) = SubSeq(s, 1, m + n)
  BY <1>6, ConcatAdjacentSubSeq DEF Text
<1> QED BY <1>5, <1>7

LEMMA InitIInv == Init => IInv
<1> SUFFICES ASSUME Init PROVE IInv
  OBVIOUS
<1>1. stream \in Text /\ received \in 0..Len(stream)
  <2>1. stream \in Text
    BY EventStreamAssumption DEF Init, Text
  <2>2. Len(stream) \in Nat
    BY <2>1, LenProperties DEF Text
  <2> QED BY <2>1, <2>2 DEF Init
<1>2. Received = <<>>
  BY SubSeqEmpty DEF Received, Init
<1>3. Consume(<<>>) = Fresh(<<>>)
  <2>1. <<>> \in Text /\ Len(<<>>) = 0
    BY DEF Text
  <2>2. PICK f \in [0..Len(<<>>) -> Cuts] : IsLoop(f, <<>>)
    BY <2>1, Loop
  <2> QED BY <2>1, <2>2 DEF IsLoop
<1> QED BY <1>1, <1>2, <1>3 DEF IInv, ChunkingIrrelevant, Fresh, Init

(* A chunk is cut as the bytes it extends and the chunk are. *)
LEMMA InspectIInv ==
  ASSUME IInv, NEW n \in 1..Len(stream), Inspect(n)
  PROVE  IInv' /\ Consume(Received') = [events |-> parsed', rest |-> buffer']
<1> DEFINE chunk == SubSeq(stream, received + 1, received + n)
           cut == Consume(buffer \o chunk)
<1>1. /\ stream' = stream /\ received' = received + n /\ received + n <= Len(stream)
      /\ ended = "no" /\ buffer' = cut.rest /\ parsed' = parsed \o cut.events
  BY DEF Inspect
<1>2. stream \in Text /\ received \in 0..Len(stream) /\ Len(stream) \in Nat /\ n \in Nat
  BY LenProperties DEF IInv, Text
<1>3. Received \in Text /\ chunk \in Text /\ Received' = Received \o chunk
  BY <1>1, <1>2, NextChunk DEF Received
<1>4. parsed = Consume(Received).events /\ buffer = Consume(Received).rest
  BY <1>1 DEF IInv, ChunkingIrrelevant
<1>5. Consume(Received \o chunk) = Prepend(Consume(Received).events, Consume(Consume(Received).rest \o chunk))
  <2>1. PICK r \in Text : r = Received
    BY <1>3
  <2>2. PICK t \in Text : t = chunk
    BY <1>3
  <2>3. Joins(r)
    BY ConsumeJoins
  <2> QED BY <2>1, <2>2, <2>3 DEF Joins
<1>6. Consume(Received') = [events |-> parsed', rest |-> buffer']
  BY <1>1, <1>3, <1>4, <1>5 DEF Prepend
<1>7. Consume(Received)' = Consume(Received')
  BY DEF Consume, CutOff, Boundary, Find, IsBlank
<1>8. ChunkingIrrelevant'
  BY <1>6, <1>7 DEF ChunkingIrrelevant
<1> QED BY <1>1, <1>2, <1>6, <1>8 DEF IInv

LEMMA NextIInv == IInv /\ [Next]_vars => IInv'
<1> SUFFICES ASSUME IInv, [Next]_vars PROVE IInv'
  OBVIOUS
<1>1. CASE Finish
  <2>1. UNCHANGED <<stream, received, parsed>> /\ ended' # "no"
    BY <1>1 DEF Finish, Blocked
  <2> QED BY <2>1 DEF IInv, ChunkingIrrelevant, Received
<1>2. CASE UNCHANGED vars
  BY <1>2 DEF vars, IInv, ChunkingIrrelevant, Received
<1> QED BY <1>1, <1>2, InspectIInv DEF Next

(* Into whatever chunks a stream is cut, in the middle of a separator or   *)
(* of both kinds of it, the events cut off and the bytes left are those of *)
(* the loop of _consume_events() over all that has been received.          *)
THEOREM ChunkingSound == Spec => []ChunkingIrrelevant
<1>1. IInv => ChunkingIrrelevant
  BY DEF IInv
<1> QED BY <1>1, InitIInv, NextIInv, PTL DEF Spec


-----------------------------------------------------------------------------
(* The fields of a byte string *)

(* What is written consists of. *)
Chars == Bytes \cup {Masked[p] : p \in DOMAIN Masked} \cup {Notice}

(* The upstream's fields in a byte string, rewritten or not. *)
Fields(s) == Originals(Tokens(s))

(* A rewritten payload stands for the one behind it, all else for itself.  *)
LEMMA OriginalIs ==
  /\ \A x \in Bytes \cup {Notice} : Original(x) = x
  /\ \A p \in DOMAIN Masked : Original(Masked[p]) = p /\ Masked[p] \notin Breaks
  /\ \A x \in Chars : Original(x) \in Bytes \cup {Notice}
<1>1. DOMAIN Masked \subseteq Bytes /\ Breaks \subseteq Bytes
  BY EventStreamAssumption DEF Bytes
<1>2. \A x \in Bytes \cup {Notice} : Original(x) = x
  BY EventStreamAssumption DEF Original
<1>3. ASSUME NEW p \in DOMAIN Masked PROVE Original(Masked[p]) = p
  <2>1. \A q \in DOMAIN Masked : Masked[q] = Masked[p] => q = p
    BY EventStreamAssumption
  <2>2. (CHOOSE q \in DOMAIN Masked : Masked[q] = Masked[p]) = p
    BY <2>1
  <2> QED BY <2>2 DEF Original
<1>4. \A p \in DOMAIN Masked : Masked[p] \notin Breaks
  BY <1>1, EventStreamAssumption
<1> QED BY <1>1, <1>2, <1>3, <1>4 DEF Chars

LEMMA Subsets == Text \subseteq Seq(Chars) /\ Bytes \subseteq Chars /\ Breaks \subseteq Bytes
<1>1. Bytes \subseteq Chars
  BY DEF Chars
<1>2. \A s \in Text : s \in Seq(Chars)
  BY <1>1, SeqMonotonic DEF Text
<1> QED BY <1>1, <1>2 DEF Bytes

(* The token at each place, where there is one. *)
Places(s) == [i \in DOMAIN s |-> IF s[i] \in Breaks THEN <<>> ELSE <<s[i]>>]

LEMMA PlacesType ==
  ASSUME NEW S, NEW s \in Seq(S)
  PROVE  /\ Places(s) \in Seq(Seq(S)) /\ Len(Places(s)) = Len(s)
         /\ Places(s) \in [1..Len(s) -> Seq(S)]
         /\ \A i \in 1..Len(s) : Places(s)[i] = IF s[i] \in Breaks THEN <<>> ELSE <<s[i]>>
         /\ Tokens(s) = FlattenSeq(Places(s))
<1>1. Len(s) \in Nat /\ DOMAIN s = 1..Len(s)
  BY LenProperties
<1>2. \A i \in 1..Len(s) : (IF s[i] \in Breaks THEN <<>> ELSE <<s[i]>>) \in Seq(S)
  <2> SUFFICES ASSUME NEW i \in 1..Len(s)
               PROVE  (IF s[i] \in Breaks THEN <<>> ELSE <<s[i]>>) \in Seq(S)
    OBVIOUS
  <2>1. s[i] \in S
    BY ElementOfSeq
  <2> QED BY <2>1
<1>3. Places(s) \in [1..Len(s) -> Seq(S)]
  BY <1>1, <1>2 DEF Places
<1>4. \A i \in 1..Len(s) : Places(s)[i] = IF s[i] \in Breaks THEN <<>> ELSE <<s[i]>>
  BY <1>1 DEF Places
<1>5. Places(s) \in Seq(Seq(S)) /\ Len(Places(s)) = Len(s)
  BY <1>1, <1>3
<1> QED BY <1>3, <1>4, <1>5 DEF Places, Tokens

LEMMA TokensConcat ==
  ASSUME NEW S, NEW a \in Seq(S), NEW b \in Seq(S)
  PROVE  /\ Tokens(a) \in Seq(S) /\ Tokens(b) \in Seq(S)
         /\ Tokens(a \o b) = Tokens(a) \o Tokens(b)
<1> DEFINE n == Len(a)
           m == Len(b)
<1>1. n \in Nat /\ m \in Nat
  BY LenProperties
<1>2. /\ a \o b \in Seq(S) /\ Len(a \o b) = n + m
      /\ \A i \in 1..(n + m) : (a \o b)[i] = IF i <= n THEN a[i] ELSE b[i - n]
  BY ConcatProperties
<1>3. PICK u \in Seq(S) : u = a \o b
  BY <1>2
<1>4. /\ Places(a) \in Seq(Seq(S)) /\ Len(Places(a)) = n
      /\ \A i \in 1..n : Places(a)[i] = IF a[i] \in Breaks THEN <<>> ELSE <<a[i]>>
      /\ Tokens(a) = FlattenSeq(Places(a))
  BY PlacesType
<1>5. /\ Places(b) \in Seq(Seq(S)) /\ Len(Places(b)) = m
      /\ \A i \in 1..m : Places(b)[i] = IF b[i] \in Breaks THEN <<>> ELSE <<b[i]>>
      /\ Tokens(b) = FlattenSeq(Places(b))
  BY PlacesType
<1>6. /\ Places(u) \in Seq(Seq(S)) /\ Len(Places(u)) = Len(u)
      /\ \A i \in 1..Len(u) : Places(u)[i] = IF u[i] \in Breaks THEN <<>> ELSE <<u[i]>>
      /\ Tokens(u) = FlattenSeq(Places(u))
  BY PlacesType
<1> HIDE DEF n, m
<1>7. PICK x \in Seq(Seq(S)) : x = Places(a)
  BY <1>4
<1>8. PICK y \in Seq(Seq(S)) : y = Places(b)
  BY <1>5
<1>9. /\ x \o y \in Seq(Seq(S)) /\ Len(x \o y) = n + m
      /\ \A i \in 1..(n + m) : (x \o y)[i] = IF i <= n THEN x[i] ELSE y[i - n]
  BY <1>4, <1>5, <1>7, <1>8, ConcatProperties
<1>10. ASSUME NEW i \in 1..(n + m) PROVE Places(u)[i] = (x \o y)[i]
  <2>1. Places(u)[i] = IF u[i] \in Breaks THEN <<>> ELSE <<u[i]>>
    BY <1>2, <1>3, <1>6
  <2>2. CASE i <= n
    <3>1. i \in 1..n /\ u[i] = a[i]
      BY <1>1, <1>2, <1>3, <2>2
    <3> QED BY <1>4, <1>7, <1>9, <2>1, <2>2, <3>1
  <2>3. CASE ~(i <= n)
    <3>1. i - n \in 1..m /\ u[i] = b[i - n]
      BY <1>1, <1>2, <1>3, <2>3
    <3> QED BY <1>5, <1>8, <1>9, <2>1, <2>3, <3>1
  <2> QED BY <2>2, <2>3
<1>11. Places(u) = x \o y
  <2>1. Len(Places(u)) = Len(x \o y) /\ \A i \in 1..Len(Places(u)) : Places(u)[i] = (x \o y)[i]
    BY <1>2, <1>3, <1>6, <1>9, <1>10
  <2> QED BY <1>6, <1>9, <2>1, SeqEqual
<1>12. /\ FlattenSeq(x) \in Seq(S) /\ FlattenSeq(y) \in Seq(S)
       /\ FlattenSeq(x \o y) = FlattenSeq(x) \o FlattenSeq(y)
  BY FlattenConcat
<1> QED BY <1>3, <1>4, <1>5, <1>6, <1>7, <1>8, <1>11, <1>12

(* Tokens are no line breaks, and line breaks have none. *)
LEMMA TokensOf ==
  /\ Tokens(<<>>) = <<>>
  /\ \A x \in Chars : Tokens(<<x>>) = IF x \in Breaks THEN <<>> ELSE <<x>>
<1>1. Tokens(<<>>) = <<>>
  <2>1. Places(<<>>) = <<>>
    BY DEF Places
  <2>2. <<>> \in Seq(Chars)
    OBVIOUS
  <2> QED BY <2>1, <2>2, PlacesType, FlattenOne
<1>2. ASSUME NEW x \in Chars PROVE Tokens(<<x>>) = IF x \in Breaks THEN <<>> ELSE <<x>>
  <2> DEFINE t == IF x \in Breaks THEN <<>> ELSE <<x>>
  <2>1. <<x>> \in Seq(Chars) /\ t \in Seq(Chars)
    OBVIOUS
  <2>2. Places(<<x>>) = <<t>>
    BY DEF Places
  <2>3. Tokens(<<x>>) = FlattenSeq(<<t>>)
    BY <2>1, <2>2, PlacesType
  <2> HIDE DEF t
  <2>4. FlattenSeq(<<t>>) = t
    BY <2>1, FlattenOne
  <2> QED BY <2>3, <2>4 DEF t
<1> QED BY <1>1, <1>2

LEMMA BlankHasNone ==
  ASSUME NEW s \in Seq(Chars), \A i \in 1..Len(s) : s[i] \in Breaks
  PROVE  Tokens(s) = <<>>
<1>1. /\ Places(s) \in [1..Len(s) -> Seq(Chars)] /\ Len(s) \in Nat
      /\ \A i \in 1..Len(s) : Places(s)[i] = <<>>
      /\ Tokens(s) = FlattenSeq(Places(s))
  BY PlacesType, LenProperties
<1>2. PICK p \in [1..Len(s) -> Seq(Chars)] : p = Places(s)
  BY <1>1
<1>3. PICK n \in Nat : n = Len(s)
  BY <1>1
<1>4. \A k \in 1..Len(FlattenSeq(p)) : FlattenSeq(p)[k] \in {}
  <2>1. p \in [1..n -> Seq(Chars)]
    BY <1>2, <1>3
  <2>2. \A i \in 1..n : p[i] = <<>>
    BY <1>1, <1>2, <1>3
  <2>3. PICK none : none = {}
    OBVIOUS
  <2>4. \A i \in 1..n : \A k \in 1..Len(p[i]) : p[i][k] \in none
    BY <2>2
  <2>5. \A k \in 1..Len(FlattenSeq(p)) : FlattenSeq(p)[k] \in none
    BY <2>1, <2>4, FlattenedElements
  <2> QED BY <2>3, <2>5
<1>5. Tokens(s) \in Seq(Chars)
  BY TokensConcat
<1>6. Len(Tokens(s)) = 0
  <2>1. Len(Tokens(s)) \in Nat
    BY <1>5, LenProperties
  <2>2. 1..Len(Tokens(s)) = {}
    BY <1>1, <1>2, <1>4
  <2>3. \A k \in Nat : 1..k = {} => k = 0
    BY SMTT(30)
  <2> QED BY <2>1, <2>2, <2>3
<1> QED BY <1>5, <1>6, EmptySeq


LEMMA OriginalsConcat ==
  ASSUME NEW a \in Seq(Chars), NEW b \in Seq(Chars)
  PROVE  /\ Originals(a) \in Seq(Chars) /\ Len(Originals(a)) = Len(a)
         /\ Originals(a \o b) = Originals(a) \o Originals(b)
<1> DEFINE n == Len(a)
           m == Len(b)
<1>1. n \in Nat /\ m \in Nat /\ DOMAIN a = 1..n /\ DOMAIN b = 1..m
  BY LenProperties
<1>2. /\ a \o b \in Seq(Chars) /\ Len(a \o b) = n + m /\ DOMAIN (a \o b) = 1..(n + m)
      /\ \A i \in 1..(n + m) : (a \o b)[i] = IF i <= n THEN a[i] ELSE b[i - n]
  BY ConcatProperties, LenProperties
<1>3. PICK u \in Seq(Chars) : u = a \o b
  BY <1>2
<1>4. \A x \in Chars : Original(x) \in Chars
  BY OriginalIs DEF Chars
<1>5. /\ \A i \in 1..n : a[i] \in Chars
      /\ \A i \in 1..m : b[i] \in Chars
  BY ElementOfSeq
<1> HIDE DEF n, m
<1>6. /\ Originals(a) = [i \in 1..n |-> Original(a[i])]
      /\ Originals(b) = [i \in 1..m |-> Original(b[i])]
      /\ Originals(u) = [i \in 1..(n + m) |-> Original(u[i])]
  BY <1>1, <1>2, <1>3 DEF Originals
<1>7. \A i \in 1..(n + m) : u[i] \in Chars
  BY <1>2, <1>3, ElementOfSeq
<1>8. /\ Originals(a) \in Seq(Chars) /\ Len(Originals(a)) = n
      /\ \A i \in 1..n : Originals(a)[i] = Original(a[i])
  BY <1>1, <1>4, <1>5, <1>6
<1>9. /\ Originals(b) \in Seq(Chars) /\ Len(Originals(b)) = m
      /\ \A i \in 1..m : Originals(b)[i] = Original(b[i])
  BY <1>1, <1>4, <1>5, <1>6
<1>10. /\ Originals(u) \in Seq(Chars) /\ Len(Originals(u)) = n + m
       /\ \A i \in 1..(n + m) : Originals(u)[i] = Original(u[i])
  BY <1>1, <1>4, <1>6, <1>7
<1>11. PICK x \in Seq(Chars) : x = Originals(a)
  BY <1>8
<1>12. PICK y \in Seq(Chars) : y = Originals(b)
  BY <1>9
<1>13. PICK z \in Seq(Chars) : z = Originals(u)
  BY <1>10
<1>14. /\ x \o y \in Seq(Chars) /\ Len(x \o y) = n + m
       /\ \A i \in 1..(n + m) : (x \o y)[i] = IF i <= n THEN x[i] ELSE y[i - n]
  BY <1>8, <1>9, <1>11, <1>12, ConcatProperties
<1>15. ASSUME NEW i \in 1..(n + m) PROVE z[i] = (x \o y)[i]
  <2>1. z[i] = Original(u[i]) /\ u[i] = IF i <= n THEN a[i] ELSE b[i - n]
    BY <1>2, <1>3, <1>10, <1>13
  <2>2. CASE i <= n
    <3>1. i \in 1..n
      BY <1>1, <2>2
    <3> QED BY <1>8, <1>11, <1>14, <2>1, <2>2, <3>1
  <2>3. CASE ~(i <= n)
    <3>1. i - n \in 1..m
      BY <1>1, <2>3
    <3> QED BY <1>9, <1>12, <1>14, <2>1, <2>3, <3>1
  <2> QED BY <2>2, <2>3
<1>16. z = x \o y
  BY <1>10, <1>13, <1>14, <1>15, SeqEqual
<1> QED BY <1>3, <1>8, <1>11, <1>12, <1>13, <1>16 DEF n

LEMMA OriginalsOfBytes ==
  ASSUME NEW a \in Seq(Bytes \cup {Notice})
  PROVE  Originals(a) = a
<1>1. \A i \in 1..Len(a) : Original(a[i]) = a[i]
  BY ElementOfSeq, OriginalIs
<1>2. DOMAIN a = 1..Len(a) /\ a = [i \in DOMAIN a |-> a[i]]
  BY LenProperties
<1> QED BY <1>1, <1>2 DEF Originals

(* The fields of two byte strings one after the other are those of both,   *)
(* for the break of a separator belongs to no field.                       *)
LEMMA FieldsConcat ==
  ASSUME NEW a \in Seq(Chars), NEW b \in Seq(Chars)
  PROVE  /\ Fields(a) \in Seq(Chars) /\ Fields(b) \in Seq(Chars)
         /\ Fields(a \o b) = Fields(a) \o Fields(b)
<1>1. Tokens(a \o b) = Tokens(a) \o Tokens(b)
  BY TokensConcat
<1>2. PICK x \in Seq(Chars) : x = Tokens(a)
  BY TokensConcat
<1>3. PICK y \in Seq(Chars) : y = Tokens(b)
  BY TokensConcat
<1>4. Originals(x) \in Seq(Chars) /\ Originals(y) \in Seq(Chars)
  BY OriginalsConcat
<1>5. Originals(x \o y) = Originals(x) \o Originals(y)
  BY OriginalsConcat
<1>6. Fields(a) = Originals(x) /\ Fields(b) = Originals(y)
  BY <1>2, <1>3 DEF Fields
<1>7. Fields(a \o b) = Originals(x \o y)
  BY <1>1, <1>2, <1>3 DEF Fields
<1> QED BY <1>4, <1>5, <1>6, <1>7

LEMMA FieldsOf ==
  /\ Fields(<<>>) = <<>>
  /\ \A x \in Chars : Fields(<<x>>) = IF x \in Breaks THEN <<>> ELSE <<Original(x)>>
  /\ \A s \in Text : Fields(s) = Tokens(s)
<1>1. Originals(<<>>) = <<>>
  BY DEF Originals
<1>2. ASSUME NEW x \in Chars
      PROVE  Fields(<<x>>) = IF x \in Breaks THEN <<>> ELSE <<Original(x)>>
  <2>1. Originals(<<x>>) = <<Original(x)>>
    BY DEF Originals
  <2>2. CASE x \in Breaks
    BY <1>1, <2>2, TokensOf DEF Fields
  <2>3. CASE x \notin Breaks
    BY <2>1, <2>3, TokensOf DEF Fields
  <2> QED BY <2>2, <2>3
<1>3. ASSUME NEW s \in Text PROVE Fields(s) = Tokens(s)
  <2>1. Tokens(s) \in Seq(Bytes)
    BY TokensConcat DEF Text
  <2>2. Tokens(s) \in Seq(Bytes \cup {Notice})
    BY <2>1, SeqMonotonic
  <2> QED BY <2>2, OriginalsOfBytes DEF Fields
<1> QED BY <1>1, <1>2, <1>3, TokensOf DEF Fields

(* What is the same part by part is the same as a whole. *)
LEMMA FlattenAgree ==
  ASSUME NEW n \in Nat, NEW ss \in [1..n -> Seq(Chars)], NEW tt \in [1..n -> Seq(Chars)],
         \A i \in 1..n : Fields(ss[i]) = Fields(tt[i])
  PROVE  /\ FlattenSeq(ss) \in Seq(Chars) /\ FlattenSeq(tt) \in Seq(Chars)
         /\ Fields(FlattenSeq(ss)) = Fields(FlattenSeq(tt))
<1>1. PICK f \in [0..n -> Seq(Chars)] : Flattened(f, n, ss)
  BY FlattenPrefixes
<1>2. PICK g \in [0..n -> Seq(Chars)] : Flattened(g, n, tt)
  BY FlattenPrefixes
<1> DEFINE T == {i \in 0..n : Fields(f[i]) = Fields(g[i])}
<1>3. 0 \in T
  BY <1>1, <1>2 DEF Flattened
<1>4. ASSUME NEW i \in 0..(n - 1), i \in T PROVE i + 1 \in T
  <2>1. i + 1 \in 1..n /\ i + 1 \in 0..n /\ (i + 1) - 1 = i /\ i \in 0..n
    OBVIOUS
  <2>2. f[i + 1] = f[i] \o ss[i + 1] /\ g[i + 1] = g[i] \o tt[i + 1]
    BY <1>1, <1>2, <2>1 DEF Flattened
  <2>3. Fields(f[i] \o ss[i + 1]) = Fields(f[i]) \o Fields(ss[i + 1])
    <3>1. f[i] \in Seq(Chars) /\ ss[i + 1] \in Seq(Chars)
      BY <2>1
    <3> QED BY <3>1, FieldsConcat
  <2>4. Fields(g[i] \o tt[i + 1]) = Fields(g[i]) \o Fields(tt[i + 1])
    <3>1. g[i] \in Seq(Chars) /\ tt[i + 1] \in Seq(Chars)
      BY <2>1
    <3> QED BY <3>1, FieldsConcat
  <2>5. Fields(ss[i + 1]) = Fields(tt[i + 1]) /\ Fields(f[i]) = Fields(g[i])
    BY <1>4, <2>1
  <2>6. Fields(f[i + 1]) = Fields(g[i + 1])
    BY <2>2, <2>3, <2>4, <2>5
  <2> QED BY <2>1, <2>6
<1> HIDE DEF T
<1>5. n \in T
  <2>1. 0..n \subseteq T
    BY <1>3, <1>4, InductionUpTo
  <2> QED BY <2>1
<1>6. FlattenSeq(ss) = f[n] /\ FlattenSeq(tt) = g[n]
  BY <1>1, <1>2 DEF Flattened
<1> QED BY <1>5, <1>6 DEF T


-----------------------------------------------------------------------------
(* The lines of an event *)

(* The line that goes through i ends at j. *)
IsEnd(s, i, j) ==
  /\ \A k \in i..j : s[k] \notin Breaks
  /\ j = Len(s) \/ s[j + 1] \in Breaks

LEMMA LineEnds ==
  ASSUME NEW s \in Text, NEW i \in 1..Len(s), s[i] \notin Breaks
  PROVE  /\ \E j \in i..Len(s) : IsEnd(s, i, j)
         /\ \A j, k \in i..Len(s) : IsEnd(s, i, j) /\ IsEnd(s, i, k) => j = k
<1>1. Len(s) \in Nat /\ i \in Nat
  BY LenProperties DEF Text
<1> DEFINE stops == {j \in i..Len(s) : j = Len(s) \/ s[j + 1] \in Breaks}
<1>2. stops \subseteq Nat /\ Len(s) \in stops
  BY <1>1
<1>3. PICK j \in stops : \A k \in stops : j <= k
  BY <1>2, LeastNatural
<1>4. \A k \in i..j : s[k] \notin Breaks
  <2> SUFFICES ASSUME NEW k \in i..j, s[k] \in Breaks PROVE FALSE
    OBVIOUS
  <2>1. k # i
    OBVIOUS
  <2>2. k - 1 \in i..Len(s) /\ (k - 1) + 1 = k /\ k - 1 < j
    BY <1>1, <1>3, <2>1
  <2>3. k - 1 \in stops
    <3>1. s[(k - 1) + 1] \in Breaks
      BY <2>2
    <3> QED BY <2>2, <3>1
  <2> HIDE DEF stops
  <2>4. j <= k - 1 /\ j \in Nat
    BY <1>2, <1>3, <2>3
  <2> QED BY <1>1, <2>2, <2>4
<1>5. IsEnd(s, i, j)
  BY <1>3, <1>4 DEF IsEnd
<1>6. ASSUME NEW x \in i..Len(s), NEW y \in i..Len(s), IsEnd(s, i, x), IsEnd(s, i, y), x < y PROVE FALSE
  <2>1. x \in Int /\ y \in Int /\ x + 1 \in i..y /\ x # Len(s)
    BY <1>1, <1>6 DEF IsEnd
  <2> QED BY <1>6, <2>1 DEF IsEnd
<1>7. ASSUME NEW x \in i..Len(s), NEW y \in i..Len(s), IsEnd(s, i, x), IsEnd(s, i, y) PROVE x = y
  <2>1. x \in Int /\ y \in Int
    BY <1>1, <1>7 DEF IsEnd
  <2>2. x < y \/ y < x \/ x = y
    BY <2>1
  <2> QED BY <1>6, <1>7, <2>2
<1> QED BY <1>3, <1>5, <1>7

(* A line begins at i. *)
Begins(s, i) == s[i] \notin Breaks /\ (i = 1 \/ s[i - 1] \in Breaks)

(* The lines that begin at each place. *)
LinesAt(s) ==
  [i \in DOMAIN s |-> IF Begins(s, i) THEN <<SubSeq(s, i, CHOOSE j \in i..Len(s) : IsEnd(s, i, j))>>
                      ELSE <<>>]

LEMMA LinesAtIs ==
  ASSUME NEW s \in Text
  PROVE  /\ Lines(s) = FlattenSeq(LinesAt(s))
         /\ LinesAt(s) \in [1..Len(s) -> Seq(Text \ {<<>>})]
         /\ \A i \in 1..Len(s) :
              /\ ~Begins(s, i) => LinesAt(s)[i] = <<>>
              /\ Begins(s, i) => \E j \in i..Len(s) : /\ IsEnd(s, i, j)
                                                      /\ LinesAt(s)[i] = <<SubSeq(s, i, j)>>
<1>1. Len(s) \in Nat /\ DOMAIN s = 1..Len(s)
  BY LenProperties DEF Text
<1>2. \A k \in 1..Len(s) : s[k] \in Bytes
  BY ElementOfSeq DEF Text
<1>3. \A i \in 1..Len(s) : ~Begins(s, i) => LinesAt(s)[i] = <<>>
  BY <1>1 DEF LinesAt
<1>4. ASSUME NEW i \in 1..Len(s), Begins(s, i)
      PROVE  \E j \in i..Len(s) : IsEnd(s, i, j) /\ LinesAt(s)[i] = <<SubSeq(s, i, j)>>
  <2> DEFINE j == CHOOSE j \in i..Len(s) : IsEnd(s, i, j)
  <2>1. LinesAt(s)[i] = <<SubSeq(s, i, j)>>
    BY <1>1, <1>4 DEF LinesAt
  <2>2. \E k \in i..Len(s) : IsEnd(s, i, k)
    BY <1>4, LineEnds DEF Begins
  <2>3. j \in i..Len(s) /\ IsEnd(s, i, j)
    BY <2>2
  <2> HIDE DEF j
  <2> QED BY <2>1, <2>3
<1>5. ASSUME NEW i \in 1..Len(s) PROVE LinesAt(s)[i] \in Seq(Text \ {<<>>})
  <2>1. CASE ~Begins(s, i)
    <3>1. <<>> \in Seq(Text \ {<<>>})
      OBVIOUS
    <3> QED BY <1>3, <2>1, <3>1
  <2>2. CASE Begins(s, i)
    <3>1. PICK j \in i..Len(s) : LinesAt(s)[i] = <<SubSeq(s, i, j)>>
      BY <1>4, <2>2
    <3>2. \A k \in i..j : s[k] \in Bytes
      BY <1>1, <1>2
    <3>3. i \in Int /\ j \in Int /\ i <= j
      BY <1>1
    <3>4. SubSeq(s, i, j) \in Text /\ Len(SubSeq(s, i, j)) = j - i + 1
      BY <3>2, <3>3, SubSeqProperties DEF Text
    <3>5. SubSeq(s, i, j) # <<>>
      BY <3>3, <3>4, EmptySeq
    <3> QED BY <3>1, <3>4, <3>5, SMTT(30)
  <2> QED BY <2>1, <2>2
<1>6. Lines(s) = FlattenSeq(LinesAt(s))
  BY DEF Lines, LinesAt, Begins, IsEnd
<1>7. LinesAt(s) \in [1..Len(s) -> Seq(Text \ {<<>>})]
  <2>1. \E h : LinesAt(s) = [i \in 1..Len(s) |-> h[i]]
    <3>1. LinesAt(s) = [i \in 1..Len(s) |-> LinesAt(s)[i]]
      BY <1>1 DEF LinesAt
    <3> QED BY <3>1
  <2> QED BY <1>5, <2>1
<1> QED BY <1>3, <1>4, <1>6, <1>7


(* How far the lines that begin up to i reach: to i itself, when no line   *)
(* goes on there, or to the end of the line.                               *)
Reaches(s, i, e) ==
  IF i = 0 \/ s[i] \in Breaks THEN e = i ELSE e \in i..Len(s) /\ IsEnd(s, i, e)

LEMMA ReachNext ==
  ASSUME NEW s \in Text, NEW i \in 0..(Len(s) - 1), NEW e, Reaches(s, i, e)
  PROVE  \/ /\ ~Begins(s, i + 1)
            /\ \/ e = i /\ s[i + 1] \in Breaks /\ Reaches(s, i + 1, i + 1)
               \/ Reaches(s, i + 1, e)
         \/ Begins(s, i + 1) /\ e = i
<1>1. Len(s) \in Nat /\ i \in Nat /\ i + 1 \in 1..Len(s) /\ (i + 1) - 1 = i
  BY LenProperties DEF Text
<1>2. CASE i = 0 \/ s[i] \in Breaks
  <2>1. e = i
    BY <1>2 DEF Reaches
  <2>2. CASE s[i + 1] \in Breaks
    BY <1>1, <2>1, <2>2 DEF Reaches, Begins
  <2>3. CASE s[i + 1] \notin Breaks
    BY <1>1, <1>2, <2>1, <2>3 DEF Begins
  <2> QED BY <2>2, <2>3
<1>3. CASE ~(i = 0 \/ s[i] \in Breaks)
  <2>1. e \in i..Len(s) /\ IsEnd(s, i, e) /\ i # 0
    BY <1>3 DEF Reaches
  <2>2. ~Begins(s, i + 1)
    <3>1. i + 1 # 1
      BY <1>1, <2>1
    <3> QED BY <1>1, <1>3, <3>1 DEF Begins
  <2>3. CASE s[i + 1] \in Breaks
    <3>1. ~(i + 1 \in i..e)
      BY <2>1, <2>3 DEF IsEnd
    <3>2. e = i
      BY <1>1, <2>1, <3>1
    <3> QED BY <1>1, <2>2, <2>3, <3>2 DEF Reaches
  <2>4. CASE s[i + 1] \notin Breaks
    <3>1. e # i
      <4>1. i # Len(s)
        BY <1>1
      <4> QED BY <2>1, <2>4, <4>1 DEF IsEnd
    <3>2. e \in (i + 1)..Len(s) /\ \A k \in (i + 1)..e : k \in i..e
      BY <1>1, <2>1, <3>1
    <3>3. IsEnd(s, i + 1, e)
      BY <2>1, <3>2 DEF IsEnd
    <3>4. i + 1 # 0
      BY <1>1
    <3> QED BY <2>2, <2>4, <3>2, <3>3, <3>4 DEF Reaches
  <2> QED BY <2>3, <2>4
<1> QED BY <1>2, <1>3

(* No field of an event is outside its lines, or in two of them. *)
LEMMA FieldsOfLines ==
  ASSUME NEW s \in Text
  PROVE  /\ Lines(s) \in Seq(Text \ {<<>>})
         /\ Fields(FlattenSeq(Lines(s))) = Fields(s)
<1> DEFINE N == Len(s)
           L == Text \ {<<>>}
           at == LinesAt(s)
           to(e) == SubSeq(s, 1, e)
<1>1. N \in Nat /\ \A k \in 1..N : s[k] \in Bytes
  BY LenProperties, ElementOfSeq DEF Text
<1>2. /\ Lines(s) = FlattenSeq(at)
      /\ at \in [1..N -> Seq(L)]
      /\ \A i \in 1..N :
           /\ ~Begins(s, i) => at[i] = <<>>
           /\ Begins(s, i) => \E j \in i..N : IsEnd(s, i, j) /\ at[i] = <<SubSeq(s, i, j)>>
  BY LinesAtIs
<1> HIDE DEF at
<1>3. PICK f \in [0..N -> Seq(L)] : Flattened(f, N, at)
  BY <1>1, <1>2, FlattenPrefixes
<1>4. /\ f[0] = <<>> /\ Lines(s) = f[N]
      /\ \A i \in 1..N : f[i] = f[i - 1] \o at[i]
  BY <1>2, <1>3 DEF Flattened
<1>5. \A x \in Seq(L) : x \in Seq(Seq(Chars))
  <2>1. L \subseteq Seq(Chars)
    BY Subsets
  <2> HIDE DEF L
  <2> QED BY <2>1, SeqMonotonic
<1>6. \A m \in 0..N, e \in 0..N : m <= e =>
        /\ to(m) \in Seq(Chars) /\ SubSeq(s, m + 1, e) \in Seq(Chars)
        /\ to(e) = to(m) \o SubSeq(s, m + 1, e)
  <2> SUFFICES ASSUME NEW m \in 0..N, NEW e \in 0..N, m <= e
               PROVE  /\ to(m) \in Seq(Chars) /\ SubSeq(s, m + 1, e) \in Seq(Chars)
                      /\ to(e) = to(m) \o SubSeq(s, m + 1, e)
    OBVIOUS
  <2>1. PICK n \in Nat : n = e - m
    BY <1>1
  <2>2. m + n = e
    BY <1>1, <2>1
  <2> QED BY <1>1, <2>2, NextChunk, Subsets
<1> DEFINE good(i, e) == Reaches(s, i, e) /\ Fields(FlattenSeq(f[i])) = Fields(to(e))
           T == {i \in 0..N : \E e \in i..N : good(i, e)}
<1>7. 0 \in T
  <2>1. to(0) = <<>>
    BY SubSeqEmpty
  <2>2. FlattenSeq(<<>>) = <<>>
    <3>1. <<>> \in Seq(Chars)
      OBVIOUS
    <3> QED BY <3>1, FlattenOne
  <2>3. good(0, 0)
    BY <1>4, <2>1, <2>2 DEF Reaches
  <2> QED BY <1>1, <2>3
<1>8. ASSUME NEW i \in 0..(N - 1), i \in T PROVE i + 1 \in T
  <2>1. i + 1 \in 1..N /\ i + 1 \in 0..N /\ (i + 1) - 1 = i /\ i \in 0..N
    BY <1>1
  <2>2. PICK e \in i..N : good(i, e)
    BY <1>8
  <2>3. f[i + 1] = f[i] \o at[i + 1]
    BY <1>4, <2>1
  <2>4. f[i] \in Seq(Seq(Chars)) /\ FlattenSeq(f[i]) \in Seq(Chars)
    <3>1. f[i] \in Seq(Seq(Chars))
      BY <1>3, <1>5, <2>1
    <3> QED BY <3>1, FlattenConcat
  <2> HIDE DEF to
  <2>5. CASE Begins(s, i + 1) /\ e = i
    <3>1. PICK j \in (i + 1)..N : IsEnd(s, i + 1, j) /\ at[i + 1] = <<SubSeq(s, i + 1, j)>>
      BY <1>2, <2>1, <2>5
    <3>2. /\ to(i) \in Seq(Chars) /\ SubSeq(s, i + 1, j) \in Seq(Chars)
          /\ to(j) = to(i) \o SubSeq(s, i + 1, j)
      <4>1. j \in 0..N /\ i <= j
        BY <1>1, <2>1
      <4> QED BY <1>6, <2>1, <4>1
    <3>3. PICK line \in Seq(Chars) : line = SubSeq(s, i + 1, j)
      BY <3>2
    <3>4. FlattenSeq(f[i + 1]) = FlattenSeq(f[i]) \o line
      <4>1. <<line>> \in Seq(Seq(Chars))
        OBVIOUS
      <4>2. FlattenSeq(f[i] \o <<line>>) = FlattenSeq(f[i]) \o FlattenSeq(<<line>>)
        BY <2>4, <4>1, FlattenConcat
      <4> QED BY <2>3, <3>1, <3>3, <4>2, FlattenOne
    <3>5. Fields(FlattenSeq(f[i + 1])) = Fields(FlattenSeq(f[i])) \o Fields(line)
      BY <2>4, <3>4, FieldsConcat
    <3>6. Fields(to(j)) = Fields(to(i)) \o Fields(line)
      <4>1. PICK head \in Seq(Chars) : head = to(i)
        BY <3>2
      <4>2. Fields(head \o line) = Fields(head) \o Fields(line)
        BY FieldsConcat
      <4> QED BY <3>2, <3>3, <4>1, <4>2
    <3>7. Reaches(s, i + 1, j)
      <4>1. i + 1 # 0 /\ s[i + 1] \notin Breaks
        BY <2>1, <2>5 DEF Begins
      <4> QED BY <3>1, <4>1 DEF Reaches
    <3>8. good(i + 1, j)
      BY <2>2, <2>5, <3>5, <3>6, <3>7
    <3> QED BY <2>1, <3>8
  <2>6. CASE ~Begins(s, i + 1)
    <3>1. f[i + 1] = f[i]
      <4>1. at[i + 1] = <<>>
        BY <1>2, <2>1, <2>6
      <4> QED BY <2>3, <2>4, <4>1, ConcatEmptySeq
    <3>2. CASE e = i /\ s[i + 1] \in Breaks /\ Reaches(s, i + 1, i + 1)
      <4>1. /\ to(i) \in Seq(Chars)
            /\ to(i + 1) = to(i) \o SubSeq(s, i + 1, i + 1)
        BY <1>1, <1>6, <2>1, SMTT(30)
      <4>2. SubSeq(s, i + 1, i + 1) = <<s[i + 1]>>
        <5>1. i + 1 \in Int /\ s[i + 1] \in Bytes /\ \A k \in (i + 1)..(i + 1) : s[k] \in Bytes
          BY <1>1, <2>1
        <5>2. PICK p \in Int : p = i + 1
          BY <5>1
        <5>3. p - p + 1 = 1 /\ p + 1 - 1 = p /\ p <= p
          OBVIOUS
        <5>4. /\ SubSeq(s, p, p) \in Seq(Bytes) /\ Len(SubSeq(s, p, p)) = 1
              /\ \A k \in 1..1 : SubSeq(s, p, p)[k] = s[p + k - 1]
          BY <5>1, <5>2, <5>3, SubSeqProperties
        <5>5. SubSeq(s, p, p)[1] = s[p]
          BY <5>3, <5>4
        <5>6. <<s[p]>> \in Seq(Bytes) /\ Len(<<s[p]>>) = 1 /\ <<s[p]>>[1] = s[p]
          BY <5>1, <5>2
        <5>7. SubSeq(s, p, p) = <<s[p]>>
          <6>1. PICK one \in Seq(Bytes) : one = <<s[p]>>
            BY <5>6
          <6>2. PICK part \in Seq(Bytes) : part = SubSeq(s, p, p)
            BY <5>4
          <6>3. Len(part) = Len(one) /\ \A k \in 1..Len(part) : part[k] = one[k]
            BY <5>4, <5>5, <5>6, <6>1, <6>2
          <6> QED BY <6>1, <6>2, <6>3, SeqEqual
        <5> QED BY <5>2, <5>7
      <4>3. s[i + 1] \in Chars
        BY <1>1, <2>1, Subsets
      <4>4. Fields(<<s[i + 1]>>) = <<>> /\ <<s[i + 1]>> \in Seq(Chars)
        <5>1. PICK x \in Chars : x = s[i + 1]
          BY <4>3
        <5>2. Fields(<<x>>) = <<>> /\ <<x>> \in Seq(Chars)
          <6>1. Fields(<<x>>) = IF x \in Breaks THEN <<>> ELSE <<Original(x)>>
            BY FieldsOf
          <6>2. x \in Breaks
            BY <3>2, <5>1
          <6> QED BY <6>1, <6>2
        <5> QED BY <5>1, <5>2
      <4>5. Fields(to(i + 1)) = Fields(to(i)) \o <<>> /\ Fields(to(i)) \in Seq(Chars)
        <5>1. PICK head \in Seq(Chars) : head = to(i)
          BY <4>1
        <5>2. PICK last \in Seq(Chars) : last = <<s[i + 1]>>
          BY <4>4
        <5>3. Fields(head \o last) = Fields(head) \o Fields(last) /\ Fields(head) \in Seq(Chars)
          BY FieldsConcat
        <5> QED BY <4>1, <4>2, <4>4, <5>1, <5>2, <5>3
      <4>6. Fields(to(i + 1)) = Fields(to(i))
        BY <4>5, ConcatEmptySeq
      <4>7. good(i + 1, i + 1)
        BY <2>2, <3>1, <3>2, <4>6
      <4> QED BY <2>1, <4>7
    <3>3. CASE Reaches(s, i + 1, e)
      <4>1. e \in (i + 1)..N
        <5>1. i + 1 # 0
          BY <2>1
        <5> QED BY <2>1, <3>3, <5>1 DEF Reaches
      <4>2. good(i + 1, e)
        BY <2>2, <3>1, <3>3
      <4> QED BY <2>1, <4>1, <4>2
    <3>4. \/ e = i /\ s[i + 1] \in Breaks /\ Reaches(s, i + 1, i + 1)
          \/ Reaches(s, i + 1, e)
      BY <2>2, <2>6, ReachNext
    <3> QED BY <3>2, <3>3, <3>4
  <2>7. Begins(s, i + 1) => e = i
    BY <2>2, ReachNext
  <2> QED BY <2>5, <2>6, <2>7
<1> HIDE DEF T
<1>9. N \in T
  <2>1. 0..N \subseteq T
    BY <1>1, <1>7, <1>8, InductionUpTo
  <2> QED BY <1>1, <2>1
<1>10. PICK e \in N..N : good(N, e)
  BY <1>9 DEF T
<1>11. to(N) = s
  BY SubSeqFull DEF Text
<1>12. Fields(FlattenSeq(f[N])) = Fields(s)
  <2>1. e = N
    BY <1>1
  <2> QED BY <1>10, <1>11, <2>1
<1>13. f[N] \in Seq(L)
  BY <1>1, <1>3
<1> QED BY <1>4, <1>12, <1>13


-----------------------------------------------------------------------------
(* What is written of an event *)

DataAt(lines) == [i \in DOMAIN lines |-> IF IsData(lines[i]) THEN <<lines[i]>> ELSE <<>>]

(* The first data line is the first of the data lines. *)
LEMMA FirstData ==
  ASSUME NEW lines \in Seq(Text \ {<<>>}), DataLines(lines) # <<>>
  PROVE  \E i \in 1..Len(lines) :
           /\ IsData(lines[i]) /\ \A j \in 1..(i - 1) : ~IsData(lines[j])
           /\ DataLines(lines)[1] = lines[i]
<1> DEFINE n == Len(lines)
           d == DataAt(lines)
<1>1. n \in Nat /\ DOMAIN lines = 1..n /\ \A i \in 1..n : lines[i] \in Text
  BY LenProperties, ElementOfSeq
<1>2. /\ d \in [1..n -> Seq(Text)]
      /\ \A i \in 1..n : d[i] = IF IsData(lines[i]) THEN <<lines[i]>> ELSE <<>>
  <2>1. \A i \in 1..n : (IF IsData(lines[i]) THEN <<lines[i]>> ELSE <<>>) \in Seq(Text)
    <3> SUFFICES ASSUME NEW i \in 1..n
                 PROVE  (IF IsData(lines[i]) THEN <<lines[i]>> ELSE <<>>) \in Seq(Text)
      OBVIOUS
    <3>1. lines[i] \in Text
      BY <1>1
    <3> QED BY <3>1
  <2> HIDE DEF n
  <2> QED BY <1>1, <2>1 DEF DataAt
<1>3. DataLines(lines) = FlattenSeq(d)
  BY DEF DataLines, DataAt
<1> HIDE DEF n, d
<1>4. PICK f \in [0..n -> Seq(Text)] : Flattened(f, n, d)
  BY <1>1, <1>2, FlattenPrefixes
<1>5. /\ f[0] = <<>> /\ DataLines(lines) = f[n]
      /\ \A i \in 1..n : f[i] = f[i - 1] \o d[i]
  BY <1>3, <1>4 DEF Flattened
<1> DEFINE none(i) == f[i] = <<>> /\ \A j \in 1..i : ~IsData(lines[j])
           some(i) == /\ f[i] # <<>>
                      /\ \E k \in 1..i : /\ IsData(lines[k]) /\ f[i][1] = lines[k]
                                         /\ \A j \in 1..(k - 1) : ~IsData(lines[j])
           T == {i \in 0..n : none(i) \/ some(i)}
<1>6. 0 \in T
  BY <1>1, <1>5
<1>7. ASSUME NEW i \in 0..(n - 1), i \in T PROVE i + 1 \in T
  <2>1. i + 1 \in 1..n /\ i + 1 \in 0..n /\ (i + 1) - 1 = i /\ i \in 0..n /\ i + 1 \in 1..(i + 1)
    BY <1>1
  <2>2. f[i + 1] = f[i] \o d[i + 1]
    BY <1>5, <2>1
  <2>3. PICK x \in Seq(Text) : x = f[i]
    BY <2>1
  <2>4. PICK y \in Seq(Text) : y = d[i + 1]
    BY <1>2, <2>1
  <2>5. /\ x \o y \in Seq(Text) /\ Len(x \o y) = Len(x) + Len(y)
        /\ \A k \in 1..(Len(x) + Len(y)) : (x \o y)[k] = IF k <= Len(x) THEN x[k] ELSE y[k - Len(x)]
    BY ConcatProperties
  <2>6. CASE none(i)
    <3>1. f[i + 1] = d[i + 1]
      <4>1. <<>> \o y = y
        BY ConcatEmptySeq
      <4> QED BY <2>2, <2>4, <2>6, <4>1
    <3>2. CASE IsData(lines[i + 1])
      <4>1. d[i + 1] = <<lines[i + 1]>>
        BY <1>2, <2>1, <3>2
      <4>2. f[i + 1] # <<>> /\ f[i + 1][1] = lines[i + 1]
        BY <3>1, <4>1
      <4>3. some(i + 1)
        BY <2>1, <2>6, <3>2, <4>2
      <4> QED BY <2>1, <4>3
    <3>3. CASE ~IsData(lines[i + 1])
      <4>1. d[i + 1] = <<>>
        BY <1>2, <2>1, <3>3
      <4>2. \A j \in 1..(i + 1) : j \in 1..i \/ j = i + 1
        BY <2>1
      <4>3. none(i + 1)
        BY <2>6, <3>1, <3>3, <4>1, <4>2
      <4> QED BY <2>1, <4>3
    <3> QED BY <3>2, <3>3
  <2>7. CASE some(i)
    <3>1. Len(x) \in Nat \ {0} /\ Len(y) \in Nat
      BY <2>3, <2>7, EmptySeq, LenProperties
    <3>2. (x \o y)[1] = x[1] /\ Len(x \o y) # 0
      BY <2>5, <3>1
    <3>3. f[i + 1] # <<>> /\ f[i + 1][1] = f[i][1]
      BY <2>2, <2>3, <2>4, <3>2, EmptySeq
    <3>4. \A k \in 1..i : k \in 1..(i + 1)
      BY <2>1
    <3>5. some(i + 1)
      BY <2>7, <3>3, <3>4
    <3> QED BY <2>1, <3>5
  <2> QED BY <1>7, <2>6, <2>7
<1> HIDE DEF T
<1>8. n \in T
  <2>1. 0..n \subseteq T
    BY <1>1, <1>6, <1>7, InductionUpTo
  <2> QED BY <1>1, <2>1
<1>9. some(n)
  BY <1>5, <1>8 DEF T
<1> QED BY <1>5, <1>9 DEF n

(* The first data line of what has a delta is one payload. *)
LEMMA FirstIsPayload ==
  ASSUME NEW raw \in Text, HasDelta(raw)
  PROVE  \E i \in 1..Len(Lines(raw)), x \in DOMAIN Masked :
           /\ IsData(Lines(raw)[i]) /\ \A j \in 1..(i - 1) : ~IsData(Lines(raw)[j])
           /\ Lines(raw)[i] = <<x>>
<1>1. PICK lines \in Seq(Text \ {<<>>}) : lines = Lines(raw)
  BY FieldsOfLines
<1>2. \/ \E p \in Payloads : DataLines(lines) = <<<<p>>>>
      \/ DataLines(lines) = <<<<Opening>>, <<Closing>>>>
  BY <1>1 DEF HasDelta, Data
<1>3. DataLines(lines) # <<>> /\ \E x \in DOMAIN Masked : DataLines(lines)[1] = <<x>>
  BY <1>2, EventStreamAssumption
<1>4. PICK x \in DOMAIN Masked : DataLines(lines)[1] = <<x>>
  BY <1>3
<1>5. PICK i \in 1..Len(lines) : /\ IsData(lines[i]) /\ \A j \in 1..(i - 1) : ~IsData(lines[j])
                                 /\ DataLines(lines)[1] = lines[i]
  BY <1>3, FirstData
<1> QED BY <1>1, <1>4, <1>5


(* The lines as _replace_data_line() writes them, each behind the break    *)
(* that separates it from the line before.                                 *)
LEMMA RewrittenKeeps ==
  ASSUME NEW raw \in Text, HasDelta(raw)
  PROVE  Rewritten(raw) \in Seq(Chars) /\ Fields(Rewritten(raw)) = Fields(raw)
<1>1. PICK lines \in Seq(Text \ {<<>>}) : lines = Lines(raw)
  BY FieldsOfLines
<1> DEFINE n == Len(lines)
           first == CHOOSE i \in DOMAIN lines :
                      IsData(lines[i]) /\ \A j \in 1..(i - 1) : ~IsData(lines[j])
           line(i) == IF i = first THEN <<Masked[lines[i][1]]>> ELSE lines[i]
           tt == [i \in DOMAIN lines |-> IF i = 1 THEN line(i) ELSE <<Lf>> \o line(i)]
           end == <<Lf, Lf>>
<1>2. n \in Nat /\ DOMAIN lines = 1..n /\ \A i \in 1..n : lines[i] \in Text
  BY LenProperties, ElementOfSeq
<1>3. \E i \in 1..n, x \in DOMAIN Masked :
        /\ IsData(lines[i]) /\ \A j \in 1..(i - 1) : ~IsData(lines[j])
        /\ lines[i] = <<x>>
  BY <1>1, FirstIsPayload
<1>4. PICK x \in DOMAIN Masked : first \in 1..n /\ lines[first] = <<x>>
  <2>1. PICK i \in 1..n, x \in DOMAIN Masked :
          /\ IsData(lines[i]) /\ \A j \in 1..(i - 1) : ~IsData(lines[j])
          /\ lines[i] = <<x>>
    BY <1>3
  <2>2. /\ first \in 1..n
        /\ IsData(lines[first]) /\ \A j \in 1..(first - 1) : ~IsData(lines[j])
    BY <1>2, <2>1
  <2> HIDE DEF first
  <2>3. first = i
    <3>1. ~(first < i) /\ ~(i < first)
      BY <1>2, <2>1, <2>2
    <3> QED BY <1>2, <2>1, <2>2, <3>1
  <2> QED BY <2>1, <2>2, <2>3
<1>5. Rewritten(raw) = FlattenSeq(tt) \o end
  BY <1>1 DEF Rewritten
<1> HIDE DEF n, first, end
<1>6. Lf \in Chars /\ Lf \in Breaks /\ <<Lf>> \in Seq(Chars) /\ Fields(<<Lf>>) = <<>>
  <2>1. Lf \in Chars /\ Lf \in Breaks
    BY Subsets DEF Breaks
  <2>2. Fields(<<Lf>>) = IF Lf \in Breaks THEN <<>> ELSE <<Original(Lf)>>
    BY <2>1, FieldsOf
  <2> QED BY <2>1, <2>2
<1>7. ASSUME NEW i \in 1..n
      PROVE  line(i) \in Seq(Chars) /\ Fields(line(i)) = Fields(lines[i])
  <2>1. CASE i = first
    <3>1. line(i) = <<Masked[x]>> /\ lines[i] = <<x>>
      BY <1>4, <2>1
    <3>2. /\ Masked[x] \in Chars /\ Masked[x] \notin Breaks /\ Original(Masked[x]) = x
          /\ x \in Bytes /\ x \in Chars /\ x \notin Breaks /\ Original(x) = x
      <4>1. x \in Bytes
        BY EventStreamAssumption DEF Bytes
      <4>2. <<x>> \in Text
        BY <4>1 DEF Text
      <4>3. x \notin Breaks
        BY EventStreamAssumption DEF Breaks, Cr, Lf, Opening
      <4> QED BY <4>1, <4>3, OriginalIs, Subsets DEF Chars
    <3>3. PICK m \in Chars : m = Masked[x]
      BY <3>2
    <3>4. Fields(<<m>>) = <<x>> /\ Fields(<<x>>) = <<x>> /\ <<m>> \in Seq(Chars)
      <4>1. Fields(<<m>>) = IF m \in Breaks THEN <<>> ELSE <<Original(m)>>
        BY FieldsOf
      <4>2. Fields(<<x>>) = IF x \in Breaks THEN <<>> ELSE <<Original(x)>>
        BY <3>2, FieldsOf
      <4> QED BY <3>2, <3>3, <4>1, <4>2
    <3> QED BY <3>1, <3>3, <3>4
  <2>2. CASE i # first
    BY <1>2, <2>2, Subsets
  <2> QED BY <2>1, <2>2
<1>8. ASSUME NEW i \in 1..n
      PROVE  tt[i] \in Seq(Chars) /\ Fields(tt[i]) = Fields(lines[i])
  <2>1. tt[i] = IF i = 1 THEN line(i) ELSE <<Lf>> \o line(i)
    BY <1>2
  <2>2. PICK l \in Seq(Chars) : l = line(i) /\ Fields(l) = Fields(lines[i])
    BY <1>7
  <2>3. PICK b \in Seq(Chars) : b = <<Lf>> /\ Fields(b) = <<>>
    BY <1>6
  <2>4. b \o l \in Seq(Chars)
    BY ConcatProperties
  <2>5. Fields(b \o l) = Fields(b) \o Fields(l) /\ Fields(l) \in Seq(Chars)
    BY FieldsConcat
  <2>6. Fields(b \o l) = Fields(l)
    BY <2>3, <2>5, ConcatEmptySeq
  <2> HIDE DEF tt, line
  <2> QED BY <2>1, <2>2, <2>3, <2>4, <2>6
<1>9. tt \in [1..n -> Seq(Chars)]
  <2>1. \E h : tt = [i \in 1..n |-> h[i]]
    <3>1. tt = [i \in 1..n |-> tt[i]]
      BY <1>2
    <3> QED BY <3>1
  <2> HIDE DEF tt
  <2> QED BY <1>8, <2>1
<1> HIDE DEF tt, line
<1>10. lines \in [1..n -> Seq(Chars)]
  <2>1. lines \in [1..n -> Text \ {<<>>}]
    BY LenProperties DEF n
  <2> QED BY <2>1, Subsets
<1>11. FlattenSeq(tt) \in Seq(Chars) /\ Fields(FlattenSeq(tt)) = Fields(FlattenSeq(lines))
  BY <1>2, <1>8, <1>9, <1>10, FlattenAgree
<1>12. end \in Seq(Chars) /\ Fields(end) = <<>>
  <2>1. end \in Seq(Chars) /\ \A i \in 1..Len(end) : end[i] \in Breaks
    BY <1>6 DEF end
  <2>2. Tokens(end) = <<>>
    BY <2>1, BlankHasNone
  <2>3. end \in Text
    BY <1>6, Subsets DEF end, Text
  <2> QED BY <2>1, <2>2, <2>3, FieldsOf
<1>13. PICK a \in Seq(Chars) : a = FlattenSeq(tt)
  BY <1>11
<1>14. a \o end \in Seq(Chars) /\ Fields(a \o end) = Fields(a) \o Fields(end) /\ Fields(a) \in Seq(Chars)
  BY <1>12, FieldsConcat, ConcatProperties
<1>15. Fields(a \o end) = Fields(a)
  BY <1>12, <1>14, ConcatEmptySeq
<1>16. Fields(FlattenSeq(lines)) = Fields(raw)
  BY <1>1, FieldsOfLines
<1> QED BY <1>5, <1>11, <1>13, <1>14, <1>15, <1>16

(* _emit_event() *)
LEMMA EmittedKeeps ==
  ASSUME NEW raw \in Text, NEW redact \in BOOLEAN
  PROVE  Emitted(raw, redact) \in Seq(Chars) /\ Fields(Emitted(raw, redact)) = Fields(raw)
<1>1. CASE redact /\ HasDelta(raw)
  BY <1>1, RewrittenKeeps DEF Emitted
<1>2. CASE ~(redact /\ HasDelta(raw))
  BY <1>2, Subsets DEF Emitted
<1> QED BY <1>1, <1>2

-----------------------------------------------------------------------------
(* What the loop of _consume_events() keeps *)

(* The fields of the events that were cut off and of what is left. *)
Kept(c) == Fields(FlattenSeq(c.events)) \o Fields(c.rest)

LEMMA CharsAssociate ==
  \A x, y, z \in Seq(Chars) : Associates(x, y, z)
BY ConcatAssociates

(* A separator has no field, and neither has an event that is dropped for  *)
(* being blank.                                                            *)
LEMMA CutOffKeeps ==
  ASSUME NEW c \in Cuts
  PROVE  Kept(CutOff(c)) = Kept(c)
<1> DEFINE at == Boundary(c.rest).at
           w == Boundary(c.rest).advance
<1>1. CASE Stuck(c)
  BY <1>1 DEF Stuck, CutOff
<1>2. CASE ~Stuck(c)
  <2>1. PICK s \in Text : s = c.rest
    BY DEF Cuts
  <2>2. PICK d \in Seq(Text) : d = c.events
    BY DEF Cuts
  <2>3. at \in Nat \ {0} /\ w \in {2, 4} /\ at + w <= Len(s) + 1 /\ EndsEvent(s, at, w)
    <3>1. <<>> \in Text
      BY DEF Text
    <3>2. Boundary(s).at # 0
      BY <1>2, <2>1 DEF Stuck
    <3> QED BY <2>1, <3>1, <3>2, BoundaryKept, BoundaryIs
  <2> DEFINE raw == SubSeq(s, 1, at - 1)
             sep == SubSeq(s, at, at + w - 1)
             tail == SubSeq(s, at + w, Len(s))
  <2>4. CutOff(c) = [events |-> IF IsBlank(raw) THEN d ELSE Append(d, raw), rest |-> tail]
    BY <1>2, <2>1, <2>2 DEF Stuck, CutOff
  <2> HIDE DEF at, w
  <2>5. Len(s) \in Nat
    BY LenProperties DEF Text
  <2>6. raw \in Text /\ tail \in Text
    BY <2>3, Parts
  <2>7. sep \in Text /\ \A k \in 1..Len(sep) : sep[k] \in Breaks
    <3>1. \A k \in at..(at + w - 1) : s[k] \in Breaks
      <4>1. Cr \in Breaks /\ Lf \in Breaks
        BY DEF Breaks
      <4>2. CASE w = 4 /\ Occurs(CrLfTwice, s, at)
        <5>1. s[at] = Cr /\ s[at + 1] = Lf /\ s[at + 2] = Cr /\ s[at + 3] = Lf
          BY <2>3, <4>2, CrLfOccurs
        <5>2. \A k \in at..(at + w - 1) : k = at \/ k = at + 1 \/ k = at + 2 \/ k = at + 3
          BY <2>3, <4>2
        <5> QED BY <4>1, <5>1, <5>2
      <4>3. CASE w = 2 /\ Occurs(LfTwice, s, at)
        <5>1. s[at] = Lf /\ s[at + 1] = Lf
          BY <2>3, <4>3, LfOccurs
        <5>2. \A k \in at..(at + w - 1) : k = at \/ k = at + 1
          BY <2>3, <4>3
        <5> QED BY <4>1, <5>1, <5>2
      <4> QED BY <2>3, <4>2, <4>3 DEF EndsEvent
    <3>2. \A k \in at..(at + w - 1) : s[k] \in Bytes
      BY <3>1, Subsets
    <3>3. at \in Int /\ at + w - 1 \in Int /\ at <= at + w - 1 /\ (at + w - 1) - at + 1 = w
      BY <2>3
    <3>4. /\ sep \in Text /\ Len(sep) = w
          /\ \A k \in 1..w : sep[k] = s[at + k - 1]
      BY <3>2, <3>3, SubSeqProperties DEF Text
    <3>5. \A k \in 1..w : at + k - 1 \in at..(at + w - 1)
      BY <2>3
    <3> QED BY <3>1, <3>4, <3>5
  <2>8. s = (raw \o sep) \o tail
    <3>1. PICK m \in Nat : m = at - 1
      BY <2>3
    <3>2. PICK n \in Nat : n = m + w
      BY <2>3, <3>1
    <3>3. /\ at = m + 1 /\ at + w - 1 = n /\ at + w = n + 1 /\ m <= n /\ n <= Len(s)
      BY <2>3, <2>5, <3>1, <3>2
    <3>4. /\ 1 \in 1..(Len(s) + 1) /\ m \in (1 - 1)..Len(s) /\ n \in m..Len(s)
          /\ n \in (1 - 1)..Len(s) /\ Len(s) \in n..Len(s)
      BY <2>5, <3>3
    <3>5. SubSeq(s, 1, m) \o SubSeq(s, m + 1, n) = SubSeq(s, 1, n)
      BY <3>4, ConcatAdjacentSubSeq DEF Text
    <3>6. SubSeq(s, 1, n) \o SubSeq(s, n + 1, Len(s)) = SubSeq(s, 1, Len(s))
      BY <3>4, ConcatAdjacentSubSeq DEF Text
    <3>7. SubSeq(s, 1, Len(s)) = s
      BY SubSeqFull DEF Text
    <3>8. raw = SubSeq(s, 1, m) /\ sep = SubSeq(s, m + 1, n) /\ tail = SubSeq(s, n + 1, Len(s))
      BY <3>1, <3>3
    <3> HIDE DEF raw, sep, tail
    <3> QED BY <3>5, <3>6, <3>7, <3>8
  <2> HIDE DEF raw, sep, tail
  <2>9. PICK a \in Seq(Chars) : a = raw
    BY <2>6, Subsets
  <2>10. PICK b \in Seq(Chars) : b = sep /\ Fields(b) = <<>>
    <3>1. sep \in Seq(Chars)
      BY <2>7, Subsets
    <3>2. Tokens(sep) = <<>>
      BY <2>7, <3>1, BlankHasNone
    <3> QED BY <2>7, <3>1, <3>2, FieldsOf
  <2>11. PICK t \in Seq(Chars) : t = tail
    BY <2>6, Subsets
  <2>12. PICK fa \in Seq(Chars) : fa = Fields(a)
    BY FieldsConcat
  <2>13. PICK ft \in Seq(Chars) : ft = Fields(t)
    BY FieldsConcat
  <2>14. Fields(s) = fa \o ft
    <3>1. a \o b \in Seq(Chars) /\ Fields(a \o b) = fa \o <<>>
      <4>1. a \o b \in Seq(Chars)
        BY ConcatProperties
      <4>2. Fields(a \o b) = Fields(a) \o Fields(b)
        BY FieldsConcat
      <4> QED BY <2>10, <2>12, <4>1, <4>2
    <3>2. fa \o <<>> = fa
      BY ConcatEmptySeq
    <3>3. PICK ab \in Seq(Chars) : ab = a \o b /\ Fields(ab) = fa
      BY <3>1, <3>2
    <3>4. Fields(ab \o t) = Fields(ab) \o Fields(t)
      BY FieldsConcat
    <3> QED BY <2>8, <2>9, <2>10, <2>11, <2>13, <3>3, <3>4
  <2>15. PICK e \in Seq(Seq(Chars)) : e = d
    BY Subsets, SeqMonotonic
  <2>16. PICK fe \in Seq(Chars) : fe = Fields(FlattenSeq(e))
    <3>1. PICK x \in Seq(Chars) : x = FlattenSeq(e)
      BY FlattenConcat
    <3> QED BY <3>1, FieldsConcat
  <2>17. Kept(c) = fe \o (fa \o ft)
    BY <2>1, <2>2, <2>14, <2>15, <2>16 DEF Kept
  <2>18. CASE IsBlank(raw)
    <3>1. fa = <<>>
      <4>1. \A k \in 1..Len(a) : a[k] \in Breaks
        BY <2>9, <2>18, LenProperties DEF IsBlank
      <4>2. Tokens(a) = <<>>
        BY <4>1, BlankHasNone
      <4>3. Fields(a) = Tokens(a)
        BY <2>6, <2>9, FieldsOf
      <4> QED BY <2>12, <4>2, <4>3
    <3>2. fa \o ft = ft
      BY <3>1, ConcatEmptySeq
    <3>3. Kept(CutOff(c)) = fe \o ft
      BY <2>4, <2>11, <2>13, <2>15, <2>16, <2>18 DEF Kept
    <3> QED BY <2>17, <3>2, <3>3
  <2>19. CASE ~IsBlank(raw)
    <3>1. Append(d, raw) = e \o <<a>>
      BY <2>9, <2>15, AppendIsConcat
    <3>2. <<a>> \in Seq(Seq(Chars))
      OBVIOUS
    <3>3. FlattenSeq(e \o <<a>>) = FlattenSeq(e) \o a /\ FlattenSeq(e) \in Seq(Chars)
      <4>1. FlattenSeq(e \o <<a>>) = FlattenSeq(e) \o FlattenSeq(<<a>>) /\ FlattenSeq(e) \in Seq(Chars)
        BY <3>2, FlattenConcat
      <4>2. FlattenSeq(<<a>>) = a
        BY FlattenOne
      <4> QED BY <4>1, <4>2
    <3>4. PICK x \in Seq(Chars) : x = FlattenSeq(e)
      BY <3>3
    <3>5. Fields(x \o a) = Fields(x) \o Fields(a)
      BY FieldsConcat
    <3>6. Kept(CutOff(c)) = (fe \o fa) \o ft
      <4>1. CutOff(c).events = e \o <<a>> /\ CutOff(c).rest = t
        BY <2>4, <2>11, <2>19, <3>1, SMTT(30)
      <4> QED BY <2>12, <2>13, <2>16, <3>3, <3>4, <3>5, <4>1 DEF Kept
    <3>7. (fe \o fa) \o ft = fe \o (fa \o ft)
      <4>1. Associates(fe, fa, ft)
        BY CharsAssociate
      <4> QED BY <4>1 DEF Associates
    <3> QED BY <2>17, <3>6, <3>7
  <2> QED BY <2>18, <2>19
<1> QED BY <1>1, <1>2

LEMMA ConsumeKeeps ==
  ASSUME NEW s \in Text
  PROVE  Kept(Consume(s)) = Fields(s)
<1> DEFINE N == Len(s)
<1>1. PICK f \in [0..N -> Cuts] : IsLoop(f, s)
  BY Loop
<1>2. N \in Nat
  BY LenProperties DEF Text
<1>3. f[0] = Fresh(s) /\ \A n \in 1..N : f[n] = CutOff(f[n - 1])
  BY <1>1 DEF IsLoop
<1> DEFINE T == {n \in 0..N : Kept(f[n]) = Fields(s)}
<1>4. 0 \in T
  <2>1. FlattenSeq(<<>>) = <<>>
    <3>1. <<>> \in Seq(Chars)
      OBVIOUS
    <3> QED BY <3>1, FlattenOne
  <2>2. s \in Seq(Chars)
    BY Subsets
  <2>3. PICK x \in Seq(Chars) : x = Fields(s)
    BY <2>2, FieldsConcat
  <2>4. Kept(Fresh(s)) = <<>> \o x
    BY <2>1, <2>3, FieldsOf DEF Kept, Fresh
  <2>5. <<>> \o x = x
    BY ConcatEmptySeq
  <2> QED BY <1>2, <1>3, <2>3, <2>4, <2>5
<1>5. ASSUME NEW n \in 0..(N - 1), n \in T PROVE n + 1 \in T
  <2>1. n + 1 \in 1..N /\ n + 1 \in 0..N /\ (n + 1) - 1 = n /\ n \in 0..N
    BY <1>2
  <2>2. PICK c \in Cuts : c = f[n]
    BY <1>1, <2>1
  <2>3. f[n + 1] = CutOff(c)
    BY <1>3, <2>1, <2>2
  <2> QED BY <1>5, <2>1, <2>2, <2>3, CutOffKeeps
<1> HIDE DEF T
<1>6. N \in T
  <2>1. 0..N \subseteq T
    BY <1>2, <1>4, <1>5, InductionUpTo
  <2> QED BY <1>2, <2>1
<1> QED BY <1>1, <1>6 DEF T, IsLoop


-----------------------------------------------------------------------------
(* Nothing is lost *)

WrittenFirst(events, k, redact) ==
  FlattenSeq([i \in 1..k |-> Emitted(events[i], redact[i])])

(* w is what is written, rest what stays. *)
Splits(events, k, w, rest) ==
  /\ w \in Seq(Chars) /\ rest \in Seq(Text)
  /\ Fields(FlattenSeq(events)) = Fields(w) \o Fields(FlattenSeq(rest))
  /\ k = Len(events) => rest = <<>>

(* The events that are written and those that stay have the fields of all. *)
LEMMA WrittenAndHeld ==
  ASSUME NEW events \in Seq(Text), NEW k \in 0..Len(events), NEW redact \in [1..k -> BOOLEAN]
  PROVE  Splits(events, k, WrittenFirst(events, k, redact), SubSeq(events, k + 1, Len(events)))
<1>0. PICK w, rest : /\ w = WrittenFirst(events, k, redact)
                     /\ rest = SubSeq(events, k + 1, Len(events))
  OBVIOUS
<1> DEFINE n == Len(events)
           head == SubSeq(events, 1, k)
           tt == [i \in 1..k |-> Emitted(events[i], redact[i])]
<1>1. n \in Nat /\ k \in Nat /\ \A i \in 1..n : events[i] \in Text
  BY LenProperties, ElementOfSeq
<1>2. /\ head \in Seq(Text) /\ Len(head) = k
      /\ \A i \in 1..k : head[i] = events[i]
  <2>1. \A i \in 1..k : events[i] \in Text
    BY <1>1
  <2> QED BY <1>1, <2>1, SubSeqProperties
<1>3. rest \in Seq(Text)
  <2>1. \A i \in (k + 1)..n : events[i] \in Text
    BY <1>1
  <2>2. k + 1 \in Int /\ n \in Int
    BY <1>1
  <2> QED BY <1>0, <2>1, <2>2, SubSeqProperties
<1>4. head \o rest = events
  <2>1. 1 \in 1..(n + 1) /\ k \in (1 - 1)..n /\ n \in k..n
    BY <1>1
  <2>2. SubSeq(events, 1, k) \o SubSeq(events, k + 1, n) = SubSeq(events, 1, n)
    BY <2>1, ConcatAdjacentSubSeq
  <2> QED BY <1>0, <2>2, SubSeqFull
<1> HIDE DEF head, n
<1>5. ASSUME NEW i \in 1..k
      PROVE  tt[i] \in Seq(Chars) /\ Fields(tt[i]) = Fields(head[i])
  <2>1. events[i] \in Text /\ redact[i] \in BOOLEAN
    BY <1>1, <1>2, ElementOfSeq
  <2> QED BY <1>2, <2>1, EmittedKeeps
<1>6. tt \in [1..k -> Seq(Chars)]
  BY <1>5
<1>7. head \in [1..k -> Seq(Chars)]
  <2>1. head \in [1..k -> Text]
    BY <1>2, LenProperties
  <2> QED BY <2>1, Subsets
<1> HIDE DEF tt
<1>8. w \in Seq(Chars) /\ Fields(w) = Fields(FlattenSeq(head))
  <2>1. w = FlattenSeq(tt)
    BY <1>0 DEF tt, WrittenFirst
  <2>2. \A i \in 1..k : Fields(tt[i]) = Fields(head[i])
    BY <1>5
  <2>3. FlattenSeq(tt) \in Seq(Chars) /\ Fields(FlattenSeq(tt)) = Fields(FlattenSeq(head))
    BY <1>1, <1>6, <1>7, <2>2, FlattenAgree
  <2> QED BY <2>1, <2>3
<1>9. PICK x \in Seq(Seq(Chars)) : x = head
  BY <1>2, Subsets, SeqMonotonic
<1>10. PICK y \in Seq(Seq(Chars)) : y = rest
  BY <1>3, Subsets, SeqMonotonic
<1>11. /\ FlattenSeq(x) \in Seq(Chars) /\ FlattenSeq(y) \in Seq(Chars)
       /\ FlattenSeq(x \o y) = FlattenSeq(x) \o FlattenSeq(y)
  BY FlattenConcat
<1>12. Fields(FlattenSeq(x) \o FlattenSeq(y)) = Fields(FlattenSeq(x)) \o Fields(FlattenSeq(y))
  <2>1. PICK a \in Seq(Chars) : a = FlattenSeq(x)
    BY <1>11
  <2>2. PICK b \in Seq(Chars) : b = FlattenSeq(y)
    BY <1>11
  <2> QED BY <2>1, <2>2, FieldsConcat
<1>13. k = n => rest = <<>>
  BY <1>0, <1>1, SubSeqEmpty DEF n
<1> QED BY <1>0, <1>3, <1>4, <1>8, <1>9, <1>10, <1>11, <1>12, <1>13 DEF n, Splits

(* c has the elements of a, then those of b. *)
Joined(a, b, c) ==
  /\ Len(c) = Len(a) + Len(b)
  /\ \A i \in 1..Len(a) : c[i] = a[i]
  /\ \A i \in 1..Len(b) : c[Len(a) + i] = b[i]

LEMMA IsJoined ==
  ASSUME NEW a \in Seq(Chars), NEW b \in Seq(Chars), NEW c \in Seq(Chars), Joined(a, b, c)
  PROVE  a \o b = c
<1>1. Len(a) \in Nat /\ Len(b) \in Nat
  BY LenProperties
<1>2. PICK d \in Seq(Chars) : d = a \o b
  BY ConcatProperties
<1>3. /\ Len(d) = Len(a) + Len(b)
      /\ \A i \in 1..(Len(a) + Len(b)) : d[i] = IF i <= Len(a) THEN a[i] ELSE b[i - Len(a)]
  BY <1>2, ConcatProperties
<1>4. ASSUME NEW i \in 1..(Len(a) + Len(b)) PROVE d[i] = c[i]
  <2>1. CASE i <= Len(a)
    BY <1>1, <1>3, <2>1 DEF Joined
  <2>2. CASE ~(i <= Len(a))
    <3>1. i - Len(a) \in 1..Len(b) /\ Len(a) + (i - Len(a)) = i
      BY <1>1, <2>2
    <3> QED BY <1>3, <2>2, <3>1 DEF Joined
  <2> QED BY <2>1, <2>2
<1>5. d = c
  BY <1>3, <1>4, SeqEqual DEF Joined
<1> QED BY <1>2, <1>5

(* The error and the end that a block appends. *)
LEMMA BlockFields ==
  BlockEvents \in Seq(Chars) /\ Fields(BlockEvents) = <<Notice, Done>>
<1> DEFINE gap == <<Lf, Lf>>
           n == <<Notice>>
           d == <<Done>>
<1>1. /\ Notice \in Chars /\ Done \in Chars /\ Lf \in Chars /\ Lf \in Breaks
      /\ Notice \notin Breaks /\ Done \notin Breaks
      /\ Original(Notice) = Notice /\ Original(Done) = Done
  <2>1. Done \in Bytes /\ Lf \in Breaks
    BY DEF Bytes, Breaks
  <2>2. Notice \notin Breaks /\ Done \notin Breaks
    BY DEF Notice, Done, Breaks, Cr, Lf
  <2> QED BY <2>1, <2>2, OriginalIs, Subsets DEF Chars
<1>2. n \in Seq(Chars) /\ d \in Seq(Chars) /\ gap \in Seq(Chars)
  BY <1>1
<1>3. Fields(gap) = <<>>
  <2>1. \A i \in 1..Len(gap) : gap[i] \in Breaks
    BY <1>1
  <2>2. Tokens(gap) = <<>>
    BY <1>2, <2>1, BlankHasNone
  <2>3. gap \in Text
    BY <1>1, Subsets DEF Text
  <2> QED BY <2>2, <2>3, FieldsOf
<1>4. Fields(n) = n /\ Fields(d) = d
  <2>1. Fields(<<Notice>>) = IF Notice \in Breaks THEN <<>> ELSE <<Original(Notice)>>
    BY <1>1, FieldsOf
  <2>2. Fields(<<Done>>) = IF Done \in Breaks THEN <<>> ELSE <<Original(Done)>>
    BY <1>1, FieldsOf
  <2> QED BY <1>1, <2>1, <2>2
<1>5. BlockEvents = (n \o gap) \o (d \o gap) /\ n \o d = <<Notice, Done>>
  <2>1. n \o gap = <<Notice, Lf, Lf>>
    <3> DEFINE c == <<Notice, Lf, Lf>>
    <3>1. n \in Seq(Chars) /\ gap \in Seq(Chars) /\ c \in Seq(Chars)
      BY <1>1
    <3>2. Len(n) = 1 /\ Len(gap) = 2 /\ Len(c) = 3
      OBVIOUS
    <3>3. c[1] = n[1]
      OBVIOUS
    <3>4. c[2] = gap[1] /\ c[3] = gap[2]
      OBVIOUS
    <3> HIDE DEF c, n, gap
    <3>5. /\ \A i \in 1..1 : c[i] = n[i]
          /\ \A i \in 1..2 : c[1 + i] = gap[i]
      BY <3>3, <3>4
    <3>6. Joined(n, gap, c)
      BY <3>2, <3>5 DEF Joined
    <3>7. n \o gap = c
      BY <3>1, <3>6, IsJoined
    <3> QED BY <3>7 DEF c
  <2>2. d \o gap = <<Done, Lf, Lf>>
    <3> DEFINE c == <<Done, Lf, Lf>>
    <3>1. d \in Seq(Chars) /\ gap \in Seq(Chars) /\ c \in Seq(Chars)
      BY <1>1
    <3>2. Len(d) = 1 /\ Len(gap) = 2 /\ Len(c) = 3
      OBVIOUS
    <3>3. c[1] = d[1]
      OBVIOUS
    <3>4. c[2] = gap[1] /\ c[3] = gap[2]
      OBVIOUS
    <3> HIDE DEF c, d, gap
    <3>5. /\ \A i \in 1..1 : c[i] = d[i]
          /\ \A i \in 1..2 : c[1 + i] = gap[i]
      BY <3>3, <3>4
    <3>6. Joined(d, gap, c)
      BY <3>2, <3>5 DEF Joined
    <3>7. d \o gap = c
      BY <3>1, <3>6, IsJoined
    <3> QED BY <3>7 DEF c
  <2>3. <<Notice, Lf, Lf>> \o <<Done, Lf, Lf>> = <<Notice, Lf, Lf, Done, Lf, Lf>>
    <3> DEFINE c == <<Notice, Lf, Lf, Done, Lf, Lf>>
           u == <<Notice, Lf, Lf>>
           v == <<Done, Lf, Lf>>
    <3>1. u \in Seq(Chars) /\ v \in Seq(Chars) /\ c \in Seq(Chars)
      BY <1>1
    <3>2. Len(u) = 3 /\ Len(v) = 3 /\ Len(c) = 6
      OBVIOUS
    <3>3. c[1] = u[1] /\ c[2] = u[2] /\ c[3] = u[3]
      OBVIOUS
    <3>4. c[4] = v[1] /\ c[5] = v[2] /\ c[6] = v[3]
      OBVIOUS
    <3> HIDE DEF c, u, v
    <3>5. /\ \A i \in 1..3 : c[i] = u[i]
          /\ \A i \in 1..3 : c[3 + i] = v[i]
      BY <3>3, <3>4
    <3>6. Joined(u, v, c)
      BY <3>2, <3>5 DEF Joined
    <3>7. u \o v = c
      BY <3>1, <3>6, IsJoined
    <3> QED BY <3>7 DEF c, u, v
  <2>4. n \o d = <<Notice, Done>>
    <3> DEFINE c == <<Notice, Done>>
    <3>1. n \in Seq(Chars) /\ d \in Seq(Chars) /\ c \in Seq(Chars)
      BY <1>1
    <3>2. Len(n) = 1 /\ Len(d) = 1 /\ Len(c) = 2
      OBVIOUS
    <3>3. c[1] = n[1]
      OBVIOUS
    <3>4. c[2] = d[1]
      OBVIOUS
    <3> HIDE DEF c, n, d
    <3>5. /\ \A i \in 1..1 : c[i] = n[i]
          /\ \A i \in 1..1 : c[1 + i] = d[i]
      BY <3>3, <3>4
    <3>6. Joined(n, d, c)
      BY <3>2, <3>5 DEF Joined
    <3>7. n \o d = c
      BY <3>1, <3>6, IsJoined
    <3> QED BY <3>7 DEF c
  <2> QED BY <2>1, <2>2, <2>3, <2>4 DEF BlockEvents
<1> HIDE DEF n, d, gap
<1>6. /\ n \o gap \in Seq(Chars) /\ d \o gap \in Seq(Chars)
  BY <1>2, ConcatProperties
<1>7. Fields(n \o gap) = n /\ Fields(d \o gap) = d
  <2>1. Fields(n \o gap) = Fields(n) \o Fields(gap) /\ Fields(d \o gap) = Fields(d) \o Fields(gap)
    BY <1>2, FieldsConcat
  <2>2. n \o <<>> = n /\ d \o <<>> = d
    BY <1>2, ConcatEmptySeq
  <2> QED BY <1>3, <1>4, <2>1, <2>2
<1>8. PICK a \in Seq(Chars) : a = n \o gap
  BY <1>6
<1>9. PICK b \in Seq(Chars) : b = d \o gap
  BY <1>6
<1>10. a \o b \in Seq(Chars) /\ Fields(a \o b) = Fields(a) \o Fields(b)
  BY FieldsConcat, ConcatProperties
<1> QED BY <1>5, <1>7, <1>8, <1>9, <1>10

(* What was written of the upstream's fields when o was written. *)
WrittenBy(o, e) == SubSeq(Fields(o), 1, Len(Fields(o)) - (IF e = "blocked" THEN 2 ELSE 0))

LEMMA WrittenByIs ==
  ASSUME NEW o \in Seq(Chars)
  PROVE  /\ WrittenBy(o, "no") = Fields(o) /\ WrittenBy(o, "finished") = Fields(o)
         /\ WrittenBy(o \o BlockEvents, "blocked") = Fields(o)
         /\ o \o BlockEvents \in Seq(Chars)
<1>1. PICK f \in Seq(Chars) : f = Fields(o)
  BY FieldsConcat
<1>2. Len(f) \in Nat /\ Len(f) - 0 = Len(f) /\ SubSeq(f, 1, Len(f)) = f
  BY LenProperties, SubSeqFull
<1>3. "no" # "blocked" /\ "finished" # "blocked"
  OBVIOUS
<1>4. PICK b \in Seq(Chars) : b = BlockEvents /\ Fields(b) = <<Notice, Done>>
  BY BlockFields
<1>5. PICK e \in Seq(Chars) : e = <<Notice, Done>> /\ Len(e) = 2
  <2>1. Fields(b) \in Seq(Chars)
    BY FieldsConcat
  <2> QED BY <1>4, <2>1
<1>6. o \o b \in Seq(Chars) /\ Fields(o \o b) = f \o e
  <2>1. o \o b \in Seq(Chars)
    BY ConcatProperties
  <2>2. Fields(o \o b) = Fields(o) \o Fields(b)
    BY FieldsConcat
  <2> QED BY <1>1, <1>4, <1>5, <2>1, <2>2
<1>7. /\ f \o e \in Seq(Chars) /\ Len(f \o e) = Len(f) + 2
      /\ \A i \in 1..(Len(f) + 2) : (f \o e)[i] = IF i <= Len(f) THEN f[i] ELSE e[i - Len(f)]
  BY <1>5, ConcatProperties
<1>8. SubSeq(f \o e, 1, Len(f)) = f
  <2>1. PICK g \in Seq(Chars) : g = f \o e
    BY <1>7
  <2>2. \A i \in 1..Len(f) : g[i] = f[i] /\ f[i] \in Chars
    BY <1>2, <1>7, <2>1, ElementOfSeq
  <2>3. /\ SubSeq(g, 1, Len(f)) \in Seq(Chars) /\ Len(SubSeq(g, 1, Len(f))) = Len(f)
        /\ \A i \in 1..Len(f) : SubSeq(g, 1, Len(f))[i] = g[i]
    BY <1>2, <2>2, SubSeqProperties
  <2>4. SubSeq(g, 1, Len(f)) = f
    BY <2>2, <2>3, SeqEqual
  <2> QED BY <2>1, <2>4
<1>9. WrittenBy(o \o b, "blocked") = f
  <2>1. Len(f \o e) - 2 = Len(f)
    BY <1>2, <1>7
  <2> QED BY <1>6, <1>8, <2>1 DEF WrittenBy
<1>10. WrittenBy(o, "no") = f /\ WrittenBy(o, "finished") = f
  BY <1>1, <1>2, <1>3 DEF WrittenBy
<1> QED BY <1>1, <1>4, <1>6, <1>9, <1>10


(* The fields of the events that were cut off are those that were written, *)
(* then those that are held.                                               *)
Accounted(events, o, e, h) ==
  Fields(FlattenSeq(events)) = WrittenBy(o, e) \o Fields(FlattenSeq(h))

Balance ==
  /\ parsed \in Seq(Text)
  /\ held \in Seq(Text)
  /\ out \in Seq(Chars)
  /\ buffer \in {<<>>, Consume(Received).rest}
  /\ ended \in {"no", "finished", "blocked"}
  /\ ended = "finished" => held = <<>>
  /\ Accounted(parsed, out, ended, held)

LEMMA BalanceNext ==
  ASSUME parsed' \in Seq(Text), held' \in Seq(Text), out' \in Seq(Chars),
         buffer' = <<>> \/ buffer' = (Consume(Received).rest)',
         ended' = "finished" \/ ended' = "blocked" \/ ended' = "no",
         ended' = "finished" => held' = <<>>,
         Accounted(parsed', out', ended', held')
  PROVE  Balance'
<1>1. Accounted(parsed, out, ended, held)'
  BY DEF Accounted
<1> QED BY <1>1 DEF Balance

LEMMA InitBalance == Init => Balance
<1> SUFFICES ASSUME Init PROVE Balance
  OBVIOUS
<1>1. /\ received = 0 /\ buffer = <<>> /\ parsed = <<>> /\ held = <<>> /\ out = <<>> /\ ended = "no"
  BY DEF Init
<1>2. <<>> \in Seq(Text) /\ <<>> \in Seq(Chars)
  OBVIOUS
<1>3. FlattenSeq(<<>>) = <<>> /\ Fields(<<>>) = <<>>
  BY <1>2, FlattenOne, FieldsOf
<1>4. WrittenBy(<<>>, "no") = <<>>
  BY <1>2, <1>3, WrittenByIs
<1>5. <<>> \o <<>> = <<>>
  BY <1>2, ConcatEmptySeq
<1> QED BY <1>1, <1>2, <1>3, <1>4, <1>5 DEF Balance, Accounted

(* Of all the events some are written, and the rest stays. *)
LEMMA FlushBalance ==
  ASSUME NEW all \in Seq(Text), NEW k \in 0..Len(all), out \in Seq(Chars), Flush(all, k),
         NEW cut, Fields(cut) = Fields(out) \o Fields(FlattenSeq(all))
  PROVE  /\ out' \in Seq(Chars) /\ held' \in Seq(Text)
         /\ Fields(cut) = Fields(out') \o Fields(FlattenSeq(held'))
         /\ k = Len(all) => held' = <<>>
<1>1. PICK redact \in [1..k -> BOOLEAN] :
        out' = out \o FlattenSeq([i \in 1..k |-> Emitted(all[i], redact[i])])
  BY DEF Flush
<1>2. PICK w : w = WrittenFirst(all, k, redact)
  OBVIOUS
<1>3. PICK rest : rest = SubSeq(all, k + 1, Len(all))
  OBVIOUS
<1>4. out' = out \o w /\ held' = rest
  BY <1>1, <1>2, <1>3 DEF Flush, WrittenFirst
<1>5. /\ w \in Seq(Chars) /\ rest \in Seq(Text)
      /\ Fields(FlattenSeq(all)) = Fields(w) \o Fields(FlattenSeq(rest))
      /\ k = Len(all) => rest = <<>>
  BY <1>2, <1>3, WrittenAndHeld DEF Splits
<1>6. PICK o \in Seq(Chars) : o = out
  OBVIOUS
<1>7. o \o w \in Seq(Chars) /\ Fields(o \o w) = Fields(o) \o Fields(w)
  <2>1. PICK v \in Seq(Chars) : v = w
    BY <1>5
  <2> QED BY <2>1, ConcatProperties, FieldsConcat
<1>8. PICK r \in Seq(Seq(Chars)) : r = rest
  BY <1>5, Subsets, SeqMonotonic
<1>9. Fields(FlattenSeq(r)) \in Seq(Chars)
  <2>1. PICK x \in Seq(Chars) : x = FlattenSeq(r)
    BY FlattenConcat
  <2> QED BY <2>1, FieldsConcat
<1>10. Fields(o) \o (Fields(w) \o Fields(FlattenSeq(r)))
         = (Fields(o) \o Fields(w)) \o Fields(FlattenSeq(r))
  <2>1. Fields(o) \in Seq(Chars) /\ Fields(w) \in Seq(Chars)
    BY <1>5, FieldsConcat
  <2>2. Associates(Fields(o), Fields(w), Fields(FlattenSeq(r)))
    BY <1>9, <2>1, CharsAssociate
  <2> QED BY <2>2 DEF Associates
<1> QED BY <1>4, <1>5, <1>6, <1>7, <1>8, <1>10

LEMMA FinishBalance ==
  ASSUME Balance, Finish
  PROVE  Balance'
<1>1. /\ ended = "no" /\ buffer' = <<>> /\ parsed' = parsed
      /\ \/ Flush(held, Len(held)) /\ ended' = "finished"
         \/ Blocked(held)
  BY DEF Finish
<1>2. /\ parsed \in Seq(Text) /\ held \in Seq(Text) /\ out \in Seq(Chars) /\ Len(held) \in Nat
      /\ Fields(FlattenSeq(parsed)) = Fields(out) \o Fields(FlattenSeq(held))
  BY <1>1, WrittenByIs, LenProperties DEF Balance, Accounted
<1>3. CASE Flush(held, Len(held)) /\ ended' = "finished"
  <2>1. PICK all \in Seq(Text) : all = held
    BY <1>2
  <2>2. PICK k \in 0..Len(all) : k = Len(all)
    BY <1>2, <2>1
  <2>3. Flush(all, k)
    BY <1>3, <2>1, <2>2
  <2>4. /\ out' \in Seq(Chars) /\ held' \in Seq(Text)
        /\ Fields(FlattenSeq(parsed)) = Fields(out') \o Fields(FlattenSeq(held'))
        /\ held' = <<>>
    BY <1>2, <2>1, <2>2, <2>3, FlushBalance
  <2>5. WrittenBy(out', ended') = Fields(out')
    BY <1>3, <2>4, WrittenByIs
  <2>6. Accounted(parsed', out', ended', held')
    BY <1>1, <2>4, <2>5 DEF Accounted
  <2> QED BY <1>1, <1>2, <1>3, <2>4, <2>6, BalanceNext
<1>4. CASE Blocked(held)
  <2>1. out' = out \o BlockEvents /\ held' = held /\ ended' = "blocked"
    BY <1>4 DEF Blocked
  <2>2. out' \in Seq(Chars) /\ WrittenBy(out', ended') = Fields(out)
    BY <1>2, <2>1, WrittenByIs
  <2>3. Accounted(parsed', out', ended', held')
    BY <1>1, <1>2, <2>1, <2>2 DEF Accounted
  <2> QED BY <1>1, <1>2, <2>1, <2>2, <2>3, BalanceNext
<1> QED BY <1>1, <1>3, <1>4

LEMMA InspectBalance ==
  ASSUME IInv, Balance, NEW n \in 1..Len(stream), Inspect(n)
  PROVE  Balance'
<1>1. PICK cut : cut = Consume(buffer \o SubSeq(stream, received + 1, received + n))
  OBVIOUS
<1> DEFINE all == held \o cut.events
<1>2. /\ ended = "no" /\ buffer' = cut.rest /\ parsed' = parsed \o cut.events
      /\ \/ \E k \in 0..Len(all) : Flush(all, k) /\ ended' = ended
         \/ Blocked(all)
  BY <1>1 DEF Inspect
<1>3. Consume(Received') = [events |-> parsed', rest |-> buffer']
  BY InspectIInv
<1>4. cut \in Cuts
  <2>1. buffer \o SubSeq(stream, received + 1, received + n) \in Text
    <3>1. stream \in Text /\ received \in 0..Len(stream) /\ received + n <= Len(stream)
      BY DEF IInv, Inspect
    <3>2. SubSeq(stream, received + 1, received + n) \in Text /\ Received \in Text
      <4>1. n \in Nat
        BY <3>1, LenProperties DEF Text
      <4> QED BY <3>1, <4>1, NextChunk DEF Received
    <3>3. buffer \in Text
      BY <1>2, <3>2, ConsumeType DEF IInv, ChunkingIrrelevant, Cuts
    <3> QED BY <3>2, <3>3, ConcatProperties DEF Text
  <2> QED BY <1>1, <2>1, ConsumeType
<1>5. /\ parsed \in Seq(Text) /\ held \in Seq(Text) /\ out \in Seq(Chars)
      /\ Fields(FlattenSeq(parsed)) = Fields(out) \o Fields(FlattenSeq(held))
  BY <1>2, WrittenByIs DEF Balance, Accounted
<1>6. PICK e \in Seq(Text) : e = cut.events
  BY <1>4 DEF Cuts
<1>7. PICK p \in Seq(Text) : p = parsed
  BY <1>5
<1>8. PICK h \in Seq(Text) : h = held
  BY <1>5
<1>9. PICK o \in Seq(Chars) : o = out
  BY <1>5
<1>10. p \o e \in Seq(Text) /\ h \o e \in Seq(Text) /\ parsed' = p \o e /\ all = h \o e
  BY <1>2, <1>6, <1>7, <1>8, ConcatProperties
<1>11. Fields(FlattenSeq(p \o e)) = Fields(o) \o Fields(FlattenSeq(h \o e))
  <2>1. \A x \in Seq(Text) : x \in Seq(Seq(Chars))
    BY Subsets, SeqMonotonic
  <2>2. \A x, y \in Seq(Text) :
          /\ Fields(FlattenSeq(x)) \in Seq(Chars)
          /\ Fields(FlattenSeq(x \o y)) = Fields(FlattenSeq(x)) \o Fields(FlattenSeq(y))
    <3> SUFFICES ASSUME NEW x \in Seq(Text), NEW y \in Seq(Text)
                 PROVE  /\ Fields(FlattenSeq(x)) \in Seq(Chars)
                        /\ Fields(FlattenSeq(x \o y)) = Fields(FlattenSeq(x)) \o Fields(FlattenSeq(y))
      OBVIOUS
    <3>1. /\ FlattenSeq(x) \in Seq(Chars) /\ FlattenSeq(y) \in Seq(Chars)
          /\ FlattenSeq(x \o y) = FlattenSeq(x) \o FlattenSeq(y)
      BY <2>1, FlattenConcat
    <3>2. PICK a \in Seq(Chars) : a = FlattenSeq(x)
      BY <3>1
    <3>3. PICK b \in Seq(Chars) : b = FlattenSeq(y)
      BY <3>1
    <3>4. Fields(a) \in Seq(Chars) /\ Fields(a \o b) = Fields(a) \o Fields(b)
      BY FieldsConcat
    <3> QED BY <3>1, <3>2, <3>3, <3>4
  <2>3. /\ Fields(FlattenSeq(p \o e)) = Fields(FlattenSeq(p)) \o Fields(FlattenSeq(e))
        /\ Fields(FlattenSeq(h \o e)) = Fields(FlattenSeq(h)) \o Fields(FlattenSeq(e))
        /\ Fields(FlattenSeq(h)) \in Seq(Chars) /\ Fields(FlattenSeq(e)) \in Seq(Chars)
    BY <2>2
  <2>4. Fields(FlattenSeq(p)) = Fields(o) \o Fields(FlattenSeq(h)) /\ Fields(o) \in Seq(Chars)
    BY <1>5, <1>7, <1>8, <1>9, FieldsConcat
  <2>5. (Fields(o) \o Fields(FlattenSeq(h))) \o Fields(FlattenSeq(e))
          = Fields(o) \o (Fields(FlattenSeq(h)) \o Fields(FlattenSeq(e)))
    <3>1. Associates(Fields(o), Fields(FlattenSeq(h)), Fields(FlattenSeq(e)))
      BY <2>3, <2>4, CharsAssociate
    <3> QED BY <3>1 DEF Associates
  <2> QED BY <2>3, <2>4, <2>5
<1>12. PICK q \in Seq(Text) : q = h \o e
  BY <1>10
<1>13. PICK flat : flat = FlattenSeq(p \o e)
  OBVIOUS
<1>14. Consume(Received)' = Consume(Received')
  BY DEF Consume, CutOff, Boundary, Find, IsBlank
<1>15. buffer' = (Consume(Received).rest)'
  BY <1>3, <1>14
<1> HIDE DEF all
<1>16. CASE \E k \in 0..Len(all) : Flush(all, k) /\ ended' = ended
  <2>1. PICK k \in 0..Len(q) : Flush(q, k) /\ ended' = ended
    BY <1>10, <1>12, <1>16
  <2>2. Fields(flat) = Fields(out) \o Fields(FlattenSeq(q))
    BY <1>9, <1>11, <1>12, <1>13
  <2>3. /\ out' \in Seq(Chars) /\ held' \in Seq(Text)
        /\ Fields(flat) = Fields(out') \o Fields(FlattenSeq(held'))
    BY <1>5, <2>1, <2>2, FlushBalance
  <2>4. ended' = "no" /\ WrittenBy(out', ended') = Fields(out')
    BY <1>2, <2>1, <2>3, WrittenByIs
  <2>5. Accounted(parsed', out', ended', held')
    BY <1>10, <1>13, <2>3, <2>4 DEF Accounted
  <2> QED BY <1>10, <1>15, <2>3, <2>4, <2>5, BalanceNext
<1>17. CASE Blocked(all)
  <2>1. out' = out \o BlockEvents /\ held' = q /\ ended' = "blocked"
    BY <1>10, <1>12, <1>17 DEF Blocked
  <2>2. out' \in Seq(Chars) /\ WrittenBy(out', ended') = Fields(out)
    BY <1>5, <2>1, WrittenByIs
  <2>3. Accounted(parsed', out', ended', held')
    BY <1>9, <1>10, <1>11, <1>12, <2>1, <2>2 DEF Accounted
  <2> QED BY <1>10, <1>12, <1>15, <2>1, <2>2, <2>3, BalanceNext
<1> QED BY <1>2, <1>16, <1>17

LEMMA NextBalance == IInv /\ Balance /\ [Next]_vars => Balance'
<1> SUFFICES ASSUME IInv, Balance, [Next]_vars PROVE Balance'
  OBVIOUS
<1>1. CASE UNCHANGED vars
  BY <1>1 DEF vars, Balance, Received
<1> QED BY <1>1, FinishBalance, InspectBalance DEF Next

LEMMA BalanceConserves == IInv /\ Balance => FieldsConserved
<1> SUFFICES ASSUME IInv, Balance PROVE FieldsConserved
  OBVIOUS
<1>1. Received \in Text
  <2>1. stream \in Text /\ received \in 0..Len(stream) /\ Len(stream) \in Nat
    BY LenProperties DEF IInv, Text
  <2>2. \A k \in 1..received : stream[k] \in Bytes
    BY <2>1, ElementOfSeq DEF Text
  <2> QED BY <2>1, <2>2, SubSeqProperties DEF Received, Text
<1>2. PICK r \in Text : r = Received
  BY <1>1
<1>3. PICK c \in Cuts : c = Consume(r)
  BY ConsumeType
<1>4. parsed = c.events /\ (ended = "no" => buffer = c.rest) /\ buffer \in {<<>>, c.rest}
  BY <1>2, <1>3 DEF IInv, ChunkingIrrelevant, Balance
<1>5. PICK rest \in Text : rest = c.rest
  BY DEF Cuts
<1>6. Tokens(r) = Fields(FlattenSeq(parsed)) \o Fields(rest)
  BY <1>3, <1>4, <1>5, ConsumeKeeps, FieldsOf DEF Kept
<1>7. \A x \in Seq(Text) :
        /\ FlattenSeq(x) \in Text /\ Tokens(FlattenSeq(x)) = Fields(FlattenSeq(x))
        /\ Fields(FlattenSeq(x)) \in Seq(Chars)
  <2> SUFFICES ASSUME NEW x \in Seq(Text)
               PROVE  /\ FlattenSeq(x) \in Text /\ Tokens(FlattenSeq(x)) = Fields(FlattenSeq(x))
                      /\ Fields(FlattenSeq(x)) \in Seq(Chars)
    OBVIOUS
  <2>1. FlattenSeq(x) \in Text
    BY FlattenConcat DEF Text
  <2> QED BY <2>1, FieldsOf, FieldsConcat, Subsets
<1>8. PICK p \in Seq(Chars) : p = Tokens(FlattenSeq(parsed)) /\ p = Fields(FlattenSeq(parsed))
  BY <1>7 DEF Balance
<1>9. PICK t \in Seq(Chars) : t = Tokens(rest) /\ t = Fields(rest)
  BY FieldsOf, FieldsConcat, Subsets
<1>10. PICK b \in Seq(Chars) : b = Tokens(buffer) /\ b \in {<<>>, t} /\ (ended = "no" => b = t)
  <2>1. Tokens(<<>>) = <<>> /\ <<>> \in Seq(Chars)
    BY TokensOf
  <2> QED BY <1>4, <1>5, <1>9, <2>1
<1>11. p = Written \o Tokens(FlattenSeq(held))
  BY <1>7, <1>8 DEF Balance, Accounted, Written, WrittenBy, Fields
<1> DEFINE kept == Written \o Tokens(FlattenSeq(held)) \o Tokens(buffer)
<1>12. kept = p \o b /\ Tokens(Received) = p \o t
  BY <1>2, <1>6, <1>8, <1>9, <1>10, <1>11
<1>13. ASSUME NEW x \in Seq(Chars), NEW y \in Seq(Chars) PROVE IsPrefix(x, x \o y)
  <2>1. PICK z \in Seq(Chars) : z = x \o y
    BY ConcatProperties
  <2>2. /\ Len(z) = Len(x) + Len(y) /\ Len(x) \in Nat /\ Len(y) \in Nat
        /\ \A i \in 1..Len(x) : z[i] = x[i] /\ x[i] \in Chars
    BY <2>1, ConcatProperties, LenProperties, ElementOfSeq
  <2>3. /\ SubSeq(z, 1, Len(x)) \in Seq(Chars) /\ Len(SubSeq(z, 1, Len(x))) = Len(x)
        /\ \A i \in 1..Len(x) : SubSeq(z, 1, Len(x))[i] = z[i]
    BY <2>2, SubSeqProperties
  <2>4. SubSeq(z, 1, Len(x)) = x /\ SubSeq(x, 1, Len(x)) = x
    BY <2>2, <2>3, SeqEqual, SubSeqFull
  <2> QED BY <2>1, <2>2, <2>4 DEF IsPrefix
<1>14. IsPrefix(p, kept)
  BY <1>12, <1>13
<1>15. IsPrefix(kept, Tokens(Received))
  <2>1. CASE b = <<>>
    <3>1. p \o <<>> = p
      BY ConcatEmptySeq
    <3> QED BY <1>12, <1>13, <2>1, <3>1
  <2>2. CASE b = t
    <3>1. PICK w \in Seq(Chars) : w = p \o t
      BY ConcatProperties
    <3>2. w \o <<>> = w /\ <<>> \in Seq(Chars)
      BY ConcatEmptySeq
    <3>3. IsPrefix(w, w)
      BY <1>13, <3>2
    <3> QED BY <1>12, <2>2, <3>1, <3>3
  <2> QED BY <1>10, <2>1, <2>2
<1>16. ended = "no" => kept = Tokens(Received)
  BY <1>10, <1>12
<1>17. ended = "finished" => held = <<>>
  BY DEF Balance
<1> QED BY <1>8, <1>14, <1>15, <1>16, <1>17 DEF FieldsConserved

(* No field that the upstream sent is lost, repeated or moved between what *)
(* was written, what is held and what is incomplete, into whatever chunks  *)
(* the stream is cut, whatever is flushed, and whatever is rewritten.      *)
THEOREM FieldsKept == Spec => []FieldsConserved
<1>1. Init => IInv /\ Balance
  BY InitIInv, InitBalance
<1>2. IInv /\ Balance /\ [Next]_vars => IInv' /\ Balance'
  BY NextIInv, NextBalance
<1> QED BY <1>1, <1>2, BalanceConserves, PTL DEF Spec

-----------------------------------------------------------------------------
(* Lines, and the data in them, on both sides of a line break *)

(* A stretch of s stands in t, d further on. *)
Stands(s, t, i, j, d) ==
  /\ i \in 1..Len(s) /\ j \in i..Len(s)
  /\ d \in Int /\ i + d >= 1 /\ j + d <= Len(t)
  /\ \A k \in i..j : s[k] = t[k + d]

Alike(s, t, i, j, d) == SubSeq(s, i, j) = SubSeq(t, i + d, j + d)

LEMMA SameStretch ==
  ASSUME NEW s \in Text, NEW t \in Text, NEW i, NEW j, NEW d, Stands(s, t, i, j, d)
  PROVE  Alike(s, t, i, j, d)
<1>1. /\ Len(s) \in Nat /\ Len(t) \in Nat /\ i \in Int /\ j \in Int /\ d \in Int
      /\ i <= j /\ 1 <= i /\ j <= Len(s) /\ i + d >= 1 /\ j + d <= Len(t)
  BY LenProperties DEF Text, Stands
<1>2. /\ \A k \in i..j : s[k] \in Bytes
      /\ \A k \in (i + d)..(j + d) : t[k] \in Bytes
  <2>1. /\ \A k \in 1..Len(s) : s[k] \in Bytes
        /\ \A k \in 1..Len(t) : t[k] \in Bytes
    BY ElementOfSeq DEF Text
  <2> QED BY <1>1, <2>1
<1>3. PICK p \in Int : p = i + d
  BY <1>1
<1>4. PICK q \in Int : q = j + d
  BY <1>1
<1>5. /\ SubSeq(s, i, j) \in Text /\ Len(SubSeq(s, i, j)) = j - i + 1
      /\ \A k \in 1..(j - i + 1) : SubSeq(s, i, j)[k] = s[i + k - 1]
  BY <1>1, <1>2, SubSeqProperties DEF Text
<1>6. /\ SubSeq(t, p, q) \in Text /\ Len(SubSeq(t, p, q)) = q - p + 1
      /\ \A k \in 1..(q - p + 1) : SubSeq(t, p, q)[k] = t[p + k - 1]
  BY <1>1, <1>2, <1>3, <1>4, SubSeqProperties DEF Text
<1>7. q - p + 1 = j - i + 1
  BY <1>1, <1>3, <1>4
<1>8. ASSUME NEW k \in 1..(j - i + 1) PROVE SubSeq(s, i, j)[k] = SubSeq(t, p, q)[k]
  <2>1. i + k - 1 \in i..j /\ (i + k - 1) + d = p + k - 1
    BY <1>1, <1>3
  <2>2. s[i + k - 1] = t[(i + k - 1) + d]
    BY <2>1 DEF Stands
  <2> QED BY <1>5, <1>6, <1>7, <2>1, <2>2
<1>9. SubSeq(s, i, j) = SubSeq(t, p, q)
  <2>1. PICK x \in Text : x = SubSeq(s, i, j)
    BY <1>5
  <2>2. PICK y \in Text : y = SubSeq(t, p, q)
    BY <1>6
  <2>3. Len(x) = Len(y) /\ \A k \in 1..Len(x) : x[k] = y[k]
    BY <1>5, <1>6, <1>7, <1>8, <2>1, <2>2
  <2> QED BY <2>1, <2>2, <2>3, SeqEqual DEF Text
<1> QED BY <1>3, <1>4, <1>9 DEF Alike

(* A line that stands in another text is a line there. *)
LEMMA SameLine ==
  ASSUME NEW s \in Text, NEW t \in Text, NEW i \in 1..Len(s), NEW j \in i..Len(s), NEW d,
         Stands(s, t, i, j, d), Begins(s, i), IsEnd(s, i, j), Begins(t, i + d),
         j + d = Len(t) \/ t[(j + d) + 1] \in Breaks
  PROVE  LinesAt(t)[i + d] = LinesAt(s)[i]
<1>1. /\ Len(s) \in Nat /\ Len(t) \in Nat /\ i \in Int /\ j \in Int /\ d \in Int
      /\ i <= j /\ 1 <= i /\ j <= Len(s) /\ i + d >= 1 /\ j + d <= Len(t)
  BY LenProperties DEF Text, Stands
<1>2. i + d \in 1..Len(t) /\ j + d \in (i + d)..Len(t)
  BY <1>1
<1>3. IsEnd(t, i + d, j + d)
  <2>1. ASSUME NEW k \in (i + d)..(j + d) PROVE t[k] \notin Breaks
    <3>1. k - d \in i..j /\ (k - d) + d = k
      BY <1>1
    <3> QED BY <3>1 DEF Stands, IsEnd
  <2> QED BY <2>1 DEF IsEnd
<1>4. PICK e \in (i + d)..Len(t) : IsEnd(t, i + d, e) /\ LinesAt(t)[i + d] = <<SubSeq(t, i + d, e)>>
  BY <1>2, LinesAtIs
<1>5. e = j + d
  BY <1>2, <1>3, <1>4, LineEnds DEF Begins
<1>6. PICK m \in i..Len(s) : IsEnd(s, i, m) /\ LinesAt(s)[i] = <<SubSeq(s, i, m)>>
  BY LinesAtIs
<1>7. m = j
  BY <1>6, LineEnds DEF Begins
<1>8. Alike(s, t, i, j, d)
  BY SameStretch
<1> QED BY <1>4, <1>5, <1>6, <1>7, <1>8 DEF Alike

(* u is a, a line break, and b. *)
Broken(u, a, b) ==
  /\ Len(u) = Len(a) + 1 + Len(b)
  /\ \A i \in 1..Len(a) : u[i] = a[i]
  /\ u[Len(a) + 1] \in Breaks
  /\ \A i \in 1..Len(b) : u[i + (Len(a) + 1)] = b[i]

(* No line goes on across a break. *)
LEMMA LinesBroken ==
  ASSUME NEW u \in Text, NEW a \in Text, NEW b \in Text, Broken(u, a, b)
  PROVE  Lines(u) = Lines(a) \o Lines(b)
<1> DEFINE L == Text \ {<<>>}
           n == Len(a)
           m == Len(b)
           c == n + 1
<1>1. n \in Nat /\ m \in Nat /\ c = n + 1 /\ Len(u) = c + m /\ Len(u) \in Nat
  BY LenProperties DEF Text, Broken
<1>2. /\ Lines(u) = FlattenSeq(LinesAt(u)) /\ LinesAt(u) \in [1..Len(u) -> Seq(L)]
      /\ Lines(a) = FlattenSeq(LinesAt(a)) /\ LinesAt(a) \in [1..n -> Seq(L)]
      /\ Lines(b) = FlattenSeq(LinesAt(b)) /\ LinesAt(b) \in [1..m -> Seq(L)]
  BY LinesAtIs
<1>3. ASSUME NEW i \in 1..n PROVE LinesAt(u)[i] = LinesAt(a)[i]
  <2>1. i \in 1..Len(u) /\ u[i] = a[i] /\ (i # 1 => i - 1 \in 1..n) /\ i + 0 = i
    BY <1>1 DEF Broken
  <2>2. Begins(u, i) <=> Begins(a, i)
    BY <2>1 DEF Begins, Broken
  <2>3. CASE ~Begins(a, i)
    BY <2>1, <2>2, <2>3, LinesAtIs
  <2>4. CASE Begins(a, i)
    <3>1. PICK j \in i..n : IsEnd(a, i, j)
      BY <2>4, LineEnds DEF Begins
    <3>2. j \in 1..n /\ j + 0 = j /\ j <= Len(u) /\ i \in Int /\ i >= 1 /\ \A k \in i..j : k \in 1..n /\ k + 0 = k
      BY <1>1
    <3>3. Stands(a, u, i, j, 0)
      BY <3>1, <3>2, <2>1 DEF Stands, Broken
    <3>4. u[(j + 0) + 1] \in Breaks
      <4>1. CASE j = n
        BY <3>2, <4>1 DEF Broken
      <4>2. CASE j # n
        <5>1. j + 1 \in 1..n /\ a[j + 1] \in Breaks
          BY <1>1, <3>1, <3>2, <4>2 DEF IsEnd
        <5>2. u[j + 1] = a[j + 1]
          BY <5>1 DEF Broken
        <5> QED BY <3>2, <5>1, <5>2
      <4> QED BY <4>1, <4>2
    <3>5. Begins(u, i + 0)
      BY <2>1, <2>2, <2>4
    <3>6. LinesAt(u)[i + 0] = LinesAt(a)[i]
      BY <2>4, <3>1, <3>3, <3>4, <3>5, SameLine
    <3> QED BY <2>1, <3>6
  <2> QED BY <2>3, <2>4
<1>4. LinesAt(u)[c] = <<>>
  <2>1. c \in 1..Len(u) /\ ~Begins(u, c)
    BY <1>1 DEF Broken, Begins
  <2> QED BY <2>1, LinesAtIs
<1>5. ASSUME NEW i \in 1..m PROVE LinesAt(u)[i + c] = LinesAt(b)[i]
  <2>1. /\ i + c \in 1..Len(u) /\ u[i + c] = b[i] /\ i + c # 1 /\ i \in Int
        /\ (i # 1 => i - 1 \in 1..m /\ (i + c) - 1 = (i - 1) + c)
        /\ (i = 1 => (i + c) - 1 = c)
    BY <1>1 DEF Broken
  <2>2. Begins(u, i + c) <=> Begins(b, i)
    <3>1. CASE i = 1
      <4>1. u[(i + c) - 1] \in Breaks
        BY <2>1, <3>1 DEF Broken
      <4> QED BY <2>1, <3>1, <4>1 DEF Begins
    <3>2. CASE i # 1
      <4>1. u[(i + c) - 1] = b[i - 1]
        BY <2>1, <3>2 DEF Broken
      <4> QED BY <2>1, <3>2, <4>1 DEF Begins
    <3> QED BY <3>1, <3>2
  <2>3. CASE ~Begins(b, i)
    BY <2>1, <2>2, <2>3, LinesAtIs
  <2>4. CASE Begins(b, i)
    <3>1. PICK j \in i..m : IsEnd(b, i, j)
      BY <2>4, LineEnds DEF Begins
    <3>2. j \in 1..m /\ j + c <= Len(u) /\ i + c >= 1 /\ c \in Int /\ \A k \in i..j : k \in 1..m
      BY <1>1
    <3>3. Stands(b, u, i, j, c)
      BY <3>1, <3>2, <2>1 DEF Stands, Broken
    <3>4. j + c = Len(u) \/ u[(j + c) + 1] \in Breaks
      <4>1. CASE j = m
        BY <1>1, <4>1
      <4>2. CASE j # m
        <5>1. j + 1 \in 1..m /\ b[j + 1] \in Breaks /\ (j + c) + 1 = (j + 1) + c
          BY <1>1, <3>1, <3>2, <4>2 DEF IsEnd
        <5>2. u[(j + 1) + c] = b[j + 1]
          BY <5>1 DEF Broken
        <5> QED BY <5>1, <5>2
      <4> QED BY <4>1, <4>2
    <3>5. LinesAt(u)[i + c] = LinesAt(b)[i]
      BY <2>1, <2>2, <2>4, <3>1, <3>3, <3>4, SameLine, ZenonT(60)
    <3> QED BY <3>5
  <2> QED BY <2>3, <2>4
<1> HIDE DEF L, n, m, c
<1>6. PICK x \in Seq(Seq(L)) : x = LinesAt(a) /\ Len(x) = n
  <2>1. PICK y \in [1..n -> Seq(L)] : y = LinesAt(a)
    BY <1>2
  <2> QED BY <1>1, <2>1, IsASeq, LenProperties
<1>7. PICK y \in Seq(Seq(L)) : y = LinesAt(b) /\ Len(y) = m
  <2>1. PICK z \in [1..m -> Seq(L)] : z = LinesAt(b)
    BY <1>2
  <2> QED BY <1>1, <2>1, IsASeq, LenProperties
<1>8. PICK z \in Seq(Seq(L)) : z = LinesAt(u) /\ Len(z) = Len(u)
  <2>1. PICK N \in Nat : N = Len(u)
    BY <1>1
  <2>2. PICK w \in [1..N -> Seq(L)] : w = LinesAt(u)
    BY <1>2, <2>1
  <2>3. w \in Seq(Seq(L)) /\ Len(w) = N
    BY IsASeq, LenProperties
  <2> QED BY <2>1, <2>2, <2>3
<1>9. PICK e \in Seq(Seq(L)) : e = <<<<>>>> /\ Len(e) = 1 /\ e[1] = <<>>
  <2>1. <<>> \in Seq(L)
    OBVIOUS
  <2>2. PICK none \in Seq(L) : none = <<>>
    BY <2>1
  <2>3. <<none>> \in Seq(Seq(L)) /\ Len(<<none>>) = 1 /\ <<none>>[1] = none
    OBVIOUS
  <2> QED BY <2>2, <2>3
<1>10. PICK v \in Seq(Seq(L)) : /\ v = x \o e /\ Len(v) = c
                                /\ \A i \in 1..c : v[i] = IF i <= n THEN x[i] ELSE <<>>
  <2>1. /\ x \o e \in Seq(Seq(L)) /\ Len(x \o e) = Len(x) + Len(e)
        /\ \A i \in 1..(Len(x) + Len(e)) : (x \o e)[i] = IF i <= Len(x) THEN x[i] ELSE e[i - Len(x)]
    BY ConcatProperties
  <2>2. \A i \in 1..c : i <= n \/ i - n = 1
    BY <1>1
  <2>3. Len(x) + Len(e) = c
    BY <1>1, <1>6, <1>9
  <2>4. PICK v \in Seq(Seq(L)) : v = x \o e
    BY <2>1
  <2>5. ASSUME NEW i \in 1..c PROVE v[i] = IF i <= n THEN x[i] ELSE <<>>
    <3>1. v[i] = IF i <= n THEN x[i] ELSE e[i - n]
      BY <1>6, <2>1, <2>3, <2>4
    <3> QED BY <1>9, <2>2, <3>1
  <2>6. Len(v) = c
    BY <2>1, <2>3, <2>4
  <2> QED BY <2>4, <2>5, <2>6
<1>11. PICK w \in Seq(Seq(L)) : /\ w = v \o y /\ Len(w) = Len(u)
                                /\ \A i \in 1..Len(u) : w[i] = IF i <= c THEN v[i] ELSE y[i - c]
  <2>1. /\ v \o y \in Seq(Seq(L)) /\ Len(v \o y) = Len(v) + Len(y)
        /\ \A i \in 1..(Len(v) + Len(y)) : (v \o y)[i] = IF i <= Len(v) THEN v[i] ELSE y[i - Len(v)]
    BY ConcatProperties
  <2>2. Len(v) + Len(y) = Len(u)
    BY <1>1, <1>7, <1>10
  <2> QED BY <1>7, <1>10, <2>1, <2>2, ZenonT(60)
<1>12. ASSUME NEW i \in 1..Len(u) PROVE z[i] = w[i]
  <2>1. CASE i <= n
    <3>1. i \in 1..n /\ i <= c /\ i \in 1..c
      BY <1>1, <2>1
    <3> QED BY <1>3, <1>6, <1>8, <1>10, <1>11, <2>1, <3>1
  <2>2. CASE i = c
    <3>1. ~(i <= n) /\ i <= c /\ i \in 1..c
      BY <1>1, <2>2
    <3> QED BY <1>4, <1>8, <1>10, <1>11, <2>2, <3>1
  <2>3. CASE i > c
    <3>1. i - c \in 1..m /\ (i - c) + c = i /\ ~(i <= c)
      BY <1>1, <2>3
    <3>2. LinesAt(u)[(i - c) + c] = LinesAt(b)[i - c]
      BY <1>5, <3>1
    <3> QED BY <1>7, <1>8, <1>11, <3>1, <3>2
  <2>4. i <= n \/ i = c \/ i > c
    BY <1>1
  <2> QED BY <2>1, <2>2, <2>3, <2>4
<1>13. z = w
  <2>1. Len(z) = Len(w) /\ \A i \in 1..Len(z) : z[i] = w[i]
    BY <1>8, <1>11, <1>12
  <2> QED BY <2>1, SeqEqual
<1>14. FlattenSeq(w) = FlattenSeq(v) \o FlattenSeq(y)
  BY <1>11, FlattenConcat
<1>15. FlattenSeq(v) = FlattenSeq(x) \o FlattenSeq(e) /\ FlattenSeq(x) \in Seq(L)
  BY <1>10, FlattenConcat
<1>16. FlattenSeq(e) = <<>>
  <2>1. <<>> \in Seq(L)
    OBVIOUS
  <2> QED BY <1>9, <2>1, FlattenOne
<1>17. FlattenSeq(v) = FlattenSeq(x)
  BY <1>15, <1>16, ConcatEmptySeq
<1> QED BY <1>2, <1>6, <1>7, <1>8, <1>13, <1>14, <1>17

(* The data fields of a line. *)
DataOf == [l \in Text \ {<<>>} |-> IF IsData(l) THEN <<l>> ELSE <<>>]

LEMMA DataOfType ==
  ASSUME NEW L, L = Text \ {<<>>}
  PROVE  DataOf \in [L -> Seq(L)]
<1>1. ASSUME NEW l \in L PROVE (IF IsData(l) THEN <<l>> ELSE <<>>) \in Seq(L)
  <2>1. <<l>> \in Seq(L) /\ <<>> \in Seq(L)
    BY <1>1
  <2> QED BY <2>1
<1> QED BY <1>1 DEF DataOf

LEMMA DataMapped ==
  ASSUME NEW s \in Text
  PROVE  /\ Lines(s) \in Seq(Text \ {<<>>})
         /\ Data(s) = Mapped(DataOf, Lines(s))
<1>1. PICK L : L = Text \ {<<>>}
  OBVIOUS
<1>2. PICK lines \in Seq(L) : lines = Lines(s)
  BY <1>1, FieldsOfLines
<1>3. DataOf \in [L -> Seq(L)]
  BY <1>1, DataOfType
<1>4. \A i \in DOMAIN lines : DataOf[lines[i]] = IF IsData(lines[i]) THEN <<lines[i]>> ELSE <<>>
  <2>1. \A i \in DOMAIN lines : lines[i] \in L
    BY LenProperties, ElementOfSeq
  <2> QED BY <1>1, <2>1 DEF DataOf
<1>5. [i \in DOMAIN lines |-> DataOf[lines[i]]]
        = [i \in DOMAIN lines |-> IF IsData(lines[i]) THEN <<lines[i]>> ELSE <<>>]
  BY <1>4
<1>6. DataLines(lines) = Mapped(DataOf, lines)
  BY <1>5 DEF DataLines, Mapped, EachOf
<1> QED BY <1>1, <1>2, <1>3, <1>6 DEF Data

(* The data of a text is the data on both sides of a break. *)
LEMMA DataBroken ==
  ASSUME NEW u \in Text, NEW a \in Text, NEW b \in Text, Broken(u, a, b)
  PROVE  /\ Data(a) \in Seq(Text \ {<<>>}) /\ Data(b) \in Seq(Text \ {<<>>})
         /\ Data(u) = Data(a) \o Data(b)
<1>1. PICK L : L = Text \ {<<>>}
  OBVIOUS
<1>2. DataOf \in [L -> Seq(L)]
  BY <1>1, DataOfType
<1>3. PICK x \in Seq(L) : x = Lines(a)
  BY <1>1, DataMapped
<1>4. PICK y \in Seq(L) : y = Lines(b)
  BY <1>1, DataMapped
<1>5. Data(a) = Mapped(DataOf, x) /\ Data(b) = Mapped(DataOf, y) /\ Data(u) = Mapped(DataOf, x \o y)
  BY <1>3, <1>4, DataMapped, LinesBroken
<1>6. IsBoth(DataOf, x, y, L)
  BY <1>2, MappedConcat
<1> QED BY <1>1, <1>5, <1>6 DEF IsBoth

LEMMA DataType ==
  /\ <<>> \in Text /\ Data(<<>>) = <<>>
  /\ \A s \in Text : Data(s) \in Seq(Text \ {<<>>})
<1>1. PICK L : L = Text \ {<<>>}
  OBVIOUS
<1>2. DataOf \in [L -> Seq(L)]
  BY <1>1, DataOfType
<1>3. ASSUME NEW s \in Text PROVE Data(s) \in Seq(L)
  <2>1. PICK x \in Seq(L) : x = Lines(s)
    BY <1>1, DataMapped
  <2>2. IsBoth(DataOf, x, x, L)
    BY <1>2, MappedConcat
  <2> QED BY <2>1, <2>2, DataMapped DEF IsBoth
<1>4. <<>> \in Text /\ Lines(<<>>) = <<>>
  <2>1. <<>> \in Text /\ Len(<<>>) = 0
    BY DEF Text
  <2>2. Lines(<<>>) = FlattenSeq(LinesAt(<<>>))
    BY <2>1, LinesAtIs
  <2>3. LinesAt(<<>>) = <<>>
    BY DEF LinesAt
  <2>4. <<>> \in Seq(Bytes)
    OBVIOUS
  <2>5. FlattenSeq(<<>>) = <<>>
    BY <2>4, FlattenOne
  <2> QED BY <2>1, <2>2, <2>3, <2>5
<1>5. Data(<<>>) = <<>>
  <2>1. Data(<<>>) = Mapped(DataOf, <<>>)
    BY <1>4, DataMapped
  <2> QED BY <1>2, <2>1, MappedOne
<1> QED BY <1>1, <1>3, <1>4, <1>5

(* A break before or behind a text has no data. *)
LEMMA DataBesideBreak ==
  ASSUME NEW u \in Text, NEW a \in Text, Broken(u, a, <<>>) \/ Broken(u, <<>>, a)
  PROVE  Data(u) = Data(a)
<1>1. PICK none \in Text : none = <<>> /\ Data(none) = <<>>
  BY DataType
<1>2. PICK x \in Seq(Text \ {<<>>}) : x = Data(a)
  BY DataType
<1>3. x \o <<>> = x /\ <<>> \o x = x
  BY ConcatEmptySeq
<1>4. CASE Broken(u, a, none)
  <2>1. Data(u) = Data(a) \o Data(none)
    BY <1>4, DataBroken
  <2> QED BY <1>1, <1>2, <1>3, <2>1
<1>5. CASE Broken(u, none, a)
  <2>1. Data(u) = Data(none) \o Data(a)
    BY <1>5, DataBroken
  <2> QED BY <1>1, <1>2, <1>3, <2>1
<1> QED BY <1>1, <1>4, <1>5

-----------------------------------------------------------------------------
(* A text with line feeds only *)

FedAt == [x \in Bytes |-> IF x = Cr THEN <<>> ELSE <<x>>]

(* s without its carriage returns. *)
Fed(s) == Mapped(FedAt, s)

LEMMA FedConcat ==
  /\ FedAt \in [Bytes -> Seq(Bytes)]
  /\ \A s \in Text : Fed(s) \in Text
  /\ \A a, b \in Text : Fed(a \o b) = Fed(a) \o Fed(b)
  /\ Fed(<<>>) = <<>> /\ Fed(<<Cr>>) = <<>> /\ Fed(<<Lf>>) = <<Lf>>
<1>1. FedAt \in [Bytes -> Seq(Bytes)]
  BY DEF FedAt
<1>2. ASSUME NEW a \in Text, NEW b \in Text
      PROVE  Fed(a) \in Text /\ Fed(a \o b) = Fed(a) \o Fed(b)
  <2>1. a \in Seq(Bytes) /\ b \in Seq(Bytes)
    BY DEF Text
  <2>2. IsBoth(FedAt, a, b, Bytes)
    BY <1>1, <2>1, MappedConcat
  <2> QED BY <2>2 DEF Fed, Text, IsBoth
<1>3. Cr \in Bytes /\ Lf \in Bytes /\ Cr # Lf
  BY DEF Bytes, Breaks, Cr, Lf
<1>4. FedAt[Cr] = <<>> /\ FedAt[Lf] = <<Lf>>
  BY <1>3 DEF FedAt
<1>5. Fed(<<>>) = <<>> /\ Fed(<<Cr>>) = FedAt[Cr] /\ Fed(<<Lf>>) = FedAt[Lf]
  BY <1>1, <1>3, MappedOne DEF Fed
<1> QED BY <1>1, <1>2, <1>4, <1>5

(* The first of its bytes are joined one by one. *)
LEMMA FedSteps ==
  ASSUME NEW s \in Text
  PROVE  \E f \in [0..Len(s) -> Text] :
           /\ f[0] = <<>> /\ Fed(s) = f[Len(s)]
           /\ \A i \in 1..Len(s) : f[i] = IF s[i] = Cr THEN f[i - 1] ELSE f[i - 1] \o <<s[i]>>
<1>1. PICK n \in Nat : n = Len(s) /\ DOMAIN s = 1..n /\ \A i \in 1..n : s[i] \in Bytes
  BY LenProperties, ElementOfSeq DEF Text
<1>2. IsEach(EachOf(FedAt, s), FedAt, s, Bytes)
  BY FedConcat, MappedType DEF Text
<1>3. PICK q \in [1..n -> Seq(Bytes)] : q = EachOf(FedAt, s) /\ \A i \in 1..n : q[i] = FedAt[s[i]]
  <2>1. PICK q \in Seq(Seq(Bytes)) : q = EachOf(FedAt, s)
    BY <1>2 DEF IsEach
  <2>2. Len(q) = n /\ \A i \in 1..n : q[i] = FedAt[s[i]]
    BY <1>1, <1>2, <2>1 DEF IsEach
  <2>3. q \in [1..n -> Seq(Bytes)]
    BY <2>2, LenProperties
  <2> QED BY <2>1, <2>2, <2>3
<1>4. PICK f \in [0..n -> Seq(Bytes)] : Flattened(f, n, q)
  BY FlattenPrefixes
<1>5. ASSUME NEW i \in 1..n PROVE f[i] = IF s[i] = Cr THEN f[i - 1] ELSE f[i - 1] \o <<s[i]>>
  <2>1. f[i] = f[i - 1] \o q[i] /\ i - 1 \in 0..n /\ s[i] \in Bytes
    BY <1>1, <1>4 DEF Flattened
  <2>2. q[i] = IF s[i] = Cr THEN <<>> ELSE <<s[i]>>
    BY <1>3, <2>1 DEF FedAt
  <2>3. PICK x \in Seq(Bytes) : x = f[i - 1]
    BY <2>1
  <2>4. x \o <<>> = x
    BY ConcatEmptySeq
  <2> QED BY <2>1, <2>2, <2>3, <2>4
<1>6. f[0] = <<>> /\ Fed(s) = f[n]
  BY <1>3, <1>4 DEF Flattened, Fed, Mapped
<1> QED BY <1>1, <1>5, <1>6 DEF Text

(* Without carriage returns it is the text itself. *)
LEMMA FedSame ==
  ASSUME NEW s \in Text, \A i \in 1..Len(s) : s[i] # Cr
  PROVE  Fed(s) = s
<1>1. PICK n \in Nat : n = Len(s) /\ \A i \in 1..n : s[i] \in Bytes
  BY LenProperties, ElementOfSeq DEF Text
<1>2. PICK f \in [0..n -> Text] :
        /\ f[0] = <<>> /\ Fed(s) = f[n]
        /\ \A i \in 1..n : f[i] = IF s[i] = Cr THEN f[i - 1] ELSE f[i - 1] \o <<s[i]>>
  BY <1>1, FedSteps
<1> DEFINE T == {i \in 0..n : Len(f[i]) = i /\ \A k \in 1..i : f[i][k] = s[k]}
<1>3. 0 \in T
  BY <1>2
<1>4. ASSUME NEW i \in 0..(n - 1), i \in T PROVE i + 1 \in T
  <2>1. i + 1 \in 1..n /\ i + 1 \in 0..n /\ (i + 1) - 1 = i /\ i \in 0..n /\ i \in Nat
    OBVIOUS
  <2>2. PICK x \in Seq(Bytes) : x = f[i] /\ Len(x) = i /\ \A k \in 1..i : x[k] = s[k]
    BY <1>4, <2>1 DEF Text
  <2>3. PICK y \in Bytes : y = s[i + 1]
    BY <1>1, <2>1
  <2>4. f[i + 1] = x \o <<y>>
    BY <1>1, <1>2, <2>1, <2>2, <2>3
  <2>5. <<y>> \in Seq(Bytes) /\ Len(<<y>>) = 1 /\ <<y>>[1] = y
    OBVIOUS
  <2>6. /\ Len(x \o <<y>>) = i + 1
        /\ \A k \in 1..(i + 1) : (x \o <<y>>)[k] = IF k <= i THEN x[k] ELSE <<y>>[k - i]
    BY <2>2, <2>5, ConcatProperties
  <2>7. ASSUME NEW k \in 1..(i + 1) PROVE f[i + 1][k] = s[k]
    <3>1. CASE k <= i
      <4>1. k \in 1..i
        BY <2>1, <3>1
      <4> QED BY <2>2, <2>4, <2>6, <3>1, <4>1
    <3>2. CASE ~(k <= i)
      <4>1. k = i + 1 /\ k - i = 1
        BY <2>1, <3>2
      <4> QED BY <2>3, <2>4, <2>5, <2>6, <3>2, <4>1
    <3> QED BY <3>1, <3>2
  <2> QED BY <2>1, <2>4, <2>6, <2>7
<1> HIDE DEF T
<1>5. n \in T
  <2>1. 0..n \subseteq T
    BY <1>3, <1>4, InductionUpTo
  <2> QED BY <2>1
<1>6. PICK x \in Seq(Bytes) : x = f[n] /\ Len(x) = n /\ \A k \in 1..n : x[k] = s[k]
  BY <1>5 DEF T, Text
<1> QED BY <1>1, <1>2, <1>6, SeqEqual DEF Text

-----------------------------------------------------------------------------
(* s is its beginning before at, what is in the middle, and the rest. *)
LEMMA Middle ==
  ASSUME NEW s \in Text, NEW at \in Nat \ {0}, NEW w \in {2, 4}, at + w <= Len(s) + 1,
         NEW m \in Text, Len(m) = w, \A k \in 1..w : s[k + (at - 1)] = m[k]
  PROVE  s = (SubSeq(s, 1, at - 1) \o m) \o SubSeq(s, at + w, Len(s))
<1> DEFINE a == SubSeq(s, 1, at - 1)
           b == SubSeq(s, at + w, Len(s))
<1>1. /\ a \in Seq(Bytes) /\ Len(a) = at - 1
      /\ \A k \in 1..(at - 1) : a[k] = s[k]
      /\ b \in Seq(Bytes)
      /\ Len(b) = Len(s) + 1 - (at + w)
      /\ \A k \in 1..(Len(s) + 1 - (at + w)) : b[k] = s[k + (at + w - 1)]
  BY Parts DEF Text
<1>2. Len(s) \in Nat /\ at \in Nat /\ at >= 1 /\ w \in Nat
  BY LenProperties DEF Text
<1> HIDE DEF a, b
<1>3. m \in Seq(Bytes) /\ s \in Seq(Bytes)
  BY DEF Text
<1>4. PICK c \in Seq(Bytes) : /\ c = a \o m /\ Len(c) = at - 1 + w
                              /\ \A k \in 1..(at - 1 + w) : c[k] = IF k <= at - 1 THEN a[k] ELSE m[k - (at - 1)]
  <2>1. /\ a \o m \in Seq(Bytes) /\ Len(a \o m) = at - 1 + w
        /\ \A k \in 1..(at - 1 + w) : (a \o m)[k] = IF k <= at - 1 THEN a[k] ELSE m[k - (at - 1)]
    BY <1>1, <1>3, ConcatProperties
  <2> QED BY <2>1
<1>0. PICK e \in Seq(Bytes) : e = b
  BY <1>1
<1>5. PICK d \in Seq(Bytes) : /\ d = c \o b /\ Len(d) = Len(c) + Len(b)
                              /\ \A k \in 1..(Len(c) + Len(b)) : d[k] = IF k <= Len(c) THEN c[k] ELSE b[k - Len(c)]
  <2>1. /\ c \o e \in Seq(Bytes) /\ Len(c \o e) = Len(c) + Len(e)
        /\ \A k \in 1..(Len(c) + Len(e)) : (c \o e)[k] = IF k <= Len(c) THEN c[k] ELSE e[k - Len(c)]
    BY ConcatProperties
  <2> QED BY <1>0, <2>1
<1>6. Len(d) = Len(s)
  BY <1>1, <1>2, <1>4, <1>5
<1>7. ASSUME NEW k \in 1..Len(s) PROVE d[k] = s[k]
  <2>1. k \in 1..(Len(c) + Len(b)) /\ k \in Nat /\ Len(c) = at - 1 + w
    BY <1>4, <1>5, <1>6
  <2>2. CASE k <= at - 1
    <3>1. k \in 1..(at - 1) /\ k \in 1..(at - 1 + w) /\ k <= Len(c)
      BY <1>2, <2>1, <2>2
    <3> QED BY <1>1, <1>4, <1>5, <2>1, <2>2, <3>1
  <2>3. CASE k > at - 1 /\ k <= at - 1 + w
    <3>1. k - (at - 1) \in 1..w /\ (k - (at - 1)) + (at - 1) = k /\ k \in 1..(at - 1 + w) /\ ~(k <= at - 1)
      BY <1>2, <2>1, <2>3
    <3>2. s[k] = m[k - (at - 1)]
      <4>1. s[(k - (at - 1)) + (at - 1)] = m[k - (at - 1)]
        BY <3>1
      <4> QED BY <3>1, <4>1
    <3> QED BY <1>4, <1>5, <2>1, <2>3, <3>1, <3>2
  <2>4. CASE k > at - 1 + w
    <3>1. /\ k - (at - 1 + w) \in 1..(Len(s) + 1 - (at + w)) /\ ~(k <= Len(c))
          /\ (k - (at - 1 + w)) + (at + w - 1) = k
      BY <1>2, <2>1, <2>4
    <3>2. b[k - (at - 1 + w)] = s[(k - (at - 1 + w)) + (at + w - 1)]
      BY <1>1, <3>1
    <3> QED BY <1>5, <2>1, <3>1, <3>2
  <2> QED BY <1>2, <2>1, <2>2, <2>3, <2>4
<1>8. d = s
  BY <1>3, <1>6, <1>7, SeqEqual
<1> QED BY <1>4, <1>5, <1>8 DEF a, b

-----------------------------------------------------------------------------
(* The two kinds of line breaks *)

Plain(s) == \A i \in 1..Len(s) : s[i] # Cr

Pairs(s) ==
  \A i \in 1..Len(s) :
    /\ s[i] = Cr => i + 1 <= Len(s) /\ s[i + 1] = Lf
    /\ s[i] = Lf => i - 1 >= 1 /\ s[i - 1] = Cr

LEMMA Kinds ==
  ASSUME NEW s \in Text, OneKindOfBreak(s)
  PROVE  Plain(s) \/ Pairs(s)
<1>1. DOMAIN s = 1..Len(s) /\ Len(s) \in Nat
  BY LenProperties DEF Text
<1>2. CASE \A i \in DOMAIN s : s[i] # Cr
  BY <1>1, <1>2 DEF Plain
<1>3. CASE \A i \in DOMAIN s : /\ s[i] = Cr => i < Len(s) /\ s[i + 1] = Lf
                               /\ s[i] = Lf => i > 1 /\ s[i - 1] = Cr
  <2>1. \A i \in 1..Len(s) : (i < Len(s) => i + 1 <= Len(s)) /\ (i > 1 => i - 1 >= 1)
    BY <1>1
  <2>2. Pairs(s)
    BY <1>1, <1>3, <2>1 DEF Pairs
  <2> QED BY <2>2
<1> QED BY <1>2, <1>3 DEF OneKindOfBreak

(* No separator is in s. *)
Unseparated(s) == \A j \in Nat : ~Occurs(CrLfTwice, s, j) /\ ~Occurs(LfTwice, s, j)

(* No two line feeds of u are next to each other. *)
Separate(u) == \A i \in Nat : ~(i >= 1 /\ i + 1 <= Len(u) /\ u[i] = Lf /\ u[i + 1] = Lf)

LastIs(u, x) == Len(u) # 0 /\ u[Len(u)] = x

LEMMA SeparateStep ==
  ASSUME NEW q \in Text, NEW x \in Bytes, Separate(q), ~(x = Lf /\ LastIs(q, Lf))
  PROVE  Separate(q \o <<x>>) /\ LastIs(q \o <<x>>, x)
<1>1. PICK n \in Nat : n = Len(q)
  BY LenProperties DEF Text
<1>2. <<x>> \in Seq(Bytes) /\ Len(<<x>>) = 1 /\ <<x>>[1] = x
  OBVIOUS
<1>3. PICK u \in Seq(Bytes) :
        /\ u = q \o <<x>> /\ Len(u) = n + 1
        /\ \A i \in 1..(n + 1) : u[i] = IF i <= n THEN q[i] ELSE <<x>>[i - n]
  <2>1. PICK t \in Seq(Bytes) : t = q
    BY DEF Text
  <2>2. PICK y \in Seq(Bytes) : y = <<x>>
    BY <1>2
  <2>3. /\ t \o y \in Seq(Bytes) /\ Len(t \o y) = Len(t) + Len(y)
        /\ \A i \in 1..(Len(t) + Len(y)) : (t \o y)[i] = IF i <= Len(t) THEN t[i] ELSE y[i - Len(t)]
    BY ConcatProperties
  <2>4. Len(t) + Len(y) = n + 1 /\ Len(t) = n
    BY <1>1, <1>2, <2>1, <2>2
  <2> QED BY <2>1, <2>2, <2>3, <2>4
<1>4. u[n + 1] = x
  <2>1. n + 1 \in 1..(n + 1) /\ ~(n + 1 <= n) /\ (n + 1) - n = 1
    OBVIOUS
  <2> QED BY <1>2, <1>3, <2>1
<1>5. LastIs(u, x)
  BY <1>3, <1>4 DEF LastIs
<1>6. ASSUME NEW i \in Nat, i >= 1, i + 1 <= Len(u), u[i] = Lf, u[i + 1] = Lf PROVE FALSE
  <2>1. i \in 1..(n + 1) /\ i + 1 \in 1..(n + 1) /\ i <= n
    BY <1>3, <1>6
  <2>2. u[i] = q[i]
    BY <1>3, <2>1
  <2>3. CASE i + 1 <= n
    <3>1. u[i + 1] = q[i + 1]
      BY <1>3, <2>1, <2>3
    <3> QED BY <1>1, <1>6, <2>2, <2>3, <3>1 DEF Separate
  <2>4. CASE ~(i + 1 <= n)
    <3>1. i = n /\ i + 1 = n + 1 /\ n # 0
      BY <1>6, <2>1, <2>4
    <3> QED BY <1>1, <1>4, <1>6, <2>2, <3>1 DEF LastIs
  <2> QED BY <2>3, <2>4
<1>7. Separate(u)
  BY <1>6 DEF Separate
<1> QED BY <1>3, <1>5, <1>7

(* The first i bytes of s without the carriage returns, q, end as they do. *)
EndsAs(q, s, i) ==
  IF i = 0 THEN q = <<>>
  ELSE IF s[i] # Cr THEN LastIs(q, s[i])
  ELSE IF i = 1 THEN q = <<>>
  ELSE LastIs(q, s[i - 1])

(* Two line feeds follow each other only where a separator is. *)
LEMMA FedSeparate ==
  ASSUME NEW s \in Text, Plain(s) \/ Pairs(s), Unseparated(s)
  PROVE  /\ Separate(Fed(s))
         /\ LastIs(Fed(s), Lf) => Len(s) # 0 /\ s[Len(s)] \in Breaks
<1>1. PICK n \in Nat : n = Len(s) /\ \A i \in 1..n : s[i] \in Bytes
  BY LenProperties, ElementOfSeq DEF Text
<1>2. PICK f \in [0..n -> Text] :
        /\ f[0] = <<>> /\ Fed(s) = f[n]
        /\ \A i \in 1..n : f[i] = IF s[i] = Cr THEN f[i - 1] ELSE f[i - 1] \o <<s[i]>>
  BY <1>1, FedSteps
<1> DEFINE T == {i \in 0..n : Separate(f[i]) /\ EndsAs(f[i], s, i)}
<1>3. 0 \in T
  <2>1. Len(<<>>) = 0
    OBVIOUS
  <2> QED BY <1>2, <2>1 DEF Separate, EndsAs
<1>4. ASSUME NEW i \in 0..(n - 1), i \in T PROVE i + 1 \in T
  <2>1. i + 1 \in 1..n /\ i + 1 \in 0..n /\ (i + 1) - 1 = i /\ i \in 0..n /\ i \in Nat /\ i + 1 # 0
    OBVIOUS
  <2>2. PICK q \in Text : q = f[i] /\ Separate(q) /\ EndsAs(q, s, i)
    BY <1>4, <2>1
  <2>3. CASE s[i + 1] = Cr
    <3>1. f[i + 1] = q
      BY <1>2, <2>1, <2>2, <2>3
    <3>2. EndsAs(q, s, i + 1)
      <4>1. CASE i = 0
        BY <2>2, <2>3, <4>1 DEF EndsAs
      <4>2. CASE i # 0
        <5>1. i \in 1..n /\ i + 1 # 1
          BY <2>1, <4>2
        <5>2. s[i] # Cr
          BY <1>1, <2>1, <2>3, <5>1, Separators DEF Plain, Pairs
        <5>3. LastIs(q, s[i])
          BY <2>2, <4>2, <5>2 DEF EndsAs
        <5> QED BY <2>1, <2>3, <5>1, <5>3 DEF EndsAs
      <4> QED BY <4>1, <4>2
    <3> QED BY <2>1, <2>2, <3>1, <3>2
  <2>4. CASE s[i + 1] # Cr
    <3>1. PICK x \in Bytes : x = s[i + 1]
      BY <1>1, <2>1
    <3>2. f[i + 1] = q \o <<x>>
      BY <1>2, <2>1, <2>2, <2>4, <3>1
    <3>3. ASSUME x = Lf, LastIs(q, Lf) PROVE FALSE
      <4>1. i # 0
        BY <2>2, <3>3 DEF EndsAs, LastIs
      <4>2. i \in 1..n
        BY <2>1, <4>1
      <4>3. CASE s[i] # Cr
        <5>1. s[i] = Lf
          BY <2>2, <3>3, <4>1, <4>3 DEF EndsAs, LastIs
        <5>2. ~Pairs(s)
          BY <1>1, <2>1, <3>1, <3>3, <4>3 DEF Pairs
        <5>3. Occurs(LfTwice, s, i)
          <6>1. i >= 1 /\ i + 1 <= Len(s) /\ s[i] = Lf /\ s[i + 1] = Lf
            BY <1>1, <2>1, <3>1, <3>3, <4>2, <5>1
          <6> QED BY <2>1, <6>1, LfOccurs
        <5> QED BY <2>1, <5>3 DEF Unseparated
      <4>4. CASE s[i] = Cr
        <5>1. i # 1 /\ LastIs(q, s[i - 1])
          BY <2>2, <3>3, <4>1, <4>4 DEF EndsAs, LastIs
        <5>2. s[i - 1] = Lf /\ i - 1 \in 1..n
          BY <2>1, <3>3, <4>2, <5>1 DEF LastIs
        <5>3. Pairs(s)
          BY <1>1, <4>2, <4>4 DEF Plain
        <5>4. (i - 1) - 1 >= 1 /\ s[(i - 1) - 1] = Cr
          BY <1>1, <5>2, <5>3, Separators DEF Pairs
        <5>5. PICK j \in Nat : j >= 1 /\ j + 1 = i - 1 /\ j + 2 = i /\ j + 3 = i + 1 /\ (i - 1) - 1 = j
          <6>1. i - 2 \in Nat /\ i - 2 >= 1 /\ (i - 2) + 1 = i - 1 /\ (i - 2) + 2 = i
                /\ (i - 2) + 3 = i + 1 /\ (i - 1) - 1 = i - 2
            BY <2>1, <5>4
          <6> QED BY <6>1
        <5>6. Occurs(CrLfTwice, s, j)
          <6>1. s[j] = Cr /\ s[j + 1] = Lf /\ s[j + 2] = Cr /\ s[j + 3] = Lf /\ j + 3 <= Len(s)
            BY <1>1, <2>1, <3>1, <3>3, <4>4, <5>2, <5>4, <5>5
          <6> QED BY <5>5, <6>1, CrLfOccurs
        <5> QED BY <5>6 DEF Unseparated
      <4> QED BY <4>3, <4>4
    <3>4. Separate(q \o <<x>>) /\ LastIs(q \o <<x>>, x)
      BY <2>2, <3>3, SeparateStep
    <3>5. EndsAs(f[i + 1], s, i + 1)
      BY <2>1, <2>4, <3>1, <3>2, <3>4 DEF EndsAs
    <3> QED BY <2>1, <3>2, <3>4, <3>5
  <2> QED BY <2>3, <2>4
<1> HIDE DEF T
<1>5. n \in T
  <2>1. 0..n \subseteq T
    BY <1>3, <1>4, InductionUpTo
  <2> QED BY <2>1
<1>6. Separate(Fed(s)) /\ EndsAs(Fed(s), s, n)
  BY <1>2, <1>5 DEF T
<1>7. ASSUME LastIs(Fed(s), Lf) PROVE Len(s) # 0 /\ s[Len(s)] \in Breaks
  <2>1. n # 0
    BY <1>6, <1>7 DEF EndsAs, LastIs
  <2>2. CASE s[n] = Cr
    BY <1>1, <2>1, <2>2 DEF Breaks
  <2>3. CASE s[n] # Cr
    <3>1. LastIs(Fed(s), s[n])
      BY <1>6, <2>1, <2>3 DEF EndsAs
    <3> QED BY <1>1, <1>7, <2>1, <3>1 DEF Breaks, LastIs
  <2> QED BY <2>2, <2>3
<1> QED BY <1>6, <1>7

(* Either kind of line break is read by a client as line feeds only. *)
LEMMA UnifiedIsFed ==
  ASSUME NEW s \in Text, Plain(s) \/ Pairs(s)
  PROVE  Unified(s) = Fed(s)
<1> DEFINE at(i) == IF s[i] # Cr THEN <<s[i]>>
                    ELSE IF i < Len(s) /\ s[i + 1] = Lf THEN <<>> ELSE <<Lf>>
<1>1. DOMAIN s = 1..Len(s) /\ Len(s) \in Nat /\ \A i \in 1..Len(s) : s[i] \in Bytes
  BY LenProperties, ElementOfSeq DEF Text
<1>2. ASSUME NEW i \in DOMAIN s PROVE at(i) = FedAt[s[i]]
  <2>1. s[i] \in Bytes /\ i \in 1..Len(s) /\ (i + 1 <= Len(s) => i < Len(s))
    BY <1>1
  <2>2. s[i] = Cr => i < Len(s) /\ s[i + 1] = Lf
    BY <2>1 DEF Plain, Pairs
  <2> QED BY <2>1, <2>2 DEF FedAt
<1>3. [i \in DOMAIN s |-> at(i)] = [i \in DOMAIN s |-> FedAt[s[i]]]
  BY <1>2
<1> QED BY <1>3 DEF Unified, Fed, Mapped, EachOf

(* A carriage return comes before a line feed only. *)
CrPaired(s) == \A i \in 1..Len(s) : s[i] = Cr => i + 1 <= Len(s) /\ s[i + 1] = Lf

(* The data of a text does not change with the kind of its breaks: a pair *)
(* is one break, with an empty line in it, like a line feed.              *)
LEMMA DataFed ==
  ASSUME NEW s \in Text, CrPaired(s)
  PROVE  Data(Fed(s)) = Data(s)
<1> DEFINE N == Len(s)
           T == {n \in 0..N : \A x \in Text : Len(x) <= n /\ CrPaired(x) => Data(Fed(x)) = Data(x)}
<1>1. N \in Nat /\ \A x \in Text : Len(x) \in Nat
  BY LenProperties DEF Text
<1>2. 0 \in T
  <2> SUFFICES ASSUME NEW x \in Text, Len(x) <= 0 PROVE Data(Fed(x)) = Data(x)
    BY <1>1
  <2>1. 1..Len(x) = {}
    BY <1>1
  <2> QED BY <2>1, FedSame
<1>3. ASSUME NEW n \in 0..(N - 1), n \in T PROVE n + 1 \in T
  <2> SUFFICES ASSUME NEW x \in Text, Len(x) <= n + 1, CrPaired(x),
                      NEW i \in 1..Len(x), x[i] = Cr
               PROVE  Data(Fed(x)) = Data(x)
    BY <1>1, FedSame
  <2>1. PICK at \in Nat \ {0} : at = i /\ at + 2 <= Len(x) + 1 /\ x[at + 1] = Lf /\ x[at] = Cr
    BY <1>1 DEF CrPaired
  <2>2. 2 \in {2, 4}
    OBVIOUS
  <2>3. /\ SubSeq(x, 1, at - 1) \in Text /\ Len(SubSeq(x, 1, at - 1)) = at - 1
        /\ \A k \in 1..(at - 1) : SubSeq(x, 1, at - 1)[k] = x[k]
        /\ SubSeq(x, at + 2, Len(x)) \in Text
        /\ Len(SubSeq(x, at + 2, Len(x))) = Len(x) + 1 - (at + 2)
        /\ \A k \in 1..(Len(x) + 1 - (at + 2)) :
             SubSeq(x, at + 2, Len(x))[k] = x[k + (at + 2 - 1)]
    BY <2>1, <2>2, Parts
  <2>4. PICK a \in Text : /\ a = SubSeq(x, 1, at - 1) /\ Len(a) = at - 1
                          /\ \A k \in 1..(at - 1) : a[k] = x[k]
    BY <2>3
  <2>5. PICK b \in Text : /\ b = SubSeq(x, at + 2, Len(x)) /\ Len(b) = Len(x) + 1 - (at + 2)
                          /\ \A k \in 1..(Len(x) + 1 - (at + 2)) : b[k] = x[k + (at + 2 - 1)]
    BY <2>3
  <2>6. PICK m \in Text : m = <<Cr, Lf>> /\ Len(m) = 2 /\ m[1] = Cr /\ m[2] = Lf
    <3>1. Cr \in Bytes /\ Lf \in Bytes
      BY DEF Bytes, Breaks
    <3>2. <<Cr, Lf>> \in Text /\ Len(<<Cr, Lf>>) = 2 /\ <<Cr, Lf>>[1] = Cr /\ <<Cr, Lf>>[2] = Lf
      BY <3>1 DEF Text
    <3> QED BY <3>2
  <2>7. \A k \in 1..2 : x[k + (at - 1)] = m[k]
    <3>1. 1 + (at - 1) = at /\ 2 + (at - 1) = at + 1 /\ 1..2 = {1, 2}
      BY <2>1
    <3> QED BY <2>1, <2>6, <3>1
  <2>8. x = (a \o m) \o b
    BY <2>1, <2>2, <2>4, <2>5, <2>6, <2>7, Middle, ZenonT(60)
  <2>9. PICK lf \in Text : lf = <<Lf>> /\ Len(lf) = 1 /\ lf[1] = Lf
    <3>1. Lf \in Bytes
      BY DEF Bytes, Breaks
    <3>2. <<Lf>> \in Text /\ Len(<<Lf>>) = 1 /\ <<Lf>>[1] = Lf
      BY <3>1 DEF Text
    <3> QED BY <3>2
  <2>10. PICK r \in Text : /\ r = lf \o b /\ Len(r) = 1 + Len(b)
                           /\ \A k \in 1..(1 + Len(b)) : r[k] = IF k <= 1 THEN lf[k] ELSE b[k - 1]
    <3>1. /\ lf \o b \in Text /\ Len(lf \o b) = Len(lf) + Len(b)
          /\ \A k \in 1..(Len(lf) + Len(b)) : (lf \o b)[k] = IF k <= Len(lf) THEN lf[k] ELSE b[k - Len(lf)]
      BY ConcatProperties DEF Text
    <3> QED BY <2>9, <3>1
  <2>11. Broken(x, a, r)
    <3>1. /\ Len(x) = Len(a) + 1 + Len(r) /\ Len(a) + 1 = at
          /\ \A k \in 1..Len(a) : x[k] = a[k]
      <4>1. Len(x) \in Nat /\ Len(b) = Len(x) - at - 1 /\ Len(r) = 1 + Len(b) /\ Len(a) = at - 1
        BY <1>1, <2>1, <2>4, <2>5, <2>10
      <4>2. Len(x) = Len(a) + 1 + Len(r) /\ Len(a) + 1 = at
        BY <2>1, <4>1
      <4>3. \A k \in 1..Len(a) : x[k] = a[k]
        BY <2>4, <4>1
      <4> QED BY <4>2, <4>3
    <3>2. ASSUME NEW k \in 1..Len(r) PROVE x[k + at] = r[k]
      <4>1. CASE k = 1
        <5>1. k + at = at + 1 /\ r[k] = Lf
          BY <1>1, <2>1, <2>9, <2>10, <4>1
        <5> QED BY <2>1, <5>1
      <4>2. CASE k # 1
        <5>1. /\ k \in 1..(1 + Len(b)) /\ ~(k <= 1) /\ k - 1 \in 1..(Len(x) + 1 - (at + 2))
              /\ (k - 1) + (at + 2 - 1) = k + at
          BY <1>1, <2>1, <2>5, <2>10, <4>2, SMTT(30)
        <5>2. r[k] = b[k - 1] /\ b[k - 1] = x[(k - 1) + (at + 2 - 1)]
          BY <2>5, <2>10, <5>1
        <5> QED BY <5>1, <5>2
      <4> QED BY <4>1, <4>2
    <3> QED BY <2>1, <3>1, <3>2 DEF Broken, Breaks
  <2>12. PICK none \in Text : none = <<>> /\ Len(none) = 0
    BY DataType
  <2>13. Broken(r, none, b)
    <3>1. r[1] = Lf /\ Len(none) + 1 = 1 /\ Len(b) \in Nat
      BY <1>1, <2>9, <2>10, <2>12
    <3>2. ASSUME NEW k \in 1..Len(b) PROVE r[k + 1] = b[k]
      <4>1. k + 1 \in 1..(1 + Len(b)) /\ ~(k + 1 <= 1) /\ (k + 1) - 1 = k
        BY <3>1
      <4> QED BY <2>10, <4>1
    <3> QED BY <2>10, <2>12, <3>1, <3>2 DEF Broken, Breaks
  <2>14. Data(r) = Data(b)
    BY <2>12, <2>13, DataBesideBreak
  <2>15. Data(x) = Data(a) \o Data(b)
    <3>1. Data(x) = Data(a) \o Data(r)
      BY <2>11, DataBroken
    <3> QED BY <2>14, <3>1
  <2>16. CrPaired(a) /\ Len(a) <= n
    <3>1. ASSUME NEW k \in 1..Len(a), a[k] = Cr PROVE k + 1 <= Len(a) /\ a[k + 1] = Lf
      <4>1. k \in 1..(at - 1) /\ k \in 1..Len(x) /\ x[k] = Cr
        BY <1>1, <2>1, <2>4, <3>1
      <4>2. x[k + 1] = Lf
        BY <4>1 DEF CrPaired
      <4>3. k + 1 # at
        BY <2>1, <4>2, Separators
      <4>4. k + 1 \in 1..(at - 1)
        BY <2>1, <4>1, <4>3
      <4> QED BY <2>4, <4>2, <4>4
    <3>2. Len(a) <= n
      BY <1>1, <2>1, <2>4
    <3> QED BY <3>1, <3>2 DEF CrPaired
  <2>17. CrPaired(b) /\ Len(b) <= n
    <3>1. ASSUME NEW k \in 1..Len(b), b[k] = Cr PROVE k + 1 <= Len(b) /\ b[k + 1] = Lf
      <4>1. k \in 1..(Len(x) + 1 - (at + 2)) /\ k + (at + 2 - 1) \in 1..Len(x)
        BY <1>1, <2>1, <2>5
      <4>2. x[k + (at + 2 - 1)] = Cr
        BY <2>5, <3>1, <4>1
      <4>3. (k + (at + 2 - 1)) + 1 <= Len(x) /\ x[(k + (at + 2 - 1)) + 1] = Lf
        BY <4>1, <4>2 DEF CrPaired
      <4>4. /\ k + 1 \in 1..(Len(x) + 1 - (at + 2)) /\ (k + 1) + (at + 2 - 1) = (k + (at + 2 - 1)) + 1
            /\ k + 1 <= Len(b)
        BY <1>1, <2>1, <2>5, <4>1, <4>3
      <4>5. b[k + 1] = x[(k + 1) + (at + 2 - 1)]
        BY <2>5, <4>4
      <4> QED BY <4>3, <4>4, <4>5
    <3>2. Len(b) <= n
      BY <1>1, <2>1, <2>5
    <3> QED BY <3>1, <3>2 DEF CrPaired
  <2>18. Data(Fed(a)) = Data(a) /\ Data(Fed(b)) = Data(b)
    BY <1>3, <2>16, <2>17
  <2>19. PICK p \in Text : p = Fed(a)
    BY FedConcat
  <2>20. PICK q \in Text : q = Fed(b)
    BY FedConcat
  <2>21. Fed(x) = (p \o lf) \o q
    <3>1. PICK u \in Text : u = a \o m
      BY ConcatProperties DEF Text
    <3>2. Fed(x) = Fed(u) \o q
      BY <2>8, <2>20, <3>1, FedConcat
    <3>3. Fed(u) = p \o Fed(m)
      BY <2>19, <3>1, FedConcat
    <3>4. Fed(m) = lf
      <4>1. PICK cr \in Text : cr = <<Cr>> /\ Len(cr) = 1 /\ cr[1] = Cr
        <5>1. Cr \in Bytes
          BY DEF Bytes, Breaks
        <5>2. <<Cr>> \in Text /\ Len(<<Cr>>) = 1 /\ <<Cr>>[1] = Cr
          BY <5>1 DEF Text
        <5> QED BY <5>2
      <4>2. /\ cr \o lf \in Text /\ Len(cr \o lf) = 2
            /\ \A k \in 1..2 : (cr \o lf)[k] = IF k <= 1 THEN cr[k] ELSE lf[k - 1]
        <5>1. /\ cr \o lf \in Text /\ Len(cr \o lf) = Len(cr) + Len(lf)
              /\ \A k \in 1..(Len(cr) + Len(lf)) : (cr \o lf)[k] = IF k <= Len(cr) THEN cr[k] ELSE lf[k - Len(cr)]
          BY ConcatProperties DEF Text
        <5> QED BY <2>9, <4>1, <5>1
      <4>3. PICK v \in Text : v = cr \o lf /\ Len(v) = 2 /\ v[1] = Cr /\ v[2] = Lf
        <5>1. 1 \in 1..2 /\ 2 \in 1..2 /\ 1 <= 1 /\ ~(2 <= 1) /\ 2 - 1 = 1
          OBVIOUS
        <5>2. PICK v \in Text : v = cr \o lf
          BY <4>2
        <5>3. v[1] = cr[1] /\ v[2] = lf[1] /\ Len(v) = 2
          BY <4>2, <5>1, <5>2
        <5> QED BY <2>9, <4>1, <5>2, <5>3
      <4>4. m = v
        <5>1. \A k \in 1..2 : k = 1 \/ k = 2
          OBVIOUS
        <5>2. Len(m) = Len(v) /\ \A k \in 1..Len(m) : m[k] = v[k]
          BY <2>6, <4>3, <5>1
        <5> QED BY <5>2, SeqEqual DEF Text
      <4>5. Fed(v) = Fed(cr) \o Fed(lf) /\ Fed(cr) = <<>> /\ Fed(lf) = lf
        BY <2>9, <4>1, <4>3, FedConcat
      <4>6. <<>> \o lf = lf
        BY ConcatEmptySeq DEF Text
      <4> QED BY <4>4, <4>5, <4>6
    <3> QED BY <3>2, <3>3, <3>4
  <2>22. PICK y \in Text : /\ y = p \o lf /\ Len(y) = Len(p) + 1
                           /\ \A k \in 1..(Len(p) + 1) : y[k] = IF k <= Len(p) THEN p[k] ELSE lf[k - Len(p)]
    <3>1. /\ p \o lf \in Text /\ Len(p \o lf) = Len(p) + Len(lf)
          /\ \A k \in 1..(Len(p) + Len(lf)) : (p \o lf)[k] = IF k <= Len(p) THEN p[k] ELSE lf[k - Len(p)]
      BY ConcatProperties DEF Text
    <3> QED BY <2>9, <3>1
  <2>23. PICK z \in Text : /\ z = y \o q /\ Len(z) = Len(y) + Len(q)
                           /\ \A k \in 1..(Len(y) + Len(q)) : z[k] = IF k <= Len(y) THEN y[k] ELSE q[k - Len(y)]
    <3>1. /\ y \o q \in Text /\ Len(y \o q) = Len(y) + Len(q)
          /\ \A k \in 1..(Len(y) + Len(q)) : (y \o q)[k] = IF k <= Len(y) THEN y[k] ELSE q[k - Len(y)]
      BY ConcatProperties DEF Text
    <3> QED BY <3>1
  <2>24. Broken(z, p, q)
    <3>1. Len(p) \in Nat /\ Len(q) \in Nat /\ Len(z) = Len(p) + 1 + Len(q)
      BY <1>1, <2>22, <2>23
    <3>2. ASSUME NEW k \in 1..Len(p) PROVE z[k] = p[k]
      <4>1. k \in 1..(Len(p) + 1) /\ k <= Len(p) /\ k <= Len(y) /\ k \in 1..(Len(y) + Len(q))
        BY <2>22, <3>1
      <4> QED BY <2>22, <2>23, <4>1
    <3>3. z[Len(p) + 1] = Lf
      <4>1. /\ Len(p) + 1 \in 1..(Len(p) + 1) /\ ~(Len(p) + 1 <= Len(p)) /\ Len(p) + 1 <= Len(y)
            /\ Len(p) + 1 \in 1..(Len(y) + Len(q)) /\ (Len(p) + 1) - Len(p) = 1
        BY <2>22, <3>1
      <4> QED BY <2>9, <2>22, <2>23, <4>1
    <3>4. ASSUME NEW k \in 1..Len(q) PROVE z[k + (Len(p) + 1)] = q[k]
      <4>1. /\ k + (Len(p) + 1) \in 1..(Len(y) + Len(q)) /\ ~(k + (Len(p) + 1) <= Len(y))
            /\ (k + (Len(p) + 1)) - Len(y) = k
        BY <2>22, <3>1
      <4> QED BY <2>23, <4>1
    <3> QED BY <3>1, <3>2, <3>3, <3>4 DEF Broken, Breaks
  <2>25. Data(z) = Data(p) \o Data(q)
    BY <2>24, DataBroken
  <2> QED BY <2>15, <2>18, <2>19, <2>20, <2>21, <2>22, <2>23, <2>25
<1> HIDE DEF T
<1>4. N \in T
  <2>1. 0..N \subseteq T
    BY <1>1, <1>2, <1>3, InductionUpTo
  <2> QED BY <1>1, <2>1
<1> QED BY <1>1, <1>4 DEF T

OneKind(s) == Plain(s) \/ Pairs(s)

(* Either separator is read by a client as two line feeds. *)
LEMMA FedSeparators == Fed(LfTwice) = LfTwice /\ Fed(CrLfTwice) = LfTwice
<1>1. Fed(LfTwice) = LfTwice
  <2>1. \A i \in 1..2 : i = 1 \/ i = 2
    OBVIOUS
  <2>2. \A i \in 1..Len(LfTwice) : LfTwice[i] # Cr
    BY <2>1, Separators
  <2> QED BY <2>2, Separators, FedSame
<1>2. Fed(CrLfTwice) = LfTwice
  <2>1. PICK s \in Text : /\ s = CrLfTwice /\ Len(s) = 4
                          /\ s[1] = Cr /\ s[2] = Lf /\ s[3] = Cr /\ s[4] = Lf
    BY Separators
  <2>2. PICK f \in [0..4 -> Text] :
          /\ f[0] = <<>> /\ Fed(s) = f[4]
          /\ \A i \in 1..4 : f[i] = IF s[i] = Cr THEN f[i - 1] ELSE f[i - 1] \o <<s[i]>>
    <3>1. PICK f \in [0..Len(s) -> Text] :
            /\ f[0] = <<>> /\ Fed(s) = f[Len(s)]
            /\ \A i \in 1..Len(s) : f[i] = IF s[i] = Cr THEN f[i - 1] ELSE f[i - 1] \o <<s[i]>>
      BY FedSteps
    <3>2. Len(s) = 4
      BY <2>1
    <3> QED BY <3>1, <3>2
  <2>3. 1 \in 1..4 /\ 2 \in 1..4 /\ 3 \in 1..4 /\ 4 \in 1..4 /\ 1 - 1 = 0 /\ 2 - 1 = 1 /\ 3 - 1 = 2 /\ 4 - 1 = 3
    OBVIOUS
  <2>4. f[1] = <<>>
    BY <2>1, <2>2, <2>3
  <2>5. f[2] = <<>> \o <<Lf>>
    BY <2>1, <2>2, <2>3, <2>4, Separators, ZenonT(60)
  <2>6. <<Lf>> \in Text /\ Len(<<Lf>>) = 1 /\ <<Lf>>[1] = Lf
    BY DEF Text, Bytes, Breaks
  <2>7. PICK lf \in Text : lf = <<Lf>> /\ Len(lf) = 1 /\ lf[1] = Lf
    BY <2>6
  <2>8. f[2] = lf
    BY <2>5, <2>7, ConcatEmptySeq DEF Text
  <2>9. f[3] = lf
    BY <2>1, <2>2, <2>3, <2>8
  <2>10. f[4] = lf \o lf
    BY <2>1, <2>2, <2>3, <2>7, <2>9, Separators
  <2>11. /\ lf \o lf \in Text /\ Len(lf \o lf) = 2
         /\ \A i \in 1..2 : (lf \o lf)[i] = IF i <= 1 THEN lf[i] ELSE lf[i - 1]
    <3>1. /\ lf \o lf \in Text /\ Len(lf \o lf) = Len(lf) + Len(lf)
          /\ \A i \in 1..(Len(lf) + Len(lf)) : (lf \o lf)[i] = IF i <= Len(lf) THEN lf[i] ELSE lf[i - Len(lf)]
      BY ConcatProperties DEF Text
    <3> QED BY <2>7, <3>1
  <2>12. \A i \in 1..2 : (lf \o lf)[i] = Lf
    <3>1. \A i \in 1..2 : i = 1 \/ (i = 2 /\ ~(i <= 1) /\ i - 1 = 1)
      OBVIOUS
    <3> QED BY <2>7, <2>11, <3>1
  <2>13. PICK v \in Text : v = lf \o lf /\ Len(v) = 2 /\ \A i \in 1..2 : v[i] = Lf
    BY <2>11, <2>12
  <2>14. PICK w \in Text : w = LfTwice /\ Len(w) = 2 /\ w[1] = Lf /\ w[2] = Lf
    BY Separators
  <2>15. v = w
    <3>1. \A i \in 1..2 : i = 1 \/ i = 2
      OBVIOUS
    <3>2. Len(v) = Len(w) /\ \A i \in 1..Len(v) : v[i] = w[i]
      BY <2>13, <2>14, <3>1
    <3> QED BY <3>2, SeqEqual DEF Text
  <2> QED BY <2>1, <2>2, <2>10, <2>13, <2>14, <2>15
<1> QED BY <1>1, <1>2

(* The first event of s is raw, and rest is behind its separator. *)
FirstIs(s, raw, rest) ==
  /\ OneKind(raw) /\ OneKind(rest) /\ Unseparated(raw)
  /\ Len(raw) # 0 => raw[Len(raw)] \notin Breaks
  /\ Fed(s) = (Fed(raw) \o LfTwice) \o Fed(rest)
  /\ Len(rest) < Len(s)

(* The first event of a text with one kind of line break. *)
LEMMA FirstEvent ==
  ASSUME NEW s \in Text, OneKind(s), Boundary(s).at # 0
  PROVE  FirstIs(s, SubSeq(s, 1, Boundary(s).at - 1),
                 SubSeq(s, Boundary(s).at + Boundary(s).advance, Len(s)))
<1>1. PICK at \in Nat \ {0} : at = Boundary(s).at
  <2>1. <<>> \in Text
    BY DEF Text
  <2> QED BY <2>1, BoundaryKept
<1>2. PICK w \in {2, 4} : w = Boundary(s).advance /\ at + w <= Len(s) + 1
  <2>1. <<>> \in Text
    BY DEF Text
  <2> QED BY <1>1, <2>1, BoundaryKept
<1>3. EndsEvent(s, at, w) /\ Len(s) \in Nat
  BY <1>1, <1>2, BoundaryIs, LenProperties DEF Text
<1>4. PICK raw \in Text : /\ raw = SubSeq(s, 1, at - 1) /\ Len(raw) = at - 1
                          /\ \A k \in 1..(at - 1) : raw[k] = s[k]
  BY <1>2, Parts
<1>5. PICK rest \in Text : /\ rest = SubSeq(s, at + w, Len(s)) /\ Len(rest) = Len(s) + 1 - (at + w)
                           /\ \A k \in 1..(Len(s) + 1 - (at + w)) : rest[k] = s[k + (at + w - 1)]
  <2>1. /\ SubSeq(s, at + w, Len(s)) \in Text
        /\ Len(SubSeq(s, at + w, Len(s))) = Len(s) + 1 - (at + w)
        /\ \A k \in 1..(Len(s) + 1 - (at + w)) :
             SubSeq(s, at + w, Len(s))[k] = s[k + (at + w - 1)]
    BY <1>2, Parts, ZenonT(60)
  <2> QED BY <2>1
<1>6. \/ /\ w = 2 /\ Plain(s) /\ s[at] = Lf /\ s[at + 1] = Lf
      \/ /\ w = 4 /\ Pairs(s) /\ s[at] = Cr /\ s[at + 1] = Lf /\ s[at + 2] = Cr /\ s[at + 3] = Lf
  <2>1. at \in Nat /\ at \in 1..Len(s) /\ at + 1 \in 1..Len(s) /\ (at + 1) - 1 = at
    BY <1>2, <1>3
  <2>2. CASE w = 4 /\ Occurs(CrLfTwice, s, at)
    <3>1. s[at] = Cr /\ s[at + 1] = Lf /\ s[at + 2] = Cr /\ s[at + 3] = Lf
      BY <2>1, <2>2, CrLfOccurs
    <3>2. ~Plain(s)
      BY <2>1, <3>1 DEF Plain
    <3> QED BY <2>2, <3>1, <3>2 DEF OneKind
  <2>3. CASE w = 2 /\ Occurs(LfTwice, s, at)
    <3>1. s[at] = Lf /\ s[at + 1] = Lf
      BY <2>1, <2>3, LfOccurs
    <3>2. ~Pairs(s)
      BY <2>1, <3>1, Separators DEF Pairs
    <3> QED BY <2>3, <3>1, <3>2 DEF OneKind
  <2> QED BY <1>3, <2>2, <2>3 DEF EndsEvent
<1>7. OneKind(raw)
  <2>1. CASE Plain(s)
    <3>1. \A k \in 1..Len(raw) : k \in 1..Len(s) /\ raw[k] = s[k]
      BY <1>2, <1>3, <1>4
    <3> QED BY <2>1, <3>1 DEF Plain, OneKind
  <2>2. CASE Pairs(s) /\ s[at] = Cr
    <3>1. ASSUME NEW k \in 1..Len(raw)
          PROVE  /\ raw[k] = Cr => k + 1 <= Len(raw) /\ raw[k + 1] = Lf
                 /\ raw[k] = Lf => k - 1 >= 1 /\ raw[k - 1] = Cr
      <4>1. k \in 1..Len(s) /\ k \in 1..(at - 1) /\ raw[k] = s[k]
        BY <1>2, <1>3, <1>4
      <4>2. ASSUME raw[k] = Cr PROVE k + 1 <= Len(raw) /\ raw[k + 1] = Lf
        <5>1. s[k + 1] = Lf
          BY <2>2, <4>1, <4>2 DEF Pairs
        <5>2. k + 1 # at
          BY <2>2, <5>1, Separators
        <5>3. k + 1 \in 1..(at - 1)
          BY <4>1, <5>2
        <5> QED BY <1>4, <5>1, <5>3
      <4>3. ASSUME raw[k] = Lf PROVE k - 1 >= 1 /\ raw[k - 1] = Cr
        <5>1. k - 1 >= 1 /\ s[k - 1] = Cr
          BY <2>2, <4>1, <4>3 DEF Pairs
        <5>2. k - 1 \in 1..(at - 1)
          BY <4>1, <5>1
        <5> QED BY <1>4, <5>1, <5>2
      <4> QED BY <4>2, <4>3
    <3> QED BY <3>1 DEF Pairs, OneKind
  <2> QED BY <1>6, <2>1, <2>2
<1>8. OneKind(rest)
  <2> DEFINE d == at + w - 1
  <2>0. d \in Nat /\ Len(rest) = Len(s) - d /\ \A k \in 1..Len(rest) : k + d \in 1..Len(s) /\ rest[k] = s[k + d]
    <3>1. Len(s) \in Nat /\ w \in Nat /\ at \in Nat /\ at >= 1 /\ at + w <= Len(s) + 1
      BY <1>2, <1>3
    <3>2. d \in Nat /\ Len(rest) = Len(s) - d /\ Len(s) + 1 - (at + w) = Len(s) - d
      BY <1>5, <3>1
    <3>3. ASSUME NEW k \in 1..Len(rest) PROVE k + d \in 1..Len(s) /\ rest[k] = s[k + d]
      <4>1. k \in 1..(Len(s) + 1 - (at + w)) /\ k + (at + w - 1) = k + d
        BY <3>1, <3>2
      <4>2. k + d \in 1..Len(s)
        <5> HIDE DEF d
        <5> QED BY <3>1, <3>2
      <4> QED BY <1>5, <4>1, <4>2
    <3> QED BY <3>2, <3>3
  <2>d. w = 4 => d = at + 3
    OBVIOUS
  <2> HIDE DEF d
  <2>1. CASE Plain(s)
    BY <2>0, <2>1 DEF Plain, OneKind
  <2>2. CASE Pairs(s) /\ s[d] = Lf
    <3>1. ASSUME NEW k \in 1..Len(rest)
          PROVE  /\ rest[k] = Cr => k + 1 <= Len(rest) /\ rest[k + 1] = Lf
                 /\ rest[k] = Lf => k - 1 >= 1 /\ rest[k - 1] = Cr
      <4>1. k + d \in 1..Len(s) /\ rest[k] = s[k + d]
        BY <2>0
      <4>2. ASSUME rest[k] = Cr PROVE k + 1 <= Len(rest) /\ rest[k + 1] = Lf
        <5>1. (k + d) + 1 <= Len(s) /\ s[(k + d) + 1] = Lf
          BY <2>2, <4>1, <4>2 DEF Pairs
        <5>2. k + 1 \in 1..Len(rest) /\ (k + 1) + d = (k + d) + 1
          BY <1>3, <2>0, <4>1, <5>1
        <5>3. rest[k + 1] = s[(k + 1) + d]
          BY <2>0, <5>2
        <5> QED BY <1>3, <2>0, <5>1, <5>2, <5>3
      <4>3. ASSUME rest[k] = Lf PROVE k - 1 >= 1 /\ rest[k - 1] = Cr
        <5>1. s[(k + d) - 1] = Cr
          BY <2>2, <4>1, <4>3 DEF Pairs
        <5>2. k # 1
          <6>1. (1 + d) - 1 = d
            BY <2>0
          <6> QED BY <2>2, <5>1, <6>1, Separators
        <5>3. k - 1 \in 1..Len(rest) /\ (k - 1) + d = (k + d) - 1
          BY <1>3, <2>0, <5>2
        <5>4. rest[k - 1] = s[(k - 1) + d]
          BY <2>0, <5>3
        <5> QED BY <5>1, <5>3, <5>4
      <4> QED BY <4>2, <4>3
    <3> QED BY <3>1 DEF Pairs, OneKind
  <2> QED BY <1>6, <2>d, <2>1, <2>2
<1>9. Unseparated(raw)
  <2>1. \A k \in 1..Len(raw) : raw[k] = s[k]
    BY <1>4
  <2>2. ASSUME NEW j \in Nat, Occurs(CrLfTwice, raw, j) PROVE FALSE
    <3>1. /\ j >= 1 /\ j + 3 <= Len(raw)
          /\ raw[j] = Cr /\ raw[j + 1] = Lf /\ raw[j + 2] = Cr /\ raw[j + 3] = Lf
      BY <2>2, CrLfOccurs
    <3>2. j \in 1..Len(raw) /\ j + 1 \in 1..Len(raw) /\ j + 2 \in 1..Len(raw) /\ j + 3 \in 1..Len(raw)
          /\ j + 3 <= Len(s) /\ j < at
      BY <1>2, <1>3, <1>4, <3>1
    <3>3. Occurs(CrLfTwice, s, j)
      BY <2>1, <3>1, <3>2, CrLfOccurs
    <3>4. at <= j
      BY <1>3, <3>3 DEF EndsEvent
    <3> QED BY <3>2, <3>4
  <2>3. ASSUME NEW j \in Nat, Occurs(LfTwice, raw, j) PROVE FALSE
    <3>1. j >= 1 /\ j + 1 <= Len(raw) /\ raw[j] = Lf /\ raw[j + 1] = Lf
      BY <2>3, LfOccurs
    <3>2. j \in 1..Len(raw) /\ j + 1 \in 1..Len(raw) /\ j + 1 <= Len(s) /\ j < at
      BY <1>2, <1>3, <1>4, <3>1
    <3>3. Occurs(LfTwice, s, j)
      BY <2>1, <3>1, <3>2, LfOccurs
    <3>4. at <= j
      BY <1>3, <3>3 DEF EndsEvent
    <3> QED BY <3>2, <3>4
  <2> QED BY <2>2, <2>3 DEF Unseparated
<1>10. ASSUME Len(raw) # 0 PROVE raw[Len(raw)] \notin Breaks
  <2>1. at - 1 \in 1..(at - 1) /\ at - 1 \in 1..Len(s) /\ at - 1 \in Nat /\ (at - 1) + 1 = at /\ at - 1 < at
    BY <1>2, <1>3, <1>4, <1>10
  <2>2. raw[Len(raw)] = s[at - 1]
    BY <1>4, <2>1
  <2>3. s[at - 1] # Cr
    BY <1>6, <2>1, Separators DEF Plain, Pairs
  <2>4. ASSUME s[at - 1] = Lf PROVE FALSE
    <3>1. CASE w = 2 /\ s[at] = Lf
      <4>1. Occurs(LfTwice, s, at - 1)
        BY <1>2, <1>3, <2>1, <2>4, <3>1, LfOccurs
      <4>2. at <= at - 1
        BY <1>3, <2>1, <4>1 DEF EndsEvent
      <4> QED BY <2>1, <4>2
    <3>2. CASE w = 4 /\ Pairs(s) /\ s[at] = Cr /\ s[at + 1] = Lf
      <4>1. (at - 1) - 1 >= 1 /\ s[(at - 1) - 1] = Cr
        BY <2>1, <2>4, <3>2 DEF Pairs
      <4>2. PICK j \in Nat : j = (at - 1) - 1 /\ j >= 1 /\ j + 1 = at - 1 /\ j + 2 = at /\ j + 3 = at + 1 /\ j < at
        <5>1. /\ (at - 1) - 1 \in Nat /\ ((at - 1) - 1) + 1 = at - 1 /\ ((at - 1) - 1) + 2 = at
              /\ ((at - 1) - 1) + 3 = at + 1 /\ (at - 1) - 1 < at
          BY <4>1
        <5> QED BY <4>1, <5>1
      <4>3. Occurs(CrLfTwice, s, j)
        <5>1. s[j] = Cr /\ s[j + 1] = Lf /\ s[j + 2] = Cr /\ s[j + 3] = Lf
          BY <2>4, <3>2, <4>1, <4>2
        <5>2. j + 3 <= Len(s)
          BY <1>2, <1>3, <3>2, <4>2
        <5> QED BY <4>2, <5>1, <5>2, CrLfOccurs
      <4>4. at <= j
        BY <1>3, <4>3 DEF EndsEvent
      <4> QED BY <4>2, <4>4
    <3> QED BY <1>6, <3>1, <3>2
  <2> QED BY <2>2, <2>3, <2>4 DEF Breaks
<1>11. PICK m \in Text : Len(m) = w /\ Fed(m) = LfTwice /\ \A k \in 1..w : s[k + (at - 1)] = m[k]
  <2>1. 1 + (at - 1) = at /\ 2 + (at - 1) = at + 1 /\ 3 + (at - 1) = at + 2 /\ 4 + (at - 1) = at + 3
    OBVIOUS
  <2>2. CASE w = 2 /\ s[at] = Lf /\ s[at + 1] = Lf
    <3>1. \A k \in 1..2 : k = 1 \/ k = 2
      OBVIOUS
    <3>2. PICK m \in Text : m = LfTwice /\ Len(m) = 2 /\ m[1] = Lf /\ m[2] = Lf
      BY Separators
    <3>3. \A k \in 1..2 : s[k + (at - 1)] = m[k]
      BY <2>1, <2>2, <3>1, <3>2
    <3> QED BY <2>2, <3>2, <3>3, FedSeparators
  <2>3. CASE w = 4 /\ s[at] = Cr /\ s[at + 1] = Lf /\ s[at + 2] = Cr /\ s[at + 3] = Lf
    <3>1. \A k \in 1..4 : k = 1 \/ k = 2 \/ k = 3 \/ k = 4
      OBVIOUS
    <3>2. PICK m \in Text : /\ m = CrLfTwice /\ Len(m) = 4
                            /\ m[1] = Cr /\ m[2] = Lf /\ m[3] = Cr /\ m[4] = Lf
      BY Separators
    <3>3. \A k \in 1..4 : s[k + (at - 1)] = m[k]
      BY <2>1, <2>3, <3>1, <3>2
    <3> QED BY <2>3, <3>2, <3>3, FedSeparators
  <2> QED BY <1>6, <2>2, <2>3
<1>12. Fed(s) = (Fed(raw) \o LfTwice) \o Fed(rest)
  <2>1. s = (raw \o m) \o rest
    BY <1>2, <1>4, <1>5, <1>11, Middle, ZenonT(60)
  <2>2. PICK u \in Text : u = raw \o m
    BY ConcatProperties DEF Text
  <2>3. Fed(s) = Fed(u) \o Fed(rest) /\ Fed(u) = Fed(raw) \o Fed(m)
    BY <2>1, <2>2, FedConcat
  <2> QED BY <1>11, <2>3
<1>13. Len(rest) < Len(s)
  <2>1. Len(s) \in Nat /\ w \in Nat /\ w >= 2 /\ at \in Nat /\ at >= 1
    BY <1>3
  <2>2. Len(rest) = Len(s) + 1 - (at + w)
    BY <1>5
  <2> QED BY <2>1, <2>2
<1> QED BY <1>1, <1>2, <1>4, <1>5, <1>7, <1>8, <1>9, <1>10, <1>12, <1>13 DEF FirstIs

-----------------------------------------------------------------------------
(* A client *)

(* Where an event that ends at i begins for a client. *)
Begin(u, i) == Max({1} \cup {j \in Ends(u) : j < i})

IsBegin(u, i, b) ==
  /\ b \in 1..(i - 1)
  /\ b = 1 \/ b \in Ends(u)
  /\ \A j \in Ends(u) : j < i => j <= b

LEMMA BeginIs ==
  ASSUME NEW u \in Text, NEW i \in Ends(u)
  PROVE  IsBegin(u, i, Begin(u, i))
<1>1. Len(u) \in Nat /\ i \in 2..(Len(u) - 1) /\ \A j \in Ends(u) : j \in 2..(Len(u) - 1)
  BY LenProperties DEF Text, Ends
<1>2. PICK n \in Nat : n = i - 1 /\ n >= 1
  BY <1>1
<1>3. PICK t \in SUBSET (1..n) : t = {1} \cup {j \in Ends(u) : j < i}
  <2>1. ASSUME NEW j \in Ends(u), j < i PROVE j \in 1..n
    <3>1. j \in 2..(Len(u) - 1)
      BY <1>1
    <3> QED BY <1>1, <1>2, <2>1, <3>1
  <2>2. 1 \in 1..n
    BY <1>2
  <2>3. {1} \cup {j \in Ends(u) : j < i} \in SUBSET (1..n)
    BY <2>1, <2>2
  <2> QED BY <2>3
<1>4. 1 \in t
  BY <1>3
<1>5. Max(t) \in t /\ \A x \in t : x <= Max(t)
  BY <1>4, MaxWithin
<1>6. Begin(u, i) = Max(t)
  BY <1>3 DEF Begin
<1>7. \A j \in Ends(u) : j < i => j \in t
  BY <1>3
<1>8. Max(t) \in 1..(i - 1) /\ (Max(t) = 1 \/ Max(t) \in Ends(u))
  BY <1>1, <1>2, <1>3, <1>5
<1> QED BY <1>5, <1>6, <1>7, <1>8 DEF IsBegin

LEMMA BeginUnique ==
  ASSUME NEW u \in Text, NEW i \in Ends(u), NEW b, IsBegin(u, i, b)
  PROVE  Begin(u, i) = b
<1>1. Len(u) \in Nat /\ i \in 2..(Len(u) - 1) /\ \A j \in Ends(u) : j \in 2..(Len(u) - 1)
  BY LenProperties DEF Text, Ends
<1>2. PICK c : c = Begin(u, i)
  OBVIOUS
<1>3. IsBegin(u, i, c)
  BY <1>2, BeginIs
<1>4. c \in 1..(i - 1) /\ b \in 1..(i - 1) /\ c < i /\ b < i
  BY <1>1, <1>3 DEF IsBegin
<1>5. c <= b /\ b <= c
  BY <1>1, <1>3, <1>4 DEF IsBegin
<1> QED BY <1>2, <1>4, <1>5

-----------------------------------------------------------------------------
(* What a client is told at each line feed of u, and in all. *)
ClientAt(u) ==
  [i \in DOMAIN u |-> IF i \in Ends(u) THEN Told(Data(SubSeq(u, Begin(u, i), i))) ELSE <<>>]

Client(u) == FlattenSeq(ClientAt(u))

LEMMA Stretch ==
  ASSUME NEW s \in Text, NEW i \in 1..Len(s), NEW j \in i..Len(s)
  PROVE  /\ SubSeq(s, i, j) \in Text /\ Len(SubSeq(s, i, j)) = j - i + 1
         /\ \A k \in 1..(j - i + 1) : SubSeq(s, i, j)[k] = s[i + k - 1]
<1>1. Len(s) \in Nat /\ i \in Int /\ j \in Int /\ i <= j /\ 1 <= i /\ j <= Len(s)
  BY LenProperties DEF Text
<1>2. \A k \in i..j : s[k] \in Bytes
  <2>1. \A k \in 1..Len(s) : s[k] \in Bytes
    BY ElementOfSeq DEF Text
  <2> QED BY <1>1, <2>1
<1> QED BY <1>1, <1>2, SubSeqProperties DEF Text

LEMMA ToldType ==
  ASSUME NEW L, L = Text \ {<<>>}, NEW s \in Text
  PROVE  Told(Data(s)) \in Seq(Seq(L))
<1>1. PICK d \in Seq(L) : d = Data(s)
  BY DataType
<1>2. <<d>> \in Seq(Seq(L)) /\ <<>> \in Seq(Seq(L))
  OBVIOUS
<1> QED BY <1>1, <1>2 DEF Told

LEMMA ClientType ==
  ASSUME NEW L, L = Text \ {<<>>}, NEW u \in Text
  PROVE  ClientAt(u) \in [1..Len(u) -> Seq(Seq(L))]
<1>1. DOMAIN u = 1..Len(u) /\ Len(u) \in Nat
  BY LenProperties DEF Text
<1>2. ASSUME NEW i \in 1..Len(u)
      PROVE  (IF i \in Ends(u) THEN Told(Data(SubSeq(u, Begin(u, i), i))) ELSE <<>>) \in Seq(Seq(L))
  <2>1. CASE i \in Ends(u)
    <3>1. Begin(u, i) \in 1..(i - 1)
      BY <2>1, BeginIs DEF IsBegin
    <3>2. PICK b \in 1..Len(u) : b = Begin(u, i) /\ i \in b..Len(u)
      BY <1>1, <3>1
    <3>3. SubSeq(u, b, i) \in Text
      BY <3>2, Stretch
    <3>4. PICK x \in Text : x = SubSeq(u, b, i)
      BY <3>3
    <3>5. Told(Data(x)) \in Seq(Seq(L))
      BY ToldType
    <3> QED BY <2>1, <3>2, <3>4, <3>5
  <2>2. CASE i \notin Ends(u)
    <3>1. <<>> \in Seq(Seq(L))
      OBVIOUS
    <3> QED BY <2>2, <3>1
  <2> QED BY <2>1, <2>2
<1> QED BY <1>1, <1>2 DEF ClientAt

(* There is nothing to tell before a blank line. *)
LEMMA ClientNone ==
  ASSUME NEW u \in Text, Separate(u)
  PROVE  Client(u) = <<>>
<1>1. PICK L : L = Text \ {<<>>}
  OBVIOUS
<1>2. PICK n \in Nat : n = Len(u) /\ DOMAIN u = 1..n
  BY LenProperties DEF Text
<1>3. Ends(u) = {}
  <2>1. ASSUME NEW i \in Ends(u) PROVE FALSE
    <3>1. i \in Nat /\ i >= 1 /\ i + 1 <= Len(u) /\ u[i] = Lf /\ u[i + 1] = Lf
      BY <1>2 DEF Ends
    <3> QED BY <3>1 DEF Separate
  <2> QED BY <2>1
<1>4. PICK S : S = Seq(L)
  OBVIOUS
<1>5. PICK ss \in [1..n -> Seq(S)] : ss = ClientAt(u)
  BY <1>1, <1>2, <1>4, ClientType
<1>6. \A i \in 1..n : ss[i] = <<>>
  BY <1>2, <1>3, <1>5 DEF ClientAt
<1>7. FlattenSeq(ss) = <<>>
  BY <1>6, FlattenNone
<1> QED BY <1>5, <1>7 DEF Client

(* A break at the beginning of a stretch has no data. *)
LEMMA BreakFirst ==
  ASSUME NEW s \in Text, NEW i \in 1..Len(s), NEW j \in (i + 1)..Len(s), s[i] \in Breaks
  PROVE  Data(SubSeq(s, i, j)) = Data(SubSeq(s, i + 1, j))
<1>1. Len(s) \in Nat /\ i \in Int /\ j \in Int /\ i + 1 \in 1..Len(s) /\ j \in i..Len(s)
  BY LenProperties DEF Text
<1>2. PICK x \in Text : /\ x = SubSeq(s, i, j) /\ Len(x) = j - i + 1
                        /\ \A k \in 1..(j - i + 1) : x[k] = s[i + k - 1]
  BY <1>1, Stretch
<1>3. PICK p \in 1..Len(s) : p = i + 1
  BY <1>1
<1>4. PICK y \in Text : /\ y = SubSeq(s, p, j) /\ Len(y) = j - p + 1
                        /\ \A k \in 1..(j - p + 1) : y[k] = s[p + k - 1]
  BY <1>3, Stretch
<1>5. PICK none \in Text : none = <<>> /\ Len(none) = 0
  BY DataType
<1>6. Broken(x, none, y)
  <2>1. Len(x) = 0 + 1 + Len(y) /\ 0 + 1 = 1 /\ 1 \in 1..(j - i + 1) /\ i + 1 - 1 = i
    BY <1>1, <1>2, <1>3, <1>4
  <2>2. x[1] \in Breaks
    BY <1>2, <2>1
  <2>3. ASSUME NEW k \in 1..Len(y) PROVE x[k + 1] = y[k]
    <3>1. k \in 1..(j - p + 1) /\ k + 1 \in 1..(j - i + 1) /\ i + (k + 1) - 1 = p + k - 1
      BY <1>1, <1>3, <1>4
    <3> QED BY <1>2, <1>4, <3>1
  <2> QED BY <1>5, <2>1, <2>2, <2>3 DEF Broken
<1>7. Data(x) = Data(y)
  BY <1>5, <1>6, DataBesideBreak
<1> QED BY <1>2, <1>3, <1>4, <1>7

(* u is a, a blank line behind it, and v. *)
Blanked(u, a, v) ==
  /\ Len(u) = Len(a) + 2 + Len(v)
  /\ \A i \in 1..Len(a) : u[i] = a[i]
  /\ u[Len(a) + 1] = Lf /\ u[Len(a) + 2] = Lf
  /\ \A i \in 1..Len(v) : u[i + (Len(a) + 2)] = v[i]

LEMMA IsBlanked ==
  ASSUME NEW a \in Text, NEW v \in Text
  PROVE  (a \o LfTwice) \o v \in Text /\ Blanked((a \o LfTwice) \o v, a, v)
<1>1. Len(a) \in Nat /\ Len(v) \in Nat
  BY LenProperties DEF Text
<1>2. PICK m \in Text : m = LfTwice /\ Len(m) = 2 /\ m[1] = Lf /\ m[2] = Lf
  BY Separators
<1>3. PICK y \in Text : /\ y = a \o m /\ Len(y) = Len(a) + 2
                        /\ \A k \in 1..(Len(a) + 2) : y[k] = IF k <= Len(a) THEN a[k] ELSE m[k - Len(a)]
  <2>1. /\ a \o m \in Text /\ Len(a \o m) = Len(a) + Len(m)
        /\ \A k \in 1..(Len(a) + Len(m)) : (a \o m)[k] = IF k <= Len(a) THEN a[k] ELSE m[k - Len(a)]
    BY ConcatProperties DEF Text
  <2> QED BY <1>2, <2>1
<1>4. PICK u \in Text : /\ u = y \o v /\ Len(u) = Len(y) + Len(v)
                        /\ \A k \in 1..(Len(y) + Len(v)) : u[k] = IF k <= Len(y) THEN y[k] ELSE v[k - Len(y)]
  <2>1. /\ y \o v \in Text /\ Len(y \o v) = Len(y) + Len(v)
        /\ \A k \in 1..(Len(y) + Len(v)) : (y \o v)[k] = IF k <= Len(y) THEN y[k] ELSE v[k - Len(y)]
    BY ConcatProperties DEF Text
  <2> QED BY <2>1
<1>5. ASSUME NEW k \in 1..Len(a) PROVE u[k] = a[k]
  <2>1. k \in 1..(Len(a) + 2) /\ k <= Len(a) /\ k <= Len(y) /\ k \in 1..(Len(y) + Len(v))
    BY <1>1, <1>3
  <2> QED BY <1>3, <1>4, <2>1
<1>6. u[Len(a) + 1] = Lf /\ u[Len(a) + 2] = Lf
  <2>1. ASSUME NEW k \in {1, 2} PROVE u[Len(a) + k] = m[k]
    <3>1. /\ Len(a) + k \in 1..(Len(a) + 2) /\ ~(Len(a) + k <= Len(a)) /\ (Len(a) + k) - Len(a) = k
          /\ Len(a) + k <= Len(y) /\ Len(a) + k \in 1..(Len(y) + Len(v))
      BY <1>1, <1>3
    <3> QED BY <1>3, <1>4, <3>1
  <2> QED BY <1>2, <2>1
<1>7. ASSUME NEW k \in 1..Len(v) PROVE u[k + (Len(a) + 2)] = v[k]
  <2>1. /\ k + (Len(a) + 2) \in 1..(Len(y) + Len(v)) /\ ~(k + (Len(a) + 2) <= Len(y))
        /\ (k + (Len(a) + 2)) - Len(y) = k
    BY <1>1, <1>3
  <2> QED BY <1>4, <2>1
<1>8. Blanked(u, a, v)
  <2>1. Len(u) = Len(a) + 2 + Len(v)
    BY <1>3, <1>4
  <2> QED BY <1>5, <1>6, <1>7, <2>1 DEF Blanked
<1> QED BY <1>2, <1>3, <1>4, <1>8

(* Events end where those of v do, and where a, unless it is empty, does. *)
LEMMA EndsBlanked ==
  ASSUME NEW u \in Text, NEW a \in Text, NEW v \in Text, Blanked(u, a, v),
         Separate(a), ~LastIs(a, Lf)
  PROVE  /\ \A i \in 1..(Len(a) + 2) : i \in Ends(u) <=> i = Len(a) + 1 /\ Len(a) # 0
         /\ \A k \in 1..Len(v) : k + (Len(a) + 2) \in Ends(u) <=> k \in Ends(v)
<1>1. PICK n \in Nat : n = Len(a)
  BY LenProperties DEF Text
<1>2. Len(v) \in Nat /\ Len(u) = n + 2 + Len(v) /\ Len(u) \in Nat
  BY <1>1, LenProperties DEF Text, Blanked
<1>3. /\ \A i \in 1..n : u[i] = a[i]
      /\ u[n + 1] = Lf /\ u[n + 2] = Lf
      /\ \A i \in 1..Len(v) : u[i + (n + 2)] = v[i]
  BY <1>1 DEF Blanked
<1>4. ASSUME NEW i \in 1..(n + 2) PROVE i \in Ends(u) <=> i = n + 1 /\ n # 0
  <2>1. CASE i < n
    <3>1. i \in Nat /\ i >= 1 /\ i \in 1..n /\ i + 1 \in 1..n /\ i + 1 <= Len(a) /\ i # n + 1
      BY <1>1, <2>1
    <3>2. ~(a[i] = Lf /\ a[i + 1] = Lf)
      BY <3>1 DEF Separate
    <3>3. i \notin Ends(u)
      BY <1>3, <3>1, <3>2 DEF Ends
    <3> QED BY <3>1, <3>3
  <2>2. CASE i = n
    <3>1. n # 0 /\ i \in 1..n /\ i # n + 1
      BY <2>2
    <3>2. a[n] # Lf
      BY <1>1, <3>1 DEF LastIs
    <3>3. i \notin Ends(u)
      BY <1>3, <2>2, <3>1, <3>2 DEF Ends
    <3> QED BY <3>1, <3>3
  <2>3. CASE i = n + 1
    <3>1. CASE n = 0
      <4>1. i \notin 2..(Len(u) - 1)
        BY <2>3, <3>1
      <4> QED BY <3>1, <4>1 DEF Ends
    <3>2. CASE n # 0
      <4>1. i \in 2..(Len(u) - 1) /\ i + 1 = n + 2 /\ i - 1 = n /\ n \in 1..n
        BY <1>2, <2>3, <3>2
      <4>2. a[n] # Lf
        BY <1>1, <3>2 DEF LastIs
      <4>3. i \in Ends(u)
        BY <1>3, <2>3, <4>1, <4>2 DEF Ends
      <4> QED BY <2>3, <3>2, <4>3
    <3> QED BY <3>1, <3>2
  <2>4. CASE i = n + 2
    <3>1. i - 1 = n + 1 /\ i # n + 1
      BY <2>4
    <3> QED BY <1>3, <3>1 DEF Ends
  <2> QED BY <2>1, <2>2, <2>3, <2>4
<1>5. ASSUME NEW k \in 1..Len(v) PROVE k + (n + 2) \in Ends(u) <=> k \in Ends(v)
  <2>0. k + (n + 2) \in Nat /\ k \in Nat /\ k >= 1 /\ u[k + (n + 2)] = v[k]
    BY <1>3
  <2>1. CASE k = 1
    <3>1. (k + (n + 2)) - 1 = n + 2 /\ k \notin 2..(Len(v) - 1)
      BY <2>1
    <3> QED BY <1>3, <3>1 DEF Ends
  <2>2. CASE k = Len(v)
    <3>1. k + (n + 2) \notin 2..(Len(u) - 1) /\ k \notin 2..(Len(v) - 1)
      BY <1>2, <2>2
    <3> QED BY <3>1 DEF Ends
  <2>3. CASE k # 1 /\ k # Len(v)
    <3>1. /\ k \in 2..(Len(v) - 1) /\ k + (n + 2) \in 2..(Len(u) - 1)
          /\ k - 1 \in 1..Len(v) /\ k + 1 \in 1..Len(v)
          /\ (k + (n + 2)) - 1 = (k - 1) + (n + 2) /\ (k + (n + 2)) + 1 = (k + 1) + (n + 2)
      BY <1>2, <2>3
    <3>2. u[(k - 1) + (n + 2)] = v[k - 1] /\ u[(k + 1) + (n + 2)] = v[k + 1]
      BY <1>3, <3>1
    <3> QED BY <2>0, <3>1, <3>2 DEF Ends
  <2> QED BY <2>1, <2>2, <2>3
<1> QED BY <1>1, <1>4, <1>5

(* The event of a, ... *)
LEMMA ClientFirst ==
  ASSUME NEW u \in Text, NEW a \in Text, NEW v \in Text, Blanked(u, a, v),
         Separate(a), ~LastIs(a, Lf)
  PROVE  /\ ClientAt(u)[Len(a) + 1] = Told(Data(a))
         /\ \A i \in 1..(Len(a) + 2) : i # Len(a) + 1 => ClientAt(u)[i] = <<>>
<1>1. PICK n \in Nat : n = Len(a)
  BY LenProperties DEF Text
<1>2. Len(v) \in Nat /\ Len(u) = n + 2 + Len(v) /\ DOMAIN u = 1..Len(u)
  BY <1>1, LenProperties DEF Text, Blanked
<1>3. \A i \in 1..(n + 2) : i \in DOMAIN u /\ (i \in Ends(u) <=> i = n + 1 /\ n # 0)
  BY <1>1, <1>2, EndsBlanked
<1>4. \A i \in 1..(n + 2) : i # n + 1 => ClientAt(u)[i] = <<>>
  BY <1>3 DEF ClientAt
<1>5. ClientAt(u)[n + 1] = Told(Data(a))
  <2>0. n + 1 \in 1..(n + 2)
    OBVIOUS
  <2>1. CASE n = 0
    <3>1. ClientAt(u)[n + 1] = <<>>
      BY <1>3, <2>0, <2>1 DEF ClientAt
    <3>2. a = <<>>
      BY <1>1, <2>1, EmptySeq DEF Text
    <3>3. Told(Data(a)) = <<>>
      BY <3>2, DataType DEF Told
    <3> QED BY <3>1, <3>3
  <2>2. CASE n # 0
    <3>1. n + 1 \in Ends(u)
      BY <1>3, <2>0, <2>2
    <3>2. IsBegin(u, n + 1, 1)
      <4>1. 1 \in 1..((n + 1) - 1)
        BY <2>2
      <4>2. ASSUME NEW j \in Ends(u), j < n + 1 PROVE FALSE
        <5>1. j \in 1..(n + 2) /\ j # n + 1
          BY <4>2 DEF Ends
        <5> QED BY <1>3, <5>1
      <4> QED BY <4>1, <4>2 DEF IsBegin
    <3>3. Begin(u, n + 1) = 1
      BY <3>1, <3>2, BeginUnique
    <3>4. PICK x \in Text : /\ x = SubSeq(u, 1, n + 1) /\ Len(x) = n + 1
                            /\ \A k \in 1..(n + 1) : x[k] = u[k]
      <4>1. 1 \in 1..Len(u) /\ n + 1 \in 1..Len(u) /\ (n + 1) - 1 + 1 = n + 1
        BY <1>2
      <4>2. /\ SubSeq(u, 1, n + 1) \in Text /\ Len(SubSeq(u, 1, n + 1)) = (n + 1) - 1 + 1
            /\ \A k \in 1..((n + 1) - 1 + 1) : SubSeq(u, 1, n + 1)[k] = u[1 + k - 1]
        BY <4>1, Stretch
      <4>3. \A k \in 1..(n + 1) : 1 + k - 1 = k
        OBVIOUS
      <4> QED BY <4>1, <4>2, <4>3
    <3>5. PICK none \in Text : none = <<>> /\ Len(none) = 0
      BY DataType
    <3>6. Broken(x, a, none)
      <4>1. Len(x) = Len(a) + 1 + 0 /\ 1..0 = {}
        BY <1>1, <3>4
      <4>2. \A i \in 1..Len(a) : i \in 1..(n + 1) /\ u[i] = a[i]
        BY <1>1 DEF Blanked
      <4>3. x[n + 1] = Lf
        <5>1. n + 1 \in 1..(n + 1) /\ u[n + 1] = Lf
          BY <1>1 DEF Blanked
        <5> QED BY <3>4, <5>1
      <4> QED BY <1>1, <3>4, <3>5, <4>1, <4>2, <4>3 DEF Broken, Breaks
    <3>7. Data(x) = Data(a)
      BY <3>5, <3>6, DataBesideBreak
    <3>8. ClientAt(u)[n + 1] = Told(Data(SubSeq(u, Begin(u, n + 1), n + 1)))
      BY <1>3, <2>0, <3>1 DEF ClientAt
    <3> QED BY <3>3, <3>4, <3>7, <3>8
  <2> QED BY <2>1, <2>2
<1> QED BY <1>1, <1>4, <1>5

(* ... and those of v. *)
LEMMA ClientRest ==
  ASSUME NEW u \in Text, NEW a \in Text, NEW v \in Text, Blanked(u, a, v),
         Separate(a), ~LastIs(a, Lf), NEW k \in 1..Len(v)
  PROVE  ClientAt(u)[k + (Len(a) + 2)] = ClientAt(v)[k]
<1>1. PICK n \in Nat : n = Len(a)
  BY LenProperties DEF Text
<1>2. PICK c \in Nat : c = n + 2
  OBVIOUS
<1>3. /\ Len(v) \in Nat /\ Len(u) = c + Len(v) /\ Len(u) \in Nat
      /\ DOMAIN u = 1..Len(u) /\ DOMAIN v = 1..Len(v)
  BY <1>1, <1>2, LenProperties DEF Text, Blanked
<1>4. /\ \A i \in 1..c : i \in Ends(u) <=> i = n + 1 /\ n # 0
      /\ \A i \in 1..Len(v) : i + c \in Ends(u) <=> i \in Ends(v)
      /\ \A i \in 1..Len(v) : u[i + c] = v[i]
      /\ u[n + 1] = Lf /\ u[c] = Lf
  <2>1. Len(a) + 2 = c /\ Len(a) = n
    BY <1>1, <1>2
  <2>2. /\ \A i \in 1..(Len(a) + 2) : i \in Ends(u) <=> i = Len(a) + 1 /\ Len(a) # 0
        /\ \A i \in 1..Len(v) : i + (Len(a) + 2) \in Ends(u) <=> i \in Ends(v)
    BY EndsBlanked
  <2>3. /\ \A i \in 1..Len(v) : u[i + (Len(a) + 2)] = v[i]
        /\ u[Len(a) + 1] = Lf /\ u[Len(a) + 2] = Lf
    BY DEF Blanked
  <2> QED BY <2>1, <2>2, <2>3
<1>5. k + c \in DOMAIN u /\ k \in DOMAIN v /\ k \in Int
  BY <1>3
<1>6. CASE k \notin Ends(v)
  BY <1>1, <1>2, <1>4, <1>5, <1>6 DEF ClientAt
<1>7. CASE k \in Ends(v)
  <2>1. k + c \in Ends(u) /\ k \in 2..(Len(v) - 1)
    BY <1>4, <1>7 DEF Ends
  <2>2. PICK b : b = Begin(v, k)
    OBVIOUS
  <2>3. IsBegin(v, k, b)
    BY <1>7, <2>2, BeginIs
  <2>4. b \in 1..(k - 1) /\ b \in 1..Len(v) /\ b \in Nat /\ k \in b..Len(v) /\ b >= 1
    BY <1>3, <1>5, <2>1, <2>3 DEF IsBegin
  <2>5. ASSUME NEW j \in Ends(u), j < k + c, j > c PROVE j - c \in Ends(v) /\ j <= b + c
    <3>1. j \in Int /\ j - c \in 1..Len(v) /\ (j - c) + c = j /\ j - c < k
      BY <1>3, <2>5 DEF Ends
    <3>2. j - c \in Ends(v)
      BY <1>4, <3>1
    <3>3. j - c <= b
      BY <2>3, <3>1, <3>2 DEF IsBegin
    <3> QED BY <2>4, <3>1, <3>2, <3>3
  <2>6. Data(SubSeq(u, Begin(u, k + c), k + c)) = Data(SubSeq(v, b, k))
    <3>0. Alike(v, u, b, k, c)
      <4>1. b + c >= 1 /\ k + c <= Len(u) /\ c \in Int /\ \A i \in b..k : i \in 1..Len(v)
        BY <1>3, <2>4, <1>5
      <4>2. Stands(v, u, b, k, c)
        BY <1>4, <2>4, <4>1 DEF Stands
      <4> QED BY <2>4, <4>2, SameStretch
    <3>1. CASE b \in Ends(v)
      <4>1. IsBegin(u, k + c, b + c)
        <5>1. b + c \in 1..((k + c) - 1) /\ b + c \in Ends(u)
          BY <1>4, <1>5, <2>4, <3>1
        <5>2. ASSUME NEW j \in Ends(u), j < k + c PROVE j <= b + c
          <6>1. CASE j > c
            BY <2>5, <5>2, <6>1
          <6>2. CASE ~(j > c)
            <7>1. j \in Int
              BY <1>3 DEF Ends
            <7> QED BY <2>4, <6>2, <7>1
          <6> QED BY <6>1, <6>2
        <5> QED BY <5>1, <5>2 DEF IsBegin
      <4>2. Begin(u, k + c) = b + c
        BY <2>1, <4>1, BeginUnique
      <4> QED BY <3>0, <4>2 DEF Alike
    <3>2. CASE b \notin Ends(v)
      <4>1. b = 1
        BY <2>3, <3>2 DEF IsBegin
      <4>2. IsBegin(u, k + c, n + 1)
        <5>1. n + 1 \in 1..((k + c) - 1) /\ n + 1 \in 1..c /\ (n + 1 = 1 \/ n # 0)
          BY <1>2, <2>1
        <5>2. n + 1 = 1 \/ n + 1 \in Ends(u)
          BY <1>4, <5>1
        <5>3. ASSUME NEW j \in Ends(u), j < k + c PROVE j <= n + 1
          <6>1. j \in Int /\ j >= 2
            BY <1>3 DEF Ends
          <6>2. CASE j > c
            <7>1. j - c \in Ends(v) /\ j <= b + c
              BY <2>5, <5>3, <6>2
            <7>2. j - c \in 2..(Len(v) - 1)
              BY <7>1 DEF Ends
            <7> QED BY <4>1, <6>1, <7>1, <7>2
          <6>3. CASE ~(j > c)
            <7>1. j \in 1..c
              BY <6>1, <6>3
            <7> QED BY <1>4, <5>1, <7>1
          <6> QED BY <6>2, <6>3
        <5> QED BY <5>1, <5>2, <5>3 DEF IsBegin
      <4>3. Begin(u, k + c) = n + 1
        BY <2>1, <4>2, BeginUnique
      <4>4. Data(SubSeq(u, n + 1, k + c)) = Data(SubSeq(u, c, k + c))
        <5>1. n + 1 \in 1..Len(u) /\ k + c \in ((n + 1) + 1)..Len(u) /\ (n + 1) + 1 = c
          BY <1>2, <1>3, <1>5, <2>1
        <5>2. u[n + 1] \in Breaks
          BY <1>4 DEF Breaks
        <5>3. Data(SubSeq(u, n + 1, k + c)) = Data(SubSeq(u, (n + 1) + 1, k + c))
          BY <5>1, <5>2, BreakFirst
        <5> QED BY <5>1, <5>3
      <4>5. Data(SubSeq(u, c, k + c)) = Data(SubSeq(u, c + 1, k + c))
        <5>1. c \in 1..Len(u) /\ k + c \in (c + 1)..Len(u)
          BY <1>2, <1>3, <1>5, <2>1
        <5>2. u[c] \in Breaks
          BY <1>4 DEF Breaks
        <5> QED BY <5>1, <5>2, BreakFirst
      <4>6. b + c = c + 1
        BY <4>1
      <4> QED BY <3>0, <4>3, <4>4, <4>5, <4>6 DEF Alike
    <3> QED BY <3>1, <3>2
  <2>7. ClientAt(u)[k + c] = Told(Data(SubSeq(u, Begin(u, k + c), k + c)))
    BY <1>5, <2>1 DEF ClientAt
  <2>8. ClientAt(v)[k] = Told(Data(SubSeq(v, b, k)))
    BY <1>5, <1>7, <2>2 DEF ClientAt
  <2> QED BY <1>1, <1>2, <2>6, <2>7, <2>8
<1> QED BY <1>6, <1>7

(* A client is told of the event before a blank line and of what follows. *)
LEMMA ClientStep ==
  ASSUME NEW a \in Text, NEW v \in Text, Separate(a), ~LastIs(a, Lf)
  PROVE  Client((a \o LfTwice) \o v) = Told(Data(a)) \o Client(v)
<1>1. PICK u \in Text : u = (a \o LfTwice) \o v /\ Blanked(u, a, v)
  BY IsBlanked
<1>2. PICK L : L = Text \ {<<>>}
  OBVIOUS
<1>3. PICK S : S = Seq(L)
  OBVIOUS
<1>4. PICK n \in Nat : n = Len(a)
  BY LenProperties DEF Text
<1>5. PICK m \in Nat : m = Len(v)
  BY LenProperties DEF Text
<1>6. PICK c \in Nat : c = n + 2
  OBVIOUS
<1>7. PICK N \in Nat : N = Len(u) /\ N = c + m
  BY <1>1, <1>4, <1>5, <1>6 DEF Blanked
<1>8. PICK z \in [1..N -> Seq(S)] : z = ClientAt(u)
  BY <1>2, <1>3, <1>7, ClientType
<1>9. PICK y \in [1..m -> Seq(S)] : y = ClientAt(v)
  BY <1>2, <1>3, <1>5, ClientType
<1>10. PICK x \in [1..c -> Seq(S)] : \A i \in 1..c : x[i] = z[i]
  <2> DEFINE x == [i \in 1..c |-> z[i]]
  <2>1. x \in [1..c -> Seq(S)] /\ \A i \in 1..c : x[i] = z[i]
    <3>1. \A i \in 1..c : i \in 1..N
      BY <1>7
    <3> QED BY <3>1
  <2> QED BY <2>1
<1>11. /\ \A i \in 1..c : i # n + 1 => x[i] = <<>>
       /\ x[n + 1] = Told(Data(a)) /\ n + 1 \in 1..c
  <2>1. Len(a) + 2 = c /\ Len(a) = n /\ n + 1 \in 1..c
    BY <1>4, <1>6
  <2>2. /\ ClientAt(u)[Len(a) + 1] = Told(Data(a))
        /\ \A i \in 1..(Len(a) + 2) : i # Len(a) + 1 => ClientAt(u)[i] = <<>>
    BY <1>1, ClientFirst
  <2> QED BY <1>8, <1>10, <2>1, <2>2
<1>12. \A k \in 1..m : z[k + c] = y[k]
  <2>1. Len(a) + 2 = c
    BY <1>4, <1>6
  <2>2. \A k \in 1..Len(v) : ClientAt(u)[k + (Len(a) + 2)] = ClientAt(v)[k]
    BY <1>1, ClientRest
  <2> QED BY <1>5, <1>8, <1>9, <2>1, <2>2
<1>13. FlattenSeq(x) = Told(Data(a))
  <2>1. PICK k \in 1..c : k = n + 1 /\ OnlyAt(x, c, k)
    BY <1>11 DEF OnlyAt
  <2>2. FlattenSeq(x) = x[k]
    BY <2>1, FlattenSingle
  <2> QED BY <1>11, <2>1, <2>2
<1>14. PICK xs \in Seq(Seq(S)) : xs = x /\ Len(xs) = c
  BY IsASeq, LenProperties
<1>15. PICK ys \in Seq(Seq(S)) : ys = y /\ Len(ys) = m
  BY IsASeq, LenProperties
<1>16. PICK zs \in Seq(Seq(S)) : zs = z /\ Len(zs) = N
  BY IsASeq, LenProperties
<1>17. zs = xs \o ys
  <2>1. /\ xs \o ys \in Seq(Seq(S)) /\ Len(xs \o ys) = Len(xs) + Len(ys)
        /\ \A i \in 1..(Len(xs) + Len(ys)) : (xs \o ys)[i] = IF i <= Len(xs) THEN xs[i] ELSE ys[i - Len(xs)]
    BY ConcatProperties
  <2>2. PICK q \in Seq(Seq(S)) : /\ q = xs \o ys /\ Len(q) = N
                                 /\ \A i \in 1..N : q[i] = IF i <= c THEN x[i] ELSE y[i - c]
    BY <1>7, <1>14, <1>15, <2>1
  <2>3. ASSUME NEW i \in 1..N PROVE zs[i] = q[i]
    <3>1. CASE i <= c
      <4>1. i \in 1..c
        BY <3>1
      <4> QED BY <1>10, <1>16, <2>2, <3>1, <4>1
    <3>2. CASE ~(i <= c)
      <4>1. i - c \in 1..m /\ (i - c) + c = i
        BY <1>7, <3>2
      <4>2. z[(i - c) + c] = y[i - c]
        BY <1>12, <4>1
      <4> QED BY <1>16, <2>2, <3>2, <4>1, <4>2
    <3> QED BY <3>1, <3>2
  <2>4. zs = q
    BY <1>16, <2>2, <2>3, SeqEqual
  <2> QED BY <2>2, <2>4
<1>18. FlattenSeq(xs \o ys) = FlattenSeq(xs) \o FlattenSeq(ys)
  BY FlattenConcat
<1>19. Client(u) = FlattenSeq(zs) /\ Client(v) = FlattenSeq(ys)
  BY <1>8, <1>9, <1>15, <1>16 DEF Client
<1> QED BY <1>1, <1>13, <1>14, <1>17, <1>18, <1>19

-----------------------------------------------------------------------------
(* What the inspector finds in an event. *)
ToldAt == [e \in Text |-> Told(Data(e))]

LEMMA ToldAtType ==
  ASSUME NEW L, L = Text \ {<<>>}
  PROVE  ToldAt \in [Text -> Seq(Seq(L))]
<1>1. \A e \in Text : Told(Data(e)) \in Seq(Seq(L))
  BY ToldType
<1> QED BY <1>1 DEF ToldAt

(* The loop finds in s what a client is told. *)
AsClient(s) == Mapped(ToldAt, Consume(s).events) = Client(Fed(s))

LEMMA StuckAsClient ==
  ASSUME NEW s \in Text, OneKind(s), Stuck(Fresh(s))
  PROVE  AsClient(s)
<1>1. Consume(s).events = <<>>
  <2>1. PICK f \in [0..Len(s) -> Cuts] : IsLoop(f, s)
    BY Loop
  <2>2. 0 \in 0..Len(s)
    BY LenProperties DEF Text
  <2>3. Consume(s) = Fresh(s)
    BY <2>1, <2>2, StuckIsLast DEF IsLoop
  <2> QED BY <2>3 DEF Fresh
<1>2. Mapped(ToldAt, <<>>) = <<>>
  <2>1. PICK L : L = Text \ {<<>>}
    OBVIOUS
  <2>2. PICK R : R = Seq(L)
    OBVIOUS
  <2>3. ToldAt \in [Text -> Seq(R)]
    BY <2>1, <2>2, ToldAtType
  <2> QED BY <2>3, MappedOne
<1>3. Unseparated(s)
  <2>1. Boundary(s).at = 0
    BY DEF Stuck, Fresh
  <2>2. 0 \notin 1..Len(s)
    OBVIOUS
  <2> QED BY <2>1, <2>2, BoundaryIs DEF Unseparated
<1>4. Client(Fed(s)) = <<>>
  <2>1. Separate(Fed(s))
    BY <1>3, FedSeparate DEF OneKind
  <2> QED BY <2>1, FedConcat, ClientNone
<1> QED BY <1>1, <1>2, <1>4 DEF AsClient

LEMMA ConsumeAsClient ==
  ASSUME NEW s \in Text, OneKind(s)
  PROVE  AsClient(s)
<1> DEFINE N == Len(s)
           T == {n \in 0..N : \A x \in Text : Len(x) <= n /\ OneKind(x) => AsClient(x)}
<1>1. N \in Nat /\ \A x \in Text : Len(x) \in Nat
  BY LenProperties DEF Text
<1>2. 0 \in T
  <2> SUFFICES ASSUME NEW x \in Text, Len(x) <= 0, OneKind(x) PROVE AsClient(x)
    BY <1>1
  <2>1. Stuck(Fresh(x))
    <3>1. 1..Len(x) = {}
      BY <1>1
    <3> QED BY <3>1, BoundaryIs DEF Stuck, Fresh
  <2> QED BY <2>1, StuckAsClient
<1>3. ASSUME NEW n \in 0..(N - 1), n \in T PROVE n + 1 \in T
  <2> SUFFICES ASSUME NEW x \in Text, Len(x) <= n + 1, OneKind(x), ~Stuck(Fresh(x))
               PROVE  AsClient(x)
    BY <1>1, StuckAsClient
  <2>1. Fresh(x) \in Cuts /\ Fresh(x).rest = x /\ Fresh(x).events = <<>>
    BY DEF Fresh, Cuts
  <2>2. PICK first \in Cuts : first = CutOff(Fresh(x))
    BY <2>1, CutOffType
  <2>3. Consume(x) = Prepend(first.events, Consume(first.rest))
    BY <2>2, Unroll
  <2>4. Boundary(x).at # 0
    BY <2>1 DEF Stuck
  <2>5. FirstIs(x, SubSeq(x, 1, Boundary(x).at - 1),
                SubSeq(x, Boundary(x).at + Boundary(x).advance, Len(x)))
    BY <2>4, FirstEvent
  <2>6. PICK raw \in Text : raw = SubSeq(x, 1, Boundary(x).at - 1)
    <3>1. <<>> \in Text
      BY DEF Text
    <3>2. /\ Boundary(x).at \in Nat \ {0} /\ Boundary(x).advance \in {2, 4}
          /\ Boundary(x).at + Boundary(x).advance <= Len(x) + 1
      BY <2>4, <3>1, BoundaryKept
    <3> QED BY <3>2, Parts
  <2>7. PICK rest \in Text : rest = SubSeq(x, Boundary(x).at + Boundary(x).advance, Len(x))
    <3>1. <<>> \in Text
      BY DEF Text
    <3>2. /\ Boundary(x).at \in Nat \ {0} /\ Boundary(x).advance \in {2, 4}
          /\ Boundary(x).at + Boundary(x).advance <= Len(x) + 1
      BY <2>4, <3>1, BoundaryKept
    <3> QED BY <3>2, Parts
  <2>8. /\ first.rest = rest
        /\ first.events = IF IsBlank(raw) THEN <<>> ELSE Append(<<>>, raw)
    BY <2>1, <2>2, <2>4, <2>6, <2>7 DEF CutOff
  <2>9. /\ OneKind(raw) /\ OneKind(rest) /\ Unseparated(raw)
        /\ Len(raw) # 0 => raw[Len(raw)] \notin Breaks
        /\ Fed(x) = (Fed(raw) \o LfTwice) \o Fed(rest)
        /\ Len(rest) < Len(x)
    BY <2>5, <2>6, <2>7 DEF FirstIs
  <2>10. PICK L : L = Text \ {<<>>}
    OBVIOUS
  <2>11. PICK R : R = Seq(L)
    OBVIOUS
  <2>12. ToldAt \in [Text -> Seq(R)]
    BY <2>10, <2>11, ToldAtType
  <2>13. Mapped(ToldAt, Consume(rest).events) = Client(Fed(rest))
    <3>1. Len(rest) <= n
      BY <1>1, <2>9
    <3>2. AsClient(rest)
      BY <1>3, <2>9, <3>1
    <3> QED BY <3>2 DEF AsClient
  <2>14. PICK c \in Seq(Text) : c = Consume(rest).events
    BY ConsumeType DEF Cuts
  <2>15. PICK e \in Seq(Text) : e = first.events
    BY DEF Cuts
  <2>16. Mapped(ToldAt, Consume(x).events) = Mapped(ToldAt, e) \o Mapped(ToldAt, c)
    <3>0. Consume(x) = Prepend(e, Consume(rest))
      BY <2>3, <2>8, <2>15
    <3>1. Consume(x).events = e \o c
      BY <2>14, <3>0, SMTT(30) DEF Prepend
    <3>2. IsBoth(ToldAt, e, c, R)
      BY <2>12, MappedConcat
    <3> QED BY <3>1, <3>2 DEF IsBoth
  <2>17. Mapped(ToldAt, e) = Told(Data(raw))
    <3>1. CASE IsBlank(raw)
      <4>1. raw = <<>>
        <5>1. DOMAIN raw = 1..Len(raw) /\ Len(raw) \in Nat
          BY LenProperties DEF Text
        <5>2. Len(raw) = 0
          <6>1. ASSUME Len(raw) # 0 PROVE FALSE
            <7>1. Len(raw) \in DOMAIN raw
              BY <5>1, <6>1
            <7> QED BY <2>9, <3>1, <6>1, <7>1 DEF IsBlank
          <6> QED BY <6>1
        <5> QED BY <5>2, EmptySeq DEF Text
      <4>2. Told(Data(raw)) = <<>>
        BY <4>1, DataType DEF Told
      <4>3. e = <<>>
        BY <2>8, <2>15, <3>1
      <4>4. Mapped(ToldAt, <<>>) = <<>>
        BY <2>12, MappedOne
      <4> QED BY <4>2, <4>3, <4>4
    <3>2. CASE ~IsBlank(raw)
      <4>1. e = <<raw>>
        BY <2>8, <2>15, <3>2
      <4>2. Mapped(ToldAt, <<raw>>) = ToldAt[raw]
        BY <2>12, MappedOne
      <4> QED BY <4>1, <4>2 DEF ToldAt
    <3> QED BY <3>1, <3>2
  <2>18. PICK a \in Text : a = Fed(raw)
    BY FedConcat
  <2>19. PICK v \in Text : v = Fed(rest)
    BY FedConcat
  <2>20. Data(a) = Data(raw)
    <3>1. CrPaired(raw)
      BY <2>9 DEF OneKind, Plain, Pairs, CrPaired
    <3> QED BY <2>18, <3>1, DataFed
  <2>21. Separate(a) /\ ~LastIs(a, Lf)
    BY <2>9, <2>18, FedSeparate DEF OneKind
  <2>22. Client((a \o LfTwice) \o v) = Told(Data(a)) \o Client(v)
    BY <2>21, ClientStep
  <2> QED BY <2>9, <2>13, <2>14, <2>16, <2>17, <2>18, <2>19, <2>20, <2>22 DEF AsClient
<1> HIDE DEF T
<1>4. N \in T
  <2>1. 0..N \subseteq T
    BY <1>1, <1>2, <1>3, InductionUpTo
  <2> QED BY <1>1, <2>1
<1> QED BY <1>1, <1>4 DEF T

(* What is found in the events, and what a client is told, of the bytes s. *)
LEMMA CutsAlike ==
  ASSUME NEW s \in Text, OneKindOfBreak(s), NEW events, events = Consume(s).events
  PROVE  FlattenSeq([i \in DOMAIN events |-> Told(Data(events[i]))]) = ClientEvents(s)
<1>1. OneKind(s)
  BY Kinds DEF OneKind
<1>2. AsClient(s)
  BY <1>1, ConsumeAsClient
<1>3. events \in Seq(Text)
  BY ConsumeType DEF Cuts
<1>4. [i \in DOMAIN events |-> Told(Data(events[i]))] = EachOf(ToldAt, events)
  <2>1. \A i \in DOMAIN events : events[i] \in Text
    BY <1>3, LenProperties, ElementOfSeq
  <2>2. \A i \in DOMAIN events : ToldAt[events[i]] = Told(Data(events[i]))
    BY <2>1 DEF ToldAt
  <2> QED BY <2>2 DEF EachOf
<1>5. Unified(s) = Fed(s)
  BY <1>1, UnifiedIsFed DEF OneKind
<1>6. ClientEvents(s) = Client(Fed(s))
  BY <1>5 DEF ClientEvents, Client, ClientAt, Begin
<1> QED BY <1>2, <1>4, <1>6 DEF AsClient, Mapped

(* In a stream with one kind of line break the loop of _consume_events()   *)
(* finds, event by event, the data that a client that reads the bytes line *)
(* by line finds: no text is scanned as part of another event or not at    *)
(* all.                                                                    *)
THEOREM CutLikeAClient == Spec => []CutsAsClient
<1>1. IInv => CutsAsClient
  <2> SUFFICES ASSUME IInv, OneKindOfBreak(Received)
               PROVE  FlattenSeq([i \in DOMAIN parsed |-> Told(Data(parsed[i]))]) = ClientEvents(Received)
    BY DEF CutsAsClient
  <2>1. PICK s \in Text : s = Received
    <3>1. stream \in Text /\ received \in 0..Len(stream) /\ 0 \in Nat /\ received + 0 = received
          /\ Len(stream) \in Nat
      BY LenProperties DEF IInv, Text
    <3>2. SubSeq(stream, 1, received) \in Text
      <4>1. PICK t \in Text : t = stream
        BY <3>1
      <4>2. PICK m \in 0..Len(t) : m = received
        BY <3>1, <4>1
      <4>3. m + 0 <= Len(t)
        BY <3>1, <4>1, <4>2
      <4> QED BY <3>1, <4>1, <4>2, <4>3, NextChunk
    <3> QED BY <3>2 DEF Received
  <2>2. parsed = Consume(s).events
    BY <2>1 DEF IInv, ChunkingIrrelevant
  <2>3. OneKindOfBreak(s)
    BY <2>1
  <2> QED BY <2>1, <2>2, <2>3, CutsAlike
<1> QED BY <1>1, InitIInv, NextIInv, PTL DEF Spec
=============================================================================
