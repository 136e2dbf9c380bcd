-------------------------- MODULE QuotaStoreProofs ---------------------------
(***************************************************************************)
(* Proofs about QuotaStore, for every limit, length of the windows and of  *)
(* the grace period, number of requests and replicas, and delay.           *)
(***************************************************************************)
EXTENDS QuotaStore, FiniteSetTheorems, TLAPS

(* Who was let in by a store for a bucket, or is as good as let in. *)
LetIn(s, b) ==
  {r \in Requests : pc[r] \in {"admitted", "first"} /\ store[r] = s /\ Bucket(r) = b}

(* Whom a store has counted for a bucket. *)
Tried(s, b) ==
  {r \in Requests : countedAt[r] # Never /\ store[r] = s /\ Bucket(r) = b}

Pending(r) == pc[r] \in {"sent", "first"}

(* The counter of the bucket may be gone. *)
Over(s, b) == now >= b + Window + (IF s = Redis THEN Grace ELSE 0)

(* A request is counted once it has been sent; only Redis is waited for.   *)
Ordered ==
  \A r \in Requests :
    /\ sentAt[r] <= now
    /\ pc[r] \in {"new", "sent", "first"} => store[r] = Redis
    /\ pc[r] \in {"new", "sent"} => countedAt[r] = Never

(* No key expires before its window and the grace period are over. *)
ExpiryLate ==
  \A b \in Buckets : expiry[b] # Never => expiry[b] >= b + Window + Grace

(* As long as no command came too late, the limit is kept, and until the   *)
(* bucket is over its counter reckons with all that were let in.           *)
Reckoned ==
  \A s \in Stores, b \in Buckets :
    CountedInTime(s, b) =>
      /\ Cardinality(LetIn(s, b)) <= Rpm
      /\ Over(s, b) \/ Cardinality(LetIn(s, b)) <= counts[s][b]

(* No counter counts what was not tried. *)
NoneInvented ==
  \A s \in Stores, b \in Buckets : counts[s][b] <= Cardinality(Tried(s, b))

(* The inductive invariant. *)
IInv ==
  /\ TypeOK /\ Ordered /\ ExpiryLate /\ Reckoned /\ NoneInvented
  /\ RefusedOnlyAtLimit /\ KeysExpire

-----------------------------------------------------------------------------
(* Windows *)

(* A window contains the time that names it, and is one of Window seconds. *)
LEMMA InItsWindow ==
  ASSUME NEW t \in Nat
  PROVE  BucketAt(t) \in Nat /\ BucketAt(t) <= t /\ t < BucketAt(t) + Window
  <1>1. Window \in Nat \ {0} /\ t % Window \in 0..(Window - 1)
    BY QuotaAssumption
  <1>2. t \div Window \in Nat /\ BucketAt(t) = Window * (t \div Window)
    BY <1>1 DEF BucketAt
  <1>3. BucketAt(t) \in Nat
    BY <1>1, <1>2
  <1> QED
    BY <1>1, <1>3 DEF BucketAt

(* Whole windows lie between two different multiples of the length. *)
LEMMA Multiples ==
  ASSUME NEW w \in Nat \ {0}, NEW p \in Int, NEW q \in Int, p < q
  PROVE  w * p + w <= w * q
  OBVIOUS

(* Two windows do not overlap. *)
LEMMA Apart ==
  ASSUME NEW t \in Nat, NEW u \in Nat, BucketAt(t) < BucketAt(u)
  PROVE  BucketAt(t) + Window <= BucketAt(u)
  <1> DEFINE p == t \div Window
             q == u \div Window
  <1>1. Window \in Nat \ {0}
    BY QuotaAssumption
  <1>2. p \in Int /\ q \in Int
    BY <1>1
  <1>3. BucketAt(t) = Window * p /\ BucketAt(u) = Window * q
    BY <1>1 DEF BucketAt
  <1> HIDE DEF p, q
  <1>4. ASSUME q < p PROVE Window * q + Window <= Window * p
    BY <1>1, <1>2, <1>4, Multiples
  <1>5. p < q
    BY <1>1, <1>2, <1>3, <1>4
  <1> QED
    BY <1>1, <1>2, <1>3, <1>5, Multiples

(* The times of one window name the same bucket. *)
LEMMA OneBucket ==
  ASSUME NEW t \in Nat, NEW u \in Nat, BucketAt(u) <= t, t < BucketAt(u) + Window
  PROVE  BucketAt(t) = BucketAt(u)
  <1>1. BucketAt(t) \in Int /\ BucketAt(u) \in Int /\ Window \in Nat \ {0}
    BY InItsWindow, QuotaAssumption
  <1>2. BucketAt(t) <= t /\ t < BucketAt(t) + Window
    BY InItsWindow
  <1>3. BucketAt(t) < BucketAt(u) => BucketAt(t) + Window <= BucketAt(u)
    BY Apart
  <1>4. BucketAt(u) < BucketAt(t) => BucketAt(u) + Window <= BucketAt(t)
    BY Apart
  <1> QED
    BY <1>1, <1>2, <1>3, <1>4

(* Every bucket named by a clock is one of the buckets. *)
LEMMA BucketOf ==
  ASSUME NEW t \in 0..MaxTime
  PROVE  BucketAt(t) \in Buckets
  BY DEF Buckets

(* The buckets are times. *)
LEMMA BucketTypes ==
  /\ Buckets \subseteq Int
  /\ Window \in Nat \ {0} /\ Rpm \in Nat \ {0} /\ Grace \in Nat /\ MaxTime \in Nat
  /\ Horizon \in Nat /\ Horizon >= Window
  /\ Redis \notin Replicas
  <1>1. ASSUME NEW t \in 0..MaxTime PROVE BucketAt(t) \in Int
    BY <1>1, InItsWindow, QuotaAssumption
  <1> QED
    BY <1>1, QuotaAssumption DEF Buckets

(* The members of a set of requests can be counted, one by one. *)
LEMMA Countable ==
  ASSUME NEW S, S \subseteq Requests
  PROVE  /\ IsFiniteSet(S) /\ Cardinality(S) \in Nat
         /\ \A r \in Requests \ S : Cardinality(S \cup {r}) = Cardinality(S) + 1
         /\ \A T : T \subseteq S => Cardinality(T) <= Cardinality(S)
  <1>1. IsFiniteSet(Requests)
    BY QuotaAssumption
  <1>2. IsFiniteSet(S)
    BY <1>1, FS_Subset
  <1>3. \A T : T \subseteq S => IsFiniteSet(T) /\ Cardinality(T) <= Cardinality(S)
    BY <1>2, FS_Subset
  <1>4. \A r \in Requests \ S : Cardinality(S \cup {r}) = Cardinality(S) + 1
    BY <1>2, FS_AddElement
  <1> QED
    BY <1>2, <1>3, <1>4, FS_CardinalityType

-----------------------------------------------------------------------------
(* The initial states *)

LEMMA InitIInv == Init => IInv
  <1> SUFFICES ASSUME Init PROVE IInv
    OBVIOUS
  <1> USE DEF Init
  <1>1. TypeOK
    BY BucketTypes DEF TypeOK, Stores, Places
  <1>2. Ordered
    BY BucketTypes DEF Ordered
  <1>3. ExpiryLate
    BY DEF ExpiryLate
  <1>4. \A s \in Stores, b \in Buckets :
          Cardinality(LetIn(s, b)) = 0 /\ Cardinality(Tried(s, b)) = 0
    <2> TAKE s \in Stores, b \in Buckets
    <2>1. LetIn(s, b) = {} /\ Tried(s, b) = {}
      BY DEF LetIn, Tried
    <2> QED
      BY <2>1, FS_EmptySet
  <1>5. Reckoned /\ NoneInvented
    BY <1>4, BucketTypes DEF Reckoned, NoneInvented
  <1>6. RefusedOnlyAtLimit /\ KeysExpire
    BY DEF RefusedOnlyAtLimit, KeysExpire, Stores
  <1> QED
    BY <1>1, <1>2, <1>3, <1>5, <1>6 DEF IInv

-----------------------------------------------------------------------------
(* Time *)

(* What is over stays over. *)
LEMMA TickIInv == IInv /\ Tick => IInv'
  <1> SUFFICES ASSUME IInv, Tick PROVE IInv'
    OBVIOUS
  <1> USE BucketTypes
  <1>0. TypeOK /\ Ordered /\ ExpiryLate
    BY DEF IInv
  <1>1. TypeOK'
    <2>1. Redis \in Stores
      BY DEF Stores
    <2>2. [b \in Buckets |-> IF Expired(b) THEN 0 ELSE counts[Redis][b]] \in [Buckets -> Nat]
      BY <1>0, <2>1 DEF TypeOK
    <2>3. counts' \in [Stores -> [Buckets -> Nat]]
      BY <1>0, <2>1, <2>2 DEF TypeOK, Tick
    <2>4. now' \in 0..MaxTime
      BY <1>0 DEF TypeOK, Tick
    <2>5. expiry' \in [Buckets -> Nat \cup {Never}]
      BY <1>0 DEF TypeOK, Tick
    <2> QED
      BY <1>0, <2>3, <2>4, <2>5 DEF TypeOK, Tick
  <1>2. Ordered'
    BY <1>0 DEF TypeOK, Ordered, Tick
  <1>3. ExpiryLate'
    BY <1>0 DEF TypeOK, ExpiryLate, Tick
  <1>4. \A s, b : /\ LetIn(s, b)' = LetIn(s, b) /\ Tried(s, b)' = Tried(s, b)
                  /\ CountedInTime(s, b)' <=> CountedInTime(s, b)
    BY DEF Tick, LetIn, Tried, Bucket, CountedInTime
  <1>5. \A s \in Stores, b \in Buckets : Over(s, b) => Over(s, b)'
    BY <1>0 DEF Over, Tick, TypeOK
  <1>6. \A b \in Buckets : Expired(b) => Over(Redis, b)'
    BY <1>0 DEF Expired, ExpiryLate, TypeOK, Over, Tick
  <1>7. \A s \in Stores, b \in Buckets :
          counts'[s][b] = IF s = Redis /\ Expired(b) THEN 0 ELSE counts[s][b]
    BY <1>0 DEF TypeOK, Tick, Stores
  <1>8. Reckoned'
    <2> SUFFICES ASSUME NEW s \in Stores, NEW b \in Buckets,
                        CountedInTime(s, b)'
                 PROVE  /\ Cardinality(LetIn(s, b)') <= Rpm
                        /\ Over(s, b)' \/ Cardinality(LetIn(s, b)') <= counts'[s][b]
      BY DEF Reckoned
    <2> QED
      BY <1>4, <1>5, <1>6, <1>7 DEF IInv, Reckoned
  <1>9. NoneInvented'
    <2> SUFFICES ASSUME NEW s \in Stores, NEW b \in Buckets
                 PROVE  counts'[s][b] <= Cardinality(Tried(s, b)')
      BY DEF NoneInvented
    <2>0. counts[s][b] \in Nat
      BY <1>0 DEF TypeOK
    <2>1. counts'[s][b] <= counts[s][b] /\ counts'[s][b] \in Nat
      <3>1. counts'[s][b] = 0 \/ counts'[s][b] = counts[s][b]
        BY <1>7
      <3> QED
        BY <2>0, <3>1
    <2>2. Cardinality(Tried(s, b)) \in Nat
      BY Countable DEF Tried
    <2> QED
      BY <1>4, <2>0, <2>1, <2>2 DEF IInv, NoneInvented
  <1>10. RefusedOnlyAtLimit'
    BY DEF IInv, RefusedOnlyAtLimit, Tick, Bucket
  <1>11. KeysExpire'
    <2> SUFFICES ASSUME NEW b \in Buckets, counts'[Redis][b] > 0, expiry'[b] = Never
                 PROVE  \E r \in Requests : Bucket(r)' = b /\ pc'[r] \in {"first", "failed"}
      BY DEF KeysExpire
    <2>1. ~Expired(b) /\ counts[Redis][b] > 0 /\ expiry[b] = Never
      BY <1>0, <1>7 DEF Tick, TypeOK, Stores
    <2> QED
      BY <2>1 DEF IInv, KeysExpire, Tick, Bucket
  <1> QED
    BY <1>1, <1>2, <1>3, <1>8, <1>9, <1>10, <1>11 DEF IInv

-----------------------------------------------------------------------------
(* The requests *)

(* The others of its window that the store of a request has counted. *)
Fellows(r) ==
  {q \in Requests \ {r} :
     countedAt[q] # Never /\ store[q] = store[r] /\ Bucket(q) = Bucket(r)}

(* A request that has named its bucket keeps it, and its store, and is     *)
(* counted once.                                                           *)
Settled ==
  \A q \in Requests :
    /\ pc[q] # "new" => store'[q] = store[q] /\ sentAt'[q] = sentAt[q]
    /\ countedAt[q] # Never => countedAt'[q] = countedAt[q]

(* Who was refused with reason stays so. *)
LEMMA RefusalStays ==
  ASSUME IInv, Settled, NEW r \in Requests, pc[r] = "limited"
  PROVE  Cardinality(Fellows(r)') >= Rpm
  <1>1. Fellows(r) \subseteq Fellows(r)'
    BY DEF Fellows, Settled, Bucket, IInv, Ordered
  <1>2. Fellows(r)' \subseteq Requests
    BY DEF Fellows
  <1>3. Cardinality(Fellows(r)) >= Rpm
    BY DEF IInv, RefusedOnlyAtLimit, Fellows
  <1>4. Cardinality(Fellows(r)) \in Nat /\ Cardinality(Fellows(r)') \in Nat
    BY Countable, <1>2 DEF Fellows
  <1> QED
    BY <1>1, <1>2, <1>3, <1>4, Countable, BucketTypes

(* A count above the limit tells of rpm others that were tried. *)
LEMMA RefusedWithReason ==
  ASSUME IInv, NEW r \in Requests, NEW s \in Stores, NEW b \in Buckets,
         pc[r] \in {"new", "sent"}, counts[s][b] >= Rpm,
         Settled, store'[r] = s, Bucket(r)' = b
  PROVE  Cardinality(Fellows(r)') >= Rpm
  <1>1. Tried(s, b) \subseteq Fellows(r)'
    BY DEF Tried, Fellows, Settled, Bucket, IInv, Ordered
  <1>2. Fellows(r)' \subseteq Requests
    BY DEF Fellows
  <1>3. Cardinality(Tried(s, b)) >= Rpm
    <2>1. counts[s][b] \in Nat /\ counts[s][b] <= Cardinality(Tried(s, b))
      BY DEF IInv, TypeOK, NoneInvented
    <2>2. Cardinality(Tried(s, b)) \in Nat
      BY Countable DEF Tried
    <2> QED
      BY <2>1, <2>2, BucketTypes
  <1>4. Cardinality(Tried(s, b)) \in Nat /\ Cardinality(Fellows(r)') \in Nat
    BY Countable, <1>2 DEF Tried
  <1> QED
    BY <1>1, <1>2, <1>3, <1>4, Countable, BucketTypes

(* No command takes the time back. *)
LEMMA OverStays ==
  ASSUME NEW r \in Requests, Check(r), NEW s \in Stores, NEW b \in Buckets
  PROVE  Over(s, b)' <=> Over(s, b)
  BY DEF Check, CheckInMemory, Send, Incr, IncrFails, Expire, ExpireFails, Over

(* What was counted in time up to a step was so before it. *)
LEMMA InTimeBefore ==
  ASSUME IInv, Settled, NEW s \in Stores, NEW b \in Buckets, CountedInTime(s, b)'
  PROVE  CountedInTime(s, b)
  BY DEF CountedInTime, Settled, Bucket, IInv, Ordered

(* Naming a bucket counts nothing yet. *)
LEMMA SendIInv == ASSUME IInv, NEW r \in Requests, Send(r) PROVE IInv'
  <1> USE BucketTypes
  <1>0. TypeOK /\ Ordered /\ ExpiryLate
    BY DEF IInv
  <1>1. TypeOK' /\ Settled
    BY <1>0 DEF TypeOK, Send, Places, Settled
  <1>2. Ordered'
    BY <1>0 DEF TypeOK, Ordered, Send
  <1>3. ExpiryLate'
    BY <1>0 DEF ExpiryLate, Send
  <1>4. \A s, b : LetIn(s, b)' = LetIn(s, b) /\ Tried(s, b)' = Tried(s, b)
    BY <1>0 DEF Send, LetIn, Tried, Bucket, TypeOK, Ordered
  <1>5. Reckoned'
    <2> SUFFICES ASSUME NEW s \in Stores, NEW b \in Buckets,
                        CountedInTime(s, b)'
                 PROVE  /\ Cardinality(LetIn(s, b)') <= Rpm
                        /\ Over(s, b)' \/ Cardinality(LetIn(s, b)') <= counts'[s][b]
      BY DEF Reckoned
    <2> QED
      BY <1>1, <1>4, OverStays, InTimeBefore DEF IInv, Reckoned, Send, Check
  <1>6. NoneInvented'
    BY <1>4 DEF IInv, NoneInvented, Send
  <1>7. RefusedOnlyAtLimit'
    <2> SUFFICES ASSUME NEW q \in Requests, pc'[q] = "limited"
                 PROVE  Cardinality(Fellows(q)') >= Rpm
      BY DEF RefusedOnlyAtLimit, Fellows
    <2>1. pc[q] = "limited"
      BY <1>0 DEF Send, TypeOK
    <2> QED
      BY <1>1, <2>1, RefusalStays
  <1>8. KeysExpire'
    BY <1>0 DEF IInv, KeysExpire, Send, TypeOK, Bucket
  <1> QED
    BY <1>1, <1>2, <1>3, <1>5, <1>6, <1>7, <1>8 DEF IInv

(* What the lemmas about the commands start from. *)
LEMMA Waiting ==
  ASSUME IInv, NEW r \in Requests, Pending(r)
  PROVE  /\ store[r] = Redis /\ Redis \in Stores /\ Bucket(r) \in Buckets
         /\ counts[Redis][Bucket(r)] \in Nat
  <1>1. store[r] = Redis /\ Redis \in Stores
    BY DEF IInv, Ordered, Pending, Stores
  <1>2. Bucket(r) \in Buckets
    BY BucketOf DEF IInv, TypeOK, Bucket
  <1> QED
    BY <1>1, <1>2 DEF IInv, TypeOK

(* What a count of one more means, for the bucket of a request that waits. *)
LEMMA CountedTypes ==
  ASSUME IInv, NEW r \in Requests, Pending(r)
  PROVE  /\ Counted(r) \in [Stores -> [Buckets -> Nat]]
         /\ \A s \in Stores, b \in Buckets :
              Counted(r)[s][b] = IF s = Redis /\ b = Bucket(r)
                                 THEN counts[s][b] + 1 ELSE counts[s][b]
  BY Waiting DEF IInv, TypeOK, Counted

(* The limit is kept by what the answered count says. *)
LEMMA IncrIInv == ASSUME IInv, NEW r \in Requests, Incr(r) PROVE IInv'
  <1> USE BucketTypes
  <1>0. TypeOK /\ Ordered /\ ExpiryLate
    BY DEF IInv
  <1>a. Pending(r)
    BY DEF Incr, Pending
  <1>p. PICK b0 \in Buckets : b0 = Bucket(r)
    BY <1>a, Waiting
  <1>q. PICK n \in Nat : n = counts[Redis][b0]
    BY <1>a, <1>p, Waiting
  <1>b. store[r] = Redis /\ Redis \in Stores /\ b0 \in Buckets /\ n \in Nat
    BY <1>a, <1>p, <1>q, Waiting
  <1>c. /\ counts' \in [Stores -> [Buckets -> Nat]]
        /\ \A s \in Stores, b \in Buckets :
             counts'[s][b] = IF s = Redis /\ b = b0 THEN counts[s][b] + 1 ELSE counts[s][b]
    BY <1>a, <1>p, CountedTypes DEF Incr, Count
  <1>d. Counted(r)[Redis][b0] = n + 1
    BY <1>a, <1>b, <1>p, <1>q, CountedTypes
  <1>e. pc' = [pc EXCEPT ![r] = IF n = 0 THEN "first" ELSE IF n + 1 > Rpm THEN "limited" ELSE "admitted"]
    <2>1. pc' = [pc EXCEPT ![r] = IF First(n + 1) THEN "first" ELSE Verdict(n + 1)]
      BY <1>d, <1>p DEF Incr, Count
    <2>2. First(n + 1) <=> n = 0
      BY DEF First
    <2> QED
      BY <2>1, <2>2 DEF Verdict
  <1>f. pc[r] = "sent" /\ now' = now /\ backend' = backend /\ store' = store
        /\ sentAt' = sentAt /\ expiry' = expiry
        /\ countedAt' = [countedAt EXCEPT ![r] = now] /\ countedAt[r] = Never
    BY <1>0 DEF Incr, Count, Ordered
  <1>1. TypeOK' /\ Settled
    BY <1>0, <1>b, <1>c, <1>e, <1>f DEF TypeOK, Places, Settled
  <1>2. Ordered' /\ ExpiryLate'
    BY <1>0, <1>b, <1>e, <1>f DEF TypeOK, Ordered, ExpiryLate
  <1>3. ASSUME NEW s \in Stores, NEW b \in Buckets, s # Redis \/ b # b0
        PROVE  LetIn(s, b)' = LetIn(s, b) /\ Tried(s, b)' = Tried(s, b)
    BY <1>0, <1>3, <1>b, <1>e, <1>f, <1>p DEF TypeOK, LetIn, Tried, Bucket
  <1>4. /\ r \notin LetIn(Redis, b0) /\ r \notin Tried(Redis, b0)
        /\ Tried(Redis, b0)' = Tried(Redis, b0) \cup {r}
        /\ LetIn(Redis, b0)' = IF n = 0 \/ n + 1 <= Rpm
                                THEN LetIn(Redis, b0) \cup {r} ELSE LetIn(Redis, b0)
    <2>1. /\ LetIn(Redis, b0)' = IF n = 0 \/ n + 1 <= Rpm
                                  THEN LetIn(Redis, b0) \cup {r} ELSE LetIn(Redis, b0)
          /\ r \notin LetIn(Redis, b0)
      BY <1>0, <1>b, <1>e, <1>f, <1>p DEF TypeOK, LetIn, Bucket
    <2>2. Tried(Redis, b0)' = Tried(Redis, b0) \cup {r} /\ r \notin Tried(Redis, b0)
      BY <1>0, <1>b, <1>f, <1>p DEF TypeOK, Tried, Bucket, Never
    <2> QED
      BY <2>1, <2>2
  <1>5. LetIn(Redis, b0) \subseteq Requests /\ Tried(Redis, b0) \subseteq Requests
    BY DEF LetIn, Tried
  <1>6. /\ Cardinality(LetIn(Redis, b0)) \in Nat /\ Cardinality(Tried(Redis, b0)) \in Nat
        /\ Cardinality(Tried(Redis, b0)') = Cardinality(Tried(Redis, b0)) + 1
        /\ Cardinality(LetIn(Redis, b0) \cup {r}) = Cardinality(LetIn(Redis, b0)) + 1
    BY <1>4, <1>5, Countable
  <1>7. Reckoned'
    <2> SUFFICES ASSUME NEW s \in Stores, NEW b \in Buckets,
                        CountedInTime(s, b)'
                 PROVE  /\ Cardinality(LetIn(s, b)') <= Rpm
                        /\ Over(s, b)' \/ Cardinality(LetIn(s, b)') <= counts'[s][b]
      BY DEF Reckoned
    <2>0. Cardinality(LetIn(s, b)) <= Rpm /\ (Over(s, b) \/ Cardinality(LetIn(s, b)) <= counts[s][b])
      BY <1>1, InTimeBefore DEF IInv, Reckoned
    <2>1. CASE s # Redis \/ b # b0
      BY <1>3, <1>c, <2>0, <2>1, OverStays DEF Check
    <2>2. CASE s = Redis /\ b = b0
      <3>1. counts'[s][b] = n + 1
        BY <1>c, <1>q, <2>2
      <3>2. countedAt'[r] = now /\ store'[r] = s /\ Bucket(r)' = b /\ now # Never
        BY <1>0, <1>b, <1>f, <1>p, <2>2 DEF TypeOK, Bucket, Never
      <3>3. now < b + Window + Grace
        BY <3>2 DEF CountedInTime
      <3>4. ~Over(s, b)
        BY <1>0, <2>2, <3>3 DEF Over, TypeOK
      <3> QED
        BY <1>4, <1>6, <1>q, <2>0, <2>2, <3>1, <3>4
    <2> QED
      BY <2>1, <2>2
  <1>8. NoneInvented'
    <2> SUFFICES ASSUME NEW s \in Stores, NEW b \in Buckets
                 PROVE  counts'[s][b] <= Cardinality(Tried(s, b)')
      BY DEF NoneInvented
    <2>0. counts[s][b] <= Cardinality(Tried(s, b)) /\ counts[s][b] \in Nat
      BY <1>0 DEF IInv, NoneInvented, TypeOK
    <2>1. CASE s # Redis \/ b # b0
      BY <1>3, <1>c, <2>0, <2>1
    <2>2. CASE s = Redis /\ b = b0
      BY <1>6, <1>c, <2>0, <2>2
    <2> QED
      BY <2>1, <2>2
  <1>9. RefusedOnlyAtLimit'
    <2> SUFFICES ASSUME NEW q \in Requests, pc'[q] = "limited"
                 PROVE  Cardinality(Fellows(q)') >= Rpm
      BY DEF RefusedOnlyAtLimit, Fellows
    <2>1. CASE q = r
      <3>1. n >= Rpm
        BY <1>0, <1>b, <1>e, <2>1 DEF TypeOK
      <3>2. store'[r] = Redis /\ Bucket(r)' = b0
        BY <1>b, <1>f, <1>p DEF Bucket
      <3> QED
        BY <1>1, <1>b, <1>f, <1>q, <2>1, <3>1, <3>2, RefusedWithReason
    <2>2. CASE q # r
      BY <1>0, <1>1, <1>e, <2>2, RefusalStays DEF TypeOK
    <2> QED
      BY <2>1, <2>2
  <1>10. KeysExpire'
    <2> SUFFICES ASSUME NEW b \in Buckets, counts'[Redis][b] > 0, expiry[b] = Never
                 PROVE  \E q \in Requests : Bucket(q)' = b /\ pc'[q] \in {"first", "failed"}
      BY <1>f DEF KeysExpire
    <2>1. CASE counts[Redis][b] > 0
      <3>1. PICK q \in Requests : Bucket(q) = b /\ pc[q] \in {"first", "failed"}
        BY <2>1 DEF IInv, KeysExpire
      <3> QED
        BY <1>0, <1>e, <1>f, <3>1 DEF TypeOK, Bucket
    <2>2. CASE ~(counts[Redis][b] > 0)
      <3>1. b = b0 /\ n = 0
        <4>1. counts[Redis][b] \in Nat
          BY <1>0, <1>b DEF TypeOK
        <4> QED
          BY <1>c, <1>b, <1>q, <2>2, <4>1
      <3>2. pc'[r] = "first" /\ Bucket(r)' = b0
        BY <1>0, <1>e, <1>f, <1>p, <3>1 DEF TypeOK, Bucket
      <3> QED
        BY <3>1, <3>2
    <2> QED
      BY <2>1, <2>2
  <1> QED
    BY <1>1, <1>2, <1>7, <1>8, <1>9, <1>10 DEF IInv

(* A command that raises may have counted a request that is not let in. *)
LEMMA IncrFailsIInv == ASSUME IInv, NEW r \in Requests, IncrFails(r) PROVE IInv'
  <1> USE BucketTypes
  <1>0. TypeOK /\ Ordered /\ ExpiryLate
    BY DEF IInv
  <1>a. Pending(r) /\ store[r] = Redis /\ Redis \in Stores
    BY Waiting DEF IncrFails, Pending
  <1>p. PICK b0 \in Buckets : b0 = Bucket(r)
    BY <1>a, Waiting
  <1>f. /\ pc[r] = "sent" /\ pc' = [pc EXCEPT ![r] = "failed"] /\ now' = now
        /\ backend' = backend /\ store' = store /\ sentAt' = sentAt /\ expiry' = expiry
        /\ countedAt[r] = Never
    BY <1>0 DEF IncrFails, Ordered
  <1>c. /\ counts' \in [Stores -> [Buckets -> Nat]]
        /\ countedAt' = countedAt \/ countedAt' = [countedAt EXCEPT ![r] = now]
        /\ \A s \in Stores, b \in Buckets :
             \/ counts'[s][b] = counts[s][b]
             \/ /\ s = Redis /\ b = b0 /\ counts'[s][b] = counts[s][b] + 1
                /\ countedAt' = [countedAt EXCEPT ![r] = now]
    <2>1. CASE UNCHANGED <<counts, countedAt>>
      BY <1>0, <2>1 DEF TypeOK
    <2>2. CASE Count(r)
      <3>1. Counted(r) \in [Stores -> [Buckets -> Nat]]
        BY <1>a, CountedTypes
      <3>2. ASSUME NEW s \in Stores, NEW b \in Buckets
            PROVE  Counted(r)[s][b] = IF s = Redis /\ b = b0
                                      THEN counts[s][b] + 1 ELSE counts[s][b]
        BY <1>a, <1>p, CountedTypes, ZenonT(60)
      <3> QED
        BY <2>2, <3>1, <3>2 DEF Count
    <2> QED
      BY <2>1, <2>2 DEF IncrFails
  <1>1. TypeOK' /\ Settled
    BY <1>0, <1>c, <1>f DEF TypeOK, Places, Settled
  <1>2. Ordered' /\ ExpiryLate'
    BY <1>0, <1>c, <1>f DEF TypeOK, Ordered, ExpiryLate
  <1>3. \A s, b : LetIn(s, b)' = LetIn(s, b)
    BY <1>0, <1>f DEF TypeOK, LetIn, Bucket
  <1>4. \A s, b : /\ Tried(s, b) \subseteq Tried(s, b)' /\ Tried(s, b)' \subseteq Requests
                  /\ (s = Redis /\ b = b0 /\ countedAt' = [countedAt EXCEPT ![r] = now])
                        => Tried(s, b)' = Tried(s, b) \cup {r} /\ r \notin Tried(s, b)
    BY <1>0, <1>a, <1>c, <1>f, <1>p DEF TypeOK, Tried, Bucket, Never
  <1>5. Reckoned'
    <2> SUFFICES ASSUME NEW s \in Stores, NEW b \in Buckets,
                        CountedInTime(s, b)'
                 PROVE  /\ Cardinality(LetIn(s, b)') <= Rpm
                        /\ Over(s, b)' \/ Cardinality(LetIn(s, b)') <= counts'[s][b]
      BY DEF Reckoned
    <2>0. Cardinality(LetIn(s, b)) <= Rpm /\ (Over(s, b) \/ Cardinality(LetIn(s, b)) <= counts[s][b])
      BY <1>1, InTimeBefore DEF IInv, Reckoned
    <2>1. Over(s, b) => Over(s, b)'
      BY OverStays DEF Check
    <2>2. Cardinality(LetIn(s, b)) \in Nat /\ counts[s][b] \in Nat /\ counts'[s][b] >= counts[s][b]
      <3>1. LetIn(s, b) \subseteq Requests
        BY DEF LetIn
      <3> QED
        BY <1>0, <1>c, <3>1, Countable DEF TypeOK
    <2>3. counts'[s][b] \in Nat
      BY <1>c
    <2> QED
      BY <1>3, <2>0, <2>1, <2>2, <2>3
  <1>6. NoneInvented'
    <2> SUFFICES ASSUME NEW s \in Stores, NEW b \in Buckets
                 PROVE  counts'[s][b] <= Cardinality(Tried(s, b)')
      BY DEF NoneInvented
    <2>0. counts[s][b] <= Cardinality(Tried(s, b)) /\ counts[s][b] \in Nat
      BY <1>0 DEF IInv, NoneInvented, TypeOK
    <2>c. /\ Tried(s, b) \subseteq Requests
          /\ Cardinality(Tried(s, b)) \in Nat /\ Cardinality(Tried(s, b)') \in Nat
          /\ Cardinality(Tried(s, b)) <= Cardinality(Tried(s, b)')
      <3>1. Tried(s, b) \subseteq Requests
        BY DEF Tried
      <3> QED
        BY <1>4, <3>1, Countable
    <2>1. CASE counts'[s][b] = counts[s][b]
      BY <2>0, <2>1, <2>c
    <2>2. CASE /\ s = Redis /\ b = b0 /\ counts'[s][b] = counts[s][b] + 1
               /\ countedAt' = [countedAt EXCEPT ![r] = now]
      <3>1. Tried(s, b)' = Tried(s, b) \cup {r} /\ r \notin Tried(s, b)
        BY <1>4, <2>2
      <3>2. Cardinality(Tried(s, b) \cup {r}) = Cardinality(Tried(s, b)) + 1
        BY <2>c, <3>1, Countable
      <3> QED
        BY <2>0, <2>2, <2>c, <3>1, <3>2
    <2> QED
      BY <1>c, <2>1, <2>2
  <1>7. RefusedOnlyAtLimit'
    <2> SUFFICES ASSUME NEW q \in Requests, pc'[q] = "limited"
                 PROVE  Cardinality(Fellows(q)') >= Rpm
      BY DEF RefusedOnlyAtLimit, Fellows
    <2> QED
      BY <1>0, <1>1, <1>f, RefusalStays DEF TypeOK
  <1>8. KeysExpire'
    <2> SUFFICES ASSUME NEW b \in Buckets, counts'[Redis][b] > 0, expiry[b] = Never
                 PROVE  \E q \in Requests : Bucket(q)' = b /\ pc'[q] \in {"first", "failed"}
      BY <1>f DEF KeysExpire
    <2>1. CASE b = b0
      BY <1>0, <1>f, <1>p, <2>1 DEF TypeOK, Bucket
    <2>2. CASE b # b0
      <3>1. PICK q \in Requests : Bucket(q) = b /\ pc[q] \in {"first", "failed"}
        BY <1>a, <1>c, <2>2 DEF IInv, KeysExpire
      <3> QED
        BY <1>0, <1>f, <3>1 DEF TypeOK, Bucket
    <2> QED
      BY <2>1, <2>2
  <1> QED
    BY <1>1, <1>2, <1>5, <1>6, <1>7, <1>8 DEF IInv

(* The first of a key ends, let in or failed, its expiry set or not. *)
LEMMA ExpireIInv ==
  ASSUME IInv, NEW r \in Requests, Expire(r) \/ ExpireFails(r)
  PROVE  IInv'
  <1> USE BucketTypes
  <1>0. TypeOK /\ Ordered /\ ExpiryLate
    BY DEF IInv
  <1>a. Pending(r) /\ store[r] = Redis /\ Redis \in Stores
    BY Waiting DEF Expire, ExpireFails, Pending
  <1>p. PICK b0 \in Buckets : b0 = Bucket(r)
    BY <1>a, Waiting
  <1>v. Verdict(1) = "admitted"
    BY DEF Verdict
  <1>f. /\ pc[r] = "first" /\ now' = now
        /\ backend' = backend /\ store' = store /\ sentAt' = sentAt /\ counts' = counts
        /\ countedAt' = countedAt
        /\ pc' = [pc EXCEPT ![r] = "admitted"] \/ pc' = [pc EXCEPT ![r] = "failed"]
        /\ \/ expiry' = [expiry EXCEPT ![b0] = NewExpiry]
           \/ expiry' = expiry /\ pc' = [pc EXCEPT ![r] = "failed"]
    BY <1>p, <1>v DEF Expire, ExpireFails
  <1>g. NewExpiry \in Nat /\ NewExpiry >= b0 + Window + Grace
    <2>1. sentAt[r] \in 0..MaxTime /\ sentAt[r] <= now /\ now \in 0..MaxTime
      BY <1>0 DEF TypeOK, Ordered
    <2>2. b0 <= sentAt[r] /\ b0 \in Int
      BY <1>p, <2>1, InItsWindow DEF Bucket
    <2> QED
      BY <2>1, <2>2 DEF NewExpiry
  <1>1. TypeOK' /\ Settled
    BY <1>0, <1>f, <1>g DEF TypeOK, Places, Settled
  <1>2. Ordered' /\ ExpiryLate'
    BY <1>0, <1>f, <1>g DEF TypeOK, Ordered, ExpiryLate
  <1>3. \A s, b : LetIn(s, b)' \subseteq LetIn(s, b) /\ Tried(s, b)' = Tried(s, b)
    BY <1>0, <1>f DEF TypeOK, LetIn, Tried, Bucket
  <1>4. Reckoned'
    <2> SUFFICES ASSUME NEW s \in Stores, NEW b \in Buckets,
                        CountedInTime(s, b)'
                 PROVE  /\ Cardinality(LetIn(s, b)') <= Rpm
                        /\ Over(s, b)' \/ Cardinality(LetIn(s, b)') <= counts'[s][b]
      BY DEF Reckoned
    <2>0. Cardinality(LetIn(s, b)) <= Rpm /\ (Over(s, b) \/ Cardinality(LetIn(s, b)) <= counts[s][b])
      BY <1>1, InTimeBefore DEF IInv, Reckoned
    <2>1. Over(s, b) => Over(s, b)'
      BY OverStays DEF Check
    <2>2. /\ Cardinality(LetIn(s, b)) \in Nat /\ Cardinality(LetIn(s, b)') \in Nat
          /\ Cardinality(LetIn(s, b)') <= Cardinality(LetIn(s, b))
      <3>1. LetIn(s, b) \subseteq Requests /\ LetIn(s, b)' \subseteq LetIn(s, b)
        BY <1>3 DEF LetIn
      <3>2. LetIn(s, b)' \subseteq Requests
        BY <3>1
      <3> QED
        BY <3>1, <3>2, Countable
    <2>3. counts[s][b] \in Nat
      BY <1>0 DEF TypeOK
    <2> QED
      BY <1>f, <2>0, <2>1, <2>2, <2>3
  <1>5. NoneInvented'
    BY <1>3, <1>f DEF IInv, NoneInvented
  <1>6. RefusedOnlyAtLimit'
    <2> SUFFICES ASSUME NEW q \in Requests, pc'[q] = "limited"
                 PROVE  Cardinality(Fellows(q)') >= Rpm
      BY DEF RefusedOnlyAtLimit, Fellows
    <2> QED
      BY <1>0, <1>1, <1>f, RefusalStays DEF TypeOK
  <1>7. KeysExpire'
    <2> SUFFICES ASSUME NEW b \in Buckets, counts[Redis][b] > 0, expiry'[b] = Never
                 PROVE  \E q \in Requests : Bucket(q)' = b /\ pc'[q] \in {"first", "failed"}
      BY <1>f DEF KeysExpire
    <2>1. expiry[b] = Never
      BY <1>0, <1>f, <1>g DEF TypeOK, Never
    <2>2. PICK q \in Requests : Bucket(q) = b /\ pc[q] \in {"first", "failed"}
      BY <2>1 DEF IInv, KeysExpire
    <2>3. CASE q = r
      <3>1. b = b0
        BY <1>p, <2>2, <2>3
      <3>2. pc' = [pc EXCEPT ![r] = "failed"]
        BY <1>0, <1>f, <1>g, <3>1 DEF TypeOK, Never
      <3> QED
        BY <1>0, <1>f, <2>2, <2>3, <3>2 DEF TypeOK, Bucket
    <2>4. CASE q # r
      BY <1>0, <1>f, <2>2, <2>4 DEF TypeOK, Bucket
    <2> QED
      BY <2>3, <2>4
  <1> QED
    BY <1>1, <1>2, <1>4, <1>5, <1>6, <1>7 DEF IInv

(* In memory a check is one step, and what it drops is over. *)
LEMMA CheckInMemoryIInv ==
  ASSUME IInv, NEW r \in Requests, CheckInMemory(r)
  PROVE  IInv'
  <1> USE BucketTypes
  <1>0. TypeOK /\ Ordered /\ ExpiryLate
    BY DEF IInv
  <1>p. PICK b0 \in Buckets : b0 = BucketAt(now)
    BY <1>0, BucketOf DEF TypeOK
  <1>q. b0 <= now /\ now < b0 + Window /\ now \in 0..MaxTime
    BY <1>0, <1>p, InItsWindow DEF TypeOK
  <1>r. PICK replica \in Replicas, crowded \in BOOLEAN :
          LET counted == [counts[replica] EXCEPT ![b0] = @ + 1]
          IN  /\ counts' = [counts EXCEPT ![replica] = Kept(counted, crowded)]
              /\ pc' = [pc EXCEPT ![r] = Verdict(counted[b0])]
              /\ store' = [store EXCEPT ![r] = replica]
    BY <1>p DEF CheckInMemory
  <1>s. replica \in Stores /\ replica # Redis /\ Redis \in Stores
    BY DEF Stores
  <1>n. PICK n \in Nat : n = counts[replica][b0]
    BY <1>0, <1>s DEF TypeOK
  <1>d. [counts[replica] EXCEPT ![b0] = @ + 1] = [b \in Buckets |->
            IF b = b0 THEN n + 1 ELSE counts[replica][b]]
    BY <1>0, <1>s, <1>n DEF TypeOK
  <1>f. /\ pc[r] = "new" /\ now' = now /\ backend' = backend /\ expiry' = expiry
        /\ store' = [store EXCEPT ![r] = replica] /\ sentAt' = [sentAt EXCEPT ![r] = now]
        /\ pc' = [pc EXCEPT ![r] = IF n + 1 > Rpm THEN "limited" ELSE "admitted"]
        /\ countedAt' = [countedAt EXCEPT ![r] = now] /\ countedAt[r] = Never
    BY <1>0, <1>d, <1>r DEF CheckInMemory, Verdict, Ordered
  <1>k. counts' = [counts EXCEPT ![replica] = [b \in Buckets |->
            IF crowded /\ b < now - 2 * Horizon THEN 0
            ELSE IF b = b0 THEN n + 1 ELSE counts[replica][b]]]
    BY <1>d, <1>r DEF Kept
  <1>c. /\ counts' \in [Stores -> [Buckets -> Nat]]
        /\ \A s \in Stores, b \in Buckets :
             \/ /\ s = replica /\ b = b0 /\ counts'[s][b] = n + 1
             \/ /\ s # replica \/ b # b0
                /\ \/ counts'[s][b] = counts[s][b]
                   \/ s = replica /\ b < now - 2 * Horizon /\ counts'[s][b] = 0
    <2>1. [b \in Buckets |-> IF crowded /\ b < now - 2 * Horizon THEN 0
                              ELSE IF b = b0 THEN n + 1 ELSE counts[replica][b]] \in [Buckets -> Nat]
      BY <1>0, <1>s DEF TypeOK
    <2>2. counts' \in [Stores -> [Buckets -> Nat]]
      BY <1>0, <1>k, <1>s, <2>1 DEF TypeOK
    <2>3. ~(b0 < now - 2 * Horizon)
      BY <1>q
    <2>4. ASSUME NEW s \in Stores, NEW b \in Buckets
          PROVE  \/ /\ s = replica /\ b = b0 /\ counts'[s][b] = n + 1
                 \/ /\ s # replica \/ b # b0
                    /\ \/ counts'[s][b] = counts[s][b]
                       \/ s = replica /\ b < now - 2 * Horizon /\ counts'[s][b] = 0
      <3>1. CASE s = replica
        <4>1. counts'[s][b] = IF crowded /\ b < now - 2 * Horizon THEN 0
                              ELSE IF b = b0 THEN n + 1 ELSE counts[replica][b]
          BY <1>0, <1>k, <1>s, <3>1 DEF TypeOK
        <4> QED
          BY <2>3, <3>1, <4>1
      <3>2. CASE s # replica
        BY <1>0, <1>k, <3>2 DEF TypeOK
      <3> QED
        BY <3>1, <3>2
    <2> QED
      BY <2>2, <2>4
  <1>1. TypeOK' /\ Settled
    BY <1>0, <1>c, <1>f, <1>q, <1>s DEF TypeOK, Places, Settled
  <1>2. Ordered' /\ ExpiryLate'
    BY <1>0, <1>f, <1>q DEF TypeOK, Ordered, ExpiryLate
  <1>b. sentAt'[r] = now /\ Bucket(r)' = b0
    BY <1>0, <1>f, <1>p DEF TypeOK, Bucket
  <1>3. ASSUME NEW s \in Stores, NEW b \in Buckets, s # replica \/ b # b0
        PROVE  LetIn(s, b)' = LetIn(s, b) /\ Tried(s, b)' = Tried(s, b)
    BY <1>0, <1>3, <1>b, <1>f DEF TypeOK, LetIn, Tried, Bucket
  <1>4. /\ r \notin LetIn(replica, b0) /\ r \notin Tried(replica, b0)
        /\ Tried(replica, b0)' = Tried(replica, b0) \cup {r}
        /\ LetIn(replica, b0)' = IF n + 1 <= Rpm
                                  THEN LetIn(replica, b0) \cup {r} ELSE LetIn(replica, b0)
    <2>1. /\ LetIn(replica, b0)' = IF n + 1 <= Rpm
                                    THEN LetIn(replica, b0) \cup {r} ELSE LetIn(replica, b0)
          /\ r \notin LetIn(replica, b0)
      BY <1>0, <1>b, <1>f DEF TypeOK, LetIn, Bucket
    <2>2. Tried(replica, b0)' = Tried(replica, b0) \cup {r} /\ r \notin Tried(replica, b0)
      BY <1>0, <1>b, <1>f, <1>q DEF TypeOK, Tried, Bucket, Never
    <2> QED
      BY <2>1, <2>2
  <1>5. LetIn(replica, b0) \subseteq Requests /\ Tried(replica, b0) \subseteq Requests
    BY DEF LetIn, Tried
  <1>6. /\ Cardinality(LetIn(replica, b0)) \in Nat /\ Cardinality(Tried(replica, b0)) \in Nat
        /\ Cardinality(Tried(replica, b0)') = Cardinality(Tried(replica, b0)) + 1
        /\ Cardinality(LetIn(replica, b0) \cup {r}) = Cardinality(LetIn(replica, b0)) + 1
    BY <1>4, <1>5, Countable
  <1>7. Reckoned'
    <2> SUFFICES ASSUME NEW s \in Stores, NEW b \in Buckets,
                        CountedInTime(s, b)'
                 PROVE  /\ Cardinality(LetIn(s, b)') <= Rpm
                        /\ Over(s, b)' \/ Cardinality(LetIn(s, b)') <= counts'[s][b]
      BY DEF Reckoned
    <2>0. Cardinality(LetIn(s, b)) <= Rpm /\ (Over(s, b) \/ Cardinality(LetIn(s, b)) <= counts[s][b])
      BY <1>1, InTimeBefore DEF IInv, Reckoned
    <2>o. Over(s, b) => Over(s, b)'
      BY OverStays DEF Check
    <2>1. CASE (s # replica \/ b # b0) /\ counts'[s][b] = counts[s][b]
      BY <1>3, <2>0, <2>1, <2>o
    <2>2. CASE (s # replica \/ b # b0) /\ s = replica /\ b < now - 2 * Horizon
      <3>1. Over(s, b)'
        BY <1>f, <1>q, <1>s, <2>2 DEF Over
      <3> QED
        BY <1>3, <2>0, <2>2, <3>1
    <2>3. CASE s = replica /\ b = b0
      <3>1. ~Over(replica, b0)
        BY <1>q DEF Over
      <3>2. Cardinality(LetIn(replica, b0)) <= n
        BY <1>n, <2>0, <2>3, <3>1
      <3>3. counts'[s][b] = n + 1
        BY <1>c, <2>3
      <3>4. LetIn(s, b)' = IF n + 1 <= Rpm
                           THEN LetIn(replica, b0) \cup {r} ELSE LetIn(replica, b0)
        BY <1>4, <2>3
      <3>5. Cardinality(LetIn(replica, b0)) <= Rpm
        BY <2>0, <2>3
      <3> QED
        BY <1>6, <3>2, <3>3, <3>4, <3>5
    <2>4. (s = replica /\ b = b0) \/ counts'[s][b] = counts[s][b] \/ b < now - 2 * Horizon
      BY <1>c
    <2>5. s = replica \/ counts'[s][b] = counts[s][b]
      BY <1>c
    <2> QED
      BY <2>1, <2>2, <2>3, <2>4, <2>5
  <1>8. NoneInvented'
    <2> SUFFICES ASSUME NEW s \in Stores, NEW b \in Buckets
                 PROVE  counts'[s][b] <= Cardinality(Tried(s, b)')
      BY DEF NoneInvented
    <2>0. /\ counts[s][b] <= Cardinality(Tried(s, b)) /\ counts[s][b] \in Nat
          /\ Cardinality(Tried(s, b)) \in Nat
      BY <1>0, Countable DEF IInv, NoneInvented, TypeOK, Tried
    <2>1. CASE s # replica \/ b # b0
      <3>1. Tried(s, b)' = Tried(s, b)
        BY <1>3, <2>1
      <3>2. counts'[s][b] = 0 \/ counts'[s][b] = counts[s][b]
        BY <1>c, <2>1
      <3> QED
        BY <2>0, <3>1, <3>2
    <2>2. CASE s = replica /\ b = b0
      BY <1>6, <1>c, <1>n, <2>0, <2>2
    <2> QED
      BY <2>1, <2>2
  <1>9. RefusedOnlyAtLimit'
    <2> SUFFICES ASSUME NEW q \in Requests, pc'[q] = "limited"
                 PROVE  Cardinality(Fellows(q)') >= Rpm
      BY DEF RefusedOnlyAtLimit, Fellows
    <2>1. CASE q = r
      <3>1. counts[replica][b0] >= Rpm
        BY <1>0, <1>f, <1>n, <2>1 DEF TypeOK
      <3>2. store'[r] = replica
        BY <1>0, <1>f DEF TypeOK
      <3> QED
        BY <1>1, <1>b, <1>f, <1>s, <2>1, <3>1, <3>2, RefusedWithReason
    <2>2. CASE q # r
      BY <1>0, <1>1, <1>f, <2>2, RefusalStays DEF TypeOK
    <2> QED
      BY <2>1, <2>2
  <1>10. KeysExpire'
    <2> SUFFICES ASSUME NEW b \in Buckets, counts'[Redis][b] > 0, expiry[b] = Never
                 PROVE  \E q \in Requests : Bucket(q)' = b /\ pc'[q] \in {"first", "failed"}
      BY <1>f DEF KeysExpire
    <2>1. counts[Redis][b] > 0
      BY <1>c, <1>s
    <2>2. PICK q \in Requests : Bucket(q) = b /\ pc[q] \in {"first", "failed"}
      BY <2>1 DEF IInv, KeysExpire
    <2> QED
      BY <1>0, <1>f, <2>2 DEF TypeOK, Bucket
  <1> QED
    BY <1>1, <1>2, <1>7, <1>8, <1>9, <1>10 DEF IInv

-----------------------------------------------------------------------------
(* The theorems *)

LEMMA StepIInv == IInv /\ [Next]_vars => IInv'
  <1> SUFFICES ASSUME IInv, [Next]_vars PROVE IInv'
    OBVIOUS
  <1>1. CASE Tick
    BY <1>1, TickIInv
  <1>2. ASSUME NEW r \in Requests, Check(r) PROVE IInv'
    BY <1>2, CheckInMemoryIInv, SendIInv, IncrIInv, IncrFailsIInv, ExpireIInv DEF Check
  <1>3. CASE UNCHANGED vars
    BY <1>3 DEF vars, IInv, TypeOK, Ordered, ExpiryLate, Reckoned, NoneInvented,
                RefusedOnlyAtLimit, KeysExpire, LetIn, Tried, Over, CountedInTime, Bucket
  <1> QED
    BY <1>1, <1>2, <1>3 DEF Next

LEMMA Inductive == Spec => []IInv
  BY InitIInv, StepIInv, PTL DEF Spec

(* The counters, the expiries and the requests keep their types: every     *)
(* count is a natural number and every bucket one a clock can name.        *)
THEOREM TypeCorrect == Spec => []TypeOK
  BY Inductive, PTL DEF IInv

(* Those that a store admitted within a window named its bucket. *)
LEMMA AdmittedLetIn ==
  ASSUME IInv, NEW s \in Stores, NEW t \in 0..MaxTime, NEW r \in Admitted(s, t, t + Window - 1)
  PROVE  /\ r \in LetIn(s, Bucket(r)) /\ Bucket(r) \in Buckets
         /\ t = BucketAt(t) => Bucket(r) = t
  <1>1. /\ r \in Requests /\ pc[r] = "admitted" /\ store[r] = s
        /\ sentAt[r] \in 0..MaxTime /\ t <= sentAt[r] /\ sentAt[r] < t + Window
    BY BucketTypes DEF Admitted, IInv, TypeOK
  <1>2. t = BucketAt(t) => Bucket(r) = t
    BY <1>1, OneBucket, BucketTypes DEF Bucket
  <1> QED
    BY <1>1, <1>2, BucketOf DEF LetIn, Bucket

(* The buckets are the times at which a window starts. *)
LEMMA BucketsStart ==
  ASSUME NEW b \in Buckets
  PROVE  b \in 0..MaxTime /\ BucketAt(b) = b
  <1>1. PICK t \in 0..MaxTime : b = BucketAt(t)
    BY DEF Buckets
  <1>2. b \in Nat /\ b <= t
    BY <1>1, InItsWindow, BucketTypes
  <1> QED
    BY <1>1, <1>2, OneBucket, BucketTypes

(* No store admits more than the limit of one window, if none came too     *)
(* late.                                                                   *)
LEMMA WithinWindow == IInv => LimitPerWindow
  <1> SUFFICES ASSUME IInv, NEW s \in Stores, NEW b \in Buckets, CountedInTime(s, b)
               PROVE  Cardinality(Admitted(s, b, b + Window - 1)) <= Rpm
    BY DEF LimitPerWindow
  <1>1. Admitted(s, b, b + Window - 1) \subseteq LetIn(s, b)
    BY AdmittedLetIn, BucketsStart
  <1>2. LetIn(s, b) \subseteq Requests /\ Admitted(s, b, b + Window - 1) \subseteq Requests
    BY DEF LetIn, Admitted
  <1>3. Cardinality(LetIn(s, b)) <= Rpm
    BY DEF IInv, Reckoned
  <1> QED
    BY <1>1, <1>2, <1>3, Countable, BucketTypes

(* However the commands of the replicas are delayed, executed and failed,  *)
(* a store admits at most rpm requests of a window for which no command    *)
(* arrives after the grace period.                                         *)
THEOREM LimitKept == Spec => []LimitPerWindow
  BY Inductive, WithinWindow, PTL

(* Only a window that was used up refuses a request.                       *)
THEOREM RefusalsJustified == Spec => []RefusedOnlyAtLimit
  BY Inductive, PTL DEF IInv

(* Only a failure between INCRBY and EXPIRE leaves a key for ever.         *)
THEOREM KeysExpireUnlessFailed == Spec => []KeysExpire
  BY Inductive, PTL DEF IInv
=============================================================================
