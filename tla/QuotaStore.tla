----------------------------- MODULE QuotaStore -----------------------------
(***************************************************************************)
(* The request quota of one tenant (quotas.py, behind the gate in          *)
(* gateway.py _proxy_handler), with its counters in Redis, shared by the   *)
(* replicas, or in the memory of each replica.                             *)
(*                                                                         *)
(* A request reads the clock and names its bucket, the start of a fixed    *)
(* window, before it awaits the INCRBY: the command may reach Redis in a   *)
(* later window, and no timeout bounds how much later.  Redis executes a   *)
(* command at once and removes a key at its expiry, by a clock taken to be *)
(* that of the replicas.                                                   *)
(***************************************************************************)
EXTENDS Integers, FiniteSets

CONSTANTS
  Requests,
  Replicas,
  Redis,     \* the shared store
  Rpm,       \* quota.rpm; 0 lets everything through and is not modelled
  Window,    \* window_s: 60
  Grace,     \* what the expiry adds to the window: 60
  Horizon,   \* max(window_s, 3600)
  MaxTime    \* bound on the clock

ASSUME QuotaAssumption ==
  /\ Redis \notin Replicas
  /\ IsFiniteSet(Requests)
  /\ Rpm \in Nat \ {0}
  /\ Window \in Nat \ {0}
  /\ Grace \in Nat
  /\ Horizon \in Nat /\ Horizon >= Window
  /\ MaxTime \in Nat

VARIABLES
  now,      \* time.time()
  backend,  \* "redis" or "memory": redis.enabled, the same for every replica
  pc,       \* where each request is in check()
  store,    \* history: the store that counts each request
  sentAt,   \* history: when the request named its bucket
  countedAt, \* history: when its store counted it; Never before that
  counts,   \* the counters of each store, by bucket; 0 is no key
  expiry    \* when Redis removes the key of a bucket; Never without EXPIRE

vars == <<now, backend, pc, store, sentAt, countedAt, counts, expiry>>

Never == -1

Stores == Replicas \cup {Redis}

(* "sent": INCRBY on its way; "first": it made the key, EXPIRE follows;    *)
(* "failed": Redis raised, and the request ends with it.                   *)
Places == {"new", "sent", "first", "admitted", "limited", "failed"}

(* window_start. *)
BucketAt(t) == t - (t % Window)

Buckets == {BucketAt(t) : t \in 0..MaxTime}

Bucket(r) == BucketAt(sentAt[r])

-----------------------------------------------------------------------------

(* Mutant: the request that reaches the limit is refused. *)
VerdictEarly(count) == IF count >= Rpm THEN "limited" ELSE "admitted"

(* Mutant: the request itself is not reckoned with. *)
VerdictLate(count) == IF count - 1 > Rpm THEN "limited" ELSE "admitted"

(* check(): the request itself is in the count. *)
Verdict(count) == IF count > Rpm THEN "limited" ELSE "admitted"

Init ==
  /\ now = 0
  /\ backend \in {"redis", "memory"}
  /\ pc = [r \in Requests |-> "new"]
  /\ store = [r \in Requests |-> Redis]
  /\ sentAt = [r \in Requests |-> 0]
  /\ countedAt = [r \in Requests |-> Never]
  /\ counts = [s \in Stores |-> [b \in Buckets |-> 0]]
  /\ expiry = [b \in Buckets |-> Never]

(* _MemoryRooms.count(): the count goes up, and when the dictionary has    *)
(* grown too large, with the windows of all tenants, the old ones go.      *)
Kept(table, crowded) ==
  [b \in Buckets |-> IF crowded /\ b < now - 2 * Horizon THEN 0 ELSE table[b]]

(* check() with the counters in memory does not wait. *)
CheckInMemory(r) ==
  /\ backend = "memory"
  /\ pc[r] = "new"
  /\ \E replica \in Replicas, crowded \in BOOLEAN :
       LET b == BucketAt(now)
           counted == [counts[replica] EXCEPT ![b] = @ + 1]
       IN  /\ counts' = [counts EXCEPT ![replica] = Kept(counted, crowded)]
           /\ pc' = [pc EXCEPT ![r] = Verdict(counted[b])]
           /\ store' = [store EXCEPT ![r] = replica]
  /\ sentAt' = [sentAt EXCEPT ![r] = now]
  /\ countedAt' = [countedAt EXCEPT ![r] = now]
  /\ UNCHANGED <<now, backend, expiry>>

(* check() with Redis: the bucket is named and the INCRBY sent. *)
Send(r) ==
  /\ backend = "redis"
  /\ pc[r] = "new"
  /\ pc' = [pc EXCEPT ![r] = "sent"]
  /\ sentAt' = [sentAt EXCEPT ![r] = now]
  /\ UNCHANGED <<now, backend, store, countedAt, counts, expiry>>

Counted(r) == [counts EXCEPT ![Redis][Bucket(r)] = @ + 1]

(* The INCRBY is executed. *)
Count(r) ==
  /\ counts' = Counted(r)
  /\ countedAt' = [countedAt EXCEPT ![r] = now]

(* Mutant: every count but the first asks for the expiry. *)
FirstMissed(count) == count = 0

(* count == amount: the key is new. *)
First(count) == count = 1

(* The INCRBY is executed and answered. *)
Incr(r) ==
  /\ pc[r] = "sent"
  /\ Count(r)
  /\ LET count == Counted(r)[Redis][Bucket(r)]
     IN  pc' = [pc EXCEPT ![r] = IF First(count) THEN "first" ELSE Verdict(count)]
  /\ UNCHANGED <<now, backend, store, sentAt, expiry>>

(* Mutant: the count is given back, whether or not it was taken. *)
IncrFailsUndone(r) ==
  /\ pc[r] = "sent"
  /\ pc' = [pc EXCEPT ![r] = "failed"]
  /\ counts' = [counts EXCEPT ![Redis][Bucket(r)] = @ - 1]
  /\ UNCHANGED <<now, backend, store, sentAt, countedAt, expiry>>

(* The command raises, executed or not. *)
IncrFails(r) ==
  /\ pc[r] = "sent"
  /\ pc' = [pc EXCEPT ![r] = "failed"]
  /\ Count(r) \/ UNCHANGED <<counts, countedAt>>
  /\ UNCHANGED <<now, backend, store, sentAt, expiry>>

(* Mutant: the key lives for one window from its creation. *)
ExpiryOneWindow == now + Window

NewExpiry == now + Window + Grace

(* The EXPIRE of a key that is there is executed and answered. *)
Expire(r) ==
  /\ pc[r] = "first"
  /\ expiry' = [expiry EXCEPT ![Bucket(r)] = NewExpiry]
  /\ pc' = [pc EXCEPT ![r] = Verdict(1)]
  /\ UNCHANGED <<now, backend, store, sentAt, countedAt, counts>>

(* It raises, executed or not, or the replica dies before it is sent. *)
ExpireFails(r) ==
  /\ pc[r] = "first"
  /\ pc' = [pc EXCEPT ![r] = "failed"]
  /\ \/ UNCHANGED expiry
     \/ expiry' = [expiry EXCEPT ![Bucket(r)] = NewExpiry]
  /\ UNCHANGED <<now, backend, store, sentAt, countedAt, counts>>

Expired(b) == expiry[b] # Never /\ expiry[b] <= now + 1

(* Time passes, whatever is on its way; Redis removes expired keys. *)
Tick ==
  /\ now < MaxTime
  /\ now' = now + 1
  /\ expiry' = [b \in Buckets |-> IF Expired(b) THEN Never ELSE expiry[b]]
  /\ counts' = [counts EXCEPT ![Redis] =
                  [b \in Buckets |-> IF Expired(b) THEN 0 ELSE @[b]]]
  /\ UNCHANGED <<backend, pc, store, sentAt, countedAt>>

Check(r) ==
  CheckInMemory(r) \/ Send(r) \/ Incr(r) \/ IncrFails(r) \/ Expire(r) \/ ExpireFails(r)

Next == Tick \/ \E r \in Requests : Check(r)

Spec == Init /\ [][Next]_vars

-----------------------------------------------------------------------------
(* Properties *)

(* The types of the counters and the requests. *)
TypeOK ==
  /\ now \in 0..MaxTime
  /\ backend \in {"redis", "memory"}
  /\ pc \in [Requests -> Places]
  /\ store \in [Requests -> Stores]
  /\ sentAt \in [Requests -> 0..MaxTime]
  /\ countedAt \in [Requests -> 0..MaxTime \cup {Never}]
  /\ counts \in [Stores -> [Buckets -> Nat]]
  /\ expiry \in [Buckets -> Nat \cup {Never}]

Admitted(s, from, to) ==
  {r \in Requests : pc[r] = "admitted" /\ store[r] = s /\ sentAt[r] \in from..to}

(* Every request of a bucket that a store counted was counted before the   *)
(* bucket's key can have expired.                                          *)
CountedInTime(s, b) ==
  \A r \in Requests :
    (store[r] = s /\ Bucket(r) = b /\ countedAt[r] # Never)
      => countedAt[r] < b + Window + Grace

(* A store admits no more than rpm requests of one window, whichever       *)
(* replicas serve them, in whatever order their commands arrive, delayed   *)
(* into the next window or not, and whatever keys expire or are evicted -- *)
(* unless a command arrives when the key may have expired, two windows     *)
(* after it was due, and begins the count anew.                            *)
LimitPerWindow ==
  \A s \in Stores, b \in Buckets :
    CountedInTime(s, b) => Cardinality(Admitted(s, b, b + Window - 1)) <= Rpm

(* A request is refused only when rpm others of its window had been        *)
(* counted by its store: counts of an earlier window or of another store,  *)
(* requests on their way and keys that stay too long refuse nothing.       *)
RefusedOnlyAtLimit ==
  \A r \in Requests :
    pc[r] = "limited" =>
      Cardinality({q \in Requests \ {r} : /\ countedAt[q] # Never
                                          /\ store[q] = store[r]
                                          /\ Bucket(q) = Bucket(r)}) >= Rpm

(* A key without an expiry has its EXPIRE on the way, or the request that  *)
(* made it failed: only a failure leaves a key for ever.                   *)
KeysExpire ==
  \A b \in Buckets :
    (counts[Redis][b] > 0 /\ expiry[b] = Never)
      => \E r \in Requests : Bucket(r) = b /\ pc[r] \in {"first", "failed"}
=============================================================================
