-------------------------- MODULE ForwardingProofs --------------------------
(***************************************************************************)
(* Proofs about Forwarding, for every set of requests and upstreams, every *)
(* route and every setting of the breakers.                                *)
(***************************************************************************)
EXTENDS Forwarding, TLAPS

(* The inductive invariant.  A breaker that is not open counts fewer than  *)
(* MaxFailures failures: that must hold of each breaker after a read, a    *)
(* success and a failure in any state.  That an upstream being tried is    *)
(* listed is what keeps Failover inside the bag.                           *)
IInv == TypeOK /\ AdmittingBelowMax /\ TryingListed

Below(b) == b.state # "open" => b.failures < MaxFailures

-----------------------------------------------------------------------------
(* Breakers *)

(* Reading a breaker keeps its type and its count below the maximum. *)
LEMMA ReadKeeps ==
  ASSUME NEW b \in Breaker, NEW t \in Nat, Below(b)
  PROVE  Read(b, t) \in Breaker /\ Below(Read(b, t))
  <1>1. b.failures \in Nat /\ MaxFailures \in Nat \ {0} /\ Cooldown \in Nat \ {0}
    BY BreakerAssumption DEF Breaker
  <1>2. CASE b.state = "open" /\ t - b.openedAt >= Cooldown
    <2> DEFINE half == [b EXCEPT !.state = "half-open", !.failures = 0]
    <2>1. Read(b, t) = half
      BY <1>2 DEF Read
    <2>2. half \in Breaker /\ half.failures = 0
      BY DEF Breaker
    <2>3. 0 < MaxFailures
      BY <1>1
    <2> HIDE DEF half
    <2> QED
      BY <2>1, <2>2, <2>3 DEF Below
  <1>3. CASE ~(b.state = "open" /\ t - b.openedAt >= Cooldown)
    BY <1>3 DEF Read
  <1> QED
    BY <1>2, <1>3

(* So does recording the result of an attempt, in whatever state. *)
LEMMA RecordKeeps ==
  ASSUME NEW b \in Breaker, NEW t \in Nat, NEW ok \in BOOLEAN, Below(b)
  PROVE  Record(b, ok, t) \in Breaker /\ Below(Record(b, ok, t))
  <1>1. b.failures \in Nat /\ MaxFailures \in Nat \ {0}
    BY BreakerAssumption DEF Breaker
  <1>2. Succeed(b) \in Breaker /\ Below(Succeed(b))
    <2>1. Succeed(b) \in Breaker /\ Succeed(b).failures = 0
      BY DEF Succeed, Breaker
    <2>2. 0 < MaxFailures
      BY <1>1
    <2> QED
      BY <2>1, <2>2 DEF Below
  <1>3. FailOnce(b, t) \in Breaker /\ Below(FailOnce(b, t))
    <2> DEFINE counted == [b EXCEPT !.failures = @ + 1]
               opened  == [counted EXCEPT !.state = "open", !.openedAt = t]
    <2>1. counted \in Breaker /\ counted.state = b.state /\ counted.failures = b.failures + 1
      BY <1>1 DEF Breaker
    <2>2. opened \in Breaker /\ opened.state = "open"
      BY <2>1 DEF Breaker
    <2> HIDE DEF counted
    <2>3. CASE b.state # "open" /\ counted.failures >= MaxFailures
      <3>1. FailOnce(b, t) = opened
        BY <2>3 DEF FailOnce, counted
      <3> QED
        BY <2>2, <3>1 DEF Below
    <2>4. CASE ~(b.state # "open" /\ counted.failures >= MaxFailures)
      <3>1. FailOnce(b, t) = counted
        BY <2>4 DEF FailOnce, counted
      <3>2. b.state # "open" => counted.failures < MaxFailures
        BY <1>1, <2>1, <2>4
      <3> QED
        BY <2>1, <3>1, <3>2 DEF Below
    <2> QED
      BY <2>3, <2>4
  <1> QED
    BY <1>2, <1>3 DEF Record

(* A breaker that does not let a request through is open and cooling down, *)
(* and reading it leaves it as it is.                                      *)
LEMMA RefusalIsCooling ==
  ASSUME NEW b \in Breaker, NEW t \in Nat, ~Allows(b, t)
  PROVE  Read(b, t).state = "open" /\ t - Read(b, t).openedAt < Cooldown
  BY BreakerAssumption DEF Allows, Read, Breaker

(* What a dictionary of breakers must be at every point of a step. *)
Sound(brk) == brk \in [Upstreams -> Breaker] /\ \A u \in Upstreams : Below(brk[u])

LEMMA ReadAllSound ==
  ASSUME NEW brk, NEW listed, Sound(brk), now \in Nat
  PROVE  Sound(ReadAll(brk, listed))
  BY ReadKeeps DEF ReadAll, Sound

LEMMA RecordedSound ==
  ASSUME Sound(breaker), now \in Nat, NEW r, NEW ok \in BOOLEAN
  PROVE  Sound(Recorded(r, ok))
  BY RecordKeeps DEF Recorded, Sound

-----------------------------------------------------------------------------
(* The loop *)

Bags == [Upstreams -> 0..MaxListed]

KeySets == [Headers -> Keys]

(* The parts of the state that a handler leaves alone. *)
Still == UNCHANGED <<now, server, toClose>>

(* The loop, entered with sound breakers and a list, keeps the invariant;  *)
(* the handler then waits for an upstream or has answered.                 *)
LEMMA LoopKeeps ==
  ASSUME IInv, NEW r \in Requests, NEW bag \in Bags, NEW brk, Sound(brk),
         Loop(r, bag, brk), Still
  PROVE  IInv'
  <1>1. now \in Nat /\ Sound(ReadAll(brk, Listed(bag)))
    BY ReadAllSound DEF IInv, TypeOK
  <1>2. Sound(breaker)'
    BY <1>1 DEF Loop, Sound, Below
  <1>3. PICK rest \in Bags :
          /\ left' = [left EXCEPT ![r] = rest]
          /\ \/ \E u \in Healthy(brk, rest) :
                  Send(r, u) /\ \E new \in KeySets : keys' = [keys EXCEPT ![r] = new]
             \/ End(r, "unavailable", 1) /\ UNCHANGED <<session, keys>>
    BY DEF Loop, Remainders, Bags, Carried, KeySets
  <1>4. CASE \E u \in Healthy(brk, rest) :
               Send(r, u) /\ \E new \in KeySets : keys' = [keys EXCEPT ![r] = new]
    <2>1. PICK u \in Upstreams : rest[u] > 0 /\ Send(r, u)
      BY <1>4 DEF Healthy, Listed
    <2>2. keys' \in [Requests -> KeySets]
      BY <1>4 DEF IInv, TypeOK, KeySets
    <2>3. TypeOK'
      BY <1>2, <1>3, <2>1, <2>2 DEF IInv, TypeOK, Send, Still, Sound, Bags, KeySets, Waiting, Ended
    <2>4. TryingListed'
      BY <1>3, <2>1 DEF IInv, TypeOK, TryingListed, Send, Waiting, Ended, Bags
    <2> QED
      BY <1>2, <2>3, <2>4 DEF IInv, AdmittingBelowMax, Sound, Below
  <1>5. CASE End(r, "unavailable", 1) /\ UNCHANGED <<session, keys>>
    <2>1. TypeOK'
      BY <1>2, <1>3, <1>5 DEF IInv, TypeOK, End, Still, Sound, Bags, Waiting, Ended
    <2>2. TryingListed'
      BY <1>3, <1>5 DEF IInv, TypeOK, TryingListed, End, Waiting, Ended, Bags
    <2> QED
      BY <1>2, <2>1, <2>2 DEF IInv, AdmittingBelowMax, Sound, Below
  <1> QED
    BY <1>3, <1>4, <1>5

LEMMA SoundNow ==
  ASSUME IInv
  PROVE  Sound(breaker) /\ now \in Nat
  BY DEF IInv, TypeOK, AdmittingBelowMax, Sound, Below

LEMMA FailoverKeeps ==
  ASSUME IInv, NEW r \in Requests, NEW brk, Sound(brk), pc[r] \in Waiting, Failover(r, brk)
  PROVE  IInv'
  <1> DEFINE bag == [left[r] EXCEPT ![at[r]] = @ - 1]
  <1>1. bag \in Bags
    BY ForwardingAssumption DEF IInv, TypeOK, TryingListed, Bags
  <1>2. Loop(r, bag, brk) /\ Still
    BY DEF Failover, Still
  <1> HIDE DEF bag
  <1> QED
    BY <1>1, <1>2, LoopKeeps

-----------------------------------------------------------------------------
(* The invariant *)

LEMMA InitKeeps == Init => IInv
  BY ForwardingAssumption, BreakerAssumption
  DEF Init, IInv, TypeOK, AdmittingBelowMax, TryingListed, NewBreaker, Breaker, Waiting, Keys

LEMMA BeginKeeps ==
  ASSUME IInv, NEW r \in Requests, Begin(r)
  PROVE  IInv'
  BY SoundNow, LoopKeeps DEF Begin, Still, IInv, TypeOK, Bags

HandlerTypes ==
  /\ pc \in [Requests -> {"new"} \cup Waiting \cup Ended]
  /\ at \in [Requests -> Upstreams \cup {Nobody}]
  /\ heads \in [Requests -> Nat]

LEMMA EndTyped ==
  ASSUME TypeOK, NEW r \in Requests, NEW how \in Ended, NEW n \in {0, 1}, End(r, how, n)
  PROVE  HandlerTypes'
  <1>1. pc' \in [Requests -> {"new"} \cup Waiting \cup Ended]
    BY DEF End, TypeOK
  <1>2. at' \in [Requests -> Upstreams \cup {Nobody}]
    BY DEF End, TypeOK
  <1>3. heads' \in [Requests -> Nat]
    BY DEF End, TypeOK
  <1> QED
    BY <1>1, <1>2, <1>3 DEF HandlerTypes

LEMMA AnsweredKeeps ==
  ASSUME IInv, NEW r \in Requests, NEW status \in Statuses, Answered(r, status)
  PROVE  IInv'
  <1>1. Sound(breaker)'
    BY SoundNow, RecordedSound DEF Answered, Sound, Below
  <1>2. pc[r] = "sending" /\ at[r] \in Upstreams
    BY DEF Answered, IInv, TryingListed, Waiting
  <1>3. HandlerTypes'
    <2>1. CASE End(r, "answered", 1)
      BY <2>1, EndTyped DEF IInv, Ended
    <2>2. CASE pc' = [pc EXCEPT ![r] = "streaming"] /\ heads' = [heads EXCEPT ![r] = @ + 1] /\ UNCHANGED at
      BY <2>2 DEF IInv, TypeOK, HandlerTypes, Waiting
    <2>3. CASE pc' = [pc EXCEPT ![r] = "reading"] /\ UNCHANGED <<at, heads>>
      BY <2>3 DEF IInv, TypeOK, HandlerTypes, Waiting
    <2> QED
      BY <2>1, <2>2, <2>3 DEF Answered
  <1>4. TypeOK'
    BY <1>1, <1>3 DEF Answered, IInv, TypeOK, Sound, HandlerTypes
  <1>5. TryingListed'
    BY <1>2 DEF Answered, End, IInv, TypeOK, TryingListed, Waiting, Ended
  <1> QED
    BY <1>1, <1>4, <1>5 DEF IInv, AdmittingBelowMax, Sound, Below

LEMMA DoneKeeps ==
  ASSUME IInv, NEW r \in Requests, Done(r)
  PROVE  IInv'
  <1>1. TypeOK'
    BY EndTyped DEF Done, IInv, TypeOK, HandlerTypes, Ended
  <1>2. TryingListed'
    BY DEF Done, End, IInv, TypeOK, TryingListed, Waiting, Ended
  <1> QED
    BY <1>1, <1>2 DEF Done, IInv, AdmittingBelowMax

(* A handler of a stream goes from its upstream to its client, or back. *)
Passing(r) == Chunk(r) \/ Taken(r) \/ StreamEnds(r)

LEMMA PassingProceeds ==
  ASSUME NEW r, Passing(r)
  PROVE  pc[r] \in Started /\ \E place \in Started : Proceed(r, place)
  BY DEF Passing, Chunk, Taken, StreamEnds, Started

LEMMA ProceedKeeps ==
  ASSUME IInv, NEW r \in Requests, pc[r] \in Waiting, NEW place \in Waiting, Proceed(r, place)
  PROVE  IInv'
  <1>1. TypeOK'
    BY DEF Proceed, IInv, TypeOK
  <1>2. TryingListed'
    BY DEF Proceed, IInv, TypeOK, TryingListed
  <1> QED
    BY <1>1, <1>2 DEF Proceed, IInv, AdmittingBelowMax

LEMMA HandleKeeps ==
  ASSUME IInv, NEW r \in Requests, Handle(r)
  PROVE  IInv'
  <1>1. Sound(breaker) /\ Sound(Recorded(r, FALSE))
    BY SoundNow, RecordedSound
  <1>2. CASE \E status \in Statuses : Answered(r, status)
    BY <1>2, AnsweredKeeps
  <1>3. CASE SendFails(r)
    BY <1>1, <1>3, FailoverKeeps DEF SendFails, Waiting
  <1>4. CASE ReadFails(r) \/ StreamFails(r)
    BY <1>1, <1>4, FailoverKeeps DEF ReadFails, StreamFails, Started, Waiting
  <1>5. CASE Done(r)
    BY <1>5, DoneKeeps
  <1>6. CASE Passing(r)
    BY <1>6, PassingProceeds, ProceedKeeps DEF Started, Waiting
  <1> QED
    BY <1>2, <1>3, <1>4, <1>5, <1>6 DEF Handle, Passing

(* The clock, the probes and the shutdown. *)
Surroundings ==
  Tick \/ Status \/ Stop \/ (\E u \in Upstreams : CloseSession(u)) \/ PoolClosed \/ Cleanup

LEMMA SurroundingsKeep ==
  ASSUME IInv, Surroundings
  PROVE  IInv'
  <1>1. CASE Tick
    BY <1>1, ForwardingAssumption DEF Tick, IInv, TypeOK, AdmittingBelowMax, TryingListed
  <1>2. CASE Status
    <2>1. Sound(breaker)'
      BY <1>2, SoundNow, ReadAllSound DEF Status, Sound, Below
    <2> QED
      BY <1>2, <2>1 DEF Status, IInv, TypeOK, AdmittingBelowMax, TryingListed, Sound, Below
  <1>3. CASE Stop
    <2>1. TypeOK'
      BY <1>3 DEF Stop, IInv, TypeOK
    <2> QED
      BY <1>3, <2>1 DEF Stop, IInv, AdmittingBelowMax, TryingListed
  <1>4. CASE \E u \in Upstreams : CloseSession(u)
    BY <1>4 DEF CloseSession, IInv, TypeOK, AdmittingBelowMax, TryingListed
  <1>5. CASE PoolClosed
    BY <1>5 DEF PoolClosed, IInv, TypeOK, AdmittingBelowMax, TryingListed
  <1>6. CASE Cleanup
    <2>1. TypeOK'
      BY <1>6 DEF Cleanup, IInv, TypeOK, Waiting, Ended
    <2>2. TryingListed'
      BY <1>6 DEF Cleanup, IInv, TypeOK, TryingListed, Waiting, Ended
    <2> QED
      BY <1>6, <2>1, <2>2 DEF Cleanup, IInv, AdmittingBelowMax
  <1> QED
    BY <1>1, <1>2, <1>3, <1>4, <1>5, <1>6 DEF Surroundings

(* The inductive invariant holds of every behaviour. *)
THEOREM Invariance == Spec => []IInv
  <1>1. IInv /\ [Next]_vars => IInv'
    <2> SUFFICES ASSUME IInv, [Next]_vars PROVE IInv'
      OBVIOUS
    <2>1. CASE \E r \in Requests : Begin(r) \/ Handle(r)
      BY <2>1, BeginKeeps, HandleKeeps
    <2>2. CASE Surroundings
      BY <2>2, SurroundingsKeep
    <2>3. CASE UNCHANGED vars
      BY <2>3 DEF vars, IInv, TypeOK, AdmittingBelowMax, TryingListed
    <2> QED
      BY <2>1, <2>2, <2>3 DEF Next, Surroundings
  <1> QED
    BY InitKeeps, <1>1, PTL DEF Spec

(* The pool, the handlers and the shutdown keep their types: the counts of *)
(* the bag stay natural numbers, so no handler takes off an upstream that  *)
(* is not on its list.                                                     *)
THEOREM TypeCorrect == Spec => []TypeOK
  BY Invariance, PTL DEF IInv

(* A breaker that admits requests is below its maximum, for every setting  *)
(* of the breakers and any number of concurrent requests.                  *)
THEOREM BreakerCorrect == Spec => []AdmittingBelowMax
  BY Invariance, PTL DEF IInv

(* The upstream a handler waits for is one its list still holds. *)
THEOREM TryingIsListed == Spec => []TryingListed
  BY Invariance, PTL DEF IInv

-----------------------------------------------------------------------------
(* The keys that a request carries *)

(* What KeysOfTried needs to be inductive: it also holds of requests that  *)
(* have not begun, whose headers are their clients', and no list ever      *)
(* grows beyond the route.                                                 *)
OthersFailed(r) ==
  \A h \in Headers :
    LET owner == keys[r][h]
    IN  owner \in Upstreams \ {at[r]} => left[r][owner] < Route[owner]

(* While a header is the client's no upstream that uses it was tried. *)
Untried(bag, header) == \A u \in Upstreams : KeyHeader[u] = header => bag[u] = Route[u]

ClientsUntried(r) ==
  \A h \in Headers : keys[r][h] \notin Upstreams => Untried(left[r], h)

Carrying(r) ==
  /\ \A u \in Upstreams : left[r][u] <= Route[u]
  /\ pc[r] \in {"new"} \cup Waiting => OthersFailed(r) /\ ClientsUntried(r)
  /\ pc[r] \in Waiting /\ KeyHeader[at[r]] \in Headers => keys[r][KeyHeader[at[r]]] = at[r]

KInv == IInv /\ \A r \in Requests : Carrying(r)

(* The loop sends the drawn upstream's key, and leaves none of an upstream *)
(* that it did not try: bag is the list without the one that just failed.  *)
LEMMA LoopCarries ==
  ASSUME IInv, NEW r \in Requests, NEW bag \in Bags, NEW brk, Loop(r, bag, brk),
         \A u \in Upstreams : bag[u] <= Route[u],
         \A h \in Headers : keys[r][h] \in Upstreams => bag[keys[r][h]] < Route[keys[r][h]],
         \A h \in Headers : keys[r][h] \notin Upstreams => Untried(bag, h)
  PROVE  Carrying(r)'
  <1>1. PICK rest \in Bags :
          /\ left' = [left EXCEPT ![r] = rest]
          /\ \A w \in Upstreams : rest[w] <= bag[w]
          /\ \/ \E u \in Healthy(brk, rest) :
                  /\ Send(r, u)
                  /\ \E new \in Carried(keys[r], {v \in Upstreams : rest[v] < bag[v]}, u) :
                       keys' = [keys EXCEPT ![r] = new]
             \/ End(r, "unavailable", 1)
    BY DEF Loop, Remainders, Bags
  <1>2. left'[r] = rest
    BY <1>1 DEF IInv, TypeOK
  <1>3. \A u \in Upstreams : left'[r][u] <= Route[u]
    <2> TAKE u \in Upstreams
    <2>1. rest[u] \in Nat /\ bag[u] \in Nat /\ Route[u] \in Nat /\ rest[u] <= bag[u] /\ bag[u] <= Route[u]
      BY <1>1, ForwardingAssumption DEF Bags
    <2> QED
      BY <1>2, <2>1
  <1>4. CASE End(r, "unavailable", 1)
    BY <1>3, <1>4 DEF End, Carrying, IInv, TypeOK, Waiting
  <1>5. ASSUME NEW u \in Healthy(brk, rest), Send(r, u),
               NEW new \in Carried(keys[r], {v \in Upstreams : rest[v] < bag[v]}, u),
               keys' = [keys EXCEPT ![r] = new]
        PROVE  Carrying(r)'
    <2>1. u \in Upstreams /\ at'[r] = u /\ pc'[r] = "sending" /\ keys'[r] = new
      BY <1>5 DEF Healthy, Listed, Send, IInv, TypeOK
    <2>2. KeyHeader[u] \in Headers => new[KeyHeader[u]] = u
      BY <1>5 DEF Carried
    <2>3. ASSUME NEW h \in Headers, new[h] \in Upstreams \ {u}
          PROVE  rest[new[h]] < Route[new[h]]
      <3>1. new[h] \in Upstreams
        BY <2>3
      <3>2. rest[new[h]] \in Nat /\ bag[new[h]] \in Nat /\ Route[new[h]] \in Nat
        BY <3>1, <1>1, ForwardingAssumption DEF Bags
      <3>3. rest[new[h]] <= bag[new[h]] /\ bag[new[h]] <= Route[new[h]]
        BY <1>1, <3>1
      <3>4. rest[new[h]] < bag[new[h]] \/ new[h] = keys[r][h]
        BY <1>5, <2>3 DEF Carried
      <3>5. rest[new[h]] < bag[new[h]] \/ bag[new[h]] < Route[new[h]]
        BY <2>3, <3>4
      <3> QED
        BY <3>2, <3>3, <3>5
    <2>4. OthersFailed(r)'
      BY <1>2, <2>1, <2>3 DEF OthersFailed
    <2>5. ASSUME NEW h \in Headers, new[h] \notin Upstreams
          PROVE  Untried(rest, h)
      <3>1. KeyHeader[u] # h
        BY <2>1, <2>2, <2>5
      <3>2. /\ new[h] = keys[r][h]
            /\ \A v \in Upstreams : KeyHeader[v] = h => ~(rest[v] < bag[v])
        BY <1>5, <2>5, <3>1 DEF Carried
      <3>3. Untried(bag, h)
        BY <2>5, <3>2
      <3> SUFFICES ASSUME NEW v \in Upstreams, KeyHeader[v] = h PROVE rest[v] = Route[v]
        BY DEF Untried
      <3>4. rest[v] \in Nat /\ bag[v] \in Nat /\ rest[v] <= bag[v]
        BY <1>1, ForwardingAssumption DEF Bags
      <3> QED
        BY <3>2, <3>3, <3>4 DEF Untried
    <2>6. ClientsUntried(r)'
      BY <1>2, <2>1, <2>5 DEF ClientsUntried
    <2> QED
      BY <1>3, <2>1, <2>2, <2>4, <2>6 DEF Carrying, Waiting
  <1> QED
    BY <1>1, <1>4, <1>5

(* The steps of one request leave what another one carries. *)
SameCarried(q) ==
  /\ pc'[q] = pc[q] /\ at'[q] = at[q] /\ left'[q] = left[q] /\ keys'[q] = keys[q]

LEMMA LoopIsOwn ==
  ASSUME IInv, NEW r \in Requests, NEW bag, NEW brk, Loop(r, bag, brk),
         NEW q \in Requests, q # r
  PROVE  SameCarried(q)
  BY DEF Loop, Send, End, IInv, TypeOK, SameCarried

LEMMA SameCarriedKeeps ==
  ASSUME NEW q \in Requests, Carrying(q), SameCarried(q)
  PROVE  Carrying(q)'
  BY DEF Carrying, OthersFailed, ClientsUntried, SameCarried

(* After a failure the list is shorter by the upstream that was tried. *)
LEMMA FailoverCarries ==
  ASSUME KInv, NEW r \in Requests, NEW brk, pc[r] \in Waiting, Failover(r, brk)
  PROVE  Carrying(r)'
  <1> DEFINE bag == [left[r] EXCEPT ![at[r]] = @ - 1]
  <1>1. bag \in Bags /\ Loop(r, bag, brk)
    BY ForwardingAssumption DEF Failover, KInv, IInv, TypeOK, TryingListed, Bags
  <1>2. /\ at[r] \in Upstreams
        /\ left[r] \in Bags
        /\ \A u \in Upstreams : left[r][u] <= Route[u]
        /\ \A u \in Upstreams : bag[u] = IF u = at[r] THEN left[r][u] - 1 ELSE left[r][u]
    BY DEF KInv, Carrying, IInv, TypeOK, TryingListed, Bags
  <1>3. \A u \in Upstreams : left[r][u] \in Nat /\ Route[u] \in Nat
    BY <1>2, ForwardingAssumption DEF Bags
  <1>4. \A u \in Upstreams : bag[u] <= Route[u]
    BY <1>2, <1>3
  <1>5. ASSUME NEW h \in Headers, keys[r][h] \in Upstreams
        PROVE  bag[keys[r][h]] < Route[keys[r][h]]
    <2>1. keys[r][h] \in Upstreams
      BY <1>5
    <2>2. CASE keys[r][h] = at[r]
      BY <1>2, <1>3, <2>1, <2>2
    <2>3. CASE keys[r][h] # at[r]
      <3>1. left[r][keys[r][h]] < Route[keys[r][h]]
        BY <1>5, <2>3 DEF KInv, Carrying, OthersFailed
      <3> QED
        BY <1>2, <2>1, <2>3, <3>1
    <2> QED
      BY <2>2, <2>3
  <1>6. ASSUME NEW h \in Headers, keys[r][h] \notin Upstreams
        PROVE  Untried(bag, h)
    <2>1. KeyHeader[at[r]] # h
      BY <1>2, <1>6 DEF KInv, Carrying
    <2>2. Untried(left[r], h)
      BY <1>6 DEF KInv, Carrying, ClientsUntried
    <2> HIDE DEF bag
    <2> QED
      BY <1>2, <2>1, <2>2 DEF Untried
  <1> HIDE DEF bag
  <1> QED
    BY <1>1, <1>4, <1>5, <1>6, LoopCarries DEF KInv

LEMMA BeginCarries ==
  ASSUME KInv, NEW r \in Requests, Begin(r), at[r] = Nobody
  PROVE  Carrying(r)'
  <1>1. left[r] \in Bags /\ (\A u \in Upstreams : left[r][u] <= Route[u])
    BY DEF KInv, Carrying, IInv, TypeOK, Bags
  <1>2. OthersFailed(r) /\ ClientsUntried(r) /\ at[r] \notin Upstreams
    BY ForwardingAssumption DEF Begin, KInv, Carrying
  <1>3. /\ \A h \in Headers : keys[r][h] \in Upstreams => left[r][keys[r][h]] < Route[keys[r][h]]
        /\ \A h \in Headers : keys[r][h] \notin Upstreams => Untried(left[r], h)
    BY <1>2 DEF OthersFailed, ClientsUntried
  <1> QED
    BY <1>1, <1>3, LoopCarries DEF Begin, KInv

(* A request that has not begun tries nobody. *)
Fresh == \A r \in Requests : pc[r] = "new" => at[r] = Nobody

LEMMA FreshKept == IInv /\ Fresh /\ [Next]_vars => Fresh'
  <1> SUFFICES ASSUME IInv, Fresh, Next \/ UNCHANGED vars PROVE Fresh'
    OBVIOUS
  <1>1. ASSUME NEW q \in Requests, NEW bag, NEW brk, Loop(q, bag, brk)
        PROVE  Fresh'
    BY <1>1 DEF Loop, Send, End, Fresh, IInv, TypeOK
  <1>2. ASSUME NEW q \in Requests, NEW status \in Statuses, Answered(q, status)
        PROVE  Fresh'
    BY <1>2 DEF Answered, End, Fresh, IInv, TypeOK
  <1>3. ASSUME NEW q \in Requests, Done(q)
        PROVE  Fresh'
    BY <1>3 DEF Done, End, Fresh, IInv, TypeOK
  <1>4. ASSUME NEW q \in Requests, Passing(q)
        PROVE  Fresh'
    BY <1>4, PassingProceeds DEF Proceed, Fresh, IInv, TypeOK, Started
  <1>5. ASSUME NEW q \in Requests, Begin(q) \/ Handle(q)
        PROVE  Fresh'
    BY <1>1, <1>2, <1>3, <1>5, <1>4
    DEF Begin, Handle, SendFails, ReadFails, StreamFails, Failover, Passing
  <1>6. CASE Surroundings
    BY <1>6 DEF Surroundings, Tick, Status, Stop, CloseSession, PoolClosed, Cleanup, Fresh, IInv, TypeOK
  <1>7. CASE UNCHANGED vars
    BY <1>7 DEF vars, Fresh
  <1> QED
    BY <1>5, <1>6, <1>7 DEF Next, Surroundings

(* A step that is no loop's only lets a request end or go on. *)
LEMMA OtherCarries ==
  ASSUME KInv, NEW q \in Requests, UNCHANGED <<left, keys>>,
         \/ SameCarried(q)
         \/ pc'[q] \in Ended
         \/ pc[q] \in Waiting /\ pc'[q] \in Waiting /\ at'[q] = at[q]
  PROVE  Carrying(q)'
  BY DEF KInv, Carrying, OthersFailed, ClientsUntried, SameCarried, Waiting, Ended

LEMMA StepCarries ==
  ASSUME KInv, Fresh, Next, NEW q \in Requests
  PROVE  Carrying(q)'
  <1>1. ASSUME NEW r \in Requests, Begin(r)
        PROVE  Carrying(q)'
    <2>1. CASE q = r
      BY <1>1, <2>1, BeginCarries DEF Begin, Fresh
    <2>2. CASE q # r
      BY <1>1, <2>2, LoopIsOwn, SameCarriedKeeps DEF Begin, KInv
    <2> QED
      BY <2>1, <2>2
  <1>2. ASSUME NEW r \in Requests, SendFails(r) \/ ReadFails(r) \/ StreamFails(r)
        PROVE  Carrying(q)'
    <2>1. PICK brk : Failover(r, brk) /\ pc[r] \in Waiting
      BY <1>2 DEF SendFails, ReadFails, StreamFails, Started, Waiting
    <2>2. CASE q = r
      BY <2>1, <2>2, FailoverCarries
    <2>3. CASE q # r
      BY <2>1, <2>3, LoopIsOwn, SameCarriedKeeps DEF Failover, KInv
    <2> QED
      BY <2>2, <2>3
  <1>3. ASSUME NEW r \in Requests, NEW status \in Statuses, Answered(r, status)
        PROVE  Carrying(q)'
    <2>1. UNCHANGED <<left, keys>>
      BY <1>3 DEF Answered
    <2>2. q # r => SameCarried(q)
      BY <1>3 DEF Answered, End, KInv, IInv, TypeOK, SameCarried
    <2>3. pc'[r] \in Ended \/ (pc[r] \in Waiting /\ pc'[r] \in Waiting /\ at'[r] = at[r])
      BY <1>3 DEF Answered, End, KInv, IInv, TypeOK, Waiting, Ended
    <2> QED
      BY <2>1, <2>2, <2>3, OtherCarries
  <1>4. ASSUME NEW r \in Requests, Done(r)
        PROVE  Carrying(q)'
    <2>1. UNCHANGED <<left, keys>>
      BY <1>4 DEF Done
    <2>2. q # r => SameCarried(q)
      BY <1>4 DEF Done, End, KInv, IInv, TypeOK, SameCarried
    <2>3. pc'[r] \in Ended
      BY <1>4 DEF Done, End, KInv, IInv, TypeOK, Ended
    <2> QED
      BY <2>1, <2>2, <2>3, OtherCarries
  <1>5. ASSUME NEW r \in Requests, Passing(r)
        PROVE  Carrying(q)'
    <2>1. PICK place \in Waiting : Proceed(r, place) /\ pc[r] \in Waiting
      BY <1>5, PassingProceeds DEF Started, Waiting
    <2>2. UNCHANGED <<left, keys, at>> /\ pc' = [pc EXCEPT ![r] = place]
      BY <2>1 DEF Proceed
    <2>3. q # r => SameCarried(q)
      BY <2>2 DEF KInv, IInv, TypeOK, SameCarried
    <2>4. pc'[r] \in Waiting
      BY <2>2 DEF KInv, IInv, TypeOK
    <2> QED
      BY <2>1, <2>2, <2>3, <2>4, OtherCarries
  <1>6. CASE Cleanup
    <2>1. UNCHANGED <<left, keys>>
      BY <1>6 DEF Cleanup
    <2>2. pc'[q] = IF pc[q] \in Waiting THEN "cut" ELSE pc[q]
      BY <1>6 DEF Cleanup
    <2>3. CASE pc[q] = "new"
      BY <1>6, <2>1, <2>2, <2>3, OtherCarries DEF Cleanup, Fresh, SameCarried, Waiting
    <2>4. CASE pc[q] # "new"
      <3>1. pc'[q] \in Ended
        BY <2>2, <2>4 DEF KInv, IInv, TypeOK, Ended
      <3> QED
        BY <2>1, <3>1, OtherCarries
    <2> QED
      BY <2>3, <2>4
  <1>7. CASE Surroundings /\ ~Cleanup
    BY <1>7, SameCarriedKeeps
    DEF Surroundings, Tick, Status, Stop, CloseSession, PoolClosed, SameCarried, KInv
  <1> QED
    BY <1>1, <1>2, <1>3, <1>4, <1>6, <1>7, <1>5 DEF Next, Handle, Passing, Surroundings

(* For any number of requests and upstreams: an upstream is sent its own   *)
(* key; what else it is sent is the client's, in headers that no upstream  *)
(* tried so far uses, or the key of one that failed the same request.      *)
THEOREM KeysCorrect == Spec => []KeysOfTried
  <1>1. Init => KInv /\ Fresh
    <2> SUFFICES ASSUME Init PROVE KInv /\ Fresh
      OBVIOUS
    <2>1. IInv /\ Fresh
      BY InitKeeps DEF Init, Fresh
    <2>2. ASSUME NEW r \in Requests PROVE Carrying(r)
      <3>1. left[r] = Route /\ pc[r] = "new" /\ \A h \in Headers : keys[r][h] \in {Nobody, OwnKey}
        BY DEF Init
      <3>2. \A u \in Upstreams : Route[u] \in Nat
        BY ForwardingAssumption
      <3> QED
        BY <3>1, <3>2, ForwardingAssumption
        DEF Carrying, OthersFailed, ClientsUntried, Untried, Waiting
    <2> QED
      BY <2>1, <2>2 DEF KInv
  <1>2. KInv /\ Fresh /\ IInv' /\ [Next]_vars => KInv' /\ Fresh'
    <2> SUFFICES ASSUME KInv, Fresh, IInv', Next \/ UNCHANGED vars PROVE KInv' /\ Fresh'
      OBVIOUS
    <2>1. Fresh'
      BY FreshKept DEF KInv
    <2>2. CASE Next
      BY <2>1, <2>2, StepCarries DEF KInv
    <2>3. CASE UNCHANGED vars
      BY <2>1, <2>3, SameCarriedKeeps DEF vars, KInv, SameCarried
    <2> QED
      BY <2>2, <2>3
  <1>3. KInv => KeysOfTried
    BY DEF KInv, Carrying, OthersFailed, ClientsUntried, Untried, KeysOfTried
  <1> QED
    BY <1>1, <1>2, <1>3, Invariance, PTL DEF Spec

-----------------------------------------------------------------------------
(* What a 502 means *)

LEMMA LoopJustified ==
  ASSUME IInv, NEW r \in Requests, NEW bag \in Bags, NEW brk, Sound(brk),
         Loop(r, bag, brk), pc'[r] = "unavailable",
         NEW u \in Upstreams, left'[r][u] > 0
  PROVE  breaker'[u].state = "open" /\ now - breaker'[u].openedAt < Cooldown
  <1>1. PICK rest \in Bags :
          /\ left' = [left EXCEPT ![r] = rest]
          /\ \A w \in Upstreams : rest[w] <= bag[w]
          /\ \/ \E w \in Healthy(brk, rest) : Send(r, w)
             \/ Healthy(brk, rest) = {}
    BY DEF Loop, Remainders, Bags
  <1>2. Healthy(brk, rest) = {}
    BY <1>1 DEF Send, IInv, TypeOK
  <1>3. rest[u] > 0 /\ bag[u] > 0
    BY <1>1 DEF IInv, TypeOK, Bags
  <1>4. ~Allows(brk[u], now)
    BY <1>2, <1>3 DEF Healthy, Listed
  <1>5. breaker'[u] = Read(brk[u], now)
    BY <1>3 DEF Loop, ReadAll, Listed
  <1> QED
    BY <1>4, <1>5, RefusalIsCooling DEF Sound, IInv, TypeOK

(* A 502 for want of an upstream means that each upstream of the route     *)
(* failed as often as it is listed or is cooling down: whatever happened   *)
(* to the breakers between the attempts of the request.                    *)
THEOREM UnavailabilityJustified == Spec => UnavailableJustified
  <1> DEFINE Justified ==
        \A r \in Requests :
          (pc[r] # "unavailable" /\ pc'[r] = "unavailable")
            => \A u \in Listed(Route) :
                 left'[r][u] > 0 =>
                   breaker'[u].state = "open" /\ now - breaker'[u].openedAt < Cooldown
  <1>1. IInv /\ [Next]_vars => [Justified]_vars
    <2> SUFFICES ASSUME IInv, Next,
                        NEW r \in Requests, pc[r] # "unavailable", pc'[r] = "unavailable",
                        NEW u \in Listed(Route), left'[r][u] > 0
                 PROVE  breaker'[u].state = "open" /\ now - breaker'[u].openedAt < Cooldown
      OBVIOUS
    <2>1. u \in Upstreams
      BY DEF Listed
    <2>2. ASSUME NEW q \in Requests, NEW bag \in Bags, NEW brk, Sound(brk), Loop(q, bag, brk)
          PROVE  breaker'[u].state = "open" /\ now - breaker'[u].openedAt < Cooldown
      <3>1. q = r
        BY <2>2 DEF Loop, Send, End, IInv, TypeOK
      <3> QED
        BY <2>1, <2>2, <3>1, LoopJustified
    <2>3. ASSUME NEW q \in Requests, pc[q] \in Waiting, NEW brk, Sound(brk), Failover(q, brk)
          PROVE  breaker'[u].state = "open" /\ now - breaker'[u].openedAt < Cooldown
      <3> DEFINE bag == [left[q] EXCEPT ![at[q]] = @ - 1]
      <3>1. bag \in Bags
        BY <2>3, ForwardingAssumption DEF IInv, TypeOK, TryingListed, Bags
      <3>2. Loop(q, bag, brk)
        BY <2>3 DEF Failover
      <3> HIDE DEF bag
      <3> QED
        BY <2>2, <2>3, <3>1, <3>2
    <2>4. ASSUME NEW q \in Requests, Begin(q)
          PROVE  breaker'[u].state = "open" /\ now - breaker'[u].openedAt < Cooldown
      BY <2>2, <2>4, SoundNow DEF Begin, IInv, TypeOK, Bags
    <2>5. ASSUME NEW q \in Requests, Handle(q)
          PROVE  breaker'[u].state = "open" /\ now - breaker'[u].openedAt < Cooldown
      <3>1. Sound(breaker) /\ Sound(Recorded(q, FALSE))
        BY SoundNow, RecordedSound
      <3>2. ~(\E status \in Statuses : Answered(q, status)) /\ ~Done(q)
        BY DEF Answered, Done, End, IInv, TypeOK
      <3>3. ~Passing(q)
        BY PassingProceeds DEF Proceed, IInv, TypeOK, Started
      <3> QED
        BY <2>3, <2>5, <3>1, <3>2, <3>3
        DEF Handle, Passing, SendFails, ReadFails, StreamFails, Started, Waiting
    <2>6. ~Surroundings
      BY DEF Surroundings, Tick, Status, Stop, CloseSession, PoolClosed, Cleanup, IInv, TypeOK, Waiting
    <2> QED
      BY <2>4, <2>5, <2>6 DEF Next, Surroundings
  <1> QED
    BY Invariance, <1>1, PTL DEF Spec, UnavailableJustified

-----------------------------------------------------------------------------
(* The client's view *)

ClientPhase == [r \in Buffered |-> Phase(r)]
ClientHeads == [r \in Buffered |-> heads[r]]

LEMMA PhaseOf ==
  ASSUME NEW r
  PROVE  /\ pc[r] = "new" => Phase(r) = "idle"
         /\ pc[r] \in Waiting => Phase(r) = "pending"
         /\ pc[r] \in {"answered", "unavailable"} => Phase(r) = "answered"
         /\ pc[r] = "cut" => Phase(r) = "cut"
  BY DEF Phase, Waiting

(* A step of one handler changes what one client sees, and nothing if the  *)
(* handler serves a stream.                                                *)
LEMMA OneHandler ==
  ASSUME IInv, NEW q \in Requests, NEW p, NEW n \in {0, 1},
         pc' = [pc EXCEPT ![q] = p], heads' = [heads EXCEPT ![q] = @ + n]
  PROVE  /\ q \in Buffered => /\ ClientPhase' = [ClientPhase EXCEPT ![q] = Phase(q)']
                              /\ ClientHeads' = [ClientHeads EXCEPT ![q] = @ + n]
         /\ q \notin Buffered => UNCHANGED <<ClientPhase, ClientHeads>>
  <1>1. \A r \in Buffered : r \in Requests
    BY DEF Buffered
  <1>2. \A r \in Buffered : r # q => pc'[r] = pc[r] /\ heads'[r] = heads[r]
    BY <1>1 DEF IInv, TypeOK
  <1>3. \A r \in Buffered : r # q => Phase(r)' = Phase(r)
    BY <1>2 DEF Phase
  <1>4. heads'[q] = heads[q] + n
    BY DEF IInv, TypeOK
  <1> QED
    BY <1>2, <1>3, <1>4 DEF ClientPhase, ClientHeads

LEMMA SameView ==
  ASSUME UNCHANGED <<pc, heads>>
  PROVE  UNCHANGED <<ClientPhase, ClientHeads>>
  BY DEF ClientPhase, ClientHeads, Phase

ClientStep == Client!Exchange \/ UNCHANGED <<ClientPhase, ClientHeads>>

(* A handler answers a request it had not answered. *)
LEMMA Answers ==
  ASSUME IInv, NEW q \in Requests, pc[q] \in {"new"} \cup Waiting,
         NEW how \in {"answered", "unavailable"}, End(q, how, 1)
  PROVE  ClientStep
  <1>1. Phase(q) \in {"idle", "pending"} /\ Phase(q)' = "answered"
    <2>1. pc'[q] = how
      BY DEF End, IInv, TypeOK
    <2> QED
      BY <2>1, PhaseOf DEF Phase, Waiting
  <1>2. CASE q \in Buffered
    <2>1. ClientPhase' = [ClientPhase EXCEPT ![q] = "answered"]
      BY <1>1, <1>2, OneHandler DEF End
    <2>2. ClientHeads' = [ClientHeads EXCEPT ![q] = @ + 1]
      BY <1>2, OneHandler DEF End
    <2>3. ClientPhase[q] \in {"idle", "pending"}
      BY <1>1, <1>2 DEF ClientPhase
    <2>4. Client!Respond(q)
      BY <2>1, <2>2, <2>3 DEF Client!Respond, ClientPhase, ClientHeads
    <2> QED
      BY <1>2, <2>4 DEF ClientStep, Client!Exchange
  <1>3. CASE q \notin Buffered
    BY <1>3, OneHandler DEF End, ClientStep
  <1> QED
    BY <1>2, <1>3

(* A handler goes on, or begins, to wait. *)
LEMMA Waits ==
  ASSUME IInv, NEW q \in Requests, pc[q] \in {"new"} \cup Waiting,
         NEW p \in Waiting, pc' = [pc EXCEPT ![q] = p], UNCHANGED heads
  PROVE  ClientStep
  <1>1. pc'[q] \in Waiting
    BY DEF IInv, TypeOK
  <1>2. Phase(q)' = "pending"
    BY <1>1 DEF Phase, Waiting
  <1>3. heads' = [heads EXCEPT ![q] = @ + 0]
    BY DEF IInv, TypeOK
  <1>4. CASE q \in Buffered
    <2>1. ClientPhase' = [ClientPhase EXCEPT ![q] = "pending"]
      BY <1>2, <1>3, <1>4, OneHandler
    <2>2. UNCHANGED ClientHeads
      BY DEF ClientHeads
    <2>3. CASE pc[q] = "new"
      <3>1. ClientPhase[q] = "idle"
        BY <1>4, <2>3, PhaseOf DEF ClientPhase
      <3>2. Client!Arrive(q)
        BY <2>1, <2>2, <3>1 DEF Client!Arrive, ClientPhase, ClientHeads
      <3> QED
        BY <1>4, <3>2 DEF ClientStep, Client!Exchange
    <2>4. CASE pc[q] \in Waiting
      <3>1. ClientPhase[q] = "pending"
        BY <1>4, <2>4, PhaseOf DEF ClientPhase
      <3> QED
        BY <2>1, <2>2, <3>1 DEF ClientStep, ClientPhase
    <2> QED
      BY <2>3, <2>4
  <1>5. CASE q \notin Buffered
    BY <1>3, <1>5, OneHandler DEF ClientStep
  <1> QED
    BY <1>4, <1>5

LEMMA LoopView ==
  ASSUME IInv, NEW q \in Requests, pc[q] \in {"new"} \cup Waiting,
         NEW bag, NEW brk, Loop(q, bag, brk)
  PROVE  ClientStep
  <1>1. (\E u : Send(q, u)) \/ End(q, "unavailable", 1)
    BY DEF Loop
  <1> QED
    BY <1>1, Answers, Waits DEF Send, Waiting

(* What happens to a stream is not seen by the other clients. *)
LEMMA StreamView ==
  ASSUME IInv, NEW q \in Streams, NEW p, NEW n \in {0, 1},
         pc' = [pc EXCEPT ![q] = p], heads' = [heads EXCEPT ![q] = @ + n]
  PROVE  ClientStep
  BY OneHandler, ForwardingAssumption DEF ClientStep, Buffered

LEMMA CleanupView ==
  ASSUME IInv, Cleanup
  PROVE  ClientStep
  <1>1. \A r \in Buffered :
          Phase(r)' = IF Phase(r) = "pending" THEN "cut" ELSE Phase(r)
    <2> TAKE r \in Buffered
    <2>1. r \in Requests
      BY DEF Buffered
    <2>2. CASE pc[r] \in Waiting
      <3>1. pc'[r] = "cut"
        BY <2>1, <2>2 DEF Cleanup
      <3> QED
        BY <2>2, <3>1, PhaseOf DEF Phase, Waiting
    <2>3. CASE pc[r] \notin Waiting
      <3>1. pc'[r] = pc[r]
        BY <2>1, <2>3 DEF Cleanup
      <3>2. Phase(r)' = Phase(r)
        BY <3>1 DEF Phase
      <3>3. pc[r] \in {"new"} \cup Ended
        BY <2>1, <2>3 DEF IInv, TypeOK
      <3>4. Phase(r) # "pending"
        BY <3>3, PhaseOf DEF Ended
      <3> QED
        BY <3>2, <3>4
    <2> QED
      BY <2>2, <2>3
  <1>2. ClientPhase' = [r \in Buffered |->
                          IF ClientPhase[r] = "pending" THEN "cut" ELSE ClientPhase[r]]
    BY <1>1 DEF ClientPhase
  <1>3. UNCHANGED ClientHeads
    BY DEF Cleanup, ClientHeads
  <1>4. Client!Cut
    BY <1>2, <1>3 DEF Client!Cut, ClientPhase, ClientHeads
  <1> QED
    BY <1>4 DEF ClientStep, Client!Exchange

LEMMA AnsweredView ==
  ASSUME IInv, NEW q \in Requests, NEW status \in Statuses, Answered(q, status)
  PROVE  ClientStep
  <1>1. CASE q \in Streams /\ End(q, "answered", 1)
    BY <1>1, StreamView DEF End
  <1>2. CASE q \in Streams /\ pc' = [pc EXCEPT ![q] = "streaming"]
                           /\ heads' = [heads EXCEPT ![q] = @ + 1]
    BY <1>2, StreamView
  <1>3. CASE pc' = [pc EXCEPT ![q] = "reading"] /\ UNCHANGED <<at, heads>>
    BY <1>3, Waits DEF Answered, Waiting
  <1> QED
    BY <1>1, <1>2, <1>3 DEF Answered

(* Only a request that asked for a stream is streamed. *)
OnlyStreams == \A r \in Requests : pc[r] \in Started => r \in Streams

LEMMA StreamsOnly == Spec => []OnlyStreams
  <1>1. Init => OnlyStreams
    BY DEF Init, OnlyStreams, Started
  <1>2. IInv /\ OnlyStreams /\ [Next]_vars => OnlyStreams'
    <2> SUFFICES ASSUME IInv, OnlyStreams, Next \/ UNCHANGED vars PROVE OnlyStreams'
      OBVIOUS
    <2>1. ASSUME NEW q \in Requests, NEW bag, NEW brk, Loop(q, bag, brk)
          PROVE  OnlyStreams'
      BY <2>1 DEF Loop, Send, End, OnlyStreams, IInv, TypeOK, Started
    <2>2. ASSUME NEW q \in Requests, NEW status \in Statuses, Answered(q, status)
          PROVE  OnlyStreams'
      BY <2>2 DEF Answered, End, OnlyStreams, IInv, TypeOK, Started
    <2>3. ASSUME NEW q \in Requests, Done(q)
          PROVE  OnlyStreams'
      BY <2>3 DEF Done, End, OnlyStreams, IInv, TypeOK, Started
    <2>4. ASSUME NEW q \in Requests, Passing(q)
          PROVE  OnlyStreams'
      BY <2>4, PassingProceeds DEF Proceed, OnlyStreams, IInv, TypeOK
    <2>5. ASSUME NEW q \in Requests, Begin(q) \/ Handle(q)
          PROVE  OnlyStreams'
      BY <2>1, <2>2, <2>3, <2>5, <2>4
      DEF Begin, Handle, SendFails, ReadFails, StreamFails, Failover, Passing
    <2>6. CASE Surroundings
      BY <2>6 DEF Surroundings, Tick, Status, Stop, CloseSession, PoolClosed, Cleanup, OnlyStreams, Started
    <2>7. CASE UNCHANGED vars
      BY <2>7 DEF vars, OnlyStreams
    <2> QED
      BY <2>5, <2>6, <2>7 DEF Next, Surroundings
  <1> QED
    BY <1>1, <1>2, Invariance, PTL DEF Spec

(* The loop implements the client's view: a request that is not streamed   *)
(* gets one response, whatever upstreams, breakers and shutdown do.        *)
THEOREM Refinement == Spec => BufferedExchange
  <1>1. Init => Client!Idle
    BY PhaseOf DEF Init, Client!Idle, Buffered
  <1>2. IInv /\ OnlyStreams /\ [Next]_vars => [Client!Exchange]_(Client!exchange)
    <2> SUFFICES ASSUME IInv, OnlyStreams, Next \/ UNCHANGED vars PROVE ClientStep
      BY DEF ClientStep, ClientPhase, ClientHeads, Client!exchange
    <2>1. ASSUME NEW q \in Requests, Begin(q)
          PROVE  ClientStep
      BY <2>1, LoopView DEF Begin
    <2>2. ASSUME NEW q \in Requests, Done(q)
          PROVE  ClientStep
      <3>1. CASE pc[q] = "reading" /\ End(q, "answered", 1)
        BY <3>1, Answers DEF Waiting
      <3>2. CASE pc[q] = "ending" /\ End(q, "answered", 0)
        BY <3>2, StreamView DEF End, OnlyStreams, Started
      <3> QED
        BY <2>2, <3>1, <3>2 DEF Done
    <2>3. ASSUME NEW q \in Requests, SendFails(q) \/ ReadFails(q) \/ StreamFails(q)
          PROVE  ClientStep
      BY <2>3, LoopView DEF SendFails, ReadFails, StreamFails, Failover, Started, Waiting
    <2>4. ASSUME NEW q \in Requests, Passing(q)
          PROVE  ClientStep
      <3>1. PICK place \in Waiting : Proceed(q, place) /\ pc[q] \in Waiting
        BY <2>4, PassingProceeds DEF Started, Waiting
      <3> QED
        BY <3>1, Waits DEF Proceed
    <2>5. CASE Surroundings
      <3>1. CASE Cleanup
        BY <3>1, CleanupView
      <3>2. CASE ~Cleanup
        BY <2>5, <3>2, SameView
        DEF Surroundings, Tick, Status, Stop, CloseSession, PoolClosed, ClientStep
      <3> QED
        BY <3>1, <3>2
    <2>6. CASE UNCHANGED vars
      BY <2>6, SameView DEF vars, ClientStep
    <2> QED
      BY <2>1, <2>2, <2>3, <2>5, <2>6, <2>4, AnsweredView DEF Next, Handle, Passing, Surroundings
  <1> QED
    BY <1>1, <1>2, Invariance, StreamsOnly, PTL
    DEF Spec, BufferedExchange, Client!OneResponse
=============================================================================
