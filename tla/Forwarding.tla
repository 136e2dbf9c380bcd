----------------------------- MODULE Forwarding -----------------------------
(***************************************************************************)
(* Forwarding a request to an upstream: the loop over the route's          *)
(* upstreams with failover (gateway.py _forward and _stream_response), the *)
(* pool with its sessions and breakers (pool.py), and the shutdown of the  *)
(* gateway.                                                                *)
(*                                                                         *)
(* The gateway is one asyncio event loop: a step runs from one await to    *)
(* the next, and the requests interleave at the awaits.  The upstreams of  *)
(* a route are a bag: pick draws by weight among the healthy ones, so only *)
(* how often an upstream is listed matters.  Weights and bodies are left out,  *)
(* every healthy upstream may be drawn; of the headers there are those in  *)
(* which upstreams expect their keys, and clients present theirs.  Names   *)
(* that differ in case are one header: the one set last is sent.           *)
(***************************************************************************)
EXTENDS CircuitBreaker, FiniteSets

CONSTANTS
  Requests,
  Streams,     \* the requests whose body asks for a stream
  Upstreams,
  Nobody,      \* no upstream
  OwnKey,      \* what a client itself sent in a header
  SentIn,      \* the headers in which each client sends something
  Route,       \* how often the route lists each upstream
  KeyHeader,   \* the header for each upstream's key, "none" without a key
  MaxListed,   \* bound on Route
  MaxTime      \* bound on the clock

ASSUME ForwardingAssumption ==
  /\ Streams \subseteq Requests
  /\ Nobody \notin Upstreams
  /\ OwnKey \notin Upstreams \cup {Nobody}
  /\ SentIn \in [Requests -> SUBSET {"Authorization", "x-api-key"}]
  /\ MaxListed \in Nat
  /\ Route \in [Upstreams -> 0..MaxListed]
  /\ KeyHeader \in [Upstreams -> {"Authorization", "x-api-key", "none"}]
  /\ MaxTime \in Nat

(* What an upstream answers: 200; 201 or 204; another status below 500; a  *)
(* status from 500.                                                        *)
Statuses == {"ok", "created", "client_error", "server_error"}

(* The headers upstream_auth_headers() sets. *)
Headers == {"Authorization", "x-api-key"}

(* Whose key a header holds: none, the client's, or an upstream's. *)
Keys == Upstreams \cup {Nobody, OwnKey}

VARIABLES
  now,       \* time.time()
  breaker,   \* _breakers
  session,   \* _sessions: "none" (None), "open" or "closed"
  server,    \* "ready", then in stop(): "closing" (pool), "cleaning", "stopped"
  toClose,   \* the sessions that pool.close() has not visited yet
  pc,        \* where the handler of each request is
  left,      \* upstream_ids: how often each upstream is still listed
  at,        \* upstream: the one being tried
  keys,      \* upstream_headers: whose key is in each header
  heads      \* history: response heads written to each client

vars == <<now, breaker, session, server, toClose, pc, left, at, keys, heads>>

(* Where a handler waits: for the upstream's head, for its body, for the   *)
(* next chunk of a stream; and for its client to take what is written, a   *)
(* chunk or the end of the stream.                                         *)
Waiting == {"sending", "reading", "streaming", "writing", "ending"}

(* The response has started. *)
Started == {"streaming", "writing", "ending"}

(* How it ends: with a response of the upstream's or of the policy's, with *)
(* a 502 for want of an upstream, or cancelled by the shutdown.            *)
Ended == {"answered", "unavailable", "cut"}

-----------------------------------------------------------------------------
(* The parts of a handler's step *)

(* healthy(): reading the state of a breaker may change it. *)
ReadAll(brk, listed) ==
  [u \in Upstreams |-> IF u \in listed THEN Read(brk[u], now) ELSE brk[u]]

Listed(bag) == {u \in Upstreams : bag[u] > 0}

(* Mutant: all upstreams are considered, the route's list is not. *)
HealthyAnywhere(brk, bag) == {u \in Upstreams : Allows(brk[u], now)}

Healthy(brk, bag) == {u \in Listed(bag) : Allows(brk[u], now)}

(* The handler ends; whether a response was already started is not asked. *)
End(r, how, newHeads) ==
  /\ pc' = [pc EXCEPT ![r] = how]
  /\ at' = [at EXCEPT ![r] = Nobody]
  /\ heads' = [heads EXCEPT ![r] = @ + newHeads]

(* _session(), which creates a missing session, and session.request(). *)
Send(r, u) ==
  /\ session' = [session EXCEPT ![u] = "open"]
  /\ pc' = [pc EXCEPT ![r] = "sending"]
  /\ at' = [at EXCEPT ![r] = u]
  /\ UNCHANGED heads

(* A closed session raises a RuntimeError at once, which is not recorded:  *)
(* the loop may draw such upstreams, and take them off the list, before it *)
(* waits.  The lists that can remain when those in refusing do so.         *)
Remainders(bag, refusing) ==
  {rest \in [Upstreams -> 0..MaxListed] :
     \A u \in Upstreams : rest[u] <= bag[u] /\ (u \notin refusing => rest[u] = bag[u])}

(* Mutant: the keys of all listed upstreams are set before one is picked.  *)
CarriedOfAll(old, tried, u) ==
  {new \in [Headers -> Keys] :
     \A h \in Headers :
       \/ new[h] \in Upstreams /\ KeyHeader[new[h]] = h /\ Route[new[h]] > 0
       \/ new[h] = old[h] /\ \A v \in Upstreams : KeyHeader[v] # h}

(* upstream_headers.update(): what the headers can hold when u is sent to, *)
(* after others were tried: a key, the client's too, stays until another   *)
(* takes its header.                                                       *)
Carried(old, tried, u) ==
  {new \in [Headers -> Keys] :
     \A h \in Headers :
       LET users == {v \in tried : KeyHeader[v] = h}
       IN  IF KeyHeader[u] = h THEN new[h] = u
           ELSE IF users = {} THEN new[h] = old[h] ELSE new[h] \in users}

(* The loop, up to its next await: pick among the healthy of the listed    *)
(* upstreams, or answer 502 when there is none or the list is exhausted.   *)
Loop(r, bag, brk) ==
  /\ breaker' = ReadAll(brk, Listed(bag))
  /\ \E rest \in Remainders(bag, {u \in Healthy(brk, bag) : session[u] = "closed"}) :
       /\ left' = [left EXCEPT ![r] = rest]
       /\ \/ \E u \in Healthy(brk, rest) :
               /\ session[u] # "closed"
               /\ Send(r, u)
               /\ \E new \in Carried(keys[r], {v \in Upstreams : rest[v] < bag[v]}, u) :
                    keys' = [keys EXCEPT ![r] = new]
          \/ /\ Healthy(brk, rest) = {}
             /\ End(r, "unavailable", 1)
             /\ UNCHANGED <<session, keys>>

(* except Exception: the upstream is taken off the list, once. *)
Failover(r, brk) ==
  /\ Loop(r, [left[r] EXCEPT ![at[r]] = @ - 1], brk)
  /\ UNCHANGED <<now, server, toClose>>

Recorded(r, ok) == [breaker EXCEPT ![at[r]] = Record(@, ok, now)]

-----------------------------------------------------------------------------
(* The steps of a request *)

(* _upstream_headers(): the client's headers are taken over, with its keys. *)
Init ==
  /\ now = 0
  /\ breaker = [u \in Upstreams |-> NewBreaker]
  /\ session = [u \in Upstreams |-> "none"]
  /\ server = "ready"
  /\ toClose = {}
  /\ pc = [r \in Requests |-> "new"]
  /\ left = [r \in Requests |-> Route]
  /\ at = [r \in Requests |-> Nobody]
  /\ keys = [r \in Requests |-> [h \in Headers |-> IF h \in SentIn[r] THEN OwnKey ELSE Nobody]]
  /\ heads = [r \in Requests |-> 0]

(* A request that passed inspection enters _forward, also while the runner *)
(* waits for the handlers that it has.                                     *)
Begin(r) ==
  /\ pc[r] = "new"
  /\ server # "stopped"
  /\ Loop(r, left[r], breaker)
  /\ UNCHANGED <<now, server, toClose>>

(* Mutant: the client's head is written when the upstream's head arrives. *)
AnsweredAtOnce(r, status) ==
  /\ pc[r] = "sending"
  /\ session[at[r]] = "open"
  /\ breaker' = Recorded(r, status # "server_error")
  /\ heads' = [heads EXCEPT ![r] = @ + 1]
  /\ pc' = [pc EXCEPT ![r] = "reading"]
  /\ UNCHANGED <<now, session, server, toClose, left, at, keys>>

(* The upstream's head arrives and is recorded; a stream that is not       *)
(* answered 200, 201 or 204 ends with that status, one answered 200 starts *)
(* the client's response, all others are read.                             *)
Answered(r, status) ==
  /\ pc[r] = "sending"
  /\ session[at[r]] = "open"
  /\ breaker' = Recorded(r, status # "server_error")
  /\ \/ /\ r \in Streams /\ status \in {"client_error", "server_error"}
        /\ End(r, "answered", 1)
     \/ /\ r \in Streams /\ status = "ok"
        /\ pc' = [pc EXCEPT ![r] = "streaming"]
        /\ heads' = [heads EXCEPT ![r] = @ + 1]
        /\ UNCHANGED at
     \/ /\ r \notin Streams \/ status = "created"
        /\ pc' = [pc EXCEPT ![r] = "reading"]
        /\ UNCHANGED <<at, heads>>
  /\ UNCHANGED <<now, session, server, toClose, left, keys>>

(* Mutant: a request whose session was closed is never told. *)
SendFailsIfOpen(r) ==
  /\ pc[r] = "sending"
  /\ session[at[r]] = "open"
  /\ Failover(r, Recorded(r, FALSE))

(* A client error, a timeout or a TLS error before the head: recorded,     *)
(* then the next upstream.                                                 *)
SendFails(r) == pc[r] = "sending" /\ Failover(r, Recorded(r, FALSE))

(* The body of a response that is not streamed fails, times out, or its    *)
(* inspection raises: the next upstream, nothing recorded.                 *)
ReadFails(r) == pc[r] = "reading" /\ Failover(r, breaker)

(* The stream breaks or its inspection raises, or its client goes away     *)
(* while it is written to: the loop goes on to the next upstream although  *)
(* the response has started.                                               *)
StreamFails(r) == pc[r] \in Started /\ Failover(r, breaker)

Proceed(r, place) ==
  /\ pc' = [pc EXCEPT ![r] = place]
  /\ UNCHANGED <<now, breaker, session, server, toClose, left, at, keys, heads>>

(* A chunk is inspected and written to the client; *)
Chunk(r) == pc[r] = "streaming" /\ Proceed(r, "writing")

(* the client takes it. *)
Taken(r) == pc[r] = "writing" /\ Proceed(r, "streaming")

(* The stream is at its end, or blocked: what is left of it, or the events *)
(* of the block, and the end are written.                                  *)
StreamEnds(r) == pc[r] = "streaming" /\ Proceed(r, "ending")

(* The body is read and inspected, a 403 or the upstream's response is     *)
(* given; or the client takes the end of its stream, and gets no other     *)
(* head.                                                                   *)
Done(r) ==
  /\ \/ pc[r] = "reading" /\ End(r, "answered", 1)
     \/ pc[r] = "ending" /\ End(r, "answered", 0)
  /\ UNCHANGED <<now, breaker, session, server, toClose, left, keys>>

-----------------------------------------------------------------------------
(* The clock, the operator's view, the shutdown *)

Tick ==
  /\ now < MaxTime
  /\ now' = now + 1
  /\ UNCHANGED <<breaker, session, server, toClose, pc, left, at, keys, heads>>

(* pool.status(), behind /api/v1/upstreams, reads every breaker. *)
Status ==
  /\ server \in {"ready", "closing"}
  /\ breaker' = ReadAll(breaker, Upstreams)
  /\ UNCHANGED <<now, session, server, toClose, pc, left, at, keys, heads>>

(* stop(): _ready is cleared, *)
Stop ==
  /\ server = "ready"
  /\ server' = "closing"
  /\ toClose' = Upstreams
  /\ UNCHANGED <<now, breaker, session, pc, left, at, keys, heads>>

(* then pool.close() closes the sessions there are, one after another, and *)
(* leaves them in the dictionary,                                          *)
CloseSession(u) ==
  /\ server = "closing"
  /\ u \in toClose
  /\ toClose' = toClose \ {u}
  /\ session' = [session EXCEPT ![u] = IF @ = "open" THEN "closed" ELSE @]
  /\ UNCHANGED <<now, breaker, server, pc, left, at, keys, heads>>

(* and only then does the runner stop accepting requests; *)
PoolClosed ==
  /\ server = "closing"
  /\ toClose = {}
  /\ server' = "cleaning"
  /\ UNCHANGED <<now, breaker, session, toClose, pc, left, at, keys, heads>>

(* it waits for the handlers, and cancels those that outlast its patience. *)
Cleanup ==
  /\ server = "cleaning"
  /\ server' = "stopped"
  /\ pc' = [r \in Requests |-> IF pc[r] \in Waiting THEN "cut" ELSE pc[r]]
  /\ at' = [r \in Requests |-> Nobody]
  /\ UNCHANGED <<now, breaker, session, toClose, left, keys, heads>>

Handle(r) ==
  \/ \E status \in Statuses : Answered(r, status)
  \/ SendFails(r)
  \/ ReadFails(r)
  \/ StreamFails(r)
  \/ Chunk(r) \/ Taken(r) \/ StreamEnds(r)
  \/ Done(r)

Next ==
  \/ \E r \in Requests : Begin(r) \/ Handle(r)
  \/ Tick \/ Status \/ Stop
  \/ \E u \in Upstreams : CloseSession(u)
  \/ PoolClosed \/ Cleanup

(* A wait for the upstream ends: with its answer, its failure, the end of  *)
(* its body, or the timeout; with a chunk it has not ended for good.       *)
Upstream(r) ==
  /\ pc[r] \in {"sending", "reading", "streaming"}
  /\ UNCHANGED <<now, server>>
  /\ Handle(r)
  /\ pc'[r] # "writing"

(* ClientTimeout(total) bounds an attempt, with all that is read of its    *)
(* body: a handler that goes back to its upstream again and again gets the *)
(* end or the timeout.  Nothing bounds a write to the client.              *)
Fairness == \A r \in Requests : SF_vars(Upstream(r))

Spec == Init /\ [][Next]_vars

FairSpec == Spec /\ Fairness

-----------------------------------------------------------------------------
(* Properties *)

(* The types of the pool's and the handlers' state. *)
TypeOK ==
  /\ now \in 0..MaxTime
  /\ breaker \in [Upstreams -> Breaker]
  /\ session \in [Upstreams -> {"none", "open", "closed"}]
  /\ server \in {"ready", "closing", "cleaning", "stopped"}
  /\ toClose \subseteq Upstreams
  /\ pc \in [Requests -> {"new"} \cup Waiting \cup Ended]
  /\ left \in [Requests -> [Upstreams -> 0..MaxListed]]
  /\ at \in [Requests -> Upstreams \cup {Nobody}]
  /\ keys \in [Requests -> [Headers -> Keys]]
  /\ heads \in [Requests -> Nat]

(* A breaker that lets requests through has not reached max_failures,      *)
(* although failures go on being counted while it is open and late answers *)
(* of older attempts close it.                                             *)
AdmittingBelowMax ==
  \A u \in Upstreams : breaker[u].state # "open" => breaker[u].failures < MaxFailures

(* An upstream being tried is still on the handler's list: what a failure  *)
(* takes off is there, whatever other requests did to the breaker and the  *)
(* session since it was drawn.                                             *)
TryingListed ==
  \A r \in Requests :
    pc[r] \in Waiting => at[r] \in Upstreams /\ left[r][at[r]] > 0

(* An upstream that has a key is sent that key, whatever was tried before  *)
(* it.  A header that is not its own holds what the client sent, until an  *)
(* upstream that uses this header was tried; then the key of one that has  *)
(* failed this very request, and of none that another request tried or     *)
(* that is still to come.  (docs/security.md says that secrets are         *)
(* "excluded from request forwarding": that key is not.)                   *)
KeysOfTried ==
  \A r \in Requests :
    pc[r] \in Waiting =>
      /\ KeyHeader[at[r]] \in Headers => keys[r][KeyHeader[at[r]]] = at[r]
      /\ \A h \in Headers :
           LET owner == keys[r][h]
           IN  /\ owner \in Upstreams \ {at[r]} => left[r][owner] < Route[owner]
               /\ owner \notin Upstreams =>
                    \A u \in Upstreams : KeyHeader[u] = h => left[r][u] = Route[u]

(* A 502 for want of an upstream is given only if each upstream of the     *)
(* route failed as often as it is listed, or is cooling down right now.    *)
UnavailableJustified ==
  [][\A r \in Requests :
       (pc[r] # "unavailable" /\ pc'[r] = "unavailable")
         => \A u \in Listed(Route) :
              left'[r][u] > 0 =>
                breaker'[u].state = "open" /\ now - breaker'[u].openedAt < Cooldown
    ]_vars

(* The exchanges that are not streamed, seen from the client. *)
Buffered == Requests \ Streams

Phase(r) ==
  CASE pc[r] = "new" -> "idle"
    [] pc[r] \in Waiting -> "pending"
    [] pc[r] \in {"answered", "unavailable"} -> "answered"
    [] pc[r] = "cut" -> "cut"

Client == INSTANCE HttpExchange
  WITH Clients <- Buffered,
       phase   <- [r \in Buffered |-> Phase(r)],
       heads   <- [r \in Buffered |-> heads[r]]

(* A request that is not streamed gets one response, once, whatever the    *)
(* upstreams, the breakers and the shutdown do: the loop implements the    *)
(* client's view of an exchange.                                           *)
BufferedExchange == Client!OneResponse

(* No handler waits for its upstream for ever, whatever fails and however  *)
(* often: it answers, or it waits for a client that does not read.         *)
Answering == <>[](\A r \in Requests : pc[r] \notin Waiting \ {"writing", "ending"})

-----------------------------------------------------------------------------
(* What the documents say and the code does not do *)

(* README.md: "graceful shutdown": stopping the gateway does not close the *)
(* upstream's session under a request that is being served.                *)
ServedThroughStop ==
  \A r \in Requests : pc[r] \in Waiting => session[at[r]] = "open"
=============================================================================
