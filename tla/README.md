# A TLA+ model of zerollm

zerollm is a firewall in front of LLM providers: an aiohttp gateway that
authenticates a request, charges it to a tenant's quota, inspects its body,
forwards it to one of several upstreams with failover, and inspects the answer,
streamed or not, before the client sees it.  This directory models the parts of
it that keep state or decide something, checks them with TLC and proves the
central invariants with TLAPS.

Paths below are relative to the repository (`src/zerollm/...` is its package).
`PROJECT.json` maps every definition to the lines it translates.

## The system

| part | code | state | operations | talks to |
|---|---|---|---|---|
| stream inspector | `proxy/sse.py` | byte buffer, deque of events, characters received and flushed, last scan, decision | `inspect`, `finish` | engine, policy engine; called by the gateway once per chunk |
| detection engine, judge, patterns | `detect/` | none | `scan_text`, `redact_spans`, a judge's HTTP call | called by inspector and gateway |
| policy engine | `policy.py` | none (the rules) | `evaluate` | called by inspector and gateway |
| upstream pool, breakers | `proxy/pool.py` | a breaker and a session per upstream | `pick`, `healthy`, `send`, `status`, `close` | called by every request, by `/api/v1/upstreams`, by the shutdown |
| gateway: forwarding | `proxy/gateway.py` `_forward`, `_stream_response`, `stop` | the list of upstreams left and the headers, per request | the failover loop | pool, inspector, client |
| gateway: handling | `proxy/gateway.py` `_middleware`, `_proxy_handler`, `log.py` | one log context, request counters | one request from arrival to status | authentication, quotas, body inspection, forwarding |
| configuration | `config.py`, `schema/` | none after the start | `load_config`, its checks and defaults, look-ups | read by authentication, quotas, policy engine, pool |
| authentication | `auth.py` | none | four modes | called by handling |
| quotas | `quotas.py` | counters per tenant and window, in Redis or in memory | `check` | Redis, shared by replicas |
| body inspection | `proxy/gateway.py` `_inspect_*`, `detect/engine.py` | none beyond the request | scan fields, decide, redact | engine, policy |
| audit log | `audit.py` | tasks, chain tail, executor queue, numbered files | `_record_block`, `alog`, `log`, rotation, shutdown, restart, `verify_chain` | called by gateway tasks and by the terminal |
| firewall facade | `proxy/firewall.py` | none | `sanitize_prompt`, `redact_prompt` | engine; called by the demo and by programs |
| metrics, tracing, CLI | `metrics.py`, `trace.py`, `cli/` | counters, a tracer | | called by the gateway |

### What is hard here

* All requests are tasks of one event loop: between any two awaits others run.
  They share the breakers, the sessions, the log context and the audit tail.
* The inspector's offsets are relative to a window that moves whenever events
  are flushed, events and scans are cut at different places, and a decision of
  one scan is used at a later flush.
* Chunks end anywhere, also within the separator of two events, of which there
  are two kinds.
* Upstreams fail before the head, while the body is read, and in the middle of
  a stream; failover runs over a list that other requests do not see and over
  breakers that they do.  The headers of all attempts are one dictionary, in which
  each attempt puts its own key, next to what the client sent.
* Audit records are chained on the loop but written by a pool of threads, which
  share one lock; rotation is several file operations, any of which can raise or
  be the last before a crash.  The gateway's tasks that log a block are not
  awaited by anyone, and end with the loop.
* A quota's bucket is named before the await and counted after it, by several
  replicas at once, with a key that expires.
* The shutdown runs in stages while requests are under way.

The properties that make each part correct are the ones of the runs below; the
hazards they answer, with their lines, are in `PROJECT.json`.

## The modules

**PolicyEngine** (`policy.py`) holds `Evaluate`, its matching, precedence and
fail mode as pure operators over sets of findings.  A finding is its detector,
span, severity and confidence.  The schema looks at the actions of the policy
`default` only, so a rule may have an action that the engine does not know; its
hits then decide nothing.  `SSEInspector` and `BodyInspection` use it.

**SSEInspector** (`proxy/sse.py`) models `inspect(chunk)` and `finish()`.  A
character is its position in the stream; an event is the stretch of text its
delta adds; a chunk completes some events.  The text is known by the findings a
detector would report on all of it.  One action is a whole call: append, scan if
enough is new, block, or flush up to the boundary.  `Fail` is the exception of a
judge or of a payload that is not an object.  The bytes around the text are those
of `EventStream`.

**EventStream** (`proxy/sse.py`) models these bytes: a stream is a sequence of
carriage returns, line feeds and tokens, a token being one field of an event.
`Boundary` and `Consume` cut a buffer into events, `HasDelta` says which of them
carry text, `Emitted` and `Rewritten` write one again.  `Inspect(n)` takes the
next n elements of the stream, so every cut into chunks is a behaviour; how many
events are flushed, which are redacted and whether a block ends the stream is
free, since `SSEInspector` decides it.  The properties compare it with what a
client does with the same bytes (`ClientEvents`, by the rules of server-sent
events).  `Consume`, the loop of `_consume_events()`, is a function of the number
of its turns (`CutOff`), not a recursive operator, so that it can be reasoned about.

**CircuitBreaker** and **Forwarding** (`proxy/pool.py`, `proxy/gateway.py`)
model the failover loop from one await to the next.  `CircuitBreaker` has the
`state` property, which changes the breaker when it is *read*, and `record`.
`Forwarding` has one handler per request, the sessions, the clock, the status
page, and `stop()` in its four stages.  Weights only say how often an upstream
is drawn, so a route is a bag and every healthy member may be drawn.  `keys` says
whose key stands in each of the two headers in which upstreams expect theirs: at
first what the client itself sent there (`SentIn`, `OwnKey`; the gateway takes the
client's headers over, its own credential included), and what an attempt sets
stays until another attempt overwrites it.  A handler that streams waits for its
upstream or for its client (`Chunk`, `Taken`, `StreamEnds`), which matters for
the fairness below.

**HttpExchange** is the abstract specification of what a client is promised: one
response at most, given once, or a cut by the shutdown.  `Forwarding` implements
it for requests that are not streamed, under the mapping `Phase`.  A streamed
request does not keep it: after a broken stream the loop tries the next upstream
and starts a second response on a connection that already has one.

**Configuration** (`config.py`, `schema/config.schema.json`) takes a file, a
record with only the keys that it has, through the schema (`Valid`), the defaults
(`Build`), the checks of references (`SemanticCheck`) and the policy engine's
check of its rules (`ValidateRules`); `Starts` says that none of them raises.  It
keeps the sections that decide who is let in, for which tenant, against which
quota, and whether the gateway starts.

**Authentication** (`auth.py`) is the four modes and the choice of the tenant
as operators over a configuration; a digest, signature or certificate is a verdict.
**RequestHandling** (`proxy/gateway.py`, `log.py`) composes both with the
middleware and the proxy handler: any configuration that starts, all the ways in
which a request ends, the context that every log line reads, the counter and the
quota's call; and the requests for the gateway's own pages (`OwnPage`) and for
paths that no route has (`NoRoute`), which pass through the same middleware.  The
counter gets the status that the middleware knows of and `status` is what the client
got: they differ for a path without a route, a stream that broke and a handler that
was cancelled.  A tenant may have an empty id, which the schema allows: it has no
quota, and the holders of its keys choose a tenant by their header.  That a key names
a tenant is therefore not assumed but follows
from the checks at the start.  The answers of quota, inspection and upstreams are
free there; the modules named after them say what they are.

**Redaction** (`detect/engine.py`, `proxy/firewall.py`) holds the two algorithms
that cut findings out of a text, `RedactSpans` of the gateway and `RedactPrompt`
of the facade; both sort, merge and cut, with code of their own.  `Reference`
says by position what redaction means, and both are compared with it.

**BodyInspection** (`proxy/gateway.py`) models the scan of the fields, the one
decision over all findings, the choice of the replacement and the rewriting of
the fields.

**AuditLog** (`audit.py`) models the gateway's task for a blocked request from
its creation (`RecordBlock`), `alog()` with its executor, `log()`, the file
sink down to each file operation of a rotation, failures of any of them, the end
of the event loop, which cancels what has not begun and what no thread has taken,
a crash at any point with a start on the files that are left, and
`verify_chain()`, which raises while `path` is missing between a rename and the
next write.  Every line has a size of its own (`LineBytes`), and a file has the size
of its lines, as `stat()` says it.

**QuotaStore** (`quotas.py`) models `check()` with the two Redis commands, each
of which may be late, fail, or fail after it was executed, and with the counters
in memory, which are trimmed.  Nothing bounds how late a command is: the client is
made without a timeout, so an INCRBY may find its key expired.  That redis-py sends
a command again after a lost connection is not modelled.

The `MC...` modules give TLC its constants.  Definitions marked "Mutant" are
plausible bugs of the definition that follows them; nothing uses them, they are
there to show that a property would notice.

## The runs

| run | question | answer |
|---|---|---|
| `sse` | However the upstream cuts its stream: is text lost, written twice, written unscanned, held without bound, is a narrow finding written before it is reported, is a fresh decision applied to the wrong characters? | no |
| `sse_block` | Is a block in time? (`docs/policy.md:18`) | **no**: the first characters are flushed after the scan that decided the block |
| `framing` | However the bytes arrive: are events those of the whole stream and those a client would cut, is any field lost, repeated or moved? | yes; yes for streams with one kind of line break; no |
| `framing_client` | Does a client get the events that the upstream sent? (`README.md:52`) | **no**: events that are not rewritten lose the blank line that ends them |
| `forwarding` | Do interleaved requests keep the breakers and lists consistent, does an upstream get its own key and no untried one's, is a 502 justified, does a buffered request get one response, does every wait of a handler end? | yes; but for the wait for a client that does not read |
| `shutdown` | Is a request served through `stop()`? (`README.md:75`) | **no**: the sessions are closed first |
| `handling` | Under every configuration that starts, who is let in, for which tenant, who pays, what is counted, whose identity stays in the context? | as it should be |
| `log_context` | Does a log line carry the id of its own request? (`log.py:3`) | **no**: the context is one per thread, and all requests share the thread |
| `body` | Is anything blocked or redacted forwarded, is anything touched in which no detector found something, does fail-closed let a body pass of which no rule took anything, does the facade redact otherwise than the gateway? | no |
| `audit` | What do the files hold after failures, interrupted rotations, a shutdown and a restart; by how much does a file exceed its limit; can an event be lost otherwise? | a suffix of what was written, each record once; by less than its last line; no |
| `audit_order` | Does the chain verify when nothing went wrong? (`tests/test_audit.py:103`) | **no**, if two records were logged without waiting |
| `quota` | Is the limit kept per window, are refusals justified, do keys expire? | yes, for a window all of whose commands arrive before its key may expire |

The five runs answered "no" in bold are expected violations, each checks one
sentence of the repository, and each is a finding in `PROJECT.json`.

Some properties are weaker than one would wish, because the code does not keep more:

* `KeysOfTried` allows a client's own gateway credential to be sent to an upstream
  that does not use its header, since `_upstream_headers()` copies it; and the key of
  an upstream that failed to be sent to the next one when that has its own in another
  header, or none, since all attempts share one dictionary.
  `docs/security.md:15-17` says that such secrets are "excluded from request
  forwarding".
* `CountedOnce` speaks of the status only for what the gateway itself refused.  A 404
  or 405 of the router is counted as a 200, which the middleware began with, and a
  stream that broke as a 502, although its client has got a 200;
  `docs/observability.md:18` names the counter `zerollm_requests_total{route,status}`.
* `LimitPerWindow` has the condition `CountedInTime`.  A command that arrives after
  the key of its window expired starts a new count, and more than rpm are admitted;
  without the condition TLC finds that in this very run.
* `TenantOfCredential` lets the header choose for a key of a tenant without a name.
* `FileSizeBounded` bounds a file by what it was before its last line: `emit()`
  compares the size before it writes, so every file may exceed `max_bytes`, as
  those of `tests/test_audit.py:99` do.
* `RedactionExact` lets all that was found in a field be replaced with the text of one
  rule, also what another rule matched, or none.  `docs/policy.md:69` says that
  redaction "replaces matched spans with `replace_with` per detector".
* `LimitPerWindow` is about the fixed windows of the code, where
  `docs/configuration.md:15` calls the quotas sliding: within a window's length around a
  boundary, more than rpm are admitted.

Other disagreements were met and have no run of their own:

* A redaction that is applied later than its scan uses offsets of a window that
  has moved (the same cause as `sse_block`; `FreshRedactionExact` and
  `ExactWhenHeld` say when offsets can be trusted).
* `docs/policy.md:59` and `docs/security.md:26` say that in fail-closed mode any
  finding that no rule matches blocks.  `evaluate` asks the fail mode only when no
  rule hit at all: one finding that a rule flags lets all unmatched ones pass.
  `UnmatchedAloneBlocks` is what holds instead.
* A policy other than `default` is not checked by the schema: a misspelt action
  is accepted, and its finding falls to the fail mode, alone or with others.
* `/readyz` looks at one flag and not at the breakers (`docs/deployment.md:75`).
* `docs/observability.md:47` lists redactions, failed authentication and rate limits
  among what the audit log records; the gateway logs blocks and flags only.
* When the first record of a chain has been rotated away, `verify_chain()` calls
  the rest broken, since it begins at None; the properties about the chain
  suppose that nothing was evicted.
* `_read_body` reads once, which returns what has arrived and not the whole body;
  a part of a body is no JSON and is forwarded uninspected (`NotJson`).
* `docs/configuration.md:18` says that a route may omit its policy; the schema
  requires it.  `docs/configuration.md:5` says that `$VAR` is expanded; only
  `${VAR}` is.
* The schema's condition for `api-key` also holds of an `auth` section without a
  mode, which it refuses unless it has keys.  With `mtls` but without its section
  a file is accepted, and the gateway refuses every request.  `config check`
  accepts policies with unknown detectors, with which the gateway does not start.
* An event whose data is spread over several lines is rewritten in its first line
  only; the others stay (`Rewritten`).
* With tracing enabled and the extra not installed, `get_tracer` returns a
  `NoopTracer`, which has neither `span` nor `inject_headers`: every request ends
  as a 500, where `trace.py:5` says that it works seamlessly.

### Bounds, and why they are enough

* `sse`: lookahead 4, scan step 3, deltas up to 3 characters, chunks of up to 2
  events, 10 characters, 6 events held.  The code has a lookahead of at least 64
  and a step of 32; what matters is that the step is below the lookahead, that a
  delta can straddle the boundary and that a chunk can stay below the step.  The
  text is long enough for two flushes and a scan in between.  The five invariants
  and both action properties are proved for all values.
* `framing`: all sequences of up to seven line breaks of both kinds and payloads,
  and all pairs of events of five forms with either separator.  A separator has
  four elements at most, so seven hold two events and a cut anywhere in between.
  The three invariants are proved for all streams.
  `framing_client` needs two elements and the pairs.
* `forwarding`: two upstreams, one of them listed twice, each with a header of
  its own for its key, one buffered and one streamed request, of which one client
  sends both headers and the other one, two failures to open, a cooldown of one
  tick, one tick: a breaker can open, cool down, be half-open, close or open again
  under a request that is waiting.  `shutdown` lists each upstream once and
  opens at the first failure.
* `handling`: two requests are enough for one to overwrite the context of the
  other; two tenants with names, of which one is limited, and one without; seven
  credentials, for every way in which `auth.py` distinguishes them; seventeen files,
  of which nine start, in all four modes, with keys that share their hash or not, with
  and without a server for keys and a certificate authority, and eight that each
  fail one check.  `log_context` has the same bounds.
* `body`: two fields of four characters, up to three findings of two detectors
  with any spans in the first, which covers every order, overlap and touch of
  three intervals; policies that block, redact, flag, allow, redact with an empty
  text, or have a misspelt action.
* `audit`: two workers, two backups, six records with lines of one to three bytes and
  a limit of two, so that a file takes one line or two and may exceed its limit or
  just meet it; they fill and shift all files while rotations are interrupted, and
  the oldest are evicted; two tasks that have not begun, one restart.
  `audit_order` needs two records.
* `quota`: three requests with a limit of one, so that one can be
  counted, one be refused or come too late, and one be counted in the next window;
  two replicas, windows and a grace period of two ticks, six ticks, so that the key
  of the first window expires and commands arrive behind it.  Requests and replicas
  are symmetric.

The bounds `MaxLength`, `MaxEvents`, `MaxChunk`, `MaxTime`, `MaxListed`,
`MaxRecords`, `MaxPending`, `MaxStarts` and `MaxFree` are those of the model only,
and no property depends on them.
`CHECK_DEADLOCK FALSE` stands where a process may have nothing left to do.

### Fairness

`Forwarding!Fairness` is about what a handler awaits of its upstream (`Upstream`):
an attempt has `ClientTimeout(total=timeout_s)`, which covers the body and all
chunks of a stream, and a judge has a timeout of its own, so each such wait ends.  It
is strong fairness because a stream returns to its upstream after each chunk, and
the one timeout runs over all of them: a handler that goes back to its upstream
again and again meets the end or the timeout.  Nothing is assumed of the client: a
write to it (`Taken`, and `Done` of a stream) has no timeout, so a handler may wait
there for ever, and `Answering` says that it waits for nothing else.  Arrival, the
clock, the kind of the upstreams' answers and the stages of the shutdown are not fair.
`AuditLog!Fairness` is weak fairness of the tasks and of each thread: a task that
was created begins as long as the loop runs, a thread of the executor that has
work runs, and a file operation ends, well or badly.  Nothing is assumed of
the order in which threads get the lock; with a bounded number of records none
can be passed for ever.

## The proofs

| module | theorems | for every |
|---|---|---|
| `SSEInspectorProofs` | `TypeCorrect`, `QueueCorrect`, `ScannedBeforeFlush`, `BoundedHold`, `NarrowFindingsDetected`, `FreshRedaction`, `HeldResponseExact` | lookahead, scan step up to the lookahead and one more, text, policy, chunking |
| `EventStreamProofs` | `ChunkingSound`, `CutLikeAClient`, `FieldsKept` | stream of bytes, cut into chunks, choice of what is flushed and redacted |
| `ForwardingProofs` | `TypeCorrect`, `BreakerCorrect`, `TryingIsListed`, `KeysCorrect`, `UnavailabilityJustified`, `Refinement` | number of requests and upstreams, route, threshold, cooldown, keys, clients' headers |
| `RequestHandlingProofs` | `TypeCorrect`, `ContextCorrect`, `TenantCorrect`, `QuotaCorrect`, `CountCorrect` | number of requests, tenants, credentials, set of files |
| `BodyInspectionProofs` | `Types`, `BlockedBodiesStay`, `UnmatchedBodiesStay`, `BenignTextSurvives`, `RedactedIsGone`, `FacadeAgrees` | number and length of fields, set of findings, policy |
| `AuditLogProofs` | `TypeCorrect`, `RecordsWrittenOnce`, `SizesBounded`, `NoEventLost`, `StoredInOrder`, `ChainKept` | number of threads, files, records and restarts, sizes of lines and files |
| `QuotaStoreProofs` | `TypeCorrect`, `LimitKept`, `RefusalsJustified`, `KeysExpireUnlessFailed` | number of requests and replicas, limit, window, grace period, delay |

`OperatorLemmas` holds what several of them need about the operators of the models:
elements and lengths of sequences, `FlattenSeq`, folds, functions defined by
recursion, sets of numbers listed in order, and the policy engine.  The prover
cannot use the library's theorems of induction, which take an operator as a
parameter; these lemmas state induction for the *set* of numbers of which
something holds (`InductionUpTo`), which it can use, and what `FlattenSeq` and the
loop of `Consume` compute is proved from there.

The theorems rest on the named assumptions on constants (`InspectorAssumption`,
`EventStreamAssumption`, `BreakerAssumption`, `ForwardingAssumption`,
`AuthenticationAssumption`, `HandlingAssumption`, `InspectionAssumption`,
`RedactionAssumption`, `AuditAssumption`, `QuotaAssumption`), which TLC evaluates
on every run, and on nothing else.  Most give constants their types, and keep the
values that stand for nobody and nothing apart from the others.  These say
something about the code or its inputs:

* `InspectorAssumption`: no finding is empty, since no pattern matches the empty
  text (`InspectionAssumption` says the same of a body's findings); the scan step is
  at most the lookahead and one more, as 32 is with a lookahead of 64 or more.
* `EventStreamAssumption`: a token tells which payload it was rewritten from, and no
  upstream sends a rewritten one; without it a payload could not be followed through
  a redaction.
* `InspectionAssumption`: the text of a rule can be told from the characters of the
  body.
* `RedactionAssumption`: a credit card is not among the detectors at which the
  facade raises.
* `AuditAssumption`: no line is empty, and there is a backup at least, since a
  `max_files` of 0 is replaced by 10.
* `QuotaAssumption`: the counters in memory are kept for a window at least, as the
  3600 seconds of `_MemoryRooms` do for windows of 60.

**The inspector.**  None of the four invariants is inductive.  `IInv` adds
`Paced` and `HeldIsReported`.  `Paced`: while the stream is open, fewer than
`ScanStep` characters came since the last scan, and what is flushed lies
`Lookahead` behind the head.  Together they give `NothingUnscanned`, and it is
here that `ScanStep <= Lookahead + 1` is needed.  `HeldIsReported`: the last scan
saw every finding that is still held in full and lies before it.  A finding of
width at most `Lookahead - ScanStep + 1` that is about to lose its first
character therefore ends before the last scan, so it was reported while it was
held.  `Covers`, which cuts the held text into consecutive events, is preserved by
appending (`Parsed`) and by dropping a prefix; these are lemmas of their own.
The two action properties say which characters a step writes masked.  What the
engine reports of a window are the findings of the text, shifted, so a fresh
decision on them claims the same ones (`ReportsClaimed`), and a block among them
is in force once the whole window may be written (`BlockTakesEffect`).  For
`ExactWhenHeld` the last decision may be older: `Exactness` adds that only written
characters were replaced, and that a pending decision that redacts, as long as
nothing was written, does so for a finding the last scan saw (`Earlier`); the scan
at the end then sees it too (`MoreIsClaimed`) and decides anew.

**The stream.**  Bytes that come later do not change where the first event ends
(`BoundaryKept`): a separator that is found stays the first.  By induction on the
length of the buffer, cutting events off the joined bytes is then the same as
cutting them off the first part, and then off its rest with the new bytes
(`ConsumeJoins`), and `ChunkingIrrelevant` is what one call of `inspect` preserves.
For `FieldsConserved`, the fields of joined bytes are the joined fields
(`FieldsConcat`), the lines of an event have all its fields (`FieldsOfLines`), and
an event that is rewritten has the mask of its first payload where that payload was
(`RewrittenKeeps`); the invariant `Balance` says that what was written and what is
held are the fields of all events cut off, in their order.
`CutsAsClient` needs no invariant of its own: with `ChunkingIrrelevant` it is a
statement about one text, proved by induction on its length (`ConsumeAsClient`).
With one kind of line break, what a client reads is the text without its carriage
returns (`UnifiedIsFed`), and the data of an event are the same in it (`DataFed`).
In what is before a separator no two line feeds follow each other and the last byte
is no break (`FirstEvent`, `FedSeparate`), so the client's first blank line is the
separator that `Boundary` finds; behind it the client goes on as it would on the
rest alone (`ClientStep`), since a line break that an event begins with has no data
(`BreakFirst`).

**Forwarding.**  `IInv` is the type invariant with `AdmittingBelowMax` and
`TryingListed`; lemmas say that reading and recording keep a breaker below its
threshold, and one lemma about `Loop` covers `Begin` and the three failures.
`KeysOfTried` has an invariant of its own, `KInv`, that also speaks of requests
which have not begun or have ended: the key of the upstream being tried is in its
header (`Carrying`), any other upstream's belongs to one that was taken off the
list (`OthersFailed`), and while a header is the client's no upstream that uses it
was tried (`ClientsUntried`).
`UnavailabilityJustified` is an action property: the answer is given when no
listed upstream is healthy, and a breaker that was just read and does not allow is
open and cooling down.  `Refinement` maps each step of the loop to a step or a
stutter of `HttpExchange`.

**Handling.**  `IInv` joins the four properties with `Configured` (what the checks
at the start leave of a configuration, which stays true; the lemma
`ChecksSuffice` derives it from `Starts`) and `InOrder` (nothing is spent or
answered before its time, and only who has a quota is checked).  `GateAdmits`
says what the gate lets in, mode by mode.

**Bodies.**  `IInv` says that the fields before `next` have been scanned and that
a body goes on only under a verdict, on all its findings, that is not to block.
The rest is about the engine: a hit in one field is a hit in the body
(`HitInBody`) and the other way round (`HitInField`), a hit that blocks makes the
verdict (`BlockHitBlocks`), and without a known hit the fail mode does
(`UnclaimedBlocks`).
What `RedactSpans` and `RedactPrompt` do to a text is shown to be `Reference`:
their regions are disjoint, in order and cover the spans, no more and no less
(`Describes`), and cutting such regions out, one after the other, leaves each
position outside them where `Reference` has it (`CutOutIs`).  Both algorithms have code of
their own for sorting and merging, and both meet the one description, so they
agree.

**The audit log.**  `WrittenOnce` needs that all numbers of records were given out
(`Given`) and that no two records anywhere share one (`Distinct`); `FileSizeBounded`
needs that whoever holds the lock, and is through with the rotation, has a file below
its limit before him (`Held`); `EventsAccountedFor` needs that nothing is queued once
the loop has ended undisturbed (`Complete`). `StoredIsSuffix` needs (`Placement`)
where the file of each number stands in the middle of a rotation: each file holds a
run of what was written and ends where the next younger one begins, so a rename, which
moves a file into a hole, leaves the joined files as they are (`FlattenedRuns`), and
only the oldest backup is ever unlinked. `AwaitedChainVerifies` needs (`Chained`) that
as long as nothing is disturbed what was written is linked, a record that is underway
continues it, and with none underway the tail of the chain is the last record written.

**Quotas.**  `LimitPerWindow` counts who was let in, the invariant counts who is
as good as let in (`LetIn`).  As long as a window's commands came in time, the counter
of its bucket reckons with them all (`Reckoned`) until the bucket is over: no key
expires before the grace period of its window has passed (`ExpiryLate`), and memory is
trimmed of old windows only.  Once it is over, a further command is one that came too
late, and the condition of the property is gone; what came in time up to a step was so
before it (`InTimeBefore`), so the condition can be used step by step.
`NoneInvented` gives `RefusedOnlyAtLimit`.

**Checked by TLC only.**  Liveness (`Answering`, `EventuallyEmitted`), which is
out of the prover's reach.  The sentences of the documents that the code does not
keep are false, so there is nothing to prove; each is refuted by a trace.

## Not modelled

* JSON paths (which fields of a body are text is data), weights, TLS, headers
  other than those of the upstreams' keys.  A body that is one JSON string has an empty
  path, which `apply_redaction` cannot take: redacting it raises, and no property is
  about it.
* Empty lines that `_replace_data_line()` keeps when it joins the lines of an event
  again; they occur with mixed line breaks only, and no property counts them.
* That `splitlines()` also cuts at characters that are no line breaks of an event
  stream.
* Signatures of the audit log, its stdout, HTTP and S3 sinks.
* `check_tokens()`, which nothing calls.
* The patterns of the detectors: a table of regular expressions; their findings
  are what the models enumerate.
* Of the configuration: the expansion of the environment, and the sections that
  only carry values.
* Metrics and tracing: calls of libraries, behind one lock or none.
  `snapshot()` reports the first label set of each counter only, which no other
  part reads.
* The terminal and the web server: a demonstration loop and a status page.
  `AuditLog` has what the terminal does to the log.

## Plan

The order was: inspector and policy (the product's promise), forwarding with the
breakers, handling with authentication, then body inspection, audit log and
quotas, and after these the framing of the stream, the configuration, the keys of
upstreams and clients, the tasks that log a block, and the proofs about the last
three parts.
What is left:

1. A refinement from `SSEInspector` and `EventStream` together to a stream of
   events that is delayed and redacted, which would join the two views of one
   buffer.
2. The composition of `RequestHandling` with `Forwarding`, whose ends it takes as
   given now.
3. The paths of JSON bodies: `extract_chunks` and `apply_redaction` as operators on
   trees, in a module that only TLC uses.
