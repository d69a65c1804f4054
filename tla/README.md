# A TLA+ development of conjure-runtime

`conjure-runtime` is an HTTP client for Conjure services: a stack of service
layers around hyper that retries, limits concurrency per host and endpoint,
selects a node, streams bodies and keeps metrics. This directory holds models of
the parts of it whose correctness depends on interleavings, failures and order,
the TLC configurations that check them, and proofs checked by TLAPS.

Paths below are relative to `conjure-runtime/src/`.

## 1. Inventory

| Component | State | Operations | Correct when |
|---|---|---|---|
| `service/node/limiter/deficit_semaphore.rs` | total and outstanding permits, an intrusive list of waiters, their wakers | `acquire`, `poll`, drop of an `Acquire`, drop of a `Permit`, `add_permits`, `remove_permits` | fair, no lost wakeup, no dangling node, exact counts |
| `service/node/limiter/ciad.rs` | the limit (`AtomicF64`), `in_flight`, each permit's snapshot and mode | `acquire`, `on_response`, `Permit::drop` with `update_limit` | permits follow the limit, which stays within its bounds; nobody starves |
| `service/node/limiter/mod.rs`, `service/node/mod.rs` | a host limiter, a map of endpoint limiters | `acquire` (endpoint, then host), `wrap`, `on_response` | permits of both levels are released together; no mutual wait |
| `service/node/selector/pin_until_error.rs` | the pin, the shuffled order, the time of the next reshuffle | `call`, `reshuffle_if_necessary` | the pin leaves a host only because it failed; one reshuffle per interval |
| `service/node/selector/balanced/` | per node: in-flight count, decaying count of failures | `acquire` over all nodes, `call`, `update`, `get` | the first free node among the best is taken, the others' acquires are undone |
| `service/retry.rs`, `http_error.rs`, `map_error.rs` | attempt number, whether the body was started | `call`, `send_attempt`, `prepare_for_retry` | only safe retries, a bounded number, with a fresh body |
| `service/raw/body.rs`, `BodyWriter` in `body.rs` | channel, oneshot, write buffer | `poll_frame`, `Writer::write`, `poll_write`, `write_bytes`, `poll_flush`, `finish` | every byte once and in order, truncation visible, no mutual wait |
| `weak_cache.rs`, `host_metrics.rs` | a map of weak values; a copy-on-write registry | `get`, eviction, drop; `get`, `hosts` | live values are shared, dead ones go away |
| `client_factory.rs`, `per_host_clients.rs`, `client.rs`, `builder.rs` | refreshable configuration, cached client states, handles of per-host clients | creating, refreshing and dropping clients; changing the factory | a refresh reaches every client; equal clients share a state, unequal ones never |
| `blocking/` | a channel of requests to the calling thread, and one of body parts back | `send`, `BodyStreamer`, `BodyWriterShim`, `BodyWriter` | as for the asynchronous body; thread and task never wait for each other |
| response path: `ResponseBody` in `body.rs`, `response_body.rs`, `gzip/`, `wait_for_spans.rs`, `timeout.rs` | state of the decoder, the reader's buffer, the read timer | polls of frames, stream and reader calls | content whole and in order; a cut or corrupt body is an error; a stalled one too |
| raw clients, proxies, TLS, metrics, tracing, user agent | none shared with the above | I/O, headers | not modelled |

**How they interact.** `RetryService` joins, per attempt, the body's writer and
the inner service. The inner stack selects a node, awaits the node's permits
(endpoint, then host), sends through hyper, which polls the body in its own
connection task, and tells the permits and the selector how the request ended.
Everything below the retry loop is shared by concurrent requests: the limiter
and the semaphore by threads that drop permits, the selector by atomics. Any
request's future may be dropped at any await point. The stack is built by
`ClientState::new`; a factory keeps states in a weak cache and swaps a client's
state when its configuration is refreshed. A blocking client runs the same stack
as a task of a runtime, which asks the calling thread for the body.

**What is hard.** Cancellation at every await; wakeups passed from one waiter to
the next; values loaded, used in a computation and exchanged later (limit, pin,
time of the reshuffle); two sides of a channel that wait for each other; retries
of requests that were partly sent. `PROJECT.json` lists the hazards line by
line with the properties that would catch them.

## 2. Modules

### FairSemaphore, DeficitSemaphore, DeficitSemaphoreProofs

`FairSemaphore` is the promise: a total that can be raised and lowered at will,
holders, waiters and their order of arrival (`before`). A free permit goes to the
task that waited longest, or to a newcomer if nobody waits.

`DeficitSemaphore` is the code. A task stands for the place of one `Acquire`
future and of the `Permit` it resolves to; since a node lives in its future,
`next`, `prev`, `head` and `tail` hold tasks. `node` is the set of futures whose
`node` is `Some`, `waker` the registered waker. The mutex makes every operation
atomic, so each branch of each operation is one action:

| Action | Code |
|---|---|
| `acquire` | `DeficitSemaphore::acquire` |
| `poll_fast_path`, `poll_enqueue`, `poll_grant`, `poll_pending` | the branches of `Acquire::poll` |
| `drop_unqueued`, `drop_queued` | `Acquire::drop` |
| `drop_permit` | `Permit::drop` |
| `add_permits`, `remove_permits` | the same, up to the panics |

Wakers are modelled because they are what can go wrong: `cx[t]` is the waker of
the context that polled `t` last, `woken[t]` whether that context has been told
to poll again, and waking a waker that is not `cx[t]` (the future has moved to
another executor) tells nobody. Polls are never guarded by `woken`: a future may
be polled spuriously. `MaxPermits` stands for `usize::MAX`.

### CiadLimiter, MCCiadSchedule

`CiadLimiter` extends `FairSemaphore` (which `DeficitSemaphore` is proved to
implement) with the limiter of `ciad.rs`. Each atomic access is one step of the
task that makes it: the grant, the `fetch_add`, the `fetch_sub`, the load, each
round of the compare-and-exchange, the adjustment of the semaphore, and the drop
of the semaphore's permit, which as the last field is dropped after
`Permit::drop` has run. The limit is fixed point with `Scale` units per permit;
`1/limit` is rounded down to a unit, which changes after how many successes the
whole part moves and nothing else. `delta[t]` is the adjustment a task has
decided by its exchange and not yet applied. `lost` counts permits whose removal
panicked.

`MCCiadSchedule` instantiates it with the code's `INITIAL_LIMIT` of 20, `MIN_LIMIT`
and `BACKOFF_RATIO`, along a schedule that leaves only the last part free.

### RequestBody

One attempt's body: `Writer::write` with the caller's `write_body` on one side,
hyper polling `RawRequestBody` on the other, the `mpsc::channel(1)` (room for two
parts: its buffer and the slot of its one sender) and the `polled` oneshot in
between. The bytes are numbered chunks, so that order and loss are visible.
hyper, the channel and the caller are external: hyper may stop reading at any
time; the caller writes, flushes, fails, ignores errors or is cancelled.

### Retry

One call through `RetryService`, with what `HttpErrorService` and
`MapErrorService` make of an answer. An answer is one of the classes the code
tells apart. An error is what `send_attempt` looks at: the type of its cause and
whether its kind is `ErrorKind::Service`, with its origin, which the code does not
look at. An error of the inner service is made from the answer (`ErrorOf`). One that
the body's writer returned (`BodyErrors`) is of any kind and cause, since a
`write_body` may pass on what another client returned to it; when it is what broke
the request off, `deconflict_errors` returns it and the loop judges it like any
other, so that a writer that fails with a foreign 503 is retried, and with a foreign
500 if the request is idempotent. `applied` records whether the server may have
applied an attempt: it was given the whole request and did not answer 429 or 503.
`ResentOnlyIfSafe` is stated with it, over all attempts so far and not only the last.
`ServiceError` (propagate or wrap) changes an error's content and
not whether it is retried, so it is not a parameter. The backoff is kept as the
exponent of its scale; the random draw below it, spans and logs are left out.
The shift is that of a release build, masked to 32 bits.

### PinUntilError

Concurrent requests over `FixedNodes` or `ReshufflingNodes` (the variable
`reshuffling`, chosen once). The load of the pin, the read of the clock, the load
of `next_reshuffle_nanos`, its exchange, the store of the new order, the load of
the order, and the response with the exchange of the pin are separate steps.

### Balanced

The balanced selector, the per-node `Limiter` and the single and empty selectors,
for concurrent calls. A call scores the nodes one by one (`score`; the last score
and the filter are `filter`), then polls the acquire of each kept node in turn.
`acq[r][n]` is how far that acquire is: not polled, waiting for the endpoint's
permit, holding it, or waiting for the host's. The first node to grant both takes
the call (`Acquired`), and the other acquires are dropped one by one
(`drop_acquire`), each leaving its queue and giving up what it holds.

The semaphores are those of `FairSemaphore`, many at a time, with what a task that
waits on several of them adds: one waker per task (`woken`), used by whichever
semaphore has a permit for it. A woken task polls all its nodes again (`repoll`).
Limits move as in `CiadLimiter`, in whole permits: a success may or may not cross
one, and a drop leaves the floor of 0.9 times the limit, for every fraction the limit
may have (`Adjusted`). The limit and the total of its semaphore are apart, as in the
code: `respond` exchanges the endpoint's limit; `drop_endpoint` adds or removes the
permits, releases the one held and exchanges the host's limit; `drop_host` does the
same for the host's permits, records the failure and drops the in-flight guard. Between
these steps `change` holds what is to be applied, and other calls go on, so that
adjustments arrive out of order. A removal of more permits than there are panics: it
removes none, and the call unwinds without recording a failure (a second such panic
while the first unwinds would abort the process, which is not modelled). Within one of
these steps the adjustment of a semaphore and the release of its permit are merged;
`CiadLimiter` has them apart.

The order of the nodes in a poll is left open: `Acquire::poll` sorts by scores that
it reads one after the other while other calls change them. A decay of the failures
keeps or clears them: the fractions in between, the clock of the reservoir and its
exchange are not modelled.

| Action | Code |
|---|---|
| `call_empty`, `call_single`, `call_balanced` | `NodeSelectorService::call` |
| `score`, `filter` | `BalancedNodeSelectorService::acquire` |
| `poll_unlimited`, `poll_first`, `poll_second`, `poll_pending`, `repoll` | `Acquire::poll`, `LimitedNode::acquire`, `Limiter::acquire` |
| `drop_acquire`, `cancel_waiting`, `unwound` | drop of the `Acquire`, after a win or by the caller |
| `start_call`, `respond`, `cancel_running` | `call` after the acquire, `AcquiredNode::wrap`, `InFlightGuard` |
| `drop_endpoint`, `drop_host` | drop of the limiter's `Permit`, field by field; the end of `call` |

### ClientFactory

The factory with its `WeakCache`, plain clients, the per-host collection, and a
configuration that is refreshed. A configuration is a list of hosts and one
setting that may be given, defaulted or absent, which stands for the six that
`merged_service` merges; `from_config` and the setters give the cache's key. The
factory's own settings are of two kinds: `own` is in the key, `manager` numbers
the caches it has gone through.

A state is an id. `key[i]` is what it was built for, until its evictor has run; it
is `Alive` while a client or a call has it. The gap between the two is where a
lookup fails to upgrade the weak reference and fills the key again. `entries`
is the order of the linked map. `Get` is a function from cache to cache, since one
refresh of a collection looks up several states.

The `refreshable` crate is external: a refresh stores the value and runs the
callbacks one by one (`todo` holds those to run), skipping values that are equal; a
subscription runs its callback at once. Per-host clients are visited in order in
one step, as the callback holds the lock on the handles; every subset of the builds
may fail. The cache's lock is not held from host to host, so that a lookup by another
client may come between two of the loop's; each finds or makes a state by its key, and
what is left out is only in which of the two that happens. A new per-host client looks
its state up twice, for its first build and in the callback of its subscription; the
second lookup finds what the first made and still holds, so `NewHandle` has one. URIs
are assumed distinct.

### ResponsePath

From the headers' arrival to the caller: the raw body's frames, `DecodedBody`,
`FuseBody` and `ResponseBody`. A body is a flag, whether it is encoded, and its
frames: data, trailers or the error at which it breaks off. A unit of data is a piece
of content, the end mark of a gzip stream, or rubbish. `InOrder` joins what the caller
has, what the decoder holds and what is to come; `EndIsComplete` compares what the
caller has at the end with what the server meant, which is computed from the frames
and not from the decoder (`Intact`, `Plain`). Each pass of the loops in `poll_frame`, `poll_next` and
`poll_fill_buf` is a step, so that frames arrive in the middle of a poll. flate2
may hold decoded units back until it is told to finish; the raw body may or may not
know that its last frame was the last. The blocking `ResponseBody` calls the same
functions.

The read timer is that of the socket (`TimeoutStream` is under TLS and HTTP), not of
the body. It runs while a read of the socket waits: because the caller polled
(`poll_pending`) or because the task of an HTTP/2 connection reads ahead
(`read_ahead`). Anything that arrives ends the wait, also what is no frame of this body
(`other_traffic`). When the timer fires, what has not arrived is lost, and the caller
meets the error after what had arrived (`poll_broken`). Before the headers, the time
spent writing the request is not told apart from waiting.

### BlockingBody

`blocking::Client::send`: the calling thread in `BodyStreamer::stream`, the task
with `BodyWriterShim` under the retry loop, the channel of requests, the channel of
parts of the write being served, and the oneshots. Attempts are numbered, so that
a part or a request of an attempt that is over is told apart from one of the
present attempt. User code writes in small or large slices or in `Bytes`, flushes,
fails, panics, and may or may not be able to reset the body. A new `ResetTracker` per
attempt is what makes `needs_reset` false again after a reset (`retry.rs:137`).

Definitions whose comment begins with "Mutant:" are not part of any
specification: each is a plausible wrong version of the definition after it, and
shows that some property notices the difference.

## 3. Runs

| Run | Checks | Bounds |
|---|---|---|
| `deficit` | the safety of the semaphore, that it serves its waiters, and that it implements `FairSemaphore` | 4 futures, 2 executors, totals 0 to 3: a list long enough for a node with two neighbours to be removed while another waits, and fewer, as many and more permits than holders |
| `ciad` | consistency of limit, permits and in-flight count; progress of waiters | 3 requests, limits 1 to 3 in thirds, backoff to two thirds: the limit crosses whole numbers in both directions and deficits occur |
| `ciad_underflow` (violation) | `expect("permit count underflow")` | code's constants, 20 requests on a schedule |
| `request_body` | integrity, truncation and progress of the body | 4 chunks, a buffer that is full at 2, 2 slots: a buffer, a full channel and a blocked sender at once |
| `retry` | freshness of the body, number and safety of retries, growth of the backoff, termination | every configuration, every answer and every error of a body writer; 32 retries, the largest number for which the scale fits |
| `pin` | moves of the pin, number of reshuffles | 3 requests, 2 nodes, 2 intervals: requests that straddle a reshuffle and a pin that comes round again |
| `pin_stale_failure` (violation) | line 171's claim, read strictly | as `pin` |
| `balanced` | permits, wakeups, in-flight counts and progress of racing calls | 3 calls for 2 endpoints, 0 to 2 nodes with and 1 without limiters; the limits of endpoints and hosts move between 1 and 2, so that calls queue at endpoint and host, and win one race with the other's permit in hand; thresholds 0 and 2, so that the filter drops a node |
| `factory` | sharing, eviction, isolation of settings, refreshes | 2 clients, 1 call, 3 states, a cache of 2, 2 configurations (a host is put in front as the setting changes), one change of the factory: an entry is pushed out, filled again before its evictor runs, and found by a second client |
| `per_host_stale` (violation) | that published clients reload | 4 configurations, no calls |
| `response` | integrity, truncation, headers, progress of a response | 6 bodies of up to 4 units in every cut into frames, with and without an empty frame in front, with trailers, an error, an empty frame or nothing at the end; any number of stalls and of other traffic |
| `blocking` | order, completeness and freshness of the body, return of `send` | 4 chunks, 3 attempts: a full channel, a write still running when the attempt is given up, and a retry after it |

The removal that panics needs more calls than `balanced` has (that it
happens is what `ciad_underflow` shows): there, the theorems of section 4 are what
covers it.

`request_body`, `retry`, `balanced`, `response` and `blocking` are of calls, which
end, and `MCCiadSchedule` of a schedule, which ends; these allow deadlock, and so
does `factory`, whose bounds can be used up. All the others must be able to go on
for ever.

**Fairness.** `DeficitSemaphore`: an executor polls a task that was woken
(`PollWhenWoken`, weak), and callers drop their permits (weak); cancellation,
spurious polls and adjustments are never assumed. `WaitersAreServed` is
conditional on the total not being kept at zero. `CiadLimiter`: a grant is taken
up, which is what the semaphore provides; a request ends or is cancelled; a
thread inside `drop` runs on. `RequestBody`: hyper polls a body it has not
dropped, the writer's task runs, and a `write_body` that gets its turn again and
again returns at some point (strong, because the caller may be blocked in a
write in between). `Retry`: attempts end, resets return and timers fire.
`Balanced`: as long as some task can run one does, a woken one by being polled, and
attempts end; the executor need not be fair to each task, and no caller has to cancel.
(A request makes one call, so that `FindsANode` can say that in the end none looks for a
node.) `ResponsePath`: the caller reads on, time passes and a read that is due
fails unless something arrives first; no server has to send anything. `BlockingBody`:
thread and task run, user code returns, and the connection takes or refuses each part;
nothing has to be dropped.

That attempts end, and that a connection takes or refuses a part, is what the socket's
timeouts see to on a connection of one request. On a shared HTTP/2 connection they do
not, as long as other traffic keeps the socket alive: for `CallEnds`, `FindsANode` and
`SendReturns` it is an assumption on servers. `Resolves` is about that very timer and
has the exception in its statement: the caller is told of the end or of an error, or
other traffic goes on for ever.

**What the violation runs show.**

- `ciad_underflow`: `update_limit` exchanges the limit and adjusts the semaphore
  afterwards. After an overload the limit is 1 with several requests in flight.
  A success raises the limit to 2 and is delayed before `add_permits`; another
  request lowers it to 1 again and removes the only permit; the same again finds
  no permit to remove and panics in `Permit::drop`. The removal is lost, and from
  then on the total is larger than the limit by that much (`TotalFollowsLimit`
  states exactly this).
- `pin_stale_failure`: the pin is an index, and after a reshuffle the index is
  another host. A late failure of the old one unpins the new one.
- `per_host_stale`: a collection publishes host A. A refresh to host B fails to
  build: `client_handles` is replaced all the same, so A's handle is gone, but A stays
  published. A refresh back to A with another setting makes a new client and handle
  for A, and the new collection is equal to the published one, since equality looks
  at the hosts only. Users keep the old client, which no refresh reaches any more.

Beyond the bound of `retry`: `1 << (attempt - 1)` overflows u32 at the 33rd retry,
with a panic or, without overflow checks, a backoff that starts over;
`max_num_retries` has no upper bound. And `host_metrics.rs:52` clears "dead nodes"
by their reference count, which the copy of the map made while a snapshot is alive
raises: a consumer that holds its last snapshot while it takes the next keeps them.
The cache of client states is keyed by the paths of certificates and keys, not by
their contents (`builder.rs:48`), so a rotation of the files alone does not make a
new state; and after a decoding error `DecodedBody` is `Done` and a caller that polls
on is given the raw frames (`gzip/hyper.rs:161`). No line of the code promises
otherwise, and no property is about them.

Each module states its type invariant, `TypeOK` (`RetryTypeOK`, `PinTypeOK`). The semaphore's is part of its run.
All of them are proved, as parts of the inductive invariants of section 4 or, for
`Balanced`, from its invariant and the bounds of limits and failures (`BalancedTypes`).

Three more statements of the docs are not what the code does, and are recorded
here without a run. `builder.rs:386` says "Only idempotent requests will be retried.",
while a 429 or 503 is retried for every request: the rule for them comes first
(`retry.rs:194-203`). The comment on the layer (`retry.rs:42`) and a test
(`retry_non_idempotent_for_qos_errors`) want it so, and it is the comment on the setting
that is too strong. What the code does keep to, `ResentOnlyIfSafe`, is the reason that
`lib.rs:157` gives: no such request is sent again after it may have been applied. The
other two are `lib.rs:115` (non-QoS errors are fatal), while a 500 is retried if the
request is idempotent, and `lib.rs:154` (a "cooldown" of failed hosts), which no selector
implements.

## 4. Proofs

Eight modules hold theorems: `DataLemmas` with what the others share, and one or two
components in each of the rest. `RequestProofs` extends the request body and the retry
loop, `SelectorProofs` the balanced and the pinned selector; for that, the names of
`Retry` and `PinUntilError` differ from those of their neighbours (`RetrySpec`,
`PinSpec`, `PinTypeOK` and so on). They share no variable, and no proof about one cites
an assumption or a fact of the other.

Each theorem holds for every value of the constants that the named assumption of its
component's module admits: any number of tasks, calls, nodes, attempts and chunks, where
the runs have a few.

| Module | Theorem | States |
|---|---|---|
| `DeficitSemaphoreProofs` | `TypeCorrect` | `Spec => []TypeOK`: in particular every link is `None` or a live node |
| | `ListCorrect` | `Spec => []ListInv` |
| | `AccountingCorrect` | `Spec => []PermitAccounting` |
| | `WakeupsArrive` | `Spec => []NoLostWakeup` |
| | `RegistrationKept` | `Spec => []Registered` |
| | `GrantsFollowArrival` | `Spec => GrantsInOrder` |
| | `Implements` | `Spec => Fair!SemSpec` |
| `CiadLimiterProofs` | `LimiterTypes` | `Spec => []TypeOK`: the limit keeps its bounds, no counter wraps |
| | `PermitsFollowLimit` | `Spec => []TotalFollowsLimit` |
| | `InFlightCorrect` | `Spec => []InFlightIsExact` |
| | `LimiterUsesSemaphore` | `Spec => SemSpec` |
| `RequestProofs` | `BytesArriveInOrder` | `Spec => []NothingLost` |
| | `EndIsWhole` | `Spec => []NoTruncation` |
| | `NotConsumedEarly` | `Spec => []UntouchedUnlessPolled` |
| | `FreshBodies` | `RetrySpec => []BodyIsFresh` |
| | `BoundedAttempts` | `RetrySpec => []AttemptsBounded` |
| | `SafeResends` | `RetrySpec => ResentOnlyIfSafe` |
| | `GrowingBackoff` | `MaxNumRetries <= ShiftBits => (RetrySpec => BackoffGrows)` |
| `SelectorProofs` | `PermitsHaveOwners` | `Spec => []PermitsAreOwned` |
| | `HostsNotLockedOut` | `Spec => []NoLockOut` |
| | `WakeupsArePassedOn` | `Spec => []NoLostWakeup` |
| | `CountsAreExact` | `Spec => []InFlightIsExact` |
| | `BalancedTypes` | `Spec => []TypeOK`: limits keep their bounds, totals, which follow them, are not negative |
| | `ReshufflesAreRare` | `PinSpec => []OneReshufflePerInterval` |
| | `PinFollowsFailures` | `PinSpec => PinLeavesFailedHost` |
| `BlockingBodyProofs` | `AttemptsStartOver` | `Spec => []InSequence` |
| | `OkMeansWhole` | `Spec => []OkIsWhole` |
| | `RetriesAreFresh` | `Spec => []FreshStart` |
| `ResponsePathProofs` | `ResponseInOrder` | `Spec => []InOrder` |
| | `CompleteEnds` | `Spec => []EndIsComplete` |
| | `TrueLength` | `Spec => []LengthIsTrue` |
| `ClientFactoryProofs` | `SharedStates` | `Spec => []StatesAreShared` |
| | `NoEntryIsGarbage` | `Spec => []NoGarbage` |
| | `MatchingStates` | `Spec => []StatesMatchFactory` |
| | `ClientsFollow` | `Spec => []ClientsReload` |
| | `HandlesFollow` | `Spec => []HandlesReload` |

Besides, each component has a theorem `...Invariance`: its inductive invariant holds in
every reachable state.
The disagreements with the docs are no obstacle to any of this: the theorems
state what the code does, `SafeResends` with the 429 and 503 that are always
retried, the limiter's with the panic of `ciad_underflow` in it
(`lost`), the pin's with the reshuffles of `pin_stale_failure` (`stale`), and
`HandlesFollow` of the clients a collection has handles of, not of those it has
published, which `per_host_stale` shows may be others.

**What is assumed.** Types of the numbers, and: `None` is no task or waker
(`DeficitSemaphore`); tasks, and calls, are finite sets (`CiadLimiter`, `Balanced`);
the bounds of a limit are in order, at most the semaphore's bound and at most the
units of the fixed point, and the backoff ratio is below 1 (`CiadLimiter`); there
are no more nodes than `MaxNodes`, and the initial limit is within its bounds
(`Balanced`); there is a node, and an interval is longer than nothing
(`PinUntilError`); the shift has a width (`Retry`); a streamed body may have a chunk
and its channel has room for one (`RequestBody`); trailers are the last frame of a
body and carry no content (`ResponsePath`); hosts, clients and states are finite sets,
the hosts of a configuration are distinct, and `None` is no key (`ClientFactory`).
`GrowingBackoff` needs its hypothesis: one retry
more and the masked shift starts over, as section 3 says.

**Induction over data.** A theorem of the library that takes a predicate as a
parameter is of no use to the provers, but a set is: `DataLemmas` proves that a set
of numbers that is not empty has a least one (`LeastNumber`), from that an induction
over sets of numbers (`Induction`, `IntervalInduction`), and from that what a sum over a finite set does when one
summand changes (`SumMoves`) and what `FlattenSeq` does when a sequence is appended
or the first one taken away (`FlattenAppend`, `FlattenHeadTail`). `PermitsFollowLimit`
rests on the former, the order of bytes in all three bodies on the latter. The loop
over the hosts of a collection is a fold over a sequence, about which
`ClientFactoryProofs` argues in the same way.

**The arguments.**

- *Semaphore.* The invariant is `CoreInv` (types, list, count of holders) and
  `WakeInv` (`Registered` and `NoLostWakeup`). To avoid walking pointers, a history
  variable `before` records the order of arrival, and `ListInv` says that it is a
  strict total order of the queued tasks of which `head` is the least, `tail` the
  greatest and `next` the successor. `PushBackKeepsList` and `DequeueKeepsList` are
  the two places where that needs thought; every other action leaves the list alone
  (`ListUnchanged`). The count of holders is carried with the finiteness of the set
  of holders (`Counted`), since `Tasks` may be infinite. `NoLostWakeup` is not
  inductive without `Registered`: `maybe_wake` reaches the head only because a
  queued task that is not woken has a waker, and the waker of its present executor.
  `MaybeWakeRestores` shows that a step that ends in `maybe_wake` re-establishes
  both. `GrantsInOrder` and `Implements` follow from the same invariant: only a task
  without `prev` is granted a permit, and by `ListInv` that is the least of `before`.
- *Limiter.* `TotalFollowsLimit` is an equation between the limit, the total, the
  sum of the adjustments under way and the lost permits, and inductive with the
  types; each exchange moves the limit and one summand by the same amount, each
  adjustment the total and one summand. `InFlightIsExact` needs the exact set of
  permits alive. Every step of the limiter is one of `FairSemaphore` or leaves its
  variables alone, so the limiter may be put on the semaphore that implements it.
- *Request body.* The invariant says which stages of the writer go with which state
  of the channel (`ShapeInv`), that a body in one piece has no writer (`PlainInv`),
  and that the part that marks the end is last and sent by a writer that has flushed
  everything (`DoneInv`). `NothingLost` joins read, sent and buffered chunks; every
  step moves a chunk across one of the two borders.
- *Retry.* `CountInv` ties `attempt`, which counts failures, to `sent`, which counts
  attempts, stage by stage; `FreshInv` says that a body that was read is known to the
  tracker until it is reset; `CauseInv` that the error being dealt with is the last
  one and may be retried, and that a request that is not idempotent goes on only if no
  attempt may have been applied: an error of the inner service that is retried without
  regard to `idempotent` has a cause that only a 429 or 503 gives, and one of the
  body's writer comes out only of an attempt that was broken off. The first makes attempts bounded, the second bodies fresh
  and the third resends safe.
- *Pin.* A request that wins the exchange read a time no later than now, and a due
  time that is still the present one, so the reshuffles before it and itself fit in
  the intervals that have passed (`TimesInv`, `IntervalInv`). `NodeInv`: a request
  that has seen no reshuffle was sent to the node of its pin.
- *Balanced.* `StageInv` says which acquires a call has in each stage, `QueueInv`
  that who is in a queue waits there, and once. Permits are counted holder by holder:
  `CountChange` turns "r holds it now and did not before" into one more. `WakeInv` is
  `NoLostWakeup`; it is kept because every step that changes a semaphore, by whatever
  amount the delayed change is, ends in
  `maybe_wake` for it (`PermitStep`), and one that joins a queue only finds a free
  permit if somebody else is first (`PollPendingKeeps`). The delicate case is a call
  that polls on: the nodes it was woken for must still be in its plan.
- *Blocking body.* `QueueInv`: at most one request is queued, and if it is a write,
  the thread waits for it with the body untouched. `ResetInv`: from the start of a
  write to the end of a reset the body counts as touched. `FlowInv`: while the task
  receives what the thread sends, forwarded, sent and buffered chunks join to what
  user code wrote; once the attempt is given up nothing is said of the thread, which
  may write on, and a reset that succeeds brings it back.
- *Response.* `FlowInv` is `InOrder` for every state after the headers: each frame that
  is pulled moves its units from the wire to the decoder, to the reader's buffer or to
  the caller. A frame that is an error, and a connection that has failed, end in an error
  that is reported in the same step. `EndIsComplete` needs more: `WireInv`, an error the server sent is still to come until
  it is reported; `EndInv`, a decoder that has finished, and an end that was reported,
  leave nothing on the wire; `DecoderInv`, a finished decoder holds nothing back; and
  `ContentInv`, what came out of the decoder is content, so that the end mark is last
  (`WholeStream`). `HeaderInv` gives `LengthIsTrue`: a length is left in place only for
  a body that comes as it is.
- *Factory.* `CacheOK` is about a cache as a value, since one refresh of a collection
  looks up several states: an entry has the key it is under, no two entries have the
  same one, and a state in use that was not pushed out is an entry. The last is what
  `StatesAreShared` needs, and it is kept by `evict` only because the evictor compares
  ids. `Get` keeps it (and the keys of all states in use), and `LoopInv` carries it from
  host to host, together with what the hosts visited so far have: a handle whose client
  has the new configuration, or a failed build. `LiveInv`: a client that is not waiting
  for its callback has the present configuration in its cell, and its state is of that
  configuration unless its build failed; `HandleInv` says so of handles, and that no two
  hosts share a client.

Each invariant was first checked with TLC on the bounds of the component's run.

**Only model-checked**: liveness (`WaitersAreServed`, `WaitersProceed`,
`WriterReturns`, `CallEnds`, `FindsANode`, `Resolves`, `SendReturns`, and the
fairness half of `ImplementsFairSemaphore`), which the prover cannot do. Every
invariant and every action property that a passing run checks is also proved.

## 5. Not modelled

- Connections: hyper, rustls, proxies' CONNECT, fetch. Glue to libraries, whose
  failures are inputs of the models.
- Metrics, tracing, user agent, error parameter format, the gauges of a node, the
  host metrics registry: they observe, and nothing here reads what they record.
- The URI of a request: assembly of a string.
- Deserialization of configuration, and the contents of certificate files.
- Within modelled parts: durations, random draws, wording of errors, decoding of
  error bodies, size hints, and the fraction of the failures that a decay leaves.
- `Builder::build`: a client without cache and subscription, which never changes.
- The wasm variants (`js.rs`), which leave bodies and decoding to the browser.

## 6. Plan

1. *Done*: semaphore and its proofs, limiter, request body, retry, pinned selector.
2. *Done*: balanced selector with both limiters, cache and factory, response path,
   blocking client.
3. *Done*: proofs of the safety properties of all components.
4. Open: a model of the host metrics registry and of the clock of the reservoir, whose
   two hazards no property covers.
