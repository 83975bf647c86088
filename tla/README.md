# maludb-core in TLA+

TLA+ models of the parts of maludb-core whose correctness depends on
interleavings, failures or index arithmetic, TLC configurations that check them
on small instances, and TLAPS proofs of the central safety properties for every
instance. Definitions keep the names of the code where TLA+ allows it;
`PROJECT.json` maps each of them to the lines it models. `SQL` below is
`src/sql/extension/maludb_core--0.106.0.sql`.

## The system and what is modelled

maludb-core is a PostgreSQL extension (C in `src/`, one large SQL script), a C
daemon `mc2dbd` that exposes database tools over MCP, client drivers, and Python
services that work on tables of the database.

| Part | Code | Modules | Status |
|---|---|---|---|
| durable job queue | SQL 20352-20809, 22286-22341 | `AbstractQueue`, `Queue`, `QueueRefinement` | modelled but for `queue_register` |
| maludb-pageindexd: worker loop, build, transactions | `worker.py`, `builder.py`, `db.py`; SQL 25978-26046 | `PageIndexWorker` | modelled but for the nodes of a tree |
| mc2dbd: process, signals, HTTP callbacks, body buffering | `main.c`, `http.c` | `Listener` | modelled |
| mc2dbd: one request, its tool and its audit row | `http.c`, `mcp.c`, `dispatch.c`, `db.c` | `ToolCall` | modelled from the complete body on |
| mc2dbd: `external_exec` tools | `exec.c` | `ChildProcess`, `RunChild` | modelled |
| mc2dbd: `mcp_proxy` over stdio | `proxy.c` | `ChildProcess`, `ProxyStdio` | modelled |
| mc2dbd: `http_endpoint`, `mcp_proxy` over HTTP | `http_endpoint.c`, `proxy.c` | `ToolCall` | by their outcomes |
| libmaludb, the C client | `drivers/c` | `CDriver` | modelled |
| events, subscriptions, maludb-realtimed | SQL 21939-22182; `server.py` | `EventLog`, `Subscription`, `EventFeed` | modelled but for set-up calls |
| log drains, maludb-logsd | SQL 23631-23648, 24986-25016; `worker.py` | `EventLog`, `LogDrain`, `EventFeed` | modelled but for set-up calls |
| scheduler and `cron_next_after` | SQL 20892-21379 | `Schedule` | modelled |
| ANN graph | `maludb_ann.c` | `Nsw` | modelled |
| vector chunks, tombstones, delta, ANN index | SQL 7141-7580, 54930-55021 | `AnnLifecycle` | modelled for one compartment |
| exact search: heap scan, parallel aggregate | `maludb_search.c`, `maludb_topk.c` | `TopK` | modelled |

The rest is under [Not modelled](#not-modelled).

The parts meet in the database and in the listener's one thread. `Queue`
composes producers, workers and reapers, which share only the queue's rows.
`EventFeed` composes the writers of the event log with its two kinds of readers.
`RunChild` and `ProxyStdio` compose the listener's loop with the process and the
pipes of `ChildProcess`; `AnnLifecycle` composes sessions with the graph of
`Nsw`. `ClientAccess` and `VectorSearch` put parts side by side that have nothing
to interleave, and a behaviour is about one of them: the process, a request or
the C library, and the graph search or the parallel scan. Elsewhere one module
takes from another what it promises: `ToolCall` takes
the results of `RunChild` and `ProxyStdio` as sets of outcomes, and `Listener`
takes a tool call as a stretch of time that ends, which is what
`ReturnsIfStreamsKept` and `EveryCallReturns` are about.

## Modules

**Queue.** One step is one SQL statement. A statement sees what is committed and
waits for rows that another open transaction has written; `del` and `wr` hold a
transaction's own writes until its commit. `status`, `attempts` and `lease` are
the job and lease rows; `held` is the list a client got from `queue_lease`;
`lapsed` says which leases' `expires_at` has passed. `seen` keeps values read
earlier in a transaction, such as the `attempts` that `queue_nack` decides on.
Every transaction may be rolled back and every worker may crash, up to
`MaxFaults`; wait cycles are broken as PostgreSQL's deadlock detector does. The
dead-letter queue is assumed to be configured. `priority` and `visible_at` order
the candidates in the code and are a free choice here, which allows more schedules
than the code does. The constant `Timely` says that a worker is done with a lease
before it expires. The clients are any program that leases, acks and nacks and
commits each call; the repository's own client, maludb-pageindexd, does not
commit, and is a module of its own.

**PageIndexWorker.** The loop of `_drain` and `build_tree` on its one connection,
which is idle, in a transaction or in a failed one. A `with conn.transaction()`
block commits if the connection was idle and is a savepoint otherwise; what the
session has written and not committed is in `jobDraft` and `treeDraft`. A job may
have a bad payload, no source, or a source that cannot be parsed or summarized;
statements fail and the connection breaks, up to `MaxFaults`.

**AbstractQueue, QueueRefinement.** The queue as its users see it: a call is one
step, and there are no lease rows, locks or transactions. `QueueRefinement` maps
the job table and the dead letters of `Queue` to it.

**Listener.** `main()` from the probe of PostgreSQL to its exit, and the callbacks
libmicrohttpd makes from its one polling thread: what is answered from the headers
alone, a body that grows chunk by chunk in a buffer that doubles, the call during
which nobody else is served, the completion callback, and the shutdown that joins
the thread before libcurl is cleaned up. Clients upload in any chunks, stall and
hang up; a signal comes at any moment; each step of the start may fail.

**ToolCall.** From the buffered body to the JSON-RPC answer. Each step is a
statement sent to PostgreSQL or the code between two. Any statement may fail
within the scenario `faults`, the connection may break, and an operator may
disable or delete the tool meanwhile. The aborted-transaction state, and that
COMMIT of an aborted transaction answers ROLLBACK without an error, are modelled.
The audit row has the values its two callers pass: constants for a tool that was
not found, the tool's own outcome otherwise.

**ChildProcess, RunChild, ProxyStdio.** `ChildProcess` is a tool's process and
its pipes: it reads, writes a planned amount, closes streams, exits, leaves
descendants that keep a stream open, or ignores SIGTERM, as the scenario `call`
(chosen in `Init`) allows. `RunChild` is `run_child` of `exec.c` place by place:
pipes, fork, the `select()` loop with its three handlers, deadline and grace,
signals, error exits, `waitpid`. `ProxyStdio` is `proxy_stdio` in the same way,
with its `poll()` loop and bounded reap. Data is counted in units; what matters
of it is how much went where. The deadline passes at any moment.

**CDriver.** One handle and any sequence of calls on it. The table `Api` says of
every function of `maludb.h` what it returns, whether it refuses parameters, which
ones it builds on the heap and whether it checks that; the actions are the shared
path of all of them (parameters, statement, answer, clean-up) with its failures:
allocation, statement, connection before or after the commit, an empty or NULL
answer. Sizes are abstracted: that an allocation may fail is modelled, how large
it is is not. `heap` is what is allocated, `code` and `message` are the error slot.

**EventLog, Subscription, LogDrain, EventFeed.** `EventLog` is the table: an id is
drawn when the row is inserted and seen when the transaction commits, so ids can
appear out of order; the history variable `late` records which did.
`Subscription` is `event_fetch_batch`, `event_ack` and the streams of realtimed;
acks travel on their own. `LogDrain` is the pass of a logsd worker, in which all
drains share one transaction while shipping cannot be undone; two workers contend
for the drains' rows. The readers do not affect each other, and `EventFeed` checks
one kind at a time.

**Schedule.** `cron_next_after` as the walk the code makes (a bounded number of
minutes, with a skip at a midnight whose day does not match), the operator's calls,
and ticks that may overlap: each selects the due schedules, runs every action in a
subtransaction, re-arms the schedule and commits at the end, holding the rows it
has updated. `done`, `twice` and `raced` are history variables.

**Nsw, AnnLifecycle.** `Nsw` has the graph algorithms as operators: the beam
search, edge eviction, the build and the search. Points are on a line, and the
assumption `NswAssumption` excludes equal distances, which is what lets sets stand
for the heaps and edge slots. `AnnLifecycle` runs `register_vector_chunk`,
`tombstone_vector_chunk`, `_vector_chunks_delete`, `ann_build`, `ann_rebuild` and
`exact_vector_search_sql` in concurrent sessions, a statement at a time, with the
row lock of the compartment, aborts, and searches whose statements have different
snapshots. A hit has the distance the code gives it: in the graph from the
normalized query, in the delta from the query as it was passed (`raw`), as the
metrics `l2` and `inner_product` do. `gone`, `cleared` and `calls` are history
variables.

**TopK.** A parallel plan of `topk_vector_search`: participants take rows from a
shared scan into heaps of their own (`sift_up`, `sift_down`, index by index),
hand their states back as flat field sequences, and the leader parses, combines
and sorts them. `maludb_exact_vector_search_c` is the one-backend scan with the
same heap, and the reference for the result; it refuses a limit that is not
positive. Distances are natural numbers with ties; a row may have no embedding, and
a text may be empty, which the aggregate keeps as NULL.

## Runs

| Run | Checks |
|---|---|
| `queue_timely` | clients that commit each call and finish inside their visibility window: the queue implements `AbstractQueue`, a job has one worker at a time, every job is settled in the end |
| `queue_overrun` | also clients that outlive it: a leased job has the lease row of its latest lease, a job dies only when it has been leased `max_retries` times, no job stays leased for ever |
| `queue_retry_limit` (violation) | a dead job has been leased more than `max_retries` times, as the documentation says |
| `pageindex_worker` (violation) | a tree that was built and a job that was acknowledged are, in the end, committed |
| `access` | *process:* only whole bodies within the limit are dispatched, nothing outlives its request or the process, every complete request ends, a signal ends the process. *Request:* an error leaves nothing behind, success means committed, the audit row exists and is never wrong about what was committed. *C library:* a failure leaves an error code, success means committed with the parameters given, nothing of a call stays allocated |
| `call_not_committed` (violation) | a failed `_end_request` is answered with success and rolled back |
| `exec` | success carries all of stdout, the child never takes a part of the envelope for the whole, no descriptor or zombie is left, calls return, full pipes never deadlock |
| `proxy` | the same questions for `proxy_stdio`, where every call does return |
| `feed` | a cursor passes an undelivered event only if that event committed out of order, every event that commits in order reaches a client, a failing sink does not keep the other drains from being served |
| `schedule` | `cron_next_after` is the first match, ticks that do not overlap act once per due time, every due schedule is dealt with |
| `schedule_failure` (violation) | a scheduled action that raised has a run in the history |
| `search` | *graph:* no chunk falls between graph and delta, `vector_count` is true, forgotten chunks are not returned, small graphs answer as the exact scan does. *Parallel scan:* nothing nearer is lost in offering, handing back or combining, the parallel answer is that of the one-backend scan up to ties at the last rank |

Every property of a passing run has a mutant in `PROJECT.json`: a plausible bug in
one mapped definition under which TLC finds that property violated.

### Bounds

- Queue: two jobs, two workers, two producers, batches of two where workers are
  timely (batching and duplicate keys need two of each); one job and three
  workers where they overrun, because a stale nack takes a holder, a stale worker
  and a third. `MaxRetries = 2` separates "one more try" from "dead". In the
  timely run `MaxAttempts = MaxRetries + MaxFaults`, so the bound never stops a
  lease the code would hand out. One reaper: reapers touch jobs through locked
  lease rows, and a second adds only waiting.
- PageIndexWorker: two jobs, so that one build follows another on the same
  connection, and one fault.
- Listener: two connections, one to be served and one to be in the way; bodies of
  0, 3, 7 and 8 against a limit of 8 and a first buffer of 2, so that the buffer
  doubles twice and the body ends one below the limit and at it.
- RunChild: a pipe of two units, an envelope of none or three, stdout of two or
  three against a buffer of two, stderr up to four against one: partial writes,
  exact fit, overflow and full pipes all occur. ProxyStdio: pipe 3, read 2,
  request 4, response 4 or 5 against 4.
- ToolCall, CDriver: no bound on data. Every method, implementation type and fault
  set of `MCClientAccess`; in `CDriver` all functions in any order, without limit.
- EventFeed: two events, the fewest that commit out of order, and batches of one,
  so that the limit cuts; two streams, one break; two drains and two workers, one
  passing fault, beside sinks that fail for good.
- Schedule: a day of three minutes and a walk of four steps, in the relation of
  1440 and 1464; one expression that matches on most days and one that is out of
  the walk's reach after day 0; two schedules, two ticks, one call of the operator.
- AnnLifecycle: three chunks, two sessions, six calls, `m` 1 or 2 (with `m = 1`
  edges are evicted and nodes become unreachable), limit 1, so that twice the
  limit matters; a query that is normalized and one that is not.
- TopK: five rows, three distances or none, two participants, limits 0, 2 and 4:
  a heap of four has a two-level sift-down, and five rows overflow it.

Symmetry is used in `search`, which checks no liveness. Deadlock is checked in none
of the passing runs, since the system may stop: jobs run out, calls return, a query
ends, the process exits, and the bounds on attempts, faults, events and the clock
stop the rest.

### Fairness

- Queue: a session that began a function goes on; workers poll and finish
  what they leased, an assumption on the client; the reaper is run on a schedule;
  time passes; PostgreSQL detects deadlocks. A producer need not call.
- PageIndexWorker: `run_forever` loops, and the reaper is run on a schedule. No
  statement has to fail and no connection to break.
- RunChild, ProxyStdio: the listener's thread goes on, the deadline passes, the
  kernel delivers SIGKILL. Of the child nothing is assumed, except in the
  scenario `diligent`, whose property is about a child that works.
- Listener: `main()` goes on. The polling thread takes its connections in turn, so
  a connection that is again and again ready between the calls of others is
  served (strong fairness), and the same holds for the shutdown, which must find
  the thread between calls; this includes that every call returns. Nobody has to
  send, to hang up or to signal.
- EventFeed: realtimed has a thread per stream, clients reconnect and acknowledge,
  an ack that was sent arrives; the loop of a logsd worker never ends. No
  transaction has to commit.
- Schedule: the clock calls `schedule_tick` again and again, and a call gets on.

## Proofs

The theorems hold for all values of the constants that satisfy the named
assumptions of the modules (`QueueAssumption`, `EventLogAssumption`,
`ListenerAssumption`, `ChildAssumption`, `RunChildAssumption`,
`ProxyStdioAssumption`, `ScheduleAssumption`, `AnnAssumption`, `NswAssumption`),
which TLC evaluates in the runs. They say that bounds and sizes are natural
numbers, that sizes are not zero, that the values standing for "nobody" and "no
index" are not a session or a graph, and that there are finitely many schedules.

| Module | Theorem | Establishes |
|---|---|---|
| `QueueProofs` | `TypeCorrect` | `Spec => []TypeOK` |
| | `LeasedJobsAreRecoverable` | `LeasedHasLease` |
| | `DeadJobsWereRetried` | `DeadIsExhausted` |
| `QueueRefinementProofs` | `TimelyWorkersAreAlone` | `SoleWorker`, if `Timely` |
| | `TimelyQueueIsAtomic` | `ImplementsAbstractQueue`, if `Timely` |
| `EventFeedProofs` | `NothingInOrderIsMissed` | `SkippedOnlyIfLate` |
| | `NothingInOrderIsDropped` | `PassedIsShipped` |
| `ListenerProofs` | `ListenerLeavesNothing` | `NothingLeftBehind` |
| | `ListenerBodyIsWhole` | `BodyIsWhole` |
| `RunChildProofs` | `SuccessMeansComplete` | `SuccessIsComplete` |
| | `StdinEndsWithTheEnvelope` | `StdinEofIsHonest` |
| | `RunChildReturnsClean` | `ReturnsClean` |
| `ProxyStdioProofs` | `SmallResponsesAreWhole` | `SmallResponseIsComplete` |
| | `ProxyReturnsClean` | `ReturnsClean` |
| `ScheduleProofs` | `CronFindsTheFirst` | `NextIsFirst` |
| | `AloneActsOnce` | `OnceIfAlone` |
| `AnnLifecycleProofs` | `CountStaysTrue` | `CountIsTrue` |
| | `ChunksStayFindable` | `Findable` |
| | `SearchesForget` | `AnswersForget` |

*Leases.* `LeasedHasLease` is about committed rows and is not inductive: a commit
publishes what a transaction wrote several steps earlier. `LeaseInv` adds what an
open transaction may have done. Two transactions never hold the same job or lease
row (`RowsExclusive`). A deleted lease row still exists for everybody else. Only
`queue_lease` writes "leased", in the step that inserts the lease row. A
transaction that deleted a lease row and did not write the job (because its UPDATE
matched nothing) has a job that is not leased, and its deleted row keeps others
from leasing the job until the commit (`Skipped`). The lease row carries the number
of the latest lease (`LeaseIsLatest`).

*Dead jobs.* `DeadInv`: what `queue_nack` read of `attempts` is at most the present
value, because no step lowers `attempts` (`AttemptsGrow`), so a decision to kill
made on a stale value is still right when it is written.

*Refinement.* `TimelyInv` says that a job a worker holds is leased under the
worker's own lease row, which has not lapsed (`HeldInv`). The reaper takes only
lapsed rows and nobody leases a job that is not pending; so the row `queue_nack`
updates without looking is still the one it read, and a status written by an open
transaction replaces the one the abstract step expects (`WriteInv`). Each commit is
then one step of `AbstractQueue` (`EnqueueIsEnqueue`, `LeaseIsLease`,
`AckIsComplete`, `NackIsRetryOrBury`, `ReapIsReclaim`) and every other step leaves
the mapped variables alone. It needs `LeaseInv`, `DeadInv` and `Timely`; without
timely workers it is false (below).

*Feed.* A position is covered when every visible event up to it was delivered or is
late. A commit keeps a position covered if the position is itself a visible event,
since an id that appears below a visible one is late. `SubInv` and `DrainInv` say
of every number that may become a cursor (an ack on its way, a value a worker has
read or set) that it is such a position, and of every fetched batch that nothing
between its events is left out.

*Listener.* `LInv`: the polling thread alone opens database connections, is in a
call for a connection exactly while that request is in phase "call", and exists
only between `http_start` and `http_stop`. For `BodyIsWhole` it adds that an
upload has buffered what was handed over and no more, below its capacity; the
doubling of the buffer ends at the first size that holds the next chunk.

*Children.* `RInv` and `PInv` say what holds at each place of the function
(`Stages`) and account for the data (`Collected`): while stdout is open, what the
child has written is in the buffer or in the pipe, and stdout is closed only when
the child can write no more (or, in `run_child`, has written too much). What
`select()` or `poll()` reported stays true until the handler acts on it.
`Envelope` says the same of stdin.

*Schedule.* `NextIsFirst` is about the walk alone: by induction over its rounds,
no minute before the one looked at matches, because a skip starts at a midnight
and passes over one day that does not match, and round `n` is at least `n` minutes
on. `OnceIfAlone` is not inductive: a tick acts in one step and moves the row in a
later one. `ScheduleInv` says of every tick that, as long as no call has committed
since a tick began, its list still agrees with the rows and what it has done is
for the due time in the row (`Visits`); what it has armed is later than its start,
which is no earlier than the due time. So its commit leaves every row it acted for
beyond that time (`Alone`).

*Chunks.* `AnnInv`: who has written the compartment's row holds its lock
(`Locked`), and a transaction that commits a change of chunks, delta or index has
written it (`QuietWithoutRow`), so there is one such transaction at a time and what
it has worked out stays true until its commit: the count it wrote is that of the
chunks there will be (`Counts`), the graph it built has every chunk that is not
forgotten, and a registration that saw no index commits while there is none
(`Finds`). Chunk ids are given out once (`Fresh`, `Apart`). What is forgotten has a
tombstone or no row, unless `ann_rebuild` cleared it (`Forgets`). Of the graph
algorithms the proof needs that a build puts exactly its chunks into the graph
(`BuildResult`), and that a search filters what it finds.

*Recursion.* The doubling buffer, the walk of `cron_next_after` and the rounds of a
build are recursive functions. Their existence is proved by extending a function
on `0 .. k` by one value (`DoublingExists`, `WalkExists`, `BuildExists`), and what
they compute by taking the least round at which it fails, which exists by the
well-foundedness of the natural numbers (`LeastElement`).

Only model-checked:

- every liveness property: liveness under fairness is outside TLAPS;
- `AnswerIsExact` and the properties of `TopK`, which say what the beam search, the
  heaps and the serialised states compute. Their recursions run over beams and over
  pairs of a heap and an index, and folds over sequences, not over the natural
  numbers, so the argument under *Recursion* does not carry over as it stands;
- the safety properties of `ToolCall` and `CDriver`. Their constants select among
  fixed finite sets and no size is left to generalise over: the runs take every
  method, implementation type and function, with failures that may happen
  wherever the code meets one.

## What the code does not keep

The properties are stated as the code keeps them; where one carries a condition,
the code does something else without it.

- *Queue.* "no two workers can lease the same job" (SQL 20369) holds for timely
  workers. When a worker outlives its window, its late `queue_nack` returns a job
  to pending that another worker holds, and a third can lease it; a late commit can
  also reopen a settled job or leave a lease row without a leased job. Two producers
  with the same idempotency key: the second can get a unique violation instead of
  the existing id (22312).
  "dead" once "attempts > queue.max_retries" (20376): `queue_nack` compares with
  `>=` (20734), so a job gets one lease less, which is what `DeadIsExhausted`
  states and the test `sql/queue.sql` expects (run `queue_retry_limit`).
- *maludb-pageindexd.* `_fetch_source` selects outside any block (`builder.py:154`),
  which opens a transaction on a connection without autocommit. From then on every
  block is a savepoint, nothing commits, and what was built and acknowledged is
  gone when the connection is; the reaper waits for the locked rows until then
  (run `pageindex_worker`).
- *external_exec.* A child that closes its outputs and keeps running is never timed
  out, since `waitpid` has no bound (`exec.c:497`), and the listener's only thread
  waits with it. An output of exactly `max_output_bytes` is treated as an overflow.
  When `select()` itself fails, `run_child` returns without reaping the child.
- *mcp_proxy.* A response longer than one `read()` that arrives together with the
  hangup is cut off and reported as a success (`proxy.c:363`).
- *Tool calls.* A failed `_end_request` is answered with success and rolled back
  (`dispatch.c:139`, run `call_not_committed`). A reply lost after COMMIT is answered
  as an error although the work is there. A tool deleted during its call leaves no
  audit row.
- *C driver.* `pool_create`, `pool_add_observation`, `skill_begin_execution`,
  `node_submit` and the two build functions send an optional parameter that could
  not be allocated as NULL, and succeed. A call that fails because the connection
  broke, memory ran out or the answer was NULL may have been committed.
- *Feed.* "at-least-once delivery" (SQL 22094) fails for an event whose transaction
  commits after that of a larger id when the cursor has passed it; so it is with log
  drains. `log_drain_advance_cursor` "only moves the cursor forward" (24991) for one
  worker: with two, the later UPDATE can set it back, which repeats records and loses
  none. A drain whose visit raises anything but a SinkError rolls back every pass,
  and the drains after it get nothing.
- *Schedule.* "schedule_run_now already recorded the failure" (21369): the record
  is undone with the subtransaction (run `schedule_failure`), and with the
  caller's transaction when `schedule_run_now` is called directly. "up to 4 years
  out" (21071): the loop makes 1464 iterations of mostly a minute, so an
  expression without a match in about a day, not counting a day or two that are
  skipped, raises; inside a tick it undoes the whole tick, each time. "the first
  time >= p_after" (21029) is the first time after it. Ticks that overlap act
  twice on one due time, and a tick re-arms a schedule that was disabled or
  changed meanwhile.
- *ANN.* "A tombstoned chunk is gone from every search path" (54919) until
  `ann_rebuild` deletes the tombstone of a chunk whose row is still there (7327): the
  next rebuild brings the chunk back. A search during which a build commits can miss
  a chunk of the drained delta. A graph of an empty compartment raises on every
  search (`maludb_ann.c:399`). More tombstoned nodes than the limit, or evicted
  edges, leave an answer short. With `l2` or `inner_product` and a query that is
  not normalized, graph hits and delta hits are measured from different points
  (7527, 7537) and ranked together.
- *Parallel scan.* "results identical across both backends": an empty text comes
  back as NULL (`maludb_topk.c:192`), and a limit that is not positive, which the
  scan refuses, is noticed only when there is a row to score (263).

## Not modelled

- The embedding queue, the skill and document reindex protocols and the model
  gateway: the worker, or the gateway that would race with the stub, is outside the
  repository, so half of each protocol would be assumed.
- The nodes of a page-index tree and what a repeated build does to them.
- Facts, memories, supersession, atomic ingest (`maludb_atomic.c`), graph import,
  paths and communities: a fixed series of statements in one transaction or queries
  over one snapshot, where PostgreSQL's atomicity is the whole argument.
- Principals, grants and row policies: evaluated by PostgreSQL for each query.
- JWT verification and secrets: parsing of tokens character by character, and
  calls into OpenSSL. The vector type: floating-point arithmetic and its text.
- restd, mcp-broker, the command line and the Python and PHP drivers: stateless
  wrappers of one SQL call each. Scripts and build rules.
- Of the modelled parts: set-up calls (`queue_register`, creating compartments,
  subscriptions and drains), the text of requests, answers, SQL and `/metrics`, TLS
  and configuration values, the libcurl transfer, WebSocket framing, the formats of
  the sinks, ties and NaN in distances of the graph.
