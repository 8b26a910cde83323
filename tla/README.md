# Formal model of emonjava

emonjava connects Java programs to [emoncms](https://emoncms.org): over HTTP, over
MQTT, or by reading and writing the emoncms databases (MySQL and Redis) directly. The
OpenMUC bundle is a data logger on top of it: it takes the records of a data manager
and hands them to an HTTP, an MQTT and an SQL engine.

This directory holds TLA+ models of the parts of emonjava in which the order of steps
matters, TLC configurations that check them on small instances, and TLAPS proofs that
hold for every size. `PROJECT.json` maps each definition to the lines of code it models,
and lists runs, mutants, hazards, findings and theorems.

    cd tla
    tlc -workers 2 -config MCHttp.cfg MCHttp     # one run
    tlapm SqlEngineProofs.tla                    # one module of proofs

Paths below are relative to the repository; packages are written as `http/`, `sql/`,
`redis/`, `mqtt/`, `hibernate/` (all `core/*/src/main/java/org/emoncms/*`), `api/`
(`api/src/main/java/org/emoncms`) and `openmuc/`
(`bundles/openmuc/src/main/java/org/openmuc/framework/datalogger/emoncms`).

## 1. The system

| component | state | operations | made correct by |
|---|---|---|---|
| `http/HttpConnection`, `request/HttpCallable` | `closed`, `executor`, `maxThreads`; the pool's queue, threads and Futures | `open`, `close`, `setMaxThreads`; every request goes through the synchronized `submitRequest` | what a caller is told agrees with what the server did; no task is lost or started late; an abandoned request does not undo a later one; every call returns |
| `request/HttpCallable`, `HttpResponse`, the reading methods, `api/data/ProcessList` | the worker's deadline and the text read so far | `call`, `read`, `verifyResponse`, the parsing of answers | a refusal is heard; a part of an answer is not taken for the whole; only a line that never ends keeps the worker; a process list survives being read and set |
| `http/HttpInput`, `http/HttpFeed` | the cached fields of one object | setters, `post`, `load`, `clear` | the object shows only what the server has held, and the present after an undisturbed call (but for `load` of a feed, see the findings) |
| `openmuc/EngineLogger`, `EngineCollection`, `EngineChannel` | the map of engines, the engine of each channel | `activate`, `configure`, `write`, `deactivate` | a failing engine harms no other; a channel reaches its own engine; nothing is left open |
| `http/HttpBuilder`, `mqtt/MqttBuilder` | static lists of connections | `build` | a later activation finds a connection it can use |
| `openmuc/http/HttpEngine`, `api/data/DataList`, `DataContainer` | none that outlives a call | `write` | every valid value arrives once, at its node, with its time, under its authentication |
| `openmuc/sql/SqlEngine`, `sql/SqlFeed`, `SqlClient`, `Transaction`, `redis/*` | the maps of feeds and inputs; tables, rows, cached values; the c3p0 pool | `configure` and its thread, `write`, `read`, `readLatest` | the cache never overtakes the database, and inputs never feeds; the maps follow the last configuration; connections come back |
| `openmuc/mqtt/MqttEngine`, `mqtt/MqttClient`, `MqttInput` | the Paho session | `open`, `close`, `publish`, `post` | a connected engine is active and is disconnected in the end |
| `hibernate/*` | session factory, map of feeds | `getFeed`, `insertData`, `getData` | (not used by the logger) |
| the rest of `api/*`, query strings and JSON bodies | immutable values | printing, encoding | (formatting) |

How they interact. OpenMUC's data manager calls `EngineLogger` from one thread, with
`configure` before `write`; OSGi activates and deactivates it between calls. `write`
groups the channels into one `EngineCollection` per engine and calls the engines one by
one. `HttpEngine` posts through an `HttpConnection`, which is shared: the builder gives
the same object to everybody with the same address, so other threads may call, open,
close and resize it at any time. `SqlEngine.configure` returns before the thread it
starts has filled the maps of feeds and inputs that `write` and the readers use. Values
go to MySQL row by row and, when caching is on, to Redis in one MULTI.

What is hard about it:

- **Concurrency without locks.** `submitRequest` is synchronized, `open`, `close` and
  `setMaxThreads` are not, and `executor` and `closed` are two plain fields. `feeds` and
  `inputs` of `SqlEngine` are plain `HashMap`s with three kinds of threads. The objects of inputs
  and feeds assign their fields after the request, without a lock.
- **Timeouts.** A caller waits 30 s for a Future and cancels it; the worker behind it
  sits on a socket without timeout and may still carry the request out. The worker has a
  deadline of its own, which it looks at between two lines of the answer only: within a
  line it waits as long as the server likes.
- **Partial failure.** One engine of three, one container of several, one channel of a
  loop, one of two stores, or the commit after them.
- **Stale state.** Static lists outlive a component; the engine of a channel is looked
  up before its default is filled in; an object's id may belong to a deleted input.

`PROJECT.json` lists each of these as a hazard, at its line, with the properties that
would notice it going wrong, or with the reason why none does yet.

## 2. Modules

| module | models | lines of code behind it |
|---|---|---|
| `RequestContract` | the abstract specification of a request: its caller is told *ok*, *failed* or *refused*, and the server carries it out at most once | the signatures of `api/Emoncms` |
| `HttpConnection` | owners, callers, pools, workers and the server | `http/HttpConnection`, `http/request/HttpCallable` |
| `HttpOrder` | `HttpConnection` with a log of submissions, a history variable | `submitRequest` |
| `HttpAnswer` | one request inside the worker: deadline, interrupt, lines of the answer, lost connections, what the caller's method makes of the text; refines `RequestContract`, uses `ProcessList` | `http/request/HttpCallable`, `HttpResponse`, the methods of `HttpConnection`, `HttpInput`, `HttpFeed` that read |
| `ProcessList` | reading, changing and printing a process list (operators) | `api/data/ProcessList`, `Process` |
| `DataList` | grouping of values by node and second, and sorting (operators) | `api/data/DataList`, `Data` |
| `HttpEngine` | one `write` call, container by container; uses `DataList` | `openmuc/http/HttpEngine`, `http/DataContainer`, `http/json` |
| `HttpEntity` | one input or feed object, two threads, the server's rows, other clients | `http/HttpInput`, `http/HttpFeed` |
| `EngineLogger` | activation, routing, the loop over collections, the connections that outlive the component | `openmuc/EngineLogger`, `EngineCollection`, `EngineChannel`, the builders, `mqtt/MqttClient` |
| `CachedStore` | the abstract specification of a database with a cache of last values: the cache takes the newest stored values of some keys in one step, or lags behind | the use of Redis in `SqlEngine.write` and `sql/SqlClient` |
| `SqlEngine` | the configuration threads, `write`, readers, database, cache and pool; refines `CachedStore` | `openmuc/sql/SqlEngine`, `sql/*`, `redis/RedisFeed`, `RedisInput`, `RedisClient` |
| `HttpConnectionProofs`, `HttpOrderProofs`, `HttpAnswerProofs`, `HttpEngineProofs`, `HttpEntityProofs`, `EngineLoggerProofs`, `SqlEngineProofs` | theorems about the module each is named for | |
| `Induction` | lemmas that the others use: induction, recursion, folds and flattening | |
| `MCHttp`, `MCAnswer`, `MCHttpEngine`, `MCEntity`, `MCLogger`, `MCSql` | values of constants and symmetry for TLC | |

The modules meet at calls. `EngineLogger` lets an engine take a collection or fail;
`HttpEngine` and `SqlEngine` say what an engine does with one. `HttpEngine` and
`HttpEntity` let a request succeed, fail, or be carried out and then fail, which is what
`RequestContract` promises and `HttpConnection` is shown to keep; that a caller who was
told *failed* may see its request take effect *later* is visible in `HttpConnection`
only. `HttpAnswer` opens up two actions of `HttpConnection`, `TaskReturns` and
`TaskThrows`, for one request, and keeps the same contract.

### HttpConnection

Each call of `onGet` or `onPost` is one member `r` of `Request`. `call[r]` is the place
of its thread: outside the monitor (`blocked`), inside `submitRequest` (`submit`, `await`,
`giveUp`), or returned. `Enter` takes the monitor and reads `closed`; `Submit` reads
`executor`; a `close()` between the two is `SubmitCrashes`. `GetGivesUp` and `Cancel` are
two steps because the task may complete between them. `open` and `close` are split at
each access of a field: `BeginClose`, `CloseShutdown`, `CloseNull`, `CloseFlag` follow
lines 126-133, `BeginOpen` to `OpenFlag` lines 136-152. A pool goes from `none` to
`running` to `shutdown`, and its threads still take queued tasks then. `wire[r]` is what
the network has seen. The server may be as late as it likes.

`Told` and `wire` map this state to `RequestContract`; `ImplementsContract` is that
refinement.

`HttpOrder` adds `log`, the submissions with their pools, in the step that submits.
`NoOvertaking` speaks of two entries of one pool with a single thread: when the server
carries the early request out while the late one is already done, the early one is on no
thread any more, that is, its worker has lost the connection. With two threads, or an old
pool that drains beside a new one, the client cannot prevent it, and the property does
not claim it.

### HttpAnswer and ProcessList

One request, from `Call` to what its method returns. The worker goes through `send`,
`status`, then for each line `check` (the condition of the loop: interrupt and deadline)
and `readLine` (which blocks), `parse`, and `End`, the `finally` block, which may replace
the result by an exception. `age` is the worker's clock in ticks, and `Tick` advances it
whatever else happens, up to one past `Timeout`. The caller gives up on its own
(`GetGivesUp`), which may be before or after the worker's deadline, since that began when
the worker did. The server sends an answer of `Answers` piece by piece: `SendsPart` adds a
token to a line that is under way, `Sends` ends the line or the answer. `readLine()` keeps
a part to itself, so that `ReadLine` waits while `Waiting` holds, past the deadline and
past an interrupt. The connection is closed within a line or between two, or is reset, and
what had come of the line is then its last one. An answer may have lines without end, or
be one line without end.

A text is a sequence of tokens, the smallest pieces that `HttpResponse` or a method tells
apart; `Accepted` is `HttpResponse` with the lenient Gson parser, for which a bare word
is JSON. `Interpreted` is what a method makes of an accepted text. `MCAnswer` lists an
answer of every kind: a word, a number, an object with each flag, arrays, process
lists, the two endless answers, another status.

`ProcessList` has `Parse` (the last of two equal processes wins, in the place of the
first), `Put` and `Print`; `ListExtends` compares a list that is read, extended and set
with the list the server had.

### SqlEngine

`task[g]` is the thread of the `g`-th `configure()`: it takes a connection
(`TaskConnect`), and for each channel skips it (`TaskSkip`: the id is rejected while the
channel is read, which is caught inside the loop), aborts (`TaskAbort`: an exception that
is caught outside), or creates the table, puts the input if it has one, and puts the feed
(`TaskCreate`, `TaskInput`, `TaskPut`: a writer may run between any two). `TaskEnd` is the try-with-resources: it
commits and closes, and a commit that throws keeps the connection. `write` runs the same
way: `BeginWrite` opens the MULTI, `WriteConnect` the transaction, then one round per
channel (the row and its feed's value in `WriteChannel`, the input's value in
`WriteInput`, each with its failures), `WriteExec`, `WriteClose`. A value is the number of its write, so `rows` and
`cache` can be compared. With `generic` a table is named by feed id, otherwise by channel.

`overlap` is a history variable: it becomes true when `configure()` is called while an
older thread or a reader is under way, or when a reader works on an older configuration. `FeedsCurrent`
is claimed without overlap only; with overlap TLC shows that an old feed may come back
(the code has nothing against it), while `FeedsComplete` holds regardless. `configure()`
clears `feeds` and leaves `inputs`: a channel that has lost its input id goes on to cache
its values under the old one, which another channel may have by now. `InputsNotOlder` says
what is left: an input is only replaced by that of a newer configuration.

### EngineLogger, HttpEngine, HttpEntity

`EngineLogger` follows `activate` engine by engine (`SkipEngine`, `ActivateHttp`,
`ActivateOther`, `FailEngine`, `FailBuild`; `Builds` is the builder's part, which a failing
`open()` leaves behind), and a call collection by collection. `Route`
and `Grouped` are the lookup of `EngineCollection`; `Rejected` is what the classes of
channels refuse. `HttpEngine` starts in every possible list of up to `Channels` channels
and then follows the two loops of `write`. A bulk request has times relative to the
present, in which they may lie on either side, and the server adds the request's time again: `Values` and
`Received` are the two directions, and `Present` the times at which a request may be made. `Sort` is what `List.sort` promises with the
comparator of `DataList`: the rearrangement by time that keeps equal times in their order. `HttpEntity` splits each method into its request and the
assignments behind it, so that two threads can assign in the other order.

## 3. Runs

The runs check invariants and properties as named in `PROJECT.json`. `CHECK_DEADLOCK` is
off in all of them: every model stops when its bounded calls are used up, and the
systems are idle then (`HttpEngine` models a single call, which ends).

| run | instance | distinct states | shows |
|---|---|---|---|
| `http` | 3 calls (symmetric), 1 owner, pools of 1 or 2 threads, 2 opens | 1 490 000 | one wanted task, no late start, pools follow the flag, no overtaking |
| `http_races` | 2 calls, 2 owners, pool size 0 or 1, 1 open | 165 000 | the contract and no wanted task lost under races of owners; calls return; a pool that is shut down drains |
| `http_crash` | 2 calls, 1 owner | violation | an undeclared exception leaves a call that races with `close()` |
| `answer` | 1 request of every method, every kind of answer, a deadline of 1 tick | 563 000 | refusals are heard; parts of objects and arrays are rejected; process lists survive; only a line without end keeps the worker; the contract |
| `sql` | 2 channels, 2 inputs, up to 2 configurations and 2 writes, 3 of both together, 2 connections | 326 000 | connections are accounted for; cache behind database, inputs behind feeds; maps current and complete; the engine implements `CachedStore`; a write ends unless the pool was lost to failed commits |
| `sql_feedid` | a channel without feed id, `generic = false` | violation | it ends the configuration of the channels behind it |
| `logger` | 3 engines, 2 channels, 2 activations | 653 000 | failures stay in their engine; every channel reaches its engine; the HTTP connection is closed |
| `logger_active` | the same | violation | a connected MQTT engine is not active and is not closed |
| `logger_build` | the same | violation | a second activation without credentials loses the HTTP engine |
| `http_engine` | lists of 1 to 3 channels, 2 nodes, 4 authentications, 2 seconds | 902 000 | values arrive once, as logged, in order, in whole groups |
| `entity` | 2 threads, 2 names, 2 contents, 2 rows, 5 calls (threads, names and contents symmetric) | 424 000 | objects never ahead of the server, and current after an undisturbed setter, post or load of an input |
| `entity_load` | the same | violation | a feed still shows an old process list, or a dropped value, after `load()` |

Why these bounds. *http*: the hazards need a call that holds the monitor, one that waits
behind it, and an abandoned task on the pool's only thread; with two opens there is an old pool
that still drains beside the new one, on one thread or two, and an abandoned call can
meet a later one in either pool. Two owners at once are in `http_races`, where one open
is enough for every pair of steps of `close` and `open` to meet. *answer*: with a deadline of one tick the worker reads zero,
one or more lines before it, and the caller gives up before, at and after it; no answer
of the list has more than three lines, but for the two without end. *sql*: two
configurations have an old thread beside a new one, and `MCFeedId` makes a feed id
move from one channel to another, `MCInputId` an input; two writes give an old cached
value beside a new row; two connections can be held by two threads at once, or be lost one
by one until a third call waits for ever. `MaxCalls` keeps the two pairs apart, one
configuration with two writes or two with one: with two of both the run has 1 631 000
states and is too long for liveness. The safety properties are proved for every bound.
*logger*: two
activations are what the static lists need; two channels can be in the same or in
different collections, of the right or of a foreign class. *http_engine*: three
channels allow two groups, one with two values, in the same or another second, and a
present before or behind the values gives times of both signs. *entity*:
five calls allow a request of each thread, a foreign change between them and a load
after.

Each property of a passing run has a mutant: a definition of the model replaced by what
a plausible bug would make of it (marked `Mutant:` in the modules), under which TLC
finds the property violated in the same run.

### Fairness

`HttpConnection!FairSpec` is weak fairness of `CallNext(r)` for each call: a Java thread
runs on; the wait is bounded by `TIMEOUT`; and the monitor has finitely many competitors that
each leave it once. Nothing is assumed of workers, owners or the server, and `CallReturns` needs nothing
more. `ShutdownDrains` has `ServerAnswers` as its premise: fairness of the workers and of
the server's answers, which the code does not guarantee (the sockets have no timeout), so it
is stated in the property and not in the specification.

`SqlEngine!FairSpec` is weak fairness of the writer and of each configuration thread:
they are Java threads whose calls to the database return or throw. Whether
`getConnection` gets a connection is not assumed: `WriteConnect` is enabled only while one is
free, and `WriteEnds` allows the wait when all have been lost. Nobody is assumed to call
anything.

`HttpAnswer!Spec` is weak fairness of `WorkerNext` (a Java thread, whose `readLine()` is
enabled only when a line has ended, or the stream has) and of `Tick` (time passes). The premise of
`WorkerIsFreed` is that the worker is not for ever within one `readLine()`: a server that falls
silent within a line, or sends a line that never ends, keeps the worker, which has no read
timeout. Any other answer, also one of lines without end, leaves it free.

### Findings

1. `http_crash`: `close()` is not synchronized, so a call may end in a
   `NullPointerException` or `RejectedExecutionException` instead of the documented
   `EmoncmsException` (`http/HttpConnection.java:506`).
2. `sql_feedid`: with tables named by channel the optional feed id is still required,
   and its lack ends the whole configuration (`sql/SqlFeed.java:105`).
3. `logger_active`: `MqttClient.isClosed` is inverted (`mqtt/MqttClient.java:89`).
4. `logger_build`: `HttpBuilder.build` compares with credentials that may be null
   (`http/HttpBuilder.java:81`).
5. `entity_load`: "Current values for all fields can be retrieved by calling load()", says
   the class comment of `HttpFeed` (line 54), but `load()` never assigns the process list,
   and keeps a value the server has dropped (`http/HttpFeed.java:395`).

## 4. Proofs

The theorems hold for any values of the constants that satisfy the named assumptions of
the modules: bounds are natural numbers, `Free` is no request, `FeedId` and `InputId` map
channels to ids or 0. The bounds on opens, configurations and writes are parameters, so
nothing depends on their being small.

**`HttpConnectionProofs`.** `AtMostOneWanted` is not inductive: it holds because a task
is pending only while its call is inside the monitor. The invariant `IInv` therefore has
five parts besides the types: `MonitorInv` (the monitor belongs to the call inside
`submitRequest`), `StageInv` (what a call's stage says of its future and its request),
`TaskInv` (a task that waits or runs has no result), `PlaceInv` (a task is in one place of
one pool, once) and `HeldInv` (a pending task is in some pool). From it follow
`OneWanted`, `TaskIsHeld`, `LateStartNever` (an action property: a call that has returned
has a future that is cancelled or done, and `StartTask` skips those) and `Refinement`
(each step is a step of `RequestContract` or leaves its variables alone; `Succeed` needs
that a completed future has been processed, `Refuse` that a request without a future
was never sent).

`PoolsMatch` has two hypotheses. There is a single owner:
two owners whose `open` and `close` overlap can leave the flag of one beside the
executor of the other, which `http_races` allows. And no pool of size 0 is asked for:
`open()` would throw after it has shut the old pool down (a hazard listed for
`HttpConnection.java:151`). Its invariant follows the owner through the split steps of
`open` and `close`.

**`HttpOrderProofs`.** `OvertakesNever` needs more than `IInv`: `LogInv` (a logged request
is in the pool it was submitted to, or in none), `WaitInv` (a task that waits has sent
nothing) and `BehindInv` (on a single thread, while an early request waits or runs, the
later one waits behind it). `SubmitOrder`, `StartOrder` and `EndOrder` keep them step by
step; the thread that takes a task was free because a finite set of size 0 is empty.
Then the late request of a task that still runs waits, so it has not been sent.

**`SqlEngineProofs`.** `IInv` joins the five safety properties with `StageInv` (threads
that were not started, valid feeds behind `put`, a time while a write runs),
`FeedInv` (a feed's table has its id), `CurrentInv` (without overlap only the last
configuration works), `FillInv` and `InputInv` (the loop invariants of the configuration thread for
feeds and inputs), `QueueInv` (a queued value is that of this write, and an input is queued
behind a feed) and `RowInv` (the loop invariant of `write`: the rows of this write are queued, and after
`exec` cached; older rows have older times). Lemmas give the effect of a step on one part of the
state: `HoldingChange` counts the connections held by threads with the cardinality facts
of finite sets, `ConfigureEffect` says what `configure()` starts, `Separation` who may write which variable, `PutEffect` what putting a
feed means, `InsertEffect` what storing a row means. Then each part is kept
(`TypeStep`, `AccountStep`, `StageStep`, `FeedStep`, `CurrentStep`, `FeedsCurrentStep`,
`FillStep`, `InputsStep`, `InputStep`, `RowStep`), and the theorems `ConnectionsKept`,
`CacheBehind`, `OkIsCached`, `InputBehindFeed`, `InputsFollow`, `CurrentFeeds` and
`CompleteFeeds` are read off. `Refinement` maps each step to one of `CachedStore`: storing
a row is `Insert` of the keys whose tables have it (`InsertImplements`: no other row is
newer), `exec` is `Publish` of the queued keys (`ExecImplements`: each queued value is the
time of the current write, which is in the table), and the others stutter.

**`Induction`.** The library states induction with an operator as parameter, which the
provers cannot instantiate. `SetInduction` states it about a set: one that has 0 and the
successor of each of its numbers has all numbers. It follows from the well-foundedness
of `<` on the numbers. From it come `RecursionExists` and `SameRecursion` (a recursion
over an interval has one solution), `FoldExists` (so has that of the folds),
`WholeIsJoined` and `FlattenSpreads` (`FlattenSeq` joins the sequences one after the
other, and keeps every member once and in order). The other modules use these for texts,
folds and lists of any length.

**`HttpAnswerProofs`.** `IInv` joins the types with `Control` (caller, future and worker
go through the request together), `Unanswered` (without an answer nothing was read),
`Sent` (what was read, with the line that is about to be, is a beginning of the answer,
and is made of whole lines as long as the connection is not lost), `ReadToEnd` (the
worker stops before the end for a lost connection, the deadline or an interrupt only)
and `Kept` (what the method made of the answer is still what it would make).
`StructuresAreWhole` then is a fact about texts: an object or array that is accepted
ends with its closing bracket, which is the last token of the answer, so its beginnings
with it are the whole. `RefusalsHeard` combines `Sent` with `Refuses`. `ListsExtend`
says that `Parse` of a plain list of any length has the entries of the list
(`ParseOfPlain`, by induction over the fold) and that `Put` and `Print` keep them.
`Refinement` maps every step to one of `RequestContract` or a stutter.
`AnswerAssumption` says what the proofs need of an answer: it is a sequence of texts, a
closing bracket of an object or array is its last token, and an answer either means that
the request was done or refuses it, in one of the ways the emoncms API has.

**`HttpEngineProofs`.** Nothing in a container may be wrong, missing or there twice, and
all requests are made of containers. `IInv` has `Separate` (one container for an
authentication), `Contained` (one data set for a node and second, its channels in order,
and every channel where it belongs), `Gathered` (each valid channel that was passed is
in a container, unless the collection broke), `Requested` (request `r` is container `r`)
and `RequestedAlone` for the list of one channel. `AddJoins` says what `Add` does to a
list of data sets, `SortIsStable` that the order `Sort` chooses exists (by induction:
one more index goes behind those of its time), and `ContentIsWhole` that a request has
the values of its container, each once and at its second, on the single and on the bulk
path: for any time at which it is posted, since what `Values` takes away `Received` adds. `OkHasAll`,
`AsLogged`, `GroupsWhole` and `InOrder` follow: two values of one channel would be in
the same container, the same data set and the same place.

**`HttpEntityProofs`.** `NeverAhead` compares the object with `held`, the history of
what the server had. It needs the same of everything an assignment may come from: the
rows (`ServerInv`) and what a call has brought back (`AnswerInv`), since a thread
assigns after its request and other threads may have been between.
`SetterReturnsCurrent` and `InputLoadIsCurrent` need `CurrentInv`: as long as nobody met
a call, the server still has what its thread is about to assign. `FeedInv` says that a
feed keeps its id.

**`EngineLoggerProofs`.** `EnginesInv` follows `activate` from engine to engine (each
one up to `at` that is enabled is in the map or has failed), `OpenInv` ties the HTTP
connection to the map, `FilledInv` says that a configured channel has an engine,
`CallInv` that the collections hold every channel of a call under the engine it is
routed to, with those before `at` handed over, `ConfiguredInv` and `DeliveredInv` what
the calls have left behind. `GroupingFacts` shows by induction over the channels that
the fold of `EngineCollection` gives every channel that is not skipped to the collection
of its engine, with one collection for an engine. `ChannelAssumption` says that the
constant `Channel` is a sequence of the ids of channels and that `None` is not the name
of an engine.

Only model-checked are the liveness properties `CallReturns`, `ShutdownDrains`,
`WriteEnds` and `WorkerIsFreed`: liveness under fairness is out of the prover's reach.
The runs that expect a violation show theirs by counterexample. Every other property of
the runs is a theorem.

## 5. What is not modelled

- **The text of things**: URLs, query strings, SQL queries and log messages. Where a
  conversion matters it is modelled by what it does (`ToSeconds`, `Accepted`, `Print`).
- **Reads**: `read`, `readLatest`, and the Redis and SQL selects. They change no state,
  except that `read` may put a feed, which `SqlEngine` has. What was noticed in them:
  `SqlFeed.getLatestTimevalue` and `getData` format their queries with too few or too many
  arguments (`sql/SqlFeed.java:125`).
- **Data of the SQL path that no property tells apart**: names of tables that become equal
  after `toLowerCase` and the replacement of characters (`sql/SqlFeed.java:114`), the
  column types chosen by a switch that falls through (`openmuc/sql/SqlEngine.java:136-157`),
  and the record's own time, which is computed while the call's is inserted
  (lines 189-197).
- **Rounding**: `HttpInput.post` of one value rounds its time to the nearest second
  (`http/HttpInput.java:225`), the bulk post truncates it: the same value may get either of
  two seconds. `HttpEngine`, which is modelled, truncates on both of its paths.
- **The Java memory model**: a stale read of `executor` or `closed` has the effect of an
  earlier read, which the split steps have already; the internals of a `HashMap` that
  is resized under a reader are not modelled. `HttpBuilder`'s list of connections
  is filled by one thread of OSGi.
- **The HTTP library**: `HttpURLConnection` may itself send a request a second time when
  a kept connection turns out to be closed. The model assumes that it sends a POST once;
  `RequestContract` would have to be weakened to *at least once* otherwise.
- **Hibernate**: an alternative client that nothing in the logger uses, and that cannot be
  used as it is: `getFeed` reads a map that is never created
  (`hibernate/HibernateClient.java:148`), so it hands out no feed. Behind it,
  `getData` and `deleteDataRange` have start and end swapped, and `getLatest` takes the
  oldest row.
- **MQTT messages**: a publish never gets past the inverted `isClosed` on an open
  session (finding 3), so only the session is modelled. Behind it, times that `DataList`
  has turned into seconds are divided by 1000 again (`mqtt/MqttClient.java:158`), and the
  bulk post drops names (`api/data/DataList.java:51`), as that of `HttpInput` does.
- **Builders, packaging, generated documentation.** The only JavaScript in the repository
  (`docs/javadoc`: jQuery and the search of the generated API documentation) is not part
  of the program, which is written in Java, and no definition stands for it.

External code (the thread pool and `FutureTask`, `HttpURLConnection`, Gson, the emoncms
server, MySQL with MyISAM tables, Redis, c3p0, Paho, the OpenMUC data manager) is
modelled from how the code uses it.

## 6. Plan

Done, in this order: `RequestContract` and `HttpConnection` (the request path that
everything over HTTP relies on) with their proofs; `SqlEngine` with its proofs;
`EngineLogger`; `DataList` and `HttpEngine`; `HttpEntity`; the order of abandoned requests
(`HttpOrder`) with its proof; the inputs of `SqlEngine` and the refinement of
`CachedStore`, proved; `HttpAnswer` and `ProcessList`; `Induction` and the proofs of
`EngineLogger`, `HttpEntity`, `HttpAnswer` and `HttpEngine`.

Left:

1. *MQTT client and inputs*, once a publish gets past `isClosed`: times, names,
   reconnection.
2. *Composition* of `EngineLogger` with `HttpEngine` for one write across engines and
   failures of their posts. Today the two meet in the outcome of a write, *ok* or
   *failed after some of the values*.
3. *Proofs*: that `HttpAnswer` implements the two actions of `HttpConnection` it opens up,
   and not only the contract of both.
